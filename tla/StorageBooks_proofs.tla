-------------------------- MODULE StorageBooks_proofs --------------------------
(***************************************************************************)
(* For any kinds, limits and tellers: Storage implements StorageLedger, so *)
(* nothing that is stored is made or lost, and no addition that was        *)
(* checked takes the storage over its maximum.  Both are about sums over   *)
(* the list, whose laws come first.                                        *)
(***************************************************************************)
EXTENDS Storage_proofs

-----------------------------------------------------------------------------
(* Induction.                                                              *)

(* What holds of 0 and of the successor of what it holds of, holds up to n. *)
LEMMA UpTo ==
  ASSUME NEW n \in Nat, NEW T, 0 \in T, \A i \in 1..n : i - 1 \in T => i \in T
  PROVE  0..n \subseteq T
<1> DEFINE Bad == {i \in 0..n : i \notin T}
<1> SUFFICES ASSUME Bad # {} PROVE FALSE
  OBVIOUS
<1>1. PICK m \in Bad : \A k \in Bad : m =< k
  <2>1. Bad \in SUBSET Nat
    OBVIOUS
  <2> HIDE DEF Bad
  <2> QED BY <2>1, LeastNatural
<1>2. m \in 1..n /\ m - 1 \notin Bad
  BY <1>1
<1> QED BY <1>2

-----------------------------------------------------------------------------
(* Sums.                                                                   *)

Sums(f, t) == f[0] = 0 /\ \A i \in 1..Len(t) : f[i] = f[i - 1] + t[i]

LEMMA SumsExist ==
  ASSUME NEW t \in Seq(Nat)
  PROVE  \E f \in [0..Len(t) -> Nat] : Sums(f, t)
<1> DEFINE Ok(n, f) == f[0] = 0 /\ \A i \in 1..n : f[i] = f[i - 1] + t[i]
           T == {n \in 0..Len(t) : \E f \in [0..n -> Nat] : Ok(n, f)}
<1>0. Len(t) \in Nat /\ \A i \in 1..Len(t) : t[i] \in Nat
  OBVIOUS
<1>1. 0 \in T
  <2> DEFINE g == [i \in 0..0 |-> 0]
  <2>1. g \in [0..0 -> Nat] /\ Ok(0, g)
    OBVIOUS
  <2> HIDE DEF g, Ok
  <2> QED BY <1>0, <2>1
<1>2. ASSUME NEW n \in 1..Len(t), n - 1 \in T PROVE n \in T
  <2>1. PICK f \in [0..(n - 1) -> Nat] : Ok(n - 1, f)
    <3> HIDE DEF Ok
    <3> QED BY <1>2
  <2> DEFINE g == [i \in 0..n |-> IF i < n THEN f[i] ELSE f[n - 1] + t[n]]
  <2>2. g \in [0..n -> Nat]
    BY <1>0
  <2>3. Ok(n, g)
    BY <2>1
  <2>4. n \in 0..Len(t)
    BY <1>0
  <2>5. \E h \in [0..n -> Nat] : Ok(n, h)
    <3> HIDE DEF g, Ok
    <3> QED BY <2>2, <2>3
  <2> HIDE DEF Ok
  <2> QED BY <2>4, <2>5
<1>3. Len(t) \in T
  <2> HIDE DEF T
  <2>1. 0..Len(t) \subseteq T
    BY <1>0, <1>1, <1>2, UpTo
  <2> QED BY <1>0, <2>1
<1> QED BY <1>3 DEF Sums

LEMMA SumsAgree ==
  ASSUME NEW t \in Seq(Nat), NEW f, NEW g, Sums(f, t), Sums(g, t)
  PROVE  \A i \in 0..Len(t) : f[i] = g[i]
<1> DEFINE T == {i \in 0..Len(t) : f[i] = g[i]}
<1>1. Len(t) \in Nat /\ 0 \in T /\ \A i \in 1..Len(t) : i - 1 \in T => i \in T
  BY DEF Sums
<1> HIDE DEF T
<1>2. 0..Len(t) \subseteq T
  BY <1>1, UpTo
<1> QED BY <1>2 DEF T

(* The total is the last of the partial sums, however they are had.        *)
LEMMA TotalIs ==
  ASSUME NEW t \in Seq(Nat)
  PROVE  /\ Total(t) \in Nat
         /\ \E f \in [0..Len(t) -> Nat] : Sums(f, t) /\ Total(t) = f[Len(t)]
         /\ \A g : Sums(g, t) => Total(t) = g[Len(t)]
<1> DEFINE n == Len(t)
           IsSum(f) == f = [i \in 0..n |-> IF i = 0 THEN 0 ELSE f[i - 1] + t[i]]
           sum == CHOOSE f : IsSum(f)
<1>1. PICK f \in [0..n -> Nat] : Sums(f, t)
  BY SumsExist
<1>2. IsSum(f)
  BY <1>1 DEF Sums
<1>3. IsSum(sum)
  BY <1>2
<1>4. Total(t) = sum[n]
  BY DEF Total
<1> HIDE DEF sum
<1>5. Sums(sum, t)
  <2>1. n \in Nat /\ 0 \in 0..n /\ \A i \in 1..n : i \in 0..n /\ i # 0
    OBVIOUS
  <2>2. sum[0] = 0
    BY <1>3, <2>1
  <2>3. ASSUME NEW i \in 1..n PROVE sum[i] = sum[i - 1] + t[i]
    BY <1>3, <2>1
  <2> QED BY <2>2, <2>3 DEF Sums
<1>6. ASSUME NEW g, Sums(g, t) PROVE Total(t) = g[n]
  BY <1>4, <1>5, <1>6, SumsAgree
<1> QED BY <1>1, <1>6

(* One more at the end.                                                    *)
LEMMA TotalAppend ==
  ASSUME NEW t \in Seq(Nat), NEW u \in Seq(Nat), Len(u) = Len(t) + 1,
         \A j \in 1..Len(t) : u[j] = t[j]
  PROVE  Total(u) = Total(t) + u[Len(u)]
<1>1. PICK f \in [0..Len(u) -> Nat] : Sums(f, u) /\ Total(u) = f[Len(u)]
  BY TotalIs
<1>2. Sums(f, t)
  BY <1>1 DEF Sums
<1>3. Total(t) = f[Len(t)]
  BY <1>2, TotalIs
<1>4. Len(u) \in 1..Len(u) /\ Len(u) - 1 = Len(t)
  OBVIOUS
<1>5. f[Len(u)] = f[Len(u) - 1] + u[Len(u)]
  BY <1>1, <1>4 DEF Sums
<1> QED BY <1>1, <1>3, <1>4, <1>5, Zenon

(* At j, g sums up u, which is t without its i-th number, as f sums up t.  *)
OneOut(f, t, g, u, i, j) ==
  /\ f[j] = f[j - 1] + t[j] /\ f[j + 1] = f[j] + t[j + 1]
  /\ {f[j], f[j - 1], t[j], t[j + 1], t[i]} \subseteq Nat
  /\ u[j] = IF j < i THEN t[j] ELSE t[j + 1]
  /\ g[j] = IF j < i THEN f[j] ELSE f[j + 1] - t[i]
  /\ g[j - 1] = IF j - 1 < i THEN f[j - 1] ELSE f[j] - t[i]

LEMMA SumWithout ==
  ASSUME NEW f, NEW t, NEW g, NEW u, NEW i \in Nat, NEW j \in Nat, OneOut(f, t, g, u, i, j)
  PROVE  g[j] = g[j - 1] + u[j]
<1> USE DEF OneOut
<1>1. CASE j < i
  BY <1>1
<1>2. CASE j = i
  <2>1. g[j] = f[j + 1] - t[j] /\ g[j - 1] = f[j - 1] /\ u[j] = t[j + 1]
    BY <1>2
  <2> QED BY <2>1
<1>3. CASE j > i
  <2>1. g[j] = f[j + 1] - t[i] /\ g[j - 1] = f[j] - t[i] /\ u[j] = t[j + 1]
    BY <1>3
  <2> QED BY <2>1
<1> QED BY <1>1, <1>2, <1>3

(* One taken out.                                                          *)
LEMMA TotalRemove ==
  ASSUME NEW t \in Seq(Nat), NEW u \in Seq(Nat), Len(u) = Len(t) - 1, NEW i \in 1..Len(t),
         \A j \in 1..Len(u) : u[j] = IF j < i THEN t[j] ELSE t[j + 1]
  PROVE  Total(u) = Total(t) - t[i]
<1>0. /\ Len(t) \in Nat /\ Len(u) \in Nat /\ Len(u) + 1 = Len(t) /\ i \in Nat /\ i > 0
      /\ \A j \in 1..Len(t) : t[j] \in Nat
  OBVIOUS
<1>1. PICK f \in [0..Len(t) -> Nat] : Sums(f, t) /\ Total(t) = f[Len(t)]
  BY TotalIs
<1> DEFINE g == [j \in 0..Len(u) |-> IF j < i THEN f[j] ELSE f[j + 1] - t[i]]
<1>2. g[0] = 0
  BY <1>1 DEF Sums
<1>3. ASSUME NEW j \in 1..Len(u) PROVE g[j] = g[j - 1] + u[j]
  <2>0. /\ j \in 1..Len(t) /\ j + 1 \in 1..Len(t) /\ (j + 1) - 1 = j
        /\ {j - 1, j, j + 1} \subseteq 0..Len(t)
    BY <1>0
  <2>1. /\ f[j] = f[j - 1] + t[j] /\ f[j + 1] = f[j] + t[j + 1]
        /\ f[j] \in Nat /\ f[j - 1] \in Nat /\ f[j + 1] \in Nat
    <3>1. f[j + 1] = f[(j + 1) - 1] + t[j + 1] /\ f[j] = f[j - 1] + t[j]
      BY <1>1, <2>0 DEF Sums
    <3> QED BY <1>1, <2>0, <3>1
  <2>2. t[j] \in Nat /\ t[j + 1] \in Nat /\ t[i] \in Nat
    BY <1>0, <2>0, Zenon
  <2>3. u[j] = IF j < i THEN t[j] ELSE t[j + 1]
    OBVIOUS
  <2>4. /\ g[j] = IF j < i THEN f[j] ELSE f[j + 1] - t[i]
        /\ g[j - 1] = IF j - 1 < i THEN f[j - 1] ELSE f[j] - t[i]
    <3>1. j \in 0..Len(u) /\ j - 1 \in 0..Len(u) /\ (j - 1) + 1 = j
      BY <1>0
    <3> QED BY <3>1
  <2> HIDE DEF g
  <2>5. j \in Nat /\ i \in Nat
    BY <1>0
  <2>6. OneOut(f, t, g, u, i, j)
    BY <2>1, <2>2, <2>3, <2>4 DEF OneOut
  <2> QED BY <2>5, <2>6, SumWithout
<1>4. Total(u) = g[Len(u)]
  <2>1. Sums(g, u)
    BY <1>2, <1>3 DEF Sums
  <2> HIDE DEF g
  <2> QED BY <2>1, TotalIs
<1>5. g[Len(u)] = Total(t) - t[i]
  <2>1. CASE Len(u) < i
    <3>1. Len(u) = i - 1 /\ i = Len(t) /\ i - 1 \in 0..Len(t) /\ i \in 0..Len(t)
      BY <1>0, <2>1
    <3>2. f[i] = f[i - 1] + t[i] /\ f[i] \in Nat /\ f[i - 1] \in Nat /\ t[i] \in Nat
      <4>1. t[i] \in Nat /\ i \in 1..Len(t)
        OBVIOUS
      <4>2. f[i] = f[i - 1] + t[i]
        BY <1>1, <4>1 DEF Sums
      <4> QED BY <1>1, <3>1, <4>1, <4>2
    <3>3. g[Len(u)] = f[i - 1]
      BY <2>1, <3>1
    <3> QED BY <1>1, <3>1, <3>2, <3>3
  <2>2. CASE ~(Len(u) < i)
    BY <1>1, <2>2
  <2> QED BY <2>1, <2>2
<1> QED BY <1>4, <1>5

(* One changed: without it, the lists are the same.                        *)
LEMMA TotalExcept ==
  ASSUME NEW t \in Seq(Nat), NEW u \in Seq(Nat), Len(u) = Len(t), NEW i \in 1..Len(t),
         \A j \in 1..Len(t) : j # i => u[j] = t[j]
  PROVE  Total(u) = Total(t) - t[i] + u[i]
<1> DEFINE w == RemoveAt(t, i)
<1>1. /\ w \in Seq(Nat) /\ Len(w) = Len(t) - 1
      /\ \A j \in 1..Len(w) : w[j] = IF j < i THEN t[j] ELSE t[j + 1]
  BY RemoveAtProperties
<1> HIDE DEF w
<1>2. Total(w) = Total(t) - t[i]
  BY <1>1, TotalRemove
<1>3. ASSUME NEW j \in 1..Len(w) PROVE w[j] = IF j < i THEN u[j] ELSE u[j + 1]
  <2>1. /\ j \in 1..Len(t) /\ j + 1 \in 1..Len(t)
        /\ (j < i => j # i) /\ (~(j < i) => j + 1 # i)
    <3>1. Len(t) \in Nat /\ j \in 1..(Len(t) - 1) /\ i \in Nat
      <4>1. Len(t) \in Nat /\ i \in Nat
        OBVIOUS
      <4> QED BY <1>1, <4>1, Zenon
    <3>2. j \in 1..Len(t) /\ j + 1 \in 1..Len(t)
      BY <3>1
    <3>3. (j < i => j # i) /\ (~(j < i) => j + 1 # i)
      BY <3>1
    <3> QED BY <3>2, <3>3
  <2>2. (j < i => u[j] = t[j]) /\ (~(j < i) => u[j + 1] = t[j + 1])
    BY <2>1
  <2> QED BY <1>1, <2>2
<1>4. Total(w) = Total(u) - u[i]
  BY <1>1, <1>3, TotalRemove
<1>5. Total(t) \in Nat /\ Total(u) \in Nat /\ t[i] \in Nat /\ u[i] \in Nat
  BY TotalIs
<1> QED BY <1>2, <1>4, <1>5

(* Nothing but zeros, and no part is more than the whole.                  *)
LEMMA TotalZero ==
  ASSUME NEW t \in Seq(Nat), \A i \in 1..Len(t) : t[i] = 0
  PROVE  Total(t) = 0
<1>1. Sums([i \in 0..Len(t) |-> 0], t)
  BY DEF Sums
<1>2. Total(t) = [i \in 0..Len(t) |-> 0][Len(t)]
  BY <1>1, TotalIs
<1> QED BY <1>2

LEMMA TotalOne ==
  ASSUME NEW t \in Seq(Nat), Len(t) = 1
  PROVE  Total(t) = t[1]
<1>1. PICK f \in [0..Len(t) -> Nat] : Sums(f, t) /\ Total(t) = f[Len(t)]
  BY TotalIs
<1>2. 1 \in 1..Len(t) /\ f[1] = f[1 - 1] + t[1] /\ f[0] = 0 /\ t[1] \in Nat
  BY <1>1 DEF Sums
<1> QED BY <1>1, <1>2

LEMMA PartOfTotal ==
  ASSUME NEW t \in Seq(Nat), NEW i \in 1..Len(t)
  PROVE  t[i] =< Total(t)
<1>1. /\ RemoveAt(t, i) \in Seq(Nat) /\ Len(RemoveAt(t, i)) = Len(t) - 1
      /\ \A j \in 1..(Len(t) - 1) : RemoveAt(t, i)[j] = IF j < i THEN t[j] ELSE t[j + 1]
  BY RemoveAtProperties
<1>2. Total(RemoveAt(t, i)) = Total(t) - t[i]
  BY <1>1, TotalRemove
<1>3. Total(RemoveAt(t, i)) \in Nat /\ Total(t) \in Nat /\ t[i] \in Nat
  BY <1>1, TotalIs
<1> QED BY <1>2, <1>3

-----------------------------------------------------------------------------
(* The sum of a list's elements, each counting z of it.                    *)

Sizes(s, z) == [i \in DOMAIN s |-> z[s[i]]]
Weigh(s, z) == Total(Sizes(s, z))

LEMMA SizesFit ==
  ASSUME NEW S, NEW z \in [S -> Nat], NEW s \in Seq(S)
  PROVE  /\ Sizes(s, z) \in Seq(Nat) /\ Len(Sizes(s, z)) = Len(s)
         /\ \A i \in 1..Len(s) : Sizes(s, z)[i] = z[s[i]] /\ s[i] \in S
         /\ Weigh(s, z) \in Nat
<1>1. \A i \in 1..Len(s) : s[i] \in S /\ z[s[i]] \in Nat
  OBVIOUS
<1>2. /\ Sizes(s, z) \in [1..Len(s) -> Nat] /\ Len(s) \in Nat
      /\ \A i \in 1..Len(s) : Sizes(s, z)[i] = z[s[i]]
  BY <1>1 DEF Sizes
<1>3. Sizes(s, z) \in Seq(Nat) /\ Len(Sizes(s, z)) = Len(s)
  BY <1>2
<1> QED BY <1>1, <1>2, <1>3, TotalIs DEF Weigh

LEMMA WeighAppend ==
  ASSUME NEW S, NEW z \in [S -> Nat], NEW s \in Seq(S), NEW x \in S
  PROVE  Weigh(Append(s, x), z) = Weigh(s, z) + z[x]
<1> DEFINE u == Append(s, x)
<1>1. /\ u \in Seq(S) /\ Len(u) = Len(s) + 1 /\ u[Len(s) + 1] = x /\ Len(s) \in Nat
      /\ \A i \in 1..Len(s) : u[i] = s[i]
  OBVIOUS
<1> HIDE DEF u
<1>2. /\ Sizes(s, z) \in Seq(Nat) /\ Len(Sizes(s, z)) = Len(s)
      /\ \A i \in 1..Len(s) : Sizes(s, z)[i] = z[s[i]] /\ s[i] \in S
  BY SizesFit, Zenon
<1>3. /\ Sizes(u, z) \in Seq(Nat) /\ Len(Sizes(u, z)) = Len(u)
      /\ \A i \in 1..Len(u) : Sizes(u, z)[i] = z[u[i]] /\ u[i] \in S
  BY <1>1, SizesFit, Zenon
<1>4. /\ Len(u) \in 1..Len(u) /\ u[Len(u)] = x
      /\ \A i \in 1..Len(s) : i \in 1..Len(u)
  BY <1>1
<1>5. Len(Sizes(u, z)) = Len(Sizes(s, z)) + 1
  BY <1>1, <1>2, <1>3
<1>6. \A i \in 1..Len(Sizes(s, z)) : Sizes(u, z)[i] = Sizes(s, z)[i]
  BY <1>1, <1>2, <1>3, <1>4
<1>7. Total(Sizes(u, z)) = Total(Sizes(s, z)) + Sizes(u, z)[Len(Sizes(u, z))]
  BY <1>2, <1>3, <1>5, <1>6, TotalAppend
<1>8. Sizes(u, z)[Len(Sizes(u, z))] = z[x]
  BY <1>3, <1>4
<1> QED BY <1>7, <1>8 DEF Weigh, u

LEMMA WeighExcept ==
  ASSUME NEW S, NEW z \in [S -> Nat], NEW s \in Seq(S), NEW u \in Seq(S), Len(u) = Len(s),
         NEW i \in 1..Len(s), \A j \in 1..Len(s) : j # i => u[j] = s[j]
  PROVE  Weigh(u, z) = Weigh(s, z) - z[s[i]] + z[u[i]]
<1>1. /\ Sizes(s, z) \in Seq(Nat) /\ Len(Sizes(s, z)) = Len(s)
      /\ \A j \in 1..Len(s) : Sizes(s, z)[j] = z[s[j]] /\ s[j] \in S
  BY SizesFit, Zenon
<1>2. /\ Sizes(u, z) \in Seq(Nat) /\ Len(Sizes(u, z)) = Len(u)
      /\ \A j \in 1..Len(u) : Sizes(u, z)[j] = z[u[j]] /\ u[j] \in S
  BY SizesFit, Zenon
<1>3. ASSUME NEW j \in 1..Len(Sizes(s, z)), j # i PROVE Sizes(u, z)[j] = Sizes(s, z)[j]
  <2>1. j \in 1..Len(s) /\ j \in 1..Len(u)
    BY <1>1, Zenon
  <2>2. u[j] = s[j]
    BY <1>3, <2>1, Zenon
  <2>3. Sizes(s, z)[j] = z[s[j]] /\ Sizes(u, z)[j] = z[u[j]]
    BY <1>1, <1>2, <2>1, Zenon
  <2> QED BY <2>2, <2>3
<1>4. Total(Sizes(u, z)) = Total(Sizes(s, z)) - Sizes(s, z)[i] + Sizes(u, z)[i]
  BY <1>1, <1>2, <1>3, TotalExcept
<1> QED BY <1>1, <1>2, <1>4 DEF Weigh

LEMMA WeighChanged ==
  ASSUME NEW S, NEW z \in [S -> Nat], NEW s \in Seq(S), NEW i \in 1..Len(s), NEW x \in S
  PROVE  Weigh([s EXCEPT ![i] = x], z) = Weigh(s, z) - z[s[i]] + z[x]
<1> DEFINE v == [s EXCEPT ![i] = x]
<1>1. /\ v \in Seq(S) /\ Len(v) = Len(s) /\ v[i] = x
      /\ \A j \in 1..Len(s) : j # i => v[j] = s[j]
  OBVIOUS
<1> HIDE DEF v
<1>2. Weigh(v, z) = Weigh(s, z) - z[s[i]] + z[v[i]]
  BY <1>1, WeighExcept
<1> QED BY <1>1, <1>2 DEF v

LEMMA ItemsChanged ==
  ASSUME NEW z \in [Item -> Nat], NEW s \in Seq(Item), NEW i \in 1..Len(s), NEW x \in Item
  PROVE  Weigh([s EXCEPT ![i] = x], z) = Weigh(s, z) - z[s[i]] + z[x]
BY WeighChanged

LEMMA WeighRemove ==
  ASSUME NEW S, NEW z \in [S -> Nat], NEW s \in Seq(S), NEW i \in 1..Len(s)
  PROVE  /\ Weigh(RemoveAt(s, i), z) = Weigh(s, z) - z[s[i]]
         /\ z[s[i]] \in Nat /\ z[s[i]] =< Weigh(s, z)
<1> DEFINE u == RemoveAt(s, i)
<1>1. /\ u \in Seq(S) /\ Len(u) = Len(s) - 1 /\ Len(s) \in Nat
      /\ \A j \in 1..(Len(s) - 1) : u[j] = IF j < i THEN s[j] ELSE s[j + 1]
  <2>1. Len(s) \in Nat
    OBVIOUS
  <2> QED BY <2>1, RemoveAtProperties, Zenon
<1> HIDE DEF u
<1>2. /\ Sizes(s, z) \in Seq(Nat) /\ Len(Sizes(s, z)) = Len(s)
      /\ \A j \in 1..Len(s) : Sizes(s, z)[j] = z[s[j]] /\ s[j] \in S
  BY SizesFit, Zenon
<1>3. /\ Sizes(u, z) \in Seq(Nat) /\ Len(Sizes(u, z)) = Len(u)
      /\ \A j \in 1..Len(u) : Sizes(u, z)[j] = z[u[j]] /\ u[j] \in S
  BY <1>1, SizesFit, Zenon
<1>4. ASSUME NEW j \in 1..Len(Sizes(u, z))
      PROVE  Sizes(u, z)[j] = IF j < i THEN Sizes(s, z)[j] ELSE Sizes(s, z)[j + 1]
  <2>1. j \in 1..(Len(s) - 1) /\ j \in 1..Len(u) /\ j \in 1..Len(s) /\ j + 1 \in 1..Len(s)
    BY <1>1, <1>3
  <2>2. Sizes(u, z)[j] = z[u[j]] /\ u[j] = IF j < i THEN s[j] ELSE s[j + 1]
    BY <1>1, <1>3, <2>1
  <2>3. Sizes(s, z)[j] = z[s[j]] /\ Sizes(s, z)[j + 1] = z[s[j + 1]]
    BY <1>2, <2>1
  <2> QED BY <2>2, <2>3
<1>5. i \in 1..Len(Sizes(s, z)) /\ Len(Sizes(u, z)) = Len(Sizes(s, z)) - 1
  BY <1>1, <1>2, <1>3
<1>6. Total(Sizes(u, z)) = Total(Sizes(s, z)) - Sizes(s, z)[i]
  BY <1>2, <1>3, <1>4, <1>5, TotalRemove
<1>7. Sizes(s, z)[i] =< Total(Sizes(s, z)) /\ Sizes(s, z)[i] \in Nat
  BY <1>2, <1>5, PartOfTotal
<1>8. Sizes(s, z)[i] = z[s[i]]
  BY <1>2, Zenon
<1> QED BY <1>6, <1>7, <1>8, Zenon DEF Weigh, u

LEMMA WeighTail ==
  ASSUME NEW S, NEW z \in [S -> Nat], NEW s \in Seq(S), s # <<>>
  PROVE  /\ Weigh(Tail(s), z) = Weigh(s, z) - z[Head(s)]
         /\ z[Head(s)] \in Nat /\ z[Head(s)] =< Weigh(s, z)
<1>1. /\ 1 \in 1..Len(s) /\ Head(s) = s[1] /\ Len(s) \in Nat
      /\ Tail(s) \in Seq(S) /\ Len(Tail(s)) = Len(s) - 1
      /\ \A j \in 1..(Len(s) - 1) : Tail(s)[j] = s[j + 1]
  OBVIOUS
<1>2. /\ RemoveAt(s, 1) \in Seq(S) /\ Len(RemoveAt(s, 1)) = Len(s) - 1
      /\ \A j \in 1..(Len(s) - 1) : RemoveAt(s, 1)[j] = IF j < 1 THEN s[j] ELSE s[j + 1]
  BY <1>1, RemoveAtProperties, Zenon
<1>3. \A j \in 1..(Len(s) - 1) : RemoveAt(s, 1)[j] = Tail(s)[j]
  BY <1>1, <1>2
<1>4. Tail(s) = RemoveAt(s, 1)
  BY <1>1, <1>2, <1>3, SeqEqual
<1>5. /\ Weigh(RemoveAt(s, 1), z) = Weigh(s, z) - z[s[1]]
      /\ z[s[1]] \in Nat /\ z[s[1]] =< Weigh(s, z)
  BY <1>1, WeighRemove, Zenon
<1> QED BY <1>1, <1>4, <1>5, Zenon

(* Lists that count the same in each place.                                *)
LEMMA WeighSame ==
  ASSUME NEW S, NEW z \in [S -> Nat], NEW s \in Seq(S), NEW u \in Seq(S), Len(u) = Len(s),
         \A j \in 1..Len(s) : z[u[j]] = z[s[j]]
  PROVE  Weigh(u, z) = Weigh(s, z)
<1>1. /\ Sizes(s, z) \in Seq(Nat) /\ Len(Sizes(s, z)) = Len(s)
      /\ \A j \in 1..Len(s) : Sizes(s, z)[j] = z[s[j]] /\ s[j] \in S
  BY SizesFit, Zenon
<1>2. /\ Sizes(u, z) \in Seq(Nat) /\ Len(Sizes(u, z)) = Len(u)
      /\ \A j \in 1..Len(u) : Sizes(u, z)[j] = z[u[j]] /\ u[j] \in S
  BY SizesFit, Zenon
<1>3. \A j \in 1..Len(s) : Sizes(u, z)[j] = Sizes(s, z)[j]
  BY <1>1, <1>2
<1>4. Sizes(u, z) = Sizes(s, z)
  BY <1>1, <1>2, <1>3, SeqEqual
<1> QED BY <1>4 DEF Weigh

LEMMA WeighNone ==
  ASSUME NEW S, NEW z \in [S -> Nat], NEW s \in Seq(S), \A i \in 1..Len(s) : z[s[i]] = 0
  PROVE  Weigh(s, z) = 0
<1>1. /\ Sizes(s, z) \in Seq(Nat) /\ Len(Sizes(s, z)) = Len(s)
      /\ \A j \in 1..Len(s) : Sizes(s, z)[j] = z[s[j]] /\ s[j] \in S
  BY SizesFit, Zenon
<1> QED BY <1>1, TotalZero DEF Weigh

LEMMA WeighOne ==
  ASSUME NEW S, NEW z \in [S -> Nat], NEW x \in S
  PROVE  Weigh(<<x>>, z) = z[x]
<1>1. <<x>> \in Seq(S) /\ Len(<<x>>) = 1 /\ <<x>>[1] = x
  OBVIOUS
<1>2. /\ Sizes(<<x>>, z) \in Seq(Nat) /\ Len(Sizes(<<x>>, z)) = Len(<<x>>)
      /\ \A i \in 1..Len(<<x>>) : Sizes(<<x>>, z)[i] = z[<<x>>[i]] /\ <<x>>[i] \in S
  BY <1>1, SizesFit, Zenon
<1> QED BY <1>1, <1>2, TotalOne DEF Weigh

-----------------------------------------------------------------------------
(* The books: what is stored of each kind, and what is still to put.       *)

UnitsFor(k)  == [it \in Item |-> UnitsOf(it, k)]
AmountFor(k) == [x \in Todo |-> AmountOf(x, k)]
Held(s, w)   == [k \in Kinds |-> Weigh(s, UnitsFor(k)) + Weigh(w, AmountFor(k))]

LEMMA UnitsAreNat ==
  ASSUME NEW it \in Item
  PROVE  Units(it) \in Nat
<1>1. it.Quantity \in Nat /\ it.Quality \in Nat
  BY DEF Item
<1>2. \A a, b \in Nat : a * b \in Nat
  OBVIOUS
<1> QED BY <1>1, <1>2 DEF Units

LEMMA Measures ==
  ASSUME NEW k
  PROVE  /\ UnitsFor(k) \in [Item -> Nat]
         /\ AmountFor(k) \in [Todo -> Nat]
<1>1. \A it \in Item : UnitsOf(it, k) \in Nat
  BY UnitsAreNat DEF UnitsOf
<1>2. \A x \in Todo : AmountOf(x, k) \in Nat
  BY DEF Todo, AmountOf
<1> QED BY <1>1, <1>2 DEF UnitsFor, AmountFor

LEMMA HeldIs ==
  ASSUME NEW s \in Seq(Item), NEW w \in Seq(Todo)
  PROVE  /\ Held(s, w) = [k \in Kinds |-> Total([i \in DOMAIN s |-> UnitsOf(s[i], k)])
                                          + Total([i \in DOMAIN w |-> AmountOf(w[i], k)])]
         /\ Held(s, w) \in [Kinds -> Nat]
<1>1. /\ \A i \in DOMAIN s : s[i] \in Item
      /\ \A i \in DOMAIN w : w[i] \in Todo
  OBVIOUS
<1>2. ASSUME NEW k
      PROVE  /\ Sizes(s, UnitsFor(k)) = [i \in DOMAIN s |-> UnitsOf(s[i], k)]
             /\ Sizes(w, AmountFor(k)) = [i \in DOMAIN w |-> AmountOf(w[i], k)]
  BY <1>1 DEF Sizes, UnitsFor, AmountFor
<1>3. ASSUME NEW k
      PROVE  Weigh(s, UnitsFor(k)) \in Nat /\ Weigh(w, AmountFor(k)) \in Nat
  BY Measures, SizesFit, Zenon
<1>4. ASSUME NEW k \in Kinds
      PROVE  /\ Held(s, w)[k] = Total([i \in DOMAIN s |-> UnitsOf(s[i], k)])
                                + Total([i \in DOMAIN w |-> AmountOf(w[i], k)])
             /\ Held(s, w)[k] \in Nat
  <2>1. Held(s, w)[k] = Weigh(s, UnitsFor(k)) + Weigh(w, AmountFor(k))
    BY DEF Held
  <2>2. Weigh(s, UnitsFor(k)) = Total([i \in DOMAIN s |-> UnitsOf(s[i], k)])
    BY <1>2, Zenon DEF Weigh
  <2>3. Weigh(w, AmountFor(k)) = Total([i \in DOMAIN w |-> AmountOf(w[i], k)])
    BY <1>2, Zenon DEF Weigh
  <2>4. Held(s, w)[k] \in Nat
    BY <1>3, <2>1
  <2> QED BY <2>1, <2>2, <2>3, <2>4
<1>5. Held(s, w) = [k \in Kinds |-> Held(s, w)[k]]
  BY DEF Held
<1> HIDE DEF Held
<1> QED BY <1>4, <1>5

LEMMA StoredIs == ASSUME StoreInv PROVE Stored = Held(m_Storage, storing)
BY HeldIs DEF StoreInv, Stored

LEMMA StoredWillBe == ASSUME StoreInv' PROVE Stored' = Held(m_Storage', storing')
BY HeldIs DEF StoreInv, Stored

(* What is put is off the list of what is to put: the first of it is less, *)
(* or gone.                                                                *)
LEMMA PutIs ==
  ASSUME storing \in Seq(Todo), storing # <<>>, NEW amt \in Nat \ {0},
         amt =< Head(storing).Amount, Put(amt)
  PROVE  \/ /\ amt < Head(storing).Amount
            /\ storing' \in Seq(Todo) /\ Len(storing') = Len(storing)
            /\ storing'[1].Kind = Head(storing).Kind
            /\ storing'[1].Amount = Head(storing).Amount - amt
            /\ storing'[1].Checked = Head(storing).Checked
            /\ \A j \in 1..Len(storing) : j # 1 => storing'[j] = storing[j]
         \/ amt = Head(storing).Amount /\ storing' = Tail(storing)
<1> DEFINE todo == Head(storing)
           rest == [todo EXCEPT !.Amount = @ - amt]
           tail == Tail(storing)
<1>1. /\ todo \in Todo /\ todo = storing[1] /\ 1 \in 1..Len(storing)
      /\ tail \in Seq(Todo) /\ Len(tail) = Len(storing) - 1 /\ Len(storing) \in Nat
      /\ \A i \in 1..Len(tail) : tail[i] = storing[i + 1]
  <2>1. Head(storing) = storing[1] /\ 1 \in 1..Len(storing)
    OBVIOUS
  <2> QED BY <2>1
<1>2. todo.Amount \in Nat \ {0}
  BY <1>1 DEF Todo
<1>3. CASE amt < todo.Amount
  <2>1. /\ rest \in Todo /\ rest.Kind = todo.Kind /\ rest.Amount = todo.Amount - amt
        /\ rest.Checked = todo.Checked
    <3>1. todo.Kind \in Kinds /\ todo.Checked \in BOOLEAN
          /\ todo = [Kind |-> todo.Kind, Amount |-> todo.Amount, Checked |-> todo.Checked]
      BY <1>1 DEF Todo
    <3>2. rest = [Kind |-> todo.Kind, Amount |-> todo.Amount - amt, Checked |-> todo.Checked]
      BY <3>1
    <3>3. todo.Amount - amt \in Nat \ {0}
      BY <1>2, <1>3
    <3> HIDE DEF rest, todo
    <3>4. rest \in Todo
      BY <3>1, <3>2, <3>3 DEF Todo
    <3>5. /\ rest.Kind = todo.Kind /\ rest.Amount = todo.Amount - amt
          /\ rest.Checked = todo.Checked
      BY <3>2, Zenon
    <3> QED BY <3>4, <3>5
  <2>2. storing' = <<rest>> \o tail
    BY <1>3 DEF Put
  <2> HIDE DEF rest, tail
  <2>3. <<rest>> \in Seq(Todo) /\ Len(<<rest>>) = 1 /\ <<rest>>[1] = rest
    BY <2>1
  <2>4. /\ storing' \in Seq(Todo) /\ Len(storing') = 1 + Len(tail)
        /\ \A i \in 1..(1 + Len(tail)) :
             storing'[i] = IF i =< 1 THEN <<rest>>[i] ELSE tail[i - 1]
    BY <1>1, <2>2, <2>3, ConcatProperties
  <2>5. Len(storing') = Len(storing) /\ storing'[1] = rest
    BY <1>1, <2>3, <2>4
  <2>6. \A j \in 1..Len(storing) : j # 1 => storing'[j] = storing[j]
    <3> TAKE j \in 1..Len(storing)
    <3> HAVE j # 1
    <3>1. j - 1 \in 1..Len(tail) /\ (j - 1) + 1 = j /\ j \in 1..(1 + Len(tail)) /\ ~(j =< 1)
      BY <1>1
    <3> QED BY <1>1, <2>4, <3>1
  <2> HIDE DEF todo
  <2>7. amt < todo.Amount /\ storing' \in Seq(Todo)
    BY <1>3, <2>4
  <2> QED BY <2>1, <2>5, <2>6, <2>7, Zenon DEF todo
<1>4. CASE ~(amt < todo.Amount)
  <2>1. storing' = tail
    BY <1>4 DEF Put
  <2>2. amt = todo.Amount
    <3>1. amt =< todo.Amount
      OBVIOUS
    <3> HIDE DEF todo
    <3> QED BY <1>2, <1>4, <3>1
  <2> QED BY <2>1, <2>2
<1> QED BY <1>3, <1>4

LEMMA PutBooks ==
  ASSUME storing \in Seq(Todo), storing # <<>>, NEW amt \in Nat \ {0},
         amt =< Head(storing).Amount, Put(amt), NEW k
  PROVE  /\ Weigh(storing', AmountFor(k))
              = Weigh(storing, AmountFor(k)) - (IF Head(storing).Kind = k THEN amt ELSE 0)
         /\ Weigh(storing, AmountFor(k)) \in Nat
         /\ (IF Head(storing).Kind = k THEN amt ELSE 0) =< Weigh(storing, AmountFor(k))
<1> DEFINE z    == AmountFor(k)
           todo == Head(storing)
           part == IF todo.Kind = k THEN amt ELSE 0
<1>1. todo \in Todo /\ todo = storing[1] /\ 1 \in 1..Len(storing)
  <2>1. Head(storing) = storing[1] /\ 1 \in 1..Len(storing)
    OBVIOUS
  <2> QED BY <2>1
<1>2. /\ z \in [Todo -> Nat] /\ \A x \in Todo : z[x] = IF x.Kind = k THEN x.Amount ELSE 0
  BY Measures DEF AmountFor, AmountOf
<1>3. /\ Weigh(Tail(storing), z) = Weigh(storing, z) - z[todo]
      /\ z[todo] \in Nat /\ z[todo] =< Weigh(storing, z) /\ Weigh(storing, z) \in Nat
  <2> HIDE DEF z
  <2>1. Weigh(storing, z) \in Nat
    BY <1>2, SizesFit, Zenon
  <2> QED BY <1>2, <2>1, WeighTail, Zenon
<1>4. todo.Amount \in Nat /\ amt =< todo.Amount
  BY <1>1 DEF Todo
<1>5. part =< z[todo] /\ part \in Nat
  <2>1. z[todo] = IF todo.Kind = k THEN todo.Amount ELSE 0
    BY <1>1, <1>2
  <2> HIDE DEF todo, z
  <2> QED BY <1>4, <2>1
<1>6. Weigh(storing', z) = Weigh(storing, z) - part
  <2>1. CASE amt = todo.Amount /\ storing' = Tail(storing)
    <3>1. z[todo] = part
      BY <1>1, <1>2, <2>1
    <3> QED BY <1>3, <2>1, <3>1
  <2>2. CASE /\ amt < todo.Amount
             /\ storing' \in Seq(Todo) /\ Len(storing') = Len(storing)
             /\ storing'[1].Kind = todo.Kind
             /\ storing'[1].Amount = todo.Amount - amt
             /\ \A j \in 1..Len(storing) : j # 1 => storing'[j] = storing[j]
    <3> DEFINE u == storing'
    <3>1. /\ u \in Seq(Todo) /\ Len(u) = Len(storing) /\ u[1] \in Todo
          /\ u[1].Kind = todo.Kind /\ u[1].Amount = todo.Amount - amt
          /\ \A j \in 1..Len(storing) : j # 1 => u[j] = storing[j]
      BY <1>1, <2>2
    <3> HIDE DEF u, todo, z
    <3>2. Weigh(u, z) = Weigh(storing, z) - z[storing[1]] + z[u[1]]
      BY <1>1, <1>2, <3>1, WeighExcept
    <3>3. z[u[1]] = z[todo] - part
      <4>1. /\ z[u[1]] = IF u[1].Kind = k THEN u[1].Amount ELSE 0
            /\ z[todo] = IF todo.Kind = k THEN todo.Amount ELSE 0
        BY <1>1, <1>2, <3>1, Zenon
      <4> QED BY <1>4, <3>1, <4>1
    <3>4. Weigh(u, z) = Weigh(storing, z) - z[todo] + (z[todo] - part)
      BY <1>1, <3>2, <3>3, Zenon
    <3> HIDE DEF part
    <3> QED BY <1>3, <1>5, <3>4 DEF u
  <2> QED BY <2>1, <2>2, PutIs
<1>7. part =< Weigh(storing, z)
  <2> HIDE DEF part, z, todo
  <2> QED BY <1>3, <1>5
<1> QED BY <1>3, <1>6, <1>7

(* Storage_Validate takes a potion's swigs out, to put them again.         *)
LEMMA ValidateBooks ==
  ASSUME Ind, Validate
  PROVE  Held(m_Storage', storing') = Held(m_Storage, storing)
<1> DEFINE it == m_Storage[unchecked]
           x  == [Kind |-> it.Kind, Amount |-> Units(it), Checked |-> FALSE]
<1>1. /\ m_Storage \in Seq(Item) /\ storing \in Seq(Todo) /\ unchecked \in 1..Len(m_Storage)
      /\ it \in Item /\ Potted(it)
  <2>1. /\ m_Storage \in Seq(Item) /\ storing \in Seq(Todo) /\ unchecked \in 0..Len(m_Storage)
        /\ \A i \in 1..Len(m_Storage) : Potted(m_Storage[i])
    BY DEF Ind, StoreInv
  <2>2. unchecked \in 1..Len(m_Storage)
    BY <2>1 DEF Validate
  <2> QED BY <2>1, <2>2
<1>2. CASE it.Kind \in Potions
  <2>1. m_Storage' = RemoveAt(m_Storage, unchecked) /\ storing' = Append(storing, x)
    BY <1>2 DEF Validate
  <2>2. x \in Todo
    <3>1. it.Kind \in Kinds /\ it.Quality \in Nat \ {0} /\ it.Quantity = 1
      BY <1>1, <1>2 DEF Potted, Item
    <3> HIDE DEF it
    <3>2. Units(it) \in Nat \ {0}
      BY <1>2, <3>1 DEF Units
    <3> QED BY <3>1, <3>2 DEF Todo
  <2>3. ASSUME NEW k \in Kinds
        PROVE  Weigh(m_Storage', UnitsFor(k)) + Weigh(storing', AmountFor(k))
               = Weigh(m_Storage, UnitsFor(k)) + Weigh(storing, AmountFor(k))
    <3>1. UnitsFor(k) \in [Item -> Nat] /\ AmountFor(k) \in [Todo -> Nat]
      BY Measures
    <3>2. UnitsFor(k)[it] = AmountFor(k)[x]
      <4>1. UnitsFor(k)[it] = UnitsOf(it, k) /\ AmountFor(k)[x] = AmountOf(x, k)
        BY <1>1, <2>2 DEF UnitsFor, AmountFor
      <4> QED BY <4>1 DEF UnitsOf, AmountOf
    <3> HIDE DEF x
    <3>3. Weigh(storing', AmountFor(k)) = Weigh(storing, AmountFor(k)) + AmountFor(k)[x]
      BY <1>1, <2>1, <2>2, <3>1, WeighAppend, Zenon
    <3>4. /\ Weigh(m_Storage', UnitsFor(k)) = Weigh(m_Storage, UnitsFor(k)) - UnitsFor(k)[it]
          /\ UnitsFor(k)[it] \in Nat
      BY <1>1, <2>1, <3>1, WeighRemove, Zenon
    <3>5. Weigh(m_Storage, UnitsFor(k)) \in Nat /\ Weigh(storing, AmountFor(k)) \in Nat
      BY <1>1, <3>1, SizesFit, Zenon
    <3> HIDE DEF it
    <3> QED BY <3>2, <3>3, <3>4, <3>5
  <2> QED BY <2>3 DEF Held
<1>3. CASE it.Kind \notin Potions
  <2>1. m_Storage' = m_Storage /\ storing' = storing
    BY <1>3 DEF Validate
  <2> QED BY <2>1
<1> QED BY <1>2, <1>3

(* What a stack or a potion takes, and what a new item holds, is put.      *)
LEMMA ToPut ==
  ASSUME Ind, Store
  PROVE  /\ m_Storage \in Seq(Item) /\ storing \in Seq(Todo) /\ storing # <<>>
         /\ Head(storing) \in Todo /\ Head(storing).Kind \in Kinds
         /\ Head(storing).Amount \in Nat \ {0} /\ Stackable(Head(storing))
         /\ \A j \in 1..Len(m_Storage) : m_Storage[j] \in Item /\ Potted(m_Storage[j])
<1>1. /\ m_Storage \in Seq(Item) /\ storing \in Seq(Todo) /\ storing # <<>>
      /\ \A j \in 1..Len(m_Storage) : Potted(m_Storage[j])
      /\ \A j \in 1..Len(storing) : Stackable(storing[j])
  BY DEF Ind, StoreInv, Store
<1>2. Head(storing) = storing[1] /\ 1 \in 1..Len(storing)
  BY <1>1
<1>3. Head(storing) \in Todo /\ Stackable(Head(storing))
  BY <1>1, <1>2
<1> QED BY <1>1, <1>3 DEF Todo

LEMMA EnlargedCounts ==
  ASSUME NEW it \in Item, Potted(it), NEW k \in Kinds, NEW x \in Nat \ {0},
         Storage_StackRoom(it, k) > 0, NEW h
  PROVE  /\ it.Kind = k /\ AtMost(x, Storage_StackRoom(it, k)) =< x
         /\ UnitsOf(Enlarged(it, AtMost(x, Storage_StackRoom(it, k))), h)
              = UnitsOf(it, h) + (IF k = h THEN AtMost(x, Storage_StackRoom(it, k)) ELSE 0)
<1> DEFINE amt == AtMost(x, Storage_StackRoom(it, k))
           big == Enlarged(it, amt)
<1>1. /\ it.Kind = k /\ it.Quantity \in Nat /\ it.Quality \in Nat
      /\ it = [ID |-> it.ID, Kind |-> k, Quantity |-> it.Quantity, Quality |-> it.Quality]
  BY DEF Storage_StackRoom, Item
<1>2. amt \in Nat \ {0} /\ big.Kind = k
  BY <1>1, EnlargedFits
<1>3. amt =< x
  <2> DEFINE room == Storage_StackRoom(it, k)
  <2>1. room \in Int
    <3>1. NUM_MAX_STACK \in Nat /\ STORAGE_MAX_SWIGS \in Nat
      BY LimitsAssumption
    <3> QED BY <1>1, <3>1 DEF Storage_StackRoom, AtLeast
  <2> HIDE DEF room
  <2>2. AtMost(x, room) =< x
    BY <2>1 DEF AtMost
  <2> QED BY <2>2 DEF room
<1> HIDE DEF amt
<1>4. Units(big) = Units(it) + amt
  <2>1. CASE k \in Potions
    <3>1. big = [it EXCEPT !.Quality = @ + amt] /\ it.Quantity = 1
      BY <1>1, <2>1 DEF Enlarged, Potted
    <3>2. big.Quality = it.Quality + amt /\ big.Quantity = 1
      BY <1>1, <3>1
    <3> HIDE DEF big
    <3> QED BY <1>1, <1>2, <2>1, <3>1, <3>2 DEF Units
  <2>2. CASE k \notin Potions
    <3>1. big = [it EXCEPT !.Quantity = @ + amt]
      BY <1>1, <2>2 DEF Enlarged
    <3>2. big.Quantity = it.Quantity + amt
      BY <1>1, <3>1
    <3> HIDE DEF big
    <3> QED BY <1>1, <1>2, <2>2, <3>2 DEF Units
  <2> QED BY <2>1, <2>2
<1> HIDE DEF big
<1>5. UnitsOf(big, h) = UnitsOf(it, h) + (IF k = h THEN amt ELSE 0)
  BY <1>1, <1>2, <1>4 DEF UnitsOf
<1> QED BY <1>1, <1>3, <1>5 DEF amt, big

(* An item changed in its place.                                           *)
LEMMA UnitsChanged ==
  ASSUME NEW s \in Seq(Item), NEW i \in 1..Len(s), NEW x \in Item, NEW k
  PROVE  /\ Weigh([s EXCEPT ![i] = x], UnitsFor(k))
              = Weigh(s, UnitsFor(k)) - UnitsOf(s[i], k) + UnitsOf(x, k)
         /\ Weigh(s, UnitsFor(k)) \in Nat /\ UnitsOf(s[i], k) \in Nat
<1> DEFINE z == UnitsFor(k)
<1>1. /\ z \in [Item -> Nat] /\ s[i] \in Item
      /\ z[s[i]] = UnitsOf(s[i], k) /\ z[x] = UnitsOf(x, k)
  <2>1. s[i] \in Item
    OBVIOUS
  <2>2. z[s[i]] = UnitsOf(s[i], k) /\ z[x] = UnitsOf(x, k)
    BY <2>1 DEF UnitsFor
  <2>3. z \in [Item -> Nat]
    BY Measures
  <2> QED BY <2>1, <2>2, <2>3
<1> HIDE DEF z
<1>2. Weigh([s EXCEPT ![i] = x], z) = Weigh(s, z) - z[s[i]] + z[x]
  BY <1>1, ItemsChanged
<1>3. Weigh(s, z) \in Nat /\ z[s[i]] \in Nat
  BY <1>1, SizesFit
<1> QED BY <1>1, <1>2, <1>3 DEF z

LEMMA StackOnBooks ==
  ASSUME Ind, Store, NEW i \in DOMAIN m_Storage, StackOn(i)
  PROVE  Held(m_Storage', storing') = Held(m_Storage, storing)
<1> DEFINE todo == Head(storing)
           it   == m_Storage[i]
           amt  == AtMost(todo.Amount, Storage_StackRoom(it, todo.Kind))
           big  == Enlarged(it, amt)
<1>1. /\ m_Storage \in Seq(Item) /\ storing \in Seq(Todo) /\ storing # <<>>
      /\ i \in 1..Len(m_Storage) /\ it \in Item /\ Potted(it)
      /\ todo.Kind \in Kinds /\ todo.Amount \in Nat \ {0}
  <2>1. /\ m_Storage \in Seq(Item) /\ storing \in Seq(Todo) /\ storing # <<>>
        /\ todo.Kind \in Kinds /\ todo.Amount \in Nat \ {0}
        /\ \A j \in 1..Len(m_Storage) : m_Storage[j] \in Item /\ Potted(m_Storage[j])
    BY ToPut
  <2> QED BY <2>1
<1>2. /\ Storage_StackRoom(it, todo.Kind) > 0 /\ Put(amt)
      /\ m_Storage' = [m_Storage EXCEPT ![i] = big]
  BY DEF StackOn
<1>3. /\ amt \in Nat \ {0} /\ big \in Item /\ amt =< todo.Amount
      /\ \A k : UnitsOf(big, k) = UnitsOf(it, k) + (IF todo.Kind = k THEN amt ELSE 0)
  <2> HIDE DEF it, todo
  <2>1. amt \in Nat \ {0} /\ big \in Item
    BY <1>1, <1>2, EnlargedFits
  <2>2. ASSUME NEW k
        PROVE  /\ amt =< todo.Amount
               /\ UnitsOf(big, k) = UnitsOf(it, k) + (IF todo.Kind = k THEN amt ELSE 0)
    BY <1>1, <1>2, EnlargedCounts
  <2> QED BY <2>1, <2>2
<1> HIDE DEF big, amt
<1>4. /\ m_Storage' \in Seq(Item) /\ Len(m_Storage') = Len(m_Storage)
      /\ m_Storage'[i] = big
      /\ \A j \in 1..Len(m_Storage) : j # i => m_Storage'[j] = m_Storage[j]
  BY <1>1, <1>2, <1>3
<1>5. ASSUME NEW k \in Kinds
      PROVE  Weigh(m_Storage', UnitsFor(k)) + Weigh(storing', AmountFor(k))
             = Weigh(m_Storage, UnitsFor(k)) + Weigh(storing, AmountFor(k))
  <2>1. /\ Weigh([m_Storage EXCEPT ![i] = big], UnitsFor(k))
             = Weigh(m_Storage, UnitsFor(k)) - UnitsOf(it, k) + UnitsOf(big, k)
        /\ Weigh(m_Storage, UnitsFor(k)) \in Nat /\ UnitsOf(it, k) \in Nat
    BY <1>1, <1>3, UnitsChanged
  <2>2. m_Storage' = [m_Storage EXCEPT ![i] = big]
    BY <1>2
  <2>4. /\ Weigh(storing', AmountFor(k))
             = Weigh(storing, AmountFor(k)) - (IF todo.Kind = k THEN amt ELSE 0)
        /\ Weigh(storing, AmountFor(k)) \in Nat
    BY <1>1, <1>2, <1>3, PutBooks
  <2> HIDE DEF it, todo
  <2>5. UnitsOf(big, k) = UnitsOf(it, k) + (IF todo.Kind = k THEN amt ELSE 0)
    BY <1>3
  <2>6. Weigh(m_Storage', UnitsFor(k))
          = Weigh(m_Storage, UnitsFor(k)) - UnitsOf(it, k) + UnitsOf(big, k)
    BY <2>1, <2>2, Zenon
  <2> QED BY <1>3, <2>1, <2>4, <2>5, <2>6
<1> QED BY <1>5 DEF Held

LEMMA NewItemBooks ==
  ASSUME Ind, Store, Storage_NewItem
  PROVE  Held(m_Storage', storing') = Held(m_Storage, storing)
<1> DEFINE todo == Head(storing)
           amt == IF todo.Kind \in Potions THEN AtMost(todo.Amount, STORAGE_MAX_SWIGS)
                                            ELSE todo.Amount
           new == [ID |-> NewID(m_Storage), Kind |-> todo.Kind,
                   Quantity |-> IF todo.Kind \in Potions THEN 1 ELSE amt,
                   Quality  |-> IF todo.Kind \in Potions THEN amt ELSE 0]
<1>1. /\ m_Storage \in Seq(Item) /\ storing \in Seq(Todo) /\ storing # <<>>
      /\ todo.Kind \in Kinds /\ todo.Amount \in Nat \ {0} /\ Stackable(todo)
  BY ToPut
<1>2. m_Storage' = Append(m_Storage, new) /\ Put(amt)
  BY DEF Storage_NewItem
<1>3. NewID(m_Storage) \in Nat
  BY <1>1, NewIDIsFree
<1>4. /\ amt \in Nat \ {0} /\ amt =< todo.Amount /\ new \in Item
      /\ new.Kind = todo.Kind /\ Units(new) = amt
  <2> HIDE DEF todo
  <2>1. CASE todo.Kind \in Potions
    <3>1. amt \in 1..STORAGE_MAX_SWIGS /\ amt =< todo.Amount
      <4>1. STORAGE_MAX_SWIGS \in Nat \ {0}
        BY LimitsAssumption
      <4> QED BY <1>1, <2>1, <4>1 DEF AtMost
    <3> HIDE DEF amt
    <3>2. new = [ID |-> NewID(m_Storage), Kind |-> todo.Kind, Quantity |-> 1, Quality |-> amt]
      BY <2>1
    <3>3. amt \in Nat \ {0} /\ amt \in 0..STORAGE_MAX_SWIGS /\ 1 \in 1..NUM_MAX_STACK
      BY <3>1, LimitsAssumption
    <3>4. new \in Item /\ new.Kind = todo.Kind /\ new.Quantity = 1 /\ new.Quality = amt
      BY <1>1, <1>3, <3>2, <3>3 DEF Item
    <3> HIDE DEF new
    <3>5. Units(new) = amt
      BY <2>1, <3>3, <3>4 DEF Units
    <3> QED BY <3>1, <3>3, <3>4, <3>5
  <2>2. CASE todo.Kind \notin Potions
    <3>1. amt \in 1..NUM_MAX_STACK /\ amt =< todo.Amount
      BY <1>1, <2>2 DEF Stackable
    <3> HIDE DEF amt
    <3>2. new = [ID |-> NewID(m_Storage), Kind |-> todo.Kind, Quantity |-> amt, Quality |-> 0]
      BY <2>2
    <3>3. amt \in Nat \ {0} /\ 0 \in 0..STORAGE_MAX_SWIGS
      BY <3>1, LimitsAssumption
    <3>4. new \in Item /\ new.Kind = todo.Kind /\ new.Quantity = amt
      BY <1>1, <1>3, <3>1, <3>2, <3>3 DEF Item
    <3> HIDE DEF new
    <3>5. Units(new) = amt
      BY <2>2, <3>4 DEF Units
    <3> QED BY <3>1, <3>3, <3>4, <3>5
  <2> QED BY <2>1, <2>2
<1> HIDE DEF new, amt
<1>5. ASSUME NEW k \in Kinds
      PROVE  Weigh(m_Storage', UnitsFor(k)) + Weigh(storing', AmountFor(k))
             = Weigh(m_Storage, UnitsFor(k)) + Weigh(storing, AmountFor(k))
  <2>1. UnitsFor(k) \in [Item -> Nat]
    BY Measures
  <2>2. Weigh(m_Storage', UnitsFor(k)) = Weigh(m_Storage, UnitsFor(k)) + UnitsFor(k)[new]
    BY <1>1, <1>2, <1>4, <2>1, WeighAppend, Zenon
  <2>3. UnitsFor(k)[new] = IF todo.Kind = k THEN amt ELSE 0
    BY <1>4 DEF UnitsFor, UnitsOf
  <2>4. /\ Weigh(storing', AmountFor(k))
             = Weigh(storing, AmountFor(k)) - (IF todo.Kind = k THEN amt ELSE 0)
        /\ Weigh(storing, AmountFor(k)) \in Nat
    BY <1>1, <1>2, <1>4, PutBooks
  <2>5. Weigh(m_Storage, UnitsFor(k)) \in Nat
    BY <1>1, <2>1, SizesFit, Zenon
  <2> HIDE DEF todo
  <2> QED BY <1>4, <2>2, <2>3, <2>4, <2>5
<1> QED BY <1>5 DEF Held

(* Other IDs hold the same.                                                *)
LEMMA RejoinBooks ==
  ASSUME Ind, Rejoin
  PROVE  Held(m_Storage', storing') = Held(m_Storage, storing)
<1>1. /\ m_Storage \in Seq(Item) /\ storing' = storing
      /\ m_Storage' = [i \in DOMAIN m_Storage |-> [m_Storage[i] EXCEPT !.ID = i - 1]]
  BY DEF Ind, StoreInv, Rejoin
<1>2. m_Storage' \in Seq(Item)
  BY StepKeeps DEF Next, Ind, StoreInv
<1>3. /\ Len(m_Storage') = Len(m_Storage)
      /\ \A j \in 1..Len(m_Storage) : /\ m_Storage'[j] = [m_Storage[j] EXCEPT !.ID = j - 1]
                                      /\ m_Storage[j] \in Item /\ m_Storage'[j] \in Item
  <2>1. DOMAIN m_Storage = 1..Len(m_Storage) /\ Len(m_Storage) \in Nat
    BY <1>1
  <2>2. DOMAIN m_Storage' = 1..Len(m_Storage')  /\ Len(m_Storage') \in Nat
    BY <1>2
  <2>3. DOMAIN m_Storage' = 1..Len(m_Storage)
    BY <1>1, <2>1
  <2>4. Len(m_Storage') = Len(m_Storage)
    <3>1. \A a, b \in Nat : 1..a = 1..b => a = b
      <4> SUFFICES ASSUME NEW a \in Nat, NEW b \in Nat, 1..a = 1..b PROVE a = b
        OBVIOUS
      <4>1. a > b => a \in 1..a /\ a \notin 1..b
        OBVIOUS
      <4>2. b > a => b \in 1..b /\ b \notin 1..a
        OBVIOUS
      <4> QED BY <4>1, <4>2
    <3> QED BY <2>1, <2>2, <2>3, <3>1, Zenon
  <2>5. ASSUME NEW j \in 1..Len(m_Storage)
        PROVE  /\ m_Storage'[j] = [m_Storage[j] EXCEPT !.ID = j - 1]
               /\ m_Storage[j] \in Item /\ m_Storage'[j] \in Item
    BY <1>1, <1>2, <2>1, <2>2, <2>4
  <2> QED BY <2>4, <2>5
<1>4. ASSUME NEW k \in Kinds
      PROVE  Weigh(m_Storage', UnitsFor(k)) = Weigh(m_Storage, UnitsFor(k))
  <2>1. UnitsFor(k) \in [Item -> Nat]
    BY Measures
  <2>2. ASSUME NEW j \in 1..Len(m_Storage)
        PROVE  UnitsFor(k)[m_Storage'[j]] = UnitsFor(k)[m_Storage[j]]
    <3> DEFINE a == m_Storage[j]
               b == m_Storage'[j]
    <3>1. a \in Item /\ b \in Item /\ b = [a EXCEPT !.ID = j - 1]
      BY <1>3
    <3> HIDE DEF a, b
    <3>2. b.Kind = a.Kind /\ b.Quantity = a.Quantity /\ b.Quality = a.Quality
      BY <3>1 DEF Item
    <3>3. UnitsOf(b, k) = UnitsOf(a, k)
      BY <3>2 DEF UnitsOf, Units
    <3> QED BY <3>1, <3>3 DEF UnitsFor, a, b
  <2> DEFINE u == m_Storage'
  <2>3. /\ u \in Seq(Item) /\ Len(u) = Len(m_Storage)
        /\ \A j \in 1..Len(m_Storage) : UnitsFor(k)[u[j]] = UnitsFor(k)[m_Storage[j]]
    BY <1>2, <1>3, <2>2
  <2> HIDE DEF u
  <2>4. Weigh(u, UnitsFor(k)) = Weigh(m_Storage, UnitsFor(k))
    BY <1>1, <2>1, <2>3, WeighSame
  <2> QED BY <2>4 DEF u
<1> QED BY <1>1, <1>4 DEF Held

LEMMA StoreBooks ==
  ASSUME Ind, Store
  PROVE  Held(m_Storage', storing') = Held(m_Storage, storing)
BY StackOnBooks, NewItemBooks DEF Store

(* One thing to put, and nothing else.                                     *)
LEMMA OneToPutBooks ==
  ASSUME NEW s \in Seq(Item), NEW x \in Todo
  PROVE  Held(s, <<x>>) = [Held(s, <<>>) EXCEPT ![x.Kind] = @ + x.Amount]
<1>1. ASSUME NEW k \in Kinds
      PROVE  Held(s, <<x>>)[k] = Held(s, <<>>)[k] + (IF k = x.Kind THEN x.Amount ELSE 0)
  <2>1. UnitsFor(k) \in [Item -> Nat] /\ AmountFor(k) \in [Todo -> Nat]
    BY Measures
  <2>2. Weigh(<<x>>, AmountFor(k)) = AmountFor(k)[x]
    BY <2>1, WeighOne, Zenon
  <2>3. Weigh(<<>>, AmountFor(k)) = 0
    <3> DEFINE e == <<>>
    <3>1. e \in Seq(Todo) /\ Len(e) = 0
      OBVIOUS
    <3> HIDE DEF e
    <3>2. \A i \in 1..Len(e) : AmountFor(k)[e[i]] = 0
      BY <3>1
    <3>3. Weigh(e, AmountFor(k)) = 0
      BY <2>1, <3>1, <3>2, WeighNone
    <3> QED BY <3>3 DEF e
  <2>4. AmountFor(k)[x] = IF k = x.Kind THEN x.Amount ELSE 0
    BY DEF AmountFor, AmountOf
  <2>5. Weigh(s, UnitsFor(k)) \in Nat
    BY <2>1, SizesFit, Zenon
  <2>6. x.Amount \in Nat
    BY DEF Todo
  <2> QED BY <2>2, <2>3, <2>4, <2>5, <2>6 DEF Held
<1>2. /\ Held(s, <<x>>) = [k \in Kinds |-> Held(s, <<x>>)[k]]
      /\ Held(s, <<>>) = [k \in Kinds |-> Held(s, <<>>)[k]]
  BY DEF Held
<1>3. \A k \in Kinds : Held(s, <<>>)[k] \in Nat
  <2>1. <<>> \in Seq(Todo)
    OBVIOUS
  <2> QED BY <2>1, HeldIs
<1>4. x.Kind \in Kinds /\ x.Amount \in Nat
  BY DEF Todo
<1> HIDE DEF Held
<1> QED BY <1>1, <1>2, <1>3, <1>4

(* An item of which a part is taken.                                       *)
LEMMA UnitsTaken ==
  ASSUME NEW it \in Item, Potted(it), NEW amt \in Nat \ {0}, amt < Units(it), NEW rest,
         rest = IF it.Kind \in Potions THEN [it EXCEPT !.Quality = @ - amt]
                                       ELSE [it EXCEPT !.Quantity = @ - amt],
         NEW k
  PROVE  UnitsOf(rest, k) = UnitsOf(it, k) - (IF k = it.Kind THEN amt ELSE 0)
<1>1. it.Quantity \in Nat /\ it.Quality \in Nat /\ rest.Kind = it.Kind
  BY RestFits DEF Item
<1>2. CASE it.Kind \in Potions
  <2>1. rest.Quality = it.Quality - amt /\ rest.Quantity = 1 /\ it.Quantity = 1
    BY <1>1, <1>2 DEF Potted, Item
  <2>2. Units(rest) = Units(it) - amt
    BY <1>1, <1>2, <2>1 DEF Units
  <2> QED BY <1>1, <2>2 DEF UnitsOf
<1>3. CASE it.Kind \notin Potions
  <2>1. rest.Quantity = it.Quantity - amt
    BY <1>1, <1>3 DEF Item
  <2>2. Units(rest) = Units(it) - amt
    BY <1>1, <1>3, <2>1 DEF Units
  <2> QED BY <1>1, <2>2 DEF UnitsOf
<1> QED BY <1>2, <1>3

(* What comes out of an item is off the books, and was on them.            *)
LEMMA RemoveItemBooks ==
  ASSUME Ind, NEW i \in 1..Len(m_Storage), NEW amt \in Nat \ {0}, amt =< Units(m_Storage[i]),
         Storage_RemoveItem(i, amt), storing' = storing
  PROVE  /\ Held(m_Storage', storing')
              = [Held(m_Storage, storing) EXCEPT ![m_Storage[i].Kind] = @ - amt]
         /\ amt =< Held(m_Storage, storing)[m_Storage[i].Kind]
<1> DEFINE it   == m_Storage[i]
           rest == IF it.Kind \in Potions THEN [it EXCEPT !.Quality = @ - amt]
                                          ELSE [it EXCEPT !.Quantity = @ - amt]
<1>1. /\ m_Storage \in Seq(Item) /\ storing \in Seq(Todo)
      /\ it \in Item /\ Potted(it)
  <2>1. /\ m_Storage \in Seq(Item) /\ storing \in Seq(Todo)
        /\ \A j \in 1..Len(m_Storage) : Potted(m_Storage[j])
    BY DEF Ind, StoreInv
  <2> QED BY <2>1
<1>2. it.Kind \in Kinds /\ Units(it) \in Nat /\ amt =< Units(it)
  BY <1>1, UnitsAreNat DEF Item
<1>3. ASSUME NEW k \in Kinds
      PROVE  /\ Weigh(m_Storage', UnitsFor(k))
                  = Weigh(m_Storage, UnitsFor(k)) - (IF k = it.Kind THEN amt ELSE 0)
             /\ (IF k = it.Kind THEN amt ELSE 0) =< Weigh(m_Storage, UnitsFor(k))
             /\ Weigh(m_Storage, UnitsFor(k)) \in Nat /\ Weigh(storing, AmountFor(k)) \in Nat
  <2>1. UnitsFor(k) \in [Item -> Nat] /\ AmountFor(k) \in [Todo -> Nat]
    BY Measures
  <2>2. /\ Weigh(RemoveAt(m_Storage, i), UnitsFor(k))
             = Weigh(m_Storage, UnitsFor(k)) - UnitsFor(k)[it]
        /\ UnitsFor(k)[it] =< Weigh(m_Storage, UnitsFor(k))
    BY <1>1, <2>1, WeighRemove, Zenon
  <2>3. UnitsFor(k)[it] = UnitsOf(it, k)
    BY <1>1 DEF UnitsFor
  <2>4. UnitsOf(it, k) = IF k = it.Kind THEN Units(it) ELSE 0
    BY DEF UnitsOf
  <2>5. Weigh(m_Storage, UnitsFor(k)) \in Nat /\ Weigh(storing, AmountFor(k)) \in Nat
    BY <1>1, <2>1, SizesFit, Zenon
  <2>6. (IF k = it.Kind THEN amt ELSE 0) =< Weigh(m_Storage, UnitsFor(k))
    <3> HIDE DEF it
    <3> QED BY <1>2, <2>2, <2>3, <2>4, <2>5
  <2>7. CASE amt < Units(it)
    <3>1. m_Storage' = [m_Storage EXCEPT ![i] = rest]
      BY <2>7 DEF Storage_RemoveItem
    <3>2. /\ rest \in Item
          /\ UnitsOf(rest, k) = UnitsOf(it, k) - (IF k = it.Kind THEN amt ELSE 0)
      <4> HIDE DEF it
      <4> QED BY <1>1, <2>7, RestFits, UnitsTaken
    <3> HIDE DEF rest
    <3>3. /\ Weigh([m_Storage EXCEPT ![i] = rest], UnitsFor(k))
               = Weigh(m_Storage, UnitsFor(k)) - UnitsOf(it, k) + UnitsOf(rest, k)
          /\ UnitsOf(it, k) \in Nat
      BY <1>1, <3>2, UnitsChanged
    <3>4. Weigh(m_Storage', UnitsFor(k))
            = Weigh(m_Storage, UnitsFor(k)) - UnitsOf(it, k) + UnitsOf(rest, k)
      BY <3>1, <3>3, Zenon
    <3> HIDE DEF it
    <3> QED BY <2>5, <2>6, <3>2, <3>3, <3>4
  <2>8. CASE ~(amt < Units(it))
    <3>1. m_Storage' = RemoveAt(m_Storage, i)
      BY <2>8 DEF Storage_RemoveItem
    <3>2. amt = Units(it)
      <4> HIDE DEF it
      <4> QED BY <1>2, <2>8
    <3> HIDE DEF it
    <3> QED BY <2>2, <2>3, <2>4, <2>5, <2>6, <3>1, <3>2
  <2> QED BY <2>7, <2>8
<1>4. /\ Held(m_Storage', storing') = [k \in Kinds |-> Held(m_Storage', storing')[k]]
      /\ Held(m_Storage, storing) = [k \in Kinds |-> Held(m_Storage, storing)[k]]
  BY DEF Held
<1>5. ASSUME NEW k \in Kinds
      PROVE  /\ Held(m_Storage', storing')[k]
                  = Held(m_Storage, storing)[k] - (IF k = it.Kind THEN amt ELSE 0)
             /\ (IF k = it.Kind THEN amt ELSE 0) =< Held(m_Storage, storing)[k]
             /\ Held(m_Storage, storing)[k] \in Nat
  <2>1. /\ Held(m_Storage', storing')[k]
             = Weigh(m_Storage', UnitsFor(k)) + Weigh(storing, AmountFor(k))
        /\ Held(m_Storage, storing)[k]
             = Weigh(m_Storage, UnitsFor(k)) + Weigh(storing, AmountFor(k))
    BY DEF Held
  <2> HIDE DEF Held, it
  <2> QED BY <1>3, <2>1
<1> HIDE DEF Held, it
<1>6. Held(m_Storage', storing') = [Held(m_Storage, storing) EXCEPT ![it.Kind] = @ - amt]
  BY <1>2, <1>4, <1>5
<1>7. amt =< Held(m_Storage, storing)[it.Kind]
  BY <1>2, <1>5
<1> QED BY <1>6, <1>7 DEF it

-----------------------------------------------------------------------------
(* Storage implements StorageLedger.                                       *)

LEMMA HeldKept ==
  ASSUME Ind, Ind', Held(m_Storage', storing') = Held(m_Storage, storing),
         UNCHANGED <<carried, granted>>
  PROVE  UNCHANGED <<carried, Stored, granted>>
BY StoredIs, StoredWillBe DEF Ind

LEMMA AddItemIsDeposit ==
  ASSUME Ind, Ind', storing = <<>>, Storage_AddItem, UNCHANGED <<m_Storage, granted>>
  PROVE  \E k \in Kinds : Books!Deposit(k)
<1>1. PICK k \in Kinds : \E amt \in CASE k \in Potions -> 1..PotionSize
                                     [] k \in Plains  -> {1}
                                     [] OTHER         -> 1..NUM_MAX_STACK :
        /\ amt =< carried[k]
        /\ storing' = <<[Kind |-> k, Amount |-> amt, Checked |-> TRUE]>>
        /\ carried' = [carried EXCEPT ![k] = @ - amt]
  BY DEF Storage_AddItem
<1>2. PICK amt : /\ amt =< carried[k]
                 /\ storing' = <<[Kind |-> k, Amount |-> amt, Checked |-> TRUE]>>
                 /\ carried' = [carried EXCEPT ![k] = @ - amt]
  BY <1>1
<1> DEFINE x == [Kind |-> k, Amount |-> amt, Checked |-> TRUE]
<1>3. /\ m_Storage \in Seq(Item) /\ carried \in [Kinds -> Nat] /\ storing' \in Seq(Todo)
  BY DEF Ind, StoreInv, UseInv
<1>4. x \in Todo /\ x.Kind = k /\ x.Amount = amt
  <2>1. storing'[1] = x /\ Len(storing') = 1
    BY <1>2
  <2>2. 1 \in 1..Len(storing')
    BY <2>1
  <2> HIDE DEF x
  <2>3. storing'[1] \in Todo
    BY <1>3, <2>2
  <2>4. x \in Todo
    BY <2>1, <2>3
  <2> QED BY <2>4 DEF x
<1>5. amt \in Nat \ {0} /\ storing' = <<x>>
  <2>1. x.Amount \in Nat \ {0}
    BY <1>4 DEF Todo
  <2> QED BY <1>2, <1>4, <2>1
<1> HIDE DEF x
<1>6. Held(m_Storage, <<x>>) = [Held(m_Storage, <<>>) EXCEPT ![k] = @ + amt]
  BY <1>3, <1>4, OneToPutBooks
<1>7. Stored' = [Stored EXCEPT ![k] = @ + amt]
  <2>1. Stored = Held(m_Storage, storing) /\ Stored' = Held(m_Storage', storing')
    BY StoredIs, StoredWillBe DEF Ind
  <2> QED BY <1>5, <1>6, <2>1
<1>8. amt \in 1..carried[k]
  BY <1>2, <1>3, <1>5
<1> QED BY <1>2, <1>7, <1>8 DEF Books!Deposit

LEMMA TakeIsWithdraw ==
  ASSUME Ind, Ind', NEW cmd, NEW id, NEW hands, Take(cmd, id, hands),
         UNCHANGED <<storing, granted>>
  PROVE  \E k \in Kinds : Books!Withdraw(k)
<1>1. PICK i \in DOMAIN m_Storage : \E amt \in Amounts(cmd, m_Storage[i]) :
        /\ Storage_RemoveItem(i, amt)
        /\ carried' = [carried EXCEPT ![m_Storage[i].Kind] = @ + amt]
  BY DEF Take
<1>2. PICK amt \in Amounts(cmd, m_Storage[i]) :
        /\ Storage_RemoveItem(i, amt)
        /\ carried' = [carried EXCEPT ![m_Storage[i].Kind] = @ + amt]
  BY <1>1
<1>3. /\ i \in 1..Len(m_Storage) /\ m_Storage[i] \in Item /\ Potted(m_Storage[i])
      /\ m_Storage \in Seq(Item) /\ storing \in Seq(Todo)
  <2>1. /\ m_Storage \in Seq(Item) /\ storing \in Seq(Todo)
        /\ \A j \in 1..Len(m_Storage) : Potted(m_Storage[j])
    BY DEF Ind, StoreInv
  <2>2. i \in 1..Len(m_Storage)
    BY <2>1
  <2> QED BY <2>1, <2>2
<1> DEFINE k == m_Storage[i].Kind
<1>4. amt \in Nat \ {0} /\ amt =< Units(m_Storage[i])
  BY <1>3, AmountsFit
<1>5. /\ Held(m_Storage', storing') = [Held(m_Storage, storing) EXCEPT ![k] = @ - amt]
      /\ amt =< Held(m_Storage, storing)[k]
  BY <1>2, <1>3, <1>4, RemoveItemBooks
<1>6. k \in Kinds
  BY <1>3 DEF Item
<1>7. carried' = [carried EXCEPT ![k] = @ + amt]
  BY <1>2
<1> HIDE DEF k
<1>8. Stored = Held(m_Storage, storing) /\ Stored' = Held(m_Storage', storing')
  BY StoredIs, StoredWillBe DEF Ind
<1>9. Held(m_Storage, storing)[k] \in Nat
  BY <1>3, <1>6, HeldIs
<1>10. Stored' = [Stored EXCEPT ![k] = @ - amt] /\ amt \in 1..Stored[k]
  BY <1>4, <1>5, <1>8, <1>9
<1> QED BY <1>6, <1>7, <1>10 DEF Books!Withdraw

LEMMA AddItemsIsGrant ==
  ASSUME Ind, Ind', NEW k \in Kinds, NEW n \in 1..NUM_MAX_STACK, NEW q \in 1..STORAGE_MAX_SWIGS,
         Storage_AddItems(k, n, q)
  PROVE  Books!Grant(k)
<1> DEFINE each == IF k \in Potions THEN q ELSE 1
<1>1. PICK added \in 1..n :
        /\ ~Busy
        /\ storing' = <<[Kind |-> k, Amount |-> added * each, Checked |-> TRUE]>>
        /\ granted' = [granted EXCEPT ![k] = @ + added * each]
        /\ m_Storage' = m_Storage /\ carried' = carried
  BY DEF Storage_AddItems
<1> DEFINE amt == added * each
           x == [Kind |-> k, Amount |-> amt, Checked |-> TRUE]
<1>2. storing' = <<x>> /\ granted' = [granted EXCEPT ![k] = @ + amt] /\ storing = <<>>
  BY <1>1 DEF Busy
<1> HIDE DEF amt
<1>3. /\ m_Storage \in Seq(Item) /\ granted \in [Kinds -> Nat] /\ storing' \in Seq(Todo)
  BY DEF Ind, StoreInv, UseInv
<1>4. x \in Todo /\ x.Kind = k /\ x.Amount = amt
  <2>1. storing'[1] = x /\ Len(storing') = 1
    BY <1>2
  <2>2. 1 \in 1..Len(storing')
    BY <2>1
  <2> HIDE DEF x
  <2>3. storing'[1] \in Todo
    BY <1>3, <2>2
  <2>4. x \in Todo
    BY <2>1, <2>3
  <2> QED BY <2>4 DEF x
<1>5. amt \in Nat \ {0}
  <2>1. x.Amount \in Nat \ {0}
    BY <1>4 DEF Todo
  <2> QED BY <1>4, <2>1
<1> HIDE DEF x
<1>6. Held(m_Storage, <<x>>) = [Held(m_Storage, <<>>) EXCEPT ![k] = @ + amt]
  BY <1>3, <1>4, OneToPutBooks
<1>7. Stored = Held(m_Storage, storing) /\ Stored' = Held(m_Storage', storing')
  BY StoredIs, StoredWillBe DEF Ind
<1>8. Stored' = [Stored EXCEPT ![k] = @ + amt] /\ Stored \in [Kinds -> Nat]
  <2>1. storing \in Seq(Todo)
    BY DEF Ind, StoreInv
  <2>2. Held(m_Storage, storing) \in [Kinds -> Nat]
    BY <1>3, <2>1, HeldIs
  <2> QED BY <1>1, <1>2, <1>6, <1>7, <2>2
<1>9. granted'[k] = granted[k] + amt /\ granted[k] \in Nat
  BY <1>2, <1>3
<1>10. Stored' = [Stored EXCEPT ![k] = @ + granted'[k] - granted[k]]
  <2>1. Stored[k] + granted'[k] - granted[k] = Stored[k] + amt
    BY <1>5, <1>8, <1>9
  <2> QED BY <1>8, <2>1
<1>11. granted' = [granted EXCEPT ![k] = granted'[k]]
  BY <1>2, <1>9
<1>12. granted'[k] > granted[k]
  BY <1>5, <1>9
<1> QED BY <1>1, <1>10, <1>11, <1>12 DEF Books!Grant

LEMMA NextBooks ==
  ASSUME Ind, Ind', [Next]_vars
  PROVE  [Books!Next]_<<carried, Stored, granted>>
<1>1. CASE Validate
  BY <1>1, ValidateBooks, HeldKept DEF Validate
<1>2. CASE Store
  BY <1>2, StoreBooks, HeldKept DEF Store
<1>3. CASE Rejoin
  BY <1>3, RejoinBooks, HeldKept DEF Rejoin
<1>4. CASE UNCHANGED <<m_Storage, storing, carried, granted>>
  BY <1>4, HeldKept
<1>5. CASE \/ PreThink \/ ReceiveStop \/ ClosePanel \/ ClientCommand("add", 0)
           \/ \E t \in Tellers : Trade(t) \/ Walk(t)
           \/ \E max \in 1..STORAGE_MAX_ITEMS : Storage_SetMax(max)
           \/ \E cmd \in {"remove", "split"}, id \in IDs(view) : ClientCommand(cmd, id)
  BY <1>4, <1>5 DEF PreThink, ReceiveStop, ClosePanel, ClientCommand, Trade, Walk,
                    Storage_SetMax, store
<1>6. CASE \E k \in Kinds, n \in 1..NUM_MAX_STACK, q \in 1..STORAGE_MAX_SWIGS :
             Storage_AddItems(k, n, q)
  <2>1. \E k \in Kinds : Books!Grant(k)
    BY <1>6, AddItemsIsGrant
  <2> QED BY <2>1 DEF Books!Next
<1>7. CASE ReceiveMove
  <2>1. storing = <<>> /\ granted' = granted
    BY <1>7 DEF ReceiveMove, Busy
  <2> DEFINE c == Head(commands)
  <2>2. \/ Refused /\ UNCHANGED storing
        \/ Storage_AddItem /\ UNCHANGED m_Storage
        \/ /\ UNCHANGED storing
           /\ \/ \E hands \in BOOLEAN : Take("remove", c.ID, hands)
              \/ Take("split", c.ID, FALSE)
    BY <1>7 DEF ReceiveMove
  <2> HIDE DEF c
  <2>3. CASE Refused /\ UNCHANGED storing
    BY <1>4, <2>1, <2>3 DEF Refused
  <2>4. CASE Storage_AddItem /\ UNCHANGED m_Storage
    <3>1. \E k \in Kinds : Books!Deposit(k)
      BY <2>1, <2>4, AddItemIsDeposit
    <3> QED BY <3>1 DEF Books!Next
  <2>5. CASE /\ UNCHANGED storing
             /\ \/ \E hands \in BOOLEAN : Take("remove", c.ID, hands)
                \/ Take("split", c.ID, FALSE)
    <3>1. \E k \in Kinds : Books!Withdraw(k)
      BY <2>1, <2>5, TakeIsWithdraw
    <3> QED BY <3>1 DEF Books!Next
  <2> QED BY <2>2, <2>3, <2>4, <2>5
<1>8. CASE UNCHANGED vars
  BY <1>4, <1>8 DEF vars, store
<1> QED BY <1>1, <1>2, <1>3, <1>5, <1>6, <1>7, <1>8 DEF Next

LEMMA InitBooks ==
  ASSUME Init
  PROVE  Books!Init
<1>1. m_Storage = <<>> /\ storing = <<>> /\ carried = Start /\ granted = [k \in Kinds |-> 0]
  BY DEF Init
<1>2. Stored = [k \in Kinds |-> 0]
  <2> DEFINE e == <<>>
  <2>1. e \in Seq(Nat) /\ Len(e) = 0
    OBVIOUS
  <2>2. Total(e) = 0
    <3> HIDE DEF e
    <3>1. \A i \in 1..Len(e) : e[i] = 0
      BY <2>1
    <3> QED BY <2>1, <3>1, TotalZero
  <2>3. ASSUME NEW k
        PROVE  /\ [i \in DOMAIN m_Storage |-> UnitsOf(m_Storage[i], k)] = e
               /\ [i \in DOMAIN storing |-> AmountOf(storing[i], k)] = e
    BY <1>1
  <2> HIDE DEF e
  <2> QED BY <2>2, <2>3 DEF Stored
<1> QED BY <1>1, <1>2 DEF Books!Init

(* The bank implements the ledger: through stacking, splitting, late        *)
(* commands, closing and rejoining, units only change hands, and only a    *)
(* script's additions make more of them, as many as it was told.           *)
THEOREM BooksAreKept == Spec => KeepsTheBooks
<1>1. Init => Books!Init
  BY InitBooks
<1>2. Ind /\ Ind' /\ [Next]_vars => [Books!Next]_<<carried, Stored, granted>>
  BY NextBooks
<1> QED BY <1>1, <1>2, Always, PTL DEF Spec, KeepsTheBooks, Books!Spec

-----------------------------------------------------------------------------
(* The room: how many items the storage counts, and what fits on stacks.   *)

Counts        == [it \in Item |-> ItemCount(it)]
RoomFor(k)    == [it \in Item |-> Storage_StackRoom(it, k)]
RoomsIn(s, k) == Total([i \in DOMAIN s |-> Storage_StackRoom(s[i], k)])

LEMMA Limits ==
  /\ NUM_MAX_STACK \in Nat \ {0} /\ STORAGE_MAX_SWIGS \in Nat \ {0}
  /\ STORAGE_MAX_ITEMS \in Nat \ {0} /\ STORAGE_DEFAULT_ITEMS \in Nat \ {0}
BY LimitsAssumption

LEMMA RoomMeasures ==
  ASSUME NEW k
  PROVE  Counts \in [Item -> Nat] /\ RoomFor(k) \in [Item -> Nat]
<1>1. ASSUME NEW it \in Item PROVE ItemCount(it) \in Nat /\ Storage_StackRoom(it, k) \in Nat
  <2>1. it.Quantity \in Nat /\ it.Quality \in Nat
    BY DEF Item
  <2> QED BY <2>1, Limits DEF ItemCount, Storage_StackRoom, AtLeast
<1> QED BY <1>1 DEF Counts, RoomFor

LEMMA CountIs ==
  ASSUME NEW s \in Seq(Item), NEW k
  PROVE  /\ Storage_ItemCount(s) = Weigh(s, Counts) /\ Storage_ItemCount(s) \in Nat
         /\ RoomsIn(s, k) = Weigh(s, RoomFor(k)) /\ RoomsIn(s, k) \in Nat
<1>1. \A i \in DOMAIN s : s[i] \in Item
  OBVIOUS
<1>2. /\ Sizes(s, Counts) = [i \in DOMAIN s |-> ItemCount(s[i])]
      /\ Sizes(s, RoomFor(k)) = [i \in DOMAIN s |-> Storage_StackRoom(s[i], k)]
  BY <1>1 DEF Sizes, Counts, RoomFor
<1>3. Weigh(s, Counts) \in Nat /\ Weigh(s, RoomFor(k)) \in Nat
  BY RoomMeasures, SizesFit, Zenon
<1>4. Storage_ItemCount(s) = Weigh(s, Counts) /\ RoomsIn(s, k) = Weigh(s, RoomFor(k))
  BY <1>2, Zenon DEF Weigh, Storage_ItemCount, RoomsIn
<1> QED BY <1>3, <1>4

LEMMA CountAppend ==
  ASSUME NEW s \in Seq(Item), NEW x \in Item, NEW k
  PROVE  /\ Storage_ItemCount(Append(s, x)) = Storage_ItemCount(s) + ItemCount(x)
         /\ RoomsIn(Append(s, x), k) = RoomsIn(s, k) + Storage_StackRoom(x, k)
<1> DEFINE u == Append(s, x)
<1>1. u \in Seq(Item)
  OBVIOUS
<1>2. /\ Weigh(u, Counts) = Weigh(s, Counts) + Counts[x]
      /\ Weigh(u, RoomFor(k)) = Weigh(s, RoomFor(k)) + RoomFor(k)[x]
  BY RoomMeasures, WeighAppend, Zenon
<1> HIDE DEF u
<1>3. Counts[x] = ItemCount(x) /\ RoomFor(k)[x] = Storage_StackRoom(x, k)
  BY DEF Counts, RoomFor
<1>4. /\ Storage_ItemCount(u) = Storage_ItemCount(s) + ItemCount(x)
      /\ RoomsIn(u, k) = RoomsIn(s, k) + Storage_StackRoom(x, k)
  BY <1>1, <1>2, <1>3, CountIs
<1> QED BY <1>4 DEF u

LEMMA CountChanged ==
  ASSUME NEW s \in Seq(Item), NEW i \in 1..Len(s), NEW x \in Item, NEW k
  PROVE  /\ Storage_ItemCount([s EXCEPT ![i] = x])
              = Storage_ItemCount(s) - ItemCount(s[i]) + ItemCount(x)
         /\ RoomsIn([s EXCEPT ![i] = x], k)
              = RoomsIn(s, k) - Storage_StackRoom(s[i], k) + Storage_StackRoom(x, k)
         /\ ItemCount(s[i]) \in Nat /\ Storage_StackRoom(s[i], k) \in Nat
<1> DEFINE u == [s EXCEPT ![i] = x]
           z == Counts
           y == RoomFor(k)
<1>1. u \in Seq(Item) /\ s[i] \in Item
  OBVIOUS
<1>2. z \in [Item -> Nat] /\ y \in [Item -> Nat]
  BY RoomMeasures
<1>3. /\ z[s[i]] = ItemCount(s[i]) /\ z[x] = ItemCount(x)
      /\ y[s[i]] = Storage_StackRoom(s[i], k) /\ y[x] = Storage_StackRoom(x, k)
  BY <1>1 DEF Counts, RoomFor
<1> HIDE DEF z, y
<1>4. /\ Weigh(u, z) = Weigh(s, z) - z[s[i]] + z[x]
      /\ Weigh(u, y) = Weigh(s, y) - y[s[i]] + y[x]
  BY <1>2, ItemsChanged
<1> HIDE DEF u
<1>5. /\ Storage_ItemCount(u) = Weigh(u, z) /\ Storage_ItemCount(s) = Weigh(s, z)
      /\ RoomsIn(u, k) = Weigh(u, y) /\ RoomsIn(s, k) = Weigh(s, y)
  BY <1>1, CountIs DEF z, y
<1>6. z[s[i]] \in Nat /\ y[s[i]] \in Nat
  BY <1>1, <1>2
<1> QED BY <1>3, <1>4, <1>5, <1>6 DEF u

(* A stack or a potion that takes amt has as much less room, and counts    *)
(* for more only if its kind counts one by one.                            *)
LEMMA EnlargedRoom ==
  ASSUME NEW it \in Item, Potted(it), NEW k \in Kinds, NEW x \in Nat \ {0},
         Storage_StackRoom(it, k) > 0, NEW amt, amt = AtMost(x, Storage_StackRoom(it, k))
  PROVE  /\ amt \in Nat \ {0} /\ amt =< x /\ Enlarged(it, amt) \in Item
         /\ Storage_StackRoom(Enlarged(it, amt), k) = Storage_StackRoom(it, k) - amt
         /\ ItemCount(Enlarged(it, amt)) = ItemCount(it) + (IF k \in Plains THEN amt ELSE 0)
<1> DEFINE big == Enlarged(it, amt)
           room == Storage_StackRoom(it, k)
<1>1. /\ it.Kind = k /\ it.Quantity \in 1..NUM_MAX_STACK /\ it.Quality \in 0..STORAGE_MAX_SWIGS
  BY DEF Storage_StackRoom, Item
<1>2. amt \in Nat \ {0} /\ amt =< x /\ big \in Item /\ big.Kind = k
  <2>1. big \in Item
    BY <1>1, EnlargedFits, Zenon
  <2>2. amt \in Nat \ {0} /\ big.Kind = k
    BY <1>1, EnlargedFits, Zenon
  <2>3. amt =< x
    BY EnlargedCounts, Zenon
  <2> QED BY <2>1, <2>2, <2>3
<1>3. room \in Nat /\ amt =< room
  <2>1. room \in Nat
    BY RoomMeasures, Limits, <1>1 DEF Storage_StackRoom, AtLeast
  <2> HIDE DEF room
  <2>2. amt = AtMost(x, room)
    BY DEF room
  <2> QED BY <2>1, <2>2 DEF AtMost
<1>4. CASE k \in Potions
  <2>1. big.Quality = it.Quality + amt /\ big.Quantity = it.Quantity
    BY <1>1, <1>4 DEF Enlarged, Item
  <2>2. room = STORAGE_MAX_SWIGS - it.Quality
    BY <1>1, <1>4, Limits DEF Storage_StackRoom, AtLeast
  <2> HIDE DEF big, room
  <2>3. Storage_StackRoom(big, k) = room - amt
    BY <1>1, <1>2, <1>3, <1>4, <2>1, <2>2, Limits DEF Storage_StackRoom, AtLeast
  <2>4. ItemCount(big) = ItemCount(it) /\ ItemCount(it) \in Nat /\ k \notin Plains
    BY <1>1, <1>2, <1>4, <2>1, KindsAssumption DEF ItemCount
  <2> QED BY <1>2, <2>3, <2>4 DEF big, room
<1>5. CASE k \notin Potions
  <2>1. big.Quantity = it.Quantity + amt
    BY <1>1, <1>5 DEF Enlarged, Item
  <2>2. room = NUM_MAX_STACK - it.Quantity
    BY <1>1, <1>5, Limits DEF Storage_StackRoom, AtLeast
  <2> HIDE DEF big, room
  <2>3. Storage_StackRoom(big, k) = room - amt
    BY <1>1, <1>2, <1>3, <1>5, <2>1, <2>2, Limits DEF Storage_StackRoom, AtLeast
  <2>4. ItemCount(big) = ItemCount(it) + (IF k \in Plains THEN amt ELSE 0)
    <3>1. k \in Plains <=> k \notin Groupables
      BY <1>5, KindsAssumption DEF Kinds
    <3> QED BY <1>1, <1>2, <2>1, <3>1 DEF ItemCount
  <2> QED BY <1>2, <2>3, <2>4 DEF big, room
<1> QED BY <1>4, <1>5

-----------------------------------------------------------------------------
(* What was checked fits, from the check to the last pass.                 *)

FitsIn(s, max, k, amt) ==
  /\ k \in Potions =>
       amt =< AtLeast(max - Storage_ItemCount(s), 0) * STORAGE_MAX_SWIGS + RoomsIn(s, k)
  /\ k \in Plains => Storage_ItemCount(s) + amt =< max
  /\ k \in Groupables => Storage_ItemCount(s) < max \/ RoomsIn(s, k) >= amt

(* What was checked is alone, and what is left of it fits.                 *)
CheckedFits ==
  \A i \in 1..Len(storing) : storing[i].Checked =>
    /\ Len(storing) = 1 /\ unchecked = 0
    /\ FitsIn(m_Storage, Storage_MaxItems, storing[i].Kind, storing[i].Amount)

LEMMA FitsIs ==
  ASSUME NEW k \in Kinds, NEW amt, Fits(k, amt)
  PROVE  FitsIn(m_Storage, Storage_MaxItems, k, amt)
<1>1. CASE k \in Potions
  <2>1. k \notin Plains /\ k \notin Groupables
    BY <1>1, KindsAssumption
  <2> QED BY <1>1, <2>1 DEF Fits, FitsIn, Storage_SwigRoom, StackRooms, RoomsIn
<1>2. CASE k \in Plains
  <2>1. k \notin Potions /\ k \notin Groupables
    BY <1>2, KindsAssumption
  <2> QED BY <1>2, <2>1 DEF Fits, FitsIn
<1>3. CASE k \in Groupables
  <2>1. k \notin Potions /\ k \notin Plains
    BY <1>3, KindsAssumption
  <2> QED BY <1>3, <2>1 DEF Fits, FitsIn, StackRooms, RoomsIn
<1> QED BY <1>1, <1>2, <1>3 DEF Kinds

LEMMA MaxIsNat == ASSUME Ind PROVE Storage_MaxItems \in Nat \ {0}
BY Limits DEF Ind, UseInv, Storage_MaxItems, AtMost

(* A pass that stacks.                                                     *)
LEMMA StackingFits ==
  ASSUME NEW s \in Seq(Item), NEW i \in 1..Len(s), Potted(s[i]), NEW max \in Nat, NEW k \in Kinds,
         NEW x \in Nat \ {0}, Storage_StackRoom(s[i], k) > 0, FitsIn(s, max, k, x),
         NEW amt, amt = AtMost(x, Storage_StackRoom(s[i], k)),
         NEW u, u = [s EXCEPT ![i] = Enlarged(s[i], amt)]
  PROVE  /\ amt \in Nat \ {0} /\ amt =< x
         /\ FitsIn(u, max, k, x - amt)
         /\ Storage_ItemCount(u) > max => Storage_ItemCount(u) =< Storage_ItemCount(s)
<1> DEFINE it   == s[i]
           big  == Enlarged(it, amt)
           room == Storage_StackRoom(it, k)
           more == IF k \in Plains THEN amt ELSE 0
<1>1. it \in Item /\ Potted(it) /\ room > 0 /\ amt = AtMost(x, room)
  OBVIOUS
<1>2. /\ amt \in Nat \ {0} /\ amt =< x /\ big \in Item
      /\ Storage_StackRoom(big, k) = room - amt /\ ItemCount(big) = ItemCount(it) + more
  <2> HIDE DEF it
  <2> QED BY <1>1, EnlargedRoom
<1>3. u = [s EXCEPT ![i] = big]
  OBVIOUS
<1> HIDE DEF big
<1>4. /\ Storage_ItemCount([s EXCEPT ![i] = big])
           = Storage_ItemCount(s) - ItemCount(it) + ItemCount(big)
      /\ RoomsIn([s EXCEPT ![i] = big], k) = RoomsIn(s, k) - room + Storage_StackRoom(big, k)
      /\ ItemCount(it) \in Nat /\ room \in Nat
  BY <1>2, CountChanged
<1>5. Storage_ItemCount(s) \in Nat /\ RoomsIn(s, k) \in Nat
  BY CountIs
<1> HIDE DEF it, room
<1>6. /\ Storage_ItemCount(u) = Storage_ItemCount(s) + more
      /\ RoomsIn(u, k) = RoomsIn(s, k) - amt
  <2> DEFINE cu == Storage_ItemCount(u)
             cs == Storage_ItemCount(s)
             ru == RoomsIn(u, k)
             rs == RoomsIn(s, k)
             cb == ItemCount(big)
             ci == ItemCount(it)
             rb == Storage_StackRoom(big, k)
  <2>1. more \in Nat
    BY <1>2
  <2>2. /\ cu = cs - ci + cb /\ ru = rs - room + rb
        /\ cb = ci + more /\ rb = room - amt
    BY <1>2, <1>3, <1>4, Zenon
  <2>3. cs \in Nat /\ rs \in Nat /\ ci \in Nat /\ room \in Nat /\ amt \in Nat
    BY <1>2, <1>4, <1>5
  <2> HIDE DEF cu, cs, ru, rs, cb, ci, rb, more
  <2>4. cu = cs + more /\ ru = rs - amt
    BY <2>1, <2>2, <2>3
  <2> QED BY <2>4 DEF cu, cs, ru, rs
<1>7. CASE k \in Potions
  <2>1. k \notin Plains /\ k \notin Groupables /\ more = 0
    BY <1>7, KindsAssumption
  <2>2. Storage_ItemCount(u) = Storage_ItemCount(s)
    BY <1>5, <1>6, <2>1
  <2> DEFINE free == AtLeast(max - Storage_ItemCount(s), 0) * STORAGE_MAX_SWIGS
  <2>3. free \in Nat
    <3>1. AtLeast(max - Storage_ItemCount(s), 0) \in Nat
      BY <1>5 DEF AtLeast
    <3> QED BY <3>1, Limits
  <2>4. x =< free + RoomsIn(s, k)
    BY <1>7 DEF FitsIn
  <2>5. AtLeast(max - Storage_ItemCount(u), 0) * STORAGE_MAX_SWIGS = free
    BY <2>2
  <2> HIDE DEF free
  <2>6. x - amt =< free + RoomsIn(u, k)
    BY <1>2, <1>5, <1>6, <2>3, <2>4
  <2> QED BY <1>2, <1>5, <2>1, <2>2, <2>5, <2>6 DEF FitsIn
<1>8. CASE k \in Plains
  <2>1. k \notin Potions /\ k \notin Groupables /\ more = amt
    BY <1>8, KindsAssumption
  <2>2. Storage_ItemCount(s) + x =< max
    BY <1>8 DEF FitsIn
  <2> QED BY <1>2, <1>5, <1>6, <1>8, <2>1, <2>2 DEF FitsIn
<1>9. CASE k \in Groupables
  <2>1. k \notin Potions /\ k \notin Plains /\ more = 0
    BY <1>9, KindsAssumption
  <2>2. Storage_ItemCount(s) < max \/ RoomsIn(s, k) >= x
    BY <1>9 DEF FitsIn
  <2>3. Storage_ItemCount(u) = Storage_ItemCount(s)
    BY <1>5, <1>6, <2>1
  <2>4. Storage_ItemCount(u) < max \/ RoomsIn(u, k) >= x - amt
    BY <1>2, <1>5, <1>6, <2>2, <2>3
  <2> QED BY <1>2, <1>5, <2>1, <2>3, <2>4 DEF FitsIn
<1> QED BY <1>7, <1>8, <1>9 DEF Kinds

(* A pass that makes a new item, of all that is left or of one potion.     *)
LEMMA NewFits ==
  ASSUME NEW s \in Seq(Item), NEW max \in Nat, NEW k \in Kinds, NEW x \in Nat \ {0},
         \A i \in 1..Len(s) : Storage_StackRoom(s[i], k) = 0, FitsIn(s, max, k, x),
         NEW amt, amt = IF k \in Potions THEN AtMost(x, STORAGE_MAX_SWIGS) ELSE x,
         NEW new \in Item, new.Kind = k,
         k \in Potions => new.Quality = amt /\ new.Quantity = 1,
         k \notin Potions => new.Quantity = amt
  PROVE  /\ Storage_ItemCount(Append(s, new)) =< max
         /\ amt < x => FitsIn(Append(s, new), max, k, x - amt)
<1> DEFINE u == Append(s, new)
<1>1. /\ Storage_ItemCount(u) = Storage_ItemCount(s) + ItemCount(new)
      /\ RoomsIn(u, k) = RoomsIn(s, k) + Storage_StackRoom(new, k)
      /\ Storage_ItemCount(s) \in Nat
  BY CountAppend, CountIs
<1> HIDE DEF u
<1>2. RoomsIn(s, k) = 0
  <2>1. RoomFor(k) \in [Item -> Nat]
    BY RoomMeasures
  <2>2. \A i \in 1..Len(s) : RoomFor(k)[s[i]] = 0
    <3> TAKE i \in 1..Len(s)
    <3>1. s[i] \in Item
      OBVIOUS
    <3> QED BY <3>1 DEF RoomFor
  <2>3. Weigh(s, RoomFor(k)) = 0
    BY <2>1, <2>2, WeighNone
  <2> QED BY <2>3, CountIs
<1>3. CASE k \in Potions
  <2>1. k \notin Plains /\ k \notin Groupables
    BY <1>3, KindsAssumption
  <2>2. amt \in 1..STORAGE_MAX_SWIGS /\ amt =< x
    BY <1>3, Limits DEF AtMost
  <2>3. ItemCount(new) = 1
    BY <1>3, <2>1 DEF ItemCount
  <2>4. Storage_StackRoom(new, k) = STORAGE_MAX_SWIGS - amt
    BY <1>3, <2>2, Limits DEF Storage_StackRoom, AtLeast
  <2> DEFINE n == max - Storage_ItemCount(s)
  <2>5. x =< AtLeast(n, 0) * STORAGE_MAX_SWIGS + RoomsIn(s, k)
    BY <1>3 DEF FitsIn
  <2>6. n \in Nat \ {0}
    <3>1. n \in Int
      BY <1>1
    <3> HIDE DEF n
    <3>2. CASE n =< 0
      <4>1. AtLeast(n, 0) = 0
        BY <3>1, <3>2 DEF AtLeast
      <4>2. AtLeast(n, 0) * STORAGE_MAX_SWIGS = 0
        BY <4>1, Limits
      <4> QED BY <1>2, <2>5, <4>2
    <3> QED BY <3>1, <3>2
  <2>7. Storage_ItemCount(u) = Storage_ItemCount(s) + 1 /\ Storage_ItemCount(u) =< max
    BY <1>1, <2>3, <2>6
  <2>8. x =< n * STORAGE_MAX_SWIGS
    <3>1. n * STORAGE_MAX_SWIGS \in Nat
      <4> HIDE DEF n
      <4> QED BY <2>6, Limits
    <3>2. AtLeast(n, 0) = n
      <4> HIDE DEF n
      <4> QED BY <2>6 DEF AtLeast
    <3> HIDE DEF n
    <3> QED BY <1>2, <2>5, <3>1, <3>2
  <2>9. AtLeast(max - Storage_ItemCount(u), 0) = n - 1
    BY <1>1, <2>6, <2>7 DEF AtLeast
  <2>10. (n - 1) * STORAGE_MAX_SWIGS = n * STORAGE_MAX_SWIGS - STORAGE_MAX_SWIGS
         /\ n * STORAGE_MAX_SWIGS \in Nat
    <3>1. \A a, b \in Nat : (a - 1) * b = a * b - b /\ a * b \in Nat
      OBVIOUS
    <3> HIDE DEF n
    <3> QED BY <2>6, <3>1, Limits
  <2>11. RoomsIn(u, k) = STORAGE_MAX_SWIGS - amt
    BY <1>1, <1>2, <2>2, <2>4, Limits
  <2> HIDE DEF n
  <2>12. x - amt =< AtLeast(max - Storage_ItemCount(u), 0) * STORAGE_MAX_SWIGS + RoomsIn(u, k)
    <3>1. x - amt =< (n * STORAGE_MAX_SWIGS - STORAGE_MAX_SWIGS) + (STORAGE_MAX_SWIGS - amt)
      BY <2>2, <2>8, <2>10, Limits
    <3> QED BY <2>9, <2>10, <2>11, <3>1
  <2> QED BY <2>1, <2>7, <2>12 DEF FitsIn, u
<1>4. CASE k \in Plains
  <2>1. k \notin Potions /\ k \notin Groupables
    BY <1>4, KindsAssumption
  <2>2. Storage_ItemCount(s) + x =< max /\ ItemCount(new) = x /\ amt = x
    BY <1>4, <2>1 DEF FitsIn, ItemCount
  <2> QED BY <1>1, <2>2 DEF u
<1>5. CASE k \in Groupables
  <2>1. k \notin Potions /\ k \notin Plains
    BY <1>5, KindsAssumption
  <2>2. /\ Storage_ItemCount(s) < max \/ RoomsIn(s, k) >= x
        /\ ItemCount(new) = 1 /\ amt = x
    BY <1>5, <2>1 DEF FitsIn, ItemCount
  <2> QED BY <1>1, <1>2, <2>2 DEF u
<1> QED BY <1>3, <1>4, <1>5 DEF Kinds

(* What a pass leaves of a checked list and of an unchecked one.           *)
LEMMA PutLeaves ==
  ASSUME storing \in Seq(Todo), storing # <<>>, NEW amt \in Nat \ {0},
         amt =< Head(storing).Amount, Put(amt)
  PROVE  /\ (\A i \in 1..Len(storing) : ~storing[i].Checked)
              => \A i \in 1..Len(storing') : ~storing'[i].Checked
         /\ Len(storing) = 1 =>
              \/ storing' = <<>>
              \/ /\ amt < Head(storing).Amount /\ Len(storing') = 1
                 /\ storing'[1].Kind = Head(storing).Kind
                 /\ storing'[1].Amount = Head(storing).Amount - amt
<1>1. /\ Head(storing) = storing[1] /\ 1 \in 1..Len(storing) /\ Len(storing) \in Nat
      /\ Tail(storing) \in Seq(Todo) /\ Len(Tail(storing)) = Len(storing) - 1
      /\ \A i \in 1..Len(Tail(storing)) : Tail(storing)[i] = storing[i + 1]
  OBVIOUS
<1>2. CASE amt = Head(storing).Amount /\ storing' = Tail(storing)
  <2>1. ASSUME NEW i \in 1..Len(storing'), \A j \in 1..Len(storing) : ~storing[j].Checked
        PROVE  ~storing'[i].Checked
    <3>1. i + 1 \in 1..Len(storing) /\ storing'[i] = storing[i + 1]
      BY <1>1, <1>2
    <3> QED BY <2>1, <3>1
  <2>2. Len(storing) = 1 => storing' = <<>>
    BY <1>1, <1>2
  <2> QED BY <2>1, <2>2
<1>3. CASE /\ amt < Head(storing).Amount
           /\ storing' \in Seq(Todo) /\ Len(storing') = Len(storing)
           /\ storing'[1].Kind = Head(storing).Kind
           /\ storing'[1].Amount = Head(storing).Amount - amt
           /\ storing'[1].Checked = Head(storing).Checked
           /\ \A j \in 1..Len(storing) : j # 1 => storing'[j] = storing[j]
  <2>1. ASSUME NEW i \in 1..Len(storing'), \A j \in 1..Len(storing) : ~storing[j].Checked
        PROVE  ~storing'[i].Checked
    <3>1. i \in 1..Len(storing)
      BY <1>3
    <3>2. CASE i = 1
      BY <1>1, <1>3, <2>1, <3>2
    <3>3. CASE i # 1
      BY <1>3, <2>1, <3>1, <3>3
    <3> QED BY <3>2, <3>3
  <2> QED BY <1>3, <2>1
<1> QED BY <1>2, <1>3, PutIs

(* A checked list has one thing to put.                                    *)
LEMMA CheckedOrNot ==
  ASSUME Ind, CheckedFits, storing # <<>>
  PROVE  \/ \A i \in 1..Len(storing) : ~storing[i].Checked
         \/ /\ Len(storing) = 1 /\ Head(storing).Checked
            /\ FitsIn(m_Storage, Storage_MaxItems, Head(storing).Kind, Head(storing).Amount)
<1>1. storing \in Seq(Todo) /\ Head(storing) = storing[1]
  BY DEF Ind, StoreInv
<1>2. CASE \E i \in 1..Len(storing) : storing[i].Checked
  <2>1. PICK i \in 1..Len(storing) : storing[i].Checked
    BY <1>2
  <2>2. /\ Len(storing) = 1
        /\ FitsIn(m_Storage, Storage_MaxItems, storing[i].Kind, storing[i].Amount)
    BY <2>1 DEF CheckedFits
  <2>3. i = 1
    BY <2>2
  <2> QED BY <1>1, <2>1, <2>2, <2>3
<1> QED BY <1>2

(* A pass keeps what was checked fitting, and the count within the maximum. *)
LEMMA StoreFits ==
  ASSUME Ind, CheckedFits, Store
  PROVE  /\ CheckedFits'
         /\ Head(storing).Checked /\ Storage_ItemCount(m_Storage') > Storage_MaxItems
              => Storage_ItemCount(m_Storage') =< Storage_ItemCount(m_Storage)
<1> DEFINE h   == Head(storing)
           max == Storage_MaxItems
<1>1. /\ m_Storage \in Seq(Item) /\ storing \in Seq(Todo) /\ storing # <<>>
      /\ h.Kind \in Kinds /\ h.Amount \in Nat \ {0} /\ Stackable(h)
      /\ \A j \in 1..Len(m_Storage) : m_Storage[j] \in Item /\ Potted(m_Storage[j])
  BY ToPut
<1>2. /\ max \in Nat /\ Storage_MaxItems' = max /\ unchecked = 0 /\ unchecked' = 0
  <2>1. Storage_MaxItems' = max /\ unchecked = 0 /\ unchecked' = 0
    BY DEF Store, Storage_MaxItems
  <2> QED BY <2>1, MaxIsNat
<1> HIDE DEF h, max
<1>3. PICK amt \in Nat \ {0} :
        /\ amt =< h.Amount /\ Put(amt)
        /\ FitsIn(m_Storage, max, h.Kind, h.Amount) =>
             /\ amt < h.Amount => FitsIn(m_Storage', max, h.Kind, h.Amount - amt)
             /\ Storage_ItemCount(m_Storage') > max
                  => Storage_ItemCount(m_Storage') =< Storage_ItemCount(m_Storage)
  <2>1. CASE \E i \in DOMAIN m_Storage : StackOn(i)
    <3>1. PICK i \in 1..Len(m_Storage) : StackOn(i)
      BY <1>1, <2>1
    <3> DEFINE it   == m_Storage[i]
               room == Storage_StackRoom(it, h.Kind)
               amt  == AtMost(h.Amount, room)
    <3>2. /\ room > 0 /\ Put(amt)
          /\ m_Storage' = [m_Storage EXCEPT ![i] = Enlarged(it, amt)]
      BY <3>1 DEF StackOn, h
    <3>3. it \in Item /\ Potted(it)
      BY <1>1
    <3>4. amt \in Nat \ {0} /\ amt =< h.Amount
      <4> HIDE DEF it
      <4> QED BY <1>1, <3>2, <3>3, EnlargedRoom
    <3>5. ASSUME FitsIn(m_Storage, max, h.Kind, h.Amount)
          PROVE  /\ FitsIn(m_Storage', max, h.Kind, h.Amount - amt)
                 /\ Storage_ItemCount(m_Storage') > max
                      => Storage_ItemCount(m_Storage') =< Storage_ItemCount(m_Storage)
      BY <1>1, <1>2, <3>2, <3>3, <3>5, StackingFits, Zenon
    <3> HIDE DEF amt
    <3> QED BY <3>2, <3>4, <3>5
  <2>2. CASE Storage_NewItem
    <3> DEFINE amt == IF h.Kind \in Potions THEN AtMost(h.Amount, STORAGE_MAX_SWIGS)
                                            ELSE h.Amount
               new == [ID |-> NewID(m_Storage), Kind |-> h.Kind,
                       Quantity |-> IF h.Kind \in Potions THEN 1 ELSE amt,
                       Quality  |-> IF h.Kind \in Potions THEN amt ELSE 0]
    <3>1. /\ m_Storage' = Append(m_Storage, new) /\ Put(amt)
          /\ \A i \in DOMAIN m_Storage : Storage_StackRoom(m_Storage[i], h.Kind) = 0
      BY <2>2 DEF Storage_NewItem, h
    <3>2. \A i \in 1..Len(m_Storage) : Storage_StackRoom(m_Storage[i], h.Kind) = 0
      BY <1>1, <3>1
    <3>3. amt \in Nat \ {0} /\ amt =< h.Amount
      BY <1>1, Limits DEF AtMost
    <3>4. m_Storage' \in Seq(Item)
      BY StepKeeps DEF Next, Ind, StoreInv
    <3>5. new.Kind = h.Kind
          /\ (h.Kind \in Potions => new.Quality = amt /\ new.Quantity = 1)
          /\ (h.Kind \notin Potions => new.Quantity = amt)
      BY DEF new
    <3> HIDE DEF new
    <3>6. new \in Item
      <4>1. Len(m_Storage) + 1 \in 1..Len(m_Storage') /\ m_Storage'[Len(m_Storage) + 1] = new
        BY <1>1, <3>1
      <4> QED BY <3>4, <4>1
    <3>7. ASSUME FitsIn(m_Storage, max, h.Kind, h.Amount)
          PROVE  /\ Storage_ItemCount(Append(m_Storage, new)) =< max
                 /\ amt < h.Amount => FitsIn(Append(m_Storage, new), max, h.Kind, h.Amount - amt)
      <4> HIDE DEF amt
      <4>1. amt = IF h.Kind \in Potions THEN AtMost(h.Amount, STORAGE_MAX_SWIGS) ELSE h.Amount
        BY DEF amt
      <4> QED BY <1>1, <1>2, <3>2, <3>5, <3>6, <3>7, <4>1, NewFits, Zenon
    <3> HIDE DEF amt
    <3>8. FitsIn(m_Storage, max, h.Kind, h.Amount) =>
            /\ amt < h.Amount => FitsIn(m_Storage', max, h.Kind, h.Amount - amt)
            /\ Storage_ItemCount(m_Storage') =< max
      BY <3>1, <3>7, Zenon
    <3>9. Storage_ItemCount(m_Storage') \in Nat
      BY <3>4, CountIs
    <3> QED BY <1>2, <3>1, <3>3, <3>8, <3>9
  <2> QED BY <2>1, <2>2 DEF Store
<1>4. CASE \A i \in 1..Len(storing) : ~storing[i].Checked
  <2>1. \A i \in 1..Len(storing') : ~storing'[i].Checked
    BY <1>1, <1>3, <1>4, PutLeaves DEF h
  <2>2. ~h.Checked
    BY <1>1, <1>4 DEF h
  <2> QED BY <2>1, <2>2 DEF CheckedFits, h
<1>5. CASE /\ Len(storing) = 1 /\ h.Checked
           /\ FitsIn(m_Storage, max, h.Kind, h.Amount)
  <2>1. CASE storing' = <<>>
    BY <1>3, <1>5, <2>1 DEF CheckedFits, h, max
  <2>2. CASE /\ amt < h.Amount /\ Len(storing') = 1
             /\ storing'[1].Kind = h.Kind /\ storing'[1].Amount = h.Amount - amt
    <3>1. FitsIn(m_Storage', Storage_MaxItems', storing'[1].Kind, storing'[1].Amount)
      BY <1>2, <1>3, <1>5, <2>2
    <3>2. CheckedFits'
      <4>1. \A i \in 1..Len(storing') : i = 1
        BY <2>2
      <4> QED BY <1>2, <2>2, <3>1, <4>1, Zenon DEF CheckedFits
    <3> QED BY <1>3, <1>5, <3>2 DEF h, max
  <2> QED BY <1>1, <1>3, <1>5, <2>1, <2>2, PutLeaves DEF h
<1> QED BY <1>1, <1>4, <1>5, CheckedOrNot DEF h, max

(* Storage_Validate puts unchecked, and not while something checked is put. *)
LEMMA ValidateFits ==
  ASSUME Ind, CheckedFits, Validate
  PROVE  CheckedFits'
<1>1. storing \in Seq(Todo) /\ unchecked > 0 /\ unchecked \in Nat
  BY DEF Ind, StoreInv, Validate
<1>2. \A i \in 1..Len(storing) : ~storing[i].Checked
  BY <1>1 DEF CheckedFits
<1>3. \A i \in 1..Len(storing') : ~storing'[i].Checked
  <2> DEFINE it == m_Storage[unchecked]
             x  == [Kind |-> it.Kind, Amount |-> Units(it), Checked |-> FALSE]
  <2>1. storing' = storing \/ storing' = Append(storing, x)
    BY DEF Validate
  <2>2. ~x.Checked
    OBVIOUS
  <2> HIDE DEF x
  <2>3. storing' \in Seq(Todo)
    BY StepKeeps DEF Next, Ind, StoreInv
  <2>4. CASE storing' = Append(storing, x)
    <3> TAKE i \in 1..Len(storing')
    <3>1. Len(storing') = Len(storing) + 1 /\ storing'[Len(storing) + 1] = x
          /\ \A j \in 1..Len(storing) : storing'[j] = storing[j]
      BY <1>1, <2>4
    <3>2. i \in 1..Len(storing) \/ i = Len(storing) + 1
      BY <1>1, <3>1
    <3> QED BY <1>2, <2>2, <3>1, <3>2
  <2>5. CASE storing' = storing
    BY <1>2, <2>5
  <2> QED BY <2>1, <2>4, <2>5
<1> QED BY <1>3 DEF CheckedFits

(* What a command adds was checked.                                        *)
LEMMA AddItemFits ==
  ASSUME Ind, Ind', Storage_AddItem, unchecked = 0,
         UNCHANGED <<m_Storage, m_StorageMax, unchecked>>
  PROVE  CheckedFits'
<1>1. PICK k \in Kinds : \E amt \in CASE k \in Potions -> 1..PotionSize
                                     [] k \in Plains  -> {1}
                                     [] OTHER         -> 1..NUM_MAX_STACK :
        Fits(k, amt) /\ storing' = <<[Kind |-> k, Amount |-> amt, Checked |-> TRUE]>>
  BY DEF Storage_AddItem
<1>2. PICK amt : Fits(k, amt) /\ storing' = <<[Kind |-> k, Amount |-> amt, Checked |-> TRUE]>>
  BY <1>1
<1>3. FitsIn(m_Storage, Storage_MaxItems, k, amt)
  BY <1>2, FitsIs
<1>4. Storage_MaxItems' = Storage_MaxItems
  BY DEF Storage_MaxItems
<1>5. Len(storing') = 1 /\ storing'[1].Kind = k /\ storing'[1].Amount = amt
  BY <1>2
<1>6. ASSUME NEW i \in 1..Len(storing')
      PROVE  FitsIn(m_Storage', Storage_MaxItems', storing'[i].Kind, storing'[i].Amount)
  <2>1. i = 1
    BY <1>5
  <2> QED BY <1>3, <1>4, <1>5, <2>1
<1> QED BY <1>5, <1>6 DEF CheckedFits

LEMMA Divided == ASSUME NEW a \in Nat, NEW b \in Nat \ {0} PROVE a \div b \in Nat /\ (a \div b) * b =< a
OBVIOUS

LEMMA Times == \A a, b, c \in Nat : a =< b => a * c =< b * c
OBVIOUS

(* As many as a script is told were added fit.                             *)
LEMMA AddedFits ==
  ASSUME Ind, NEW k \in Kinds, NEW n \in Nat, NEW q \in Nat \ {0}, NEW added \in Nat \ {0},
         added = Added(k, n, q), NEW amt, amt = added * (IF k \in Potions THEN q ELSE 1)
  PROVE  FitsIn(m_Storage, Storage_MaxItems, k, amt)
<1>0. m_Storage \in Seq(Item) /\ Storage_MaxItems \in Nat
  BY MaxIsNat DEF Ind, StoreInv
<1>1. Storage_ItemCount(m_Storage) \in Nat /\ RoomsIn(m_Storage, k) \in Nat
  BY <1>0, CountIs
<1>2. CASE k \in Potions
  <2>1. k \notin Plains /\ k \notin Groupables
    BY <1>2, KindsAssumption
  <2>2. added = AtMost(n, Storage_SwigRoom(k) \div q) /\ amt = added * q
    BY <1>2, <2>1 DEF Added
  <2>3. Storage_SwigRoom(k) = AtLeast(Storage_MaxItems - Storage_ItemCount(m_Storage), 0)
                                * STORAGE_MAX_SWIGS + RoomsIn(m_Storage, k)
    BY DEF Storage_SwigRoom, StackRooms, RoomsIn
  <2>4. Storage_SwigRoom(k) \in Nat
    <3>1. AtLeast(Storage_MaxItems - Storage_ItemCount(m_Storage), 0) \in Nat
      BY <1>0, <1>1 DEF AtLeast
    <3>2. \A a, b, c \in Nat : a * b + c \in Nat
      OBVIOUS
    <3> QED BY <1>1, <2>3, <3>1, <3>2, Limits
  <2>5. /\ Storage_SwigRoom(k) \div q \in Nat
        /\ (Storage_SwigRoom(k) \div q) * q =< Storage_SwigRoom(k)
    BY <2>4, Divided
  <2> DEFINE d == Storage_SwigRoom(k) \div q
  <2>6. added =< d /\ d \in Nat
    <3> HIDE DEF d
    <3>1. d \in Nat /\ added = AtMost(n, d)
      BY <2>2, <2>5 DEF d
    <3> QED BY <3>1 DEF AtMost
  <2>7. added * q =< d * q /\ d * q \in Nat /\ added * q \in Nat
    <3> HIDE DEF d
    <3>1. \A a, b \in Nat : a * b \in Nat
      OBVIOUS
    <3> QED BY <2>6, <3>1, Times
  <2>8. amt =< Storage_SwigRoom(k)
    <3>1. d * q =< Storage_SwigRoom(k)
      BY <2>5
    <3> HIDE DEF d
    <3> QED BY <2>2, <2>4, <2>7, <3>1
  <2> QED BY <2>1, <2>3, <2>8 DEF FitsIn
<1>3. CASE k \in Plains
  <2>1. k \notin Potions /\ k \notin Groupables
    BY <1>3, KindsAssumption
  <2>2. added = AtMost(n, Storage_MaxItems - Storage_ItemCount(m_Storage)) /\ amt = added
    BY <1>3, <2>1 DEF Added
  <2>3. Storage_ItemCount(m_Storage) + amt =< Storage_MaxItems
    BY <1>0, <1>1, <2>2 DEF AtMost
  <2> QED BY <2>1, <2>3 DEF FitsIn
<1>4. CASE k \in Groupables
  <2>1. k \notin Potions /\ k \notin Plains
    BY <1>4, KindsAssumption
  <2>2. added = IF Fits(k, n) THEN n ELSE 0
    BY <1>4, <2>1 DEF Added
  <2>3. Fits(k, n) /\ amt = n
    BY <2>1, <2>2
  <2> QED BY <2>3, FitsIs
<1> QED BY <1>2, <1>3, <1>4 DEF Kinds

LEMMA AddItemsFits ==
  ASSUME Ind, NEW k \in Kinds, NEW n \in 1..NUM_MAX_STACK, NEW q \in 1..STORAGE_MAX_SWIGS,
         Storage_AddItems(k, n, q)
  PROVE  CheckedFits'
<1> DEFINE each == IF k \in Potions THEN q ELSE 1
<1>1. PICK added \in 1..n :
        /\ ~Busy /\ added = Added(k, n, q)
        /\ storing' = <<[Kind |-> k, Amount |-> added * each, Checked |-> TRUE]>>
        /\ UNCHANGED <<m_Storage, unchecked, m_StorageMax>>
  BY DEF Storage_AddItems
<1> DEFINE amt == added * each
<1>2. FitsIn(m_Storage, Storage_MaxItems, k, amt)
  <2>1. n \in Nat /\ q \in Nat \ {0} /\ added \in Nat \ {0}
    OBVIOUS
  <2> QED BY <1>1, <2>1, AddedFits
<1>3. Len(storing') = 1 /\ storing'[1].Kind = k /\ storing'[1].Amount = amt
  BY <1>1
<1> HIDE DEF amt
<1>4. Storage_MaxItems' = Storage_MaxItems
  BY <1>1 DEF Storage_MaxItems
<1>5. unchecked' = 0
  <2>1. unchecked \in Nat
    BY DEF Ind, StoreInv
  <2> QED BY <1>1, <2>1 DEF Busy
<1>6. ASSUME NEW i \in 1..Len(storing')
      PROVE  FitsIn(m_Storage', Storage_MaxItems', storing'[i].Kind, storing'[i].Amount)
  <2>1. i = 1
    BY <1>3
  <2> QED BY <1>1, <1>2, <1>3, <1>4, <2>1
<1> QED BY <1>3, <1>5, <1>6 DEF CheckedFits

LEMMA NothingToPut ==
  ASSUME storing' = <<>>
  PROVE  CheckedFits'
BY DEF CheckedFits

LEMMA StepFits ==
  ASSUME Ind, Ind', CheckedFits, [Next]_vars
  PROVE  CheckedFits'
<1>1. CASE Validate \/ Store
  BY <1>1, ValidateFits, StoreFits
<1>2. CASE ~Busy /\ storing' = storing
  BY <1>2, NothingToPut DEF Busy
<1>3. CASE \/ PreThink \/ Rejoin \/ ReceiveStop \/ ClosePanel \/ ClientCommand("add", 0)
           \/ \E t \in Tellers : Trade(t) \/ Walk(t)
           \/ \E max \in 1..STORAGE_MAX_ITEMS : Storage_SetMax(max)
           \/ \E cmd \in {"remove", "split"}, id \in IDs(view) : ClientCommand(cmd, id)
  BY <1>2, <1>3 DEF PreThink, Rejoin, ReceiveStop, ClosePanel, ClientCommand, Trade, Walk,
                    Storage_SetMax, store
<1>4. CASE \E k \in Kinds, n \in 1..NUM_MAX_STACK, q \in 1..STORAGE_MAX_SWIGS :
             Storage_AddItems(k, n, q)
  BY <1>4, AddItemsFits
<1>5. CASE ReceiveMove
  <2>1. ~Busy /\ UNCHANGED <<unchecked, m_StorageMax>>
    BY <1>5 DEF ReceiveMove
  <2>2. \/ UNCHANGED storing
        \/ Storage_AddItem /\ UNCHANGED m_Storage
    BY <1>5 DEF ReceiveMove
  <2>3. unchecked = 0
    <3>1. unchecked \in Nat
      BY DEF Ind, StoreInv
    <3> QED BY <2>1, <3>1 DEF Busy
  <2> QED BY <1>2, <2>1, <2>2, <2>3, AddItemFits
<1>6. CASE UNCHANGED vars
  BY <1>6 DEF vars, store, CheckedFits, Storage_MaxItems
<1> QED BY <1>1, <1>3, <1>4, <1>5, <1>6 DEF Next

(* No addition that was checked, a command's or a script's, takes the       *)
(* storage over its maximum in any of its passes.                          *)
THEOREM AddsStayWithinMax == Spec => WithinMax
<1>1. Init => CheckedFits
  BY DEF Init, CheckedFits
<1>2. Ind /\ Ind' /\ CheckedFits /\ [Next]_vars => CheckedFits'
  BY StepFits
<1>3. Ind /\ CheckedFits /\ [Next]_vars
        => [Store /\ Head(storing).Checked /\ Storage_ItemCount(m_Storage') > Storage_MaxItems
             => Storage_ItemCount(m_Storage') =< Storage_ItemCount(m_Storage)]_vars
  BY StoreFits
<1> QED BY <1>1, <1>2, <1>3, Always, PTL DEF Spec, WithinMax
================================================================================
