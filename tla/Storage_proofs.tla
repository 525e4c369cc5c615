----------------------------- MODULE Storage_proofs -----------------------------
(***************************************************************************)
(* For any kinds, limits and tellers: type correctness of Storage, that an *)
(* ID names one item, that the client of an open storage holds exactly the *)
(* part of it that ClientItems counts, and that each _success is matched   *)
(* by one _done.                                                           *)
(***************************************************************************)
EXTENDS Storage, FiniteSetTheorems, SequenceTheorems, TLAPS

USE KindsAssumption, LimitsAssumption

(* What the code keeps but nobody promised: a storage that is not open has *)
(* nothing with the client, Storage_Validate only runs then, a potion is   *)
(* never empty nor in a stack, what is put fits on one stack.              *)
Tidy ==
  /\ Active \/ ClientItems = 0
  /\ unchecked > 0 => ~Active
  /\ \A i \in DOMAIN m_Storage :
       m_Storage[i].Kind \in Potions => m_Storage[i].Quantity = 1 /\ m_Storage[i].Quality > 0
  /\ \A i \in DOMAIN storing :
       storing[i].Kind \notin Potions => storing[i].Amount =< NUM_MAX_STACK

Inv == TypeOK /\ UniqueIDs /\ ClientHoldsPrefix /\ OneDonePerSuccess /\ Tidy

-----------------------------------------------------------------------------
(* Sequences.                                                              *)

LEMMA PlaceAndNext ==
  ASSUME NEW n \in Nat, NEW m \in 1..(n - 1)
  PROVE  m \in 1..n /\ m + 1 \in 1..n
OBVIOUS

LEMMA JoinedItems ==
  ASSUME NEW a \in Seq(Item), NEW b \in Seq(Item)
  PROVE  /\ a \o b \in Seq(Item) /\ Len(a \o b) = Len(a) + Len(b)
         /\ \A j \in 1..(Len(a) + Len(b)) :
              (a \o b)[j] = IF j =< Len(a) THEN a[j] ELSE b[j - Len(a)]
BY ConcatProperties

(* An element removed: the ones behind it move up by one.                  *)
LEMMA RemoveAtProperties ==
  ASSUME NEW S, NEW s \in Seq(S), NEW i \in 1..Len(s)
  PROVE  /\ RemoveAt(s, i) \in Seq(S)
         /\ Len(RemoveAt(s, i)) = Len(s) - 1
         /\ \A j \in 1..(Len(s) - 1) : RemoveAt(s, i)[j] = IF j < i THEN s[j] ELSE s[j + 1]
<1> DEFINE a == SubSeq(s, 1, i - 1)
           b == SubSeq(s, i + 1, Len(s))
<1>1. /\ a \in Seq(S) /\ Len(a) = i - 1
      /\ \A j \in 1..(i - 1) : a[j] = s[j]
  <2>1. \A j \in 1..(i - 1) : s[j] \in S
    OBVIOUS
  <2> QED BY <2>1, SubSeqProperties
<1>2. /\ b \in Seq(S) /\ Len(b) = Len(s) - i
      /\ \A j \in 1..(Len(s) - i) : b[j] = s[i + j]
  <2>1. \A j \in (i + 1)..Len(s) : s[j] \in S
    OBVIOUS
  <2>2. /\ b \in Seq(S) /\ Len(b) = IF i + 1 =< Len(s) THEN Len(s) - (i + 1) + 1 ELSE 0
        /\ \A j \in 1..(Len(s) - (i + 1) + 1) : b[j] = s[(i + 1) + j - 1]
    BY <2>1, SubSeqProperties
  <2>3. Len(b) = Len(s) - i /\ Len(s) - (i + 1) + 1 = Len(s) - i
    BY <2>2
  <2>4. ASSUME NEW j \in 1..(Len(s) - i) PROVE (i + 1) + j - 1 = i + j
    OBVIOUS
  <2>5. \A j \in 1..(Len(s) - i) : b[j] = s[(i + 1) + j - 1]
    BY <2>2, <2>3, Zenon
  <2>6. \A j \in 1..(Len(s) - i) : b[j] = s[i + j]
    BY <2>4, <2>5
  <2> QED BY <2>2, <2>3, <2>6, Zenon
<1>3. RemoveAt(s, i) = a \o b
  BY DEF RemoveAt
<1> HIDE DEF a, b
<1>4. /\ a \o b \in Seq(S) /\ Len(a \o b) = Len(a) + Len(b)
      /\ \A j \in 1..(Len(a) + Len(b)) : (a \o b)[j] = IF j =< Len(a) THEN a[j] ELSE b[j - Len(a)]
  BY <1>1, <1>2, ConcatProperties, ZenonT(30)
<1>5. Len(a \o b) = Len(s) - 1
  BY <1>1, <1>2, <1>4
<1>6. ASSUME NEW j \in 1..(Len(s) - 1)
      PROVE  (a \o b)[j] = IF j < i THEN s[j] ELSE s[j + 1]
  <2>1. CASE j < i
    BY <1>1, <1>2, <1>4, <2>1
  <2>2. CASE ~(j < i)
    <3>1. j - (i - 1) \in 1..(Len(s) - i) /\ i + (j - (i - 1)) = j + 1
      BY <2>2
    <3>2. j \in 1..(Len(a) + Len(b)) /\ ~(j =< Len(a)) /\ j - Len(a) = j - (i - 1)
      BY <1>1, <1>2, <2>2
    <3>3. (a \o b)[j] = b[j - (i - 1)]
      BY <1>4, <3>2, Zenon
    <3> QED BY <1>2, <2>2, <3>1, <3>3
  <2> QED BY <2>1, <2>2
<1> QED BY <1>3, <1>4, <1>5, <1>6

(* A set of naturals has a least element.                                  *)
LEMMA LeastNatural ==
  ASSUME NEW T \in SUBSET Nat, T # {}
  PROVE  \E m \in T : \A k \in T : m =< k
<1> DEFINE D == {0..n : n \in T}
           R == StrictSubsetOrdering(Nat)
<1>1. \A n \in T : 0..n \in FiniteSubsetsOf(Nat)
  BY FS_Interval DEF FiniteSubsetsOf
<1>2. D \subseteq FiniteSubsetsOf(Nat) /\ D # {}
  BY <1>1
<1> HIDE DEF D
<1>3. \E x \in D : \A y \in D : ~(<<y, x>> \in R)
  BY <1>2, WFMin, FS_StrictSubsetOrderingWellFounded
<1>4. PICK m \in T : \A y \in D : ~(<<y, 0..m>> \in R)
  BY <1>3 DEF D
<1>5. ASSUME NEW k \in T, k < m PROVE FALSE
  <2>1. 0..k \in D
    BY DEF D
  <2>2. 0..k \subseteq 0..m /\ 0..k # 0..m /\ 0..m \subseteq Nat
    BY <1>5
  <2>3. <<0..k, 0..m>> \in StrictSubsetOrdering(Nat)
    BY <2>2 DEF StrictSubsetOrdering
  <2> QED BY <1>4, <2>1, <2>3
<1>6. ASSUME NEW k \in T PROVE m =< k
  <2>1. m \in Nat /\ k \in Nat
    OBVIOUS
  <2>2. ~(k < m)
    BY <1>5, Zenon
  <2> QED BY <2>1, <2>2
<1> QED BY <1>6, Zenon

(* A list of n items leaves one of the IDs from 0 to n free, and NewID     *)
(* finds the first.                                                        *)
LEMMA NewIDIsFree ==
  ASSUME NEW s \in Seq(Item)
  PROVE  NewID(s) \in Nat /\ NewID(s) \notin IDs(s)
<1> DEFINE Free == {id \in 0..Len(s) : id \notin IDs(s)}
<1>1. Free # {}
  <2> SUFFICES ASSUME \A id \in 0..Len(s) : id \in IDs(s) PROVE FALSE
    OBVIOUS
  <2>1. \A id \in 0..Len(s) : \E i \in 1..Len(s) : s[i].ID = id
    <3>1. DOMAIN s = 1..Len(s)
      OBVIOUS
    <3> QED BY <3>1, Zenon DEF IDs
  <2> DEFINE place == [id \in 0..Len(s) |-> CHOOSE i \in 1..Len(s) : s[i].ID = id]
  <2>2. \A id \in 0..Len(s) : place[id] \in 1..Len(s) /\ s[place[id]].ID = id
    BY <2>1
  <2>3. place \in [0..Len(s) -> 1..Len(s)]
    BY <2>2
  <2> HIDE DEF place
  <2>4. IsFiniteSet(0..Len(s)) /\ Cardinality(0..Len(s)) = Len(s) + 1
    <3>1. 0 \in Int /\ Len(s) \in Int /\ ~(0 > Len(s))
      OBVIOUS
    <3> QED BY <3>1, FS_Interval
  <2>5. IsFiniteSet(1..Len(s)) /\ Cardinality(1..Len(s)) = Len(s)
    <3>1. 1 \in Int /\ Len(s) \in Int
      OBVIOUS
    <3>2. /\ IsFiniteSet(1..Len(s))
          /\ Cardinality(1..Len(s)) = IF 1 > Len(s) THEN 0 ELSE Len(s) - 1 + 1
      BY <3>1, FS_Interval
    <3> QED BY <3>2
  <2>6. Cardinality(1..Len(s)) < Cardinality(0..Len(s))
    BY <2>4, <2>5
  <2>7. \E x, y \in 0..Len(s) : x # y /\ place[x] = place[y]
    <3> DEFINE D == 0..Len(s)
               R == 1..Len(s)
    <3>1. /\ IsFiniteSet(D) /\ IsFiniteSet(R) /\ Cardinality(R) < Cardinality(D)
          /\ place \in [D -> R]
      BY <2>3, <2>4, <2>5, <2>6
    <3> HIDE DEF D, R
    <3>2. \E x, y \in D : x # y /\ place[x] = place[y]
      BY <3>1, FS_PigeonHole
    <3> QED BY <3>2 DEF D
  <2> QED BY <2>2, <2>7
<1>2. PICK id \in Free : \A k \in Free : id =< k
  <2>1. Free \in SUBSET Nat
    OBVIOUS
  <2> HIDE DEF Free
  <2> QED BY <1>1, <2>1, LeastNatural
<1>3. id \in 0..Len(s) /\ id \notin IDs(s)
  OBVIOUS
<1>4. ASSUME NEW j \in 0..(id - 1) PROVE j \in IDs(s)
  <2>1. j \in 0..Len(s) /\ ~(id =< j)
    BY <1>3
  <2> QED BY <1>2, <2>1
<1> HIDE DEF Free
<1>5. \E k \in 0..Len(s) : k \notin IDs(s) /\ \A j \in 0..(k - 1) : j \in IDs(s)
  BY <1>3, <1>4, Zenon
<1>6. NewID(s) \in 0..Len(s) /\ NewID(s) \notin IDs(s)
  BY <1>5, Zenon DEF NewID
<1> QED BY <1>6

-----------------------------------------------------------------------------
(* The client's list.                                                      *)

Unique(s) == \A i, j \in 1..Len(s) : s[i].ID = s[j].ID => i = j

LEMMA Prefix ==
  ASSUME NEW s \in Seq(Item), NEW n \in 0..Len(s)
  PROVE  /\ SubSeq(s, 1, n) \in Seq(Item) /\ Len(SubSeq(s, 1, n)) = n
         /\ \A j \in 1..n : SubSeq(s, 1, n)[j] = s[j]
<1>1. \A j \in 1..n : s[j] \in Item
  OBVIOUS
<1> QED BY <1>1, SubSeqProperties

(* The item found by an ID is the one that has it.                         *)
LEMMA FoundIsTheOne ==
  ASSUME NEW s \in Seq(Item), NEW n \in 0..Len(s), Unique(s), NEW i \in 1..Len(s), NEW j
  PROVE  Found(SubSeq(s, 1, n), s[i].ID, j) <=> i =< n /\ j = i
<1> DEFINE v == SubSeq(s, 1, n)
<1>1. /\ v \in Seq(Item) /\ Len(v) = n /\ DOMAIN v = 1..n
      /\ \A k \in 1..n : v[k] = s[k]
  BY Prefix
<1> HIDE DEF v
<1>2. ASSUME Found(v, s[i].ID, j) PROVE i =< n /\ j = i
  <2>1. j \in 1..n /\ v[j].ID = s[i].ID
    BY <1>1, <1>2 DEF Found
  <2>2. j \in 1..Len(s) /\ s[j].ID = s[i].ID
    BY <1>1, <2>1
  <2>3. j = i
    BY <2>2 DEF Unique
  <2> QED BY <2>1, <2>3
<1>3. ASSUME i =< n PROVE Found(v, s[i].ID, i)
  <2>1. i \in 1..n /\ v[i] = s[i]
    BY <1>1, <1>3
  <2>2. ASSUME NEW h \in 1..(i - 1) PROVE v[h].ID # s[i].ID
    <3>1. h \in 1..Len(s) /\ h \in 1..n /\ h # i
      BY <1>3
    <3>2. s[h].ID # s[i].ID
      BY <3>1 DEF Unique
    <3> QED BY <1>1, <3>1, <3>2
  <2> QED BY <1>1, <2>1, <2>2 DEF Found
<1> QED BY <1>2, <1>3 DEF v

(* The list after an update.                                               *)
Updated(v, it) ==
  [j \in DOMAIN v |-> IF Found(v, it.ID, j)
                      THEN [v[j] EXCEPT !.Quantity = it.Quantity, !.Quality = it.Quality]
                      ELSE v[j]]

(* An item that changes but for its ID and kind, and the update of it.     *)
LEMMA UpdateKeepsPrefix ==
  ASSUME NEW s \in Seq(Item), NEW t \in Seq(Item), NEW n \in 0..Len(s), Unique(s),
         NEW i \in 1..Len(s), Len(t) = Len(s),
         \A j \in 1..Len(s) : j # i => t[j] = s[j],
         t[i].ID = s[i].ID, t[i].Kind = s[i].Kind
  PROVE  /\ i =< n => Updated(SubSeq(s, 1, n), t[i]) = SubSeq(t, 1, n)
         /\ ~(i =< n) => SubSeq(s, 1, n) = SubSeq(t, 1, n)
<1> DEFINE v == SubSeq(s, 1, n)
<1>0. \A j : Found(v, s[i].ID, j) <=> i =< n /\ j = i
  <2> TAKE j
  <2> QED BY FoundIsTheOne
<1>1. /\ v \in Seq(Item) /\ Len(v) = n /\ DOMAIN v = 1..n
      /\ \A j \in 1..n : v[j] = s[j]
  BY Prefix
<1> HIDE DEF v
<1>2. /\ SubSeq(t, 1, n) \in Seq(Item) /\ Len(SubSeq(t, 1, n)) = n
      /\ \A j \in 1..n : SubSeq(t, 1, n)[j] = t[j]
  BY Prefix
<1>3. ASSUME i =< n PROVE Updated(v, t[i]) = SubSeq(t, 1, n)
  <2> DEFINE u == [j \in 1..n |->
                     IF Found(v, t[i].ID, j)
                     THEN [v[j] EXCEPT !.Quantity = t[i].Quantity, !.Quality = t[i].Quality]
                     ELSE v[j]]
  <2>1. \A j : Found(v, t[i].ID, j) <=> j = i
    BY <1>3, <1>0
  <2>2. s[i] \in Item /\ t[i] \in Item
    OBVIOUS
  <2>3. [s[i] EXCEPT !.Quantity = t[i].Quantity, !.Quality = t[i].Quality] = t[i]
    BY <2>2 DEF Item
  <2>4. \A j \in 1..n : u[j] = t[j]
    <3> TAKE j \in 1..n
    <3>1. v[j] = s[j] /\ j \in 1..Len(s)
      BY <1>1
    <3>2. CASE j = i
      <4>1. Found(v, t[i].ID, j)
        BY <2>1, <3>2
      <4> QED BY <2>3, <3>1, <3>2, <4>1
    <3>3. CASE j # i
      <4>1. ~Found(v, t[i].ID, j)
        BY <2>1, <3>3
      <4> QED BY <3>1, <3>3, <4>1
    <3> QED BY <3>2, <3>3
  <2> HIDE DEF u
  <2>5. u \in Seq(Item) /\ Len(u) = n
    <3>1. u = [j \in 1..n |-> u[j]]
      BY DEF u
    <3>2. \A j \in 1..n : u[j] \in Item
      BY <2>4
    <3>3. u \in [1..n -> Item] /\ n \in Nat
      BY <3>1, <3>2
    <3> QED BY <3>3
  <2>6. u = SubSeq(t, 1, n)
    BY <1>2, <2>4, <2>5, SeqEqual
  <2> QED BY <1>1, <1>3, <2>6 DEF u, Updated
<1>4. ASSUME ~(i =< n) PROVE v = SubSeq(t, 1, n)
  <2>1. \A j \in 1..n : v[j] = SubSeq(t, 1, n)[j]
    BY <1>1, <1>2, <1>4
  <2>2. v = SubSeq(t, 1, n)
    BY <1>1, <1>2, <2>1, SeqEqual
  <2> QED BY <1>4, <2>2
<1> QED BY <1>3, <1>4 DEF v

(* A removal keeps IDs unique.                                             *)
LEMMA RemoveKeepsUnique ==
  ASSUME NEW s \in Seq(Item), Unique(s), NEW i \in 1..Len(s)
  PROVE  Unique(RemoveAt(s, i))
<1> DEFINE r == RemoveAt(s, i)
<1>1. /\ r \in Seq(Item) /\ Len(r) = Len(s) - 1
      /\ \A j \in 1..(Len(s) - 1) : r[j] = IF j < i THEN s[j] ELSE s[j + 1]
  BY RemoveAtProperties
<1> HIDE DEF r
<1>2. Unique(r)
  <2> SUFFICES ASSUME NEW j \in 1..Len(r), NEW k \in 1..Len(r), r[j].ID = r[k].ID
               PROVE  j = k
    BY DEF Unique
  <2> DEFINE was(m) == IF m < i THEN m ELSE m + 1
  <2>1. ASSUME NEW m \in 1..Len(r) PROVE r[m] = s[was(m)] /\ was(m) \in 1..Len(s)
    <3>1. m \in 1..(Len(s) - 1)
      BY <1>1, Zenon
    <3>2. r[m] = IF m < i THEN s[m] ELSE s[m + 1]
      BY <1>1, <3>1, Zenon
    <3>3. m \in 1..Len(s) /\ m + 1 \in 1..Len(s)
      <4>1. Len(s) \in Nat
        OBVIOUS
      <4> QED BY <3>1, <4>1, PlaceAndNext, Zenon
    <3> QED BY <3>2, <3>3
  <2>2. was(j) = was(k)
    <3> HIDE DEF was
    <3> QED BY <2>1 DEF Unique
  <2> QED BY <2>2
<1> QED BY <1>2 DEF r

(* An item that is removed, and the removal of it.                         *)
LEMMA RemoveKeepsPrefix ==
  ASSUME NEW s \in Seq(Item), NEW n \in 0..Len(s), Unique(s), NEW i \in 1..Len(s),
         NEW v, v = SubSeq(s, 1, n)
  PROVE  /\ i =< n => RemoveAt(v, i) = SubSeq(RemoveAt(s, i), 1, n - 1)
         /\ ~(i =< n) => v = SubSeq(RemoveAt(s, i), 1, n)
         /\ Unique(RemoveAt(s, i))
<1>1. /\ v \in Seq(Item) /\ Len(v) = n
      /\ \A j \in 1..n : v[j] = s[j]
  BY Prefix
<1> DEFINE r == RemoveAt(s, i)
<1>2. /\ r \in Seq(Item) /\ Len(r) = Len(s) - 1
      /\ \A j \in 1..(Len(s) - 1) : r[j] = IF j < i THEN s[j] ELSE s[j + 1]
  BY RemoveAtProperties
<1> HIDE DEF r
<1>3. ASSUME i =< n PROVE RemoveAt(v, i) = SubSeq(r, 1, n - 1)
  <2>1. /\ RemoveAt(v, i) \in Seq(Item) /\ Len(RemoveAt(v, i)) = n - 1
        /\ \A j \in 1..(n - 1) : RemoveAt(v, i)[j] = IF j < i THEN v[j] ELSE v[j + 1]
    <3>1. i \in 1..Len(v) /\ Len(v) - 1 = n - 1
      BY <1>1, <1>3
    <3>2. /\ RemoveAt(v, i) \in Seq(Item) /\ Len(RemoveAt(v, i)) = Len(v) - 1
          /\ \A j \in 1..(Len(v) - 1) : RemoveAt(v, i)[j] = IF j < i THEN v[j] ELSE v[j + 1]
      BY <1>1, <3>1, RemoveAtProperties, Zenon
    <3> QED BY <3>1, <3>2
  <2>2. n - 1 \in 0..Len(r)
    BY <1>2, <1>3
  <2>3. /\ SubSeq(r, 1, n - 1) \in Seq(Item) /\ Len(SubSeq(r, 1, n - 1)) = n - 1
        /\ \A j \in 1..(n - 1) : SubSeq(r, 1, n - 1)[j] = r[j]
    BY <1>2, <2>2, Prefix
  <2>4. \A j \in 1..(n - 1) : RemoveAt(v, i)[j] = SubSeq(r, 1, n - 1)[j]
    <3> TAKE j \in 1..(n - 1)
    <3>1. j \in 1..n /\ j + 1 \in 1..n /\ j \in 1..(Len(s) - 1)
      BY <1>3
    <3>2. v[j] = s[j] /\ v[j + 1] = s[j + 1] /\ r[j] = IF j < i THEN s[j] ELSE s[j + 1]
      BY <1>1, <1>2, <3>1
    <3> QED BY <2>1, <2>3, <3>2
  <2> QED BY <2>1, <2>3, <2>4, SeqEqual
<1>4. ASSUME ~(i =< n) PROVE v = SubSeq(r, 1, n)
  <2>1. n \in 0..Len(r)
    BY <1>2, <1>4
  <2>2. /\ SubSeq(r, 1, n) \in Seq(Item) /\ Len(SubSeq(r, 1, n)) = n
        /\ \A j \in 1..n : SubSeq(r, 1, n)[j] = r[j]
    BY <1>2, <2>1, Prefix
  <2>3. \A j \in 1..n : v[j] = SubSeq(r, 1, n)[j]
    <3> TAKE j \in 1..n
    <3>1. j < i /\ j \in 1..(Len(s) - 1)
      BY <1>4
    <3>2. v[j] = s[j] /\ r[j] = s[j]
      BY <1>1, <1>2, <3>1
    <3> QED BY <2>2, <3>2
  <2> QED BY <1>1, <2>2, <2>3, SeqEqual
<1>5. Unique(r)
  BY RemoveKeepsUnique DEF r
<1> QED BY <1>3, <1>4, <1>5 DEF r
-----------------------------------------------------------------------------
(* What the steps have in common.                                          *)

LEMMA InitInv == ASSUME Init PROVE Inv
<1>1. TypeOK
  <2>1. carried \in [Kinds -> Nat]
    BY StartAssumption DEF Init
  <2>2. /\ m_Storage \in Seq(Item) /\ view \in Seq(Item) /\ commands \in Seq(Commands)
        /\ storing \in Seq([Kind : Kinds, Amount : Nat \ {0}, Checked : BOOLEAN])
        /\ Len(m_Storage) = 0
    BY DEF Init
  <2>3. m_StorageMax \in 0..STORAGE_MAX_ITEMS /\ transfers \in 0..STORAGE_MAX_TRANSFER
    BY DEF Init
  <2>4. using \in [Tellers -> Int] /\ granted \in [Kinds -> Nat]
    BY DEF Init
  <2>6. there \in [Tellers -> {"near", "away", "gone"}]
    BY DEF Init
  <2>7. Active \in BOOLEAN /\ Teller \in Tellers /\ shown \in BOOLEAN
    BY DEF Init
  <2>5. unchecked \in 0..Len(m_Storage) /\ ClientItems \in 0..Len(m_Storage)
    BY <2>2 DEF Init
  <2> QED BY <2>1, <2>2, <2>3, <2>4, <2>5, <2>6, <2>7 DEF TypeOK
<1>2. UniqueIDs /\ ClientHoldsPrefix /\ OneDonePerSuccess /\ Tidy
  BY DEF Init, UniqueIDs, ClientHoldsPrefix, OneDonePerSuccess, Tidy
<1> QED BY <1>1, <1>2 DEF Inv

LEMMA Facts ==
  ASSUME Inv
  PROVE  /\ m_Storage \in Seq(Item) /\ ClientItems \in 0..Len(m_Storage)
         /\ Unique(m_Storage)
         /\ Active => view = SubSeq(m_Storage, 1, ClientItems)
         /\ ~Active => ClientItems = 0
         /\ view \in Seq(Item)
<1>1. m_Storage \in Seq(Item) /\ ClientItems \in 0..Len(m_Storage) /\ view \in Seq(Item)
  BY DEF Inv, TypeOK
<1>2. Unique(m_Storage)
  <2>1. DOMAIN m_Storage = 1..Len(m_Storage)
    BY <1>1
  <2> QED BY <2>1 DEF Inv, UniqueIDs, Unique
<1>3. /\ Active => view = SubSeq(m_Storage, 1, ClientItems)
      /\ ~Active => ClientItems = 0
  BY DEF Inv, ClientHoldsPrefix, Tidy
<1> QED BY <1>1, <1>2, <1>3

(* After the _done nobody is owed one.                                     *)
LEMMA DoneSettles ==
  ASSUME Inv
  PROVE  /\ Done \in [Tellers -> Int]
         /\ \A t \in Tellers : there[t] # "gone" => Done[t] = 0
<1>1. /\ using \in [Tellers -> Int] /\ Teller \in Tellers
      /\ \A t \in Tellers : there[t] # "gone" => using[t] = IF Active /\ t = Teller THEN 1 ELSE 0
  BY DEF Inv, TypeOK, OneDonePerSuccess
<1>2. \A t \in Tellers : using[t] - 1 \in Int
  BY <1>1
<1>3. Done \in [Tellers -> Int]
  BY <1>1, <1>2 DEF Done
<1>4. ASSUME NEW t \in Tellers, there[t] # "gone" PROVE Done[t] = 0
  BY <1>1, <1>4 DEF Done
<1> QED BY <1>3, <1>4

(* An item that changes in place.                                          *)
LEMMA ChangeStep ==
  ASSUME Inv, NEW i \in 1..Len(m_Storage),
         m_Storage' \in Seq(Item), Len(m_Storage') = Len(m_Storage),
         \A j \in 1..Len(m_Storage) : j # i => m_Storage'[j] = m_Storage[j],
         m_Storage'[i].ID = m_Storage[i].ID, m_Storage'[i].Kind = m_Storage[i].Kind,
         Storage_SendItemUpdate(i)
  PROVE  /\ view' \in Seq(Item) /\ UniqueIDs'
         /\ Active => view' = SubSeq(m_Storage', 1, ClientItems)
<1>1. UniqueIDs'
  <2>1. \A j \in 1..Len(m_Storage) : m_Storage'[j].ID = m_Storage[j].ID
    OBVIOUS
  <2>2. Unique(m_Storage)
    BY Facts
  <2>3. DOMAIN m_Storage' = 1..Len(m_Storage)
    OBVIOUS
  <2> QED BY <2>1, <2>2, <2>3 DEF UniqueIDs, Unique
<1>2. CASE Active
  <2>1. /\ m_Storage \in Seq(Item) /\ ClientItems \in 0..Len(m_Storage) /\ Unique(m_Storage)
        /\ view = SubSeq(m_Storage, 1, ClientItems)
    BY <1>2, Facts
  <2> DEFINE upd == Updated(view, m_Storage'[i])
  <2>2. /\ i =< ClientItems => upd = SubSeq(m_Storage', 1, ClientItems)
        /\ ~(i =< ClientItems) => view = SubSeq(m_Storage', 1, ClientItems)
    <3>1. /\ i =< ClientItems => Updated(SubSeq(m_Storage, 1, ClientItems), m_Storage'[i])
                                  = SubSeq(m_Storage', 1, ClientItems)
          /\ ~(i =< ClientItems) => SubSeq(m_Storage, 1, ClientItems)
                                    = SubSeq(m_Storage', 1, ClientItems)
      BY <2>1, UpdateKeepsPrefix
    <3> QED BY <2>1, <3>1
  <2>3. /\ i =< ClientItems => view' = upd
        /\ ~(i =< ClientItems) => view' = view
    BY DEF Storage_SendItemUpdate, Storage_ItemUpdateMsg, Updated
  <2>4. view' = SubSeq(m_Storage', 1, ClientItems)
    BY <2>2, <2>3
  <2>5. SubSeq(m_Storage', 1, ClientItems) \in Seq(Item)
    BY <2>1, Prefix
  <2> QED BY <1>1, <2>4, <2>5
<1>3. CASE ~Active
  <2>1. ClientItems = 0 /\ view \in Seq(Item)
    BY <1>3, Facts
  <2>2. view' = view
    BY <2>1 DEF Storage_SendItemUpdate
  <2> QED BY <1>1, <1>3, <2>1, <2>2
<1> QED BY <1>2, <1>3

(* An item of an open storage that is removed.                             *)
LEMMA RemoveStep ==
  ASSUME Inv, Active, NEW i \in 1..Len(m_Storage),
         m_Storage' = RemoveAt(m_Storage, i),
         IF i =< ClientItems THEN Storage_ItemRemoveMsg(m_Storage[i].ID) ELSE UNCHANGED view
  PROVE  /\ m_Storage' \in Seq(Item) /\ Len(m_Storage') = Len(m_Storage) - 1
         /\ view' \in Seq(Item) /\ UniqueIDs'
         /\ i =< ClientItems => view' = SubSeq(m_Storage', 1, ClientItems - 1)
         /\ ~(i =< ClientItems) => view' = SubSeq(m_Storage', 1, ClientItems)
<1>1. /\ m_Storage \in Seq(Item) /\ ClientItems \in 0..Len(m_Storage) /\ Unique(m_Storage)
      /\ view = SubSeq(m_Storage, 1, ClientItems)
  BY Facts
<1>2. m_Storage' \in Seq(Item) /\ Len(m_Storage') = Len(m_Storage) - 1
  BY <1>1, RemoveAtProperties
<1>3. /\ i =< ClientItems => RemoveAt(view, i) = SubSeq(m_Storage', 1, ClientItems - 1)
      /\ ~(i =< ClientItems) => view = SubSeq(m_Storage', 1, ClientItems)
      /\ Unique(m_Storage')
  BY <1>1, RemoveKeepsPrefix
<1>4. UniqueIDs'
  <2>1. DOMAIN m_Storage' = 1..Len(m_Storage')
    BY <1>2
  <2> QED BY <1>3, <2>1 DEF UniqueIDs, Unique
<1>5. CASE i =< ClientItems
  <2>1. \A j : Found(view, m_Storage[i].ID, j) <=> j = i
    <3> TAKE j
    <3>1. Found(SubSeq(m_Storage, 1, ClientItems), m_Storage[i].ID, j) <=> i =< ClientItems /\ j = i
      BY <1>1, FoundIsTheOne
    <3> QED BY <1>1, <1>5, <3>1
  <2>2. m_Storage[i].ID \in IDs(view)
    <3>1. Found(view, m_Storage[i].ID, i)
      BY <2>1
    <3>2. i \in DOMAIN view /\ view[i].ID = m_Storage[i].ID
      BY <3>1, Zenon DEF Found
    <3> QED BY <3>2, Zenon DEF IDs
  <2>3. view' = RemoveAt(view, i)
    BY <1>5, <2>1, <2>2 DEF Storage_ItemRemoveMsg
  <2>4. SubSeq(m_Storage', 1, ClientItems - 1) \in Seq(Item)
    <3>1. ClientItems - 1 \in 0..Len(m_Storage')
      BY <1>1, <1>2, <1>5
    <3> QED BY <1>2, <3>1, Prefix
  <2> QED BY <1>2, <1>3, <1>4, <1>5, <2>3, <2>4
<1>6. CASE ~(i =< ClientItems)
  <2>1. view' = view /\ view \in Seq(Item)
    BY <1>6, Facts
  <2> QED BY <1>2, <1>3, <1>4, <1>6, <2>1
<1> QED BY <1>5, <1>6
-----------------------------------------------------------------------------
(* The steps.                                                              *)

Todo == [Kind : Kinds, Amount : Nat \ {0}, Checked : BOOLEAN]

Potted(it) == it.Kind \in Potions => it.Quantity = 1 /\ it.Quality > 0
Stackable(x) == x.Kind \notin Potions => x.Amount =< NUM_MAX_STACK

(* Inv but for what the player carries, his client's commands and the use. *)
StoreInv ==
  /\ m_Storage \in Seq(Item) /\ storing \in Seq(Todo) /\ unchecked \in 0..Len(m_Storage)
  /\ ClientItems \in 0..Len(m_Storage) /\ view \in Seq(Item)
  /\ UniqueIDs /\ ClientHoldsPrefix
  /\ Active \/ ClientItems = 0
  /\ unchecked > 0 => ~Active
  /\ \A i \in 1..Len(m_Storage) : Potted(m_Storage[i])
  /\ \A i \in 1..Len(storing) : Stackable(storing[i])

UseInv ==
  /\ m_StorageMax \in 0..STORAGE_MAX_ITEMS /\ carried \in [Kinds -> Nat]
  /\ Active \in BOOLEAN /\ Teller \in Tellers /\ using \in [Tellers -> Int]
  /\ transfers \in 0..STORAGE_MAX_TRANSFER
  /\ shown \in BOOLEAN /\ commands \in Seq(Commands)
  /\ there \in [Tellers -> {"near", "away", "gone"}]
  /\ granted \in [Kinds -> Nat]
  /\ OneDonePerSuccess

LEMMA Halves == Inv <=> StoreInv /\ UseInv
<1>1. ASSUME m_Storage \in Seq(Item), storing \in Seq(Todo)
      PROVE  DOMAIN m_Storage = 1..Len(m_Storage) /\ DOMAIN storing = 1..Len(storing)
  BY <1>1
<1>2. ASSUME Inv PROVE StoreInv /\ UseInv
  <2>1. m_Storage \in Seq(Item) /\ storing \in Seq(Todo)
    BY <1>2 DEF Inv, TypeOK, Todo
  <2>2. StoreInv
    BY <1>1, <1>2, <2>1 DEF Inv, TypeOK, Tidy, StoreInv, Potted, Stackable
  <2> QED BY <1>2, <2>2 DEF Inv, TypeOK, UseInv
<1>3. ASSUME StoreInv, UseInv PROVE Inv
  <2>1. m_Storage \in Seq(Item) /\ storing \in Seq(Todo)
    BY <1>3 DEF StoreInv
  <2>2. TypeOK
    BY <1>3 DEF StoreInv, UseInv, TypeOK, Todo
  <2>3. Tidy
    BY <1>1, <1>3, <2>1 DEF StoreInv, Tidy, Potted, Stackable
  <2> QED BY <1>3, <2>2, <2>3 DEF StoreInv, UseInv, Inv
<1> QED BY <1>2, <1>3

(* Steps that leave the storage and the view of it alone.                  *)
LEMMA StoreKept ==
  ASSUME StoreInv, UNCHANGED <<store, view, ClientItems, Active>>
  PROVE  StoreInv'
BY DEF StoreInv, UniqueIDs, ClientHoldsPrefix, store, Potted, Stackable

(* An end of the use, or an opening, leaves nothing with the client.       *)
LEMMA StoreLetGo ==
  ASSUME StoreInv, UNCHANGED store, unchecked > 0 => ~Active',
         ClientItems' = 0, view' \in Seq(Item),
         Active' => view' = <<>>
  PROVE  StoreInv'
<1>1. SubSeq(m_Storage', 1, 0) = <<>>
  BY SubSeqEmpty
<1>2. ClientHoldsPrefix'
  BY <1>1 DEF ClientHoldsPrefix
<1>3. UniqueIDs'
  BY DEF StoreInv, UniqueIDs, store
<1> QED BY <1>2, <1>3 DEF StoreInv, store, Potted, Stackable

(* The induction hypothesis, as Halves splits it.                          *)
Ind == StoreInv /\ UseInv

(* Steps of the storage that are not the player's or a teller's.           *)
LEMMA UseKept ==
  ASSUME UseInv, UNCHANGED <<m_StorageMax, carried, session, transfers, shown, commands,
                             there, granted>>
  PROVE  UseInv'
BY DEF UseInv, OneDonePerSuccess, session

LEMMA ValidateStep ==
  ASSUME Ind, Validate
  PROVE  Ind'
<1>1. StoreInv /\ UseInv /\ Unique(m_Storage)
  BY Halves, Facts DEF Ind
<1>2. UseInv'
  BY <1>1, UseKept DEF Validate, client
<1> DEFINE it == m_Storage[unchecked]
<1>3. /\ unchecked \in 1..Len(m_Storage) /\ m_Storage \in Seq(Item)
      /\ ~Active /\ ClientItems = 0 /\ view \in Seq(Item) /\ storing \in Seq(Todo)
      /\ view' = view /\ ClientItems' = ClientItems /\ Active' = Active
      /\ unchecked' = unchecked - 1
  BY <1>1 DEF StoreInv, client, session, Validate
<1>4. it \in Item /\ Potted(it)
  BY <1>1, <1>3 DEF StoreInv
<1>5. CASE it.Kind \in Potions
  <2> DEFINE x == [Kind |-> it.Kind, Amount |-> Units(it), Checked |-> FALSE]
  <2>1. m_Storage' = RemoveAt(m_Storage, unchecked) /\ storing' = Append(storing, x)
    BY <1>5 DEF Validate
  <2>2. /\ m_Storage' \in Seq(Item) /\ Len(m_Storage') = Len(m_Storage) - 1
        /\ \A j \in 1..(Len(m_Storage) - 1) :
             m_Storage'[j] = IF j < unchecked THEN m_Storage[j] ELSE m_Storage[j + 1]
    BY <1>3, <2>1, RemoveAtProperties
  <2>3. UniqueIDs'
    <3>1. Unique(m_Storage')
      BY <1>1, <1>3, <2>1, RemoveKeepsUnique
    <3>2. DOMAIN m_Storage' = 1..Len(m_Storage')
      BY <2>2
    <3> QED BY <3>1, <3>2 DEF UniqueIDs, Unique
  <2>4. x \in Todo /\ Stackable(x)
    <3>1. it.Quantity = 1 /\ it.Quality > 0 /\ it.Quality \in Nat /\ it.Kind \in Kinds
      BY <1>4, <1>5 DEF Potted, Item
    <3> HIDE DEF it
    <3>2. Units(it) = it.Quality
      BY <1>5, <3>1 DEF Units
    <3> QED BY <1>5, <3>1, <3>2 DEF Todo, Stackable
  <2>5. storing' = Append(storing, x)
    BY <2>1
  <2> HIDE DEF x, it
  <2>6. storing' \in Seq(Todo) /\ \A i \in 1..Len(storing') : Stackable(storing'[i])
    BY <1>1, <1>3, <2>4, <2>5 DEF StoreInv
  <2>7. \A i \in 1..Len(m_Storage') : Potted(m_Storage'[i])
    <3> TAKE i \in 1..Len(m_Storage')
    <3>1. i \in 1..Len(m_Storage) /\ i + 1 \in 1..Len(m_Storage)
      BY <1>3, <2>2
    <3>2. Potted(m_Storage[i]) /\ Potted(m_Storage[i + 1])
      BY <1>1, <3>1 DEF StoreInv
    <3>3. m_Storage'[i] = m_Storage[i] \/ m_Storage'[i] = m_Storage[i + 1]
      BY <2>2, <1>3
    <3> QED BY <3>2, <3>3
  <2>8. StoreInv'
    BY <1>1, <1>3, <2>2, <2>3, <2>6, <2>7 DEF StoreInv, ClientHoldsPrefix
  <2> QED BY <1>2, <2>8 DEF Ind
<1>6. CASE it.Kind \notin Potions
  <2>1. UNCHANGED <<m_Storage, storing>>
    BY <1>6 DEF Validate
  <2>2. StoreInv'
    BY <1>1, <1>3, <2>1 DEF StoreInv, UniqueIDs, ClientHoldsPrefix, Potted, Stackable
  <2> QED BY <1>2, <2>2 DEF Ind
<1> QED BY <1>5, <1>6

(* Some of the first is put: what is left is still to put, and fits.       *)
LEMMA PutKeeps ==
  ASSUME storing \in Seq(Todo), storing # <<>>, \A i \in 1..Len(storing) : Stackable(storing[i]),
         NEW amt \in Nat \ {0}, Put(amt)
  PROVE  storing' \in Seq(Todo) /\ \A i \in 1..Len(storing') : Stackable(storing'[i])
<1> DEFINE todo == Head(storing)
           rest == [todo EXCEPT !.Amount = @ - amt]
           tail == Tail(storing)
<1>1. /\ todo \in Todo /\ Stackable(todo)
      /\ tail \in Seq(Todo) /\ Len(tail) = Len(storing) - 1
      /\ \A i \in 1..Len(tail) : tail[i] = storing[i + 1]
  <2>1. Head(storing) = storing[1] /\ 1 \in 1..Len(storing)
    OBVIOUS
  <2> QED BY <2>1
<1>2. \A i \in 1..Len(tail) : Stackable(tail[i])
  BY <1>1
<1>3. CASE amt < todo.Amount
  <2>1. rest \in Todo /\ Stackable(rest)
    <3>1. todo.Kind \in Kinds /\ todo.Amount \in Nat \ {0} /\ todo.Checked \in BOOLEAN
          /\ todo = [Kind |-> todo.Kind, Amount |-> todo.Amount, Checked |-> todo.Checked]
      BY <1>1 DEF Todo
    <3>2. rest = [Kind |-> todo.Kind, Amount |-> todo.Amount - amt, Checked |-> todo.Checked]
      BY <3>1
    <3>3. todo.Amount - amt \in Nat \ {0} /\ todo.Amount - amt =< todo.Amount
      BY <1>3, <3>1
    <3> HIDE DEF rest, todo
    <3>4. rest \in Todo
      BY <3>1, <3>2, <3>3 DEF Todo
    <3>5. rest.Kind = todo.Kind /\ rest.Amount = todo.Amount - amt
      BY <3>2
    <3>6. Stackable(rest)
      BY <1>1, <3>1, <3>3, <3>5, SMT DEF Stackable
    <3> QED BY <3>4, <3>6
  <2>2. storing' = <<rest>> \o tail
    BY <1>3 DEF Put
  <2> HIDE DEF rest, tail
  <2>3. <<rest>> \in Seq(Todo) /\ Len(<<rest>>) = 1 /\ <<rest>>[1] = rest
    BY <2>1
  <2>4. /\ storing' \in Seq(Todo) /\ Len(storing') = 1 + Len(tail)
        /\ \A i \in 1..(1 + Len(tail)) :
             storing'[i] = IF i =< 1 THEN <<rest>>[i] ELSE tail[i - 1]
    BY <1>1, <2>2, <2>3, ConcatProperties
  <2>5. \A i \in 1..Len(storing') : Stackable(storing'[i])
    <3> TAKE i \in 1..Len(storing')
    <3>1. CASE i = 1
      BY <2>1, <2>3, <2>4, <3>1
    <3>2. CASE i # 1
      <4>1. i - 1 \in 1..Len(tail) /\ storing'[i] = tail[i - 1]
        BY <1>1, <2>4, <3>2
      <4> QED BY <1>2, <4>1
    <3> QED BY <3>1, <3>2
  <2> QED BY <2>4, <2>5
<1>4. CASE ~(amt < todo.Amount)
  <2>1. storing' = tail
    BY <1>4 DEF Put
  <2> QED BY <1>1, <1>2, <2>1
<1> QED BY <1>3, <1>4

(* A stack or a potion takes no more than it has room for.                 *)
LEMMA EnlargedFits ==
  ASSUME NEW it \in Item, Potted(it), NEW k \in Kinds, NEW x \in Nat \ {0},
         Storage_StackRoom(it, k) > 0
  PROVE  /\ AtMost(x, Storage_StackRoom(it, k)) \in Nat \ {0}
         /\ Enlarged(it, AtMost(x, Storage_StackRoom(it, k))) \in Item
         /\ Enlarged(it, AtMost(x, Storage_StackRoom(it, k))).ID = it.ID
         /\ Enlarged(it, AtMost(x, Storage_StackRoom(it, k))).Kind = it.Kind
         /\ Potted(Enlarged(it, AtMost(x, Storage_StackRoom(it, k))))
<1> DEFINE room == Storage_StackRoom(it, k)
           amt == AtMost(x, room)
<1>0. /\ it.ID \in Nat /\ it.Kind \in Kinds /\ it.Quantity \in 1..NUM_MAX_STACK
      /\ it.Quality \in 0..STORAGE_MAX_SWIGS
      /\ NUM_MAX_STACK \in Nat /\ STORAGE_MAX_SWIGS \in Nat
  BY DEF Item
<1>1. it.Kind = k
  BY DEF Storage_StackRoom
<1>2. CASE k \in Potions
  <2>1. room = AtLeast(STORAGE_MAX_SWIGS - it.Quality, 0)
    BY <1>1, <1>2 DEF Storage_StackRoom
  <2>2. room = STORAGE_MAX_SWIGS - it.Quality
    BY <1>0, <2>1 DEF AtLeast
  <2>3. amt \in Nat \ {0} /\ it.Quality + amt =< STORAGE_MAX_SWIGS
    BY <1>0, <2>2 DEF AtMost
  <2> HIDE DEF amt
  <2>4. Enlarged(it, amt) = [it EXCEPT !.Quality = @ + amt]
    BY <1>1, <1>2 DEF Enlarged
  <2>5. it.Quality + amt \in 0..STORAGE_MAX_SWIGS /\ it.Quality + amt > 0
    BY <1>0, <2>3
  <2> QED BY <2>3, <2>4, <2>5 DEF Item, Potted, amt
<1>3. CASE k \notin Potions
  <2>1. room = AtLeast(NUM_MAX_STACK - it.Quantity, 0)
    BY <1>1, <1>3 DEF Storage_StackRoom
  <2>2. room = NUM_MAX_STACK - it.Quantity
    BY <1>0, <2>1 DEF AtLeast
  <2>3. amt \in Nat \ {0} /\ it.Quantity + amt =< NUM_MAX_STACK
    BY <1>0, <2>2 DEF AtMost
  <2> HIDE DEF amt
  <2>4. Enlarged(it, amt) = [it EXCEPT !.Quantity = @ + amt]
    BY <1>1, <1>3 DEF Enlarged
  <2>5. it.Quantity + amt \in 1..NUM_MAX_STACK
    BY <1>0, <2>3
  <2> QED BY <1>1, <1>3, <2>3, <2>4, <2>5 DEF Item, Potted, amt
<1> QED BY <1>2, <1>3

LEMMA StackOnStep ==
  ASSUME Ind, Store, NEW i \in DOMAIN m_Storage, StackOn(i)
  PROVE  StoreInv'
<1>1. /\ StoreInv /\ Inv /\ storing # <<>> /\ unchecked = 0 /\ unchecked' = 0
      /\ ClientItems' = ClientItems /\ Active' = Active
  BY Halves DEF Ind, Store, session
<1>2. /\ m_Storage \in Seq(Item) /\ i \in 1..Len(m_Storage) /\ storing \in Seq(Todo)
      /\ \A j \in 1..Len(m_Storage) : Potted(m_Storage[j])
      /\ \A j \in 1..Len(storing) : Stackable(storing[j])
  BY <1>1 DEF StoreInv
<1> DEFINE todo == Head(storing)
           room == Storage_StackRoom(m_Storage[i], todo.Kind)
           amt  == AtMost(todo.Amount, room)
           big  == Enlarged(m_Storage[i], amt)
<1>3. /\ room > 0 /\ m_Storage' = [m_Storage EXCEPT ![i] = big]
      /\ Put(amt) /\ Storage_SendItemUpdate(i)
  BY DEF StackOn
<1>4. todo \in Todo /\ todo.Kind \in Kinds /\ todo.Amount \in Nat \ {0}
  <2>1. todo = storing[1] /\ 1 \in 1..Len(storing)
    BY <1>1, <1>2
  <2>2. todo \in Todo
    BY <1>2, <2>1
  <2> QED BY <2>2 DEF Todo
<1>5. m_Storage[i] \in Item /\ Potted(m_Storage[i])
  BY <1>2
<1>6. /\ amt \in Nat \ {0} /\ big \in Item /\ big.ID = m_Storage[i].ID
      /\ big.Kind = m_Storage[i].Kind /\ Potted(big)
  <2> HIDE DEF todo
  <2> QED BY <1>3, <1>4, <1>5, EnlargedFits
<1> HIDE DEF big, amt
<1>7. /\ m_Storage' \in Seq(Item) /\ Len(m_Storage') = Len(m_Storage)
      /\ m_Storage'[i] = big
      /\ \A j \in 1..Len(m_Storage) : j # i => m_Storage'[j] = m_Storage[j]
  BY <1>2, <1>3, <1>6
<1>8. /\ view' \in Seq(Item) /\ UniqueIDs'
      /\ Active => view' = SubSeq(m_Storage', 1, ClientItems)
  BY <1>1, <1>2, <1>3, <1>6, <1>7, ChangeStep
<1>9. storing' \in Seq(Todo) /\ \A j \in 1..Len(storing') : Stackable(storing'[j])
  BY <1>1, <1>2, <1>3, <1>6, PutKeeps
<1>10. \A j \in 1..Len(m_Storage') : Potted(m_Storage'[j])
  BY <1>2, <1>6, <1>7
<1>11. ClientItems' \in 0..Len(m_Storage') /\ (Active' \/ ClientItems' = 0)
       /\ (unchecked' > 0 => ~Active') /\ unchecked' \in 0..Len(m_Storage')
  BY <1>1, <1>2, <1>7 DEF StoreInv
<1>12. ClientHoldsPrefix'
  BY <1>1, <1>8 DEF ClientHoldsPrefix
<1> QED BY <1>7, <1>8, <1>9, <1>10, <1>11, <1>12 DEF StoreInv

LEMMA NewItemStep ==
  ASSUME Ind, Store, Storage_NewItem
  PROVE  StoreInv'
<1>1. /\ StoreInv /\ Unique(m_Storage) /\ storing # <<>> /\ unchecked = 0 /\ unchecked' = 0
      /\ ClientItems' = ClientItems /\ Active' = Active
  BY Halves, Facts DEF Ind, Store, session
<1>2. /\ m_Storage \in Seq(Item) /\ storing \in Seq(Todo)
      /\ ClientItems \in 0..Len(m_Storage) /\ view \in Seq(Item)
      /\ \A j \in 1..Len(m_Storage) : Potted(m_Storage[j])
      /\ \A j \in 1..Len(storing) : Stackable(storing[j])
      /\ Active => view = SubSeq(m_Storage, 1, ClientItems)
  BY <1>1 DEF StoreInv, ClientHoldsPrefix
<1> DEFINE todo == Head(storing)
           amt == IF todo.Kind \in Potions THEN AtMost(todo.Amount, STORAGE_MAX_SWIGS)
                                            ELSE todo.Amount
           new == [ID |-> NewID(m_Storage), Kind |-> todo.Kind,
                   Quantity |-> IF todo.Kind \in Potions THEN 1 ELSE amt,
                   Quality  |-> IF todo.Kind \in Potions THEN amt ELSE 0]
<1>3. m_Storage' = Append(m_Storage, new) /\ Put(amt) /\ view' = view
  BY DEF Storage_NewItem
<1>4. /\ todo.Kind \in Kinds /\ todo.Amount \in Nat \ {0} /\ Stackable(todo)
  <2>1. todo = storing[1] /\ 1 \in 1..Len(storing)
    BY <1>1, <1>2
  <2>2. todo \in Todo /\ Stackable(todo)
    BY <1>2, <2>1
  <2> QED BY <2>2 DEF Todo
<1>5. NewID(m_Storage) \in Nat /\ NewID(m_Storage) \notin IDs(m_Storage)
  BY <1>2, NewIDIsFree
<1>6. amt \in Nat \ {0} /\ new \in Item /\ Potted(new)
  <2> HIDE DEF todo
  <2>1. CASE todo.Kind \in Potions
    <3>1. amt \in 1..STORAGE_MAX_SWIGS
      BY <1>4, <2>1 DEF AtMost
    <3> QED BY <1>4, <1>5, <2>1, <3>1 DEF Item, Potted
  <2>2. CASE todo.Kind \notin Potions
    <3>1. amt \in 1..NUM_MAX_STACK
      BY <1>4, <2>2 DEF Stackable
    <3> QED BY <1>4, <1>5, <2>2, <3>1 DEF Item, Potted
  <2> QED BY <2>1, <2>2
<1>7. new.ID \notin IDs(m_Storage)
  BY <1>5
<1> HIDE DEF new, amt
<1>8. /\ m_Storage' \in Seq(Item) /\ Len(m_Storage') = Len(m_Storage) + 1
      /\ m_Storage'[Len(m_Storage) + 1] = new
      /\ \A j \in 1..Len(m_Storage) : m_Storage'[j] = m_Storage[j]
  BY <1>2, <1>3, <1>6
<1>9. UniqueIDs'
  <2>1. \A j \in 1..Len(m_Storage) : m_Storage[j].ID # new.ID
    BY <1>2, <1>7 DEF IDs
  <2> SUFFICES ASSUME NEW j \in 1..Len(m_Storage'), NEW h \in 1..Len(m_Storage'),
                      m_Storage'[j].ID = m_Storage'[h].ID
               PROVE  j = h
    BY <1>8 DEF UniqueIDs
  <2>2. CASE j =< Len(m_Storage) /\ h =< Len(m_Storage)
    <3>1. j \in 1..Len(m_Storage) /\ h \in 1..Len(m_Storage)
      BY <1>8, <2>2
    <3>2. m_Storage[j].ID = m_Storage[h].ID
      BY <1>8, <3>1
    <3> QED BY <1>1, <3>1, <3>2 DEF Unique
  <2>3. CASE ~(j =< Len(m_Storage) /\ h =< Len(m_Storage))
    BY <1>8, <2>1, <2>3
  <2> QED BY <2>2, <2>3
<1>10. ClientHoldsPrefix'
  <2>1. SubSeq(m_Storage', 1, ClientItems) = SubSeq(m_Storage, 1, ClientItems)
    <3> DEFINE a == SubSeq(m_Storage, 1, ClientItems)
               b == SubSeq(m_Storage', 1, ClientItems)
    <3>1. a \in Seq(Item) /\ Len(a) = ClientItems /\ \A j \in 1..ClientItems : a[j] = m_Storage[j]
      BY <1>2, Prefix
    <3>2. b \in Seq(Item) /\ Len(b) = ClientItems /\ \A j \in 1..ClientItems : b[j] = m_Storage'[j]
      BY <1>2, <1>8, Prefix
    <3> HIDE DEF a, b
    <3>3. ASSUME NEW j \in 1..ClientItems PROVE a[j] = b[j]
      <4>1. j \in 1..Len(m_Storage)
        BY <1>2
      <4>2. m_Storage'[j] = m_Storage[j]
        BY <1>8, <4>1
      <4> QED BY <3>1, <3>2, <4>2
    <3>4. a = b
      BY <3>1, <3>2, <3>3, SeqEqual
    <3> QED BY <3>4 DEF a, b
  <2> QED BY <1>1, <1>2, <1>3, <2>1 DEF ClientHoldsPrefix
<1>11. storing' \in Seq(Todo) /\ \A j \in 1..Len(storing') : Stackable(storing'[j])
  BY <1>1, <1>2, <1>3, <1>6, PutKeeps
<1>12. ASSUME NEW j \in 1..Len(m_Storage') PROVE Potted(m_Storage'[j])
  <2>1. j = Len(m_Storage) + 1 \/ j \in 1..Len(m_Storage)
    BY <1>8
  <2>2. \/ m_Storage'[j] = new
        \/ j \in 1..Len(m_Storage) /\ m_Storage'[j] = m_Storage[j]
    BY <1>8, <2>1, Zenon
  <2> QED BY <1>2, <1>6, <2>2, Zenon
<1>13. ClientItems' \in 0..Len(m_Storage') /\ (Active' \/ ClientItems' = 0)
       /\ (unchecked' > 0 => ~Active') /\ unchecked' \in 0..Len(m_Storage')
  BY <1>1, <1>2, <1>8 DEF StoreInv
<1> QED BY <1>2, <1>3, <1>8, <1>9, <1>10, <1>11, <1>12, <1>13 DEF StoreInv

LEMMA StoreStep ==
  ASSUME Ind, Store
  PROVE  Ind'
<1>1. UseInv'
  BY UseKept DEF Ind, Store
<1>2. StoreInv'
  BY StackOnStep, NewItemStep DEF Store
<1> QED BY <1>1, <1>2 DEF Ind

(* The end of the use settles what was owed.                               *)
LEMMA EndSettles ==
  ASSUME Ind, Storage_End, there' = there
  PROVE  /\ Active' = FALSE /\ ClientItems' = 0 /\ Teller' \in Tellers
         /\ using' \in [Tellers -> Int] /\ OneDonePerSuccess'
<1>1. Inv /\ (Active \/ ClientItems = 0) /\ Teller \in Tellers
  BY Halves DEF Ind, StoreInv, UseInv
<1>2. /\ Done \in [Tellers -> Int]
      /\ \A t \in Tellers : there[t] # "gone" => Done[t] = 0
  BY <1>1, DoneSettles
<1> QED BY <1>1, <1>2 DEF Storage_End, OneDonePerSuccess

(* A stop of the client's fits the commands.                               *)
LEMMA ClosedFits ==
  ASSUME NEW cmds \in Seq(Commands)
  PROVE  Closed(cmds) \in Seq(Commands)
<1>1. [cmd |-> "stop", ID |-> 0] \in Commands
  BY DEF Commands
<1> QED BY <1>1 DEF Closed

LEMMA TradeStep ==
  ASSUME Ind, NEW t \in Tellers, Trade(t)
  PROVE  Ind'
<1>1. /\ Inv /\ StoreInv /\ UseInv /\ unchecked = 0
  <2>1. unchecked \in Nat /\ Inv /\ StoreInv /\ UseInv
    BY Halves DEF Ind, StoreInv
  <2> QED BY <2>1 DEF Trade, Busy
<1>2. StoreInv'
  BY <1>1, StoreLetGo DEF Trade, store
<1>3. OneDonePerSuccess' /\ using' \in [Tellers -> Int]
  <2>1. /\ Done \in [Tellers -> Int]
        /\ \A u \in Tellers : there[u] # "gone" => Done[u] = 0
    BY <1>1, DoneSettles
  <2>2. using' = [Done EXCEPT ![t] = @ + 1] /\ there' = there /\ Active' = TRUE /\ Teller' = t
    BY DEF Trade
  <2> HIDE DEF Done
  <2> QED BY <2>1, <2>2 DEF OneDonePerSuccess
<1>4. commands' \in Seq(Commands)
  BY <1>1, ClosedFits DEF Trade, UseInv
<1>5. UseInv'
  BY <1>1, <1>3, <1>4 DEF Trade, UseInv
<1> QED BY <1>2, <1>5 DEF Ind

LEMMA PreThinkStep ==
  ASSUME Ind, PreThink
  PROVE  Ind'
<1>1. /\ Inv /\ StoreInv /\ UseInv /\ unchecked = 0 /\ unchecked' = 0
  <2>1. unchecked \in Nat /\ Inv /\ StoreInv /\ UseInv
    BY Halves DEF Ind, StoreInv
  <2> QED BY <2>1 DEF PreThink, Busy, store
<1>2. CASE Active /\ ~Near /\ Storage_Close(commands) /\ UNCHANGED view
  <2>1. Storage_End /\ there' = there
    BY <1>2 DEF Storage_Close, PreThink
  <2>2. StoreInv'
    <3>1. view' \in Seq(Item)
      BY <1>1, <1>2 DEF StoreInv
    <3>2. UNCHANGED store
      BY DEF PreThink
    <3> QED BY <1>1, <2>1, <3>1, <3>2, EndSettles, StoreLetGo
  <2>3. commands' \in Seq(Commands)
    BY <1>1, <1>2, ClosedFits DEF Storage_Close, UseInv
  <2>4. shown' = FALSE
    BY <1>2 DEF Storage_Close
  <2>5. UseInv'
    <3>1. Teller' \in Tellers /\ using' \in [Tellers -> Int] /\ Active' = FALSE /\ OneDonePerSuccess'
      BY <2>1, EndSettles
    <3>2. transfers' = 0 /\ UNCHANGED <<m_StorageMax, carried, there, granted>>
      BY DEF PreThink
    <3>3. shown' \in BOOLEAN /\ Active' \in BOOLEAN
      BY <2>4, <3>1, Zenon
    <3>4. transfers' \in 0..STORAGE_MAX_TRANSFER
      BY <3>2
    <3> QED BY <1>1, <2>3, <3>1, <3>2, <3>3, <3>4 DEF UseInv
  <2> QED BY <2>2, <2>5 DEF Ind
<1>3. CASE ~(Active /\ ~Near) /\ Storage_UpdateClient /\ UNCHANGED <<session, shown, commands>>
  <2>1. UseInv'
    BY <1>1, <1>3 DEF PreThink, UseInv, OneDonePerSuccess, session
  <2> DEFINE count == AtMost(Len(m_Storage) - ClientItems, STORAGE_ITEMS_PER_MSG)
  <2>2. CASE Active /\ count > 0
    <3>1. /\ m_Storage \in Seq(Item) /\ ClientItems \in 0..Len(m_Storage)
          /\ view = SubSeq(m_Storage, 1, ClientItems)
      BY <1>1, <2>2 DEF StoreInv, ClientHoldsPrefix
    <3>2. count \in 1..(Len(m_Storage) - ClientItems)
      BY <2>2, <3>1 DEF AtMost
    <3>3. /\ view' = view \o SubSeq(m_Storage, ClientItems + 1, ClientItems + count)
          /\ ClientItems' = ClientItems + count /\ m_Storage' = m_Storage
      BY <1>3, <2>2 DEF Storage_UpdateClient, PreThink, store
    <3> HIDE DEF count
    <3> DEFINE more == SubSeq(m_Storage, ClientItems + 1, ClientItems + count)
    <3>4. /\ more \in Seq(Item) /\ Len(more) = count
          /\ \A j \in 1..count : more[j] = m_Storage[ClientItems + j]
      <4>1. \A j \in (ClientItems + 1)..(ClientItems + count) : m_Storage[j] \in Item
        BY <3>1, <3>2
      <4>2. /\ more \in Seq(Item)
            /\ Len(more) = IF ClientItems + 1 =< ClientItems + count
                           THEN ClientItems + count - (ClientItems + 1) + 1 ELSE 0
            /\ \A j \in 1..(ClientItems + count - (ClientItems + 1) + 1) :
                 more[j] = m_Storage[(ClientItems + 1) + j - 1]
        BY <3>1, <3>2, <4>1, SubSeqProperties
      <4>3. /\ count \in Nat \ {0} /\ ClientItems \in Nat
            /\ ClientItems + count - (ClientItems + 1) + 1 = count
            /\ ClientItems + 1 =< ClientItems + count
        BY <3>1, <3>2
      <4> HIDE DEF more
      <4>4. Len(more) = count /\ \A j \in 1..count : more[j] = m_Storage[(ClientItems + 1) + j - 1]
        BY <4>2, <4>3
      <4>5. ASSUME NEW j \in 1..count PROVE (ClientItems + 1) + j - 1 = ClientItems + j
        BY <4>3
      <4>6. \A j \in 1..count : more[j] = m_Storage[ClientItems + j]
        BY <4>4, <4>5
      <4> QED BY <4>2, <4>4, <4>6
    <3>5. /\ view \in Seq(Item) /\ Len(view) = ClientItems
          /\ \A j \in 1..ClientItems : view[j] = m_Storage[j]
      BY <3>1, Prefix
    <3>12. view' = view \o more
      BY <3>3
    <3> HIDE DEF more
    <3>6. /\ view' \in Seq(Item) /\ Len(view') = ClientItems + count
          /\ \A j \in 1..(ClientItems + count) :
               view'[j] = IF j =< ClientItems THEN view[j] ELSE more[j - ClientItems]
      <4>1. /\ view \o more \in Seq(Item) /\ Len(view \o more) = Len(view) + Len(more)
            /\ \A j \in 1..(Len(view) + Len(more)) :
                 (view \o more)[j] = IF j =< Len(view) THEN view[j] ELSE more[j - Len(view)]
        BY <3>4, <3>5, JoinedItems, Zenon
      <4>2. Len(view) = ClientItems /\ Len(more) = count
        BY <3>4, <3>5
      <4> QED BY <3>12, <4>1, <4>2
    <3>7. view' = SubSeq(m_Storage, 1, ClientItems + count)
      <4> DEFINE n == ClientItems + count
                 a == SubSeq(m_Storage, 1, n)
      <4>1. n \in 0..Len(m_Storage)
        BY <3>1, <3>2
      <4> HIDE DEF n
      <4>2. a \in Seq(Item) /\ Len(a) = n /\ \A j \in 1..n : a[j] = m_Storage[j]
        BY <3>1, <4>1, Prefix
      <4> HIDE DEF a
      <4>3. \A j \in 1..n : view'[j] = a[j]
        <5> TAKE j \in 1..n
        <5>1. CASE j =< ClientItems
          <6>1. j \in 1..ClientItems /\ j \in 1..(ClientItems + count)
            BY <3>1, <5>1 DEF n
          <6>2. view'[j] = view[j]
            BY <3>6, <5>1, <6>1
          <6>3. view[j] = m_Storage[j]
            BY <3>5, <6>1
          <6> QED BY <4>2, <6>2, <6>3
        <5>2. CASE ~(j =< ClientItems)
          <6>1. j - ClientItems \in 1..count /\ ClientItems + (j - ClientItems) = j
            BY <3>1, <3>2, <5>2 DEF n
          <6>2. j \in 1..(ClientItems + count)
            BY DEF n
          <6>3. view'[j] = more[j - ClientItems]
            BY <3>6, <5>2, <6>2
          <6>4. more[j - ClientItems] = m_Storage[j]
            BY <3>4, <6>1
          <6> QED BY <4>2, <6>3, <6>4
        <5> QED BY <5>1, <5>2
      <4> QED BY <3>6, <4>2, <4>3, SeqEqual DEF a, n
    <3>8. ClientHoldsPrefix'
      BY <3>3, <3>7 DEF ClientHoldsPrefix
    <3>9. Active' = Active /\ UNCHANGED store
      BY <1>3 DEF session, PreThink
    <3>10. UniqueIDs'
      BY <1>1, <3>3 DEF StoreInv, UniqueIDs
    <3>11. ClientItems' \in 0..Len(m_Storage')
      BY <3>1, <3>2, <3>3
    <3>13. StoreInv'
      BY <1>1, <2>2, <3>6, <3>8, <3>9, <3>10, <3>11 DEF StoreInv, store
    <3> QED BY <2>1, <3>13 DEF Ind
  <2>3. CASE ~(Active /\ count > 0)
    <3>1. UNCHANGED <<view, ClientItems>>
      BY <1>3, <2>3 DEF Storage_UpdateClient
    <3>2. StoreInv'
      BY <1>1, <1>3, <3>1, StoreKept DEF PreThink, session
    <3> QED BY <2>1, <3>2 DEF Ind
  <2> QED BY <2>2, <2>3
<1> QED BY <1>2, <1>3 DEF PreThink

LEMMA RejoinStep ==
  ASSUME Ind, Rejoin
  PROVE  Ind'
<1>1. StoreInv /\ UseInv /\ Storage_End /\ there' = there
  BY DEF Ind, Rejoin
<1>2. /\ m_Storage \in Seq(Item) /\ storing' = storing
      /\ \A i \in 1..Len(m_Storage) : m_Storage[i] \in Item /\ Potted(m_Storage[i])
  BY <1>1 DEF StoreInv, Rejoin
<1>3. m_Storage' = [i \in 1..Len(m_Storage) |-> [m_Storage[i] EXCEPT !.ID = i - 1]]
  BY <1>2 DEF Rejoin
<1>4. ASSUME NEW i \in 1..Len(m_Storage)
      PROVE  /\ [m_Storage[i] EXCEPT !.ID = i - 1] \in Item
             /\ [m_Storage[i] EXCEPT !.ID = i - 1].ID = i - 1
             /\ Potted([m_Storage[i] EXCEPT !.ID = i - 1])
  <2>1. m_Storage[i] \in Item /\ Potted(m_Storage[i]) /\ i - 1 \in Nat
    BY <1>2
  <2> QED BY <2>1 DEF Item, Potted
<1>5. m_Storage' \in [1..Len(m_Storage) -> Item]
  BY <1>3, <1>4
<1>6. m_Storage' \in Seq(Item) /\ Len(m_Storage') = Len(m_Storage)
  <2>1. Len(m_Storage) \in Nat
    BY <1>2
  <2> QED BY <1>5, <2>1
<1>7. \A i \in 1..Len(m_Storage) : m_Storage'[i].ID = i - 1 /\ Potted(m_Storage'[i])
  BY <1>3, <1>4
<1>8. UniqueIDs'
  <2>1. DOMAIN m_Storage' = 1..Len(m_Storage)
    BY <1>6
  <2> SUFFICES ASSUME NEW i \in 1..Len(m_Storage), NEW j \in 1..Len(m_Storage),
                      m_Storage'[i].ID = m_Storage'[j].ID
               PROVE  i = j
    BY <2>1 DEF UniqueIDs
  <2>2. i - 1 = j - 1
    BY <1>7
  <2> QED BY <2>2
<1>9. view' = <<>> /\ unchecked' = Len(m_Storage) /\ transfers' = 0 /\ shown' = FALSE
      /\ commands' = <<>>
  BY DEF Rejoin
<1>10. StoreInv'
  BY <1>1, <1>2, <1>6, <1>7, <1>8, <1>9, EndSettles DEF StoreInv, ClientHoldsPrefix
<1>11. UseInv'
  <2>1. Teller' \in Tellers /\ using' \in [Tellers -> Int] /\ Active' = FALSE /\ OneDonePerSuccess'
    BY <1>1, EndSettles
  <2>2. UNCHANGED <<m_StorageMax, carried, there, granted>>
    BY DEF Rejoin
  <2>3. commands' \in Seq(Commands)
    BY <1>9
  <2>4. shown' \in BOOLEAN /\ Active' \in BOOLEAN
    BY <1>9, <2>1, Zenon
  <2>5. transfers' \in 0..STORAGE_MAX_TRANSFER
    BY <1>9
  <2> QED BY <1>1, <2>1, <2>2, <2>3, <2>4, <2>5 DEF UseInv
<1> QED BY <1>10, <1>11 DEF Ind

LEMMA ScriptsAndClientStep ==
  ASSUME Ind,
         \/ \E t \in Tellers : Walk(t)
         \/ \E max \in 1..STORAGE_MAX_ITEMS : Storage_SetMax(max)
         \/ \E cmd \in {"add", "remove", "split"} : \E id \in Nat : ClientCommand(cmd, id)
         \/ ClosePanel
  PROVE  Ind'
<1>1. StoreInv /\ UseInv
  BY DEF Ind
<1>2. StoreInv'
  BY <1>1, StoreKept DEF Walk, Storage_SetMax, ClientCommand, ClosePanel, session, client
<1>3. ASSUME NEW t \in Tellers, Walk(t) PROVE UseInv'
  <2>1. /\ there' \in [Tellers -> {"near", "away", "gone"}]
        /\ \A u \in Tellers : there'[u] # "gone" => there[u] # "gone"
    BY <1>1, <1>3 DEF Walk, UseInv
  <2> QED BY <1>1, <1>3, <2>1 DEF Walk, UseInv, OneDonePerSuccess, session, client
<1>4. ASSUME NEW max \in 1..STORAGE_MAX_ITEMS, Storage_SetMax(max) PROVE UseInv'
  <2>1. m_StorageMax' \in 0..STORAGE_MAX_ITEMS
    BY <1>4 DEF Storage_SetMax, AtLeast, AtMost
  <2> QED BY <1>1, <1>4, <2>1 DEF Storage_SetMax, UseInv, OneDonePerSuccess, session, client
<1>5. ASSUME NEW cmd \in {"add", "remove", "split"}, NEW id \in Nat, ClientCommand(cmd, id)
      PROVE  UseInv'
  <2>1. [cmd |-> cmd, ID |-> id] \in Commands
    BY DEF Commands
  <2>2. commands' \in Seq(Commands)
    BY <1>1, <1>5, <2>1 DEF ClientCommand, UseInv
  <2> QED BY <1>1, <1>5, <2>2 DEF ClientCommand, UseInv, OneDonePerSuccess, session
<1>6. ASSUME ClosePanel PROVE UseInv'
  <2>1. commands' \in Seq(Commands) /\ shown' = FALSE
    BY <1>1, <1>6, ClosedFits DEF ClosePanel, UseInv
  <2> QED BY <1>1, <1>6, <2>1 DEF ClosePanel, UseInv, OneDonePerSuccess, session
<1> QED BY <1>2, <1>3, <1>4, <1>5, <1>6 DEF Ind

(* A list of one thing to put.                                             *)
LEMMA OneToPut ==
  ASSUME StoreInv, UNCHANGED <<m_Storage, unchecked, view, ClientItems, Active>>,
         NEW x \in Todo, Stackable(x), storing' = <<x>>
  PROVE  StoreInv'
<1>1. storing' \in Seq(Todo) /\ \A i \in 1..Len(storing') : Stackable(storing'[i])
  <2>1. <<x>> \in Seq(Todo) /\ Len(<<x>>) = 1 /\ <<x>>[1] = x
    OBVIOUS
  <2> QED BY <2>1
<1>2. UniqueIDs' /\ ClientHoldsPrefix' /\ \A i \in 1..Len(m_Storage') : Potted(m_Storage'[i])
  BY DEF StoreInv, UniqueIDs, ClientHoldsPrefix
<1> QED BY <1>1, <1>2 DEF StoreInv

LEMMA AddItemsStep ==
  ASSUME Ind, NEW k \in Kinds, NEW n \in 1..NUM_MAX_STACK, NEW q \in 1..STORAGE_MAX_SWIGS,
         Storage_AddItems(k, n, q)
  PROVE  Ind'
<1>1. StoreInv /\ UseInv
  BY DEF Ind
<1> DEFINE each == IF k \in Potions THEN q ELSE 1
<1>2. PICK added \in 1..n :
        /\ storing' = <<[Kind |-> k, Amount |-> added * each, Checked |-> TRUE]>>
        /\ granted' = [granted EXCEPT ![k] = @ + added * each]
        /\ UNCHANGED <<m_Storage, unchecked, m_StorageMax, carried, session, ClientItems,
                       transfers, client, there>>
  BY DEF Storage_AddItems
<1> DEFINE amt == added * each
           x == [Kind |-> k, Amount |-> amt, Checked |-> TRUE]
<1>3. amt \in Nat \ {0} /\ (k \notin Potions => amt =< NUM_MAX_STACK)
  <2>1. CASE k \in Potions
    <3>1. amt = added * q /\ added \in Nat /\ added > 0 /\ q \in Nat /\ q > 0
      BY <2>1
    <3> QED BY <2>1, <3>1
  <2>2. CASE k \notin Potions
    <3>1. amt = added
      BY <2>2
    <3> QED BY <2>2, <3>1
  <2> QED BY <2>1, <2>2
<1>4. storing' = <<x>> /\ granted' = [granted EXCEPT ![k] = @ + amt]
  BY <1>2
<1> HIDE DEF amt, each
<1>5. x \in Todo /\ Stackable(x)
  BY <1>3 DEF Todo, Stackable
<1> HIDE DEF x
<1>6. StoreInv'
  BY <1>1, <1>2, <1>4, <1>5, OneToPut DEF session, client
<1>7. UseInv'
  <2>1. granted' \in [Kinds -> Nat]
    <3>1. granted \in [Kinds -> Nat] /\ granted[k] + amt \in Nat
      <4>1. granted \in [Kinds -> Nat] /\ granted[k] \in Nat
        BY <1>1 DEF UseInv
      <4> QED BY <1>3, <4>1
    <3> QED BY <1>4, <3>1
  <2> QED BY <1>1, <1>2, <2>1 DEF UseInv, OneDonePerSuccess, session, client
<1> QED BY <1>6, <1>7 DEF Ind

LEMMA ReceiveStopStep ==
  ASSUME Ind, ReceiveStop
  PROVE  Ind'
<1>1. StoreInv /\ UseInv /\ Storage_End /\ there' = there /\ UNCHANGED store /\ view' = view
  BY DEF Ind, ReceiveStop
<1>2. /\ Teller' \in Tellers /\ using' \in [Tellers -> Int] /\ Active' = FALSE
      /\ ClientItems' = 0 /\ OneDonePerSuccess'
  BY <1>1, EndSettles
<1>3. StoreInv'
  <2>1. view' \in Seq(Item)
    BY <1>1 DEF StoreInv
  <2> QED BY <1>1, <1>2, <2>1, StoreLetGo
<1>4. commands' \in Seq(Commands)
  BY <1>1 DEF ReceiveStop, UseInv
<1>5. Active' \in BOOLEAN
  BY <1>2, Zenon
<1>6. UseInv'
  BY <1>1, <1>2, <1>4, <1>5 DEF ReceiveStop, UseInv
<1> QED BY <1>3, <1>6 DEF Ind

(* What comes out of an item: something, and no more than there is.        *)
LEMMA AmountsFit ==
  ASSUME NEW it \in Item, Potted(it), NEW cmd, NEW amt \in Amounts(cmd, it)
  PROVE  amt \in Nat \ {0} /\ amt =< Units(it)
<1>0. /\ it.Kind \in Kinds /\ it.Quantity \in 1..NUM_MAX_STACK /\ it.Quality \in Nat
      /\ NUM_MAX_STACK \in Nat
  BY DEF Item
<1>1. CASE it.Kind \in Potions
  <2>1. it.Quantity = 1 /\ it.Quality > 0 /\ Units(it) = it.Quality
    BY <1>0, <1>1 DEF Potted, Units
  <2>2. amt = AtMost(it.Quality, PotionSize)
    BY <1>1 DEF Amounts
  <2> QED BY <1>0, <2>1, <2>2 DEF AtMost
<1>2. CASE it.Kind \in Groupables
  <2>1. it.Kind \notin Plains /\ it.Kind \notin Potions /\ Units(it) = it.Quantity
    BY <1>2 DEF Units
  <2>2. amt \in 1..it.Quantity
    BY <1>0, <1>2, <2>1 DEF Amounts
  <2> QED BY <1>0, <2>1, <2>2
<1>3. CASE it.Kind \in Plains
  <2>1. it.Kind \notin Groupables /\ it.Kind \notin Potions /\ Units(it) = it.Quantity
    BY <1>3 DEF Units
  <2>2. amt = 1
    BY <1>3, <2>1 DEF Amounts
  <2> QED BY <1>0, <2>1, <2>2
<1> QED BY <1>0, <1>1, <1>2, <1>3 DEF Kinds

(* What is left of an item of which a part is taken.                       *)
LEMMA RestFits ==
  ASSUME NEW it \in Item, Potted(it), NEW amt \in Nat \ {0}, amt < Units(it), NEW rest,
         rest = IF it.Kind \in Potions THEN [it EXCEPT !.Quality = @ - amt]
                                       ELSE [it EXCEPT !.Quantity = @ - amt]
  PROVE  rest \in Item /\ rest.ID = it.ID /\ rest.Kind = it.Kind /\ Potted(rest)
<1>0. /\ it.ID \in Nat /\ it.Kind \in Kinds /\ it.Quantity \in 1..NUM_MAX_STACK
      /\ it.Quality \in 0..STORAGE_MAX_SWIGS
      /\ NUM_MAX_STACK \in Nat /\ STORAGE_MAX_SWIGS \in Nat
  BY DEF Item
<1>1. CASE it.Kind \in Potions
  <2>1. it.Quality - amt \in 0..STORAGE_MAX_SWIGS /\ it.Quality - amt > 0
    BY <1>0, <1>1 DEF Potted, Units
  <2>2. rest = [it EXCEPT !.Quality = @ - amt]
    BY <1>1
  <2> QED BY <1>1, <2>1, <2>2 DEF Item, Potted
<1>2. CASE it.Kind \notin Potions
  <2>1. it.Quantity - amt \in 1..NUM_MAX_STACK
    BY <1>0, <1>2 DEF Units
  <2>2. rest = [it EXCEPT !.Quantity = @ - amt]
    BY <1>2
  <2> QED BY <1>2, <2>1, <2>2 DEF Item, Potted
<1> QED BY <1>1, <1>2

(* The storage after a removal, as far as ClientItemsWithout counts it.    *)
LEMMA RemoveItemStep ==
  ASSUME Ind, Active, NEW i \in 1..Len(m_Storage), NEW amt \in Nat \ {0},
         Storage_RemoveItem(i, amt)
  PROVE  /\ m_Storage' \in Seq(Item) /\ view' \in Seq(Item) /\ UniqueIDs'
         /\ \A j \in 1..Len(m_Storage') : Potted(m_Storage'[j])
         /\ ClientItemsWithout(i, amt) \in 0..Len(m_Storage')
         /\ view' = SubSeq(m_Storage', 1, ClientItemsWithout(i, amt))
<1>1. StoreInv /\ Inv
  BY Halves DEF Ind
<1>2. /\ m_Storage \in Seq(Item) /\ ClientItems \in 0..Len(m_Storage)
      /\ \A j \in 1..Len(m_Storage) : m_Storage[j] \in Item /\ Potted(m_Storage[j])
  BY <1>1 DEF StoreInv
<1> DEFINE it   == m_Storage[i]
           rest == IF it.Kind \in Potions THEN [it EXCEPT !.Quality = @ - amt]
                                          ELSE [it EXCEPT !.Quantity = @ - amt]
<1>3. CASE amt < Units(it)
  <2>1. /\ m_Storage' = [m_Storage EXCEPT ![i] = rest] /\ Storage_SendItemUpdate(i)
        /\ ClientItemsWithout(i, amt) = ClientItems
    BY <1>3 DEF Storage_RemoveItem, ClientItemsWithout
  <2>2. rest \in Item /\ rest.ID = it.ID /\ rest.Kind = it.Kind /\ Potted(rest)
    <3>1. it \in Item /\ Potted(it)
      BY <1>2
    <3> HIDE DEF it
    <3> QED BY <1>3, <3>1, RestFits
  <2> HIDE DEF rest
  <2>3. /\ m_Storage' \in Seq(Item) /\ Len(m_Storage') = Len(m_Storage)
        /\ m_Storage'[i] = rest
        /\ \A j \in 1..Len(m_Storage) : j # i => m_Storage'[j] = m_Storage[j]
    BY <1>2, <2>1, <2>2
  <2>4. /\ view' \in Seq(Item) /\ UniqueIDs'
        /\ Active => view' = SubSeq(m_Storage', 1, ClientItems)
    BY <1>1, <2>1, <2>2, <2>3, ChangeStep
  <2>5. \A j \in 1..Len(m_Storage') : Potted(m_Storage'[j])
    BY <1>2, <2>2, <2>3
  <2> QED BY <1>2, <2>1, <2>3, <2>4, <2>5
<1>4. CASE ~(amt < Units(it))
  <2>1. /\ m_Storage' = RemoveAt(m_Storage, i)
        /\ IF i =< ClientItems THEN Storage_ItemRemoveMsg(it.ID) ELSE UNCHANGED view
        /\ ClientItemsWithout(i, amt) = IF i > ClientItems THEN ClientItems ELSE ClientItems - 1
    BY <1>4 DEF Storage_RemoveItem, ClientItemsWithout
  <2>2. /\ m_Storage' \in Seq(Item) /\ Len(m_Storage') = Len(m_Storage) - 1
        /\ view' \in Seq(Item) /\ UniqueIDs'
        /\ i =< ClientItems => view' = SubSeq(m_Storage', 1, ClientItems - 1)
        /\ ~(i =< ClientItems) => view' = SubSeq(m_Storage', 1, ClientItems)
    BY <1>1, <2>1, RemoveStep
  <2>3. \A j \in 1..Len(m_Storage') : Potted(m_Storage'[j])
    <3>1. \A j \in 1..(Len(m_Storage) - 1) :
            m_Storage'[j] = IF j < i THEN m_Storage[j] ELSE m_Storage[j + 1]
      BY <1>2, <2>1, RemoveAtProperties
    <3> TAKE j \in 1..Len(m_Storage')
    <3>2. j \in 1..Len(m_Storage) /\ j + 1 \in 1..Len(m_Storage)
      BY <1>2, <2>2
    <3>3. Potted(m_Storage[j]) /\ Potted(m_Storage[j + 1])
      BY <1>2, <3>2
    <3>4. m_Storage'[j] = m_Storage[j] \/ m_Storage'[j] = m_Storage[j + 1]
      BY <1>2, <2>2, <3>1
    <3> QED BY <3>3, <3>4
  <2>4. ClientItemsWithout(i, amt) \in 0..Len(m_Storage')
    <3>1. ClientItems \in 0..Len(m_Storage) /\ i \in 1..Len(m_Storage) /\ Len(m_Storage) \in Nat
      BY <1>2
    <3>2. CASE i > ClientItems
      BY <2>1, <2>2, <3>1, <3>2
    <3>3. CASE ~(i > ClientItems)
      BY <2>1, <2>2, <3>1, <3>3
    <3> QED BY <3>2, <3>3
  <2>5. view' = SubSeq(m_Storage', 1, ClientItemsWithout(i, amt))
    <3>1. i > ClientItems <=> ~(i =< ClientItems)
      BY <1>2
    <3> QED BY <2>1, <2>2, <3>1, Zenon
  <2> QED BY <2>2, <2>3, <2>4, <2>5
<1> QED BY <1>3, <1>4

LEMMA TakeStep ==
  ASSUME Ind, Active, unchecked = 0, NEW cmd, NEW id, NEW hands \in BOOLEAN, Take(cmd, id, hands),
         commands # <<>>, transfers' \in 0..STORAGE_MAX_TRANSFER,
         UNCHANGED <<storing, unchecked, m_StorageMax, there, granted>>
  PROVE  Ind'
<1>1. /\ StoreInv /\ UseInv /\ Inv /\ m_Storage \in Seq(Item) /\ storing \in Seq(Todo)
      /\ \A j \in 1..Len(m_Storage) : m_Storage[j] \in Item /\ Potted(m_Storage[j])
      /\ \A j \in 1..Len(storing) : Stackable(storing[j])
  <2>1. StoreInv /\ UseInv /\ Inv
    BY Halves DEF Ind
  <2>2. /\ m_Storage \in Seq(Item) /\ storing \in Seq(Todo)
        /\ \A j \in 1..Len(m_Storage) : Potted(m_Storage[j])
        /\ \A j \in 1..Len(storing) : Stackable(storing[j])
    BY <2>1 DEF StoreInv
  <2>3. \A j \in 1..Len(m_Storage) : m_Storage[j] \in Item
    BY <2>2
  <2>4. \A j \in 1..Len(m_Storage) : m_Storage[j] \in Item /\ Potted(m_Storage[j])
    BY <2>2, <2>3
  <2> QED BY <2>1, <2>2, <2>4
<1>2. PICK i \in DOMAIN m_Storage : \E amt \in Amounts(cmd, m_Storage[i]) :
        /\ Storage_RemoveItem(i, amt)
        /\ carried' = [carried EXCEPT ![m_Storage[i].Kind] = @ + amt]
        /\ IF hands
           THEN Storage_Close(Tail(commands))
           ELSE /\ ClientItems' = ClientItemsWithout(i, amt)
                /\ commands' = Tail(commands)
                /\ UNCHANGED <<session, shown>>
  BY DEF Take
<1>3. PICK amt \in Amounts(cmd, m_Storage[i]) :
        /\ Storage_RemoveItem(i, amt)
        /\ carried' = [carried EXCEPT ![m_Storage[i].Kind] = @ + amt]
        /\ IF hands
           THEN Storage_Close(Tail(commands))
           ELSE /\ ClientItems' = ClientItemsWithout(i, amt)
                /\ commands' = Tail(commands)
                /\ UNCHANGED <<session, shown>>
  BY <1>2
<1>4. i \in 1..Len(m_Storage) /\ m_Storage[i] \in Item /\ Potted(m_Storage[i])
  BY <1>1
<1>5. amt \in Nat \ {0}
  BY <1>4, AmountsFit
<1>6. /\ m_Storage' \in Seq(Item) /\ view' \in Seq(Item) /\ UniqueIDs'
      /\ \A j \in 1..Len(m_Storage') : Potted(m_Storage'[j])
      /\ ClientItemsWithout(i, amt) \in 0..Len(m_Storage')
      /\ view' = SubSeq(m_Storage', 1, ClientItemsWithout(i, amt))
  BY <1>3, <1>4, <1>5, RemoveItemStep
<1>7. carried' \in [Kinds -> Nat]
  <2>1. carried \in [Kinds -> Nat] /\ m_Storage[i].Kind \in Kinds
    BY <1>1, <1>4 DEF UseInv, Item
  <2> QED BY <1>3, <1>5, <2>1
<1>8. Tail(commands) \in Seq(Commands)
  BY <1>1 DEF UseInv
<1>9. storing' \in Seq(Todo) /\ (\A j \in 1..Len(storing') : Stackable(storing'[j])) /\ unchecked' = 0
  BY <1>1
<1>10. CASE hands
  <2>1. Storage_End /\ commands' = Closed(Tail(commands)) /\ shown' = FALSE /\ there' = there
    BY <1>3, <1>10 DEF Storage_Close
  <2>2. /\ Teller' \in Tellers /\ using' \in [Tellers -> Int] /\ Active' = FALSE
        /\ ClientItems' = 0 /\ OneDonePerSuccess'
    BY <2>1, EndSettles
  <2>3. Len(m_Storage') \in Nat /\ 0 \in 0..Len(m_Storage')
    BY <1>6
  <2>4. StoreInv'
    BY <1>6, <1>9, <2>2, <2>3 DEF StoreInv, ClientHoldsPrefix
  <2>5. commands' \in Seq(Commands)
    BY <1>8, <2>1, ClosedFits
  <2>6. Active' \in BOOLEAN /\ shown' \in BOOLEAN
    BY <2>1, <2>2, Zenon
  <2>7. UseInv'
    BY <1>1, <1>7, <2>2, <2>5, <2>6 DEF UseInv
  <2> QED BY <2>4, <2>7 DEF Ind
<1>11. CASE ~hands
  <2>1. /\ ClientItems' = ClientItemsWithout(i, amt) /\ commands' = Tail(commands)
        /\ Active' = Active /\ Teller' = Teller /\ using' = using /\ shown' = shown
    BY <1>3, <1>11 DEF session
  <2>2. ClientHoldsPrefix'
    BY <1>6, <2>1 DEF ClientHoldsPrefix
  <2>3. StoreInv'
    <3>1. ClientItems' \in 0..Len(m_Storage') /\ unchecked' \in 0..Len(m_Storage')
      BY <1>6, <1>9, <2>1
    <3>2. (Active' \/ ClientItems' = 0) /\ (unchecked' > 0 => ~Active')
      BY <1>9, <2>1
    <3> QED BY <1>6, <1>9, <2>2, <3>1, <3>2 DEF StoreInv
  <2>4. UseInv'
    BY <1>1, <1>7, <1>8, <2>1 DEF UseInv, OneDonePerSuccess
  <2> QED BY <2>3, <2>4 DEF Ind
<1> QED BY <1>10, <1>11

LEMMA ReceiveMoveStep ==
  ASSUME Ind, ReceiveMove
  PROVE  Ind'
<1>1. /\ StoreInv /\ UseInv /\ unchecked = 0 /\ commands # <<>>
      /\ UNCHANGED <<unchecked, m_StorageMax, there, granted>>
  <2>1. unchecked \in Nat /\ StoreInv /\ UseInv
    BY DEF Ind, StoreInv
  <2> QED BY <2>1 DEF ReceiveMove, Busy
<1>2. Tail(commands) \in Seq(Commands)
  BY <1>1 DEF UseInv
<1>3. transfers' \in 0..STORAGE_MAX_TRANSFER
  BY <1>1 DEF ReceiveMove, UseInv
<1>4. CASE Refused /\ UNCHANGED storing
  <2>1. StoreInv'
    BY <1>1, <1>4, StoreKept DEF Refused, store, session
  <2>2. UseInv'
    BY <1>1, <1>2, <1>3, <1>4 DEF Refused, UseInv, OneDonePerSuccess, session
  <2> QED BY <2>1, <2>2 DEF Ind
<1>5. CASE /\ Storage_AddItem /\ commands' = Tail(commands)
           /\ UNCHANGED <<m_Storage, session, ClientItems, shown, view>>
  <2>1. PICK k \in Kinds : \E amt \in CASE k \in Potions -> 1..PotionSize
                                      [] k \in Plains  -> {1}
                                      [] OTHER         -> 1..NUM_MAX_STACK :
          /\ amt =< carried[k]
          /\ storing' = <<[Kind |-> k, Amount |-> amt, Checked |-> TRUE]>>
          /\ carried' = [carried EXCEPT ![k] = @ - amt]
    BY <1>5 DEF Storage_AddItem
  <2>2. PICK amt \in CASE k \in Potions -> 1..PotionSize
                      [] k \in Plains  -> {1}
                      [] OTHER         -> 1..NUM_MAX_STACK :
          /\ amt =< carried[k]
          /\ storing' = <<[Kind |-> k, Amount |-> amt, Checked |-> TRUE]>>
          /\ carried' = [carried EXCEPT ![k] = @ - amt]
    BY <2>1
  <2>3. amt \in Nat \ {0} /\ (k \notin Potions => amt =< NUM_MAX_STACK)
    <3>1. CASE k \in Potions
      <4>1. amt \in 1..PotionSize /\ PotionSize \in Nat
        BY <2>2, <3>1
      <4> QED BY <3>1, <4>1
    <3>2. CASE k \in Plains /\ k \notin Potions
      <4>1. amt = 1 /\ NUM_MAX_STACK \in Nat \ {0}
        BY <2>2, <3>2
      <4> QED BY <4>1
    <3>3. CASE k \notin Plains /\ k \notin Potions
      <4>1. amt \in 1..NUM_MAX_STACK /\ NUM_MAX_STACK \in Nat
        BY <2>2, <3>3
      <4> QED BY <4>1
    <3> QED BY <3>1, <3>2, <3>3
  <2> DEFINE x == [Kind |-> k, Amount |-> amt, Checked |-> TRUE]
  <2>4. x \in Todo /\ Stackable(x)
    BY <2>3 DEF Todo, Stackable
  <2>5. storing' = <<x>>
    BY <2>2
  <2> HIDE DEF x
  <2>6. StoreInv'
    BY <1>1, <1>5, <2>4, <2>5, OneToPut DEF session
  <2>7. carried' \in [Kinds -> Nat]
    <3>1. carried \in [Kinds -> Nat] /\ carried[k] \in Nat
      BY <1>1 DEF UseInv
    <3>2. carried[k] - amt \in Nat
      BY <2>2, <2>3, <3>1
    <3> QED BY <2>2, <3>1, <3>2
  <2>8. UseInv'
    BY <1>1, <1>2, <1>3, <1>5, <2>7 DEF UseInv, OneDonePerSuccess, session
  <2> QED BY <2>6, <2>8 DEF Ind
<1>6. CASE /\ Active /\ UNCHANGED storing
           /\ \E cmd \in {"remove", "split"}, id \in Nat, hands \in BOOLEAN : Take(cmd, id, hands)
  BY <1>1, <1>3, <1>6, TakeStep
<1>7. Head(commands).ID \in Nat
  <2>1. Head(commands) \in Commands
    BY <1>1 DEF UseInv
  <2> QED BY <2>1 DEF Commands
<1> QED
  <2> DEFINE c == Head(commands)
  <2>1. \/ Refused /\ UNCHANGED storing
        \/ /\ Storage_AddItem /\ commands' = Tail(commands)
           /\ UNCHANGED <<m_Storage, session, ClientItems, shown, view>>
        \/ /\ Active /\ UNCHANGED storing
           /\ \/ \E hands \in BOOLEAN : Take("remove", c.ID, hands)
              \/ Take("split", c.ID, FALSE)
    BY DEF ReceiveMove
  <2> HIDE DEF c
  <2>2. c.ID \in Nat
    BY <1>7 DEF c
  <2> QED BY <1>4, <1>5, <1>6, <2>1, <2>2

LEMMA StepKeeps ==
  ASSUME Ind, [Next]_vars
  PROVE  Ind'
<1>1. CASE UNCHANGED vars
  <2>1. StoreInv'
    BY <1>1, StoreKept DEF Ind, vars, session, client
  <2>2. UseInv'
    BY <1>1 DEF Ind, UseInv, OneDonePerSuccess, vars, session, client
  <2> QED BY <2>1, <2>2 DEF Ind
<1>2. CASE \E cmd \in {"remove", "split"}, id \in IDs(view) : ClientCommand(cmd, id)
  <2>1. \A id \in IDs(view) : id \in Nat
    <3>1. view \in Seq(Item)
      BY DEF Ind, StoreInv
    <3>2. \A j \in DOMAIN view : view[j] \in Item
      BY <3>1
    <3>3. \A j \in DOMAIN view : view[j].ID \in Nat
      BY <3>2 DEF Item
    <3> QED BY <3>3 DEF IDs
  <2> QED BY <1>2, <2>1, ScriptsAndClientStep
<1>3. CASE \/ ClientCommand("add", 0) \/ ClosePanel \/ \E t \in Tellers : Walk(t)
           \/ \E max \in 1..STORAGE_MAX_ITEMS : Storage_SetMax(max)
  BY <1>3, ScriptsAndClientStep
<1>4. CASE \/ Validate \/ Store \/ PreThink \/ Rejoin \/ ReceiveStop \/ ReceiveMove
           \/ \E t \in Tellers : Trade(t)
  BY <1>4, ValidateStep, StoreStep, PreThinkStep, RejoinStep, ReceiveStopStep, ReceiveMoveStep,
     TradeStep
<1>5. CASE \E k \in Kinds, n \in 1..NUM_MAX_STACK, q \in 1..STORAGE_MAX_SWIGS :
             Storage_AddItems(k, n, q)
  BY <1>5, AddItemsStep
<1> QED BY <1>1, <1>2, <1>3, <1>4, <1>5 DEF Next

LEMMA Always == Spec => []Ind
<1>1. Init => Ind
  BY InitInv, Halves DEF Ind
<1>2. Ind /\ [Next]_vars => Ind'
  BY StepKeeps
<1> QED BY <1>1, <1>2, PTL DEF Spec
-----------------------------------------------------------------------------
(* No stack outgrows NUM_MAX_STACK, no potion STORAGE_MAX_SWIGS, and every *)
(* variable keeps its type.                                                *)
THEOREM TypeCorrect == Spec => []TypeOK
<1>1. Ind => TypeOK
  BY Halves DEF Ind, Inv
<1> QED BY <1>1, Always, PTL

(* A command of the client's never means two items.                        *)
THEOREM IDsStayUnique == Spec => []UniqueIDs
<1>1. Ind => UniqueIDs
  BY DEF Ind, StoreInv
<1> QED BY <1>1, Always, PTL

(* The client of an open storage holds exactly what ClientItems says he    *)
(* knows, in order and up to date.                                         *)
THEOREM ClientKnowsPrefix == Spec => []ClientHoldsPrefix
<1>1. Ind => ClientHoldsPrefix
  BY DEF Ind, StoreInv
<1> QED BY <1>1, Always, PTL

(* A teller that is still there got one _done for each _success but the    *)
(* one of an open use.                                                     *)
THEOREM DoneMatchesSuccess == Spec => []OneDonePerSuccess
<1>1. Ind => OneDonePerSuccess
  BY DEF Ind, UseInv
<1> QED BY <1>1, Always, PTL
=============================================================================
