------------------------------ MODULE Party_proofs ------------------------------
(***************************************************************************)
(* Proofs about Party, for any number of slots, addresses, IDs and names,  *)
(* whatever the saved names are cut to, and whether or not an ID may be    *)
(* drawn that a saved record still has.                                    *)
(***************************************************************************)
EXTENDS Party, TLAPS

Distinct(s) == \A j, k \in DOMAIN s : s[j] = s[k] => j = k

-----------------------------------------------------------------------------
(* Lists of members: what erasing one and appending one do to a list in    *)
(* which nobody is twice.                                                  *)

LEMMA ElementsType == ASSUME NEW S, NEW s \in Seq(S) PROVE Elements(s) \subseteq S
  BY DEF Elements

LEMMA WithoutShape ==
  ASSUME NEW S, NEW s \in Seq(S), NEW n \in 1 .. Len(s)
  PROVE  /\ Without(s, n) \in Seq(S)
         /\ Len(Without(s, n)) = Len(s) - 1
         /\ \A k \in 1 .. Len(s) - 1 :
              Without(s, n)[k] = IF k < n THEN s[k] ELSE s[k + 1]
<1> DEFINE w == Without(s, n)
<1>1. Len(s) - 1 \in Nat
  OBVIOUS
<1>2. \A k \in 1 .. Len(s) - 1 : (IF k < n THEN s[k] ELSE s[k + 1]) \in S
  OBVIOUS
<1>3. w \in [1 .. Len(s) - 1 -> S]
  BY <1>2 DEF Without
<1>4. w \in Seq(S) /\ Len(w) = Len(s) - 1
  BY <1>1, <1>3
<1>5. \A k \in 1 .. Len(s) - 1 : w[k] = IF k < n THEN s[k] ELSE s[k + 1]
  BY DEF Without
<1> QED
  BY <1>4, <1>5

(* Erasing takes one member out and leaves the first one first, unless it  *)
(* is the one that goes.                                                   *)
LEMMA WithoutMembers ==
  ASSUME NEW S, NEW s \in Seq(S), NEW n \in 1 .. Len(s), Distinct(s)
  PROVE  /\ Elements(Without(s, n)) = Elements(s) \ {s[n]}
         /\ Distinct(Without(s, n))
         /\ n > 1 => Without(s, n) # <<>> /\ Without(s, n)[1] = s[1]
<1> DEFINE w == Without(s, n)
<1>1. /\ w \in Seq(S) /\ Len(w) = Len(s) - 1 /\ DOMAIN w = 1 .. Len(s) - 1
      /\ \A k \in 1 .. Len(s) - 1 : w[k] = IF k < n THEN s[k] ELSE s[k + 1]
  <2>1. /\ w \in Seq(S) /\ Len(w) = Len(s) - 1
        /\ \A k \in 1 .. Len(s) - 1 : w[k] = IF k < n THEN s[k] ELSE s[k + 1]
    BY WithoutShape
  <2> HIDE DEF w
  <2>2. DOMAIN w = 1 .. Len(w)
    BY <2>1
  <2> QED
    BY <2>1, <2>2
<1>2. DOMAIN s = 1 .. Len(s) /\ Len(s) \in Nat
  OBVIOUS
<1> HIDE DEF w
<1>3. ASSUME NEW x \in Elements(w)
      PROVE  x \in Elements(s) \ {s[n]}
  <2>1. PICK k \in 1 .. Len(s) - 1 : x = w[k]
    BY <1>1, <1>3 DEF Elements
  <2>2. CASE k < n
    <3>1. x = s[k] /\ k \in DOMAIN s /\ k # n /\ n \in DOMAIN s
      BY <1>1, <1>2, <2>1, <2>2
    <3> QED
      BY <3>1 DEF Elements, Distinct
  <2>3. CASE ~(k < n)
    <3>1. x = s[k + 1] /\ k + 1 \in DOMAIN s /\ k + 1 # n /\ n \in DOMAIN s
      BY <1>1, <1>2, <2>1, <2>3
    <3> QED
      BY <3>1 DEF Elements, Distinct
  <2> QED
    BY <2>2, <2>3
<1>4. ASSUME NEW x \in Elements(s) \ {s[n]}
      PROVE  x \in Elements(w)
  <2>1. PICK k \in 1 .. Len(s) : x = s[k] /\ k # n
    BY <1>2, <1>4 DEF Elements
  <2>2. CASE k < n
    <3>1. k \in DOMAIN w /\ w[k] = x
      BY <1>1, <2>1, <2>2
    <3> QED
      BY <3>1 DEF Elements
  <2>3. CASE k > n
    <3>1. k - 1 \in DOMAIN w /\ w[k - 1] = x
      BY <1>1, <2>1, <2>3
    <3> QED
      BY <3>1 DEF Elements
  <2> QED
    BY <2>1, <2>2, <2>3
<1>5. Distinct(w)
  <2> SUFFICES ASSUME NEW j \in DOMAIN w, NEW k \in DOMAIN w, w[j] = w[k]
               PROVE  j = k
    BY DEF Distinct
  <2>1. CASE j < n /\ k < n
    <3>1. s[j] = s[k] /\ j \in DOMAIN s /\ k \in DOMAIN s
      BY <1>1, <1>2, <2>1
    <3> QED
      BY <3>1 DEF Distinct
  <2>2. CASE j < n /\ ~(k < n)
    <3>1. s[j] = s[k + 1] /\ j \in DOMAIN s /\ k + 1 \in DOMAIN s /\ j # k + 1
      BY <1>1, <1>2, <2>2
    <3> QED
      BY <3>1 DEF Distinct
  <2>3. CASE ~(j < n) /\ k < n
    <3>1. s[j + 1] = s[k] /\ j + 1 \in DOMAIN s /\ k \in DOMAIN s /\ j + 1 # k
      BY <1>1, <1>2, <2>3
    <3> QED
      BY <3>1 DEF Distinct
  <2>4. CASE ~(j < n) /\ ~(k < n)
    <3>1. s[j + 1] = s[k + 1] /\ j + 1 \in DOMAIN s /\ k + 1 \in DOMAIN s
      BY <1>1, <1>2, <2>4
    <3>2. j + 1 = k + 1
      BY <3>1 DEF Distinct
    <3> QED
      BY <1>1, <3>2
  <2> QED
    BY <2>1, <2>2, <2>3, <2>4
<1>6. n > 1 => w # <<>> /\ w[1] = s[1]
  BY <1>1, <1>2
<1> QED
  BY <1>3, <1>4, <1>5, <1>6 DEF w

LEMMA AppendMembers ==
  ASSUME NEW S, NEW s \in Seq(S), NEW x \in S, Distinct(s), x \notin Elements(s)
  PROVE  /\ Append(s, x) \in Seq(S)
         /\ Elements(Append(s, x)) = Elements(s) \cup {x}
         /\ Distinct(Append(s, x))
         /\ s # <<>> => Append(s, x)[1] = s[1]
<1> DEFINE a == Append(s, x)
<1>1. /\ a \in Seq(S) /\ DOMAIN a = 1 .. Len(s) + 1 /\ DOMAIN s = 1 .. Len(s) /\ Len(s) \in Nat
      /\ \A k \in 1 .. Len(s) : a[k] = s[k]
      /\ a[Len(s) + 1] = x
  OBVIOUS
<1> HIDE DEF a
<1>2. Elements(a) = Elements(s) \cup {x}
  BY <1>1 DEF Elements
<1>3. Distinct(a)
  BY <1>1 DEF Distinct, Elements
<1>4. s # <<>> => a[1] = s[1]
  BY <1>1
<1> QED
  BY <1>1, <1>2, <1>3, <1>4 DEF a

-----------------------------------------------------------------------------
(* The inductive invariant.  To MembersAgree and DistinctParties it adds   *)
(* what keeps them: whoever is in a party is on the server, so that        *)
(* ValidateUnits never erases anybody; and, for RestoredToHisParty, that   *)
(* the record has the ID of the party the player left.                     *)

MembersAreHere == \A p \in Slots : m_pTeam[p] # NoTeam => p \in Here

RecordsAgree == \A p \in Slots : saved[p].id = was[p]

IInv ==
  /\ TypeOK
  /\ MembersAgree
  /\ DistinctParties
  /\ MembersAreHere
  /\ RecordsAgree
  /\ RestoredToHisParty

(* What SetTeam relies on, which a party made in the same step keeps.      *)
Listed ==
  /\ m_pTeam \in [Slots -> Addresses \cup {NoTeam}]
  /\ MemberList \in [Addresses -> Seq(Slots)]
  /\ \A p \in Slots, t \in Addresses : m_pTeam[p] = t <=> p \in Elements(MemberList[t])
  /\ \A t \in Addresses : Distinct(MemberList[t])

LEMMA ListedInvariant == IInv => Listed
  BY DEF IInv, TypeOK, MembersAgree, Listed, Distinct

LEMMA ValidatedSame ==
  ASSUME Listed, MembersAreHere, NEW t \in Addresses, NEW s \in Seq(Slots),
         Elements(s) \subseteq Elements(MemberList[t])
  PROVE  Validated(s) = s
<1>1. \A p \in Elements(MemberList[t]) : p \in Slots
  BY ElementsType DEF Listed
<1>2. \A p \in Elements(MemberList[t]) : p \in Here
  BY <1>1, AddressesAssumption DEF Listed, MembersAreHere
<1> QED
  BY <1>2 DEF Validated

(* RemoveFromTeam takes the player out of his list and touches no other    *)
(* list; the first member of a list stays, unless it is he.                *)
LEMMA RemovedMembers ==
  ASSUME Listed, MembersAreHere, NEW p \in Here
  PROVE  /\ Removed(MemberList, p) \in [Addresses -> Seq(Slots)]
         /\ \A t \in Addresses :
              /\ Elements(Removed(MemberList, p)[t]) = Elements(MemberList[t]) \ {p}
              /\ Distinct(Removed(MemberList, p)[t])
              /\ MemberList[t] # <<>> /\ MemberList[t][1] # p =>
                   /\ Removed(MemberList, p)[t] # <<>>
                   /\ Removed(MemberList, p)[t][1] = MemberList[t][1]
<1> DEFINE L == Removed(MemberList, p)
<1>0. p \in Slots
  BY DEF Here
<1>1. CASE m_pTeam[p] = NoTeam
  <2>1. L = MemberList
    BY <1>1 DEF Removed
  <2>2. \A t \in Addresses : p \notin Elements(MemberList[t])
    BY <1>0, <1>1, AddressesAssumption DEF Listed
  <2> QED
    BY <2>1, <2>2 DEF Listed
<1>2. CASE m_pTeam[p] # NoTeam
  <2> DEFINE u == m_pTeam[p]
             v == MemberList[u]
             N == {k \in DOMAIN v : v[k] = p}
  <2>1. u \in Addresses /\ v \in Seq(Slots) /\ DOMAIN v = 1 .. Len(v) /\ Distinct(v)
    BY <1>0, <1>2 DEF Listed
  <2>2. Validated(v) = v
    BY <2>1, ValidatedSame
  <2>3. p \in Elements(v)
    BY <1>0, <2>1 DEF Listed
  <2>4. PICK n \in DOMAIN v : v[n] = p
    BY <2>3 DEF Elements
  <2>5. N = {n}
    BY <2>1, <2>4 DEF Distinct
  <2>6. Min(N) = n /\ N # {}
    <3>1. n \in Int
      BY <2>1
    <3>2. Min({n}) = n
      BY <3>1 DEF Min
    <3> QED
      BY <2>5, <3>2
  <2>7. L = [MemberList EXCEPT ![u] = Without(v, n)]
    BY <1>2, <2>2, <2>6 DEF Removed
  <2>8. /\ Without(v, n) \in Seq(Slots)
        /\ Elements(Without(v, n)) = Elements(v) \ {p}
        /\ Distinct(Without(v, n))
        /\ n > 1 => Without(v, n) # <<>> /\ Without(v, n)[1] = v[1]
    <3> HIDE DEF v
    <3>1. n \in 1 .. Len(v)
      BY <2>1, <2>4
    <3>2. Without(v, n) \in Seq(Slots)
      BY <2>1, <3>1, WithoutShape
    <3> QED
      BY <2>1, <2>4, <3>1, <3>2, WithoutMembers
  <2>9. v[1] # p => n > 1
    BY <2>1, <2>4
  <2>10. \A t \in Addresses \ {u} : L[t] = MemberList[t] /\ p \notin Elements(MemberList[t])
    BY <1>0, <2>1, <2>7 DEF Listed
  <2>11. L[u] = Without(v, n)
    BY <2>1, <2>7 DEF Listed
  <2>12. L \in [Addresses -> Seq(Slots)]
    BY <2>7, <2>8 DEF Listed
  <2> HIDE DEF u, v, N, L
  <2>13. \A t \in Addresses \ {u} : Distinct(MemberList[t])
    BY DEF Listed
  <2>14. ASSUME NEW t \in Addresses
         PROVE  /\ Elements(L[t]) = Elements(MemberList[t]) \ {p}
                /\ Distinct(L[t])
                /\ MemberList[t] # <<>> /\ MemberList[t][1] # p =>
                     L[t] # <<>> /\ L[t][1] = MemberList[t][1]
    <3>1. CASE t = u
      BY <2>8, <2>9, <2>11, <3>1 DEF v
    <3>2. CASE t # u
      BY <2>10, <2>13, <3>2
    <3> QED
      BY <3>1, <3>2
  <2> QED
    BY <2>12, <2>14 DEF L
<1> QED
  BY <1>1, <1>2

(* SetTeam keeps lists and pointers in agreement, and only he can lose the *)
(* first place of a list.                                                  *)
LEMMA SetTeamMembers ==
  ASSUME Listed, MembersAreHere, NEW p \in Here, NEW t \in Addresses \cup {NoTeam},
         SetTeam(p, t)
  PROVE  /\ Listed'
         /\ m_pTeam'[p] = t
         /\ \A q \in Slots \ {p} : m_pTeam'[q] = m_pTeam[q]
         /\ \A u \in Addresses : MemberList[u] # <<>> /\ MemberList[u][1] # p =>
              MemberList'[u] # <<>> /\ MemberList'[u][1] = MemberList[u][1]
<1> DEFINE L == Removed(MemberList, p)
<1>1. p \in Slots
  BY DEF Here
<1>2. /\ L \in [Addresses -> Seq(Slots)]
      /\ \A u \in Addresses :
           /\ Elements(L[u]) = Elements(MemberList[u]) \ {p}
           /\ Distinct(L[u])
           /\ MemberList[u] # <<>> /\ MemberList[u][1] # p =>
                L[u] # <<>> /\ L[u][1] = MemberList[u][1]
  BY RemovedMembers
<1>3. /\ m_pTeam' \in [Slots -> Addresses \cup {NoTeam}]
      /\ m_pTeam'[p] = t
      /\ \A q \in Slots \ {p} : m_pTeam'[q] = m_pTeam[q]
  BY <1>1 DEF SetTeam, Listed
<1>4. MemberList' = Added(L, p, t)
  BY DEF SetTeam
<1> HIDE DEF L
<1>5. ASSUME NEW u \in Addresses
      PROVE  /\ MemberList'[u] \in Seq(Slots)
             /\ Elements(MemberList'[u]) =
                  IF u = t THEN Elements(L[u]) \cup {p} ELSE Elements(L[u])
             /\ Distinct(MemberList'[u])
             /\ L[u] # <<>> => MemberList'[u] # <<>> /\ MemberList'[u][1] = L[u][1]
  <2>1. CASE t = NoTeam
    BY <1>2, <1>4, <2>1, AddressesAssumption DEF Added
  <2>2. CASE t # NoTeam
    <3>1. t \in Addresses /\ p \notin Elements(L[t])
      BY <1>2, <2>2
    <3>2. Validated(L[t]) = L[t]
      BY <1>2, <3>1, ValidatedSame
    <3>3. MemberList' = [L EXCEPT ![t] = Append(L[t], p)]
      BY <1>4, <2>2, <3>1, <3>2 DEF Added
    <3>4. /\ Append(L[t], p) \in Seq(Slots)
          /\ Elements(Append(L[t], p)) = Elements(L[t]) \cup {p}
          /\ Distinct(Append(L[t], p))
          /\ L[t] # <<>> => Append(L[t], p)[1] = L[t][1]
          /\ Append(L[t], p) # <<>>
      <4>1. L[t] \in Seq(Slots) /\ Distinct(L[t])
        BY <1>2, <3>1
      <4> QED
        BY <1>1, <3>1, <4>1, AppendMembers
    <3>5. MemberList'[u] = IF u = t THEN Append(L[t], p) ELSE L[u]
      BY <1>2, <3>1, <3>3
    <3> QED
      BY <1>2, <3>4, <3>5
  <2> QED
    BY <2>1, <2>2
<1>6. MemberList' \in [Addresses -> Seq(Slots)]
  <2>1. MemberList' = [u \in Addresses |-> MemberList'[u]]
    BY <1>2, <1>4 DEF Added
  <2> QED
    BY <1>5, <2>1
<1>7. ASSUME NEW q \in Slots, NEW u \in Addresses
      PROVE  m_pTeam'[q] = u <=> q \in Elements(MemberList'[u])
  <2>1. m_pTeam[q] = u <=> q \in Elements(MemberList[u])
    BY DEF Listed
  <2>2. q \in Elements(MemberList'[u]) <=>
          (q = p /\ u = t) \/ (q # p /\ q \in Elements(MemberList[u]))
    <3>1. Elements(L[u]) = Elements(MemberList[u]) \ {p}
      BY <1>2
    <3>2. Elements(MemberList'[u]) =
            IF u = t THEN Elements(L[u]) \cup {p} ELSE Elements(L[u])
      BY <1>5
    <3> HIDE <1>2, <1>5
    <3> QED
      BY <3>1, <3>2
  <2> QED
    BY <1>3, <2>1, <2>2
<1>8. Listed'
  BY <1>3, <1>5, <1>6, <1>7 DEF Listed
<1> QED
  BY <1>2, <1>3, <1>5, <1>8

(* A party with a new name and a new ID is told apart from the others.     *)
LEMMA NewDistinct ==
  ASSUME TypeOK, DistinctParties, NEW t, NEW name \in Names, NEW id \in IDs,
         Named(name) = {}, WithID(id) = {}, New(t, name, id)
  PROVE  /\ Teams' = Teams \cup {t} /\ t \in Addresses /\ t \notin Teams
         /\ party' \in [Addresses -> Parties \cup {NoParty}]
         /\ party'[t] = [name |-> name, id |-> id]
         /\ \A u \in Teams : party'[u] = party[u]
         /\ DistinctParties'
<1>1. /\ Teams' = Teams \cup {t} /\ t \in Addresses /\ t \notin Teams
      /\ party' = [party EXCEPT ![t] = [name |-> name, id |-> id]]
      /\ Teams \subseteq Addresses /\ party \in [Addresses -> Parties \cup {NoParty}]
  BY DEF New, TypeOK
<1>2. [name |-> name, id |-> id] \in Parties
  BY DEF Parties
<1>3. /\ party' \in [Addresses -> Parties \cup {NoParty}]
      /\ party'[t] = [name |-> name, id |-> id]
      /\ \A u \in Teams : party'[u] = party[u]
  BY <1>1, <1>2
<1>4. \A u \in Teams : party[u].name # name /\ party[u].id # id
  BY DEF Named, WithID
<1>5. DistinctParties'
  BY <1>1, <1>3, <1>4 DEF DistinctParties
<1> QED
  BY <1>1, <1>3, <1>5

(* Players whose party is left alone still have it.                        *)
LEMMA StillRestored ==
  ASSUME IInv, intact' \subseteq intact, refused \subseteq refused',
         \A p \in intact' : was'[p] = was[p] /\ m_pTeam'[p] = m_pTeam[p],
         \A t \in Teams : party'[t] = party[t] \/ \A p \in Slots : m_pTeam[p] # t
  PROVE  RestoredToHisParty'
<1> SUFFICES ASSUME NEW p \in intact', was'[p] \notin refused'
             PROVE  PartyOf(p)'.id = was'[p]
  BY DEF RestoredToHisParty
<1>1. p \in intact /\ p \in Slots /\ was[p] \notin refused
  BY DEF IInv, TypeOK, Here
<1>2. PartyOf(p).id = was[p]
  BY <1>1 DEF IInv, RestoredToHisParty
<1>3. m_pTeam[p] # NoTeam => party'[m_pTeam[p]] = party[m_pTeam[p]]
  BY <1>1 DEF IInv, MembersAgree
<1>4. PartyOf(p)' = PartyOf(p)
  BY <1>3 DEF PartyOf
<1> QED
  BY <1>2, <1>4

-----------------------------------------------------------------------------
(* The initial states and the steps.                                       *)

LEMMA InitInvariant == Init => IInv
<1> SUFFICES ASSUME Init PROVE IInv
  OBVIOUS
<1>1. \A t \in Addresses : MemberList[t] = <<>> /\ Elements(MemberList[t]) = {}
  BY DEF Init, Elements
<1>2. TypeOK
  BY DEF Init, TypeOK, Stages, Here
<1>3. MembersAgree
  BY <1>1, AddressesAssumption DEF Init, MembersAgree
<1>4. DistinctParties /\ MembersAreHere /\ RestoredToHisParty
  BY DEF Init, DistinctParties, MembersAreHere, RestoredToHisParty
<1>5. RecordsAgree
  BY DEF Init, RecordsAgree, NoParty
<1> QED
  BY <1>2, <1>3, <1>4, <1>5 DEF IInv

LEMMA FoundInvariant ==
  ASSUME IInv, NEW p \in Slots, NEW name \in Names, Found(p, name)
  PROVE  IInv'
<1>1. PICK t \in Addresses, id \in NewTeamID : New(t, name, id) /\ SetTeam(p, t)
  BY DEF Found
<1>2. /\ p \in Here /\ m_pTeam[p] = NoTeam /\ Named(name) = {} /\ intact' = intact \ {p}
      /\ UNCHANGED <<stage, m_pJoinTeam, saved, was, refused>>
  BY DEF Found
<1>3. id \in IDs /\ WithID(id) = {}
  BY DEF NewTeamID
<1>4. TypeOK /\ MembersAgree /\ DistinctParties /\ MembersAreHere /\ RecordsAgree
  BY DEF IInv
<1>5. /\ Teams' = Teams \cup {t} /\ t \notin Teams
      /\ party' \in [Addresses -> Parties \cup {NoParty}]
      /\ \A u \in Teams : party'[u] = party[u]
      /\ DistinctParties'
  BY <1>1, <1>2, <1>3, <1>4, NewDistinct
<1>6. /\ Listed' /\ m_pTeam'[p] = t
      /\ \A q \in Slots \ {p} : m_pTeam'[q] = m_pTeam[q]
  BY <1>1, <1>2, <1>4, ListedInvariant, SetTeamMembers
<1>7. MembersAgree'
  <2>1. \A q \in Slots : m_pTeam'[q] \in Teams' \cup {NoTeam}
    BY <1>4, <1>5, <1>6 DEF MembersAgree
  <2> QED
    BY <1>6, <2>1 DEF Listed, Distinct, MembersAgree
<1>8. TypeOK'
  BY <1>2, <1>4, <1>5, <1>6 DEF TypeOK, Listed, Here
<1>9. MembersAreHere' /\ RecordsAgree'
  BY <1>2, <1>4, <1>6 DEF MembersAreHere, RecordsAgree, Here
<1>10. RestoredToHisParty'
  <2>1. \A q \in intact' : was'[q] = was[q] /\ m_pTeam'[q] = m_pTeam[q]
    BY <1>2, <1>4, <1>6 DEF TypeOK, Here
  <2>2. \A u \in Teams : party'[u] = party[u]
    BY <1>5
  <2> QED
    BY <1>2, <2>1, <2>2, StillRestored
<1> QED
  BY <1>5, <1>7, <1>8, <1>9, <1>10 DEF IInv

LEMMA AskInvariant ==
  ASSUME IInv, NEW p \in Slots, NEW name \in Names, Ask(p, name)
  PROVE  IInv'
<1>1. PICK t \in Named(name) :
        /\ MemberList' = [MemberList EXCEPT ![t] = Validated(@)]
        /\ m_pJoinTeam' = [m_pJoinTeam EXCEPT ![p] = t]
  BY DEF Ask
<1>2. UNCHANGED <<stage, m_pTeam, saved, Teams, party, was, intact, refused>>
  BY DEF Ask
<1>3. TypeOK /\ MembersAgree /\ DistinctParties /\ MembersAreHere /\ RecordsAgree
      /\ RestoredToHisParty /\ Listed
  BY ListedInvariant DEF IInv
<1>4. t \in Addresses
  BY <1>3 DEF TypeOK, Named
<1>5. MemberList' = MemberList
  <2>1. Validated(MemberList[t]) = MemberList[t]
    BY <1>3, <1>4, ValidatedSame DEF Listed
  <2> QED
    BY <1>1, <1>3, <1>4, <2>1 DEF Listed
<1>6. TypeOK'
  BY <1>1, <1>2, <1>3, <1>4, <1>5 DEF TypeOK, Here
<1>7. MembersAgree' /\ DistinctParties' /\ MembersAreHere' /\ RecordsAgree'
  BY <1>2, <1>3, <1>5 DEF MembersAgree, DistinctParties, MembersAreHere, RecordsAgree, Here
<1>8. RestoredToHisParty'
  BY <1>2, <1>3 DEF RestoredToHisParty, PartyOf
<1> QED
  BY <1>6, <1>7, <1>8 DEF IInv

(* SetTeam on a party that exists, or on none, and nothing else of teams.  *)
LEMMA MoveInvariant ==
  ASSUME IInv, NEW p \in Here, NEW t \in Teams \cup {NoTeam}, SetTeam(p, t),
         UNCHANGED <<Teams, party>>
  PROVE  /\ Listed' /\ MembersAgree' /\ DistinctParties'
         /\ m_pTeam'[p] = t
         /\ \A q \in Slots \ {p} : m_pTeam'[q] = m_pTeam[q]
<1>1. TypeOK /\ MembersAgree /\ DistinctParties /\ MembersAreHere /\ Listed
  BY ListedInvariant DEF IInv
<1>2. t \in Addresses \cup {NoTeam}
  BY <1>1 DEF TypeOK
<1>3. /\ Listed' /\ m_pTeam'[p] = t
      /\ \A q \in Slots \ {p} : m_pTeam'[q] = m_pTeam[q]
  BY <1>1, <1>2, SetTeamMembers
<1>4. MembersAgree'
  <2>1. \A q \in Slots : m_pTeam'[q] \in Teams' \cup {NoTeam}
    BY <1>1, <1>3 DEF MembersAgree
  <2> QED
    BY <1>3, <2>1 DEF Listed, Distinct, MembersAgree
<1>5. DistinctParties'
  BY <1>1 DEF DistinctParties
<1> QED
  BY <1>3, <1>4, <1>5

LEMMA LeavePartyInvariant ==
  ASSUME IInv, NEW p \in Slots, LeaveParty(p)
  PROVE  IInv'
<1>1. /\ p \in Here /\ SetTeam(p, NoTeam) /\ intact' = intact \ {p}
      /\ UNCHANGED <<stage, m_pJoinTeam, saved, Teams, party, was, refused>>
  BY DEF LeaveParty
<1>2. TypeOK /\ MembersAreHere /\ RecordsAgree
  BY DEF IInv
<1>3. /\ Listed' /\ MembersAgree' /\ DistinctParties' /\ m_pTeam'[p] = NoTeam
      /\ \A q \in Slots \ {p} : m_pTeam'[q] = m_pTeam[q]
  BY <1>1, MoveInvariant
<1>4. TypeOK'
  BY <1>1, <1>2, <1>3 DEF TypeOK, Listed, Here
<1>5. MembersAreHere' /\ RecordsAgree'
  BY <1>1, <1>2, <1>3 DEF MembersAreHere, RecordsAgree, Here
<1>6. RestoredToHisParty'
  <2>1. \A q \in intact' : was'[q] = was[q] /\ m_pTeam'[q] = m_pTeam[q]
    BY <1>1, <1>2, <1>3 DEF TypeOK, Here
  <2> QED
    BY <1>1, <2>1, StillRestored
<1> QED
  BY <1>3, <1>4, <1>5, <1>6 DEF IInv

LEMMA AcceptInvariant ==
  ASSUME IInv, NEW p \in Slots, Accept(p)
  PROVE  IInv'
<1> DEFINE t == m_pTeam[p]
<1>1. PICK q \in Waiting(t) :
        /\ SetTeam(q, t)
        /\ m_pJoinTeam' = [m_pJoinTeam EXCEPT ![q] = NoTeam]
        /\ intact' = intact \ {q}
  BY DEF Accept
<1>2. UNCHANGED <<stage, saved, Teams, party, was, refused>>
  BY DEF Accept
<1>3. TypeOK /\ MembersAreHere /\ RecordsAgree
  BY DEF IInv
<1>4. q \in Here /\ q \in Slots /\ t \in Teams \cup {NoTeam}
  BY DEF IInv, MembersAgree, Waiting, Here
<1>5. /\ Listed' /\ MembersAgree' /\ DistinctParties'
      /\ \A r \in Slots \ {q} : m_pTeam'[r] = m_pTeam[r]
  BY <1>1, <1>2, <1>4, MoveInvariant
<1> HIDE DEF t
<1>6. TypeOK'
  BY <1>1, <1>2, <1>3, <1>5 DEF TypeOK, Listed, Here
<1>7. MembersAreHere' /\ RecordsAgree'
  BY <1>2, <1>3, <1>4, <1>5 DEF MembersAreHere, RecordsAgree, Here
<1>8. RestoredToHisParty'
  <2>1. \A r \in intact' : was'[r] = was[r] /\ m_pTeam'[r] = m_pTeam[r]
    BY <1>1, <1>2, <1>3, <1>5 DEF TypeOK, Here
  <2> QED
    BY <1>1, <1>2, <2>1, StillRestored
<1> QED
  BY <1>5, <1>6, <1>7, <1>8 DEF IInv

LEMMA PutInInvariant ==
  ASSUME IInv, NEW p \in Slots, ClientPutInServer(p)
  PROVE  IInv'
<1>1. /\ stage' = [stage EXCEPT ![p] = "spectator"]
      /\ UNCHANGED <<m_pTeam, m_pJoinTeam, saved, Teams, party, MemberList>>
      /\ UNCHANGED <<was, intact, refused>>
  BY DEF ClientPutInServer, teamVars, history
<1>2. TypeOK /\ MembersAreHere
  BY DEF IInv
<1>3. Here \subseteq Here'
  BY <1>1, <1>2 DEF TypeOK, Here
<1>4. TypeOK'
  BY <1>1, <1>2, <1>3 DEF TypeOK, Stages
<1>5. MembersAreHere'
  BY <1>1, <1>2, <1>3 DEF MembersAreHere
<1>6. MembersAgree' /\ DistinctParties' /\ RecordsAgree' /\ RestoredToHisParty'
  BY <1>1 DEF IInv, MembersAgree, DistinctParties, RecordsAgree, RestoredToHisParty, PartyOf
<1> QED
  BY <1>4, <1>5, <1>6 DEF IInv

LEMMA PartyOfType ==
  ASSUME TypeOK, NEW p \in Slots
  PROVE  PartyOf(p) \in Parties \cup {NoParty} /\ PartyOf(p).id \in IDs \cup {NoID}
<1>1. PartyOf(p) \in Parties \cup {NoParty}
  BY DEF TypeOK, PartyOf
<1> QED
  BY <1>1 DEF Parties, NoParty

LEMMA RecordType ==
  ASSUME TypeOK, NEW p \in Slots
  PROVE  Record(p) \in Parties \cup {NoParty} /\ Record(p).id = PartyOf(p).id
<1> DEFINE P == PartyOf(p)
<1>1. P \in Parties \cup {NoParty}
  BY PartyOfType
<1>2. Record(p) = IF P = NoParty THEN NoParty ELSE [name |-> SavedName[P.name], id |-> P.id]
  BY DEF Record
<1> HIDE DEF P
<1>3. CASE P = NoParty
  <2>1. Record(p) = NoParty
    BY <1>2, <1>3
  <2> QED
    BY <1>3, <2>1 DEF P
<1>4. CASE P # NoParty
  <2>1. P.name \in Names /\ P.id \in IDs
    BY <1>1, <1>4 DEF Parties
  <2>2. SavedName[P.name] \in Names
    BY <2>1, NamesAssumption
  <2>3. Record(p) \in Parties /\ Record(p).id = P.id
    BY <1>2, <1>4, <2>1, <2>2 DEF Parties
  <2> QED
    BY <2>3 DEF P
<1> QED
  BY <1>3, <1>4

(* RestoreAllServer: the party with the saved ID, a new one with it, or    *)
(* none.                                                                   *)
LEMMA RestoreMembers ==
  ASSUME IInv, NEW p \in Here, NEW name \in Names \cup {NoName}, NEW id \in IDs \cup {NoID},
         [name |-> name, id |-> id] \in Parties \cup {NoParty}, Restore(p, name, id)
  PROVE  /\ Listed' /\ MembersAgree' /\ DistinctParties'
         /\ Teams' \subseteq Addresses
         /\ party' \in [Addresses -> Parties \cup {NoParty}]
         /\ refused' \subseteq IDs /\ refused \subseteq refused'
         /\ \A q \in Slots \ {p} : m_pTeam'[q] = m_pTeam[q]
         /\ \A t \in Teams : party'[t] = party[t]
         /\ id \notin refused' => PartyOf(p)'.id = id
<1>1. TypeOK /\ MembersAgree /\ DistinctParties /\ MembersAreHere /\ Listed
  BY ListedInvariant DEF IInv
<1>2. CASE /\ name # NoName /\ WithID(id) # {}
           /\ \E t \in WithID(id) : SetTeam(p, t)
           /\ UNCHANGED <<Teams, party, refused>>
  <2>1. PICK t \in WithID(id) : SetTeam(p, t)
    BY <1>2
  <2>2. t \in Teams /\ party[t].id = id /\ t # NoTeam
    BY <1>1, AddressesAssumption DEF WithID, TypeOK
  <2>3. /\ Listed' /\ MembersAgree' /\ DistinctParties' /\ m_pTeam'[p] = t
        /\ \A q \in Slots \ {p} : m_pTeam'[q] = m_pTeam[q]
    BY <1>2, <2>1, <2>2, MoveInvariant
  <2>4. PartyOf(p)'.id = id
    BY <1>2, <2>2, <2>3 DEF PartyOf
  <2> QED
    BY <1>1, <1>2, <2>3, <2>4 DEF TypeOK
<1>3. CASE /\ name # NoName /\ WithID(id) = {} /\ Allowed(name)
           /\ \E t \in Addresses : New(t, name, id) /\ SetTeam(p, t)
           /\ UNCHANGED refused
  <2>1. PICK t \in Addresses : New(t, name, id) /\ SetTeam(p, t)
    BY <1>3
  <2>2. name \in Names /\ id \in IDs
    <3>1. [name |-> name, id |-> id] # NoParty
      BY <1>3 DEF NoParty
    <3> QED
      BY <3>1 DEF Parties
  <2>3. /\ Teams' = Teams \cup {t} /\ t \notin Teams
        /\ party' \in [Addresses -> Parties \cup {NoParty}]
        /\ party'[t] = [name |-> name, id |-> id]
        /\ \A u \in Teams : party'[u] = party[u]
        /\ DistinctParties'
    BY <1>1, <1>3, <2>1, <2>2, NewDistinct DEF Allowed
  <2>4. /\ Listed' /\ m_pTeam'[p] = t
        /\ \A q \in Slots \ {p} : m_pTeam'[q] = m_pTeam[q]
    BY <1>1, <2>1, SetTeamMembers
  <2>5. MembersAgree'
    <3>1. \A q \in Slots : m_pTeam'[q] \in Teams' \cup {NoTeam}
      BY <1>1, <2>3, <2>4 DEF MembersAgree
    <3> QED
      BY <2>4, <3>1 DEF Listed, Distinct, MembersAgree
  <2>6. PartyOf(p)'.id = id
    BY <2>1, <2>3, <2>4, AddressesAssumption DEF PartyOf
  <2> QED
    BY <1>1, <1>3, <2>3, <2>4, <2>5, <2>6 DEF TypeOK
<1>4. CASE /\ SetTeam(p, NoTeam)
           /\ refused' = refused \cup ({id} \ {NoID})
           /\ UNCHANGED <<Teams, party>>
  <2>1. /\ Listed' /\ MembersAgree' /\ DistinctParties' /\ m_pTeam'[p] = NoTeam
        /\ \A q \in Slots \ {p} : m_pTeam'[q] = m_pTeam[q]
    BY <1>4, MoveInvariant
  <2>2. PartyOf(p)'.id = NoID
    BY <2>1 DEF PartyOf, NoParty
  <2>3. id \notin refused' => id = NoID
    BY <1>4
  <2> QED
    BY <1>1, <1>4, <2>1, <2>2, <2>3 DEF TypeOK
<1> QED
  BY <1>2, <1>3, <1>4 DEF Restore

LEMMA LoadCharacterInvariant ==
  ASSUME IInv, NEW p \in Slots, LoadCharacter(p)
  PROVE  IInv'
<1> DEFINE name == saved[p].name
           id == saved[p].id
<1>1. /\ stage[p] = "spectator" /\ stage' = [stage EXCEPT ![p] = "loaded"]
      /\ Restore(p, name, id) /\ intact' = intact \cup {p}
      /\ UNCHANGED <<m_pJoinTeam, saved, was>>
  BY DEF LoadCharacter
<1>2. TypeOK /\ MembersAreHere /\ RecordsAgree
  BY DEF IInv
<1>3. p \in Here /\ Here' = Here
  BY <1>1, <1>2 DEF Here, TypeOK
<1>4. /\ name \in Names \cup {NoName} /\ id \in IDs \cup {NoID}
      /\ [name |-> name, id |-> id] \in Parties \cup {NoParty}
  <2>1. saved[p] \in Parties \cup {NoParty}
    BY <1>2 DEF TypeOK
  <2> QED
    BY <2>1 DEF Parties, NoParty
<1>5. id = was[p]
  BY <1>2 DEF RecordsAgree
<1> HIDE DEF name, id
<1>6. /\ Listed' /\ MembersAgree' /\ DistinctParties'
      /\ Teams' \subseteq Addresses
      /\ party' \in [Addresses -> Parties \cup {NoParty}]
      /\ refused' \subseteq IDs /\ refused \subseteq refused'
      /\ \A q \in Slots \ {p} : m_pTeam'[q] = m_pTeam[q]
      /\ \A t \in Teams : party'[t] = party[t]
      /\ id \notin refused' => PartyOf(p)'.id = id
  BY <1>1, <1>3, <1>4, RestoreMembers
<1>7. TypeOK'
  <2>1. stage' \in [Slots -> Stages]
    BY <1>1, <1>2 DEF TypeOK, Stages
  <2>2. intact' \subseteq Here'
    BY <1>1, <1>2, <1>3 DEF TypeOK
  <2> QED
    BY <1>1, <1>2, <1>6, <2>1, <2>2 DEF TypeOK, Listed
<1>8. MembersAreHere' /\ RecordsAgree'
  BY <1>1, <1>2, <1>3, <1>6 DEF MembersAreHere, RecordsAgree
<1>9. RestoredToHisParty'
  <2> SUFFICES ASSUME NEW q \in intact', was'[q] \notin refused'
               PROVE  PartyOf(q)'.id = was'[q]
    BY DEF RestoredToHisParty
  <2>1. CASE q = p
    BY <1>1, <1>5, <1>6, <2>1
  <2>2. CASE q # p
    <3>1. q \in intact /\ q \in Slots /\ was'[q] = was[q] /\ was[q] \notin refused
      BY <1>1, <1>2, <1>6, <2>2 DEF TypeOK, Here
    <3>2. PartyOf(q).id = was[q]
      BY <3>1 DEF IInv, RestoredToHisParty
    <3>3. m_pTeam'[q] = m_pTeam[q] /\ m_pTeam[q] \in Teams \cup {NoTeam}
      BY <1>6, <2>2, <3>1 DEF IInv, MembersAgree
    <3>4. PartyOf(q)' = PartyOf(q)
      BY <1>6, <3>3 DEF PartyOf
    <3> QED
      BY <3>1, <3>2, <3>4
  <2> QED
    BY <2>1, <2>2
<1> QED
  BY <1>6, <1>7, <1>8, <1>9 DEF IInv

LEMMA ClientDisconnectedInvariant ==
  ASSUME IInv, NEW p \in Slots, ClientDisconnected(p)
  PROVE  IInv'
<1>1. /\ p \in Here /\ SetTeam(p, NoTeam)
      /\ stage' = [stage EXCEPT ![p] = "absent"]
      /\ m_pJoinTeam' = [m_pJoinTeam EXCEPT ![p] = NoTeam]
      /\ intact' = intact \ {p}
      /\ UNCHANGED <<Teams, party, refused>>
  BY DEF ClientDisconnected
<1>2. \/ saved' = [saved EXCEPT ![p] = Record(p)] /\ was' = [was EXCEPT ![p] = PartyOf(p).id]
      \/ saved' = saved /\ was' = was
  BY DEF ClientDisconnected
<1>3. TypeOK /\ MembersAreHere /\ RecordsAgree
  BY DEF IInv
<1>4. /\ Listed' /\ MembersAgree' /\ DistinctParties' /\ m_pTeam'[p] = NoTeam
      /\ \A q \in Slots \ {p} : m_pTeam'[q] = m_pTeam[q]
  BY <1>1, MoveInvariant
<1>5. Record(p) \in Parties \cup {NoParty} /\ Record(p).id = PartyOf(p).id
  BY <1>3, RecordType
<1>6. PartyOf(p).id \in IDs \cup {NoID}
  BY <1>3, PartyOfType
<1>7. Here' = Here \ {p}
  BY <1>1, <1>3 DEF Here, TypeOK
<1>8. saved' \in [Slots -> Parties \cup {NoParty}] /\ was' \in [Slots -> IDs \cup {NoID}]
  BY <1>2, <1>3, <1>5, <1>6 DEF TypeOK
<1>9. TypeOK'
  <2>1. stage' \in [Slots -> Stages]
    BY <1>1, <1>3 DEF TypeOK, Stages
  <2>2. intact' \subseteq Here'
    BY <1>1, <1>3, <1>7 DEF TypeOK
  <2> QED
    BY <1>1, <1>3, <1>4, <1>8, <2>1, <2>2 DEF TypeOK, Listed
<1>10. MembersAreHere'
  BY <1>3, <1>4, <1>7 DEF MembersAreHere
<1>11. RecordsAgree'
  <2> SUFFICES ASSUME NEW q \in Slots PROVE saved'[q].id = was'[q]
    BY DEF RecordsAgree
  <2>1. saved[q].id = was[q]
    BY <1>3 DEF RecordsAgree
  <2>2. CASE saved' = saved /\ was' = was
    BY <2>1, <2>2
  <2>3. CASE /\ saved' = [saved EXCEPT ![p] = Record(p)]
             /\ was' = [was EXCEPT ![p] = PartyOf(p).id]
    <3>1. saved'[q] = IF q = p THEN Record(p) ELSE saved[q]
      BY <1>3, <2>3 DEF TypeOK
    <3>2. was'[q] = IF q = p THEN PartyOf(p).id ELSE was[q]
      BY <1>3, <2>3 DEF TypeOK
    <3> QED
      BY <1>5, <2>1, <3>1, <3>2
  <2> QED
    BY <1>2, <2>2, <2>3
<1>12. RestoredToHisParty'
  <2>1. \A q \in intact' : q \in Slots /\ q # p
    BY <1>1, <1>3 DEF TypeOK, Here
  <2>2. \A q \in intact' : was'[q] = was[q] /\ m_pTeam'[q] = m_pTeam[q]
    BY <1>2, <1>3, <1>4, <2>1 DEF TypeOK
  <2> QED
    BY <1>1, <2>2, StillRestored
<1> QED
  BY <1>4, <1>9, <1>10, <1>11, <1>12 DEF IInv

(* The frame deletes lists that are empty anyway.                          *)
LEMMA ThinkInvariant ==
  ASSUME IInv, Think
  PROVE  IInv' /\ MemberList' = MemberList
<1>1. /\ Teams' = Teams \ Empty
      /\ party' = [t \in Addresses |-> IF t \in Empty THEN NoParty ELSE party[t]]
      /\ MemberList' = [t \in Addresses |-> IF t \in Empty THEN <<>> ELSE MemberList[t]]
      /\ UNCHANGED <<stage, m_pTeam, m_pJoinTeam, saved, was, intact, refused>>
  BY DEF Think, Deleted, playerVars, history
<1>2. TypeOK /\ MembersAgree /\ DistinctParties /\ MembersAreHere /\ RecordsAgree
  BY DEF IInv
<1>3. MemberList' = MemberList
  BY <1>1, <1>2 DEF TypeOK, Empty
<1>4. \A p \in Slots : m_pTeam[p] \notin Empty
  <2> SUFFICES ASSUME NEW p \in Slots, m_pTeam[p] \in Empty PROVE FALSE
    OBVIOUS
  <2>1. m_pTeam[p] \in Addresses /\ MemberList[m_pTeam[p]] = <<>>
    BY <1>2 DEF Empty, TypeOK
  <2>2. p \in Elements(MemberList[m_pTeam[p]])
    BY <1>2, <2>1 DEF MembersAgree
  <2> QED
    BY <2>1, <2>2 DEF Elements
<1>5. \A t \in Teams' : party'[t] = party[t]
  BY <1>1, <1>2 DEF TypeOK
<1>6. TypeOK'
  <2>1. party' \in [Addresses -> Parties \cup {NoParty}]
    BY <1>1, <1>2 DEF TypeOK
  <2> QED
    BY <1>1, <1>2, <1>3, <2>1 DEF TypeOK, Here
<1>7. MembersAgree'
  BY <1>1, <1>2, <1>3, <1>4 DEF MembersAgree
<1>8. DistinctParties'
  BY <1>1, <1>2, <1>5 DEF DistinctParties
<1>9. MembersAreHere' /\ RecordsAgree'
  BY <1>1, <1>2 DEF MembersAreHere, RecordsAgree, Here
<1>10. RestoredToHisParty'
  <2>1. \A t \in Teams : party'[t] = party[t] \/ \A p \in Slots : m_pTeam[p] # t
    BY <1>1, <1>4, <1>5
  <2> QED
    BY <1>1, <2>1, StillRestored
<1> QED
  BY <1>3, <1>6, <1>7, <1>8, <1>9, <1>10 DEF IInv

LEMMA MSGameEndInvariant ==
  ASSUME IInv, MSGameEnd
  PROVE  IInv'
<1>1. /\ saved' = [p \in Slots |-> IF stage[p] = "loaded" THEN Record(p) ELSE saved[p]]
      /\ was' = [p \in Slots |-> IF stage[p] = "loaded" THEN PartyOf(p).id ELSE was[p]]
      /\ Teams' = {}
      /\ party' = [t \in Addresses |-> IF t \in Teams THEN NoParty ELSE party[t]]
      /\ MemberList' = [t \in Addresses |-> IF t \in Teams THEN <<>> ELSE MemberList[t]]
      /\ stage' = [p \in Slots |-> "absent"]
      /\ m_pTeam' = [p \in Slots |-> NoTeam]
      /\ m_pJoinTeam' = [p \in Slots |-> NoTeam]
      /\ intact' = {} /\ refused' = {}
  BY DEF MSGameEnd, Deleted, SavedAtEnd
<1>2. TypeOK /\ MembersAgree /\ RecordsAgree
  BY DEF IInv
<1>3. \A p \in Slots : /\ Record(p) \in Parties \cup {NoParty}
                       /\ Record(p).id = PartyOf(p).id
                       /\ PartyOf(p).id \in IDs \cup {NoID}
  BY <1>2, RecordType, PartyOfType
<1>4. saved' \in [Slots -> Parties \cup {NoParty}] /\ was' \in [Slots -> IDs \cup {NoID}]
  <2>1. \A p \in Slots : saved'[p] \in Parties \cup {NoParty} /\ was'[p] \in IDs \cup {NoID}
    BY <1>1, <1>2, <1>3 DEF TypeOK
  <2> QED
    BY <1>1, <2>1
<1>5. RecordsAgree'
  <2> SUFFICES ASSUME NEW p \in Slots PROVE saved'[p].id = was'[p]
    BY DEF RecordsAgree
  <2>1. saved'[p] = IF stage[p] = "loaded" THEN Record(p) ELSE saved[p]
    BY <1>1
  <2>2. was'[p] = IF stage[p] = "loaded" THEN PartyOf(p).id ELSE was[p]
    BY <1>1
  <2> QED
    BY <1>2, <1>3, <2>1, <2>2 DEF RecordsAgree
<1>6. ASSUME NEW t \in Addresses
      PROVE  /\ MemberList'[t] \in Seq(Slots) /\ Elements(MemberList'[t]) = {}
             /\ Distinct(MemberList'[t])
  <2>1. CASE t \in Teams
    <3>1. MemberList'[t] = <<>>
      BY <1>1, <2>1
    <3> QED
      BY <3>1 DEF Elements, Distinct
  <2>2. CASE t \notin Teams
    <3>1. MemberList'[t] = MemberList[t] /\ MemberList[t] \in Seq(Slots)
      BY <1>1, <1>2, <2>2 DEF TypeOK
    <3>2. ASSUME NEW p \in Slots PROVE p \notin Elements(MemberList[t])
      <4>1. m_pTeam[p] \in Teams \cup {NoTeam} /\ t # NoTeam
        BY <1>2, AddressesAssumption DEF MembersAgree
      <4>2. m_pTeam[p] # t
        BY <2>2, <4>1
      <4>3. p \in Elements(MemberList[t]) => m_pTeam[p] = t
        BY <1>2 DEF MembersAgree
      <4> QED
        BY <4>2, <4>3
    <3>3. Elements(MemberList[t]) = {}
      BY <3>1, <3>2, ElementsType
    <3>4. Distinct(MemberList[t])
      BY <1>2 DEF MembersAgree, Distinct
    <3> QED
      BY <3>1, <3>3, <3>4
  <2> QED
    BY <2>1, <2>2
<1>7. TypeOK'
  <2>1. MemberList' \in [Addresses -> Seq(Slots)]
    BY <1>1, <1>6
  <2>2. party' \in [Addresses -> Parties \cup {NoParty}]
    BY <1>1, <1>2 DEF TypeOK
  <2> QED
    BY <1>1, <1>4, <2>1, <2>2 DEF TypeOK, Stages
<1>8. MembersAgree'
  <2>1. \A p \in Slots, t \in Addresses :
          m_pTeam'[p] = t <=> p \in Elements(MemberList'[t])
    BY <1>1, <1>6, AddressesAssumption
  <2> QED
    BY <1>1, <1>6, <2>1 DEF MembersAgree, Distinct
<1>9. DistinctParties' /\ MembersAreHere' /\ RestoredToHisParty'
  BY <1>1 DEF DistinctParties, MembersAreHere, RestoredToHisParty
<1> QED
  BY <1>5, <1>7, <1>8, <1>9 DEF IInv

LEMMA NextInvariant == IInv /\ [Next]_vars => IInv'
<1> SUFFICES ASSUME IInv, [Next]_vars PROVE IInv'
  OBVIOUS
<1>1. ASSUME NEW p \in Slots, NEW name \in Names, Found(p, name) PROVE IInv'
  BY <1>1, FoundInvariant
<1>2. ASSUME NEW p \in Slots, NEW name \in Names, Ask(p, name) PROVE IInv'
  BY <1>2, AskInvariant
<1>3. ASSUME NEW p \in Slots, LeaveParty(p) PROVE IInv'
  BY <1>3, LeavePartyInvariant
<1>4. ASSUME NEW p \in Slots, Accept(p) PROVE IInv'
  BY <1>4, AcceptInvariant
<1>5. ASSUME NEW p \in Slots, ClientPutInServer(p) PROVE IInv'
  BY <1>5, PutInInvariant
<1>6. ASSUME NEW p \in Slots, LoadCharacter(p) PROVE IInv'
  BY <1>6, LoadCharacterInvariant
<1>7. ASSUME NEW p \in Slots, ClientDisconnected(p) PROVE IInv'
  BY <1>7, ClientDisconnectedInvariant
<1>8. CASE Think
  BY <1>8, ThinkInvariant
<1>9. CASE MSGameEnd
  BY <1>9, MSGameEndInvariant
<1>10. CASE UNCHANGED vars
  BY <1>10 DEF vars, playerVars, teamVars, history, IInv, TypeOK, MembersAgree,
               DistinctParties, MembersAreHere, RecordsAgree, RestoredToHisParty, Here, PartyOf
<1> QED
  BY <1>1, <1>2, <1>3, <1>4, <1>5, <1>6, <1>7, <1>8, <1>9, <1>10 DEF Next

(* What founding, asking, leaving, accepting, loading and leaving the      *)
(* server keep, in any order: the inductive invariant.                     *)
THEOREM Invariance == Spec => []IInv
<1> QED
  BY InitInvariant, NextInvariant, PTL DEF Spec

(* Every variable of the parties keeps its type.                           *)
THEOREM TypeCorrect == Spec => []TypeOK
<1>1. IInv => TypeOK
  BY DEF IInv
<1> QED
  BY <1>1, Invariance, PTL

(* CBasePlayer::m_pTeam and CTeam::MemberList say the same: a player's     *)
(* party exists and has him once, and no list has anybody else, although   *)
(* AddToTeam, RemoveFromTeam and ValidateUnits each touch one side only.   *)
THEOREM MembersAlwaysAgree == Spec => []MembersAgree
<1>1. IInv => MembersAgree
  BY DEF IInv
<1> QED
  BY <1>1, Invariance, PTL

(* No two parties of a map have a name or an ID in common, whether they    *)
(* were founded or came with a character that was saved in them.           *)
THEOREM PartiesDistinct == Spec => []DistinctParties
<1>1. IInv => DistinctParties
  BY DEF IInv
<1> QED
  BY <1>1, Invariance, PTL

(* A character that RestoreAllServer loads is in the party it was saved    *)
(* with until someone changes that, unless a load has found the name of    *)
(* that party taken.                                                       *)
THEOREM Restored == Spec => []RestoredToHisParty
<1>1. IInv => RestoredToHisParty
  BY DEF IInv
<1> QED
  BY <1>1, Invariance, PTL

-----------------------------------------------------------------------------
(* The leader.                                                             *)

(* SetTeam of another player leaves the leader where he is.                *)
LEMMA OthersKeepLeader ==
  ASSUME IInv, NEW q \in Here, NEW t \in Addresses \cup {NoTeam}, SetTeam(q, t),
         NEW p \in Slots, p # q, NEW u \in Addresses, Leads(p, u)
  PROVE  Leads(p, u)'
<1>1. Listed /\ MembersAreHere
  BY ListedInvariant DEF IInv
<1>2. MemberList[u] # <<>> /\ MemberList[u][1] = p /\ u # NoTeam
  BY DEF Leads
<1>3. MemberList'[u] # <<>> /\ MemberList'[u][1] = p
  BY <1>1, <1>2, SetTeamMembers
<1> QED
  BY <1>2, <1>3 DEF Leads

LEMMA LeaderIsMember ==
  ASSUME IInv, NEW p \in Slots, NEW u \in Addresses, Leads(p, u)
  PROVE  m_pTeam[p] = u
<1>1. MemberList[u] \in Seq(Slots) /\ MemberList[u] # <<>> /\ MemberList[u][1] = p
  BY DEF IInv, TypeOK, Leads
<1>2. 1 \in DOMAIN MemberList[u]
  BY <1>1
<1>3. p \in Elements(MemberList[u])
  BY <1>1, <1>2 DEF Elements
<1> QED
  BY <1>3 DEF IInv, MembersAgree

LEMMA StepKeepsLeader ==
  ASSUME IInv, [Next]_vars, NEW t \in Teams \cap Teams', NEW p \in Slots,
         Leads(p, t), m_pTeam'[p] = t, stage'[p] = stage[p], m_pJoinTeam'[p] = m_pJoinTeam[p]
  PROVE  Leads(p, t)'
<1>1. TypeOK /\ t \in Addresses /\ t # NoTeam
  BY AddressesAssumption DEF IInv, TypeOK
<1>2. ASSUME MemberList' = MemberList PROVE Leads(p, t)'
  BY <1>2 DEF Leads
<1>3. ASSUME NEW q \in Slots, NEW name \in Names, Found(q, name) PROVE Leads(p, t)'
  <2>1. q \in Here /\ m_pTeam[q] = NoTeam /\ \E u \in Addresses : SetTeam(q, u)
    BY <1>3 DEF Found
  <2>2. p # q
    BY <1>1, <2>1, LeaderIsMember
  <2> QED
    BY <1>1, <2>1, <2>2, OthersKeepLeader
<1>4. ASSUME NEW q \in Slots, NEW name \in Names, Ask(q, name) PROVE Leads(p, t)'
  <2>1. PICK u \in Named(name) : MemberList' = [MemberList EXCEPT ![u] = Validated(@)]
    BY <1>4 DEF Ask
  <2>2. u \in Addresses /\ MemberList \in [Addresses -> Seq(Slots)]
    BY <1>1 DEF TypeOK, Named
  <2>3. Validated(MemberList[u]) = MemberList[u]
    BY <2>2, ListedInvariant, ValidatedSame DEF IInv
  <2>4. MemberList' = MemberList
    BY <2>1, <2>2, <2>3
  <2> QED
    BY <1>2, <2>4
<1>5. ASSUME NEW q \in Slots, LeaveParty(q) PROVE Leads(p, t)'
  <2>1. q \in Here /\ SetTeam(q, NoTeam)
    BY <1>5 DEF LeaveParty
  <2>2. p # q
    BY <1>1, <2>1 DEF SetTeam, TypeOK
  <2> QED
    BY <1>1, <2>1, <2>2, OthersKeepLeader
<1>6. ASSUME NEW r \in Slots, Accept(r) PROVE Leads(p, t)'
  <2> DEFINE u == m_pTeam[r]
  <2>1. PICK q \in Waiting(u) :
          SetTeam(q, u) /\ m_pJoinTeam' = [m_pJoinTeam EXCEPT ![q] = NoTeam]
    BY <1>6 DEF Accept
  <2>2. u # NoTeam
    BY <1>6 DEF Accept, Leads
  <2>3. q \in Here /\ q \in Slots /\ m_pJoinTeam[q] = u /\ u \in Addresses
    BY <1>1, <2>2 DEF Waiting, Here, TypeOK
  <2>4. m_pJoinTeam'[q] = NoTeam
    BY <1>1, <2>1, <2>3 DEF TypeOK
  <2>5. p # q
    BY <2>2, <2>3, <2>4
  <2> HIDE DEF u
  <2> QED
    BY <1>1, <2>1, <2>3, <2>5, OthersKeepLeader
<1>7. ASSUME NEW q \in Slots, ClientPutInServer(q) PROVE Leads(p, t)'
  BY <1>2, <1>7 DEF ClientPutInServer, teamVars
<1>8. ASSUME NEW q \in Slots, LoadCharacter(q) PROVE Leads(p, t)'
  <2>1. /\ stage[q] = "spectator" /\ stage' = [stage EXCEPT ![q] = "loaded"]
        /\ \E u \in Addresses \cup {NoTeam} : SetTeam(q, u)
    BY <1>1, <1>8 DEF LoadCharacter, Restore, WithID, TypeOK
  <2>2. q \in Here /\ p # q
    BY <1>1, <2>1 DEF Here, TypeOK
  <2> QED
    BY <1>1, <2>1, <2>2, OthersKeepLeader
<1>9. ASSUME NEW q \in Slots, ClientDisconnected(q) PROVE Leads(p, t)'
  <2>1. q \in Here /\ SetTeam(q, NoTeam)
    BY <1>9 DEF ClientDisconnected
  <2>2. p # q
    BY <1>1, <2>1 DEF SetTeam, TypeOK
  <2> QED
    BY <1>1, <2>1, <2>2, OthersKeepLeader
<1>10. CASE Think
  BY <1>2, <1>10, ThinkInvariant
<1>11. CASE MSGameEnd
  BY <1>11 DEF MSGameEnd, Deleted
<1>12. CASE UNCHANGED vars
  BY <1>2, <1>12 DEF vars, teamVars
<1> QED
  BY <1>3, <1>4, <1>5, <1>6, <1>7, <1>8, <1>9, <1>10, <1>11, <1>12 DEF Next

(* MemberList[0] decides who may accept: he stays there while others come  *)
(* and go, as long as he neither leaves nor is put into his party again.   *)
THEOREM LeaderKept == Spec => LeaderStays
<1>1. IInv /\ [Next]_vars =>
        [\A t \in Teams \cap Teams' : \A p \in Slots :
           Leads(p, t) /\ m_pTeam'[p] = t /\ stage'[p] = stage[p]
             /\ m_pJoinTeam'[p] = m_pJoinTeam[p] => Leads(p, t)']_vars
  BY StepKeepsLeader
<1> QED
  BY <1>1, Invariance, PTL DEF Spec, LeaderStays
================================================================================
