------------------------- MODULE ServiceLoop_proofs -------------------------
(***************************************************************************)
(* For every number of asocks and descriptors, and however often asocks    *)
(* are connected: what the service has in its lists, and what users have,  *)
(* is memory that was not freed (IInv).  Of asocks that are connected once *)
(* more is true (Single): their states follow the diagram, the service     *)
(* serves each through its own socket, counters count and what is freed is *)
(* closed.                                                                 *)
(*                                                                         *)
(* The lemmas about lists, and those about the steps of Asock from AllType *)
(* to SharedCloses, say nothing of the service: ServerLoop_proofs uses     *)
(* them too.                                                               *)
(***************************************************************************)
EXTENDS ServiceLoop, SequenceTheorems, FiniteSetTheorems, WellFoundedInduction, TLAPS

(* The references that the user of an asock has: one until its destroy,    *)
(* one for the service it is just connecting to.                           *)
Users(a) == (IF UserHolds(a) THEN 1 ELSE 0) + (IF user[a] = "connecting" THEN 1 ELSE 0)

(* Memory is there as long as there are references, ...                    *)
Sound(heap) == \A a \in Asock : heap[a].life = "live" <=> heap[a].m_ref_counter > 0

(* ... and every place where an asock is known has one of its own.         *)
Covered == \A a \in Asock : con[a].m_ref_counter >= Users(a) + InLists(a)

(* The worker's index is in its list, and nobody is about to append to the *)
(* list of those to be connected when the service stops.                   *)
Places ==
    /\ pc = "new" => i > 0
    /\ pc = "drop_new" => i <= Len(m_new_connections)
    /\ pc \in {"send", "check", "drop"} => i <= Len(m_connections)
    /\ pc = "unlock" => i > 0 /\ i - 1 <= Len(m_connections)
    /\ pc = "read" => cur \in FD
    /\ pc \in {"drop_new", "drop", "exited"} => \A a \in Asock : user[a] # "connecting"

IInv == TypeOK /\ Sound(con) /\ Covered /\ Places

-----------------------------------------------------------------------------
(* Lists                                                                   *)

(* How often an asock is at finitely many places is a number, and one that *)
(* is there is counted.                                                    *)
LEMMA TimesType ==
    ASSUME NEW list, NEW places, NEW a, IsFiniteSet(places)
    PROVE  /\ Times(list, places, a) \in Nat
           /\ \A k \in places : list[k] = a => Times(list, places, a) > 0
           /\ Times(list, places, a) > 0 => \E k \in places : list[k] = a
<1> DEFINE P == {k \in places : list[k] = a}
<1>1. IsFiniteSet(P)
  BY FS_Subset
<1>2. Cardinality(P) \in Nat
  BY <1>1, FS_CardinalityType
<1>3. P # {} <=> Cardinality(P) # 0
  BY <1>1, FS_EmptySet
<1>4. Times(list, places, a) = Cardinality(P)
  BY DEF Times
<1>5. P # {} <=> \E k \in places : list[k] = a
  OBVIOUS
<1> HIDE DEF P
<1> QED
  BY <1>2, <1>3, <1>4, <1>5

(* One place fewer is one time fewer for what is there.                    *)
LEMMA TimesLess ==
    ASSUME NEW list, NEW places, NEW k \in places, NEW a, IsFiniteSet(places)
    PROVE  Times(list, places \ {k}, a)
             = Times(list, places, a) - (IF list[k] = a THEN 1 ELSE 0)
<1> DEFINE P == {n \in places : list[n] = a}
<1>1. IsFiniteSet(P)
  BY FS_Subset
<1>2. {n \in places \ {k} : list[n] = a} = P \ {k}
  OBVIOUS
<1>3. Cardinality(P \ {k}) = IF k \in P THEN Cardinality(P) - 1 ELSE Cardinality(P)
  BY <1>1, FS_RemoveElement
<1>4. Cardinality(P) \in Nat
  BY <1>1, FS_CardinalityType
<1>5. Times(list, places, a) = Cardinality(P)
  BY DEF Times
<1>6. Times(list, places \ {k}, a) = Cardinality(P \ {k})
  BY <1>2 DEF Times
<1>7. k \in P <=> list[k] = a
  OBVIOUS
<1> HIDE DEF P
<1> QED
  BY <1>3, <1>4, <1>5, <1>6, <1>7

(* The places of a list are finitely many.                                 *)
LEMMA PlacesFinite ==
    ASSUME NEW S, NEW list \in Seq(S)
    PROVE  DOMAIN list = 1 .. Len(list) /\ IsFiniteSet(1 .. Len(list)) /\ Len(list) \in Nat
BY FS_Interval

(* An append is one time more for what is appended.                        *)
LEMMA TimesAppend ==
    ASSUME NEW S, NEW list \in Seq(S), NEW b \in S, NEW a,
           NEW places \in SUBSET DOMAIN list
    PROVE  /\ Times(Append(list, b), places, a) = Times(list, places, a)
           /\ Times(Append(list, b), places \union {Len(list) + 1}, a)
                = Times(list, places, a) + (IF b = a THEN 1 ELSE 0)
<1> DEFINE more == Append(list, b)
           n == Len(list) + 1
           P == {k \in places : list[k] = a}
<1>1. places \subseteq 1 .. Len(list) /\ Len(list) \in Nat
  BY PlacesFinite
<1>2. IsFiniteSet(P)
  BY <1>1, PlacesFinite, FS_Subset
<1>3. more \in Seq(S) /\ more[n] = b /\ \A k \in 1 .. Len(list) : more[k] = list[k]
  BY AppendProperties
<1>4. {k \in places : more[k] = a} = P
  BY <1>1, <1>3
<1>5. {k \in places \union {n} : more[k] = a} = IF b = a THEN P \union {n} ELSE P
  BY <1>1, <1>3
<1>6. n \notin P
  BY <1>1
<1>7. Cardinality(P \union {n}) = Cardinality(P) + 1
  BY <1>2, <1>6, FS_AddElement
<1>8. Cardinality(P) \in Nat
  BY <1>2, FS_CardinalityType
<1>9. Times(list, places, a) = Cardinality(P) /\ Times(more, places, a) = Cardinality(P)
  BY <1>4 DEF Times
<1>10. Times(more, places \union {n}, a)
         = Cardinality(IF b = a THEN P \union {n} ELSE P)
  BY <1>5 DEF Times
<1> HIDE DEF P
<1> QED
  BY <1>7, <1>8, <1>9, <1>10

(* What RemoveAt leaves: the others, those behind one place further up.    *)
LEMMA RemoveAtProperties ==
    ASSUME NEW S, NEW s \in Seq(S), NEW k \in 1 .. Len(s)
    PROVE  /\ RemoveAt(s, k) \in Seq(S)
           /\ Len(RemoveAt(s, k)) = Len(s) - 1
           /\ \A n \in 1 .. Len(s) - 1 :
                RemoveAt(s, k)[n] = IF n < k THEN s[n] ELSE s[n + 1]
<1> DEFINE first == SubSeq(s, 1, k - 1)
           rest == SubSeq(s, k + 1, Len(s))
<1>1. Len(s) \in Nat /\ k \in Nat /\ \A n \in 1 .. Len(s) : s[n] \in S
  BY ElementOfSeq
<1>2. /\ first \in Seq(S) /\ Len(first) = k - 1
      /\ \A n \in 1 .. k - 1 : first[n] = s[n]
  <2>1. 1 \in 1 .. Len(s) + 1 /\ k - 1 \in 0 .. Len(s)
    BY <1>1
  <2>2. \A n \in 1 .. k - 1 : s[n] \in S
    BY <1>1
  <2> QED
    BY <1>1, <2>1, <2>2, SubSeqProperties
<1>3. /\ rest \in Seq(S) /\ Len(rest) = Len(s) - k
      /\ \A n \in 1 .. Len(s) - k : rest[n] = s[k + n]
  <2>1. k + 1 \in 1 .. Len(s) + 1 /\ Len(s) \in k .. Len(s)
    BY <1>1
  <2>2. \A n \in 1 .. Len(s) - (k + 1) + 1 : rest[n] = s[k + 1 + n - 1]
    BY <1>1, <2>1, SubSeqProperties
  <2>3. rest \in Seq(S) /\ Len(rest) = Len(s) - k
    BY <1>1, <2>1, SubSeqProperties
  <2>4. ASSUME NEW n \in 1 .. Len(s) - k
        PROVE  rest[n] = s[k + n]
    <3>1. n \in 1 .. Len(s) - (k + 1) + 1 /\ k + 1 + n - 1 = k + n
      BY <1>1
    <3> HIDE DEF rest
    <3> QED
      BY <2>2, <3>1
  <2> QED
    BY <2>3, <2>4
<1> HIDE DEF first, rest
<1>4. /\ first \o rest \in Seq(S)
      /\ Len(first \o rest) = Len(s) - 1
      /\ \A n \in 1 .. Len(s) - 1 :
            (first \o rest)[n] = IF n < k THEN first[n] ELSE rest[n - (k - 1)]
  BY <1>1, <1>2, <1>3, ConcatProperties
<1>5. ASSUME NEW n \in 1 .. Len(s) - 1
      PROVE  (first \o rest)[n] = IF n < k THEN s[n] ELSE s[n + 1]
  <2>1. CASE n < k
    BY <1>1, <1>2, <1>4, <2>1
  <2>2. CASE ~(n < k)
    <3>1. n - (k - 1) \in 1 .. Len(s) - k /\ k + (n - (k - 1)) = n + 1
      BY <1>1, <2>2
    <3> QED
      BY <1>3, <1>4, <2>2, <3>1
  <2> QED
    BY <2>1, <2>2
<1>6. RemoveAt(s, k) = first \o rest
  BY DEF RemoveAt, first, rest
<1> QED
  BY <1>4, <1>5, <1>6

(* A removal is one time fewer for what is removed.                        *)
LEMMA TimesRemoveAt ==
    ASSUME NEW S, NEW s \in Seq(S), NEW k \in DOMAIN s, NEW a
    PROVE  Times(RemoveAt(s, k), DOMAIN RemoveAt(s, k), a)
             = Times(s, DOMAIN s, a) - (IF s[k] = a THEN 1 ELSE 0)
<1> DEFINE r == RemoveAt(s, k)
           P == {n \in DOMAIN s \ {k} : s[n] = a}
           R == {n \in DOMAIN r : r[n] = a}
           f == [n \in R |-> IF n < k THEN n ELSE n + 1]
<1>1. DOMAIN s = 1 .. Len(s) /\ IsFiniteSet(DOMAIN s) /\ Len(s) \in Nat
  BY PlacesFinite
<1>2. /\ DOMAIN r = 1 .. Len(s) - 1
      /\ \A n \in 1 .. Len(s) - 1 : r[n] = IF n < k THEN s[n] ELSE s[n + 1]
  BY <1>1, RemoveAtProperties
<1>3. f \in Bijection(R, P)
  <2>1. f \in [R -> P]
    BY <1>1, <1>2
  <2>2. \A m, n \in R : f[m] = f[n] => m = n
    BY <1>1, <1>2
  <2>3. \A p \in P : \E n \in R : f[n] = p
    <3>1. ASSUME NEW p \in P, p < k
          PROVE  p \in R /\ f[p] = p
      BY <1>1, <1>2, <3>1
    <3>2. ASSUME NEW p \in P, ~(p < k)
          PROVE  p - 1 \in R /\ f[p - 1] = p
      <4>1. p - 1 \in 1 .. Len(s) - 1 /\ ~(p - 1 < k) /\ p - 1 + 1 = p
        BY <1>1, <3>2
      <4>2. p - 1 \in R
        BY <1>2, <4>1
      <4> QED
        BY <4>1, <4>2
    <3> QED
      BY <3>1, <3>2
  <2> QED
    BY <2>1, <2>2, <2>3 DEF Bijection, Injection, Surjection, IsInjective
<1>4. IsFiniteSet(R)
  <2>1. IsFiniteSet(DOMAIN r)
    BY <1>1, <1>2, FS_Interval
  <2> QED
    BY <2>1, FS_Subset
<1>5. ExistsBijection(R, P)
  BY <1>3 DEF ExistsBijection
<1>6. Cardinality(R) = Cardinality(P)
  BY <1>4, <1>5, FS_Bijection
<1>7. Times(r, DOMAIN r, a) = Times(s, DOMAIN s \ {k}, a)
  BY <1>6 DEF Times
<1>8. Times(s, DOMAIN s \ {k}, a)
        = Times(s, DOMAIN s, a) - (IF s[k] = a THEN 1 ELSE 0)
  BY <1>1, TimesLess
<1> QED
  BY <1>7, <1>8

(* A set of natural numbers that is not empty has a least member.          *)
LEMMA MinProperties ==
    ASSUME NEW I \in SUBSET Nat, I # {}
    PROVE  Min(I) \in I /\ \A n \in I : Min(I) <= n
<1>1. \E m \in I : \A n \in I : ~(<<n, m>> \in OpToRel(<, Nat))
  BY NatLessThanWellFounded, WFMin
<1>2. \A m, n \in Nat : n < m => <<n, m>> \in OpToRel(<, Nat)
  BY DEF OpToRel
<1>3. PICK m \in I : \A n \in I : ~(<<n, m>> \in OpToRel(<, Nat))
  BY <1>1
<1>4. \A n \in I : ~(n < m)
  BY <1>2, <1>3
<1>5. \A n \in I : m <= n
  BY <1>4
<1> QED
  BY <1>5 DEF Min

(* The search by number finds a connection that has it, if there is one.   *)
LEMMA IndexProperties ==
    ASSUME NEW s \in Seq(Asock), NEW sockd
    PROVE  LET k == IndexBySockDesc(s, sockd) IN
           /\ k = 0 => \A n \in DOMAIN s : con[s[n]].m_sock_desc # sockd
           /\ k # 0 => k \in DOMAIN s /\ con[s[k]].m_sock_desc = sockd
<1> DEFINE I == {n \in 1 .. Len(s) : con[s[n]].m_sock_desc = sockd}
<1>1. IndexBySockDesc(s, sockd) = IF I # {} THEN Min(I) ELSE 0
  BY DEF IndexBySockDesc, SelectInSeq
<1>2. I # {} => Min(I) \in I
  <2>1. I \in SUBSET Nat
    OBVIOUS
  <2> HIDE DEF I
  <2> QED
    BY <2>1, MinProperties
<1> QED
  BY <1>1, <1>2

(* What close_connection leaves of the other list: it may have lost one    *)
(* asock, which had the number that is closed.                             *)
Forgotten(s, sockd) == RemoveFirstMatch(s, LAMBDA b : con[b].m_sock_desc = sockd)

LEMMA ForgottenProperties ==
    ASSUME NEW s \in Seq(Asock), NEW sockd
    PROVE  \/ Forgotten(s, sockd) = s
           \/ \E k \in DOMAIN s :
                con[s[k]].m_sock_desc = sockd /\ Forgotten(s, sockd) = RemoveAt(s, k)
<1> DEFINE I == {n \in 1 .. Len(s) : con[s[n]].m_sock_desc = sockd}
<1>1. Forgotten(s, sockd) = IF I # {} THEN RemoveAt(s, Min(I)) ELSE s
  <2>1. CASE \E n \in 1 .. Len(s) : con[s[n]].m_sock_desc = sockd
    BY <2>1 DEF Forgotten, RemoveFirstMatch, SelectInSeq
  <2>2. CASE ~\E n \in 1 .. Len(s) : con[s[n]].m_sock_desc = sockd
    BY <2>2 DEF Forgotten, RemoveFirstMatch
  <2> QED
    BY <2>1, <2>2
<1>2. I # {} => Min(I) \in I
  <2>1. I \in SUBSET Nat
    OBVIOUS
  <2> HIDE DEF I
  <2> QED
    BY <2>1, MinProperties
<1>3. I # {} => Min(I) \in DOMAIN s /\ con[s[Min(I)]].m_sock_desc = sockd
  BY <1>2
<1> HIDE DEF I
<1> QED
  BY <1>1, <1>3

-----------------------------------------------------------------------------
(* Counting                                                                *)

(* The places that count are finitely many, and in the lists.              *)
LEMMA CountedPlaces ==
    ASSUME TypeOK, Places
    PROVE  /\ Kept \subseteq DOMAIN m_new_connections /\ IsFiniteSet(Kept)
           /\ Served \subseteq DOMAIN m_connections /\ IsFiniteSet(Served)
<1>1. /\ DOMAIN m_new_connections = 1 .. Len(m_new_connections)
      /\ DOMAIN m_connections = 1 .. Len(m_connections)
      /\ Len(m_new_connections) \in Nat /\ Len(m_connections) \in Nat /\ i \in Nat
  BY PlacesFinite DEF TypeOK, AsockTypeOK
<1>2. Kept \subseteq 1 .. Len(m_new_connections)
  BY <1>1 DEF Kept, Remaining, Places
<1>3. Served \subseteq 1 .. Len(m_connections)
  BY <1>1 DEF Served, Remaining, Places
<1>4. IsFiniteSet(1 .. Len(m_new_connections)) /\ IsFiniteSet(1 .. Len(m_connections))
  BY <1>1, FS_Interval
<1>5. IsFiniteSet(Kept) /\ IsFiniteSet(Served)
  BY <1>2, <1>3, <1>4, FS_Subset
<1> QED
  BY <1>1, <1>2, <1>3, <1>5

(* An asock has no fewer than no times in the lists, and more if it is     *)
(* there.                                                                  *)
LEMMA InListsType ==
    ASSUME TypeOK, Places, NEW a \in Asock
    PROVE  /\ InLists(a) \in Nat
           /\ Times(m_new_connections, Kept, a) \in Nat
           /\ Times(m_connections, Served, a) \in Nat
           /\ (\E k \in Kept : m_new_connections[k] = a) => InLists(a) > 0
           /\ (\E k \in Served : m_connections[k] = a) => InLists(a) > 0
<1>1. /\ Times(m_new_connections, Kept, a) \in Nat
      /\ \A k \in Kept : m_new_connections[k] = a => Times(m_new_connections, Kept, a) > 0
  BY CountedPlaces, TimesType
<1>2. /\ Times(m_connections, Served, a) \in Nat
      /\ \A k \in Served : m_connections[k] = a => Times(m_connections, Served, a) > 0
  BY CountedPlaces, TimesType
<1> QED
  BY <1>1, <1>2 DEF InLists

(* The numbers of the invariant.                                           *)
LEMMA Numbers ==
    ASSUME IInv, NEW a \in Asock
    PROVE  /\ InLists(a) \in Nat /\ Users(a) \in Nat /\ con[a].m_ref_counter \in Nat
           /\ con[a].m_ref_counter >= Users(a) + InLists(a)
<1>1. con[a].m_ref_counter \in Nat /\ Users(a) \in Nat
  BY DEF IInv, TypeOK, AsockTypeOK, ConType, Users
<1>2. InLists(a) \in Nat
  BY InListsType DEF IInv
<1> QED
  BY <1>1, <1>2 DEF IInv, Covered

(* What is held has a reference, and is live.                              *)
LEMMA HeldFollows == IInv => HeldIsLive
<1> SUFFICES ASSUME IInv PROVE HeldIsLive
  OBVIOUS
<1> USE DEF IInv
<1>1. \A a \in Asock : con[a].m_ref_counter > 0 => con[a].life = "live"
  BY DEF Sound
<1>2. \A a \in Asock : con[a].m_ref_counter \in Nat /\ Users(a) \in Nat /\ InLists(a) \in Nat
  BY InListsType DEF TypeOK, AsockTypeOK, ConType, Users
<1>3. ASSUME NEW a \in Asock, UserHolds(a)
      PROVE  con[a].life = "live"
  <2>1. Users(a) > 0
    BY <1>3 DEF Users
  <2> QED
    BY <1>1, <1>2, <2>1 DEF Covered
<1>4. ASSUME NEW k \in Kept
      PROVE  con[m_new_connections[k]].life = "live"
  <2>1. m_new_connections[k] \in Asock
    BY CountedPlaces, ElementOfSeq, PlacesFinite DEF TypeOK, AsockTypeOK
  <2>2. InLists(m_new_connections[k]) > 0
    BY <2>1, InListsType
  <2> QED
    BY <1>1, <1>2, <2>1, <2>2 DEF Covered
<1>5. ASSUME NEW k \in Served
      PROVE  con[m_connections[k]].life = "live"
  <2>1. m_connections[k] \in Asock
    BY CountedPlaces, ElementOfSeq, PlacesFinite DEF TypeOK, AsockTypeOK
  <2>2. InLists(m_connections[k]) > 0
    BY <2>1, InListsType
  <2> QED
    BY <1>1, <1>2, <2>1, <2>2 DEF Covered
<1> QED
  BY <1>3, <1>4, <1>5 DEF HeldIsLive

(* asock_destroy_asock takes one reference from one asock, and frees it    *)
(* with the last.                                                          *)
LEMMA DroppedProperties ==
    ASSUME NEW heap \in [Asock -> ConType], NEW a \in Asock, heap[a].m_ref_counter > 0
    PROVE  /\ Dropped(heap, a) \in [Asock -> ConType]
           /\ \A b \in Asock :
                Dropped(heap, a)[b].m_ref_counter
                    = heap[b].m_ref_counter - (IF a = b THEN 1 ELSE 0)
           /\ \A b \in Asock :
                /\ Dropped(heap, a)[b].life
                      = IF a = b /\ heap[a].m_ref_counter = 1 THEN "freed" ELSE heap[b].life
                /\ Dropped(heap, a)[b].m_sock_desc = heap[b].m_sock_desc
                /\ Dropped(heap, a)[b].m_state = heap[b].m_state
                /\ Dropped(heap, a)[b].connects = heap[b].connects
           /\ Sound(heap) => Sound(Dropped(heap, a))
<1> DEFINE one == [heap[a] EXCEPT
                    !.m_disconnect = TRUE, !.m_ref_counter = @ - 1,
                    !.life = IF heap[a].m_ref_counter = 1 THEN "freed" ELSE @]
<1>1. heap[a] \in ConType /\ heap[a].m_ref_counter \in Nat
  BY DEF ConType
<1>2. one \in ConType
  <2>1. ASSUME NEW x \in ConType, NEW n \in Nat, NEW l \in {"unborn", "live", "freed"}
        PROVE  [x EXCEPT !.m_disconnect = TRUE, !.m_ref_counter = n, !.life = l] \in ConType
    BY DEF ConType
  <2>2. heap[a].m_ref_counter - 1 \in Nat
    BY <1>1
  <2>3. (IF heap[a].m_ref_counter = 1 THEN "freed" ELSE heap[a].life)
            \in {"unborn", "live", "freed"}
    BY <1>1 DEF ConType
  <2> QED
    BY <1>1, <2>1, <2>2, <2>3
<1>3. one.m_ref_counter = heap[a].m_ref_counter - 1
  BY <1>1 DEF ConType
<1>4. one.life = IF heap[a].m_ref_counter = 1 THEN "freed" ELSE heap[a].life
  BY <1>1 DEF ConType
<1>5. Dropped(heap, a) = [heap EXCEPT ![a] = one]
  BY <1>1 DEF Dropped, ConType
<1>11. /\ one.m_sock_desc = heap[a].m_sock_desc
       /\ one.m_state = heap[a].m_state
       /\ one.connects = heap[a].connects
  BY <1>1 DEF ConType
<1> HIDE DEF one
<1>6. \A b \in Asock : Dropped(heap, a)[b] = IF a = b THEN one ELSE heap[b]
  BY <1>5
<1>7. \A b \in Asock : heap[b].m_ref_counter \in Nat
  BY DEF ConType
<1>8. Dropped(heap, a) \in [Asock -> ConType]
  BY <1>2, <1>5
<1>9. \A b \in Asock :
        Dropped(heap, a)[b].m_ref_counter
            = heap[b].m_ref_counter - (IF a = b THEN 1 ELSE 0)
  BY <1>3, <1>6, <1>7
<1>10. ASSUME Sound(heap), NEW b \in Asock
       PROVE  Dropped(heap, a)[b].life = "live" <=> Dropped(heap, a)[b].m_ref_counter > 0
  <2>1. CASE a = b
    BY <1>1, <1>3, <1>4, <1>6, <1>10, <2>1 DEF Sound
  <2>2. CASE a # b
    BY <1>6, <1>10, <2>2 DEF Sound
  <2> QED
    BY <2>1, <2>2
<1>12. ASSUME NEW b \in Asock
       PROVE  /\ Dropped(heap, a)[b].life
                    = IF a = b /\ heap[a].m_ref_counter = 1 THEN "freed" ELSE heap[b].life
              /\ Dropped(heap, a)[b].m_sock_desc = heap[b].m_sock_desc
              /\ Dropped(heap, a)[b].m_state = heap[b].m_state
              /\ Dropped(heap, a)[b].connects = heap[b].connects
  BY <1>4, <1>6, <1>11
<1> QED
  BY <1>8, <1>9, <1>10, <1>12 DEF Sound

(* Closing numbers leaves a descriptor table.                              *)
LEMMA ClosedType ==
    ASSUME NEW T, NEW table \in [FD -> T \union {Free}], NEW f, NEW heap, NEW a
    PROVE  /\ ClosedFile(table, f) \in [FD -> T \union {Free}]
           /\ DroppedFiles(heap, table, a) \in [FD -> T \union {Free}]
<1>1. \A g : ClosedFile(table, g) \in [FD -> T \union {Free}]
  BY DEF ClosedFile
<1> QED
  BY <1>1 DEF DroppedFiles

(* A change of other fields than the counter and the life is none here.    *)
Alike(heap, other) ==
    \A a \in Asock :
        /\ other[a].m_ref_counter = heap[a].m_ref_counter
        /\ other[a].life = heap[a].life

LEMMA AlikeSound == ASSUME NEW heap, NEW other, Alike(heap, other), Sound(heap)
                    PROVE  Sound(other)
BY DEF Alike, Sound

(* In these stages all places count.                                       *)
LoopStage == {"directive", "send", "unlock", "check", "wait", "event", "read"}

LEMMA WholeLists ==
    ASSUME pc \in LoopStage
    PROVE  Kept = DOMAIN m_new_connections /\ Served = DOMAIN m_connections
BY DEF Kept, Served, Remaining, LoopStage

(* A change of one asock that leaves its counter and its life alone.       *)
LEMMA FieldUpdates ==
    ASSUME NEW heap \in [Asock -> ConType], NEW a \in Asock,
           NEW f \in FD \union {NoFd},
           NEW s \in {"Idle", "InProgress", "Established", "Failed"},
           NEW n \in 0 .. MaxOut
    PROVE  /\ [heap EXCEPT ![a].m_state = s] \in [Asock -> ConType]
           /\ Alike(heap, [heap EXCEPT ![a].m_state = s])
           /\ [heap EXCEPT ![a].m_disconnect = TRUE] \in [Asock -> ConType]
           /\ Alike(heap, [heap EXCEPT ![a].m_disconnect = TRUE])
           /\ [heap EXCEPT ![a].m_out_queue = n] \in [Asock -> ConType]
           /\ Alike(heap, [heap EXCEPT ![a].m_out_queue = n])
           /\ [heap EXCEPT ![a].m_sock_desc = f, ![a].m_state = s] \in [Asock -> ConType]
           /\ Alike(heap, [heap EXCEPT ![a].m_sock_desc = f, ![a].m_state = s])
<1>1. [heap EXCEPT ![a].m_state = s] \in [Asock -> ConType]
  BY DEF ConType
<1>2. [heap EXCEPT ![a].m_disconnect = TRUE] \in [Asock -> ConType]
  BY DEF ConType
<1>3. [heap EXCEPT ![a].m_out_queue = n] \in [Asock -> ConType]
  BY DEF ConType
<1>4. [heap EXCEPT ![a].m_sock_desc = f, ![a].m_state = s] \in [Asock -> ConType]
  <2> DEFINE moved == [heap EXCEPT ![a].m_sock_desc = f]
  <2>1. moved \in [Asock -> ConType]
    BY DEF ConType
  <2>2. [moved EXCEPT ![a].m_state = s] \in [Asock -> ConType]
    <3> HIDE DEF moved
    <3> QED
      BY <2>1 DEF ConType
  <2> QED
    BY <2>2
<1>5. /\ Alike(heap, [heap EXCEPT ![a].m_state = s])
      /\ Alike(heap, [heap EXCEPT ![a].m_disconnect = TRUE])
      /\ Alike(heap, [heap EXCEPT ![a].m_out_queue = n])
  BY DEF ConType, Alike
<1>6. Alike(heap, [heap EXCEPT ![a].m_sock_desc = f, ![a].m_state = s])
  BY DEF ConType, Alike
<1> QED
  BY <1>1, <1>2, <1>3, <1>4, <1>5, <1>6

(* How often an asock is in a list.                                        *)
All(list, a) == Times(list, DOMAIN list, a)

LEMMA AllType ==
    ASSUME NEW list \in Seq(Asock), NEW a
    PROVE  /\ All(list, a) \in Nat
           /\ \A k \in DOMAIN list : list[k] = a => All(list, a) > 0
           /\ All(list, a) > 0 => \E k \in DOMAIN list : list[k] = a
<1>1. IsFiniteSet(DOMAIN list)
  BY PlacesFinite
<1> QED
  BY <1>1, TimesType DEF All

(* A close of asock a takes it from the connections, once, with one        *)
(* reference and the number it has.                                        *)
Closes(a) ==
    /\ files' = ClosedFile(files, con[a].m_sock_desc)
    /\ Len(m_connections') = Len(m_connections) - 1
    /\ All(m_connections, a) > 0
    /\ \A b \in Asock :
        /\ All(m_connections', b) = All(m_connections, b) - (IF a = b THEN 1 ELSE 0)
        /\ con'[b].m_ref_counter = con[b].m_ref_counter - (IF a = b THEN 1 ELSE 0)
        /\ con'[b].life
              = IF a = b /\ con[b].m_ref_counter = 1 THEN "freed" ELSE con[b].life
        /\ con'[b].m_state = IF a = b THEN "Failed" ELSE con[b].m_state
        /\ con'[b].m_sock_desc = con[b].m_sock_desc
        /\ con'[b].connects = con[b].connects

(* close_connection finds no connection and closes nothing, or closes one  *)
(* that has the number.  From the other list it takes nothing, or once     *)
(* what has the number.                                                    *)
LEMMA CloseEffect ==
    ASSUME con \in [Asock -> ConType], NEW T, files \in [FD -> T \union {Free}],
           m_connections \in Seq(Asock), m_new_connections \in Seq(Asock),
           \A a \in Asock : All(m_connections, a) > 0 => con[a].m_ref_counter > 0,
           NEW sockd, CloseConnection(sockd)
    PROVE  /\ con' \in [Asock -> ConType]
           /\ files' \in [FD -> T \union {Free}]
           /\ m_connections' \in Seq(Asock)
           /\ m_new_connections' \in Seq(Asock)
           /\ Sound(con) => Sound(con')
           /\ \A b \in Asock :
                /\ All(m_new_connections', b) \in Nat
                /\ \/ All(m_new_connections', b) = All(m_new_connections, b)
                   \/ /\ con[b].m_sock_desc = sockd
                      /\ All(m_new_connections', b) = All(m_new_connections, b) - 1
           /\ \/ /\ UNCHANGED <<con, files, m_connections>>
                 /\ \A b \in Asock : con[b].m_sock_desc = sockd => All(m_connections, b) = 0
              \/ \E a \in Asock : con[a].m_sock_desc = sockd /\ Closes(a)
<1> DEFINE k == IndexBySockDesc(m_connections, sockd)
           a == m_connections[k]
           failed == [con EXCEPT ![a].m_state = "Failed"]
<1>1. m_new_connections' = Forgotten(m_new_connections, sockd)
  BY DEF CloseConnection, Forgotten
<1>2. /\ m_new_connections' \in Seq(Asock)
      /\ \A b \in Asock :
            \/ All(m_new_connections', b) = All(m_new_connections, b)
            \/ /\ con[b].m_sock_desc = sockd
               /\ All(m_new_connections', b) = All(m_new_connections, b) - 1
  <2>1. CASE Forgotten(m_new_connections, sockd) = m_new_connections
    BY <1>1, <2>1
  <2>2. ASSUME NEW n \in DOMAIN m_new_connections,
               con[m_new_connections[n]].m_sock_desc = sockd,
               Forgotten(m_new_connections, sockd) = RemoveAt(m_new_connections, n)
        PROVE  /\ m_new_connections' \in Seq(Asock)
               /\ \A b \in Asock :
                    \/ All(m_new_connections', b) = All(m_new_connections, b)
                    \/ /\ con[b].m_sock_desc = sockd
                       /\ All(m_new_connections', b) = All(m_new_connections, b) - 1
    <3>1. m_new_connections' \in Seq(Asock)
      BY <1>1, <2>2, PlacesFinite, RemoveAtProperties
    <3>2. \A b \in Asock :
            All(m_new_connections', b)
                = All(m_new_connections, b) - (IF m_new_connections[n] = b THEN 1 ELSE 0)
      BY <1>1, <2>2, TimesRemoveAt DEF All
    <3>3. \A b \in Asock : All(m_new_connections, b) \in Nat
      BY AllType
    <3> QED
      BY <2>2, <3>1, <3>2, <3>3
  <2> QED
    BY <2>1, <2>2, ForgottenProperties
<1>3. \A b \in Asock : All(m_new_connections', b) \in Nat
  BY <1>2, AllType
<1>4. CASE k = 0
  <2>1. UNCHANGED <<con, files, m_connections>>
    BY <1>4 DEF CloseConnection
  <2>2. \A n \in DOMAIN m_connections : con[m_connections[n]].m_sock_desc # sockd
    BY <1>4, IndexProperties
  <2>3. ASSUME NEW b \in Asock, con[b].m_sock_desc = sockd
        PROVE  All(m_connections, b) = 0
    <3>1. {n \in DOMAIN m_connections : m_connections[n] = b} = {}
      BY <2>2, <2>3
    <3> QED
      BY <3>1, FS_EmptySet DEF All, Times
  <2> QED
    BY <1>2, <1>3, <2>1, <2>3
<1>5. CASE k # 0
  <2>1. /\ con' = Dropped(failed, a)
        /\ files' = DroppedFiles(failed, ClosedFile(files, sockd), a)
        /\ m_connections' = RemoveAt(m_connections, k)
    BY <1>5 DEF CloseConnection
  <2>2. k \in DOMAIN m_connections /\ a \in Asock /\ con[a].m_sock_desc = sockd
    BY <1>5, IndexProperties, ElementOfSeq, PlacesFinite
  <2>3. /\ failed \in [Asock -> ConType] /\ Alike(con, failed)
        /\ \A b \in Asock :
              /\ failed[b].m_state = IF a = b THEN "Failed" ELSE con[b].m_state
              /\ failed[b].m_sock_desc = con[b].m_sock_desc
              /\ failed[b].connects = con[b].connects
    <3>1. NoFd \in FD \union {NoFd} /\ 0 \in 0 .. MaxOut
          /\ "Failed" \in {"Idle", "InProgress", "Established", "Failed"}
      BY AsockAssumption
    <3>2. failed \in [Asock -> ConType] /\ Alike(con, failed)
      BY <2>2, <3>1, FieldUpdates
    <3>3. \A b \in Asock :
              /\ failed[b].m_state = IF a = b THEN "Failed" ELSE con[b].m_state
              /\ failed[b].m_sock_desc = con[b].m_sock_desc
              /\ failed[b].connects = con[b].connects
      <4> HIDE DEF a
      <4> QED
        BY <2>2 DEF ConType
    <3> QED
      BY <3>2, <3>3
  <2>4. All(m_connections, a) > 0
    BY <2>2, AllType
  <2>5. failed[a].m_ref_counter > 0
    BY <2>2, <2>3, <2>4 DEF Alike
  <2>6. files' = ClosedFile(files, con[a].m_sock_desc)
    <3>1. failed[a].m_sock_desc = sockd
      BY <2>2, <2>3
    <3> HIDE DEF failed, a
    <3>2. ClosedFile(ClosedFile(files, sockd), sockd) = ClosedFile(files, sockd)
      BY DEF ClosedFile
    <3> QED
      BY <2>1, <2>2, <3>1, <3>2 DEF DroppedFiles
  <2>7. files' \in [FD -> T \union {Free}]
    <3>1. ASSUME NEW f PROVE ClosedFile(files, f) \in [FD -> T \union {Free}]
      BY DEF ClosedFile
    <3> QED
      BY <2>6, <3>1
  <2>8. /\ m_connections' \in Seq(Asock)
        /\ Len(m_connections') = Len(m_connections) - 1
    BY <2>1, <2>2, PlacesFinite, RemoveAtProperties
  <2>9. \A b \in Asock :
            All(m_connections', b) = All(m_connections, b) - (IF a = b THEN 1 ELSE 0)
    BY <2>1, <2>2, TimesRemoveAt DEF All
  <2> HIDE DEF failed, a, k
  <2>10. Sound(con) => Sound(failed)
    BY <2>3, AlikeSound
  <2>11. /\ con' \in [Asock -> ConType]
         /\ Sound(con) => Sound(con')
         /\ \A b \in Asock :
              con'[b].m_ref_counter = failed[b].m_ref_counter - (IF a = b THEN 1 ELSE 0)
         /\ \A b \in Asock :
              /\ con'[b].life
                    = IF a = b /\ failed[a].m_ref_counter = 1 THEN "freed" ELSE failed[b].life
              /\ con'[b].m_sock_desc = failed[b].m_sock_desc
              /\ con'[b].m_state = failed[b].m_state
              /\ con'[b].connects = failed[b].connects
    BY <2>1, <2>2, <2>3, <2>5, <2>10, DroppedProperties
  <2>12. Closes(a)
    BY <2>3, <2>4, <2>6, <2>8, <2>9, <2>11 DEF Closes, Alike
  <2>13. \E b \in Asock : con[b].m_sock_desc = sockd /\ Closes(b)
    BY <2>2, <2>12
  <2> QED
    BY <1>2, <1>3, <2>7, <2>8, <2>11, <2>13
<1> QED
  BY <1>4, <1>5

(* The worker's index is in the list it goes through.                      *)
Indexed ==
    /\ pc \in {"send", "check", "drop"} => i <= Len(m_connections)
    /\ pc = "unlock" => i > 0 /\ i - 1 <= Len(m_connections)
    /\ pc = "read" => cur \in FD

(* Nothing that is counted, linked or shown of an asock changes.           *)
Quiet(heap, other) ==
    \A a \in Asock :
        /\ other[a].m_ref_counter = heap[a].m_ref_counter
        /\ other[a].life = heap[a].life
        /\ other[a].m_sock_desc = heap[a].m_sock_desc
        /\ other[a].m_state = heap[a].m_state
        /\ other[a].connects = heap[a].connects

LEMMA QuietAlike == ASSUME NEW heap, NEW other, Quiet(heap, other) PROVE Alike(heap, other)
BY DEF Quiet, Alike

(* Two fields that no count and no search depends on.                      *)
LEMMA QuietUpdates ==
    ASSUME NEW heap \in [Asock -> ConType], NEW a \in Asock, NEW n \in 0 .. MaxOut
    PROVE  /\ [heap EXCEPT ![a].m_disconnect = TRUE] \in [Asock -> ConType]
           /\ Quiet(heap, [heap EXCEPT ![a].m_disconnect = TRUE])
           /\ [heap EXCEPT ![a].m_out_queue = n] \in [Asock -> ConType]
           /\ Quiet(heap, [heap EXCEPT ![a].m_out_queue = n])
<1>1. [heap EXCEPT ![a].m_disconnect = TRUE] \in [Asock -> ConType]
  BY DEF ConType
<1>2. [heap EXCEPT ![a].m_out_queue = n] \in [Asock -> ConType]
  BY DEF ConType
<1>3. Quiet(heap, [heap EXCEPT ![a].m_disconnect = TRUE])
  BY DEF ConType, Quiet
<1>4. Quiet(heap, [heap EXCEPT ![a].m_out_queue = n])
  BY DEF ConType, Quiet
<1> QED
  BY <1>1, <1>2, <1>3, <1>4

(* The steps that send, receive and wait: nothing changes hands.           *)
LEMMA SharedQuiet ==
    ASSUME NEW T, AsockTypeOK(T), Indexed,
           pc = "read" /\ files[cur] # Free => files[cur] \in Socket,
           \/ SendNothing \/ SendSome \/ HeadUnlock \/ SendDone \/ CheckDone
           \/ \E M : EpollWait(M)
           \/ \E f \in FD : EventIn(f)
           \/ ReadSome \/ ReadAgain \/ EventsDone
    PROVE  /\ AsockTypeOK(T)' /\ Indexed' /\ Quiet(con, con')
           /\ pc \in LoopStage /\ pc' \in LoopStage
           /\ UNCHANGED <<user, files, lists>>
<1>1. /\ con \in [Asock -> ConType] /\ files \in [FD -> T \union {Free}]
      /\ m_in_queue \in [Asock -> SUBSET Socket]
      /\ m_connections \in Seq(Asock) /\ i \in Nat /\ batch \in SUBSET FD
      /\ Len(m_connections) \in Nat
  BY PlacesFinite DEF AsockTypeOK
<1>2. \A k \in 1 .. Len(m_connections) : m_connections[k] \in Asock
  BY <1>1, ElementOfSeq
<1>3. Quiet(con, con)
  BY DEF Quiet
<1>4. CASE SendNothing
  <2>1. /\ pc = "send" /\ pc' = "send" /\ i' = i - 1 /\ i > 0
        /\ UNCHANGED <<con, m_in_queue, user, files, lists, cur, batch>>
    BY <1>4 DEF SendNothing
  <2>2. AsockTypeOK(T)'
    BY <1>1, <2>1 DEF AsockTypeOK, lists
  <2>3. Indexed'
    BY <1>1, <2>1 DEF Indexed, lists
  <2> QED
    BY <1>3, <2>1, <2>2, <2>3 DEF LoopStage
<1>5. CASE SendSome
  <2> DEFINE a == m_connections[i]
  <2>1. /\ pc = "send" /\ pc' = "send" /\ i' = i - 1 /\ i > 0
        /\ UNCHANGED <<m_in_queue, user, files, lists, cur, batch>>
    BY <1>5 DEF SendSome
  <2>2. a \in Asock
    BY <1>1, <1>2, <2>1 DEF Indexed
  <2>3. PICK n \in 0 .. con[a].m_out_queue :
          con' = [con EXCEPT ![a].m_out_queue = con[a].m_out_queue - n]
    BY <1>1, <1>5, <2>2 DEF SendSome
  <2>4. con[a].m_out_queue - n \in 0 .. MaxOut
    <3> HIDE DEF a
    <3>1. con[a].m_out_queue \in 0 .. MaxOut
      BY <1>1, <2>2 DEF ConType
    <3> QED
      BY <2>3, <3>1, AsockAssumption
  <2>5. con' \in [Asock -> ConType] /\ Quiet(con, con')
    <3> HIDE DEF a
    <3> QED
      BY <1>1, <2>2, <2>3, <2>4, QuietUpdates
  <2>6. AsockTypeOK(T)'
    BY <1>1, <2>1, <2>5 DEF AsockTypeOK, lists
  <2>7. Indexed'
    BY <1>1, <2>1 DEF Indexed, lists
  <2> QED
    BY <2>1, <2>5, <2>6, <2>7 DEF LoopStage
<1>6. CASE HeadUnlock
  <2>1. /\ pc = "unlock" /\ pc' = "send" /\ i' = i - 1 /\ cur' = NoFd
        /\ UNCHANGED <<con, m_in_queue, user, files, lists, batch>>
    BY <1>6 DEF HeadUnlock, Goto
  <2>2. i > 0 /\ i - 1 <= Len(m_connections)
    BY <2>1 DEF Indexed
  <2>3. AsockTypeOK(T)'
    BY <1>1, <2>1, <2>2 DEF AsockTypeOK, lists
  <2>4. Indexed'
    BY <1>1, <2>1, <2>2 DEF Indexed, lists
  <2> QED
    BY <1>3, <2>1, <2>3, <2>4 DEF LoopStage
<1>7. CASE SendDone
  <2>1. /\ pc = "send" /\ pc' = "check" /\ i' = Len(m_connections)
        /\ UNCHANGED <<con, m_in_queue, user, files, lists, cur, batch>>
    BY <1>7 DEF SendDone, StartAt, Goto
  <2>2. AsockTypeOK(T)'
    BY <1>1, <2>1 DEF AsockTypeOK, lists
  <2>3. Indexed'
    BY <1>1, <2>1 DEF Indexed, lists
  <2> QED
    BY <1>3, <2>1, <2>2, <2>3 DEF LoopStage
<1>8. CASE CheckDone
  <2>1. /\ pc = "check" /\ pc' = "wait"
        /\ UNCHANGED <<con, m_in_queue, user, files, lists, i, cur, batch>>
    BY <1>8 DEF CheckDone, Goto
  <2>2. AsockTypeOK(T)' /\ Indexed'
    BY <2>1 DEF AsockTypeOK, Indexed, lists
  <2> QED
    BY <1>3, <2>1, <2>2 DEF LoopStage
<1>9. ASSUME NEW M, EpollWait(M)
      PROVE  /\ AsockTypeOK(T)' /\ Indexed' /\ Quiet(con, con')
             /\ pc \in LoopStage /\ pc' \in LoopStage
             /\ UNCHANGED <<user, files, lists>>
  <2>1. /\ pc = "wait" /\ pc' = "event" /\ batch' \in SUBSET FD
        /\ UNCHANGED <<con, m_in_queue, user, files, lists, i, cur>>
    BY <1>9 DEF EpollWait, Goto
  <2>2. AsockTypeOK(T)' /\ Indexed'
    BY <2>1 DEF AsockTypeOK, Indexed, lists
  <2> QED
    BY <1>3, <2>1, <2>2 DEF LoopStage
<1>10. ASSUME NEW f \in FD, EventIn(f)
       PROVE  /\ AsockTypeOK(T)' /\ Indexed' /\ Quiet(con, con')
              /\ pc \in LoopStage /\ pc' \in LoopStage
              /\ UNCHANGED <<user, files, lists>>
  <2>1. /\ pc = "event" /\ pc' = "read" /\ cur' = f /\ batch' = batch \ {f}
        /\ UNCHANGED <<con, m_in_queue, user, files, lists, i>>
    BY <1>10 DEF EventIn, Goto
  <2>2. AsockTypeOK(T)' /\ Indexed'
    BY <1>1, <2>1 DEF AsockTypeOK, Indexed, lists
  <2> QED
    BY <1>3, <2>1, <2>2 DEF LoopStage
<1>11. CASE ReadSome
  <2>1. /\ pc = "read" /\ pc' = "read" /\ cur \in FD
        /\ UNCHANGED <<con, user, files, lists, i, cur, batch>>
    BY <1>11 DEF ReadSome, Indexed
  <2>2. files[cur] \in Socket
    BY <1>11 DEF ReadSome
  <2>3. m_in_queue' \in [Asock -> SUBSET Socket]
    <3>1. CASE UNCHANGED m_in_queue
      BY <1>1, <3>1
    <3>2. ASSUME NEW k, m_in_queue' = [m_in_queue EXCEPT
                            ![m_connections[k]] = @ \union {files[cur]}]
          PROVE  m_in_queue' \in [Asock -> SUBSET Socket]
      BY <1>1, <2>2, <3>2
    <3> QED
      BY <1>11, <3>1, <3>2 DEF ReadSome
  <2>4. AsockTypeOK(T)' /\ Indexed'
    BY <2>1, <2>3 DEF AsockTypeOK, Indexed, lists
  <2> QED
    BY <1>3, <2>1, <2>4 DEF LoopStage
<1>12. CASE ReadAgain
  <2>1. /\ pc = "read" /\ pc' = "event" /\ cur' = NoFd
        /\ UNCHANGED <<con, m_in_queue, user, files, lists, i, batch>>
    BY <1>12 DEF ReadAgain, Goto
  <2>2. AsockTypeOK(T)' /\ Indexed'
    BY <2>1 DEF AsockTypeOK, Indexed, lists
  <2> QED
    BY <1>3, <2>1, <2>2 DEF LoopStage
<1>13. CASE EventsDone
  <2>1. /\ pc = "event" /\ pc' = "directive"
        /\ UNCHANGED <<con, m_in_queue, user, files, lists, i, cur, batch>>
    BY <1>13 DEF EventsDone, Goto
  <2>2. AsockTypeOK(T)' /\ Indexed'
    BY <2>1 DEF AsockTypeOK, Indexed, lists
  <2> QED
    BY <1>3, <2>1, <2>2 DEF LoopStage
<1> QED
  BY <1>4, <1>5, <1>6, <1>7, <1>8, <1>9, <1>10, <1>11, <1>12, <1>13

(* The steps that close a connection, or nothing where there is none.      *)
LEMMA SharedCloses ==
    ASSUME NEW T, AsockTypeOK(T), Indexed,
           \A a \in Asock : All(m_connections, a) > 0 => con[a].m_ref_counter > 0,
           \/ SendFails \/ CheckForClose \/ ReadEnds
           \/ \E f \in FD : EventClose(f)
    PROVE  /\ AsockTypeOK(T)' /\ Indexed'
           /\ pc \in LoopStage /\ pc' \in LoopStage
           /\ UNCHANGED user
           /\ \/ UNCHANGED <<con, files, lists>>
              \/ \E sockd : CloseConnection(sockd)
<1>1. /\ con \in [Asock -> ConType] /\ files \in [FD -> T \union {Free}]
      /\ m_connections \in Seq(Asock) /\ m_new_connections \in Seq(Asock)
      /\ i \in Nat /\ batch \in SUBSET FD
      /\ Len(m_connections) \in Nat
      /\ cur \in Asock \union FD \union {NoFd}
  BY PlacesFinite DEF AsockTypeOK
<1>2. \A k \in 1 .. Len(m_connections) : m_connections[k] \in Asock
  BY <1>1, ElementOfSeq
<1>3. ASSUME NEW sockd, CloseConnection(sockd), UNCHANGED <<user, m_in_queue>>,
             i' \in Nat, cur' \in Asock \union FD \union {NoFd}, batch' \in SUBSET FD,
             pc' \in {"send", "check", "drop"} => i' <= Len(m_connections) - 1,
             pc' = "unlock" => i' > 0 /\ i' <= Len(m_connections),
             pc' # "read"
      PROVE  AsockTypeOK(T)' /\ Indexed'
  <2>1. /\ con' \in [Asock -> ConType]
        /\ files' \in [FD -> T \union {Free}]
        /\ m_connections' \in Seq(Asock) /\ m_new_connections' \in Seq(Asock)
    BY <1>1, <1>3, CloseEffect
  <2>2. UNCHANGED m_connections \/ \E a \in Asock : Closes(a)
    BY <1>1, <1>3, CloseEffect
  <2>3. Len(m_connections') \in Nat /\ Len(m_connections') >= Len(m_connections) - 1
    BY <1>1, <2>1, <2>2, PlacesFinite DEF Closes
  <2>4. AsockTypeOK(T)'
    BY <1>3, <2>1 DEF AsockTypeOK
  <2>5. Indexed'
    BY <1>1, <1>3, <2>3 DEF Indexed
  <2> QED
    BY <2>4, <2>5
<1>4. CASE SendFails
  <2> DEFINE sockd == con[m_connections[i]].m_sock_desc
  <2>1. /\ pc = "send" /\ pc' = "unlock" /\ CloseConnection(sockd) /\ i > 0
        /\ UNCHANGED <<user, m_in_queue, i, batch>>
        /\ cur' = m_connections[i]
    BY <1>4 DEF SendFails, Goto
  <2>2. i <= Len(m_connections) /\ cur' \in Asock
    BY <1>1, <1>2, <2>1 DEF Indexed
  <2> HIDE DEF sockd
  <2>3. AsockTypeOK(T)' /\ Indexed'
    BY <1>1, <1>3, <2>1, <2>2
  <2> QED
    BY <2>1, <2>3 DEF LoopStage
<1>5. CASE CheckForClose
  <2>1. /\ pc = "check" /\ pc' = "check" /\ i > 0 /\ i' = i - 1
        /\ UNCHANGED <<user, m_in_queue, cur, batch>>
    BY <1>5 DEF CheckForClose
  <2>2. i <= Len(m_connections)
    BY <2>1 DEF Indexed
  <2>3. CASE CloseConnection(con[m_connections[i]].m_sock_desc)
    <3> DEFINE sockd == con[m_connections[i]].m_sock_desc
    <3>1. CloseConnection(sockd)
      BY <2>3
    <3> HIDE DEF sockd
    <3>2. AsockTypeOK(T)' /\ Indexed'
      BY <1>1, <1>3, <2>1, <2>2, <3>1
    <3> QED
      BY <2>1, <3>1, <3>2 DEF LoopStage
  <2>4. CASE UNCHANGED <<con, files, lists>>
    <3>1. AsockTypeOK(T)'
      BY <1>1, <2>1, <2>4 DEF AsockTypeOK, lists
    <3>2. Indexed'
      BY <1>1, <2>1, <2>2, <2>4 DEF Indexed, lists
    <3> QED
      BY <2>1, <2>4, <3>1, <3>2 DEF LoopStage
  <2> QED
    BY <1>5, <2>3, <2>4 DEF CheckForClose
<1>6. CASE ReadEnds
  <2>1. /\ pc = "read" /\ pc' = "event" /\ CloseConnection(cur) /\ cur' = NoFd
        /\ UNCHANGED <<user, m_in_queue, i, batch>>
    BY <1>6 DEF ReadEnds, Goto
  <2>2. AsockTypeOK(T)' /\ Indexed'
    BY <1>1, <1>3, <2>1
  <2> QED
    BY <2>1, <2>2 DEF LoopStage
<1>7. ASSUME NEW f \in FD, EventClose(f)
      PROVE  /\ AsockTypeOK(T)' /\ Indexed'
             /\ pc \in LoopStage /\ pc' \in LoopStage /\ UNCHANGED user
             /\ CloseConnection(f)
  <2>1. /\ pc = "event" /\ pc' = "event" /\ CloseConnection(f)
        /\ UNCHANGED <<user, m_in_queue, i, cur>> /\ batch' = batch \ {f}
    BY <1>7 DEF EventClose
  <2>2. AsockTypeOK(T)' /\ Indexed'
    BY <1>1, <1>3, <2>1
  <2> QED
    BY <2>1, <2>2 DEF LoopStage
<1> QED
  BY <1>4, <1>5, <1>6, <1>7

(* close_connection takes a connection from the list and with it one       *)
(* reference; what it takes from the other list keeps its own.             *)
LEMMA CloseKeeps ==
    ASSUME IInv, pc \in LoopStage, NEW sockd, CloseConnection(sockd)
    PROVE  /\ con' \in [Asock -> ConType]
           /\ files' \in [FD -> Socket \union {Free}]
           /\ m_connections' \in Seq(Asock)
           /\ m_new_connections' \in Seq(Asock)
           /\ Len(m_connections') >= Len(m_connections) - 1
           /\ Sound(con')
           /\ \A a \in Asock :
                con'[a].m_ref_counter
                    >= Users(a) + All(m_new_connections', a) + All(m_connections', a)
<1> USE DEF IInv
<1>1. /\ con \in [Asock -> ConType] /\ files \in [FD -> Socket \union {Free}]
      /\ m_connections \in Seq(Asock) /\ m_new_connections \in Seq(Asock)
  BY DEF TypeOK, AsockTypeOK
<1>2. \A b \in Asock :
        /\ con[b].m_ref_counter \in Nat /\ Users(b) \in Nat
        /\ All(m_new_connections, b) \in Nat
        /\ All(m_connections, b) \in Nat
        /\ con[b].m_ref_counter
            >= Users(b) + (All(m_new_connections, b) + All(m_connections, b))
  <2>1. \A b \in Asock : InLists(b) = All(m_new_connections, b) + All(m_connections, b)
    BY WholeLists DEF InLists, All
  <2> QED
    BY <1>1, <2>1, Numbers, AllType
<1>3. \A b \in Asock : All(m_connections, b) > 0 => con[b].m_ref_counter > 0
  BY <1>2
<1> HIDE DEF IInv
<1>4. /\ con' \in [Asock -> ConType]
      /\ files' \in [FD -> Socket \union {Free}]
      /\ m_connections' \in Seq(Asock)
      /\ m_new_connections' \in Seq(Asock)
  BY <1>1, <1>3, CloseEffect
<1>8. Sound(con')
  <2>1. Sound(con)
    BY DEF IInv
  <2> QED
    BY <1>1, <1>3, <2>1, CloseEffect
<1>9. ASSUME NEW b \in Asock
      PROVE  /\ All(m_new_connections', b) \in Nat
             /\ All(m_new_connections', b) <= All(m_new_connections, b)
  <2>1. /\ All(m_new_connections', b) \in Nat
        /\ \/ All(m_new_connections', b) = All(m_new_connections, b)
           \/ All(m_new_connections', b) = All(m_new_connections, b) - 1
    BY <1>1, <1>3, CloseEffect
  <2> QED
    BY <1>2, <2>1
<1>10. \/ UNCHANGED <<con, files, m_connections>>
       \/ \E a \in Asock : Closes(a)
  BY <1>1, <1>3, CloseEffect
<1>5. Len(m_connections) \in Nat
  BY <1>1, PlacesFinite
<1>6. ASSUME UNCHANGED <<con, files, m_connections>>
      PROVE  /\ Len(m_connections') >= Len(m_connections) - 1
             /\ \A b \in Asock : con'[b].m_ref_counter
                    >= Users(b) + All(m_new_connections', b) + All(m_connections', b)
  <2>1. ASSUME NEW b \in Asock
        PROVE  con[b].m_ref_counter
                    >= Users(b) + All(m_new_connections', b) + All(m_connections, b)
    BY <1>2, <1>9
  <2> QED
    BY <1>5, <1>6, <2>1
<1>7. ASSUME NEW a \in Asock, Closes(a)
      PROVE  /\ Len(m_connections') >= Len(m_connections) - 1
             /\ \A b \in Asock : con'[b].m_ref_counter
                    >= Users(b) + All(m_new_connections', b) + All(m_connections', b)
  <2>1. \A b \in Asock :
          /\ All(m_connections', b) = All(m_connections, b) - (IF a = b THEN 1 ELSE 0)
          /\ con'[b].m_ref_counter = con[b].m_ref_counter - (IF a = b THEN 1 ELSE 0)
    BY <1>7 DEF Closes
  <2>2. ASSUME NEW b \in Asock
        PROVE  con'[b].m_ref_counter
                    >= Users(b) + All(m_new_connections', b) + All(m_connections', b)
    BY <1>2, <1>9, <2>1
  <2> QED
    BY <1>5, <1>7, <2>2 DEF Closes
<1> QED
  BY <1>4, <1>6, <1>7, <1>8, <1>10

(* The rest follows where a step stays in the loop.                        *)
LEMMA LoopCovered ==
    ASSUME pc' \in LoopStage, UNCHANGED user,
           \A a \in Asock :
                con'[a].m_ref_counter
                    >= Users(a) + All(m_new_connections', a) + All(m_connections', a),
           \A a \in Asock :
                All(m_new_connections', a) \in Nat /\ All(m_connections', a) \in Nat
    PROVE  Covered'
<1>1. Kept' = DOMAIN m_new_connections' /\ Served' = DOMAIN m_connections'
  BY DEF Kept, Served, Remaining, LoopStage
<1>2. \A a \in Asock : Users(a)' = Users(a) /\ Users(a) \in Nat
  BY DEF Users, UserHolds
<1>3. \A a \in Asock :
        InLists(a)' = All(m_new_connections', a) + All(m_connections', a)
  BY <1>1 DEF InLists, All, Times
<1> QED
  BY <1>2, <1>3 DEF Covered

-----------------------------------------------------------------------------
(* The steps                                                               *)

LEMMA InitIInv == Init => IInv
<1> SUFFICES ASSUME Init PROVE IInv
  OBVIOUS
<1> USE AsockAssumption DEF Init, InitWith
<1>1. Unborn \in ConType /\ Unborn.life # "live" /\ Unborn.m_ref_counter = 0
  BY DEF Unborn, ConType
<1>2. con \in [Asock -> ConType]
  BY <1>1
<1>3. TypeOK
  BY <1>2 DEF TypeOK, AsockTypeOK
<1>4. Sound(con)
  BY <1>1 DEF Sound
<1>5. Places
  BY DEF Places
<1>6. ASSUME NEW a \in Asock
      PROVE  con[a].m_ref_counter >= Users(a) + InLists(a)
  <2>1. Users(a) = 0
    BY DEF Users, UserHolds
  <2>2. Kept = {} /\ Served = {}
    BY DEF Kept, Served, Remaining
  <2>3. Times(m_new_connections, {}, a) = 0 /\ Times(m_connections, {}, a) = 0
    BY FS_EmptySet DEF Times
  <2>4. InLists(a) = 0
    BY <2>2, <2>3 DEF InLists
  <2> QED
    BY <1>1, <2>1, <2>4
<1> QED
  BY <1>3, <1>4, <1>5, <1>6 DEF IInv, Covered

(* Lists that stay as they are, with the places that count.                *)
LEMMA SameLists ==
    ASSUME UNCHANGED lists, Kept' = Kept, Served' = Served, NEW a \in Asock
    PROVE  InLists(a)' = InLists(a)
BY DEF InLists, Times, lists

LEMMA AlikeCovers ==
    ASSUME IInv, Alike(con, con'), UNCHANGED user,
           \A a \in Asock : InLists(a)' = InLists(a)
    PROVE  Sound(con)' /\ Covered'
<1>1. Sound(con')
  BY AlikeSound DEF IInv
<1>2. \A a \in Asock : Users(a)' = Users(a)
  BY DEF Users, UserHolds
<1> QED
  BY <1>1, <1>2 DEF Alike, IInv, Covered, Sound

LEMMA AlikeSame == ASSUME NEW heap PROVE Alike(heap, heap)
BY DEF Alike

(* Inside the loop.                                                        *)
LEMMA LoopQuiet ==
    ASSUME IInv, pc \in LoopStage, pc' \in LoopStage,
           Alike(con, con'), UNCHANGED <<user, lists>>
    PROVE  Sound(con)' /\ Covered'
<1>1. Kept' = Kept /\ Served' = Served
  BY DEF Kept, Served, Remaining, LoopStage, lists
<1>2. \A a \in Asock : InLists(a)' = InLists(a)
  BY <1>1, SameLists
<1> QED
  BY <1>2, AlikeCovers

(* What the shared steps need of the invariant.                            *)
LEMMA LoopPlaces == IInv => AsockTypeOK(Socket) /\ Indexed
BY DEF IInv, TypeOK, Places, Indexed

(* The steps that send, receive and wait.                                  *)
LEMMA QuietSteps ==
    ASSUME IInv,
           \/ SendNothing \/ SendSome \/ HeadUnlock \/ SendDone \/ CheckDone
           \/ EpollWait(Monitored)
           \/ \E f \in FD : EventIn(f) \/ EventOut(f)
           \/ ReadSome \/ ReadAgain \/ EventsDone
    PROVE  IInv'
<1>1. AsockTypeOK(Socket) /\ Indexed
  BY LoopPlaces
<1>2. ASSUME \/ SendNothing \/ SendSome \/ HeadUnlock \/ SendDone \/ CheckDone
             \/ EpollWait(Monitored)
             \/ \E f \in FD : EventIn(f)
             \/ ReadSome \/ ReadAgain \/ EventsDone
      PROVE  IInv'
  <2>1. pc = "read" /\ files[cur] # Free => files[cur] \in Socket
    BY <1>1 DEF AsockTypeOK, Indexed
  <2>2. \/ SendNothing \/ SendSome \/ HeadUnlock \/ SendDone \/ CheckDone
        \/ \E M : EpollWait(M)
        \/ \E f \in FD : EventIn(f)
        \/ ReadSome \/ ReadAgain \/ EventsDone
    BY <1>2
  <2>3. /\ AsockTypeOK(Socket)' /\ Indexed' /\ Quiet(con, con')
        /\ pc \in LoopStage /\ pc' \in LoopStage
        /\ UNCHANGED <<user, files, lists>>
    BY <1>1, <2>1, <2>2, SharedQuiet
  <2>4. TypeOK' /\ Places'
    BY <2>3 DEF TypeOK, Places, Indexed, LoopStage
  <2>5. Sound(con)' /\ Covered'
    BY <2>3, QuietAlike, LoopQuiet
  <2> QED
    BY <2>4, <2>5 DEF IInv
<1>3. ASSUME NEW f \in FD, EventOut(f)
      PROVE  IInv'
  <2> DEFINE k == IndexBySockDesc(m_connections, f)
  <2>0. /\ con \in [Asock -> ConType] /\ m_connections \in Seq(Asock)
        /\ batch \in SUBSET FD
        /\ \A n \in 1 .. Len(m_connections) : m_connections[n] \in Asock
    BY <1>1, ElementOfSeq DEF AsockTypeOK
  <2>1. pc = "event" /\ pc' = "event" /\ UNCHANGED <<user, lists>> /\ batch' \in SUBSET FD
    BY <1>3, <2>0 DEF EventOut, EventOutWith
  <2>2. con' = IF k = 0 THEN con ELSE [con EXCEPT ![m_connections[k]].m_state = "Established"]
    BY <1>3 DEF EventOut, EventOutWith
  <2>3. k # 0 => m_connections[k] \in Asock
    BY <2>0, IndexProperties, PlacesFinite
  <2>4. con' \in [Asock -> ConType] /\ Alike(con, con')
    <3>1. NoFd \in FD \union {NoFd} /\ 0 \in 0 .. MaxOut
          /\ "Established" \in {"Idle", "InProgress", "Established", "Failed"}
      BY AsockAssumption
    <3> HIDE DEF k
    <3> QED
      BY <2>0, <2>2, <2>3, <3>1, FieldUpdates, AlikeSame
  <2>5. TypeOK'
    BY <1>3, <2>1, <2>4 DEF IInv, EventOut, EventOutWith, TypeOK, AsockTypeOK, lists
  <2>6. Places'
    BY <2>1 DEF Places
  <2>7. Sound(con)' /\ Covered'
    BY <2>1, <2>4, LoopQuiet DEF LoopStage
  <2> QED
    BY <2>5, <2>6, <2>7 DEF IInv
<1> QED
  BY <1>2, <1>3

(* Each connection that is served has its reference.                       *)
LEMMA ServedCounted ==
    ASSUME IInv, pc \in LoopStage
    PROVE  \A a \in Asock : All(m_connections, a) > 0 => con[a].m_ref_counter > 0
<1>1. \A a \in Asock : InLists(a) = All(m_new_connections, a) + All(m_connections, a)
  BY WholeLists DEF InLists, All
<1>2. m_new_connections \in Seq(Asock) /\ m_connections \in Seq(Asock)
  BY DEF IInv, TypeOK, AsockTypeOK
<1>3. \A a \in Asock : All(m_new_connections, a) \in Nat /\ All(m_connections, a) \in Nat
  BY <1>2, AllType
<1> QED
  BY <1>1, <1>3, Numbers

(* The steps that close a connection, or nothing where there is none.      *)
LEMMA ClosingSteps ==
    ASSUME IInv,
           \/ SendFails \/ CheckForClose \/ ReadEnds
           \/ \E f \in FD : EventClose(f) \/ EventOutFails(f)
    PROVE  IInv'
<1>1. AsockTypeOK(Socket) /\ Indexed
  BY LoopPlaces
<1>2. pc \in LoopStage
  BY DEF SendFails, CheckForClose, ReadEnds, EventClose, EventOutFails, LoopStage
<1>3. \A a \in Asock : All(m_connections, a) > 0 => con[a].m_ref_counter > 0
  BY <1>2, ServedCounted
<1>4. ASSUME NEW sockd, CloseConnection(sockd),
             AsockTypeOK(Socket)', Indexed', pc' \in LoopStage, UNCHANGED user
      PROVE  IInv'
  <2>1. TypeOK' /\ Places'
    BY <1>4 DEF TypeOK, Places, Indexed, LoopStage
  <2>2. /\ Sound(con')
        /\ \A a \in Asock :
            con'[a].m_ref_counter
                >= Users(a) + All(m_new_connections', a) + All(m_connections', a)
    BY <1>2, <1>4, CloseKeeps
  <2>3. \A a \in Asock :
          All(m_new_connections', a) \in Nat /\ All(m_connections', a) \in Nat
    BY <1>4, AllType DEF AsockTypeOK
  <2>4. Covered'
    BY <1>4, <2>2, <2>3, LoopCovered
  <2> QED
    BY <2>1, <2>2, <2>4 DEF IInv
<1>5. ASSUME SendFails \/ CheckForClose \/ ReadEnds \/ \E f \in FD : EventClose(f)
      PROVE  IInv'
  <2>1. /\ AsockTypeOK(Socket)' /\ Indexed' /\ pc' \in LoopStage /\ UNCHANGED user
        /\ UNCHANGED <<con, files, lists>> \/ \E sockd : CloseConnection(sockd)
    BY <1>1, <1>3, <1>5, SharedCloses
  <2>2. CASE UNCHANGED <<con, files, lists>>
    <3>1. Sound(con)' /\ Covered'
      BY <1>2, <2>1, <2>2, AlikeSame, LoopQuiet
    <3>2. TypeOK' /\ Places'
      BY <2>1 DEF TypeOK, Places, Indexed, LoopStage
    <3> QED
      BY <3>1, <3>2 DEF IInv
  <2> QED
    BY <1>4, <2>1, <2>2
<1>6. ASSUME NEW f \in FD, EventOutFails(f)
      PROVE  IInv'
  <2>1. /\ pc = "event" /\ pc' = "event" /\ CloseConnection(f)
        /\ UNCHANGED <<user, m_in_queue, i, cur, batch>>
    BY <1>6 DEF EventOutFails
  <2>2. /\ con' \in [Asock -> ConType]
        /\ files' \in [FD -> Socket \union {Free}]
        /\ m_connections' \in Seq(Asock) /\ m_new_connections' \in Seq(Asock)
    BY <1>2, <2>1, CloseKeeps
  <2>3. AsockTypeOK(Socket)' /\ Indexed'
    BY <1>1, <2>1, <2>2 DEF AsockTypeOK, Indexed
  <2> QED
    BY <1>4, <2>1, <2>3 DEF LoopStage
<1> QED
  BY <1>5, <1>6

(* The service gives up a place of an asock and the reference for it.      *)
LEMMA DropKeeps ==
    ASSUME IInv, UNCHANGED user, NEW a \in Asock, InLists(a) > 0,
           NEW heap \in [Asock -> ConType], Alike(con, heap), con' = Dropped(heap, a),
           \A b \in Asock : InLists(b)' = InLists(b) - (IF a = b THEN 1 ELSE 0)
    PROVE  con' \in [Asock -> ConType] /\ Sound(con)' /\ Covered'
<1>1. \A b \in Asock :
        /\ InLists(b) \in Nat /\ Users(b) \in Nat /\ con[b].m_ref_counter \in Nat
        /\ con[b].m_ref_counter >= Users(b) + InLists(b)
  BY Numbers
<1>2. heap[a].m_ref_counter > 0
  <2>1. con[a].m_ref_counter > 0
    BY <1>1
  <2> QED
    BY <2>1 DEF Alike
<1>3. Sound(heap)
  BY AlikeSound DEF IInv
<1>4. /\ con' \in [Asock -> ConType] /\ Sound(con')
      /\ \A b \in Asock :
            con'[b].m_ref_counter = heap[b].m_ref_counter - (IF a = b THEN 1 ELSE 0)
  BY <1>2, <1>3, DroppedProperties
<1>5. ASSUME NEW b \in Asock
      PROVE  con'[b].m_ref_counter >= Users(b)' + InLists(b)'
  <2>1. Users(b)' = Users(b)
    BY DEF Users, UserHolds
  <2>2. con'[b].m_ref_counter = con[b].m_ref_counter - (IF a = b THEN 1 ELSE 0)
    BY <1>4 DEF Alike
  <2> QED
    BY <1>1, <2>1, <2>2
<1> QED
  BY <1>4, <1>5 DEF Sound, Covered

(* The steps that go through the list of those to be connected.            *)
LEMMA ConnectingSteps ==
    ASSUME IInv, NoDirective \/ TryConnect \/ TryConnectFails \/ NewDone
    PROVE  IInv'
<1> USE DEF IInv
<1>1. /\ con \in [Asock -> ConType] /\ files \in [FD -> Socket \union {Free}]
      /\ m_connections \in Seq(Asock) /\ m_new_connections \in Seq(Asock)
      /\ i \in Nat
      /\ Len(m_connections) \in Nat /\ Len(m_new_connections) \in Nat
      /\ DOMAIN m_connections = 1 .. Len(m_connections)
      /\ DOMAIN m_new_connections = 1 .. Len(m_new_connections)
  BY PlacesFinite DEF TypeOK, AsockTypeOK
<1>2. \A k \in 1 .. Len(m_new_connections) : m_new_connections[k] \in Asock
  BY <1>1, ElementOfSeq
<1>3. \A a \in Asock :
        /\ InLists(a) \in Nat
        /\ Times(m_new_connections, Kept, a) \in Nat
        /\ Times(m_connections, Served, a) \in Nat
        /\ Users(a) \in Nat /\ con[a].m_ref_counter \in Nat
  BY <1>1, InListsType DEF Users, ConType
<1>4. \A a \in Asock : con[a].m_ref_counter >= Users(a) + InLists(a)
  BY DEF Covered
<1>5. CASE NoDirective
  <2>1. pc = "directive" /\ pc' = "new" /\ i' = 1 /\ UNCHANGED <<con, user, lists>>
    BY <1>5 DEF NoDirective, StartNew, Goto
  <2>2. Kept' = Kept /\ Served' = Served
    BY <1>1, <2>1 DEF Kept, Served, Remaining, lists
  <2>3. Sound(con)' /\ Covered'
    BY <2>1, <2>2, SameLists, AlikeSame, AlikeCovers
  <2>4. TypeOK'
    BY <1>5 DEF NoDirective, StartNew, Goto, TypeOK, AsockTypeOK, lists
  <2>5. Places'
    BY <2>1 DEF Places
  <2> QED
    BY <2>3, <2>4, <2>5
<1>6. ASSUME pc = "new", i <= Len(m_new_connections)
      PROVE  /\ i \in Kept /\ i > 0 /\ m_new_connections[i] \in Asock
             /\ \A a \in Asock :
                    Times(m_new_connections, Kept \ {i}, a)
                        = Times(m_new_connections, Kept, a)
                          - (IF m_new_connections[i] = a THEN 1 ELSE 0)
             /\ \A a \in Asock : Times(m_new_connections, Kept \ {i}, a) \in Nat
             /\ InLists(m_new_connections[i]) > 0
             /\ i + 1 .. Len(m_new_connections) = Kept \ {i}
  <2>1. i > 0 /\ Kept = i .. Len(m_new_connections)
    BY <1>6 DEF Places, Kept
  <2>2. i \in Kept /\ m_new_connections[i] \in Asock
    BY <1>1, <1>2, <1>6, <2>1
  <2>3. IsFiniteSet(Kept) /\ IsFiniteSet(Kept \ {i})
    BY CountedPlaces, FS_RemoveElement
  <2>4. InLists(m_new_connections[i]) > 0
    BY <2>2, InListsType
  <2>6. i + 1 .. Len(m_new_connections) = Kept \ {i}
    BY <1>1, <2>1
  <2>7. \A a \in Asock :
          Times(m_new_connections, Kept \ {i}, a)
            = Times(m_new_connections, Kept, a) - (IF m_new_connections[i] = a THEN 1 ELSE 0)
    BY <2>2, <2>3, TimesLess
  <2>8. \A a \in Asock : Times(m_new_connections, Kept \ {i}, a) \in Nat
    BY <2>3, TimesType
  <2> QED
    BY <1>6, <2>1, <2>2, <2>4, <2>6, <2>7, <2>8
<1>7. CASE TryConnect
  <2> DEFINE a == m_new_connections[i]
             n == Len(m_connections) + 1
  <2>1. /\ pc = "new" /\ pc' = "new" /\ i <= Len(m_new_connections) /\ i' = i + 1
        /\ UNCHANGED <<user, m_new_connections>>
        /\ m_connections' = Append(m_connections, a)
    BY <1>7 DEF TryConnect
  <2>2. a \in Asock /\ i > 0
    BY <1>6, <2>1
  <2>3. PICK f \in FD, state \in {"InProgress", "Established"} :
          /\ files' = [files EXCEPT ![f] = <<a, con[a].connects>>]
          /\ con' = [con EXCEPT ![a].m_sock_desc = f, ![a].m_state = state]
    BY <1>7 DEF TryConnect, Open
  <2>4. con' \in [Asock -> ConType] /\ Alike(con, con')
    <3>1. f \in FD \union {NoFd} /\ 0 \in 0 .. MaxOut
          /\ state \in {"Idle", "InProgress", "Established", "Failed"}
      BY AsockAssumption
    <3> HIDE DEF a
    <3> QED
      BY <1>1, <2>2, <2>3, <3>1, FieldUpdates
  <2>5. files' \in [FD -> Socket \union {Free}]
    <3>1. con[a].connects \in 0 .. MaxConnects
      BY <1>1, <2>2 DEF ConType
    <3>2. <<a, con[a].connects>> \in Socket
      BY <2>2, <3>1 DEF Socket
    <3> QED
      BY <1>1, <2>3, <3>2
  <2>6. Kept' = Kept \ {i}
    BY <1>6, <2>1 DEF Kept
  <2>7. m_connections' \in Seq(Asock) /\ Len(m_connections') = n
    BY <1>1, <2>1, <2>2, AppendProperties
  <2>8. Served = DOMAIN m_connections /\ Served' = Served \union {n}
    BY <1>1, <2>1, <2>7, PlacesFinite DEF Served, Remaining
  <2>9. \A b \in Asock :
          Times(m_connections', Served', b)
              = Times(m_connections, Served, b) + (IF a = b THEN 1 ELSE 0)
    <3>1. m_connections \in Seq(Asock) /\ a \in Asock /\ Served = DOMAIN m_connections
      BY <1>1, <2>2, <2>8
    <3>2. m_connections' = Append(m_connections, a) /\ Served' = Served \union {n}
      BY <2>1, <2>8
    <3> HIDE DEF a
    <3> QED
      BY <3>1, <3>2, TimesAppend
  <2>10. \A b \in Asock :
           Times(m_new_connections', Kept', b)
               = Times(m_new_connections, Kept, b) - (IF a = b THEN 1 ELSE 0)
    BY <1>6, <2>1, <2>6
  <2>11. ASSUME NEW b \in Asock
         PROVE  InLists(b)' = InLists(b)
    <3>1. InLists(b)' = Times(m_new_connections', Kept', b) + Times(m_connections', Served', b)
      BY DEF InLists, Times
    <3> QED
      BY <1>3, <2>9, <2>10, <3>1 DEF InLists
  <2>12. Sound(con)' /\ Covered'
    BY <2>1, <2>4, <2>11, AlikeCovers
  <2>13. TypeOK'
    BY <1>1, <1>7, <2>1, <2>4, <2>5, <2>7 DEF TryConnect, TypeOK, AsockTypeOK
  <2>14. Places'
    BY <1>1, <2>1 DEF Places
  <2> QED
    BY <2>12, <2>13, <2>14
<1>8. CASE TryConnectFails
  <2> DEFINE a == m_new_connections[i]
  <2>1. /\ pc = "new" /\ pc' = "new" /\ i <= Len(m_new_connections) /\ i' = i + 1
        /\ UNCHANGED <<m_in_queue, user, files, lists, cur, batch>>
        /\ con' = Dropped(Refused, a)
    BY <1>8 DEF TryConnectFails, Refuse
  <2>2. a \in Asock /\ i > 0 /\ InLists(a) > 0
    BY <1>6, <2>1
  <2>3. Refused \in [Asock -> ConType] /\ Alike(con, Refused)
    <3>1. NoFd \in FD \union {NoFd} /\ 0 \in 0 .. MaxOut
          /\ "Failed" \in {"Idle", "InProgress", "Established", "Failed"}
      BY AsockAssumption
    <3>2. Refused = [con EXCEPT ![a].m_sock_desc = NoFd, ![a].m_state = "Failed"]
      BY DEF Refused
    <3> HIDE DEF a
    <3> QED
      BY <1>1, <2>2, <3>1, <3>2, FieldUpdates
  <2>7. Kept' = Kept \ {i} /\ Served' = Served
    BY <1>6, <2>1 DEF Kept, Served, Remaining, lists
  <2>8. ASSUME NEW b \in Asock
        PROVE  InLists(b)' = InLists(b) - (IF a = b THEN 1 ELSE 0)
    <3>1. InLists(b)' = Times(m_new_connections, Kept \ {i}, b)
                        + Times(m_connections, Served, b)
      BY <2>1, <2>7 DEF InLists, Times, lists
    <3>2. Times(m_new_connections, Kept \ {i}, b)
            = Times(m_new_connections, Kept, b) - (IF a = b THEN 1 ELSE 0)
      BY <1>6, <2>1
    <3> QED
      BY <1>3, <3>1, <3>2 DEF InLists
  <2>9. con' \in [Asock -> ConType] /\ Sound(con)' /\ Covered'
    BY <2>1, <2>2, <2>3, <2>8, DropKeeps
  <2>10. TypeOK'
    BY <1>1, <2>1, <2>9 DEF TypeOK, AsockTypeOK, lists
  <2>11. Places'
    BY <1>1, <2>1 DEF Places, lists
  <2> QED
    BY <2>9, <2>10, <2>11
<1>9. CASE NewDone
  <2>1. /\ pc = "new" /\ pc' = "send" /\ i > Len(m_new_connections)
        /\ i' = Len(m_connections) /\ m_new_connections' = << >>
        /\ UNCHANGED <<con, user, m_connections>>
    BY <1>9 DEF NewDone, StartAt, Goto
  <2>2. Kept = {} /\ Kept' = {} /\ Served' = Served
    <3>1. Kept = i .. Len(m_new_connections)
      BY <2>1 DEF Kept
    <3>2. Kept = {}
      BY <1>1, <2>1, <3>1
    <3>3. Kept' = {}
      BY <2>1 DEF Kept, Remaining
    <3>4. Served' = Served
      BY <2>1 DEF Served, Remaining
    <3> QED
      BY <3>2, <3>3, <3>4
  <2>3. ASSUME NEW a \in Asock
        PROVE  InLists(a)' = InLists(a)
    <3>1. \A list : Times(list, {}, a) = Cardinality({})
      BY DEF Times
    <3>2. InLists(a) = Cardinality({}) + Times(m_connections, Served, a)
      BY <2>2, <3>1 DEF InLists
    <3>3. InLists(a)' = Times(<< >>, {}, a) + Times(m_connections, Served, a)
      BY <2>1, <2>2 DEF InLists, Times
    <3> QED
      BY <3>1, <3>2, <3>3
  <2>4. Sound(con)' /\ Covered'
    BY <2>1, <2>3, AlikeSame, AlikeCovers
  <2>5. TypeOK'
    BY <1>1, <1>9, <2>1 DEF NewDone, StartAt, Goto, TypeOK, AsockTypeOK
  <2>6. Places'
    BY <1>1, <2>1 DEF Places
  <2> QED
    BY <2>4, <2>5, <2>6
<1> QED
  BY <1>5, <1>7, <1>8, <1>9

(* The service stops: its references go, from the end of each list.        *)
LEMMA StoppingSteps ==
    ASSUME IInv, Stop \/ DropNew \/ DropNewDone \/ Drop \/ DropDone
    PROVE  IInv'
<1> USE DEF IInv
<1>1. /\ con \in [Asock -> ConType] /\ files \in [FD -> Socket \union {Free}]
      /\ m_connections \in Seq(Asock) /\ m_new_connections \in Seq(Asock)
      /\ i \in Nat
      /\ Len(m_connections) \in Nat /\ Len(m_new_connections) \in Nat
      /\ DOMAIN m_connections = 1 .. Len(m_connections)
      /\ DOMAIN m_new_connections = 1 .. Len(m_new_connections)
  BY PlacesFinite DEF TypeOK, AsockTypeOK
<1>2. /\ \A k \in 1 .. Len(m_new_connections) : m_new_connections[k] \in Asock
      /\ \A k \in 1 .. Len(m_connections) : m_connections[k] \in Asock
  BY <1>1, ElementOfSeq
<1>3. \A a \in Asock :
        /\ InLists(a) \in Nat
        /\ Times(m_new_connections, Kept, a) \in Nat
        /\ Times(m_connections, Served, a) \in Nat
        /\ Users(a) \in Nat /\ con[a].m_ref_counter \in Nat
  BY <1>1, InListsType DEF Users, ConType
<1>4. \A a \in Asock : con[a].m_ref_counter >= Users(a) + InLists(a)
  BY DEF Covered
<1>5. CASE Stop
  <2>1. /\ pc = "directive" /\ pc' = "drop_new" /\ i' = Len(m_new_connections)
        /\ UNCHANGED <<con, user, lists>>
        /\ \A a \in Asock : user[a] # "connecting"
    BY <1>5 DEF Stop, StartAt, Goto
  <2>2. Kept' = Kept /\ Served' = Served
    BY <1>1, <2>1 DEF Kept, Served, Remaining, lists
  <2>3. Sound(con)' /\ Covered'
    BY <2>1, <2>2, SameLists, AlikeSame, AlikeCovers
  <2>4. TypeOK'
    BY <1>1, <1>5 DEF Stop, StartAt, Goto, TypeOK, AsockTypeOK, lists
  <2>5. Places'
    BY <1>1, <2>1 DEF Places, lists
  <2> QED
    BY <2>3, <2>4, <2>5
<1>6. CASE DropNew
  <2> DEFINE a == m_new_connections[i]
  <2>1. /\ pc = "drop_new" /\ pc' = "drop_new" /\ i > 0 /\ i' = i - 1
        /\ UNCHANGED <<m_in_queue, user, lists, cur, batch>>
        /\ con' = Dropped(con, a)
        /\ files' = DroppedFiles(con, files, a)
    BY <1>6 DEF DropNew, DropNext
  <2>2. i <= Len(m_new_connections) /\ a \in Asock
    BY <1>1, <1>2, <2>1 DEF Places
  <2>3. Kept = 1 .. i /\ i \in Kept /\ Kept' = Kept \ {i} /\ Served' = Served
    BY <1>1, <2>1 DEF Kept, Served, Remaining, lists
  <2>4. InLists(a) > 0
    BY <2>2, <2>3, InListsType
  <2>5. ASSUME NEW b \in Asock
        PROVE  InLists(b)' = InLists(b) - (IF a = b THEN 1 ELSE 0)
    <3>1. InLists(b)' = Times(m_new_connections, Kept \ {i}, b)
                        + Times(m_connections, Served, b)
      BY <2>1, <2>3 DEF InLists, Times, lists
    <3>2. Times(m_new_connections, Kept \ {i}, b)
            = Times(m_new_connections, Kept, b) - (IF a = b THEN 1 ELSE 0)
      BY <2>3, CountedPlaces, TimesLess
    <3> QED
      BY <1>3, <3>1, <3>2 DEF InLists
  <2>6. con' \in [Asock -> ConType] /\ Sound(con)' /\ Covered'
    BY <1>1, <2>1, <2>2, <2>4, <2>5, AlikeSame, DropKeeps
  <2>7. files' \in [FD -> Socket \union {Free}]
    BY <1>1, <2>1, ClosedType
  <2>8. TypeOK'
    BY <1>1, <2>1, <2>6, <2>7 DEF TypeOK, AsockTypeOK, lists
  <2>9. Places'
    BY <1>1, <2>1, <2>2 DEF Places, lists
  <2> QED
    BY <2>6, <2>8, <2>9
<1>7. CASE DropNewDone
  <2>1. /\ pc = "drop_new" /\ i = 0 /\ pc' = "drop" /\ i' = Len(m_connections)
        /\ UNCHANGED <<con, user, lists>>
    BY <1>7 DEF DropNewDone, StartAt, Goto
  <2>2. Kept' = Kept /\ Served' = Served
    BY <1>1, <2>1 DEF Kept, Served, Remaining, lists
  <2>3. Sound(con)' /\ Covered'
    BY <2>1, <2>2, SameLists, AlikeSame, AlikeCovers
  <2>4. TypeOK'
    BY <1>1, <1>7 DEF DropNewDone, StartAt, Goto, TypeOK, AsockTypeOK, lists
  <2>5. Places'
    BY <1>1, <2>1 DEF Places, lists
  <2> QED
    BY <2>3, <2>4, <2>5
<1>8. CASE Drop
  <2> DEFINE a == m_connections[i]
  <2>1. /\ pc = "drop" /\ pc' = "drop" /\ i > 0 /\ i' = i - 1
        /\ UNCHANGED <<m_in_queue, user, lists, cur, batch>>
        /\ con' = Dropped(con, a)
        /\ files' = DroppedFiles(con, files, a)
    BY <1>8 DEF Drop, DropNext
  <2>2. i <= Len(m_connections) /\ a \in Asock
    BY <1>1, <1>2, <2>1 DEF Places
  <2>3. Served = 1 .. i /\ i \in Served /\ Served' = Served \ {i} /\ Kept' = Kept
    BY <1>1, <2>1 DEF Kept, Served, Remaining, lists
  <2>4. InLists(a) > 0
    BY <2>2, <2>3, InListsType
  <2>5. ASSUME NEW b \in Asock
        PROVE  InLists(b)' = InLists(b) - (IF a = b THEN 1 ELSE 0)
    <3>1. InLists(b)' = Times(m_new_connections, Kept, b)
                        + Times(m_connections, Served \ {i}, b)
      BY <2>1, <2>3 DEF InLists, Times, lists
    <3>2. Times(m_connections, Served \ {i}, b)
            = Times(m_connections, Served, b) - (IF a = b THEN 1 ELSE 0)
      BY <2>3, CountedPlaces, TimesLess
    <3> QED
      BY <1>3, <3>1, <3>2 DEF InLists
  <2>6. con' \in [Asock -> ConType] /\ Sound(con)' /\ Covered'
    BY <1>1, <2>1, <2>2, <2>4, <2>5, AlikeSame, DropKeeps
  <2>7. files' \in [FD -> Socket \union {Free}]
    BY <1>1, <2>1, ClosedType
  <2>8. TypeOK'
    BY <1>1, <2>1, <2>6, <2>7 DEF TypeOK, AsockTypeOK, lists
  <2>9. Places'
    BY <1>1, <2>1, <2>2 DEF Places, lists
  <2> QED
    BY <2>6, <2>8, <2>9
<1>9. CASE DropDone
  <2>1. pc = "drop" /\ i = 0 /\ pc' = "exited" /\ UNCHANGED <<con, user, lists, i>>
    BY <1>9 DEF DropDone, Goto
  <2>2. Kept' = Kept /\ Served' = Served
    BY <1>1, <2>1 DEF Kept, Served, Remaining, lists
  <2>3. Sound(con)' /\ Covered'
    BY <2>1, <2>2, SameLists, AlikeSame, AlikeCovers
  <2>4. TypeOK'
    BY <1>9 DEF DropDone, Goto, TypeOK, AsockTypeOK, lists
  <2>5. Places'
    BY <2>1 DEF Places
  <2> QED
    BY <2>3, <2>4, <2>5
<1> QED
  BY <1>5, <1>6, <1>7, <1>8, <1>9

-----------------------------------------------------------------------------
(* A thread's step that changes nothing of counter, life and lists.        *)
LEMMA UserQuiet ==
    ASSUME IInv, con' \in [Asock -> ConType], Alike(con, con'),
           \A a \in Asock : Users(a)' = Users(a),
           \A a \in Asock : user'[a] = "connecting" => user[a] = "connecting",
           user' \in [Asock -> {"none", "owner", "connecting", "destroying", "done"}],
           m_in_queue' \in [Asock -> SUBSET Socket],
           UNCHANGED <<files, lists, pc, i, cur, batch>>
    PROVE  IInv'
<1>1. Kept' = Kept /\ Served' = Served
  BY DEF Kept, Served, Remaining, lists
<1>2. \A a \in Asock : InLists(a)' = InLists(a)
  BY <1>1, SameLists
<1>3. Covered'
  BY <1>2 DEF IInv, Covered, Alike
<1>4. Sound(con)'
  BY AlikeSound DEF IInv, Sound
<1>5. TypeOK' /\ Places'
  BY DEF IInv, TypeOK, AsockTypeOK, Places, lists
<1> QED
  BY <1>3, <1>4, <1>5 DEF IInv

(* One more user's reference, or one less, with the counter.               *)
LEMMA UserCounts ==
    ASSUME IInv, con' \in [Asock -> ConType], Sound(con'), NEW a \in Asock, NEW n \in Int,
           \A b \in Asock : con'[b].m_ref_counter
                = con[b].m_ref_counter + (IF a = b THEN n ELSE 0),
           \A b \in Asock : Users(b)' = Users(b) + (IF a = b THEN n ELSE 0),
           \A b \in Asock : InLists(b)' = InLists(b)
    PROVE  Sound(con)' /\ Covered'
<1>1. \A b \in Asock :
        /\ InLists(b) \in Nat /\ Users(b) \in Nat /\ con[b].m_ref_counter \in Nat
        /\ con[b].m_ref_counter >= Users(b) + InLists(b)
  BY Numbers
<1>2. \A b \in Asock : con'[b].m_ref_counter >= Users(b)' + InLists(b)'
  BY <1>1
<1> QED
  BY <1>2 DEF Covered, Sound

(* What threads do with their asocks.                                      *)
LEMMA UserSteps ==
    ASSUME IInv, NEW a \in Asock, UserStep(a) \/ ConnectBegins(a)
    PROVE  IInv'
<1> USE DEF IInv
<1>1. /\ con \in [Asock -> ConType] /\ files \in [FD -> Socket \union {Free}]
      /\ user \in [Asock -> {"none", "owner", "connecting", "destroying", "done"}]
      /\ m_in_queue \in [Asock -> SUBSET Socket]
  BY DEF TypeOK, AsockTypeOK
<1>2. NoFd \in FD \union {NoFd} /\ 0 \in 0 .. MaxOut
      /\ "Idle" \in {"Idle", "InProgress", "Established", "Failed"}
  BY AsockAssumption
<1>3. CASE DestroyBegins(a)
  <2>1. /\ user[a] = "owner" /\ user' = [user EXCEPT ![a] = "destroying"]
        /\ con' = [con EXCEPT ![a].m_disconnect = TRUE]
        /\ UNCHANGED <<m_in_queue, files, lists, pc, i, cur, batch>>
    BY <1>3 DEF DestroyBegins
  <2>2. con' \in [Asock -> ConType] /\ Alike(con, con')
    BY <1>1, <1>2, <2>1, FieldUpdates
  <2>3. /\ user' \in [Asock -> {"none", "owner", "connecting", "destroying", "done"}]
        /\ \A b \in Asock : user'[b] = "connecting" => user[b] = "connecting"
    BY <1>1, <2>1
  <2>4. \A b \in Asock : Users(b)' = Users(b)
    BY <1>1, <2>1 DEF Users, UserHolds
  <2> QED
    BY <1>1, <2>1, <2>2, <2>3, <2>4, UserQuiet
<1>4. CASE DestroyEnds(a)
  <2>1. /\ user[a] = "destroying" /\ user' = [user EXCEPT ![a] = "done"]
        /\ con' = Dropped(con, a) /\ files' = DroppedFiles(con, files, a)
        /\ UNCHANGED <<m_in_queue, lists, pc, i, cur, batch>>
    BY <1>4 DEF DestroyEnds
  <2>2. Users(a) > 0
    BY <2>1 DEF Users, UserHolds
  <2>3. con[a].m_ref_counter > 0
    BY <2>2, Numbers
  <2>4. /\ con' \in [Asock -> ConType] /\ Sound(con')
        /\ \A b \in Asock : con'[b].m_ref_counter
              = con[b].m_ref_counter - (IF a = b THEN 1 ELSE 0)
    BY <1>1, <2>1, <2>3, DroppedProperties
  <2>5. \A b \in Asock : con'[b].m_ref_counter
              = con[b].m_ref_counter + (IF a = b THEN -1 ELSE 0)
    BY <2>4, Numbers
  <2>6. \A b \in Asock : Users(b)' = Users(b) + (IF a = b THEN -1 ELSE 0)
    BY <1>1, <2>1 DEF Users, UserHolds
  <2>7. Kept' = Kept /\ Served' = Served
    BY <2>1 DEF Kept, Served, Remaining, lists
  <2>8. Sound(con)' /\ Covered'
    BY <2>1, <2>4, <2>5, <2>6, <2>7, SameLists, UserCounts
  <2>9. files' \in [FD -> Socket \union {Free}]
    BY <1>1, <2>1, ClosedType
  <2>10. TypeOK'
    BY <1>1, <2>1, <2>4, <2>9 DEF TypeOK, AsockTypeOK, lists
  <2>11. Places'
    BY <1>1, <2>1 DEF Places, lists
  <2> QED
    BY <2>8, <2>10, <2>11
<1>5. CASE Write(a)
  <2>1. /\ con' = [con EXCEPT ![a].m_out_queue = con[a].m_out_queue + 1]
        /\ con[a].m_out_queue < MaxOut
        /\ UNCHANGED <<m_in_queue, user, files, lists, pc, i, cur, batch>>
    BY <1>1, <1>5 DEF Write
  <2>2. con[a].m_out_queue + 1 \in 0 .. MaxOut
    BY <1>1, <2>1, AsockAssumption DEF ConType
  <2>3. con' \in [Asock -> ConType] /\ Alike(con, con')
    BY <1>1, <1>2, <2>1, <2>2, FieldUpdates
  <2>4. \A b \in Asock : Users(b)' = Users(b)
    BY <2>1 DEF Users, UserHolds
  <2> QED
    BY <1>1, <2>1, <2>3, <2>4, UserQuiet
<1>6. CASE Read(a)
  <2>1. /\ m_in_queue' = [m_in_queue EXCEPT ![a] = {}]
        /\ UNCHANGED <<con, user, files, lists, pc, i, cur, batch>>
    BY <1>6 DEF Read
  <2>2. m_in_queue' \in [Asock -> SUBSET Socket]
    BY <1>1, <2>1
  <2>3. \A b \in Asock : Users(b)' = Users(b)
    BY <2>1 DEF Users, UserHolds
  <2>4. con' \in [Asock -> ConType] /\ Alike(con, con')
    BY <1>1, <2>1, AlikeSame
  <2> QED
    BY <1>1, <2>1, <2>2, <2>3, <2>4, UserQuiet
<1>7. CASE ConnectBegins(a)
  <2> DEFINE begun == [con[a] EXCEPT !.m_state = "InProgress", !.m_ref_counter = @ + 1]
             now == [begun EXCEPT !.connects = @ + 1]
  <2>1. /\ user[a] = "owner" /\ user' = [user EXCEPT ![a] = "connecting"]
        /\ pc \notin {"drop_new", "drop", "exited"}
        /\ con[a].connects < MaxConnects
        /\ con' = [con EXCEPT ![a] = now]
        /\ UNCHANGED <<m_in_queue, files, lists, pc, i, cur, batch>>
    BY <1>7 DEF ConnectBegins, ConnectWith
  <2>2. con[a] \in ConType /\ con[a].m_ref_counter \in Nat
    BY <1>1 DEF ConType
  <2>3. begun \in ConType /\ begun.m_ref_counter = con[a].m_ref_counter + 1
        /\ begun.life = con[a].life /\ begun.connects = con[a].connects
    <3>1. ASSUME NEW x \in ConType, NEW n \in Nat
          PROVE  LET y == [x EXCEPT !.m_state = "InProgress", !.m_ref_counter = n] IN
                 /\ y \in ConType /\ y.m_ref_counter = n
                 /\ y.life = x.life /\ y.connects = x.connects
      BY DEF ConType
    <3>2. con[a].m_ref_counter + 1 \in Nat
      BY <2>2
    <3> QED
      BY <2>2, <3>1, <3>2
  <2> HIDE DEF begun
  <2>4. now \in ConType /\ now.m_ref_counter = con[a].m_ref_counter + 1
        /\ now.life = con[a].life
    BY <2>1, <2>3, AsockAssumption DEF ConType
  <2> HIDE DEF now
  <2>5. con' \in [Asock -> ConType] /\ con'[a] = now
        /\ \A b \in Asock \ {a} : con'[b] = con[b]
    BY <1>1, <2>1, <2>4
  <2>6. \A b \in Asock : con'[b].m_ref_counter
              = con[b].m_ref_counter + (IF a = b THEN 1 ELSE 0)
    BY <2>4, <2>5, Numbers
  <2>7. Users(a) > 0
    BY <2>1 DEF Users, UserHolds
  <2>8. con[a].m_ref_counter > 0
    BY <2>7, Numbers
  <2>9. Sound(con')
    BY <2>2, <2>4, <2>5, <2>8 DEF Sound
  <2>10. \A b \in Asock : Users(b)' = Users(b) + (IF a = b THEN 1 ELSE 0)
    BY <1>1, <2>1 DEF Users, UserHolds
  <2>11. Kept' = Kept /\ Served' = Served
    BY <2>1 DEF Kept, Served, Remaining, lists
  <2>12. Sound(con)' /\ Covered'
    BY <2>1, <2>5, <2>6, <2>9, <2>10, <2>11, SameLists, UserCounts
  <2>13. TypeOK'
    BY <1>1, <2>1, <2>5 DEF TypeOK, AsockTypeOK, lists
  <2>14. Places'
    BY <1>1, <2>1 DEF Places, lists
  <2> QED
    BY <2>12, <2>13, <2>14
<1> QED
  BY <1>3, <1>4, <1>5, <1>6, <1>7 DEF UserStep

(* A connect puts the asock in the list, by the reference it has taken.    *)
LEMMA ConnectEndsStep ==
    ASSUME IInv, NEW a \in Asock, ConnectEnds(a)
    PROVE  IInv'
<1> USE DEF IInv
<1>1. /\ con \in [Asock -> ConType]
      /\ user \in [Asock -> {"none", "owner", "connecting", "destroying", "done"}]
      /\ m_new_connections \in Seq(Asock)
  BY DEF TypeOK, AsockTypeOK
<1>2. /\ user[a] = "connecting" /\ pc # "new" /\ user' = [user EXCEPT ![a] = "owner"]
      /\ m_new_connections' = Append(m_new_connections, a)
      /\ UNCHANGED <<con, m_in_queue, files, m_connections, pc, i, cur, batch>>
  BY DEF ConnectEnds
<1>3. pc \in LoopStage /\ pc' = pc
  BY <1>2 DEF Places, TypeOK, LoopStage
<1>4. /\ Kept = DOMAIN m_new_connections /\ Kept' = DOMAIN m_new_connections'
      /\ Served' = Served
  BY <1>2, <1>3 DEF Kept, Served, Remaining, LoopStage
<1>5. /\ m_new_connections' \in Seq(Asock)
      /\ DOMAIN m_new_connections' = DOMAIN m_new_connections \union {Len(m_new_connections) + 1}
  <2>1. /\ m_new_connections' \in Seq(Asock)
        /\ Len(m_new_connections') = Len(m_new_connections) + 1
    BY <1>1, <1>2, AppendProperties
  <2> QED
    BY <1>1, <2>1, PlacesFinite
<1>6. \A b \in Asock :
        Times(m_new_connections', Kept', b)
            = Times(m_new_connections, Kept, b) + (IF a = b THEN 1 ELSE 0)
  BY <1>1, <1>2, <1>4, <1>5, TimesAppend
<1>7. ASSUME NEW b \in Asock
      PROVE  Users(b)' + InLists(b)' = Users(b) + InLists(b)
  <2>1. InLists(b)' = Times(m_new_connections', Kept', b) + Times(m_connections, Served, b)
    BY <1>2, <1>4 DEF InLists, Times
  <2>2. InLists(b)' = InLists(b) + (IF a = b THEN 1 ELSE 0)
    BY <1>6, <2>1, InListsType DEF InLists
  <2>3. Users(b)' = Users(b) - (IF a = b THEN 1 ELSE 0)
    BY <1>1, <1>2 DEF Users, UserHolds
  <2> QED
    BY <2>2, <2>3, Numbers
<1>8. Covered'
  BY <1>2, <1>7 DEF Covered
<1>9. Sound(con)'
  BY <1>2
<1>10. TypeOK'
  BY <1>1, <1>2, <1>5 DEF TypeOK, AsockTypeOK
<1>11. Places'
  BY <1>1, <1>2, <1>3 DEF Places, LoopStage
<1> QED
  BY <1>8, <1>9, <1>10, <1>11

(* An asock that is made is in no list and nobody's.                       *)
LEMMA CreateStep ==
    ASSUME IInv, NEW a \in Asock, CreateAsock(a)
    PROVE  IInv'
<1> USE DEF IInv
<1>1. /\ con \in [Asock -> ConType] /\ files \in [FD -> Socket \union {Free}]
      /\ user \in [Asock -> {"none", "owner", "connecting", "destroying", "done"}]
      /\ m_new_connections \in Seq(Asock)
  BY DEF TypeOK, AsockTypeOK
<1>2. PICK f \in FD :
        /\ files' = [files EXCEPT ![f] = <<a, 0>>]
        /\ con' = [con EXCEPT ![a] = Created(f)]
  BY DEF CreateAsock, Open
<1>3. /\ pc = "directive" /\ con[a].life = "unborn" /\ user' = [user EXCEPT ![a] = "owner"]
      /\ pc' = "new" /\ i' = 1 /\ UNCHANGED <<m_in_queue, lists, cur, batch>>
  BY DEF CreateAsock, IsNext, StartNew, Goto
<1>4. Users(a) = 0 /\ InLists(a) = 0
  <2>1. con[a].m_ref_counter = 0
    BY <1>3, Numbers DEF Sound
  <2> QED
    BY <2>1, Numbers
<1>5. Created(f) \in ConType /\ Created(f).life = "live" /\ Created(f).m_ref_counter = 1
  <2>1. Unborn \in ConType
    BY AsockAssumption DEF Unborn, ConType
  <2>2. ASSUME NEW x \in ConType
        PROVE  LET y == [x EXCEPT !.life = "live", !.m_ref_counter = 1, !.m_sock_desc = f] IN
               y \in ConType /\ y.life = "live" /\ y.m_ref_counter = 1
    BY DEF ConType
  <2> QED
    BY <2>1, <2>2 DEF Created
<1>6. con' \in [Asock -> ConType] /\ con'[a] = Created(f)
      /\ \A b \in Asock \ {a} : con'[b] = con[b]
  BY <1>1, <1>2, <1>5
<1>7. Sound(con)'
  BY <1>5, <1>6 DEF Sound
<1>8. Kept' = Kept /\ Served' = Served
  <2>1. DOMAIN m_new_connections = 1 .. Len(m_new_connections)
    BY <1>1, PlacesFinite
  <2> QED
    BY <1>3, <2>1 DEF Kept, Served, Remaining, lists
<1>9. \A b \in Asock : InLists(b)' = InLists(b)
  BY <1>3, <1>8, SameLists
<1>10. ASSUME NEW b \in Asock
       PROVE  con'[b].m_ref_counter >= Users(b)' + InLists(b)'
  <2>1. CASE b = a
    <3>1. Users(a)' = 1
      BY <1>1, <1>3 DEF Users, UserHolds
    <3> QED
      BY <1>4, <1>5, <1>6, <1>9, <2>1, <3>1
  <2>2. CASE b # a
    <3>1. Users(b)' = Users(b)
      BY <1>1, <1>3, <2>2 DEF Users, UserHolds
    <3> QED
      BY <1>6, <1>9, <2>2, <3>1, Numbers
  <2> QED
    BY <2>1, <2>2
<1>11. files' \in [FD -> Socket \union {Free}]
  <2>1. <<a, 0>> \in Socket
    BY AsockAssumption DEF Socket
  <2> QED
    BY <1>1, <1>2, <2>1
<1>12. TypeOK'
  BY <1>1, <1>3, <1>6, <1>11 DEF TypeOK, AsockTypeOK, lists
<1>13. Places'
  BY <1>3 DEF Places
<1> QED
  BY <1>7, <1>10, <1>12, <1>13 DEF Covered

LEMMA NextIInv == IInv /\ [Next]_vars => IInv'
<1> SUFFICES ASSUME IInv, [Next]_vars
             PROVE  IInv'
  OBVIOUS
<1>1. CASE UNCHANGED vars
  <2>1. Kept' = Kept /\ Served' = Served /\ Alike(con, con')
    BY <1>1, AlikeSame DEF vars, Kept, Served, Remaining, lists
  <2>2. Sound(con)' /\ Covered'
    BY <1>1, <2>1, SameLists, AlikeCovers DEF vars, lists
  <2>3. TypeOK' /\ Places'
    BY <1>1 DEF vars, lists, IInv, TypeOK, AsockTypeOK, Places
  <2> QED
    BY <2>2, <2>3 DEF IInv
<1>2. CASE WorkerStep
  BY <1>2, QuietSteps, ClosingSteps, ConnectingSteps, StoppingSteps
  DEF WorkerStep, SharedStep
<1>3. CASE Stop
  BY <1>3, StoppingSteps
<1>4. ASSUME NEW a \in Asock,
             UserStep(a) \/ CreateAsock(a) \/ ConnectBegins(a) \/ ConnectEnds(a)
      PROVE  IInv'
  BY <1>4, UserSteps, CreateStep, ConnectEndsStep
<1> QED
  BY <1>1, <1>2, <1>3, <1>4 DEF Next

(* IInv holds throughout.                                                  *)
LEMMA Invariant == Spec => []IInv
BY InitIInv, NextIInv, PTL DEF Spec

-----------------------------------------------------------------------------
(* What the service has in its lists and what users have is never freed    *)
(* memory, for any number of asocks, numbers and connects, and although    *)
(* connections are found by numbers that may be mixed up                   *)
(* (asock_impl.c:146, asock_service.c:629).                                *)
THEOREM HeldCorrect == Spec => []HeldIsLive
BY Invariant, HeldFollows, PTL

(* The worker's list index stays in the list it goes through, whatever is  *)
(* closed meanwhile, and every field keeps its type (asock_service.c:683). *)
THEOREM TypeCorrect == Spec => []TypeOK
<1>1. IInv => TypeOK
  BY DEF IInv
<1> QED
  BY <1>1, Invariant, PTL

-----------------------------------------------------------------------------
(* One connect for each asock                                              *)

(* Where an asock is: with a thread that is about to append it, in the     *)
(* list of those to be connected, in that of the connections.              *)
Joining(a) == IF user[a] = "connecting" THEN 1 ELSE 0
Waiting(a) == Times(m_new_connections, Kept, a)
Serving(a) == Times(m_connections, Served, a)

(* An asock that is connected once is in one of these places at a time, in *)
(* the state that goes with it, and has a number as long as it is served.  *)
Once ==
    \A a \in Asock :
        /\ Joining(a) + Waiting(a) + Serving(a) <= con[a].connects
        /\ Joining(a) + Waiting(a) > 0 => con[a].m_state = "InProgress"
        /\ Serving(a) > 0 =>
            con[a].m_state \in {"InProgress", "Established"} /\ con[a].m_sock_desc \in FD
        /\ con[a].connects = 0 => con[a].m_state = "Idle"

(* What a step does to lists, counters and files, of each asock.           *)

(* It moves nothing, ...                                                   *)
Stays(a) ==
    /\ Joining(a)' = Joining(a) /\ Users(a)' = Users(a)
    /\ Waiting(a)' = Waiting(a) /\ Serving(a)' = Serving(a)

Moves(a, users, joining, waiting, serving) ==
    \A b \in Asock :
        /\ Users(b)' = Users(b) + (IF a = b THEN users ELSE 0)
        /\ Joining(b)' = Joining(b) + (IF a = b THEN joining ELSE 0)
        /\ Waiting(b)' = Waiting(b) + (IF a = b THEN waiting ELSE 0)
        /\ Serving(b)' = Serving(b) + (IF a = b THEN serving ELSE 0)

NothingMoves ==
    /\ Quiet(con, con') /\ UNCHANGED files
    /\ \A a \in Asock : Stays(a)

LEMMA WhereType ==
    ASSUME IInv, NEW a \in Asock
    PROVE  /\ Joining(a) \in {0, 1} /\ Users(a) \in Nat /\ Waiting(a) \in Nat /\ Serving(a) \in Nat
           /\ Serving(a) > 0 <=> \E k \in Served : m_connections[k] = a
           /\ Waiting(a) > 0 <=> \E k \in Kept : m_new_connections[k] = a
           /\ InLists(a) = Waiting(a) + Serving(a)
           /\ con[a].m_ref_counter \in Nat
           /\ con[a].m_ref_counter >= Users(a) + Waiting(a) + Serving(a)
           /\ con[a].connects \in 0 .. MaxConnects
<1>1. IsFiniteSet(Kept) /\ IsFiniteSet(Served)
  BY CountedPlaces DEF IInv
<1>2. /\ Waiting(a) \in Nat /\ Serving(a) \in Nat
      /\ Serving(a) > 0 <=> \E k \in Served : m_connections[k] = a
      /\ Waiting(a) > 0 <=> \E k \in Kept : m_new_connections[k] = a
  BY <1>1, TimesType DEF Waiting, Serving
<1>3. InLists(a) = Waiting(a) + Serving(a)
  BY DEF InLists, Waiting, Serving
<1>4. con[a].connects \in 0 .. MaxConnects
  BY DEF IInv, TypeOK, AsockTypeOK, ConType
<1> QED
  BY <1>2, <1>3, <1>4, Numbers DEF Joining

LEMMA StaysPut ==
    ASSUME UNCHANGED <<user, lists>>, Kept' = Kept, Served' = Served
    PROVE  \A a \in Asock : Stays(a)
BY DEF Stays, Joining, Users, UserHolds, Waiting, Serving, Times, lists

(* The steps that send, receive and wait, and those that only take the     *)
(* worker to another list.                                                 *)
LEMMA WorkerMovesNothing ==
    ASSUME IInv,
           \/ SendNothing \/ SendSome \/ HeadUnlock \/ SendDone \/ CheckDone
           \/ EpollWait(Monitored)
           \/ \E f \in FD : EventIn(f)
           \/ ReadSome \/ ReadAgain \/ EventsDone
           \/ NoDirective \/ NewDone \/ Stop \/ DropNewDone \/ DropDone
           \/ UNCHANGED vars
    PROVE  NothingMoves
<1>1. /\ m_connections \in Seq(Asock) /\ m_new_connections \in Seq(Asock) /\ i \in Nat
      /\ Len(m_connections) \in Nat /\ Len(m_new_connections) \in Nat
      /\ DOMAIN m_connections = 1 .. Len(m_connections)
      /\ DOMAIN m_new_connections = 1 .. Len(m_new_connections)
  BY PlacesFinite DEF IInv, TypeOK, AsockTypeOK
<1>2. CASE \/ SendNothing \/ SendSome \/ HeadUnlock \/ SendDone \/ CheckDone
           \/ EpollWait(Monitored)
           \/ \E f \in FD : EventIn(f)
           \/ ReadSome \/ ReadAgain \/ EventsDone
  <2>1. AsockTypeOK(Socket) /\ Indexed
    BY LoopPlaces
  <2>2. pc = "read" /\ files[cur] # Free => files[cur] \in Socket
    BY <2>1 DEF AsockTypeOK, Indexed
  <2>3. \/ SendNothing \/ SendSome \/ HeadUnlock \/ SendDone \/ CheckDone
        \/ \E M : EpollWait(M)
        \/ \E f \in FD : EventIn(f)
        \/ ReadSome \/ ReadAgain \/ EventsDone
    BY <1>2
  <2>4. /\ Quiet(con, con') /\ UNCHANGED <<user, files, lists>>
        /\ pc \in LoopStage /\ pc' \in LoopStage
    BY <2>1, <2>2, <2>3, SharedQuiet
  <2>5. Kept' = Kept /\ Served' = Served
    BY <2>4 DEF Kept, Served, Remaining, LoopStage, lists
  <2> QED
    BY <2>4, <2>5, StaysPut DEF NothingMoves
<1>3. CASE NoDirective \/ Stop \/ DropNewDone \/ DropDone \/ UNCHANGED vars
  <2>1. UNCHANGED <<con, user, files, lists>>
    BY <1>3 DEF NoDirective, Stop, DropNewDone, DropDone, vars
  <2>2. Kept' = Kept /\ Served' = Served
    BY <1>1, <1>3
    DEF NoDirective, Stop, DropNewDone, DropDone, vars, StartNew, StartAt, Goto,
        Kept, Served, Remaining, lists
  <2>3. Quiet(con, con')
    BY <2>1 DEF Quiet
  <2> QED
    BY <2>1, <2>2, <2>3, StaysPut DEF NothingMoves
<1>4. CASE NewDone
  <2>1. /\ pc = "new" /\ pc' = "send" /\ i > Len(m_new_connections)
        /\ m_new_connections' = << >>
        /\ UNCHANGED <<con, user, files, m_connections>>
    BY <1>4 DEF NewDone, StartAt, Goto
  <2>2. Kept = {} /\ Kept' = {} /\ Served' = Served
    <3>1. i .. Len(m_new_connections) = {}
      BY <1>1, <2>1
    <3> QED
      BY <2>1, <3>1 DEF Kept, Served, Remaining
  <2>3. \A a : /\ {k \in Kept : m_new_connections[k] = a} = {}
               /\ {k \in Kept' : m_new_connections'[k] = a} = {}
    BY <2>2
  <2>4. \A a : Waiting(a)' = Waiting(a) /\ Serving(a)' = Serving(a)
    BY <2>1, <2>2, <2>3 DEF Waiting, Serving, Times
  <2>5. Quiet(con, con')
    BY <2>1 DEF Quiet
  <2> QED
    BY <2>1, <2>4, <2>5 DEF NothingMoves, Stays, Joining, Users, UserHolds
<1> QED
  BY <1>2, <1>3, <1>4

LEMMA UserMovesNothing ==
    ASSUME IInv, NEW a \in Asock, DestroyBegins(a) \/ Write(a) \/ Read(a)
    PROVE  NothingMoves
<1>1. /\ con \in [Asock -> ConType]
      /\ user \in [Asock -> {"none", "owner", "connecting", "destroying", "done"}]
  BY DEF IInv, TypeOK, AsockTypeOK
<1>2. UNCHANGED <<files, lists, pc, i>>
  BY DEF DestroyBegins, Write, Read
<1>3. Quiet(con, con')
  BY <1>1 DEF DestroyBegins, Write, Read, Quiet, ConType
<1>4. \A b : Waiting(b)' = Waiting(b) /\ Serving(b)' = Serving(b)
  BY <1>2 DEF Waiting, Serving, Times, Kept, Served, Remaining, lists
<1>5. \A b \in Asock : Users(b)' = Users(b) /\ Joining(b)' = Joining(b)
  BY <1>1 DEF DestroyBegins, Write, Read, Users, UserHolds, Joining
<1> QED
  BY <1>2, <1>3, <1>4, <1>5 DEF NothingMoves, Stays

(* A connect takes a reference for the service, ...                        *)
LEMMA BeginMoves ==
    ASSUME IInv, NEW a \in Asock, ConnectBegins(a)
    PROVE  /\ Moves(a, 1, 1, 0, 0) /\ UNCHANGED files
           /\ con[a].connects < MaxConnects
           /\ con'[a].m_state = "InProgress"
           /\ con'[a].connects = con[a].connects + 1
           /\ con'[a].m_ref_counter = con[a].m_ref_counter + 1
           /\ con'[a].life = con[a].life
           /\ con'[a].m_sock_desc = con[a].m_sock_desc
           /\ \A b \in Asock \ {a} : con'[b] = con[b]
<1>1. /\ con \in [Asock -> ConType]
      /\ user \in [Asock -> {"none", "owner", "connecting", "destroying", "done"}]
  BY DEF IInv, TypeOK, AsockTypeOK
<1> DEFINE begun == [con[a] EXCEPT !.m_state = "InProgress", !.m_ref_counter = @ + 1]
           now == [begun EXCEPT !.connects = @ + 1]
<1>2. /\ user[a] = "owner" /\ user' = [user EXCEPT ![a] = "connecting"]
      /\ con[a].connects < MaxConnects
      /\ con' = [con EXCEPT ![a] = now]
      /\ UNCHANGED <<files, lists, pc, i>>
  BY DEF ConnectBegins, ConnectWith
<1>3. /\ now.m_state = "InProgress" /\ now.connects = con[a].connects + 1
      /\ now.m_ref_counter = con[a].m_ref_counter + 1
      /\ now.life = con[a].life /\ now.m_sock_desc = con[a].m_sock_desc
  BY <1>1 DEF ConType
<1> HIDE DEF now
<1>4. con'[a] = now /\ \A b \in Asock \ {a} : con'[b] = con[b]
  BY <1>1, <1>2
<1>5. \A b : Waiting(b)' = Waiting(b) /\ Serving(b)' = Serving(b)
  BY <1>2 DEF Waiting, Serving, Times, Kept, Served, Remaining, lists
<1>6. \A b \in Asock : /\ Users(b)' = Users(b) + (IF a = b THEN 1 ELSE 0)
                       /\ Joining(b)' = Joining(b) + (IF a = b THEN 1 ELSE 0)
  BY <1>1, <1>2 DEF Users, UserHolds, Joining
<1>7. Moves(a, 1, 1, 0, 0)
  BY <1>5, <1>6, WhereType DEF Moves
<1> QED
  BY <1>2, <1>3, <1>4, <1>7

(* ... which goes with the asock to the list.                              *)
LEMMA EndMoves ==
    ASSUME IInv, NEW a \in Asock, ConnectEnds(a)
    PROVE  Moves(a, -1, -1, 1, 0) /\ UNCHANGED <<con, files>>
<1>1. /\ m_new_connections \in Seq(Asock)
      /\ user \in [Asock -> {"none", "owner", "connecting", "destroying", "done"}]
  BY DEF IInv, TypeOK, AsockTypeOK
<1>2. /\ user[a] = "connecting" /\ pc # "new" /\ user' = [user EXCEPT ![a] = "owner"]
      /\ m_new_connections' = Append(m_new_connections, a)
      /\ UNCHANGED <<con, files, m_connections, pc, i>>
  BY DEF ConnectEnds
<1>3. pc \in LoopStage
  BY <1>2 DEF IInv, Places, TypeOK, LoopStage
<1>4. /\ Kept = DOMAIN m_new_connections /\ Kept' = DOMAIN m_new_connections'
      /\ Served' = Served
  BY <1>2, <1>3 DEF Kept, Served, Remaining, LoopStage
<1>5. DOMAIN m_new_connections' = DOMAIN m_new_connections \union {Len(m_new_connections) + 1}
  <2>1. /\ m_new_connections' \in Seq(Asock)
        /\ Len(m_new_connections') = Len(m_new_connections) + 1
    BY <1>1, <1>2, AppendProperties
  <2> QED
    BY <1>1, <2>1, PlacesFinite
<1>6. \A b \in Asock : Times(m_new_connections', Kept', b)
                          = Times(m_new_connections, Kept, b) + (IF a = b THEN 1 ELSE 0)
  BY <1>1, <1>2, <1>4, <1>5, TimesAppend
<1>7. \A b \in Asock : /\ Waiting(b)' = Waiting(b) + (IF a = b THEN 1 ELSE 0)
                       /\ Serving(b)' = Serving(b)
  BY <1>2, <1>4, <1>6 DEF Waiting, Serving, Times
<1>8. \A b \in Asock : /\ Users(b)' = Users(b) - (IF a = b THEN 1 ELSE 0)
                       /\ Joining(b)' = Joining(b) - (IF a = b THEN 1 ELSE 0)
  BY <1>1, <1>2 DEF Users, UserHolds, Joining
<1>9. \A b \in Asock :
        Users(b) \in Nat /\ Joining(b) \in Nat /\ Waiting(b) \in Nat /\ Serving(b) \in Nat
  BY WhereType
<1>10. Moves(a, -1, -1, 1, 0)
  BY <1>7, <1>8, <1>9 DEF Moves
<1> QED
  BY <1>2, <1>10

(* An asock comes into being with its user and a socket.                   *)
LEMMA CreateMoves ==
    ASSUME IInv, NEW a \in Asock, CreateAsock(a)
    PROVE  /\ Moves(a, 1, 0, 0, 0)
           /\ pc = "directive"
           /\ con[a].life = "unborn" /\ con[a].m_ref_counter = 0
           /\ \E f \in FD :
                /\ files[f] = Free
                /\ files' = [files EXCEPT ![f] = <<a, 0>>]
                /\ con'[a].m_sock_desc = f
           /\ con'[a].m_state = "Idle" /\ con'[a].connects = 0
           /\ con'[a].life = "live" /\ con'[a].m_ref_counter = 1
           /\ \A b \in Asock \ {a} : con'[b] = con[b]
<1>1. /\ con \in [Asock -> ConType]
      /\ user \in [Asock -> {"none", "owner", "connecting", "destroying", "done"}]
      /\ m_new_connections \in Seq(Asock)
  BY DEF IInv, TypeOK, AsockTypeOK
<1>2. PICK f \in FD :
        /\ files[f] = Free
        /\ files' = [files EXCEPT ![f] = <<a, 0>>]
        /\ con' = [con EXCEPT ![a] = Created(f)]
  BY DEF CreateAsock, Open, LowestFree
<1>3. /\ pc = "directive" /\ con[a].life = "unborn" /\ user' = [user EXCEPT ![a] = "owner"]
      /\ pc' = "new" /\ i' = 1 /\ UNCHANGED lists
  BY DEF CreateAsock, IsNext, StartNew, Goto
<1>4. con[a].m_ref_counter = 0 /\ Users(a) = 0
  <2>1. con[a].m_ref_counter = 0
    BY <1>3, Numbers DEF IInv, Sound
  <2> QED
    BY <2>1, Numbers
<1>5. /\ con'[a] = Created(f)
      /\ \A b \in Asock \ {a} : con'[b] = con[b]
  BY <1>1, <1>2
<1>6. /\ Created(f).m_state = "Idle" /\ Created(f).connects = 0
      /\ Created(f).life = "live" /\ Created(f).m_ref_counter = 1
      /\ Created(f).m_sock_desc = f
  BY DEF Created, Unborn
<1>7. Kept' = Kept /\ Served' = Served
  <2>1. DOMAIN m_new_connections = 1 .. Len(m_new_connections)
    BY <1>1, PlacesFinite
  <2> QED
    BY <1>3, <2>1 DEF Kept, Served, Remaining, lists
<1>8. \A b : Waiting(b)' = Waiting(b) /\ Serving(b)' = Serving(b)
  BY <1>3, <1>7 DEF Waiting, Serving, Times, lists
<1>9. \A b \in Asock : /\ Users(b)' = Users(b) + (IF a = b THEN 1 ELSE 0)
                       /\ Joining(b)' = Joining(b)
  <2>1. user[a] \notin {"owner", "connecting", "destroying"}
    BY <1>4 DEF Users, UserHolds
  <2>2. \A b \in Asock : user'[b] = IF a = b THEN "owner" ELSE user[b]
    BY <1>1, <1>3
  <2>3. Users(a)' = 1 /\ Joining(a)' = 0 /\ Joining(a) = 0
    BY <2>1, <2>2 DEF Users, UserHolds, Joining
  <2>4. \A b \in Asock \ {a} : Users(b)' = Users(b) /\ Joining(b)' = Joining(b)
    BY <2>2 DEF Users, UserHolds, Joining
  <2>5. \A b \in Asock : Users(b) \in Nat
    BY Numbers
  <2> QED
    BY <1>4, <2>3, <2>4, <2>5
<1>10. \A b \in Asock :
         Users(b) \in Nat /\ Joining(b) \in Nat /\ Waiting(b) \in Nat /\ Serving(b) \in Nat
  BY WhereType
<1>11. Moves(a, 1, 0, 0, 0)
  BY <1>8, <1>9, <1>10 DEF Moves
<1> QED
  BY <1>2, <1>3, <1>4, <1>5, <1>6, <1>11

(* The place of the asock that the worker connects.                        *)
LEMMA NextNew ==
    ASSUME IInv, pc = "new", i <= Len(m_new_connections)
    PROVE  LET a == m_new_connections[i] IN
           /\ a \in Asock /\ Waiting(a) > 0
           /\ i + 1 .. Len(m_new_connections) = Kept \ {i}
           /\ \A b \in Asock : Times(m_new_connections, Kept \ {i}, b)
                                  = Waiting(b) - (IF a = b THEN 1 ELSE 0)
<1>1. /\ m_new_connections \in Seq(Asock) /\ i \in Nat
      /\ Len(m_new_connections) \in Nat
      /\ DOMAIN m_new_connections = 1 .. Len(m_new_connections)
  BY PlacesFinite DEF IInv, TypeOK, AsockTypeOK
<1>2. i > 0 /\ Kept = i .. Len(m_new_connections)
  BY DEF IInv, Places, Kept
<1>3. i \in Kept /\ i + 1 .. Len(m_new_connections) = Kept \ {i}
  BY <1>1, <1>2
<1>4. m_new_connections[i] \in Asock
  BY <1>1, <1>2, ElementOfSeq
<1>5. IsFiniteSet(Kept)
  BY CountedPlaces DEF IInv
<1>6. \A b \in Asock :
        Times(m_new_connections, Kept \ {i}, b)
          = Times(m_new_connections, Kept, b) - (IF m_new_connections[i] = b THEN 1 ELSE 0)
  BY <1>3, <1>5, TimesLess
<1>7. Waiting(m_new_connections[i]) > 0
  BY <1>3, <1>4, WhereType
<1> QED
  BY <1>3, <1>4, <1>6, <1>7 DEF Waiting

(* A connect that gets under way: the asock passes from the one list to    *)
(* the other, with the number of a new socket.                             *)
LEMMA TryMoves ==
    ASSUME IInv, TryConnect
    PROVE  \E a \in Asock :
             /\ Moves(a, 0, 0, -1, 1) /\ Waiting(a) > 0
             /\ pc = "new"
             /\ \E f \in FD :
                  /\ files[f] = Free
                  /\ files' = [files EXCEPT ![f] = <<a, con[a].connects>>]
                  /\ con'[a].m_sock_desc = f
             /\ con'[a].m_state \in {"InProgress", "Established"}
             /\ con'[a].connects = con[a].connects
             /\ con'[a].life = con[a].life
             /\ con'[a].m_ref_counter = con[a].m_ref_counter
             /\ \A b \in Asock \ {a} : con'[b] = con[b]
<1> DEFINE a == m_new_connections[i]
           n == Len(m_connections) + 1
<1>1. /\ pc = "new" /\ pc' = "new" /\ i <= Len(m_new_connections) /\ i' = i + 1
      /\ UNCHANGED <<user, m_new_connections>>
      /\ m_connections' = Append(m_connections, a)
  BY DEF TryConnect
<1>2. PICK f \in FD, state \in {"InProgress", "Established"} :
        /\ files[f] = Free
        /\ files' = [files EXCEPT ![f] = <<a, con[a].connects>>]
        /\ con' = [con EXCEPT ![a].m_sock_desc = f, ![a].m_state = state]
  BY DEF TryConnect, Open, LowestFree
<1>3. con \in [Asock -> ConType] /\ m_connections \in Seq(Asock)
  BY DEF IInv, TypeOK, AsockTypeOK
<1>4. /\ a \in Asock /\ Waiting(a) > 0
      /\ i + 1 .. Len(m_new_connections) = Kept \ {i}
      /\ \A b \in Asock : Times(m_new_connections, Kept \ {i}, b)
                            = Waiting(b) - (IF a = b THEN 1 ELSE 0)
  BY <1>1, NextNew
<1>5. Kept' = Kept \ {i}
  BY <1>1, <1>4 DEF Kept
<1> HIDE DEF a
<1>6. Len(m_connections') = n
  BY <1>1, <1>3, <1>4, AppendProperties
<1>7. Served = DOMAIN m_connections /\ Served' = Served \union {n}
  <2>1. /\ DOMAIN m_connections = 1 .. Len(m_connections) /\ Len(m_connections) \in Nat
        /\ DOMAIN m_connections' = 1 .. n
    BY <1>1, <1>3, <1>4, <1>6, AppendProperties, PlacesFinite
  <2> QED
    BY <1>1, <2>1 DEF Served, Remaining
<1>8. \A b \in Asock :
        Times(m_connections', Served', b)
            = Times(m_connections, Served, b) + (IF a = b THEN 1 ELSE 0)
  BY <1>1, <1>3, <1>4, <1>7, TimesAppend
<1>9. \A b \in Asock : /\ Waiting(b)' = Waiting(b) - (IF a = b THEN 1 ELSE 0)
                       /\ Serving(b)' = Serving(b) + (IF a = b THEN 1 ELSE 0)
  BY <1>1, <1>4, <1>5, <1>8 DEF Waiting, Serving, Times
<1>10. \A b \in Asock :
         Users(b) \in Nat /\ Joining(b) \in Nat /\ Waiting(b) \in Nat /\ Serving(b) \in Nat
  BY WhereType
<1>11. \A b \in Asock : Users(b)' = Users(b) /\ Joining(b)' = Joining(b)
  BY <1>1 DEF Users, UserHolds, Joining
<1>12. Moves(a, 0, 0, -1, 1)
  BY <1>9, <1>10, <1>11 DEF Moves
<1>13. /\ con'[a].m_sock_desc = f /\ con'[a].m_state = state
       /\ con'[a].connects = con[a].connects
       /\ con'[a].life = con[a].life
       /\ con'[a].m_ref_counter = con[a].m_ref_counter
       /\ \A b \in Asock \ {a} : con'[b] = con[b]
  BY <1>2, <1>3, <1>4 DEF ConType
<1> QED
  BY <1>1, <1>2, <1>4, <1>12, <1>13

(* One reference less, ...                                                 *)
LEMMA DroppedFields ==
    ASSUME IInv, NEW a \in Asock, con[a].m_ref_counter > 0, con' = Dropped(con, a)
    PROVE  \A b \in Asock :
             /\ con'[b].m_ref_counter = con[b].m_ref_counter - (IF a = b THEN 1 ELSE 0)
             /\ con'[b].life = IF a = b /\ con[a].m_ref_counter = 1 THEN "freed" ELSE con[b].life
             /\ con'[b].m_sock_desc = con[b].m_sock_desc
             /\ con'[b].m_state = con[b].m_state
             /\ con'[b].connects = con[b].connects
<1>1. con \in [Asock -> ConType]
  BY DEF IInv, TypeOK, AsockTypeOK
<1> QED
  BY <1>1, DroppedProperties

(* ... the user's, or that of a place of the lists.                        *)
LEMMA DropMoves ==
    ASSUME IInv, DropNew \/ Drop \/ \E a \in Asock : DestroyEnds(a)
    PROVE  \E a \in Asock :
             /\ Moves(a, 0, 0, -1, 0) \/ Moves(a, 0, 0, 0, -1) \/ Moves(a, -1, 0, 0, 0)
             /\ con[a].m_ref_counter > 0
             /\ con' = Dropped(con, a)
             /\ files' = DroppedFiles(con, files, a)
<1>1. /\ m_connections \in Seq(Asock) /\ m_new_connections \in Seq(Asock) /\ i \in Nat
      /\ user \in [Asock -> {"none", "owner", "connecting", "destroying", "done"}]
      /\ Len(m_connections) \in Nat /\ Len(m_new_connections) \in Nat
      /\ DOMAIN m_connections = 1 .. Len(m_connections)
      /\ DOMAIN m_new_connections = 1 .. Len(m_new_connections)
  BY PlacesFinite DEF IInv, TypeOK, AsockTypeOK
<1>2. IsFiniteSet(Kept) /\ IsFiniteSet(Served)
  BY CountedPlaces DEF IInv
<1>3. \A b \in Asock :
        Users(b) \in Nat /\ Joining(b) \in Nat /\ Waiting(b) \in Nat /\ Serving(b) \in Nat
  BY WhereType
<1>4. CASE DropNew
  <2> DEFINE a == m_new_connections[i]
  <2>1. /\ pc = "drop_new" /\ pc' = "drop_new" /\ i > 0 /\ i' = i - 1
        /\ UNCHANGED <<user, lists>>
        /\ con' = Dropped(con, a) /\ files' = DroppedFiles(con, files, a)
    BY <1>4 DEF DropNew, DropNext
  <2>2. Kept = 1 .. i /\ i \in Kept /\ Kept' = Kept \ {i} /\ Served' = Served
    BY <1>1, <2>1 DEF Kept, Served, Remaining, lists
  <2>3. a \in Asock
    <3>1. i \in 1 .. Len(m_new_connections)
      BY <1>1, <2>1 DEF IInv, Places
    <3> QED
      BY <1>1, <3>1, ElementOfSeq
  <2>4. Waiting(a) > 0
    BY <2>2, <2>3, WhereType
  <2>5. \A b \in Asock : Times(m_new_connections, Kept \ {i}, b)
                            = Times(m_new_connections, Kept, b) - (IF a = b THEN 1 ELSE 0)
    BY <1>2, <2>2, TimesLess
  <2> HIDE DEF a
  <2>6. \A b \in Asock : /\ Waiting(b)' = Waiting(b) - (IF a = b THEN 1 ELSE 0)
                         /\ Serving(b)' = Serving(b)
    BY <2>1, <2>2, <2>5 DEF Waiting, Serving, Times, lists
  <2>7. \A b \in Asock : Users(b)' = Users(b) /\ Joining(b)' = Joining(b)
    BY <2>1 DEF Users, UserHolds, Joining
  <2>8. Moves(a, 0, 0, -1, 0)
    BY <1>3, <2>6, <2>7 DEF Moves
  <2>9. con[a].m_ref_counter > 0
    BY <2>3, <2>4, WhereType
  <2> QED
    BY <2>1, <2>3, <2>8, <2>9
<1>5. CASE Drop
  <2> DEFINE a == m_connections[i]
  <2>1. /\ pc = "drop" /\ pc' = "drop" /\ i > 0 /\ i' = i - 1
        /\ UNCHANGED <<user, lists>>
        /\ con' = Dropped(con, a) /\ files' = DroppedFiles(con, files, a)
    BY <1>5 DEF Drop, DropNext
  <2>2. Served = 1 .. i /\ i \in Served /\ Served' = Served \ {i} /\ Kept' = Kept
    BY <1>1, <2>1 DEF Kept, Served, Remaining, lists
  <2>3. a \in Asock
    <3>1. i \in 1 .. Len(m_connections)
      BY <1>1, <2>1 DEF IInv, Places
    <3> QED
      BY <1>1, <3>1, ElementOfSeq
  <2>4. Serving(a) > 0
    BY <2>2, <2>3, WhereType
  <2>5. \A b \in Asock : Times(m_connections, Served \ {i}, b)
                            = Times(m_connections, Served, b) - (IF a = b THEN 1 ELSE 0)
    BY <1>2, <2>2, TimesLess
  <2> HIDE DEF a
  <2>6. \A b \in Asock : /\ Serving(b)' = Serving(b) - (IF a = b THEN 1 ELSE 0)
                         /\ Waiting(b)' = Waiting(b)
    BY <2>1, <2>2, <2>5 DEF Waiting, Serving, Times, lists
  <2>7. \A b \in Asock : Users(b)' = Users(b) /\ Joining(b)' = Joining(b)
    BY <2>1 DEF Users, UserHolds, Joining
  <2>8. Moves(a, 0, 0, 0, -1)
    BY <1>3, <2>6, <2>7 DEF Moves
  <2>9. con[a].m_ref_counter > 0
    BY <2>3, <2>4, WhereType
  <2> QED
    BY <2>1, <2>3, <2>8, <2>9
<1>6. ASSUME NEW a \in Asock, DestroyEnds(a)
      PROVE  /\ Moves(a, -1, 0, 0, 0) /\ con[a].m_ref_counter > 0
             /\ con' = Dropped(con, a) /\ files' = DroppedFiles(con, files, a)
  <2>1. /\ user[a] = "destroying" /\ user' = [user EXCEPT ![a] = "done"]
        /\ con' = Dropped(con, a) /\ files' = DroppedFiles(con, files, a)
        /\ UNCHANGED <<lists, pc, i>>
    BY <1>6 DEF DestroyEnds
  <2>2. Users(a) > 0
    BY <2>1 DEF Users, UserHolds
  <2>3. con[a].m_ref_counter > 0
    BY <2>2, Numbers
  <2>4. \A b \in Asock : /\ Users(b)' = Users(b) - (IF a = b THEN 1 ELSE 0)
                         /\ Joining(b)' = Joining(b)
    BY <1>1, <2>1 DEF Users, UserHolds, Joining
  <2>5. \A b : Waiting(b)' = Waiting(b) /\ Serving(b)' = Serving(b)
    BY <2>1 DEF Waiting, Serving, Times, Kept, Served, Remaining, lists
  <2>6. Moves(a, -1, 0, 0, 0)
    BY <1>3, <2>4, <2>5 DEF Moves
  <2> QED
    BY <2>1, <2>3, <2>6
<1> QED
  BY <1>4, <1>5, <1>6

(* A connect that fails on the way.                                        *)
LEMMA RefuseMoves ==
    ASSUME IInv, TryConnectFails
    PROVE  \E a \in Asock :
             /\ Moves(a, 0, 0, -1, 0) /\ Waiting(a) > 0 /\ UNCHANGED files
             /\ con'[a].m_sock_desc = NoFd /\ con'[a].m_state = "Failed"
             /\ con'[a].connects = con[a].connects
             /\ con'[a].m_ref_counter = con[a].m_ref_counter - 1
             /\ con'[a].life = IF con[a].m_ref_counter = 1 THEN "freed" ELSE con[a].life
             /\ \A b \in Asock \ {a} : con'[b] = con[b]
<1> DEFINE a == m_new_connections[i]
<1>1. /\ pc = "new" /\ pc' = "new" /\ i <= Len(m_new_connections) /\ i' = i + 1
      /\ UNCHANGED <<user, files, lists>>
      /\ con' = Dropped(Refused, a)
  BY DEF TryConnectFails, Refuse
<1>2. con \in [Asock -> ConType]
  BY DEF IInv, TypeOK, AsockTypeOK
<1>3. /\ a \in Asock /\ Waiting(a) > 0
      /\ i + 1 .. Len(m_new_connections) = Kept \ {i}
      /\ \A b \in Asock : Times(m_new_connections, Kept \ {i}, b)
                            = Waiting(b) - (IF a = b THEN 1 ELSE 0)
  BY <1>1, NextNew
<1>4. Refused = [con EXCEPT ![a].m_sock_desc = NoFd, ![a].m_state = "Failed"]
  BY DEF Refused
<1> HIDE DEF a
<1>5. Kept' = Kept \ {i} /\ Served' = Served
  BY <1>1, <1>3 DEF Kept, Served, Remaining, lists
<1>6. \A b \in Asock : /\ Waiting(b)' = Waiting(b) - (IF a = b THEN 1 ELSE 0)
                       /\ Serving(b)' = Serving(b)
  BY <1>1, <1>3, <1>5 DEF Waiting, Serving, Times, lists
<1>7. \A b \in Asock : Users(b)' = Users(b) /\ Joining(b)' = Joining(b)
  BY <1>1 DEF Users, UserHolds, Joining
<1>8. \A b \in Asock :
        Users(b) \in Nat /\ Joining(b) \in Nat /\ Waiting(b) \in Nat /\ Serving(b) \in Nat
  BY WhereType
<1>9. Moves(a, 0, 0, -1, 0)
  BY <1>6, <1>7, <1>8 DEF Moves
<1>10. /\ Refused[a].m_sock_desc = NoFd /\ Refused[a].m_state = "Failed"
       /\ Refused[a].connects = con[a].connects
       /\ Refused[a].m_ref_counter = con[a].m_ref_counter
       /\ Refused[a].life = con[a].life
       /\ Refused \in [Asock -> ConType]
       /\ \A b \in Asock \ {a} : Refused[b] = con[b]
  <2>1. /\ Refused[a].m_sock_desc = NoFd /\ Refused[a].m_state = "Failed"
        /\ Refused[a].connects = con[a].connects
        /\ Refused[a].m_ref_counter = con[a].m_ref_counter
        /\ Refused[a].life = con[a].life
    BY <1>2, <1>3, <1>4 DEF ConType
  <2>2. \A b \in Asock \ {a} : Refused[b] = con[b]
    BY <1>2, <1>3, <1>4
  <2>3. NoFd \in FD \union {NoFd} /\ 0 \in 0 .. MaxOut
        /\ "Failed" \in {"Idle", "InProgress", "Established", "Failed"}
    BY AsockAssumption
  <2>4. Refused \in [Asock -> ConType]
    BY <1>2, <1>3, <1>4, <2>3, FieldUpdates
  <2> QED
    BY <2>1, <2>2, <2>4
<1>11. Refused[a].m_ref_counter > 0
  BY <1>3, <1>10, WhereType
<1>12. /\ con'[a].m_sock_desc = NoFd /\ con'[a].m_state = "Failed"
       /\ con'[a].connects = con[a].connects
       /\ con'[a].m_ref_counter = con[a].m_ref_counter - 1
       /\ con'[a].life = IF con[a].m_ref_counter = 1 THEN "freed" ELSE con[a].life
  BY <1>1, <1>3, <1>10, <1>11, DroppedProperties
<1>13. \A b \in Asock \ {a} : con'[b] = con[b]
  BY <1>1, <1>10 DEF Dropped
<1> QED
  BY <1>1, <1>3, <1>9, <1>12, <1>13

(* The kernel tells that a connection is established: nothing moves, and   *)
(* one that is served may come to that state.                              *)
LEMMA EstablishMoves ==
    ASSUME IInv, NEW f \in FD, EventOut(f)
    PROVE  \/ NothingMoves
           \/ \E a \in Asock :
                /\ Serving(a) > 0 /\ (\A b \in Asock : Stays(b)) /\ UNCHANGED files
                /\ con'[a].m_state = "Established"
                /\ con'[a].connects = con[a].connects
                /\ con'[a].life = con[a].life
                /\ con'[a].m_sock_desc = con[a].m_sock_desc
                /\ con'[a].m_ref_counter = con[a].m_ref_counter
                /\ \A b \in Asock \ {a} : con'[b] = con[b]
<1> DEFINE k == IndexBySockDesc(m_connections, f)
           a == m_connections[k]
<1>1. con \in [Asock -> ConType] /\ m_connections \in Seq(Asock)
  BY DEF IInv, TypeOK, AsockTypeOK
<1>2. /\ pc = "event" /\ UNCHANGED <<user, files, lists, pc, i>>
      /\ con' = IF k = 0 THEN con ELSE [con EXCEPT ![a].m_state = "Established"]
  BY DEF EventOut, EventOutWith
<1>3. k # 0 => k \in DOMAIN m_connections /\ a \in Asock
  BY <1>1, IndexProperties, PlacesFinite, ElementOfSeq
<1>4. \A b \in Asock : Stays(b)
  <2>1. Kept' = Kept /\ Served' = Served
    BY <1>2 DEF Kept, Served, Remaining, lists
  <2> QED
    BY <1>2, <2>1, StaysPut
<1>5. CASE k = 0
  BY <1>2, <1>4, <1>5 DEF NothingMoves, Quiet
<1>6. CASE k # 0
  <2>1. Serving(a) > 0
    <3>1. Served = DOMAIN m_connections
      BY <1>2, WholeLists DEF LoopStage
    <3> QED
      BY <1>3, <1>6, <3>1, WhereType
  <2> HIDE DEF a, k
  <2>2. /\ con'[a].m_state = "Established"
        /\ con'[a].connects = con[a].connects
        /\ con'[a].life = con[a].life
        /\ con'[a].m_sock_desc = con[a].m_sock_desc
        /\ con'[a].m_ref_counter = con[a].m_ref_counter
        /\ \A b \in Asock \ {a} : con'[b] = con[b]
    BY <1>1, <1>2, <1>3, <1>6 DEF ConType
  <2> QED
    BY <1>2, <1>3, <1>4, <1>6, <2>1, <2>2
<1> QED
  BY <1>5, <1>6

(* The numbers that events are still to be handled, or read, for.          *)
Watched(f) == (pc \in {"event", "read"} /\ f \in batch) \/ (pc = "read" /\ f = cur)

(* What is closed is one of these, or that of a connection.                *)
Named(sockd) ==
    \/ sockd \in FD /\ Watched(sockd)
    \/ \E a \in Asock : Serving(a) > 0 /\ con[a].m_sock_desc = sockd

LEMMA CloseNames ==
    ASSUME IInv,
           \/ SendFails \/ CheckForClose \/ ReadEnds
           \/ \E f \in FD : EventClose(f) \/ EventOutFails(f)
    PROVE  \/ UNCHANGED <<con, files, lists>>
           \/ \E sockd : CloseConnection(sockd) /\ Named(sockd)
<1>1. ASSUME pc \in {"send", "check"}, i > 0
      PROVE  Named(con[m_connections[i]].m_sock_desc)
  <2>1. /\ m_connections \in Seq(Asock) /\ i \in Nat
        /\ DOMAIN m_connections = 1 .. Len(m_connections)
        /\ Len(m_connections) \in Nat
    BY PlacesFinite DEF IInv, TypeOK, AsockTypeOK
  <2>2. i \in DOMAIN m_connections
    BY <1>1, <2>1 DEF IInv, Places
  <2>3. Served = DOMAIN m_connections
    BY <1>1, WholeLists DEF LoopStage
  <2>4. m_connections[i] \in Asock
    BY <2>1, <2>2, ElementOfSeq
  <2>5. Serving(m_connections[i]) > 0
    BY <2>2, <2>3, <2>4, WhereType
  <2> QED
    BY <2>4, <2>5 DEF Named
<1>2. CASE SendFails
  BY <1>1, <1>2 DEF SendFails
<1>3. CASE CheckForClose
  BY <1>1, <1>3 DEF CheckForClose
<1>4. CASE ReadEnds
  <2>1. pc = "read" /\ CloseConnection(cur) /\ cur \in FD
    BY <1>4 DEF ReadEnds, IInv, Places
  <2> QED
    BY <2>1 DEF Named, Watched
<1>5. ASSUME NEW f \in FD, EventClose(f) \/ EventOutFails(f)
      PROVE  CloseConnection(f) /\ Named(f)
  BY <1>5 DEF EventClose, EventOutFails, Named, Watched
<1> QED
  BY <1>2, <1>3, <1>4, <1>5

(* A close: one that is served goes with its reference, its state and its  *)
(* number, and what waits under that number may be forgotten, with its     *)
(* reference.                                                              *)
Forgets(sockd) ==
    \A b \in Asock :
        /\ Users(b)' = Users(b) /\ Joining(b)' = Joining(b)
        /\ \/ Waiting(b)' = Waiting(b)
           \/ con[b].m_sock_desc = sockd /\ Waiting(b)' = Waiting(b) - 1

ClosesOne(a) ==
    /\ Serving(a) > 0 /\ con[a].m_ref_counter > 0
    /\ files' = ClosedFile(files, con[a].m_sock_desc)
    /\ \A b \in Asock :
        /\ Serving(b)' = Serving(b) - (IF a = b THEN 1 ELSE 0)
        /\ con'[b].m_ref_counter = con[b].m_ref_counter - (IF a = b THEN 1 ELSE 0)
        /\ con'[b].life
              = IF a = b /\ con[b].m_ref_counter = 1 THEN "freed" ELSE con[b].life
        /\ con'[b].m_state = IF a = b THEN "Failed" ELSE con[b].m_state
        /\ con'[b].m_sock_desc = con[b].m_sock_desc
        /\ con'[b].connects = con[b].connects

LEMMA CloseMoves ==
    ASSUME IInv,
           \/ SendFails \/ CheckForClose \/ ReadEnds
           \/ \E f \in FD : EventClose(f) \/ EventOutFails(f)
    PROVE  \/ NothingMoves
           \/ \E sockd :
                /\ Forgets(sockd) /\ Named(sockd)
                /\ \/ /\ UNCHANGED <<con, files>>
                      /\ \A b \in Asock : Serving(b)' = Serving(b)
                      /\ \A b \in Asock : con[b].m_sock_desc = sockd => Serving(b) = 0
                   \/ \E a \in Asock : con[a].m_sock_desc = sockd /\ ClosesOne(a)
<1>1. AsockTypeOK(Socket) /\ Indexed
  BY LoopPlaces
<1>2. /\ pc \in LoopStage
      /\ \A a \in Asock : All(m_connections, a) > 0 => con[a].m_ref_counter > 0
  <2>1. pc \in LoopStage
    BY DEF SendFails, CheckForClose, ReadEnds, EventClose, EventOutFails, LoopStage
  <2> QED
    BY <2>1, ServedCounted
<1>3. /\ pc' \in LoopStage /\ UNCHANGED user
      /\ \/ UNCHANGED <<con, files, lists>>
         \/ \E sockd : CloseConnection(sockd) /\ Named(sockd)
  <2>1. CASE \/ SendFails \/ CheckForClose \/ ReadEnds
             \/ \E f \in FD : EventClose(f)
    <3>1. pc' \in LoopStage /\ UNCHANGED user
      BY <1>1, <1>2, <2>1, SharedCloses
    <3> QED
      BY <2>1, <3>1, CloseNames
  <2>2. ASSUME NEW f \in FD, EventOutFails(f)
        PROVE  pc' \in LoopStage /\ UNCHANGED user
    BY <1>2, <2>2 DEF EventOutFails
  <2> QED
    BY <2>1, <2>2, CloseNames
<1>4. \A b \in Asock : Users(b)' = Users(b) /\ Joining(b)' = Joining(b)
  BY <1>3 DEF Users, UserHolds, Joining
<1>5. \A b : Waiting(b) = All(m_new_connections, b) /\ Serving(b) = All(m_connections, b)
  BY <1>2, WholeLists DEF Waiting, Serving, All
<1>6. \A b : /\ Waiting(b)' = All(m_new_connections', b)
             /\ Serving(b)' = All(m_connections', b)
  BY <1>3 DEF Kept, Served, Remaining, LoopStage, Waiting, Serving, All, Times
<1>7. CASE UNCHANGED <<con, files, lists>>
  BY <1>4, <1>5, <1>6, <1>7 DEF NothingMoves, Quiet, Stays, lists
<1>8. ASSUME NEW sockd, CloseConnection(sockd)
      PROVE  /\ Forgets(sockd)
             /\ \/ /\ UNCHANGED <<con, files>>
                   /\ \A b \in Asock : Serving(b)' = Serving(b)
                   /\ \A b \in Asock : con[b].m_sock_desc = sockd => Serving(b) = 0
                \/ \E a \in Asock : con[a].m_sock_desc = sockd /\ ClosesOne(a)
  <2>1. /\ con \in [Asock -> ConType] /\ files \in [FD -> Socket \union {Free}]
        /\ m_connections \in Seq(Asock) /\ m_new_connections \in Seq(Asock)
    BY <1>1 DEF AsockTypeOK
  <2>2. /\ \A b \in Asock :
              \/ All(m_new_connections', b) = All(m_new_connections, b)
              \/ /\ con[b].m_sock_desc = sockd
                 /\ All(m_new_connections', b) = All(m_new_connections, b) - 1
        /\ \/ /\ UNCHANGED <<con, files, m_connections>>
              /\ \A b \in Asock : con[b].m_sock_desc = sockd => All(m_connections, b) = 0
           \/ \E a \in Asock : con[a].m_sock_desc = sockd /\ Closes(a)
    BY <1>2, <1>8, <2>1, CloseEffect
  <2>3. Forgets(sockd)
    BY <1>4, <1>5, <1>6, <2>2 DEF Forgets
  <2>4. \A a \in Asock : Closes(a) => ClosesOne(a)
    BY <1>2, <1>5, <1>6 DEF Closes, ClosesOne
  <2>5. UNCHANGED m_connections => \A b \in Asock : Serving(b)' = Serving(b)
    BY <1>5, <1>6 DEF All, Times
  <2> QED
    BY <1>5, <2>2, <2>3, <2>4, <2>5
<1> QED
  BY <1>3, <1>7, <1>8

(* Which of these a step is.                                               *)
LEMMA StepKinds ==
    ASSUME IInv, [Next]_vars
    PROVE  \/ NothingMoves
           \/ \E a \in Asock : ConnectBegins(a) \/ ConnectEnds(a) \/ CreateAsock(a)
           \/ TryConnect \/ TryConnectFails
           \/ \E f \in FD : EventOut(f)
           \/ \/ SendFails \/ CheckForClose \/ ReadEnds
              \/ \E f \in FD : EventClose(f) \/ EventOutFails(f)
           \/ DropNew \/ Drop \/ \E a \in Asock : DestroyEnds(a)
<1>1. CASE UNCHANGED vars
  BY <1>1, WorkerMovesNothing
<1>2. CASE WorkerStep
  BY <1>2, WorkerMovesNothing DEF WorkerStep, SharedStep
<1>3. CASE Stop
  BY <1>3, WorkerMovesNothing
<1>4. ASSUME NEW a \in Asock, UserStep(a)
      PROVE  NothingMoves \/ DestroyEnds(a)
  BY <1>4, UserMovesNothing DEF UserStep
<1> QED
  BY <1>1, <1>2, <1>3, <1>4 DEF Next

(* What WhereType says, of all asocks; it holds after a step as before.    *)
Where ==
    \A a \in Asock :
        /\ Joining(a) \in {0, 1} /\ Users(a) \in Nat /\ Waiting(a) \in Nat /\ Serving(a) \in Nat
        /\ Users(a) >= Joining(a)
        /\ Serving(a) > 0 <=> \E k \in Served : m_connections[k] = a
        /\ Waiting(a) > 0 <=> \E k \in Kept : m_new_connections[k] = a
        /\ InLists(a) = Waiting(a) + Serving(a)
        /\ con[a].m_ref_counter \in Nat
        /\ con[a].m_ref_counter >= Users(a) + Waiting(a) + Serving(a)
        /\ con[a].connects \in 0 .. MaxConnects
        /\ con[a].life = "live" <=> con[a].m_ref_counter > 0
        /\ Counted(a) <=> con[a].m_ref_counter = Users(a) + Waiting(a) + Serving(a)

LEMMA WhereFollows == IInv => Where
<1> SUFFICES ASSUME IInv, NEW a \in Asock
             PROVE  /\ Users(a) >= Joining(a)
                    /\ con[a].life = "live" <=> con[a].m_ref_counter > 0
                    /\ Counted(a) <=> con[a].m_ref_counter = Users(a) + Waiting(a) + Serving(a)
  BY WhereType DEF Where
<1>1. Users(a) >= Joining(a)
  BY DEF Users, Joining
<1>2. con[a].life = "live" <=> con[a].m_ref_counter > 0
  BY DEF IInv, Sound
<1>3. Counted(a) <=> con[a].m_ref_counter = Users(a) + InLists(a)
  BY <1>2 DEF Counted, Users
<1>4. InLists(a) = Waiting(a) + Serving(a) /\ Users(a) \in Nat /\ Waiting(a) \in Nat
      /\ Serving(a) \in Nat
  BY WhereType
<1> QED
  BY <1>1, <1>2, <1>3, <1>4

LEMMA WhereBoth == IInv /\ [Next]_vars => Where /\ Where'
<1>1. IInv /\ [Next]_vars => IInv'
  BY NextIInv
<1> QED
  BY <1>1, WhereFollows, PTL

(* A move, of the asock that moves and of the others.                      *)
LEMMA MovesOne ==
    ASSUME Where, NEW a \in Asock, NEW users, NEW joining, NEW waiting, NEW serving,
           Moves(a, users, joining, waiting, serving)
    PROVE  /\ Users(a)' = Users(a) + users
           /\ Joining(a)' = Joining(a) + joining
           /\ Waiting(a)' = Waiting(a) + waiting
           /\ Serving(a)' = Serving(a) + serving
           /\ \A b \in Asock \ {a} : Stays(b)
<1>1. \A b \in Asock :
        Users(b) \in Nat /\ Joining(b) \in Nat /\ Waiting(b) \in Nat /\ Serving(b) \in Nat
  BY DEF Where
<1>2. ASSUME NEW b \in Asock \ {a} PROVE Stays(b)
  BY <1>1 DEF Moves, Stays
<1> QED
  BY <1>2 DEF Moves

(* One connect leaves room for one place.                                  *)
LEMMA OnePlace ==
    ASSUME MaxConnects <= 1, Where, Once, NEW a \in Asock
    PROVE  /\ con[a].connects \in {0, 1}
           /\ Waiting(a) > 0 =>
                /\ con[a].connects = 1 /\ con[a].m_state = "InProgress"
                /\ Joining(a) = 0 /\ Waiting(a) = 1 /\ Serving(a) = 0
           /\ Serving(a) > 0 =>
                /\ con[a].connects = 1
                /\ con[a].m_state \in {"InProgress", "Established"}
                /\ con[a].m_sock_desc \in FD
                /\ Joining(a) = 0 /\ Waiting(a) = 0 /\ Serving(a) = 1
           /\ con[a].connects = 0 =>
                /\ con[a].m_state = "Idle"
                /\ Joining(a) = 0 /\ Waiting(a) = 0 /\ Serving(a) = 0
<1>1. /\ Joining(a) \in Nat /\ Waiting(a) \in Nat /\ Serving(a) \in Nat
      /\ con[a].connects \in 0 .. MaxConnects
      /\ Joining(a) + Waiting(a) + Serving(a) <= con[a].connects
  BY DEF Where, Once
<1>2. con[a].connects \in {0, 1}
  <2>1. con[a].connects \in 0 .. MaxConnects
    BY <1>1
  <2>2. MaxConnects \in {0, 1}
    BY AsockAssumption
  <2> QED
    BY <2>1, <2>2
<1>3. /\ Joining(a) + Waiting(a) > 0 => con[a].m_state = "InProgress"
      /\ Serving(a) > 0 =>
            con[a].m_state \in {"InProgress", "Established"} /\ con[a].m_sock_desc \in FD
      /\ con[a].connects = 0 => con[a].m_state = "Idle"
  BY DEF Once
<1> QED
  BY <1>1, <1>2, <1>3

(* The invariant of asocks that are connected once: at first there are     *)
(* none, ...                                                               *)
LEMMA InitOnce == Init => Once
<1> SUFFICES ASSUME Init PROVE Once
  OBVIOUS
<1>1. IInv
  BY InitIInv
<1>2. \A a \in Asock : con[a] = Unborn /\ user[a] = "none"
  BY DEF Init, InitWith
<1>3. \A a \in Asock : con[a].connects = 0 /\ con[a].m_state = "Idle" /\ con[a].m_ref_counter = 0
  BY <1>2 DEF Unborn
<1>4. Where
  BY <1>1, WhereFollows
<1>5. \A a \in Asock : Joining(a) = 0 /\ Waiting(a) = 0 /\ Serving(a) = 0
  BY <1>3, <1>4 DEF Where
<1> QED
  BY <1>3, <1>5 DEF Once

(* ... and every step keeps it.                                            *)
LEMMA NextOnce ==
    ASSUME MaxConnects <= 1, IInv, Once, [Next]_vars
    PROVE  Once'
<1>1. Where /\ Where'
  BY WhereBoth
<1>0. ASSUME NEW a \in Asock, \A b \in Asock \ {a} : Stays(b) /\ con'[b] = con[b],
             /\ Joining(a)' + Waiting(a)' + Serving(a)' <= con'[a].connects
             /\ Joining(a)' + Waiting(a)' > 0 => con'[a].m_state = "InProgress"
             /\ Serving(a)' > 0 =>
                   /\ con'[a].m_state \in {"InProgress", "Established"}
                   /\ con'[a].m_sock_desc \in FD
             /\ con'[a].connects = 0 => con'[a].m_state = "Idle"
      PROVE  Once'
  BY <1>0 DEF Once, Stays
<1>2. CASE NothingMoves
  BY <1>1, <1>2 DEF NothingMoves, Quiet, Stays, Once
<1>3. ASSUME NEW a \in Asock, ConnectBegins(a)
      PROVE  Once'
  <2>1. /\ Moves(a, 1, 1, 0, 0)
        /\ con[a].connects < MaxConnects
        /\ con'[a].m_state = "InProgress"
        /\ con'[a].connects = con[a].connects + 1
        /\ \A b \in Asock \ {a} : con'[b] = con[b]
    BY <1>3, BeginMoves
  <2>2. /\ Joining(a)' = Joining(a) + 1 /\ Waiting(a)' = Waiting(a) + 0
        /\ Serving(a)' = Serving(a) + 0
        /\ \A b \in Asock \ {a} : Stays(b)
    <3>1. Moves(a, 1, 1, 0, 0)
      BY <2>1
    <3> QED
      BY <1>1, <3>1, MovesOne
  <2>3. con[a].connects = 0 /\ Joining(a) = 0 /\ Waiting(a) = 0 /\ Serving(a) = 0
    <3>1. con[a].connects = 0
      BY <1>1, <2>1, AsockAssumption DEF Where
    <3> QED
      BY <1>1, <3>1, OnePlace
  <2> QED
    BY <1>0, <2>1, <2>2, <2>3
<1>4. ASSUME NEW a \in Asock, ConnectEnds(a)
      PROVE  Once'
  <2>1. Moves(a, -1, -1, 1, 0) /\ UNCHANGED con
    BY <1>4, EndMoves
  <2>2. /\ Joining(a)' = Joining(a) - 1 /\ Waiting(a)' = Waiting(a) + 1
        /\ Serving(a)' = Serving(a)
        /\ \A b \in Asock \ {a} : Stays(b)
    <3>1. /\ Joining(a)' = Joining(a) + (-1) /\ Waiting(a)' = Waiting(a) + 1
          /\ Serving(a)' = Serving(a) + 0
          /\ \A b \in Asock \ {a} : Stays(b)
      <4>1. Moves(a, -1, -1, 1, 0)
        BY <2>1
      <4> QED
        BY <1>1, <4>1, MovesOne
    <3> QED
      BY <1>1, <3>1 DEF Where
  <2>3. /\ Joining(a) \in Nat /\ Waiting(a) \in Nat /\ Serving(a) \in Nat
        /\ Joining(a)' \in Nat
    BY <1>1 DEF Where
  <2>4. /\ Joining(a)' + Waiting(a)' + Serving(a)' = Joining(a) + Waiting(a) + Serving(a)
        /\ Joining(a)' + Waiting(a)' = Joining(a) + Waiting(a)
    BY <2>2, <2>3
  <2> QED
    BY <1>0, <2>1, <2>2, <2>4 DEF Once
<1>5. ASSUME NEW a \in Asock, CreateAsock(a)
      PROVE  Once'
  <2>1. /\ Moves(a, 1, 0, 0, 0) /\ con[a].m_ref_counter = 0
        /\ con'[a].m_state = "Idle" /\ con'[a].connects = 0
        /\ \A b \in Asock \ {a} : con'[b] = con[b]
    BY <1>5, CreateMoves
  <2>2. Joining(a) = 0 /\ Waiting(a) = 0 /\ Serving(a) = 0
    BY <1>1, <2>1 DEF Where
  <2>3. /\ Joining(a)' = Joining(a) + 0 /\ Waiting(a)' = Waiting(a) + 0
        /\ Serving(a)' = Serving(a) + 0
        /\ \A b \in Asock \ {a} : Stays(b)
    <3>1. Moves(a, 1, 0, 0, 0)
      BY <2>1
    <3> QED
      BY <1>1, <3>1, MovesOne
  <2> QED
    BY <1>0, <2>1, <2>2, <2>3
<1>6. CASE TryConnect
  <2>1. PICK a \in Asock :
             /\ Moves(a, 0, 0, -1, 1) /\ Waiting(a) > 0
             /\ con'[a].m_sock_desc \in FD
             /\ con'[a].m_state \in {"InProgress", "Established"}
             /\ con'[a].connects = con[a].connects
             /\ \A b \in Asock \ {a} : con'[b] = con[b]
    BY <1>6, TryMoves
  <2>2. con[a].connects = 1 /\ Joining(a) = 0 /\ Waiting(a) = 1 /\ Serving(a) = 0
    BY <1>1, <2>1, OnePlace
  <2>3. /\ Joining(a)' = Joining(a) + 0 /\ Waiting(a)' = Waiting(a) + (-1)
        /\ Serving(a)' = Serving(a) + 1
        /\ \A b \in Asock \ {a} : Stays(b)
    <3>1. Moves(a, 0, 0, -1, 1)
      BY <2>1
    <3> QED
      BY <1>1, <3>1, MovesOne
  <2>4. Joining(a)' = 0 /\ Waiting(a)' = 0 /\ Serving(a)' = 1
    BY <2>2, <2>3
  <2> QED
    BY <1>0, <2>1, <2>2, <2>3, <2>4
<1>7. CASE TryConnectFails
  <2>1. PICK a \in Asock :
             /\ Moves(a, 0, 0, -1, 0) /\ Waiting(a) > 0
             /\ con'[a].connects = con[a].connects
             /\ \A b \in Asock \ {a} : con'[b] = con[b]
    BY <1>7, RefuseMoves
  <2>2. con[a].connects = 1 /\ Joining(a) = 0 /\ Waiting(a) = 1 /\ Serving(a) = 0
    BY <1>1, <2>1, OnePlace
  <2>3. /\ Joining(a)' = Joining(a) + 0 /\ Waiting(a)' = Waiting(a) + (-1)
        /\ Serving(a)' = Serving(a) + 0
        /\ \A b \in Asock \ {a} : Stays(b)
    <3>1. Moves(a, 0, 0, -1, 0)
      BY <2>1
    <3> QED
      BY <1>1, <3>1, MovesOne
  <2>4. Joining(a)' = 0 /\ Waiting(a)' = 0 /\ Serving(a)' = 0
    BY <2>2, <2>3
  <2> QED
    BY <1>0, <2>1, <2>2, <2>3, <2>4
<1>8. ASSUME NEW f \in FD, EventOut(f), ~NothingMoves
      PROVE  Once'
  <2>1. PICK a \in Asock :
                /\ Serving(a) > 0 /\ (\A b \in Asock : Stays(b))
                /\ con'[a].m_state = "Established"
                /\ con'[a].connects = con[a].connects
                /\ con'[a].m_sock_desc = con[a].m_sock_desc
                /\ \A b \in Asock \ {a} : con'[b] = con[b]
    BY <1>8, EstablishMoves
  <2>2. /\ con[a].connects = 1 /\ Joining(a) = 0 /\ Waiting(a) = 0 /\ Serving(a) = 1
        /\ con[a].m_sock_desc \in FD
    BY <1>1, <2>1, OnePlace
  <2>3. Joining(a)' = 0 /\ Waiting(a)' = 0 /\ Serving(a)' = 1
    BY <2>1, <2>2 DEF Stays
  <2> QED
    BY <1>0, <2>1, <2>2, <2>3
<1>11. ASSUME \A b \in Asock :
                 /\ Joining(b)' <= Joining(b) /\ Waiting(b)' <= Waiting(b)
                 /\ Serving(b)' <= Serving(b)
                 /\ con'[b].m_sock_desc = con[b].m_sock_desc
                 /\ con'[b].connects = con[b].connects
                 /\ \/ con'[b].m_state = con[b].m_state
                    \/ /\ con[b].connects = 1
                       /\ Joining(b)' = 0 /\ Waiting(b)' = 0 /\ Serving(b)' = 0
       PROVE  Once'
  <2> SUFFICES ASSUME NEW b \in Asock
               PROVE  /\ Joining(b)' + Waiting(b)' + Serving(b)' <= con'[b].connects
                      /\ Joining(b)' + Waiting(b)' > 0 => con'[b].m_state = "InProgress"
                      /\ Serving(b)' > 0 =>
                            /\ con'[b].m_state \in {"InProgress", "Established"}
                            /\ con'[b].m_sock_desc \in FD
                      /\ con'[b].connects = 0 => con'[b].m_state = "Idle"
    BY DEF Once
  <2>1. /\ Joining(b) \in Nat /\ Waiting(b) \in Nat /\ Serving(b) \in Nat
        /\ Joining(b)' \in Nat /\ Waiting(b)' \in Nat /\ Serving(b)' \in Nat
        /\ con[b].connects \in Nat
    BY <1>1, AsockAssumption DEF Where
  <2>2. /\ Joining(b)' + Waiting(b)' + Serving(b)' <= con[b].connects
        /\ Joining(b)' + Waiting(b)' > 0 => Joining(b) + Waiting(b) > 0
        /\ Serving(b)' > 0 => Serving(b) > 0
    BY <1>11, <2>1 DEF Once
  <2>3. CASE con'[b].m_state = con[b].m_state
    BY <1>11, <2>2, <2>3 DEF Once
  <2>4. CASE /\ con[b].connects = 1
             /\ Joining(b)' = 0 /\ Waiting(b)' = 0 /\ Serving(b)' = 0
    BY <1>11, <2>2, <2>4
  <2> QED
    BY <1>11, <2>3, <2>4
<1>9. ASSUME \/ SendFails \/ CheckForClose \/ ReadEnds
             \/ \E f \in FD : EventClose(f) \/ EventOutFails(f),
             ~NothingMoves
      PROVE  Once'
  <2>1. PICK sockd :
            /\ Forgets(sockd)
            /\ \/ UNCHANGED con /\ \A b \in Asock : Serving(b)' = Serving(b)
               \/ \E a \in Asock : ClosesOne(a)
    BY <1>9, CloseMoves
  <2>2. \A b \in Asock :
            /\ Joining(b)' <= Joining(b) /\ Waiting(b)' <= Waiting(b)
            /\ Serving(b) <= Serving(b)
    BY <1>1, <2>1 DEF Forgets, Where
  <2>3. CASE UNCHANGED con /\ \A b \in Asock : Serving(b)' = Serving(b)
    BY <1>11, <2>2, <2>3
  <2>4. ASSUME NEW a \in Asock, ClosesOne(a)
        PROVE  Once'
    <3>1. con[a].connects = 1 /\ Joining(a) = 0 /\ Waiting(a) = 0 /\ Serving(a) = 1
      BY <1>1, <2>4, OnePlace DEF ClosesOne
    <3>2. Joining(a)' = 0 /\ Waiting(a)' = 0 /\ Serving(a)' = 0
      BY <1>1, <2>2, <2>4, <3>1 DEF Where, ClosesOne
    <3>3. \A b \in Asock :
            /\ Serving(b)' <= Serving(b)
            /\ con'[b].m_sock_desc = con[b].m_sock_desc
            /\ con'[b].connects = con[b].connects
            /\ b # a => con'[b].m_state = con[b].m_state
      BY <1>1, <2>4 DEF Where, ClosesOne
    <3> QED
      BY <1>11, <2>2, <3>1, <3>2, <3>3
  <2> QED
    BY <2>1, <2>3, <2>4
<1>10. ASSUME DropNew \/ Drop \/ \E a \in Asock : DestroyEnds(a)
       PROVE  Once'
  <2>1. PICK a \in Asock :
             /\ Moves(a, 0, 0, -1, 0) \/ Moves(a, 0, 0, 0, -1) \/ Moves(a, -1, 0, 0, 0)
             /\ con[a].m_ref_counter > 0
             /\ con' = Dropped(con, a)
    BY <1>10, DropMoves
  <2>2. \A b \in Asock :
             /\ con'[b].m_sock_desc = con[b].m_sock_desc
             /\ con'[b].m_state = con[b].m_state
             /\ con'[b].connects = con[b].connects
    BY <2>1, DroppedFields
  <2>3. \A b \in Asock :
            /\ Joining(b)' <= Joining(b) /\ Waiting(b)' <= Waiting(b)
            /\ Serving(b)' <= Serving(b)
    BY <1>1, <2>1 DEF Moves, Where
  <2> QED
    BY <1>11, <2>2, <2>3
<1> QED
  BY <1>2, <1>3, <1>4, <1>5, <1>6, <1>7, <1>8, <1>9, <1>10, StepKinds

(* A socket that is open was made for an asock: with it, and is its number *)
(* unless a connect put another in its place; or for its connect, and then *)
(* it is its number, and the asock does not wait any more.                 *)
Linked(a, n, f) ==
    /\ con[a].life # "unborn" /\ n <= con[a].connects
    /\ \/ n = 0 /\ con[a].connects > 0
       \/ con[a].life = "live" /\ con[a].m_sock_desc = f
    /\ n > 0 => Joining(a) + Waiting(a) = 0

Opened ==
    \A f \in FD, a \in Asock, n \in 0 .. MaxConnects : files[f] = <<a, n>> => Linked(a, n, f)

LEMMA InitOpened == Init => Opened
<1> SUFFICES ASSUME Init, NEW f \in FD, NEW a \in Asock, NEW n \in 0 .. MaxConnects
             PROVE  files[f] # <<a, n>>
  BY DEF Opened
<1>1. files[f] = Free
  BY DEF Init, InitWith
<1>2. <<a, n>> \in Socket
  BY DEF Socket
<1> QED
  BY <1>1, <1>2, FreeAssumption

(* What a close leaves of the descriptor table.                            *)
LEMMA ClosedFileProperties ==
    ASSUME NEW T, NEW table \in [FD -> T], NEW g
    PROVE  \A f \in FD : ClosedFile(table, g)[f] = IF f = g THEN Free ELSE table[f]
BY DEF ClosedFile

LEMMA NextOpened ==
    ASSUME MaxConnects <= 1, IInv, Once, Opened, [Next]_vars
    PROVE  Opened'
<1> SUFFICES ASSUME NEW f \in FD, NEW a \in Asock, NEW n \in 0 .. MaxConnects,
                    files'[f] = <<a, n>>
             PROVE  Linked(a, n, f)'
  BY DEF Opened
<1>1. Where /\ Where'
  BY WhereBoth
<1>2. /\ Joining(a) \in Nat /\ Waiting(a) \in Nat
      /\ Joining(a)' \in Nat /\ Waiting(a)' \in Nat
      /\ con[a].connects \in {0, 1} /\ n \in {0, 1}
  <2>1. Joining(a) \in Nat /\ Waiting(a) \in Nat /\ Joining(a)' \in Nat /\ Waiting(a)' \in Nat
    BY <1>1 DEF Where
  <2>2. con[a].connects \in {0, 1}
    BY <1>1, OnePlace
  <2>3. n \in {0, 1}
    BY AsockAssumption
  <2> QED
    BY <2>1, <2>2, <2>3
<1>3. files \in [FD -> Socket \union {Free}] /\ <<a, n>> # Free
  <2>1. <<a, n>> \in Socket
    BY DEF Socket
  <2> QED
    BY <2>1, FreeAssumption DEF IInv, TypeOK, AsockTypeOK
<1>4. files[f] = <<a, n>> => Linked(a, n, f)
  BY DEF Opened
<1>5. ASSUME Linked(a, n, f), Joining(a)' + Waiting(a)' <= Joining(a) + Waiting(a),
             con'[a].connects = con[a].connects, con'[a].m_sock_desc = con[a].m_sock_desc,
             con'[a].life = con[a].life
      PROVE  Linked(a, n, f)'
  BY <1>2, <1>5 DEF Linked
<1>6. ASSUME n = 0, con'[a].connects > 0, con'[a].life # "unborn"
      PROVE  Linked(a, n, f)'
  <2>1. con'[a].connects \in Nat
    BY <1>1, AsockAssumption DEF Where
  <2> QED
    BY <1>6, <2>1 DEF Linked
<1>7. CASE NothingMoves
  <2>1. /\ files[f] = <<a, n>>
        /\ Joining(a)' = Joining(a) /\ Waiting(a)' = Waiting(a)
        /\ con'[a].connects = con[a].connects /\ con'[a].m_sock_desc = con[a].m_sock_desc
        /\ con'[a].life = con[a].life
    BY <1>7 DEF NothingMoves, Stays, Quiet
  <2> QED
    BY <1>2, <1>4, <1>5, <2>1
<1>8. ASSUME NEW b \in Asock, b # a, Stays(a), con'[a] = con[a], files[f] = <<a, n>>
      PROVE  Linked(a, n, f)'
  BY <1>2, <1>4, <1>5, <1>8 DEF Stays
<1>9. ASSUME NEW b \in Asock, ConnectBegins(b)
      PROVE  Linked(a, n, f)'
  <2>1. /\ Moves(b, 1, 1, 0, 0) /\ files[f] = <<a, n>>
        /\ con[b].connects < MaxConnects
        /\ con'[b].connects = con[b].connects + 1
        /\ con'[b].life = con[b].life
        /\ \A c \in Asock \ {b} : con'[c] = con[c]
    BY <1>9, BeginMoves
  <2>2. CASE a = b
    <3>1. con[a].connects = 0
      BY <1>2, <2>1, <2>2, AsockAssumption
    <3> QED
      BY <1>2, <1>4, <1>6, <2>1, <2>2, <3>1 DEF Linked
  <2>3. CASE a # b
    <3>1. Moves(b, 1, 1, 0, 0)
      BY <2>1
    <3>2. Stays(a)
      BY <1>1, <2>3, <3>1, MovesOne
    <3> QED
      BY <1>8, <2>1, <2>3, <3>2
  <2> QED
    BY <2>2, <2>3
<1>10. ASSUME NEW b \in Asock, ConnectEnds(b)
       PROVE  Linked(a, n, f)'
  <2>1. Moves(b, -1, -1, 1, 0) /\ con' = con /\ files[f] = <<a, n>>
    BY <1>10, EndMoves
  <2>2. Joining(b)' = Joining(b) + (-1) /\ (a # b => Stays(a))
    <3>1. Moves(b, -1, -1, 1, 0)
      BY <2>1
    <3> QED
      BY <1>1, <3>1, MovesOne
  <2>3. CASE a = b
    <3>1. Joining(a) + Waiting(a) > 0
      BY <1>2, <2>2, <2>3
    <3> QED
      BY <1>2, <1>4, <2>1, <3>1 DEF Linked
  <2>4. CASE a # b
    BY <1>8, <2>1, <2>2, <2>4
  <2> QED
    BY <2>3, <2>4
<1>11. ASSUME NEW b \in Asock, CreateAsock(b)
       PROVE  Linked(a, n, f)'
  <2>1. /\ Moves(b, 1, 0, 0, 0) /\ con[b].life = "unborn"
        /\ con'[b].connects = 0 /\ con'[b].life = "live"
        /\ \A c \in Asock \ {b} : con'[c] = con[c]
        /\ \E g \in FD :
                /\ files' = [files EXCEPT ![g] = <<b, 0>>]
                /\ con'[b].m_sock_desc = g
    BY <1>11, CreateMoves
  <2>2. a # b => Stays(a)
    <3>1. Moves(b, 1, 0, 0, 0)
      BY <2>1
    <3> QED
      BY <1>1, <3>1, MovesOne
  <2>3. PICK g \in FD : files' = [files EXCEPT ![g] = <<b, 0>>] /\ con'[b].m_sock_desc = g
    BY <2>1
  <2>4. CASE f = g
    <3>1. a = b /\ n = 0
      BY <1>3, <2>3, <2>4
    <3> QED
      BY <2>1, <2>3, <2>4, <3>1 DEF Linked
  <2>5. CASE f # g
    <3>1. files[f] = <<a, n>>
      BY <1>3, <2>3, <2>5
    <3>2. a # b
      BY <1>4, <2>1, <3>1 DEF Linked
    <3> QED
      BY <1>8, <2>1, <2>2, <3>1, <3>2
  <2> QED
    BY <2>4, <2>5
<1>12. CASE TryConnect
  <2>1. PICK b \in Asock :
             /\ Moves(b, 0, 0, -1, 1) /\ Waiting(b) > 0
             /\ \E g \in FD :
                  /\ files' = [files EXCEPT ![g] = <<b, con[b].connects>>]
                  /\ con'[b].m_sock_desc = g
             /\ con'[b].connects = con[b].connects
             /\ con'[b].life = con[b].life
             /\ \A c \in Asock \ {b} : con'[c] = con[c]
    BY <1>12, TryMoves
  <2>2. /\ con[b].connects = 1 /\ Joining(b) = 0 /\ Waiting(b) = 1
        /\ con[b].life = "live"
    <3>1. con[b].life = "live"
      BY <1>1, <2>1 DEF Where
    <3> QED
      BY <1>1, <2>1, <3>1, OnePlace
  <2>3. /\ Joining(b)' = Joining(b) + 0 /\ Waiting(b)' = Waiting(b) + (-1)
        /\ (a # b => Stays(a))
    <3>1. Moves(b, 0, 0, -1, 1)
      BY <2>1
    <3> QED
      BY <1>1, <3>1, MovesOne
  <2>4. PICK g \in FD : /\ files' = [files EXCEPT ![g] = <<b, con[b].connects>>]
                        /\ con'[b].m_sock_desc = g
    BY <2>1
  <2>5. CASE f = g
    <3>1. a = b /\ n = 1
      BY <1>3, <2>2, <2>4, <2>5
    <3>2. Joining(b)' + Waiting(b)' = 0
      BY <2>2, <2>3
    <3> QED
      BY <2>1, <2>2, <2>4, <2>5, <3>1, <3>2 DEF Linked
  <2>6. CASE f # g
    <3>1. files[f] = <<a, n>>
      BY <1>3, <2>4, <2>6
    <3>2. CASE a = b
      <4>1. n = 0
        BY <1>2, <1>4, <2>2, <3>1, <3>2 DEF Linked
      <4> QED
        BY <1>6, <2>1, <2>2, <3>2, <4>1
    <3>3. CASE a # b
      BY <1>8, <2>1, <2>3, <3>1, <3>3
    <3> QED
      BY <3>2, <3>3
  <2> QED
    BY <2>5, <2>6
<1>13. CASE TryConnectFails
  <2>1. PICK b \in Asock :
             /\ Moves(b, 0, 0, -1, 0) /\ Waiting(b) > 0 /\ files[f] = <<a, n>>
             /\ con'[b].connects = con[b].connects
             /\ con'[b].life = IF con[b].m_ref_counter = 1 THEN "freed" ELSE con[b].life
             /\ \A c \in Asock \ {b} : con'[c] = con[c]
    BY <1>13, RefuseMoves
  <2>2. con[b].connects = 1 /\ Waiting(b) = 1 /\ Joining(b) = 0
    BY <1>1, <2>1, OnePlace
  <2>3. a # b => Stays(a)
    <3>1. Moves(b, 0, 0, -1, 0)
      BY <2>1
    <3> QED
      BY <1>1, <3>1, MovesOne
  <2>4. CASE a = b
    <3>1. n = 0 /\ con[b].life # "unborn"
      BY <1>2, <1>4, <2>1, <2>2, <2>4 DEF Linked
    <3> QED
      BY <1>6, <2>1, <2>2, <2>4, <3>1
  <2>5. CASE a # b
    BY <1>8, <2>1, <2>3, <2>5
  <2> QED
    BY <2>4, <2>5
<1>14. ASSUME NEW g \in FD, EventOut(g), ~NothingMoves
       PROVE  Linked(a, n, f)'
  <2>1. PICK b \in Asock :
                /\ (\A c \in Asock : Stays(c)) /\ files[f] = <<a, n>>
                /\ con'[b].connects = con[b].connects
                /\ con'[b].m_sock_desc = con[b].m_sock_desc
                /\ con'[b].life = con[b].life
                /\ \A c \in Asock \ {b} : con'[c] = con[c]
    BY <1>14, EstablishMoves
  <2>2. /\ Joining(a)' = Joining(a) /\ Waiting(a)' = Waiting(a)
        /\ con'[a].connects = con[a].connects /\ con'[a].m_sock_desc = con[a].m_sock_desc
        /\ con'[a].life = con[a].life
    BY <2>1 DEF Stays
  <2> QED
    BY <1>2, <1>4, <1>5, <2>1, <2>2
<1>15. ASSUME NEW b \in Asock, files' = ClosedFile(files, con[b].m_sock_desc),
              /\ con'[a].connects = con[a].connects
              /\ con'[a].m_sock_desc = con[a].m_sock_desc,
              con'[a].life = con[a].life \/ (a = b /\ con'[a].life = "freed"),
              Joining(a)' + Waiting(a)' <= Joining(a) + Waiting(a)
       PROVE  Linked(a, n, f)'
  <2>1. f # con[b].m_sock_desc /\ files[f] = <<a, n>>
    <3> DEFINE T == Socket \union {Free}
    <3>1. files \in [FD -> T]
      BY <1>3
    <3> HIDE DEF T
    <3>2. files'[f] = IF f = con[b].m_sock_desc THEN Free ELSE files[f]
      <4>1. files' = ClosedFile(files, con[b].m_sock_desc)
        BY <1>15
      <4>2. \A g \in FD : ClosedFile(files, con[b].m_sock_desc)[g]
                            = IF g = con[b].m_sock_desc THEN Free ELSE files[g]
        BY <3>1, ClosedFileProperties
      <4> QED
        BY <4>1, <4>2
    <3> QED
      BY <1>3, <3>2
  <2>2. CASE con'[a].life = con[a].life
    BY <1>4, <1>5, <1>15, <2>1, <2>2
  <2>3. CASE a = b /\ con'[a].life = "freed"
    <3>1. n = 0 /\ con[a].connects > 0
      BY <1>4, <2>1, <2>3 DEF Linked
    <3> QED
      BY <1>6, <1>15, <2>3, <3>1
  <2> QED
    BY <1>15, <2>2, <2>3
<1>16. ASSUME \/ SendFails \/ CheckForClose \/ ReadEnds
              \/ \E g \in FD : EventClose(g) \/ EventOutFails(g),
              ~NothingMoves
       PROVE  Linked(a, n, f)'
  <2>1. PICK sockd :
            /\ Forgets(sockd)
            /\ \/ UNCHANGED <<con, files>>
               \/ \E b \in Asock : ClosesOne(b)
    BY <1>16, CloseMoves
  <2>2. Joining(a)' + Waiting(a)' <= Joining(a) + Waiting(a)
    <3>1. /\ Joining(a)' = Joining(a)
          /\ Waiting(a)' = Waiting(a) \/ Waiting(a)' = Waiting(a) - 1
      BY <2>1 DEF Forgets
    <3> QED
      BY <1>2, <3>1
  <2>3. CASE UNCHANGED <<con, files>>
    BY <1>4, <1>5, <2>2, <2>3
  <2>4. ASSUME NEW b \in Asock, ClosesOne(b)
        PROVE  Linked(a, n, f)'
    BY <1>15, <2>2, <2>4 DEF ClosesOne
  <2> QED
    BY <2>1, <2>3, <2>4
<1>17. ASSUME DropNew \/ Drop \/ \E b \in Asock : DestroyEnds(b)
       PROVE  Linked(a, n, f)'
  <2>1. PICK b \in Asock :
             /\ Moves(b, 0, 0, -1, 0) \/ Moves(b, 0, 0, 0, -1) \/ Moves(b, -1, 0, 0, 0)
             /\ con[b].m_ref_counter > 0
             /\ con' = Dropped(con, b)
             /\ files' = DroppedFiles(con, files, b)
    BY <1>17, DropMoves
  <2>2. /\ con'[a].life = IF a = b /\ con[b].m_ref_counter = 1 THEN "freed" ELSE con[a].life
        /\ con'[a].m_sock_desc = con[a].m_sock_desc
        /\ con'[a].connects = con[a].connects
    BY <2>1, DroppedFields
  <2>3. Joining(a)' + Waiting(a)' <= Joining(a) + Waiting(a)
    <3>1. /\ Joining(a)' = Joining(a) + 0
          /\ Waiting(a)' = Waiting(a) + 0 \/ Waiting(a)' = Waiting(a) + (-1)
      BY <1>2, <2>1 DEF Moves
    <3> QED
      BY <1>2, <3>1
  <2>4. CASE con[b].m_ref_counter = 1
    <3>1. files' = ClosedFile(files, con[b].m_sock_desc)
      BY <2>1, <2>4 DEF DroppedFiles
    <3> QED
      BY <1>15, <2>2, <2>3, <3>1
  <2>5. CASE con[b].m_ref_counter # 1
    <3>1. files' = files /\ con'[a].life = con[a].life
      BY <2>1, <2>2, <2>5 DEF DroppedFiles
    <3> QED
      BY <1>4, <1>5, <2>2, <2>3, <3>1
  <2> QED
    BY <2>4, <2>5
<1> QED
  BY <1>7, <1>9, <1>10, <1>11, <1>12, <1>13, <1>14, <1>16, <1>17, StepKinds

(* ... so that what events are still to be handled, or read, for was a     *)
(* connection when epoll_wait reported it, and is one or is closed since.  *)
Reported == \A f \in FD : Watched(f) => files[f] \in Monitored \union {Free}

LEMMA InitReported == Init => Reported
BY DEF Init, InitWith, Reported, Watched

(* Nothing comes to be watched but by epoll_wait.                          *)
LEMMA NextWatched ==
    ASSUME [Next]_vars, NEW f \in FD, Watched(f)', ~EpollWait(Monitored)
    PROVE  Watched(f)
<1>1. CASE UNCHANGED <<pc, cur, batch>>
  BY <1>1 DEF Watched
<1>2. CASE NoDirective \/ NewDone \/ SendFails \/ HeadUnlock \/ SendDone \/ CheckDone
           \/ EventsDone \/ Stop \/ DropNewDone \/ DropDone
           \/ \E a \in Asock : CreateAsock(a)
  BY <1>2
  DEF NoDirective, NewDone, SendFails, HeadUnlock, SendDone, CheckDone, EventsDone, Stop,
      DropNewDone, DropDone, CreateAsock, StartNew, StartAt, Goto, Watched
<1>3. ASSUME NEW g \in FD, EventIn(g) \/ EventOut(g) \/ EventOutFails(g) \/ EventClose(g)
      PROVE  Watched(f)
  BY <1>3 DEF EventIn, EventOut, EventOutWith, EventOutFails, EventClose, Goto, Watched
<1>4. CASE ReadAgain \/ ReadEnds
  BY <1>4 DEF ReadAgain, ReadEnds, Goto, Watched
<1>5. CASE TryConnect \/ TryConnectFails \/ SendNothing \/ SendSome \/ CheckForClose
           \/ ReadSome \/ DropNew \/ Drop
           \/ \E a \in Asock : UserStep(a) \/ ConnectBegins(a) \/ ConnectEnds(a)
  <2>1. UNCHANGED <<pc, cur, batch>>
    BY <1>5
    DEF TryConnect, TryConnectFails, Refuse, SendNothing, SendSome, CheckForClose, ReadSome,
        DropNew, Drop, DropNext, UserStep, DestroyBegins, DestroyEnds, Write, Read,
        ConnectBegins, ConnectWith, ConnectEnds
  <2> QED
    BY <1>1, <2>1
<1>6. CASE SharedStep
  BY <1>2, <1>3, <1>4, <1>5, <1>6 DEF SharedStep
<1>7. CASE WorkerStep
  BY <1>2, <1>3, <1>5, <1>6, <1>7 DEF WorkerStep
<1>8. ASSUME NEW a \in Asock,
             UserStep(a) \/ CreateAsock(a) \/ ConnectBegins(a) \/ ConnectEnds(a)
      PROVE  Watched(f)
  BY <1>2, <1>5, <1>8
<1>9. CASE UNCHANGED vars
  BY <1>1, <1>9 DEF vars
<1> QED
  BY <1>2, <1>7, <1>8, <1>9 DEF Next

(* While events are handled descriptors are only closed.                   *)
LEMMA NextReported ==
    ASSUME IInv, Reported, [Next]_vars
    PROVE  Reported'
<1> SUFFICES ASSUME NEW f \in FD, Watched(f)'
             PROVE  files'[f] \in Monitored \union {Free}
  BY DEF Reported, Monitored
<1>1. files \in [FD -> Socket \union {Free}]
  BY DEF IInv, TypeOK, AsockTypeOK
<1>2. CASE EpollWait(Monitored)
  BY <1>2 DEF EpollWait, Goto, Watched
<1>3. CASE ~EpollWait(Monitored)
  <2>1. files[f] \in Monitored \union {Free}
    BY <1>3, NextWatched DEF Reported
  <2>2. files'[f] \in {files[f], Free}
    <3>1. ASSUME NEW g, files' = ClosedFile(files, g)
          PROVE  files'[f] \in {files[f], Free}
      BY <1>1, <3>1 DEF ClosedFile
    <3>2. CASE NothingMoves
      BY <3>2 DEF NothingMoves
    <3>3. ASSUME NEW a \in Asock, ConnectBegins(a) \/ ConnectEnds(a)
          PROVE  files'[f] \in {files[f], Free}
      BY <3>3 DEF ConnectBegins, ConnectWith, ConnectEnds
    <3>4. ASSUME NEW a \in Asock, CreateAsock(a)
          PROVE  FALSE
      BY <3>4 DEF CreateAsock, StartNew, Goto, Watched
    <3>5. CASE TryConnect
      BY <3>5 DEF TryConnect, Watched
    <3>6. CASE TryConnectFails
      BY <3>6 DEF TryConnectFails, Refuse
    <3>7. ASSUME NEW g \in FD, EventOut(g)
          PROVE  files'[f] \in {files[f], Free}
      BY <3>7 DEF EventOut, EventOutWith
    <3>8. ASSUME \/ SendFails \/ CheckForClose \/ ReadEnds
                 \/ \E g \in FD : EventClose(g) \/ EventOutFails(g),
                 ~NothingMoves
          PROVE  files'[f] \in {files[f], Free}
      <4>1. \/ files' = files
            \/ \E a \in Asock : files' = ClosedFile(files, con[a].m_sock_desc)
        BY <3>8, CloseMoves DEF ClosesOne
      <4> QED
        BY <3>1, <4>1
    <3>9. ASSUME DropNew \/ Drop \/ \E a \in Asock : DestroyEnds(a)
          PROVE  files'[f] \in {files[f], Free}
      <4>1. \E a \in Asock : files' = DroppedFiles(con, files, a)
        BY <3>9, DropMoves
      <4> QED
        BY <3>1, <4>1 DEF DroppedFiles
    <3> QED
      BY <3>2, <3>3, <3>4, <3>5, <3>6, <3>7, <3>8, <3>9, StepKinds
  <2> QED
    BY <2>1, <2>2
<1> QED
  BY <1>2, <1>3

Single == IInv /\ Once /\ Opened /\ Reported

LEMMA SingleInvariant == MaxConnects <= 1 => (Spec => []Single)
<1> SUFFICES ASSUME MaxConnects <= 1 PROVE Spec => []Single
  OBVIOUS
<1>1. Init => Single
  BY InitIInv, InitOnce, InitOpened, InitReported DEF Single
<1>2. Single /\ [Next]_vars => Single'
  BY NextIInv, NextOnce, NextOpened, NextReported DEF Single
<1> QED
  BY <1>1, <1>2, PTL DEF Spec

-----------------------------------------------------------------------------
(* What the states of an asock that is connected once are, at each step.   *)
LEMMA StateStep ==
    ASSUME MaxConnects <= 1, Single, [Next]_vars, NEW a \in Asock
    PROVE  \/ con[a].life = "unborn"
           \/ con'[a].m_state = con[a].m_state
           \/ <<con[a].m_state, con'[a].m_state>> \in Changes
<1> USE DEF Single
<1>1. Where
  BY WhereFollows
<1>2. CASE NothingMoves
  BY <1>2 DEF NothingMoves, Quiet
<1>3. ASSUME NEW b \in Asock, ConnectBegins(b)
      PROVE  \/ con'[a] = con[a]
             \/ con[a].m_state = "Idle" /\ con'[a].m_state = "InProgress"
  <2>1. /\ con[b].connects < MaxConnects /\ con'[b].m_state = "InProgress"
        /\ \A c \in Asock \ {b} : con'[c] = con[c]
    BY <1>3, BeginMoves
  <2>2. con[b].m_state = "Idle"
    <3>1. con[b].connects = 0
      BY <1>1, <2>1, AsockAssumption DEF Where
    <3> QED
      BY <1>1, <3>1, OnePlace
  <2> QED
    BY <2>1, <2>2
<1>4. ASSUME NEW b \in Asock, ConnectEnds(b)
      PROVE  con'[a] = con[a]
  BY <1>4, EndMoves
<1>5. ASSUME NEW b \in Asock, CreateAsock(b)
      PROVE  con'[a] = con[a] \/ con[a].life = "unborn"
  BY <1>5, CreateMoves
<1>6. CASE TryConnect
  <2>1. PICK b \in Asock :
             /\ Waiting(b) > 0 /\ con'[b].m_state \in {"InProgress", "Established"}
             /\ \A c \in Asock \ {b} : con'[c] = con[c]
    BY <1>6, TryMoves
  <2>2. con[b].m_state = "InProgress"
    BY <1>1, <2>1, OnePlace
  <2> QED
    BY <2>1, <2>2 DEF Changes
<1>7. CASE TryConnectFails
  <2>1. PICK b \in Asock :
             /\ Waiting(b) > 0 /\ con'[b].m_state = "Failed"
             /\ \A c \in Asock \ {b} : con'[c] = con[c]
    BY <1>7, RefuseMoves
  <2>2. con[b].m_state = "InProgress"
    BY <1>1, <2>1, OnePlace
  <2> QED
    BY <2>1, <2>2 DEF Changes
<1>8. ASSUME NEW f \in FD, EventOut(f), ~NothingMoves
      PROVE  \/ con'[a].m_state = con[a].m_state
             \/ <<con[a].m_state, con'[a].m_state>> \in Changes
  <2>1. PICK b \in Asock :
                /\ Serving(b) > 0 /\ con'[b].m_state = "Established"
                /\ \A c \in Asock \ {b} : con'[c] = con[c]
    BY <1>8, EstablishMoves
  <2>2. con[b].m_state \in {"InProgress", "Established"}
    BY <1>1, <2>1, OnePlace
  <2> QED
    BY <2>1, <2>2 DEF Changes
<1>9. ASSUME \/ SendFails \/ CheckForClose \/ ReadEnds
             \/ \E f \in FD : EventClose(f) \/ EventOutFails(f),
             ~NothingMoves
      PROVE  \/ con'[a].m_state = con[a].m_state
             \/ <<con[a].m_state, con'[a].m_state>> \in Changes
  <2>1. con' = con \/ \E b \in Asock : ClosesOne(b)
    BY <1>9, CloseMoves
  <2>2. ASSUME NEW b \in Asock, ClosesOne(b)
        PROVE  \/ con'[a].m_state = con[a].m_state
               \/ <<con[a].m_state, con'[a].m_state>> \in Changes
    <3>1. con[b].m_state \in {"InProgress", "Established"}
      BY <1>1, <2>2, OnePlace DEF ClosesOne
    <3> QED
      BY <2>2, <3>1 DEF ClosesOne, Changes
  <2> QED
    BY <2>1, <2>2
<1>10. ASSUME DropNew \/ Drop \/ \E b \in Asock : DestroyEnds(b)
       PROVE  con'[a].m_state = con[a].m_state
  <2>1. PICK b \in Asock : con[b].m_ref_counter > 0 /\ con' = Dropped(con, b)
    BY <1>10, DropMoves
  <2> QED
    BY <2>1, DroppedFields
<1> QED
  BY <1>2, <1>3, <1>4, <1>5, <1>6, <1>7, <1>8, <1>9, <1>10, StepKinds DEF Changes

(* Whose socket it is that an asock is served through, at each step.       *)
LEMMA OwnStep ==
    ASSUME MaxConnects <= 1, Single, [Next]_vars, NEW a \in Asock, Own(a)
    PROVE  Own(a)' \/ Shares(a)
<1> DEFINE g == con[a].m_sock_desc
<1> USE DEF Single
<1>1. Where /\ Where'
  BY WhereBoth
<1>2. /\ files \in [FD -> Socket \union {Free}] /\ con \in [Asock -> ConType]
      /\ <<a, con[a].connects>> # Free
  <2>1. files \in [FD -> Socket \union {Free}] /\ con \in [Asock -> ConType]
    BY DEF IInv, TypeOK, AsockTypeOK
  <2>2. <<a, con[a].connects>> \in Socket
    BY <1>1 DEF Where, Socket
  <2> QED
    BY <2>1, <2>2, FreeAssumption
<1>3. /\ Serving(a) \in Nat /\ Serving(a)' \in Nat
      /\ Serving(a) > 0 => files[g] = <<a, con[a].connects>> /\ g \in FD
      /\ Serving(a)' = 0 => Own(a)'
      /\ files'[con'[a].m_sock_desc] = <<a, con'[a].connects>> => Own(a)'
  <2>1. /\ Serving(a) \in Nat /\ Serving(a)' \in Nat
        /\ Serving(a) > 0 <=> \E k \in Served : m_connections[k] = a
        /\ Serving(a)' > 0 <=> \E k \in Served' : m_connections'[k] = a
    BY <1>1 DEF Where
  <2>2. Serving(a) > 0 => g \in FD
    BY <1>1, OnePlace
  <2>3. Serving(a) > 0 => files[g] = <<a, con[a].connects>>
    BY <2>1 DEF Own
  <2>4. /\ Serving(a)' = 0 => Own(a)'
        /\ files'[con'[a].m_sock_desc] = <<a, con'[a].connects>> => Own(a)'
    BY <2>1 DEF Own
  <2> QED
    BY <2>1, <2>2, <2>3, <2>4
<1> HIDE DEF g
<1>4. ASSUME Serving(a)' = Serving(a), con'[a].m_sock_desc = g,
             con'[a].connects = con[a].connects, Serving(a) > 0 => files'[g] = files[g]
      PROVE  Own(a)'
  BY <1>3, <1>4
<1>5. CASE NothingMoves
  <2>1. /\ Serving(a)' = Serving(a) /\ files' = files
        /\ con'[a].m_sock_desc = con[a].m_sock_desc /\ con'[a].connects = con[a].connects
    BY <1>5 DEF NothingMoves, Stays, Quiet
  <2> QED
    BY <1>4, <2>1 DEF g
<1>6. ASSUME NEW b \in Asock, b # a, Stays(a), con'[a] = con[a],
             Serving(a) > 0 => files'[g] = files[g]
      PROVE  Own(a)'
  BY <1>4, <1>6 DEF Stays, g
<1>7. ASSUME NEW b \in Asock, ConnectBegins(b)
      PROVE  Own(a)'
  <2>1. /\ Moves(b, 1, 1, 0, 0) /\ files' = files
        /\ con[b].connects < MaxConnects
        /\ \A c \in Asock \ {b} : con'[c] = con[c]
    BY <1>7, BeginMoves
  <2>2. (a # b => Stays(a)) /\ Serving(b)' = Serving(b) + 0
    <3>1. Moves(b, 1, 1, 0, 0)
      BY <2>1
    <3> QED
      BY <1>1, <3>1, MovesOne
  <2>3. CASE a = b
    <3>1. con[a].connects = 0
      BY <1>1, <2>1, <2>3, AsockAssumption DEF Where
    <3>2. Serving(a) = 0
      BY <1>1, <3>1, OnePlace
    <3> QED
      BY <1>3, <2>2, <2>3, <3>2
  <2>4. CASE a # b
    BY <1>6, <2>1, <2>2, <2>4
  <2> QED
    BY <2>3, <2>4
<1>8. ASSUME NEW b \in Asock, ConnectEnds(b)
      PROVE  Own(a)'
  <2>1. Moves(b, -1, -1, 1, 0) /\ con' = con /\ files' = files
    BY <1>8, EndMoves
  <2>2. Serving(a)' = Serving(a)
    BY <1>3, <2>1 DEF Moves
  <2> QED
    BY <1>4, <2>1, <2>2 DEF g
<1>9. ASSUME NEW b \in Asock, CreateAsock(b)
      PROVE  Own(a)'
  <2>1. /\ Moves(b, 1, 0, 0, 0) /\ con[b].m_ref_counter = 0
        /\ \A c \in Asock \ {b} : con'[c] = con[c]
        /\ \E f \in FD : files[f] = Free /\ files' = [files EXCEPT ![f] = <<b, 0>>]
    BY <1>9, CreateMoves
  <2>2. (a # b => Stays(a)) /\ Serving(b)' = Serving(b) + 0
    <3>1. Moves(b, 1, 0, 0, 0)
      BY <2>1
    <3> QED
      BY <1>1, <3>1, MovesOne
  <2>3. CASE a = b
    <3>1. Serving(a) = 0
      BY <1>1, <2>1, <2>3 DEF Where
    <3> QED
      BY <1>3, <2>2, <2>3, <3>1
  <2>4. CASE a # b
    <3>1. Serving(a) > 0 => files'[g] = files[g]
      BY <1>2, <1>3, <2>1
    <3> QED
      BY <1>6, <2>1, <2>2, <2>4, <3>1
  <2> QED
    BY <2>3, <2>4
<1>10. CASE TryConnect
  <2>1. PICK b \in Asock :
             /\ Moves(b, 0, 0, -1, 1)
             /\ \E f \in FD :
                  /\ files[f] = Free
                  /\ files' = [files EXCEPT ![f] = <<b, con[b].connects>>]
                  /\ con'[b].m_sock_desc = f
             /\ con'[b].connects = con[b].connects
             /\ \A c \in Asock \ {b} : con'[c] = con[c]
    BY <1>10, TryMoves
  <2>2. PICK f \in FD : /\ files[f] = Free
                        /\ files' = [files EXCEPT ![f] = <<b, con[b].connects>>]
                        /\ con'[b].m_sock_desc = f
    BY <2>1
  <2>3. CASE a = b
    <3>1. files'[con'[a].m_sock_desc] = <<a, con'[a].connects>>
      BY <1>2, <2>1, <2>2, <2>3
    <3> QED
      BY <1>3, <3>1
  <2>4. CASE a # b
    <3>1. Serving(a) > 0 => files'[g] = files[g]
      BY <1>2, <1>3, <2>2
    <3>2. Stays(a)
      <4>1. Moves(b, 0, 0, -1, 1)
        BY <2>1
      <4> QED
        BY <1>1, <2>4, <4>1, MovesOne
    <3> QED
      BY <1>6, <2>1, <2>4, <3>1, <3>2
  <2> QED
    BY <2>3, <2>4
<1>11. CASE TryConnectFails
  <2>1. PICK b \in Asock :
             /\ Moves(b, 0, 0, -1, 0) /\ Waiting(b) > 0 /\ files' = files
             /\ \A c \in Asock \ {b} : con'[c] = con[c]
    BY <1>11, RefuseMoves
  <2>2. (a # b => Stays(a)) /\ Serving(b)' = Serving(b) + 0
    <3>1. Moves(b, 0, 0, -1, 0)
      BY <2>1
    <3> QED
      BY <1>1, <3>1, MovesOne
  <2>3. CASE a = b
    <3>1. Serving(a) = 0
      BY <1>1, <2>1, <2>3, OnePlace
    <3> QED
      BY <1>3, <2>2, <2>3, <3>1
  <2>4. CASE a # b
    BY <1>6, <2>1, <2>2, <2>4
  <2> QED
    BY <2>3, <2>4
<1>12. ASSUME NEW f \in FD, EventOut(f), ~NothingMoves
       PROVE  Own(a)'
  <2>1. PICK b \in Asock :
                /\ (\A c \in Asock : Stays(c)) /\ files' = files
                /\ con'[b].connects = con[b].connects
                /\ con'[b].m_sock_desc = con[b].m_sock_desc
                /\ \A c \in Asock \ {b} : con'[c] = con[c]
    BY <1>12, EstablishMoves
  <2>2. /\ Serving(a)' = Serving(a)
        /\ con'[a].m_sock_desc = con[a].m_sock_desc /\ con'[a].connects = con[a].connects
    BY <2>1 DEF Stays
  <2> QED
    BY <1>4, <2>1, <2>2 DEF g
<1>13. ASSUME NEW b \in Asock, con[b].life = "live", b # a,
              files' = ClosedFile(files, con[b].m_sock_desc),
              Serving(a)' = Serving(a), con'[a].m_sock_desc = g,
              con'[a].connects = con[a].connects
       PROVE  Own(a)' \/ Shares(a)
  <2>1. CASE con[b].m_sock_desc = g
    BY <1>13, <2>1 DEF Shares, g
  <2>2. CASE con[b].m_sock_desc # g
    <3>1. files'[g] = files[g]
      BY <1>13, <2>2 DEF ClosedFile
    <3> QED
      BY <1>4, <1>13, <3>1
  <2> QED
    BY <2>1, <2>2
<1>14. ASSUME \/ SendFails \/ CheckForClose \/ ReadEnds
              \/ \E f \in FD : EventClose(f) \/ EventOutFails(f),
              ~NothingMoves
       PROVE  Own(a)' \/ Shares(a)
  <2>1. \/ /\ UNCHANGED <<con, files>>
           /\ Serving(a)' = Serving(a)
        \/ \E b \in Asock : ClosesOne(b)
    BY <1>14, CloseMoves
  <2>2. CASE UNCHANGED <<con, files>> /\ Serving(a)' = Serving(a)
    BY <1>4, <2>2 DEF g
  <2>3. ASSUME NEW b \in Asock, ClosesOne(b)
        PROVE  Own(a)' \/ Shares(a)
    <3>1. CASE a = b
      <4>1. Serving(a) = 1 /\ Serving(a)' = Serving(a) - 1
        BY <1>1, <2>3, <3>1, OnePlace DEF ClosesOne
      <4> QED
        BY <1>3, <4>1
    <3>2. CASE a # b
      <4>1. con[b].life = "live"
        BY <1>1, <2>3 DEF ClosesOne, Where
      <4>2. /\ Serving(a)' = Serving(a) /\ con'[a].m_sock_desc = g
            /\ con'[a].connects = con[a].connects
            /\ files' = ClosedFile(files, con[b].m_sock_desc)
        BY <1>3, <2>3, <3>2 DEF ClosesOne, g
      <4> QED
        BY <1>13, <3>2, <4>1, <4>2
    <3> QED
      BY <3>1, <3>2
  <2> QED
    BY <2>1, <2>2, <2>3
<1>15. ASSUME DropNew \/ Drop \/ \E b \in Asock : DestroyEnds(b)
       PROVE  Own(a)' \/ Shares(a)
  <2>1. PICK b \in Asock :
             /\ Moves(b, 0, 0, -1, 0) \/ Moves(b, 0, 0, 0, -1) \/ Moves(b, -1, 0, 0, 0)
             /\ con[b].m_ref_counter > 0
             /\ con' = Dropped(con, b)
             /\ files' = DroppedFiles(con, files, b)
    BY <1>15, DropMoves
  <2>2. con'[a].m_sock_desc = g /\ con'[a].connects = con[a].connects
    BY <2>1, DroppedFields DEF g
  <2>3. CASE a = b /\ Serving(a)' = 0
    BY <1>3, <2>3
  <2>4. CASE a = b /\ Serving(a)' # 0
    <3>1. Serving(a)' = Serving(a) /\ Serving(a) > 0
      <4>1. Serving(a)' = Serving(a) + 0 \/ Serving(a)' = Serving(a) + (-1)
        BY <2>1, <2>4 DEF Moves
      <4>2. Serving(a) \in {0, 1}
        BY <1>1, <1>3, OnePlace
      <4> QED
        BY <1>3, <2>4, <4>1, <4>2
    <3>2. Users(a) > 0
      <4>1. Waiting(a) = 0
        BY <1>1, <3>1, OnePlace
      <4>2. /\ Waiting(a)' \in Nat /\ Users(a) \in Nat /\ Users(a)' \in Nat
        BY <1>1 DEF Where
      <4>3. ~Moves(b, 0, 0, -1, 0)
        BY <2>4, <4>1, <4>2 DEF Moves
      <4>4. ~Moves(b, 0, 0, 0, -1)
        BY <1>3, <2>4, <3>1 DEF Moves
      <4>5. Users(a)' = Users(a) + (-1)
        BY <2>1, <2>4, <4>3, <4>4 DEF Moves
      <4> QED
        BY <4>2, <4>5
    <3>3. con[a].m_ref_counter # 1
      BY <1>1, <3>1, <3>2 DEF Where
    <3>4. files' = files
      BY <2>1, <2>4, <3>3 DEF DroppedFiles
    <3> QED
      BY <1>4, <2>2, <3>1, <3>4
  <2>5. CASE a # b
    <3>1. Serving(a)' = Serving(a)
      BY <1>3, <2>1, <2>5 DEF Moves
    <3>2. con[b].life = "live"
      BY <1>1, <2>1 DEF Where
    <3>3. CASE con[b].m_ref_counter = 1
      BY <1>13, <2>1, <2>2, <2>5, <3>1, <3>2, <3>3 DEF DroppedFiles
    <3>4. CASE con[b].m_ref_counter # 1
      BY <1>4, <2>1, <2>2, <3>1, <3>4 DEF DroppedFiles
    <3> QED
      BY <3>3, <3>4
  <2> QED
    BY <2>3, <2>4, <2>5
<1> QED
  BY <1>5, <1>7, <1>8, <1>9, <1>10, <1>11, <1>12, <1>14, <1>15, StepKinds

(* Whose socket it is that an asock has until it is connected.             *)
LEMMA OwnFirstStep ==
    ASSUME MaxConnects <= 1, Single, [Next]_vars, NEW a \in Asock, OwnFirst(a)
    PROVE  OwnFirst(a)' \/ Shares(a)
<1> USE DEF Single
<1>1. Where /\ Where'
  BY WhereBoth
<1>2. /\ Joining(a) \in {0, 1} /\ Waiting(a) \in Nat
      /\ Joining(a)' \in {0, 1} /\ Waiting(a)' \in Nat
  <2>1. Joining(a) \in {0, 1} /\ Waiting(a) \in Nat
    BY <1>1 DEF Where
  <2>2. Joining(a)' \in {0, 1} /\ Waiting(a)' \in Nat
    BY <1>1 DEF Where
  <2> QED
    BY <2>1, <2>2
<1> DEFINE early == con[a].m_state = "Idle" \/ Joining(a) > 0 \/ Waiting(a) > 0
           then == con'[a].m_state = "Idle" \/ Joining(a)' > 0 \/ Waiting(a)' > 0
<1>3. /\ ToBeConnected(a) <=> con[a].life = "live" /\ early
      /\ ToBeConnected(a)' <=> con'[a].life = "live" /\ then
  <2>1. Joining(a) > 0 <=> user[a] = "connecting"
    BY DEF Joining
  <2>2. Joining(a)' > 0 <=> user'[a] = "connecting"
    BY DEF Joining
  <2>3. Waiting(a) > 0 <=> \E k \in Kept : m_new_connections[k] = a
    BY <1>1 DEF Where
  <2>4. Waiting(a)' > 0 <=> \E k \in Kept' : m_new_connections'[k] = a
    BY <1>1 DEF Where
  <2>5. ToBeConnected(a) <=> con[a].life = "live" /\ early
    BY <2>1, <2>3 DEF ToBeConnected
  <2>6. ToBeConnected(a)' <=> con'[a].life = "live" /\ then
    BY <2>2, <2>4 DEF ToBeConnected
  <2> QED
    BY <2>5, <2>6
<1>4. /\ files \in [FD -> Socket \union {Free}] /\ <<a, 0>> # Free
  <2>1. <<a, 0>> \in Socket
    BY AsockAssumption DEF Socket
  <2> QED
    BY <2>1, FreeAssumption DEF IInv, TypeOK, AsockTypeOK
(* What holds of the socket goes on to, if the asock was to be connected   *)
(* and its number stays as it is.                                          *)
<1>5. ASSUME con'[a].life = "live" /\ then => con[a].life = "live" /\ early,
             con'[a].life = "live" => con'[a].m_sock_desc = con[a].m_sock_desc,
             con'[a].life = "live" =>
                \A f \in FD : files[f] = <<a, 0>> /\ con[a].m_sock_desc = f
                                => files'[f] = files[f]
      PROVE  OwnFirst(a)'
  BY <1>3, <1>5 DEF OwnFirst
<1>6. ASSUME ~then PROVE OwnFirst(a)'
  BY <1>3, <1>6 DEF OwnFirst
<1>7. ASSUME Stays(a), con'[a] = con[a],
             \A f \in FD : files[f] = <<a, 0>> => files'[f] = files[f]
      PROVE  OwnFirst(a)'
  <2>1. Joining(a)' = Joining(a) /\ Waiting(a)' = Waiting(a)
    BY <1>7 DEF Stays
  <2>2. then <=> early
    BY <1>7, <2>1
  <2> HIDE DEF early, then
  <2> QED
    BY <1>5, <1>7, <2>2
<1> HIDE DEF early, then
<1>8. CASE NothingMoves
  <2>1. /\ Joining(a)' = Joining(a) /\ Waiting(a)' = Waiting(a) /\ files' = files
        /\ con'[a].m_state = con[a].m_state /\ con'[a].life = con[a].life
        /\ con'[a].m_sock_desc = con[a].m_sock_desc
    BY <1>8 DEF NothingMoves, Stays, Quiet
  <2>2. then <=> early
    BY <2>1 DEF early, then
  <2> QED
    BY <1>5, <2>1, <2>2
<1>9. ASSUME NEW b \in Asock, ConnectBegins(b)
      PROVE  OwnFirst(a)'
  <2>1. /\ Moves(b, 1, 1, 0, 0) /\ files' = files
        /\ con[b].connects < MaxConnects
        /\ con'[b].life = con[b].life /\ con'[b].m_sock_desc = con[b].m_sock_desc
        /\ \A c \in Asock \ {b} : con'[c] = con[c]
    BY <1>9, BeginMoves
  <2>2. CASE a = b
    <3>1. con[a].connects = 0
      <4>1. con[a].connects \in Nat /\ con[a].connects < MaxConnects
        BY <1>1, <2>1, <2>2 DEF Where
      <4> QED
        BY <4>1, AsockAssumption
    <3>2. early
      BY <1>1, <3>1, OnePlace DEF early
    <3> QED
      BY <1>5, <2>1, <2>2, <3>2
  <2>3. CASE a # b
    <3>1. Stays(a)
      <4>1. Moves(b, 1, 1, 0, 0)
        BY <2>1
      <4> QED
        BY <1>1, <2>3, <4>1, MovesOne
    <3> QED
      BY <1>7, <2>1, <2>3, <3>1
  <2> QED
    BY <2>2, <2>3
<1>10. ASSUME NEW b \in Asock, ConnectEnds(b)
       PROVE  OwnFirst(a)'
  <2>1. Moves(b, -1, -1, 1, 0) /\ con' = con /\ files' = files
    BY <1>10, EndMoves
  <2>2. CASE a = b
    <3>1. Joining(a)' = Joining(a) + (-1)
      BY <2>1, <2>2 DEF Moves
    <3>2. early
      BY <1>2, <3>1 DEF early
    <3> QED
      BY <1>5, <2>1, <3>2
  <2>3. CASE a # b
    <3>1. Stays(a)
      <4>1. Moves(b, -1, -1, 1, 0)
        BY <2>1
      <4> QED
        BY <1>1, <2>3, <4>1, MovesOne
    <3> QED
      BY <1>7, <2>1, <2>3, <3>1
  <2> QED
    BY <2>2, <2>3
<1>11. ASSUME NEW b \in Asock, CreateAsock(b)
       PROVE  OwnFirst(a)'
  <2>1. /\ Moves(b, 1, 0, 0, 0)
        /\ \A c \in Asock \ {b} : con'[c] = con[c]
    BY <1>11, CreateMoves
  <2>2. PICK f \in FD : /\ files[f] = Free
                        /\ files' = [files EXCEPT ![f] = <<b, 0>>]
                        /\ con'[b].m_sock_desc = f
    BY <1>11, CreateMoves
  <2>3. CASE a = b
    <3>1. files'[f] = <<a, 0>> /\ con'[a].m_sock_desc = f
      BY <1>4, <2>2, <2>3
    <3> QED
      BY <3>1 DEF OwnFirst
  <2>4. CASE a # b
    <3>1. Stays(a)
      <4>1. Moves(b, 1, 0, 0, 0)
        BY <2>1
      <4> QED
        BY <1>1, <2>4, <4>1, MovesOne
    <3>2. \A g \in FD : files[g] = <<a, 0>> => files'[g] = files[g]
      BY <1>4, <2>2
    <3> QED
      BY <1>7, <2>1, <2>4, <3>1, <3>2
  <2> QED
    BY <2>3, <2>4
<1>12. CASE TryConnect
  <2>1. PICK b \in Asock :
             /\ Moves(b, 0, 0, -1, 1) /\ Waiting(b) > 0
             /\ \E f \in FD :
                  /\ files[f] = Free
                  /\ files' = [files EXCEPT ![f] = <<b, con[b].connects>>]
             /\ con'[b].m_state \in {"InProgress", "Established"}
             /\ \A c \in Asock \ {b} : con'[c] = con[c]
    BY <1>12, TryMoves
  <2>2. CASE a = b
    <3>1. Waiting(a)' = Waiting(a) + (-1) /\ Joining(a)' = Joining(a) + 0
      BY <2>1, <2>2 DEF Moves
    <3>2. Waiting(a) = 1 /\ Joining(a) = 0
      BY <1>1, <2>1, <2>2, OnePlace
    <3> QED
      BY <1>6, <2>1, <2>2, <3>1, <3>2 DEF then
  <2>3. CASE a # b
    <3>1. Stays(a)
      <4>1. Moves(b, 0, 0, -1, 1)
        BY <2>1
      <4> QED
        BY <1>1, <2>3, <4>1, MovesOne
    <3>2. \A g \in FD : files[g] = <<a, 0>> => files'[g] = files[g]
      BY <1>4, <2>1
    <3> QED
      BY <1>7, <2>1, <2>3, <3>1, <3>2
  <2> QED
    BY <2>2, <2>3
<1>13. CASE TryConnectFails
  <2>1. PICK b \in Asock :
             /\ Moves(b, 0, 0, -1, 0) /\ Waiting(b) > 0 /\ files' = files
             /\ con'[b].m_state = "Failed"
             /\ \A c \in Asock \ {b} : con'[c] = con[c]
    BY <1>13, RefuseMoves
  <2>2. CASE a = b
    <3>1. Waiting(a)' = Waiting(a) + (-1) /\ Joining(a)' = Joining(a) + 0
      BY <2>1, <2>2 DEF Moves
    <3>2. Waiting(a) = 1 /\ Joining(a) = 0
      BY <1>1, <2>1, <2>2, OnePlace
    <3> QED
      BY <1>6, <2>1, <2>2, <3>1, <3>2 DEF then
  <2>3. CASE a # b
    <3>1. Stays(a)
      <4>1. Moves(b, 0, 0, -1, 0)
        BY <2>1
      <4> QED
        BY <1>1, <2>3, <4>1, MovesOne
    <3> QED
      BY <1>7, <2>1, <2>3, <3>1
  <2> QED
    BY <2>2, <2>3
<1>14. ASSUME NEW f \in FD, EventOut(f), ~NothingMoves
       PROVE  OwnFirst(a)'
  <2>1. PICK b \in Asock :
                /\ Serving(b) > 0 /\ (\A c \in Asock : Stays(c)) /\ files' = files
                /\ con'[b].m_state = "Established"
                /\ \A c \in Asock \ {b} : con'[c] = con[c]
    BY <1>14, EstablishMoves
  <2>2. CASE a = b
    <3>1. Joining(a) = 0 /\ Waiting(a) = 0
      BY <1>1, <2>1, <2>2, OnePlace
    <3>2. Joining(a)' = Joining(a) /\ Waiting(a)' = Waiting(a)
      BY <2>1 DEF Stays
    <3> QED
      BY <1>6, <2>1, <2>2, <3>1, <3>2 DEF then
  <2>3. CASE a # b
    BY <1>7, <2>1, <2>3
  <2> QED
    BY <2>2, <2>3
<1>15. ASSUME NEW b \in Asock, con[b].life = "live", b # a,
              files' = ClosedFile(files, con[b].m_sock_desc),
              then => early, con'[a].life = con[a].life,
              con'[a].m_sock_desc = con[a].m_sock_desc
       PROVE  OwnFirst(a)' \/ Shares(a)
  <2>1. CASE con[b].m_sock_desc = con[a].m_sock_desc
    BY <1>15, <2>1 DEF Shares
  <2>2. CASE con[b].m_sock_desc # con[a].m_sock_desc
    <3>1. \A f \in FD : con[a].m_sock_desc = f => files'[f] = files[f]
      BY <1>4, <1>15, <2>2 DEF ClosedFile
    <3> QED
      BY <1>5, <1>15, <3>1
  <2> QED
    BY <2>1, <2>2
<1>16. ASSUME \/ SendFails \/ CheckForClose \/ ReadEnds
              \/ \E f \in FD : EventClose(f) \/ EventOutFails(f),
              ~NothingMoves
       PROVE  OwnFirst(a)' \/ Shares(a)
  <2>1. PICK sockd : /\ Forgets(sockd)
                     /\ UNCHANGED <<con, files>> \/ \E b \in Asock : ClosesOne(b)
    BY <1>16, CloseMoves
  <2>2. Joining(a)' = Joining(a) /\ (Waiting(a)' = Waiting(a) \/ Waiting(a)' = Waiting(a) - 1)
    BY <2>1 DEF Forgets
  <2>3. then => con'[a].m_state = "Idle" \/ Joining(a) > 0 \/ Waiting(a) > 0
    BY <1>2, <2>2 DEF then
  <2>4. CASE UNCHANGED <<con, files>>
    <3>1. then => early
      BY <2>3, <2>4 DEF early
    <3> QED
      BY <1>5, <2>4, <3>1
  <2>5. ASSUME NEW b \in Asock, ClosesOne(b)
        PROVE  OwnFirst(a)' \/ Shares(a)
    <3>1. CASE a = b
      <4>1. Joining(a) = 0 /\ Waiting(a) = 0 /\ con'[a].m_state = "Failed"
        BY <1>1, <2>5, <3>1, OnePlace DEF ClosesOne
      <4> QED
        BY <1>6, <2>3, <4>1
    <3>2. CASE a # b
      <4>1. con[b].life = "live"
        BY <1>1, <2>5 DEF ClosesOne, Where
      <4>2. /\ con'[a].m_state = con[a].m_state /\ con'[a].life = con[a].life
            /\ con'[a].m_sock_desc = con[a].m_sock_desc
            /\ files' = ClosedFile(files, con[b].m_sock_desc)
        BY <2>5, <3>2 DEF ClosesOne
      <4>3. then => early
        BY <2>3, <4>2 DEF early
      <4> QED
        BY <1>15, <3>2, <4>1, <4>2, <4>3
    <3> QED
      BY <3>1, <3>2
  <2> QED
    BY <2>1, <2>4, <2>5
<1>17. ASSUME DropNew \/ Drop \/ \E b \in Asock : DestroyEnds(b)
       PROVE  OwnFirst(a)' \/ Shares(a)
  <2>1. PICK b \in Asock :
             /\ Moves(b, 0, 0, -1, 0) \/ Moves(b, 0, 0, 0, -1) \/ Moves(b, -1, 0, 0, 0)
             /\ con[b].m_ref_counter > 0
             /\ con' = Dropped(con, b)
             /\ files' = DroppedFiles(con, files, b)
    BY <1>17, DropMoves
  <2>2. /\ con'[a].m_sock_desc = con[a].m_sock_desc /\ con'[a].m_state = con[a].m_state
        /\ con'[a].life = IF b = a /\ con[b].m_ref_counter = 1 THEN "freed" ELSE con[a].life
    BY <2>1, DroppedFields
  <2>3. then => early
    <3>1. /\ Joining(a)' = Joining(a) + 0 \/ Joining(a)' = Joining(a)
          /\ \/ Waiting(a)' = Waiting(a) \/ Waiting(a)' = Waiting(a) + (-1)
             \/ Waiting(a)' = Waiting(a) + 0
      BY <2>1 DEF Moves
    <3> QED
      BY <1>2, <2>2, <3>1 DEF early, then
  <2>4. CASE con[b].m_ref_counter # 1
    <3>1. files' = files /\ con'[a].life = con[a].life
      BY <2>1, <2>2, <2>4 DEF DroppedFiles
    <3> QED
      BY <1>5, <2>2, <2>3, <3>1
  <2>5. CASE con[b].m_ref_counter = 1 /\ a = b
    BY <1>5, <2>2, <2>5
  <2>6. CASE con[b].m_ref_counter = 1 /\ a # b
    <3>1. con[b].life = "live" /\ files' = ClosedFile(files, con[b].m_sock_desc)
      BY <1>1, <2>1, <2>6 DEF Where, DroppedFiles
    <3> QED
      BY <1>15, <2>2, <2>3, <2>6, <3>1
  <2> QED
    BY <2>4, <2>5, <2>6
<1> QED
  BY <1>8, <1>9, <1>10, <1>11, <1>12, <1>13, <1>14, <1>16, <1>17, StepKinds

(* How the count of an asock's references goes on, at each step.           *)
LEMMA CountStep ==
    ASSUME MaxConnects <= 1, Single, [Next]_vars, NEW a \in Asock, Counted(a)
    PROVE  Counted(a)' \/ LeavesReference(a)
<1> USE DEF Single
<1>1. Where /\ Where'
  BY WhereBoth
<1>2. /\ Users(a) \in Nat /\ Waiting(a) \in Nat /\ Serving(a) \in Nat
      /\ Users(a)' \in Nat /\ Waiting(a)' \in Nat /\ Serving(a)' \in Nat
      /\ con[a].m_ref_counter = Users(a) + Waiting(a) + Serving(a)
      /\ con'[a].m_ref_counter = Users(a)' + Waiting(a)' + Serving(a)' => Counted(a)'
  <2>1. /\ Users(a) \in Nat /\ Waiting(a) \in Nat /\ Serving(a) \in Nat
        /\ con[a].m_ref_counter = Users(a) + Waiting(a) + Serving(a)
    BY <1>1 DEF Where
  <2>2. /\ Users(a)' \in Nat /\ Waiting(a)' \in Nat /\ Serving(a)' \in Nat
        /\ con'[a].m_ref_counter = Users(a)' + Waiting(a)' + Serving(a)' => Counted(a)'
    BY <1>1 DEF Where
  <2> QED
    BY <2>1, <2>2
<1>3. ASSUME NEW b \in Asock, NEW users \in Int, NEW joining \in Int,
             NEW waiting \in Int, NEW serving \in Int,
             Moves(b, users, joining, waiting, serving),
             con'[a].m_ref_counter
                = con[a].m_ref_counter + (IF a = b THEN users + waiting + serving ELSE 0)
      PROVE  Counted(a)'
  <2>1. /\ Users(a)' = Users(a) + (IF b = a THEN users ELSE 0)
        /\ Waiting(a)' = Waiting(a) + (IF b = a THEN waiting ELSE 0)
        /\ Serving(a)' = Serving(a) + (IF b = a THEN serving ELSE 0)
    BY <1>3 DEF Moves
  <2> QED
    BY <1>2, <1>3, <2>1
<1>4. CASE NothingMoves
  <2>1. /\ Users(a)' = Users(a) /\ Waiting(a)' = Waiting(a) /\ Serving(a)' = Serving(a)
        /\ con'[a].m_ref_counter = con[a].m_ref_counter
    BY <1>4 DEF NothingMoves, Stays, Quiet
  <2> QED
    BY <1>2, <2>1
<1>5. ASSUME NEW b \in Asock, ConnectBegins(b)
      PROVE  Counted(a)'
  <2>1. /\ Moves(b, 1, 1, 0, 0)
        /\ con'[b].m_ref_counter = con[b].m_ref_counter + 1
        /\ \A c \in Asock \ {b} : con'[c] = con[c]
    BY <1>5, BeginMoves
  <2>2. con'[a].m_ref_counter = con[a].m_ref_counter + (IF a = b THEN 1 + 0 + 0 ELSE 0)
    BY <1>2, <2>1
  <2> QED
    BY <1>3, <2>1, <2>2
<1>6. ASSUME NEW b \in Asock, ConnectEnds(b)
      PROVE  Counted(a)'
  <2>1. Moves(b, -1, -1, 1, 0) /\ con' = con
    BY <1>6, EndMoves
  <2>2. con'[a].m_ref_counter = con[a].m_ref_counter + (IF a = b THEN -1 + 1 + 0 ELSE 0)
    BY <1>2, <2>1
  <2> QED
    BY <1>3, <2>1, <2>2
<1>7. ASSUME NEW b \in Asock, CreateAsock(b)
      PROVE  Counted(a)'
  <2>1. /\ Moves(b, 1, 0, 0, 0)
        /\ con'[b].m_ref_counter = 1 /\ con[b].m_ref_counter = 0
        /\ \A c \in Asock \ {b} : con'[c] = con[c]
    BY <1>7, CreateMoves
  <2>2. con'[a].m_ref_counter = con[a].m_ref_counter + (IF a = b THEN 1 + 0 + 0 ELSE 0)
    BY <1>2, <2>1
  <2> QED
    BY <1>3, <2>1, <2>2
<1>8. CASE TryConnect
  <2>1. PICK b \in Asock :
             /\ Moves(b, 0, 0, -1, 1)
             /\ con'[b].m_ref_counter = con[b].m_ref_counter
             /\ \A c \in Asock \ {b} : con'[c] = con[c]
    BY <1>8, TryMoves
  <2>2. con'[a].m_ref_counter = con[a].m_ref_counter + (IF a = b THEN 0 + -1 + 1 ELSE 0)
    BY <1>2, <2>1
  <2> QED
    BY <1>3, <2>1, <2>2
<1>9. CASE TryConnectFails
  <2>1. PICK b \in Asock :
             /\ Moves(b, 0, 0, -1, 0)
             /\ con'[b].m_ref_counter = con[b].m_ref_counter - 1
             /\ \A c \in Asock \ {b} : con'[c] = con[c]
    BY <1>9, RefuseMoves
  <2>2. con'[a].m_ref_counter = con[a].m_ref_counter + (IF a = b THEN 0 + -1 + 0 ELSE 0)
    BY <1>2, <2>1
  <2> QED
    BY <1>3, <2>1, <2>2
<1>10. ASSUME NEW f \in FD, EventOut(f), ~NothingMoves
       PROVE  Counted(a)'
  <2>1. PICK b \in Asock :
                /\ \A c \in Asock : Stays(c)
                /\ con'[b].m_ref_counter = con[b].m_ref_counter
                /\ \A c \in Asock \ {b} : con'[c] = con[c]
    BY <1>10, EstablishMoves
  <2>2. /\ Users(a)' = Users(a) /\ Waiting(a)' = Waiting(a) /\ Serving(a)' = Serving(a)
        /\ con'[a].m_ref_counter = con[a].m_ref_counter
    BY <2>1 DEF Stays
  <2> QED
    BY <1>2, <2>2
<1>11. ASSUME DropNew \/ Drop \/ \E b \in Asock : DestroyEnds(b)
       PROVE  Counted(a)'
  <2>1. PICK b \in Asock :
             /\ Moves(b, 0, 0, -1, 0) \/ Moves(b, 0, 0, 0, -1) \/ Moves(b, -1, 0, 0, 0)
             /\ con[b].m_ref_counter > 0
             /\ con' = Dropped(con, b)
    BY <1>11, DropMoves
  <2>2. con'[a].m_ref_counter = con[a].m_ref_counter - (IF b = a THEN 1 ELSE 0)
    BY <2>1, DroppedFields
  <2>3. con'[a].m_ref_counter = con[a].m_ref_counter + (IF a = b THEN -1 + 0 + 0 ELSE 0)
    BY <1>2, <2>2
  <2>4. con'[a].m_ref_counter = con[a].m_ref_counter + (IF a = b THEN 0 + -1 + 0 ELSE 0)
    BY <2>3
  <2>5. con'[a].m_ref_counter = con[a].m_ref_counter + (IF a = b THEN 0 + 0 + -1 ELSE 0)
    BY <2>3
  <2> QED
    BY <1>3, <2>1, <2>3, <2>4, <2>5
(* A close may forget an asock that waits and has the number; the number   *)
(* is another's too, or that of no socket.                                 *)
<1>12. ASSUME \/ SendFails \/ CheckForClose \/ ReadEnds
              \/ \E f \in FD : EventClose(f) \/ EventOutFails(f),
              ~NothingMoves
       PROVE  Counted(a)' \/ LeavesReference(a)
  <2>0. ASSUME Waiting(a)' = Waiting(a) - 1, Serving(a)' = Serving(a),
               con'[a].m_ref_counter = con[a].m_ref_counter,
               Shares(a) \/ \E f \in FD : con[a].m_sock_desc = f /\ files[f] = Free
        PROVE  LeavesReference(a)
    <3>1. WaitsWithWrongNumber(a)
      <4>1. Waiting(a) > 0
        BY <1>2, <2>0
      <4>2. \E k \in Kept : m_new_connections[k] = a
        BY <1>1, <4>1 DEF Where
      <4> QED
        BY <2>0, <4>2 DEF WaitsWithWrongNumber
    <3>2. InLists(a)' = InLists(a) - 1
      <4>1. InLists(a) = Waiting(a) + Serving(a)
        BY <1>1 DEF Where
      <4>2. InLists(a)' = Waiting(a)' + Serving(a)'
        BY <1>1 DEF Where
      <4> QED
        BY <1>2, <2>0, <4>1, <4>2
    <3> QED
      BY <2>0, <3>1, <3>2 DEF LeavesReference
  <2>1. PICK sockd :
            /\ Forgets(sockd) /\ Named(sockd)
            /\ \/ /\ UNCHANGED <<con, files>>
                  /\ \A b \in Asock : Serving(b)' = Serving(b)
                  /\ \A b \in Asock : con[b].m_sock_desc = sockd => Serving(b) = 0
               \/ \E b \in Asock : con[b].m_sock_desc = sockd /\ ClosesOne(b)
    BY <1>12, CloseMoves
  <2>2. /\ Users(a)' = Users(a)
        /\ \/ Waiting(a)' = Waiting(a)
           \/ con[a].m_sock_desc = sockd /\ Waiting(a)' = Waiting(a) - 1
    BY <2>1 DEF Forgets
  <2>3. ASSUME UNCHANGED con, Serving(a)' = Serving(a),
               \A b \in Asock : con[b].m_sock_desc = sockd => Serving(b) = 0,
               con[a].m_sock_desc = sockd, Waiting(a)' = Waiting(a) - 1
        PROVE  Shares(a) \/ \E f \in FD : con[a].m_sock_desc = f /\ files[f] = Free
    <3>1. sockd \in FD /\ Watched(sockd) /\ Waiting(a) > 0
      <4>1. ~\E b \in Asock : Serving(b) > 0 /\ con[b].m_sock_desc = sockd
        BY <1>1, <2>3 DEF Where
      <4> QED
        BY <1>2, <2>1, <2>3, <4>1 DEF Named
    <3>2. CASE files[sockd] = Free
      BY <2>3, <3>1, <3>2
    <3>3. CASE files[sockd] # Free
      <4>1. files[sockd] \in Monitored
        BY <3>1, <3>3 DEF Reported
      <4>2. PICK b \in Asock, n \in 1 .. MaxConnects : files[sockd] = <<b, n>>
        BY <4>1 DEF Monitored
      <4>3. Linked(b, n, sockd)
        BY <3>1, <4>2 DEF Opened
      <4>4. n > 0
        BY <4>2
      <4>5. con[b].life = "live" /\ con[b].m_sock_desc = sockd
        BY <4>3, <4>4 DEF Linked
      <4>6. a # b
        BY <1>1, <1>2, <3>1, <4>3, <4>4 DEF Linked, Where
      <4> QED
        BY <2>3, <4>5, <4>6 DEF Shares
    <3> QED
      BY <3>2, <3>3
  <2>4. CASE /\ UNCHANGED <<con, files>>
             /\ \A b \in Asock : Serving(b)' = Serving(b)
             /\ \A b \in Asock : con[b].m_sock_desc = sockd => Serving(b) = 0
    <3>1. con' = con /\ Serving(a)' = Serving(a)
      BY <2>4
    <3>2. CASE Waiting(a)' = Waiting(a)
      BY <1>2, <2>2, <3>1, <3>2
    <3>3. CASE con[a].m_sock_desc = sockd /\ Waiting(a)' = Waiting(a) - 1
      BY <2>0, <2>3, <2>4, <3>1, <3>3
    <3> QED
      BY <2>2, <3>2, <3>3
  <2>5. ASSUME NEW b \in Asock, con[b].m_sock_desc = sockd, ClosesOne(b)
        PROVE  Counted(a)' \/ LeavesReference(a)
    <3>1. /\ Serving(a)' = Serving(a) - (IF b = a THEN 1 ELSE 0)
          /\ con'[a].m_ref_counter = con[a].m_ref_counter - (IF b = a THEN 1 ELSE 0)
      BY <2>5 DEF ClosesOne
    <3>2. CASE Waiting(a)' = Waiting(a)
      BY <1>2, <2>2, <3>1, <3>2
    <3>3. CASE con[a].m_sock_desc = sockd /\ Waiting(a)' = Waiting(a) - 1
      <4>1. a # b
        <5>1. Serving(b) > 0
          BY <2>5 DEF ClosesOne
        <5>2. Waiting(b) = 0
          BY <1>1, <5>1, OnePlace
        <5> QED
          BY <1>2, <3>3, <5>2
      <4>2. con[b].life = "live"
        BY <1>1, <2>5 DEF ClosesOne, Where
      <4>3. Shares(a)
        BY <2>5, <3>3, <4>1, <4>2 DEF Shares
      <4> QED
        BY <1>2, <2>0, <3>1, <3>3, <4>1, <4>3
    <3> QED
      BY <2>2, <3>2, <3>3
  <2> QED
    BY <2>1, <2>4, <2>5
<1> QED
  BY <1>4, <1>5, <1>6, <1>7, <1>8, <1>9, <1>10, <1>11, <1>12, StepKinds

-----------------------------------------------------------------------------
(* The state of an asock that is connected once goes as the diagram of     *)
(* asock.h:84 says, whatever others are closed meanwhile; connected twice  *)
(* it goes back (asock_service.c:337).                                     *)
THEOREM StateCorrect == MaxConnects <= 1 => (Spec => StateDiagram)
<1> SUFFICES ASSUME MaxConnects <= 1 PROVE Spec => StateDiagram
  OBVIOUS
<1>1. Single /\ [Next]_vars
        => [\A a \in Asock :
              \/ con[a].life = "unborn"
              \/ con'[a].m_state = con[a].m_state
              \/ <<con[a].m_state, con'[a].m_state>> \in Changes]_vars
  BY StateStep
<1>2. Spec => []Single
  BY SingleInvariant
<1> QED
  BY <1>1, <1>2, PTL DEF Spec, StateDiagram

(* The service serves each connection through its own socket, and an asock *)
(* has that of its creation until it is connected, until an asock that has *)
(* the same number is closed or destroyed: nothing else takes a number     *)
(* away (asock_service.c:629, asock_impl.c:154).                           *)
THEOREM SocketCorrect == MaxConnects <= 1 => (Spec => OwnSocket)
<1> SUFFICES ASSUME MaxConnects <= 1 PROVE Spec => OwnSocket
  OBVIOUS
<1>1. Single /\ [Next]_vars
        => [\A a \in Asock :
              /\ Own(a) => Own(a)' \/ Shares(a)
              /\ OwnFirst(a) => OwnFirst(a)' \/ Shares(a)]_vars
  BY OwnStep, OwnFirstStep
<1>2. Spec => []Single
  BY SingleInvariant
<1> QED
  BY <1>1, <1>2, PTL DEF Spec, OwnSocket

(* The counter of an asock counts its user and its places in the lists,    *)
(* whoever closes, destroys or drops it and in whatever order              *)
(* (asock_impl.c:150, asock_service.c:648).  One step is the exception: a  *)
(* close meant for another one forgets an asock that still waits to be     *)
(* connected, and leaves it one reference too many (asock_service.c:629).  *)
THEOREM RefsCorrect == MaxConnects <= 1 => (Spec => RefsCounted)
<1> SUFFICES ASSUME MaxConnects <= 1 PROVE Spec => RefsCounted
  OBVIOUS
<1>1. Single /\ [Next]_vars
        => [\A a \in Asock : Counted(a) => Counted(a)' \/ LeavesReference(a)]_vars
  BY CountStep
<1>2. Spec => []Single
  BY SingleInvariant
<1> QED
  BY <1>1, <1>2, PTL DEF Spec, RefsCounted

(* When the memory of an asock is freed its connection is closed: only the *)
(* socket that it was made with may stay open, where a connect took its    *)
(* number away (asock_service.c:772).                                      *)
THEOREM FreedCorrect == MaxConnects <= 1 => (Spec => []FreedIsClosed)
<1> SUFFICES ASSUME MaxConnects <= 1 PROVE Spec => []FreedIsClosed
  OBVIOUS
<1>1. Single => FreedIsClosed
  <2> SUFFICES ASSUME Single, NEW a \in Asock, NEW f \in FD,
                      con[a].life = "freed", files[f] # Free, files[f][1] = a
               PROVE  files[f][2] = 0 /\ con[a].connects > 0
    BY DEF FreedIsClosed
  <2>1. files[f] \in Socket
    BY DEF Single, IInv, TypeOK, AsockTypeOK
  <2>2. PICK n \in 0 .. MaxConnects : files[f] = <<a, n>>
    BY <2>1 DEF Socket
  <2>3. Linked(a, n, f)
    BY <2>2 DEF Single, Opened
  <2> QED
    BY <2>2, <2>3 DEF Linked
<1>2. Spec => []Single
  BY SingleInvariant
<1> QED
  BY <1>1, <1>2, PTL
=============================================================================
