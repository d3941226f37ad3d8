---------------------------- MODULE Vector_proofs ----------------------------
(***************************************************************************)
(* For every item set, initial capacity and bound: the vector's size and   *)
(* capacity fit its block, and the vector implements a list.               *)
(***************************************************************************)
EXTENDS Vector, SequenceTheorems, TLAPS

(* The inductive invariant. *)
Fields == TypeOK /\ Fits

-----------------------------------------------------------------------------
(* What asock_vector_create returns fits.                                  *)
LEMMA InitFields == Init => Fields
BY VectorAssumption DEF Init, Fields, TypeOK, Fits

(* memcpy to the end of a block that has a slot left keeps the fields true *)
(* (asock_vector_push).                                                    *)
LEMMA StoreFields ==
    ASSUME NEW item \in Item, NEW cap \in Nat,
           NEW block \in [0 .. cap - 1 -> Item \union {Junk}],
           TypeOK, StoreLast(block, cap, item)
    PROVE  Fields'
<1>1. m_size \in 0 .. cap - 1 /\ m_size \in Nat
  BY DEF StoreLast, TypeOK
<1>2. m_data' \in [0 .. cap - 1 -> Item \union {Junk}]
  BY <1>1 DEF StoreLast
<1> QED
  BY <1>1, <1>2 DEF StoreLast, Fields, TypeOK, Fits

(* A block that a slot was found in is not the NULL block.                 *)
LEMMA BlockType ==
    ASSUME TypeOK, NEW p \in DOMAIN m_data
    PROVE  m_data \in [0 .. m_capacity - 1 -> Item \union {Junk}]
<1>1. m_data # Null
  BY DEF Null
<1> QED
  BY <1>1 DEF TypeOK

(* Every slot of the grown block has a value.                              *)
LEMMA GrownType ==
    ASSUME TypeOK
    PROVE  Grown \in [0 .. 2 * m_capacity - 1 -> Item \union {Junk}]
<1>1. \A p : Held(p) \in Item \union {Junk}
  BY DEF TypeOK, Held, Null
<1> QED
  BY <1>1 DEF Grown

(* Every call keeps the fields true.                                       *)
LEMMA NextFields == Fields /\ [Next]_vars => Fields'
<1> SUFFICES ASSUME Fields, [Next]_vars
             PROVE  Fields'
  OBVIOUS
<1> USE DEF Fields
<1>1. CASE UNCHANGED vars
  BY <1>1 DEF vars, TypeOK, Fits
<1>2. ASSUME NEW item \in Item, PushFits(item)
      PROVE  Fields'
  <2>1. m_data \in [0 .. m_capacity - 1 -> Item \union {Junk}] /\ m_capacity \in Nat
    BY <1>2, BlockType DEF PushFits, StoreLast, TypeOK
  <2> QED
    BY <1>2, <2>1, StoreFields DEF PushFits
<1>3. ASSUME NEW item \in Item, PushGrows(item)
      PROVE  Fields'
  <2>1. 2 * m_capacity \in Nat
    BY DEF TypeOK
  <2> QED
    BY <1>3, <2>1, GrownType, StoreFields DEF PushGrows
<1>4. ASSUME NEW item \in Item, PushNoMem(item)
      PROVE  Fields'
  BY <1>4 DEF PushNoMem, Full, TypeOK, Fits
<1>5. ASSUME NEW item \in Item, IndexOf(item)
      PROVE  Fields'
  BY <1>5 DEF IndexOf, TypeOK, Fits
<1>6. ASSUME NEW k \in 0 .. MaxIndex, Erase(k)
      PROVE  Fields'
  <2>1. k \in Nat /\ m_size \in Nat /\ k < m_size /\ m_capacity \in Nat
    BY <1>6, VectorAssumption DEF Erase, EraseMoving, TypeOK
  <2>2. m_data' = MovedDown(k, m_size - 1 - k) /\ m_size' = m_size - 1
        /\ m_capacity' = m_capacity
    BY <1>6 DEF Erase, EraseMoving
  <2>3. CASE m_data = Null
    <3>1. m_data' = Null
      BY <2>2, <2>3 DEF MovedDown, Null
    <3> QED
      BY <2>1, <2>2, <3>1 DEF TypeOK, Fits
  <2>4. CASE m_data \in [0 .. m_capacity - 1 -> Item \union {Junk}]
    <3>1. ASSUME NEW p \in 0 .. m_capacity - 1
          PROVE  (IF p >= k /\ p < k + (m_size - 1 - k) THEN m_data[p + 1] ELSE m_data[p])
                   \in Item \union {Junk}
      <4>1. p >= k /\ p < k + (m_size - 1 - k) => p + 1 \in 0 .. m_capacity - 1
        BY <2>1 DEF Fits
      <4> QED
        BY <2>4, <4>1
    <3>2. m_data' \in [0 .. m_capacity - 1 -> Item \union {Junk}]
      BY <2>2, <2>4, <3>1 DEF MovedDown
    <3> QED
      BY <2>1, <2>2, <3>2 DEF TypeOK, Fits
  <2> QED
    BY <2>3, <2>4 DEF TypeOK
<1>7. ASSUME NEW k \in 0 .. MaxIndex, EraseRefused(k) \/ At(k)
      PROVE  Fields'
  BY <1>7 DEF EraseRefused, At, TypeOK, Fits
<1>8. CASE Clear
  BY <1>8 DEF Clear, TypeOK, Fits
<1> QED
  BY <1>1, <1>2, <1>3, <1>4, <1>5, <1>6, <1>7, <1>8 DEF Next

(* Size and capacity fit the block, through every growth, erasure and      *)
(* failed realloc (asock_vector.c:99-131).                                 *)
THEOREM FitsCorrect == Spec => []Fits
<1>1. Fields => Fits
  BY DEF Fields
<1> QED
  BY InitFields, NextFields, <1>1, PTL DEF Spec

-----------------------------------------------------------------------------
(* The list of the vector's items.                                         *)
Slots == Item \union {Junk}

LEMMA HeldType == TypeOK => \A p : Held(p) \in Slots
BY DEF TypeOK, Held, Null, Slots

(* The list is a sequence, with what the slots hold in it. *)
Listed ==
    /\ Contents \in Seq(Slots)
    /\ Len(Contents) = m_size
    /\ DOMAIN Contents = 1 .. m_size
    /\ \A n \in 1 .. m_size : Contents[n] = Held(n - 1)

LEMMA ContentsType == TypeOK => Listed
<1> SUFFICES ASSUME TypeOK
             PROVE  Listed
  OBVIOUS
<1>1. m_size \in Nat
  BY DEF TypeOK
<1>2. Contents \in [1 .. m_size -> Slots]
  BY HeldType DEF Contents
<1> QED
  BY <1>1, <1>2 DEF Contents, Listed

LEMMA ContentsThen == TypeOK' => Listed'
BY ContentsType, PTL

(* A push that stores the item behind the others appends it.               *)
LEMMA StoreAppends ==
    ASSUME NEW item \in Item, NEW cap \in Nat,
           NEW block \in [0 .. cap - 1 -> Slots],
           TypeOK, TypeOK', StoreLast(block, cap, item),
           \A p \in 0 .. m_size - 1 : p \in DOMAIN block /\ block[p] = Held(p)
    PROVE  Contents' = Append(Contents, item)
<1>1. m_size \in Nat /\ m_size \in 0 .. cap - 1
  BY DEF TypeOK, StoreLast
<1>2. /\ m_size' = m_size + 1
      /\ m_data' = [block EXCEPT ![m_size] = item]
  BY DEF StoreLast
<1>3. /\ Append(Contents, item) \in Seq(Slots)
      /\ Len(Append(Contents, item)) = m_size + 1
      /\ \A n \in 1 .. m_size : Append(Contents, item)[n] = Contents[n]
      /\ Append(Contents, item)[m_size + 1] = item
  <2>1. item \in Slots
    BY DEF Slots
  <2> QED
    BY <1>1, <2>1, ContentsType, AppendProperties DEF Listed
<1>4. ASSUME NEW n \in 1 .. m_size + 1
      PROVE  Contents'[n] = Append(Contents, item)[n]
  <2>1. Contents'[n] = Held(n - 1)'
    BY <1>1, <1>2, ContentsThen DEF Listed
  <2>2. n - 1 \in 0 .. cap - 1
    BY <1>1
  <2>3. Held(n - 1)' = [block EXCEPT ![m_size] = item][n - 1]
    BY <1>2, <2>2 DEF Held
  <2>4. CASE n = m_size + 1
    BY <1>1, <1>3, <2>1, <2>2, <2>3, <2>4
  <2>5. CASE n \in 1 .. m_size
    <3>1. [block EXCEPT ![m_size] = item][n - 1] = Held(n - 1)
      BY <1>1, <2>2, <2>5
    <3> QED
      BY <1>3, <2>1, <2>3, <2>5, <3>1, ContentsType DEF Listed
  <2>6. n = m_size + 1 \/ n \in 1 .. m_size
    BY <1>1
  <2> QED
    BY <2>4, <2>5, <2>6
<1>5. Contents' \in Seq(Slots) /\ Len(Contents') = m_size + 1
  BY <1>2, ContentsThen DEF Listed
<1> QED
  BY <1>3, <1>4, <1>5, SeqEqual

(* The list without its item at position k.                                *)
LEMMA Removed ==
    ASSUME NEW S, NEW s \in Seq(S), NEW k \in Nat, k < Len(s)
    PROVE  LET r == SubSeq(s, 1, k) \o SubSeq(s, k + 2, Len(s)) IN
           /\ r \in Seq(S)
           /\ Len(r) = Len(s) - 1
           /\ \A n \in 1 .. Len(s) - 1 : r[n] = IF n <= k THEN s[n] ELSE s[n + 1]
<1> DEFINE first == SubSeq(s, 1, k)
           rest == SubSeq(s, k + 2, Len(s))
<1>1. Len(s) \in Nat /\ \A i \in 1 .. Len(s) : s[i] \in S
  OBVIOUS
<1>2. first \in Seq(S) /\ Len(first) = k /\ \A i \in 1 .. k : first[i] = s[i]
  <2>1. \A i \in 1 .. k : s[i] \in S
    BY <1>1
  <2> QED
    BY <2>1, SubSeqProperties
<1>3. /\ rest \in Seq(S)
      /\ Len(rest) = Len(s) - k - 1
      /\ \A i \in 1 .. Len(s) - k - 1 : rest[i] = s[k + 1 + i]
  <2>1. \A i \in k + 2 .. Len(s) : s[i] \in S
    BY <1>1
  <2>2. Len(rest) = IF k + 2 <= Len(s) THEN Len(s) - (k + 2) + 1 ELSE 0
    BY <1>1, <2>1, SubSeqProperties
  <2>3. \A i \in 1 .. Len(s) - (k + 2) + 1 : rest[i] = s[(k + 2) + i - 1]
    BY <1>1, <2>1, SubSeqProperties
  <2>4. rest \in Seq(S)
    BY <1>1, <2>1, SubSeqProperties
  <2> HIDE DEF rest
  <2> QED
    BY <1>1, <2>2, <2>3, <2>4
<1> HIDE DEF first, rest
<1>4. /\ first \o rest \in Seq(S)
      /\ Len(first \o rest) = Len(s) - 1
      /\ \A n \in 1 .. Len(s) - 1 :
            (first \o rest)[n] = IF n <= k THEN first[n] ELSE rest[n - k]
  BY <1>1, <1>2, <1>3, ConcatProperties
<1>5. ASSUME NEW n \in 1 .. Len(s) - 1
      PROVE  (first \o rest)[n] = IF n <= k THEN s[n] ELSE s[n + 1]
  <2>1. CASE n <= k
    BY <1>2, <1>4, <2>1
  <2>2. CASE ~(n <= k)
    <3>1. n - k \in 1 .. Len(s) - k - 1 /\ k + 1 + (n - k) = n + 1
      BY <1>1, <2>2
    <3> QED
      BY <1>3, <1>4, <2>2, <3>1
  <2> QED
    BY <2>1, <2>2
<1> QED
  BY <1>4, <1>5 DEF first, rest

-----------------------------------------------------------------------------
(* A vector is created as an empty list.                                   *)
LEMMA InitRefines == Init => List!Init
<1> SUFFICES ASSUME Init
             PROVE  List!Init
  OBVIOUS
<1>1. Contents = << >>
  BY InitFields, ContentsType, EmptySeq DEF Init, Fields, Listed
<1> QED
  BY <1>1 DEF Init, List!Init

(* Both ways a push succeeds append the item.                              *)
LEMMA PushRefines ==
    ASSUME Fields, Fields', NEW item \in Item, PushFits(item) \/ PushGrows(item)
    PROVE  List!Push(item)
<1> USE DEF Fields
<1>1. input' = item /\ result' = Success
  BY DEF PushFits, PushGrows, StoreLast
<1>2. CASE PushFits(item)
  <2>1. m_data \in [0 .. m_capacity - 1 -> Slots] /\ m_capacity \in Nat
    BY <1>2, BlockType DEF PushFits, StoreLast, TypeOK, Slots
  <2>2. \A p \in 0 .. m_size - 1 : p \in DOMAIN m_data /\ m_data[p] = Held(p)
    BY <2>1 DEF Held, Fits, TypeOK
  <2>3. Contents' = Append(Contents, item)
    BY <1>2, <2>1, <2>2, StoreAppends DEF PushFits
  <2> QED
    BY <1>1, <2>3 DEF List!Push
<1>3. CASE PushGrows(item)
  <2>1. 2 * m_capacity \in Nat /\ m_size \in Nat /\ m_size = m_capacity
    BY <1>3 DEF PushGrows, Full, TypeOK
  <2>2. Grown \in [0 .. 2 * m_capacity - 1 -> Slots]
    BY GrownType DEF Slots
  <2>3. \A p \in 0 .. m_size - 1 : p \in DOMAIN Grown /\ Grown[p] = Held(p)
    BY <2>1 DEF Grown
  <2>4. Contents' = Append(Contents, item)
    BY <1>3, <2>1, <2>2, <2>3, StoreAppends DEF PushGrows
  <2> QED
    BY <1>1, <2>4 DEF List!Push
<1> QED
  BY <1>2, <1>3

(* A push that realloc fails leaves the number of the items, and nothing   *)
(* of them.                                                                *)
LEMMA NoMemRefines ==
    ASSUME Fields, NEW item \in Item, PushNoMem(item)
    PROVE  List!PushRefused(item)
<1>1. \A p : Held(p)' = Junk
  BY DEF PushNoMem, Held, Null
<1>2. m_size' = m_size /\ input' = item /\ result' = Failure
  BY DEF PushNoMem
<1>3. Contents' = [n \in 1 .. m_size |-> Junk]
  BY <1>1, <1>2 DEF Contents
<1> QED
  BY <1>2, <1>3, ContentsType DEF List!PushRefused, Fields, Listed

(* The move down by one slot is the removal of an item, whether or not     *)
(* there is a block.                                                       *)
LEMMA EraseRefines ==
    ASSUME Fields, Fields', NEW k \in 0 .. MaxIndex, Erase(k)
    PROVE  List!Erase(k)
<1> USE DEF Fields
<1> DEFINE r == SubSeq(Contents, 1, k) \o SubSeq(Contents, k + 2, Len(Contents))
<1>1. /\ k \in Nat /\ m_size \in Nat /\ k < m_size
      /\ m_capacity \in Nat /\ m_size <= m_capacity
  BY VectorAssumption DEF Erase, EraseMoving, TypeOK, Fits
<1>2. /\ m_data' = MovedDown(k, m_size - 1 - k)
      /\ m_size' = m_size - 1
      /\ k + 1 < m_size => m_data # Null
      /\ result' = Success /\ input' = input
  BY DEF Erase, EraseMoving
<1>3. Contents \in Seq(Slots) /\ Len(Contents) = m_size
  BY ContentsType DEF Listed
<1>4. \A n \in 1 .. m_size : Contents[n] = Held(n - 1)
  BY ContentsType DEF Listed
<1>5. /\ r \in Seq(Slots)
      /\ Len(r) = m_size - 1
      /\ \A n \in 1 .. m_size - 1 :
            r[n] = IF n <= k THEN Contents[n] ELSE Contents[n + 1]
  BY <1>1, <1>3, Removed
<1> HIDE DEF r
<1>6. Contents' \in Seq(Slots) /\ Len(Contents') = m_size - 1
  BY <1>2, ContentsThen DEF Listed
<1>7. \A n \in 1 .. m_size - 1 : Contents'[n] = Held(n - 1)'
  BY <1>2, ContentsThen DEF Listed
<1>8. ASSUME NEW n \in 1 .. m_size - 1
      PROVE  Contents'[n] = r[n]
  <2>1. Contents[n] = Held(n - 1) /\ Contents[n + 1] = Held(n)
    <3>1. n \in 1 .. m_size /\ n + 1 \in 1 .. m_size /\ (n + 1) - 1 = n
      BY <1>1
    <3> QED
      BY <1>4, <3>1
  <2>2. CASE m_data = Null
    <3>1. m_size = k + 1
      BY <1>1, <1>2, <2>2
    <3>2. n <= k
      BY <1>1, <3>1
    <3>3. m_data' = Null
      BY <1>2, <2>2 DEF MovedDown, Null
    <3>4. Held(n - 1)' = Held(n - 1)
      BY <2>2, <3>3 DEF Held
    <3> QED
      BY <1>5, <1>7, <2>1, <3>2, <3>4
  <2>3. CASE m_data \in [0 .. m_capacity - 1 -> Slots]
    <3>1. n - 1 \in 0 .. m_capacity - 1 /\ n \in 0 .. m_capacity - 1
      BY <1>1
    <3>2. Held(n - 1) = m_data[n - 1] /\ Held(n) = m_data[n]
      BY <2>3, <3>1 DEF Held
    <3>3. Held(n - 1)' = IF n - 1 >= k /\ n - 1 < k + (m_size - 1 - k)
                         THEN m_data[(n - 1) + 1] ELSE m_data[n - 1]
      BY <1>2, <2>3, <3>1 DEF Held, MovedDown
    <3>4. (n - 1 >= k /\ n - 1 < k + (m_size - 1 - k)) <=> ~(n <= k)
      BY <1>1
    <3>5. (n - 1) + 1 = n
      BY <1>1
    <3>6. Held(n - 1)' = IF n <= k THEN Held(n - 1) ELSE Held(n)
      BY <3>2, <3>3, <3>4, <3>5
    <3> QED
      BY <1>5, <1>7, <2>1, <3>6
  <2> QED
    BY <2>2, <2>3 DEF TypeOK, Slots
<1>9. Contents' = r
  BY <1>1, <1>5, <1>6, <1>8, SeqEqual
<1> QED
  BY <1>1, <1>2, <1>3, <1>9 DEF List!Erase, List!Valid, r

(* The search through the slots finds the first position in the list.      *)
LEMMA IndexRefines ==
    ASSUME Fields, NEW item \in Item, IndexOf(item)
    PROVE  List!IndexOf(item)
<1> USE DEF Fields
<1>1. m_size \in Nat /\ m_capacity \in Nat /\ m_size <= m_capacity
  BY DEF TypeOK, Fits
<1>2. DOMAIN Contents = 1 .. m_size /\ \A n \in 1 .. m_size : Contents[n] = Held(n - 1)
  BY ContentsType DEF Listed
<1>3. ASSUME NEW p \in 0 .. m_size - 1
      PROVE  m_data[p] = Contents[p + 1] /\ p + 1 \in 1 .. m_size
  <2>1. p + 1 \in 1 .. m_size /\ (p + 1) - 1 = p /\ p \in 0 .. m_capacity - 1
    BY <1>1
  <2>2. m_data # Null
    BY <1>1 DEF IndexOf
  <2>3. Held(p) = m_data[p]
    BY <2>1, <2>2 DEF Held, Fits
  <2> QED
    BY <1>2, <2>1, <2>3
<1>4. Contents' = Contents /\ input' = input
  BY DEF IndexOf, Contents, Held
<1>5. CASE \E p \in 0 .. m_size - 1 :
             /\ m_data[p] = item /\ \A q \in 0 .. p - 1 : m_data[q] # item
             /\ result' = p
  <2>1. PICK p \in 0 .. m_size - 1 :
             /\ m_data[p] = item /\ \A q \in 0 .. p - 1 : m_data[q] # item
             /\ result' = p
    BY <1>5
  <2>2. p + 1 \in DOMAIN Contents /\ Contents[p + 1] = item /\ result' = (p + 1) - 1
    BY <1>1, <1>2, <1>3, <2>1
  <2>3. ASSUME NEW m \in 1 .. (p + 1) - 1
        PROVE  Contents[m] # item
    <3>1. m - 1 \in 0 .. p - 1 /\ m - 1 \in 0 .. m_size - 1 /\ (m - 1) + 1 = m
      BY <1>1
    <3> QED
      BY <1>3, <2>1, <3>1
  <2> QED
    BY <1>4, <2>2, <2>3 DEF List!IndexOf
<1>6. CASE (\A p \in 0 .. m_size - 1 : m_data[p] # item) /\ result' = NoIndex
  <2>1. ASSUME NEW n \in DOMAIN Contents
        PROVE  Contents[n] # item
    <3>1. n - 1 \in 0 .. m_size - 1 /\ (n - 1) + 1 = n
      BY <1>1, <1>2
    <3> QED
      BY <1>3, <1>6, <3>1
  <2> QED
    BY <1>4, <1>6, <2>1 DEF List!IndexOf
<1> QED
  BY <1>5, <1>6 DEF IndexOf

(* The item at an index is the one at that position of the list.           *)
LEMMA AtRefines ==
    ASSUME Fields, NEW k \in 0 .. MaxIndex, At(k)
    PROVE  List!At(k)
<1> USE DEF Fields
<1>1. k \in Nat /\ m_size \in Nat /\ m_capacity \in Nat /\ m_size <= m_capacity
  BY VectorAssumption DEF TypeOK, Fits
<1>2. Len(Contents) = m_size /\ \A n \in 1 .. m_size : Contents[n] = Held(n - 1)
  BY ContentsType DEF Listed
<1>3. Contents' = Contents /\ input' = input
  BY DEF At, Contents, Held
<1>4. CASE k >= m_size
  <2>1. ~(k < Len(Contents))
    BY <1>1, <1>2, <1>4
  <2>2. result' = NoItem
    BY <1>4 DEF At
  <2> QED
    BY <1>3, <2>1, <2>2 DEF List!At, List!Valid
<1>5. CASE k < m_size
  <2>1. k + 1 \in 1 .. m_size /\ (k + 1) - 1 = k /\ k \in 0 .. m_capacity - 1
    BY <1>1, <1>5
  <2>2. m_data[k] = Held(k)
    BY <1>5, <2>1 DEF At, Held, Fits
  <2>3. result' = m_data[k]
    BY <1>1, <1>5 DEF At
  <2>4. Contents[k + 1] = m_data[k]
    BY <1>2, <2>1, <2>2
  <2> QED
    BY <1>2, <1>3, <1>5, <2>3, <2>4 DEF List!At, List!Valid
<1> QED
  BY <1>1, <1>4, <1>5

(* Every call is a call of the list.                                       *)
LEMMA StepRefines == Fields /\ Fields' /\ [Next]_vars => [List!Next]_(List!vars)
<1> SUFFICES ASSUME Fields, Fields', [Next]_vars
             PROVE  [List!Next]_(List!vars)
  OBVIOUS
<1> USE DEF List!Next
<1>1. CASE UNCHANGED vars
  BY <1>1 DEF vars, List!vars, Contents, Held
<1>2. ASSUME NEW item \in Item, PushFits(item) \/ PushGrows(item)
      PROVE  List!Next
  BY <1>2, PushRefines
<1>3. ASSUME NEW item \in Item, PushNoMem(item)
      PROVE  List!Next
  BY <1>3, NoMemRefines
<1>4. ASSUME NEW item \in Item, IndexOf(item)
      PROVE  List!Next
  BY <1>4, IndexRefines
<1>5. ASSUME NEW k \in 0 .. MaxIndex, Erase(k)
      PROVE  List!Next
  BY <1>5, EraseRefines
<1>6. ASSUME NEW k \in 0 .. MaxIndex, EraseRefused(k)
      PROVE  List!Next
  <2>1. ~(k < Len(Contents))
    BY <1>6, VectorAssumption, ContentsType DEF EraseRefused, Fields, TypeOK, Listed
  <2>2. List!EraseRefused(k)
    BY <1>6, <2>1 DEF EraseRefused, List!EraseRefused, List!Valid, Contents, Held
  <2> QED
    BY <2>2
<1>7. ASSUME NEW k \in 0 .. MaxIndex, At(k)
      PROVE  List!Next
  BY <1>7, AtRefines
<1>8. CASE Clear
  <2>1. Contents' = << >>
    BY <1>8 DEF Clear, Contents
  <2> QED
    BY <1>8, <2>1 DEF Clear, List!Clear
<1> QED
  BY <1>1, <1>2, <1>3, <1>4, <1>5, <1>6, <1>7, <1>8 DEF Next

(* Whatever is pushed, erased and looked for, and however the block grew,  *)
(* the vector answers as a list does (asock_vector.c).                     *)
THEOREM ListCorrect == Spec => ImplementsList
<1> QED
  BY InitFields, NextFields, InitRefines, StepRefines, PTL
  DEF Spec, ImplementsList, List!Spec
=============================================================================
