--------------------------- MODULE TSQueue_proofs ---------------------------
(***************************************************************************)
(* For every item set, thread set, set of capacities and batch bound, and  *)
(* whether or not realloc may fail: the fields of the ring buffer stay     *)
(* consistent, and the buffer implements a FIFO queue.                     *)
(***************************************************************************)
EXTENDS TSQueue, SequenceTheorems, TLAPS

(* The fields alone: inductive whether or not realloc may fail. *)
Fields == TypeOK /\ RingInvariant

(* The block in which src is stored, before it is: kept or grown. *)
TailAfterGrowth ==
    IF NeedsRelocation THEN m_capacity + m_tail_pos ELSE m_tail_pos

(* A block of cap slots whose size items start at head and end before      *)
(* tail, and the slot of the i-th item.                                    *)
Ring(data, cap, head, size, tail) ==
    /\ cap \in Nat /\ head \in Nat /\ size \in Nat /\ head < cap
    /\ tail = Wrapped(head + size, cap)
    /\ DOMAIN data = 0 .. cap - 1

Slot(cap, head, i) == Wrapped(head + (i - 1), cap)

-----------------------------------------------------------------------------
(* Capacities are positive numbers, and a larger one is at least double.   *)
LEMMA CapacityFacts ==
    /\ \A c \in Capacities : c \in Nat /\ c > 0
    /\ \A c, d \in Capacities : c < d => 2 * c <= d
BY CapacitiesAssumption

(* A batch is a sequence of at most MaxBatch items.                        *)
LEMMA BatchFacts ==
    ASSUME NEW src \in Batches
    PROVE  /\ src \in Seq(Item)
           /\ Len(src) \in Nat
           /\ \A i \in 1 .. Len(src) : src[i] \in Item
<1>1. PICK n \in 0 .. MaxBatch : src \in [1 .. n -> Item]
  BY DEF Batches
<1>2. n \in Nat
  BY ParameterAssumption
<1> QED
  BY <1>1, <1>2

(* Wrapping a position at most one lap ahead gives a slot.                 *)
LEMMA WrappedFacts ==
    ASSUME NEW cap \in Nat, NEW pos \in Nat, pos < 2 * cap
    PROVE  Wrapped(pos, cap) \in 0 .. cap - 1
BY DEF Wrapped

(* What the one or two memcpy calls of enqueue leave in the ring: the old  *)
(* items where they were, the new ones after them (asock_tsqueue.c:204).   *)
LEMMA WrittenOldItems ==
    ASSUME NEW data, NEW cap, NEW head, NEW size, NEW tail,
           Ring(data, cap, head, size, tail),
           NEW src \in Seq(Item), size + Len(src) <= cap,
           NEW i \in 1 .. size
    PROVE  Written(data, cap, tail, src)[Slot(cap, head, i)]
             = data[Slot(cap, head, i)]
<1> DEFINE p == Slot(cap, head, i)
<1>1. /\ Len(src) \in Nat /\ i \in Nat
      /\ cap \in Nat /\ head \in Nat /\ size \in Nat /\ head < cap
      /\ tail = Wrapped(head + size, cap)
      /\ p = Wrapped(head + (i - 1), cap)
      /\ DOMAIN data = 0 .. cap - 1
  BY DEF Ring, Slot
<1> HIDE DEF p
<1>2. /\ p \in 0 .. cap - 1
      /\ ~(p >= tail /\ p < tail + Len(src))
      /\ ~(p + cap < tail + Len(src))
  BY <1>1 DEF Wrapped
<1>3. Written(data, cap, tail, src)[p] = data[p]
  BY <1>1, <1>2 DEF Written, WrittenFrom
<1> QED
  BY <1>3 DEF p

LEMMA WrittenNewItems ==
    ASSUME NEW data, NEW cap, NEW head, NEW size, NEW tail,
           Ring(data, cap, head, size, tail),
           NEW src \in Seq(Item), size + Len(src) <= cap,
           NEW j \in 1 .. Len(src)
    PROVE  Written(data, cap, tail, src)[Slot(cap, head, size + j)] = src[j]
<1> DEFINE p == Slot(cap, head, size + j)
<1>1. /\ Len(src) \in Nat /\ j \in Nat
      /\ cap \in Nat /\ head \in Nat /\ size \in Nat /\ head < cap
      /\ tail = Wrapped(head + size, cap)
      /\ p = Wrapped(head + (size + j - 1), cap)
      /\ DOMAIN data = 0 .. cap - 1
  BY DEF Ring, Slot
<1> HIDE DEF p
<1>2. p \in 0 .. cap - 1
  BY <1>1 DEF Wrapped
<1>3. CASE p >= tail /\ p < tail + Len(src)
  <2>1. p - tail + 1 = j
    BY <1>1, <1>3 DEF Wrapped
  <2>2. Written(data, cap, tail, src)[p] = src[p - tail + 1]
    BY <1>1, <1>2, <1>3 DEF Written, WrittenFrom
  <2> QED
    BY <2>1, <2>2 DEF p
<1>4. CASE ~(p >= tail /\ p < tail + Len(src))
  <2>1. p + cap < tail + Len(src) /\ p + cap - tail + 1 = j
    BY <1>1, <1>4 DEF Wrapped
  <2>2. Written(data, cap, tail, src)[p] = src[p + cap - tail + 1]
    <3>1. p \in DOMAIN data
      BY <1>1, <1>2
    <3>2. Written(data, cap, tail, src)[p] = src[p + (cap - tail + 1)]
      BY <1>4, <2>1, <3>1 DEF Written, WrittenFrom
    <3>3. tail \in Int /\ p \in Int /\ p + (cap - tail + 1) = p + cap - tail + 1
      BY <1>1, <1>2 DEF Wrapped
    <3> QED
      BY <3>2, <3>3
  <2> QED
    BY <2>1, <2>2 DEF p
<1> QED
  BY <1>3, <1>4

(* Storing keeps a block of items and junk one.                            *)
LEMMA WrittenType ==
    ASSUME NEW cap \in Nat, NEW tail \in Nat, tail < cap,
           NEW src \in Seq(Item), Len(src) <= cap,
           NEW data \in [0 .. cap - 1 -> Item \union {Junk}]
    PROVE  Written(data, cap, tail, src) \in [0 .. cap - 1 -> Item \union {Junk}]
<1> SUFFICES ASSUME NEW p \in 0 .. cap - 1
             PROVE  Written(data, cap, tail, src)[p] \in Item \union {Junk}
  BY DEF Written, WrittenFrom
<1>1. CASE p >= tail /\ p < tail + Len(src)
  <2>1. p - tail + 1 \in 1 .. Len(src)
    BY <1>1
  <2> QED
    BY <1>1, <2>1 DEF Written, WrittenFrom
<1>2. CASE ~(p >= tail /\ p < tail + Len(src)) /\ p + cap < tail + Len(src)
  <2>1. p + cap - tail + 1 \in 1 .. Len(src)
    BY <1>2
  <2> QED
    BY <1>2, <2>1 DEF Written, WrittenFrom
<1>3. CASE ~(p >= tail /\ p < tail + Len(src)) /\ ~(p + cap < tail + Len(src))
  BY <1>3 DEF Written, WrittenFrom
<1> QED
  BY <1>1, <1>2, <1>3

(* What is read from the block, or found where there is none.              *)
LEMMA HeldType ==
    ASSUME Fields, NEW p
    PROVE  Held(p) \in Item \union {Junk}
<1>1. \/ m_data \in [0 .. m_capacity - 1 -> Item \union {Junk}]
      \/ DOMAIN m_data = {}
  BY DEF Fields, TypeOK, Null
<1> QED
  BY <1>1 DEF Held

(* Growing relocates the wrapped part so that every item is found at the   *)
(* same distance from the head in the larger ring (asock_tsqueue.c:192).   *)
LEMMA GrowthKeepsItems ==
    ASSUME Fields, NEW cap \in Capacities, m_capacity < cap
    PROVE  /\ Enlarged(cap) \in [0 .. cap - 1 -> Item \union {Junk}]
           /\ TailAfterGrowth = Wrapped(m_head_pos + m_size, cap)
           /\ \A i \in 1 .. m_size :
                    Enlarged(cap)[Wrapped(m_head_pos + (i - 1), cap)] = Contents[i]
<1> USE DEF Fields
<1>1. /\ m_capacity \in Nat /\ cap \in Nat /\ 2 * m_capacity <= cap
      /\ m_size \in Nat /\ m_head_pos \in Nat /\ m_tail_pos \in Nat
      /\ m_capacity > 0
  BY CapacityFacts DEF TypeOK
<1>2. TailAfterGrowth = Wrapped(m_head_pos + m_size, cap)
  BY <1>1 DEF TailAfterGrowth, NeedsRelocation, RingInvariant, Wrapped
<1>3. Enlarged(cap) \in [0 .. cap - 1 -> Item \union {Junk}]
  BY HeldType DEF Enlarged
<1>4. ASSUME NEW i \in 1 .. m_size
      PROVE  Enlarged(cap)[Wrapped(m_head_pos + (i - 1), cap)] = Contents[i]
  <2> DEFINE q == m_head_pos + (i - 1)
  <2>1. q \in 0 .. cap - 1 /\ Wrapped(q, cap) = q
    BY <1>1 DEF RingInvariant, Wrapped
  <2>2. Contents[i] = Held(Wrapped(q, m_capacity))
    BY DEF Contents
  <2>3. CASE q < m_capacity
    <3>1. Enlarged(cap)[q] = Held(q)
      BY <1>1, <2>1, <2>3 DEF Enlarged
    <3>2. Wrapped(q, m_capacity) = q
      BY <1>1, <2>1, <2>3 DEF Wrapped
    <3> QED
      BY <2>1, <2>2, <3>1, <3>2
  <2>4. CASE q >= m_capacity
    <3>1. NeedsRelocation /\ q < m_capacity + m_tail_pos
      BY <1>1, <2>4 DEF NeedsRelocation, RingInvariant, Wrapped
    <3>2. Enlarged(cap)[q] = Held(q - m_capacity)
      BY <2>1, <2>4, <3>1 DEF Enlarged
    <3>3. Wrapped(q, m_capacity) = q - m_capacity
      BY <1>1, <2>1, <2>4 DEF Wrapped
    <3> QED
      BY <2>1, <2>2, <3>2, <3>3
  <2> QED
    BY <1>1, <2>3, <2>4
<1> QED
  BY <1>2, <1>3, <1>4

-----------------------------------------------------------------------------
LEMMA InitFields == Init => Fields
<1> SUFFICES ASSUME Init PROVE Fields
  OBVIOUS
<1>1. m_capacity \in Nat /\ m_capacity > 0
  BY CapacityFacts DEF Init
<1>2. m_data \in [0 .. m_capacity - 1 -> Item \union {Junk}]
  BY DEF Init
<1> QED
  BY <1>1, <1>2 DEF Init, Fields, TypeOK, RingInvariant, Wrapped

(* Storing a batch that fits keeps the fields in agreement.                *)
LEMMA StoreFields ==
    ASSUME Fields, NEW src \in Batches, NEW cap \in Capacities,
           m_size + Len(src) <= cap, m_capacity <= cap,
           NEW data, NEW tail,
           \/ data \in [0 .. cap - 1 -> Item \union {Junk}]
           \/ ReallocFails /\ data = Null,
           tail = Wrapped(m_head_pos + m_size, cap),
           Store(data, cap, tail, src)
    PROVE  Fields'
<1> USE DEF Fields
<1>1. /\ cap \in Nat /\ m_capacity \in Nat
      /\ m_size \in Nat /\ m_head_pos \in Nat
      /\ m_head_pos < cap
  BY CapacityFacts DEF TypeOK, RingInvariant
<1>2. src \in Seq(Item) /\ Len(src) \in Nat
  BY BatchFacts
<1>3. tail \in Nat /\ tail < cap
  BY <1>1, <1>2 DEF Wrapped
<1>4. \/ m_data' \in [0 .. cap - 1 -> Item \union {Junk}]
      \/ ReallocFails /\ m_data' = Null
  <2>1. CASE data \in [0 .. cap - 1 -> Item \union {Junk}]
    <3>1. Len(src) <= cap
      BY <1>1, <1>2
    <3> QED
      BY <1>1, <1>2, <1>3, <2>1, <3>1, WrittenType DEF Store
  <2>2. CASE ReallocFails /\ data = Null
    BY <2>2 DEF Store, Written, WrittenFrom, Null
  <2> QED
    BY <2>1, <2>2
<1>5. m_tail_pos' \in Nat /\ m_tail_pos' = Wrapped(m_head_pos + m_size', cap)
  BY <1>1, <1>2, <1>3 DEF Store, Wrapped
<1> QED
  BY <1>1, <1>2, <1>4, <1>5 DEF Store, TypeOK, RingInvariant

(* What dequeue removes keeps them in agreement, too.                      *)
LEMMA RemoveFields ==
    ASSUME Fields, NEW n \in Nat, Remove(n)
    PROVE  /\ m_size' \in Nat /\ m_head_pos' \in Nat
           /\ RingInvariant'
           /\ CopySize(n) \in 0 .. m_size
<1>1. m_capacity \in Nat /\ m_size \in Nat /\ m_head_pos \in Nat
  BY CapacityFacts DEF Fields, TypeOK
<1> QED
  BY <1>1 DEF Fields, RingInvariant, Remove, Advance, CopySize, Wrapped

(* What a call copies to dst is a sequence of the block's values.          *)
LEMMA ReadType ==
    ASSUME Fields, NEW k \in 0 .. m_size
    PROVE  /\ [i \in 1 .. k |-> Contents[i]] \in Seq(Item \union {Junk})
           /\ [i \in 1 .. k |-> Held(m_head_pos + (i - 1))]
                    \in Seq(Item \union {Junk})
<1>1. k \in Nat /\ m_size \in Nat
  BY DEF Fields, TypeOK
<1>2. ASSUME NEW i \in 1 .. k
      PROVE  Contents[i] \in Item \union {Junk}
  BY <1>1, HeldType DEF Contents
<1> QED
  BY <1>1, <1>2, HeldType

(* The head that the lock's holder reads is part of the block.             *)
LEMMA HeadFacts ==
    ASSUME Fields, m_size > 0, m_data # Null
    PROVE  /\ HeadSize \in 1 .. m_size /\ HeadSize <= m_capacity - m_head_pos
           /\ \A i \in 1 .. HeadSize :
                m_data[m_head_pos + (i - 1)] = Held(m_head_pos + (i - 1))
<1>1. /\ m_capacity \in Nat /\ m_size \in Nat /\ m_head_pos \in Nat
      /\ m_head_pos < m_capacity
  BY CapacityFacts DEF Fields, TypeOK, RingInvariant
<1>2. HeadSize \in 1 .. m_size /\ HeadSize <= m_capacity - m_head_pos
  BY <1>1 DEF HeadSize
<1>3. DOMAIN m_data = 0 .. m_capacity - 1
  BY DEF Fields, TypeOK
<1>4. \A i \in 1 .. HeadSize : m_head_pos + (i - 1) \in DOMAIN m_data
  BY <1>1, <1>2, <1>3
<1> QED
  BY <1>2, <1>4 DEF Held

LEMMA NextFields == Fields /\ [Next]_vars => Fields'
<1> SUFFICES ASSUME Fields, [Next]_vars PROVE Fields'
  OBVIOUS
<1>0. /\ m_capacity \in Nat /\ m_capacity > 0
      /\ m_size \in Nat /\ m_head_pos \in Nat /\ m_tail_pos \in Nat
  BY CapacityFacts DEF Fields, TypeOK
<1>1. ASSUME NEW src \in Batches, EnqueueFits(src) PROVE Fields'
  <2>1. m_tail_pos = Wrapped(m_head_pos + m_size, m_capacity)
    BY DEF Fields, RingInvariant
  <2> QED
    BY <1>0, <1>1, <2>1, StoreFields DEF EnqueueFits, Fields, TypeOK
<1>2. ASSUME NEW src \in Batches, EnqueueGrows(src) PROVE Fields'
  <2>1. PICK cap \in Capacities :
            /\ LeastCapacity(cap, m_size + Len(src))
            /\ Store(Enlarged(cap), cap, TailAfterGrowth, src)
    BY <1>2 DEF EnqueueGrows, TailAfterGrowth
  <2>2. m_size + Len(src) <= cap /\ m_capacity < cap
    BY <1>0, <1>2, <2>1, BatchFacts, CapacityFacts DEF EnqueueGrows, LeastCapacity
  <2>3. /\ Enlarged(cap) \in [0 .. cap - 1 -> Item \union {Junk}]
        /\ TailAfterGrowth = Wrapped(m_head_pos + m_size, cap)
    BY <2>2, GrowthKeepsItems
  <2>4. m_capacity <= cap
    BY <1>0, <2>2, CapacityFacts
  <2> QED
    BY <2>1, <2>2, <2>3, <2>4, StoreFields
<1>3. ASSUME NEW src \in Batches, EnqueueNoMem(src) PROVE Fields'
  BY <1>3 DEF EnqueueNoMem, NoMem, Fields, TypeOK, RingInvariant
<1>4. ASSUME NEW n \in 0 .. MaxBatch, Dequeue(n) PROVE Fields'
  <2>1. n \in Nat /\ Remove(n)
    BY <1>4, ParameterAssumption DEF Dequeue
  <2>2. /\ m_size' \in Nat /\ m_head_pos' \in Nat /\ RingInvariant'
        /\ CopySize(n) \in 0 .. m_size
    BY <2>1, RemoveFields
  <2>3. dst' \in Seq(Item \union {Junk})
    BY <1>4, <2>2, ReadType DEF Dequeue
  <2> QED
    BY <2>1, <2>2, <2>3 DEF Fields, TypeOK, Remove, Advance
<1>5. ASSUME NEW n \in 0 .. MaxBatch, Pop(n) PROVE Fields'
  <2>1. n \in Nat /\ Remove(n)
    BY <1>5, ParameterAssumption DEF Pop
  <2>2. m_size' \in Nat /\ m_head_pos' \in Nat /\ RingInvariant'
    BY <2>1, RemoveFields
  <2> QED
    BY <1>5, <2>1, <2>2 DEF Pop, Fields, TypeOK, Remove, Advance
<1>6. ASSUME Clear PROVE Fields'
  BY <1>0, <1>6 DEF Clear, Fields, TypeOK, RingInvariant, Wrapped
<1>7. ASSUME NEW t \in Thread, HeadLock(t) PROVE Fields'
  BY <1>7 DEF HeadLock, Fields, TypeOK, RingInvariant
<1>8. ASSUME NEW t \in Thread, HeadRead(t) PROVE Fields'
  <2>1. /\ HeadSize \in 0 .. m_size
        /\ dst' = [i \in 1 .. HeadSize |-> Held(m_head_pos + (i - 1))]
    BY <1>0, <1>8, HeadFacts DEF HeadRead
  <2>2. dst' \in Seq(Item \union {Junk})
    BY <2>1, ReadType
  <2> QED
    BY <1>8, <2>2 DEF HeadRead, Fields, TypeOK, RingInvariant
<1>9. ASSUME NEW t \in Thread, HeadUnlock(t) PROVE Fields'
  BY <1>9 DEF HeadUnlock, Fields, TypeOK, RingInvariant
<1>10. CASE UNCHANGED vars
  BY <1>10 DEF vars, Fields, TypeOK, RingInvariant
<1> QED
  BY <1>1, <1>2, <1>3, <1>4, <1>5, <1>6, <1>7, <1>8, <1>9, <1>10 DEF Next

(* Every reachable state has the fields' types, also after a failed        *)
(* realloc (asock_tsqueue.c, all operations).                              *)
THEOREM TypeCorrect == Spec => []TypeOK
<1>1. Fields => TypeOK
  BY DEF Fields
<1> QED
  BY InitFields, NextFields, <1>1, PTL DEF Spec

(* Head, tail and size never disagree, whatever the threads do and however *)
(* often the ring wraps, grows or fails to grow.                           *)
THEOREM RingCorrect == Spec => []RingInvariant
<1>1. Fields => RingInvariant
  BY DEF Fields
<1> QED
  BY InitFields, NextFields, <1>1, PTL DEF Spec

-----------------------------------------------------------------------------
(* The contents are a sequence of m_size values, read slot by slot.        *)
LEMMA ContentsType ==
    ASSUME Fields
    PROVE  /\ Contents \in Seq(Item \union {Junk})
           /\ Len(Contents) = m_size
           /\ DOMAIN Contents = 1 .. m_size
           /\ \A j \in 1 .. m_size :
                Contents[j] = Held(Wrapped(m_head_pos + (j - 1), m_capacity))
<1>1. m_size \in Nat /\ m_size \in 0 .. m_size
  BY DEF Fields, TypeOK
<1>2. Contents = [i \in 1 .. m_size |-> Contents[i]]
  BY DEF Contents
<1>3. [i \in 1 .. m_size |-> Contents[i]] \in Seq(Item \union {Junk})
  BY <1>1, ReadType
<1>4. DOMAIN Contents = 1 .. m_size
  BY DEF Contents
<1>5. Contents \in Seq(Item \union {Junk})
  BY <1>2, <1>3
<1>6. Len(Contents) = m_size
  BY <1>1, <1>4, <1>5
<1>7. \A j \in 1 .. m_size :
        Contents[j] = Held(Wrapped(m_head_pos + (j - 1), m_capacity))
  BY DEF Contents
<1> QED
  BY <1>4, <1>5, <1>6, <1>7

(* A sequence that lists two sequences one after the other is their        *)
(* concatenation.                                                          *)
LEMMA Concatenation ==
    ASSUME NEW S, NEW s \in Seq(S), NEW t \in Seq(S), NEW f \in Seq(S),
           Len(f) = Len(s) + Len(t),
           \A i \in 1 .. Len(f) : f[i] = IF i <= Len(s) THEN s[i] ELSE t[i - Len(s)]
    PROVE  f = s \o t
<1> DEFINE c == s \o t
<1>1. /\ c \in Seq(S) /\ Len(f) = Len(c)
      /\ \A i \in 1 .. Len(f) : f[i] = c[i]
  BY ConcatProperties
<1> HIDE DEF c
<1>2. f = c
  BY <1>1, SeqEqual
<1> QED
  BY <1>2 DEF c

(* A stored batch is appended to the contents, whether the ring was grown  *)
(* for it or not.                                                          *)
LEMMA StoreContents ==
    ASSUME Fields, NEW src \in Batches, NEW cap \in Capacities,
           m_size + Len(src) <= cap, m_capacity <= cap,
           NEW data, NEW tail, Ring(data, cap, m_head_pos, m_size, tail),
           \A i \in 1 .. m_size :
                data[Wrapped(m_head_pos + (i - 1), cap)] = Contents[i],
           Store(data, cap, tail, src)
    PROVE  Contents' = Contents \o src
<1>1. /\ cap \in Nat /\ m_capacity \in Nat
      /\ m_size \in Nat /\ m_head_pos \in Nat
      /\ m_head_pos < cap
  BY CapacityFacts DEF Fields, TypeOK, RingInvariant
<1>2. src \in Seq(Item) /\ Len(src) \in Nat
  BY BatchFacts
<1>3. /\ m_size' = m_size + Len(src) /\ m_capacity' = cap
      /\ m_head_pos' = m_head_pos
      /\ m_data' = Written(data, cap, tail, src)
  BY DEF Store
<1>4. Contents' = [i \in 1 .. m_size + Len(src) |->
                      IF i <= m_size THEN Contents[i] ELSE src[i - m_size]]
  <2>1. Contents' = [i \in 1 .. m_size + Len(src) |->
                        m_data'[Wrapped(m_head_pos + (i - 1), cap)]]
    <3>1. DOMAIN m_data' = 0 .. cap - 1
      BY <1>3 DEF Written, WrittenFrom, Ring
    <3>2. \A i \in 1 .. m_size + Len(src) :
            Wrapped(m_head_pos + (i - 1), cap) \in DOMAIN m_data'
      BY <1>1, <1>2, <3>1 DEF Wrapped
    <3> QED
      BY <1>3, <3>2 DEF Contents, Held
  <2>2. ASSUME NEW i \in 1 .. m_size + Len(src)
        PROVE  m_data'[Wrapped(m_head_pos + (i - 1), cap)]
                 = IF i <= m_size THEN Contents[i] ELSE src[i - m_size]
    <3>2. CASE i <= m_size
      <4>1. i \in 1 .. m_size
        BY <1>1, <3>2
      <4>2. Written(data, cap, tail, src)[Slot(cap, m_head_pos, i)]
              = data[Slot(cap, m_head_pos, i)]
        BY <1>2, <4>1, WrittenOldItems
      <4> QED
        BY <1>3, <3>2, <4>1, <4>2 DEF Slot
    <3>3. CASE i > m_size
      <4>1. i - m_size \in 1 .. Len(src) /\ m_size + (i - m_size) = i
        BY <1>1, <1>2, <3>3
      <4>2. Written(data, cap, tail, src)[Slot(cap, m_head_pos, m_size + (i - m_size))]
              = src[i - m_size]
        BY <1>2, <4>1, WrittenNewItems
      <4>3. ~(i <= m_size)
        BY <1>1, <1>2, <3>3
      <4> QED
        BY <1>3, <4>1, <4>2, <4>3 DEF Slot
    <3> QED
      BY <1>1, <1>2, <3>2, <3>3
  <2> QED
    BY <2>1, <2>2
<1>5. Contents \in Seq(Item \union {Junk}) /\ Len(Contents) = m_size
  BY ContentsType
<1>6. src \in Seq(Item \union {Junk})
  BY <1>2, SeqMonotonic
<1>7. ASSUME NEW i \in 1 .. m_size + Len(src)
      PROVE  /\ Contents'[i] = IF i <= m_size THEN Contents[i] ELSE src[i - m_size]
             /\ Contents'[i] \in Item \union {Junk}
  <2>1. Contents'[i] = IF i <= m_size THEN Contents[i] ELSE src[i - m_size]
    BY <1>4
  <2>2. CASE i <= m_size
    BY <1>1, <1>2, <1>5, <2>1, <2>2, ElementOfSeq
  <2>3. CASE i > m_size
    <3>1. i - m_size \in 1 .. Len(src) /\ ~(i <= m_size)
      BY <1>1, <1>2, <2>3
    <3> QED
      BY <1>6, <2>1, <3>1, ElementOfSeq
  <2> QED
    BY <1>1, <1>2, <2>1, <2>2, <2>3
<1> DEFINE f == Contents'
           s == Contents
           n == m_size + Len(src)
<1>8. f \in [1 .. n -> Item \union {Junk}]
  BY <1>4, <1>7
<1>9. /\ s \in Seq(Item \union {Junk}) /\ n = Len(s) + Len(src)
      /\ \A i \in 1 .. n : f[i] = IF i <= Len(s) THEN s[i] ELSE src[i - Len(s)]
  BY <1>5, <1>7
<1> HIDE DEF f, s
<1>10. f \in Seq(Item \union {Junk}) /\ Len(f) = n
  BY <1>1, <1>2, <1>8
<1> HIDE DEF n
<1>11. f = s \o src
  BY <1>6, <1>9, <1>10, Concatenation
<1> QED
  BY <1>11 DEF f, s

(* Both kinds of enqueue append their batch.                               *)
LEMMA EnqueueContents ==
    ASSUME Fields, NEW src \in Batches,
           EnqueueFits(src) \/ EnqueueGrows(src)
    PROVE  Contents' = Contents \o src
<1>0. m_capacity \in Nat /\ m_size \in Nat /\ m_head_pos \in Nat
  BY CapacityFacts DEF Fields, TypeOK
<1>1. CASE EnqueueFits(src) /\ m_data # Null
  <2>1. m_tail_pos = Wrapped(m_head_pos + m_size, m_capacity)
    BY DEF Fields, RingInvariant
  <2>2. m_data \in [0 .. m_capacity - 1 -> Item \union {Junk}]
    BY <1>1 DEF Fields, TypeOK
  <2>3. \A i \in 1 .. m_size :
            m_data[Wrapped(m_head_pos + (i - 1), m_capacity)] = Contents[i]
    <3>1. \A i \in 1 .. m_size :
            Wrapped(m_head_pos + (i - 1), m_capacity) \in DOMAIN m_data
      BY <1>0, <2>2 DEF Fields, RingInvariant, Wrapped
    <3> QED
      BY <3>1 DEF Contents, Held
  <2>4. m_capacity \in Capacities /\ m_capacity <= m_capacity
    BY <1>0 DEF Fields, TypeOK
  <2>5. Ring(m_data, m_capacity, m_head_pos, m_size, m_tail_pos)
    BY <1>0, <2>1, <2>2 DEF Ring, Fields, RingInvariant
  <2> QED
    BY <1>1, <2>3, <2>4, <2>5, StoreContents DEF EnqueueFits
<1>2. CASE EnqueueGrows(src)
  <2>1. PICK cap \in Capacities :
            /\ LeastCapacity(cap, m_size + Len(src))
            /\ Store(Enlarged(cap), cap, TailAfterGrowth, src)
    BY <1>2 DEF EnqueueGrows, TailAfterGrowth
  <2>2. m_size + Len(src) <= cap /\ m_capacity < cap /\ m_capacity <= cap
    BY <1>0, <1>2, <2>1, BatchFacts, CapacityFacts DEF EnqueueGrows, LeastCapacity
  <2>3. /\ Enlarged(cap) \in [0 .. cap - 1 -> Item \union {Junk}]
        /\ TailAfterGrowth = Wrapped(m_head_pos + m_size, cap)
        /\ \A i \in 1 .. m_size :
             Enlarged(cap)[Wrapped(m_head_pos + (i - 1), cap)] = Contents[i]
    BY <2>2, GrowthKeepsItems
  <2>4. Ring(Enlarged(cap), cap, m_head_pos, m_size, TailAfterGrowth)
    BY <1>0, <2>2, <2>3, CapacityFacts DEF Ring, Fields, RingInvariant
  <2> QED
    BY <2>1, <2>2, <2>3, <2>4, StoreContents
<1>3. CASE EnqueueFits(src) /\ m_data = Null
  <2>1. src = << >> /\ Len(src) = 0
    BY <1>3 DEF EnqueueFits, Store
  <2>2. UNCHANGED <<m_data, m_size, m_capacity, m_head_pos>>
    BY <1>0, <1>3, <2>1 DEF EnqueueFits, Store, Written, WrittenFrom, Null
  <2>3. Contents' = Contents
    BY <2>2 DEF Contents, Held
  <2>4. Contents \o src = Contents
    BY <2>1, ContentsType, ConcatEmptySeq
  <2> QED
    BY <2>3, <2>4
<1> QED
  BY <1>1, <1>2, <1>3

(* What is left of a sequence of n items when its first k are gone.        *)
LEMMA SuffixItems ==
    ASSUME NEW s, NEW n \in Nat, NEW k \in 0 .. n
    PROVE  SubSeq(s, k + 1, n) = [i \in 1 .. n - k |-> s[i + k]]
<1>1. k \in Nat /\ n - (k + 1) + 1 = n - k
  OBVIOUS
<1>2. \A i \in 1 .. n - k : i + (k + 1) - 1 = i + k
  BY <1>1
<1> QED
  BY <1>1, <1>2

(* What remains after n items were removed from the head.                  *)
LEMMA RemoveContents ==
    ASSUME Fields, NEW n \in Nat, Remove(n)
    PROVE  /\ CopySize(n) \in 0 .. m_size /\ CopySize(n) = Fifo!Available(n)
           /\ Contents' = [i \in 1 .. m_size - CopySize(n) |-> Contents[i + CopySize(n)]]
           /\ Contents' = SubSeq(Contents, Fifo!Available(n) + 1, Len(Contents))
<1>0. /\ m_capacity \in Nat /\ m_size \in Nat /\ m_head_pos \in Nat
      /\ m_size <= m_capacity /\ m_head_pos < m_capacity
  BY CapacityFacts DEF Fields, TypeOK, RingInvariant
<1>1. CopySize(n) = Fifo!Available(n) /\ CopySize(n) \in 0 .. m_size
  BY <1>0, ContentsType DEF CopySize, Fifo!Available
<1> DEFINE k == CopySize(n)
<1>2. Contents' = [i \in 1 .. m_size - k |-> Contents[i + k]]
  <2>1. Contents' = [i \in 1 .. m_size - k |->
            Held(Wrapped(Wrapped(m_head_pos + k, m_capacity) + (i - 1), m_capacity))]
    BY DEF Contents, Held, Remove, Advance
  <2>2. ASSUME NEW i \in 1 .. m_size - k
        PROVE  Held(Wrapped(Wrapped(m_head_pos + k, m_capacity) + (i - 1), m_capacity))
                 = Contents[i + k]
    <3>1. i + k \in 1 .. m_size
      BY <1>0, <1>1
    <3>2. Contents[i + k] = Held(Wrapped(m_head_pos + (i + k - 1), m_capacity))
      BY <1>0, <1>1, <3>1, ContentsType
    <3>3. Wrapped(Wrapped(m_head_pos + k, m_capacity) + (i - 1), m_capacity)
            = Wrapped(m_head_pos + (i + k - 1), m_capacity)
      BY <1>0, <1>1, <3>1 DEF Wrapped
    <3> QED
      BY <3>2, <3>3
  <2> QED
    BY <2>1, <2>2
<1> DEFINE s == Contents
<1>3. SubSeq(Contents, k + 1, m_size) = [i \in 1 .. m_size - k |-> Contents[i + k]]
  <2> HIDE DEF k, s
  <2>1. SubSeq(s, k + 1, m_size) = [i \in 1 .. m_size - k |-> s[i + k]]
    BY <1>0, <1>1, SuffixItems DEF k
  <2> QED
    BY <2>1 DEF s
<1> QED
  BY <1>1, <1>2, <1>3, ContentsType

-----------------------------------------------------------------------------
(* The operations that leave the slots in use alone leave the contents.    *)
LEMMA SameContents ==
    ASSUME UNCHANGED <<m_data, m_size, m_capacity, m_head_pos>>
    PROVE  Contents' = Contents
BY DEF Contents, Held

(* After a failed realloc the queue is as long as it was, of nothing.      *)
LEMMA LostContents ==
    ASSUME NEW src, EnqueueNoMem(src)
    PROVE  Contents' = [i \in DOMAIN Contents |-> Junk]
<1>1. m_data' = Null /\ m_size' = m_size
  BY DEF EnqueueNoMem, NoMem
<1>2. \A p : Held(p)' = Junk
  BY <1>1 DEF Held, Null
<1> QED
  BY <1>1, <1>2 DEF Contents

(* Every step of the ring buffer is a step of the FIFO queue or a stutter. *)
LEMMA StepRefines ==
    ASSUME Fields, [Next]_vars
    PROVE  [Fifo!Next]_(Fifo!vars)
<1>1. /\ m_capacity \in Nat /\ m_size \in Nat
      /\ m_head_pos \in Nat /\ m_size <= m_capacity /\ m_head_pos < m_capacity
  BY CapacityFacts DEF Fields, TypeOK, RingInvariant
<1>2. /\ Contents \in Seq(Item \union {Junk})
      /\ Len(Contents) = m_size
      /\ \A j \in 1 .. m_size :
            Contents[j] = Held(Wrapped(m_head_pos + (j - 1), m_capacity))
  BY <1>1, ContentsType
<1>3. ASSUME NEW src \in Batches, EnqueueFits(src) \/ EnqueueGrows(src)
      PROVE  Fifo!Next
  <2>1. Contents' = Contents \o src
    BY <1>1, <1>3, EnqueueContents
  <2>2. Fifo!Enqueue(src)
    BY <1>3, <2>1 DEF EnqueueFits, EnqueueGrows, Store, Fifo!Enqueue
  <2>3. src \in Fifo!Batches
    BY DEF Batches, Fifo!Batches
  <2> QED
    BY <2>2, <2>3 DEF Fifo!Next
<1>4. ASSUME NEW n \in 0 .. MaxBatch, Remove(n)
      PROVE  /\ m_mutex = NoThread /\ UNCHANGED <<m_mutex, input>>
             /\ Contents' = SubSeq(Contents, Fifo!Available(n) + 1, Len(Contents))
             /\ CopySize(n) = Fifo!Available(n)
  <2>1. n \in Nat
    BY ParameterAssumption
  <2> QED
    BY <1>1, <1>4, <2>1, RemoveContents DEF Remove, Advance
<1>5. ASSUME NEW n \in 0 .. MaxBatch, Dequeue(n) PROVE Fifo!Next
  <2>1. CopySize(n) \in 0 .. m_size
    BY <1>1, ParameterAssumption DEF CopySize
  <2>2. dst' = SubSeq(Contents, 1, Fifo!Available(n))
    <3>1. SubSeq(Contents, 1, CopySize(n)) = [i \in 1 .. CopySize(n) |-> Contents[i]]
      BY <1>1, <1>2, <2>1
    <3> QED
      BY <1>4, <1>5, <3>1 DEF Dequeue
  <2> QED
    BY <1>4, <1>5, <2>2 DEF Dequeue, Fifo!Dequeue, Fifo!Next
<1>6. ASSUME NEW n \in 0 .. MaxBatch, Pop(n) PROVE Fifo!Next
  BY <1>4, <1>6 DEF Pop, Fifo!Pop, Fifo!Next
<1>7. CASE Clear
  <2>1. Contents' = << >>
    BY <1>7 DEF Clear, Contents
  <2> QED
    BY <1>7, <2>1 DEF Clear, Fifo!Clear, Fifo!Next
<1>8. ASSUME NEW t \in Thread, HeadLock(t) PROVE Fifo!Next
  <2>1. Contents' = Contents
    BY <1>8, SameContents DEF HeadLock
  <2> QED
    BY <1>8, <2>1 DEF HeadLock, Fifo!HeadLock, Fifo!Next
<1>9. ASSUME NEW t \in Thread, HeadRead(t) PROVE Fifo!Next
  <2>1. Contents' = Contents /\ Contents # << >>
    BY <1>1, <1>2, <1>9, SameContents DEF HeadRead
  <2>2. /\ HeadSize \in 1 .. m_size /\ HeadSize <= m_capacity - m_head_pos
        /\ dst' = [i \in 1 .. HeadSize |-> Held(m_head_pos + (i - 1))]
    BY <1>9, HeadFacts DEF HeadRead
  <2>3. dst' = [i \in 1 .. HeadSize |-> Contents[i]]
    <3>1. ASSUME NEW i \in 1 .. HeadSize
          PROVE  Contents[i] = Held(m_head_pos + (i - 1))
      <4>1. i \in 1 .. m_size /\ Wrapped(m_head_pos + (i - 1), m_capacity) = m_head_pos + (i - 1)
        BY <1>1, <2>2 DEF Wrapped
      <4> QED
        BY <1>2, <4>1
    <3> QED
      BY <2>2, <3>1
  <2>4. dst' = SubSeq(Contents, 1, HeadSize)
    BY <1>1, <1>2, <2>2, <2>3
  <2> QED
    BY <1>2, <1>9, <2>1, <2>2, <2>4 DEF HeadRead, Fifo!HeadRead, Fifo!Next
<1>10. ASSUME NEW t \in Thread, HeadUnlock(t) PROVE Fifo!Next
  <2>1. Contents' = Contents
    BY <1>10, SameContents DEF HeadUnlock
  <2> QED
    BY <1>10, <2>1 DEF HeadUnlock, Fifo!HeadUnlock, Fifo!Next
<1>11. ASSUME NEW src \in Batches, EnqueueNoMem(src) PROVE Fifo!Next
  <2>1. Contents' = [i \in DOMAIN Contents |-> Junk]
    BY <1>11, LostContents
  <2> QED
    BY <1>11, <2>1 DEF EnqueueNoMem, NoMem, Fifo!Lose, Fifo!Next
<1>12. CASE UNCHANGED vars
  <2>1. Contents' = Contents
    BY <1>12, SameContents DEF vars
  <2> QED
    BY <1>12, <2>1 DEF vars, Fifo!vars
<1> QED
  BY <1>3, <1>5, <1>6, <1>7, <1>8, <1>9, <1>10, <1>11, <1>12 DEF Next

(* The ring buffer is a FIFO queue with atomic operations, for every item  *)
(* set, thread set, batch size and growth; memory that runs out costs the  *)
(* queued items, but neither their number nor the order of later ones.     *)
THEOREM FifoCorrect == Spec => ImplementsFifo
<1>1. Init => Fifo!Init
  <2>1. Init => Contents = << >>
    BY DEF Init, Contents
  <2> QED
    BY <2>1 DEF Init, Fifo!Init
<1>2. Fields /\ [Next]_vars => [Fifo!Next]_(Fifo!vars)
  BY StepRefines
<1> QED
  BY InitFields, NextFields, <1>1, <1>2, PTL DEF Spec, ImplementsFifo, Fifo!Spec
=============================================================================
