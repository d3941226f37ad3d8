------------------------------ MODULE TSQueue ------------------------------
(***************************************************************************)
(* asock_tsqueue.c: the mutex-protected ring buffer that carries bytes     *)
(* between the user's threads and the service thread.  Every call holds    *)
(* m_mutex for its whole body and is one action; the consumer may also     *)
(* keep the mutex over several calls (head_lock ... head_unlock) to send   *)
(* from the buffer in place.                                               *)
(*                                                                         *)
(* The storage block is a function on its slots.  A block that realloc or  *)
(* malloc returned holds Junk where nothing was written; the NULL block    *)
(* has no slot, and an action that would touch it is disabled.             *)
(***************************************************************************)
EXTENDS Naturals, Sequences

CONSTANTS
    Item,           \* the values that are queued
    Junk,           \* what memory holds before it is written
    Thread,         \* the threads that use the queue
    NoThread,       \* m_mutex is not held over calls
    Capacities,     \* powers of two from 1; the largest bounds the growth
    MaxBatch,       \* bound: the most items one call moves
    ReallocFails    \* whether realloc may return NULL

(* Doubling from one member stays in the set or leaves it for good, so the *)
(* least member that is large enough is what the doubling loops compute.   *)
ASSUME CapacitiesAssumption ==
    /\ Capacities \subseteq Nat \ {0}
    /\ 1 \in Capacities
    /\ \A c, d \in Capacities : c < d => 2 * c \in Capacities /\ 2 * c <= d

ASSUME ItemAssumption == Junk \notin Item /\ NoThread \notin Thread

ASSUME ParameterAssumption == MaxBatch \in Nat /\ ReallocFails \in BOOLEAN

VARIABLES
    m_data,         \* the storage block
    m_size,         \* how many items are queued
    m_capacity,     \* how many slots the queue believes it has
    m_head_pos,     \* the slot of the oldest item
    m_tail_pos,     \* the slot of the next item
    m_mutex,        \* the thread between head_lock and head_unlock
    input,          \* the source of the last call that enqueued items
    dst             \* the destination of the last call that copied items out

vars == <<m_data, m_size, m_capacity, m_head_pos, m_tail_pos, m_mutex, input, dst>>

-----------------------------------------------------------------------------
Null == [p \in {} |-> Junk]

(* A position in a ring of cap slots; positions run at most one lap ahead. *)
Wrapped(pos, cap) == IF pos >= cap THEN pos - cap ELSE pos

(* What is found at slot p; nothing is where the block is NULL. *)
Held(p) == IF p \in DOMAIN m_data THEN m_data[p] ELSE Junk

(* asock_tsqueue_for_each: the items it visits, in order. *)
Contents ==
    [i \in 1 .. m_size |-> Held(Wrapped(m_head_pos + (i - 1), m_capacity))]

(* The capacities create and enqueue may pick: the least that holds need. *)
LeastCapacity(cap, need) ==
    /\ cap >= need
    /\ \A c \in Capacities : c >= need => cap <= c

Init ==
    /\ m_capacity \in Capacities
    /\ m_data = [p \in 0 .. m_capacity - 1 |-> Junk]
    /\ m_size = 0
    /\ m_head_pos = 0
    /\ m_tail_pos = 0
    /\ m_mutex = NoThread
    /\ input = << >>
    /\ dst = << >>

(* For the mutants of the model: a full queue is not recognised.           *)
NeedsNoRelocationIfFull == m_tail_pos < m_head_pos /\ m_size > 0

(* The part before the tail moves behind the old end of the block. *)
NeedsRelocation == m_tail_pos <= m_head_pos /\ m_size > 0

(* For the mutants of the model: the block is not enlarged.                *)
NotEnlarged(cap) == m_data

(* The block after reallocate(cap) and the relocation. *)
Enlarged(cap) ==
    [p \in 0 .. cap - 1 |->
        IF NeedsRelocation /\ p >= m_capacity /\ p < m_capacity + m_tail_pos
        THEN Held(p - m_capacity)
        ELSE Held(p)]

(* The block after src is written at tail, in two batches if it must be;   *)
(* the second one starts at src[first].                                    *)
WrittenFrom(first, data, cap, tail, src) ==
    [p \in DOMAIN data |->
        IF p >= tail /\ p < tail + Len(src) THEN src[p - tail + 1]
        ELSE IF p + cap < tail + Len(src) THEN src[p + first]
        ELSE data[p]]

(* For the mutants of the model: the second batch starts over with src.    *)
WrittenFromStart(data, cap, tail, src) == WrittenFrom(1, data, cap, tail, src)

Written(data, cap, tail, src) == WrittenFrom(cap - tail + 1, data, cap, tail, src)

Store(data, cap, tail, src) ==
    /\ src # << >> => data # Null
    /\ m_data' = Written(data, cap, tail, src)
    /\ m_capacity' = cap
    /\ m_tail_pos' = Wrapped(tail + Len(src), cap)
    /\ m_size' = m_size + Len(src)
    /\ input' = src
    /\ UNCHANGED <<m_head_pos, m_mutex, dst>>

EnqueueFits(src) ==
    /\ m_mutex = NoThread
    /\ m_size + Len(src) <= m_capacity
    /\ Store(m_data, m_capacity, m_tail_pos, src)

EnqueueGrows(src) ==
    /\ m_mutex = NoThread
    /\ m_size + Len(src) > m_capacity
    /\ \E cap \in Capacities :
        /\ LeastCapacity(cap, m_size + Len(src))
        /\ Store(Enlarged(cap), cap,
                  IF NeedsRelocation THEN m_capacity + m_tail_pos ELSE m_tail_pos,
                  src)

(* reallocate stores realloc's NULL before it looks at it; the old block   *)
(* and what it held are gone, the other fields keep their values.          *)
NoMem(src, Capacity) ==
    /\ ReallocFails
    /\ m_mutex = NoThread
    /\ m_size + Len(src) > m_capacity
    /\ m_data' = Null
    /\ m_capacity' \in Capacity
    /\ UNCHANGED <<m_size, m_head_pos, m_tail_pos, m_mutex, input, dst>>

(* For the mutants of the model: the capacity is set before the memory is  *)
(* there.                                                                  *)
EnqueueNoMemGrown(src) == NoMem(src, {c \in Capacities : c >= m_size + Len(src)})

EnqueueNoMem(src) == NoMem(src, {m_capacity})

(* How many items a call that asks for n gets. *)
CopySize(n) == IF n < m_size THEN n ELSE m_size

Advance(n, head) ==
    /\ m_mutex = NoThread
    /\ m_head_pos' = head
    /\ m_size' = m_size - CopySize(n)
    /\ UNCHANGED <<m_data, m_capacity, m_tail_pos, m_mutex, input>>

(* For the mutants of the model: the head runs over the end of the block.  *)
RemoveUnwrapped(n) == Advance(n, m_head_pos + CopySize(n))

Remove(n) == Advance(n, Wrapped(m_head_pos + CopySize(n), m_capacity))

Dequeue(n) ==
    /\ m_data = Null => CopySize(n) = 0
    /\ dst' = [i \in 1 .. CopySize(n) |-> Contents[i]]
    /\ Remove(n)

(* dst == NULL: the items are only popped. *)
Pop(n) == Remove(n) /\ UNCHANGED dst

Clear ==
    /\ m_mutex = NoThread
    /\ m_size' = 0
    /\ m_head_pos' = 0
    /\ m_tail_pos' = 0
    /\ UNCHANGED <<m_data, m_capacity, m_mutex, input, dst>>

HeadLock(t) ==
    /\ m_mutex = NoThread
    /\ m_mutex' = t
    /\ UNCHANGED <<m_data, m_size, m_capacity, m_head_pos, m_tail_pos, input, dst>>

(* asock_tsqueue_head_size: the items up to the end of the block. *)
HeadSize ==
    IF m_size < m_capacity - m_head_pos THEN m_size ELSE m_capacity - m_head_pos

(* The lock's holder reads HeadSize items from asock_tsqueue_head on. *)
HeadRead(t) ==
    /\ m_mutex = t
    /\ m_size > 0
    /\ m_data # Null
    /\ dst' = [i \in 1 .. HeadSize |-> m_data[m_head_pos + (i - 1)]]
    /\ UNCHANGED <<m_data, m_size, m_capacity, m_head_pos, m_tail_pos, m_mutex, input>>

HeadUnlock(t) ==
    /\ m_mutex = t
    /\ m_mutex' = NoThread
    /\ UNCHANGED <<m_data, m_size, m_capacity, m_head_pos, m_tail_pos, input, dst>>

(* The arguments of enqueue: at most MaxBatch items. *)
Batches == UNION {[1 .. n -> Item] : n \in 0 .. MaxBatch}

Next ==
    \/ \E src \in Batches :
        EnqueueFits(src) \/ EnqueueGrows(src) \/ EnqueueNoMem(src)
    \/ \E n \in 0 .. MaxBatch : Dequeue(n) \/ Pop(n)
    \/ Clear
    \/ \E t \in Thread : HeadLock(t) \/ HeadRead(t) \/ HeadUnlock(t)

Spec == Init /\ [][Next]_vars

-----------------------------------------------------------------------------
(* Every field has its type; the block is NULL only if realloc may fail.   *)
TypeOK ==
    /\ m_capacity \in Capacities
    /\ m_size \in Nat
    /\ m_head_pos \in Nat
    /\ m_tail_pos \in Nat
    /\ \/ m_data \in [0 .. m_capacity - 1 -> Item \union {Junk}]
       \/ ReallocFails /\ m_data = Null
    /\ m_mutex \in Thread \union {NoThread}
    /\ input \in Seq(Item)
    /\ dst \in Seq(Item \union {Junk})

(* The three fields the code keeps redundantly agree: the queue is never   *)
(* overfull, both ends are slots, and the tail is where head and size put  *)
(* it, through every wrap, growth and relocation (enqueue, dequeue).       *)
RingInvariant ==
    /\ m_size <= m_capacity
    /\ m_head_pos < m_capacity
    /\ m_tail_pos = Wrapped(m_head_pos + m_size, m_capacity)

(* The ring buffer is a FIFO queue, whatever the interleaving of its calls *)
(* and however it wraps, grows and relocates: nothing is lost, reordered   *)
(* or duplicated, and what the consumer sees of the locked head is a       *)
(* non-empty prefix of what is queued.  A realloc that fails (reallocate,  *)
(* asock_tsqueue.c:45) costs the items, never their number or the order of *)
(* what is queued later.                                                   *)
Fifo == INSTANCE FifoQueue WITH items <- Contents, holder <- m_mutex
ImplementsFifo == Fifo!Spec
=============================================================================
