----------------------------- MODULE FifoQueue -----------------------------
(***************************************************************************)
(* What a thread-safe queue promises its users: an unbounded FIFO queue    *)
(* whose operations are atomic, of which the consumer may hold the lock    *)
(* to look at a non-empty prefix of the items without removing them.  When *)
(* memory runs out the queued items are lost, but not their places.        *)
(* TSQueue.tla (asock_tsqueue.c) implements it.                            *)
(***************************************************************************)
EXTENDS Naturals, Sequences

CONSTANTS
    Item,       \* what is queued (bytes, connections)
    Junk,       \* what is found where an item was lost
    ReallocFails,   \* whether memory may run out
    Thread,     \* the threads that may hold the queue's lock
    NoThread,   \* the lock is free
    MaxBatch    \* bound: the most items one call moves

VARIABLES
    items,      \* the queued items, oldest first
    holder,     \* the thread between head_lock and head_unlock
    input,      \* what the last call that enqueued items was given
    dst         \* what the last call that copied items out returned

vars == <<items, holder, input, dst>>

Init ==
    /\ items = << >>
    /\ holder = NoThread
    /\ input = << >>
    /\ dst = << >>

Enqueue(src) ==
    /\ holder = NoThread
    /\ items' = items \o src
    /\ input' = src
    /\ UNCHANGED <<holder, dst>>

(* No memory for an enqueue: what is queued is lost, its place is not. *)
Lose ==
    /\ ReallocFails
    /\ holder = NoThread
    /\ items' = [i \in DOMAIN items |-> Junk]
    /\ UNCHANGED <<holder, input, dst>>

(* How many items a call that asks for n gets. *)
Available(n) == IF n < Len(items) THEN n ELSE Len(items)

Dequeue(n) ==
    /\ holder = NoThread
    /\ dst' = SubSeq(items, 1, Available(n))
    /\ items' = SubSeq(items, Available(n) + 1, Len(items))
    /\ UNCHANGED <<holder, input>>

Pop(n) ==
    /\ holder = NoThread
    /\ items' = SubSeq(items, Available(n) + 1, Len(items))
    /\ UNCHANGED <<holder, input, dst>>

Clear ==
    /\ holder = NoThread
    /\ items' = << >>
    /\ UNCHANGED <<holder, input, dst>>

HeadLock(t) ==
    /\ holder = NoThread
    /\ holder' = t
    /\ UNCHANGED <<items, input, dst>>

HeadRead(t) ==
    /\ holder = t
    /\ items # << >>
    /\ \E k \in 1 .. Len(items) : dst' = SubSeq(items, 1, k)
    /\ UNCHANGED <<items, holder, input>>

HeadUnlock(t) ==
    /\ holder = t
    /\ holder' = NoThread
    /\ UNCHANGED <<items, input, dst>>

(* What one call may enqueue. *)
Batches == UNION {[1 .. n -> Item] : n \in 0 .. MaxBatch}

Next ==
    \/ \E src \in Batches : Enqueue(src)
    \/ Lose
    \/ \E n \in 0 .. MaxBatch : Dequeue(n) \/ Pop(n)
    \/ Clear
    \/ \E t \in Thread : HeadLock(t) \/ HeadRead(t) \/ HeadUnlock(t)

Spec == Init /\ [][Next]_vars
=============================================================================
