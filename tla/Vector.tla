------------------------------- MODULE Vector -------------------------------
(***************************************************************************)
(* asock_vector.c: the growing array in which service and server keep      *)
(* their connections (asock_connections.c gives it asock_t pointers for    *)
(* items).  One thread at a time uses a vector; each call is one action.   *)
(*                                                                         *)
(* The block is a function on its slots.  A slot that nothing wrote holds  *)
(* Junk; the NULL block has no slot, and a call that would go through it   *)
(* is not enabled: the program ends there, as it does at the assertion     *)
(* that doubling a capacity makes it larger.                               *)
(***************************************************************************)
EXTENDS Naturals, Sequences

CONSTANTS
    Item,           \* the items
    Junk,           \* what memory holds before it is written
    Success,        \* ASOCK_SUCCESS
    Failure,        \* ASOCK_FAILURE
    NoItem,         \* the NULL of asock_vector_at
    NoIndex,        \* ASOCK_INVALID_VEC_INDEX
    InitCapacities, \* what vectors are created with (CON_INIT_CAPACITY)
    MaxCapacity,    \* bound: the largest capacity
    MaxIndex        \* bound: the largest index a call names

ASSUME VectorAssumption ==
    /\ Junk \notin Item
    /\ InitCapacities \subseteq Nat
    /\ MaxCapacity \in Nat /\ MaxIndex \in Nat

VARIABLES
    m_data,         \* the block
    m_size,         \* how many items there are
    m_capacity,     \* how many slots the vector believes it has
    input,          \* what the last push was given
    result          \* what the last call returned

vars == <<m_data, m_size, m_capacity, input, result>>

Null == [p \in {} |-> Junk]

(* What is found at slot p; nothing is where the block is NULL. *)
Held(p) == IF p \in DOMAIN m_data THEN m_data[p] ELSE Junk

Contents == [n \in 1 .. m_size |-> Held(n - 1)]

Init ==
    /\ m_capacity \in InitCapacities
    /\ m_data = [p \in 0 .. m_capacity - 1 |-> Junk]
    /\ m_size = 0
    /\ input = Junk
    /\ result = Success

(* memcpy of the item behind the last one of a block of cap slots. *)
StoreLast(block, cap, item) ==
    /\ m_size \in DOMAIN block
    /\ m_data' = [block EXCEPT ![m_size] = item]
    /\ m_size' = m_size + 1
    /\ m_capacity' = cap
    /\ input' = item
    /\ result' = Success

PushFits(item) ==
    /\ m_size # m_capacity
    /\ StoreLast(m_data, m_capacity, item)

(* reallocate(2 * m_capacity), which asserts that this is more.            *)
Full ==
    /\ m_size = m_capacity
    /\ 2 * m_capacity > m_capacity
    /\ 2 * m_capacity <= MaxCapacity

(* For the mutants of the model: the block gets one more slot only.        *)
GrownByOne == [p \in 0 .. m_capacity |-> Held(p)]

Grown == [p \in 0 .. 2 * m_capacity - 1 |-> Held(p)]

PushGrows(item) ==
    /\ Full
    /\ StoreLast(Grown, 2 * m_capacity, item)

(* realloc fails: its NULL is stored before it is looked at. *)
PushNoMem(item) ==
    /\ Full
    /\ m_data' = Null
    /\ input' = item
    /\ result' = Failure
    /\ UNCHANGED <<m_size, m_capacity>>

(* The block after the items from slot k + 1 on, as many as said, have     *)
(* moved one slot down (memmove).                                          *)
MovedDown(k, count) ==
    [p \in DOMAIN m_data |->
        IF p >= k /\ p < k + count THEN m_data[p + 1] ELSE m_data[p]]

EraseMoving(k, count) ==
    /\ k < m_size
    /\ k + 1 < m_size => m_data # Null
    /\ m_data' = MovedDown(k, count)
    /\ m_size' = m_size - 1
    /\ result' = Success
    /\ UNCHANGED <<m_capacity, input>>

(* For the mutants of the model: one item too few is moved.                *)
EraseShort(k) == EraseMoving(k, IF k + 2 <= m_size THEN m_size - 2 - k ELSE 0)

Erase(k) == EraseMoving(k, m_size - 1 - k)

EraseRefused(k) ==
    /\ k >= m_size
    /\ result' = Failure
    /\ UNCHANGED <<m_data, m_size, m_capacity, input>>

Clear ==
    /\ m_size' = 0
    /\ UNCHANGED <<m_data, m_capacity, input, result>>

(* The search goes from the first slot up. *)
IndexOf(item) ==
    /\ m_size > 0 => m_data # Null
    /\ \/ \E p \in 0 .. m_size - 1 :
            /\ m_data[p] = item /\ \A q \in 0 .. p - 1 : m_data[q] # item
            /\ result' = p
       \/ (\A p \in 0 .. m_size - 1 : m_data[p] # item) /\ result' = NoIndex
    /\ UNCHANGED <<m_data, m_size, m_capacity, input>>

At(k) ==
    /\ k < m_size => m_data # Null
    /\ result' = IF k >= m_size THEN NoItem ELSE m_data[k]
    /\ UNCHANGED <<m_data, m_size, m_capacity, input>>

Next ==
    \/ \E item \in Item :
        PushFits(item) \/ PushGrows(item) \/ PushNoMem(item) \/ IndexOf(item)
    \/ \E k \in 0 .. MaxIndex : Erase(k) \/ EraseRefused(k) \/ At(k)
    \/ Clear

Spec == Init /\ [][Next]_vars

-----------------------------------------------------------------------------
(* The size and the capacity are numbers, and the block holds items.       *)
TypeOK ==
    /\ m_size \in Nat
    /\ m_capacity \in Nat
    /\ \/ m_data \in [0 .. m_capacity - 1 -> Item \union {Junk}]
       \/ m_data = Null

(* m_size and m_capacity tell the truth about the block, through pushes,   *)
(* growths, erasures and failures: what is pushed is written inside it,    *)
(* and what has an index below m_size is inside it.  Only the NULL that a  *)
(* failed realloc leaves has neither size nor capacity.                    *)
Fits ==
    /\ m_size <= m_capacity
    /\ m_data = Null \/ DOMAIN m_data = 0 .. m_capacity - 1

(* The vector is a list, through every growth and erasure: items keep      *)
(* their order, the others' positions follow an erasure, the first         *)
(* occurrence is found.  A realloc that fails (asock_vector.c:25) costs    *)
(* all items but not their number.                                         *)
List == INSTANCE ItemList WITH items <- Contents
ImplementsList == List!Spec
=============================================================================
