------------------------------ MODULE ItemList ------------------------------
(***************************************************************************)
(* What a vector promises: a list that items are appended to and removed   *)
(* from by position.  An append may be refused for want of memory; the     *)
(* list is then as long as before, but nothing is left of what was in it.  *)
(* Vector.tla (asock_vector.c) implements it.                              *)
(***************************************************************************)
EXTENDS Naturals, Sequences

CONSTANTS
    Item,       \* what is listed (pointers to asocks)
    Junk,       \* what is found where an item was lost
    Success,    \* a call did what was asked,
    Failure,    \* or it did not
    NoItem,     \* there is nothing at a position
    NoIndex,    \* an item is at no position
    MaxIndex    \* bound: the largest position a call names

VARIABLES
    items,      \* the list
    input,      \* what the last append was given
    result      \* what the last call returned

vars == <<items, input, result>>

(* Positions count from 0. *)
Valid(k) == k < Len(items)

Init ==
    /\ items = << >>
    /\ input = Junk
    /\ result = Success

Push(item) ==
    /\ items' = Append(items, item)
    /\ input' = item
    /\ result' = Success

PushRefused(item) ==
    /\ items' = [n \in DOMAIN items |-> Junk]
    /\ input' = item
    /\ result' = Failure

Erase(k) ==
    /\ Valid(k)
    /\ items' = SubSeq(items, 1, k) \o SubSeq(items, k + 2, Len(items))
    /\ result' = Success
    /\ UNCHANGED input

EraseRefused(k) ==
    /\ ~Valid(k)
    /\ result' = Failure
    /\ UNCHANGED <<items, input>>

Clear ==
    /\ items' = << >>
    /\ UNCHANGED <<input, result>>

(* The first position of the item. *)
IndexOf(item) ==
    /\ \/ \E n \in DOMAIN items :
            /\ items[n] = item /\ \A m \in 1 .. n - 1 : items[m] # item
            /\ result' = n - 1
       \/ (\A n \in DOMAIN items : items[n] # item) /\ result' = NoIndex
    /\ UNCHANGED <<items, input>>

At(k) ==
    /\ result' = IF Valid(k) THEN items[k + 1] ELSE NoItem
    /\ UNCHANGED <<items, input>>

Next ==
    \/ \E item \in Item : Push(item) \/ PushRefused(item) \/ IndexOf(item)
    \/ \E k \in 0 .. MaxIndex : Erase(k) \/ EraseRefused(k) \/ At(k)
    \/ Clear

Spec == Init /\ [][Next]_vars
=============================================================================
