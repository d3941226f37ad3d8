----------------------------- MODULE Directive -----------------------------
(***************************************************************************)
(* asock_directive.c: the one-slot mailbox through which API calls hand a  *)
(* directive to a worker thread (of a service or of a server) and wait for *)
(* its result.  Everything between a lock and the next unlock or cond_wait *)
(* of m_direct_mutex is one action.  Condition variables are modelled by   *)
(* who waits: a signal moves one waiter to "woken", and a waiter may also  *)
(* wake spuriously; both must look at the mailbox again.                   *)
(***************************************************************************)
EXTENDS Naturals

CONSTANTS
    Caller,         \* the threads that call asock_send_directive
    Type,           \* the directives, without DirectNone
    None,           \* DirectNone
    UNDEFINED,      \* ASOCK_UNDEFINED_CODE
    Result,         \* the other return codes
    SUCCESS,        \* ASOCK_SUCCESS, what m_direct_result is initialised to
    Answers(_)      \* the results the worker may give a directive

ASSUME DirectiveAssumption ==
    /\ None \notin Type
    /\ UNDEFINED \notin Result
    /\ SUCCESS \in Result
    /\ \A t \in Type : Answers(t) \subseteq Result

VARIABLES
    m_direct_type,      \* the directive in the mailbox
    m_direct_result,    \* its result
    m_arg,              \* the caller whose arguments m_arg1 ... m_arg4 are
    caller,             \* where each caller is in asock_send_directive
    asked,              \* the parameter "type" of each caller's call
    worker,             \* where the worker is with respect to the mailbox
    taken               \* what asock_get_directive_type returned to it

mailbox == <<m_direct_type, m_direct_result, m_arg>>
vars == <<mailbox, caller, asked, worker, taken>>

Init ==
    /\ m_direct_type = None
    /\ m_direct_result = SUCCESS
    /\ m_arg = None
    /\ caller = [c \in Caller |-> "out"]
    /\ asked = [c \in Caller |-> None]
    /\ worker = "idle"
    /\ taken = None

-----------------------------------------------------------------------------
(* Up to the first pthread_cond_wait: the result was just undefined, so    *)
(* the loop always waits.  Whatever the mailbox held is overwritten.       *)
Post(c, type, result) ==
    /\ caller[c] = "out"
    /\ m_direct_type' = type
    /\ m_direct_result' = result
    /\ m_arg' = c
    /\ caller' = [caller EXCEPT ![c] = "waiting"]
    /\ asked' = [asked EXCEPT ![c] = type]
    /\ UNCHANGED taken

SignalWorker == worker' = IF worker = "waiting" THEN "woken" ELSE worker

(* For the mutants of the model: the last result is left in place, or the  *)
(* worker is not signalled.                                                *)
SendKeepsResult(c, type) == Post(c, type, m_direct_result) /\ SignalWorker
SendSilently(c, type) == Post(c, type, UNDEFINED) /\ UNCHANGED worker

SendDirective(c, type) == Post(c, type, UNDEFINED) /\ SignalWorker

(* A woken caller finds no result and waits again, ...                     *)
KeepWaiting(c) ==
    /\ caller[c] = "woken"
    /\ m_direct_result = UNDEFINED
    /\ caller' = [caller EXCEPT ![c] = "waiting"]
    /\ UNCHANGED <<mailbox, asked, worker, taken>>

(* ... or takes whatever result there is and empties the mailbox.          *)
TakeResult(c, left) ==
    /\ caller[c] = "woken"
    /\ m_direct_result # UNDEFINED
    /\ m_direct_result' = left
    /\ m_direct_type' = None
    /\ caller' = [caller EXCEPT ![c] = "out"]
    /\ UNCHANGED <<m_arg, asked, worker, taken>>

(* For the mutants of the model: the result stays, or becomes a directive. *)
ReturnKeepsResult(c) == TakeResult(c, m_direct_result)
ReturnMixesUp(c) == TakeResult(c, None)

ReturnResult(c) == TakeResult(c, UNDEFINED)

CallerWakes(c) ==
    /\ caller[c] = "waiting"
    /\ caller' = [caller EXCEPT ![c] = "woken"]
    /\ UNCHANGED <<mailbox, asked, worker, taken>>

(* For the mutants of the model: the wait is not in a loop.                *)
WaitOnce ==
    /\ worker \in {"idle", "woken"}
    /\ worker' = IF worker = "idle" /\ m_direct_type = None THEN "waiting" ELSE "ready"
    /\ UNCHANGED <<mailbox, caller, asked, taken>>

(* One turn of the loop in asock_wait_for_directive.                       *)
WaitForDirective ==
    /\ worker \in {"idle", "woken"}
    /\ worker' = IF m_direct_type = None THEN "waiting" ELSE "ready"
    /\ UNCHANGED <<mailbox, caller, asked, taken>>

WorkerWakes ==
    /\ worker = "waiting"
    /\ worker' = "woken"
    /\ UNCHANGED <<mailbox, caller, asked, taken>>

(* After the wait, or as a poll of the main loop, which goes on when there *)
(* is nothing to do.                                                       *)
GetDirectiveType ==
    /\ worker \in {"idle", "ready"}
    /\ taken' = m_direct_type
    /\ worker' = IF worker = "idle" /\ m_direct_type = None THEN "idle" ELSE "busy"
    /\ UNCHANGED <<mailbox, caller, asked>>

(* pthread_cond_signal on the result condition wakes one of the waiters.   *)
SignalResult ==
    IF \E c \in Caller : caller[c] = "waiting"
    THEN \E c \in Caller :
            /\ caller[c] = "waiting"
            /\ caller' = [caller EXCEPT ![c] = "woken"]
    ELSE UNCHANGED caller

SetWith(result, type) ==
    /\ worker = "busy"
    /\ m_direct_result' = result
    /\ m_direct_type' = type
    /\ worker' = "idle"
    /\ UNCHANGED <<m_arg, asked, taken>>

(* For the mutants of the model: no caller is signalled, or the directive  *)
(* stays in the mailbox.                                                   *)
SetResultSilently(result) == SetWith(result, None) /\ UNCHANGED caller
SetResultKeepsType(result) == SetWith(result, m_direct_type) /\ SignalResult

SetDirectiveResult(result) == SetWith(result, None) /\ SignalResult

-----------------------------------------------------------------------------
(* A worker that answers directives for ever, in either kind of loop.      *)
CallerStep(c) == KeepWaiting(c) \/ ReturnResult(c)

WorkerStep ==
    \/ WaitForDirective
    \/ GetDirectiveType
    \/ \E result \in Answers(taken) : taken \in Type /\ SetDirectiveResult(result)

Next ==
    \/ \E c \in Caller :
        \/ \E type \in Type : SendDirective(c, type)
        \/ CallerStep(c)
        \/ CallerWakes(c)
    \/ WorkerStep
    \/ WorkerWakes

Spec == Init /\ [][Next]_vars

(* Threads that can run do run; nobody has to call, or wake spuriously.    *)
Fairness ==
    /\ \A c \in Caller : WF_vars(CallerStep(c))
    /\ WF_vars(WaitForDirective \/ (worker # "idle" /\ GetDirectiveType))
    /\ WF_vars(\E result \in Answers(taken) : taken \in Type /\ SetDirectiveResult(result))

FairSpec == Spec /\ Fairness

-----------------------------------------------------------------------------
TypeOK ==
    /\ m_direct_type \in Type \union {None}
    /\ m_direct_result \in Result \union {UNDEFINED}
    /\ m_arg \in Caller \union {None}
    /\ caller \in [Caller -> {"out", "waiting", "woken"}]
    /\ asked \in [Caller -> Type \union {None}]
    /\ worker \in {"idle", "waiting", "woken", "ready", "busy"}
    /\ taken \in Type \union {None}

(* However many threads call: once the worker's wait has returned there is *)
(* a directive for asock_get_directive_type to return, although the mutex  *)
(* is free in between and other callers return in the meantime; the        *)
(* assert(0) for DirectNone in the configuration loops cannot fail         *)
(* (asock_service.c:417, asock_server.c:589).                              *)
WaitReturnsDirective ==
    /\ worker = "ready" => m_direct_type # None
    /\ worker = "busy" => taken # None

(* The reason: a directive and a result are never in the mailbox together, *)
(* so that no caller that takes a result (asock_directive.c:37) wipes out  *)
(* a directive that was sent after the result was set.                     *)
NoResultWithDirective ==
    m_direct_type # None => m_direct_result = UNDEFINED

(* No signal is lost: if someone is inside asock_send_directive while a    *)
(* result is there, one of those is awake, however many wait; and a        *)
(* directive never waits for a sleeping worker.                            *)
NoLostSignal ==
    /\ m_direct_result # UNDEFINED /\ (\E c \in Caller : caller[c] # "out")
        => \E c \in Caller : caller[c] = "woken"
    /\ m_direct_type # None => worker # "waiting"

(* No other thread is inside asock_send_directive. *)
Alone(c) == \A d \in Caller \ {c} : caller[d] = "out"

(* The worker works for a call that still waits; if no other call came in  *)
(* between, it is the call whose directive it took, so that the arguments  *)
(* it reads from the mailbox belong to that directive.                     *)
ServesTheCall ==
    worker = "busy" =>
        /\ m_arg \in Caller
        /\ caller[m_arg] # "out"
        /\ Alone(m_arg) => taken = asked[m_arg]

(* A result that only one call can take is a result of what it asked for,  *)
(* however many calls came and went before, answered or not.               *)
RightAnswer ==
    \A c \in Caller :
        caller[c] # "out" /\ Alone(c) /\ m_direct_result # UNDEFINED
            => m_direct_result \in Answers(asked[c])

(* A call whose directive is in the mailbox returns, unless another one    *)
(* comes in and overwrites it.                                             *)
CallsReturn ==
    \A c \in Caller :
        Alone(c) /\ m_direct_type # None ~> caller[c] = "out" \/ ~Alone(c)
=============================================================================
