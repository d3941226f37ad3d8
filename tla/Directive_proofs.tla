-------------------------- MODULE Directive_proofs --------------------------
(***************************************************************************)
(* For every set of calling threads and of directives: what holds of the   *)
(* mailbox whoever calls, and that a call that is alone is served.         *)
(***************************************************************************)
EXTENDS Directive, TLAPS

(* Inductive together: each part is needed for another one's step.         *)
Mailbox ==
    /\ TypeOK
    /\ WaitReturnsDirective
    /\ NoResultWithDirective
    /\ NoLostSignal

LEMMA InitMailbox == Init => Mailbox
BY DirectiveAssumption
   DEF Init, Mailbox, TypeOK, WaitReturnsDirective, NoResultWithDirective,
       NoLostSignal

LEMMA NextMailbox == Mailbox /\ [Next]_vars => Mailbox'
<1> SUFFICES ASSUME Mailbox, [Next]_vars PROVE Mailbox'
  OBVIOUS
<1> USE DirectiveAssumption
    DEF Mailbox, TypeOK, WaitReturnsDirective, NoResultWithDirective, mailbox
<1>1. ASSUME NEW c \in Caller, NEW type \in Type, SendDirective(c, type)
      PROVE  Mailbox'
  BY <1>1 DEF SendDirective, Post, SignalWorker, NoLostSignal
<1>2. ASSUME NEW c \in Caller, KeepWaiting(c) PROVE Mailbox'
  BY <1>2 DEF KeepWaiting, NoLostSignal
<1>3. ASSUME NEW c \in Caller, ReturnResult(c) PROVE Mailbox'
  BY <1>3 DEF ReturnResult, TakeResult, NoLostSignal
<1>4. ASSUME NEW c \in Caller, CallerWakes(c) PROVE Mailbox'
  <2>1. NoLostSignal'
    BY <1>4 DEF CallerWakes, NoLostSignal
  <2> QED
    BY <1>4, <2>1 DEF CallerWakes
<1>5. CASE WaitForDirective
  BY <1>5 DEF WaitForDirective, NoLostSignal
<1>6. CASE GetDirectiveType
  BY <1>6 DEF GetDirectiveType, NoLostSignal
<1>7. ASSUME NEW result \in Answers(taken), taken \in Type, SetDirectiveResult(result)
      PROVE  Mailbox'
  <2>1. result \in Result
    BY <1>7
  <2>2. /\ caller' \in [Caller -> {"out", "waiting", "woken"}]
        /\ (\E c \in Caller : caller'[c] # "out") =>
             \E c \in Caller : caller'[c] = "woken"
    <3>1. CASE \E c \in Caller : caller[c] = "waiting"
      <4>1. PICK c \in Caller : caller' = [caller EXCEPT ![c] = "woken"]
        BY <1>7, <3>1 DEF SetDirectiveResult, SetWith, SignalResult
      <4>2. caller'[c] = "woken"
        BY <4>1
      <4> QED
        BY <4>1, <4>2
    <3>2. CASE ~ \E c \in Caller : caller[c] = "waiting"
      <4>1. caller' = caller
        BY <1>7, <3>2 DEF SetDirectiveResult, SetWith, SignalResult
      <4> QED
        BY <3>2, <4>1
    <3> QED
      BY <3>1, <3>2
  <2> QED
    BY <1>7, <2>1, <2>2 DEF SetDirectiveResult, SetWith, NoLostSignal
<1>8. CASE WorkerWakes
  BY <1>8 DEF WorkerWakes, NoLostSignal
<1>9. CASE UNCHANGED vars
  BY <1>9 DEF vars, NoLostSignal
<1> QED
  BY <1>1, <1>2, <1>3, <1>4, <1>5, <1>6, <1>7, <1>8, <1>9
     DEF Next, CallerStep, WorkerStep

THEOREM TypeCorrect == Spec => []TypeOK
<1>1. Mailbox => TypeOK
  BY DEF Mailbox
<1> QED
  BY InitMailbox, NextMailbox, <1>1, PTL DEF Spec

(* However many threads call the API, the assert(0) for DirectNone in the  *)
(* configuration loops of service and server does not fail.                *)
THEOREM WaitCorrect == Spec => []WaitReturnsDirective
<1>1. Mailbox => WaitReturnsDirective
  BY DEF Mailbox
<1> QED
  BY InitMailbox, NextMailbox, <1>1, PTL DEF Spec

(* However many threads call, a result and a directive are never in the    *)
(* mailbox together: taking a result wipes out no directive.               *)
THEOREM DirectiveKept == Spec => []NoResultWithDirective
<1>1. Mailbox => NoResultWithDirective
  BY DEF Mailbox
<1> QED
  BY InitMailbox, NextMailbox, <1>1, PTL DEF Spec

(* However many threads wait on one condition variable, of which a signal  *)
(* wakes a single one: no result is left to sleeping callers, and no       *)
(* directive to a sleeping worker.                                         *)
THEOREM SignalsCorrect == Spec => []NoLostSignal
<1>1. Mailbox => NoLostSignal
  BY DEF Mailbox
<1> QED
  BY InitMailbox, NextMailbox, <1>1, PTL DEF Spec

-----------------------------------------------------------------------------
(* The call whose directive is in the mailbox, or in the worker's hands,   *)
(* is still inside: nobody returns before the worker has set a result, and *)
(* who returns takes the result along.  A result that is there is for one  *)
(* of the calls inside (or is the initial one).                            *)
Inside(c) == c \in Caller /\ caller[c] # "out"

Owned ==
    /\ Mailbox
    /\ m_direct_type # None => Inside(m_arg) /\ asked[m_arg] = m_direct_type
    /\ worker = "busy" =>
        /\ m_direct_result = UNDEFINED
        /\ Inside(m_arg)
        /\ \E c \in Caller : Inside(c) /\ asked[c] = taken
    /\ m_direct_result # UNDEFINED =>
        \/ \A c \in Caller : caller[c] = "out"
        \/ \E c \in Caller : Inside(c) /\ m_direct_result \in Answers(asked[c])

LEMMA InitOwned == Init => Owned
<1> SUFFICES ASSUME Init PROVE Owned
  OBVIOUS
<1>1. Mailbox
  BY InitMailbox
<1> QED
  BY <1>1, DirectiveAssumption DEF Init, Owned

LEMMA NextOwned == Owned /\ [Next]_vars => Owned'
<1> SUFFICES ASSUME Owned, [Next]_vars PROVE Owned'
  OBVIOUS
<1>0. Mailbox' /\ TypeOK /\ WaitReturnsDirective /\ NoResultWithDirective
  BY NextMailbox DEF Owned, Mailbox
<1> USE DirectiveAssumption DEF Owned, Inside, mailbox
<1>1. ASSUME NEW c \in Caller, NEW type \in Type, SendDirective(c, type)
      PROVE  Owned'
  <2>1. /\ m_direct_type' = type /\ m_direct_result' = UNDEFINED /\ m_arg' = c
        /\ caller'[c] # "out" /\ asked'[c] = type /\ taken' = taken
        /\ worker' = "busy" => worker = "busy"
    BY <1>0, <1>1 DEF SendDirective, Post, SignalWorker, TypeOK
  <2>2. \A d \in Caller : caller[d] # "out" => caller'[d] # "out" /\ asked'[d] = asked[d]
    BY <1>0, <1>1 DEF SendDirective, Post, TypeOK
  <2> QED
    BY <1>0, <2>1, <2>2
<1>2. ASSUME NEW c \in Caller, KeepWaiting(c) PROVE Owned'
  BY <1>0, <1>2 DEF KeepWaiting, TypeOK
<1>3. ASSUME NEW c \in Caller, ReturnResult(c) PROVE Owned'
  BY <1>0, <1>3 DEF ReturnResult, TakeResult
<1>4. ASSUME NEW c \in Caller, CallerWakes(c) PROVE Owned'
  BY <1>0, <1>4 DEF CallerWakes, TypeOK
<1>5. CASE WaitForDirective
  BY <1>0, <1>5 DEF WaitForDirective
<1>6. CASE GetDirectiveType
  <2>1. CASE m_direct_type = None
    <3>1. worker' # "busy"
      BY <1>0, <1>6, <2>1 DEF GetDirectiveType, WaitReturnsDirective
    <3> QED
      BY <1>0, <1>6, <3>1 DEF GetDirectiveType
  <2>2. CASE m_direct_type # None
    <3>1. m_direct_result = UNDEFINED
      BY <1>0, <2>2 DEF NoResultWithDirective
    <3> QED
      BY <1>0, <1>6, <2>2, <3>1 DEF GetDirectiveType
  <2> QED
    BY <2>1, <2>2
<1>7. ASSUME NEW result \in Answers(taken), taken \in Type, SetDirectiveResult(result)
      PROVE  Owned'
  <2>1. /\ \A c \in Caller : caller[c] # "out" => caller'[c] # "out"
        /\ UNCHANGED <<asked, m_arg>> /\ m_direct_type' = None
        /\ m_direct_result' = result /\ worker' = "idle" /\ worker = "busy"
    BY <1>0, <1>7 DEF SetDirectiveResult, SetWith, SignalResult, TypeOK
  <2>2. PICK c \in Caller : Inside(c) /\ asked[c] = taken
    BY <2>1
  <2>3. caller'[c] # "out" /\ m_direct_result' \in Answers(asked'[c])
    BY <1>7, <2>1, <2>2
  <2> QED
    BY <1>0, <2>1, <2>3
<1>8. CASE WorkerWakes
  BY <1>0, <1>8 DEF WorkerWakes
<1>9. CASE UNCHANGED vars
  BY <1>0, <1>9 DEF vars
<1> QED
  BY <1>1, <1>2, <1>3, <1>4, <1>5, <1>6, <1>7, <1>8, <1>9
     DEF Next, CallerStep, WorkerStep

(* However many threads call: the worker works for a call that waits, with *)
(* that call's arguments and directive unless another one came in.         *)
THEOREM ServedCorrect == Spec => []ServesTheCall
<1>1. Owned => ServesTheCall
  BY DEF Owned, Inside, ServesTheCall, Alone
<1> QED
  BY InitOwned, NextOwned, <1>1, PTL DEF Spec

(* However many calls came and went before, a call that is alone can only  *)
(* take an answer to what it asked.                                        *)
THEOREM AnswerCorrect == Spec => []RightAnswer
<1>1. Owned => RightAnswer
  BY DEF Owned, Inside, RightAnswer, Alone
<1> QED
  BY InitOwned, NextOwned, <1>1, PTL DEF Spec
=============================================================================
