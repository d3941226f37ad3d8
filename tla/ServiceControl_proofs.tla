------------------------ MODULE ServiceControl_proofs -----------------------
(***************************************************************************)
(* For any number of threads: a service uses its mailbox as Directive      *)
(* specifies, so that what is proved of the mailbox holds in it; from      *)
(* that, what its status, its worker and its calls' results say.           *)
(***************************************************************************)
EXTENDS ServiceControl, FiniteSetTheorems, TLAPS

M == INSTANCE Directive_proofs WITH
        Type <- ServiceDirective, Result <- ReturnCode, Answers <- ServiceAnswers

LEMMA MailboxAssumption == M!DirectiveAssumption
BY ServiceControlAssumption
   DEF M!DirectiveAssumption, ServiceDirective, ReturnCode, ServiceAnswers

(* The same module, by its two names here. *)
LEMMA SameMailbox ==
    /\ D!Init => M!Init
    /\ [D!Next]_(D!vars) => [M!Next]_(M!vars)
BY DEF D!Init, M!Init, D!Next, M!Next, D!vars, M!vars, D!mailbox, M!mailbox,
       D!CallerStep, M!CallerStep, D!WorkerStep, M!WorkerStep,
       D!SendDirective, M!SendDirective, D!Post, M!Post,
       D!SignalWorker, M!SignalWorker, D!KeepWaiting, M!KeepWaiting,
       D!ReturnResult, M!ReturnResult, D!TakeResult, M!TakeResult,
       D!CallerWakes, M!CallerWakes, D!WorkerWakes, M!WorkerWakes,
       D!WaitForDirective, M!WaitForDirective,
       D!GetDirectiveType, M!GetDirectiveType,
       D!SetDirectiveResult, M!SetDirectiveResult, D!SetWith, M!SetWith,
       D!SignalResult, M!SignalResult

-----------------------------------------------------------------------------
(* Where the worker is about to answer, it has the directive that it       *)
(* answers in hand, and the answer is one to it.                           *)
Handling ==
    /\ loop = "starting" => worker = "busy" /\ taken = "Start" /\ code = SUCCESS
    /\ loop = "stopping" => worker = "busy" /\ taken = "Stop" /\ code = SUCCESS
    /\ loop \in {"config_answer", "main_answer"} =>
        /\ worker = "busy"
        /\ \/ taken = "CreateAsock" /\ code \in {SUCCESS, FAILURE}
           \/ taken = "Start" /\ code = BADSTATE /\ loop = "main_answer"

LEMMA InitHandling == Init => Handling
BY DEF Init, Handling

LEMMA NextHandling == Handling /\ [Next]_vars => Handling'
<1> SUFFICES ASSUME Handling, [Next]_vars PROVE Handling'
  OBVIOUS
<1> USE DEF Handling, mailbox, D!mailbox
<1>1. CASE EnterConfiguration
  BY <1>1
     DEF EnterConfiguration
<1>2. CASE WaitInConfiguration
  BY <1>2
     DEF WaitInConfiguration, D!WaitForDirective, D!GetDirectiveType
<1>3. CASE HandleInConfiguration
  BY <1>3
     DEF HandleInConfiguration, Start
<1>4. CASE ProcessCreateAsock
  BY <1>4
     DEF ProcessCreateAsock, CreateWith, Creating
<1>5. CASE DereferenceNull
  BY <1>5
     DEF DereferenceNull, Creating
<1>6. CASE PollInMainLoop
  BY <1>6
     DEF PollInMainLoop, D!GetDirectiveType
<1>7. CASE HandleInMainLoop
  BY <1>7
     DEF HandleInMainLoop
<1>8. CASE Answer
  BY <1>8
     DEF Answer, D!SetDirectiveResult, D!SetWith, D!SignalResult
<1>9. ASSUME NEW c \in Caller, CreateReturns(c) PROVE Handling'
  BY <1>9
     DEF CreateReturns, Finish
<1>10. ASSUME NEW c \in Caller, Send(c) PROVE Handling'
  BY <1>10
     DEF Send, D!SendDirective, D!Post, D!SignalWorker, DirectiveOf
<1>11. ASSUME NEW c \in Caller, KeepWaiting(c) PROVE Handling'
  BY <1>11
     DEF KeepWaiting, D!KeepWaiting
<1>12. ASSUME NEW c \in Caller, Return(c) PROVE Handling'
  BY <1>12
     DEF Return, D!ReturnResult, D!TakeResult
<1>13. ASSUME NEW c \in Caller, Join(c) PROVE Handling'
  BY <1>13
     DEF Join
<1>14. ASSUME NEW c \in Caller, Free(c) PROVE Handling'
  BY <1>14
     DEF Free, Finish
<1>15. ASSUME NEW c \in Caller, BeginStart(c) PROVE Handling'
  BY <1>15
     DEF BeginStart, Begin, Available
<1>16. ASSUME NEW c \in Caller, BeginStop(c) PROVE Handling'
  BY <1>16
     DEF BeginStop, Begin, Available
<1>17. ASSUME NEW c \in Caller, BeginCreateAsock(c) PROVE Handling'
  BY <1>17
     DEF BeginCreateAsock, Begin, Available
<1>18. ASSUME NEW c \in Caller, BeginDestroy(c) PROVE Handling'
  BY <1>18
     DEF BeginDestroy, Begin, Available
<1>19. CASE Wakes
  BY <1>19
     DEF Wakes, D!WorkerWakes, D!CallerWakes
<1>20. CASE UNCHANGED vars
  BY <1>20
     DEF vars
<1> QED
  BY <1>1, <1>2, <1>3, <1>4, <1>5, <1>6, <1>7, <1>8, <1>9, <1>10, <1>11,
     <1>12, <1>13, <1>14, <1>15, <1>16, <1>17, <1>18, <1>19, <1>20
     DEF Next, WorkerStep, CallerStep

LEMMA StepImplements == Handling /\ [Next]_vars => [D!Next]_(D!vars)
<1> SUFFICES ASSUME Handling, [Next]_vars PROVE [D!Next]_(D!vars)
  OBVIOUS
<1> USE DEF D!vars, D!mailbox, mailbox
<1>1. CASE WaitInConfiguration
  BY <1>1 DEF WaitInConfiguration, D!Next, D!WorkerStep
<1>2. CASE PollInMainLoop
  BY <1>2 DEF PollInMainLoop, D!Next, D!WorkerStep
<1>3. CASE Answer
  <2>1. taken \in ServiceDirective /\ code \in ServiceAnswers(taken)
    BY <1>3 DEF Answer, Handling, ServiceDirective, ServiceAnswers
  <2> QED
    BY <1>3, <2>1 DEF Answer, D!Next, D!WorkerStep
<1>4. ASSUME NEW c \in Caller, Send(c) PROVE D!Next
  <2>1. DirectiveOf(call[c]) \in ServiceDirective
    BY <1>4 DEF Send, DirectiveOf, ServiceDirective
  <2> QED
    BY <1>4, <2>1 DEF Send, D!Next
<1>5. ASSUME NEW c \in Caller, KeepWaiting(c) PROVE D!Next
  BY <1>5 DEF KeepWaiting, D!Next, D!CallerStep
<1>6. ASSUME NEW c \in Caller, Return(c) PROVE D!Next
  BY <1>6 DEF Return, D!Next, D!CallerStep
<1>7. CASE Wakes
  BY <1>7 DEF Wakes, D!Next
<1>8. CASE EnterConfiguration \/ HandleInConfiguration \/ ProcessCreateAsock
            \/ DereferenceNull \/ HandleInMainLoop
  BY <1>8 DEF EnterConfiguration, HandleInConfiguration, Start, ProcessCreateAsock,
              CreateWith, DereferenceNull, HandleInMainLoop
<1>9. ASSUME NEW c \in Caller, CreateReturns(c) \/ Join(c) \/ Free(c)
      PROVE  UNCHANGED D!vars
  BY <1>9 DEF CreateReturns, Join, Free
<1>10. ASSUME NEW c \in Caller,
              BeginStart(c) \/ BeginStop(c) \/ BeginCreateAsock(c) \/ BeginDestroy(c)
       PROVE  UNCHANGED D!vars
  BY <1>10 DEF BeginStart, BeginStop, BeginCreateAsock, BeginDestroy, Begin
<1>11. CASE UNCHANGED vars
  BY <1>11 DEF vars
<1> QED
  BY <1>1, <1>2, <1>3, <1>4, <1>5, <1>6, <1>7, <1>8, <1>9, <1>10, <1>11
     DEF Next, WorkerStep, CallerStep

(* Whatever the threads call and when: the calls of a service and its      *)
(* worker use the mailbox as asock_directive.c means it to be used.        *)
THEOREM DirectiveImplemented == Spec => ImplementsDirective
<1>1. Init => D!Init
  BY DEF Init
<1> QED
  BY <1>1, InitHandling, NextHandling, StepImplements, PTL
     DEF Spec, ImplementsDirective, D!Spec

(* So what Directive_proofs says of every mailbox holds in this one. *)
LEMMA OwnedHolds == Spec => []M!Owned
<1>1. Init => M!Owned
  BY SameMailbox, MailboxAssumption, M!InitOwned DEF Init
<1>2. M!Owned /\ Handling /\ [Next]_vars => M!Owned'
  BY StepImplements, SameMailbox, MailboxAssumption, M!NextOwned
<1> QED
  BY <1>1, <1>2, InitHandling, NextHandling, PTL DEF Spec

-----------------------------------------------------------------------------
(* A thread is inside asock_send_directive exactly where its call sent a   *)
(* directive; only the creator creates and destroys, and when it does,     *)
(* nobody else is in a call.                                               *)
CallState == {"none", "create", "start", "stop", "create_asock", "destroy", "sent",
              "stop_sent", "destroy_sent", "join", "destroy_join", "free"}

Calls ==
    /\ call \in [Caller -> CallState]
    /\ \A c \in Caller :
        /\ caller[c] # "out" <=> call[c] \in {"sent", "stop_sent", "destroy_sent"}
        /\ caller[c] # "out" /\ asked[c] = "Stop" <=> call[c] \in {"stop_sent", "destroy_sent"}
        /\ call[c] \in {"create", "destroy", "destroy_sent", "destroy_join", "free"}
                => c = Creator /\ \A d \in Caller \ {c} : call[d] = "none"
    /\ freed => \A c \in Caller : call[c] = "none"

LEMMA InitCalls == Init => Calls
BY ServiceControlAssumption DEF Init, D!Init, Calls, CallState

LEMMA NextCalls == M!Owned /\ Calls /\ [Next]_vars => Calls'
<1> SUFFICES ASSUME M!Owned, Calls, [Next]_vars PROVE Calls'
  OBVIOUS
<1>0. /\ caller \in [Caller -> {"out", "waiting", "woken"}]
      /\ asked \in [Caller -> ServiceDirective \union {None}]
  BY DEF M!Owned, M!Mailbox, M!TypeOK
<1> USE ServiceControlAssumption DEF Calls, CallState, mailbox, D!mailbox
<1>1. CASE EnterConfiguration
  BY <1>0, <1>1
     DEF EnterConfiguration
<1>2. CASE WaitInConfiguration
  BY <1>0, <1>2
     DEF WaitInConfiguration, D!WaitForDirective, D!GetDirectiveType
<1>3. CASE HandleInConfiguration
  BY <1>0, <1>3
     DEF HandleInConfiguration, Start
<1>4. CASE ProcessCreateAsock
  BY <1>0, <1>4
     DEF ProcessCreateAsock, CreateWith, Creating
<1>5. CASE DereferenceNull
  BY <1>0, <1>5
     DEF DereferenceNull, Creating
<1>6. CASE PollInMainLoop
  BY <1>0, <1>6
     DEF PollInMainLoop, D!GetDirectiveType
<1>7. CASE HandleInMainLoop
  BY <1>0, <1>7
     DEF HandleInMainLoop
<1>8. CASE Answer
  BY <1>0, <1>8
     DEF Answer, D!SetDirectiveResult, D!SetWith, D!SignalResult
<1>9. ASSUME NEW c \in Caller, CreateReturns(c) PROVE Calls'
  BY <1>0, <1>9
     DEF CreateReturns, Finish
<1>10. ASSUME NEW c \in Caller, Send(c) PROVE Calls'
  BY <1>0, <1>10
     DEF Send, D!SendDirective, D!Post, D!SignalWorker, DirectiveOf
<1>11. ASSUME NEW c \in Caller, KeepWaiting(c) PROVE Calls'
  BY <1>0, <1>11
     DEF KeepWaiting, D!KeepWaiting
<1>12. ASSUME NEW c \in Caller, Return(c) PROVE Calls'
  BY <1>0, <1>12
     DEF Return, D!ReturnResult, D!TakeResult
<1>13. ASSUME NEW c \in Caller, Join(c) PROVE Calls'
  BY <1>0, <1>13
     DEF Join
<1>14. ASSUME NEW c \in Caller, Free(c) PROVE Calls'
  BY <1>0, <1>14
     DEF Free, Finish
<1>15. ASSUME NEW c \in Caller, BeginStart(c) PROVE Calls'
  BY <1>0, <1>15
     DEF BeginStart, Begin, Available
<1>16. ASSUME NEW c \in Caller, BeginStop(c) PROVE Calls'
  BY <1>0, <1>16
     DEF BeginStop, Begin, Available
<1>17. ASSUME NEW c \in Caller, BeginCreateAsock(c) PROVE Calls'
  BY <1>0, <1>17
     DEF BeginCreateAsock, Begin, Available
<1>18. ASSUME NEW c \in Caller, BeginDestroy(c) PROVE Calls'
  BY <1>0, <1>18
     DEF BeginDestroy, Begin, Available
<1>19. CASE Wakes
  BY <1>0, <1>19
     DEF Wakes, D!WorkerWakes, D!CallerWakes
<1>20. CASE UNCHANGED vars
  BY <1>0, <1>20
     DEF vars
<1> QED
  BY <1>1, <1>2, <1>3, <1>4, <1>5, <1>6, <1>7, <1>8, <1>9, <1>10, <1>11,
     <1>12, <1>13, <1>14, <1>15, <1>16, <1>17, <1>18, <1>19, <1>20
     DEF Next, WorkerStep, CallerStep

-----------------------------------------------------------------------------
(* Before the service runs nobody is about to stop it, and no directive to *)
(* stop it is under way; what the status says of the worker depends on     *)
(* that.                                                                   *)
Status ==
    /\ StatusTruthful
    /\ m_service_status \in {"Init", "Configuration", "Running", "Aborted"}
    /\ loop \in {"started", "config", "config_answer"}
        => m_service_status \in {"Init", "Configuration"}
    /\ m_service_status \in {"Init", "Configuration"} =>
        /\ m_direct_type # "Stop" /\ (worker = "busy" => taken # "Stop")
        /\ \A c \in Caller : call[c] \notin {"stop", "stop_sent", "destroy",
                                          "destroy_sent", "join", "destroy_join"}
    /\ m_service_status = "Init" => call[Creator] = "create"

LEMMA InitStatus == Init => Status
BY ServiceControlAssumption
   DEF Init, D!Init, Status, StatusTruthful, ConfigurationNeverStopped, ServiceDirective

LEMMA NextStatus == Calls /\ Status /\ [Next]_vars => Status'
<1> SUFFICES ASSUME Calls, Status, [Next]_vars PROVE Status'
  OBVIOUS
<1>0. call \in [Caller -> CallState] /\ None # "Stop"
  BY ServiceControlAssumption DEF Calls, ServiceDirective
<1> USE ServiceControlAssumption
    DEF Status, StatusTruthful, ConfigurationNeverStopped, mailbox, D!mailbox
<1>1. CASE EnterConfiguration
  BY <1>0, <1>1
     DEF EnterConfiguration
<1>2. CASE WaitInConfiguration
  BY <1>0, <1>2
     DEF WaitInConfiguration, D!WaitForDirective, D!GetDirectiveType
<1>3. CASE HandleInConfiguration
  BY <1>0, <1>3
     DEF HandleInConfiguration, Start
<1>4. CASE ProcessCreateAsock
  BY <1>0, <1>4
     DEF ProcessCreateAsock, CreateWith, Creating
<1>5. CASE DereferenceNull
  BY <1>0, <1>5
     DEF DereferenceNull, Creating
<1>6. CASE PollInMainLoop
  BY <1>0, <1>6
     DEF PollInMainLoop, D!GetDirectiveType
<1>7. CASE HandleInMainLoop
  BY <1>0, <1>7
     DEF HandleInMainLoop
<1>8. CASE Answer
  BY <1>0, <1>8
     DEF Answer, D!SetDirectiveResult, D!SetWith, D!SignalResult
<1>9. ASSUME NEW c \in Caller, CreateReturns(c) PROVE Status'
  BY <1>0, <1>9
     DEF CreateReturns, Finish
<1>10. ASSUME NEW c \in Caller, Send(c) PROVE Status'
  BY <1>0, <1>10
     DEF Send, D!SendDirective, D!Post, D!SignalWorker, DirectiveOf
<1>11. ASSUME NEW c \in Caller, KeepWaiting(c) PROVE Status'
  BY <1>0, <1>11
     DEF KeepWaiting, D!KeepWaiting
<1>12. ASSUME NEW c \in Caller, Return(c) PROVE Status'
  <2>1. call[c] \in {"sent", "stop_sent", "destroy_sent"}
    BY <1>12 DEF Return, D!ReturnResult, D!TakeResult, Calls
  <2>2. /\ call' \in [Caller -> CallState]
        /\ \A d \in Caller \ {c} : call'[d] = call[d]
        /\ call'[c] \in {"join", "destroy_join", "none"}
        /\ call[c] = "sent" => call'[c] = "none"
    BY <1>0, <1>12, <2>1 DEF Return, CallState
  <2> QED
    BY <1>0, <1>12, <2>1, <2>2 DEF Return, D!ReturnResult, D!TakeResult
<1>13. ASSUME NEW c \in Caller, Join(c) PROVE Status'
  BY <1>0, <1>13
     DEF Join
<1>14. ASSUME NEW c \in Caller, Free(c) PROVE Status'
  BY <1>0, <1>14
     DEF Free, Finish
<1>15. ASSUME NEW c \in Caller, BeginStart(c) PROVE Status'
  BY <1>0, <1>15
     DEF BeginStart, Begin, Available
<1>16. ASSUME NEW c \in Caller, BeginStop(c) PROVE Status'
  BY <1>0, <1>16
     DEF BeginStop, Begin, Available
<1>17. ASSUME NEW c \in Caller, BeginCreateAsock(c) PROVE Status'
  BY <1>0, <1>17
     DEF BeginCreateAsock, Begin, Available
<1>18. ASSUME NEW c \in Caller, BeginDestroy(c) PROVE Status'
  BY <1>0, <1>18
     DEF BeginDestroy, Begin, Available
<1>19. CASE Wakes
  BY <1>0, <1>19
     DEF Wakes, D!WorkerWakes, D!CallerWakes
<1>20. CASE UNCHANGED vars
  BY <1>0, <1>20
     DEF vars
<1> QED
  BY <1>1, <1>2, <1>3, <1>4, <1>5, <1>6, <1>7, <1>8, <1>9, <1>10, <1>11,
     <1>12, <1>13, <1>14, <1>15, <1>16, <1>17, <1>18, <1>19, <1>20
     DEF Next, WorkerStep, CallerStep

LEMMA Invariant == Spec => [](M!Owned /\ Handling /\ Calls /\ Status)
BY OwnedHolds, InitHandling, NextHandling, InitCalls, NextCalls, InitStatus,
   NextStatus, PTL DEF Spec

(* Read without a lock by any number of threads, m_service_status tells    *)
(* the truth about the worker, and no stop comes to one that waits to be   *)
(* configured.                                                             *)
THEOREM StatusCorrect == Spec => []StatusTruthful
<1>1. Status => StatusTruthful
  BY DEF Status
<1> QED
  BY Invariant, <1>1, PTL

-----------------------------------------------------------------------------
(* While the service is being freed, and after, nobody is in a call: there *)
(* is no directive that would start its worker.                            *)
Freeing ==
    call[Creator] = "free" \/ freed => m_service_status \in {"Configuration", "Aborted"}

LEMMA InitFreeing == Init => Freeing
BY ServiceControlAssumption DEF Init, Freeing

LEMMA NextFreeing ==
    M!Owned /\ Handling /\ Calls /\ Status /\ Freeing /\ [Next]_vars => Freeing'
<1> SUFFICES ASSUME M!Owned, Handling, Calls, Status, Freeing, [Next]_vars PROVE Freeing'
  OBVIOUS
<1>0. call \in [Caller -> CallState]
  BY DEF Calls
<1> USE ServiceControlAssumption DEF Freeing
<1>1. CASE EnterConfiguration
  BY <1>0, <1>1
     DEF EnterConfiguration, Status
<1>2. CASE WaitInConfiguration
  BY <1>0, <1>2
     DEF WaitInConfiguration, D!WaitForDirective, D!GetDirectiveType
<1>3. CASE HandleInConfiguration
  <2>1. m_arg \in Caller /\ caller[m_arg] # "out"
    BY <1>3 DEF HandleInConfiguration, Start, M!Owned, M!Inside
  <2>2. call[m_arg] \in {"sent", "stop_sent", "destroy_sent"} /\ ~freed
    BY <2>1 DEF Calls
  <2>3. call[Creator] # "free"
    BY <2>1, <2>2 DEF Calls
  <2> QED
    BY <1>3, <2>2, <2>3 DEF HandleInConfiguration, Start
<1>4. CASE ProcessCreateAsock
  BY <1>0, <1>4
     DEF ProcessCreateAsock, CreateWith, Creating
<1>5. CASE DereferenceNull
  BY <1>0, <1>5
     DEF DereferenceNull, Creating
<1>6. CASE PollInMainLoop
  BY <1>0, <1>6
     DEF PollInMainLoop, D!GetDirectiveType
<1>7. CASE HandleInMainLoop
  BY <1>0, <1>7
     DEF HandleInMainLoop
<1>8. CASE Answer
  BY <1>0, <1>8
     DEF Answer, D!SetDirectiveResult, D!SetWith, D!SignalResult
<1>9. ASSUME NEW c \in Caller, CreateReturns(c) PROVE Freeing'
  BY <1>0, <1>9
     DEF CreateReturns, Finish
<1>10. ASSUME NEW c \in Caller, Send(c) PROVE Freeing'
  BY <1>0, <1>10
     DEF Send, D!SendDirective, D!Post, D!SignalWorker, DirectiveOf
<1>11. ASSUME NEW c \in Caller, KeepWaiting(c) PROVE Freeing'
  BY <1>0, <1>11
     DEF KeepWaiting, D!KeepWaiting
<1>12. ASSUME NEW c \in Caller, Return(c) PROVE Freeing'
  BY <1>0, <1>12
     DEF Return, D!ReturnResult, D!TakeResult
<1>13. ASSUME NEW c \in Caller, Join(c) PROVE Freeing'
  BY <1>0, <1>13
     DEF Join, Calls
<1>14. ASSUME NEW c \in Caller, Free(c) PROVE Freeing'
  BY <1>0, <1>14
     DEF Free, Finish, Calls
<1>15. ASSUME NEW c \in Caller, BeginStart(c) PROVE Freeing'
  BY <1>0, <1>15
     DEF BeginStart, Begin, Available
<1>16. ASSUME NEW c \in Caller, BeginStop(c) PROVE Freeing'
  BY <1>0, <1>16
     DEF BeginStop, Begin, Available
<1>17. ASSUME NEW c \in Caller, BeginCreateAsock(c) PROVE Freeing'
  BY <1>0, <1>17
     DEF BeginCreateAsock, Begin, Available
<1>18. ASSUME NEW c \in Caller, BeginDestroy(c) PROVE Freeing'
  <2>1. m_service_status # "Init" /\ ~freed
    BY <1>18 DEF BeginDestroy, Available, Status
  <2> QED
    BY <1>0, <1>18, <2>1 DEF BeginDestroy, Begin, Status
<1>19. CASE Wakes
  BY <1>0, <1>19
     DEF Wakes, D!WorkerWakes, D!CallerWakes
<1>20. CASE UNCHANGED vars
  BY <1>0, <1>20
     DEF vars
<1> QED
  BY <1>1, <1>2, <1>3, <1>4, <1>5, <1>6, <1>7, <1>8, <1>9, <1>10, <1>11,
     <1>12, <1>13, <1>14, <1>15, <1>16, <1>17, <1>18, <1>19, <1>20
     DEF Next, WorkerStep, CallerStep

(* A service is freed when its worker has exited, or never ran.            *)
THEOREM FreedCorrect == Spec => []FreedAfterExit
<1>1. Freeing /\ Status => FreedAfterExit
  BY DEF Freeing, Status, StatusTruthful, FreedAfterExit
<1> QED
  BY Invariant, InitFreeing, NextFreeing, <1>1, PTL DEF Spec

(* The worker reads through the arguments of another directive only if two *)
(* threads are inside their calls: the one whose directive it took, and    *)
(* the one whose arguments they are.                                       *)
LEMMA NextNeverCrashes == M!Owned /\ NeverCrashes /\ [Next]_vars => NeverCrashes'
<1> SUFFICES ASSUME M!Owned, NeverCrashes, [Next]_vars PROVE NeverCrashes'
  OBVIOUS
<1> USE DEF NeverCrashes
<1>1. CASE UNCHANGED vars
  BY <1>1 DEF vars, mailbox
<1>2. ASSUME Next, loop' = "crashed" PROVE DereferenceNull
  BY <1>2 DEF Next, Alive, WorkerStep, EnterConfiguration, WaitInConfiguration,
              HandleInConfiguration, Start, ProcessCreateAsock, CreateWith,
              PollInMainLoop, HandleInMainLoop, Answer, CallerStep, CreateReturns,
              Send, KeepWaiting, Return, Join, Free, BeginStart, BeginStop,
              BeginCreateAsock, BeginDestroy, Begin, Wakes
<1>3. CASE DereferenceNull
  <2>1. /\ m_arg \in Caller /\ caller[m_arg] # "out" /\ asked[m_arg] # "CreateAsock"
        /\ \E c \in Caller : caller[c] # "out" /\ asked[c] = "CreateAsock"
    BY <1>3 DEF DereferenceNull, Creating, M!Owned, M!Inside
  <2>2. UNCHANGED caller
    BY <1>3 DEF DereferenceNull, mailbox
  <2> QED
    BY <2>1, <2>2
<1> QED
  BY <1>1, <1>2, <1>3

THEOREM CrashCorrect == Spec => []NeverCrashes
<1>1. Init => NeverCrashes
  BY DEF Init, NeverCrashes
<1> QED
  BY OwnedHolds, <1>1, NextNeverCrashes, PTL DEF Spec

-----------------------------------------------------------------------------
(* The answer the worker is about to give, or gave, is the outcome of what *)
(* some thread inside its call asked for.                                  *)
Suits(c, answer) ==
    /\ caller[c] # "out"
    /\ asked[c] = "CreateAsock" => (answer = SUCCESS <=> result[c] = "asock")

Outcome ==
    /\ loop \in {"starting", "stopping", "config_answer", "main_answer"} =>
        \E c \in Caller : asked[c] = taken /\ Suits(c, code)
    /\ m_direct_result # UNDEFINED /\ (\E c \in Caller : caller[c] # "out") =>
        \E c \in Caller :
            /\ Suits(c, m_direct_result)
            /\ asked[c] = "Start" /\ m_direct_result = SUCCESS =>
                loop = "main" /\ m_service_status = "Running"

ResultType == result \in [Caller -> {"asock", "NULL"}]

LEMMA InitOutcome == Init => Outcome
BY DEF Init, D!Init, Outcome

LEMMA NextOutcome ==
    /\ M!Owned /\ Handling /\ Calls /\ Status
    /\ Outcome
    /\ ResultType
    /\ [Next]_vars
    => Outcome'
<1> SUFFICES ASSUME M!Owned, Handling, Calls, Status, Outcome,
                    ResultType, [Next]_vars
             PROVE  Outcome'
  OBVIOUS
<1>0. /\ caller \in [Caller -> {"out", "waiting", "woken"}]
      /\ asked \in [Caller -> ServiceDirective \union {None}]
      /\ result \in [Caller -> {"asock", "NULL"}]
      /\ worker = "busy" =>
            /\ m_direct_result = UNDEFINED
            /\ m_arg \in Caller /\ caller[m_arg] # "out"
            /\ \E c \in Caller : caller[c] # "out" /\ asked[c] = taken
  BY DEF M!Owned, M!Mailbox, M!TypeOK, M!Inside, ResultType
<1> USE ServiceControlAssumption DEF Outcome, Suits, mailbox, D!mailbox
<1>1. CASE EnterConfiguration
  BY <1>0, <1>1
     DEF EnterConfiguration
<1>2. CASE WaitInConfiguration
  BY <1>0, <1>2
     DEF WaitInConfiguration, D!WaitForDirective, D!GetDirectiveType
<1>3. CASE HandleInConfiguration
  BY <1>0, <1>3
     DEF HandleInConfiguration, Start
<1>4. CASE ProcessCreateAsock
  BY <1>0, <1>4
     DEF ProcessCreateAsock, CreateWith, Creating
<1>5. CASE DereferenceNull
  BY <1>0, <1>5
     DEF DereferenceNull, Creating, Handling
<1>6. CASE PollInMainLoop
  BY <1>0, <1>6
     DEF PollInMainLoop, D!GetDirectiveType
<1>7. CASE HandleInMainLoop
  BY <1>0, <1>7
     DEF HandleInMainLoop
<1>8. CASE Answer
  BY <1>0, <1>8
     DEF Answer, D!SetDirectiveResult, D!SetWith, D!SignalResult, Handling,
         Status, StatusTruthful
<1>9. ASSUME NEW c \in Caller, CreateReturns(c) PROVE Outcome'
  BY <1>0, <1>9
     DEF CreateReturns, Finish
<1>10. ASSUME NEW c \in Caller, Send(c) PROVE Outcome'
  BY <1>0, <1>10
     DEF Send, D!SendDirective, D!Post, D!SignalWorker, DirectiveOf
<1>11. ASSUME NEW c \in Caller, KeepWaiting(c) PROVE Outcome'
  BY <1>0, <1>11
     DEF KeepWaiting, D!KeepWaiting
<1>12. ASSUME NEW c \in Caller, Return(c) PROVE Outcome'
  BY <1>0, <1>12
     DEF Return, D!ReturnResult, D!TakeResult, Handling
<1>13. ASSUME NEW c \in Caller, Join(c) PROVE Outcome'
  BY <1>0, <1>13
     DEF Join
<1>14. ASSUME NEW c \in Caller, Free(c) PROVE Outcome'
  BY <1>0, <1>14
     DEF Free, Finish
<1>15. ASSUME NEW c \in Caller, BeginStart(c) PROVE Outcome'
  BY <1>0, <1>15
     DEF BeginStart, Begin, Available
<1>16. ASSUME NEW c \in Caller, BeginStop(c) PROVE Outcome'
  BY <1>0, <1>16
     DEF BeginStop, Begin, Available
<1>17. ASSUME NEW c \in Caller, BeginCreateAsock(c) PROVE Outcome'
  BY <1>0, <1>17
     DEF BeginCreateAsock, Begin, Available, Calls
<1>18. ASSUME NEW c \in Caller, BeginDestroy(c) PROVE Outcome'
  BY <1>0, <1>18
     DEF BeginDestroy, Begin, Available
<1>19. CASE Wakes
  BY <1>0, <1>19
     DEF Wakes, D!WorkerWakes, D!CallerWakes
<1>20. CASE UNCHANGED vars
  BY <1>0, <1>20
     DEF vars
<1> QED
  BY <1>1, <1>2, <1>3, <1>4, <1>5, <1>6, <1>7, <1>8, <1>9, <1>10, <1>11,
     <1>12, <1>13, <1>14, <1>15, <1>16, <1>17, <1>18, <1>19, <1>20
     DEF Next, WorkerStep, CallerStep

(* Whatever the threads did before: a call that is alone when it returns   *)
(* got an asock exactly with SUCCESS, or started a service that runs.      *)
THEOREM SuccessCorrect == Spec => []SuccessIsReal
<1>1. Init => ResultType
  BY DEF Init, ResultType
<1>2. ResultType /\ [Next]_vars => ResultType'
  BY DEF ResultType, Next, vars, WorkerStep, EnterConfiguration, WaitInConfiguration,
         HandleInConfiguration, Start, ProcessCreateAsock, CreateWith, DereferenceNull,
         PollInMainLoop, HandleInMainLoop, Answer, CallerStep, CreateReturns, Send,
         KeepWaiting, Return, Join, Free, BeginStart, BeginStop, BeginCreateAsock,
         BeginDestroy, Begin, Wakes
<1>3. Outcome => SuccessIsReal
  BY DEF Outcome, Suits, SuccessIsReal, D!Alone
<1> QED
  BY Invariant, InitOutcome, NextOutcome, <1>1, <1>2, <1>3, PTL DEF Spec

-----------------------------------------------------------------------------
(* Why the worker is joined once: the worker answers one stop.  Every      *)
(* other answer that a stopping thread takes was meant for a thread that   *)
(* asked for something else, and that one goes on waiting.  So those who   *)
(* join, who joined, and the answers to come for others are no more than   *)
(* one and those who wait for such an answer.                              *)
Waiting == {c \in Caller : caller[c] # "out" /\ asked[c] # "Stop"}
Pending == IF worker = "busy" THEN taken # "Stop" ELSE m_direct_type \notin {None, "Stop"}
Answered == m_direct_result # UNDEFINED /\ \E c \in Caller : caller[c] # "out"

One(b) == IF b THEN 1 ELSE 0
Tally ==
    Cardinality(Joining) + One(m_service_status = "Aborted") + One(Pending) + One(Answered)
        <= One(loop = "exited") + Cardinality(Waiting)

LEMMA InitTally == Init => Tally
<1> SUFFICES ASSUME Init PROVE Tally
  OBVIOUS
<1>1. Joining = {} /\ Waiting = {}
  BY DEF Init, D!Init, Joining, Waiting
<1>2. m_service_status # "Aborted" /\ ~Pending /\ ~Answered
  BY DEF Init, D!Init, Pending, Answered
<1>3. Cardinality({}) = 0
  BY FS_EmptySet
<1> QED
  BY <1>1, <1>2, <1>3 DEF Tally, One

(* A step that leaves both sets as they are, and adds nothing on the left. *)
LEMMA SameTally ==
    ASSUME IsFiniteSet(Caller), Tally, UNCHANGED <<Joining, Waiting>>,
           m_service_status' = "Aborted" => m_service_status = "Aborted",
           Pending' => Pending,
           Answered' => Answered,
           loop = "exited" => loop' = "exited"
    PROVE  Tally'
<1>1. /\ IsFiniteSet(Joining) /\ Cardinality(Joining) \in Nat
      /\ IsFiniteSet(Waiting) /\ Cardinality(Waiting) \in Nat
  BY FS_Subset, FS_CardinalityType DEF Joining, Waiting
<1> QED
  BY <1>1 DEF Tally, One

LEMMA NextTally ==
    ASSUME IsFiniteSet(Caller), M!Owned, Handling, Calls, Status, Tally, [Next]_vars
    PROVE  Tally'
<1>0. /\ caller \in [Caller -> {"out", "waiting", "woken"}]
      /\ asked \in [Caller -> ServiceDirective \union {None}]
      /\ call \in [Caller -> CallState]
      /\ m_direct_type # None => m_direct_result = UNDEFINED
      /\ worker = "ready" => m_direct_type # None
      /\ worker = "busy" => m_direct_result = UNDEFINED
  BY DEF M!Owned, M!Mailbox, M!TypeOK, M!WaitReturnsDirective,
         M!NoResultWithDirective, Calls
<1>a. /\ IsFiniteSet(Joining) /\ Cardinality(Joining) \in Nat
      /\ IsFiniteSet(Waiting) /\ Cardinality(Waiting) \in Nat
  BY FS_Subset, FS_CardinalityType DEF Joining, Waiting
<1> USE ServiceControlAssumption DEF mailbox, D!mailbox, CallState
<1>1. CASE EnterConfiguration
  BY <1>0, <1>1, SameTally
     DEF EnterConfiguration, Joining, Waiting, Pending, Answered
<1>2. CASE WaitInConfiguration
  BY <1>0, <1>2, SameTally
     DEF WaitInConfiguration, D!WaitForDirective, D!GetDirectiveType,
         Joining, Waiting, Pending, Answered
<1>3. CASE HandleInConfiguration
  BY <1>0, <1>3, SameTally
     DEF HandleInConfiguration, Start, Joining, Waiting, Pending, Answered
<1>4. CASE ProcessCreateAsock
  BY <1>0, <1>4, SameTally
     DEF ProcessCreateAsock, CreateWith, Creating, Joining, Waiting,
         Pending, Answered
<1>5. CASE DereferenceNull
  BY <1>0, <1>5, SameTally
     DEF DereferenceNull, Creating, Joining, Waiting, Pending, Answered
<1>6. CASE PollInMainLoop
  BY <1>0, <1>6, SameTally
     DEF PollInMainLoop, D!GetDirectiveType, Joining, Waiting, Pending,
         Answered
<1>7. CASE HandleInMainLoop
  BY <1>0, <1>7, SameTally
     DEF HandleInMainLoop, Joining, Waiting, Pending, Answered
<1>8. CASE Answer
  <2>1. Joining' = Joining /\ Waiting' = Waiting
    BY <1>0, <1>8 DEF Answer, D!SetDirectiveResult, D!SetWith, D!SignalResult,
                    Joining, Waiting
  <2>2. worker = "busy" /\ ~Answered /\ ~Pending' /\ loop # "exited"
    BY <1>0, <1>8 DEF Answer, D!SetDirectiveResult, D!SetWith, Pending, Answered
  <2>3. Pending \/ loop' = "exited"
    BY <1>8, <2>2 DEF Answer, Handling, Pending
  <2>4. UNCHANGED m_service_status
    BY <1>8 DEF Answer
  <2> QED
    BY <1>a, <2>1, <2>2, <2>3, <2>4 DEF Tally, One
<1>9. ASSUME NEW c \in Caller, CreateReturns(c) PROVE Tally'
  BY <1>0, <1>9, SameTally
     DEF CreateReturns, Finish, Joining, Waiting, Pending, Answered
<1>10. ASSUME NEW c \in Caller, Send(c) PROVE Tally'
  <2>1. /\ UNCHANGED <<m_service_status, loop>> /\ ~Answered'
        /\ m_direct_type' = DirectiveOf(call[c]) /\ taken' = taken
        /\ worker' = "busy" <=> worker = "busy"
    BY <1>10 DEF Send, D!SendDirective, D!Post, D!SignalWorker, Answered
  <2>2. Joining' = Joining
    BY <1>0, <1>10 DEF Send, Joining
  <2>3. CASE DirectiveOf(call[c]) = "Stop"
    <3>1. Waiting' = Waiting
      BY <1>0, <1>10, <2>3 DEF Send, D!SendDirective, D!Post, Waiting
    <3>2. Pending' => Pending
      BY <2>1, <2>3 DEF Pending
    <3> QED
      BY <2>1, <2>2, <3>1, <3>2, SameTally
  <2>4. CASE DirectiveOf(call[c]) # "Stop"
    <3>1. Waiting' = Waiting \union {c} /\ c \notin Waiting
      BY <1>0, <1>10, <2>4 DEF Send, D!SendDirective, D!Post, Waiting
    <3>2. Cardinality(Waiting') = Cardinality(Waiting) + 1
      BY <1>a, <3>1, FS_AddElement
    <3> QED
      BY <1>a, <2>1, <2>2, <3>2 DEF Tally, One
  <2> QED
    BY <2>3, <2>4
<1>11. ASSUME NEW c \in Caller, KeepWaiting(c) PROVE Tally'
  BY <1>0, <1>11, SameTally
     DEF KeepWaiting, D!KeepWaiting, Joining, Waiting, Pending, Answered
<1>12. ASSUME NEW c \in Caller, Return(c) PROVE Tally'
  <2>1. /\ UNCHANGED <<m_service_status, loop>> /\ ~Answered' /\ Answered
        /\ ~Pending' /\ caller[c] # "out"
    BY <1>0, <1>12 DEF Return, D!ReturnResult, D!TakeResult, Answered, Pending
  <2>2. CASE asked[c] = "Stop"
    <3>0. call[c] \in {"stop_sent", "destroy_sent"}
      BY <2>1, <2>2 DEF Calls
    <3>1. Joining' = Joining \union {c} /\ c \notin Joining
      BY <1>0, <1>12, <3>0 DEF Return, Joining
    <3>2. Waiting' = Waiting
      BY <1>0, <1>12, <2>2 DEF Return, D!ReturnResult, D!TakeResult, Waiting
    <3>3. Cardinality(Joining') = Cardinality(Joining) + 1
      BY <1>a, <3>1, FS_AddElement
    <3> QED
      BY <1>a, <2>1, <3>2, <3>3 DEF Tally, One
  <2>3. CASE asked[c] # "Stop"
    <3>0. call[c] = "sent"
      BY <2>1, <2>3 DEF Calls
    <3>1. Joining' = Joining
      BY <1>0, <1>12, <3>0 DEF Return, Joining
    <3>2. Waiting' = Waiting \ {c} /\ c \in Waiting
      BY <1>0, <1>12, <2>1, <2>3 DEF Return, D!ReturnResult, D!TakeResult, Waiting
    <3>3. Cardinality(Waiting') = Cardinality(Waiting) - 1
      BY <1>a, <3>2, FS_RemoveElement
    <3> QED
      BY <1>a, <2>1, <3>1, <3>3 DEF Tally, One
  <2> QED
    BY <2>2, <2>3
<1>13. ASSUME NEW c \in Caller, Join(c) PROVE Tally'
  <2>1. Joining' = Joining \ {c} /\ c \in Joining
    BY <1>0, <1>13 DEF Join, Joining
  <2>2. Cardinality(Joining') = Cardinality(Joining) - 1
    BY <1>a, <2>1, FS_RemoveElement
  <2>3. UNCHANGED <<Waiting, Pending, Answered, loop>>
    BY <1>13 DEF Join, Waiting, Pending, Answered
  <2> QED
    BY <1>a, <2>2, <2>3 DEF Tally, One
<1>14. ASSUME NEW c \in Caller, Free(c) PROVE Tally'
  BY <1>0, <1>14, SameTally
     DEF Free, Finish, Joining, Waiting, Pending, Answered
<1>15. ASSUME NEW c \in Caller, BeginStart(c) PROVE Tally'
  BY <1>0, <1>15, SameTally
     DEF BeginStart, Begin, Available, Joining, Waiting, Pending, Answered
<1>16. ASSUME NEW c \in Caller, BeginStop(c) PROVE Tally'
  BY <1>0, <1>16, SameTally
     DEF BeginStop, Begin, Available, Joining, Waiting, Pending, Answered
<1>17. ASSUME NEW c \in Caller, BeginCreateAsock(c) PROVE Tally'
  BY <1>0, <1>17, SameTally
     DEF BeginCreateAsock, Begin, Available, Joining, Waiting, Pending,
         Answered
<1>18. ASSUME NEW c \in Caller, BeginDestroy(c) PROVE Tally'
  BY <1>0, <1>18, SameTally
     DEF BeginDestroy, Begin, Available, Joining, Waiting, Pending, Answered
<1>19. CASE Wakes
  BY <1>0, <1>19, SameTally
     DEF Wakes, D!WorkerWakes, D!CallerWakes, Joining, Waiting, Pending,
         Answered
<1>20. CASE UNCHANGED vars
  BY <1>0, <1>20, SameTally
     DEF vars, Joining, Waiting, Pending, Answered
<1> QED
  BY <1>1, <1>2, <1>3, <1>4, <1>5, <1>6, <1>7, <1>8, <1>9, <1>10, <1>11,
     <1>12, <1>13, <1>14, <1>15, <1>16, <1>17, <1>18, <1>19, <1>20
     DEF Next, WorkerStep, CallerStep

(* However many threads use the service, stop it and start it: its worker  *)
(* is joined once, but where a stop took the answer to another thread's    *)
(* directive, which that thread waits for.                                 *)
LEMMA TallyJoins ==
    ASSUME IsFiniteSet(Caller), Calls, Status, Tally
    PROVE  JoinedOnce
<1>0. /\ IsFiniteSet(Joining) /\ Cardinality(Joining) \in Nat
      /\ IsFiniteSet(Waiting) /\ Cardinality(Waiting) \in Nat
  BY FS_Subset, FS_CardinalityType DEF Joining, Waiting
<1>1. ASSUME Cardinality(Waiting) # 0
      PROVE  \E e \in Caller : caller[e] # "out" /\ e \notin Joining
  <2>1. PICK e \in Waiting : TRUE
    BY <1>0, <1>1, FS_EmptySet
  <2> QED
    BY <2>1 DEF Waiting, Joining, Calls
<1>2. ASSUME NEW c \in Joining, NEW d \in Joining, c # d
      PROVE  \E e \in Caller \ {c, d} : caller[e] # "out"
  <2>1. /\ IsFiniteSet(Joining \ {c}) /\ Cardinality(Joining \ {c}) = Cardinality(Joining) - 1
    BY <1>0, FS_RemoveElement
  <2>2. Cardinality(Joining \ {c}) # 0 /\ Cardinality(Joining \ {c}) \in Nat
    BY <1>2, <2>1, FS_EmptySet, FS_CardinalityType
  <2>3. Cardinality(Waiting) # 0
    BY <1>0, <2>1, <2>2 DEF Tally, One
  <2> QED
    BY <1>1, <2>3
<1>3. ASSUME m_service_status = "Aborted", NEW c \in Joining
      PROVE  \E e \in Caller \ {c} : caller[e] # "out"
  <2>1. Cardinality(Joining) # 0
    BY <1>0, <1>3, FS_EmptySet
  <2>2. Cardinality(Waiting) # 0
    BY <1>0, <1>3, <2>1 DEF Tally, One
  <2> QED
    BY <1>1, <2>2
<1> QED
  BY <1>2, <1>3 DEF JoinedOnce

THEOREM JoinCorrect == IsFiniteSet(Caller) => (Spec => []JoinedOnce)
<1> SUFFICES ASSUME IsFiniteSet(Caller) PROVE Spec => []JoinedOnce
  OBVIOUS
<1>1. M!Owned /\ Handling /\ Calls /\ Status /\ Tally /\ [Next]_vars => Tally'
  BY NextTally
<1>2. Calls /\ Status /\ Tally => JoinedOnce
  BY TallyJoins
<1> QED
  BY Invariant, InitTally, <1>1, <1>2, PTL DEF Spec
=============================================================================
