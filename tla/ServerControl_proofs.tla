------------------------ MODULE ServerControl_proofs -------------------------
(***************************************************************************)
(* For any number of threads: a server uses its mailbox as Directive       *)
(* specifies, so that what is proved of the mailbox holds in it; from      *)
(* that, what its status, its worker and its calls' results say.           *)
(***************************************************************************)
EXTENDS ServerControl, TLAPS

M == INSTANCE Directive_proofs WITH
        Type <- ServerDirective, Result <- ReturnCode, Answers <- ServerAnswers

LEMMA MailboxAssumption == M!DirectiveAssumption
BY ServerControlAssumption
   DEF M!DirectiveAssumption, ServerDirective, ReturnCode, ServerAnswers

(* The same module, by its two names here. *)
LEMMA SameMailbox ==
    /\ D!Init => M!Init
    /\ [D!Next]_(D!vars) => [M!Next]_(M!vars)
BY DEF D!Init, M!Init, D!Next, M!Next, D!vars, M!vars, D!mailbox, M!mailbox,
       D!CallerStep, M!CallerStep, D!WorkerStep, M!WorkerStep,
       D!SendDirective, M!SendDirective, D!Post, M!Post,
       D!SignalWorker, M!SignalWorker, D!KeepWaiting, M!KeepWaiting,
       D!ReturnResult, M!ReturnResult, D!TakeResult, M!TakeResult,
       D!CallerWakes, M!CallerWakes, D!WorkerWakes, M!WorkerWakes,
       D!WaitForDirective, M!WaitForDirective,
       D!GetDirectiveType, M!GetDirectiveType,
       D!SetDirectiveResult, M!SetDirectiveResult, D!SetWith, M!SetWith,
       D!SignalResult, M!SignalResult

-----------------------------------------------------------------------------
(* Where the worker is about to answer, it has the directive that it       *)
(* answers in hand, and the answer is one to it.                           *)
Handling ==
    /\ loop \in {"listened", "listen_failed"} => worker = "busy" /\ taken = "Start"
    /\ loop = "starting" => worker = "busy" /\ taken = "Start" /\ code = SUCCESS
    /\ loop = "failing" => worker = "busy" /\ taken = "Start" /\ code = FAILURE
    /\ loop = "stopping" => worker = "busy" /\ taken = "Stop" /\ code = SUCCESS
    /\ loop = "config_answer" =>
        worker = "busy" /\ taken = "Bind" /\ code \in {SUCCESS, FAILURE}
    /\ loop = "main_answer" =>
        worker = "busy" /\ taken \in {"Start", "Bind"} /\ code = BADSTATE

LEMMA InitHandling == Init => Handling
BY DEF Init, Handling

LEMMA NextHandling == Handling /\ [Next]_vars => Handling'
<1> SUFFICES ASSUME Handling, [Next]_vars PROVE Handling'
  OBVIOUS
<1> USE DEF Handling, mailbox, D!mailbox, server
<1>1. CASE Setup
  BY <1>1
     DEF Setup, SetupWith
<1>2. CASE WaitInConfiguration
  BY <1>2
     DEF WaitInConfiguration, D!WaitForDirective, D!GetDirectiveType
<1>3. CASE ProcessBind
  BY <1>3
     DEF ProcessBind, BindWith, Binding
<1>4. CASE DereferenceNull
  BY <1>4
     DEF DereferenceNull, Binding
<1>5. CASE StartServer
  BY <1>5
     DEF StartServer, StartWith
<1>6. CASE PollInMainLoop
  BY <1>6
     DEF PollInMainLoop, D!GetDirectiveType
<1>7. CASE HandleInMainLoop
  BY <1>7
     DEF HandleInMainLoop
<1>8. CASE Answer
  BY <1>8
     DEF Answer, D!SetDirectiveResult, D!SetWith, D!SignalResult
<1>9. ASSUME NEW c \in Caller, CreateReturns(c) PROVE Handling'
  BY <1>9
     DEF CreateReturns, Finish
<1>10. ASSUME NEW c \in Caller, Send(c) PROVE Handling'
  BY <1>10
     DEF Send, D!SendDirective, D!Post, D!SignalWorker, DirectiveOf
<1>11. ASSUME NEW c \in Caller, KeepWaiting(c) PROVE Handling'
  BY <1>11
     DEF KeepWaiting, D!KeepWaiting
<1>12. ASSUME NEW c \in Caller, Return(c) PROVE Handling'
  BY <1>12
     DEF Return, D!ReturnResult, D!TakeResult
<1>13. ASSUME NEW c \in Caller, Join(c) PROVE Handling'
  BY <1>13
     DEF Join
<1>14. ASSUME NEW c \in Caller, Free(c) PROVE Handling'
  BY <1>14
     DEF Free, Finish
<1>15. ASSUME NEW c \in Caller, BeginConfigure(c, "bind") PROVE Handling'
  BY <1>15
     DEF BeginConfigure, Begin, Available
<1>16. ASSUME NEW c \in Caller, BeginConfigure(c, "listen") PROVE Handling'
  BY <1>16
     DEF BeginConfigure, Begin, Available
<1>17. ASSUME NEW c \in Caller, BeginStop(c) PROVE Handling'
  BY <1>17
     DEF BeginStop, Begin, Available
<1>18. ASSUME NEW c \in Caller, BeginDestroy(c) PROVE Handling'
  BY <1>18
     DEF BeginDestroy, Begin, Available
<1>19. CASE Wakes
  BY <1>19
     DEF Wakes, D!WorkerWakes, D!CallerWakes
<1>20. CASE UNCHANGED vars
  BY <1>20
     DEF vars
<1>21. CASE PublishStatus
  BY <1>21
     DEF PublishStatus
<1> QED
  BY <1>1, <1>2, <1>3, <1>4, <1>5, <1>6, <1>7, <1>8, <1>9, <1>10, <1>11,
     <1>12, <1>13, <1>14, <1>15, <1>16, <1>17, <1>18, <1>19, <1>20, <1>21
     DEF Next, WorkerStep, CallerStep

LEMMA StepImplements == Handling /\ [Next]_vars => [D!Next]_(D!vars)
<1> SUFFICES ASSUME Handling, [Next]_vars PROVE [D!Next]_(D!vars)
  OBVIOUS
<1> USE DEF D!vars, D!mailbox, mailbox
<1>1. CASE WaitInConfiguration
  BY <1>1 DEF WaitInConfiguration, D!Next, D!WorkerStep
<1>2. CASE PollInMainLoop
  BY <1>2 DEF PollInMainLoop, D!Next, D!WorkerStep
<1>3. CASE Answer
  <2>1. taken \in ServerDirective /\ code \in ServerAnswers(taken)
    BY <1>3 DEF Answer, Handling, ServerDirective, ServerAnswers, ReturnCode
  <2> QED
    BY <1>3, <2>1 DEF Answer, D!Next, D!WorkerStep
<1>4. ASSUME NEW c \in Caller, Send(c) PROVE D!Next
  <2>1. DirectiveOf(call[c]) \in ServerDirective
    BY <1>4 DEF Send, DirectiveOf, ServerDirective
  <2> QED
    BY <1>4, <2>1 DEF Send, D!Next
<1>5. ASSUME NEW c \in Caller, KeepWaiting(c) PROVE D!Next
  BY <1>5 DEF KeepWaiting, D!Next, D!CallerStep
<1>6. ASSUME NEW c \in Caller, Return(c) PROVE D!Next
  BY <1>6 DEF Return, D!Next, D!CallerStep
<1>7. CASE Wakes
  BY <1>7 DEF Wakes, D!Next
<1>8. CASE \/ Setup \/ ProcessBind \/ DereferenceNull
            \/ StartServer \/ PublishStatus \/ HandleInMainLoop
  BY <1>8 DEF Setup, SetupWith, ProcessBind, BindWith, DereferenceNull, StartServer,
              StartWith, PublishStatus, HandleInMainLoop
<1>9. ASSUME NEW c \in Caller, CreateReturns(c) \/ Join(c) \/ Free(c)
      PROVE  UNCHANGED D!vars
  BY <1>9 DEF CreateReturns, Join, Free
<1>10. ASSUME NEW c \in Caller,
              \/ BeginConfigure(c, "bind") \/ BeginConfigure(c, "listen")
              \/ BeginStop(c) \/ BeginDestroy(c)
       PROVE  UNCHANGED D!vars
  BY <1>10 DEF BeginConfigure, BeginStop, BeginDestroy, Begin
<1>11. CASE UNCHANGED vars
  BY <1>11 DEF vars
<1> QED
  BY <1>1, <1>2, <1>3, <1>4, <1>5, <1>6, <1>7, <1>8, <1>9, <1>10, <1>11
     DEF Next, WorkerStep, CallerStep

(* Whatever the threads call and when: the calls of a server and its       *)
(* worker use the mailbox as asock_directive.c means it to be used.        *)
THEOREM DirectiveImplemented == Spec => ImplementsDirective
<1>1. Init => D!Init
  BY DEF Init
<1> QED
  BY <1>1, InitHandling, NextHandling, StepImplements, PTL
     DEF Spec, ImplementsDirective, D!Spec

(* So what Directive_proofs says of every mailbox holds in this one. *)
LEMMA OwnedHolds == Spec => []M!Owned
<1>1. Init => M!Owned
  BY SameMailbox, MailboxAssumption, M!InitOwned DEF Init
<1>2. M!Owned /\ Handling /\ [Next]_vars => M!Owned'
  BY StepImplements, SameMailbox, MailboxAssumption, M!NextOwned
<1> QED
  BY <1>1, <1>2, InitHandling, NextHandling, PTL DEF Spec

-----------------------------------------------------------------------------
(* A thread is inside asock_send_directive exactly where its call sent a   *)
(* directive; only the creator creates and destroys, and when it does,     *)
(* nobody else is in a call.                                               *)
CallState == {"none", "create", "bind", "listen", "stop", "destroy", "sent",
              "stop_sent", "destroy_sent", "join", "destroy_join", "free"}

Calls ==
    /\ call \in [Caller -> CallState]
    /\ \A c \in Caller :
        /\ caller[c] # "out" <=> call[c] \in {"sent", "stop_sent", "destroy_sent"}
        /\ call[c] \in {"create", "destroy", "destroy_sent", "destroy_join", "free"}
                => c = Creator /\ \A d \in Caller \ {c} : call[d] = "none"
    /\ freed => \A c \in Caller : call[c] = "none"

LEMMA InitCalls == Init => Calls
BY ServerControlAssumption DEF Init, D!Init, Calls, CallState

LEMMA NextCalls == M!Owned /\ Calls /\ [Next]_vars => Calls'
<1> SUFFICES ASSUME M!Owned, Calls, [Next]_vars PROVE Calls'
  OBVIOUS
<1>0. caller \in [Caller -> {"out", "waiting", "woken"}]
  BY DEF M!Owned, M!Mailbox, M!TypeOK
<1> USE ServerControlAssumption DEF Calls, CallState, mailbox, D!mailbox, server
<1>1. CASE Setup
  BY <1>0, <1>1
     DEF Setup, SetupWith
<1>2. CASE WaitInConfiguration
  BY <1>0, <1>2
     DEF WaitInConfiguration, D!WaitForDirective, D!GetDirectiveType
<1>3. CASE ProcessBind
  BY <1>0, <1>3
     DEF ProcessBind, BindWith, Binding
<1>4. CASE DereferenceNull
  BY <1>0, <1>4
     DEF DereferenceNull, Binding
<1>5. CASE StartServer
  BY <1>0, <1>5
     DEF StartServer, StartWith
<1>6. CASE PollInMainLoop
  BY <1>0, <1>6
     DEF PollInMainLoop, D!GetDirectiveType
<1>7. CASE HandleInMainLoop
  BY <1>0, <1>7
     DEF HandleInMainLoop
<1>8. CASE Answer
  BY <1>0, <1>8
     DEF Answer, D!SetDirectiveResult, D!SetWith, D!SignalResult
<1>9. ASSUME NEW c \in Caller, CreateReturns(c) PROVE Calls'
  BY <1>0, <1>9
     DEF CreateReturns, Finish
<1>10. ASSUME NEW c \in Caller, Send(c) PROVE Calls'
  BY <1>0, <1>10
     DEF Send, D!SendDirective, D!Post, D!SignalWorker, DirectiveOf
<1>11. ASSUME NEW c \in Caller, KeepWaiting(c) PROVE Calls'
  BY <1>0, <1>11
     DEF KeepWaiting, D!KeepWaiting
<1>12. ASSUME NEW c \in Caller, Return(c) PROVE Calls'
  BY <1>0, <1>12
     DEF Return, D!ReturnResult, D!TakeResult
<1>13. ASSUME NEW c \in Caller, Join(c) PROVE Calls'
  BY <1>0, <1>13
     DEF Join
<1>14. ASSUME NEW c \in Caller, Free(c) PROVE Calls'
  BY <1>0, <1>14
     DEF Free, Finish
<1>15. ASSUME NEW c \in Caller, BeginConfigure(c, "bind") PROVE Calls'
  BY <1>0, <1>15
     DEF BeginConfigure, Begin, Available
<1>16. ASSUME NEW c \in Caller, BeginConfigure(c, "listen") PROVE Calls'
  BY <1>0, <1>16
     DEF BeginConfigure, Begin, Available
<1>17. ASSUME NEW c \in Caller, BeginStop(c) PROVE Calls'
  BY <1>0, <1>17
     DEF BeginStop, Begin, Available
<1>18. ASSUME NEW c \in Caller, BeginDestroy(c) PROVE Calls'
  BY <1>0, <1>18
     DEF BeginDestroy, Begin, Available
<1>19. CASE Wakes
  BY <1>0, <1>19
     DEF Wakes, D!WorkerWakes, D!CallerWakes
<1>20. CASE UNCHANGED vars
  BY <1>0, <1>20
     DEF vars
<1>21. CASE PublishStatus
  BY <1>0, <1>21
     DEF PublishStatus
<1> QED
  BY <1>1, <1>2, <1>3, <1>4, <1>5, <1>6, <1>7, <1>8, <1>9, <1>10, <1>11,
     <1>12, <1>13, <1>14, <1>15, <1>16, <1>17, <1>18, <1>19, <1>20, <1>21
     DEF Next, WorkerStep, CallerStep

-----------------------------------------------------------------------------
(* The status and the socket at each place of the worker's loop; before    *)
(* the server listens nobody is about to stop it.                          *)
Status ==
    /\ m_server_status \in {"Init", "Configuration", "Running", "Aborted"}
    /\ loop \in {"started", "config", "config_answer", "listened", "listen_failed",
                "crashed"}
        => m_server_status \in {"Init", "Configuration"}
    /\ loop = "listened" => m_server_socket = "listening"
    /\ loop \in {"starting", "main", "main_answer"}
        => m_server_status = "Running" /\ m_server_socket = "listening"
    /\ loop = "stopping" => m_server_status = "Running" /\ m_server_socket = "closed"
    /\ loop = "failing" => m_server_status = "Aborted"
    /\ loop = "exited" =>
        \/ m_server_status = "Aborted"
        \/ m_server_status = "Running" /\ m_server_socket = "closed"
    /\ loop \in {"started", "config", "config_answer", "listened", "listen_failed",
                "starting", "main", "main_answer", "stopping", "failing", "exited",
                "crashed"}
    /\ m_server_status \in {"Init", "Configuration"} =>
        /\ m_direct_type # "Stop" /\ (worker = "busy" => taken # "Stop")
        /\ \A c \in Caller : call[c] \notin {"stop", "stop_sent", "destroy",
                                          "destroy_sent", "join", "destroy_join"}
    /\ m_server_status = "Init" => call[Creator] = "create"
    /\ loop = "started" => m_server_status = "Init"

LEMMA InitStatus == Init => Status
BY ServerControlAssumption DEF Init, D!Init, Status, ServerDirective

LEMMA NextStatus == Calls /\ Status /\ [Next]_vars => Status'
<1> SUFFICES ASSUME Calls, Status, [Next]_vars PROVE Status'
  OBVIOUS
<1>0. call \in [Caller -> CallState] /\ None # "Stop"
  BY ServerControlAssumption DEF Calls, ServerDirective
<1> USE ServerControlAssumption DEF Status, mailbox, D!mailbox, server
<1>1. CASE Setup
  BY <1>0, <1>1
     DEF Setup, SetupWith
<1>2. CASE WaitInConfiguration
  BY <1>0, <1>2
     DEF WaitInConfiguration, D!WaitForDirective, D!GetDirectiveType
<1>3. CASE ProcessBind
  BY <1>0, <1>3
     DEF ProcessBind, BindWith, Binding
<1>4. CASE DereferenceNull
  BY <1>0, <1>4
     DEF DereferenceNull, Binding
<1>5. CASE StartServer
  BY <1>0, <1>5
     DEF StartServer, StartWith
<1>6. CASE PollInMainLoop
  BY <1>0, <1>6
     DEF PollInMainLoop, D!GetDirectiveType
<1>7. CASE HandleInMainLoop
  BY <1>0, <1>7
     DEF HandleInMainLoop
<1>8. CASE Answer
  BY <1>0, <1>8
     DEF Answer, D!SetDirectiveResult, D!SetWith, D!SignalResult
<1>9. ASSUME NEW c \in Caller, CreateReturns(c) PROVE Status'
  BY <1>0, <1>9
     DEF CreateReturns, Finish
<1>10. ASSUME NEW c \in Caller, Send(c) PROVE Status'
  BY <1>0, <1>10
     DEF Send, D!SendDirective, D!Post, D!SignalWorker, DirectiveOf
<1>11. ASSUME NEW c \in Caller, KeepWaiting(c) PROVE Status'
  BY <1>0, <1>11
     DEF KeepWaiting, D!KeepWaiting
<1>12. ASSUME NEW c \in Caller, Return(c) PROVE Status'
  <2>1. call[c] \in {"sent", "stop_sent", "destroy_sent"}
    BY <1>12 DEF Return, D!ReturnResult, D!TakeResult, Calls
  <2>2. /\ call' \in [Caller -> CallState]
        /\ \A d \in Caller \ {c} : call'[d] = call[d]
        /\ call'[c] \in {"join", "destroy_join", "none"}
        /\ call[c] = "sent" => call'[c] = "none"
    BY <1>0, <1>12, <2>1 DEF Return, CallState
  <2> QED
    BY <1>0, <1>12, <2>1, <2>2 DEF Return, D!ReturnResult, D!TakeResult
<1>13. ASSUME NEW c \in Caller, Join(c) PROVE Status'
  BY <1>0, <1>13
     DEF Join
<1>14. ASSUME NEW c \in Caller, Free(c) PROVE Status'
  BY <1>0, <1>14
     DEF Free, Finish
<1>15. ASSUME NEW c \in Caller, BeginConfigure(c, "bind") PROVE Status'
  BY <1>0, <1>15
     DEF BeginConfigure, Begin, Available
<1>16. ASSUME NEW c \in Caller, BeginConfigure(c, "listen") PROVE Status'
  BY <1>0, <1>16
     DEF BeginConfigure, Begin, Available
<1>17. ASSUME NEW c \in Caller, BeginStop(c) PROVE Status'
  BY <1>0, <1>17
     DEF BeginStop, Begin, Available
<1>18. ASSUME NEW c \in Caller, BeginDestroy(c) PROVE Status'
  BY <1>0, <1>18
     DEF BeginDestroy, Begin, Available
<1>19. CASE Wakes
  BY <1>0, <1>19
     DEF Wakes, D!WorkerWakes, D!CallerWakes
<1>20. CASE UNCHANGED vars
  BY <1>0, <1>20
     DEF vars
<1>21. CASE PublishStatus
  BY <1>0, <1>21
     DEF PublishStatus
<1> QED
  BY <1>1, <1>2, <1>3, <1>4, <1>5, <1>6, <1>7, <1>8, <1>9, <1>10, <1>11,
     <1>12, <1>13, <1>14, <1>15, <1>16, <1>17, <1>18, <1>19, <1>20, <1>21
     DEF Next, WorkerStep, CallerStep

LEMMA Invariant == Spec => [](M!Owned /\ Handling /\ Calls /\ Status)
BY OwnedHolds, InitHandling, NextHandling, InitCalls, NextCalls, InitStatus,
   NextStatus, PTL DEF Spec

(* Read without a lock by any number of threads, m_server_status is        *)
(* Running only while the socket listens (or is being stopped), Aborted    *)
(* only where the worker ends.                                             *)
THEOREM RunningCorrect == Spec => []RunningIsListening
<1>1. Status => RunningIsListening
  BY DEF Status, RunningIsListening, ConfigurationNeverStopped
<1> QED
  BY Invariant, <1>1, PTL

-----------------------------------------------------------------------------
(* While the server is being freed, and after, nobody is in a call: there  *)
(* is no directive that would start its worker.                            *)
Freeing ==
    call[Creator] = "free" \/ freed => m_server_status \in {"Configuration", "Aborted"}

LEMMA InitFreeing == Init => Freeing
BY ServerControlAssumption DEF Init, Freeing

LEMMA NextFreeing ==
    M!Owned /\ Handling /\ Calls /\ Status /\ Freeing /\ [Next]_vars => Freeing'
<1> SUFFICES ASSUME M!Owned, Handling, Calls, Status, Freeing, [Next]_vars PROVE Freeing'
  OBVIOUS
<1>0. call \in [Caller -> CallState]
  BY DEF Calls
<1> USE ServerControlAssumption DEF Freeing, server
<1>1. CASE Setup
  BY <1>0, <1>1
     DEF Setup, SetupWith, Status, Calls
<1>2. CASE WaitInConfiguration
  BY <1>0, <1>2
     DEF WaitInConfiguration, D!WaitForDirective, D!GetDirectiveType
<1>3. CASE ProcessBind
  BY <1>0, <1>3
     DEF ProcessBind, BindWith, Binding
<1>4. CASE DereferenceNull
  BY <1>0, <1>4
     DEF DereferenceNull, Binding
<1>5. CASE StartServer
  BY <1>0, <1>5
     DEF StartServer, StartWith
<1>6. CASE PollInMainLoop
  BY <1>0, <1>6
     DEF PollInMainLoop, D!GetDirectiveType
<1>7. CASE HandleInMainLoop
  BY <1>0, <1>7
     DEF HandleInMainLoop
<1>8. CASE Answer
  BY <1>0, <1>8
     DEF Answer, D!SetDirectiveResult, D!SetWith, D!SignalResult
<1>9. ASSUME NEW c \in Caller, CreateReturns(c) PROVE Freeing'
  BY <1>0, <1>9
     DEF CreateReturns, Finish, Status, Calls
<1>10. ASSUME NEW c \in Caller, Send(c) PROVE Freeing'
  BY <1>0, <1>10
     DEF Send, D!SendDirective, D!Post, D!SignalWorker, DirectiveOf
<1>11. ASSUME NEW c \in Caller, KeepWaiting(c) PROVE Freeing'
  BY <1>0, <1>11
     DEF KeepWaiting, D!KeepWaiting
<1>12. ASSUME NEW c \in Caller, Return(c) PROVE Freeing'
  BY <1>0, <1>12
     DEF Return, D!ReturnResult, D!TakeResult
<1>13. ASSUME NEW c \in Caller, Join(c) PROVE Freeing'
  BY <1>0, <1>13
     DEF Join, Calls
<1>14. ASSUME NEW c \in Caller, Free(c) PROVE Freeing'
  BY <1>0, <1>14
     DEF Free, Finish, Calls
<1>15. ASSUME NEW c \in Caller, BeginConfigure(c, "bind") PROVE Freeing'
  BY <1>0, <1>15
     DEF BeginConfigure, Begin, Available
<1>16. ASSUME NEW c \in Caller, BeginConfigure(c, "listen") PROVE Freeing'
  BY <1>0, <1>16
     DEF BeginConfigure, Begin, Available
<1>17. ASSUME NEW c \in Caller, BeginStop(c) PROVE Freeing'
  BY <1>0, <1>17
     DEF BeginStop, Begin, Available
<1>18. ASSUME NEW c \in Caller, BeginDestroy(c) PROVE Freeing'
  <2>1. m_server_status # "Init" /\ ~freed
    BY <1>18 DEF BeginDestroy, Available, Status
  <2> QED
    BY <1>0, <1>18, <2>1 DEF BeginDestroy, Begin, Status
<1>19. CASE Wakes
  BY <1>0, <1>19
     DEF Wakes, D!WorkerWakes, D!CallerWakes
<1>20. CASE UNCHANGED vars
  BY <1>0, <1>20
     DEF vars
<1>21. CASE PublishStatus
  <2>1. m_arg \in Caller /\ caller[m_arg] # "out"
    BY <1>21 DEF PublishStatus, Handling, M!Owned, M!Inside
  <2>2. call[m_arg] \in {"sent", "stop_sent", "destroy_sent"} /\ ~freed
    BY <2>1 DEF Calls
  <2>3. call[Creator] # "free"
    BY <2>1, <2>2 DEF Calls
  <2> QED
    BY <1>21, <2>2, <2>3 DEF PublishStatus
<1> QED
  BY <1>1, <1>2, <1>3, <1>4, <1>5, <1>6, <1>7, <1>8, <1>9, <1>10, <1>11,
     <1>12, <1>13, <1>14, <1>15, <1>16, <1>17, <1>18, <1>19, <1>20, <1>21
     DEF Next, WorkerStep, CallerStep

(* A server is freed, by destroy or by a create that failed, when its      *)
(* worker has exited, or was never asked to listen.                        *)
THEOREM FreedCorrect == Spec => []FreedAfterExit
<1>1. ASSUME M!Owned, Handling, Calls, Status, Freeing PROVE FreedAfterExit
  <2>1. freed => loop \notin {"listen_failed", "failing"}
    BY <1>1 DEF M!Owned, M!Inside, Handling, Calls
  <2> QED
    BY <1>1, <2>1 DEF Freeing, Status, FreedAfterExit
<1>2. M!Owned /\ Handling /\ Calls /\ Status /\ Freeing => FreedAfterExit
  BY <1>1
<1> QED
  BY Invariant, InitFreeing, NextFreeing, <1>2, PTL DEF Spec

(* The worker reads the address of a bind through the arguments of another *)
(* directive only if two threads are inside their calls.                   *)
LEMMA NextNeverCrashes == M!Owned /\ NeverCrashes /\ [Next]_vars => NeverCrashes'
<1> SUFFICES ASSUME M!Owned, NeverCrashes, [Next]_vars PROVE NeverCrashes'
  OBVIOUS
<1> USE DEF NeverCrashes
<1>1. CASE UNCHANGED vars
  BY <1>1 DEF vars, mailbox, server
<1>2. ASSUME Next, loop' = "crashed" PROVE DereferenceNull
  BY <1>2 DEF Next, Alive, WorkerStep, Setup, SetupWith, WaitInConfiguration,
              ProcessBind, BindWith, StartServer, StartWith, PublishStatus, PollInMainLoop,
              HandleInMainLoop, Answer, CallerStep, CreateReturns, Send, KeepWaiting,
              Return, Join, Free, BeginConfigure, BeginStop, BeginDestroy, Begin, Wakes,
              server
<1>3. CASE DereferenceNull
  <2>1. /\ m_arg \in Caller /\ caller[m_arg] # "out" /\ asked[m_arg] # "Bind"
        /\ \E c \in Caller : caller[c] # "out" /\ asked[c] = "Bind"
    BY <1>3 DEF DereferenceNull, Binding, M!Owned, M!Inside
  <2>2. UNCHANGED caller
    BY <1>3 DEF DereferenceNull, mailbox
  <2> QED
    BY <2>1, <2>2
<1> QED
  BY <1>1, <1>2, <1>3

THEOREM CrashCorrect == Spec => []NeverCrashes
<1>1. Init => NeverCrashes
  BY DEF Init, NeverCrashes
<1> QED
  BY OwnedHolds, <1>1, NextNeverCrashes, PTL DEF Spec

-----------------------------------------------------------------------------
(* The answer the worker is about to give, or gave, is the outcome of what *)
(* some thread inside its call asked for.                                  *)
Outcome ==
    /\ loop = "config_answer" /\ code = SUCCESS => m_server_socket = "bound"
    /\ m_direct_result # UNDEFINED /\ (\E c \in Caller : caller[c] # "out") =>
        \E c \in Caller :
            /\ caller[c] # "out"
            /\ m_direct_result = SUCCESS =>
                /\ asked[c] = "Bind" => loop = "config" /\ m_server_socket = "bound"
                /\ asked[c] = "Start" => loop = "main"

LEMMA InitOutcome == Init => Outcome
BY DEF Init, D!Init, Outcome

LEMMA NextOutcome ==
    M!Owned /\ Handling /\ Calls /\ Status /\ Outcome /\ [Next]_vars => Outcome'
<1> SUFFICES ASSUME M!Owned, Handling, Calls, Status, Outcome, [Next]_vars
             PROVE  Outcome'
  OBVIOUS
<1>0. /\ caller \in [Caller -> {"out", "waiting", "woken"}]
      /\ asked \in [Caller -> ServerDirective \union {None}]
      /\ worker = "busy" =>
            /\ m_direct_result = UNDEFINED
            /\ \E c \in Caller : caller[c] # "out" /\ asked[c] = taken
  BY DEF M!Owned, M!Mailbox, M!TypeOK, M!Inside
<1> USE ServerControlAssumption DEF Outcome, mailbox, D!mailbox, server
<1>1. CASE Setup
  BY <1>0, <1>1
     DEF Setup, SetupWith
<1>2. CASE WaitInConfiguration
  BY <1>0, <1>2
     DEF WaitInConfiguration, D!WaitForDirective, D!GetDirectiveType
<1>3. CASE ProcessBind
  BY <1>0, <1>3
     DEF ProcessBind, BindWith, Binding
<1>4. CASE DereferenceNull
  BY <1>0, <1>4
     DEF DereferenceNull, Binding
<1>5. CASE StartServer
  BY <1>0, <1>5
     DEF StartServer, StartWith
<1>6. CASE PollInMainLoop
  BY <1>0, <1>6
     DEF PollInMainLoop, D!GetDirectiveType
<1>7. CASE HandleInMainLoop
  BY <1>0, <1>7
     DEF HandleInMainLoop
<1>8. CASE Answer
  BY <1>0, <1>8
     DEF Answer, D!SetDirectiveResult, D!SetWith, D!SignalResult, Handling,
         Status
<1>9. ASSUME NEW c \in Caller, CreateReturns(c) PROVE Outcome'
  BY <1>0, <1>9
     DEF CreateReturns, Finish
<1>10. ASSUME NEW c \in Caller, Send(c) PROVE Outcome'
  BY <1>0, <1>10
     DEF Send, D!SendDirective, D!Post, D!SignalWorker, DirectiveOf
<1>11. ASSUME NEW c \in Caller, KeepWaiting(c) PROVE Outcome'
  BY <1>0, <1>11
     DEF KeepWaiting, D!KeepWaiting
<1>12. ASSUME NEW c \in Caller, Return(c) PROVE Outcome'
  BY <1>0, <1>12
     DEF Return, D!ReturnResult, D!TakeResult, Handling
<1>13. ASSUME NEW c \in Caller, Join(c) PROVE Outcome'
  BY <1>0, <1>13
     DEF Join
<1>14. ASSUME NEW c \in Caller, Free(c) PROVE Outcome'
  BY <1>0, <1>14
     DEF Free, Finish
<1>15. ASSUME NEW c \in Caller, BeginConfigure(c, "bind") PROVE Outcome'
  BY <1>0, <1>15
     DEF BeginConfigure, Begin, Available
<1>16. ASSUME NEW c \in Caller, BeginConfigure(c, "listen") PROVE Outcome'
  BY <1>0, <1>16
     DEF BeginConfigure, Begin, Available
<1>17. ASSUME NEW c \in Caller, BeginStop(c) PROVE Outcome'
  BY <1>0, <1>17
     DEF BeginStop, Begin, Available
<1>18. ASSUME NEW c \in Caller, BeginDestroy(c) PROVE Outcome'
  BY <1>0, <1>18
     DEF BeginDestroy, Begin, Available
<1>19. CASE Wakes
  BY <1>0, <1>19
     DEF Wakes, D!WorkerWakes, D!CallerWakes
<1>20. CASE UNCHANGED vars
  BY <1>0, <1>20
     DEF vars
<1>21. CASE PublishStatus
  BY <1>0, <1>21
     DEF PublishStatus
<1> QED
  BY <1>1, <1>2, <1>3, <1>4, <1>5, <1>6, <1>7, <1>8, <1>9, <1>10, <1>11,
     <1>12, <1>13, <1>14, <1>15, <1>16, <1>17, <1>18, <1>19, <1>20, <1>21
     DEF Next, WorkerStep, CallerStep

(* Whatever the threads did before: a call that is alone when it returns   *)
(* SUCCESS bound the socket, or started a server whose socket listens.     *)
THEOREM SuccessCorrect == Spec => []SuccessIsReal
<1>1. Outcome /\ Status => SuccessIsReal
  BY ServerControlAssumption DEF Outcome, Status, SuccessIsReal, D!Alone, ReturnCode
<1> QED
  BY Invariant, InitOutcome, NextOutcome, <1>1, PTL DEF Spec
=============================================================================
