--------------------------- MODULE ServiceControl ---------------------------
(***************************************************************************)
(* asock_service.c: the life of a service.  API calls (create, start,      *)
(* stop, create_asock, destroy) read m_service_status without a lock and   *)
(* send directives; the worker runs asock_service_thread_loop.  Directive  *)
(* supplies the mailbox; what the worker does for the connections between  *)
(* directives is in ServiceLoop.                                           *)
(***************************************************************************)
EXTENDS Naturals

CONSTANTS
    Caller,             \* the threads that use the service
    Creator,            \* the one that creates and destroys it
    None, UNDEFINED, SUCCESS, FAILURE, BADSTATE

ServiceDirective == {"Start", "Stop", "CreateAsock"}
ReturnCode == {SUCCESS, FAILURE, BADSTATE}

(* What asock_service_thread_loop may answer to each directive.            *)
ServiceAnswers(t) ==
    CASE t = "Start"       -> {SUCCESS, BADSTATE}
      [] t = "Stop"        -> {SUCCESS}
      [] t = "CreateAsock" -> {SUCCESS, FAILURE}
      [] OTHER             -> {}

ASSUME ServiceControlAssumption ==
    /\ Creator \in Caller
    /\ None \notin ServiceDirective \union Caller
    /\ UNDEFINED \notin ReturnCode
    /\ SUCCESS \notin {FAILURE, BADSTATE} /\ FAILURE # BADSTATE

VARIABLES
    m_direct_type, m_direct_result, m_arg, caller, asked, worker, taken,
    m_service_status,   \* written by the worker and by stop, never locked
    loop,               \* where the worker is in asock_service_thread_loop
    code,               \* the result the worker is about to set
    call,               \* the API call each thread is in
    result,             \* its variable "result", where m_arg4 points
    freed               \* free(service) was called

mailbox == <<m_direct_type, m_direct_result, m_arg, caller, asked, worker, taken>>
vars == <<mailbox, m_service_status, loop, code, call, result, freed>>

D == INSTANCE Directive WITH
        Type <- ServiceDirective, Result <- ReturnCode, Answers <- ServiceAnswers

Init ==
    /\ D!Init
    /\ m_service_status = "Init"
    /\ loop = "started"
    /\ code = SUCCESS
    /\ call = [c \in Caller |-> IF c = Creator THEN "create" ELSE "none"]
    /\ result = [c \in Caller |-> "NULL"]
    /\ freed = FALSE

-----------------------------------------------------------------------------
(* The worker: asock_service_thread_loop                                   *)

EnterConfiguration ==
    /\ loop = "started"
    /\ m_service_status' = "Configuration"
    /\ loop' = "config"
    /\ UNCHANGED <<mailbox, code, call, result, freed>>

WaitInConfiguration ==
    /\ loop = "config"
    /\ D!WaitForDirective \/ (worker = "ready" /\ D!GetDirectiveType)
    /\ UNCHANGED <<m_service_status, loop, code, call, result, freed>>

(* The status changes before the answer is set.  The case DirectStop of    *)
(* this loop is dead code (see ConfigurationNeverStopped).                 *)
Start(status, answer) ==
    /\ loop = "config" /\ worker = "busy" /\ taken = "Start"
    /\ m_service_status' = status
    /\ loop' = "starting"
    /\ code' = answer
    /\ UNCHANGED <<mailbox, call, result, freed>>

(* For the mutants of the model: the status is forgotten.                  *)
StartWithoutStatus == Start(m_service_status, SUCCESS)

HandleInConfiguration == Start("Running", SUCCESS)

(* asock_service_process_create_asock_directive stores through m_arg4, the *)
(* variable of the caller whose arguments are in the mailbox by now; those *)
(* of the other directives are NULL.                                       *)
Creating ==
    loop \in {"config", "main"} /\ worker = "busy" /\ taken = "CreateAsock"

CreateWith(ok, failed) ==
    /\ Creating
    /\ asked[m_arg] = "CreateAsock"
    /\ \E made \in {"asock", "NULL"} :
        /\ result' = [result EXCEPT ![m_arg] = made]
        /\ code' = IF made = "NULL" THEN failed ELSE ok
    /\ loop' = IF loop = "config" THEN "config_answer" ELSE "main_answer"
    /\ UNCHANGED <<mailbox, m_service_status, call, freed>>

(* For the mutants of the model: the outcome is not looked at.             *)
CreateUnchecked == CreateWith(SUCCESS, SUCCESS)

ProcessCreateAsock == CreateWith(SUCCESS, FAILURE)

DereferenceNull ==
    /\ Creating
    /\ asked[m_arg] # "CreateAsock"
    /\ loop' = "crashed"
    /\ UNCHANGED <<mailbox, m_service_status, code, call, result, freed>>

PollInMainLoop ==
    /\ loop = "main" /\ worker = "idle"
    /\ D!GetDirectiveType
    /\ UNCHANGED <<m_service_status, loop, code, call, result, freed>>

HandleInMainLoop ==
    /\ loop = "main" /\ worker = "busy"
    /\ \/ taken = "Start" /\ code' = BADSTATE /\ loop' = "main_answer"
       \/ taken = "Stop" /\ code' = SUCCESS /\ loop' = "stopping"
    /\ UNCHANGED <<mailbox, m_service_status, call, result, freed>>

(* After this call the loop goes on; a stopped worker touches the service  *)
(* no more.                                                                *)
Answer ==
    /\ loop \in {"starting", "stopping", "config_answer", "main_answer"}
    /\ D!SetDirectiveResult(code)
    /\ loop' = CASE loop = "stopping"      -> "exited"
                 [] loop = "config_answer" -> "config"
                 [] OTHER                  -> "main"
    /\ UNCHANGED <<m_service_status, code, call, result, freed>>

WorkerStep ==
    \/ EnterConfiguration
    \/ WaitInConfiguration
    \/ HandleInConfiguration
    \/ ProcessCreateAsock
    \/ DereferenceNull
    \/ PollInMainLoop
    \/ HandleInMainLoop
    \/ Answer

-----------------------------------------------------------------------------
(* The API calls                                                           *)

Finish(c) == call' = [call EXCEPT ![c] = "none"]

(* asock_service_create_ns polls the status once a second. *)
CreateReturns(c) ==
    /\ call[c] = "create"
    /\ m_service_status # "Init"
    /\ Finish(c)
    /\ UNCHANGED <<mailbox, m_service_status, loop, code, result, freed>>

(* A thread outside the API; nobody uses a service that another thread is  *)
(* creating or destroying.                                                 *)
Available(c) ==
    /\ call[c] = "none"
    /\ call[Creator] \notin {"create", "destroy", "destroy_sent", "destroy_join", "free"}
    /\ ~freed

Begin(c, op) ==
    /\ call' = [call EXCEPT ![c] = op]
    /\ UNCHANGED <<mailbox, m_service_status, loop, code, freed>>

BeginStart(c) ==
    /\ Available(c)
    /\ m_service_status # "Running"
    /\ Begin(c, "start") /\ UNCHANGED result

BeginStop(c) ==
    /\ Available(c)
    /\ m_service_status = "Running"
    /\ Begin(c, "stop") /\ UNCHANGED result

BeginCreateAsock(c) ==
    /\ Available(c)
    /\ m_service_status \notin {"Aborted", "Init"}
    /\ Begin(c, "create_asock")
    /\ result' = [result EXCEPT ![c] = "NULL"]

(* For the mutants of the model: a running service is not stopped.         *)
BeginDestroyRunning(c) ==
    /\ c = Creator
    /\ \A d \in Caller : Available(d)
    /\ Begin(c, "free") /\ UNCHANGED result

(* The service is destroyed when no other call is in progress. *)
BeginDestroy(c) ==
    /\ c = Creator
    /\ \A d \in Caller : Available(d)
    /\ Begin(c, IF m_service_status = "Running" THEN "destroy" ELSE "free")
    /\ UNCHANGED result

DirectiveOf(op) ==
    CASE op = "start"               -> "Start"
      [] op = "create_asock"        -> "CreateAsock"
      [] op \in {"stop", "destroy"} -> "Stop"

Send(c) ==
    /\ call[c] \in {"start", "stop", "create_asock", "destroy"}
    /\ D!SendDirective(c, DirectiveOf(call[c]))
    /\ call' = [call EXCEPT ![c] =
                    CASE call[c] = "stop"    -> "stop_sent"
                      [] call[c] = "destroy" -> "destroy_sent"
                      [] OTHER               -> "sent"]
    /\ UNCHANGED <<m_service_status, loop, code, result, freed>>

(* For the mutants of the model: a woken caller does not look for a result.*)
ReturnUnanswered(c) ==
    /\ caller[c] = "woken" /\ m_direct_result = UNDEFINED
    /\ caller' = [caller EXCEPT ![c] = "out"]
    /\ Finish(c)
    /\ UNCHANGED <<m_direct_type, m_direct_result, m_arg, asked, worker, taken,
                   m_service_status, loop, code, result, freed>>

KeepWaiting(c) ==
    /\ D!KeepWaiting(c)
    /\ UNCHANGED <<m_service_status, loop, code, call, result, freed>>

Return(c) ==
    /\ D!ReturnResult(c)
    /\ call' = [call EXCEPT ![c] =
                    CASE call[c] = "stop_sent"    -> "join"
                      [] call[c] = "destroy_sent" -> "destroy_join"
                      [] OTHER                    -> "none"]
    /\ UNCHANGED <<m_service_status, loop, code, result, freed>>

(* pthread_join, then the status. *)
Join(c) ==
    /\ call[c] \in {"join", "destroy_join"}
    /\ loop = "exited"
    /\ m_service_status' = "Aborted"
    /\ call' = [call EXCEPT ![c] = IF call[c] = "join" THEN "none" ELSE "free"]
    /\ UNCHANGED <<mailbox, loop, code, result, freed>>

Free(c) ==
    /\ call[c] = "free"
    /\ freed' = TRUE
    /\ Finish(c)
    /\ UNCHANGED <<mailbox, m_service_status, loop, code, result>>

Wakes ==
    /\ D!WorkerWakes \/ \E c \in Caller : D!CallerWakes(c)
    /\ UNCHANGED <<m_service_status, loop, code, call, result, freed>>

CallerStep(c) ==
    CreateReturns(c) \/ Send(c) \/ KeepWaiting(c) \/ Return(c) \/ Join(c) \/ Free(c)

(* Until the process dies or the worker waits on memory that was freed.    *)
Alive == loop # "crashed" /\ (freed => loop = "exited")

Next ==
    /\ Alive
    /\ \/ WorkerStep
       \/ \E c \in Caller :
            \/ CallerStep(c)
            \/ BeginStart(c) \/ BeginStop(c) \/ BeginCreateAsock(c) \/ BeginDestroy(c)
       \/ Wakes

Spec == Init /\ [][Next]_vars

(* The worker and every thread inside a call are scheduled. *)
Fairness == WF_vars(WorkerStep) /\ \A c \in Caller : WF_vars(CallerStep(c))

FairSpec == Spec /\ Fairness
-----------------------------------------------------------------------------
TypeOK ==
    /\ D!TypeOK
    /\ m_service_status \in {"Init", "Configuration", "Running", "Aborted"}
    /\ loop \in {"started", "config", "config_answer", "starting", "main",
                 "main_answer", "stopping", "exited", "crashed"}
    /\ code \in ReturnCode
    /\ call \in [Caller -> {"none", "create", "start", "stop", "create_asock",
                            "destroy", "sent", "stop_sent", "destroy_sent",
                            "join", "destroy_join", "free"}]
    /\ result \in [Caller -> {"asock", "NULL"}]
    /\ freed \in BOOLEAN

(* The arguments the worker reads are those of a CreateAsock directive     *)
(* (asock_service.c:374), unless two threads are inside their calls.       *)
NeverCrashes ==
    loop = "crashed" => \E c, d \in Caller : c # d /\ caller[c] # "out" /\ caller[d] # "out"

(* pthread_join is called for the worker once (asock_service.c:265): no    *)
(* two threads are at it, nor one when another has already joined; unless  *)
(* a stop took the answer to a third thread's directive, which then waits. *)
Joining == {c \in Caller : call[c] \in {"join", "destroy_join"}}
JoinedOnce ==
    /\ \A c, d \in Joining :
        c = d \/ \E e \in Caller \ {c, d} : caller[e] # "out"
    /\ m_service_status = "Aborted" =>
        \A c \in Joining : \E e \in Caller \ {c} : caller[e] # "out"

(* stop is only sent to a service that was seen running, and such a        *)
(* service never waits for directives in its configuration loop again: the *)
(* case DirectStop at asock_service.c:404 is not reached, by any threads.  *)
ConfigurationNeverStopped ==
    loop = "config" => m_direct_type # "Stop" /\ (worker = "busy" => taken # "Stop")

(* The unlocked status tells the truth about the worker, at every step of  *)
(* either: asock_service_is_running says whether it left the configuration *)
(* loop, Aborted that it will not look at the service again; and what stop *)
(* read there still holds when its directive is served.                    *)
StatusTruthful ==
    /\ m_service_status = "Running"
            => loop \in {"starting", "main", "main_answer", "stopping", "exited",
                        "crashed"}
    /\ loop \in {"starting", "main", "main_answer", "stopping"}
            => m_service_status = "Running"
    /\ m_service_status = "Aborted" => loop = "exited"
    /\ ConfigurationNeverStopped

(* A service that was started is freed when the worker is past its last    *)
(* use of it, the unlock in asock_set_directive_result (asock_service.c:   *)
(* 525); one that was not is freed under the waiting worker.               *)
FreedAfterExit == freed => loop = "exited" \/ m_service_status = "Configuration"

(* What a call returns is what was done, if no other thread is inside one  *)
(* by then, whatever the threads did before: create_asock gets an asock    *)
(* exactly with SUCCESS, so that the "Unexpected situation" of             *)
(* asock_service.c:360 does not arise, and start a running service.        *)
SuccessIsReal ==
    \A c \in Caller :
        /\ call[c] = "sent" /\ caller[c] = "woken" /\ m_direct_result # UNDEFINED
        /\ D!Alone(c)
        => /\ asked[c] = "CreateAsock" =>
                (m_direct_result = SUCCESS <=> result[c] = "asock")
           /\ asked[c] = "Start" /\ m_direct_result = SUCCESS =>
                m_service_status = "Running"

(* An API call to a worker that has not exited returns, unless another one *)
(* comes in; what earlier calls left behind does not block it.             *)
Alone(c) == \A d \in Caller \ {c} : call[d] = "none"
Heard(c) ==
    /\ caller[c] # "out" => m_direct_type # None \/ m_direct_result # UNDEFINED
    /\ loop = "exited" => call[c] \in {"join", "destroy_join", "free"}
OneCall(c) == call[c] # "none" /\ Alone(c)
CallsReturn == (\E c \in Caller : OneCall(c) /\ Heard(c)) ~> ~\E c \in Caller : OneCall(c)

(* The service uses its mailbox as Directive specifies. *)
ImplementsDirective == D!Spec
=============================================================================
