--------------------------- MODULE ServerControl ---------------------------
(***************************************************************************)
(* asock_server.c: the life of a server.  Unlike a service it may fail to  *)
(* come up (no socket) or to start listening, both of which end the        *)
(* worker; API calls (create, bind, listen, stop, destroy) read            *)
(* m_server_status without a lock and send directives.  Directive supplies *)
(* the mailbox; what the worker does for the connections between           *)
(* directives is in ServerLoop.                                            *)
(***************************************************************************)
EXTENDS Naturals

CONSTANTS
    Caller,             \* the threads that use the server
    Creator,            \* the one that creates and destroys it
    None, UNDEFINED, SUCCESS, FAILURE, BADSTATE

ServerDirective == {"Start", "Stop", "Bind"}
ReturnCode == {SUCCESS, FAILURE, BADSTATE}

(* What asock_server_thread_loop may answer to each directive.             *)
ServerAnswers(t) ==
    CASE t \in {"Start", "Bind"} -> ReturnCode
      [] t = "Stop"              -> {SUCCESS}
      [] OTHER                   -> {}

ASSUME ServerControlAssumption ==
    /\ Creator \in Caller
    /\ None \notin ServerDirective \union Caller
    /\ UNDEFINED \notin ReturnCode
    /\ SUCCESS \notin {FAILURE, BADSTATE} /\ FAILURE # BADSTATE

VARIABLES
    m_direct_type, m_direct_result, m_arg, caller, asked, worker, taken,
    m_server_status,    \* written by the worker and by stop, never locked
    m_server_socket,    \* what became of the descriptor
    loop,               \* where the worker is in asock_server_thread_loop
    code,               \* the result the worker is about to set
    call,               \* the API call each thread is in
    freed               \* free(server) was called

mailbox == <<m_direct_type, m_direct_result, m_arg, caller, asked, worker, taken>>
server == <<m_server_status, m_server_socket, loop, code>>
vars == <<mailbox, server, call, freed>>

D == INSTANCE Directive WITH
        Type <- ServerDirective, Result <- ReturnCode, Answers <- ServerAnswers

Init ==
    /\ D!Init
    /\ m_server_status = "Init"
    /\ m_server_socket = "none"
    /\ loop = "started"
    /\ code = SUCCESS
    /\ call = [c \in Caller |-> IF c = Creator THEN "create" ELSE "none"]
    /\ freed = FALSE

-----------------------------------------------------------------------------
(* The worker: asock_server_thread_loop                                    *)

SetupWith(failed) ==
    /\ loop = "started"
    /\ \/ /\ m_server_socket' = "open"
          /\ m_server_status' = "Configuration"
          /\ loop' = "config"
       \/ /\ m_server_status' = failed         \* socket or setsockopt failed
          /\ loop' = "exited"
          /\ UNCHANGED m_server_socket
    /\ UNCHANGED <<mailbox, code, call, freed>>

(* For the mutants of the model: a failure that create does not hear of.   *)
SetupSilently == SetupWith(m_server_status)

Setup == SetupWith("Aborted")

WaitInConfiguration ==
    /\ loop = "config"
    /\ D!WaitForDirective \/ (worker = "ready" /\ D!GetDirectiveType)
    /\ UNCHANGED <<server, call, freed>>

(* asock_server_process_bind_directive reads the address through m_arg1;   *)
(* the arguments of the other directives are NULL.                         *)
Binding == loop = "config" /\ worker = "busy" /\ taken = "Bind"

BindWith(failed) ==
    /\ Binding
    /\ asked[m_arg] = "Bind"
    /\ \/ /\ m_server_socket = "open"           \* a socket is bound once
          /\ m_server_socket' = "bound"
          /\ code' = SUCCESS
       \/ /\ code' = failed                     \* the address is in use
          /\ UNCHANGED m_server_socket
    /\ loop' = "config_answer"
    /\ UNCHANGED <<mailbox, m_server_status, call, freed>>

(* For the mutants of the model: the outcome of bind is not looked at.     *)
BindUnchecked == BindWith(SUCCESS)

ProcessBind == BindWith(FAILURE)

DereferenceNull ==
    /\ Binding
    /\ asked[m_arg] # "Bind"
    /\ loop' = "crashed"
    /\ UNCHANGED <<mailbox, m_server_status, m_server_socket, code, call, freed>>

(* asock_server_start_server listens, or fails to, ...                     *)
StartWith(status) ==
    /\ loop = "config" /\ worker = "busy" /\ taken = "Start"
    /\ \/ /\ m_server_socket' = "listening"
          /\ loop' = "listened"
       \/ /\ loop' = "listen_failed"
          /\ UNCHANGED m_server_socket
    /\ m_server_status' = status
    /\ UNCHANGED <<mailbox, code, call, freed>>

(* For the mutants of the model: the status is set before the socket       *)
(* listens.                                                                *)
StartTooSoon == StartWith("Running")

StartServer == StartWith(m_server_status)

(* ... then the status says which of it, then the answer does.             *)
PublishStatus ==
    /\ \/ /\ loop = "listened"
          /\ m_server_status' = "Running"
          /\ code' = SUCCESS
          /\ loop' = "starting"
       \/ /\ loop = "listen_failed"
          /\ m_server_status' = "Aborted"
          /\ code' = FAILURE
          /\ loop' = "failing"
    /\ UNCHANGED <<mailbox, m_server_socket, call, freed>>

PollInMainLoop ==
    /\ loop = "main" /\ worker = "idle"
    /\ D!GetDirectiveType
    /\ UNCHANGED <<server, call, freed>>

HandleInMainLoop ==
    /\ loop = "main" /\ worker = "busy"
    /\ \/ /\ taken \in {"Start", "Bind"}
          /\ code' = BADSTATE
          /\ loop' = "main_answer"
          /\ UNCHANGED m_server_socket
       \/ /\ taken = "Stop"
          /\ code' = SUCCESS
          /\ loop' = "stopping"
          /\ m_server_socket' = "closed"
    /\ UNCHANGED <<mailbox, m_server_status, call, freed>>

(* After this call the loop goes on; a stopped worker, or one that failed  *)
(* to start, touches the server no more.                                   *)
Answer ==
    /\ loop \in {"starting", "failing", "stopping", "config_answer", "main_answer"}
    /\ D!SetDirectiveResult(code)
    /\ loop' = CASE loop \in {"stopping", "failing"} -> "exited"
                 [] loop = "config_answer"           -> "config"
                 [] OTHER                            -> "main"
    /\ UNCHANGED <<m_server_status, m_server_socket, code, call, freed>>

WorkerStep ==
    \/ Setup
    \/ WaitInConfiguration
    \/ ProcessBind
    \/ DereferenceNull
    \/ StartServer
    \/ PublishStatus
    \/ PollInMainLoop
    \/ HandleInMainLoop
    \/ Answer

-----------------------------------------------------------------------------
(* The API calls                                                           *)

Finish(c) == call' = [call EXCEPT ![c] = "none"]

(* For the mutants of the model: create does not wait for the worker.      *)
CreateReturnsAtOnce(c) ==
    /\ call[c] = "create"
    /\ Finish(c)
    /\ freed' = (m_server_status # "Configuration")
    /\ UNCHANGED <<mailbox, server>>

(* asock_server_create_ns polls the status once a second, and frees the    *)
(* server of a worker that gave up.                                        *)
CreateReturns(c) ==
    /\ call[c] = "create"
    /\ m_server_status # "Init"
    /\ Finish(c)
    /\ freed' = (m_server_status = "Aborted")
    /\ UNCHANGED <<mailbox, server>>

(* A thread outside the API; nobody uses a server that another thread is   *)
(* creating or destroying.                                                 *)
Available(c) ==
    /\ call[c] = "none"
    /\ call[Creator] \notin {"create", "destroy", "destroy_sent", "destroy_join", "free"}
    /\ ~freed

Begin(c, op) ==
    /\ call' = [call EXCEPT ![c] = op]
    /\ UNCHANGED <<mailbox, server, freed>>

(* bind and listen refuse a running server only, not an aborted one. *)
BeginConfigure(c, op) ==
    /\ Available(c)
    /\ m_server_status # "Running"
    /\ Begin(c, op)

BeginStop(c) ==
    /\ Available(c)
    /\ m_server_status = "Running"
    /\ Begin(c, "stop")

(* The server is destroyed when no other call is in progress. *)
BeginDestroy(c) ==
    /\ c = Creator
    /\ \A d \in Caller : Available(d)
    /\ Begin(c, IF m_server_status = "Running" THEN "destroy" ELSE "free")

DirectiveOf(op) ==
    CASE op = "listen"            -> "Start"
      [] op = "bind"              -> "Bind"
      [] op \in {"stop", "destroy"} -> "Stop"

Send(c) ==
    /\ call[c] \in {"bind", "listen", "stop", "destroy"}
    /\ D!SendDirective(c, DirectiveOf(call[c]))
    /\ call' = [call EXCEPT ![c] =
                    CASE call[c] = "stop"    -> "stop_sent"
                      [] call[c] = "destroy" -> "destroy_sent"
                      [] OTHER               -> "sent"]
    /\ UNCHANGED <<server, freed>>

(* For the mutants of the model: a woken caller does not look for a result.*)
ReturnUnanswered(c) ==
    /\ caller[c] = "woken" /\ m_direct_result = UNDEFINED
    /\ caller' = [caller EXCEPT ![c] = "out"]
    /\ Finish(c)
    /\ UNCHANGED <<m_direct_type, m_direct_result, m_arg, asked, worker, taken,
                   server, freed>>

KeepWaiting(c) ==
    /\ D!KeepWaiting(c)
    /\ UNCHANGED <<server, call, freed>>

Return(c) ==
    /\ D!ReturnResult(c)
    /\ call' = [call EXCEPT ![c] =
                    CASE call[c] = "stop_sent"    -> "join"
                      [] call[c] = "destroy_sent" -> "destroy_join"
                      [] OTHER                    -> "none"]
    /\ UNCHANGED <<server, freed>>

(* pthread_join, then the status. *)
Join(c) ==
    /\ call[c] \in {"join", "destroy_join"}
    /\ loop = "exited"
    /\ m_server_status' = "Aborted"
    /\ call' = [call EXCEPT ![c] = IF call[c] = "join" THEN "none" ELSE "free"]
    /\ UNCHANGED <<mailbox, m_server_socket, loop, code, freed>>

Free(c) ==
    /\ call[c] = "free"
    /\ freed' = TRUE
    /\ Finish(c)
    /\ UNCHANGED <<mailbox, server>>

Wakes ==
    /\ D!WorkerWakes \/ \E c \in Caller : D!CallerWakes(c)
    /\ UNCHANGED <<server, call, freed>>

CallerStep(c) ==
    CreateReturns(c) \/ Send(c) \/ KeepWaiting(c) \/ Return(c) \/ Join(c) \/ Free(c)

(* Until the process dies or the worker waits on memory that was freed.    *)
Alive == loop # "crashed" /\ (freed => loop = "exited")

Next ==
    /\ Alive
    /\ \/ WorkerStep
       \/ \E c \in Caller :
            \/ CallerStep(c)
            \/ BeginConfigure(c, "bind") \/ BeginConfigure(c, "listen")
            \/ BeginStop(c) \/ BeginDestroy(c)
       \/ Wakes

Spec == Init /\ [][Next]_vars

(* The worker and every thread inside a call are scheduled. *)
Fairness == WF_vars(WorkerStep) /\ \A c \in Caller : WF_vars(CallerStep(c))

FairSpec == Spec /\ Fairness
-----------------------------------------------------------------------------
TypeOK ==
    /\ D!TypeOK
    /\ m_server_status \in {"Init", "Configuration", "Running", "Aborted"}
    /\ m_server_socket \in {"none", "open", "bound", "listening", "closed"}
    /\ loop \in {"started", "config", "config_answer", "listened", "listen_failed",
                 "starting", "failing", "main", "main_answer", "stopping", "exited",
                 "crashed"}
    /\ code \in ReturnCode
    /\ call \in [Caller -> {"none", "create", "bind", "listen", "stop", "destroy",
                            "sent", "stop_sent", "destroy_sent",
                            "join", "destroy_join", "free"}]
    /\ freed \in BOOLEAN

(* stop is only sent to a server that was seen running, and such a server  *)
(* never waits for directives in its configuration loop again: the case    *)
(* DirectStop at asock_server.c:574 is not reached, by any threads.        *)
ConfigurationNeverStopped ==
    loop = "config" => m_direct_type # "Stop" /\ (worker = "busy" => taken # "Stop")

(* Running is said of a listening socket only, by all that a thread that   *)
(* reads the status without a lock may see; the worker closes the socket   *)
(* between the stop directive and its answer (asock_server.c:684).  What   *)
(* stop read there still holds when its directive is served.               *)
RunningIsListening ==
    /\ m_server_status = "Running" =>
         m_server_socket \in {"listening"} \union
            (IF loop \in {"stopping", "exited"} THEN {"closed"} ELSE {})
    /\ m_server_status = "Aborted" => loop \in {"failing", "exited"}
    /\ ConfigurationNeverStopped

(* Memory is freed when the worker is past its last use of it, whether it  *)
(* came up or not (create_ns, destroy); only one that was never asked to   *)
(* listen is freed under the waiting worker.                               *)
FreedAfterExit == freed => loop = "exited" \/ m_server_status = "Configuration"

(* destroy works for such a server, too, as test_server.cpp:81-82 has it.  *)
UnusedAfterFree == freed => loop = "exited"

(* The worker reads the address of a bind through the arguments of a bind  *)
(* (asock_server.c:435), unless two threads are inside their calls.        *)
NeverCrashes ==
    loop = "crashed" => \E c, d \in Caller : c # d /\ caller[c] # "out" /\ caller[d] # "out"

(* SUCCESS means it: a call about to return it from bind has its socket    *)
(* bound, one from listen a socket that listens in a running server, if no *)
(* other thread is inside a call by then, whatever the threads did before. *)
SuccessIsReal ==
    \A c \in Caller :
        /\ call[c] = "sent" /\ caller[c] = "woken" /\ m_direct_result = SUCCESS
        /\ D!Alone(c)
        => /\ asked[c] = "Bind" => m_server_socket = "bound"
           /\ asked[c] = "Start" =>
                m_server_socket = "listening" /\ m_server_status = "Running"

(* An API call to a worker that has not exited returns, unless another one *)
(* comes in; what earlier calls left behind does not block it.             *)
Alone(c) == \A d \in Caller \ {c} : call[d] = "none"
Heard(c) ==
    /\ caller[c] # "out" => m_direct_type # None \/ m_direct_result # UNDEFINED
    /\ loop = "exited" => call[c] \in {"create", "join", "destroy_join", "free"}
OneCall(c) == call[c] # "none" /\ Alone(c)
CallsReturn == (\E c \in Caller : OneCall(c) /\ Heard(c)) ~> ~\E c \in Caller : OneCall(c)

(* bind and listen return, an error if they must, until the server was     *)
(* stopped: they can be tried again (test_server.cpp:32).                  *)
RetryReturns ==
    \A c \in Caller :
        call[c] \in {"bind", "listen"} /\ m_server_socket # "closed" ~> call[c] = "none"

(* The server uses its mailbox as Directive specifies. *)
ImplementsDirective == D!Spec
=============================================================================
