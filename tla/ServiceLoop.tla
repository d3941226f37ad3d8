---------------------------- MODULE ServiceLoop ----------------------------
(***************************************************************************)
(* asock_service.c at work: users create, connect, use and destroy asocks  *)
(* while the service's worker connects, serves and closes them             *)
(* (asock_service_thread_loop from Running on, asock_service_update_state).*)
(* How directives get to the worker is in ServiceControl.                  *)
(***************************************************************************)
EXTENDS Asock

CONSTANT
    Stops       \* whether the service is stopped (asock_deinit)

ASSUME ServiceLoopAssumption == Stops \in BOOLEAN

Init == InitWith([f \in FD |-> Free])

(* Sockets are added to the epoll instance when they are connected, and    *)
(* leave it when they are closed.                                          *)
Monitored == Asock \X (1 .. MaxConnects)

-----------------------------------------------------------------------------
(* The service is connected to while it runs; asock_deinit is for when     *)
(* nobody will.  The state and the reference first, then the push under    *)
(* m_new_connections_mutex, which the worker holds in "new".               *)
ConnectWith(a, asock) ==
    /\ user[a] = "owner"
    /\ pc \notin {"drop_new", "drop", "exited"}
    /\ con[a].connects < MaxConnects
    /\ con' = [con EXCEPT ![a] = [asock EXCEPT !.connects = @ + 1]]
    /\ user' = [user EXCEPT ![a] = "connecting"]
    /\ UNCHANGED <<m_in_queue, files, lists, pc, i, cur, batch>>

(* For the mutants of the model: a connect that does not count the service,*)
(* and one that leaves the state alone.                                    *)
ConnectUncounted(a) == ConnectWith(a, [con[a] EXCEPT !.m_state = "InProgress"])
ConnectKeepsState(a) == ConnectWith(a, [con[a] EXCEPT !.m_ref_counter = @ + 1])

ConnectBegins(a) ==
    ConnectWith(a, [con[a] EXCEPT !.m_state = "InProgress", !.m_ref_counter = @ + 1])

ConnectEnds(a) ==
    /\ user[a] = "connecting"
    /\ pc # "new"
    /\ m_new_connections' = Append(m_new_connections, a)
    /\ user' = [user EXCEPT ![a] = "owner"]
    /\ UNCHANGED <<con, m_in_queue, files, m_connections, pc, i, cur, batch>>

-----------------------------------------------------------------------------
StartNew == Goto("new") /\ i' = 1

(* The top of the main loop, then update_state.                            *)
NoDirective ==
    /\ pc = "directive"
    /\ StartNew
    /\ UNCHANGED <<con, m_in_queue, user, files, lists, cur, batch>>

(* The asock, with the first socket opened for it, goes to its user.       *)
CreateAsock(a) ==
    /\ pc = "directive"
    /\ IsNext(a)
    /\ \E f \in FD :
        /\ Open(f, <<a, 0>>)
        /\ con' = [con EXCEPT ![a] = Created(f)]
    /\ user' = [user EXCEPT ![a] = "owner"]
    /\ StartNew
    /\ UNCHANGED <<m_in_queue, lists, cur, batch>>

(* A stopped service is destroyed: no thread is in asock_connect. *)
Stop ==
    /\ Stops
    /\ pc = "directive"
    /\ \A a \in Asock : user[a] # "connecting"
    /\ StartAt("drop_new", m_new_connections)
    /\ UNCHANGED <<con, m_in_queue, user, files, lists, cur, batch>>

(* asock_service_try_connect_to_peer puts the descriptor of a new socket   *)
(* in the place of the one the asock was created with, ...                 *)
TryConnect ==
    /\ pc = "new" /\ i <= Len(m_new_connections)
    /\ LET a == m_new_connections[i] IN
        /\ \E f \in FD, state \in {"InProgress", "Established"} :
            /\ Open(f, <<a, con[a].connects>>)
            /\ con' = [con EXCEPT ![a].m_sock_desc = f, ![a].m_state = state]
        /\ m_connections' = Append(m_connections, a)
    /\ i' = i + 1
    /\ UNCHANGED <<m_in_queue, user, m_new_connections, pc, cur, batch>>

(* ... or fails on the way, with no socket left, and the service lets go.  *)
Refused == [con EXCEPT ![m_new_connections[i]].m_sock_desc = NoFd,
                       ![m_new_connections[i]].m_state = "Failed"]

Refuse(heap) ==
    /\ pc = "new" /\ i <= Len(m_new_connections)
    /\ con' = heap
    /\ i' = i + 1
    /\ UNCHANGED <<m_in_queue, user, files, lists, pc, cur, batch>>

(* For the mutants of the model: the service keeps what it cannot connect. *)
TryConnectKeeps == Refuse(Refused)

TryConnectFails == Refuse(Dropped(Refused, m_new_connections[i]))

NewDone ==
    /\ pc = "new" /\ i > Len(m_new_connections)
    /\ m_new_connections' = << >>
    /\ StartAt("send", m_connections)
    /\ UNCHANGED <<con, m_in_queue, user, files, m_connections, cur, batch>>

(* EPOLLOUT without an error in SO_ERROR: the connection with this number  *)
(* is established.                                                         *)
EventOutWith(f, heap) ==
    /\ pc = "event" /\ f \in batch
    /\ con' = heap
    /\ \/ batch' = batch \ {f}      \* nothing else
       \/ UNCHANGED batch           \* the other bits of this event come next
    /\ UNCHANGED <<m_in_queue, user, files, lists, pc, i, cur>>

(* For the mutants of the model: the event is seen and nothing is noted.   *)
EventOutIgnored(f) == EventOutWith(f, con)

EventOut(f) ==
    LET k == IndexBySockDesc(m_connections, f) IN
    /\ k = 0 \/ files[f] # Free
    /\ EventOutWith(f, IF k = 0 THEN con
                       ELSE [con EXCEPT ![m_connections[k]].m_state = "Established"])

(* getsockopt fails where the descriptor is not open any more; the other   *)
(* bits of the event still come next.                                      *)
EventOutFails(f) ==
    /\ pc = "event" /\ f \in batch
    /\ files[f] = Free
    /\ IndexBySockDesc(m_connections, f) > 0
    /\ CloseConnection(f)
    /\ UNCHANGED <<m_in_queue, user, pc, i, cur, batch>>

DropNew ==
    /\ pc = "drop_new"
    /\ DropNext(m_new_connections)

DropNewDone ==
    /\ pc = "drop_new" /\ i = 0
    /\ StartAt("drop", m_connections)
    /\ UNCHANGED <<con, m_in_queue, user, files, lists, cur, batch>>

Drop ==
    /\ pc = "drop"
    /\ DropNext(m_connections)

DropDone ==
    /\ pc = "drop" /\ i = 0
    /\ Goto("exited")
    /\ UNCHANGED <<con, m_in_queue, user, files, lists, i, cur, batch>>

WorkerStep ==
    \/ NoDirective
    \/ TryConnect \/ TryConnectFails \/ NewDone
    \/ SharedStep
    \/ EpollWait(Monitored)
    \/ \E f \in FD : EventIn(f) \/ EventOut(f) \/ EventOutFails(f)
    \/ DropNew \/ DropNewDone \/ Drop \/ DropDone

Next ==
    /\ ~Undefined
    /\ \/ WorkerStep
       \/ Stop
       \/ \E a \in Asock :
            UserStep(a) \/ CreateAsock(a) \/ ConnectBegins(a) \/ ConnectEnds(a)

Spec == Init /\ [][Next]_vars

(* The number of a connection that the peer has not answered yet. *)
Connecting(f) ==
    \E a \in Asock : con[a].m_state = "InProgress" /\ files[f] = <<a, con[a].connects>>

(* The kernel tells how a connect ended: the socket is ready to be written *)
(* to, or has failed.                                                      *)
OutcomeReported == EpollWait(Monitored) /\ \A f \in FD : Connecting(f) => f \in batch'
OutcomeHandled == \E f \in FD : Connecting(f) /\ (EventOut(f) \/ EventClose(f))

(* The worker runs, a call that was begun is ended, every connect gets an  *)
(* answer or times out, and no peer sends as fast as the worker reads for  *)
(* ever.                                                                   *)
Fairness ==
    /\ WF_vars(WorkerStep)
    /\ WF_vars(ReadAgain \/ ReadEnds)
    /\ SF_vars(OutcomeReported) /\ SF_vars(OutcomeHandled)
    /\ SF_vars(\E a \in Asock : ConnectEnds(a))
    /\ WF_vars(\E a \in Asock : DestroyEnds(a))

FairSpec == Spec /\ Fairness

-----------------------------------------------------------------------------
TypeOK ==
    /\ AsockTypeOK(Socket)
    /\ pc \in {"directive", "new", "send", "unlock", "check", "wait", "event",
               "read", "drop_new", "drop", "exited"}

(* The places of the service's lists that it has references for. *)
Kept == IF pc \in {"drop", "exited"} THEN {}
        ELSE IF pc = "new" THEN i .. Len(m_new_connections)
        ELSE Remaining(m_new_connections, "drop_new")
Served == IF pc = "exited" THEN {} ELSE Remaining(m_connections, "drop")

InLists(a) == Times(m_new_connections, Kept, a) + Times(m_connections, Served, a)

(* One reference for the user until its destroy, one for each place in the *)
(* service's lists, and memory as long as there is a reference.            *)
Counted(a) ==
    /\ con[a].m_ref_counter = (IF UserHolds(a) THEN 1 ELSE 0)
                              + (IF user[a] = "connecting" THEN 1 ELSE 0)
                              + InLists(a)
    /\ con[a].life = "live" <=> con[a].m_ref_counter > 0

(* While it waits to be connected, the number of an asock is another's     *)
(* too, or was closed with another's socket (OwnSocket: only so is it free *)
(* before the service has connected it).                                   *)
WaitsWithWrongNumber(a) ==
    /\ \E k \in Kept : m_new_connections[k] = a
    /\ Shares(a) \/ \E f \in FD : con[a].m_sock_desc = f /\ files[f] = Free

(* Then close_connection, called for the other one, may drop it from       *)
(* m_new_connections and keep the reference (asock_service.c:629).         *)
LeavesReference(a) ==
    /\ WaitsWithWrongNumber(a)
    /\ InLists(a)' = InLists(a) - 1
    /\ con'[a].m_ref_counter = con[a].m_ref_counter

(* The counter counts, at every step of user and service, be it a destroy  *)
(* before, after or while the service closes the connection                *)
(* (asock_impl.c:150, asock_service.c:340, 648); but for the step that     *)
(* forgets an asock, which leaves it one reference too many.               *)
RefsCounted == [][\A a \in Asock : Counted(a) => Counted(a)' \/ LeavesReference(a)]_vars

(* What the service has in its lists, and what its user has, is memory     *)
(* that was not freed, even where descriptor numbers are mixed up.         *)
HeldIsLive ==
    /\ \A a \in Asock : UserHolds(a) => con[a].life = "live"
    /\ \A k \in Kept : con[m_new_connections[k]].life = "live"
    /\ \A k \in Served : con[m_connections[k]].life = "live"

(* The service serves each connection through its own socket, and until it *)
(* has connected an asock the number is that of the socket of its creation;*)
(* until an asock with the same number is closed or destroyed.             *)
Own(a) ==
    (\E k \in Served : m_connections[k] = a)
        => files[con[a].m_sock_desc] = <<a, con[a].connects>>
ToBeConnected(a) ==
    /\ con[a].life = "live"
    /\ \/ con[a].m_state = "Idle"
       \/ user[a] = "connecting"
       \/ \E k \in Kept : m_new_connections[k] = a
OwnFirst(a) ==
    ToBeConnected(a) => \E f \in FD : con[a].m_sock_desc = f /\ files[f] = <<a, 0>>
OwnSocket ==
    [][\A a \in Asock :
        /\ Own(a) => Own(a)' \/ Shares(a)
        /\ OwnFirst(a) => OwnFirst(a)' \/ Shares(a)]_vars

(* With the memory of an asock its connection is gone (asock_impl.c:154);  *)
(* only the socket that asock_create made is left open where a connect put *)
(* another in its place (asock_service.c:772).                             *)
FreedIsClosed ==
    \A a \in Asock, f \in FD :
        con[a].life = "freed" /\ files[f] # Free /\ files[f][1] = a
            => files[f][2] = 0 /\ con[a].connects > 0

(* The diagram of asock.h:84: Idle, InProgress, Established, and Failed    *)
(* from each of them.                                                      *)
Changes == {<<"Idle", "InProgress">>, <<"InProgress", "Established">>,
            <<"Idle", "Failed">>, <<"InProgress", "Failed">>,
            <<"Established", "Failed">>}
StateDiagram ==
    [][\A a \in Asock :
        \/ con[a].life = "unborn"
        \/ con'[a].m_state = con[a].m_state
        \/ <<con[a].m_state, con'[a].m_state>> \in Changes]_vars

(* An asock that was forgotten, or dropped by a stop: about to be          *)
(* connected and in no list.                                               *)
Stray(a) == con[a].m_state = "InProgress" /\ user[a] # "connecting" /\ InLists(a) = 0

(* An asock that its user destroys is freed in the end, with whatever      *)
(* happens to its connection (asock_service.c:754): no reference is left   *)
(* behind, but for one that was forgotten (LeavesReference).               *)
Unfreed == \E a \in Asock : user[a] = "done" /\ con[a].life # "freed" /\ ~Stray(a)
DestroyedIsFreed == Unfreed ~> ~Unfreed \/ Undefined

(* The search by a connection's number does not find another one.          *)
Found(a) ==
    \A k \in Served :
        con[m_connections[k]].m_sock_desc = con[a].m_sock_desc => m_connections[k] = a

(* A connect is answered while the service runs: no user waits for ever    *)
(* for a state other than InProgress (test_service.cpp:82 does), whatever  *)
(* others connect, close and destroy meanwhile; but for a connection whose *)
(* number was closed by another, or finds another, and one that was        *)
(* forgotten.                                                              *)
Unsettled ==
    \E a \in Asock :
        /\ con[a].m_state = "InProgress" /\ con[a].life = "live"
        /\ Own(a) /\ Found(a) /\ ~Stray(a)
ConnectSettles == Unsettled ~> ~Unsettled \/ pc = "exited" \/ Undefined
=============================================================================
