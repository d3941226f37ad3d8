----------------------------- MODULE ServerLoop -----------------------------
(***************************************************************************)
(* asock_server.c at work: the server's worker accepts connections, serves *)
(* and closes them, while users accept, use and destroy the asocks         *)
(* (asock_server_thread_loop from Running on, asock_server_update_state).  *)
(* How directives get to the worker is in ServerControl.                   *)
(***************************************************************************)
EXTENDS Asock

CONSTANTS
    ListenFd,   \* m_server_socket
    Listening,  \* what it refers to
    Stops       \* whether the server is stopped

ASSUME ServerLoopAssumption ==
    /\ ListenFd \in FD
    /\ Stops \in BOOLEAN
    /\ MaxConnects = 0          \* accepted asocks are not connected again

Init == InitWith([f \in FD |-> IF f = ListenFd THEN Listening ELSE Free])

(* All sockets are in the epoll instance as long as they are open. *)
Monitored == Socket \union {Listening}

-----------------------------------------------------------------------------
(* For the mutants of the model: accept counts its user's reference again. *)
ServerAcceptCounts ==
    /\ m_new_connections # << >>
    /\ con' = [con EXCEPT ![Head(m_new_connections)].m_ref_counter = @ + 1]
    /\ user' = [user EXCEPT ![Head(m_new_connections)] = "owner"]
    /\ m_new_connections' = Tail(m_new_connections)
    /\ UNCHANGED <<m_in_queue, files, m_connections, pc, i, cur, batch>>

(* asock_server_accept, under m_new_connections_mutex. *)
ServerAccept ==
    /\ m_new_connections # << >>
    /\ user' = [user EXCEPT ![Head(m_new_connections)] = "owner"]
    /\ m_new_connections' = Tail(m_new_connections)
    /\ UNCHANGED <<con, m_in_queue, files, m_connections, pc, i, cur, batch>>

-----------------------------------------------------------------------------
(* The top of the main loop, then update_state.                            *)
NoDirective ==
    /\ pc = "directive"
    /\ StartAt("send", m_connections)
    /\ UNCHANGED <<con, m_in_queue, user, files, lists, cur, batch>>

(* Connections that wait to be accepted stay in their list.                *)
Stop ==
    /\ Stops
    /\ pc = "directive"
    /\ StartAt("drop", m_connections)
    /\ UNCHANGED <<con, m_in_queue, user, files, lists, cur, batch>>

EventListen ==
    /\ pc = "event" /\ ListenFd \in batch
    /\ Goto("accept")
    /\ batch' = batch \ {ListenFd}
    /\ UNCHANGED <<con, m_in_queue, user, files, lists, i, cur>>

(* A connection is accepted and made an asock, and is in both lists when   *)
(* the lock of the second is released.  Nobody sees it before.             *)
AcceptOne(a) ==
    /\ pc = "accept"
    /\ IsNext(a)
    /\ \E f \in FD :
        /\ Open(f, <<a, 0>>)
        /\ con' = [con EXCEPT ![a] = [Created(f) EXCEPT !.m_state = "Established"]]
    /\ m_connections' = Append(m_connections, a)
    /\ m_new_connections' = Append(m_new_connections, a)
    /\ cur' = a
    /\ Goto("incr")
    /\ UNCHANGED <<m_in_queue, user, i, batch>>

(* There is no memory for the peer's address: the asock is destroyed, which *)
(* closes its socket, and the number is closed once more.                  *)
AcceptNoMem(a) ==
    /\ pc = "accept"
    /\ IsNext(a)
    /\ \E f \in FD :
        /\ LowestFree(f)
        /\ con' = Dropped([con EXCEPT ![a] = Created(f)], a)
    /\ UNCHANGED <<m_in_queue, user, files, lists, pc, i, cur, batch>>

(* For the mutants of the model: the server does not count itself.         *)
CounterNotIncr ==
    /\ pc = "incr"
    /\ cur' = NoFd
    /\ Goto("accept")
    /\ UNCHANGED <<con, m_in_queue, user, files, lists, i, batch>>

(* Only then asock_con_counter_incr: the server's own reference. *)
CounterIncr ==
    /\ pc = "incr"
    /\ con' = [con EXCEPT ![cur].m_ref_counter = @ + 1]
    /\ cur' = NoFd
    /\ Goto("accept")
    /\ UNCHANGED <<m_in_queue, user, files, lists, i, batch>>

(* accept has no more, or fails; either ends the loop. *)
AcceptDone ==
    /\ pc = "accept"
    /\ Goto("event")
    /\ UNCHANGED <<con, m_in_queue, user, files, lists, i, cur, batch>>

Drop ==
    /\ pc = "drop"
    /\ DropNext(m_connections)

DropDone ==
    /\ pc = "drop" /\ i = 0
    /\ files' = ClosedFile(files, ListenFd)
    /\ Goto("exited")
    /\ UNCHANGED <<con, m_in_queue, user, lists, i, cur, batch>>

WorkerStep ==
    \/ NoDirective
    \/ SharedStep
    \/ EpollWait(Monitored)
    \/ EventListen
    \/ \E f \in FD \ {ListenFd} : EventIn(f)
    \/ CounterIncr
    \/ AcceptDone
    \/ Drop \/ DropDone

Next ==
    /\ ~Undefined
    /\ \/ WorkerStep
       \/ Stop
       \/ ServerAccept
       \/ \E a \in Asock : UserStep(a) \/ AcceptOne(a) \/ AcceptNoMem(a)

Spec == Init /\ [][Next]_vars

(* The worker runs, a destroy that was begun is ended, and no peer sends   *)
(* as fast as the worker reads for ever.                                   *)
Fairness ==
    /\ WF_vars(WorkerStep)
    /\ WF_vars(ReadAgain \/ ReadEnds)
    /\ WF_vars(\E a \in Asock : DestroyEnds(a))

FairSpec == Spec /\ Fairness

-----------------------------------------------------------------------------
TypeOK ==
    /\ AsockTypeOK(Socket \union {Listening})
    /\ pc \in {"directive", "send", "unlock", "check", "wait", "event", "read",
               "accept", "incr", "drop", "exited"}

(* The places of its list that the server has references for. *)
Served == IF pc = "exited" THEN {} ELSE Remaining(m_connections, "drop")
Serves(a) == \E k \in Served : m_connections[k] = a

(* The only asock a worker's list may hold after it was freed is the one   *)
(* that was just put up for acceptance and is not yet counted; users' own  *)
(* and those that wait for acceptance are never freed.                     *)
HeldIsLive ==
    /\ \A a \in Asock : UserHolds(a) => con[a].life = "live"
    /\ \A k \in DOMAIN m_new_connections : con[m_new_connections[k]].life = "live"
    /\ \A k \in Served :
        con[m_connections[k]].life = "live" \/ (pc = "incr" /\ cur = m_connections[k])

(* What is not freed can still be reached by its user or by the worker;    *)
(* except a connection that nobody accepted before it failed, or before    *)
(* the server stopped.                                                     *)
LiveIsReachable ==
    \A a \in Asock :
        con[a].life = "live" =>
            \/ UserHolds(a)
            \/ Serves(a)
            \/ \E k \in DOMAIN m_new_connections : m_new_connections[k] = a
            \/ /\ user[a] = "none"
               /\ con[a].m_state = "Failed" \/ pc \in {"drop", "exited"}

(* The server serves each connection through its own socket, until an     *)
(* asock with the same number is closed or destroyed.                      *)
Own(a) ==
    Serves(a) /\ con[a].life = "live" => files[con[a].m_sock_desc] = <<a, 0>>
OwnSocket == [][\A a \in Asock : Own(a) => Own(a)' \/ Shares(a)]_vars

(* What arrives in a queue came through the asock's socket, as long as no  *)
(* other asock has its number.                                             *)
OwnBytes ==
    [][\A a \in Asock :
        m_in_queue'[a] \subseteq m_in_queue[a] \union {<<a, 0>>} \/ Shares(a)]_vars

(* The bytes that a user reads are those its peer sent (test_server.cpp:   *)
(* REQUIRE(rcv_message == snd_message)).                                   *)
ReadsItsOwn == \A a \in Asock : m_in_queue[a] \subseteq {<<a, 0>>}

(* "This function is supposed to be invoked when asock_tsqueue_t can be    *)
(* accessed from one thread" (asock_tsqueue.c:105): the queues of an asock *)
(* the worker has in hand, or has yet to count, are not destroyed.         *)
DestroyedUnshared == pc \in {"incr", "unlock"} => con[cur].life = "live"

(* An asock that its user destroys is freed in the end, with whatever      *)
(* happens to its connection (the server lets go of it in                  *)
(* asock_server.c:1014): never do asocks wait for it for ever.             *)
Unfreed == \E a \in Asock : user[a] = "done" /\ con[a].life # "freed"
DestroyedIsFreed == Unfreed ~> ~Unfreed \/ Undefined
=============================================================================
