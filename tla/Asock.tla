------------------------------- MODULE Asock -------------------------------
(***************************************************************************)
(* The connections (asock_t) that user threads and one worker thread       *)
(* share: asock_impl.c, and the parts of the worker's loop that            *)
(* asock_service.c and asock_server.c have in common.  An asock is         *)
(* reference counted: its user holds one reference, a worker that manages  *)
(* it another.  ServiceLoop and ServerLoop extend this module.             *)
(*                                                                         *)
(* The user's steps are as fine as its accesses to shared memory.  The     *)
(* worker's are, as far as other threads can tell: one connection or one   *)
(* event at a time.  A vector is the sequence of what it holds.            *)
(***************************************************************************)
EXTENDS Integers, Sequences, SequencesExt, FiniteSets

CONSTANTS
    Asock,          \* the asock_t objects, numbered as they are made
    FD,             \* the descriptor numbers the kernel hands out
    Free,           \* a number that is not in use
    MaxOut,         \* bound: writes that wait in one m_out_queue
    MaxConnects     \* bound: calls of asock_connect for one asock

NoFd == -1
ASSUME AsockAssumption ==
    /\ Asock \subseteq Nat /\ FD \subseteq Nat
    /\ MaxOut \in Nat /\ MaxConnects \in Nat

(* What a descriptor refers to: the socket made with asock a (0), or for    *)
(* its n-th connect.                                                       *)
Socket == Asock \X (0 .. MaxConnects)
ASSUME FreeAssumption == Free \notin Socket

VARIABLES
    con,                \* the asock_t objects
    m_in_queue,         \* the sockets whose bytes wait to be read from each
    user,               \* what each one's user is doing with it
    files,              \* the kernel's descriptor table
    m_connections,      \* the worker's connections
    m_new_connections,  \* those that wait to be connected, or accepted
    pc,                 \* the stage of the worker's loop
    i,                  \* its index into a vector
    cur,                \* the asock or the descriptor it is busy with
    batch               \* the descriptors of m_events it has yet to handle

lists == <<m_connections, m_new_connections>>
vars == <<con, m_in_queue, user, files, lists, pc, i, cur, batch>>

Unborn == [life |-> "unborn", m_ref_counter |-> 0, m_sock_desc |-> NoFd,
           m_state |-> "Idle", m_disconnect |-> FALSE, m_out_queue |-> 0,
           connects |-> 0]

(* At first there are no asocks; table is what the process has open.       *)
InitWith(table) ==
    /\ con = [a \in Asock |-> Unborn]
    /\ m_in_queue = [a \in Asock |-> {}]
    /\ user = [a \in Asock |-> "none"]
    /\ files = table
    /\ m_connections = << >>
    /\ m_new_connections = << >>
    /\ pc = "directive"
    /\ i = 0
    /\ cur = NoFd
    /\ batch = {}

-----------------------------------------------------------------------------
(* The descriptor table                                                    *)

(* The lowest number that is free ... *)
LowestFree(f) == files[f] = Free /\ \A g \in FD : files[g] = Free => f <= g

(* ... becomes the descriptor of socket s. *)
Open(f, s) ==
    /\ LowestFree(f)
    /\ files' = [files EXCEPT ![f] = s]

(* close(f), which fails if the number is not in use. *)
ClosedFile(table, f) == IF f \in FD THEN [table EXCEPT ![f] = Free] ELSE table

-----------------------------------------------------------------------------
(* asock_impl.c                                                            *)

(* For the mutants of the model: the last reference closes nothing.        *)
DroppedFilesOpen(heap, table, a) == table

(* The next one to be made: one unborn is as good as another. *)
IsNext(a) == con[a].life = "unborn" /\ \A b \in Asock : con[b].life = "unborn" => a <= b

(* asock_fcreate_asock; the first reference is its user's. *)
Created(f) == [Unborn EXCEPT !.life = "live", !.m_ref_counter = 1, !.m_sock_desc = f]

(* asock_destroy_asock, what it does to the object ...                     *)
Dropped(heap, a) ==
    [heap EXCEPT ![a].m_disconnect = TRUE,
                 ![a].m_ref_counter = @ - 1,
                 ![a].life = IF heap[a].m_ref_counter = 1 THEN "freed" ELSE @]

(* ... and to the descriptors: the last reference closes m_sock_desc.      *)
DroppedFiles(heap, table, a) ==
    IF heap[a].m_ref_counter = 1
    THEN ClosedFile(table, heap[a].m_sock_desc)
    ELSE table

(* asock_destroy by the user's thread: the flag without a lock, then the   *)
(* reference under m_ref_counter_mutex.                                    *)
DestroyBegins(a) ==
    /\ user[a] = "owner"
    /\ con' = [con EXCEPT ![a].m_disconnect = TRUE]
    /\ user' = [user EXCEPT ![a] = "destroying"]
    /\ UNCHANGED <<m_in_queue, files, lists, pc, i, cur, batch>>

DestroyEnds(a) ==
    /\ user[a] = "destroying"
    /\ con' = Dropped(con, a)
    /\ files' = DroppedFiles(con, files, a)
    /\ user' = [user EXCEPT ![a] = "done"]
    /\ UNCHANGED <<m_in_queue, lists, pc, i, cur, batch>>

(* asock_write; the worker holds the queue's lock while it sends.          *)
Write(a) ==
    /\ user[a] = "owner"
    /\ ~(pc = "unlock" /\ cur = a)
    /\ con[a].m_out_queue < MaxOut
    /\ con' = [con EXCEPT ![a].m_out_queue = @ + 1]
    /\ UNCHANGED <<m_in_queue, user, files, lists, pc, i, cur, batch>>

(* asock_read of all there is.                                             *)
Read(a) ==
    /\ user[a] = "owner"
    /\ m_in_queue[a] # {}
    /\ m_in_queue' = [m_in_queue EXCEPT ![a] = {}]
    /\ UNCHANGED <<con, user, files, lists, pc, i, cur, batch>>

-----------------------------------------------------------------------------
(* The worker, as service and server have it.                              *)

(* For the mutants of the model: a search that compares nothing.           *)
IndexOfAny(seq, sockd) == IF seq = << >> THEN 0 ELSE 1

(* ..._index_of_con_by_sock_desc, from 1; 0 if there is none. *)
IndexBySockDesc(seq, sockd) == SelectInSeq(seq, LAMBDA a : con[a].m_sock_desc = sockd)

(* For the mutants of the model: a close that leaves the connection in its *)
(* list.                                                                   *)
CloseConnectionNoErase(sockd) ==
    LET k == IndexBySockDesc(m_connections, sockd)
        a == m_connections[k]
    IN
    /\ UNCHANGED lists
    /\ IF k = 0
       THEN UNCHANGED <<con, files>>
       ELSE /\ con' = Dropped([con EXCEPT ![a].m_state = "Failed"], a)
            /\ files' = ClosedFile(files, sockd)

(* ..._close_connection.  After the close(sockd) the asock still has the   *)
(* number; asock_destroy_asock closes it once more for the last reference. *)
CloseConnection(sockd) ==
    LET k == IndexBySockDesc(m_connections, sockd)
        a == m_connections[k]
        failed == [con EXCEPT ![a].m_state = "Failed"]
    IN
    /\ m_new_connections' =
        RemoveFirstMatch(m_new_connections, LAMBDA b : con[b].m_sock_desc = sockd)
    /\ IF k = 0
       THEN UNCHANGED <<con, files, m_connections>>
       ELSE /\ con' = Dropped(failed, a)
            /\ files' = DroppedFiles(failed, ClosedFile(files, sockd), a)
            /\ m_connections' = RemoveAt(m_connections, k)

Goto(stage) == pc' = stage

(* From the last connection to the first, as the loops over i do. *)
StartAt(stage, list) == Goto(stage) /\ i' = Len(list)

(* ..._send_unsent_data, for the i-th connection.  The head of the queue   *)
(* is locked, sent and unlocked, and what was sent dequeued; writes that   *)
(* come between the last two make no difference.                           *)
SendNothing ==
    /\ pc = "send" /\ i > 0
    /\ LET c == con[m_connections[i]] IN c.m_out_queue = 0 \/ c.m_state # "Established"
    /\ i' = i - 1
    /\ UNCHANGED <<con, m_in_queue, user, files, lists, pc, cur, batch>>

Sendable(a) == con[a].m_out_queue > 0 /\ con[a].m_state = "Established"

SendSome ==
    /\ pc = "send" /\ i > 0
    /\ LET a == m_connections[i] IN
        /\ Sendable(a)
        /\ files[con[a].m_sock_desc] # Free
        /\ \E n \in 0 .. con[a].m_out_queue :
            con' = [con EXCEPT ![a].m_out_queue = @ - n]
    /\ i' = i - 1
    /\ UNCHANGED <<m_in_queue, user, files, lists, pc, cur, batch>>

(* send fails (at once if the number is not open): the connection is       *)
(* closed, maybe freed, while its queue is locked.                         *)
SendFails ==
    /\ pc = "send" /\ i > 0
    /\ Sendable(m_connections[i])
    /\ CloseConnection(con[m_connections[i]].m_sock_desc)
    /\ cur' = m_connections[i]
    /\ Goto("unlock")
    /\ UNCHANGED <<m_in_queue, user, i, batch>>

HeadUnlock ==
    /\ pc = "unlock"
    /\ Goto("send")
    /\ i' = i - 1
    /\ cur' = NoFd
    /\ UNCHANGED <<con, m_in_queue, user, files, lists, batch>>

SendDone ==
    /\ pc = "send" /\ i = 0
    /\ StartAt("check", m_connections)
    /\ UNCHANGED <<con, m_in_queue, user, files, lists, cur, batch>>

(* For the mutants of the model: nobody looks at m_disconnect.             *)
CheckNothing ==
    /\ pc = "check" /\ i > 0
    /\ i' = i - 1
    /\ UNCHANGED <<con, m_in_queue, user, files, lists, pc, cur, batch>>

(* ..._check_for_connections_to_close, for the i-th connection. *)
CheckForClose ==
    /\ pc = "check" /\ i > 0
    /\ LET c == con[m_connections[i]] IN
        IF c.m_disconnect
        THEN CloseConnection(c.m_sock_desc)
        ELSE UNCHANGED <<con, files, lists>>
    /\ i' = i - 1
    /\ UNCHANGED <<m_in_queue, user, pc, cur, batch>>

CheckDone ==
    /\ pc = "check" /\ i = 0
    /\ Goto("wait")
    /\ UNCHANGED <<con, m_in_queue, user, files, lists, i, cur, batch>>

(* epoll_wait reports any of the open descriptors that are monitored; what *)
(* happened to each is chosen when it is handled.                          *)
EpollWait(Monitored) ==
    /\ pc = "wait"
    /\ \E ready \in SUBSET {f \in FD : files[f] \in Monitored} : batch' = ready
    /\ Goto("event")
    /\ UNCHANGED <<con, m_in_queue, user, files, lists, i, cur>>

(* EPOLLERR or EPOLLHUP. *)
EventClose(f) ==
    /\ pc = "event" /\ f \in batch
    /\ CloseConnection(f)
    /\ batch' = batch \ {f}
    /\ UNCHANGED <<m_in_queue, user, pc, i, cur>>

(* EPOLLIN: the descriptor is read until there is nothing more.            *)
EventIn(f) ==
    /\ pc = "event" /\ f \in batch
    /\ Goto("read")
    /\ cur' = f
    /\ batch' = batch \ {f}
    /\ UNCHANGED <<con, m_in_queue, user, files, lists, i>>

(* The bytes go to the first connection that has this number. *)
ReadSome ==
    /\ pc = "read"
    /\ files[cur] # Free
    /\ LET k == IndexBySockDesc(m_connections, cur) IN
        m_in_queue' = IF k = 0 THEN m_in_queue
                      ELSE [m_in_queue EXCEPT ![m_connections[k]] = @ \union {files[cur]}]
    /\ UNCHANGED <<con, user, files, lists, pc, i, cur, batch>>

ReadAgain ==
    /\ pc = "read"
    /\ files[cur] # Free
    /\ Goto("event")
    /\ cur' = NoFd
    /\ UNCHANGED <<con, m_in_queue, user, files, lists, i, batch>>

(* End of file, or an error, as for a number that is not open.             *)
ReadEnds ==
    /\ pc = "read"
    /\ CloseConnection(cur)
    /\ Goto("event")
    /\ cur' = NoFd
    /\ UNCHANGED <<m_in_queue, user, i, batch>>

EventsDone ==
    /\ pc = "event" /\ batch = {}
    /\ Goto("directive")
    /\ UNCHANGED <<con, m_in_queue, user, files, lists, i, cur, batch>>

SharedStep ==
    \/ SendNothing \/ SendSome \/ SendFails \/ HeadUnlock \/ SendDone
    \/ CheckForClose \/ CheckDone
    \/ \E f \in FD : EventClose(f)
    \/ ReadSome \/ ReadAgain \/ ReadEnds
    \/ EventsDone

(* When the worker stops it drops its references, in the list's order from *)
(* the end; the lists themselves stay as they are.                         *)
DropNext(list) ==
    /\ i > 0
    /\ con' = Dropped(con, list[i])
    /\ files' = DroppedFiles(con, files, list[i])
    /\ i' = i - 1
    /\ UNCHANGED <<m_in_queue, user, lists, pc, cur, batch>>

(* The worker is about to use an asock that was freed: what follows is     *)
(* undefined, and not modelled.                                            *)
Undefined == pc \in {"unlock", "incr"} /\ con[cur].life = "freed"

UserStep(a) == DestroyBegins(a) \/ DestroyEnds(a) \/ Write(a) \/ Read(a)

-----------------------------------------------------------------------------
ConType ==
    [life : {"unborn", "live", "freed"}, m_ref_counter : Nat,
     m_sock_desc : FD \union {NoFd},
     m_state : {"Idle", "InProgress", "Established", "Failed"},
     m_disconnect : BOOLEAN, m_out_queue : 0 .. MaxOut, connects : 0 .. MaxConnects]

AsockTypeOK(File) ==
    /\ con \in [Asock -> ConType]
    /\ m_in_queue \in [Asock -> SUBSET Socket]
    /\ user \in [Asock -> {"none", "owner", "connecting", "destroying", "done"}]
    /\ files \in [FD -> File \union {Free}]
    /\ m_connections \in Seq(Asock)
    /\ m_new_connections \in Seq(Asock)
    /\ i \in Nat
    /\ cur \in Asock \union FD \union {NoFd}
    /\ batch \in SUBSET FD

(* How often asock a is at these places of a list. *)
Times(list, places, a) == Cardinality({k \in places : list[k] = a})

UserHolds(a) == user[a] \in {"owner", "connecting", "destroying"}

(* Another asock has the same number: that of a connection that the worker *)
(* closed remains with its user, whose destroy closes it once more.        *)
Shares(a) ==
    \E b \in Asock \ {a} : con[b].life = "live" /\ con[b].m_sock_desc = con[a].m_sock_desc

(* The places of a list that the worker still has references for: while it *)
(* drops them, those it has not come to.                                   *)
Remaining(list, stage) == IF pc = stage THEN 1 .. i ELSE DOMAIN list
=============================================================================
