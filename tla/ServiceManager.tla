--------------------------- MODULE ServiceManager ---------------------------
(***************************************************************************)
(* asock_service_manager.c and the calls of asock_impl.c that go through   *)
(* it: the process has one table of services, one for each network         *)
(* namespace.  asock_create_ns and asock_connect look a namespace up and   *)
(* create its service if there is none, which takes a second and more.     *)
(* Nothing is locked.                                                      *)
(*                                                                         *)
(* A thread's call is cut where others may come between: the search for    *)
(* the name, the taking of a slot, the creation of the service, its start, *)
(* the entry in the table and the use.  The service itself is in           *)
(* ServiceControl and ServiceLoop.                                         *)
(***************************************************************************)
EXTENDS Naturals

CONSTANTS
    Thread,         \* the program's threads
    NetNs,          \* the names of network namespaces
    NoName,         \* NULL in m_service_nms
    Dangling,       \* a name that was freed
    Service,        \* bound: the services there is memory for
    NoService,      \* NULL in m_services
    MaxServices     \* MAX_ASOCK_SERVICES

ASSUME ServiceManagerAssumption ==
    /\ NoName \notin NetNs /\ Dangling \notin NetNs /\ NoName # Dangling
    /\ NoService \notin Service
    /\ MaxServices \in Nat \ {0}

Slot == 1 .. MaxServices
Name == NetNs \union {NoName, Dangling}

VARIABLES
    m_services,     \* s_service_manager: the services by slot ...
    m_service_nms,  \* ... and the names of their namespaces
    ready,          \* between asock_init and asock_deinit
    m_net_ns,       \* the namespaces of the asocks that the program has
    alive,          \* the services whose worker runs
    net_ns,         \* the namespace each service's worker entered
    pc,             \* where each thread is
    call,           \* whether it creates an asock or connects one
    nmsp,           \* the namespace it asks for
    slot,           \* the slot it works on
    service,        \* the service it has in hand
    contended       \* history: the slots that two threads had taken at once

table == <<m_services, m_service_nms>>
services == <<alive, net_ns>>
locals == <<call, nmsp, slot, service>>
vars == <<table, ready, m_net_ns, services, pc, locals, contended>>

EmptyTable ==
    /\ m_services' = [k \in Slot |-> NoService]
    /\ m_service_nms' = [k \in Slot |-> NoName]

Init ==
    /\ m_services = [k \in Slot |-> NoService]
    /\ m_service_nms = [k \in Slot |-> NoName]
    /\ ready = FALSE
    /\ m_net_ns = {}
    /\ alive = {}
    /\ net_ns = [s \in Service |-> NoName]
    /\ pc = [t \in Thread |-> "idle"]
    /\ call = [t \in Thread |-> "none"]
    /\ nmsp = [t \in Thread |-> NoName]
    /\ slot = [t \in Thread |-> 1]
    /\ service = [t \in Thread |-> NoService]
    /\ contended = {}

Goto(t, stage) == pc' = [pc EXCEPT ![t] = stage]

(* The thread has taken a slot and not yet entered its service. *)
AtWork(t, k) == slot[t] = k /\ pc[t] \in {"create", "start", "free", "clear", "publish"}

-----------------------------------------------------------------------------
(* asock_init and asock_deinit, by a program that is in no other call.     *)
Quiet == \A t \in Thread : pc[t] = "idle"

(* For the mutants of the model: asock_init relies on static storage.      *)
AsockInitOnce ==
    /\ ~ready /\ Quiet
    /\ ready' = TRUE
    /\ UNCHANGED <<table, m_net_ns, services, pc, locals, contended>>

AsockInit ==
    /\ ~ready /\ Quiet
    /\ EmptyTable
    /\ ready' = TRUE
    /\ contended' = {}
    /\ UNCHANGED <<m_net_ns, services, pc, locals>>

(* free_resources; the pointers stay in the table. *)
AsockDeinit ==
    /\ ready /\ Quiet
    /\ ready' = FALSE
    /\ alive' = alive \ {m_services[k] : k \in Slot}
    /\ m_service_nms' =
        [k \in Slot |->
            IF m_services[k] # NoService /\ m_service_nms[k] # NoName THEN Dangling
            ELSE m_service_nms[k]]
    /\ UNCHANGED <<m_services, m_net_ns, net_ns, pc, locals, contended>>

-----------------------------------------------------------------------------
(* asock_create_ns or asock_connect; an asock is connected in its own      *)
(* namespace.                                                              *)
Begin(t, what, n) ==
    /\ ready
    /\ pc[t] = "idle"
    /\ what = "connect" => n \in m_net_ns
    /\ call' = [call EXCEPT ![t] = what]
    /\ nmsp' = [nmsp EXCEPT ![t] = n]
    /\ Goto(t, "lookup")
    /\ UNCHANGED <<table, ready, m_net_ns, services, slot, service, contended>>

(* The call ends, and its local variables. *)
Leave(t) ==
    /\ Goto(t, "idle")
    /\ call' = [call EXCEPT ![t] = "none"]
    /\ nmsp' = [nmsp EXCEPT ![t] = NoName]
    /\ slot' = [slot EXCEPT ![t] = 1]
    /\ service' = [service EXCEPT ![t] = NoService]

(* A freed name may compare in any way. *)
Equal(k, n) == m_service_nms[k] \in {n, Dangling}
Unequal(k, n) == m_service_nms[k] # n

(* For the mutants of the model: the slot is taken for what the last       *)
(* comparison says.                                                        *)
FoundNext(t) ==
    /\ pc[t] = "lookup"
    /\ \E k \in Slot :
        /\ Equal(k, nmsp[t]) /\ \A j \in 1 .. k - 1 : Unequal(j, nmsp[t])
        /\ service' = [service EXCEPT ![t] = m_services[(k % MaxServices) + 1]]
    /\ Goto(t, "got")
    /\ UNCHANGED <<table, ready, m_net_ns, services, call, nmsp, slot, contended>>

(* Loop 1 finds the name; the service may not be there yet. *)
Found(t) ==
    /\ pc[t] = "lookup"
    /\ \E k \in Slot :
        /\ Equal(k, nmsp[t]) /\ \A j \in 1 .. k - 1 : Unequal(j, nmsp[t])
        /\ service' = [service EXCEPT ![t] = m_services[k]]
    /\ Goto(t, "got")
    /\ UNCHANGED <<table, ready, m_net_ns, services, call, nmsp, slot, contended>>

NotFound(t) ==
    /\ pc[t] = "lookup"
    /\ \A k \in Slot : Unequal(k, nmsp[t])
    /\ Goto(t, "claim")
    /\ UNCHANGED <<table, ready, m_net_ns, services, locals, contended>>

FirstFree(k) ==
    /\ m_services[k] = NoService
    /\ \A j \in 1 .. k - 1 : m_services[j] # NoService

(* Loop 2 takes the first slot without a service, by its name; another     *)
(* thread may be at work on it.                                            *)
Claim(t) ==
    /\ pc[t] = "claim"
    /\ \E k \in Slot :
        /\ FirstFree(k)
        /\ m_service_nms' = [m_service_nms EXCEPT ![k] = nmsp[t]]
        /\ slot' = [slot EXCEPT ![t] = k]
        /\ contended' = IF \E u \in Thread : AtWork(u, k) THEN contended \union {k}
                        ELSE contended
    /\ Goto(t, "create")
    /\ UNCHANGED <<m_services, ready, m_net_ns, services, call, nmsp, service>>

(* strdup fails, and its NULL is in the table. *)
ClaimNoMem(t) ==
    /\ pc[t] = "claim"
    /\ \E k \in Slot :
        /\ FirstFree(k)
        /\ m_service_nms' = [m_service_nms EXCEPT ![k] = NoName]
        /\ contended' = IF \E u \in Thread : AtWork(u, k) THEN contended \union {k}
                        ELSE contended
    /\ Leave(t)
    /\ UNCHANGED <<m_services, ready, m_net_ns, services>>

TableFull(t) ==
    /\ pc[t] = "claim"
    /\ \A k \in Slot : m_services[k] # NoService
    /\ Leave(t)
    /\ UNCHANGED <<table, ready, m_net_ns, services, contended>>

(* asock_service_create_ns for the name that is in the slot now. *)
Create(t) ==
    /\ pc[t] = "create"
    /\ \E s \in Service \ alive, n \in NetNs \union {NoName} :
        /\ \A k \in Slot : m_services[k] # s
        /\ m_service_nms[slot[t]] # Dangling => n = m_service_nms[slot[t]]
        /\ alive' = alive \union {s}
        /\ net_ns' = [net_ns EXCEPT ![s] = n]
        /\ service' = [service EXCEPT ![t] = s]
    /\ Goto(t, "start")
    /\ UNCHANGED <<table, ready, m_net_ns, call, nmsp, slot, contended>>

CreateFails(t) ==
    /\ pc[t] = "create"
    /\ Goto(t, "free")
    /\ UNCHANGED <<table, ready, m_net_ns, services, locals, contended>>

(* asock_service_start ... *)
Start(t) ==
    /\ pc[t] = "start"
    /\ Goto(t, "publish")
    /\ UNCHANGED <<table, ready, m_net_ns, services, locals, contended>>

(* For the mutants of the model: what did not start is not destroyed.      *)
StartFailsKeeps(t) ==
    /\ pc[t] = "start"
    /\ service' = [service EXCEPT ![t] = NoService]
    /\ Goto(t, "free")
    /\ UNCHANGED <<table, ready, m_net_ns, services, call, nmsp, slot, contended>>

(* ... or it fails, and the service is destroyed. *)
StartFails(t) ==
    /\ pc[t] = "start"
    /\ alive' = alive \ {service[t]}
    /\ service' = [service EXCEPT ![t] = NoService]
    /\ Goto(t, "free")
    /\ UNCHANGED <<table, ready, m_net_ns, net_ns, call, nmsp, slot, contended>>

(* The name is freed (what a second free of it does is not modelled) ...   *)
FreeName(t) ==
    /\ pc[t] = "free"
    /\ m_service_nms[slot[t]] # Dangling
    /\ m_service_nms' =
        [m_service_nms EXCEPT ![slot[t]] = IF @ = NoName THEN NoName ELSE Dangling]
    /\ Goto(t, "clear")
    /\ UNCHANGED <<m_services, ready, m_net_ns, services, locals, contended>>

(* For the mutants of the model: the call fails and the name stays.        *)
ClearNothing(t) ==
    /\ pc[t] = "clear"
    /\ Leave(t)
    /\ UNCHANGED <<table, ready, m_net_ns, services, contended>>

(* ... and its slot emptied; the call fails. *)
ClearName(t) ==
    /\ pc[t] = "clear"
    /\ m_service_nms' = [m_service_nms EXCEPT ![slot[t]] = NoName]
    /\ Leave(t)
    /\ UNCHANGED <<m_services, ready, m_net_ns, services, contended>>

(* For the mutants of the model: the service is entered in the first slot. *)
PublishFirst(t) ==
    /\ pc[t] = "publish"
    /\ m_services' = [m_services EXCEPT ![1] = service[t]]
    /\ Goto(t, "got")
    /\ UNCHANGED <<m_service_nms, ready, m_net_ns, services, locals, contended>>

Publish(t) ==
    /\ pc[t] = "publish"
    /\ m_services' = [m_services EXCEPT ![slot[t]] = service[t]]
    /\ Goto(t, "got")
    /\ UNCHANGED <<m_service_nms, ready, m_net_ns, services, locals, contended>>

-----------------------------------------------------------------------------
(* The service does what was asked of it: it makes an asock, whose         *)
(* m_net_ns is the namespace asked for, or takes one to connect.           *)
Use(t) ==
    /\ pc[t] = "got"
    /\ service[t] # NoService
    /\ m_net_ns' = IF call[t] = "create" THEN m_net_ns \union {nmsp[t]} ELSE m_net_ns
    /\ Leave(t)
    /\ UNCHANGED <<table, ready, services, contended>>

(* There is no service, or it fails to make the asock. *)
UseFails(t) ==
    /\ pc[t] = "got"
    /\ service[t] = NoService \/ call[t] = "create"
    /\ Leave(t)
    /\ UNCHANGED <<table, ready, m_net_ns, services, contended>>

Step(t) ==
    \/ Found(t) \/ NotFound(t)
    \/ Claim(t) \/ ClaimNoMem(t) \/ TableFull(t)
    \/ Create(t) \/ CreateFails(t)
    \/ Start(t) \/ StartFails(t)
    \/ FreeName(t) \/ ClearName(t)
    \/ Publish(t)
    \/ Use(t) \/ UseFails(t)

Next ==
    \/ AsockInit \/ AsockDeinit
    \/ \E t \in Thread :
        \/ \E what \in {"create", "connect"}, n \in NetNs : Begin(t, what, n)
        \/ Step(t)

Spec == Init /\ [][Next]_vars

-----------------------------------------------------------------------------
TypeOK ==
    /\ m_services \in [Slot -> Service \union {NoService}]
    /\ m_service_nms \in [Slot -> Name]
    /\ ready \in BOOLEAN
    /\ m_net_ns \in SUBSET NetNs
    /\ alive \in SUBSET Service
    /\ net_ns \in [Service -> NetNs \union {NoName}]
    /\ pc \in [Thread -> {"idle", "lookup", "claim", "create", "start", "free",
                          "clear", "publish", "got"}]
    /\ call \in [Thread -> {"none", "create", "connect"}]
    /\ nmsp \in [Thread -> NetNs \union {NoName}]
    /\ slot \in [Thread -> Slot]
    /\ service \in [Thread -> Service \union {NoService}]
    /\ contended \in SUBSET Slot

(* A name is never left behind without its service, whoever failed on the  *)
(* way and however threads met: every later asock_create for the namespace *)
(* would find the name and get NULL.                                       *)
PendingNameHasWorker ==
    ready => \A k \in Slot :
        m_service_nms[k] # NoName /\ m_services[k] = NoService
            => \E t \in Thread : AtWork(t, k)

(* What a thread has in hand, or finds in the table, was not destroyed,    *)
(* through any number of asock_deinit and asock_init; free_resources       *)
(* leaves the table full of freed services, and asock_init must empty it.  *)
GivenIsAlive ==
    /\ \A t \in Thread : service[t] \in alive \union {NoService}
    /\ ready => \A k \in Slot : m_services[k] \in alive \union {NoService}

(* Asocks are created and connected by a service of their own namespace,   *)
(* and the table says so, in each slot that no two threads had taken at    *)
(* the same time: there, one may create the other's service or enter its   *)
(* own under the other's name.                                             *)
RightNamespace ==
    /\ ready => \A k \in Slot \ contended :
        m_services[k] # NoService => m_service_nms[k] = net_ns[m_services[k]]
    /\ \A t \in Thread :
        \/ pc[t] \in {"start", "publish"} /\ slot[t] \notin contended
        \/ pc[t] = "got" /\ \E k \in Slot \ contended : m_services[k] = service[t]
        => service[t] = NoService \/ net_ns[service[t]] = nmsp[t]

(* No service is lost while it runs: it stays in the table, where          *)
(* asock_deinit finds it, or in the hands of the thread that creates it,   *)
(* until it is destroyed; only two threads that took one slot at the same  *)
(* time may lose one.                                                      *)
Kept(s) == (\E k \in Slot : m_services[k] = s) \/ (\E t \in Thread : service[t] = s)
NothingLost ==
    [][\A s \in alive' : (s \in alive => Kept(s)) => Kept(s)' \/ contended' # {}]_vars
=============================================================================
