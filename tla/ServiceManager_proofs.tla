------------------------ MODULE ServiceManager_proofs ------------------------
(***************************************************************************)
(* For every number of threads, namespaces, services and slots: what the   *)
(* unlocked table of services still promises.                              *)
(***************************************************************************)
EXTENDS ServiceManager, TLAPS

(* A thread has a slot, has a service that nobody else knows of, or was    *)
(* given one.                                                              *)
Working(t) == pc[t] \in {"create", "start", "free", "clear", "publish"}
Making(t) == pc[t] \in {"start", "publish"}

(* Services are in hand between their creation and the end of the call,    *)
(* and are alive; a thread that makes one shares it with nobody.           *)
Hands ==
    /\ \A t \in Thread : pc[t] \notin {"start", "publish", "got"} => service[t] = NoService
    /\ \A t \in Thread : service[t] \in alive \union {NoService}
    /\ \A t \in Thread : Making(t) =>
        /\ service[t] \in Service
        /\ \A u \in Thread \ {t} : service[u] # service[t]
        /\ \A k \in Slot : m_services[k] # service[t]

(* The table holds each service once, living ones while the library is     *)
(* in use and only freed ones when it is not.                              *)
Table ==
    /\ ~ready => Quiet
    /\ \A k \in Slot : ready => m_services[k] \in alive \union {NoService}
    /\ \A k \in Slot : ~ready => m_services[k] \notin alive
    /\ \A j, k \in Slot :
        m_services[j] # NoService /\ m_services[j] = m_services[k] => j = k

(* Threads at work on one slot have been noticed; a slot with one thread   *)
(* has no service yet.                                                     *)
Slots ==
    /\ \A t, u \in Thread :
        Working(t) /\ Working(u) /\ slot[t] = slot[u] => t = u \/ slot[t] \in contended
    /\ \A t \in Thread :
        Working(t) => slot[t] \in contended \/ m_services[slot[t]] = NoService

(* A thread alone at its slot finds its name there, and makes its service  *)
(* for it.                                                                 *)
Names ==
    /\ \A t \in Thread :
        pc[t] \in {"create", "start", "publish"} =>
            slot[t] \in contended \/ m_service_nms[slot[t]] = nmsp[t]
    /\ \A t \in Thread : pc[t] # "idle" => nmsp[t] \in NetNs
    /\ \A t \in Thread :
        Making(t) => slot[t] \in contended \/ net_ns[service[t]] = nmsp[t]

(* What a call was given is in the table, where no threads met.            *)
Given ==
    \A t \in Thread :
        pc[t] = "got" /\ service[t] # NoService =>
            contended # {} \/ \E k \in Slot : m_services[k] = service[t]

IInv ==
    /\ TypeOK /\ Hands /\ Table /\ Slots /\ Names /\ Given
    /\ PendingNameHasWorker /\ RightNamespace

-----------------------------------------------------------------------------
(* The program starts without services. *)
LEMMA InitInv == Init => IInv
<1> SUFFICES ASSUME Init
             PROVE  IInv
  OBVIOUS
<1> USE ServiceManagerAssumption DEF Init
<1>1. TypeOK
  <2>1. 1 \in Slot
    BY DEF Slot
  <2> QED
    BY <2>1 DEF TypeOK, Name
<1>2. Hands /\ Names /\ Given
  BY DEF Hands, Making, Names, Given
<1>3. Table
  BY DEF Table, Quiet
<1>4. Slots
  BY DEF Slots, Working
<1>5. PendingNameHasWorker /\ RightNamespace
  BY DEF PendingNameHasWorker, RightNamespace
<1> QED
  BY <1>1, <1>2, <1>3, <1>4, <1>5 DEF IInv

(* Every step of a call, asock_init and asock_deinit keep the types.       *)
LEMMA TypeStep == IInv /\ [Next]_vars => TypeOK'
<1> SUFFICES ASSUME IInv, [Next]_vars
             PROVE  TypeOK'
  OBVIOUS
<1> USE ServiceManagerAssumption DEF IInv, TypeOK, Slot, Name
<1>1. CASE UNCHANGED vars
  BY <1>1 DEF vars, table, services, locals
<1>2. CASE AsockInit
  BY <1>2 DEF AsockInit, EmptyTable, Quiet, services, locals
<1>3. CASE AsockDeinit
  BY <1>3 DEF AsockDeinit, Quiet, locals
<1>4. ASSUME NEW t \in Thread, NEW what \in {"create", "connect"}, NEW n \in NetNs,
             Begin(t, what, n)
      PROVE  TypeOK'
  BY <1>4 DEF Begin, Goto, table, services
<1>5. ASSUME NEW t \in Thread, Found(t)
      PROVE  TypeOK'
  BY <1>5 DEF Found, Goto, table, services
<1>6. ASSUME NEW t \in Thread, NotFound(t)
      PROVE  TypeOK'
  BY <1>6 DEF NotFound, Goto, table, services, locals
<1>7. ASSUME NEW t \in Thread, Claim(t)
      PROVE  TypeOK'
  BY <1>7 DEF Claim, Goto, services
<1>8. ASSUME NEW t \in Thread, ClaimNoMem(t)
      PROVE  TypeOK'
  BY <1>8 DEF ClaimNoMem, Leave, Goto, services
<1>9. ASSUME NEW t \in Thread, TableFull(t)
      PROVE  TypeOK'
  BY <1>9 DEF TableFull, Leave, Goto, table, services
<1>10. ASSUME NEW t \in Thread, Create(t)
      PROVE  TypeOK'
  BY <1>10 DEF Create, Goto, table
<1>11. ASSUME NEW t \in Thread, CreateFails(t)
      PROVE  TypeOK'
  BY <1>11 DEF CreateFails, Goto, table, services, locals
<1>12. ASSUME NEW t \in Thread, Start(t)
      PROVE  TypeOK'
  BY <1>12 DEF Start, Goto, table, services, locals
<1>13. ASSUME NEW t \in Thread, StartFails(t)
      PROVE  TypeOK'
  BY <1>13 DEF StartFails, Goto, table
<1>14. ASSUME NEW t \in Thread, FreeName(t)
      PROVE  TypeOK'
  BY <1>14 DEF FreeName, Goto, services, locals
<1>15. ASSUME NEW t \in Thread, ClearName(t)
      PROVE  TypeOK'
  BY <1>15 DEF ClearName, Leave, Goto, services
<1>16. ASSUME NEW t \in Thread, Publish(t)
      PROVE  TypeOK'
  BY <1>16 DEF Publish, Goto, services, locals
<1>17. ASSUME NEW t \in Thread, Use(t)
      PROVE  TypeOK'
  BY <1>17 DEF Use, Leave, Goto, table, services, Names
<1>18. ASSUME NEW t \in Thread, UseFails(t)
      PROVE  TypeOK'
  BY <1>18 DEF UseFails, Leave, Goto, table, services
<1> HIDE DEF IInv, TypeOK, Slot, Name
<1> QED
  BY <1>1, <1>2, <1>3, <1>4, <1>5, <1>6, <1>7, <1>8, <1>9,
     <1>10, <1>11, <1>12, <1>13, <1>14, <1>15, <1>16, <1>17, <1>18 DEF Next, Step

(* A step gives its thread a living service, and destroys a service only   *)
(* that nobody else knows of.                                              *)
LEMMA HandsStep == IInv /\ [Next]_vars => Hands'
<1> SUFFICES ASSUME IInv, [Next]_vars
             PROVE  Hands'
  OBVIOUS
<1> USE ServiceManagerAssumption DEF IInv, TypeOK, Hands, Making, Slot
<1>1. CASE UNCHANGED vars
  BY <1>1 DEF vars, table, services, locals
<1>2. CASE AsockInit
  BY <1>2 DEF AsockInit, EmptyTable, Quiet, services, locals
<1>3. CASE AsockDeinit
  BY <1>3 DEF AsockDeinit, Quiet, locals
<1>4. ASSUME NEW t \in Thread, NEW what \in {"create", "connect"}, NEW n \in NetNs,
             Begin(t, what, n)
      PROVE  Hands'
  BY <1>4 DEF Begin, Goto, table, services
<1>5. ASSUME NEW t \in Thread, Found(t)
      PROVE  Hands'
  <2>1. \A k \in Slot : m_services[k] \in alive \union {NoService}
    BY <1>5 DEF Found, Table, Quiet
  <2>2. PICK k \in Slot : service' = [service EXCEPT ![t] = m_services[k]]
    BY <1>5 DEF Found
  <2>3. /\ pc[t] = "lookup" /\ pc' = [pc EXCEPT ![t] = "got"]
        /\ alive' = alive /\ m_services' = m_services
    BY <1>5 DEF Found, Goto, services, table
  <2> QED
    BY <2>1, <2>2, <2>3
<1>6. ASSUME NEW t \in Thread, NotFound(t)
      PROVE  Hands'
  BY <1>6 DEF NotFound, Goto, table, services, locals
<1>7. ASSUME NEW t \in Thread, Claim(t)
      PROVE  Hands'
  BY <1>7 DEF Claim, Goto, services
<1>8. ASSUME NEW t \in Thread, ClaimNoMem(t)
      PROVE  Hands'
  BY <1>8 DEF ClaimNoMem, Leave, Goto, services
<1>9. ASSUME NEW t \in Thread, TableFull(t)
      PROVE  Hands'
  BY <1>9 DEF TableFull, Leave, Goto, table, services
<1>10. ASSUME NEW t \in Thread, Create(t)
      PROVE  Hands'
  BY <1>10 DEF Create, Goto, table
<1>11. ASSUME NEW t \in Thread, CreateFails(t)
      PROVE  Hands'
  BY <1>11 DEF CreateFails, Goto, table, services, locals
<1>12. ASSUME NEW t \in Thread, Start(t)
      PROVE  Hands'
  BY <1>12 DEF Start, Goto, table, services, locals
<1>13. ASSUME NEW t \in Thread, StartFails(t)
      PROVE  Hands'
  BY <1>13 DEF StartFails, Goto, table
<1>14. ASSUME NEW t \in Thread, FreeName(t)
      PROVE  Hands'
  BY <1>14 DEF FreeName, Goto, services, locals
<1>15. ASSUME NEW t \in Thread, ClearName(t)
      PROVE  Hands'
  BY <1>15 DEF ClearName, Leave, Goto, services
<1>16. ASSUME NEW t \in Thread, Publish(t)
      PROVE  Hands'
  BY <1>16 DEF Publish, Goto, services, locals
<1>17. ASSUME NEW t \in Thread, Use(t)
      PROVE  Hands'
  BY <1>17 DEF Use, Leave, Goto, table, services
<1>18. ASSUME NEW t \in Thread, UseFails(t)
      PROVE  Hands'
  BY <1>18 DEF UseFails, Leave, Goto, table, services
<1> HIDE DEF IInv, TypeOK, Hands, Making, Slot
<1> QED
  BY <1>1, <1>2, <1>3, <1>4, <1>5, <1>6, <1>7, <1>8, <1>9,
     <1>10, <1>11, <1>12, <1>13, <1>14, <1>15, <1>16, <1>17, <1>18 DEF Next, Step

(* What is entered in the table was in nobody else's hands, nor there; all  *)
(* threads are quiet when the table is left or emptied.                    *)
LEMMA TableStep == IInv /\ [Next]_vars => Table'
<1> SUFFICES ASSUME IInv, [Next]_vars
             PROVE  Table'
  OBVIOUS
<1> USE ServiceManagerAssumption DEF IInv, TypeOK, Hands, Table, Making, Quiet, Slot
<1>1. CASE UNCHANGED vars
  BY <1>1 DEF vars, table, services, locals
<1>2. CASE AsockInit
  BY <1>2 DEF AsockInit, EmptyTable, Quiet, services, locals
<1>3. CASE AsockDeinit
  BY <1>3 DEF AsockDeinit, Quiet, locals
<1>4. ASSUME NEW t \in Thread, NEW what \in {"create", "connect"}, NEW n \in NetNs,
             Begin(t, what, n)
      PROVE  Table'
  BY <1>4 DEF Begin, Goto, table, services
<1>5. ASSUME NEW t \in Thread, Found(t)
      PROVE  Table'
  BY <1>5 DEF Found, Goto, table, services
<1>6. ASSUME NEW t \in Thread, NotFound(t)
      PROVE  Table'
  BY <1>6 DEF NotFound, Goto, table, services, locals
<1>7. ASSUME NEW t \in Thread, Claim(t)
      PROVE  Table'
  BY <1>7 DEF Claim, Goto, services, FirstFree, AtWork
<1>8. ASSUME NEW t \in Thread, ClaimNoMem(t)
      PROVE  Table'
  BY <1>8 DEF ClaimNoMem, Leave, Goto, services, FirstFree, AtWork
<1>9. ASSUME NEW t \in Thread, TableFull(t)
      PROVE  Table'
  BY <1>9 DEF TableFull, Leave, Goto, table, services
<1>10. ASSUME NEW t \in Thread, Create(t)
      PROVE  Table'
  BY <1>10 DEF Create, Goto, table
<1>11. ASSUME NEW t \in Thread, CreateFails(t)
      PROVE  Table'
  BY <1>11 DEF CreateFails, Goto, table, services, locals
<1>12. ASSUME NEW t \in Thread, Start(t)
      PROVE  Table'
  BY <1>12 DEF Start, Goto, table, services, locals
<1>13. ASSUME NEW t \in Thread, StartFails(t)
      PROVE  Table'
  BY <1>13 DEF StartFails, Goto, table
<1>14. ASSUME NEW t \in Thread, FreeName(t)
      PROVE  Table'
  BY <1>14 DEF FreeName, Goto, services, locals
<1>15. ASSUME NEW t \in Thread, ClearName(t)
      PROVE  Table'
  BY <1>15 DEF ClearName, Leave, Goto, services
<1>16. ASSUME NEW t \in Thread, Publish(t)
      PROVE  Table'
  BY <1>16 DEF Publish, Goto, services, locals
<1>17. ASSUME NEW t \in Thread, Use(t)
      PROVE  Table'
  BY <1>17 DEF Use, Leave, Goto, table, services
<1>18. ASSUME NEW t \in Thread, UseFails(t)
      PROVE  Table'
  BY <1>18 DEF UseFails, Leave, Goto, table, services
<1> HIDE DEF IInv, TypeOK, Hands, Table, Making, Quiet, Slot
<1> QED
  BY <1>1, <1>2, <1>3, <1>4, <1>5, <1>6, <1>7, <1>8, <1>9,
     <1>10, <1>11, <1>12, <1>13, <1>14, <1>15, <1>16, <1>17, <1>18 DEF Next, Step

(* A slot is taken when it has no service, and another thread at it is     *)
(* noticed.                                                                *)
LEMMA SlotsStep == IInv /\ [Next]_vars => Slots'
<1> SUFFICES ASSUME IInv, [Next]_vars
             PROVE  Slots'
  OBVIOUS
<1> USE ServiceManagerAssumption DEF IInv, TypeOK, Hands, Table, Slots, Making, Working, Quiet, Slot
<1>1. CASE UNCHANGED vars
  BY <1>1 DEF vars, table, services, locals
<1>2. CASE AsockInit
  BY <1>2 DEF AsockInit, EmptyTable, Quiet, services, locals
<1>3. CASE AsockDeinit
  BY <1>3 DEF AsockDeinit, Quiet, locals
<1>4. ASSUME NEW t \in Thread, NEW what \in {"create", "connect"}, NEW n \in NetNs,
             Begin(t, what, n)
      PROVE  Slots'
  BY <1>4 DEF Begin, Goto, table, services
<1>5. ASSUME NEW t \in Thread, Found(t)
      PROVE  Slots'
  BY <1>5 DEF Found, Goto, table, services
<1>6. ASSUME NEW t \in Thread, NotFound(t)
      PROVE  Slots'
  BY <1>6 DEF NotFound, Goto, table, services, locals
<1>7. ASSUME NEW t \in Thread, Claim(t)
      PROVE  Slots'
  BY <1>7 DEF Claim, Goto, services, FirstFree, AtWork
<1>8. ASSUME NEW t \in Thread, ClaimNoMem(t)
      PROVE  Slots'
  BY <1>8 DEF ClaimNoMem, Leave, Goto, services, FirstFree, AtWork
<1>9. ASSUME NEW t \in Thread, TableFull(t)
      PROVE  Slots'
  BY <1>9 DEF TableFull, Leave, Goto, table, services
<1>10. ASSUME NEW t \in Thread, Create(t)
      PROVE  Slots'
  BY <1>10 DEF Create, Goto, table
<1>11. ASSUME NEW t \in Thread, CreateFails(t)
      PROVE  Slots'
  BY <1>11 DEF CreateFails, Goto, table, services, locals
<1>12. ASSUME NEW t \in Thread, Start(t)
      PROVE  Slots'
  BY <1>12 DEF Start, Goto, table, services, locals
<1>13. ASSUME NEW t \in Thread, StartFails(t)
      PROVE  Slots'
  BY <1>13 DEF StartFails, Goto, table
<1>14. ASSUME NEW t \in Thread, FreeName(t)
      PROVE  Slots'
  BY <1>14 DEF FreeName, Goto, services, locals
<1>15. ASSUME NEW t \in Thread, ClearName(t)
      PROVE  Slots'
  BY <1>15 DEF ClearName, Leave, Goto, services
<1>16. ASSUME NEW t \in Thread, Publish(t)
      PROVE  Slots'
  BY <1>16 DEF Publish, Goto, services, locals
<1>17. ASSUME NEW t \in Thread, Use(t)
      PROVE  Slots'
  BY <1>17 DEF Use, Leave, Goto, table, services
<1>18. ASSUME NEW t \in Thread, UseFails(t)
      PROVE  Slots'
  BY <1>18 DEF UseFails, Leave, Goto, table, services
<1> HIDE DEF IInv, TypeOK, Hands, Table, Slots, Making, Working, Quiet, Slot
<1> QED
  BY <1>1, <1>2, <1>3, <1>4, <1>5, <1>6, <1>7, <1>8, <1>9,
     <1>10, <1>11, <1>12, <1>13, <1>14, <1>15, <1>16, <1>17, <1>18 DEF Next, Step

(* The names of a slot are written by the threads at work on it.           *)
LEMMA NamesStep == IInv /\ [Next]_vars => Names'
<1> SUFFICES ASSUME IInv, [Next]_vars
             PROVE  Names'
  OBVIOUS
<1> USE ServiceManagerAssumption DEF IInv, TypeOK, Hands, Table, Slots, Names, Making, Working, Quiet, Slot, Name
<1>1. CASE UNCHANGED vars
  BY <1>1 DEF vars, table, services, locals
<1>2. CASE AsockInit
  BY <1>2 DEF AsockInit, EmptyTable, Quiet, services, locals
<1>3. CASE AsockDeinit
  BY <1>3 DEF AsockDeinit, Quiet, locals
<1>4. ASSUME NEW t \in Thread, NEW what \in {"create", "connect"}, NEW n \in NetNs,
             Begin(t, what, n)
      PROVE  Names'
  BY <1>4 DEF Begin, Goto, table, services
<1>5. ASSUME NEW t \in Thread, Found(t)
      PROVE  Names'
  BY <1>5 DEF Found, Goto, table, services
<1>6. ASSUME NEW t \in Thread, NotFound(t)
      PROVE  Names'
  BY <1>6 DEF NotFound, Goto, table, services, locals
<1>7. ASSUME NEW t \in Thread, Claim(t)
      PROVE  Names'
  BY <1>7 DEF Claim, Goto, services, FirstFree, AtWork
<1>8. ASSUME NEW t \in Thread, ClaimNoMem(t)
      PROVE  Names'
  BY <1>8 DEF ClaimNoMem, Leave, Goto, services, FirstFree, AtWork
<1>9. ASSUME NEW t \in Thread, TableFull(t)
      PROVE  Names'
  BY <1>9 DEF TableFull, Leave, Goto, table, services
<1>10. ASSUME NEW t \in Thread, Create(t)
      PROVE  Names'
  BY <1>10 DEF Create, Goto, table
<1>11. ASSUME NEW t \in Thread, CreateFails(t)
      PROVE  Names'
  BY <1>11 DEF CreateFails, Goto, table, services, locals
<1>12. ASSUME NEW t \in Thread, Start(t)
      PROVE  Names'
  BY <1>12 DEF Start, Goto, table, services, locals
<1>13. ASSUME NEW t \in Thread, StartFails(t)
      PROVE  Names'
  BY <1>13 DEF StartFails, Goto, table
<1>14. ASSUME NEW t \in Thread, FreeName(t)
      PROVE  Names'
  BY <1>14 DEF FreeName, Goto, services, locals
<1>15. ASSUME NEW t \in Thread, ClearName(t)
      PROVE  Names'
  BY <1>15 DEF ClearName, Leave, Goto, services
<1>16. ASSUME NEW t \in Thread, Publish(t)
      PROVE  Names'
  BY <1>16 DEF Publish, Goto, services, locals
<1>17. ASSUME NEW t \in Thread, Use(t)
      PROVE  Names'
  BY <1>17 DEF Use, Leave, Goto, table, services
<1>18. ASSUME NEW t \in Thread, UseFails(t)
      PROVE  Names'
  BY <1>18 DEF UseFails, Leave, Goto, table, services
<1> HIDE DEF IInv, TypeOK, Hands, Table, Slots, Names, Making, Working, Quiet, Slot, Name
<1> QED
  BY <1>1, <1>2, <1>3, <1>4, <1>5, <1>6, <1>7, <1>8, <1>9,
     <1>10, <1>11, <1>12, <1>13, <1>14, <1>15, <1>16, <1>17, <1>18 DEF Next, Step

(* A given service stays where it was found: a slot that has a service is  *)
(* written to only where threads met.                                      *)
LEMMA GivenStep == IInv /\ [Next]_vars => Given'
<1> SUFFICES ASSUME IInv, [Next]_vars
             PROVE  Given'
  OBVIOUS
<1> USE ServiceManagerAssumption DEF IInv, TypeOK, Hands, Table, Slots, Given, Making, Working, Quiet, Slot
<1>1. CASE UNCHANGED vars
  BY <1>1 DEF vars, table, services, locals
<1>2. CASE AsockInit
  BY <1>2 DEF AsockInit, EmptyTable, Quiet, services, locals
<1>3. CASE AsockDeinit
  BY <1>3 DEF AsockDeinit, Quiet, locals
<1>4. ASSUME NEW t \in Thread, NEW what \in {"create", "connect"}, NEW n \in NetNs,
             Begin(t, what, n)
      PROVE  Given'
  BY <1>4 DEF Begin, Goto, table, services
<1>5. ASSUME NEW t \in Thread, Found(t)
      PROVE  Given'
  BY <1>5 DEF Found, Goto, table, services
<1>6. ASSUME NEW t \in Thread, NotFound(t)
      PROVE  Given'
  BY <1>6 DEF NotFound, Goto, table, services, locals
<1>7. ASSUME NEW t \in Thread, Claim(t)
      PROVE  Given'
  BY <1>7 DEF Claim, Goto, services
<1>8. ASSUME NEW t \in Thread, ClaimNoMem(t)
      PROVE  Given'
  BY <1>8 DEF ClaimNoMem, Leave, Goto, services
<1>9. ASSUME NEW t \in Thread, TableFull(t)
      PROVE  Given'
  BY <1>9 DEF TableFull, Leave, Goto, table, services
<1>10. ASSUME NEW t \in Thread, Create(t)
      PROVE  Given'
  <2>1. ASSUME NEW u \in Thread, pc'[u] = "got" /\ service'[u] # NoService
        PROVE  contended' # {} \/ \E k \in Slot : m_services'[k] = service'[u]
    <3>1. u # t /\ pc[u] = "got" /\ service'[u] = service[u]
      BY <1>10, <2>1 DEF Create, Goto
    <3>2. contended' = contended /\ m_services' = m_services
      BY <1>10 DEF Create, table
    <3> QED
      BY <2>1, <3>1, <3>2
  <2> QED
    BY <2>1
<1>11. ASSUME NEW t \in Thread, CreateFails(t)
      PROVE  Given'
  BY <1>11 DEF CreateFails, Goto, table, services, locals
<1>12. ASSUME NEW t \in Thread, Start(t)
      PROVE  Given'
  BY <1>12 DEF Start, Goto, table, services, locals
<1>13. ASSUME NEW t \in Thread, StartFails(t)
      PROVE  Given'
  BY <1>13 DEF StartFails, Goto, table
<1>14. ASSUME NEW t \in Thread, FreeName(t)
      PROVE  Given'
  BY <1>14 DEF FreeName, Goto, services, locals
<1>15. ASSUME NEW t \in Thread, ClearName(t)
      PROVE  Given'
  BY <1>15 DEF ClearName, Leave, Goto, services
<1>16. ASSUME NEW t \in Thread, Publish(t)
      PROVE  Given'
  <2>1. ASSUME NEW u \in Thread, pc'[u] = "got" /\ service'[u] # NoService
        PROVE  contended' # {} \/ \E k \in Slot : m_services'[k] = service'[u]
    <3>1. /\ contended' = contended /\ service' = service /\ slot[t] \in Slot
          /\ m_services' = [m_services EXCEPT ![slot[t]] = service[t]]
      BY <1>16 DEF Publish, locals
    <3>2. CASE u = t
      BY <3>1, <3>2
    <3>3. CASE u # t
      <4>1. pc[u] = "got" /\ service[u] # NoService
        BY <1>16, <2>1, <3>1, <3>3 DEF Publish, Goto
      <4>2. slot[t] \in contended \/ m_services[slot[t]] = NoService
        BY <1>16 DEF Publish
      <4>3. CASE contended # {}
        BY <3>1, <4>3
      <4>4. CASE contended = {}
        <5>1. PICK k \in Slot : m_services[k] = service[u]
          BY <4>1, <4>4
        <5>2. k # slot[t]
          BY <4>1, <4>2, <4>4, <5>1
        <5> QED
          BY <3>1, <5>1, <5>2
      <4> QED
        BY <4>3, <4>4
    <3> QED
      BY <3>2, <3>3
  <2> QED
    BY <2>1
<1>17. ASSUME NEW t \in Thread, Use(t)
      PROVE  Given'
  BY <1>17 DEF Use, Leave, Goto, table, services
<1>18. ASSUME NEW t \in Thread, UseFails(t)
      PROVE  Given'
  BY <1>18 DEF UseFails, Leave, Goto, table, services
<1> HIDE DEF IInv, TypeOK, Hands, Table, Slots, Given, Making, Working, Quiet, Slot
<1> QED
  BY <1>1, <1>2, <1>3, <1>4, <1>5, <1>6, <1>7, <1>8, <1>9,
     <1>10, <1>11, <1>12, <1>13, <1>14, <1>15, <1>16, <1>17, <1>18 DEF Next, Step

(* A name without a service goes when its thread leaves the slot.          *)
LEMMA PendingStep == IInv /\ [Next]_vars => PendingNameHasWorker'
<1> SUFFICES ASSUME IInv, [Next]_vars
             PROVE  PendingNameHasWorker'
  OBVIOUS
<1> USE ServiceManagerAssumption DEF IInv, TypeOK, Hands, Table, PendingNameHasWorker, AtWork, Making, Working, Quiet, Slot, Name
<1>1. CASE UNCHANGED vars
  BY <1>1 DEF vars, table, services, locals
<1>2. CASE AsockInit
  BY <1>2 DEF AsockInit, EmptyTable, Quiet, services, locals
<1>3. CASE AsockDeinit
  BY <1>3 DEF AsockDeinit, Quiet, locals
<1>4. ASSUME NEW t \in Thread, NEW what \in {"create", "connect"}, NEW n \in NetNs,
             Begin(t, what, n)
      PROVE  PendingNameHasWorker'
  BY <1>4 DEF Begin, Goto, table, services
<1>5. ASSUME NEW t \in Thread, Found(t)
      PROVE  PendingNameHasWorker'
  BY <1>5 DEF Found, Goto, table, services
<1>6. ASSUME NEW t \in Thread, NotFound(t)
      PROVE  PendingNameHasWorker'
  BY <1>6 DEF NotFound, Goto, table, services, locals
<1>7. ASSUME NEW t \in Thread, Claim(t)
      PROVE  PendingNameHasWorker'
  <2>1. ASSUME ready', NEW j \in Slot, m_service_nms'[j] # NoName, m_services'[j] = NoService
        PROVE  \E u \in Thread : AtWork(u, j)'
    <3>1. /\ ready /\ m_services' = m_services /\ pc[t] = "claim"
      BY <1>7, <2>1 DEF Claim
    <3>2. CASE slot'[t] = j
      BY <1>7, <3>2 DEF Claim, Goto, AtWork
    <3>3. CASE slot'[t] # j
      <4>1. m_service_nms'[j] = m_service_nms[j]
        BY <1>7, <3>3 DEF Claim
      <4>2. PICK u \in Thread : AtWork(u, j)
        BY <2>1, <3>1, <4>1
      <4>3. u # t
        BY <3>1, <4>2 DEF AtWork
      <4> QED
        BY <1>7, <4>2, <4>3 DEF Claim, Goto, AtWork
    <3> QED
      BY <3>2, <3>3
  <2> QED
    BY <2>1
<1>8. ASSUME NEW t \in Thread, ClaimNoMem(t)
      PROVE  PendingNameHasWorker'
  <2>1. ASSUME ready', NEW j \in Slot, m_service_nms'[j] # NoName, m_services'[j] = NoService
        PROVE  \E u \in Thread : AtWork(u, j)'
    <3>1. /\ ready /\ m_services' = m_services /\ pc[t] = "claim"
      BY <1>8, <2>1 DEF ClaimNoMem
    <3>2. m_service_nms'[j] = m_service_nms[j]
      BY <1>8, <2>1 DEF ClaimNoMem
    <3>3. PICK u \in Thread : AtWork(u, j)
      BY <2>1, <3>1, <3>2
    <3>4. u # t
      BY <3>1, <3>3 DEF AtWork
    <3> QED
      BY <1>8, <3>3, <3>4 DEF ClaimNoMem, Leave, Goto, AtWork
  <2> QED
    BY <2>1
<1>9. ASSUME NEW t \in Thread, TableFull(t)
      PROVE  PendingNameHasWorker'
  BY <1>9 DEF TableFull, Leave, Goto, table, services
<1>10. ASSUME NEW t \in Thread, Create(t)
      PROVE  PendingNameHasWorker'
  BY <1>10 DEF Create, Goto, table
<1>11. ASSUME NEW t \in Thread, CreateFails(t)
      PROVE  PendingNameHasWorker'
  BY <1>11 DEF CreateFails, Goto, table, services, locals
<1>12. ASSUME NEW t \in Thread, Start(t)
      PROVE  PendingNameHasWorker'
  BY <1>12 DEF Start, Goto, table, services, locals
<1>13. ASSUME NEW t \in Thread, StartFails(t)
      PROVE  PendingNameHasWorker'
  BY <1>13 DEF StartFails, Goto, table
<1>14. ASSUME NEW t \in Thread, FreeName(t)
      PROVE  PendingNameHasWorker'
  BY <1>14 DEF FreeName, Goto, services, locals
<1>15. ASSUME NEW t \in Thread, ClearName(t)
      PROVE  PendingNameHasWorker'
  BY <1>15 DEF ClearName, Leave, Goto, services
<1>16. ASSUME NEW t \in Thread, Publish(t)
      PROVE  PendingNameHasWorker'
  BY <1>16 DEF Publish, Goto, services, locals
<1>17. ASSUME NEW t \in Thread, Use(t)
      PROVE  PendingNameHasWorker'
  BY <1>17 DEF Use, Leave, Goto, table, services
<1>18. ASSUME NEW t \in Thread, UseFails(t)
      PROVE  PendingNameHasWorker'
  <2>1. /\ pc[t] = "got" /\ pc' = [pc EXCEPT ![t] = "idle"]
        /\ slot' = [slot EXCEPT ![t] = 1]
        /\ UNCHANGED <<m_services, m_service_nms, ready>>
    BY <1>18 DEF UseFails, Leave, Goto, table
  <2> QED
    BY <2>1
<1> HIDE DEF IInv, TypeOK, Hands, Table, PendingNameHasWorker, AtWork, Making, Working, Quiet, Slot, Name
<1> QED
  BY <1>1, <1>2, <1>3, <1>4, <1>5, <1>6, <1>7, <1>8, <1>9,
     <1>10, <1>11, <1>12, <1>13, <1>14, <1>15, <1>16, <1>17, <1>18 DEF Next, Step

(* A service found under a name serves that namespace.                     *)
LEMMA RightStep == IInv /\ [Next]_vars => RightNamespace'
<1> SUFFICES ASSUME IInv, [Next]_vars
             PROVE  RightNamespace'
  OBVIOUS
<1> USE ServiceManagerAssumption DEF IInv, TypeOK, Hands, Table, Slots, Names, RightNamespace, Making, Working, Quiet, Slot, Name
<1>1. CASE UNCHANGED vars
  BY <1>1 DEF vars, table, services, locals
<1>2. CASE AsockInit
  BY <1>2 DEF AsockInit, EmptyTable, Quiet, services, locals
<1>3. CASE AsockDeinit
  BY <1>3 DEF AsockDeinit, Quiet, locals
<1>4. ASSUME NEW t \in Thread, NEW what \in {"create", "connect"}, NEW n \in NetNs,
             Begin(t, what, n)
      PROVE  RightNamespace'
  BY <1>4 DEF Begin, Goto, table, services
<1>5. ASSUME NEW t \in Thread, Found(t)
      PROVE  RightNamespace'
  BY <1>5 DEF Found, Goto, table, services, Equal
<1>6. ASSUME NEW t \in Thread, NotFound(t)
      PROVE  RightNamespace'
  BY <1>6 DEF NotFound, Goto, table, services, locals
<1>7. ASSUME NEW t \in Thread, Claim(t)
      PROVE  RightNamespace'
  BY <1>7 DEF Claim, Goto, services, FirstFree, AtWork
<1>8. ASSUME NEW t \in Thread, ClaimNoMem(t)
      PROVE  RightNamespace'
  BY <1>8 DEF ClaimNoMem, Leave, Goto, services, FirstFree, AtWork
<1>9. ASSUME NEW t \in Thread, TableFull(t)
      PROVE  RightNamespace'
  BY <1>9 DEF TableFull, Leave, Goto, table, services
<1>10. ASSUME NEW t \in Thread, Create(t)
      PROVE  RightNamespace'
  BY <1>10 DEF Create, Goto, table
<1>11. ASSUME NEW t \in Thread, CreateFails(t)
      PROVE  RightNamespace'
  BY <1>11 DEF CreateFails, Goto, table, services, locals
<1>12. ASSUME NEW t \in Thread, Start(t)
      PROVE  RightNamespace'
  BY <1>12 DEF Start, Goto, table, services, locals
<1>13. ASSUME NEW t \in Thread, StartFails(t)
      PROVE  RightNamespace'
  BY <1>13 DEF StartFails, Goto, table
<1>14. ASSUME NEW t \in Thread, FreeName(t)
      PROVE  RightNamespace'
  BY <1>14 DEF FreeName, Goto, services, locals
<1>15. ASSUME NEW t \in Thread, ClearName(t)
      PROVE  RightNamespace'
  BY <1>15 DEF ClearName, Leave, Goto, services
<1>16. ASSUME NEW t \in Thread, Publish(t)
      PROVE  RightNamespace'
  BY <1>16 DEF Publish, Goto, services, locals
<1>17. ASSUME NEW t \in Thread, Use(t)
      PROVE  RightNamespace'
  BY <1>17 DEF Use, Leave, Goto, table, services
<1>18. ASSUME NEW t \in Thread, UseFails(t)
      PROVE  RightNamespace'
  BY <1>18 DEF UseFails, Leave, Goto, table, services
<1> HIDE DEF IInv, TypeOK, Hands, Table, Slots, Names, RightNamespace, Making, Working, Quiet, Slot, Name
<1> QED
  BY <1>1, <1>2, <1>3, <1>4, <1>5, <1>6, <1>7, <1>8, <1>9,
     <1>10, <1>11, <1>12, <1>13, <1>14, <1>15, <1>16, <1>17, <1>18 DEF Next, Step

-----------------------------------------------------------------------------
(* The named parts hold together, as each needs the others.                *)
THEOREM Invariant == Spec => []IInv
<1>1. IInv /\ [Next]_vars => IInv'
  BY TypeStep, HandsStep, TableStep, SlotsStep, NamesStep, GivenStep, PendingStep,
     RightStep DEF IInv
<1> QED
  BY InitInv, <1>1, PTL DEF Spec

(* A failed create or start leaves no name behind, whatever other threads  *)
(* do meanwhile (asock_service_manager.c:48-60).                           *)
THEOREM PendingCorrect == Spec => []PendingNameHasWorker
<1>1. IInv => PendingNameHasWorker
  BY DEF IInv
<1> QED
  BY Invariant, <1>1, PTL

(* No thread is given a destroyed service, through any number of           *)
(* asock_deinit and asock_init (asock_service_manager.c:69-78).            *)
THEOREM AliveCorrect == Spec => []GivenIsAlive
<1>1. IInv => GivenIsAlive
  BY DEF IInv, Hands, Table, GivenIsAlive
<1> QED
  BY Invariant, <1>1, PTL

(* Where no two threads took a slot at once, asocks get a service of their *)
(* own namespace (asock_service_manager.c:15-67).                          *)
THEOREM NamespaceCorrect == Spec => []RightNamespace
<1>1. IInv => RightNamespace
  BY DEF IInv
<1> QED
  BY Invariant, <1>1, PTL

(* A step takes a running service from a hand or the table only to destroy *)
(* it, or leaves it in the other.                                          *)
LEMMA LostStep ==
    ASSUME IInv, [Next]_vars, NEW s \in alive', s \in alive => Kept(s)
    PROVE  Kept(s)' \/ contended' # {}
<1> USE ServiceManagerAssumption DEF IInv, TypeOK, Hands, Table, Slots, Given, Making, Working, Kept, Slot
<1>1. CASE UNCHANGED vars
  BY <1>1 DEF vars, table, services, locals
<1>2. CASE AsockInit
  BY <1>2 DEF AsockInit, EmptyTable, Quiet, services, locals
<1>3. CASE AsockDeinit
  BY <1>3 DEF AsockDeinit, Quiet, locals
<1>4. ASSUME NEW t \in Thread, NEW what \in {"create", "connect"}, NEW n \in NetNs,
             Begin(t, what, n)
      PROVE  Kept(s)' \/ contended' # {}
  BY <1>4 DEF Begin, Goto, table, services
<1>5. ASSUME NEW t \in Thread, Found(t)
      PROVE  Kept(s)' \/ contended' # {}
  BY <1>5 DEF Found, Goto, table, services
<1>6. ASSUME NEW t \in Thread, NotFound(t)
      PROVE  Kept(s)' \/ contended' # {}
  BY <1>6 DEF NotFound, Goto, table, services, locals
<1>7. ASSUME NEW t \in Thread, Claim(t)
      PROVE  Kept(s)' \/ contended' # {}
  BY <1>7 DEF Claim, Goto, services
<1>8. ASSUME NEW t \in Thread, ClaimNoMem(t)
      PROVE  Kept(s)' \/ contended' # {}
  BY <1>8 DEF ClaimNoMem, Leave, Goto, services
<1>9. ASSUME NEW t \in Thread, TableFull(t)
      PROVE  Kept(s)' \/ contended' # {}
  <2>1. pc[t] = "claim" /\ service' = [service EXCEPT ![t] = NoService]
        /\ UNCHANGED <<m_services, alive, contended>>
    BY <1>9 DEF TableFull, Leave, table, services
  <2>2. service[t] = NoService /\ service \in [Thread -> Service \union {NoService}]
    BY <2>1
  <2>3. service' = service
    <3> HIDE DEF IInv
    <3> QED
      BY <2>1, <2>2
  <2> QED
    BY <2>1, <2>3
<1>10. ASSUME NEW t \in Thread, Create(t)
      PROVE  Kept(s)' \/ contended' # {}
  <2>1. PICK made \in Service : /\ made \notin alive
                              /\ alive' = alive \union {made}
                              /\ service' = [service EXCEPT ![t] = made]
    BY <1>10 DEF Create
  <2>2. pc[t] = "create" /\ m_services' = m_services /\ service[t] = NoService
    BY <1>10 DEF Create, table
  <2>3. CASE s = made
    BY <2>1, <2>3
  <2>4. CASE s \in alive
    <3>1. s # NoService
      BY <2>4
    <3> QED
      BY <2>1, <2>2, <2>4, <3>1
  <2> QED
    BY <2>1, <2>3, <2>4
<1>11. ASSUME NEW t \in Thread, CreateFails(t)
      PROVE  Kept(s)' \/ contended' # {}
  BY <1>11 DEF CreateFails, Goto, table, services, locals
<1>12. ASSUME NEW t \in Thread, Start(t)
      PROVE  Kept(s)' \/ contended' # {}
  BY <1>12 DEF Start, Goto, table, services, locals
<1>13. ASSUME NEW t \in Thread, StartFails(t)
      PROVE  Kept(s)' \/ contended' # {}
  BY <1>13 DEF StartFails, Goto, table
<1>14. ASSUME NEW t \in Thread, FreeName(t)
      PROVE  Kept(s)' \/ contended' # {}
  BY <1>14 DEF FreeName, Goto, services, locals
<1>15. ASSUME NEW t \in Thread, ClearName(t)
      PROVE  Kept(s)' \/ contended' # {}
  BY <1>15 DEF ClearName, Leave, Goto, services
<1>16. ASSUME NEW t \in Thread, Publish(t)
      PROVE  Kept(s)' \/ contended' # {}
  <2>1. /\ pc[t] = "publish" /\ m_services' = [m_services EXCEPT ![slot[t]] = service[t]]
        /\ UNCHANGED <<alive, slot, service, contended>>
    BY <1>16 DEF Publish, services, locals
  <2>2. slot[t] \in contended \/ m_services[slot[t]] = NoService
    BY <2>1
  <2>3. m_services'[slot[t]] = service[t]
    BY <2>1
  <2> QED
    BY <2>1, <2>2, <2>3
<1>17. ASSUME NEW t \in Thread, Use(t)
      PROVE  Kept(s)' \/ contended' # {}
  BY <1>17 DEF Use, Leave, Goto, table, services
<1>18. ASSUME NEW t \in Thread, UseFails(t)
      PROVE  Kept(s)' \/ contended' # {}
  BY <1>18 DEF UseFails, Leave, Goto, table, services
<1> HIDE DEF IInv, TypeOK, Hands, Table, Slots, Given, Making, Working, Kept, Slot
<1> QED
  BY <1>1, <1>2, <1>3, <1>4, <1>5, <1>6, <1>7, <1>8, <1>9,
     <1>10, <1>11, <1>12, <1>13, <1>14, <1>15, <1>16, <1>17, <1>18 DEF Next, Step

(* A running service stays within reach of asock_deinit, unless two        *)
(* threads met at its slot (asock_service_manager.c:29-63).                *)
THEOREM NothingLostCorrect == Spec => NothingLost
<1>1. IInv /\ [Next]_vars =>
        [\A s \in alive' : (s \in alive => Kept(s)) => Kept(s)' \/ contended' # {}]_vars
  BY LostStep
<1> QED
  BY Invariant, <1>1, PTL DEF Spec, NothingLost
=============================================================================
