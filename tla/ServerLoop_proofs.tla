-------------------------- MODULE ServerLoop_proofs --------------------------
(***************************************************************************)
(* For every number of asocks and descriptors: what the server, its users  *)
(* and the list of those to be accepted hold was not freed, what was not   *)
(* freed can be reached, and sockets and bytes are a connection's own      *)
(* unless another asock has its number.                                    *)
(*                                                                         *)
(* The lemmas about lists, and about the steps that the server shares with *)
(* the service, are those of ServiceLoop_proofs.                           *)
(***************************************************************************)
EXTENDS ServerLoop, SequenceTheorems, FiniteSetTheorems, TLAPS

L == INSTANCE ServiceLoop_proofs

(* Where references are: with the user, in the list of those to be         *)
(* accepted (where the reference is already the user's), in the server's   *)
(* own list; an asock that was just put there is not counted yet.          *)
Users(a) == IF UserHolds(a) THEN 1 ELSE 0
Waits(a) == L!All(m_new_connections, a)
Here(a) == L!Times(m_connections, Served, a)
Pending(a) == IF pc = "incr" /\ cur = a THEN 1 ELSE 0

(* Every place has its reference.  Where a user has come into play, or can *)
(* still, there are no others; a connection that failed before it was      *)
(* accepted may be left with one more than its places.                     *)
Counted ==
    \A a \in Asock :
        /\ con[a].m_ref_counter >= Users(a) + Waits(a) + Here(a) - Pending(a)
        /\ user[a] # "none" \/ Waits(a) > 0 =>
            con[a].m_ref_counter = Users(a) + Waits(a) + Here(a) - Pending(a)
        /\ Waits(a) <= IF user[a] = "none" THEN 1 ELSE 0
        /\ Here(a) <= 1
        /\ con[a].life = "unborn" => user[a] = "none" /\ Here(a) = 0

(* Without a user, what is live is served, has failed, or is let be.       *)
Known ==
    \A a \in Asock :
        user[a] = "none" /\ con[a].life = "live" =>
            Here(a) > 0 \/ con[a].m_state = "Failed" \/ pc \in {"drop", "exited"}

(* What the worker has in hand.                                            *)
Places ==
    /\ L!Indexed
    /\ pc = "read" => cur # ListenFd
    /\ pc = "incr" => cur \in Asock /\ Here(cur) > 0

(* An open number is that of the asock it was opened for, which is live.   *)
Opened ==
    /\ \A f \in FD \ {ListenFd} :
        files[f] # Free =>
            \E a \in Asock :
                files[f] = <<a, 0>> /\ con[a].life = "live" /\ con[a].m_sock_desc = f
    /\ \A a \in Asock : con[a].life = "live" => con[a].m_sock_desc \in FD

IInv == TypeOK /\ L!Sound(con) /\ Counted /\ Known /\ Places /\ Opened

-----------------------------------------------------------------------------
(* What the service's lemmas assume holds of the server's constants.       *)
LEMMA Assumptions ==
    /\ Asock \subseteq Nat /\ FD \subseteq Nat
    /\ MaxOut \in Nat /\ MaxConnects \in Nat
    /\ Free \notin L!Socket
    /\ Stops \in BOOLEAN
BY AsockAssumption, FreeAssumption, ServerLoopAssumption DEF Socket, L!Socket

(* The operators of Asock are the same in both loops.                      *)

LEMMA Same ==
    /\ \A heap, a : Dropped(heap, a) = L!Dropped(heap, a)
    /\ \A table, f : ClosedFile(table, f) = L!ClosedFile(table, f)
    /\ \A heap, table, a : DroppedFiles(heap, table, a) = L!DroppedFiles(heap, table, a)
    /\ ConType = L!ConType /\ Socket = L!Socket /\ NoFd = L!NoFd
    /\ \A T : AsockTypeOK(T) <=> L!AsockTypeOK(T)
BY DEF Dropped, L!Dropped, ClosedFile, L!ClosedFile, DroppedFiles, L!DroppedFiles,
       ConType, L!ConType, Socket, L!Socket, NoFd, L!NoFd, AsockTypeOK, L!AsockTypeOK

LEMMA SameNext == \A T : AsockTypeOK(T)' <=> L!AsockTypeOK(T)'
BY DEF ConType, L!ConType, Socket, L!Socket, NoFd, L!NoFd, AsockTypeOK, L!AsockTypeOK

LEMMA SameClose == \A sockd : CloseConnection(sockd) <=> L!CloseConnection(sockd)
<1> SUFFICES ASSUME NEW sockd
             PROVE  CloseConnection(sockd) <=> L!CloseConnection(sockd)
  OBVIOUS
<1>1. IndexBySockDesc(m_connections, sockd) = L!IndexBySockDesc(m_connections, sockd)
  BY DEF IndexBySockDesc, L!IndexBySockDesc, SelectInSeq, L!SelectInSeq, Min, L!Min
<1>2. \A seq, k : RemoveAt(seq, k) = L!RemoveAt(seq, k)
  BY DEF RemoveAt, L!RemoveAt
<1> QED
  BY <1>1, <1>2, Same
     DEF CloseConnection, L!CloseConnection, RemoveFirstMatch, L!RemoveFirstMatch,
         SelectInSeq, L!SelectInSeq, Min, L!Min

LEMMA SameQuiet ==
    ASSUME \/ SendNothing \/ SendSome \/ HeadUnlock \/ SendDone \/ CheckDone
           \/ EpollWait(Monitored)
           \/ \E f \in FD : EventIn(f)
           \/ ReadSome \/ ReadAgain \/ EventsDone
    PROVE  \/ L!SendNothing \/ L!SendSome \/ L!HeadUnlock \/ L!SendDone \/ L!CheckDone
           \/ \E M : L!EpollWait(M)
           \/ \E f \in FD : L!EventIn(f)
           \/ L!ReadSome \/ L!ReadAgain \/ L!EventsDone
<1> USE DEF lists, L!lists, Goto, L!Goto, NoFd, L!NoFd
<1>1. SendNothing => L!SendNothing
  BY DEF SendNothing, L!SendNothing
<1>2. SendSome => L!SendSome
  BY DEF SendSome, L!SendSome, Sendable, L!Sendable
<1>3. HeadUnlock => L!HeadUnlock
  BY DEF HeadUnlock, L!HeadUnlock
<1>4. SendDone => L!SendDone
  BY DEF SendDone, L!SendDone, StartAt, L!StartAt
<1>5. CheckDone => L!CheckDone
  BY DEF CheckDone, L!CheckDone
<1>6. EpollWait(Monitored) => L!EpollWait(Monitored)
  BY DEF EpollWait, L!EpollWait
<1>7. \A f : EventIn(f) => L!EventIn(f)
  BY DEF EventIn, L!EventIn
<1>8. ReadSome => L!ReadSome
  BY DEF ReadSome, L!ReadSome, IndexBySockDesc, L!IndexBySockDesc,
         SelectInSeq, L!SelectInSeq, Min, L!Min
<1>9. ReadAgain => L!ReadAgain
  BY DEF ReadAgain, L!ReadAgain
<1>10. EventsDone => L!EventsDone
  BY DEF EventsDone, L!EventsDone
<1> QED
  BY <1>1, <1>2, <1>3, <1>4, <1>5, <1>6, <1>7, <1>8, <1>9, <1>10

LEMMA SameCloses ==
    ASSUME SendFails \/ CheckForClose \/ ReadEnds \/ \E f \in FD : EventClose(f)
    PROVE  L!SendFails \/ L!CheckForClose \/ L!ReadEnds \/ \E f \in FD : L!EventClose(f)
<1> USE DEF lists, L!lists, Goto, L!Goto, NoFd, L!NoFd
<1>1. SendFails => L!SendFails
  BY SameClose DEF SendFails, L!SendFails, Sendable, L!Sendable
<1>2. CheckForClose => L!CheckForClose
  BY SameClose DEF CheckForClose, L!CheckForClose
<1>3. ReadEnds => L!ReadEnds
  BY SameClose DEF ReadEnds, L!ReadEnds
<1>4. \A f : EventClose(f) => L!EventClose(f)
  BY SameClose DEF EventClose, L!EventClose
<1> QED
  BY <1>1, <1>2, <1>3, <1>4

-----------------------------------------------------------------------------
(* Counting                                                                *)

(* The worker's list counts as a whole until it drops it.                  *)
LEMMA WholeList ==
    ASSUME pc \notin {"drop", "exited"}
    PROVE  \A a : Here(a) = L!All(m_connections, a)
BY DEF Here, L!All, Served, Remaining

LEMMA WholeListNext ==
    ASSUME pc' \notin {"drop", "exited"}
    PROVE  \A a : Here(a)' = L!All(m_connections', a)
BY DEF Here, L!All, L!Times, Served, Remaining

LEMMA ServedPlaces ==
    ASSUME TypeOK, L!Indexed
    PROVE  Served \subseteq DOMAIN m_connections /\ L!IsFiniteSet(Served)
<1>1. /\ DOMAIN m_connections = 1 .. Len(m_connections)
      /\ Len(m_connections) \in Nat /\ i \in Nat
      /\ L!IsFiniteSet(1 .. Len(m_connections))
  BY Assumptions, L!PlacesFinite DEF TypeOK, AsockTypeOK
<1>2. Served \subseteq 1 .. Len(m_connections)
  BY <1>1 DEF Served, Remaining, L!Indexed
<1> QED
  BY <1>1, <1>2, Assumptions, L!FS_Subset

(* Counts are numbers, and what is counted is in the lists.                *)
LEMMA CountTypes ==
    ASSUME TypeOK, L!Indexed, NEW a \in Asock
    PROVE  /\ Waits(a) \in Nat /\ Here(a) \in Nat
           /\ Users(a) \in {0, 1} /\ Pending(a) \in {0, 1}
           /\ con[a].m_ref_counter \in Nat
           /\ Serves(a) <=> Here(a) > 0
           /\ (\E k \in DOMAIN m_new_connections : m_new_connections[k] = a) <=> Waits(a) > 0
<1>1. m_new_connections \in Seq(Asock)
  BY DEF TypeOK, AsockTypeOK
<1>2. /\ Waits(a) \in Nat
      /\ (\E k \in DOMAIN m_new_connections : m_new_connections[k] = a) <=> Waits(a) > 0
  BY <1>1, Assumptions, L!AllType DEF Waits
<1>3. Here(a) \in Nat /\ (Serves(a) <=> Here(a) > 0)
  BY ServedPlaces, Assumptions, L!TimesType DEF Here, Serves
<1>4. con[a].m_ref_counter \in Nat
  BY DEF TypeOK, AsockTypeOK, ConType
<1> QED
  BY <1>2, <1>3, <1>4 DEF Users, Pending

-----------------------------------------------------------------------------
(* What follows from the invariant                                         *)

LEMMA HeldFollows == IInv => HeldIsLive
<1> SUFFICES ASSUME IInv PROVE HeldIsLive
  OBVIOUS
<1> USE DEF IInv
<1>1. \A a \in Asock : con[a].m_ref_counter > 0 <=> con[a].life = "live"
  BY DEF L!Sound
<1>2. \A a \in Asock :
        /\ Waits(a) \in Nat /\ Here(a) \in Nat
        /\ Users(a) \in {0, 1} /\ Pending(a) \in {0, 1}
        /\ con[a].m_ref_counter \in Nat
  BY CountTypes DEF Places
<1>3. ASSUME NEW a \in Asock, UserHolds(a)
      PROVE  con[a].life = "live"
  <2>1. Users(a) = 1 /\ user[a] # "none" /\ Pending(a) <= Here(a)
    BY <1>2, <1>3 DEF Users, UserHolds, Pending, Places
  <2>2. con[a].m_ref_counter > 0
    BY <1>2, <2>1 DEF Counted
  <2> QED
    BY <1>1, <2>2
<1>4. ASSUME NEW k \in DOMAIN m_new_connections
      PROVE  con[m_new_connections[k]].life = "live"
  <2> DEFINE a == m_new_connections[k]
  <2>1. a \in Asock
    BY ElementOfSeq, Assumptions, L!PlacesFinite DEF TypeOK, AsockTypeOK
  <2>2. Waits(a) > 0 /\ Pending(a) <= Here(a)
    BY <1>2, <2>1, CountTypes DEF Pending, Places
  <2> HIDE DEF a
  <2>3. con[a].m_ref_counter > 0
    BY <1>2, <2>1, <2>2 DEF Counted
  <2> QED
    BY <1>1, <2>1, <2>3 DEF a
<1>5. ASSUME NEW k \in Served, ~(pc = "incr" /\ cur = m_connections[k])
      PROVE  con[m_connections[k]].life = "live"
  <2> DEFINE a == m_connections[k]
  <2>1. a \in Asock
    BY ServedPlaces, ElementOfSeq, Assumptions, L!PlacesFinite
    DEF Places, TypeOK, AsockTypeOK
  <2>2. Here(a) > 0
    BY <2>1, CountTypes DEF Places, Serves
  <2>3. Pending(a) = 0
    BY <1>5 DEF Pending
  <2> HIDE DEF a
  <2>4. con[a].m_ref_counter > 0
    BY <1>2, <2>1, <2>2, <2>3 DEF Counted
  <2> QED
    BY <1>1, <2>1, <2>4 DEF a
<1> QED
  BY <1>3, <1>4, <1>5 DEF HeldIsLive

LEMMA LiveFollows == IInv => LiveIsReachable
<1> SUFFICES ASSUME IInv, NEW a \in Asock, con[a].life = "live", ~UserHolds(a)
             PROVE  \/ Serves(a)
                    \/ \E k \in DOMAIN m_new_connections : m_new_connections[k] = a
                    \/ /\ user[a] = "none"
                       /\ con[a].m_state = "Failed" \/ pc \in {"drop", "exited"}
  BY DEF LiveIsReachable
<1> USE DEF IInv
<1>1. /\ Waits(a) \in Nat /\ Here(a) \in Nat
      /\ Pending(a) \in {0, 1} /\ con[a].m_ref_counter \in Nat
      /\ Serves(a) <=> Here(a) > 0
      /\ (\E k \in DOMAIN m_new_connections : m_new_connections[k] = a) <=> Waits(a) > 0
  BY CountTypes DEF Places
<1>2. CASE user[a] = "none"
  BY <1>1, <1>2 DEF Known
<1>3. CASE user[a] # "none"
  <2>1. Users(a) = 0
    BY DEF Users
  <2>2. con[a].m_ref_counter > 0
    BY DEF L!Sound
  <2>3. Waits(a) > 0 \/ Here(a) > 0
    BY <1>1, <1>3, <2>1, <2>2 DEF Counted
  <2> QED
    BY <1>1, <2>3
<1> QED
  BY <1>2, <1>3

-----------------------------------------------------------------------------
(* The steps                                                               *)

(* A step that moves no reference, opens and closes nothing.               *)
LEMMA Keeps ==
    ASSUME IInv, TypeOK', L!Indexed', L!Quiet(con, con'), UNCHANGED <<files, lists>>,
           Served' = Served,
           pc \in {"drop", "exited"} => pc' \in {"drop", "exited"},
           pc' = "incr" <=> pc = "incr",
           pc = "incr" => cur' = cur,
           pc' = "read" => cur' # ListenFd,
           \A a \in Asock : Users(a)' = Users(a) /\ (user'[a] = "none" <=> user[a] = "none")
    PROVE  IInv'
<1> USE DEF IInv, L!Quiet
<1>1. \A a : Waits(a)' = Waits(a) /\ Here(a)' = Here(a) /\ Pending(a)' = Pending(a)
  BY DEF Waits, Here, Pending, L!All, L!Times, lists
<1>2. L!Sound(con)'
  BY DEF L!Sound
<1>3. Counted'
  BY <1>1 DEF Counted
<1>4. Known'
  BY <1>1 DEF Known
<1>5. Places'
  BY <1>1 DEF Places
<1>6. Opened'
  BY DEF Opened
<1> QED
  BY <1>2, <1>3, <1>4, <1>5, <1>6

(* The file that is read is a connection's.                                *)
LEMMA ReadsConnection ==
    ASSUME IInv, pc = "read", files[cur] # Free
    PROVE  \E a \in Asock : files[cur] = <<a, 0>> /\ con[a].life = "live"
                            /\ con[a].m_sock_desc = cur
BY DEF IInv, Places, L!Indexed, Opened

(* The steps that send, receive and wait.                                  *)
LEMMA QuietSteps ==
    ASSUME IInv,
           \/ SendNothing \/ SendSome \/ HeadUnlock \/ SendDone \/ CheckDone
           \/ EpollWait(Monitored)
           \/ \E f \in FD \ {ListenFd} : EventIn(f)
           \/ ReadSome \/ ReadAgain \/ EventsDone
    PROVE  IInv'
<1> DEFINE T == Socket \union {Listening}
<1>1. L!AsockTypeOK(T) /\ L!Indexed
  BY Same DEF IInv, TypeOK, Places
<1>2. pc = "read" /\ files[cur] # Free => files[cur] \in L!Socket
  <2>1. \A a \in Asock : <<a, 0>> \in Socket
    BY Assumptions DEF Socket
  <2> QED
    BY <2>1, ReadsConnection, Same
<1>3. \/ L!SendNothing \/ L!SendSome \/ L!HeadUnlock \/ L!SendDone \/ L!CheckDone
      \/ \E M : L!EpollWait(M)
      \/ \E f \in FD : L!EventIn(f)
      \/ L!ReadSome \/ L!ReadAgain \/ L!EventsDone
  BY SameQuiet
<1> HIDE DEF T
<1>4. /\ L!AsockTypeOK(T)' /\ L!Indexed' /\ L!Quiet(con, con')
      /\ pc \in L!LoopStage /\ pc' \in L!LoopStage
      /\ UNCHANGED <<user, files, lists>>
  BY <1>1, <1>2, <1>3, Assumptions, L!SharedQuiet DEF lists, L!lists
<1>5. TypeOK'
  BY <1>4, SameNext DEF TypeOK, T, L!LoopStage
<1>6. Served' = Served /\ pc \notin {"drop", "exited"} /\ pc' # "incr" /\ pc # "incr"
  BY <1>4 DEF Served, Remaining, L!LoopStage, lists
<1>7. pc' = "read" => cur' # ListenFd
  <2>1. pc' = "read" => (pc = "read" /\ cur' = cur) \/ \E f \in FD \ {ListenFd} : cur' = f
    BY DEF SendNothing, SendSome, HeadUnlock, SendDone, CheckDone, EpollWait, EventIn,
           ReadSome, ReadAgain, EventsDone, Goto, StartAt
  <2> QED
    BY <2>1 DEF IInv, Places
<1>8. \A a \in Asock : Users(a)' = Users(a) /\ (user'[a] = "none" <=> user[a] = "none")
  BY <1>4 DEF Users, UserHolds
<1> QED
  BY <1>4, <1>5, <1>6, <1>7, <1>8, Keeps

(* The steps of the worker that only change its stage.                     *)
LEMMA StageSteps ==
    ASSUME IInv, NoDirective \/ Stop \/ EventListen \/ AcceptDone
    PROVE  IInv'
<1>1. /\ UNCHANGED <<con, m_in_queue, user, files, lists, cur>>
      /\ batch' \in SUBSET batch
      /\ \/ pc = "directive" /\ pc' \in {"send", "drop"} /\ i' = Len(m_connections)
         \/ pc = "event" /\ pc' = "accept" /\ i' = i
         \/ pc = "accept" /\ pc' = "event" /\ i' = i
  BY DEF NoDirective, Stop, EventListen, AcceptDone, StartAt, Goto
<1>2. /\ DOMAIN m_connections = 1 .. Len(m_connections)
      /\ Len(m_connections) \in Nat
  BY Assumptions, L!PlacesFinite DEF IInv, TypeOK, AsockTypeOK
<1>3. TypeOK'
  BY <1>1, <1>2 DEF IInv, TypeOK, AsockTypeOK, lists
<1>4. L!Indexed'
  BY <1>1, <1>2 DEF L!Indexed, lists
<1>5. Served' = Served
  BY <1>1, <1>2 DEF Served, Remaining, lists
<1>6. L!Quiet(con, con')
  BY <1>1 DEF L!Quiet
<1>7. \A a \in Asock : Users(a)' = Users(a) /\ (user'[a] = "none" <=> user[a] = "none")
  BY <1>1 DEF Users, UserHolds
<1> QED
  BY <1>1, <1>3, <1>4, <1>5, <1>6, <1>7, Keeps

(* What users do without taking or giving a reference.                     *)
LEMMA UserQuiet ==
    ASSUME IInv, NEW a \in Asock, DestroyBegins(a) \/ Write(a) \/ Read(a)
    PROVE  IInv'
<1>1. /\ con \in [Asock -> L!ConType]
      /\ user \in [Asock -> {"none", "owner", "connecting", "destroying", "done"}]
      /\ m_in_queue \in [Asock -> SUBSET Socket]
  BY Same DEF IInv, TypeOK, AsockTypeOK
<1>2. 0 \in 0 .. MaxOut
  BY Assumptions
<1>3. UNCHANGED <<files, lists, pc, i, cur, batch>>
  BY DEF DestroyBegins, Write, Read
<1>4. con' \in [Asock -> L!ConType] /\ L!Quiet(con, con')
  <2>1. CASE DestroyBegins(a)
    BY <1>1, <1>2, <2>1, Assumptions, L!QuietUpdates DEF DestroyBegins
  <2>2. CASE Write(a)
    <3>1. con[a].m_out_queue \in 0 .. MaxOut /\ con[a].m_out_queue < MaxOut
      BY <1>1, <2>2 DEF Write, L!ConType
    <3>2. con[a].m_out_queue + 1 \in 0 .. MaxOut
      BY <3>1, Assumptions
    <3>3. con' = [con EXCEPT ![a].m_out_queue = con[a].m_out_queue + 1]
      BY <1>1, <2>2 DEF Write
    <3> QED
      BY <1>1, <3>2, <3>3, Assumptions, L!QuietUpdates
  <2>3. CASE Read(a)
    BY <1>1, <2>3 DEF Read, L!Quiet
  <2> QED
    BY <2>1, <2>2, <2>3
<1>5. /\ user' \in [Asock -> {"none", "owner", "connecting", "destroying", "done"}]
      /\ \A b \in Asock : Users(b)' = Users(b) /\ (user'[b] = "none" <=> user[b] = "none")
  BY <1>1 DEF DestroyBegins, Write, Read, Users, UserHolds
<1>6. m_in_queue' \in [Asock -> SUBSET Socket]
  BY <1>1 DEF DestroyBegins, Write, Read
<1>7. TypeOK'
  BY <1>3, <1>4, <1>5, <1>6, Same DEF IInv, TypeOK, AsockTypeOK, lists
<1>8. L!Indexed' /\ Served' = Served
  BY <1>3 DEF IInv, Places, L!Indexed, Served, Remaining, lists
<1> QED
  BY <1>3, <1>4, <1>5, <1>7, <1>8, Keeps DEF IInv, Places

(* What is in the server's list and counted has a reference.               *)
LEMMA HereCounted ==
    ASSUME IInv, NEW a \in Asock, Here(a) > 0, Pending(a) = 0
    PROVE  con[a].m_ref_counter > 0 /\ con[a].life = "live"
<1>1. con[a].m_ref_counter > 0
  BY CountTypes DEF IInv, Places, Counted
<1> QED
  BY <1>1 DEF IInv, L!Sound

(* A close keeps the count: the reference goes with the place, and whoever *)
(* is dropped from the other list has no user yet and has failed, or is    *)
(* served still.                                                           *)
LEMMA CloseStep ==
    ASSUME IInv, pc \in L!LoopStage, pc' \in L!LoopStage, NEW sockd,
           CloseConnection(sockd), TypeOK', L!Indexed',
           UNCHANGED user, pc' # "read"
    PROVE  IInv'
<1> DEFINE T == Socket \union {Listening}
<1> USE DEF IInv
<1>1. /\ con \in [Asock -> L!ConType] /\ files \in [FD -> T \union {Free}]
      /\ m_connections \in Seq(Asock) /\ m_new_connections \in Seq(Asock)
  BY Same DEF TypeOK, AsockTypeOK
<1>2. /\ pc \notin {"drop", "exited", "incr"} /\ pc' \notin {"drop", "exited", "incr"}
      /\ \A a \in Asock : Pending(a) = 0 /\ Pending(a)' = 0
  BY DEF L!LoopStage, Pending
<1>3. /\ \A a \in Asock : Here(a) = L!All(m_connections, a)
      /\ \A a \in Asock : Here(a)' = L!All(m_connections', a)
      /\ \A a \in Asock : Waits(a) = L!All(m_new_connections, a)
      /\ \A a \in Asock : Waits(a)' = L!All(m_new_connections', a)
  BY <1>2, WholeList, WholeListNext DEF Waits, L!All, L!Times
<1>4. \A a \in Asock : L!All(m_connections, a) > 0 => con[a].m_ref_counter > 0
  BY <1>2, <1>3, HereCounted
<1>5. L!CloseConnection(sockd)
  BY SameClose
<1> HIDE DEF T, IInv
<1>6. L!Sound(con)'
  <2>1. L!Sound(con) => L!Sound(con')
    BY <1>1, <1>4, <1>5, Assumptions, L!CloseEffect
  <2> QED
    BY <2>1 DEF IInv, L!Sound
<1>7. \A a \in Asock :
        \/ Waits(a)' = Waits(a)
        \/ Waits(a)' = Waits(a) - 1
  BY <1>1, <1>3, <1>4, <1>5, Assumptions, L!CloseEffect
<1>8. \/ UNCHANGED <<con, files, m_connections>>
      \/ \E a \in Asock : L!Closes(a)
  BY <1>1, <1>4, <1>5, Assumptions, L!CloseEffect
<1>9. \A a \in Asock : Users(a)' = Users(a)
  BY DEF Users, UserHolds
<1>10. \A a \in Asock :
        /\ Waits(a) \in Nat /\ Here(a) \in Nat /\ Users(a) \in {0, 1}
        /\ Waits(a)' \in Nat /\ Here(a)' \in Nat
        /\ con[a].m_ref_counter \in Nat /\ con'[a].m_ref_counter \in Nat
  <2>1. \A a \in Asock :
          /\ Waits(a) \in Nat /\ Here(a) \in Nat /\ Users(a) \in {0, 1}
          /\ con[a].m_ref_counter \in Nat
    BY CountTypes DEF IInv, Places
  <2>2. m_connections' \in Seq(Asock) /\ m_new_connections' \in Seq(Asock)
    BY DEF TypeOK, AsockTypeOK
  <2>3. \A a \in Asock : Waits(a)' \in Nat /\ Here(a)' \in Nat
    BY <1>3, <2>2, Assumptions, L!AllType
  <2>4. \A a \in Asock : con'[a].m_ref_counter \in Nat
    BY DEF TypeOK, AsockTypeOK, ConType
  <2> QED
    BY <2>1, <2>3, <2>4
<1>11. Places'
  BY <1>2 DEF Places
<1>12. CASE UNCHANGED <<con, files, m_connections>>
  <2>1. \A a \in Asock : Here(a)' = Here(a)
    BY <1>3, <1>12
  <2>2. ASSUME NEW a \in Asock
        PROVE  /\ con'[a].m_ref_counter >= Users(a)' + Waits(a)' + Here(a)' - Pending(a)'
               /\ user'[a] # "none" \/ Waits(a)' > 0 =>
                  con'[a].m_ref_counter = Users(a)' + Waits(a)' + Here(a)' - Pending(a)'
               /\ Waits(a)' <= IF user'[a] = "none" THEN 1 ELSE 0
               /\ Here(a)' <= 1
               /\ con'[a].life = "unborn" => user'[a] = "none" /\ Here(a)' = 0
    BY <1>2, <1>7, <1>9, <1>10, <1>12, <2>1 DEF IInv, Counted
  <2>3. Counted'
    BY <2>2 DEF Counted
  <2>4. Known'
    BY <1>2, <1>12, <2>1 DEF IInv, Known
  <2>5. Opened'
    BY <1>12 DEF IInv, Opened
  <2> QED
    BY <1>6, <1>11, <2>3, <2>4, <2>5 DEF IInv
<1>13. ASSUME NEW a \in Asock, L!Closes(a)
       PROVE  IInv'
  <2>1. \A b \in Asock :
          /\ Here(b)' = Here(b) - (IF a = b THEN 1 ELSE 0)
          /\ con'[b].m_ref_counter = con[b].m_ref_counter - (IF a = b THEN 1 ELSE 0)
          /\ con'[b].life = IF a = b /\ con[b].m_ref_counter = 1 THEN "freed" ELSE con[b].life
          /\ con'[b].m_state = IF a = b THEN "Failed" ELSE con[b].m_state
          /\ con'[b].m_sock_desc = con[b].m_sock_desc
    BY <1>3, <1>13 DEF L!Closes
  <2>2. ASSUME NEW b \in Asock
        PROVE  /\ con'[b].m_ref_counter >= Users(b)' + Waits(b)' + Here(b)' - Pending(b)'
               /\ user'[b] # "none" \/ Waits(b)' > 0 =>
                  con'[b].m_ref_counter = Users(b)' + Waits(b)' + Here(b)' - Pending(b)'
               /\ Waits(b)' <= IF user'[b] = "none" THEN 1 ELSE 0
               /\ Here(b)' <= 1
               /\ con'[b].life = "unborn" => user'[b] = "none" /\ Here(b)' = 0
    <3>1. /\ con[b].m_ref_counter >= Users(b) + Waits(b) + Here(b)
          /\ user[b] # "none" \/ Waits(b) > 0 =>
             con[b].m_ref_counter = Users(b) + Waits(b) + Here(b)
          /\ Waits(b) <= IF user[b] = "none" THEN 1 ELSE 0
          /\ Here(b) <= 1
          /\ con[b].life = "unborn" => user[b] = "none" /\ Here(b) = 0
      BY <1>2, <1>10 DEF IInv, Counted
    <3>2. Here(a) > 0
      BY <1>3, <1>13 DEF L!Closes
    <3> QED
      BY <1>2, <1>7, <1>9, <1>10, <2>1, <3>1, <3>2
  <2>3. Counted'
    BY <2>2 DEF Counted
  <2>4. Known'
    <3>1. ASSUME NEW b \in Asock, user'[b] = "none", con'[b].life = "live", b # a
          PROVE  Here(b)' > 0 \/ con'[b].m_state = "Failed"
      BY <1>2, <1>10, <2>1, <3>1 DEF IInv, Known
    <3>2. con'[a].m_state = "Failed"
      BY <2>1
    <3> QED
      BY <3>1, <3>2 DEF Known
  <2>5. Opened'
    <3>1. files' = ClosedFile(files, con[a].m_sock_desc)
      BY <1>13, Same DEF L!Closes
    <3>2. ASSUME NEW f \in FD \ {ListenFd}, files'[f] # Free
          PROVE  \E b \in Asock :
                    files'[f] = <<b, 0>> /\ con'[b].life = "live" /\ con'[b].m_sock_desc = f
      <4>1. files'[f] = files[f] /\ f # con[a].m_sock_desc
        BY <1>1, <3>1, <3>2 DEF ClosedFile
      <4>2. PICK b \in Asock :
              files[f] = <<b, 0>> /\ con[b].life = "live" /\ con[b].m_sock_desc = f
        BY <3>2, <4>1 DEF IInv, Opened
      <4> QED
        BY <2>1, <4>1, <4>2
    <3>3. \A b \in Asock : con'[b].life = "live" => con'[b].m_sock_desc \in FD
      BY <2>1 DEF IInv, Opened
    <3> QED
      BY <3>2, <3>3 DEF Opened
  <2> QED
    BY <1>6, <1>11, <2>3, <2>4, <2>5 DEF IInv
<1> QED
  BY <1>8, <1>12, <1>13

(* The steps that close a connection, or nothing where there is none.      *)
LEMMA ClosingSteps ==
    ASSUME IInv, SendFails \/ CheckForClose \/ ReadEnds \/ \E f \in FD : EventClose(f)
    PROVE  IInv'
<1> DEFINE T == Socket \union {Listening}
<1>1. L!AsockTypeOK(T) /\ L!Indexed
  BY Same DEF IInv, TypeOK, Places
<1>2. pc \in L!LoopStage /\ pc' # "read"
  BY DEF SendFails, CheckForClose, ReadEnds, EventClose, Goto, L!LoopStage
<1>3. \A a \in Asock : L!All(m_connections, a) > 0 => con[a].m_ref_counter > 0
  BY <1>2, WholeList, HereCounted DEF L!LoopStage, Pending
<1>4. L!SendFails \/ L!CheckForClose \/ L!ReadEnds \/ \E f \in FD : L!EventClose(f)
  BY SameCloses
<1> HIDE DEF T
<1>5. /\ L!AsockTypeOK(T)' /\ L!Indexed' /\ pc' \in L!LoopStage
      /\ UNCHANGED user
      /\ \/ UNCHANGED <<con, files, lists>>
         \/ \E sockd : L!CloseConnection(sockd)
  BY <1>1, <1>3, <1>4, Assumptions, L!SharedCloses DEF lists, L!lists
<1>6. TypeOK'
  BY <1>5, SameNext DEF TypeOK, T, L!LoopStage
<1>7. CASE UNCHANGED <<con, files, lists>>
  <2>1. L!Quiet(con, con')
    BY <1>7 DEF L!Quiet
  <2>2. Served' = Served /\ pc \notin {"drop", "exited", "incr"} /\ pc' # "incr"
    BY <1>2, <1>5, <1>7 DEF Served, Remaining, L!LoopStage, lists
  <2>3. \A a \in Asock : Users(a)' = Users(a) /\ (user'[a] = "none" <=> user[a] = "none")
    BY <1>5 DEF Users, UserHolds
  <2> QED
    BY <1>2, <1>5, <1>6, <1>7, <2>1, <2>2, <2>3, Keeps
<1>8. ASSUME NEW sockd, L!CloseConnection(sockd)
      PROVE  IInv'
  BY <1>2, <1>5, <1>6, <1>8, SameClose, CloseStep
<1> QED
  BY <1>5, <1>7, <1>8

(* What the lists gain and lose at their ends.                             *)
LEMMA AllAppend ==
    ASSUME NEW list \in Seq(Asock), NEW b \in Asock
    PROVE  /\ Append(list, b) \in Seq(Asock)
           /\ Len(Append(list, b)) = Len(list) + 1
           /\ \A a : L!All(Append(list, b), a) = L!All(list, a) + (IF b = a THEN 1 ELSE 0)
<1>1. /\ Append(list, b) \in Seq(Asock)
      /\ Len(Append(list, b)) = Len(list) + 1
  BY AppendProperties
<1>2. DOMAIN Append(list, b) = DOMAIN list \union {Len(list) + 1}
  BY <1>1, Assumptions, L!PlacesFinite
<1>3. \A a : L!Times(Append(list, b), DOMAIN list \union {Len(list) + 1}, a)
                = L!Times(list, DOMAIN list, a) + (IF b = a THEN 1 ELSE 0)
  BY Assumptions, L!TimesAppend
<1> QED
  BY <1>1, <1>2, <1>3 DEF L!All

LEMMA AllTail ==
    ASSUME NEW list \in Seq(Asock), list # << >>
    PROVE  /\ Head(list) \in Asock /\ Tail(list) \in Seq(Asock)
           /\ \A a : L!All(Tail(list), a) = L!All(list, a) - (IF Head(list) = a THEN 1 ELSE 0)
<1>1. /\ Head(list) \in Asock /\ Head(list) = list[1]
      /\ Tail(list) \in Seq(Asock) /\ Len(Tail(list)) = Len(list) - 1
      /\ \A n \in 1 .. Len(Tail(list)) : Tail(list)[n] = list[n + 1]
  BY HeadTailProperties
<1>2. 1 \in DOMAIN list /\ 1 \in 1 .. Len(list) /\ Len(list) \in Nat
  BY <1>1, EmptySeq, Assumptions, L!PlacesFinite
<1>3. /\ L!RemoveAt(list, 1) \in Seq(Asock) /\ Len(L!RemoveAt(list, 1)) = Len(list) - 1
      /\ \A n \in 1 .. Len(list) - 1 : L!RemoveAt(list, 1)[n] = list[n + 1]
  BY <1>2, Assumptions, L!RemoveAtProperties
<1>4. Tail(list) = L!RemoveAt(list, 1)
  BY <1>1, <1>3, SeqEqual
<1>5. \A a : L!Times(L!RemoveAt(list, 1), DOMAIN L!RemoveAt(list, 1), a)
                = L!Times(list, DOMAIN list, a) - (IF list[1] = a THEN 1 ELSE 0)
  BY <1>2, Assumptions, L!TimesRemoveAt
<1> QED
  BY <1>1, <1>4, <1>5 DEF L!All

(* An accept hands the reference of the one that waited to its user.       *)
LEMMA AcceptStep ==
    ASSUME IInv, ServerAccept
    PROVE  IInv'
<1> DEFINE h == Head(m_new_connections)
<1> USE DEF IInv
<1>1. /\ user \in [Asock -> {"none", "owner", "connecting", "destroying", "done"}]
      /\ m_new_connections \in Seq(Asock)
  BY DEF TypeOK, AsockTypeOK
<1>2. /\ m_new_connections # << >>
      /\ user' = [user EXCEPT ![h] = "owner"]
      /\ m_new_connections' = Tail(m_new_connections)
      /\ UNCHANGED <<con, m_in_queue, files, m_connections, pc, i, cur, batch>>
  BY DEF ServerAccept
<1>3. /\ h \in Asock /\ m_new_connections' \in Seq(Asock)
      /\ \A a : Waits(a)' = Waits(a) - (IF h = a THEN 1 ELSE 0)
  <2>1. /\ h \in Asock /\ m_new_connections' \in Seq(Asock)
        /\ \A a : L!All(m_new_connections', a)
                    = L!All(m_new_connections, a) - (IF h = a THEN 1 ELSE 0)
    BY <1>1, <1>2, AllTail
  <2>2. \A a : Waits(a)' = L!All(m_new_connections', a)
    BY DEF Waits, L!All, L!Times
  <2> HIDE DEF h
  <2> QED
    BY <2>1, <2>2 DEF Waits
<1>4. Waits(h) > 0
  <2>1. h = m_new_connections[1]
    BY <1>1, <1>2, HeadTailProperties
  <2>2. 1 \in DOMAIN m_new_connections
    BY <1>1, <1>2, EmptySeq, Assumptions, L!PlacesFinite
  <2> QED
    BY <1>3, <2>1, <2>2, CountTypes DEF Places
<1> HIDE DEF h, IInv
<1>5. \A a \in Asock :
        /\ Waits(a) \in Nat /\ Here(a) \in Nat /\ Users(a) \in {0, 1}
        /\ Pending(a) \in {0, 1} /\ con[a].m_ref_counter \in Nat
  BY CountTypes DEF IInv, Places
<1>6. user[h] = "none"
  BY <1>3, <1>4, <1>5 DEF IInv, Counted
<1>7. \A a \in Asock : Users(a)' = Users(a) + (IF h = a THEN 1 ELSE 0)
  BY <1>1, <1>2, <1>6 DEF Users, UserHolds
<1>8. \A a : Here(a)' = Here(a) /\ Pending(a)' = Pending(a)
  BY <1>2 DEF Here, Pending, Served, Remaining, L!Times
<1>9. \A a \in Asock : user'[a] = IF h = a THEN "owner" ELSE user[a]
  BY <1>1, <1>2
<1>10. ASSUME NEW a \in Asock
       PROVE  /\ con'[a].m_ref_counter >= Users(a)' + Waits(a)' + Here(a)' - Pending(a)'
              /\ user'[a] # "none" \/ Waits(a)' > 0 =>
                 con'[a].m_ref_counter = Users(a)' + Waits(a)' + Here(a)' - Pending(a)'
              /\ Waits(a)' <= IF user'[a] = "none" THEN 1 ELSE 0
              /\ Here(a)' <= 1
              /\ con'[a].life = "unborn" => user'[a] = "none" /\ Here(a)' = 0
  <2>1. con'[a] = con[a]
    BY <1>2
  <2>2. /\ con[a].m_ref_counter >= Users(a) + Waits(a) + Here(a) - Pending(a)
        /\ user[a] # "none" \/ Waits(a) > 0 =>
           con[a].m_ref_counter = Users(a) + Waits(a) + Here(a) - Pending(a)
        /\ Waits(a) <= IF user[a] = "none" THEN 1 ELSE 0
        /\ Here(a) <= 1
        /\ con[a].life = "unborn" => user[a] = "none" /\ Here(a) = 0
    BY DEF IInv, Counted
  <2>3. CASE a = h
    <3>1. con[a].life # "unborn"
      <4>1. con[a].m_ref_counter > 0 \/ Pending(a) = 1
        BY <1>4, <1>5, <2>2, <2>3
      <4>2. Pending(a) = 1 => Here(a) > 0
        BY DEF Pending, IInv, Places
      <4>3. con[a].m_ref_counter > 0 => con[a].life = "live"
        BY DEF IInv, L!Sound
      <4> QED
        BY <2>2, <4>1, <4>2, <4>3
    <3> QED
      BY <1>3, <1>4, <1>5, <1>6, <1>7, <1>8, <1>9, <2>1, <2>2, <2>3, <3>1
  <2>4. CASE a # h
    BY <1>3, <1>5, <1>7, <1>8, <1>9, <2>1, <2>2, <2>4
  <2> QED
    BY <2>3, <2>4
<1>11. Counted'
  BY <1>10 DEF Counted
<1>12. Known'
  BY <1>2, <1>8, <1>9 DEF IInv, Known
<1>13. TypeOK'
  BY <1>1, <1>2, <1>3 DEF IInv, TypeOK, AsockTypeOK
<1>14. Places'
  BY <1>2, <1>8 DEF IInv, Places, L!Indexed
<1>15. Opened' /\ L!Sound(con)'
  BY <1>2 DEF IInv, Opened, L!Sound
<1> QED
  BY <1>11, <1>12, <1>13, <1>14, <1>15 DEF IInv

(* One reference less, and the number closed with the last one: what is    *)
(* open belongs to others.                                                 *)
LEMMA DropKeepsOpened ==
    ASSUME IInv, NEW a \in Asock, con[a].m_ref_counter > 0,
           con' = Dropped(con, a), files' = DroppedFiles(con, files, a)
    PROVE  /\ con' \in [Asock -> ConType]
           /\ files' \in [FD -> Socket \union {Listening} \union {Free}]
           /\ L!Sound(con)' /\ Opened'
           /\ \A b \in Asock :
                /\ con'[b].m_ref_counter = con[b].m_ref_counter - (IF a = b THEN 1 ELSE 0)
                /\ con'[b].life
                      = IF a = b /\ con[b].m_ref_counter = 1 THEN "freed" ELSE con[b].life
                /\ con'[b].m_state = con[b].m_state
                /\ con'[b].m_sock_desc = con[b].m_sock_desc
<1>1. /\ con \in [Asock -> L!ConType]
      /\ files \in [FD -> Socket \union {Listening} \union {Free}]
  BY Same DEF IInv, TypeOK, AsockTypeOK
<1>2. con' = L!Dropped(con, a)
  BY Same
<1>3. /\ con' \in [Asock -> L!ConType]
      /\ L!Sound(con) => L!Sound(con')
      /\ \A b \in Asock :
                /\ con'[b].m_ref_counter = con[b].m_ref_counter - (IF a = b THEN 1 ELSE 0)
                /\ con'[b].life
                      = IF a = b /\ con[a].m_ref_counter = 1 THEN "freed" ELSE con[b].life
                /\ con'[b].m_state = con[b].m_state
                /\ con'[b].m_sock_desc = con[b].m_sock_desc
  BY <1>1, <1>2, Assumptions, L!DroppedProperties
<1>4. files' \in [FD -> Socket \union {Listening} \union {Free}]
  BY <1>1 DEF DroppedFiles, ClosedFile
<1>5. ASSUME NEW f \in FD \ {ListenFd}, files'[f] # Free
      PROVE  \E b \in Asock :
                files'[f] = <<b, 0>> /\ con'[b].life = "live" /\ con'[b].m_sock_desc = f
  <2>1. /\ files'[f] = files[f]
        /\ con[a].m_ref_counter = 1 => f # con[a].m_sock_desc
    BY <1>1, <1>5 DEF DroppedFiles, ClosedFile
  <2>2. PICK b \in Asock :
          files[f] = <<b, 0>> /\ con[b].life = "live" /\ con[b].m_sock_desc = f
    BY <1>5, <2>1 DEF IInv, Opened
  <2> QED
    BY <1>3, <2>1, <2>2
<1>6. \A b \in Asock : con'[b].life = "live" => con'[b].m_sock_desc \in FD
  BY <1>3 DEF IInv, Opened
<1>7. L!Sound(con)'
  BY <1>3 DEF IInv, L!Sound
<1> QED
  BY <1>3, <1>4, <1>5, <1>6, <1>7, Same DEF Opened

(* The user gives its reference back.                                      *)
LEMMA DestroyStep ==
    ASSUME IInv, NEW a \in Asock, DestroyEnds(a)
    PROVE  IInv'
<1>1. /\ user[a] = "destroying" /\ user' = [user EXCEPT ![a] = "done"]
      /\ con' = Dropped(con, a) /\ files' = DroppedFiles(con, files, a)
      /\ UNCHANGED <<m_in_queue, lists, pc, i, cur, batch>>
  BY DEF DestroyEnds
<1>2. \A b \in Asock :
        /\ Waits(b) \in Nat /\ Here(b) \in Nat /\ Users(b) \in {0, 1}
        /\ Pending(b) \in {0, 1} /\ con[b].m_ref_counter \in Nat
  BY CountTypes DEF IInv, Places
<1>3. UserHolds(a) /\ user \in [Asock -> {"none", "owner", "connecting", "destroying", "done"}]
  BY <1>1 DEF UserHolds, IInv, TypeOK, AsockTypeOK
<1>4. con[a].m_ref_counter > 0
  BY <1>3, HeldFollows DEF HeldIsLive, IInv, L!Sound
<1>5. /\ con' \in [Asock -> ConType]
      /\ files' \in [FD -> Socket \union {Listening} \union {Free}]
      /\ L!Sound(con)' /\ Opened'
      /\ \A b \in Asock :
            /\ con'[b].m_ref_counter = con[b].m_ref_counter - (IF a = b THEN 1 ELSE 0)
            /\ con'[b].life
                  = IF a = b /\ con[b].m_ref_counter = 1 THEN "freed" ELSE con[b].life
            /\ con'[b].m_state = con[b].m_state
  BY <1>1, <1>4, DropKeepsOpened
<1>6. \A b : Waits(b)' = Waits(b) /\ Here(b)' = Here(b) /\ Pending(b)' = Pending(b)
  BY <1>1 DEF Waits, Here, Pending, L!All, L!Times, Served, Remaining, lists
<1>7. /\ \A b \in Asock : Users(b)' = Users(b) - (IF a = b THEN 1 ELSE 0)
      /\ \A b \in Asock : user'[b] = IF a = b THEN "done" ELSE user[b]
      /\ user' \in [Asock -> {"none", "owner", "connecting", "destroying", "done"}]
  BY <1>1, <1>3 DEF Users, UserHolds
<1>8. ASSUME NEW b \in Asock
      PROVE  /\ con'[b].m_ref_counter >= Users(b)' + Waits(b)' + Here(b)' - Pending(b)'
             /\ user'[b] # "none" \/ Waits(b)' > 0 =>
                con'[b].m_ref_counter = Users(b)' + Waits(b)' + Here(b)' - Pending(b)'
             /\ Waits(b)' <= IF user'[b] = "none" THEN 1 ELSE 0
             /\ Here(b)' <= 1
             /\ con'[b].life = "unborn" => user'[b] = "none" /\ Here(b)' = 0
  <2>1. /\ con[b].m_ref_counter >= Users(b) + Waits(b) + Here(b) - Pending(b)
        /\ user[b] # "none" \/ Waits(b) > 0 =>
           con[b].m_ref_counter = Users(b) + Waits(b) + Here(b) - Pending(b)
        /\ Waits(b) <= IF user[b] = "none" THEN 1 ELSE 0
        /\ Here(b) <= 1
        /\ con[b].life = "unborn" => user[b] = "none" /\ Here(b) = 0
    BY DEF IInv, Counted
  <2>2. CASE a = b
    BY <1>1, <1>2, <1>5, <1>6, <1>7, <2>1, <2>2
  <2>3. CASE a # b
    BY <1>2, <1>5, <1>6, <1>7, <2>1, <2>3
  <2> QED
    BY <2>2, <2>3
<1>9. Counted'
  BY <1>8 DEF Counted
<1>10. Known'
  BY <1>1, <1>5, <1>6, <1>7 DEF IInv, Known
<1>11. TypeOK'
  BY <1>1, <1>5, <1>7 DEF IInv, TypeOK, AsockTypeOK, lists
<1>12. Places'
  BY <1>1, <1>6 DEF IInv, Places, L!Indexed, lists
<1> QED
  BY <1>5, <1>9, <1>10, <1>11, <1>12 DEF IInv

(* The server gives up a place of its list and the reference for it, ...   *)
LEMMA DropStep ==
    ASSUME IInv, Drop
    PROVE  IInv'
<1> DEFINE a == m_connections[i]
<1>1. /\ pc = "drop" /\ pc' = "drop" /\ i > 0 /\ i' = i - 1
      /\ con' = Dropped(con, a) /\ files' = DroppedFiles(con, files, a)
      /\ UNCHANGED <<m_in_queue, user, lists, cur, batch>>
  BY DEF Drop, DropNext
<1>2. \A b \in Asock :
        /\ Waits(b) \in Nat /\ Here(b) \in Nat /\ Users(b) \in {0, 1}
        /\ Pending(b) = 0 /\ con[b].m_ref_counter \in Nat
  BY <1>1, CountTypes DEF IInv, Places, Pending
<1>3. /\ Served = 1 .. i /\ Served' = 1 .. i - 1 /\ i \in Nat
      /\ L!IsFiniteSet(Served)
  BY <1>1, ServedPlaces DEF Served, Remaining, IInv, Places, TypeOK, AsockTypeOK
<1>4. i \in Served /\ Served' = Served \ {i}
  BY <1>1, <1>3
<1>5. a \in Asock /\ Here(a) > 0
  <2>1. a \in Asock
    BY <1>4, ServedPlaces, ElementOfSeq, Assumptions, L!PlacesFinite
    DEF IInv, Places, TypeOK, AsockTypeOK
  <2> QED
    BY <1>4, <2>1, CountTypes DEF IInv, Places, Serves
<1> HIDE DEF a
<1>6. \A b : Here(b)' = Here(b) - (IF a = b THEN 1 ELSE 0)
  <2>1. ASSUME NEW b
        PROVE  L!Times(m_connections, Served \ {i}, b)
                 = L!Times(m_connections, Served, b)
                   - (IF m_connections[i] = b THEN 1 ELSE 0)
    <3>1. L!IsFiniteSet(Served) /\ i \in Served
      BY <1>3, <1>4
    <3> QED
      BY <3>1, Assumptions, L!TimesLess
  <2> QED
    BY <1>1, <1>4, <2>1 DEF Here, L!Times, lists, a
<1>7. con[a].m_ref_counter > 0
  BY <1>2, <1>5, HereCounted
<1>8. /\ con' \in [Asock -> ConType]
      /\ files' \in [FD -> Socket \union {Listening} \union {Free}]
      /\ L!Sound(con)' /\ Opened'
      /\ \A b \in Asock :
            /\ con'[b].m_ref_counter = con[b].m_ref_counter - (IF a = b THEN 1 ELSE 0)
            /\ con'[b].life
                  = IF a = b /\ con[b].m_ref_counter = 1 THEN "freed" ELSE con[b].life
            /\ con'[b].m_state = con[b].m_state
  BY <1>1, <1>5, <1>7, DropKeepsOpened
<1>9. \A b \in Asock : Users(b)' = Users(b) /\ Waits(b)' = Waits(b) /\ Pending(b)' = 0
  BY <1>1 DEF Users, UserHolds, Waits, L!All, L!Times, Pending, lists
<1>10. ASSUME NEW b \in Asock
       PROVE  /\ con'[b].m_ref_counter >= Users(b)' + Waits(b)' + Here(b)' - Pending(b)'
              /\ user'[b] # "none" \/ Waits(b)' > 0 =>
                 con'[b].m_ref_counter = Users(b)' + Waits(b)' + Here(b)' - Pending(b)'
              /\ Waits(b)' <= IF user'[b] = "none" THEN 1 ELSE 0
              /\ Here(b)' <= 1
              /\ con'[b].life = "unborn" => user'[b] = "none" /\ Here(b)' = 0
  <2>1. /\ con[b].m_ref_counter >= Users(b) + Waits(b) + Here(b) - Pending(b)
        /\ user[b] # "none" \/ Waits(b) > 0 =>
           con[b].m_ref_counter = Users(b) + Waits(b) + Here(b) - Pending(b)
        /\ Waits(b) <= IF user[b] = "none" THEN 1 ELSE 0
        /\ Here(b) <= 1
        /\ con[b].life = "unborn" => user[b] = "none" /\ Here(b) = 0
    BY DEF IInv, Counted
  <2> QED
    BY <1>1, <1>2, <1>5, <1>6, <1>8, <1>9, <2>1
<1>11. Counted'
  BY <1>10 DEF Counted
<1>12. Known'
  BY <1>1 DEF Known
<1>13. TypeOK'
  BY <1>1, <1>3, <1>8 DEF IInv, TypeOK, AsockTypeOK, lists
<1>14. Places'
  BY <1>1, <1>3 DEF IInv, Places, L!Indexed, lists
<1> QED
  BY <1>8, <1>11, <1>12, <1>13, <1>14 DEF IInv

(* ... and in the end the listening socket.                                *)
LEMMA DropDoneStep ==
    ASSUME IInv, DropDone
    PROVE  IInv'
<1>1. /\ pc = "drop" /\ i = 0 /\ pc' = "exited"
      /\ files' = ClosedFile(files, ListenFd)
      /\ UNCHANGED <<con, m_in_queue, user, lists, i, cur, batch>>
  BY DEF DropDone, Goto
<1>2. Served = {} /\ Served' = {}
  BY <1>1 DEF Served, Remaining
<1>3. \A a : Here(a)' = Here(a) /\ Waits(a)' = Waits(a) /\ Pending(a)' = Pending(a)
             /\ Users(a)' = Users(a)
  BY <1>1, <1>2 DEF Here, Waits, Pending, L!All, L!Times, lists, Users, UserHolds
<1>4. Counted'
  BY <1>1, <1>3 DEF IInv, Counted
<1>5. Known'
  BY <1>1 DEF Known
<1>6. files' \in [FD -> Socket \union {Listening} \union {Free}]
      /\ \A f \in FD \ {ListenFd} : files'[f] = files[f]
  BY <1>1 DEF ClosedFile, IInv, TypeOK, AsockTypeOK
<1>7. Opened' /\ L!Sound(con)'
  BY <1>1, <1>6 DEF IInv, Opened, L!Sound
<1>8. TypeOK'
  BY <1>1, <1>6 DEF IInv, TypeOK, AsockTypeOK, lists
<1>9. Places'
  BY <1>1 DEF Places, L!Indexed
<1> QED
  BY <1>4, <1>5, <1>7, <1>8, <1>9 DEF IInv

(* The server's own reference comes after the place it is for, which       *)
(* nobody takes away in between.                                           *)
LEMMA IncrStep ==
    ASSUME IInv, CounterIncr, ~Undefined
    PROVE  IInv'
<1> DEFINE a == cur
<1>1. /\ pc = "incr" /\ pc' = "accept" /\ cur' = NoFd
      /\ con' = [con EXCEPT ![a].m_ref_counter = @ + 1]
      /\ UNCHANGED <<m_in_queue, user, files, lists, i, batch>>
  BY DEF CounterIncr, Goto
<1>2. a \in Asock /\ Here(a) > 0 /\ con[a].life # "freed"
  BY <1>1 DEF IInv, Places, Undefined
<1>3. \A b \in Asock :
        /\ Waits(b) \in Nat /\ Here(b) \in Nat /\ Users(b) \in {0, 1}
        /\ con[b].m_ref_counter \in Nat
  BY CountTypes DEF IInv, Places
<1>4. \A b : Pending(b) = (IF a = b THEN 1 ELSE 0) /\ Pending(b)' = 0
  BY <1>1 DEF Pending
<1>5. con[a].life = "live" /\ con[a].m_ref_counter > 0
  <2>1. con[a].life # "unborn"
    BY <1>2, <1>3 DEF IInv, Counted
  <2>2. con[a].life \in {"unborn", "live", "freed"}
    BY <1>2 DEF IInv, TypeOK, AsockTypeOK, ConType
  <2> QED
    BY <1>2, <2>1, <2>2 DEF IInv, L!Sound
<1>6. con \in [Asock -> ConType]
  BY DEF IInv, TypeOK, AsockTypeOK
<1> HIDE DEF a
<1>7. con' \in [Asock -> ConType]
  BY <1>1, <1>2, <1>3, <1>6 DEF ConType
<1>8. \A b \in Asock :
        /\ con'[b].m_ref_counter = con[b].m_ref_counter + (IF a = b THEN 1 ELSE 0)
        /\ con'[b].life = con[b].life
        /\ con'[b].m_state = con[b].m_state
        /\ con'[b].m_sock_desc = con[b].m_sock_desc
  BY <1>1, <1>2, <1>3, <1>6 DEF ConType
<1>9. \A b : Users(b)' = Users(b) /\ Waits(b)' = Waits(b)
  BY <1>1 DEF Users, UserHolds, Waits, L!All, L!Times, lists
<1>10. \A b : Here(b)' = Here(b)
  BY <1>1 DEF Here, L!Times, Served, Remaining, lists
<1>11. ASSUME NEW b \in Asock
       PROVE  /\ con'[b].m_ref_counter >= Users(b)' + Waits(b)' + Here(b)' - Pending(b)'
              /\ user'[b] # "none" \/ Waits(b)' > 0 =>
                 con'[b].m_ref_counter = Users(b)' + Waits(b)' + Here(b)' - Pending(b)'
              /\ Waits(b)' <= IF user'[b] = "none" THEN 1 ELSE 0
              /\ Here(b)' <= 1
              /\ con'[b].life = "unborn" => user'[b] = "none" /\ Here(b)' = 0
  <2>1. /\ con[b].m_ref_counter >= Users(b) + Waits(b) + Here(b) - Pending(b)
        /\ user[b] # "none" \/ Waits(b) > 0 =>
           con[b].m_ref_counter = Users(b) + Waits(b) + Here(b) - Pending(b)
        /\ Waits(b) <= IF user[b] = "none" THEN 1 ELSE 0
        /\ Here(b) <= 1
        /\ con[b].life = "unborn" => user[b] = "none" /\ Here(b) = 0
    BY DEF IInv, Counted
  <2> QED
    BY <1>1, <1>3, <1>4, <1>8, <1>9, <1>10, <2>1
<1>12. Counted'
  BY <1>11 DEF Counted
<1>13. Known'
  BY <1>1, <1>8, <1>10 DEF IInv, Known
<1>14. L!Sound(con)'
  <2>1. ASSUME NEW b \in Asock
        PROVE  con'[b].life = "live" <=> con'[b].m_ref_counter > 0
    BY <1>3, <1>5, <1>8 DEF IInv, L!Sound
  <2> QED
    BY <2>1 DEF L!Sound
<1>15. Opened'
  BY <1>1, <1>8 DEF IInv, Opened
<1>16. TypeOK'
  BY <1>1, <1>7 DEF IInv, TypeOK, AsockTypeOK, lists
<1>17. Places'
  BY <1>1 DEF Places, L!Indexed
<1> QED
  BY <1>12, <1>13, <1>14, <1>15, <1>16, <1>17 DEF IInv

(* An asock that was not made yet is nowhere.                              *)
LEMMA UnbornNowhere ==
    ASSUME IInv, NEW a \in Asock, con[a].life = "unborn", pc = "accept"
    PROVE  /\ con[a].m_ref_counter = 0 /\ user[a] = "none"
           /\ Waits(a) = 0 /\ Here(a) = 0 /\ Users(a) = 0
<1>1. /\ Waits(a) \in Nat /\ Here(a) \in Nat /\ Users(a) \in {0, 1}
      /\ con[a].m_ref_counter \in Nat /\ Pending(a) = 0
  BY CountTypes DEF IInv, Places, Pending
<1>2. con[a].m_ref_counter = 0
  BY <1>1 DEF IInv, L!Sound
<1> QED
  BY <1>1, <1>2 DEF IInv, Counted

LEMMA CreatedType ==
    ASSUME NEW f \in FD, NEW s \in {"Idle", "Established"}
    PROVE  LET c == [Created(f) EXCEPT !.m_state = s] IN
           /\ c \in ConType /\ Created(f) \in ConType
           /\ c.life = "live" /\ c.m_ref_counter = 1 /\ c.m_sock_desc = f
           /\ Created(f).m_ref_counter = 1 /\ Created(f).life = "live"
<1>1. Unborn \in ConType
  BY Assumptions DEF Unborn, ConType
<1>2. Created(f) \in ConType
  BY <1>1 DEF Created, ConType
<1>3. Created(f).m_ref_counter = 1 /\ Created(f).life = "live" /\ Created(f).m_sock_desc = f
  BY DEF Created, Unborn
<1> HIDE DEF Created
<1> QED
  BY <1>2, <1>3 DEF ConType

(* A new connection is in both lists, with the reference that its user     *)
(* will have.                                                              *)
LEMMA AcceptOneStep ==
    ASSUME IInv, NEW a \in Asock, AcceptOne(a)
    PROVE  IInv'
<1>1. PICK f \in FD :
        /\ LowestFree(f)
        /\ files' = [files EXCEPT ![f] = <<a, 0>>]
        /\ con' = [con EXCEPT ![a] = [Created(f) EXCEPT !.m_state = "Established"]]
  BY DEF AcceptOne, Open
<1>2. /\ pc = "accept" /\ pc' = "incr" /\ cur' = a /\ con[a].life = "unborn"
      /\ m_connections' = Append(m_connections, a)
      /\ m_new_connections' = Append(m_new_connections, a)
      /\ UNCHANGED <<m_in_queue, user, i, batch>>
  BY DEF AcceptOne, IsNext, Goto
<1>3. /\ con \in [Asock -> ConType]
      /\ files \in [FD -> Socket \union {Listening} \union {Free}]
      /\ m_connections \in Seq(Asock) /\ m_new_connections \in Seq(Asock)
  BY DEF IInv, TypeOK, AsockTypeOK
<1>4. /\ con' \in [Asock -> ConType]
      /\ con'[a].life = "live" /\ con'[a].m_ref_counter = 1 /\ con'[a].m_sock_desc = f
      /\ \A b \in Asock \ {a} : con'[b] = con[b]
  BY <1>1, <1>3, CreatedType
<1>5. /\ m_connections' \in Seq(Asock) /\ m_new_connections' \in Seq(Asock)
      /\ Len(m_connections') = Len(m_connections) + 1
      /\ \A b : /\ L!All(m_connections', b) = L!All(m_connections, b) + (IF a = b THEN 1 ELSE 0)
                /\ L!All(m_new_connections', b)
                      = L!All(m_new_connections, b) + (IF a = b THEN 1 ELSE 0)
  BY <1>2, <1>3, AllAppend
<1>6. \A b \in Asock :
        /\ Waits(b) \in Nat /\ Here(b) \in Nat /\ Users(b) \in {0, 1}
        /\ Pending(b) = 0 /\ con[b].m_ref_counter \in Nat
  BY <1>2, CountTypes DEF IInv, Places, Pending
<1>7. \A b : /\ Waits(b)' = Waits(b) + (IF a = b THEN 1 ELSE 0)
             /\ Here(b)' = Here(b) + (IF a = b THEN 1 ELSE 0)
             /\ Users(b)' = Users(b)
             /\ Pending(b)' = (IF a = b THEN 1 ELSE 0)
  <2>1. \A b : Here(b) = L!All(m_connections, b) /\ Here(b)' = L!All(m_connections', b)
    BY <1>2, WholeList, WholeListNext
  <2>2. \A b : Waits(b) = L!All(m_new_connections, b) /\ Waits(b)' = L!All(m_new_connections', b)
    BY DEF Waits, L!All, L!Times
  <2>3. \A b : Users(b)' = Users(b) /\ Pending(b)' = (IF a = b THEN 1 ELSE 0)
    BY <1>2 DEF Users, UserHolds, Pending
  <2> QED
    BY <1>5, <2>1, <2>2, <2>3
<1>8. /\ con[a].m_ref_counter = 0 /\ user[a] = "none"
      /\ Waits(a) = 0 /\ Here(a) = 0 /\ Users(a) = 0
  BY <1>2, UnbornNowhere
<1>9. ASSUME NEW b \in Asock
      PROVE  /\ con'[b].m_ref_counter >= Users(b)' + Waits(b)' + Here(b)' - Pending(b)'
             /\ user'[b] # "none" \/ Waits(b)' > 0 =>
                con'[b].m_ref_counter = Users(b)' + Waits(b)' + Here(b)' - Pending(b)'
             /\ Waits(b)' <= IF user'[b] = "none" THEN 1 ELSE 0
             /\ Here(b)' <= 1
             /\ con'[b].life = "unborn" => user'[b] = "none" /\ Here(b)' = 0
  <2>1. CASE a = b
    BY <1>2, <1>4, <1>7, <1>8, <2>1
  <2>2. CASE a # b
    <3>1. /\ con[b].m_ref_counter >= Users(b) + Waits(b) + Here(b) - Pending(b)
          /\ user[b] # "none" \/ Waits(b) > 0 =>
             con[b].m_ref_counter = Users(b) + Waits(b) + Here(b) - Pending(b)
          /\ Waits(b) <= IF user[b] = "none" THEN 1 ELSE 0
          /\ Here(b) <= 1
          /\ con[b].life = "unborn" => user[b] = "none" /\ Here(b) = 0
      BY DEF IInv, Counted
    <3>2. con'[b] = con[b] /\ user'[b] = user[b]
      BY <1>2, <1>4, <2>2
    <3>3. Waits(b)' = Waits(b) /\ Here(b)' = Here(b) /\ Pending(b)' = 0 /\ Users(b)' = Users(b)
      BY <1>6, <1>7, <2>2
    <3> QED
      BY <1>6, <3>1, <3>2, <3>3
  <2> QED
    BY <2>1, <2>2
<1>10. Counted'
  BY <1>9 DEF Counted
<1>11. Known'
  <2>1. ASSUME NEW b \in Asock, user'[b] = "none", con'[b].life = "live"
        PROVE  Here(b)' > 0 \/ con'[b].m_state = "Failed"
    BY <1>2, <1>4, <1>6, <1>7, <1>8, <2>1 DEF IInv, Known
  <2> QED
    BY <2>1 DEF Known
<1>12. L!Sound(con)'
  BY <1>4 DEF IInv, L!Sound
<1>13. Opened'
  <2>1. ASSUME NEW g \in FD \ {ListenFd}, files'[g] # Free
        PROVE  \E b \in Asock :
                  files'[g] = <<b, 0>> /\ con'[b].life = "live" /\ con'[b].m_sock_desc = g
    <3>1. CASE g = f
      BY <1>1, <1>3, <1>4, <3>1
    <3>2. CASE g # f
      <4>1. files'[g] = files[g]
        BY <1>1, <1>3, <3>2
      <4>2. PICK b \in Asock :
              files[g] = <<b, 0>> /\ con[b].life = "live" /\ con[b].m_sock_desc = g
        BY <2>1, <4>1 DEF IInv, Opened
      <4>3. con'[b] = con[b]
        BY <1>2, <1>4, <4>2
      <4> QED
        BY <4>1, <4>2, <4>3
    <3> QED
      BY <3>1, <3>2
  <2>2. \A b \in Asock : con'[b].life = "live" => con'[b].m_sock_desc \in FD
    BY <1>4 DEF IInv, Opened
  <2> QED
    BY <2>1, <2>2 DEF Opened
<1>14. files' \in [FD -> Socket \union {Listening} \union {Free}]
  <2>1. <<a, 0>> \in Socket
    BY Assumptions DEF Socket
  <2> QED
    BY <1>1, <1>3, <2>1
<1>15. TypeOK'
  BY <1>2, <1>4, <1>5, <1>14 DEF IInv, TypeOK, AsockTypeOK
<1>16. Places'
  BY <1>2, <1>7, <1>8 DEF Places, L!Indexed
<1> QED
  BY <1>10, <1>11, <1>12, <1>13, <1>15, <1>16 DEF IInv

(* An asock that could not get its address is freed at once; nobody had    *)
(* seen it.                                                                *)
LEMMA AcceptNoMemStep ==
    ASSUME IInv, NEW a \in Asock, AcceptNoMem(a)
    PROVE  IInv'
<1>1. PICK f \in FD : con' = Dropped([con EXCEPT ![a] = Created(f)], a)
  BY DEF AcceptNoMem
<1>2. /\ pc = "accept" /\ con[a].life = "unborn"
      /\ UNCHANGED <<m_in_queue, user, files, lists, pc, i, cur, batch>>
  BY DEF AcceptNoMem, IsNext
<1>3. con \in [Asock -> ConType]
  BY DEF IInv, TypeOK, AsockTypeOK
<1> DEFINE made == [con EXCEPT ![a] = Created(f)]
<1>4. /\ made \in [Asock -> ConType]
      /\ made[a].m_ref_counter = 1 /\ made[a].life = "live"
      /\ \A b \in Asock \ {a} : made[b] = con[b]
  BY <1>3, CreatedType
<1> HIDE DEF made
<1>5. /\ con' \in [Asock -> ConType]
      /\ con'[a].m_ref_counter = 0 /\ con'[a].life = "freed"
      /\ \A b \in Asock \ {a} :
            /\ con'[b].m_ref_counter = con[b].m_ref_counter
            /\ con'[b].life = con[b].life
            /\ con'[b].m_state = con[b].m_state
            /\ con'[b].m_sock_desc = con[b].m_sock_desc
  <2>1. /\ con' = L!Dropped(made, a) /\ made \in [Asock -> L!ConType]
        /\ made[a].m_ref_counter > 0
    BY <1>1, <1>4, Same DEF made
  <2>2. /\ con' \in [Asock -> L!ConType]
        /\ \A b \in Asock :
            /\ con'[b].m_ref_counter = made[b].m_ref_counter - (IF a = b THEN 1 ELSE 0)
            /\ con'[b].life
                  = IF a = b /\ made[a].m_ref_counter = 1 THEN "freed" ELSE made[b].life
            /\ con'[b].m_state = made[b].m_state
            /\ con'[b].m_sock_desc = made[b].m_sock_desc
    BY <2>1, Assumptions, L!DroppedProperties
  <2>3. \A b \in Asock : con[b].m_ref_counter \in Nat
    BY <1>3 DEF ConType
  <2> QED
    BY <1>4, <2>2, <2>3, Same
<1>6. /\ con[a].m_ref_counter = 0 /\ user[a] = "none"
      /\ Waits(a) = 0 /\ Here(a) = 0 /\ Users(a) = 0
  BY <1>2, UnbornNowhere
<1>7. /\ \A b : Users(b)' = Users(b) /\ Waits(b)' = Waits(b)
      /\ \A b : Here(b)' = Here(b) /\ Pending(b)' = Pending(b)
      /\ Pending(a) = 0
  BY <1>2 DEF Users, UserHolds, Waits, Here, Pending, L!All, L!Times,
              Served, Remaining, lists
<1>8. ASSUME NEW b \in Asock
      PROVE  /\ con'[b].m_ref_counter >= Users(b)' + Waits(b)' + Here(b)' - Pending(b)'
             /\ user'[b] # "none" \/ Waits(b)' > 0 =>
                con'[b].m_ref_counter = Users(b)' + Waits(b)' + Here(b)' - Pending(b)'
             /\ Waits(b)' <= IF user'[b] = "none" THEN 1 ELSE 0
             /\ Here(b)' <= 1
             /\ con'[b].life = "unborn" => user'[b] = "none" /\ Here(b)' = 0
  <2>1. CASE a = b
    BY <1>2, <1>5, <1>6, <1>7, <2>1
  <2>2. CASE a # b
    BY <1>2, <1>5, <1>7, <2>2 DEF IInv, Counted
  <2> QED
    BY <2>1, <2>2
<1>9. Counted'
  BY <1>8 DEF Counted
<1>10. Known'
  BY <1>2, <1>5, <1>7 DEF IInv, Known
<1>11. L!Sound(con)'
  BY <1>5 DEF IInv, L!Sound
<1>12. Opened'
  BY <1>2, <1>5 DEF IInv, Opened
<1>13. TypeOK'
  BY <1>2, <1>5 DEF IInv, TypeOK, AsockTypeOK, lists
<1>14. Places'
  BY <1>2 DEF IInv, Places, L!Indexed, lists
<1> QED
  BY <1>9, <1>10, <1>11, <1>12, <1>13, <1>14 DEF IInv

-----------------------------------------------------------------------------
(* The invariant                                                           *)

LEMMA InitIInv == Init => IInv
<1> SUFFICES ASSUME Init PROVE IInv
  OBVIOUS
<1>1. /\ con = [a \in Asock |-> Unborn]
      /\ m_in_queue = [a \in Asock |-> {}]
      /\ user = [a \in Asock |-> "none"]
      /\ files = [f \in FD |-> IF f = ListenFd THEN Listening ELSE Free]
      /\ m_connections = << >> /\ m_new_connections = << >>
      /\ pc = "directive" /\ i = 0 /\ cur = NoFd /\ batch = {}
  BY DEF Init, InitWith
<1>2. Unborn \in ConType /\ Unborn.life = "unborn" /\ Unborn.m_ref_counter = 0
  BY Assumptions DEF Unborn, ConType
<1>3. TypeOK
  BY <1>1, <1>2 DEF TypeOK, AsockTypeOK
<1>4. L!Sound(con)
  BY <1>1, <1>2 DEF L!Sound
<1>5. \A a : Waits(a) = 0 /\ Here(a) = 0
  <2>1. DOMAIN m_connections = {} /\ DOMAIN m_new_connections = {} /\ Served = {}
    BY <1>1 DEF Served, Remaining
  <2>2. \A a : /\ {k \in DOMAIN m_new_connections : m_new_connections[k] = a} = {}
               /\ {k \in Served : m_connections[k] = a} = {}
    BY <2>1
  <2>3. Cardinality({}) = 0
    BY FS_EmptySet
  <2> QED
    BY <2>2, <2>3 DEF Waits, Here, L!All, L!Times, L!Cardinality
<1>6. \A a \in Asock : Users(a) = 0 /\ Pending(a) = 0
  BY <1>1 DEF Users, UserHolds, Pending
<1>7. Counted /\ Known
  BY <1>1, <1>2, <1>5, <1>6 DEF Counted, Known
<1>8. Places
  BY <1>1 DEF Places, L!Indexed
<1>9. Opened
  BY <1>1, <1>2 DEF Opened
<1> QED
  BY <1>3, <1>4, <1>7, <1>8, <1>9 DEF IInv

LEMMA NextIInv == IInv /\ [Next]_vars => IInv'
<1> SUFFICES ASSUME IInv, [Next]_vars PROVE IInv'
  OBVIOUS
<1>1. CASE UNCHANGED vars
  <2>1. UNCHANGED <<con, m_in_queue, user, files, m_connections, m_new_connections,
                    pc, i, cur, batch>>
    BY <1>1 DEF vars, lists
  <2>2. /\ TypeOK' /\ L!Indexed' /\ Served' = Served /\ L!Quiet(con, con')
        /\ \A a \in Asock : Users(a)' = Users(a)
    BY <2>1 DEF IInv, TypeOK, AsockTypeOK, Places, L!Indexed, L!Quiet,
                Served, Remaining, Users, UserHolds
  <2> QED
    BY <2>1, <2>2, Keeps DEF IInv, Places, lists
<1>2. CASE Next
  <2>1. CASE WorkerStep
    BY <1>2, <2>1, StageSteps, QuietSteps, ClosingSteps, IncrStep, DropStep, DropDoneStep
    DEF WorkerStep, SharedStep, Next
  <2>2. CASE Stop \/ ServerAccept
    BY <2>2, StageSteps, AcceptStep
  <2>3. ASSUME NEW a \in Asock, UserStep(a) \/ AcceptOne(a) \/ AcceptNoMem(a)
        PROVE  IInv'
    BY <2>3, UserQuiet, DestroyStep, AcceptOneStep, AcceptNoMemStep DEF UserStep
  <2> QED
    BY <1>2, <2>1, <2>2, <2>3 DEF Next
<1> QED
  BY <1>1, <1>2

LEMMA Invariant == Spec => []IInv
BY InitIInv, NextIInv, PTL DEF Spec

-----------------------------------------------------------------------------
(* Sockets                                                                 *)

LEMMA ServesCounts ==
    TypeOK /\ L!Indexed => \A a \in Asock : Serves(a) <=> Here(a) > 0
BY CountTypes

LEMMA ServesCountsNext ==
    (TypeOK /\ L!Indexed)' => (\A a \in Asock : Serves(a) <=> Here(a) > 0)'
BY ServesCounts, PTL

(* A connection that keeps its place and its number keeps its socket, if   *)
(* what the number refers to is the same.                                  *)
LEMMA StillOwn ==
    ASSUME IInv, IInv', NEW a \in Asock, Own(a),
           Here(a)' > 0 /\ con'[a].life = "live" =>
               /\ Here(a) > 0 /\ con[a].life = "live"
               /\ con'[a].m_sock_desc = con[a].m_sock_desc
               /\ files'[con[a].m_sock_desc] = files[con[a].m_sock_desc]
    PROVE  Own(a)'
<1>1. Serves(a) <=> Here(a) > 0
  BY ServesCounts DEF IInv, Places
<1>2. Serves(a)' <=> Here(a)' > 0
  BY ServesCountsNext DEF IInv, Places
<1> QED
  BY <1>1, <1>2 DEF Own

(* All steps but those that open or close a number.                        *)
LEMMA QuietOwn ==
    ASSUME IInv, IInv', NEW a \in Asock, Own(a), UNCHANGED files,
           con'[a].life = con[a].life, con'[a].m_sock_desc = con[a].m_sock_desc,
           Here(a)' > 0 => Here(a) > 0
    PROVE  Own(a)'
BY StillOwn

(* A close takes the place of the asock whose number it closes.            *)
LEMMA CloseOwn ==
    ASSUME IInv, IInv', pc \in L!LoopStage, pc' \in L!LoopStage,
           NEW sockd, CloseConnection(sockd), NEW a \in Asock, Own(a), ~Shares(a)
    PROVE  Own(a)'
<1>1. /\ con \in [Asock -> L!ConType]
      /\ files \in [FD -> Socket \union {Listening} \union {Free}]
      /\ m_connections \in Seq(Asock) /\ m_new_connections \in Seq(Asock)
  BY Same DEF IInv, TypeOK, AsockTypeOK
<1>2. /\ pc \notin {"drop", "exited", "incr"} /\ pc' \notin {"drop", "exited", "incr"}
      /\ \A b \in Asock : Pending(b) = 0
  BY DEF L!LoopStage, Pending
<1>3. \A b \in Asock : Here(b) = L!All(m_connections, b)
                       /\ Here(b)' = L!All(m_connections', b)
  BY <1>2, WholeList, WholeListNext
<1>4. \A b \in Asock : L!All(m_connections, b) > 0 => con[b].m_ref_counter > 0
  BY <1>2, <1>3, HereCounted
<1>5. \/ UNCHANGED <<con, files, m_connections>>
      \/ \E b \in Asock : L!Closes(b)
  BY <1>1, <1>4, SameClose, Assumptions, L!CloseEffect
<1>6. CASE UNCHANGED <<con, files, m_connections>>
  <2>1. Here(a)' = Here(a)
    BY <1>3, <1>6
  <2> QED
    BY <1>6, <2>1, QuietOwn
<1>7. ASSUME NEW b \in Asock, L!Closes(b)
      PROVE  Own(a)'
  <2>1. /\ Here(a)' = Here(a) - (IF b = a THEN 1 ELSE 0)
        /\ con'[a].m_sock_desc = con[a].m_sock_desc
        /\ con'[a].life = IF b = a /\ con[a].m_ref_counter = 1 THEN "freed" ELSE con[a].life
        /\ files' = ClosedFile(files, con[b].m_sock_desc)
    BY <1>3, <1>7, Same DEF L!Closes
  <2>2. Here(a) \in Nat /\ Here(a) <= 1
    BY CountTypes DEF IInv, Places, Counted
  <2>3. b # a => con[b].m_sock_desc # con[a].m_sock_desc
    <3>1. con[b].life = "live"
      BY <1>2, <1>3, <1>7, HereCounted DEF L!Closes
    <3> QED
      BY <3>1 DEF Shares
  <2>4. b # a => files'[con[a].m_sock_desc] = files[con[a].m_sock_desc]
                 \/ con[a].life # "live"
    BY <1>1, <2>1, <2>3 DEF ClosedFile, IInv, Opened
  <2> QED
    BY <2>1, <2>2, <2>4, StillOwn
<1> QED
  BY <1>5, <1>6, <1>7

(* The last reference to an asock closes its number.                       *)
LEMMA DropOwn ==
    ASSUME IInv, IInv', NEW b \in Asock, con[b].m_ref_counter > 0,
           con' = Dropped(con, b), files' = DroppedFiles(con, files, b),
           NEW a \in Asock, Own(a), ~Shares(a), Here(a)' > 0 => Here(a) > 0
    PROVE  Own(a)'
<1>1. /\ con'[a].life = IF b = a /\ con[a].m_ref_counter = 1 THEN "freed" ELSE con[a].life
      /\ con'[a].m_sock_desc = con[a].m_sock_desc
  BY DropKeepsOpened
<1>2. con[b].life = "live"
  BY DEF IInv, L!Sound
<1>3. b # a => con[b].m_sock_desc # con[a].m_sock_desc
  BY <1>2 DEF Shares
<1>4. files \in [FD -> Socket \union {Listening} \union {Free}]
  BY DEF IInv, TypeOK, AsockTypeOK
<1>5. con'[a].life = "live" => files'[con[a].m_sock_desc] = files[con[a].m_sock_desc]
  BY <1>1, <1>3, <1>4 DEF DroppedFiles, ClosedFile, IInv, Opened
<1>6. con'[a].life = "live" => con[a].life = "live"
  BY <1>1
<1> QED
  BY <1>1, <1>5, <1>6, StillOwn

(* A new connection takes a number that nobody had open.                   *)
LEMMA AcceptOneOwn ==
    ASSUME IInv, IInv', NEW b \in Asock, AcceptOne(b), NEW a \in Asock, Own(a)
    PROVE  Own(a)'
<1>1. PICK f \in FD :
        /\ files[f] = Free
        /\ files' = [files EXCEPT ![f] = <<b, 0>>]
        /\ con' = [con EXCEPT ![b] = [Created(f) EXCEPT !.m_state = "Established"]]
  BY DEF AcceptOne, Open, LowestFree
<1>2. /\ pc = "accept" /\ pc' = "incr"
      /\ m_connections' = Append(m_connections, b)
  BY DEF AcceptOne, Goto
<1>3. /\ con \in [Asock -> ConType]
      /\ files \in [FD -> Socket \union {Listening} \union {Free}]
      /\ m_connections \in Seq(Asock)
  BY DEF IInv, TypeOK, AsockTypeOK
<1>4. CASE a = b
  <2>1. con'[a].m_sock_desc = f
    BY <1>1, <1>3, <1>4, CreatedType
  <2>2. files'[f] = <<a, 0>>
    BY <1>1, <1>3, <1>4
  <2> QED
    BY <2>1, <2>2 DEF Own
<1>5. CASE a # b
  <2>1. con'[a] = con[a]
    BY <1>1, <1>3, <1>5
  <2>2. Here(a)' = Here(a)
    <3>1. L!All(m_connections', a) = L!All(m_connections, a) + 0
      BY <1>2, <1>3, <1>5, AllAppend
    <3>2. Here(a) = L!All(m_connections, a) /\ Here(a)' = L!All(m_connections', a)
      BY <1>2, WholeList, WholeListNext
    <3>3. Here(a) \in Nat
      BY CountTypes DEF IInv, Places
    <3> QED
      BY <3>1, <3>2, <3>3
  <2>3. Here(a) > 0 /\ con[a].life = "live" =>
          files[con[a].m_sock_desc] = <<a, 0>> /\ con[a].m_sock_desc \in FD
    BY ServesCounts DEF Own, IInv, Places, Opened
  <2>4. <<a, 0>> # Free
    BY FreeAssumption, Assumptions DEF Socket
  <2>5. Here(a) > 0 /\ con[a].life = "live" =>
          files'[con[a].m_sock_desc] = files[con[a].m_sock_desc]
    BY <1>1, <1>3, <2>3, <2>4
  <2> QED
    BY <2>1, <2>2, <2>5, StillOwn
<1> QED
  BY <1>4, <1>5

(* ... and one that fails at once leaves no trace.                         *)
LEMMA AcceptNoMemOwn ==
    ASSUME IInv, IInv', NEW b \in Asock, AcceptNoMem(b), NEW a \in Asock, Own(a)
    PROVE  Own(a)'
<1>1. PICK f \in FD : con' = Dropped([con EXCEPT ![b] = Created(f)], b)
  BY DEF AcceptNoMem
<1>2. UNCHANGED <<files, m_connections, pc, i>>
  BY DEF AcceptNoMem, lists
<1>3. con \in [Asock -> ConType]
  BY DEF IInv, TypeOK, AsockTypeOK
<1>4. a # b => con'[a] = con[a]
  BY <1>1, <1>3 DEF Dropped
<1>5. Here(a)' = Here(a)
  BY <1>2 DEF Here, Served, Remaining, L!Times
<1>6. a = b => con'[a].life = "freed"
  <2> DEFINE made == [con EXCEPT ![b] = Created(f)]
  <2>1. made \in [Asock -> ConType] /\ made[b].m_ref_counter = 1
    BY <1>3, CreatedType
  <2>2. con' = Dropped(made, b)
    BY <1>1
  <2> HIDE DEF made
  <2> QED
    BY <2>1, <2>2 DEF Dropped, ConType
<1> QED
  BY <1>2, <1>4, <1>5, <1>6, StillOwn

LEMMA StepOwn ==
    ASSUME IInv, IInv', [Next]_vars, NEW a \in Asock, Own(a), ~Shares(a)
    PROVE  Own(a)'
<1>1. CASE \/ UNCHANGED vars
           \/ ServerAccept
           \/ NoDirective \/ Stop \/ EventListen \/ AcceptDone
           \/ \E b \in Asock : DestroyBegins(b) \/ Write(b) \/ Read(b)
  <2>1. UNCHANGED <<files, m_connections>>
    BY <1>1 DEF vars, lists, ServerAccept, NoDirective, Stop, EventListen, AcceptDone,
                DestroyBegins, Write, Read
  <2>2. con'[a].life = con[a].life /\ con'[a].m_sock_desc = con[a].m_sock_desc
    <3>1. con \in [Asock -> ConType]
      BY DEF IInv, TypeOK, AsockTypeOK
    <3>2. \/ UNCHANGED con
          \/ \E b \in Asock : con' = [con EXCEPT ![b].m_disconnect = TRUE]
          \/ \E b \in Asock : con' = [con EXCEPT ![b].m_out_queue = @ + 1]
      BY <1>1 DEF vars, ServerAccept, NoDirective, Stop, EventListen, AcceptDone,
                  DestroyBegins, Write, Read
    <3> QED
      BY <3>1, <3>2 DEF ConType
  <2>3. Here(a)' = Here(a)
    <3>1. DOMAIN m_connections = 1 .. Len(m_connections)
      BY Assumptions, L!PlacesFinite DEF IInv, TypeOK, AsockTypeOK
    <3>2. \/ pc' = pc /\ i' = i
          \/ pc \notin {"drop", "exited"} /\ pc' \notin {"drop", "exited"}
          \/ pc = "directive" /\ pc' = "drop" /\ i' = Len(m_connections)
      BY <1>1 DEF vars, ServerAccept, NoDirective, Stop, EventListen, AcceptDone,
                  DestroyBegins, Write, Read, StartAt, Goto
    <3>3. Served' = Served
      BY <2>1, <3>1, <3>2 DEF Served, Remaining
    <3> QED
      BY <2>1, <3>3 DEF Here, L!Times
  <2> QED
    BY <2>1, <2>2, <2>3, QuietOwn
<1>2. CASE \/ SendNothing \/ SendSome \/ HeadUnlock \/ SendDone \/ CheckDone
           \/ EpollWait(Monitored)
           \/ \E f \in FD \ {ListenFd} : EventIn(f)
           \/ ReadSome \/ ReadAgain \/ EventsDone
  <2> DEFINE T == Socket \union {Listening}
  <2>1. L!AsockTypeOK(T) /\ L!Indexed
    BY Same DEF IInv, TypeOK, Places
  <2>2. pc = "read" /\ files[cur] # Free => files[cur] \in L!Socket
    <3>1. \A b \in Asock : <<b, 0>> \in Socket
      BY Assumptions DEF Socket
    <3> QED
      BY <3>1, ReadsConnection, Same
  <2>3. \/ L!SendNothing \/ L!SendSome \/ L!HeadUnlock \/ L!SendDone \/ L!CheckDone
        \/ \E M : L!EpollWait(M)
        \/ \E f \in FD : L!EventIn(f)
        \/ L!ReadSome \/ L!ReadAgain \/ L!EventsDone
    BY <1>2, SameQuiet
  <2> HIDE DEF T
  <2>4. /\ L!Quiet(con, con') /\ pc \in L!LoopStage /\ pc' \in L!LoopStage
        /\ UNCHANGED <<files, m_connections>>
    BY <2>1, <2>2, <2>3, Assumptions, L!SharedQuiet DEF L!lists
  <2>5. Here(a)' = Here(a)
    BY <2>4 DEF Here, L!Times, Served, Remaining, L!LoopStage
  <2> QED
    BY <2>4, <2>5, QuietOwn DEF L!Quiet
<1>3. CASE SendFails \/ CheckForClose \/ ReadEnds \/ \E f \in FD : EventClose(f)
  <2>1. pc \in L!LoopStage /\ pc' \in L!LoopStage
    BY <1>3 DEF SendFails, CheckForClose, ReadEnds, EventClose, Goto, L!LoopStage
  <2>2. \/ \E sockd : CloseConnection(sockd)
        \/ UNCHANGED <<con, files, m_connections>>
    BY <1>3 DEF SendFails, CheckForClose, ReadEnds, EventClose, lists
  <2>3. CASE UNCHANGED <<con, files, m_connections>>
    <3>1. Here(a)' = Here(a)
      BY <2>1, <2>3 DEF Here, L!Times, Served, Remaining, L!LoopStage
    <3> QED
      BY <2>3, <3>1, QuietOwn
  <2> QED
    BY <2>1, <2>2, <2>3, CloseOwn
<1>4. ASSUME NEW b \in Asock, DestroyEnds(b)
      PROVE  Own(a)'
  <2>1. /\ con' = Dropped(con, b) /\ files' = DroppedFiles(con, files, b)
        /\ UserHolds(b) /\ UNCHANGED <<m_connections, pc, i>>
    BY <1>4 DEF DestroyEnds, UserHolds, lists
  <2>2. con[b].m_ref_counter > 0
    BY <2>1, HeldFollows DEF HeldIsLive, IInv, L!Sound
  <2>3. Here(a)' = Here(a)
    BY <2>1 DEF Here, L!Times, Served, Remaining
  <2> QED
    BY <2>1, <2>2, <2>3, DropOwn
<1>5. CASE Drop
  <2> DEFINE b == m_connections[i]
  <2>1. /\ pc = "drop" /\ pc' = "drop" /\ i > 0 /\ i' = i - 1
        /\ con' = Dropped(con, b) /\ files' = DroppedFiles(con, files, b)
        /\ UNCHANGED m_connections
    BY <1>5 DEF Drop, DropNext, lists
  <2>2. Served = 1 .. i /\ i \in Nat /\ Served' = 1 .. i - 1
    BY <2>1 DEF Served, Remaining, IInv, TypeOK, AsockTypeOK
  <2>3. i \in Served
    BY <2>1, <2>2
  <2>4. b \in Asock /\ Here(b) > 0
    <3>1. b \in Asock
      BY <2>3, ServedPlaces, ElementOfSeq, Assumptions, L!PlacesFinite
      DEF IInv, Places, TypeOK, AsockTypeOK
    <3> QED
      BY <2>3, <3>1, ServesCounts DEF IInv, Places, Serves
  <2>5. Serves(a)' => Serves(a)
    BY <2>1, <2>2 DEF Serves
  <2>6. Here(a)' > 0 => Here(a) > 0
    BY <2>5, ServesCounts, ServesCountsNext DEF IInv, Places
  <2>7. con[b].m_ref_counter > 0
    BY <2>1, <2>4, HereCounted DEF Pending
  <2> QED
    BY <2>1, <2>4, <2>6, <2>7, DropOwn
<1>6. CASE DropDone
  <2>1. Served' = {}
    BY <1>6 DEF DropDone, Goto, Served
  <2> QED
    BY <2>1 DEF Own, Serves
<1>7. CASE CounterIncr
  <2>1. /\ UNCHANGED <<files, m_connections>>
        /\ pc = "incr" /\ pc' = "accept" /\ cur \in Asock
        /\ con' = [con EXCEPT ![cur].m_ref_counter = @ + 1]
    BY <1>7 DEF CounterIncr, Goto, lists, IInv, Places
  <2>2. con'[a].life = con[a].life /\ con'[a].m_sock_desc = con[a].m_sock_desc
    BY <2>1 DEF IInv, TypeOK, AsockTypeOK, ConType
  <2>3. Here(a)' = Here(a)
    BY <2>1 DEF Here, L!Times, Served, Remaining
  <2> QED
    BY <2>1, <2>2, <2>3, QuietOwn
<1>8. CASE \E b \in Asock : AcceptOne(b) \/ AcceptNoMem(b)
  BY <1>8, AcceptOneOwn, AcceptNoMemOwn
<1>9. CASE WorkerStep
  BY <1>1, <1>2, <1>3, <1>5, <1>6, <1>7, <1>9 DEF WorkerStep, SharedStep
<1> QED
  BY <1>1, <1>4, <1>8, <1>9 DEF Next, UserStep

-----------------------------------------------------------------------------
(* What arrives in a queue is of the socket that the asock's number refers *)
(* to.                                                                     *)
LEMMA StepBytes ==
    ASSUME IInv, [Next]_vars, NEW a \in Asock, ~Shares(a)
    PROVE  m_in_queue'[a] \subseteq m_in_queue[a] \union {<<a, 0>>}
<1>1. m_in_queue \in [Asock -> SUBSET Socket]
  BY DEF IInv, TypeOK, AsockTypeOK
<1>2. CASE ReadSome
  <2> DEFINE k == IndexBySockDesc(m_connections, cur)
             reader == m_connections[k]
  <2>1. /\ pc = "read" /\ files[cur] # Free
        /\ m_in_queue' = IF k = 0 THEN m_in_queue
                         ELSE [m_in_queue EXCEPT ![reader] = @ \union {files[cur]}]
    BY <1>2 DEF ReadSome
  <2>2. PICK b \in Asock : /\ files[cur] = <<b, 0>> /\ con[b].life = "live"
                           /\ con[b].m_sock_desc = cur
    BY <2>1, ReadsConnection
  <2>3. k # 0 => con[reader].m_sock_desc = cur
    <3>1. k = L!IndexBySockDesc(m_connections, cur)
      BY DEF IndexBySockDesc, L!IndexBySockDesc, SelectInSeq, L!SelectInSeq, Min, L!Min
    <3>2. m_connections \in Seq(Asock)
      BY DEF IInv, TypeOK, AsockTypeOK
    <3> HIDE DEF k
    <3> QED
      BY <3>1, <3>2, Assumptions, L!IndexProperties
  <2>4. k # 0 /\ reader = a => b = a
    BY <2>2, <2>3 DEF Shares
  <2> HIDE DEF k, reader
  <2> QED
    BY <1>1, <2>1, <2>2, <2>4
<1>3. CASE \E b \in Asock : Read(b)
  BY <1>1, <1>3 DEF Read
<1>4. CASE ~ReadSome /\ ~ \E b \in Asock : Read(b)
  <2>1. UNCHANGED m_in_queue
    <3>1. CASE UNCHANGED vars
      BY <3>1 DEF vars
    <3>2. CASE SharedStep
      BY <1>4, <3>2 DEF SharedStep, SendNothing, SendSome, SendFails, HeadUnlock, SendDone,
                        CheckForClose, CheckDone, EventClose, ReadAgain, ReadEnds, EventsDone
    <3>3. CASE WorkerStep /\ ~SharedStep
      BY <3>3 DEF WorkerStep, NoDirective, EpollWait, EventListen, EventIn, CounterIncr,
                  AcceptDone, Drop, DropNext, DropDone
    <3>4. CASE Stop \/ ServerAccept
      BY <3>4 DEF Stop, ServerAccept
    <3>5. ASSUME NEW b \in Asock, UserStep(b) \/ AcceptOne(b) \/ AcceptNoMem(b)
          PROVE  UNCHANGED m_in_queue
      BY <1>4, <3>5 DEF UserStep, DestroyBegins, DestroyEnds, Write, AcceptOne, AcceptNoMem
    <3> QED
      BY <3>1, <3>2, <3>3, <3>4, <3>5 DEF Next
  <2> QED
    BY <2>1
<1> QED
  BY <1>2, <1>3, <1>4

-----------------------------------------------------------------------------
(* What a user has, what waits to be accepted and what the server serves   *)
(* is never freed memory, for any number of asocks and numbers: every      *)
(* place has a reference (asock_server.c:784), and an asock that is put in *)
(* the lists before it is counted is the one exception.                    *)
THEOREM HeldCorrect == Spec => []HeldIsLive
BY Invariant, HeldFollows, PTL

(* No asock is left that neither its user nor the server could free, but   *)
(* for a connection that failed, or met the server's stop, before it was   *)
(* accepted (asock_server.c:835, 1014).                                 *)
THEOREM ReachableCorrect == Spec => []LiveIsReachable
BY Invariant, LiveFollows, PTL

(* The server serves each connection through its own socket until another  *)
(* asock with the same number is closed or destroyed: accept takes only    *)
(* numbers that are free, and a close takes the connection out of the list *)
(* whose number it closes (asock_server.c:847).                            *)
THEOREM SocketCorrect == Spec => OwnSocket
<1>1. IInv /\ IInv' /\ [Next]_vars => [\A a \in Asock : Own(a) => Own(a)' \/ Shares(a)]_vars
  BY StepOwn
<1> QED
  BY <1>1, Invariant, PTL DEF Spec, OwnSocket

(* Received bytes get to the asock whose socket they came through, unless  *)
(* another asock has its number, by which the reader is found              *)
(* (asock_server.c:818).                                                   *)
THEOREM BytesCorrect == Spec => OwnBytes
<1>1. IInv /\ [Next]_vars =>
        [\A a \in Asock :
            m_in_queue'[a] \subseteq m_in_queue[a] \union {<<a, 0>>} \/ Shares(a)]_vars
  BY StepBytes
<1> QED
  BY <1>1, Invariant, PTL DEF Spec, OwnBytes

(* The worker's list index stays in the list it goes through, whatever is  *)
(* closed meanwhile, and every field keeps its type (asock_server.c:952).  *)
THEOREM TypeCorrect == Spec => []TypeOK
<1>1. IInv => TypeOK
  BY DEF IInv
<1> QED
  BY <1>1, Invariant, PTL
=============================================================================
