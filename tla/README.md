# libasock in TLA+

libasock is a small C library for asynchronous sockets. A program talks to
*asocks* (`asock_t`) from its own threads; a *service* (for connections it
makes) or a *server* (for connections it accepts) is a worker thread that does
the socket calls with epoll. This directory models the library as it is
written, checks it with TLC on small instances and proves with TLAPS what can
be proved of all instances. Paths are relative to the repository; `asock_x.c`
is `src/asock_x.c`.

## 1. The system

| component | state | operations | used by |
|---|---|---|---|
| `asock_tsqueue` | a ring buffer (`m_data`, `m_capacity`, `m_size`, `m_head_pos`, `m_tail_pos`) and a mutex | create, enqueue (grows and relocates), dequeue/pop, head_lock ... head_unlock, clear, for_each | the in and out queue of each asock |
| `asock_directive` | one directive with four arguments, one result, a mutex, two condition variables | send (and wait for the result), wait, get type, set result | API calls to a worker |
| `asock_impl` | `asock_t`: descriptor, state, `m_disconnect`, reference count, two queues | create, connect, read, write, state, bind, destroy | programs; both workers |
| `asock_service` | two vectors of asocks (connected, to be connected), a mutex for the second, status, mailbox, epoll | create, start, stop, destroy, connect, create_asock; the worker's loops | `asock_impl` through the manager |
| `asock_server` | the same with a listening socket; the second vector holds those to be accepted | create, bind, listen, accept, stop, destroy; the worker's loops | programs |
| `asock_service_manager` | a table of services by network namespace, not locked | get service, free all | `asock_create`, `asock_connect`, `asock_deinit` |
| `asock_vector`, `asock_connections` | a growing array | push, erase, at, clear | service, server |
| `asock_utils`, `asock_logger` | none to speak of | wrappers, output | all |

How they interact. `asock_create` and the control calls of a service or server
are *directives*: the caller fills the mailbox, signals the worker and sleeps
until there is a result. Everything else is shared memory: `asock_connect`
appends to `m_new_connections` under its mutex, `asock_server_accept` takes
from it; `asock_write` and `asock_read` use the queues, each with its mutex;
`asock_destroy` sets `m_disconnect` and gives up a reference, and the worker
sees the flag in its next round. The worker's round is: look at the mailbox,
connect what is new (service), send what is unsent, close what was destroyed,
wait for events, handle each.

What is hard about it: the status, the state and `m_disconnect` are read
without locks; the mailbox has one slot and no owner; the objects are freed by
whoever drops the last reference, at any point of the worker's round;
connections are found by descriptor *number*, which the kernel hands out again;
a failing call leaves things half done. `PROJECT.json` lists these hazards at
their lines with the properties that cover them.

What makes each component correct: the queue is a FIFO queue whatever it wraps
and however it grows; the mailbox is a remote call (the worker serves the call
that waits, each call gets its answer, no signal is lost); the status tells the
truth about the worker, memory is freed after the worker's last use, calls
return; references are counted, what is held is not freed, what is destroyed is
freed, the bytes of a connection go to that connection, states change as the
header says, connects are answered; the table of services has no name without
its service, and hands out no service that was destroyed; a vector is a list.

## 2. The modules

| module | of | role |
|---|---|---|
| `FifoQueue` | - | what a queue promises: abstract specification |
| `TSQueue` | `asock_tsqueue.c` | the ring buffer; implements `FifoQueue` |
| `ItemList` | - | what a vector promises: abstract specification |
| `Vector` | `asock_vector.c`, `asock_connections.c` | the growing array; implements `ItemList` |
| `Directive` | `asock_directive.c` | the mailbox, with callers and a worker that answers for ever |
| `ServiceControl` | `asock_service.c` 96-528 | the life of a service; composes `Directive`, and implements it |
| `ServerControl` | `asock_server.c` 137-446, 532-703 | the life of a server; composes `Directive`, and implements it |
| `ServiceManager` | `asock_service_manager.c`, `asock_impl.c` 15-67 | the unlocked table of services, and the threads that look for one, make one and use it |
| `Asock` | `asock_impl.c`, and what both workers have in common | the objects, the descriptor table, sending, closing, reading; extended by the next two |
| `ServiceLoop` | `asock_service.c` 319-347, 449-812 | the connections of a running service until it stopped |
| `ServerLoop` | `asock_server.c` 409-423, 635-703, 705-1023 | the connections of a running server until it stopped |
| `TSQueue_proofs`, `Vector_proofs`, `Directive_proofs`, `ServiceControl_proofs`, `ServerControl_proofs`, `ServiceManager_proofs`, `ServiceLoop_proofs`, `ServerLoop_proofs` | - | the theorems |
| `MC...` | - | constants and symmetry sets for TLC |

Operators under a comment "For the mutants of the model" are variants of the
definition that follows them, each with a plausible slip of the code. No
specification uses them; put in the definition's place, each makes one of the
properties fail (`mutants` in `PROJECT.json`), which shows that the property
depends on that part of the code.

### TSQueue

Every call holds the mutex for its whole body and is one action; `HeadLock`,
`HeadRead` and `HeadUnlock` are apart, because the worker keeps the mutex while
it sends from the buffer. The block is a function on its slots; a slot that
nothing wrote holds `Junk`, and the `NULL` block has no slots: an action that
would go through it is not enabled, which is where the model of a failed
`realloc` ends. The doubling loops are "the least member of `Capacities` that
is large enough"; the assumption on `Capacities` says no more than that its
members are reached by doubling. `input` and `dst` are what the last enqueue
was given and the last read copied out; `FifoQueue` has them as well, so that
refinement speaks of what callers give and get. `FifoQueue` also says what a
failed `realloc` costs (`Lose`): what was queued, and nothing else.

### Vector

One thread at a time uses a vector (the service's worker its own, all others
under a mutex), so that each call is one action. The block is modelled as the
queue's is. `InitCapacities` are those a vector may be created with, 0
included: a push to such a vector is not enabled, which is where the assertion
of `reallocate` ends the program. `Contents` is the list that `ItemList` speaks
of; a push whose `realloc` fails leaves as many items as there were and none of
them (`PushRefused`), because `m_data` is overwritten before it is looked at.
The loops use a vector as the sequence that `ImplementsList` says it is.

### ServiceManager

A thread's call of `asock_create_ns` or `asock_connect` is cut wherever another
thread's may come between: `Found` and `NotFound` (loop 1), `Claim` (loop 2
takes a slot by its name), `Create`, `Start`, `Publish`, `Use`, and their
failures. A name that was freed is `Dangling`, compares as it likes and may be
cloned into anything; so is the table that `asock_deinit` leaves. What the
service does is in `ServiceControl` and `ServiceLoop`; here it is alive or not
and has the namespace it was created with (`net_ns`).

Since nothing is locked, two threads can take one slot, and then a service is
created under the other's name or lost. `contended` is a history variable that
records such slots. `RightNamespace` and `NothingLost` say that this is the only
way to it; `PendingNameHasWorker` and `GivenIsAlive` hold in any case.

### Directive, ServiceControl, ServerControl

What happens between taking the mutex and the next unlock or `cond_wait` is one
action. A signal moves one of the waiters to "woken"; waiters may also wake
spuriously. `m_arg` says whose arguments the mailbox has; the worker reads the
type first (`taken`) and the arguments later, as the code does, so that they
may belong to another call by then.

The control modules put the API calls on one side (the unlocked look at the
status is one step, `BeginStart`, `BeginStop`, ..., the sending another, the
return, `pthread_join` and `free` more) and the worker's two loops on the other
(a server listens, or fails to, in one step, publishes the status in the next
and answers in a third). The threads may make any call
at any time the code lets them, with one rule of the API: one thread creates
and destroys the object, when no other is in a call of it.

The mailbox is meant for one call at a time, and nothing in the code sees to
that. What is said of a call's outcome is therefore said of a call that no
other one meets (`Alone`), *whatever happened before*: an overwritten directive
or a result taken by the wrong thread must not harm a later call. What two
calls at once can do to each other (one of them may hang, the worker may
dereference a NULL argument, a thread may get an asock and an error, which the
code calls an "Unexpected situation", `asock_service.c:360`) is what these
conditions exclude. `Heard` excludes calls to a worker that has exited, which
is `ServerRetry`'s subject.

The case `DirectStop` in the two configuration loops is not modelled:
`ConfigurationNeverStopped`, a part of what is checked and proved of the status
of both, shows that no thread can reach it. The model stops (`Alive`) when the
worker dereferences a NULL argument and when its memory is freed under it.

### Asock, ServiceLoop, ServerLoop

An asock is a record of the fields that matter; `m_out_queue` is the number of
writes that wait, `m_in_queue` the set of sockets whose bytes were put there,
which is what telling one's own bytes from another's needs. The kernel's
descriptor table is explicit (`files`): `Open` takes the lowest free number, as
Linux does, and `ClosedFile` frees a number, whoever it belongs to. `life` says
if the memory is there.

A user's `asock_destroy` is two steps, the flag and then the reference, and
`asock_connect` is two, the state and the reference and then the push; the
worker's round is cut at each connection and each event (`pc`, `i`, `batch`),
and inside them where other threads can see a difference: between a failed send
and the unlock of the queue (`unlock`), between the publication of an accepted
connection and its count (`incr`), between the reads of a descriptor (`read`).
Where the worker would touch an asock that was freed (`Undefined`) the model
stops.

A vector is the sequence of what it holds; how often an asock is in it is
counted by places (`Times`). While the worker goes through a list to connect it
or to drop its references, the places that it has not come to are those it
still has references for (`Kept`, `Served`). A stop may come at any round
(`Stops`), and takes effect on the lists as the clean-up of the thread function
does. In `ServiceLoop` the end of a connect may be an error of `getsockopt`
itself (`EventOutFails`); in `ServerLoop` there may be no memory for the peer's
address (`AcceptNoMem`: the asock is destroyed, and its number closed again).
The listening socket is accepted from and never read.

`close_connection` closes the descriptor and leaves its number in the asock;
the last reference closes the number again. Where another asock has got the
number meanwhile, the worker takes the one for the other: `ServerCrossRead` is
an instance of it. The properties about sockets, bytes and counts are action
properties: what holds of an asock goes on to hold unless, at that step, a live
asock has the same number (`Shares`). So they say that this is the *only* way
in which a connection can lose its socket or get another's bytes. In the
service the socket is that of `asock_create` until the asock is connected
(`OwnFirst`) and that of the connect from then on (`Own`).

`RefsCounted` has an exception of its own, and no other: an asock that waits in
`m_new_connections`, and whose number another asock has or another's close has
freed, is taken out of that list by a close meant for the other one, which keeps
its reference (`LeavesReference`). An asock that the service closed is no
exception, though its number is stale: the user's destroy that comes after must
leave the count right. What was forgotten in this way (`Stray`) is freed by
nobody and connected by nobody, and `DestroyedIsFreed` and `ConnectSettles`
except it. `ConnectSettles` is about a connection that has its own socket (`Own`)
and that the search by its number finds (`Found`).

## 3. The runs

| run | shows | bounds | states |
|---|---|---|---|
| `TSQueue` | FIFO, agreement of the fields, `realloc` may fail | 2 items, capacities 1, 2, 4, batches up to 3: growth by one and by two doublings, relocation of a full and of a wrapped queue, writes in two batches | 107,198 |
| `Vector` | a list through growth, erasure and failing `realloc`; size and capacity fit the block | 2 items, initial capacities 0, 1, 2, 3, growth up to 6 | 10,625 |
| `Directive` | no signal lost, no empty wake-up; a call that is alone is served, answered, returned | 3 callers (one overwritten, one woken, one asleep), 3 directives with two results of their own each | 69,519 |
| `ServiceControl` | unlocked status, one join, success is real, calls return, refinement of `Directive` | 3 threads, any calls in any order, restarts included | 691,104 |
| `ServerControl` | the same, and that Running is listening | 3 threads, a worker that may fail to come up or to listen | 136,954 |
| `ServiceManager` | names and services in the unlocked table, through deinit and init | 2 threads, 2 namespaces, 2 slots, 3 services, up to symmetry | 727,067 |
| `ServiceLoop` | live memory, reference counts, own socket, the state diagram, connects answered, freed in the end and closed | 2 asocks, 4 numbers, 1 waiting write, 1 connect each, a stop | 136,393 |
| `ServerLoop` | live and reachable memory, own socket, own bytes, freed in the end | 3 connections, 3 numbers (one listens), 1 waiting write, a stop | 888,609 |
| `ServerRetry` (violated) | the retry loop of `test/test_server.cpp:32` hangs after a failed listen | 1 thread | |
| `ServerUnstarted` (violated) | a server that never listened is freed under its worker | 1 thread | |
| `ServerCrossRead` (violated) | another connection's bytes are delivered | 3 connections, 4 numbers | |
| `ServerAcceptRace` (violated) | accepted and destroyed before it is counted | 2 connections | |

Why the bounds are enough: two asocks give every pair of a connection that is
worked on and one that is not, of list positions 1 and 2, and of an event for
one while the other closes; a number that passes from one connection to a
second and, closed under it, to a third needs three, which `ServerLoop` and
`ServerCrossRead` have. The properties of `ServiceLoop` were also checked with
three asocks, without writes (1,540,227 states, nine minutes, too long to be one
of the runs): a number that passes on to a third asock before it was connected
is what the exceptions `LeavesReference`, `Stray` and `Found` are for, and with
two asocks no reference is ever forgotten. The numbers in `FD` are few, so that a closed one is
soon used again; when none is left, opening fails, which the code handles as
any failure. `MaxOut` is the one write that waits; `MaxConnects` the one connect
that the API means to be made. Three threads give a call that meets another
while a third one sleeps in the mailbox, which is where a stop can take the
answer to someone else's directive. Two threads and two slots give every pair
of steps on one slot and on two; three services are one more than the table
has, so that a lost one can be told from one that is listed.

Deadlock is checked in `TSQueue`, `Vector` and `Directive`. The others may stop:
a service or server that was destroyed, a loop that exited, a worker that
crashed, two threads that wait for a result that only one can take, a thread
that frees a name for the second time.

### Fairness

- The worker and any thread inside a call are scheduled (`WF`). Nobody has to
  call, to wake spuriously, to send or to connect.
- `ConnectEnds` is strongly fair: the worker takes `m_new_connections_mutex`
  again and again, but sleeps in `epoll_wait` in every round without it.
- `OutcomeReported` and `OutcomeHandled` are strongly fair: TCP answers a connect
  or gives it up, the kernel reports which (the sockets are edge triggered, and
  each outcome is one edge), and the worker gets to it among the other events.
  Only `ConnectSettles` needs this.
- `WF(ReadAgain \/ ReadEnds)`: no peer sends as fast as the worker reads for
  ever. The loop in `asock_service.c:592` has no other end; this is an
  assumption about the environment and not something the code enforces.

Unlocked fields are modelled as atomic and sequentially consistent;
`m_service_status` and `m_server_status` are not even `volatile`, so that this
too is an assumption, about the compiler.

### What the violated runs say

They are the findings of `PROJECT.json`, each with the sentence of the
repository it goes against:

- `ServerUnstarted`: destroy stops and joins a Running worker only
  (`asock_server.c:243`; `asock_service.c:178` has the same).
- `ServerRetry`: a failed listen ends the worker, and the next bind or listen
  waits for an answer for ever (`asock_server.c:627`).
- `ServerAcceptRace`: a connection is put up for acceptance before the server
  counts its own reference to it (`asock_server.c:784`).
- `ServerCrossRead`: a descriptor number is closed twice (`asock_impl.c:154`).

Seen while modelling, within the models or their conditions, and not in a run
of their own:

- A failed send frees a destroyed asock while the caller still has its queue
  locked (`asock_service.c:703`): `Undefined` at `pc = "unlock"`. The runs
  `ServiceLoop` and `ServerLoop`, with `MaxOut = 1`, come to it and stop there;
  `ServerAcceptRace`, with `MaxOut = 0`, is about the other race only.
- A second `asock_connect` takes an Established connection back to InProgress,
  against the diagram of `asock.h:84`, and puts it in the lists twice
  (`asock_service.c:337`): `StateDiagram` with `MaxConnects = 2`.
- Two threads in `asock_create` meet the "Unexpected situation"
  (`asock_service.c:359-360`): `SuccessIsReal` without `D!Alone(c)`.
- `realloc`'s result is stored before it is checked, so that a queue that is
  not empty may have a NULL head, which the workers assert it has not
  (`asock_tsqueue.c:45`, `asock_service.c:700`).
- The socket that `asock_create` opens is never closed when `asock_connect`
  opens another (`asock_service.c:772`): the file `<<a, 0>>` stays open.
- A failing listen leaves the server's socket open (`asock_server.c:619-628`).
- What was written just before a destroy is lost: the connection is closed with
  its out queue unread (`asock_server.c:1019`). `test/test_server.cpp:327-328`
  writes and destroys at once, sleeps only then, and requires that all of it has
  arrived, which depends on the worker having sent it before it looks at the
  flag; `asock.h:97` has a destroy that waits as a todo.
- A connect after Failed leads nowhere: the service's own `asock_destroy_asock`
  has set `m_disconnect`, and the next check closes the new connection.
- A connect whose number another asock has, because that one was closed and
  keeps its stale number, may stay InProgress: the event closes or settles the
  other one, which is earlier in the list. `ConnectSettles` excludes it (`Own`,
  `Found`); three asocks are enough.
- An asock that waits to be connected, and whose number is another's too, or was
  closed by one that had it too, may be forgotten when the number is closed once
  more: it is taken out of `m_new_connections`, no close finds it in
  `m_connections`, and the reference for the list is left
  (`asock_service.c:629`). With a number that is shared it takes three asocks,
  with one that was closed four. The proof of `RefsCorrect` led to it, and TLC
  finds it with three (`LeavesReference`).
- A stop that meets two other calls may return with the answer to another
  thread's directive and join a worker that has not stopped yet; the thread
  whose answer it took waits (`asock_service.c:265`): the exception in
  `JoinedOnce`.
- `asock_create_ns` leaks the copy of the namespace's name when it fails
  (`asock_impl.c:39-49`).
- Two threads that look up a new namespace at once can leave the second one with
  NULL, a service in the wrong namespace, or one that nobody can reach
  (`asock_service_manager.c:23`): `contended`.

## 4. The proofs

`TSQueue_proofs`, from the assumptions on the constants in `TSQueue`:

- `Fields` is the inductive invariant: the types, `RingInvariant`, and that the
  mutex and the block are as they must be. The type of `m_data` alone is not
  inductive, because its domain after a growth depends on where the tail was:
  `RingInvariant` says so. `TypeCorrect` and `RingCorrect` follow, with and
  without failures of `realloc`.
- `FifoCorrect`, the refinement. The lemmas say what a store leaves
  (`WrittenOldItems`, `WrittenNewItems`: the old items are where they were, the
  new ones behind them), what a growth leaves (`GrowthKeepsItems`: the same
  items at the same distance from the head, by cases on whether the queue
  wraps) and what a failed `realloc` leaves (`LostContents`). The step theorem
  then maps each action to one of `FifoQueue`.

`Directive_proofs`, from `DirectiveAssumption`, for any number of callers:

- `Mailbox` is the types, `WaitReturnsDirective`, `NoResultWithDirective` and
  `NoLostSignal`. That a directive and a result are never there together is
  what makes it inductive: it is why a caller that takes a result cannot wipe
  out another's directive, and so why the worker's wait ends with something to
  do (`TypeCorrect`, `WaitCorrect`, `DirectiveKept`). `SignalsCorrect` is
  `NoLostSignal`, for any number of threads at one condition variable that is
  signalled and never broadcast.
- `Owned` adds whose the directive and the arguments are: while the worker is
  busy the slot's owner is inside its call, and *some* call inside asked for
  what the worker took; a result is right for *some* call inside. For a call
  that is alone that one is itself: `ServedCorrect` says it of the directive and
  the arguments that the worker uses, `AnswerCorrect` of the result that the
  call takes.

`Vector_proofs`, from `VectorAssumption`: `Fields` (types and `Fits`) is
inductive, `FitsCorrect`; the lemmas `StoreAppends` (a store behind the last
item appends) and `Removed` (moving down what follows removes) give the
refinement of `ItemList`, `ListCorrect`.

`ServiceManager_proofs`, from `ServiceManagerAssumption`, for any numbers of
threads, namespaces, slots and services. `IInv` adds to the two invariants what
makes them inductive: who has which service in hand, and that nobody else knows
of one that is being made (`Hands`); the table holds each service once
(`Table`); two threads at one slot have been noticed, and a thread alone at its
slot finds the slot empty (`Slots`) and its name there (`Names`); what a call
was given is in the table where no threads met (`Given`). `PendingCorrect`,
`AliveCorrect`, `NamespaceCorrect` and, for the action property,
`NothingLostCorrect`.

`ServiceControl_proofs` and `ServerControl_proofs`, for any number of threads,
from the assumption that tells results and directives apart:

- `Handling`: where the worker is about to answer it has the directive that it
  answers in hand, and the answer is one to it. So every step is a step of
  `Directive` or leaves the mailbox alone: `DirectiveImplemented`.
- `Directive_proofs` is then instantiated (`M`), and its `Owned` holds in the
  service and the server without being proved again.
- `Calls` relates each thread's place in its API call to its place in the
  mailbox and to what it asked for; `Status` the status to the worker's place,
  including that a Stop in the mailbox was sent to a worker that runs. Hence
  `StatusCorrect` (for the server `RunningCorrect`). `Freeing` follows who may
  free, and gives `FreedCorrect`; `Outcome` what a result says, and gives
  `SuccessCorrect`; `CrashCorrect` is inductive with `Owned`.
- `JoinCorrect` (service) is an argument by counting: answers given to a Stop,
  those taken, and threads that join (`Tally`). It therefore assumes that the
  set of threads is finite.

`ServiceLoop_proofs`, from the assumptions of `Asock` and `ServiceLoop`, for any
number of asocks, descriptors, connects and waiting writes. The inductive
invariant `IInv` is the types; `Sound`, memory is there as long as there are
references; `Covered`, each asock has *at least* the references of its user and
of the places where the lists have it; `Places`, the worker's index is in its
list. "At least" is what holds in spite of mixed-up numbers: a close may take an
asock from `m_new_connections` in another one's place and leave it a reference
too many, never one too few. `HeldCorrect` follows. The lemmas are about lists
counted by places: an append adds one (`TimesAppend`), a removal takes one away
(`TimesRemoveAt`), the search returns a place of the list (`IndexProperties`,
from the community modules' definition by a minimum, whose existence is
well-foundedness of `Nat`), and `CloseEffect` puts together what
`CloseConnection` does to counts, lists and memory.

Four more theorems have the hypothesis `MaxConnects <= 1`: no asock is connected
twice, as the API means it. Connected twice an asock is in the lists twice and
its state goes back, so that `StateDiagram` is false (section 3). Their
invariant `Single` adds three parts to `IInv`:

- `Once`: an asock is with a thread that connects it, in the list of those to
  be connected, or in that of the connections, in one of these at a time and in
  the state that goes with the place. `StateCorrect` (the diagram of `asock.h`)
  is read off this step by step.
- `Opened`: a number refers to the socket that a live asock had it opened for,
  except for sockets of `asock_create` that a connect replaced. Without it
  nothing rules out that a close hits a number of somebody who shares it with
  nobody. `SocketCorrect` (`OwnSocket`) and `FreedCorrect` (`FreedIsClosed`)
  follow.
- `Reported`: an event that is still to be handled is for a number that was
  monitored, or closed since. Without it an event could close a connection that
  waits to be connected.

`SocketCorrect` says besides that an asock that is not connected yet keeps the
socket of its creation (`OwnFirst`): a connect puts a new one in its place in
`TryConnect` only, and a close by another's number needs that the two share it.
`RefsCorrect` needs all three parts. Its step lemma, `CountStep`, goes through
every step that changes places or counters, so that after the service has closed
a connection the user's destroy is covered like any other step; the one case
that does not preserve the count is a close that removes an asock from
`m_new_connections` in another's place. The steps are sorted by what they do to places,
counters and files of one asock (`Stays`, `Moves` and their like, `StepKinds`),
so that each of the properties is proved over a few kinds and not over all
actions.

`ServerLoop_proofs`, from the assumptions of `Asock` and `ServerLoop`, for any
number of asocks, descriptors and waiting writes, with no hypothesis on
connects. The lemmas about lists and about the steps of `Asock` come from
`ServiceLoop_proofs` by `INSTANCE`. The invariant `IInv`:

- `Counted`: an asock has a reference for each place where it is known, less
  one while it is in the lists and not counted yet (`Pending`, at `pc = "incr"`),
  and exactly these once a user may have come into play. The window is
  `ServerAcceptRace`'s; the theorems hold in spite of it, and say for whom:
  `HeldIsLive` excepts the one connection that the worker is about to count.
- `Known`: what no user has taken and is live is served, has failed, or met the
  stop. With `Counted` it gives `ReachableCorrect` (`LiveIsReachable`).
- `Opened`: an open number is that of the live asock it was opened for. In the
  server a socket is never replaced, which makes this simpler than in the
  service, and gives `SocketCorrect` and `BytesCorrect` (`OwnSocket`, `OwnBytes`).
- the types, `Sound`, and `Places`: the worker's index is in its list and what
  it has in hand is there. `HeldCorrect` and `TypeCorrect` follow.

The only assumption about files is `FreeAssumption`, that a free number can be
told from one in use.

Only model-checked: all liveness (`CallsReturn`, `DestroyedIsFreed`,
`ConnectSettles`, `RetryReturns`), because the proof system has no support for
`ENABLED` and so not for fairness. All other properties of the passing runs are
theorems.

## 5. Not modelled

- The growth of a vector inside the loops: in `Asock` a vector is the sequence
  of what it holds, and its `push` does not fail. Where it fails the vector has
  lost its block (`Vector`), which service and server ignore, and the next access
  is undefined; at `asock_server.c:776` the lock stays taken besides.
- Which connections the kernel still has when the accept loop ends: the loop
  ends at any error (`asock_server.c:733`), and an edge-triggered socket reports
  those that wait only when another one comes.
- `asock_bind`: it changes a descriptor's address and two fields that nobody
  reads, as nobody reads `m_serv_counter` of the service manager.
  `asock_server_setns`: declared in no header. Network namespaces: the worker
  goes on whatever becomes of `setns`.
- Failures of `malloc`, `epoll_create1` and `pthread_create` inside create
  calls: they return NULL and no object comes into being.
- The bytes themselves, addresses, logging, `asock_utils` (without state; that
  its calls fail is among the outcomes of `TryConnectFails` and `StartServer`).
- The use of memory after it was freed: the models stop there.

## 6. Plan

Done, in this order: `TSQueue` with `FifoQueue` and its proofs; `Directive` and
its proofs; `ServiceControl`, `ServerControl`; `Asock`, `ServiceLoop`,
`ServerLoop`; `Vector` with `ItemList` and its proofs; `ServiceManager` and its
proofs; the proofs of the control modules; the proofs of the mailbox's signals
and answers; those of `ServiceLoop` and of `ServerLoop`.

Next:

1. A composition of the service's control and its loop: what a stop does to
   asocks that users still have.
2. What holds of an asock that is connected again (`MaxConnects` above 1): of
   the four theorems with that hypothesis, which parts do not need it.
