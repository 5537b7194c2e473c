# A TLA+ model of webrtc-native-demo

The repository is a set of small native programs that exercise WebRTC's base
library, and one program with a protocol of its own: a client of the Janus
gateway over a websocket (`11_rtc_janus`). The programs are `main` functions
with callbacks that run on other threads. What makes them hard to test is what
interleaves: completion handlers, timers and posted tasks against a main thread
that connects, waits, closes and deletes.

## 1. The system

### 1.1 Inventory

| component | state | operations | interacts with |
|---|---|---|---|
| `WebsocketTransport` (`11_rtc_janus/websocket_transport.{h,cc}`) | `connected_`, `send_msg_queue_`, the Beast stream and its outstanding operations | `Connect`, `Disconnect`, `SendMsg`; handlers `OnResolve`, `OnConnect`, `OnHandshake`, `OnRead`, `OnWrite`, `OnClose`; posted tasks `SendDataInner` and the close task | the io thread runs its handlers on one strand; two callbacks into the session |
| `JanusSession` (`janus_session.{h,cc}`) | `session_id_`, `response_callback_map_`, `keep_alive_timer_`, `ioc_`, `io_thread_` | constructor, `Init`, `Destory`, destructor; `OnConnect`, `OnMsg`, the create callback, `KeepAlive`, `DoKeepAlive` | owns the transport; main calls it while the io thread runs its callbacks |
| `11_rtc_janus/main.cc` | - | construct, `Init`, sleep 12 s, `Destory`, wait for ever | the session |
| `sigslot.h` (vendored, but all of it is in the header) | connection list and mutex of a signal, sender set and mutex of a slot | connect, disconnect, emit, copy, destructors | used by 04, 05, 08, 09 |
| `04_rtc_sigslot` | one signal, two slots | two threads connect; main deletes a slot and emits | sigslot, `rtc::Thread`, `rtc::Event` |
| `05_rtc_socket` client, server | socket, `count_`; one `Echo` per connection | connect, delayed send, receive, close with `delete this` | sigslot callbacks on the socket thread |
| `02_rtc_thread`, `03_rtc_task_queue` | an exit flag; queues of posted and delayed tasks | post, delayed post, invoke, stop, join | WebRTC threads; the task templates of `thread.h`, `to_queued_task.h`, `pending_task_safety_flag.h` |
| `08_rtc_network`, `09_rtc_stun` | an event; the list of networks | start updating, wait for the first update, read the list, probe | network thread, sigslot |
| `10_rtc_peer_connection` | peer connection, observers | create, add track, create offer, set local description | signaling thread |
| `scoped_refptr.h`, `ref_counted_object.h`, `ref_counter.h` (vendored, whole in their headers) | a pointer, a counter | copy, move, assign, destroy; AddRef, Release | every object of 10 and the device modules of 06, 07 |
| `swap_queue.h` (vendored, whole in its header) | slots, two indices, an atomic counter | `Insert`, `Remove`, `Clear` | a producer and a consumer thread |
| `06`, `07` capture | device, sink | enumerate, start, sleep, stop | device threads |
| `01_hello_rtc` | none | one log line | - |

Hard behaviour, component by component (the `hazards` of `PROJECT.json` have
the lines):

* transport: one outstanding write at a time, order through post, queue and
  completions, failure in the middle of the queue, a close that races the loss
  of the stream;
* session: an io thread that may return for want of work, a cancel that races
  an expired timer, answers that are repeated, a destructor against running
  handlers, an exception that leaves a handler;
* sigslot and its users: lock order of two mutexes, callbacks that delete their
  receiver, delayed tasks that outlive it;
* network demos: an error path that does not set the event main waits for, a
  list that is replaced while main reads it;
* capture and peer connection demos: sources and connections that hold bare
  pointers to objects of main, and main's early returns;
* thread demos: sleeps that must be longer than delays, a flag without
  synchronisation, tasks that outlive their owner;
* reference counts and the swap queue: lock-free operations of several steps.

What makes each correct: the transport is an ordered channel that loses nothing
it accepted and notices that its connection is gone; the session keeps alive
exactly the session the server granted and stops when told to; a signal never
calls a slot that is gone and no two threads wait for each other; every wait of
a demo ends once what it waits for has happened, and nothing is destroyed while
it is at work; a referenced object lives exactly as long as its references; the
swap queue is a bounded first-in-first-out queue.

### 1.2 Plan

1. `OrderedChannel`, `WebsocketTransport`: the send path, connecting, closing; refinement. **Done.**
2. `JanusSession` on top of it: both threads, keep-alive, answers, destructor. **Done.**
3. `WebsocketTransportProofs`: types, order, completeness, refinement, for all constants. **Done.**
4. `Sigslot`: signals and slots with their mutexes under the threading policies, copies included, instantiated by the program of 04. **Done.**
5. `TcpEcho`, `TcpEchoProofs`: the client and server of 05, with the delayed send. **Done.**
6. `RtcThread`: posted, delayed and invoked tasks, stop, the exit flag; the programs of 02 and 03. **Done.**
7. `DeviceDemos`: the programs of 06, 07, 08 and 09. **Done.**
8. `ScopedRefptr`, `PeerConnection`: reference counting and the program of 10. **Done.**
9. `BoundedQueue`, `SwapQueue`, `SwapQueueProofs`: the lock-free queue and that it is a queue. **Done.**
10. `JanusSessionProofs`: the session drives its transport as the transport's specification allows (so that the order theorems hold in it); its timer. **Done.**
11. `ScopedRefptrProofs`, `DeviceDemosProofs`, `RtcThreadProofs`: the counters, the life times of 06 to 09, the order and the times of 02 and 03. **Done.**
12. `SigslotProofs`: the types and, for programs that keep the rules, the connection lists with their iterators and the discipline of the mutexes. **Done.**

Modules 4-9 do not depend on each other. A run has the programs' own scripts
and, where the class promises more than the programs use, a general user.

## 2. The modules

| module | models |
|---|---|
| `OrderedChannel` | what a sender may expect: messages are transmitted in order, at most once, until the channel breaks |
| `WebsocketTransport` | the transport; its properties; the refinement mapping |
| `JanusSession` | the session and the two threads of the program, sharing the variables of an instance `T` of `WebsocketTransport` |
| `Sigslot` | signals, slots, their mutexes, and threads that run programs with them |
| `TcpEcho` | the echo server and its clients |
| `RtcThread` | main and its worker thread, queue or platform thread, with a clock |
| `DeviceDemos` | the four programs that own a source which calls back |
| `ScopedRefptr` | pointers, counters and objects; any use of them, or scripts |
| `PeerConnection` | the scripts of `10_rtc_peer_connection` for `ScopedRefptr` |
| `BoundedQueue` | what a user of the swap queue may expect |
| `SwapQueue` | the swap queue, step by step; the refinement mapping |
| `MCWebsocketTransport`, `MCJanusSession`, `MCSigslot`, `MCTcpEcho`, `MCRtcThread`, `MCDeviceDemos`, `MCScopedRefptr`, `MCSwapQueue` | the instances TLC checks; `MCSigslot` has the programs, that of 04 among them |
| `WebsocketTransportProofs`, `JanusSessionProofs`, `SigslotProofs`, `TcpEchoProofs`, `RtcThreadProofs`, `DeviceDemosProofs`, `ScopedRefptrProofs`, `SwapQueueProofs` | theorems about the module each is named after |

Operators whose name adds a word to that of the operator they precede
(`OnReadKeepsFlag` before `OnRead`) are faulty variants of the code, one for
each property, with which it was confirmed that the property can fail. No
specification uses them.

### 2.1 WebsocketTransport

Members keep their names. A message is a model value; `SendMsg` allocates one
shared buffer per message, so a buffer is a number, the position of its message
in the history `accepted`, and `posted`, `send_msg_queue_`, `inflight` and
`wire` hold such numbers. `posted` is the strand's queue of posted tasks; 0 is
the task `Disconnect` posts. External state is modelled by how the class uses
it: `status` is the stream (`is_open()` is `status = "open"`), `chain` the
outstanding step of resolve, connect and handshake, `reading`, `inflight` and
`closing` the outstanding reads, writes and close.

One action is one handler, run without interruption by the io thread. A handler
takes `ec`, TRUE for any error, timeouts included. Two points are finer:

* `HandshakeDone` and `OnHandshake` are two steps, because Beast opens the
  stream before the handler runs and main may call `is_open()` in between; the
  strand runs nothing else there (`StrandFree`).
* a handler that calls back into the owner takes the message `m` the owner
  sends from there, or `NoMsg`.

An error of a read, a write or a close leaves the stream closed. Data handlers
succeed while it is not closed. `Connect` has a guard the code lacks, `chain =
"idle"`: two overlapping attempts on one Beast stream are undefined, and
`main.cc` calls `Init` once.

Every handler holds a `shared_ptr` to the transport, except the task of
`Disconnect`, which has a bare `this`. `Held` says that some handler that is
outstanding does; while it holds, the transport is not destroyed.

### 2.2 JanusSession

`io` and `stopped` are the io thread and `ioc_`: `run()` returns when `ioc_` is
stopped or nothing is outstanding, and the latter stops it too. `armed`,
`expired` and `aborted` count the waits of the one timer: pending, expired with
the handler ready, cancelled. `cancel()` and `expires_from_now()` reach the
pending ones only. `pc` is main's next step; `Destory` is two steps
(`CancelTimer`, `CallDisconnect`), because handlers run between them. A
transaction, a random string in the code, is the position of its request.
`Incoming` is what a server may send: an answer with a transaction it has
received, as often as it likes, an event, or text that is not JSON, upon which
`json::parse` throws and the process ends (`io = "terminated"`).

The destructor is the calls it makes and then the end of the members, in
reverse order: `Free` releases `ws_`, which destroys the transport unless
handlers hold it (`Held`); `FreeIoc` destroys `ioc_` and with it the handlers,
and then a transport they held. The destructor of the transport calls
`Disconnect`; what that posts in `FreeIoc` goes with `ioc_`.

`canceledAt` records in which state the last cancel found the timer, `found` in
which state `Disconnect` found the connection: with none, while an attempt was
under way, or settled.

### 2.3 Sigslot

A program has a threading policy, a script for every thread and, for every slot,
the calls its callback ends with; `Init` picks one of `Programs`. `stack` holds the calls a thread is in; a frame
says what the call does next (`at`) and whom it visits (`todo`). A step lies
between two acquisitions of mutexes, and every acquisition is a step's guard
(`Free`). There is no mutex under `single_threaded` and one per object under
`multi_threaded_local`. The objects in `Copies` come to be by copy construction:
the constructor holds the mutex of the new object, reads the peers of the old
one and visits each under that peer's mutex. POSIX mutexes are not recursive, so a
thread can wait for itself.

A connection is a node of a list: its slot, and an `id` that tells several
connections of one slot apart, as the address of the node does. So
`m_current_iterator` is the node `emit` calls next, or `End`; an iterator of
`std::list` stays valid when other nodes go, and `EraseFrom` moves it when its
own does, as `disconnect` and `do_slot_disconnect` do. What is left of a list is
the one member of `Selections`. `Orders` are the sequences of the members of a
`std::set` of pointers, since their addresses may be in any order.
`emit` calls a slot in two steps, `EmitCall` and `Callback`, so that others can
run while a callback runs. A program makes no call on an object it has deleted;
what the library itself still does with deleted objects is what
`OnlyLiveObjects` is about.

### 2.4 TcpEcho

A connection is a pair of queues of numbers (`toServer`, `toClient`: the number
in the text "hello n"), `lost` once it is broken. `tasks` counts the delayed
tasks. `echo` is the server's end: none yet, an `Echo`, `"nobody"` when the
connection was accepted before the slot for new connections was connected, or
deleted. A delayed task that finds its client deleted uses freed memory
(`SendTaskFreed`); the client's process is `"undefined"` from then on and takes
no further step in the model.

### 2.5 RtcThread

`Program` is main's sequence of calls, those of `main.cc` in 02 and 03 with
their times in ticks (250, 50 and 100 ms), or the use of a safety flag that
`pending_task_safety_flag.h` describes. The message loop is in the binary
library and external: ready tasks first, then the delayed ones that are due, in
the order of `DelayedMessage::operator<` (`DueInOrder`); `Stop` runs what is ready, the
destructor of a task queue does not. A thread that can go on does so within
`Lag` ticks (`lag` counts), which is how late a sleep or a timer may be. The
exit flag of the platform thread is a plain `bool`: the thread reads `visible`,
which follows `exit_thread` with the same lateness. The clock stops when nothing
depends on it any more.

### 2.6 DeviceDemos

`program` is the list of main's calls including the destructors at the end of
its scope, in the order of the language; an early return jumps to the
destructors. The devices, the network manager and the prober are external:
`StopCapture` and `StopRecording` wait for a callback under way; the manager
behaves as the comments of `network.h` promise. The demos of 06 and 07 use the
actions of the capture thread, 08 and 09 those of `net_thread`. Calls that
outlast a step (`Invoke`, `GetNetworks`, `Stop`, `StopCapture`) are two steps,
and `inside` says that main is between them. `torn` says that the copy which
`GetNetworks` makes on main has met a merge on `net_thread`: that is a data
race, after which main has any list of networks, or the process has died. A
process that dies takes no further step, which every safety property allows;
`DemoEnds` makes an exception for it.

### 2.7 ScopedRefptr and PeerConnection

An operation on a pointer is the sequence of accesses it is made of (`AddRef`,
`Release`, `Store`), run one by one with other threads in between; `todo` holds
the rest of it. `AddRef` names the pointer it takes the reference for; an access
through a null pointer does nothing, as in the code's tests for null. The counter is atomic. An object used after its deletion becomes
`"corrupt"`. Either threads do what they like with the pointers in `Free` (the
program "any"), or they follow scripts. The scripts of `PeerConnection` are the
ways through `10_rtc_peer_connection/main.cc`: no factory, no connection, no
track, an offer that fails and one that is set. A `unique_ptr` or an owning raw
pointer is a pointer that is not copied, a bare pointer is `Use`. What the
library keeps (the sender's reference to the track, the observers of operations
under way, the local description) are pointers of its own, external, taken from
the interfaces.

### 2.8 SwapQueue and BoundedQueue

`Insert` and `Remove` are three steps each: the test of the counter, the swap
with the slot, the change of the counter and the index. `Clear` is one atomic
exchange and is called by the consumer. `IsQueue` maps the queue to
`BoundedQueue`: its content are the slots from the read index, as many as the
counter says.

## 3. The runs

| run | configuration | states | checks |
|---|---|---|---|
| `transport` | 2 messages, 4 sends, 2 connects, 3 posted tasks | 59,366 | all properties of the transport |
| `session` | one or two `Init`s, 3 messages, all kinds of answers, deletion after `Destory` | 240,175 | answers, keep-alive, `Destory`, destructor |
| `session_no_work` | `main.cc` | 819 | **violation**, see 3.2 |
| `sigslot` | the program of 04; two threads, two signals and a copy, two calls each before they delete their slots; one thread, three connections, two emissions, every combination of callbacks | 163,990 | the rules the theorems assume; live objects, agreement, each connection called once, every call returns |
| `sigslot_delete`, `sigslot_echo` | one program each | 55, 21 | **violations**, see 3.2 |
| `tcp_echo` | two clients, two messages each | 3,055 | the ping-pong, answers, cleaning up |
| `tcp_early` | one client, the server starting | 45 | **violation**, see 3.2 |
| `threads` | the programs of 02 and 03, a user of the safety flag; `Lag` = 1 | 183,008 | order, barrier, nothing lost, prompt exit, termination |
| `devices` | the programs of 06, 07, 08, 09; two networks | 2,965 | life times, termination |
| `scoped_refptr` | the program of 10; two threads, three pointers, two objects | 67,118 | life times, `HasOneRef`, early returns |
| `swap_queue` | three slots, two values | 6,135 | slots not shared, refinement of `BoundedQueue` |

The runs `transport`, `devices`, `scoped_refptr` and `swap_queue` are checked
for deadlock. The others are not, because their programs end, or end in an
endless wait in which nothing is left to do; that the threads get there is
`ScriptsFinish`, `Terminates` and, for the session, the properties of `Destory`
and the destructor.

Bounds. `MaxSends` = 4 lets the queue hold one message in flight and two
waiting while a task is posted, so that a push meets every queue length that
`SendDataInner` and `OnWrite` tell apart (0, 1, more). `MaxConnects` = 2 gives a
lost stream and a new one; a third adds no combination of old and new. In the
session `MaxSends` bounds the periods of the timer: a create and two
keep-alives, or two creates and one. Two session ids are enough to tell the old
from the new. Two threads and two mutexes make a circle; two calls (`MaxCalls`)
before the deletion let a slot be connected to both signals, or to one and
disconnected again, or copied, while the other thread emits. Three connections
have a first, a middle and a last one, which the iterator tells apart; a second
emission meets what the first left. The programs of the passing run keep the
`Rules` of `Sigslot`, which the run checks in every state. In `tcp_echo` two messages are a first one
and one after an echo; two clients are one that is accepted early and one that
is not.

In `threads` the sleeps and delays of the programs have their true proportions;
`Lag` = 1 is the largest lateness under which the wait of 600 ms for a task of
500 ms holds with certainty in ticks of 50 ms. Two networks let a list be empty,
grow, shrink and be replaced. Three pointers to an object are two holders and
one that is being assigned; two objects are the old and the new one. Three slots
are the least with a slot that neither index points to.

### 3.1 What they show

* `OneWriteInFlight`, `NoIdleQueue`: pushing and completing never start two
  writes and never leave a waiting queue without one.
* `WireInOrder`, `NothingForgotten`, `ImplementsChannel`: order, no loss, no
  repetition; the transport is an `OrderedChannel`.
* `FailedWriteIsFinal`: after one failed write the transport sends nothing, not
  even after a reconnection, while `SendMsg` keeps accepting: `OnWrite` leaves
  the failed message at the front, and a push starts a write only into an
  empty queue. This is how the code is; whoever reconnects needs a new
  transport.
* `ConnectedIsWatched`, `DisconnectTakesEffect`, `AttemptEnds`: the flag is
  cleared although `OnClose` does not clear it on an error, because the
  outstanding read fails.
* `OpenIsHeld`: as long as the stream is open a handler that holds the
  transport is outstanding, also when a read, a write or the close has failed.
  So the destructor of the transport, which calls `Disconnect`, finds the stream
  closed, and posts no task with a pointer to the object it is destroying. Only
  when `~io_context` destroys the handlers unrun may the stream still be open;
  what is posted then is destroyed too.
* `OneAnswerPerCreate`, `KeepAliveDiscipline`: a repeated
  answer is ignored, keep-alives name a granted session, chains never multiply.
* `KeepAliveNotLost`: nor does the last of them end before `Destory`. The
  handler of a cancelled wait does not re-arm, and a second grant cancels the
  wait of the first; the timer runs on because `KeepAlive` arms a wait whenever
  it cancels one. A `Destory` that meets an expired wait does not end it either.
* `DestoryStopsKeepAlive`, `DestoryDrains`, `DestoryDisconnects`: a `Destory`
  that finds the wait pending and the stream open stops everything, and the io
  thread returns. The properties are exact about when: a wait that has expired
  but was not handled survives the cancel and re-arms itself for ever, and a
  `Destory` during an attempt (`found = "connecting"`) finds no open stream and
  does nothing, so the session connects afterwards (main sleeps 12 s, connecting
  may take 30 s). Without that exception `DestoryDisconnects` fails.
* `DestructorReturns`: `stop()` before `join()` is enough, although the timer
  may keep work for ever.
* `OnlyLiveObjects`, `SidesAgree`: the mutex of a signal keeps a slot alive
  while it is called, because the slot's destructor must take it; the list of a
  signal and the sender set of a slot agree whenever no call is changing them.
* `Rules`: what a program must keep so that the other properties hold of it.
  `LiveCalls`: a call names objects that exist. `OneThread`: under
  `single_threaded` one thread at a time is in a call. `NoReentry`: a callback
  does not connect to, emit or delete the signal that is calling it. `Separate`:
  two threads do not work on the same slot at a time, and nobody uses a signal
  while it is deleted or copied. `ConnectedOnce`: with several threads a slot is
  connected to a signal once; with one it is at least not disconnected by name
  while it is connected twice. The program of 04 keeps them.
* `EmitCallsEachOnce`: moving `m_current_iterator` before the call and in
  `erase` is right in all combinations of deletions from callbacks.
* `OneTurn`, `EchoIsLatest`, `Answered`: one task or message per client. So
  `Send` never finds its buffer occupied, which would drop the message and stop
  the ping-pong unnoticed.
* `LostIsCleanedUp`: both ends are deleted, also when the connection was lost
  before it was accepted.
* `ExecutionOrder`, `InvokeIsABarrier`: tasks run once, in order and not before
  their time; what was posted before an `Invoke` is over when it returns.
* `NothingLost`, `PromptExit`: the demos' sleeps are long enough, and the
  platform thread ends one sleep of its loop after the flag was set, as long as
  no thread is later than `Lag`. `PromptExit` is exact: with a tick less it
  fails.
* `SafetyFlagHolds`: a task bound to the flag never runs after its owner's
  deletion on the same thread. The client of 05 posts a task without such a
  flag, see 2.4.
* `DemoEnds`: main of 08 and 09 waits without limit, but once an enumeration has
  found a network it goes on, however many failed before, and comes to its end
  unless the race of 3.2 kills it. If every enumeration fails, both programs
  wait for ever: `OnError` only logs.
* `OwnedUntilAtRest`: sinks, slots, devices and the manager are destroyed in an
  order that is safe only because the source was stopped first; no early return
  lies between start and stop.
* `LivesWhileReferenced`, `HasOneRefIsExclusive`: reference counting, also under
  self-assignment and with the last references dropped by two threads.
* `ProgramCleansUp`: the early returns of 10 leave nothing behind, and when its
  main waits for ever the operations have let go of their observers. Bare
  pointers in 10 (`pc_` in the observer, `pc_observer` in the connection) are
  safe because main never leaves its scope.
* `NoSharedSlot`, `IsQueue`: producer and consumer never swap with the same
  slot, and the whole is a bounded queue.

### 3.2 The violations

`ResolveIsHandled` (`session_no_work`). The constructor starts the io thread
with the comment `// must after create ws`. An idle stream and an idle timer are
no work for `io_context::run()`. If the new thread calls `run()` before main
calls `Init`, it returns, `ioc_` stays stopped, and the resolve is never
handled. The counterexample has three steps: `IoStart`, `IoReturn`, `CallInit`.

`NoCircularWait` (`sigslot_delete`). `sigslot.h` says that objects "can be
safely created and destroyed from any thread, even when connections exist". The
destructor of a slot locks the slot and then the signal, that of a signal the
signal and then the slot. Two threads that delete a connected pair may wait for
each other for ever.

`OnlyLiveObjects` (`sigslot_echo`). `Echo::OnClose` and `Client::OnClose` in
`05_rtc_socket` do `delete this`, and so delete the socket whose `SignalClose`
is calling them. `emit` then reads `m_current_iterator` of a deleted signal.

`AcceptedIsServed` (`tcp_early`). The server's thread runs and the socket listens
before `OnNewConnection` is connected. A client accepted in between is never
served.

Two more observations have no run of their own. `disconnect` of a signal erases
one connection, but the slot forgets the signal altogether: a slot connected
twice, disconnected once and deleted stays in the list (the script connect,
connect, disconnect, `~has_slots`, emit violates `OnlyLiveObjects`). No program
here does that. And `network.h:106` asks that every method of the manager be
called on the same thread, while main of 08 and 09 starts the updates on
`net_thread` and then calls `GetNetworks` itself: `net_thread` may begin to merge
the next enumeration while main copies the list. `devices` reaches this
(`torn`), and goes on with every outcome; TLC refutes `~torn` with
`EnterGetNetworks` followed by `MergeNetworkList`.

### 3.3 Fairness

Weak fairness of the io thread's handlers: `run()` runs what is ready. Resolve,
connect, handshake and close end because they have time limits (30 s for
connect, Beast's suggested limits for handshake and close); a read ends once the
stream is closed; a write ends as long as the peer keeps reading, which is an
assumption about the server. Nothing obliges the server to send: a read of a
message is not fair, nor is any call of an owner, except that `main`'s sleep
ends and `main` then runs on. `Delete` and a second `Init` are not fair.

In `Sigslot` every thread is fair: it takes its next step unless it waits for a
mutex or for the event. One weak fairness per thread is enough, because a mutex
that is waited for is released for good in every program of the passing run
(scripts are finite). In `TcpEcho` the threads of both programs are fair;
nobody need start a client and no connection need be lost. In `RtcThread` main
and the worker run on, the store of the flag becomes visible and time passes
while something waits for it. In `DeviceDemos` main, `net_thread` and the end of
a frame are fair; nothing is assumed of the outcome of an enumeration, and a
device need not deliver anything.

## 4. The proofs

`WebsocketTransportProofs` proves, for every set of messages and all bounds,
from `TransportAssumption` (of which it needs nothing but that the constants
exist):

| theorem | states |
|---|---|
| `WriteDiscipline` | `[](TypeOK /\ OneWriteInFlight)` |
| `SendOrder`, `SendComplete`, `NoLostWakeup` | `[]WireInOrder`, `[]NothingForgotten`, `[]NoIdleQueue` |
| `FailureIsFinal` | `FailedWriteIsFinal` |
| `TransportRefinesChannel` | `SafetySpec => Channel!Spec` |
| `ConnectionIsWatched`, `OpenStreamIsHeld` | `[]ConnectedIsWatched`, `[]OpenIsHeld` |

The argument. `TypeOK` alone is not inductive: `OnWrite` erases the front of the
queue, which exists only because a write in flight has its buffer there; so
types and `OneWriteInFlight` are proved together (`WriteInv`). Order needs to
know where each buffer is: `OrderInv` says that the numbers 1..Len(accepted) are
split, in this order, over wire, queue and posted tasks, the close tasks among
them aside: the wire holds the first (`WireInOrder`), the queue the next
(`QueueFollowsWire`), and the posted tasks exactly the rest, increasing
(`PostedInOrder`, `PostedAreNew`, `NewArePosted`). From these `HeadIsNext`: the
task the strand runs next carries the first buffer that is not settled.
`IdleInv` adds that a failed write leaves a queue that is not empty and no write
in flight, from which the finality follows. Steps are first sorted by what they
do to the send path (`StepKinds`), so each lemma has seven cases instead of
thirteen. For the refinement, `Transmitted` is the prefix of `accepted` of the
length of `wire`; an accepting step keeps it and a completed write extends it.
`ReadInv` strengthens `ConnectedIsWatched` with what an attempt may find: the
flag down and, once the stream is open, no read. It also says that an open
stream has the flag up or the handshake's handler outstanding, so that one of
the two, the read or that handler, holds the transport (`OpenStreamIsHeld`).

`SendInv` and `ReadInv` were checked with TLC on the instance of `transport`
before they were proved.

`TcpEchoProofs` proves, for every set of clients and every `MaxCount` in `Nat`
(`EchoAssumption`), `PingPong`: `[]OneTurn`, and `LatestUnderWay`:
`[](TypeOK /\ EchoIsLatest)`. `OneTurn` is not inductive: `OnConnect` posts a
task, so one must know that nothing was posted or under way before. `TurnInv`
adds that. A step changes the variables of one client (`OtherClient` for the
rest); for that client the turn moves from task to message to echo to task, and
since it is the only one the echo that comes back has the latest number.

`SwapQueueProofs` proves, for every set of values and every size
(`SwapQueueAssumption`), `CounterIsDistance`: `[](TypeOK /\ IndicesAgree)` and
more, `SlotsAreNotShared`: `[]NoSharedSlot`, and `ImplementsQueue`: that
`SwapQueue` implements `BoundedQueue`. The inductive invariant says that the
write index is the read index plus the counter, modulo the size, and that an
operation between its test and its update still has what the test found: the
producer a free slot, since the consumer can only make room, the consumer an
item, since the producer can only add. From it follow distinct slots. For the
refinement, a swap of the producer changes a slot outside the content, its
update appends exactly that slot, and the consumer's steps are dual.

`JanusSessionProofs` proves, for every set of session ids, all bounds, with and
without a destructor and for every kind of server (`SessionAssumption`; and
`NoMsgAssumption`, that the value for "no message" is not a request):

| theorem | states |
|---|---|
| `SessionTypes` | `[]TypeOK` |
| `SessionDrivesTransport` | `SafetySpec => TP!SafetySpec`: the session is an owner as `WebsocketTransport` allows it |
| `SessionSendsInOrder` | `[](TP!WireInOrder /\ TP!NothingForgotten)` |
| `KeepAliveOnlyWhenGranted` | `[]KeepAliveDiscipline` |
| `DestoryEndsKeepAlive` | `[]DestoryStopsKeepAlive` |
| `KeepAliveIsNotLost` | `[]KeepAliveNotLost` |
| `SessionIdOncePerCreate` | `OneAnswerPerCreate` |

`TP` is `WebsocketTransportProofs` with the session's requests as messages and
bounds that follow from the session's own. A step of the session is a step of
the transport only if those bounds are never met, so the invariant `SessionInv`
counts (`BudgetInv`): every call of `Init` pays for one attempt, or one create
that waits for its answer, or one keep-alive chain, never two of them; what may
still be sent and posted follows. The same count gives the discipline of the
timer, since a repeated answer finds its callback gone and a chain re-arms only
itself, and `NoChainLeft`: after a single `Init` whose wait was cancelled no
attempt, callback or chain is left that could arm the timer again. The order of
requests is then not proved anew but follows from the transport's theorems.

`ScopedRefptrProofs` proves, for any finite sets of threads and pointers, any
objects and any scripts (`ScopedRefptrAssumption`):

| theorem | states |
|---|---|
| `CounterIsRight` | `[]RefInv`: among others, the counter is the number of references |
| `OneRefIsExclusive` | `[]HasOneRefIsExclusive` |
| `ReferencedObjectsLive` | `Spec /\ []CallsAreSafe => []LivesWhileReferenced` |
| `PointersKeepAlive` | `Spec => []LivesWhileReferenced` for scripts without `Use` |

While an operation is under way the counter is not the number of pointers to an
object. `Refs(o)` is what it counts: the pointers that will hold `o` when their
operations are over and that have their reference already, and the threads that
have still to release one. `HasSource` adds that who takes a reference has one in
hand or has just created the object, so that `AddRef` never meets a deleted
object; `OwnSteps`
that the steps of an operation concern pointers of the thread that runs it. What
a program does through a bare pointer no counter can see: `CallsAreSafe` says
that such a call finds its object alive, which is the program's business. The
program "any" calls only through pointers it holds, and for it and for all
scripts without bare pointers nothing is assumed. The scripts of 10 use bare
pointers, and that they are safe there is what the run checks.

`DeviceDemosProofs` proves, for every set of networks,
`StoppedBeforeDestroyed`: `[]OwnedUntilAtRest`. `DemoInv`
says for each program and each position of main what the other threads may be
doing: between which two calls frames come, when updates run, what `net_thread`
has in its queue, and that the slots and the source exist for longer than that.

`RtcThreadProofs` proves, for every lateness `Lag` in `Nat`
(`RtcThreadAssumption`):

| theorem | states |
|---|---|
| `ThreadsKeepInvariant` | `[]ThreadInv` |
| `TasksRunInOrder` | `[]ExecutionOrder` |
| `InvokeWaitsForAll` | `[]InvokeIsABarrier` |
| `BoundTasksAreSafe` | `[]SafetyFlagHolds` |
| `PlatformThreadEnds` | `[]PromptExit` |

Of the programs the first four use only what `WellFormed` says: tasks are
distinct, `Stop` is the last call, `Invoke` is not used on a queue that drops its
tasks. `ThreadInv` has a part for each. `OrderInv` orders what has run before
what is ready before what is delayed, since what is moved from the delayed tasks
to the ready ones must come after all that was moved before; it needs that the
numbers of delayed tasks follow the calls. `BarrierInv` says where a task that
was posted is, until it has run. `ExitInv` keeps the books of time for the
platform thread: whoever is ready has been so for as long as its `lag` says, so
the store is visible `Lag` ticks after the flag was set, the loop reads it one
sleep later, and the thread is late by at most `Lag` each time.

All these invariants were checked with TLC on the instances of the runs before
they were proved (`ThreadInv` with `Lag` 0 and 1).

`SigslotProofs` proves, for any threads and slots, finitely many signals and any
programs (`SigslotAssumption`):

| theorem | states |
|---|---|
| `SlotTypes` | `SafetySpec => []TypeOK` |
| `SlotInvariant` | `SafetySpec /\ []Rules => []SlotInv` |
| `CallsReachLiveObjects` | `SafetySpec /\ []Rules => []OnlyLiveObjects` |
| `TwoSidesAgree` | `SafetySpec /\ []Rules => []SidesAgree` |
| `EachConnectionOnce` | `SafetySpec /\ []Rules => []EmitCallsEachOnce` |

The types hold of every program. The rest is false of programs that break the
rules: the program of `sigslot_echo` breaks `NoReentry`, the one in the remark
of 3.2 `ConnectedOnce`. So the rules are a premise, and that a program keeps
them is for TLC to check, as the run `sigslot` does for its own. They say
nothing of the lists, iterators and mutexes themselves, but for how often a slot
is connected and, in `Separate`, whose peers a copy visits. They do not exclude
the deadlock of `sigslot_delete`: the theorems are about what calls do, not
whether they return.

None of the three properties is inductive, because each relies on calls that are
half done. `SlotInv` says how far each is. `Shape`: what a call at each of its
points has still to visit, and that only the innermost call of a thread is in a
step, the others being emissions that wait for a callback. `Locked`: a call that
has begun owns its mutex, and another one than the calls around it. `Dead`,
`Listed`, `Known`: an object that is gone knows nobody, and an entry on one side
of a connection has its partner unless a call that adds, removes, clears or
copies just that connection is under way. `Distinct`: no node is in a list
twice. `FramesLive`: what a call has still to visit exists and still has the
connection, until the call comes to it. `Emitting`: the connections an emission
has called are those before its iterator. A step is then played against what
goes on beside it: against the emissions around it on its own thread (a callback
that erases connections moves their iterator as `InTurn` needs), and against the
calls of other threads, from which the mutexes keep it apart, or, where no
common mutex is held, as between a copy and a deletion, `Separate`. Before the
proof `SlotInv` was checked with TLC on the instance of the run, and
on wider families of programs, as far as these keep the rules.

All type invariants are proved. The run of `JanusSession` checks `TypeOK`; those
of `RtcThread`, `DeviceDemos`, `ScopedRefptr` and `Sigslot` check it as a
conjunct (of `ExecutionOrder`, `OwnedUntilAtRest`, `LivesWhileReferenced` and
`SidesAgree`).

Only model-checked:

* liveness (`DisconnectTakesEffect`, `AttemptEnds`, `DestoryDrains`,
  `DestoryDisconnects`, `DestructorReturns`, `ScriptsFinish`, `Answered`,
  `LostIsCleanedUp`, `Terminates`, `DemoEnds`), which this prover does not treat;
* `Rules` of `Sigslot`: it is about the programs, which are constants of the
  instance, and the premise of the theorems above;
* `NothingLost`: it is about the sleeps and delays that the demos happen to have,
  and false for a larger `Lag`;
* `ProgramCleansUp`: it is about the scripts of 10, which are constants of the
  instance.

## 5. Not modelled

* Bytes, JSON syntax, log output, host names, `port_` (an `int16_t`: a port above
  32767 would be negative; `main.cc` uses 8188).
* Data races on `connected_` and inside `steady_timer` beyond the interleavings
  of whole operations.
* `janus_plugin_handle.h` (unused), `01_hello_rtc` (one log line).
* The vendored headers but for those named above. Nearly all lines under `src/`
  (about 137,000 of 139,000) are third-party headers: interfaces, constants,
  generated tables and templates of WebRTC and abseil, whose implementations are
  in a binary library outside the repository, and the JSON library. They state
  no behaviour to translate, or behaviour that no program of the repository
  uses. The headers that hold their whole implementation and that the programs
  rest on are modelled. `json.hpp` enters by what `OnMsg` relies on, its
  exception included.
* Overlapping calls of `Connect`, see 2.1.
* The policy `multi_threaded_global`: its one mutex is defined outside the
  repository.
* What main does with a list of networks that a torn copy made up, but for its
  being any list (2.6); memory orders weaker than
  sequential consistency in `SwapQueue` and `RefCounter`, whose acquire and
  release accesses give the order the models assume.
* In `Sigslot`, that the derived part of a slot is destroyed before `~has_slots`
  runs. No program of the run connects from a callback.
* Partial sends, `port` (an `atoi` cut to 16 bits) and the limit of five waiting
  connections in `05_rtc_socket`.
