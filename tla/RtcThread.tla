----------------------------- MODULE RtcThread ------------------------------
(***************************************************************************)
(* Threads and task queues as the programs of 02_rtc_thread and            *)
(* 03_rtc_task_queue use them: the main thread posts tasks, with and       *)
(* without delay, invokes one synchronously, sleeps and stops the worker;  *)
(* or it spawns a thread that loops until main sets a flag.                *)
(*                                                                         *)
(* rtc::Thread, TaskQueue and PlatformThread are external but for the      *)
(* templates of their headers.  Time is counted in ticks.  Every thread    *)
(* that can go on does so within Lag ticks: Lag bounds how late a sleep    *)
(* ends or a timer fires.                                                  *)
(*                                                                         *)
(* The flag is a plain bool that two threads use without synchronisation.  *)
(* The loop calls functions the compiler cannot see into and the flag's    *)
(* address has escaped, so every iteration reads it anew; but for a while  *)
(* after the write, until Visible, it may still read the old value.        *)
(***************************************************************************)
EXTENDS Naturals, Sequences, FiniteSets

CONSTANT
  Lag           \* bound on the lateness of a thread, in ticks

ASSUME RtcThreadAssumption == Lag \in Nat

(* A call: its kind, the task it hands over, and a time. For Invoke the    *)
(* time is how long the task sleeps, for Spawn the sleep of an iteration.  *)
Call(op, task, ms) == [op |-> op, task |-> task, ms |-> ms]

Posts == {"PostTask", "PostDelayedTask", "PostSafeTask",
          "PostDelayedSafeTask", "PostOwnerDelete", "Invoke", "Spawn"}
Delayed == {"PostDelayedTask", "PostDelayedSafeTask"}

-----------------------------------------------------------------------------
(* 02_rtc_thread/rtc_thread/main.cc, one tick for 250 ms.                  *)
ThreadDemo == <<
  Call("PostTask", "PostTask1", 0),
  Call("PostTask", "PostTask2", 0),
  Call("PostDelayedTask", "delayed", 4),
  Call("Invoke", "Invoke", 2),
  Call("SleepMs", "-", 4),
  Call("Stop", "-", 0) >>

(* 03_rtc_task_queue/main.cc, one tick for 50 ms.  The event main waits    *)
(* for is never set, and the destructor of the unique_ptr deletes the      *)
(* queue.                                                                  *)
TaskQueueDemo == <<
  Call("PostTask", "PostTask1", 0),
  Call("PostDelayedTask", "delayed", 10),
  Call("Wait", "-", 12),
  Call("Stop", "-", 0) >>

(* A user of ToQueuedTask with a safety flag, as the classes of the        *)
(* library are: an object posts tasks that use it, and is deleted on the   *)
(* thread on which they run.                                               *)
SafetyDemo == <<
  Call("PostDelayedSafeTask", "late", 2),
  Call("PostDelayedSafeTask", "early", 1),
  Call("SleepMs", "-", 1),
  Call("PostOwnerDelete", "delete", 0),
  Call("PostSafeTask", "last", 0),
  Call("SleepMs", "-", 3),
  Call("Stop", "-", 0) >>

(* 02_rtc_thread/platform_thread/main.cc, one tick for 100 ms.             *)
PlatformDemo == <<
  Call("Spawn", "test_rtc_thread", 5),
  Call("SleepMs", "-", 26),
  Call("SetFlag", "-", 0),
  Call("Stop", "-", 0) >>

Programs == {ThreadDemo, TaskQueueDemo, SafetyDemo, PlatformDemo}

-----------------------------------------------------------------------------
VARIABLES
  Program,            \* what main does, a sequence of calls
  now,                \* the clock
  pc, phase, wakeAt,  \* main: next call, whether it is inside it, end of sleep
  messages_,          \* ready tasks
  delayed_messages_,  \* tasks with the time they are due and a number
  delayed_next_num_,
  stop_,              \* the worker was told to stop
  worker,             \* "idle", "busy" or "exited"
  busyUntil,          \* when the running task ends
  current,            \* the task it runs
  ran,                \* history: tasks run, in order, with their start
  skipped,            \* tasks whose safety flag stopped them
  alive,              \* the safety flag of the owner
  exit_thread,        \* the flag as main wrote it
  visible,            \* the flag as the thread reads it
  setAt,              \* history: when main wrote it
  readyAt,            \* history: from when on a task may run
  lag                 \* for how long each thread could have gone on

mainVars   == <<Program, pc, phase, wakeAt, readyAt>>
flagVars   == <<exit_thread, visible, setAt>>
queueVars  == <<messages_, delayed_messages_, delayed_next_num_, stop_>>
workerVars == <<worker, busyUntil, current, ran, skipped, alive>>
vars == <<now, mainVars, flagVars, queueVars, workerVars, lag>>

NoTask == Call("none", "-", 0)
Tasks  == {Program[i] : i \in {j \in DOMAIN Program : Program[j].op \in Posts}}
Actors == {"main", "worker", "store"}
Done   == pc > Len(Program)
RanTasks == {ran[i].task : i \in DOMAIN ran}

(* A task queue drops even the tasks that are ready when it is deleted,    *)
(* rtc::Thread runs them before it stops.                                  *)
DropsReady == Program = TaskQueueDemo

TypeOK ==
  /\ Program \in Programs
  /\ exit_thread \in BOOLEAN /\ visible \in BOOLEAN /\ setAt \in Nat
  /\ now \in Nat
  /\ pc \in 1..(Len(Program) + 1)
  /\ phase \in {"call", "inside"}
  /\ wakeAt \in Nat
  /\ messages_ \in Seq(Tasks)
  /\ \A d \in delayed_messages_ : d \in [task : Tasks, run_time : Nat, num : Nat]
  /\ delayed_next_num_ \in Nat
  /\ stop_ \in BOOLEAN
  /\ worker \in {"idle", "busy", "exited"}
  /\ busyUntil \in Nat
  /\ current \in Tasks \cup {NoTask}
  /\ \A i \in DOMAIN ran : ran[i] \in [task : Tasks, at : Nat]
  /\ skipped \subseteq Tasks
  /\ alive \in BOOLEAN
  /\ readyAt \in [Tasks -> Nat]
  /\ lag \in [Actors -> 0..Lag]

Init ==
  /\ Program \in Programs
  /\ exit_thread = FALSE /\ visible = FALSE /\ setAt = 0
  /\ now = 0
  /\ pc = 1 /\ phase = "call" /\ wakeAt = 0
  /\ messages_ = <<>> /\ delayed_messages_ = {} /\ delayed_next_num_ = 0
  /\ stop_ = FALSE
  /\ worker = "idle" /\ busyUntil = 0 /\ current = NoTask
  /\ ran = <<>> /\ skipped = {} /\ alive = TRUE
  /\ readyAt = [t \in Tasks |-> 0]
  /\ lag = [t \in Actors |-> 0]

Run(thread) == lag' = [lag EXCEPT ![thread] = 0]

-----------------------------------------------------------------------------
(* The main thread.                                                        *)
Returns == phase' = "call" /\ pc' = pc + 1
Blocks  == phase' = "inside" /\ pc' = pc

PostTask(call) ==
  /\ call.op \in {"PostTask", "PostSafeTask", "PostOwnerDelete", "Spawn"}
  /\ messages_' = Append(messages_, call)
  /\ readyAt' = [readyAt EXCEPT ![call] = now]
  /\ Returns
  /\ UNCHANGED <<delayed_messages_, delayed_next_num_, stop_, wakeAt, flagVars>>

PostDelayedTask(call) ==
  /\ call.op \in Delayed
  /\ delayed_messages_' = delayed_messages_ \cup
       {[task |-> call, run_time |-> now + call.ms, num |-> delayed_next_num_]}
  /\ delayed_next_num_' = delayed_next_num_ + 1
  /\ readyAt' = [readyAt EXCEPT ![call] = now + call.ms]
  /\ Returns
  /\ UNCHANGED <<messages_, stop_, wakeAt, flagVars>>

(* Mutant of Invoke: it does not wait for the functor.                     *)
InvokeAsync(call) ==
  /\ call.op = "Invoke"
  /\ messages_' = Append(messages_, call)
  /\ readyAt' = [readyAt EXCEPT ![call] = now]
  /\ Returns
  /\ UNCHANGED <<delayed_messages_, delayed_next_num_, stop_, wakeAt, flagVars>>

(* Invoke blocks until the worker has run the functor.                     *)
Invoke(call) ==
  /\ call.op = "Invoke"
  /\ messages_' = Append(messages_, call)
  /\ readyAt' = [readyAt EXCEPT ![call] = now]
  /\ Blocks
  /\ UNCHANGED <<delayed_messages_, delayed_next_num_, stop_, wakeAt, flagVars>>

(* Mutant of SleepMs: it returns at once.                                  *)
SleepMsNot(call) ==
  /\ call.op \in {"SleepMs", "Wait"}
  /\ wakeAt' = now
  /\ Blocks
  /\ UNCHANGED <<queueVars, readyAt, flagVars>>

(* SleepMs, and Event::Wait on an event nobody sets.                       *)
SleepMs(call) ==
  /\ call.op \in {"SleepMs", "Wait"}
  /\ wakeAt' = now + call.ms
  /\ Blocks
  /\ UNCHANGED <<queueVars, readyAt, flagVars>>

(* Mutant of Stop: it joins the worker without telling it to stop.         *)
StopJoinsOnly(call) ==
  /\ call.op = "Stop"
  /\ Blocks
  /\ UNCHANGED <<queueVars, wakeAt, readyAt, flagVars>>

(* Thread::Stop, the deletion of the TaskQueue, or Finalize of the         *)
(* PlatformThread: all of them join the worker.                            *)
Stop(call) ==
  /\ call.op = "Stop"
  /\ stop_' = TRUE
  /\ Blocks
  /\ UNCHANGED <<messages_, delayed_messages_, delayed_next_num_, wakeAt,
                 readyAt, flagVars>>

(* exit_thread = true, on main's stack.                                    *)
SetFlag(call) ==
  /\ call.op = "SetFlag"
  /\ exit_thread' = TRUE /\ setAt' = now
  /\ Returns
  /\ UNCHANGED <<queueVars, wakeAt, readyAt, visible>>

CanReturn(call) ==
  CASE call.op = "Invoke" -> call \in RanTasks /\ current # call
    [] call.op = "Stop"   -> worker = "exited"
    [] OTHER              -> now >= wakeAt

MainReady == ~Done /\ (phase = "inside" => CanReturn(Program[pc]))

MainCalls ==
  /\ ~Done /\ phase = "call"
  /\ LET call == Program[pc] IN
       \/ PostTask(call)
       \/ PostDelayedTask(call)
       \/ Invoke(call)
       \/ SleepMs(call)
       \/ SetFlag(call)
       \/ Stop(call)
  /\ Run("main")
  /\ UNCHANGED <<Program, now, workerVars>>

MainReturns ==
  /\ ~Done /\ phase = "inside" /\ CanReturn(Program[pc])
  /\ Returns
  /\ Run("main")
  /\ UNCHANGED <<Program, now, wakeAt, readyAt, flagVars, queueVars, workerVars>>

-----------------------------------------------------------------------------
(* Mutant of Before: the time is not compared.                             *)
BeforeByNum(d, e) == d.num < e.num

(* The worker.                                                             *)
(* DelayedMessage::operator<, read as "is delivered before".               *)
Before(d, e) ==
  \/ d.run_time < e.run_time
  \/ d.run_time = e.run_time /\ d.num < e.num

Due == {d \in delayed_messages_ : d.run_time <= now}
DueInOrder == {due \in [1..Cardinality(Due) -> Due] :
                 \A i, j \in 1..Cardinality(Due) : i < j => Before(due[i], due[j])}
HasReady == messages_ # <<>> \/ Due # {}

(* ClosureTask::Run and SafetyClosureTask::Run: the latter calls its       *)
(* closure only while the flag is alive.                                   *)
Safe(task) == task.op \in {"PostSafeTask", "PostDelayedSafeTask"}
(* Mutant of ClosureCalled: the flag is not looked at.                     *)
ClosureAlwaysCalled(task) == TRUE

ClosureCalled(task) == Safe(task) => alive

QuitsNow == stop_ /\ (DropsReady \/ ~HasReady)

WorkerReady ==
  \/ worker = "idle" /\ (HasReady \/ QuitsNow)
  \/ worker = "busy" /\ now >= busyUntil

(* Get moves the tasks that are due behind the ready ones and takes the    *)
(* first; Dispatch runs it.                                                *)
Dispatch ==
  /\ worker = "idle" /\ HasReady /\ ~QuitsNow
  /\ \E due \in DueInOrder :
       LET ready == messages_ \o [i \in DOMAIN due |-> due[i].task]
           task  == Head(ready)
       IN
       /\ messages_' = Tail(ready)
       /\ delayed_messages_' = delayed_messages_ \ Due
       /\ worker' = "busy"
       /\ current' = task
       /\ busyUntil' = now + (IF task.op = "Invoke" THEN task.ms ELSE 0)
       /\ IF ClosureCalled(task)
          THEN /\ ran' = Append(ran, [task |-> task, at |-> now])
               /\ skipped' = skipped
          ELSE /\ ran' = ran
               /\ skipped' = skipped \cup {task}
       /\ alive' = (alive /\ task.op # "PostOwnerDelete")
  /\ Run("worker")
  /\ UNCHANGED <<now, mainVars, flagVars, delayed_next_num_, stop_>>

(* Mutant of Iterate: it sleeps twice.                                     *)
IterateSleepsTwice ==
  /\ ~visible
  /\ busyUntil' = now + 2 * current.ms
  /\ UNCHANGED <<worker, current>>

(* The loop of the thread function: while (!exit_thread), log and sleep.   *)
Iterate ==
  IF visible
  THEN worker' = "exited" /\ current' = NoTask /\ UNCHANGED busyUntil
  ELSE busyUntil' = now + current.ms /\ UNCHANGED <<worker, current>>

TaskEnds ==
  /\ worker = "busy" /\ now >= busyUntil
  /\ IF current.op = "Spawn"
     THEN Iterate
     ELSE worker' = "idle" /\ current' = NoTask /\ UNCHANGED busyUntil
  /\ Run("worker")
  /\ UNCHANGED <<now, mainVars, flagVars, queueVars, ran, skipped, alive>>

(* Tasks that are left are destroyed with the queue.                       *)
WorkerQuits ==
  /\ worker = "idle" /\ QuitsNow
  /\ worker' = "exited"
  /\ messages_' = <<>>
  /\ delayed_messages_' = {}
  /\ Run("worker")
  /\ UNCHANGED <<now, mainVars, flagVars, delayed_next_num_, stop_, busyUntil,
                 current, ran, skipped, alive>>

(* The write of the flag reaches the thread that reads it.                 *)
Visible ==
  /\ exit_thread # visible
  /\ visible' = exit_thread
  /\ Run("store")
  /\ UNCHANGED <<now, mainVars, exit_thread, setAt, queueVars, workerVars>>

-----------------------------------------------------------------------------
IsReady(actor) ==
  CASE actor = "main"   -> MainReady
    [] actor = "worker" -> WorkerReady
    [] actor = "store"  -> exit_thread # visible

(* The clock stands still when nothing depends on it any more.             *)
Awaited ==
  \/ phase = "inside" /\ wakeAt > now
  \/ worker = "busy" /\ busyUntil > now
  \/ \E d \in delayed_messages_ : d.run_time > now
  \/ \E t \in Actors : IsReady(t)

(* Time passes unless a thread has been held up for Lag ticks.             *)
Tick ==
  /\ ~Done /\ Awaited
  /\ \A t \in Actors : IsReady(t) => lag[t] < Lag
  /\ now' = now + 1
  /\ lag' = [t \in Actors |-> IF IsReady(t) THEN lag[t] + 1 ELSE 0]
  /\ UNCHANGED <<mainVars, flagVars, queueVars, workerVars>>

Next ==
  \/ MainCalls \/ MainReturns
  \/ Dispatch \/ TaskEnds \/ WorkerQuits \/ Visible
  \/ Tick

Spec == Init /\ [][Next]_vars

(* The threads run, a store becomes visible, the clock does not stand      *)
(* still while it is awaited.                                              *)
FairSpec ==
  /\ Spec
  /\ WF_vars(MainCalls) /\ WF_vars(MainReturns)
  /\ WF_vars(Dispatch) /\ WF_vars(TaskEnds) /\ WF_vars(WorkerQuits)
  /\ WF_vars(Visible)
  /\ WF_vars(Tick)

-----------------------------------------------------------------------------
(* Properties.                                                             *)

IndexOf(task) == CHOOSE i \in DOMAIN Program : Program[i] = task
IsDelayed(task) == task.op \in Delayed

(* No task runs twice or before its time.  Tasks posted without delay run  *)
(* in the order of the calls, delayed ones in the order in which they are  *)
(* due and, when due together, of the calls (task_queue.h:29-30,           *)
(* thread.h:510-511).                                                      *)
InOrder ==
  \A i \in DOMAIN ran :
    /\ ran[i].at >= readyAt[ran[i].task]
    /\ \A j \in 1..(i - 1) :
         LET t == ran[j].task
             u == ran[i].task
         IN /\ t # u
            /\ ~IsDelayed(t) /\ ~IsDelayed(u) => IndexOf(t) < IndexOf(u)
            /\ IsDelayed(t) /\ IsDelayed(u) =>
                 \/ readyAt[t] < readyAt[u]
                 \/ readyAt[t] = readyAt[u] /\ IndexOf(t) < IndexOf(u)

(* Order of execution, of tasks and times of the right types.              *)
ExecutionOrder == TypeOK /\ InOrder

(* When Invoke has returned, its functor and every task posted before it   *)
(* without delay have run, and none of them is still running.              *)
InvokeIsABarrier ==
  \A i \in DOMAIN Program : Program[i].op = "Invoke" /\ pc > i =>
    \A j \in 1..i : Program[j].op \in Posts \ Delayed =>
      Program[j] \in RanTasks \cup skipped /\ current # Program[j]

(* The demos wait long enough: unless a thread is held up for longer than  *)
(* Lag, every task has run, the delayed one included, when the program     *)
(* ends; only a dead safety flag keeps one from running.                   *)
NothingLost == Done => RanTasks \cup skipped = Tasks

(* A task bound to a safety flag never uses its owner after the owner was  *)
(* deleted, and is not kept from running before that.                      *)
SafetyFlagHolds ==
  LET deleted == {i \in DOMAIN ran : ran[i].task.op = "PostOwnerDelete"} IN
  /\ \A i \in deleted, j \in DOMAIN ran : j > i => ~Safe(ran[j].task)
  /\ skipped # {} => deleted # {}

(* Once the flag is set the thread runs at most one more iteration: it     *)
(* ends one loop sleep later, but for the lateness of the store and of its *)
(* own wake-up.  Main, on whose stack the flag lives, outlives it.         *)
PromptExit ==
  /\ exit_thread /\ worker # "exited" => now <= setAt + 5 + 2 * Lag
  /\ Done => worker = "exited"

(* Neither Invoke nor Stop waits for ever: the program ends.               *)
Terminates == <>Done
=============================================================================
