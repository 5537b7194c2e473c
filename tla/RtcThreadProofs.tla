-------------------------- MODULE RtcThreadProofs ---------------------------
(***************************************************************************)
(* What is proved of the threads of 02_rtc_thread and 03_rtc_task_queue,   *)
(* however late a thread may be: the order of execution, the barrier that  *)
(* Invoke is, the safety flag, and the end of the platform thread.         *)
(*                                                                         *)
(* Of the programs the proofs use WellFormed alone, but for the platform   *)
(* thread, whose loop sleep is a number of its program.                    *)
(***************************************************************************)
EXTENDS RtcThread, Integers, FiniteSetTheorems, SequenceTheorems, TLAPS

Calls ==
  [op   : Posts \cup {"SleepMs", "Wait", "SetFlag", "Stop"},
   task : {"PostTask1", "PostTask2", "delayed", "Invoke", "late", "early",
           "delete", "last", "test_rtc_thread", "-"},
   ms   : Nat]

(* The tasks a program hands over are different, and it stops the worker   *)
(* last and once.  No queue that drops ready tasks is the target of an     *)
(* Invoke, and a flag is set only for the thread that was spawned.         *)
WellFormed(p) ==
  /\ p \in Seq(Calls)
  /\ Len(p) > 0
  /\ \A i, j \in 1..Len(p) : p[i] = p[j] /\ p[i].op \in Posts => i = j
  /\ \A i \in 1..Len(p) : p[i].op = "Stop" <=> i = Len(p)
  /\ \A i \in 1..Len(p) : p[i].op = "Invoke" => p # TaskQueueDemo
  /\ \A i \in 1..Len(p) : p[i].op \in {"SetFlag", "Spawn"} => p = PlatformDemo

-----------------------------------------------------------------------------
(* The order of execution.  Pos is the place of a task's call in program p *)
(* and r the time from which on the task may run.                          *)
Pos(p, t) == CHOOSE i \in DOMAIN p : p[i] = t

Precedes(p, r, t, u) ==
  /\ t # u
  /\ t.op \notin Delayed /\ u.op \notin Delayed => Pos(p, t) < Pos(p, u)
  /\ t.op \in Delayed /\ u.op \in Delayed =>
       \/ r[t] < r[u]
       \/ r[t] = r[u] /\ Pos(p, t) < Pos(p, u)

Posted(t) == Pos(Program, t) < pc \/ (Pos(Program, t) = pc /\ phase = "inside")

Typed ==
  /\ TypeOK
  /\ ran \in Seq([task : Tasks, at : Nat])
  /\ delayed_messages_ \subseteq [task : Tasks, run_time : Nat, num : Nat]
  /\ IsFiniteSet(delayed_messages_)

(* What has run came before what is ready, and that before what is         *)
(* delayed.                                                                *)
RanInOrder ==
  \A i, j \in 1..Len(ran) :
    i < j => Precedes(Program, readyAt, ran[i].task, ran[j].task)
RanBeforeReady ==
  \A i \in 1..Len(ran), j \in 1..Len(messages_) :
    Precedes(Program, readyAt, ran[i].task, messages_[j])
RanBeforeDelayed ==
  \A i \in 1..Len(ran), d \in delayed_messages_ :
    Precedes(Program, readyAt, ran[i].task, d.task)
ReadyInOrder ==
  \A i, j \in 1..Len(messages_) :
    i < j => Precedes(Program, readyAt, messages_[i], messages_[j])
ReadyBeforeDelayed ==
  \A i \in 1..Len(messages_), d \in delayed_messages_ :
    Precedes(Program, readyAt, messages_[i], d.task)

(* Nothing is in a queue or has run that was not posted, or before its     *)
(* time; the numbers of delayed tasks are in the order of the calls.       *)
RanOnTime ==
  \A i \in 1..Len(ran) :
    /\ Posted(ran[i].task)
    /\ readyAt[ran[i].task] <= ran[i].at
    /\ ran[i].at <= now
ReadyOnTime ==
  \A i \in 1..Len(messages_) :
    Posted(messages_[i]) /\ readyAt[messages_[i]] <= now
DelayedOnTime ==
  \A d \in delayed_messages_ :
    /\ d.task.op \in Delayed
    /\ Posted(d.task)
    /\ d.run_time = readyAt[d.task]
    /\ d.num < delayed_next_num_
DelayedNumbered ==
  \A d, e \in delayed_messages_ :
    d.num < e.num => Pos(Program, d.task) < Pos(Program, e.task)

OrderInv ==
  /\ RanInOrder /\ RanBeforeReady /\ RanBeforeDelayed
  /\ ReadyInOrder /\ ReadyBeforeDelayed
  /\ RanOnTime /\ ReadyOnTime /\ DelayedOnTime /\ DelayedNumbered

(* The running task is the last one that was taken.                        *)
CurrentIsLast ==
  \/ current = NoTask
  \/ /\ current \in Tasks
     /\ worker = "busy"
     /\ \A i \in 1..Len(ran) :
          ran[i].task = current \/ Precedes(Program, readyAt, ran[i].task, current)
     /\ \A j \in 1..Len(messages_) : messages_[j] # current
     /\ \A d \in delayed_messages_ : d.task # current
     /\ Posted(current)

(* A task posted without delay has been taken or waits, unless the queue   *)
(* is one that drops ready tasks.                                          *)
TakenOrReady ==
  Program # TaskQueueDemo =>
    \A i \in 1..Len(Program) :
      Program[i].op \in Posts \ Delayed /\ Posted(Program[i]) =>
        \/ Program[i] \in RanTasks \cup skipped
        \/ \E j \in 1..Len(messages_) : messages_[j] = Program[i]

InvokeReturned ==
  \A i \in 1..Len(Program) :
    Program[i].op = "Invoke" /\ i < pc => Program[i] \in RanTasks /\ current # Program[i]

BarrierInv == CurrentIsLast /\ TakenOrReady /\ InvokeReturned

-----------------------------------------------------------------------------
(* The flag is down exactly when the owner was deleted.                    *)
FlagInv ==
  /\ ~alive <=> \E i \in 1..Len(ran) : ran[i].task.op = "PostOwnerDelete"
  /\ skipped # {} => ~alive
  /\ \A i, j \in 1..Len(ran) :
       i < j /\ ran[i].task.op = "PostOwnerDelete" => ~Safe(ran[j].task)

(* The platform thread: who is ready since when.                           *)
StoreTime ==
  /\ visible => exit_thread
  /\ exit_thread => setAt <= now
  /\ ~exit_thread => lag["store"] = 0
  /\ exit_thread /\ ~visible => now = setAt + lag["store"]

SpawnTime ==
  /\ pc = 1 => /\ messages_ = <<>> /\ worker = "idle" /\ lag["worker"] = 0
               /\ ~stop_ /\ ~exit_thread /\ phase = "call"
  /\ pc > 1 => readyAt[Program[1]] <= now
  /\ pc > 1 /\ worker = "idle" =>
       /\ messages_ = <<Program[1]>>
       /\ now = readyAt[Program[1]] + lag["worker"]
  /\ pc > 1 /\ worker # "idle" => messages_ = <<>>
  /\ exit_thread => pc > 3 /\ readyAt[Program[1]] <= setAt

LoopTime ==
  worker = "busy" =>
    /\ current = Program[1]
    /\ now < busyUntil => lag["worker"] = 0
    /\ busyUntil <= now => now = busyUntil + lag["worker"]
    /\ busyUntil <= now + 5
    /\ exit_thread /\ visible => busyUntil <= setAt + Lag + 5

ExitInv ==
  /\ Done => worker = "exited"
  /\ Program # PlatformDemo => ~exit_thread
  /\ Program = PlatformDemo =>
       delayed_messages_ = {} /\ StoreTime /\ SpawnTime /\ LoopTime

ThreadInv == Typed /\ OrderInv /\ BarrierInv /\ FlagInv /\ ExitInv

-----------------------------------------------------------------------------
(* Tuples are sequences.                                                   *)
LEMMA Tuples ==
  ASSUME NEW S
  PROVE  /\ \A a, b, c, d \in S : <<a, b, c, d>> \in Seq(S) /\ Len(<<a, b, c, d>>) = 4
         /\ \A a, b, c, d, e, f \in S :
              <<a, b, c, d, e, f>> \in Seq(S) /\ Len(<<a, b, c, d, e, f>>) = 6
         /\ \A a, b, c, d, e, f, g \in S :
              <<a, b, c, d, e, f, g>> \in Seq(S) /\ Len(<<a, b, c, d, e, f, g>>) = 7
OBVIOUS

(* The four programs are well formed.                                      *)
LEMMA ProgramsWellFormed == \A p \in Programs : WellFormed(p)
<1>1. WellFormed(ThreadDemo)
  <2>1. Len(ThreadDemo) = 6 /\ ThreadDemo \in Seq(Calls)
    <3>1. /\ Call("PostTask", "PostTask1", 0) \in Calls
          /\ Call("PostTask", "PostTask2", 0) \in Calls
          /\ Call("PostDelayedTask", "delayed", 4) \in Calls
          /\ Call("Invoke", "Invoke", 2) \in Calls
          /\ Call("SleepMs", "-", 4) \in Calls
          /\ Call("Stop", "-", 0) \in Calls
      BY DEF Call, Calls, Posts
    <3> QED BY <3>1, Tuples, Zenon DEF ThreadDemo
  <2>2. \A i \in 1..6 : i = 1 \/ i = 2 \/ i = 3 \/ i = 4 \/ i = 5 \/ i = 6
    OBVIOUS
  <2>3. ThreadDemo # TaskQueueDemo
    <3>1. Len(TaskQueueDemo) = 4
      BY DEF TaskQueueDemo
    <3>2. Len(ThreadDemo) # Len(TaskQueueDemo)
      BY <2>1, <3>1
    <3> QED BY <3>2, Zenon
  <2> QED BY <2>1, <2>2, <2>3 DEF ThreadDemo, Call, WellFormed, Posts
<1>2. WellFormed(TaskQueueDemo)
  <2>1. Len(TaskQueueDemo) = 4 /\ TaskQueueDemo \in Seq(Calls)
    <3>1. /\ Call("PostTask", "PostTask1", 0) \in Calls
          /\ Call("PostDelayedTask", "delayed", 10) \in Calls
          /\ Call("Wait", "-", 12) \in Calls
          /\ Call("Stop", "-", 0) \in Calls
      BY DEF Call, Calls, Posts
    <3> QED BY <3>1, Tuples, Zenon DEF TaskQueueDemo
  <2>2. \A i \in 1..4 : i = 1 \/ i = 2 \/ i = 3 \/ i = 4
    OBVIOUS
  <2> QED BY <2>1, <2>2 DEF TaskQueueDemo, Call, WellFormed, Posts
<1>3. WellFormed(SafetyDemo)
  <2>1. Len(SafetyDemo) = 7 /\ SafetyDemo \in Seq(Calls)
    <3>1. /\ Call("PostDelayedSafeTask", "late", 2) \in Calls
          /\ Call("PostDelayedSafeTask", "early", 1) \in Calls
          /\ Call("SleepMs", "-", 1) \in Calls
          /\ Call("PostOwnerDelete", "delete", 0) \in Calls
          /\ Call("PostSafeTask", "last", 0) \in Calls
          /\ Call("SleepMs", "-", 3) \in Calls
          /\ Call("Stop", "-", 0) \in Calls
      BY DEF Call, Calls, Posts
    <3> QED BY <3>1, Tuples, Zenon DEF SafetyDemo
  <2>2. \A i \in 1..7 : i = 1 \/ i = 2 \/ i = 3 \/ i = 4 \/ i = 5 \/ i = 6 \/ i = 7
    OBVIOUS
  <2> QED BY <2>1, <2>2 DEF SafetyDemo, Call, WellFormed, Posts
<1>4. WellFormed(PlatformDemo)
  <2>1. Len(PlatformDemo) = 4 /\ PlatformDemo \in Seq(Calls)
    <3>1. /\ Call("Spawn", "test_rtc_thread", 5) \in Calls
          /\ Call("SleepMs", "-", 26) \in Calls
          /\ Call("SetFlag", "-", 0) \in Calls
          /\ Call("Stop", "-", 0) \in Calls
      BY DEF Call, Calls, Posts
    <3> QED BY <3>1, Tuples, Zenon DEF PlatformDemo
  <2>2. \A i \in 1..4 : i = 1 \/ i = 2 \/ i = 3 \/ i = 4
    OBVIOUS
  <2> QED BY <2>1, <2>2 DEF PlatformDemo, Call, WellFormed, Posts
<1> QED BY <1>1, <1>2, <1>3, <1>4 DEF Programs

(* A task is at the place of its call.                                     *)
LEMMA PosIsPlace ==
  ASSUME NEW p, WellFormed(p), NEW i \in 1..Len(p), p[i].op \in Posts
  PROVE  Pos(p, p[i]) = i
<1>1. DOMAIN p = 1..Len(p)
  BY DEF WellFormed
<1>2. \E j \in DOMAIN p : p[j] = p[i]
  BY <1>1
<1>3. /\ Pos(p, p[i]) \in 1..Len(p)
      /\ p[Pos(p, p[i])] = p[i]
  BY <1>1, <1>2 DEF Pos
<1> QED BY <1>3 DEF WellFormed

(* Tasks are calls of the program.                                         *)
LEMMA TasksAreCalls ==
  ASSUME TypeOK, WellFormed(Program)
  PROVE  /\ Tasks \subseteq Calls
         /\ \A t \in Tasks : /\ t.op \in Posts
                             /\ Pos(Program, t) \in 1..Len(Program)
                             /\ Program[Pos(Program, t)] = t
         /\ \A i \in 1..Len(Program) : Program[i].op \in Posts =>
                             Program[i] \in Tasks /\ Pos(Program, Program[i]) = i
<1>1. Len(Program) \in Nat /\ DOMAIN Program = 1..Len(Program)
  BY DEF WellFormed
<1>2. \A i \in 1..Len(Program) : Program[i] \in Calls
  BY ElementOfSeq DEF WellFormed
<1>3. \A t \in Tasks : \E i \in 1..Len(Program) : t = Program[i] /\ t.op \in Posts
  BY <1>1 DEF Tasks
<1>4. \A i \in 1..Len(Program) : Program[i].op \in Posts =>
                             Program[i] \in Tasks /\ Pos(Program, Program[i]) = i
  BY <1>1, PosIsPlace DEF Tasks
<1> QED BY <1>2, <1>3, <1>4

-----------------------------------------------------------------------------
(* A step of Dispatch, told as the line of tasks it takes from.            *)
Takes(ready) ==
  /\ Len(messages_') = Len(ready) - 1
  /\ \A i \in 1..(Len(ready) - 1) : messages_'[i] = ready[i + 1]
  /\ current' = ready[1]
  /\ busyUntil' = now + (IF ready[1].op = "Invoke" THEN ready[1].ms ELSE 0)
  /\ alive' = (alive /\ ready[1].op # "PostOwnerDelete")
  /\ \/ /\ ClosureCalled(ready[1])
        /\ ran' = Append(ran, [task |-> ready[1], at |-> now])
        /\ skipped' = skipped
     \/ /\ ~ClosureCalled(ready[1])
        /\ ran' = ran
        /\ skipped' = skipped \cup {ready[1]}

LinesUp(ready, due) ==
  /\ due \in DueInOrder
  /\ Cardinality(Due) \in Nat
  /\ ready \in Seq(Tasks)
  /\ Len(ready) > 0
  /\ Len(ready) = Len(messages_) + Cardinality(Due)
  /\ \A i \in 1..Len(ready) :
       ready[i] = IF i <= Len(messages_) THEN messages_[i] ELSE due[i - Len(messages_)].task

(* Dispatch takes the first task of such a line, which is not empty.       *)
LEMMA DispatchTakes ==
  ASSUME Typed, Dispatch
  PROVE  \E ready, due : /\ LinesUp(ready, due) /\ Takes(ready)
                         /\ messages_' \in Seq(Tasks)
<1>1. /\ messages_ \in Seq(Tasks)
      /\ delayed_messages_ \subseteq [task : Tasks, run_time : Nat, num : Nat]
      /\ IsFiniteSet(delayed_messages_)
  BY DEF Typed, TypeOK
<1>2. IsFiniteSet(Due) /\ Cardinality(Due) \in Nat
  <2>1. Due \in SUBSET delayed_messages_
    BY DEF Due
  <2> QED BY <1>1, <2>1, FS_Subset, FS_CardinalityType
<1>3. PICK due \in DueInOrder :
       LET ready == messages_ \o [i \in DOMAIN due |-> due[i].task]
           task  == Head(ready)
       IN
       /\ messages_' = Tail(ready)
       /\ current' = task
       /\ busyUntil' = now + (IF task.op = "Invoke" THEN task.ms ELSE 0)
       /\ IF ClosureCalled(task)
          THEN /\ ran' = Append(ran, [task |-> task, at |-> now])
               /\ skipped' = skipped
          ELSE /\ ran' = ran
               /\ skipped' = skipped \cup {task}
       /\ alive' = (alive /\ task.op # "PostOwnerDelete")
  BY DEF Dispatch
<1> DEFINE tasks == [i \in DOMAIN due |-> due[i].task]
           ready == messages_ \o tasks
<1>4. /\ due \in [1..Cardinality(Due) -> Due]
      /\ DOMAIN due = 1..Cardinality(Due)
  BY DEF DueInOrder
<1>5. \A i \in 1..Cardinality(Due) : due[i].task \in Tasks
  BY <1>1, <1>4 DEF Due
<1>6. /\ tasks \in Seq(Tasks)
      /\ Len(tasks) = Cardinality(Due)
      /\ \A i \in 1..Cardinality(Due) : tasks[i] = due[i].task
  BY <1>2, <1>4, <1>5
<1> HIDE DEF tasks
<1>7. /\ ready \in Seq(Tasks)
      /\ Len(ready) = Len(messages_) + Cardinality(Due)
      /\ \A i \in 1..(Len(messages_) + Len(tasks)) :
           ready[i] = IF i <= Len(messages_) THEN messages_[i] ELSE tasks[i - Len(messages_)]
  BY <1>1, <1>6, ConcatProperties
<1>8. \A i \in 1..Len(ready) :
        ready[i] = IF i <= Len(messages_) THEN messages_[i] ELSE due[i - Len(messages_)].task
  BY <1>1, <1>2, <1>6, <1>7
<1>9. Len(ready) > 0
  <2>1. messages_ # <<>> \/ Due # {}
    BY DEF Dispatch, HasReady
  <2>2. CASE messages_ # <<>>
    <3>1. Len(messages_) > 0
      BY <1>1, <2>2
    <3> QED BY <1>1, <1>2, <1>7, <3>1
  <2>3. CASE Due # {}
    <3>1. Cardinality(Due) # 0
      BY <1>2, <2>3, FS_EmptySet
    <3> QED BY <1>1, <1>2, <1>7, <3>1
  <2> QED BY <2>1, <2>2, <2>3
<1> HIDE DEF ready
<1>10. LinesUp(ready, due)
  BY <1>2, <1>7, <1>8, <1>9 DEF LinesUp
<1>11. /\ Head(ready) = ready[1]
       /\ Tail(ready) \in Seq(Tasks)
       /\ Len(Tail(ready)) = Len(ready) - 1
       /\ \A i \in 1..(Len(ready) - 1) : Tail(ready)[i] = ready[i + 1]
  BY <1>7, <1>9, HeadTailProperties
<1>12. /\ messages_' = Tail(ready)
       /\ current' = Head(ready)
       /\ busyUntil' = now + (IF Head(ready).op = "Invoke" THEN Head(ready).ms ELSE 0)
       /\ IF ClosureCalled(Head(ready))
          THEN /\ ran' = Append(ran, [task |-> Head(ready), at |-> now])
               /\ skipped' = skipped
          ELSE /\ ran' = ran
               /\ skipped' = skipped \cup {Head(ready)}
       /\ alive' = (alive /\ Head(ready).op # "PostOwnerDelete")
  BY <1>3 DEF ready, tasks
<1>13. Takes(ready)
  BY <1>11, <1>12, Zenon DEF Takes
<1> QED BY <1>10, <1>11, <1>12, <1>13

-----------------------------------------------------------------------------
(* The program stays what it is, and so do its tasks.                      *)
LEMMA ProgramStays ==
  ASSUME Typed, [Next]_vars
  PROVE  /\ Program' = Program
         /\ Tasks' = Tasks
         /\ WellFormed(Program)
         /\ Len(Program) \in Nat
         /\ DOMAIN Program = 1..Len(Program)
<1>1. Program' = Program
  BY DEF Next, vars, mainVars, MainCalls, MainReturns, Dispatch, TaskEnds,
         WorkerQuits, Visible, Tick
<1>2. WellFormed(Program)
  BY ProgramsWellFormed DEF Typed, TypeOK
<1> QED BY <1>1, <1>2 DEF Tasks, WellFormed

(* What main calls is a call of the program, with a task to hand over when *)
(* it is one that posts.                                                   *)
LEMMA MainsCall ==
  ASSUME Typed, ~Done
  PROVE  /\ pc \in 1..Len(Program)
         /\ Program[pc] \in Calls
         /\ Program[pc].ms \in Nat
         /\ Program[pc].op \in Posts =>
              Program[pc] \in Tasks /\ Pos(Program, Program[pc]) = pc
<1>1. WellFormed(Program) /\ TypeOK
  BY ProgramsWellFormed DEF Typed, TypeOK
<1>2. Len(Program) \in Nat
  BY <1>1 DEF WellFormed
<1>3. pc \in 1..Len(Program)
  BY <1>1, <1>2 DEF Done, TypeOK
<1>4. Program[pc] \in Calls
  BY <1>1, <1>3, ElementOfSeq DEF WellFormed
<1>5. Program[pc].ms \in Nat
  BY <1>4 DEF Calls
<1> QED BY <1>1, <1>3, <1>4, <1>5, TasksAreCalls

(* Types are kept.                                                         *)
LEMMA TypesKept ==
  ASSUME Typed, [Next]_vars
  PROVE  Typed'
<1>1. /\ Program' = Program
      /\ Tasks' = Tasks
      /\ WellFormed(Program)
      /\ Len(Program) \in Nat
  BY ProgramStays
<1>2. TypeOK
  BY DEF Typed
<1>3. Tasks \subseteq Calls
  BY <1>1, <1>2, TasksAreCalls
<1>4. CASE UNCHANGED vars
  <2>1. RanTasks' = RanTasks
    BY <1>4 DEF vars, workerVars, RanTasks
  <2> QED
    BY <1>1, <1>4, <2>1 DEF Typed, TypeOK, vars, mainVars, flagVars, queueVars, workerVars
<1>5. CASE MainCalls
  <2>1. /\ pc \in 1..Len(Program)
        /\ Program[pc].ms \in Nat
        /\ Program[pc].op \in Posts => Program[pc] \in Tasks
    BY <1>5, MainsCall DEF MainCalls
  <2>2. UNCHANGED <<now, worker, busyUntil, current, ran, skipped, alive>>
    BY <1>5 DEF MainCalls, workerVars
  <2> USE <1>1, <1>2, <1>5, <2>1 DEF MainCalls, PostTask, PostDelayedTask, Invoke, SleepMs,
          SetFlag, Stop, Returns, Blocks, Run, flagVars, queueVars, Posts, Delayed
  <2>3. pc' \in 1..(Len(Program) + 1) /\ phase' \in {"call", "inside"}
    BY DEF TypeOK
  <2>4. wakeAt' \in Nat /\ setAt' \in Nat
    BY DEF TypeOK
  <2>5. exit_thread' \in BOOLEAN /\ visible' \in BOOLEAN /\ stop_' \in BOOLEAN
    BY DEF TypeOK
  <2>6. messages_' \in Seq(Tasks)
    <3>1. \/ messages_' = messages_
          \/ messages_' = Append(messages_, Program[pc]) /\ Program[pc] \in Tasks
      OBVIOUS
    <3>2. messages_ \in Seq(Tasks)
      BY DEF TypeOK
    <3> HIDE <1>2, <1>5, <2>1
    <3> QED BY <3>1, <3>2, AppendProperties
  <2>7. delayed_messages_' \subseteq [task : Tasks, run_time : Nat, num : Nat]
    <3>1. delayed_messages_ \subseteq [task : Tasks, run_time : Nat, num : Nat]
      BY DEF Typed
    <3>2. CASE PostDelayedTask(Program[pc])
      <4>1. [task |-> Program[pc], run_time |-> now + Program[pc].ms, num |-> delayed_next_num_]
              \in [task : Tasks, run_time : Nat, num : Nat]
        BY <3>2 DEF TypeOK
      <4> QED BY <3>1, <3>2, <4>1
    <3>3. CASE delayed_messages_' = delayed_messages_
      BY <3>1, <3>3
    <3> QED BY <3>2, <3>3
  <2>8. delayed_next_num_' \in Nat
    BY DEF TypeOK
  <2>9. readyAt' \in [Tasks -> Nat]
    <3>1. \/ readyAt' = readyAt
          \/ readyAt' = [readyAt EXCEPT ![Program[pc]] = now]
          \/ readyAt' = [readyAt EXCEPT ![Program[pc]] = now + Program[pc].ms]
      OBVIOUS
    <3>2. now \in Nat /\ now + Program[pc].ms \in Nat /\ readyAt \in [Tasks -> Nat]
      BY DEF TypeOK
    <3> HIDE <1>2, <1>5, <2>1
    <3> QED BY <3>1, <3>2
  <2>10. lag' \in [Actors -> 0..Lag]
    BY RtcThreadAssumption DEF TypeOK, Actors
  <2>11. IsFiniteSet(delayed_messages_')
    BY FS_AddElement DEF Typed
  <2>12. ran' \in Seq([task : Tasks, at : Nat]) /\ current' \in Tasks \cup {NoTask}
         /\ skipped' \subseteq Tasks
    BY <2>2 DEF Typed, TypeOK
  <2> HIDE <1>5 DEF MainCalls, PostTask, PostDelayedTask, Invoke, SleepMs,
          SetFlag, Stop, Returns, Blocks, Run, flagVars, queueVars, Posts, Delayed
  <2>13. TypeOK'
    BY <2>2, <2>3, <2>4, <2>5, <2>6, <2>7, <2>8, <2>9, <2>10, <2>12 DEF TypeOK, NoTask
  <2> QED BY <2>7, <2>11, <2>12, <2>13 DEF Typed
<1>6. CASE MainReturns
  <2>1. pc' \in 1..(Len(Program) + 1) /\ phase' \in {"call", "inside"}
    BY <1>1, <1>2, <1>6, MainsCall DEF MainReturns, Returns, TypeOK
  <2>2. lag' \in [Actors -> 0..Lag]
    BY <1>2, <1>6, RtcThreadAssumption DEF MainReturns, Run, TypeOK, Actors
  <2> QED BY <1>1, <1>2, <1>6, <2>1, <2>2 DEF MainReturns, Typed, TypeOK, flagVars, queueVars,
             workerVars, NoTask
<1>7. CASE Dispatch
  <2>1. PICK ready, due : LinesUp(ready, due) /\ Takes(ready) /\ messages_' \in Seq(Tasks)
    BY <1>7, DispatchTakes
  <2>2. ready[1] \in Tasks
    BY <2>1, ElementOfSeq DEF LinesUp
  <2>3. ready[1].ms \in Nat
    BY <1>3, <2>2 DEF Calls
  <2>4. busyUntil' \in Nat /\ worker' = "busy"
    <3>1. worker' = "busy"
      BY <1>7 DEF Dispatch
    <3>2. busyUntil' = now \/ busyUntil' = now + ready[1].ms
      BY <1>2, <2>1 DEF Takes, TypeOK
    <3> QED BY <1>2, <2>3, <3>1, <3>2 DEF TypeOK
  <2>5. /\ ran' \in Seq([task : Tasks, at : Nat])
        /\ skipped' \subseteq Tasks
        /\ current' \in Tasks
    <3>1. [task |-> ready[1], at |-> now] \in [task : Tasks, at : Nat]
      BY <1>2, <2>2 DEF TypeOK
    <3>2. current' \in Tasks /\ skipped' \subseteq Tasks
      BY <1>2, <2>1, <2>2 DEF Takes, TypeOK
    <3>3. ran' = ran \/ ran' = Append(ran, [task |-> ready[1], at |-> now])
      BY <2>1 DEF Takes
    <3>4. ran \in Seq([task : Tasks, at : Nat])
      BY DEF Typed
    <3>5. Append(ran, [task |-> ready[1], at |-> now]) \in Seq([task : Tasks, at : Nat])
      BY <3>1, <3>4, AppendProperties
    <3> QED BY <3>2, <3>3, <3>4, <3>5
  <2>6. alive' \in BOOLEAN
    BY <2>1 DEF Takes
  <2>7. delayed_messages_' \subseteq delayed_messages_
    BY <1>7 DEF Dispatch
  <2>8. IsFiniteSet(delayed_messages_')
    BY <2>7, FS_Subset DEF Typed
  <2>9. lag' \in [Actors -> 0..Lag]
    BY <1>2, <1>7, RtcThreadAssumption DEF Dispatch, Run, TypeOK, Actors
  <2>10. UNCHANGED <<now, Program, pc, phase, wakeAt, readyAt, exit_thread, visible, setAt,
                     delayed_next_num_, stop_>>
    BY <1>7 DEF Dispatch, mainVars, flagVars
  <2>11. \A i \in DOMAIN ran' : ran'[i] \in [task : Tasks, at : Nat]
    <3>1. DOMAIN ran' = 1..Len(ran')
      BY <2>5, LenProperties
    <3> QED BY <2>5, <3>1, ElementOfSeq
  <2>12. TypeOK'
    BY <1>1, <1>2, <2>1, <2>4, <2>5, <2>6, <2>7, <2>9, <2>10, <2>11 DEF Typed, TypeOK, NoTask
  <2> QED BY <1>1, <2>5, <2>7, <2>8, <2>12 DEF Typed
<1>8. CASE TaskEnds
  <2>1. current \in Tasks \cup {NoTask}
    BY <1>2 DEF TypeOK
  <2>2. current.ms \in Nat
    BY <1>3, <2>1 DEF Calls, NoTask, Call
  <2>3. busyUntil' \in Nat /\ worker' \in {"idle", "busy", "exited"}
    BY <1>2, <1>8, <2>2 DEF TaskEnds, Iterate, TypeOK
  <2>4. current' \in Tasks \cup {NoTask}
    BY <1>8, <2>1 DEF TaskEnds, Iterate
  <2>5. lag' \in [Actors -> 0..Lag]
    BY <1>2, <1>8, RtcThreadAssumption DEF TaskEnds, Run, TypeOK, Actors
  <2> QED BY <1>1, <1>2, <1>8, <2>3, <2>4, <2>5 DEF TaskEnds, Typed, TypeOK, mainVars,
             flagVars, queueVars, NoTask
<1>9. CASE WorkerQuits
  <2>1. lag' \in [Actors -> 0..Lag]
    BY <1>2, <1>9, RtcThreadAssumption DEF WorkerQuits, Run, TypeOK, Actors
  <2>2. messages_' \in Seq(Tasks) /\ IsFiniteSet(delayed_messages_')
    BY <1>9, FS_EmptySet, EmptySeq DEF WorkerQuits
  <2> QED BY <1>1, <1>2, <1>9, <2>1, <2>2 DEF WorkerQuits, Typed, TypeOK, mainVars, flagVars,
             NoTask
<1>10. CASE Visible
  <2>1. lag' \in [Actors -> 0..Lag]
    BY <1>2, <1>10, RtcThreadAssumption DEF Visible, Run, TypeOK, Actors
  <2>2. visible' \in BOOLEAN
    BY <1>2, <1>10 DEF Visible, TypeOK
  <2> QED BY <1>1, <1>2, <1>10, <2>1, <2>2 DEF Visible, Typed, TypeOK, mainVars, queueVars,
             workerVars, NoTask
<1>11. CASE Tick
  <2>1. lag' \in [Actors -> 0..Lag]
    BY <1>2, <1>11, RtcThreadAssumption DEF Tick, TypeOK, Actors
  <2>2. now' \in Nat
    BY <1>2, <1>11 DEF Tick, TypeOK
  <2> QED BY <1>1, <1>2, <1>11, <2>1, <2>2 DEF Tick, Typed, TypeOK, mainVars, flagVars,
             queueVars, workerVars, NoTask
<1> QED BY <1>4, <1>5, <1>6, <1>7, <1>8, <1>9, <1>10, <1>11 DEF Next

(* Only Dispatch runs tasks.                                               *)
LEMMA OnlyDispatchRuns ==
  ASSUME [Next]_vars, ~Dispatch
  PROVE  UNCHANGED <<ran, skipped, alive>>
BY DEF Next, vars, workerVars, MainCalls, MainReturns, TaskEnds, WorkerQuits, Visible, Tick

(* What a sequence is after Append.                                        *)
LEMMA RanAfter ==
  ASSUME NEW S, NEW s \in Seq(S), NEW e \in S
  PROVE  /\ Append(s, e) \in Seq(S)
         /\ Len(s) \in Nat
         /\ Len(Append(s, e)) = Len(s) + 1
         /\ \A i \in 1..Len(s) : Append(s, e)[i] = s[i]
         /\ Append(s, e)[Len(s) + 1] = e
BY AppendProperties, LenProperties

(* The flag is down exactly when the owner was deleted, and from then on   *)
(* no bound task runs.                                                     *)
LEMMA FlagKept ==
  ASSUME Typed, FlagInv, [Next]_vars
  PROVE  FlagInv'
<1>1. CASE ~Dispatch
  BY <1>1, OnlyDispatchRuns DEF FlagInv
<1>2. CASE Dispatch
  <2>1. PICK ready, due : LinesUp(ready, due) /\ Takes(ready)
    BY <1>2, DispatchTakes
  <2>2. ready[1] \in Tasks
    BY <2>1, ElementOfSeq DEF LinesUp
  <2> DEFINE e == [task |-> ready[1], at |-> now]
  <2>3. /\ e \in [task : Tasks, at : Nat]
        /\ e.task = ready[1]
        /\ ran \in Seq([task : Tasks, at : Nat])
    BY <2>2 DEF Typed, TypeOK
  <2>4. /\ Len(ran) \in Nat
        /\ Len(Append(ran, e)) = Len(ran) + 1
        /\ \A i \in 1..Len(ran) : Append(ran, e)[i] = ran[i]
        /\ Append(ran, e)[Len(ran) + 1] = e
    BY <2>3, RanAfter
  <2>5. /\ alive' <=> (alive /\ ready[1].op # "PostOwnerDelete")
        /\ \/ (Safe(ready[1]) => alive) /\ ran' = Append(ran, e) /\ skipped' = skipped
           \/ /\ Safe(ready[1]) /\ ~alive
              /\ ran' = ran /\ skipped' = skipped \cup {ready[1]}
    BY <2>1 DEF Takes, ClosureCalled
  <2> HIDE DEF e
  <2>6. CASE Safe(ready[1]) /\ ~alive /\ ran' = ran
    <3>1. ~alive'
      BY <2>5, <2>6
    <3> QED BY <2>6, <3>1 DEF FlagInv
  <2>7. CASE (Safe(ready[1]) => alive) /\ ran' = Append(ran, e) /\ skipped' = skipped
    <3>1. \A i \in 1..Len(ran') : \/ i \in 1..Len(ran) /\ ran'[i] = ran[i]
                                  \/ i = Len(ran) + 1 /\ ran'[i].task = ready[1]
      BY <2>3, <2>4, <2>7
    <3>2. \A i \in 1..Len(ran) : i \in 1..Len(ran') /\ ran'[i] = ran[i]
      BY <2>4, <2>7
    <3>3. Len(ran) + 1 \in 1..Len(ran') /\ ran'[Len(ran) + 1].task = ready[1]
      BY <2>3, <2>4, <2>7
    <3>4. ~alive' <=> \E i \in 1..Len(ran') : ran'[i].task.op = "PostOwnerDelete"
      BY <2>5, <3>1, <3>2, <3>3 DEF FlagInv
    <3>5. skipped' # {} => ~alive'
      BY <2>5, <2>7 DEF FlagInv
    <3>6. ASSUME NEW i \in 1..Len(ran'), NEW j \in 1..Len(ran'), i < j,
                 ran'[i].task.op = "PostOwnerDelete"
          PROVE  ~Safe(ran'[j].task)
      <4>1. i \in 1..Len(ran) /\ ran[i].task.op = "PostOwnerDelete"
        BY <2>4, <3>1, <3>6
      <4>2. ~alive
        BY <4>1 DEF FlagInv
      <4>3. CASE j \in 1..Len(ran) /\ ran'[j] = ran[j]
        BY <3>6, <4>1, <4>3 DEF FlagInv
      <4>4. CASE ran'[j].task = ready[1]
        BY <2>7, <4>2, <4>4
      <4> QED BY <3>1, <4>3, <4>4
    <3>7. Len(ran') \in Nat
      BY <2>4, <2>7
    <3> QED BY <3>4, <3>5, <3>6 DEF FlagInv, Safe
  <2> QED BY <2>5, <2>6, <2>7
<1> QED BY <1>1, <1>2

-----------------------------------------------------------------------------
(* In the initial state the invariant holds.                               *)
LEMMA InitTypes == Init => Typed
<1> SUFFICES ASSUME Init PROVE Typed
  OBVIOUS
<1>1. WellFormed(Program)
  BY ProgramsWellFormed DEF Init
<1>2. Len(Program) \in Nat
  BY <1>1 DEF WellFormed
<1>3. readyAt \in [Tasks -> Nat] /\ lag \in [Actors -> 0..Lag]
  BY RtcThreadAssumption DEF Init
<1>4. messages_ \in Seq(Tasks) /\ ran \in Seq([task : Tasks, at : Nat])
  BY EmptySeq DEF Init
<1>5. DOMAIN ran = {}
  BY DEF Init
<1>6. pc \in 1..(Len(Program) + 1)
  BY <1>2 DEF Init
<1>7. TypeOK
  BY <1>3, <1>4, <1>5, <1>6 DEF Init, TypeOK
<1>8. IsFiniteSet(delayed_messages_)
  BY FS_EmptySet DEF Init
<1>9. delayed_messages_ \subseteq [task : Tasks, run_time : Nat, num : Nat]
  BY DEF Init
<1> QED BY <1>4, <1>7, <1>8, <1>9 DEF Typed

-----------------------------------------------------------------------------
(* What a call of main does to the queues: it posts a task, or a delayed   *)
(* one, or nothing.                                                        *)
PostsNow(c) ==
  /\ c.op \in Posts \ Delayed
  /\ messages_' = Append(messages_, c)
  /\ readyAt' = [readyAt EXCEPT ![c] = now]
  /\ UNCHANGED <<delayed_messages_, delayed_next_num_>>

PostsLater(c) ==
  /\ c.op \in Delayed
  /\ delayed_messages_' = delayed_messages_ \cup
       {[task |-> c, run_time |-> now + c.ms, num |-> delayed_next_num_]}
  /\ delayed_next_num_' = delayed_next_num_ + 1
  /\ readyAt' = [readyAt EXCEPT ![c] = now + c.ms]
  /\ UNCHANGED messages_

(* A call of main is one of these.                                         *)
LEMMA CallPosts ==
  ASSUME Typed, MainCalls
  PROVE  /\ phase = "call"
         /\ (pc' = pc + 1 /\ phase' = "call") \/ (pc' = pc /\ phase' = "inside")
         /\ pc' = pc + 1 => Program[pc].op # "Invoke"
         /\ UNCHANGED <<Program, now, worker, busyUntil, current, ran, skipped, alive>>
         /\ \/ PostsNow(Program[pc])
            \/ PostsLater(Program[pc])
            \/ /\ Program[pc].op \notin Posts
               /\ UNCHANGED <<messages_, delayed_messages_, delayed_next_num_, readyAt>>
<1>1. /\ phase = "call"
      /\ UNCHANGED <<Program, now, worker, busyUntil, current, ran, skipped, alive>>
  BY DEF MainCalls, workerVars
<1>2. pc \in Nat
  BY DEF Typed, TypeOK
<1>3. CASE PostTask(Program[pc])
  BY <1>1, <1>2, <1>3 DEF PostTask, PostsNow, Returns, Posts, Delayed
<1>4. CASE PostDelayedTask(Program[pc])
  BY <1>1, <1>2, <1>4 DEF PostDelayedTask, PostsLater, Returns, Delayed
<1>5. CASE Invoke(Program[pc])
  BY <1>1, <1>2, <1>5 DEF Invoke, PostsNow, Blocks, Posts, Delayed
<1>6. CASE SleepMs(Program[pc])
  BY <1>1, <1>2, <1>6 DEF SleepMs, Blocks, Posts, queueVars
<1>7. CASE SetFlag(Program[pc])
  BY <1>1, <1>2, <1>7 DEF SetFlag, Returns, Posts, queueVars
<1>8. CASE Stop(Program[pc])
  BY <1>1, <1>2, <1>8 DEF Stop, Blocks, Posts
<1> QED BY <1>3, <1>4, <1>5, <1>6, <1>7, <1>8 DEF MainCalls

(* A task that was posted stays posted.                                    *)
LEMMA PostedKept ==
  ASSUME Typed, [Next]_vars, NEW t \in Tasks, Posted(t)
  PROVE  Posted(t)'
<1>1. Program' = Program /\ Pos(Program, t) \in Nat
  <2>1. WellFormed(Program) /\ Len(Program) \in Nat /\ Program' = Program
    BY ProgramStays
  <2> QED BY <2>1, TasksAreCalls DEF Typed
<1>2. pc \in Nat
  BY DEF Typed, TypeOK
<1>3. CASE MainCalls
  BY <1>1, <1>2, <1>3, CallPosts DEF Posted
<1>4. CASE MainReturns
  BY <1>1, <1>2, <1>4 DEF Posted, MainReturns, Returns
<1>5. CASE ~MainCalls /\ ~MainReturns
  <2>1. UNCHANGED <<Program, pc, phase>>
    BY <1>5 DEF Next, vars, mainVars, Dispatch, TaskEnds, WorkerQuits, Visible, Tick
  <2> QED BY <2>1 DEF Posted
<1> QED BY <1>3, <1>4, <1>5

(* The task a call posts is new, and is posted then.                       *)
LEMMA PostedIsNew ==
  ASSUME Typed, MainCalls, NEW c, c = Program[pc], c.op \in Posts
  PROVE  /\ c \in Tasks
         /\ Posted(c)'
         /\ readyAt'[c] = IF c.op \in Delayed THEN now + c.ms ELSE now
         /\ \A t \in Tasks : Posted(t) =>
              /\ t # c
              /\ Pos(Program, t) < Pos(Program, c)
              /\ readyAt'[t] = readyAt[t]
<1>1. /\ pc \in Nat
      /\ c \in Tasks
      /\ Pos(Program, c) = pc
      /\ c.ms \in Nat
      /\ readyAt \in [Tasks -> Nat]
  BY MainsCall DEF MainCalls, Typed, TypeOK
<1>2. /\ phase = "call"
      /\ (pc' = pc + 1 /\ phase' = "call") \/ (pc' = pc /\ phase' = "inside")
      /\ Program' = Program
      /\ PostsNow(c) \/ PostsLater(c)
  BY CallPosts
<1>3. Posted(c)'
  BY <1>1, <1>2 DEF Posted
<1>4. \A t \in Tasks : Posted(t) => t # c /\ Pos(Program, t) < Pos(Program, c)
  BY <1>1, <1>2 DEF Posted
<1>5. /\ readyAt'[c] = IF c.op \in Delayed THEN now + c.ms ELSE now
      /\ \A t \in Tasks : t # c => readyAt'[t] = readyAt[t]
  BY <1>1, <1>2 DEF PostsNow, PostsLater
<1> QED BY <1>1, <1>3, <1>4, <1>5

(* Order is kept for tasks whose times are.                                *)
LEMMA OrderOfOthers ==
  ASSUME NEW p, NEW r, NEW s, NEW t, NEW u, r[t] = s[t], r[u] = s[u],
         Precedes(p, r, t, u)
  PROVE  Precedes(p, s, t, u)
BY DEF Precedes

(* A posted task comes before the one that is posted, provided that a      *)
(* delayed one is due by now.                                              *)
LEMMA PostedComesLast ==
  ASSUME Typed, MainCalls, NEW c, c = Program[pc], c.op \in Posts,
         NEW t \in Tasks, Posted(t), t.op \in Delayed => readyAt[t] <= now
  PROVE  Precedes(Program, readyAt', t, c)
<1>1. /\ t # c
      /\ Pos(Program, t) < Pos(Program, c)
      /\ readyAt'[t] = readyAt[t]
      /\ readyAt'[c] = IF c.op \in Delayed THEN now + c.ms ELSE now
  BY PostedIsNew
<1>2. c.ms \in Nat /\ now \in Nat /\ readyAt[t] \in Nat
  BY MainsCall DEF MainCalls, Typed, TypeOK
<1> QED BY <1>1, <1>2 DEF Precedes

(* The order is kept by a step that changes no queue.                      *)
LEMMA OrderKeptIfQuiet ==
  ASSUME Typed, OrderInv, [Next]_vars,
         UNCHANGED <<messages_, delayed_messages_, delayed_next_num_, readyAt, ran>>
  PROVE  OrderInv'
<1>1. Program' = Program
  BY ProgramStays
<1>2. now \in Nat /\ now' \in Nat /\ now <= now'
  <2>1. now' = now \/ now' = now + 1
    BY DEF Next, vars, MainCalls, MainReturns, Dispatch, TaskEnds, WorkerQuits, Visible, Tick
  <2> QED BY <2>1 DEF Typed, TypeOK
<1>3. /\ \A i \in 1..Len(ran) : ran[i].task \in Tasks /\ ran[i].at \in Nat
      /\ \A i \in 1..Len(messages_) : messages_[i] \in Tasks
      /\ \A d \in delayed_messages_ : d.task \in Tasks
      /\ readyAt \in [Tasks -> Nat]
  BY ElementOfSeq DEF Typed, TypeOK
<1>4. (RanInOrder /\ RanBeforeReady /\ RanBeforeDelayed /\ ReadyInOrder /\ ReadyBeforeDelayed
         /\ DelayedNumbered)'
  BY <1>1 DEF OrderInv, RanInOrder, RanBeforeReady, RanBeforeDelayed, ReadyInOrder,
              ReadyBeforeDelayed, DelayedNumbered
<1>5. RanOnTime'
  BY <1>2, <1>3, PostedKept DEF OrderInv, RanOnTime
<1>6. ReadyOnTime'
  BY <1>2, <1>3, PostedKept DEF OrderInv, ReadyOnTime
<1>7. DelayedOnTime'
  BY <1>3, PostedKept DEF OrderInv, DelayedOnTime
<1> QED BY <1>4, <1>5, <1>6, <1>7 DEF OrderInv

(* What is in the queues and in the history are posted tasks.              *)
LEMMA Queued ==
  ASSUME Typed, OrderInv
  PROVE  /\ Len(ran) \in Nat /\ Len(messages_) \in Nat
         /\ \A i \in 1..Len(ran) :
              ran[i].task \in Tasks /\ ran[i].at \in Nat /\ Posted(ran[i].task)
         /\ \A i \in 1..Len(messages_) : messages_[i] \in Tasks /\ Posted(messages_[i])
         /\ \A d \in delayed_messages_ :
              d.task \in Tasks /\ d.run_time \in Nat /\ d.num \in Nat /\ Posted(d.task)
         /\ \A t \in Tasks : readyAt[t] \in Nat
<1>1. /\ ran \in Seq([task : Tasks, at : Nat])
      /\ messages_ \in Seq(Tasks)
      /\ delayed_messages_ \subseteq [task : Tasks, run_time : Nat, num : Nat]
      /\ readyAt \in [Tasks -> Nat]
  BY DEF Typed, TypeOK
<1>2. \A i \in 1..Len(ran) : ran[i] \in [task : Tasks, at : Nat]
  BY <1>1, ElementOfSeq
<1>3. \A i \in 1..Len(messages_) : messages_[i] \in Tasks
  BY <1>1, ElementOfSeq
<1> QED BY <1>1, <1>2, <1>3 DEF OrderInv, RanOnTime, ReadyOnTime, DelayedOnTime

(* The order is kept when a task is posted.                                *)
LEMMA OrderKeptByPost ==
  ASSUME Typed, OrderInv, MainCalls, NEW c, c = Program[pc], PostsNow(c)
  PROVE  OrderInv'
<1>1. /\ Program' = Program /\ now' = now /\ ran' = ran
      /\ delayed_messages_' = delayed_messages_
      /\ delayed_next_num_' = delayed_next_num_
  BY CallPosts DEF PostsNow
<1>2. c.op \in Posts /\ c.op \notin Delayed /\ [Next]_vars /\ now \in Nat
  BY DEF PostsNow, Next, Typed, TypeOK
<1>3. /\ c \in Tasks
      /\ Posted(c)'
      /\ readyAt'[c] = now
      /\ \A t \in Tasks : Posted(t) => t # c /\ readyAt'[t] = readyAt[t] /\ Posted(t)'
  BY <1>2, PostedIsNew, PostedKept
<1>4. \A t \in Tasks : Posted(t) /\ (t.op \in Delayed => readyAt[t] <= now) =>
          Precedes(Program, readyAt', t, c)
  BY <1>2, PostedComesLast
<1>5. \A t, u \in Tasks : Posted(t) /\ Posted(u) /\ Precedes(Program, readyAt, t, u) =>
          Precedes(Program, readyAt', t, u)
  BY <1>3, OrderOfOthers
<1>6. /\ Len(messages_') = Len(messages_) + 1
      /\ \A i \in 1..Len(messages_) : messages_'[i] = messages_[i]
      /\ messages_'[Len(messages_) + 1] = c
  BY <1>3, RanAfter DEF PostsNow, Typed, TypeOK
<1>7. \A i \in 1..Len(messages_') : \/ i \in 1..Len(messages_) /\ messages_'[i] = messages_[i]
                                    \/ i = Len(messages_) + 1 /\ messages_'[i] = c
  BY <1>6, Queued
<1>8. RanInOrder'
  BY <1>1, <1>5, Queued DEF OrderInv, RanInOrder
<1>9. RanBeforeReady'
  <2> SUFFICES ASSUME NEW i \in 1..Len(ran), NEW j \in 1..Len(messages_')
               PROVE  Precedes(Program, readyAt', ran[i].task, messages_'[j])
    BY <1>1 DEF RanBeforeReady
  <2>1. CASE j \in 1..Len(messages_) /\ messages_'[j] = messages_[j]
    BY <1>5, <2>1, Queued DEF OrderInv, RanBeforeReady
  <2>2. CASE messages_'[j] = c
    <3>1. readyAt[ran[i].task] <= now
      BY <1>2, Queued DEF OrderInv, RanOnTime
    <3> QED BY <1>4, <2>2, <3>1, Queued
  <2> QED BY <1>7, <2>1, <2>2
<1>10. RanBeforeDelayed'
  BY <1>1, <1>5, Queued DEF OrderInv, RanBeforeDelayed
<1>11. ReadyInOrder'
  <2> SUFFICES ASSUME NEW i \in 1..Len(messages_'), NEW j \in 1..Len(messages_'), i < j
               PROVE  Precedes(Program, readyAt', messages_'[i], messages_'[j])
    BY <1>1 DEF ReadyInOrder
  <2>1. i \in 1..Len(messages_) /\ messages_'[i] = messages_[i]
    BY <1>6, <1>7, Queued
  <2>2. CASE j \in 1..Len(messages_) /\ messages_'[j] = messages_[j]
    BY <1>5, <2>1, <2>2, Queued DEF OrderInv, ReadyInOrder
  <2>3. CASE messages_'[j] = c
    <3>1. readyAt[messages_[i]] <= now
      BY <2>1 DEF OrderInv, ReadyOnTime
    <3> QED BY <1>4, <2>1, <2>3, <3>1, Queued
  <2> QED BY <1>7, <2>2, <2>3
<1>12. ReadyBeforeDelayed'
  <2> SUFFICES ASSUME NEW i \in 1..Len(messages_'), NEW d \in delayed_messages_
               PROVE  Precedes(Program, readyAt', messages_'[i], d.task)
    BY <1>1 DEF ReadyBeforeDelayed
  <2>1. CASE i \in 1..Len(messages_) /\ messages_'[i] = messages_[i]
    BY <1>5, <2>1, Queued DEF OrderInv, ReadyBeforeDelayed
  <2>2. CASE messages_'[i] = c
    BY <1>2, <2>2 DEF OrderInv, DelayedOnTime, Precedes
  <2> QED BY <1>7, <2>1, <2>2
<1>13. RanOnTime'
  BY <1>1, <1>3, Queued DEF OrderInv, RanOnTime
<1>14. ReadyOnTime'
  BY <1>1, <1>2, <1>3, <1>7, Queued DEF OrderInv, ReadyOnTime
<1>15. DelayedOnTime'
  BY <1>1, <1>3, Queued DEF OrderInv, DelayedOnTime
<1>16. DelayedNumbered'
  BY <1>1 DEF OrderInv, DelayedNumbered
<1> QED BY <1>8, <1>9, <1>10, <1>11, <1>12, <1>13, <1>14, <1>15, <1>16 DEF OrderInv

(* The order is kept when a delayed task is posted.                        *)
LEMMA OrderKeptByDelayedPost ==
  ASSUME Typed, OrderInv, MainCalls, NEW c, c = Program[pc], PostsLater(c)
  PROVE  OrderInv'
<1>1. /\ Program' = Program /\ now' = now /\ ran' = ran /\ messages_' = messages_
  BY CallPosts DEF PostsLater
<1>2. c.op \in Posts /\ c.op \in Delayed /\ [Next]_vars /\ now \in Nat
      /\ delayed_next_num_ \in Nat
  BY DEF PostsLater, Next, Typed, TypeOK, Posts, Delayed
<1>3. /\ c \in Tasks
      /\ Posted(c)'
      /\ readyAt'[c] = now + c.ms
      /\ \A t \in Tasks : Posted(t) =>
           /\ t # c /\ readyAt'[t] = readyAt[t] /\ Posted(t)'
           /\ Pos(Program, t) < Pos(Program, c)
  BY <1>2, PostedIsNew, PostedKept
<1>4. \A t \in Tasks : Posted(t) /\ (t.op \in Delayed => readyAt[t] <= now) =>
          Precedes(Program, readyAt', t, c)
  BY <1>2, PostedComesLast
<1>5. \A t, u \in Tasks : Posted(t) /\ Posted(u) /\ Precedes(Program, readyAt, t, u) =>
          Precedes(Program, readyAt', t, u)
  BY <1>3, OrderOfOthers
<1>6. \A d \in delayed_messages_' :
        \/ d \in delayed_messages_
        \/ d.task = c /\ d.run_time = now + c.ms /\ d.num = delayed_next_num_
  BY DEF PostsLater
<1>7. delayed_next_num_' = delayed_next_num_ + 1
  BY DEF PostsLater
<1>8. RanInOrder'
  BY <1>1, <1>5, Queued DEF OrderInv, RanInOrder
<1>9. RanBeforeReady'
  BY <1>1, <1>5, Queued DEF OrderInv, RanBeforeReady
<1>10. RanBeforeDelayed'
  <2> SUFFICES ASSUME NEW i \in 1..Len(ran), NEW d \in delayed_messages_'
               PROVE  Precedes(Program, readyAt', ran[i].task, d.task)
    BY <1>1 DEF RanBeforeDelayed
  <2>1. CASE d \in delayed_messages_
    BY <1>5, <2>1, Queued DEF OrderInv, RanBeforeDelayed
  <2>2. CASE d.task = c
    <3>1. readyAt[ran[i].task] <= now
      BY <1>2, Queued DEF OrderInv, RanOnTime
    <3> QED BY <1>4, <2>2, <3>1, Queued
  <2> QED BY <1>6, <2>1, <2>2
<1>11. ReadyInOrder'
  BY <1>1, <1>5, Queued DEF OrderInv, ReadyInOrder
<1>12. ReadyBeforeDelayed'
  <2> SUFFICES ASSUME NEW i \in 1..Len(messages_), NEW d \in delayed_messages_'
               PROVE  Precedes(Program, readyAt', messages_[i], d.task)
    BY <1>1 DEF ReadyBeforeDelayed
  <2>1. CASE d \in delayed_messages_
    BY <1>5, <2>1, Queued DEF OrderInv, ReadyBeforeDelayed
  <2>2. CASE d.task = c
    <3>1. readyAt[messages_[i]] <= now
      BY DEF OrderInv, ReadyOnTime
    <3> QED BY <1>4, <2>2, <3>1, Queued
  <2> QED BY <1>6, <2>1, <2>2
<1>13. RanOnTime'
  BY <1>1, <1>3, Queued DEF OrderInv, RanOnTime
<1>14. ReadyOnTime'
  BY <1>1, <1>3, Queued DEF OrderInv, ReadyOnTime
<1>15. DelayedOnTime'
  <2> SUFFICES ASSUME NEW d \in delayed_messages_'
               PROVE  /\ d.task.op \in Delayed
                      /\ Posted(d.task)'
                      /\ d.run_time = readyAt'[d.task]
                      /\ d.num < delayed_next_num_'
    BY DEF DelayedOnTime
  <2>1. CASE d \in delayed_messages_
    BY <1>2, <1>3, <1>7, <2>1, Queued DEF OrderInv, DelayedOnTime
  <2>2. CASE d.task = c /\ d.run_time = now + c.ms /\ d.num = delayed_next_num_
    BY <1>2, <1>3, <1>7, <2>2
  <2> QED BY <1>6, <2>1, <2>2
<1>16. DelayedNumbered'
  <2> SUFFICES ASSUME NEW d \in delayed_messages_', NEW e \in delayed_messages_', d.num < e.num
               PROVE  Pos(Program, d.task) < Pos(Program, e.task)
    BY <1>1 DEF DelayedNumbered
  <2>1. CASE d \in delayed_messages_ /\ e \in delayed_messages_
    BY <2>1 DEF OrderInv, DelayedNumbered
  <2>2. CASE d \in delayed_messages_ /\ e.task = c
    BY <1>3, <2>2, Queued
  <2>3. CASE d.num = delayed_next_num_
    <3>1. e.num = delayed_next_num_ \/ (e.num \in Nat /\ e.num < delayed_next_num_)
      BY <1>6, Queued DEF OrderInv, DelayedOnTime
    <3> QED BY <1>2, <2>3, <3>1
  <2> QED BY <1>6, <2>1, <2>2, <2>3
<1> QED BY <1>8, <1>9, <1>10, <1>11, <1>12, <1>13, <1>14, <1>15, <1>16 DEF OrderInv

(* The line that Dispatch takes from is in order: it comes after what has  *)
(* run and before what stays delayed, and everything in it is due.         *)
LEMMA LineInOrder ==
  ASSUME Typed, OrderInv, NEW ready, NEW due, LinesUp(ready, due)
  PROVE  /\ Len(ready) \in Nat
         /\ \A i \in 1..Len(ready) : ready[i] \in Tasks /\ Posted(ready[i]) /\ readyAt[ready[i]] <= now
         /\ \A i \in 1..Len(ran), j \in 1..Len(ready) :
              Precedes(Program, readyAt, ran[i].task, ready[j])
         /\ \A i, j \in 1..Len(ready) :
              i < j => Precedes(Program, readyAt, ready[i], ready[j])
         /\ \A i \in 1..Len(ready), d \in delayed_messages_ \ Due :
              Precedes(Program, readyAt, ready[i], d.task)
<1>1. now \in Nat /\ Len(messages_) \in Nat /\ Cardinality(Due) \in Nat /\ Len(ready) \in Nat
  BY Queued DEF Typed, TypeOK, LinesUp
<1>2. \A k \in 1..Cardinality(Due) : due[k] \in delayed_messages_ /\ due[k].run_time <= now
  BY DEF LinesUp, DueInOrder, Due
<1>3. \A i \in 1..Len(ready) :
        \/ i <= Len(messages_) /\ i \in 1..Len(messages_) /\ ready[i] = messages_[i]
        \/ /\ i > Len(messages_)
           /\ (i - Len(messages_)) \in 1..Cardinality(Due)
           /\ ready[i] = due[i - Len(messages_)].task
  BY <1>1 DEF LinesUp
<1>4. \A i \in 1..Len(ready) : ready[i] \in Tasks /\ Posted(ready[i]) /\ readyAt[ready[i]] <= now
  BY <1>2, <1>3, Queued DEF OrderInv, ReadyOnTime, DelayedOnTime
<1>5. \A i \in 1..Len(ran), j \in 1..Len(ready) :
        Precedes(Program, readyAt, ran[i].task, ready[j])
  BY <1>2, <1>3 DEF OrderInv, RanBeforeReady, RanBeforeDelayed
<1>6. ASSUME NEW i \in 1..Len(ready), NEW j \in 1..Len(ready), i < j
      PROVE  Precedes(Program, readyAt, ready[i], ready[j])
  <2>1. CASE j <= Len(messages_)
    BY <1>1, <1>3, <1>6, <2>1 DEF OrderInv, ReadyInOrder
  <2>2. CASE i <= Len(messages_) /\ j > Len(messages_)
    BY <1>1, <1>2, <1>3, <2>2 DEF OrderInv, ReadyBeforeDelayed
  <2>3. CASE i > Len(messages_) /\ j > Len(messages_)
    <3> DEFINE k == i - Len(messages_)
               l == j - Len(messages_)
               d == due[k]
               e == due[l]
    <3>1. /\ k \in 1..Cardinality(Due) /\ l \in 1..Cardinality(Due) /\ k < l
          /\ ready[i] = d.task /\ ready[j] = e.task
      BY <1>1, <1>3, <1>6, <2>3
    <3>2. Before(d, e) /\ d \in delayed_messages_ /\ e \in delayed_messages_
      BY <1>2, <3>1 DEF LinesUp, DueInOrder
    <3>3. /\ d.run_time = readyAt[d.task] /\ e.run_time = readyAt[e.task]
          /\ d.task.op \in Delayed /\ e.task.op \in Delayed
          /\ d.num < e.num => Pos(Program, d.task) < Pos(Program, e.task)
      BY <3>2 DEF OrderInv, DelayedOnTime, DelayedNumbered
    <3>4. /\ d.run_time \in Nat /\ e.run_time \in Nat
          /\ d.task \in Tasks /\ e.task \in Tasks
      BY <3>2, Queued
    <3>5. Pos(Program, d.task) \in Nat /\ Pos(Program, e.task) \in Nat
      <4>1. WellFormed(Program) /\ TypeOK
        BY ProgramsWellFormed DEF Typed, TypeOK
      <4>2. Len(Program) \in Nat
        BY <4>1 DEF WellFormed
      <4> QED BY <3>4, <4>1, <4>2, TasksAreCalls
    <3> HIDE DEF k, l, d, e
    <3>6. Precedes(Program, readyAt, d.task, e.task)
      BY <3>2, <3>3, <3>4, <3>5 DEF Precedes, Before
    <3> QED BY <3>1, <3>6
  <2> QED BY <1>1, <1>6, <2>1, <2>2, <2>3
<1>7. ASSUME NEW i \in 1..Len(ready), NEW d \in delayed_messages_ \ Due
      PROVE  Precedes(Program, readyAt, ready[i], d.task)
  <2>1. CASE i <= Len(messages_)
    BY <1>1, <1>3, <2>1 DEF OrderInv, ReadyBeforeDelayed
  <2>2. CASE i > Len(messages_)
    <3>1. readyAt[ready[i]] <= now /\ ready[i] \in Tasks
      BY <1>4
    <3>2. ready[i].op \in Delayed
      BY <1>1, <1>2, <1>3, <2>2 DEF OrderInv, DelayedOnTime
    <3>3. d.run_time = readyAt[d.task] /\ d.task.op \in Delayed
      BY DEF OrderInv, DelayedOnTime
    <3>4. d.run_time > now
      BY <1>1, Queued DEF Due
    <3>5. readyAt[ready[i]] \in Nat /\ readyAt[d.task] \in Nat
      BY <3>1, Queued
    <3> QED BY <1>1, <3>1, <3>2, <3>3, <3>4, <3>5 DEF Precedes
  <2> QED BY <1>1, <2>1, <2>2
<1> QED BY <1>1, <1>4, <1>5, <1>6, <1>7

(* How the history grows by a step of Dispatch.                            *)
LEMMA HistoryGrows ==
  ASSUME Typed, OrderInv, NEW ready, NEW due, LinesUp(ready, due), Takes(ready)
  PROVE  /\ ready[1] \in Tasks
         /\ Len(ran') \in Nat /\ Len(ran) \in Nat
         /\ \A i \in 1..Len(ran) : i \in 1..Len(ran') /\ ran'[i] = ran[i]
         /\ \A i \in 1..Len(ran') :
              \/ i \in 1..Len(ran) /\ ran'[i] = ran[i]
              \/ i > Len(ran) /\ i = Len(ran') /\ ran'[i].task = ready[1] /\ ran'[i].at = now
         /\ ready[1] \notin skipped' => \E i \in 1..Len(ran') : ran'[i].task = ready[1]
         /\ skipped \subseteq skipped'
<1> DEFINE e == [task |-> ready[1], at |-> now]
<1>1. 1 \in 1..Len(ready) /\ ready[1] \in Tasks
  BY LineInOrder DEF LinesUp
<1>2. /\ e \in [task : Tasks, at : Nat]
      /\ e.task = ready[1] /\ e.at = now
      /\ ran \in Seq([task : Tasks, at : Nat])
  BY <1>1 DEF Typed, TypeOK
<1>3. /\ Len(ran) \in Nat
      /\ Len(Append(ran, e)) = Len(ran) + 1
      /\ \A i \in 1..Len(ran) : Append(ran, e)[i] = ran[i]
      /\ Append(ran, e)[Len(ran) + 1] = e
  BY <1>2, RanAfter
<1>4. \/ ran' = Append(ran, e) /\ skipped' = skipped
      \/ ran' = ran /\ skipped' = skipped \cup {ready[1]}
  BY DEF Takes
<1> HIDE DEF e
<1>5. CASE ran' = ran /\ skipped' = skipped \cup {ready[1]}
  BY <1>1, <1>3, <1>5
<1>6. CASE ran' = Append(ran, e) /\ skipped' = skipped
  <2>1. Len(ran') = Len(ran) + 1 /\ Len(ran) + 1 \in 1..Len(ran')
    BY <1>3, <1>6
  <2>2. ran'[Len(ran) + 1].task = ready[1] /\ ran'[Len(ran) + 1].at = now
    BY <1>2, <1>3, <1>6
  <2>3. \A i \in 1..Len(ran) : i \in 1..Len(ran') /\ ran'[i] = ran[i]
    BY <1>3, <1>6
  <2> QED BY <1>1, <1>3, <1>6, <2>1, <2>2, <2>3
<1> QED BY <1>4, <1>5, <1>6

(* The order is kept when a task is taken.                                 *)
LEMMA OrderKeptByDispatch ==
  ASSUME Typed, OrderInv, Dispatch
  PROVE  OrderInv'
<1>1. PICK ready, due : LinesUp(ready, due) /\ Takes(ready)
  BY DispatchTakes
<1>2. /\ UNCHANGED <<Program, pc, phase, readyAt, now, delayed_next_num_>>
      /\ delayed_messages_' = delayed_messages_ \ Due
      /\ now \in Nat
  BY DEF Dispatch, mainVars, Typed, TypeOK
<1>3. \A t \in Tasks : Posted(t)' <=> Posted(t)
  BY <1>2 DEF Posted
<1>4. /\ ready[1] \in Tasks
      /\ Len(ran') \in Nat /\ Len(ran) \in Nat
      /\ \A i \in 1..Len(ran') :
           \/ i \in 1..Len(ran) /\ ran'[i] = ran[i]
           \/ i > Len(ran) /\ i = Len(ran') /\ ran'[i].task = ready[1] /\ ran'[i].at = now
  BY <1>1, HistoryGrows
<1>5. /\ Len(ready) \in Nat /\ Len(ready) > 0
      /\ Len(messages_') = Len(ready) - 1
      /\ \A i \in 1..Len(messages_') : i + 1 \in 1..Len(ready) /\ messages_'[i] = ready[i + 1]
  BY <1>1, LineInOrder DEF LinesUp, Takes
<1>6. 1 \in 1..Len(ready)
  BY <1>5
<1>7. /\ \A i \in 1..Len(ready) :
           ready[i] \in Tasks /\ Posted(ready[i]) /\ readyAt[ready[i]] <= now
      /\ \A i \in 1..Len(ran), j \in 1..Len(ready) :
           Precedes(Program, readyAt, ran[i].task, ready[j])
      /\ \A i, j \in 1..Len(ready) : i < j => Precedes(Program, readyAt, ready[i], ready[j])
      /\ \A i \in 1..Len(ready), d \in delayed_messages_ \ Due :
           Precedes(Program, readyAt, ready[i], d.task)
  BY <1>1, LineInOrder
<1>8. RanInOrder'
  <2> SUFFICES ASSUME NEW i \in 1..Len(ran'), NEW j \in 1..Len(ran'), i < j
               PROVE  Precedes(Program, readyAt, ran'[i].task, ran'[j].task)
    BY <1>2 DEF RanInOrder
  <2>1. i \in 1..Len(ran) /\ ran'[i] = ran[i]
    BY <1>4
  <2>2. CASE j \in 1..Len(ran) /\ ran'[j] = ran[j]
    BY <2>1, <2>2 DEF OrderInv, RanInOrder
  <2>3. CASE ran'[j].task = ready[1]
    BY <1>6, <1>7, <2>1, <2>3
  <2> QED BY <1>4, <2>2, <2>3
<1>9. RanBeforeReady'
  <2> SUFFICES ASSUME NEW i \in 1..Len(ran'), NEW j \in 1..Len(messages_')
               PROVE  Precedes(Program, readyAt, ran'[i].task, messages_'[j])
    BY <1>2 DEF RanBeforeReady
  <2>1. CASE i \in 1..Len(ran) /\ ran'[i] = ran[i]
    BY <1>5, <1>7, <2>1
  <2>2. CASE ran'[i].task = ready[1]
    <3>1. j + 1 \in 1..Len(ready) /\ messages_'[j] = ready[j + 1] /\ 1 < j + 1
      BY <1>5
    <3> QED BY <1>6, <1>7, <2>2, <3>1
  <2> QED BY <1>4, <2>1, <2>2
<1>10. RanBeforeDelayed'
  <2> SUFFICES ASSUME NEW i \in 1..Len(ran'), NEW d \in delayed_messages_ \ Due
               PROVE  Precedes(Program, readyAt, ran'[i].task, d.task)
    BY <1>2 DEF RanBeforeDelayed
  <2>1. CASE i \in 1..Len(ran) /\ ran'[i] = ran[i]
    BY <2>1 DEF OrderInv, RanBeforeDelayed
  <2>2. CASE ran'[i].task = ready[1]
    BY <1>6, <1>7, <2>2
  <2> QED BY <1>4, <2>1, <2>2
<1>11. ReadyInOrder'
  <2> SUFFICES ASSUME NEW i \in 1..Len(messages_'), NEW j \in 1..Len(messages_'), i < j
               PROVE  Precedes(Program, readyAt, messages_'[i], messages_'[j])
    BY <1>2 DEF ReadyInOrder
  <2>1. /\ i + 1 \in 1..Len(ready) /\ j + 1 \in 1..Len(ready) /\ i + 1 < j + 1
        /\ messages_'[i] = ready[i + 1] /\ messages_'[j] = ready[j + 1]
    BY <1>5
  <2> QED BY <1>7, <2>1
<1>12. ReadyBeforeDelayed'
  BY <1>2, <1>5, <1>7 DEF ReadyBeforeDelayed
<1>13. RanOnTime'
  <2> SUFFICES ASSUME NEW i \in 1..Len(ran')
               PROVE  /\ Posted(ran[i].task)'
                      /\ readyAt[ran'[i].task] <= ran'[i].at
                      /\ ran'[i].at <= now
    BY <1>2 DEF RanOnTime
  <2>1. CASE i \in 1..Len(ran) /\ ran'[i] = ran[i]
    <3>1. Posted(ran[i].task) /\ readyAt[ran[i].task] <= ran[i].at /\ ran[i].at <= now
      BY <2>1 DEF OrderInv, RanOnTime
    <3>2. Posted(ran[i].task)'
      BY <1>2, <2>1, <3>1 DEF Posted
    <3> QED BY <2>1, <3>1, <3>2
  <2>2. CASE ran'[i].task = ready[1] /\ ran'[i].at = now
    <3>1. Posted(ready[1]) /\ readyAt[ready[1]] <= now
      BY <1>6, <1>7
    <3>2. Posted(ran[i].task)'
      BY <1>2, <2>2, <3>1 DEF Posted
    <3> QED BY <1>2, <2>2, <3>1, <3>2
  <2> QED BY <1>4, <2>1, <2>2
<1>14. ReadyOnTime'
  <2> SUFFICES ASSUME NEW i \in 1..Len(messages_')
               PROVE  Posted(messages_[i])' /\ readyAt[messages_'[i]] <= now
    BY <1>2 DEF ReadyOnTime
  <2>1. i + 1 \in 1..Len(ready) /\ messages_'[i] = ready[i + 1]
    BY <1>5
  <2>2. Posted(ready[i + 1]) /\ readyAt[ready[i + 1]] <= now
    BY <1>7, <2>1
  <2> QED BY <1>2, <2>1, <2>2 DEF Posted
<1>15. DelayedOnTime'
  BY <1>2, <1>3, Queued DEF OrderInv, DelayedOnTime
<1>16. DelayedNumbered'
  BY <1>2 DEF OrderInv, DelayedNumbered
<1> QED BY <1>8, <1>9, <1>10, <1>11, <1>12, <1>13, <1>14, <1>15, <1>16 DEF OrderInv

(* Every step keeps the order.                                             *)
LEMMA OrderKept ==
  ASSUME Typed, OrderInv, [Next]_vars
  PROVE  OrderInv'
<1>1. CASE MainCalls
  <2>1. CASE PostsNow(Program[pc])
    BY <1>1, <2>1, OrderKeptByPost
  <2>2. CASE PostsLater(Program[pc])
    BY <1>1, <2>2, OrderKeptByDelayedPost
  <2>3. CASE UNCHANGED <<messages_, delayed_messages_, delayed_next_num_, readyAt>>
    BY <1>1, <2>3, CallPosts, OrderKeptIfQuiet
  <2> QED BY <1>1, <2>1, <2>2, <2>3, CallPosts
<1>2. CASE Dispatch
  BY <1>2, OrderKeptByDispatch
<1>3. CASE WorkerQuits
  <2>1. /\ UNCHANGED <<Program, pc, phase, readyAt, now, ran>>
        /\ messages_' = <<>> /\ delayed_messages_' = {}
        /\ Len(messages_') = 0
    BY <1>3 DEF WorkerQuits, mainVars
  <2>2. RanInOrder' /\ RanBeforeReady' /\ RanBeforeDelayed' /\ ReadyInOrder'
        /\ ReadyBeforeDelayed' /\ ReadyOnTime' /\ DelayedOnTime' /\ DelayedNumbered'
    BY <2>1 DEF OrderInv, RanInOrder, RanBeforeReady, RanBeforeDelayed, ReadyInOrder,
                ReadyBeforeDelayed, ReadyOnTime, DelayedOnTime, DelayedNumbered
  <2>3. RanOnTime'
    BY <2>1 DEF OrderInv, RanOnTime, Posted
  <2> QED BY <2>2, <2>3 DEF OrderInv
<1>4. CASE ~MainCalls /\ ~Dispatch /\ ~WorkerQuits
  <2>1. UNCHANGED <<messages_, delayed_messages_, delayed_next_num_, readyAt, ran>>
    BY <1>4 DEF Next, vars, mainVars, queueVars, workerVars, MainReturns, TaskEnds, Visible, Tick
  <2> QED BY <2>1, OrderKeptIfQuiet
<1> QED BY <1>1, <1>2, <1>3, <1>4

(* The order implies the one the runs check.                               *)
LEMMA OrderImpliesInOrder ==
  ASSUME Typed, OrderInv
  PROVE  InOrder
<1>1. ran \in Seq([task : Tasks, at : Nat])
  BY DEF Typed
<1>2. Len(ran) \in Nat /\ DOMAIN ran = 1..Len(ran)
  BY <1>1, LenProperties
<1>3. \A t : IndexOf(t) = Pos(Program, t)
  BY DEF IndexOf, Pos
<1>4. \A i \in 1..Len(ran) : ran[i].at >= readyAt[ran[i].task]
  BY Queued DEF OrderInv, RanOnTime
<1>5. \A i \in 1..Len(ran) : \A j \in 1..(i - 1) :
        Precedes(Program, readyAt, ran[j].task, ran[i].task)
  <2> SUFFICES ASSUME NEW i \in 1..Len(ran), NEW j \in 1..(i - 1)
               PROVE  Precedes(Program, readyAt, ran[j].task, ran[i].task)
    OBVIOUS
  <2>1. j \in 1..Len(ran) /\ j < i
    BY <1>2
  <2> QED BY <2>1 DEF OrderInv, RanInOrder
<1> QED BY <1>2, <1>3, <1>4, <1>5 DEF InOrder, Precedes, IsDelayed

-----------------------------------------------------------------------------
(* The running task is the last one that was taken.                        *)
LEMMA CurrentKept ==
  ASSUME Typed, OrderInv, CurrentIsLast, [Next]_vars
  PROVE  CurrentIsLast'
<1>1. Program' = Program /\ Tasks' = Tasks
  BY ProgramStays
<1>2. CASE MainCalls
  <2>1. /\ UNCHANGED <<Program, worker, current, ran>>
        /\ \/ PostsNow(Program[pc])
           \/ PostsLater(Program[pc])
           \/ UNCHANGED <<messages_, delayed_messages_, delayed_next_num_, readyAt>>
    BY <1>2, CallPosts
  <2> SUFFICES ASSUME current # NoTask PROVE CurrentIsLast'
    BY <2>1 DEF CurrentIsLast, NoTask
  <2>2. /\ current \in Tasks /\ worker = "busy" /\ Posted(current)
        /\ \A i \in 1..Len(ran) :
             ran[i].task = current \/ Precedes(Program, readyAt, ran[i].task, current)
        /\ \A j \in 1..Len(messages_) : messages_[j] # current
        /\ \A d \in delayed_messages_ : d.task # current
    BY DEF CurrentIsLast
  <2>3. Posted(current)'
    <3>1. \A t \in Tasks : Posted(t) => Posted(t)'
      BY PostedKept
    <3> QED BY <2>1, <2>2, <3>1 DEF Posted
  <2>4. CASE UNCHANGED <<messages_, delayed_messages_, readyAt>>
    BY <1>1, <2>1, <2>2, <2>3, <2>4 DEF CurrentIsLast
  <2>5. CASE PostsNow(Program[pc]) \/ PostsLater(Program[pc])
    <3> DEFINE c == Program[pc]
    <3>1. c.op \in Posts
      BY <2>5 DEF PostsNow, PostsLater, Posts, Delayed
    <3>2. /\ c \in Tasks
          /\ \A t \in Tasks : Posted(t) => t # c /\ readyAt'[t] = readyAt[t]
      BY <1>2, <3>1, PostedIsNew
    <3>3. \A i \in 1..Len(ran) :
            ran[i].task = current \/ Precedes(Program, readyAt', ran[i].task, current)
      BY <2>2, <3>2, Queued, OrderOfOthers
    <3>4. \A j \in 1..Len(messages_') : messages_'[j] # current
      <4>1. CASE messages_' = messages_
        BY <2>2, <4>1
      <4>2. CASE messages_' = Append(messages_, c)
        <5>1. /\ Len(messages_') = Len(messages_) + 1
              /\ \A i \in 1..Len(messages_) : messages_'[i] = messages_[i]
              /\ messages_'[Len(messages_) + 1] = c
          BY <3>2, <4>2, RanAfter DEF Typed, TypeOK
        <5> QED BY <2>2, <3>2, <5>1, Queued
      <4> QED BY <2>5, <4>1, <4>2 DEF PostsNow, PostsLater
    <3>5. \A d \in delayed_messages_' : d.task # current
      BY <2>2, <2>5, <3>2 DEF PostsNow, PostsLater
    <3> QED BY <1>1, <2>1, <2>2, <2>3, <3>3, <3>4, <3>5 DEF CurrentIsLast
  <2> QED BY <2>1, <2>4, <2>5
<1>3. CASE Dispatch
  <2>1. PICK ready, due : LinesUp(ready, due) /\ Takes(ready)
    BY <1>3, DispatchTakes
  <2>2. /\ UNCHANGED <<Program, pc, phase, readyAt>>
        /\ delayed_messages_' = delayed_messages_ \ Due
        /\ worker' = "busy"
        /\ current' = ready[1]
    BY <1>3, <2>1 DEF Dispatch, mainVars, Takes
  <2>3. /\ ready[1] \in Tasks
        /\ \A i \in 1..Len(ran') :
              (i \in 1..Len(ran) /\ ran'[i] = ran[i]) \/ ran'[i].task = ready[1]
    BY <2>1, HistoryGrows
  <2>4. /\ Len(ready) \in Nat /\ 1 \in 1..Len(ready)
        /\ Posted(ready[1])
        /\ \A i \in 1..Len(ran), j \in 1..Len(ready) :
             Precedes(Program, readyAt, ran[i].task, ready[j])
        /\ \A i, j \in 1..Len(ready) : i < j => Precedes(Program, readyAt, ready[i], ready[j])
        /\ \A i \in 1..Len(ready), d \in delayed_messages_ \ Due :
             Precedes(Program, readyAt, ready[i], d.task)
    <3>1. Len(ready) \in Nat /\ 1 \in 1..Len(ready)
      BY <2>1, LineInOrder DEF LinesUp
    <3> QED BY <2>1, <3>1, LineInOrder
  <2>5. \A i \in 1..Len(ran') :
          ran'[i].task = current' \/ Precedes(Program', readyAt', ran'[i].task, current')
    BY <2>2, <2>3, <2>4
  <2>6. \A j \in 1..Len(messages_') : messages_'[j] # current'
    <3> SUFFICES ASSUME NEW j \in 1..Len(messages_') PROVE messages_'[j] # ready[1]
      BY <2>2
    <3>1. j + 1 \in 1..Len(ready) /\ messages_'[j] = ready[j + 1] /\ 1 < j + 1
      BY <2>1, <2>4 DEF Takes
    <3>2. Precedes(Program, readyAt, ready[1], ready[j + 1])
      BY <2>4, <3>1
    <3> QED BY <3>1, <3>2 DEF Precedes
  <2>7. \A d \in delayed_messages_' : d.task # current'
    BY <2>2, <2>4 DEF Precedes
  <2>8. Posted(current)'
    BY <2>2, <2>4 DEF Posted
  <2> QED BY <1>1, <2>2, <2>3, <2>5, <2>6, <2>7, <2>8 DEF CurrentIsLast
<1>4. CASE TaskEnds
  <2>1. UNCHANGED <<Program, pc, phase, readyAt, ran, messages_, delayed_messages_>>
    BY <1>4 DEF TaskEnds, mainVars, queueVars
  <2>2. current' = NoTask \/ UNCHANGED <<worker, current>>
    BY <1>4 DEF TaskEnds, Iterate
  <2>3. CASE current' = NoTask
    BY <2>3 DEF CurrentIsLast, NoTask
  <2>4. CASE UNCHANGED <<worker, current>>
    BY <1>1, <2>1, <2>4 DEF CurrentIsLast, Posted, NoTask
  <2> QED BY <2>2, <2>3, <2>4
<1>5. CASE WorkerQuits
  <2>1. current' = current /\ worker = "idle"
    BY <1>5 DEF WorkerQuits
  <2> QED BY <2>1 DEF CurrentIsLast, NoTask
<1>6. CASE ~MainCalls /\ ~Dispatch /\ ~TaskEnds /\ ~WorkerQuits
  <2>1. UNCHANGED <<Program, readyAt, ran, messages_, delayed_messages_, worker, current>>
    BY <1>6 DEF Next, vars, mainVars, queueVars, workerVars, MainReturns, Visible, Tick
  <2>2. \A t \in Tasks : Posted(t) => Posted(t)'
    BY PostedKept
  <2>3. current \in Tasks /\ Posted(current) => Posted(current)'
    BY <2>1, <2>2 DEF Posted
  <2> QED BY <1>1, <2>1, <2>3 DEF CurrentIsLast, NoTask
<1> QED BY <1>2, <1>3, <1>4, <1>5, <1>6

(* What has been taken stays taken.                                        *)
LEMMA TakenKept ==
  ASSUME Typed, OrderInv, [Next]_vars
  PROVE  RanTasks \subseteq RanTasks' /\ skipped \subseteq skipped'
<1>1. CASE ~Dispatch
  BY <1>1, OnlyDispatchRuns DEF RanTasks
<1>2. CASE Dispatch
  <2>1. PICK ready, due : LinesUp(ready, due) /\ Takes(ready)
    BY <1>2, DispatchTakes
  <2>2. /\ \A i \in 1..Len(ran) : i \in 1..Len(ran') /\ ran'[i] = ran[i]
        /\ skipped \subseteq skipped'
    BY <2>1, HistoryGrows
  <2>3. DOMAIN ran = 1..Len(ran) /\ DOMAIN ran' = 1..Len(ran')
    <3>1. Typed'
      BY TypesKept
    <3> QED BY <3>1, LenProperties DEF Typed
  <2> QED BY <2>2, <2>3 DEF RanTasks
<1> QED BY <1>1, <1>2

(* A task posted without delay has been taken or waits.                    *)
LEMMA TakenOrReadyKept ==
  ASSUME Typed, OrderInv, TakenOrReady, [Next]_vars
  PROVE  TakenOrReady'
<1>1. /\ Program' = Program /\ WellFormed(Program) /\ Len(Program) \in Nat
      /\ RanTasks \subseteq RanTasks' /\ skipped \subseteq skipped'
  BY ProgramStays, TakenKept
<1> SUFFICES ASSUME Program # TaskQueueDemo, NEW i \in 1..Len(Program), NEW t, t = Program[i],
                    t.op \in Posts \ Delayed, Posted(t)'
             PROVE  \/ t \in RanTasks' \cup skipped'
                    \/ \E j \in 1..Len(messages_') : messages_'[j] = t
  <2>1. \A k \in 1..Len(Program) : Posted(Program[k])' => Pos(Program, Program[k]) < pc'
              \/ (Pos(Program, Program[k]) = pc' /\ phase' = "inside")
    BY <1>1 DEF Posted
  <2> QED BY <1>1 DEF TakenOrReady, TaskQueueDemo, Call
<1>2. t \in Tasks /\ Pos(Program, t) = i
  BY <1>1, TasksAreCalls DEF Typed
<1>3. Posted(t) => t \in RanTasks \cup skipped \/ \E j \in 1..Len(messages_) : messages_[j] = t
  BY DEF TakenOrReady
<1>4. SUFFICES ASSUME t \notin RanTasks' \cup skipped'
               PROVE  \E j \in 1..Len(messages_') : messages_'[j] = t
  OBVIOUS
<1>5. Posted(t) => \E j \in 1..Len(messages_) : messages_[j] = t
  BY <1>1, <1>3, <1>4
<1>6. Len(messages_) \in Nat /\ pc \in Nat
  BY Queued DEF Typed, TypeOK
<1>7. CASE MainCalls
  <2>1. /\ phase = "call"
        /\ (pc' = pc + 1 /\ phase' = "call") \/ (pc' = pc /\ phase' = "inside")
        /\ \/ PostsNow(Program[pc])
           \/ PostsLater(Program[pc])
           \/ /\ Program[pc].op \notin Posts
              /\ UNCHANGED <<messages_, delayed_messages_, delayed_next_num_, readyAt>>
    BY <1>7, CallPosts
  <2>2. Posted(t) \/ i = pc
    <3>1. i < pc' \/ (i = pc' /\ phase' = "inside")
      BY <1>1, <1>2 DEF Posted
    <3>2. Posted(t) <=> i < pc
      BY <1>2, <2>1 DEF Posted
    <3> QED BY <1>1, <1>6, <2>1, <3>1, <3>2
  <2>3. CASE PostsNow(Program[pc])
    <3>1. Program[pc] \in Tasks
      BY <1>7, <2>3, PostedIsNew DEF PostsNow
    <3>2. /\ Len(messages_') = Len(messages_) + 1
          /\ \A k \in 1..Len(messages_) : messages_'[k] = messages_[k]
          /\ messages_'[Len(messages_) + 1] = Program[pc]
      BY <2>3, <3>1, RanAfter DEF PostsNow, Typed, TypeOK
    <3>3. \A k \in 1..Len(messages_) : k \in 1..Len(messages_')
      BY <1>6, <3>2
    <3>4. Len(messages_) + 1 \in 1..Len(messages_')
      BY <1>6, <3>2
    <3> QED BY <1>5, <2>2, <3>2, <3>3, <3>4
  <2>4. CASE PostsLater(Program[pc])
    BY <1>5, <2>2, <2>4 DEF PostsLater
  <2>5. CASE Program[pc].op \notin Posts /\ messages_' = messages_
    BY <1>5, <2>2, <2>5
  <2> QED BY <2>1, <2>3, <2>4, <2>5
<1>8. CASE Dispatch
  <2>1. PICK ready, due : LinesUp(ready, due) /\ Takes(ready)
    BY <1>8, DispatchTakes
  <2>2. Posted(t)
    BY <1>8 DEF Dispatch, mainVars, Posted
  <2>3. PICK j \in 1..Len(messages_) : messages_[j] = t
    BY <1>5, <2>2
  <2>4. /\ Len(ready) \in Nat /\ Len(ready) > 0 /\ j \in 1..Len(ready) /\ ready[j] = t
    BY <1>6, <2>1, <2>3, LineInOrder DEF LinesUp
  <2>5. ready[1] \in RanTasks' \cup skipped'
    <3>1. ready[1] \in skipped' \/ \E k \in 1..Len(ran') : ran'[k].task = ready[1]
      BY <2>1, HistoryGrows
    <3>2. DOMAIN ran' = 1..Len(ran')
      BY TypesKept, LenProperties DEF Typed
    <3> QED BY <3>1, <3>2 DEF RanTasks
  <2>6. j # 1
    BY <1>4, <2>4, <2>5
  <2>7. /\ j - 1 \in 1..Len(messages_')
        /\ messages_'[j - 1] = t
    BY <1>6, <2>1, <2>4, <2>6 DEF Takes
  <2> QED BY <2>7
<1>9. CASE WorkerQuits
  <2>1. Posted(t) /\ messages_ = <<>>
    BY <1>9 DEF WorkerQuits, mainVars, Posted, QuitsNow, DropsReady, HasReady
  <2> QED BY <1>5, <2>1
<1>10. CASE MainReturns
  <2>1. messages_' = messages_
    BY <1>10 DEF MainReturns, queueVars
  <2>2. Posted(t)
    BY <1>1, <1>2, <1>6, <1>10 DEF MainReturns, Returns, Posted
  <2> QED BY <1>5, <2>1, <2>2
<1>11. CASE ~MainCalls /\ ~MainReturns /\ ~Dispatch /\ ~WorkerQuits
  <2>1. UNCHANGED <<messages_, Program, pc, phase>>
    BY <1>11 DEF Next, vars, mainVars, queueVars, TaskEnds, Visible, Tick
  <2> QED BY <1>5, <2>1 DEF Posted
<1> QED BY <1>7, <1>8, <1>9, <1>10, <1>11

(* An Invoke that returned has run.                                        *)
LEMMA InvokeReturnedKept ==
  ASSUME Typed, OrderInv, CurrentIsLast, InvokeReturned, [Next]_vars
  PROVE  InvokeReturned'
<1>1. /\ Program' = Program /\ WellFormed(Program) /\ Len(Program) \in Nat
      /\ RanTasks \subseteq RanTasks'
  BY ProgramStays, TakenKept
<1> SUFFICES ASSUME NEW i \in 1..Len(Program), NEW t, t = Program[i], t.op = "Invoke", i < pc'
             PROVE  t \in RanTasks' /\ current' # t
  BY <1>1 DEF InvokeReturned
<1>2. t \in Tasks /\ pc \in Nat
  BY <1>1, TasksAreCalls DEF Typed, TypeOK, Posts
<1>3. i < pc => t \in RanTasks /\ current # t
  BY DEF InvokeReturned
<1>4. CASE MainCalls
  <2>1. current' = current /\ (pc' = pc \/ (pc' = pc + 1 /\ Program[pc].op # "Invoke"))
    BY <1>4, CallPosts
  <2>2. i < pc
    BY <1>1, <1>2, <2>1
  <2> QED BY <1>1, <1>3, <2>1, <2>2
<1>5. CASE MainReturns
  <2>1. current' = current /\ pc' = pc + 1 /\ CanReturn(Program[pc])
    BY <1>5 DEF MainReturns, Returns, workerVars
  <2>2. i < pc \/ i = pc
    BY <1>1, <1>2, <2>1
  <2>3. CASE i = pc
    BY <1>1, <2>1, <2>3 DEF CanReturn
  <2> QED BY <1>1, <1>3, <2>1, <2>2, <2>3
<1>6. CASE Dispatch
  <2>1. PICK ready, due : LinesUp(ready, due) /\ Takes(ready)
    BY <1>6, DispatchTakes
  <2>2. pc' = pc /\ current' = ready[1]
    BY <1>6, <2>1 DEF Dispatch, mainVars, Takes
  <2>3. \A k \in 1..Len(ran) : ran[k].task # ready[1]
    <3>1. Len(ready) \in Nat /\ 1 \in 1..Len(ready)
      BY <2>1, LineInOrder DEF LinesUp
    <3>2. \A k \in 1..Len(ran) : Precedes(Program, readyAt, ran[k].task, ready[1])
      BY <2>1, <3>1, LineInOrder
    <3> QED BY <3>2 DEF Precedes
  <2>4. DOMAIN ran = 1..Len(ran)
    BY LenProperties DEF Typed
  <2>5. ready[1] \notin RanTasks
    BY <2>3, <2>4 DEF RanTasks
  <2> QED BY <1>1, <1>3, <2>2, <2>5
<1>7. CASE ~MainCalls /\ ~MainReturns /\ ~Dispatch
  <2>1. pc' = pc /\ (current' = current \/ current' = NoTask)
    BY <1>7 DEF Next, vars, mainVars, workerVars, TaskEnds, Iterate, WorkerQuits, Visible, Tick
  <2>2. t # NoTask
    BY DEF NoTask, Call
  <2> QED BY <1>1, <1>3, <2>1, <2>2
<1> QED BY <1>4, <1>5, <1>6, <1>7

(* The barrier follows: what was posted before the Invoke without delay    *)
(* cannot be behind it in the queue, nor be taken after it.                *)
LEMMA BarrierHolds ==
  ASSUME Typed, OrderInv, BarrierInv
  PROVE  InvokeIsABarrier
<1>1. WellFormed(Program) /\ Len(Program) \in Nat /\ DOMAIN Program = 1..Len(Program)
  <2>1. WellFormed(Program)
    BY ProgramsWellFormed DEF Typed, TypeOK
  <2> QED BY <2>1 DEF WellFormed
<1>2. DOMAIN ran = 1..Len(ran) /\ pc \in Nat
  BY LenProperties DEF Typed, TypeOK
<1> SUFFICES ASSUME NEW i \in 1..Len(Program), Program[i].op = "Invoke", pc > i,
                    NEW j \in 1..i, Program[j].op \in Posts \ Delayed
             PROVE  Program[j] \in RanTasks \cup skipped /\ current # Program[j]
  BY <1>1 DEF InvokeIsABarrier
<1>3. j \in 1..Len(Program) /\ j <= i
  BY <1>1
<1>4. /\ Program[j] \in Tasks /\ Pos(Program, Program[j]) = j
      /\ Program[i] \in Tasks /\ Pos(Program, Program[i]) = i
      /\ Program[i].op \notin Delayed
  BY <1>1, <1>3, TasksAreCalls DEF Typed, Posts, Delayed
<1>5. Program[i] \in RanTasks /\ current # Program[i]
  BY <1>2 DEF BarrierInv, InvokeReturned
<1>6. PICK k \in 1..Len(ran) : ran[k].task = Program[i]
  BY <1>2, <1>5 DEF RanTasks
<1>7. ~Precedes(Program, readyAt, Program[i], Program[j])
  BY <1>3, <1>4 DEF Precedes
<1>8. Posted(Program[j])
  BY <1>2, <1>3, <1>4 DEF Posted
<1>9. Program # TaskQueueDemo
  BY <1>1 DEF WellFormed
<1>10. \A l \in 1..Len(messages_) : messages_[l] # Program[j]
  BY <1>6, <1>7 DEF OrderInv, RanBeforeReady
<1>11. Program[j] \in RanTasks \cup skipped
  BY <1>3, <1>8, <1>9, <1>10 DEF BarrierInv, TakenOrReady
<1>12. current # Program[j]
  <2>1. NoTask # Program[j]
    BY DEF NoTask, Call, Posts
  <2>2. current = NoTask \/ ran[k].task = current
        \/ Precedes(Program, readyAt, ran[k].task, current)
    BY DEF BarrierInv, CurrentIsLast
  <2> QED BY <1>5, <1>6, <1>7, <2>1, <2>2
<1> QED BY <1>11, <1>12

-----------------------------------------------------------------------------
(* The program of the platform thread.                                     *)
LEMMA PlatformCalls ==
  /\ Len(PlatformDemo) = 4
  /\ PlatformDemo[1].op = "Spawn" /\ PlatformDemo[1].ms = 5
  /\ PlatformDemo[2].op = "SleepMs" /\ PlatformDemo[3].op = "SetFlag"
  /\ PlatformDemo[4].op = "Stop"
  /\ PlatformDemo # TaskQueueDemo
<1>1. /\ Len(PlatformDemo) = 4
      /\ PlatformDemo[1].op = "Spawn" /\ PlatformDemo[1].ms = 5
      /\ PlatformDemo[2].op = "SleepMs" /\ PlatformDemo[3].op = "SetFlag"
      /\ PlatformDemo[4].op = "Stop"
  BY DEF PlatformDemo, Call
<1>2. TaskQueueDemo[1].op = "PostTask"
  BY DEF TaskQueueDemo, Call
<1> QED BY <1>1, <1>2

(* The task it spawns.                                                     *)
LEMMA SpawnIsTask ==
  ASSUME Typed, Program = PlatformDemo
  PROVE  Program[1] \in Tasks
<1>1. WellFormed(Program) /\ TypeOK
  BY ProgramsWellFormed DEF Typed, TypeOK
<1>2. 1 \in 1..Len(Program) /\ Program[1].op = "Spawn"
  BY PlatformCalls
<1> QED BY <1>1, <1>2, TasksAreCalls DEF Posts

(* Main ends after the worker.                                             *)
LEMMA MainOutlives ==
  ASSUME Typed, Done => worker = "exited", [Next]_vars
  PROVE  (Done => worker = "exited")'
<1>1. /\ Program' = Program /\ WellFormed(Program) /\ Len(Program) \in Nat
      /\ pc \in 1..(Len(Program) + 1)
  BY ProgramStays DEF Typed, TypeOK
<1>2. worker = "exited" => worker' = "exited"
  BY DEF Next, vars, workerVars, MainCalls, MainReturns, Dispatch, TaskEnds, WorkerQuits,
         Visible, Tick
<1> SUFFICES ASSUME pc' > Len(Program) PROVE worker' = "exited"
  BY <1>1 DEF Done
<1>3. CASE pc > Len(Program)
  BY <1>2, <1>3 DEF Done
<1>4. CASE pc = Len(Program) /\ MainCalls
  <2>1. Program[pc].op = "Stop"
    BY <1>1, <1>4 DEF WellFormed
  <2>2. pc' = pc
    BY <1>4, <2>1 DEF MainCalls, PostTask, PostDelayedTask, Invoke, SleepMs, SetFlag, Stop,
                      Blocks, Delayed
  <2> QED BY <1>1, <1>4, <2>2
<1>5. CASE pc = Len(Program) /\ MainReturns
  <2>1. Program[pc].op = "Stop"
    BY <1>1, <1>5 DEF WellFormed
  <2>2. worker = "exited"
    BY <1>5, <2>1 DEF MainReturns, CanReturn
  <2> QED BY <1>2, <2>2
<1>6. MainCalls \/ MainReturns \/ pc' = pc
  BY DEF Next, vars, mainVars, Dispatch, TaskEnds, WorkerQuits, Visible, Tick
<1>7. pc' = pc \/ pc' = pc + 1
  BY <1>1, <1>6, CallPosts DEF MainReturns, Returns
<1> QED BY <1>1, <1>3, <1>4, <1>5, <1>6, <1>7

(* A flag is set in the program of the platform thread only.               *)
LEMMA FlagIsPlatforms ==
  ASSUME Typed, Program # PlatformDemo, ~exit_thread, [Next]_vars
  PROVE  ~exit_thread'
<1>1. WellFormed(Program)
  BY ProgramStays
<1>2. CASE MainCalls
  <2>1. Program[pc].op # "SetFlag"
    BY <1>1, <1>2, MainsCall DEF MainCalls, WellFormed
  <2> QED BY <1>2, <2>1 DEF MainCalls, PostTask, PostDelayedTask, Invoke, SleepMs, SetFlag, Stop,
                            flagVars
<1>3. CASE ~MainCalls
  BY <1>3 DEF Next, vars, flagVars, MainReturns, Dispatch, TaskEnds, WorkerQuits, Visible, Tick
<1> QED BY <1>2, <1>3

PlatformInv == delayed_messages_ = {} /\ StoreTime /\ SpawnTime /\ LoopTime

(* The times of the platform thread, through the calls of main.            *)
LEMMA PlatformMain ==
  ASSUME Typed, Program = PlatformDemo, PlatformInv, MainCalls \/ MainReturns
  PROVE  PlatformInv'
<1>1. /\ Len(Program) = 4 /\ Program[1].op = "Spawn" /\ Program[2].op = "SleepMs"
      /\ Program[3].op = "SetFlag" /\ Program[4].op = "Stop"
  BY PlatformCalls
<1>2. /\ now \in Nat /\ lag \in [Actors -> 0..Lag] /\ readyAt \in [Tasks -> Nat]
      /\ pc \in 1..5 /\ messages_ \in Seq(Tasks) /\ setAt \in Nat
  BY <1>1 DEF Typed, TypeOK
<1>3. /\ lag'["worker"] = lag["worker"] /\ lag'["store"] = lag["store"]
      /\ UNCHANGED <<Program, now, worker, busyUntil, current>>
  BY <1>2 DEF MainCalls, MainReturns, Run, Actors, workerVars
<1>4. CASE MainReturns
  <2>1. /\ pc' = pc + 1 /\ phase = "inside"
        /\ UNCHANGED <<readyAt, exit_thread, visible, setAt, messages_, delayed_messages_, stop_>>
    BY <1>4 DEF MainReturns, Returns, flagVars, queueVars
  <2>2. pc > 1
    BY <1>2, <2>1 DEF PlatformInv, SpawnTime
  <2>3. StoreTime' /\ LoopTime'
    BY <1>3, <2>1 DEF PlatformInv, StoreTime, LoopTime
  <2>4. SpawnTime'
    BY <1>2, <1>3, <2>1, <2>2 DEF PlatformInv, SpawnTime
  <2> QED BY <2>1, <2>3, <2>4 DEF PlatformInv
<1>5. CASE MainCalls /\ pc = 1
  <2>1. PostTask(Program[1])
    BY <1>1, <1>5 DEF MainCalls, PostTask, PostDelayedTask, Invoke, SleepMs, SetFlag, Stop, Delayed
  <2>2. Program[1] \in Tasks
    BY <1>1, <1>5, MainsCall DEF MainCalls, Posts
  <2>3. /\ pc' = 2 /\ readyAt'[Program[1]] = now
        /\ messages_' = Append(messages_, Program[1])
        /\ UNCHANGED <<delayed_messages_, stop_, exit_thread, visible, setAt>>
    BY <1>2, <1>5, <2>1, <2>2 DEF PostTask, Returns, flagVars
  <2>4. /\ messages_ = <<>> /\ worker = "idle" /\ lag["worker"] = 0 /\ ~exit_thread
    BY <1>5 DEF PlatformInv, SpawnTime
  <2>5. messages_' = <<Program[1]>>
    BY <2>3, <2>4
  <2>6. StoreTime' /\ LoopTime'
    BY <1>3, <2>3, <2>4 DEF PlatformInv, StoreTime, LoopTime
  <2>7. SpawnTime'
    BY <1>2, <1>3, <2>3, <2>4, <2>5 DEF SpawnTime
  <2> QED BY <2>3, <2>6, <2>7 DEF PlatformInv
<1>6. CASE MainCalls /\ pc = 3
  <2>1. SetFlag(Program[3])
    BY <1>1, <1>6 DEF MainCalls, PostTask, PostDelayedTask, Invoke, SleepMs, SetFlag, Stop, Delayed
  <2>2. /\ pc' = 4 /\ exit_thread' = TRUE /\ setAt' = now
        /\ UNCHANGED <<messages_, delayed_messages_, stop_, visible, readyAt>>
    BY <1>2, <1>6, <2>1 DEF SetFlag, Returns, queueVars
  <2>3. ~exit_thread /\ ~visible /\ lag["store"] = 0
    BY <1>6 DEF PlatformInv, SpawnTime, StoreTime
  <2>4. StoreTime'
    BY <1>2, <1>3, <2>2, <2>3 DEF StoreTime
  <2>5. LoopTime'
    BY <1>3, <2>2, <2>3 DEF PlatformInv, LoopTime
  <2>6. SpawnTime'
    BY <1>2, <1>3, <1>6, <2>2, <2>3 DEF PlatformInv, SpawnTime
  <2> QED BY <2>2, <2>4, <2>5, <2>6 DEF PlatformInv
<1>7. CASE MainCalls /\ pc \in {2, 4}
  <2>1. SleepMs(Program[pc]) \/ Stop(Program[pc])
    BY <1>1, <1>7 DEF MainCalls, PostTask, PostDelayedTask, Invoke, SleepMs, SetFlag, Stop, Delayed
  <2>2. /\ pc' = pc
        /\ UNCHANGED <<messages_, delayed_messages_, exit_thread, setAt, visible, readyAt>>
    BY <2>1 DEF SleepMs, Stop, Blocks, queueVars, flagVars
  <2>3. StoreTime' /\ LoopTime'
    BY <1>3, <2>2 DEF PlatformInv, StoreTime, LoopTime
  <2>4. SpawnTime'
    BY <1>3, <1>7, <2>2 DEF PlatformInv, SpawnTime
  <2> QED BY <2>2, <2>3, <2>4 DEF PlatformInv
<1>8. pc \in {1, 2, 3, 4} \/ ~MainCalls
  BY <1>1, <1>2 DEF MainCalls, Done
<1> QED BY <1>4, <1>5, <1>6, <1>7, <1>8

(* The times of the platform thread, through its own steps.                *)
LEMMA PlatformWorker ==
  ASSUME Typed, Program = PlatformDemo, PlatformInv, Dispatch \/ TaskEnds \/ WorkerQuits
  PROVE  PlatformInv'
<1>1. Len(Program) = 4 /\ Program[1].op = "Spawn" /\ Program[1].ms = 5 /\ ~DropsReady
  BY PlatformCalls DEF DropsReady
<1>2. /\ now \in Nat /\ lag \in [Actors -> 0..Lag] /\ readyAt \in [Tasks -> Nat]
      /\ pc \in 1..5 /\ setAt \in Nat /\ busyUntil \in Nat /\ Lag \in Nat
  BY <1>1, RtcThreadAssumption DEF Typed, TypeOK
<1>3. /\ lag'["worker"] = 0 /\ lag'["store"] = lag["store"]
      /\ UNCHANGED <<Program, now, pc, phase, readyAt, exit_thread, visible, setAt, stop_>>
  BY <1>2 DEF Dispatch, TaskEnds, WorkerQuits, Run, Actors, mainVars, flagVars, queueVars
<1>4. Due = {} /\ delayed_messages_' = {}
  BY DEF PlatformInv, Due, Dispatch, TaskEnds, WorkerQuits, queueVars
<1>5. StoreTime'
  BY <1>3 DEF PlatformInv, StoreTime
<1>6. CASE Dispatch
  <2>1. worker = "idle" /\ messages_ # <<>> /\ worker' = "busy"
    BY <1>4, <1>6 DEF Dispatch, HasReady
  <2>2. pc > 1 /\ messages_ = <<Program[1]>> /\ now = readyAt[Program[1]] + lag["worker"]
    BY <1>2, <2>1 DEF PlatformInv, SpawnTime
  <2>3. PICK ready, due : LinesUp(ready, due) /\ Takes(ready) /\ messages_' \in Seq(Tasks)
    BY <1>6, DispatchTakes
  <2>4. /\ Len(messages_) = 1 /\ messages_[1] = Program[1]
    BY <2>2
  <2>5. Cardinality(Due) = 0
    BY <1>4, FS_EmptySet
  <2>6. Len(ready) = 1 /\ ready[1] = Program[1]
    BY <2>3, <2>4, <2>5 DEF LinesUp
  <2>7. messages_' = <<>> /\ current' = Program[1] /\ busyUntil' = now
    <3>1. Len(messages_') = 0
      BY <2>3, <2>6 DEF Takes
    <3>2. messages_' = <<>>
      BY <2>3, <3>1
    <3>3. current' = Program[1] /\ busyUntil' = now
      BY <1>1, <1>2, <2>3, <2>6 DEF Takes
    <3> QED BY <3>2, <3>3
  <2>8. LoopTime'
    <3>1. exit_thread => readyAt[Program[1]] <= setAt
      BY DEF PlatformInv, SpawnTime
    <3>2. Program[1] \in Tasks
      BY SpawnIsTask
    <3>3. exit_thread => now <= setAt + Lag + 5
      BY <1>2, <2>2, <3>1, <3>2 DEF Actors
    <3> QED BY <1>2, <1>3, <2>7, <3>3 DEF LoopTime
  <2>9. SpawnTime'
    BY <1>2, <1>3, <2>1, <2>2, <2>7 DEF PlatformInv, SpawnTime
  <2> QED BY <1>4, <1>5, <2>8, <2>9 DEF PlatformInv
<1>7. CASE TaskEnds
  <2>1. current = Program[1] /\ worker = "busy"
    BY <1>7 DEF PlatformInv, LoopTime, TaskEnds
  <2>2. /\ messages_' = messages_
        /\ \/ visible /\ worker' = "exited"
           \/ /\ ~visible /\ busyUntil' = now + 5
              /\ UNCHANGED <<worker, current>>
    BY <1>1, <1>7, <2>1 DEF TaskEnds, Iterate, queueVars
  <2>3. LoopTime'
    BY <1>2, <1>3, <2>1, <2>2 DEF LoopTime
  <2>4. SpawnTime'
    BY <1>2, <1>3, <2>1, <2>2 DEF PlatformInv, SpawnTime
  <2> QED BY <1>4, <1>5, <2>3, <2>4 DEF PlatformInv
<1>8. CASE WorkerQuits
  <2>1. worker = "idle" /\ stop_ /\ messages_ = <<>>
    BY <1>1, <1>8 DEF WorkerQuits, QuitsNow, HasReady
  <2>2. pc > 1
    BY <1>2, <2>1 DEF PlatformInv, SpawnTime
  <2>3. messages_ = <<Program[1]>>
    BY <2>1, <2>2 DEF PlatformInv, SpawnTime
  <2> QED BY <2>1, <2>3
<1> QED BY <1>6, <1>7, <1>8

(* The times of the platform thread, when the flag becomes visible and     *)
(* when time passes.                                                       *)
LEMMA PlatformClock ==
  ASSUME Typed, Program = PlatformDemo, PlatformInv, Visible \/ Tick
  PROVE  PlatformInv'
<1>1. /\ now \in Nat /\ lag \in [Actors -> 0..Lag] /\ readyAt \in [Tasks -> Nat]
      /\ pc \in Nat /\ setAt \in Nat /\ busyUntil \in Nat /\ Lag \in Nat
      /\ visible \in BOOLEAN /\ exit_thread \in BOOLEAN
  BY RtcThreadAssumption DEF Typed, TypeOK
<1>2. lag["worker"] \in 0..Lag /\ lag["store"] \in 0..Lag
  BY <1>1 DEF Actors
<1>3. /\ UNCHANGED <<Program, pc, phase, readyAt, exit_thread, setAt, stop_, messages_,
                     delayed_messages_, worker, busyUntil, current>>
  BY DEF Visible, Tick, mainVars, flagVars, queueVars, workerVars
<1>4. CASE Visible
  <2>1. now' = now /\ lag'["worker"] = lag["worker"] /\ lag'["store"] = 0 /\ visible' = exit_thread
    BY <1>1, <1>4 DEF Visible, Run, Actors
  <2>2. exit_thread /\ ~visible
    BY <1>1, <1>4 DEF Visible, PlatformInv, StoreTime
  <2>3. now = setAt + lag["store"]
    BY <2>2 DEF PlatformInv, StoreTime
  <2>4. StoreTime'
    BY <1>3, <2>1, <2>2 DEF PlatformInv, StoreTime
  <2>5. LoopTime'
    BY <1>1, <1>2, <1>3, <2>1, <2>3 DEF PlatformInv, LoopTime
  <2>6. SpawnTime'
    BY <1>3, <2>1 DEF PlatformInv, SpawnTime
  <2> QED BY <1>3, <2>4, <2>5, <2>6 DEF PlatformInv
<1>5. CASE Tick
  <2>1. /\ now' = now + 1 /\ visible' = visible
        /\ lag'["store"] = IF exit_thread # visible THEN lag["store"] + 1 ELSE 0
        /\ lag'["worker"] = IF WorkerReady THEN lag["worker"] + 1 ELSE 0
    <3>1. (IsReady("store") <=> exit_thread # visible) /\ (IsReady("worker") <=> WorkerReady)
      BY DEF IsReady
    <3>2. /\ lag' = [t \in Actors |-> IF IsReady(t) THEN lag[t] + 1 ELSE 0]
          /\ now' = now + 1 /\ visible' = visible
      BY <1>5 DEF Tick, flagVars
    <3>3. /\ lag'["store"] = IF IsReady("store") THEN lag["store"] + 1 ELSE 0
          /\ lag'["worker"] = IF IsReady("worker") THEN lag["worker"] + 1 ELSE 0
      BY <3>2 DEF Actors
    <3> QED BY <3>1, <3>2, <3>3
  <2>2. Due = {}
    BY DEF Due, PlatformInv
  <2>3. StoreTime'
    BY <1>1, <1>2, <1>3, <2>1 DEF PlatformInv, StoreTime
  <2>4. LoopTime'
    <3>1. worker = "busy" => (WorkerReady <=> busyUntil <= now)
      BY <1>1 DEF WorkerReady
    <3> QED BY <1>1, <1>2, <1>3, <2>1, <3>1 DEF PlatformInv, LoopTime
  <2>5. SpawnTime'
    <3>1. pc = 1 => ~WorkerReady
      BY <2>2 DEF PlatformInv, SpawnTime, WorkerReady, HasReady, QuitsNow
    <3>2. pc > 1 /\ worker = "idle" => WorkerReady
      <4> SUFFICES ASSUME pc > 1, worker = "idle" PROVE WorkerReady
        OBVIOUS
      <4>1. messages_ = <<Program[1]>>
        BY DEF PlatformInv, SpawnTime
      <4>2. messages_ # <<>>
        BY <4>1
      <4> QED BY <4>2 DEF WorkerReady, HasReady
    <3>3. Program[1] \in Tasks
      BY SpawnIsTask
    <3>4. pc > 1 => readyAt[Program[1]] <= now + 1
      BY <1>1, <3>3 DEF PlatformInv, SpawnTime
    <3> QED BY <1>1, <1>2, <1>3, <2>1, <3>1, <3>2, <3>3, <3>4 DEF PlatformInv, SpawnTime
  <2> QED BY <1>3, <2>3, <2>4, <2>5 DEF PlatformInv
<1> QED BY <1>4, <1>5

(* Every step keeps what the end of the threads rests on.                  *)
LEMMA ExitKept ==
  ASSUME Typed, ExitInv, [Next]_vars
  PROVE  ExitInv'
<1>1. Program' = Program
  BY ProgramStays
<1>2. (Done => worker = "exited")'
  BY MainOutlives DEF ExitInv
<1>3. Program # PlatformDemo => ~exit_thread'
  BY FlagIsPlatforms DEF ExitInv
<1>4. ASSUME Program = PlatformDemo PROVE PlatformInv'
  <2>1. PlatformInv
    BY <1>4 DEF ExitInv, PlatformInv
  <2>2. CASE UNCHANGED vars
    <3>1. StoreTime' /\ LoopTime'
      BY <2>1, <2>2 DEF PlatformInv, StoreTime, LoopTime, vars, mainVars, flagVars, workerVars
    <3>2. SpawnTime'
      BY <2>1, <2>2 DEF PlatformInv, SpawnTime, vars, mainVars, flagVars, queueVars, workerVars
    <3>3. delayed_messages_' = {}
      BY <2>1, <2>2 DEF PlatformInv, vars, queueVars
    <3> QED BY <3>1, <3>2, <3>3 DEF PlatformInv
  <2>3. CASE Next
    BY <1>4, <2>1, <2>3, PlatformMain, PlatformWorker, PlatformClock DEF Next
  <2> QED BY <2>2, <2>3
<1> QED BY <1>1, <1>2, <1>3, <1>4 DEF ExitInv, PlatformInv, PlatformDemo, Call

(* The times imply the bound on the exit.                                  *)
LEMMA ExitIsPrompt ==
  ASSUME Typed, ExitInv
  PROVE  PromptExit
<1>1. /\ now \in Nat /\ lag \in [Actors -> 0..Lag] /\ readyAt \in [Tasks -> Nat]
      /\ setAt \in Nat /\ busyUntil \in Nat /\ Lag \in Nat
      /\ worker \in {"idle", "busy", "exited"} /\ pc \in Nat
  BY RtcThreadAssumption DEF Typed, TypeOK
<1>2. lag["worker"] \in 0..Lag /\ lag["store"] \in 0..Lag
  BY <1>1 DEF Actors
<1>3. ASSUME exit_thread, worker # "exited"
      PROVE  now <= setAt + 5 + 2 * Lag
  <2>1. Program = PlatformDemo /\ StoreTime /\ SpawnTime /\ LoopTime
    BY <1>3 DEF ExitInv
  <2>2. Program[1] \in Tasks
    BY <2>1, SpawnIsTask
  <2>3. ~visible => now <= setAt + Lag
    BY <1>1, <1>2, <1>3, <2>1 DEF StoreTime
  <2>4. CASE worker = "idle"
    BY <1>1, <1>2, <1>3, <2>1, <2>2, <2>4 DEF SpawnTime
  <2>5. CASE worker = "busy"
    BY <1>1, <1>2, <1>3, <2>1, <2>3, <2>5 DEF LoopTime
  <2> QED BY <1>1, <1>3, <2>4, <2>5
<1> QED BY <1>3 DEF ExitInv, PromptExit

-----------------------------------------------------------------------------
(* Initially the invariant holds.                                          *)
LEMMA InitThreadInv == Init => ThreadInv
<1> SUFFICES ASSUME Init PROVE ThreadInv
  OBVIOUS
<1>1. Typed
  BY InitTypes
<1>2. Len(ran) = 0 /\ Len(messages_) = 0 /\ delayed_messages_ = {}
  BY DEF Init
<1>3. OrderInv
  BY <1>2 DEF OrderInv, RanInOrder, RanBeforeReady, RanBeforeDelayed, ReadyInOrder,
              ReadyBeforeDelayed, RanOnTime, ReadyOnTime, DelayedOnTime, DelayedNumbered
<1>4. WellFormed(Program) /\ TypeOK
  BY <1>1, ProgramsWellFormed DEF Typed, TypeOK
<1>5. CurrentIsLast
  BY DEF Init, CurrentIsLast
<1>6. Len(Program) \in Nat /\ Len(Program) > 0
  BY <1>4 DEF WellFormed
<1>7. TakenOrReady
  <2> SUFFICES ASSUME NEW i \in 1..Len(Program), Program[i].op \in Posts \ Delayed
               PROVE  ~Posted(Program[i])
    BY DEF TakenOrReady
  <2>1. Pos(Program, Program[i]) = i
    BY <1>4, TasksAreCalls
  <2> QED BY <1>6, <2>1 DEF Posted, Init
<1>8. InvokeReturned
  BY <1>6 DEF Init, InvokeReturned
<1>9. FlagInv
  BY <1>2 DEF Init, FlagInv
<1>10. ~Done
  BY <1>6 DEF Init, Done
<1>11. StoreTime /\ LoopTime
  BY DEF Init, StoreTime, LoopTime, Actors
<1>12. SpawnTime
  BY DEF Init, SpawnTime, Actors
<1>13. ExitInv
  BY <1>2, <1>10, <1>11, <1>12 DEF ExitInv, Init
<1> QED BY <1>1, <1>3, <1>5, <1>7, <1>8, <1>9, <1>13 DEF ThreadInv, BarrierInv

(* Every step keeps the invariant.                                         *)
LEMMA NextThreadInv == ThreadInv /\ [Next]_vars => ThreadInv'
<1> SUFFICES ASSUME ThreadInv, [Next]_vars PROVE ThreadInv'
  OBVIOUS
<1>1. Typed /\ OrderInv /\ CurrentIsLast /\ TakenOrReady /\ InvokeReturned /\ FlagInv /\ ExitInv
  BY DEF ThreadInv, BarrierInv
<1>2. Typed' /\ OrderInv'
  BY <1>1, TypesKept, OrderKept
<1>3. CurrentIsLast' /\ TakenOrReady' /\ InvokeReturned'
  BY <1>1, CurrentKept, TakenOrReadyKept, InvokeReturnedKept
<1>4. FlagInv' /\ ExitInv'
  BY <1>1, FlagKept, ExitKept
<1> QED BY <1>2, <1>3, <1>4 DEF ThreadInv, BarrierInv

(* Queues, history, flag and times fit together in every state of the      *)
(* thread and task queue demos, for every bound on the lateness of threads *)
(* (rtc::Thread::PostTask, Get, Dispatch and Invoke as 02_rtc_thread and   *)
(* 03_rtc_task_queue call them).                                           *)
THEOREM ThreadsKeepInvariant == Spec => []ThreadInv
<1>1. Init => ThreadInv
  BY InitThreadInv
<1>2. ThreadInv /\ [Next]_vars => ThreadInv'
  BY NextThreadInv
<1> QED BY <1>1, <1>2, PTL DEF Spec

(* However late threads are, no task runs twice or before its time, tasks  *)
(* posted without delay run in the order of the calls, delayed ones in the *)
(* order in which they are due (Thread::Get and DelayedMessage).           *)
THEOREM TasksRunInOrder == Spec => []ExecutionOrder
<1>1. ThreadInv => ExecutionOrder
  BY OrderImpliesInOrder DEF ThreadInv, Typed, ExecutionOrder
<1> QED BY <1>1, ThreadsKeepInvariant, PTL

(* When Invoke returns, its functor and what was posted before it without  *)
(* delay have been taken and none is running (Thread::Invoke).             *)
THEOREM InvokeWaitsForAll == Spec => []InvokeIsABarrier
<1>1. ThreadInv => InvokeIsABarrier
  BY BarrierHolds DEF ThreadInv
<1> QED BY <1>1, ThreadsKeepInvariant, PTL

(* A task bound to a safety flag never uses a deleted owner, and runs as   *)
(* long as the owner is there (SafetyClosureTask::Run).                    *)
THEOREM BoundTasksAreSafe == Spec => []SafetyFlagHolds
<1>1. ThreadInv => SafetyFlagHolds
  <2> SUFFICES ASSUME ThreadInv PROVE SafetyFlagHolds
    OBVIOUS
  <2>1. FlagInv /\ Typed
    BY DEF ThreadInv
  <2>2. DOMAIN ran = 1..Len(ran)
    BY <2>1, LenProperties DEF Typed
  <2>3. \A i, j \in 1..Len(ran) :
          j > i /\ ran[i].task.op = "PostOwnerDelete" => ~Safe(ran[j].task)
    BY <2>1 DEF FlagInv
  <2>4. skipped # {} => \E i \in 1..Len(ran) : ran[i].task.op = "PostOwnerDelete"
    BY <2>1 DEF FlagInv
  <2> QED BY <2>2, <2>3, <2>4 DEF SafetyFlagHolds
<1> QED BY <1>1, ThreadsKeepInvariant, PTL

(* The platform thread ends one loop sleep after its flag was set, but for *)
(* twice the lateness of a thread, and before main does (PlatformThread in *)
(* 02_rtc_thread/platform_thread/main.cc).                                 *)
THEOREM PlatformThreadEnds == Spec => []PromptExit
<1>1. ThreadInv => PromptExit
  BY ExitIsPrompt DEF ThreadInv
<1> QED BY <1>1, ThreadsKeepInvariant, PTL
=============================================================================
