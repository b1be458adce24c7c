---------------------------- MODULE SchedProofs ----------------------------
(***************************************************************************)
(* Proofs about Sched, for any number of tasks, slots and ticks.           *)
(*                                                                         *)
(* IInv is the inductive invariant.  The properties that the runs check    *)
(* lean on each other: sys_exit() finds the parent it signals because pids *)
(* are unique, a live task is linked and orphans are cleared; the search   *)
(* for the next task falls back on the idle task because nothing else ever *)
(* changes that task.                                                      *)
(***************************************************************************)
EXTENDS Sched, WellFoundedInduction, TLAPS

\* Pids are handed out in the order of creation.
PidsFollowCreation ==
  /\ lastPid = created - 1
  /\ \A t \in 0 .. created - 1 : pid[t] = t

\* A task is unlinked by its own exit only.
LiveLinked == \A t \in 0 .. created - 1 : resume[t] # "exit" => t \in list

IInv ==
  /\ TypeOK
  /\ OnlyCurrentRuns
  /\ IdleAvailable
  /\ PidsFollowCreation
  /\ LiveLinked
  /\ ParentAlive
  /\ NoLostSleeper
  /\ PanicOnlyQueueFull

\* What a step does with the CPU: it goes to a task of the list, and to the
\* idle task only when no other is runnable.
CpuMoves ==
  /\ cur' # cur => cur' \in list'
  /\ cur' = Idle /\ cur # Idle => Eligible(state', list') = {}

----------------------------------------------------------------------------
(* Operators *)

\* A non-empty set of naturals has a least element.
LEMMA LeastElement ==
  ASSUME NEW S \in SUBSET Nat, S # {}
  PROVE  \E x \in S : \A y \in S : x <= y
<1> DEFINE R == {ss \in Nat \X Nat : ss[1] < ss[2]}
<1>1. R = OpToRel(<, Nat)
  BY DEF OpToRel
<1>2. IsWellFoundedOn(R, Nat)
  BY <1>1, NatLessThanWellFounded
<1> HIDE DEF R
<1>3. PICK x \in S : \A y \in S : ~(<<y, x>> \in R)
  BY <1>2, WFMin
<1>4. ASSUME NEW y \in S PROVE x <= y
  <2>1. x \in Nat /\ y \in Nat
    OBVIOUS
  <2>2. y < x => <<y, x>> \in R
    BY <2>1 DEF R
  <2>3. ~(<<y, x>> \in R)
    BY <1>3
  <2> QED
    BY <2>1, <2>2, <2>3
<1> QED
  BY <1>4

\* First() returns the least element of its argument.
LEMMA FirstIsLeast ==
  ASSUME NEW S \in SUBSET Nat, S # {}
  PROVE  First(S) \in S /\ \A y \in S : First(S) <= y
BY LeastElement DEF First

\* Tasks are numbers.
LEMMA TasksAreNumbers == Task \subseteq Nat /\ Idle \in Task
BY SchedAssumption DEF Task, Idle

\* The next task is a runnable task of the list or the idle task, and the idle
\* task only if no other is runnable.
LEMMA NextTaskInList ==
  ASSUME NEW st, NEW lst \in SUBSET Task, Idle \in lst
  PROVE  /\ NextTask(st, lst) \in lst
         /\ NextTask(st, lst) # Idle => st[NextTask(st, lst)] = Runnable
         /\ NextTask(st, lst) = Idle => Eligible(st, lst) = {}
<1> DEFINE eligible == Eligible(st, lst)
           behind   == {t \in eligible : t > cur}
<1>1. eligible \subseteq lst /\ behind \subseteq eligible
  BY DEF Eligible
<1>2. eligible \in SUBSET Nat /\ behind \in SUBSET Nat
  BY <1>1, TasksAreNumbers
<1>3. CASE behind # {}
  <2>1. NextTask(st, lst) = First(behind)
    BY <1>3 DEF NextTask
  <2>2. First(behind) \in behind
    BY <1>2, <1>3, FirstIsLeast
  <2> QED
    BY <1>1, <2>1, <2>2 DEF Eligible
<1>4. CASE behind = {} /\ eligible # {}
  <2>1. NextTask(st, lst) = First(eligible)
    BY <1>4 DEF NextTask
  <2>2. First(eligible) \in eligible
    BY <1>2, <1>4, FirstIsLeast
  <2> QED
    BY <2>1, <2>2 DEF Eligible
<1>5. CASE behind = {} /\ eligible = {}
  <2>1. NextTask(st, lst) = Idle
    BY <1>5 DEF NextTask
  <2> QED
    BY <2>1, <1>5
<1> QED
  BY <1>1, <1>3, <1>4, <1>5

\* Without a wrap-around the pid of the next task is its number.
LEMMA AllocatedPidIsNext ==
  ASSUME TypeOK, PidsFollowCreation, created < MaxTasks
  PROVE  AllocatedPid = created
<1> DEFINE D == {d \in 1 .. MaxPid + 1 : PidAfter(d) \notin CheckedPids}
<1>1. created \in Nat /\ MaxPid \in Nat /\ created <= MaxPid
  BY SchedAssumption DEF TypeOK
<1>2. PidAfter(1) = created
  <2>1. created % (MaxPid + 1) = created
    BY <1>1
  <2> QED
    BY <2>1, <1>1 DEF PidAfter, PidsFollowCreation
<1>3. CheckedPids \subseteq 0 .. created - 1
  BY <1>1 DEF CheckedPids, PidsFollowCreation, TypeOK
<1>4. 1 \in D
  BY <1>1, <1>2, <1>3
<1>5. D \in SUBSET Nat
  BY <1>1
<1>6. First(D) = 1
  <2>1. First(D) \in D /\ First(D) <= 1
    BY <1>4, <1>5, FirstIsLeast
  <2> QED
    BY <2>1, <1>1
<1> QED
  BY <1>2, <1>6 DEF AllocatedPid

----------------------------------------------------------------------------
(* reschedule() *)

\* What a call of reschedule() needs: only the current task is marked as
\* running and the idle task is as IdleAvailable wants it.
Reschedulable(st, sg, lst, rp) ==
  /\ st \in [Task -> TaskState]
  /\ sg \in [Task -> SUBSET Signal]
  /\ rp \in [Task -> ResumePoint]
  /\ lst \in SUBSET Task
  /\ \A t \in Task : st[t] = Running => t = cur
  /\ Idle \in lst /\ st[Idle] = Runnable /\ sg[Idle] = {} /\ rp[Idle] = "user"

\* What it leaves: the same, about the task that has the CPU then; nobody is
\* put to sleep, unlinked or brought back from sys_exit(); it ends in a task of
\* the list unless it stays in the one it came from, and never returns only
\* when that one is not in the list.
Rescheduled(st, sg, lst, rp) ==
  /\ state' \in [Task -> TaskState]
  /\ signal' \in [Task -> SUBSET Signal]
  /\ resume' \in [Task -> ResumePoint]
  /\ \A t \in Task : state'[t] = Running => t = cur'
  /\ state'[Idle] = Runnable /\ signal'[Idle] = {} /\ resume'[Idle] = "user"
  /\ \A t \in Task : state'[t] = Sleeping => st[t] = Sleeping
  /\ \A t \in Task : resume'[t] = "exit" <=> rp[t] = "exit"
  /\ cur' = cur \/ cur' \in lst
  /\ cur' = Idle /\ cur # Idle => Eligible(state', lst) = {}
  /\ mode' = mode \/ (mode' = "spin" /\ cur' \notin lst)

\* One step keeps the resume points and the signals in their types.
LEMMA ResumedType ==
  ASSUME NEW rp \in [Task -> ResumePoint], NEW t \in Task
  PROVE  /\ [rp EXCEPT ![t] = Resumed(@)] \in [Task -> ResumePoint]
         /\ \A u \in Task :
              [rp EXCEPT ![t] = Resumed(@)][u] = "exit" <=> rp[u] = "exit"
         /\ rp[Idle] = "user" => [rp EXCEPT ![t] = Resumed(@)][Idle] = "user"
BY TasksAreNumbers DEF Resumed, ResumePoint

\* Handling a signal keeps the signals of every task in their type and adds none.
LEMMA HandleOneType ==
  ASSUME NEW sg \in [Task -> SUBSET Signal], NEW t \in Task
  PROVE  /\ HandleOne(sg, t) \in [Task -> SUBSET Signal]
         /\ sg[Idle] = {} => HandleOne(sg, t)[Idle] = {}
BY TasksAreNumbers DEF HandleOne

\* Leaving the current task marks no task as running.
LEMMA PreemptedType ==
  ASSUME NEW st \in [Task -> TaskState], cur \in Task,
         \A t \in Task : st[t] = Running => t = cur
  PROVE  /\ Preempted(st) \in [Task -> TaskState]
         /\ \A t \in Task : Preempted(st)[t] # Running
         /\ \A t \in Task : Preempted(st)[t] = Sleeping => st[t] = Sleeping
         /\ st[Idle] = Runnable => Preempted(st)[Idle] = Runnable
BY TasksAreNumbers
DEF Preempted, TaskState, Running, Runnable, Sleeping, Initialising, Zombie

\* reschedule() does what Rescheduled says.
LEMMA RescheduleWorks ==
  ASSUME NEW st, NEW sg, NEW lst, NEW rp, cur \in Task,
         Reschedulable(st, sg, lst, rp), Reschedule(st, sg, lst, rp)
  PROVE  Rescheduled(st, sg, lst, rp)
<1> DEFINE pst == Preempted(st)
<1>1. /\ st \in [Task -> TaskState]
      /\ sg \in [Task -> SUBSET Signal]
      /\ rp \in [Task -> ResumePoint]
      /\ lst \in SUBSET Task
      /\ \A t \in Task : st[t] = Running => t = cur
      /\ Idle \in lst /\ st[Idle] = Runnable
      /\ sg[Idle] = {} /\ rp[Idle] = "user"
  BY DEF Reschedulable
<1>2. /\ pst \in [Task -> TaskState]
      /\ \A t \in Task : pst[t] # Running
      /\ \A t \in Task : pst[t] = Sleeping => st[t] = Sleeping
      /\ pst[Idle] = Runnable
  BY <1>1, PreemptedType
<1> HIDE DEF pst
<1>3. CASE Declined(st, sg, rp)
  <2>1. Stay(st, sg, rp)
    BY <1>3 DEF Declined
  <2>2. /\ signal' \in [Task -> SUBSET Signal]
        /\ signal'[Idle] = {}
    BY <1>1, <2>1, HandleOneType DEF Stay
  <2>3. /\ resume' \in [Task -> ResumePoint]
        /\ resume'[Idle] = "user"
        /\ \A t \in Task : resume'[t] = "exit" <=> rp[t] = "exit"
    BY <1>1, <2>1, ResumedType DEF Stay
  <2> QED
    BY <1>1, <2>1, <2>2, <2>3 DEF Stay, Rescheduled
<1>4. CASE NoOther(st, sg, lst, rp)
  <2>1. Stay(pst, sg, rp) /\ NextTask(pst, lst) = cur
    BY <1>4 DEF NoOther, pst
  <2>2. cur \in lst
    BY <1>1, <2>1, NextTaskInList
  <2> QED
    BY <1>1, <1>2, <2>1, <2>2, ResumedType, HandleOneType
    DEF Stay, Rescheduled
<1>5. CASE Spins(st, sg, lst, rp)
  <2>1. /\ mode' = "spin" /\ state' = pst /\ signal' = sg
        /\ resume' = rp /\ cur' = cur
        /\ cur \notin lst
    BY <1>5 DEF Spins, pst, SearchEnds
  <2> QED
    BY <1>1, <1>2, <2>1 DEF Rescheduled
<1>6. CASE Switches(st, sg, lst, rp)
  <2> DEFINE next == NextTask(pst, lst)
  <2>1. SwitchTo(next, pst, sg, rp)
    BY <1>6 DEF Switches, pst
  <2>2. /\ next \in lst /\ next \in Task
        /\ next = Idle => Eligible(pst, lst) = {}
    BY <1>1, NextTaskInList
  <2> HIDE DEF next
  <2>3. cur' = next /\ mode' = mode
    BY <2>1 DEF SwitchTo
  <2>4. /\ state' \in [Task -> TaskState]
        /\ \A t \in Task : state'[t] = Running => t = next
        /\ state'[Idle] = Runnable
        /\ \A t \in Task : state'[t] = Sleeping => pst[t] = Sleeping
        /\ next = Idle => state' = pst
    BY <1>2, <2>1, <2>2, TasksAreNumbers
    DEF SwitchTo, TaskState, Running, Sleeping
  <2>5. /\ signal' \in [Task -> SUBSET Signal]
        /\ signal'[Idle] = {}
    BY <1>1, <2>1, <2>2, HandleOneType DEF SwitchTo
  <2>6. /\ resume' \in [Task -> ResumePoint]
        /\ resume'[Idle] = "user"
        /\ \A t \in Task : resume'[t] = "exit" <=> rp[t] = "exit"
    BY <1>1, <2>1, <2>2, ResumedType DEF SwitchTo
  <2> QED
    BY <1>2, <2>2, <2>3, <2>4, <2>5, <2>6 DEF Rescheduled
<1> QED
  BY <1>3, <1>4, <1>5, <1>6 DEF Reschedule

----------------------------------------------------------------------------
(* Every action preserves the invariant *)

\* Tasks that exist are tasks, and the list holds only such.
LEMMA ExistingTasks ==
  ASSUME TypeOK
  PROVE  /\ created \in Nat /\ 0 .. created - 1 \subseteq Task
         /\ cur \in Task /\ list \subseteq Task
BY SchedAssumption DEF TypeOK, Task

\* What a kernel entry that ends in reschedule() leaves, whatever it did before.
LEMMA RescheduleKeeps ==
  ASSUME TypeOK, mode = "run", created' = created, list' \subseteq list,
         NEW st, NEW sg, NEW rp, Rescheduled(st, sg, list', rp)
  PROVE  /\ state' \in [Task -> TaskState]
         /\ signal' \in [Task -> SUBSET Signal]
         /\ resume' \in [Task -> ResumePoint]
         /\ cur' \in 0 .. created' - 1
         /\ mode' \in {"run", "spin", "panic"}
         /\ OnlyCurrentRuns'
         /\ PanicOnlyQueueFull'
         /\ CpuMoves
BY DEF TypeOK, Rescheduled, OnlyCurrentRuns, PanicOnlyQueueFull,
       CpuMoves

\* The timer interrupt: alarms are counted down, sleepers are woken by a signal,
\* and at the end of the time slice the CPU moves on.
LEMMA TickKeeps == IInv /\ Tick => IInv' /\ CpuMoves
<1> SUFFICES ASSUME IInv, Tick PROVE IInv' /\ CpuMoves
  OBVIOUS
<1>1. /\ TypeOK /\ mode = "run" /\ Idle \in Task /\ Idle \in list
      /\ list \subseteq Task /\ cur \in Task
  BY ExistingTasks, TasksAreNumbers DEF IInv, IdleAvailable, Tick, IrqEnabled
<1>2. /\ AlarmAfterTick \in [Task -> Nat]
      /\ SignalAfterTick \in [Task -> SUBSET Signal]
      /\ StateAfterTick \in [Task -> TaskState]
      /\ \A t \in Task : StateAfterTick[t] = Running => state[t] = Running
      /\ AlarmAfterTick[Idle] = alarm[Idle]
      /\ SignalAfterTick[Idle] = signal[Idle]
      /\ StateAfterTick[Idle] = state[Idle]
  <2>1. /\ alarm \in [Task -> Nat] /\ signal \in [Task -> SUBSET Signal]
        /\ state \in [Task -> TaskState]
        /\ Idle \notin Administered
    BY <1>1 DEF TypeOK, Administered
  <2>2. /\ AlarmAfterTick \in [Task -> Nat]
        /\ AlarmAfterTick[Idle] = alarm[Idle]
    BY <1>1, <2>1 DEF AlarmAfterTick
  <2>3. /\ SignalAfterTick \in [Task -> SUBSET Signal]
        /\ SignalAfterTick[Idle] = signal[Idle]
    BY <1>1, <2>1 DEF SignalAfterTick, Signal
  <2>4. /\ StateAfterTick \in [Task -> TaskState]
        /\ \A t \in Task : StateAfterTick[t] = Running => state[t] = Running
        /\ StateAfterTick[Idle] = state[Idle]
    BY <1>1, <2>1 DEF StateAfterTick, TaskState, Running, Runnable
  <2> QED
    BY <2>2, <2>3, <2>4
<1>3. Reschedulable(StateAfterTick, SignalAfterTick, list, resume)
  BY <1>1, <1>2
  DEF IInv, TypeOK, OnlyCurrentRuns, IdleAvailable, Reschedulable
<1>4. Rescheduled(StateAfterTick, SignalAfterTick, list, resume)
  <2>1. CASE /\ state' = StateAfterTick /\ signal' = SignalAfterTick
             /\ resume' = resume /\ cur' = cur /\ mode' = mode
    BY <2>1, <1>3 DEF Reschedulable, Rescheduled
  <2>2. CASE Reschedule(StateAfterTick, SignalAfterTick, list, resume)
    BY <2>2, <1>1, <1>3, RescheduleWorks
  <2> QED
    BY <2>1, <2>2 DEF Tick
<1>5. /\ UNCHANGED <<created, list, pid, ppid, lastPid, slots, fdcIrq, dozing>>
      /\ alarm' = AlarmAfterTick
      /\ (ticks' = ticks - 1 /\ ticks > 1) \/ ticks' = ScheduleTicks
  BY DEF Tick, taskVars, fdcVars
<1> USE <1>5
<1>6. /\ TypeOK' /\ OnlyCurrentRuns'
      /\ PanicOnlyQueueFull' /\ CpuMoves
  <2>1. ticks' \in 1 .. ScheduleTicks
    BY <1>1, SchedAssumption DEF TypeOK
  <2> QED
    BY <1>1, <1>2, <1>4, <2>1, RescheduleKeeps DEF TypeOK
<1>7. IdleAvailable'
  BY <1>2, <1>4 DEF IInv, IdleAvailable, Rescheduled
<1>8. PidsFollowCreation' /\ LiveLinked' /\ ParentAlive'
  <2>1. \A t \in Task : resume'[t] = "exit" <=> resume[t] = "exit"
    BY <1>4 DEF Rescheduled
  <2> QED
    BY <1>1, <2>1, ExistingTasks
    DEF IInv, PidsFollowCreation, LiveLinked, ParentAlive, WithPid
<1>9. NoLostSleeper'
  <2> SUFFICES ASSUME NEW t \in list, state'[t] = Sleeping
               PROVE  WakeupComes(t)'
    BY DEF NoLostSleeper
  <2>1. t \in Task /\ StateAfterTick[t] = Sleeping
    BY <1>1, <1>4 DEF Rescheduled
  <2>2. state[t] = Sleeping /\ (t \in Administered => SignalAfterTick[t] = {})
    BY <1>1, <2>1 DEF TypeOK, StateAfterTick, Runnable, Sleeping
  <2>3. t \in Administered
    BY <2>2 DEF IInv, IdleAvailable, Administered, Sleeping, Runnable,
                Initialising
  <2>4. alarm[t] # 1 /\ alarm[t] \in Nat
    BY <1>1, <2>1, <2>2, <2>3 DEF TypeOK, SignalAfterTick
  <2>5. alarm[t] > 0 => alarm'[t] > 0
    BY <2>1, <2>3, <2>4 DEF AlarmAfterTick
  <2> QED
    BY <2>2, <2>5 DEF IInv, NoLostSleeper, WakeupComes, Woken
<1> QED
  BY <1>6, <1>7, <1>8, <1>9 DEF IInv

\* The floppy interrupt: every task on the wait queue is made runnable, whatever
\* it is doing by then.
LEMMA FloppyIrqKeeps == IInv /\ FloppyIrq => IInv' /\ CpuMoves
<1> SUFFICES ASSUME IInv, FloppyIrq PROVE IInv' /\ CpuMoves
  OBVIOUS
<1>1. /\ TypeOK /\ mode = "run" /\ Idle \in Task /\ Idle \in list
      /\ list \subseteq Task /\ cur \in Task
  BY ExistingTasks, TasksAreNumbers
  DEF IInv, IdleAvailable, FloppyIrq, IrqEnabled
<1>2. /\ StateAfterWakeup \in [Task -> TaskState]
      /\ \A t \in Task : StateAfterWakeup[t] = Running => state[t] = Running
      /\ StateAfterWakeup[Idle] = state[Idle]
  BY <1>1 DEF IInv, TypeOK, IdleAvailable, StateAfterWakeup, Woken,
              TaskState, Running, Runnable
<1>3. Reschedulable(StateAfterWakeup, signal, list, resume)
  BY <1>1, <1>2
  DEF IInv, TypeOK, OnlyCurrentRuns, IdleAvailable, Reschedulable
<1>4. Rescheduled(StateAfterWakeup, signal, list, resume)
  BY <1>1, <1>3, RescheduleWorks DEF FloppyIrq
<1>5. /\ UNCHANGED <<created, list, pid, ppid, lastPid, alarm, ticks, dozing>>
      /\ fdcIrq' = FALSE /\ slots' = [i \in 1 .. Slots |-> NoTask]
  BY DEF FloppyIrq, taskVars
<1> USE <1>5
<1>6. /\ TypeOK' /\ OnlyCurrentRuns'
      /\ PanicOnlyQueueFull' /\ CpuMoves
  BY <1>1, <1>4, RescheduleKeeps DEF TypeOK
<1>7. IdleAvailable'
  BY <1>4 DEF IInv, IdleAvailable, Rescheduled, Idle, NoTask
<1>8. PidsFollowCreation' /\ LiveLinked' /\ ParentAlive'
  <2>1. \A t \in Task : resume'[t] = "exit" <=> resume[t] = "exit"
    BY <1>4 DEF Rescheduled
  <2> QED
    BY <1>1, <2>1, ExistingTasks
    DEF IInv, PidsFollowCreation, LiveLinked, ParentAlive, WithPid
<1>9. NoLostSleeper'
  <2> SUFFICES ASSUME NEW t \in list, state'[t] = Sleeping
               PROVE  WakeupComes(t)'
    BY DEF NoLostSleeper
  <2>1. t \in Task /\ StateAfterWakeup[t] = Sleeping
    BY <1>1, <1>4 DEF Rescheduled
  <2>2. t \notin Woken /\ state[t] = Sleeping
    BY <2>1 DEF StateAfterWakeup, Sleeping, Runnable
  <2> QED
    BY <2>2 DEF IInv, NoLostSleeper, WakeupComes
<1> QED
  BY <1>6, <1>7, <1>8, <1>9 DEF IInv

\* fork(): the new task has the highest number and the pid after the last one,
\* so it is nobody's parent and its own parent is older and alive.
LEMMA ForkKeeps == IInv /\ Fork => IInv' /\ CpuMoves
<1> SUFFICES ASSUME IInv, Fork PROVE IInv' /\ CpuMoves
  OBVIOUS
<1>1. /\ TypeOK /\ mode = "run" /\ Idle \in Task /\ Idle \in list
      /\ list \subseteq Task /\ cur \in Task
      /\ created \in Task /\ created \notin list /\ created # Idle
      /\ created' = created + 1 /\ created \in Nat
      /\ created' \in 1 .. MaxTasks
  <2>1. TypeOK /\ mode = "run" /\ Idle \in list
    BY DEF IInv, IdleAvailable, Fork, InUser
  <2>2. created < MaxTasks /\ created' = created + 1 /\ created \in Nat \ {0}
    BY <2>1 DEF TypeOK, Fork
  <2>3. created \in Task /\ created' \in 1 .. MaxTasks /\ created # Idle
    BY <2>2, SchedAssumption DEF Task, Idle
  <2>4. created \notin list
    BY <2>1, <2>2 DEF TypeOK
  <2> QED
    BY <2>1, <2>2, <2>3, <2>4, ExistingTasks, TasksAreNumbers
<1>2. AllocatedPid = created /\ created \in 0 .. MaxPid
  BY <1>1, AllocatedPidIsNext, SchedAssumption DEF IInv, Fork
<1>3. /\ list' = list \cup {created}
      /\ lastPid' = created
      /\ pid' = [pid EXCEPT ![created] = created]
      /\ ppid' = [ppid EXCEPT ![created] = pid[cur]]
      /\ state' = [state EXCEPT ![created] = Runnable]
      /\ alarm' = [alarm EXCEPT ![created] = alarm[cur]]
      /\ signal' = [signal EXCEPT ![created] = signal[cur]]
      /\ resume' = [resume EXCEPT ![created] = "new"]
      /\ UNCHANGED <<slots, fdcIrq, cur, mode, ticks, dozing>>
  BY <1>2 DEF Fork, fdcVars
<1>4. resume[cur] = "user" /\ cur \in list /\ pid[cur] = cur
  <2>1. resume[cur] = "user"
    BY DEF Fork, InUser, IInv, IdleAvailable
  <2> QED
    BY <1>1, <2>1 DEF IInv, TypeOK, LiveLinked, PidsFollowCreation
<1>5. TypeOK'
  <2>1. /\ list' \subseteq 0 .. created' - 1
        /\ cur' \in 0 .. created' - 1
    BY <1>1, <1>3 DEF TypeOK
  <2>2. /\ state' \in [Task -> TaskState]
        /\ alarm' \in [Task -> Nat]
        /\ signal' \in [Task -> SUBSET Signal]
        /\ resume' \in [Task -> ResumePoint]
    BY <1>1, <1>3 DEF TypeOK, TaskState, ResumePoint
  <2>3. /\ pid' \in [Task -> 0 .. MaxPid]
        /\ ppid' \in [Task -> 0 .. MaxPid]
        /\ lastPid' \in 0 .. MaxPid
    BY <1>1, <1>2, <1>3 DEF TypeOK
  <2> QED
    BY <1>1, <1>3, <2>1, <2>2, <2>3 DEF TypeOK
<1>6. OnlyCurrentRuns'
  BY <1>1, <1>3 DEF IInv, TypeOK, OnlyCurrentRuns, Running, Runnable
<1>7. IdleAvailable'
  BY <1>1, <1>3 DEF IInv, TypeOK, IdleAvailable
<1>8. PidsFollowCreation'
  BY <1>1, <1>3 DEF IInv, TypeOK, PidsFollowCreation
<1>9. LiveLinked'
  BY <1>1, <1>3, ExistingTasks DEF IInv, TypeOK, LiveLinked
<1>10. ParentAlive'
  <2> SUFFICES ASSUME NEW t \in list', resume'[t] # "exit", ppid'[t] # 0
               PROVE  \E p \in list' : /\ p < t
                                       /\ {u \in list' : pid'[u] = ppid'[t]} = {p}
                                       /\ resume'[p] # "exit"
    BY DEF ParentAlive, WithPid
  <2>1. \A u \in list' : pid'[u] = u
    BY <1>1, <1>3, ExistingTasks DEF IInv, TypeOK, PidsFollowCreation
  <2>2. CASE t = created
    <3>1. ppid'[t] = cur /\ cur \in list' /\ cur < t /\ resume'[cur] # "exit"
      BY <1>1, <1>3, <1>4, <2>2 DEF TypeOK
    <3> QED
      BY <2>1, <3>1
  <2>3. CASE t # created
    <3>1. t \in list /\ ppid'[t] = ppid[t] /\ resume[t] # "exit"
      BY <1>1, <1>3, <2>3 DEF TypeOK
    <3>2. PICK p \in list : /\ p < t /\ WithPid(ppid[t]) = {p}
                            /\ resume[p] # "exit"
      BY <3>1 DEF IInv, ParentAlive
    <3>3. ppid[t] = pid[p] /\ pid[p] = p
      BY <1>1, <3>2, ExistingTasks
      DEF IInv, TypeOK, WithPid, PidsFollowCreation
    <3>4. p \in list' /\ resume'[p] # "exit"
      BY <1>1, <1>3, <3>2 DEF TypeOK
    <3> QED
      BY <2>1, <3>1, <3>2, <3>3, <3>4
  <2> QED
    BY <2>2, <2>3
<1>11. NoLostSleeper'
  BY <1>1, <1>3
  DEF IInv, TypeOK, NoLostSleeper, WakeupComes, Woken, Runnable, Sleeping
<1>12. PanicOnlyQueueFull' /\ CpuMoves
  BY <1>1, <1>3 DEF PanicOnlyQueueFull, CpuMoves
<1> QED
  BY <1>5, <1>6, <1>7, <1>8, <1>9, <1>10, <1>11, <1>12 DEF IInv

\* sleep(): the sleeper has its alarm running or asked for 0 ms.
LEMMA SleepKeeps == ASSUME NEW ms \in SleepTimes, IInv, Sleep(ms) PROVE IInv' /\ CpuMoves
<1>1. /\ TypeOK /\ mode = "run" /\ Idle \in Task /\ Idle \in list
      /\ list \subseteq Task /\ cur \in Task /\ cur # Idle
      /\ resume[cur] = "user" /\ ms \in Nat
  BY ExistingTasks, TasksAreNumbers, SchedAssumption
  DEF IInv, IdleAvailable, Sleep, InUser
<1> DEFINE st == [state EXCEPT ![cur] = Sleeping]
           rp == [resume EXCEPT ![cur] = "sleep"]
<1>2. Reschedulable(st, signal, list, rp)
  BY <1>1 DEF IInv, TypeOK, OnlyCurrentRuns, IdleAvailable, Reschedulable,
              ResumePoint, TaskState, Sleeping, Running
<1>3. Rescheduled(st, signal, list, rp)
  BY <1>1, <1>2, RescheduleWorks DEF Sleep
<1>4. /\ UNCHANGED <<created, list, pid, ppid, lastPid, slots, fdcIrq, ticks>>
      /\ alarm' = [alarm EXCEPT ![cur] = ms]
      /\ dozing' = IF ms = 0 THEN dozing \cup {cur} ELSE dozing \ {cur}
  BY DEF Sleep, taskVars, fdcVars
<1> USE <1>4
<1>5. /\ TypeOK' /\ OnlyCurrentRuns'
      /\ PanicOnlyQueueFull' /\ CpuMoves
  BY <1>1, <1>3, RescheduleKeeps DEF TypeOK
<1>6. IdleAvailable'
  BY <1>1, <1>3 DEF IInv, TypeOK, IdleAvailable, Rescheduled
<1>7. PidsFollowCreation' /\ LiveLinked' /\ ParentAlive'
  <2>1. \A t \in Task : resume'[t] = "exit" <=> resume[t] = "exit"
    BY <1>1, <1>3 DEF Rescheduled, TypeOK
  <2> QED
    BY <1>1, <2>1, ExistingTasks
    DEF IInv, PidsFollowCreation, LiveLinked, ParentAlive, WithPid
<1>8. NoLostSleeper'
  <2> SUFFICES ASSUME NEW t \in list, state'[t] = Sleeping
               PROVE  WakeupComes(t)'
    BY DEF NoLostSleeper
  <2>1. t \in Task /\ st[t] = Sleeping
    BY <1>1, <1>3 DEF Rescheduled
  <2>2. CASE t = cur
    BY <1>1, <2>2 DEF TypeOK, WakeupComes
  <2>3. CASE t # cur
    BY <1>1, <2>1, <2>3 DEF IInv, TypeOK, NoLostSleeper, WakeupComes, Woken
  <2> QED
    BY <2>2, <2>3
<1> QED
  BY <1>5, <1>6, <1>7, <1>8 DEF IInv

\* Steps that touch no task but for a resume point, and leave the kernel
\* running or stop it at a full queue.
LEMMA QuietKeeps ==
  ASSUME IInv,
         UNCHANGED <<created, list, pid, ppid, lastPid, state, signal, cur,
                     alarm, ticks, dozing, slots>>,
         fdcIrq' \in BOOLEAN, fdcIrq => fdcIrq',
         resume' \in [Task -> ResumePoint], resume'[Idle] = "user",
         \A t \in Task : resume'[t] = "exit" <=> resume[t] = "exit",
         mode' = mode \/ (mode' = "panic" /\ FreeSlots = {})
  PROVE  IInv' /\ CpuMoves
<1>1. TypeOK /\ list \subseteq Task /\ 0 .. created - 1 \subseteq Task
  BY ExistingTasks DEF IInv
<1>2. TypeOK'
  BY <1>1 DEF TypeOK
<1>3. OnlyCurrentRuns' /\ IdleAvailable'
  BY DEF IInv, OnlyCurrentRuns, IdleAvailable
<1>4. PidsFollowCreation' /\ LiveLinked'
  BY <1>1 DEF IInv, PidsFollowCreation, LiveLinked
<1>5. ParentAlive'
  BY <1>1 DEF IInv, ParentAlive, WithPid
<1>6. NoLostSleeper'
  BY DEF IInv, NoLostSleeper, WakeupComes, Woken
<1>7. PanicOnlyQueueFull' /\ CpuMoves
  BY DEF IInv, PanicOnlyQueueFull, FreeSlots, CpuMoves
<1> QED
  BY <1>2, <1>3, <1>4, <1>5, <1>6, <1>7 DEF IInv

\* A wait for the floppy: the sleeper is on the queue and its interrupt is to
\* come, or the kernel stops for want of a free slot.
LEMMA WaitForIrqKeeps == IInv /\ WaitForIrq => IInv' /\ CpuMoves
<1> SUFFICES ASSUME IInv, WaitForIrq PROVE IInv' /\ CpuMoves
  OBVIOUS
<1>1. /\ TypeOK /\ mode = "run" /\ Idle \in Task /\ Idle \in list
      /\ list \subseteq Task /\ cur \in Task /\ cur # Idle
      /\ resume[cur] # "exit"
  BY ExistingTasks, TasksAreNumbers
  DEF IInv, IdleAvailable, WaitForIrq, InUser, InDriver
<1>2. /\ UNCHANGED <<created, list, pid, ppid, lastPid, alarm, ticks, dozing>>
      /\ fdcIrq' = TRUE
  BY DEF WaitForIrq, taskVars
<1> USE <1>2
<1>3. CASE FreeSlots = {} /\ mode' = "panic"
           /\ UNCHANGED <<slots, state, signal, resume, cur>>
  BY <1>1, <1>3, QuietKeeps DEF IInv, TypeOK, IdleAvailable
<1>4. ASSUME FreeSlots # {},
             slots' = [slots EXCEPT ![First(FreeSlots)] = cur],
             Reschedule([state EXCEPT ![cur] = Sleeping], signal, list,
                        [resume EXCEPT ![cur] = "wait"])
      PROVE  IInv' /\ CpuMoves
  <2> DEFINE st == [state EXCEPT ![cur] = Sleeping]
             rp == [resume EXCEPT ![cur] = "wait"]
             slot == First(FreeSlots)
  <2>1. Reschedulable(st, signal, list, rp)
    BY <1>1 DEF IInv, TypeOK, OnlyCurrentRuns, IdleAvailable, Reschedulable,
                ResumePoint, TaskState, Sleeping, Running
  <2>2. Rescheduled(st, signal, list, rp)
    BY <1>1, <1>4, <2>1, RescheduleWorks
  <2>3. slot \in 1 .. Slots /\ slots[slot] = NoTask
    <3>1. FreeSlots \in SUBSET Nat
      BY SchedAssumption DEF FreeSlots
    <3>2. slot \in FreeSlots
      BY <1>4, <3>1, FirstIsLeast
    <3> QED
      BY <3>2 DEF FreeSlots
  <2>4. slots' = [slots EXCEPT ![slot] = cur]
    BY <1>4
  <2> HIDE DEF slot
  <2>5. slots' \in [1 .. Slots -> Task \cup {NoTask}]
    BY <1>1, <2>3, <2>4 DEF TypeOK
  <2>6. /\ TypeOK' /\ OnlyCurrentRuns'
        /\ PanicOnlyQueueFull' /\ CpuMoves
    BY <1>1, <2>2, <2>5, RescheduleKeeps DEF TypeOK
  <2>7. IdleAvailable'
    BY <1>1, <2>2, <2>3, <2>4 DEF IInv, TypeOK, IdleAvailable, Rescheduled
  <2>8. PidsFollowCreation' /\ LiveLinked' /\ ParentAlive'
    <3>1. \A t \in Task : resume'[t] = "exit" <=> resume[t] = "exit"
      BY <1>1, <2>2 DEF Rescheduled, TypeOK
    <3> QED
      BY <1>1, <3>1, ExistingTasks
      DEF IInv, PidsFollowCreation, LiveLinked, ParentAlive, WithPid
  <2>9. NoLostSleeper'
    <3> SUFFICES ASSUME NEW t \in list, state'[t] = Sleeping
                 PROVE  WakeupComes(t)'
      BY DEF NoLostSleeper
    <3>1. t \in Task /\ st[t] = Sleeping
      BY <1>1, <2>2 DEF Rescheduled
    <3>2. CASE t = cur
      BY <1>1, <2>3, <2>4, <3>1, <3>2 DEF TypeOK, WakeupComes, Woken
    <3>3. CASE t # cur
      <4>1. WakeupComes(t)
        BY <1>1, <3>1, <3>3 DEF IInv, TypeOK, NoLostSleeper
      <4>2. t \in Woken => t \in Woken'
        BY <1>1, <2>3, <2>4, <3>1, TasksAreNumbers
        DEF TypeOK, Woken, NoTask
      <4> QED
        BY <4>1, <4>2 DEF WakeupComes
    <3> QED
      BY <3>2, <3>3
  <2> QED
    BY <2>6, <2>7, <2>8, <2>9 DEF IInv
<1> QED
  BY <1>3, <1>4 DEF WaitForIrq

\* The end of a floppy read moves nothing but the resume point.
LEMMA FinishReadKeeps == IInv /\ FinishRead => IInv' /\ CpuMoves
<1> SUFFICES ASSUME IInv, FinishRead PROVE IInv' /\ CpuMoves
  OBVIOUS
<1>1. /\ TypeOK /\ mode = "run" /\ Idle \in Task /\ list \subseteq Task
      /\ cur \in Task /\ resume[cur] = "wait"
  BY ExistingTasks, TasksAreNumbers DEF IInv, FinishRead, InDriver
<1>2. /\ UNCHANGED <<created, list, pid, ppid, lastPid, slots, fdcIrq, state,
                     signal, cur, mode, alarm, ticks, dozing>>
      /\ resume' = [resume EXCEPT ![cur] = "user"]
  BY DEF FinishRead, taskVars, fdcVars
<1>3. /\ resume' \in [Task -> ResumePoint] /\ resume'[Idle] = "user"
      /\ \A t \in Task : resume'[t] = "exit" <=> resume[t] = "exit"
  BY <1>1, <1>2 DEF IInv, TypeOK, IdleAvailable, ResumePoint
<1> QED
  BY <1>1, <1>2, <1>3, QuietKeeps DEF TypeOK

\* A step that changes nothing, as those of a kernel that stopped.
LEMMA StutterKeeps == IInv /\ UNCHANGED vars => IInv' /\ CpuMoves
<1> SUFFICES ASSUME IInv, UNCHANGED vars PROVE IInv' /\ CpuMoves
  OBVIOUS
<1>1. UNCHANGED <<created, list, pid, ppid, lastPid, slots, fdcIrq, state,
                  signal, resume, cur, mode, alarm, ticks, dozing>>
  BY DEF vars, taskVars, fdcVars, cpuVars
<1> QED
  BY <1>1, QuietKeeps DEF IInv, TypeOK, IdleAvailable

\* exit(): the children become orphans before the task turns into a zombie or
\* leaves the list, so no live task is left with a parent that exited.
LEMMA ExitKeeps == IInv /\ Exit => IInv' /\ CpuMoves
<1> SUFFICES ASSUME IInv, Exit PROVE IInv' /\ CpuMoves
  OBVIOUS
<1>1. /\ TypeOK /\ mode = "run" /\ Idle \in Task /\ Idle \in list
      /\ list \subseteq Task /\ cur \in Task /\ cur # Idle
      /\ resume[cur] = "user"
  BY ExistingTasks, TasksAreNumbers DEF IInv, IdleAvailable, Exit, InUser
<1>2. /\ UNCHANGED <<created, pid, lastPid, slots, fdcIrq, alarm, ticks, dozing>>
      /\ ppid' = OrphanedPpid
  BY DEF Exit, fdcVars
<1> USE <1>2
<1>3. cur \in list /\ \A t \in list : pid[t] = t
  BY <1>1 DEF IInv, TypeOK, LiveLinked, PidsFollowCreation
<1>4. /\ ppid' \in [Task -> 0 .. MaxPid]
      /\ \A t \in list : ppid'[t] # 0 => ppid'[t] = ppid[t] /\ ppid[t] # cur
  BY <1>1, <1>3, SchedAssumption DEF TypeOK, OrphanedPpid
<1>5. PidsFollowCreation'
  BY DEF IInv, PidsFollowCreation
\* What is left to show once the list, the states and the resume points are
\* known: the new list holds everybody but perhaps the task that exits.
<1>6. ASSUME NEW st, NEW sg, NEW lst,
             list' = lst, lst = list \/ lst = list \ {cur},
             st \in [Task -> TaskState],
             \A t \in Task \ {cur} : st[t] = state[t],
             cur \in lst => st[cur] = Zombie,
             sg \in [Task -> SUBSET Signal], sg[Idle] = {},
             Reschedule(st, sg, lst, ExitResume)
      PROVE  IInv' /\ CpuMoves
  <2>1. /\ ExitResume \in [Task -> ResumePoint]
        /\ ExitResume[cur] = "exit"
        /\ \A t \in Task \ {cur} : ExitResume[t] = resume[t]
    BY <1>1 DEF TypeOK, ExitResume, ResumePoint
  <2>2. Reschedulable(st, sg, lst, ExitResume)
    BY <1>1, <1>6, <2>1
    DEF IInv, TypeOK, OnlyCurrentRuns, IdleAvailable, Reschedulable
  <2>3. Rescheduled(st, sg, list', ExitResume)
    BY <1>1, <1>6, <2>2, RescheduleWorks
  <2>4. list' \subseteq list
    BY <1>6
  <2>5. /\ TypeOK' /\ OnlyCurrentRuns'
        /\ PanicOnlyQueueFull' /\ CpuMoves
    BY <1>1, <1>4, <2>3, <2>4, RescheduleKeeps DEF TypeOK
  <2>6. IdleAvailable'
    BY <1>1, <1>6, <2>3 DEF IInv, IdleAvailable, Rescheduled
  <2>7. \A t \in Task : resume'[t] = "exit" <=> resume[t] = "exit" \/ t = cur
    BY <1>1, <2>1, <2>3 DEF Rescheduled
  <2>8. LiveLinked'
    BY <1>1, <1>6, <2>7, ExistingTasks DEF IInv, LiveLinked
  <2>9. ParentAlive'
    <3> SUFFICES ASSUME NEW t \in list', resume'[t] # "exit", ppid'[t] # 0
                 PROVE  \E p \in list' :
                          /\ p < t
                          /\ {u \in list' : pid[u] = ppid'[t]} = {p}
                          /\ resume'[p] # "exit"
      BY DEF ParentAlive, WithPid
    <3>1. /\ t \in list /\ resume[t] # "exit" /\ ppid'[t] = ppid[t]
          /\ ppid[t] # 0 /\ ppid[t] # cur
      BY <1>1, <1>4, <2>4, <2>7
    <3>2. PICK p \in list : /\ p < t /\ WithPid(ppid[t]) = {p}
                            /\ resume[p] # "exit"
      BY <3>1 DEF IInv, ParentAlive
    <3>3. p = ppid[t]
      BY <1>3, <3>2 DEF WithPid
    <3>4. p \in list' /\ resume'[p] # "exit"
      BY <1>1, <1>6, <2>7, <3>1, <3>2, <3>3
    <3> QED
      BY <1>3, <2>4, <3>1, <3>2, <3>3, <3>4
  <2>10. NoLostSleeper'
    <3> SUFFICES ASSUME NEW t \in list', state'[t] = Sleeping
                 PROVE  WakeupComes(t)'
      BY DEF NoLostSleeper
    <3>1. t \in Task /\ st[t] = Sleeping /\ t \in list
      BY <1>1, <2>3, <2>4 DEF Rescheduled
    <3>2. t # cur
      BY <1>6, <3>1 DEF Sleeping, Zombie
    <3> QED
      BY <1>6, <3>1, <3>2
      DEF IInv, NoLostSleeper, WakeupComes, Woken
  <2> QED
    BY <1>5, <2>5, <2>6, <2>8, <2>9, <2>10 DEF IInv
<1>7. CASE ExitAsZombie
  <2> DEFINE parent == First(WithPid(ppid[cur]))
             st == [state EXCEPT ![cur] = Zombie]
             sg == [signal EXCEPT ![parent] = @ \cup {SIGCHLD}]
  <2>1. PICK p \in list : WithPid(ppid[cur]) = {p}
    <3>1. ppid[cur] # 0
      BY <1>1, <1>7 DEF ExitAsZombie, TypeOK
    <3> QED
      BY <1>1, <1>3, <3>1 DEF IInv, ParentAlive
  <2>2. parent = p
    <3>1. {p} \in SUBSET Nat
      BY <1>1, TasksAreNumbers
    <3> QED
      BY <2>1, <3>1, FirstIsLeast
  <2>3. p # Idle
    <3>1. pid[p] = ppid[cur] /\ pid[p] = p
      BY <1>3, <2>1 DEF WithPid
    <3> QED
      BY <1>1, <1>7, <3>1 DEF ExitAsZombie, TypeOK, Idle
  <2>4. Reschedule(st, sg, list, ExitResume) /\ list' = list
    BY <1>7, <2>1 DEF ExitAsZombie
  <2>5. /\ sg \in [Task -> SUBSET Signal] /\ sg[Idle] = {}
        /\ st \in [Task -> TaskState] /\ st[cur] = Zombie
        /\ \A t \in Task \ {cur} : st[t] = state[t]
    BY <1>1, <2>2, <2>3
    DEF IInv, TypeOK, IdleAvailable, TaskState, Signal
  <2> HIDE DEF st, sg
  <2> QED
    BY <1>6, <2>4, <2>5
<1>8. CASE ExitAsOrphan
  <2>1. /\ Reschedule(state, signal, list \ {cur}, ExitResume)
        /\ list' = list \ {cur}
    BY <1>8 DEF ExitAsOrphan
  <2>2. /\ state \in [Task -> TaskState]
        /\ signal \in [Task -> SUBSET Signal] /\ signal[Idle] = {}
    BY <1>1 DEF IInv, TypeOK, IdleAvailable
  <2> QED
    BY <1>6, <2>1, <2>2
<1> QED
  BY <1>7, <1>8 DEF Exit

----------------------------------------------------------------------------
(* The theorems *)

\* The kernel with nothing but its idle task satisfies the invariant.
LEMMA InitEstablishes == Init => IInv
<1> SUFFICES ASSUME Init PROVE IInv
  OBVIOUS
<1> USE SchedAssumption DEF Init, Task, Idle, NoTask
<1>1. TypeOK
  <2>1. /\ created \in 1 .. MaxTasks /\ list \subseteq 0 .. created - 1
        /\ cur \in 0 .. created - 1 /\ lastPid \in 0 .. MaxPid
        /\ ticks \in 1 .. ScheduleTicks
    BY DEF PidIdle
  <2>2. /\ state \in [Task -> TaskState] /\ alarm \in [Task -> Nat]
        /\ signal \in [Task -> SUBSET Signal]
    BY DEF TaskState
  <2>3. /\ pid \in [Task -> 0 .. MaxPid] /\ ppid \in [Task -> 0 .. MaxPid]
        /\ resume \in [Task -> ResumePoint]
    BY DEF ResumePoint
  <2>4. /\ slots \in [1 .. Slots -> Task \cup {NoTask}]
        /\ fdcIrq \in BOOLEAN /\ mode \in {"run", "spin", "panic"}
        /\ dozing \subseteq Task
    OBVIOUS
  <2> QED
    BY <2>1, <2>2, <2>3, <2>4 DEF TypeOK
<1>2. OnlyCurrentRuns /\ IdleAvailable
  BY DEF OnlyCurrentRuns, IdleAvailable, Running, Runnable, Initialising
<1>3. PidsFollowCreation /\ LiveLinked /\ ParentAlive
  BY DEF PidsFollowCreation, LiveLinked, ParentAlive, PidIdle
<1>4. NoLostSleeper /\ PanicOnlyQueueFull
  BY DEF NoLostSleeper, PanicOnlyQueueFull,
         Sleeping, Runnable, Initialising
<1> QED
  BY <1>1, <1>2, <1>3, <1>4 DEF IInv

\* The invariant is inductive, and no step moves the CPU against the rules.
LEMMA NextKeeps == IInv /\ [Next]_vars => IInv' /\ CpuMoves
BY TickKeeps, FloppyIrqKeeps, ForkKeeps, SleepKeeps, WaitForIrqKeeps,
   FinishReadKeeps, ExitKeeps, StutterKeeps
DEF Next, Halted

\* The inductive invariant holds in every behaviour.
THEOREM Invariance == Spec => []IInv
<1>1. IInv /\ [Next]_vars => IInv'
  BY NextKeeps
<1> QED
  BY InitEstablishes, <1>1, PTL DEF Spec

\* The fields of every task and the globals keep to their ranges.
THEOREM TypeCorrect == Spec => []TypeOK
BY Invariance, PTL DEF IInv

\* Only the task that holds the CPU is ever marked as running.
THEOREM OneRunning == Spec => []OnlyCurrentRuns
BY Invariance, PTL DEF IInv

\* The scheduler can always fall back on the idle task.
THEOREM IdleIsAvailable == Spec => []IdleAvailable
BY Invariance, PTL DEF IInv

\* The parent that sys_exit() signals exists, is unique and alive.
THEOREM ParentIsAlive == Spec => []ParentAlive
BY Invariance, PTL DEF IInv

\* A sleeping task always has something to come that wakes it.
THEOREM NoWakeupLost == Spec => []NoLostSleeper
BY Invariance, PTL DEF IInv

\* The kernel panics for a full wait queue only.
THEOREM PanicsOnlyWhenFull == Spec => []PanicOnlyQueueFull
BY Invariance, PTL DEF IInv

\* A task that left the list never gets the CPU again.
THEOREM RemovedStaysOff == Spec => RemovedNeverResumes
<1>1. IInv /\ [Next]_vars => [cur' # cur => cur' \in list']_vars
  BY NextKeeps DEF CpuMoves
<1> QED
  BY Invariance, <1>1, PTL DEF Spec, RemovedNeverResumes

\* The idle task is given the CPU only when no other task can run.
THEOREM IdleIsLast == Spec => IdleOnlyIfNothingElse
<1>1. IInv /\ [Next]_vars
        => [cur' = Idle /\ cur # Idle => Eligible(state', list') = {}]_vars
  BY NextKeeps DEF CpuMoves
<1> QED
  BY Invariance, <1>1, PTL DEF Spec, IdleOnlyIfNothingElse

=============================================================================
