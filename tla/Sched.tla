------------------------------- MODULE Sched -------------------------------
(***************************************************************************)
(* The process scheduler of the CybOS kernel (schedule.c), with the two    *)
(* interrupts that drive it: the timer (timer.c) and the floppy controller *)
(* (floppy.c), whose wait queue is the only one the kernel has.            *)
(*                                                                         *)
(* Every entry into the kernel disables interrupts (isr.S) and nothing on  *)
(* the modelled paths enables them before the final iret, except idle().   *)
(* A step of the model is therefore a whole kernel entry: from the trap or *)
(* interrupt to the iret, including the switch to another task and the     *)
(* signal handling that task does first.  The one code path that stops in  *)
(* the middle is the floppy driver: a task that sleeps in it resumes       *)
(* inside the kernel, with interrupts disabled, and is then the only one   *)
(* that can step.                                                          *)
(*                                                                         *)
(* Tasks are numbered in the order of creation.  sched_add_task appends    *)
(* and sched_remove_task unlinks, so the order of the linked task list is  *)
(* the order of these numbers and the list is modelled as a set of them.   *)
(***************************************************************************)
EXTENDS Integers, FiniteSets

CONSTANTS MaxTasks,       \* bound: task structures created in one behaviour
          MaxPid,         \* MAX_PID
          Slots,          \* MAX_WAITQUEUE_TASKS
          ScheduleTicks,  \* SCHEDULE_TICKS, the timer ticks in a time slice
          SleepTimes      \* the arguments tasks give to sleep()

ASSUME SchedAssumption ==
  /\ MaxTasks \in Nat \ {0}
  /\ MaxPid \in Nat /\ MaxTasks <= MaxPid   \* no wrap-around of the pids
  /\ Slots \in Nat \ {0}
  /\ ScheduleTicks \in Nat \ {0}
  /\ SleepTimes \subseteq Nat

Task    == 0 .. MaxTasks - 1
Idle    == 0                   \* _idle_task: the first task of the list
NoTask  == -1                  \* NULL in a slot of a wait queue
PidIdle == 0

\* task_t.state
Initialising == "i"
Runnable     == "r"
Running      == "R"
Sleeping     == "S"            \* TASK_STATE_INTERRUPTABLE
Zombie       == "Z"
TaskState    == {Initialising, Runnable, Running, Sleeping, Zombie}

\* The signals the kernel raises; a lower number has a higher priority.
SIGALRM == 14
SIGCHLD == 17
Signal  == {SIGALRM, SIGCHLD}

VARIABLES
  created,  \* number of task structures created so far
  list,     \* the tasks linked in _task_list
  state,    \* task_t.state
  alarm,    \* task_t.alarm
  signal,   \* task_t.signal, as a set
  pid,      \* task_t.pid
  ppid,     \* task_t.ppid
  resume,   \* where a task continues when it gets the CPU (see Resumed)
  cur,      \* _current_task
  lastPid,  \* current_pid, the last pid handed out
  ticks,    \* _schedule_ticks
  slots,    \* fdc_wait_queue.task
  fdcIrq,   \* the floppy controller will raise the interrupt of a command
  mode,     \* "run"; "spin" and "panic" when the kernel stopped for good
  dozing    \* history: tasks whose latest sleep() was for 0 ms

taskVars == <<created, list, pid, ppid, lastPid>>
fdcVars  == <<slots, fdcIrq>>
cpuVars  == <<state, signal, resume, cur, mode>>
vars     == <<taskVars, fdcVars, cpuVars, alarm, ticks, dozing>>

----------------------------------------------------------------------------
(* Helpers *)

\* The first task of a set in list order; the lowest bit set (bsf).
First(S) == CHOOSE x \in S : \A y \in S : x <= y

\* Mutant: the walk still reaches tasks that were unlinked.
EligibleUnlinked(st, lst) == {t \in Task \ {Idle} : st[t] = Runnable}

\* The tasks get_next_runnable_task() may return.
Eligible(st, lst) == {t \in lst \ {Idle} : st[t] = Runnable}

\* Mutant: the search gives up at the end of the list.
NextTaskNoWrap(st, lst) ==
  LET behind == {t \in Eligible(st, lst) : t > cur}
  IN  IF behind # {} THEN First(behind) ELSE Idle

\* Mutant: the search always starts at the head of the list.
NextTaskFromHead(st, lst) ==
  IF Eligible(st, lst) = {} THEN Idle ELSE First(Eligible(st, lst))

\* The search starts behind the current task and wraps around to the head.
NextTask(st, lst) ==
  LET eligible == Eligible(st, lst)
      behind   == {t \in eligible : t > cur}
  IN  IF behind # {} THEN First(behind)
      ELSE IF eligible # {} THEN First(eligible)
      ELSE Idle

\* The search stops at a runnable task or back at the task it started from,
\* and it never comes back to a task that has left the list.
SearchEnds(st, lst) == Eligible(st, lst) # {} \/ cur \in lst

(***************************************************************************)
(* Where a task continues: "new" is a forked child that never ran (it      *)
(* returns straight to user mode), "user" is code outside the kernel,      *)
(* "sleep" is the end of sys_sleep, "wait" is the floppy driver behind     *)
(* fdc_wait_for_irq, "exit" is the code behind reschedule in sys_exit.     *)
(***************************************************************************)
ResumePoint == {"new", "user", "sleep", "wait", "exit"}
Resumed(p)  == IF p \in {"new", "sleep"} THEN "user" ELSE p

\* Mutant: the signal is looked up (bsf) but not cleared (btr).
HandleNone(sg, t) == sg

\* handle_pending_signals(): one signal of the current task is consumed.
HandleOne(sg, t) ==
  IF sg[t] = {} THEN sg ELSE [sg EXCEPT ![t] = @ \ {First(@)}]

----------------------------------------------------------------------------
(* reschedule(): switch_task() and handle_pending_signals().  st, sg, lst  *)
(* and rp are the states, signals, task list and resume points at the call *)

\* Mutant: the task that is left is not demoted.
PreemptedNot(st) == st

\* Only a task that was still running becomes available again.
Preempted(st) ==
  [st EXCEPT ![cur] = IF @ = Running THEN Runnable ELSE @]

\* The current task goes on.
Stay(st, sg, rp) ==
  /\ cur' = cur
  /\ state' = st
  /\ signal' = HandleOne(sg, cur)
  /\ resume' = [rp EXCEPT ![cur] = Resumed(@)]
  /\ mode' = mode

\* A pending signal keeps the current task on the CPU, whatever its state.
Declined(st, sg, rp) == sg[cur] # {} /\ Stay(st, sg, rp)

\* No other task to run.
NoOther(st, sg, lst, rp) ==
  /\ sg[cur] = {}
  /\ SearchEnds(Preempted(st), lst)
  /\ NextTask(Preempted(st), lst) = cur
  /\ Stay(Preempted(st), sg, rp)

\* get_next_runnable_task() walks the list for ever, interrupts disabled.
Spins(st, sg, lst, rp) ==
  /\ sg[cur] = {}
  /\ ~SearchEnds(Preempted(st), lst)
  /\ mode' = "spin"
  /\ state' = Preempted(st)
  /\ signal' = sg
  /\ resume' = rp
  /\ cur' = cur

\* Mutant: the idle task is marked as running as well.
SwitchToMarksIdle(next, st, sg, rp) ==
  /\ cur' = next
  /\ state' = [st EXCEPT ![next] = Running]
  /\ signal' = IF rp[next] = "new" THEN sg ELSE HandleOne(sg, next)
  /\ resume' = [rp EXCEPT ![next] = Resumed(@)]
  /\ mode' = mode

\* Another task gets the CPU; unless it never ran before it returns into
\* reschedule() and handles one of its signals.
SwitchTo(next, st, sg, rp) ==
  /\ cur' = next
  /\ state' = IF next = Idle THEN st ELSE [st EXCEPT ![next] = Running]
  /\ signal' = IF rp[next] = "new" THEN sg ELSE HandleOne(sg, next)
  /\ resume' = [rp EXCEPT ![next] = Resumed(@)]
  /\ mode' = mode

Switches(st, sg, lst, rp) ==
  /\ sg[cur] = {}
  /\ SearchEnds(Preempted(st), lst)
  /\ NextTask(Preempted(st), lst) # cur
  /\ SwitchTo(NextTask(Preempted(st), lst), Preempted(st), sg, rp)

Reschedule(st, sg, lst, rp) ==
  \/ Declined(st, sg, rp)
  \/ NoOther(st, sg, lst, rp)
  \/ Spins(st, sg, lst, rp)
  \/ Switches(st, sg, lst, rp)

----------------------------------------------------------------------------
(* Initially: sched_init() made the idle task, switch_to_usermode() made   *)
(* it current.                                                             *)

Init ==
  /\ created = 1
  /\ list = {Idle}
  /\ state = [t \in Task |-> IF t = Idle THEN Runnable ELSE Initialising]
  /\ alarm = [t \in Task |-> 0]
  /\ signal = [t \in Task |-> {}]
  /\ pid = [t \in Task |-> 0]
  /\ ppid = [t \in Task |-> 0]
  /\ resume = [t \in Task |-> IF t = Idle THEN "user" ELSE "new"]
  /\ cur = Idle
  /\ lastPid = PidIdle
  /\ ticks = ScheduleTicks
  /\ slots = [i \in 1 .. Slots |-> NoTask]
  /\ fdcIrq = FALSE
  /\ mode = "run"
  /\ dozing = {}

\* Interrupts reach the CPU except inside the floppy driver.
IrqEnabled == mode = "run" /\ resume[cur] # "wait"

\* A program is running and can make a system call.
InUser == mode = "run" /\ cur # Idle /\ resume[cur] = "user"

\* A task is in the floppy driver, behind fdc_wait_for_irq().
InDriver == mode = "run" /\ resume[cur] = "wait"

----------------------------------------------------------------------------
(* The timer interrupt *)

\* The tasks global_task_administration() looks after.
Administered == {t \in list \ {Idle} : state[t] # Initialising}

\* Mutant: the test for a running alarm is dropped.
AlarmUnderflow ==
  [t \in Task |-> IF t \in Administered THEN alarm[t] - 1 ELSE alarm[t]]

AlarmAfterTick ==
  [t \in Task |-> IF t \in Administered /\ alarm[t] > 0
                  THEN alarm[t] - 1 ELSE alarm[t]]

SignalAfterTick ==
  [t \in Task |-> IF t \in Administered /\ alarm[t] = 1
                  THEN signal[t] \cup {SIGALRM} ELSE signal[t]]

\* Mutant: the alarm is raised, its task is not woken.
StateNotWoken == state

\* A signal wakes a task from an interruptible sleep.
StateAfterTick ==
  [t \in Task |-> IF /\ t \in Administered
                     /\ SignalAfterTick[t] # {}
                     /\ state[t] = Sleeping
                  THEN Runnable ELSE state[t]]

Tick ==
  /\ IrqEnabled
  /\ alarm' = AlarmAfterTick
  /\ \/ /\ ticks > 1
        /\ ticks' = ticks - 1
        /\ state' = StateAfterTick
        /\ signal' = SignalAfterTick
        /\ UNCHANGED <<resume, cur, mode>>
     \/ /\ ticks = 1
        /\ ticks' = ScheduleTicks
        /\ Reschedule(StateAfterTick, SignalAfterTick, list, resume)
  /\ UNCHANGED <<taskVars, fdcVars, dozing>>

----------------------------------------------------------------------------
(* The floppy interrupt *)

\* sched_wakeup(): every task on the queue becomes runnable, whatever it is
\* doing now, and the queue is emptied.
Woken == {t \in Task : \E i \in 1 .. Slots : slots[i] = t}

\* Mutant: only the first slot is looked at before the queue is emptied.
StateFirstWoken ==
  [t \in Task |-> IF slots[1] = t THEN Runnable ELSE state[t]]

StateAfterWakeup ==
  [t \in Task |-> IF t \in Woken THEN Runnable ELSE state[t]]

FloppyIrq ==
  /\ IrqEnabled
  /\ fdcIrq
  /\ fdcIrq' = FALSE
  /\ slots' = [i \in 1 .. Slots |-> NoTask]
  /\ Reschedule(StateAfterWakeup, signal, list, resume)
  /\ UNCHANGED <<taskVars, alarm, ticks, dozing>>

----------------------------------------------------------------------------
(* System calls *)

\* allocate_new_pid() skips the pids of all tasks but the last of the list.
CheckedPids  == {pid[t] : t \in {u \in list : \E v \in list : u < v}}
PidAfter(d)  == (lastPid + d) % (MaxPid + 1)
AllocatedPid == PidAfter(First({d \in 1 .. MaxPid + 1 :
                                  PidAfter(d) \notin CheckedPids}))

\* sys_fork(): the child is a copy of its parent but for the fields set.
\* The idle task forks once, to make the init task (kernel_entry).
Fork ==
  /\ InUser \/ (mode = "run" /\ cur = Idle /\ created = 1)
  /\ created < MaxTasks
  /\ created' = created + 1
  /\ list' = list \cup {created}
  /\ lastPid' = AllocatedPid
  /\ pid' = [pid EXCEPT ![created] = AllocatedPid]
  /\ ppid' = [ppid EXCEPT ![created] = pid[cur]]
  /\ state' = [state EXCEPT ![created] = Runnable]
  /\ alarm' = [alarm EXCEPT ![created] = alarm[cur]]
  /\ signal' = [signal EXCEPT ![created] = signal[cur]]
  /\ resume' = [resume EXCEPT ![created] = "new"]
  /\ UNCHANGED <<fdcVars, cur, mode, ticks, dozing>>

\* sys_sleep()
Sleep(ms) ==
  /\ InUser
  /\ alarm' = [alarm EXCEPT ![cur] = ms]
  /\ dozing' = IF ms = 0 THEN dozing \cup {cur} ELSE dozing \ {cur}
  /\ Reschedule([state EXCEPT ![cur] = Sleeping], signal, list,
                [resume EXCEPT ![cur] = "sleep"])
  /\ UNCHANGED <<taskVars, fdcVars, ticks>>

FreeSlots == {i \in 1 .. Slots : slots[i] = NoTask}

\* The driver sends a command to the controller and calls
\* sched_interruptable_sleep() by way of fdc_wait_for_irq().
WaitForIrq ==
  /\ InUser \/ InDriver
  /\ fdcIrq' = TRUE
  /\ \/ /\ FreeSlots # {}
        /\ slots' = [slots EXCEPT ![First(FreeSlots)] = cur]
        /\ Reschedule([state EXCEPT ![cur] = Sleeping], signal, list,
                      [resume EXCEPT ![cur] = "wait"])
     \/ /\ FreeSlots = {}
        /\ mode' = "panic"
        /\ UNCHANGED <<slots, state, signal, resume, cur>>
  /\ UNCHANGED <<taskVars, alarm, ticks, dozing>>

\* The driver is done and the system call returns to the program.
FinishRead ==
  /\ InDriver
  /\ resume' = [resume EXCEPT ![cur] = "user"]
  /\ UNCHANGED <<taskVars, fdcVars, state, signal, cur, mode, alarm, ticks,
                 dozing>>

\* sched_get_task(pid)
WithPid(p) == {t \in list : pid[t] = p}

\* Mutant: the children keep the pid of the parent that exits.
PpidKept == ppid

\* sys_exit(): the children become orphans.
OrphanedPpid ==
  [t \in Task |-> IF t \in list /\ ppid[t] = pid[cur] THEN 0 ELSE ppid[t]]

ExitResume == [resume EXCEPT ![cur] = "exit"]

\* The task has a parent: it stays in the list until the parent acknowledges.
ExitAsZombie ==
  /\ ppid[cur] > 0
  /\ list' = list
  /\ \/ /\ WithPid(ppid[cur]) # {}
        /\ Reschedule([state EXCEPT ![cur] = Zombie],
                      [signal EXCEPT ![First(WithPid(ppid[cur]))] =
                         @ \cup {SIGCHLD}],
                      list, ExitResume)
     \/ /\ WithPid(ppid[cur]) = {}
        /\ mode' = "panic"      \* sys_signal(NULL)
        /\ state' = [state EXCEPT ![cur] = Zombie]
        /\ UNCHANGED <<signal, resume, cur>>

\* The task has no parent: it leaves the list, still marked as running.
ExitAsOrphan ==
  /\ ppid[cur] = 0
  /\ list' = list \ {cur}
  /\ Reschedule(state, signal, list \ {cur}, ExitResume)

Exit ==
  /\ InUser
  /\ ppid' = OrphanedPpid
  /\ ExitAsZombie \/ ExitAsOrphan
  /\ UNCHANGED <<created, pid, lastPid, fdcVars, alarm, ticks, dozing>>

----------------------------------------------------------------------------

\* The kernel stopped: it loops with interrupts disabled.
Halted == mode # "run" /\ UNCHANGED vars

Next ==
  \/ Tick
  \/ FloppyIrq
  \/ Fork
  \/ \E ms \in SleepTimes : Sleep(ms)
  \/ WaitForIrq
  \/ FinishRead
  \/ Exit
  \/ Halted

Spec == Init /\ [][Next]_vars

Fairness ==
  /\ SF_vars(Tick)
  /\ SF_vars(FloppyIrq)
  /\ WF_vars(InDriver /\ (WaitForIrq \/ FinishRead))

FairSpec == Spec /\ Fairness

----------------------------------------------------------------------------
(* Properties *)

\* Type invariant: the fields of task_t and the globals of schedule.c keep to
\* their ranges; an alarm never runs below 0, where it would ring only after
\* 2^32 ticks.
TypeOK ==
  /\ created \in 1 .. MaxTasks
  /\ list \subseteq 0 .. created - 1
  /\ state \in [Task -> TaskState]
  /\ alarm \in [Task -> Nat]
  /\ signal \in [Task -> SUBSET Signal]
  /\ pid \in [Task -> 0 .. MaxPid]
  /\ ppid \in [Task -> 0 .. MaxPid]
  /\ resume \in [Task -> ResumePoint]
  /\ cur \in 0 .. created - 1
  /\ lastPid \in 0 .. MaxPid
  /\ ticks \in 1 .. ScheduleTicks
  /\ slots \in [1 .. Slots -> Task \cup {NoTask}]
  /\ fdcIrq \in BOOLEAN
  /\ mode \in {"run", "spin", "panic"}
  /\ dozing \subseteq Task

\* No two tasks are marked as running at once, whatever the interleaving of
\* time slices, sleeps, wake-ups and exits: one that is marked so holds the
\* CPU.  (switch_task() demotes the task it leaves, only if it was running.)
OnlyCurrentRuns == \A t \in Task : state[t] = Running => t = cur

\* switch_task() can always fall back on the idle task: it stays in the list,
\* never sleeps, is sent no signal, and no interrupt finds it in a queue.
IdleAvailable ==
  /\ Idle \in list /\ state[Idle] = Runnable /\ resume[Idle] = "user"
  /\ signal[Idle] = {} /\ alarm[Idle] = 0
  /\ \A i \in 1 .. Slots : slots[i] # Idle

\* The parent a live task would signal when it exits (sys_exit) is one live
\* task of the list, older than the task itself: sched_get_task(ppid) is
\* neither NULL nor a stranger nor a zombie.
ParentAlive ==
  \A t \in list : resume[t] # "exit" /\ ppid[t] # 0 =>
    \E p \in list : /\ p < t
                    /\ WithPid(ppid[t]) = {p}
                    /\ resume[p] # "exit"

\* What will wake a sleeping task: its alarm, or the interrupt of the queue it
\* is on; nothing wakes a task that asked for a sleep of 0 ms.
WakeupComes(t) ==
  \/ alarm[t] > 0
  \/ fdcIrq /\ t \in Woken
  \/ t \in dozing

\* No lost wake-up: a task of the list that is marked as sleeping still has its
\* alarm running or its interrupt outstanding, although signals, alarms and
\* interrupts wake it out of order and leave stale entries in the queue.
NoLostSleeper == \A t \in list : state[t] = Sleeping => WakeupComes(t)

\* The kernel stops for a full wait queue only; sys_exit() never signals a
\* parent that does not exist.
PanicOnlyQueueFull == mode = "panic" => FreeSlots = {}

\* A task that left the list never gets the CPU again, though its structure
\* still says it is runnable and the wait queue may still point to it.
RemovedNeverResumes == [][cur' # cur => cur' \in list']_vars

\* The CPU goes from a task to the idle task only when no other is runnable.
IdleOnlyIfNothingElse ==
  [][cur' = Idle /\ cur # Idle => Eligible(state', list') = {}]_vars

Stopped == mode # "run"

\* No starvation: a runnable task of the list gets the CPU, or the kernel
\* stops.  Round robin gives it its turn, whatever the others do.
RunnableRuns ==
  \A t \in Task \ {Idle} :
    t \in list /\ state[t] = Runnable
      ~> cur = t \/ state[t] # Runnable \/ t \notin list \/ Stopped

\* A sleeper with an alarm running or its interrupt outstanding wakes up.
SleeperWakes ==
  \A t \in Task :
    t \in list /\ state[t] = Sleeping /\ t \notin dozing
      ~> state[t] # Sleeping \/ t \notin list \/ t \in dozing \/ Stopped

\* Every signal sent to a live task is consumed, even to one that sleeps or
\* that is not running when the signal is raised.
SignalHandled ==
  \A t \in Task, s \in Signal :
    s \in signal[t] ~> s \notin signal[t] \/ resume[t] = "exit" \/ Stopped

\* Stated at the end of sys_exit(): "We never come here since we are
\* rescheduling and this task is not available anymore."  The code does.
ExitedNeverRuns == mode = "run" => resume[cur] # "exit"

\* Stated above get_next_runnable_task(): it fetches the next runnable task,
\* "OR NULL when no runnable process is found".  It may not return at all.
SearchReturns == mode # "spin"

=============================================================================
