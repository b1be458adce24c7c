----------------------------- MODULE TaskList ------------------------------
(***************************************************************************)
(* The task list as schedule.c links it: sched_add_task(),                 *)
(* sched_remove_task() and the walk of get_next_runnable_task(), down to   *)
(* the next and prev pointers.  A task that was removed keeps its own      *)
(* pointers, and the walk may start from it once: sys_exit() removes the   *)
(* current task and reschedules at once.                                   *)
(*                                                                         *)
(* The module implements TaskSeq, and its walk finds the task that         *)
(* Sched!NextTask picks from a set.                                        *)
(***************************************************************************)
EXTENDS Integers, FiniteSets, Sequences

CONSTANT MaxTasks     \* bound: task structures created in one behaviour

ASSUME TaskListAssumption == MaxTasks \in Nat \ {0}

Task == 0 .. MaxTasks - 1
Idle == 0
NULL == -1

VARIABLES
  created,   \* number of task structures created so far
  head,      \* _task_list
  next,      \* task_t.next
  prev,      \* task_t.prev
  exiting    \* the task just removed, still the current one, or NULL

vars == <<created, head, next, prev, exiting>>

\* The first n tasks of a walk along the next pointers; NULL when it ended.
Walk(n) ==
  LET at[i \in 0 .. n - 1] ==
        IF i = 0 THEN head
        ELSE IF at[i - 1] = NULL THEN NULL ELSE next[at[i - 1]]
  IN  at

\* The list as its readers see it: every loop over it starts at the head.
Linked ==
  LET at == Walk(MaxTasks + 1)
      length == Cardinality({i \in 0 .. MaxTasks : at[i] # NULL})
  IN  [i \in 1 .. length |-> at[i - 1]]

LinkedSet == {Linked[i] : i \in 1 .. Len(Linked)}

Last == Linked[Len(Linked)]

Init ==
  /\ created = 0
  /\ head = NULL
  /\ next = [t \in Task |-> NULL]
  /\ prev = [t \in Task |-> NULL]
  /\ exiting = NULL

\* Mutant: a new task is linked behind the idle task.
AddTaskInFront ==
  /\ created < MaxTasks
  /\ created' = created + 1
  /\ exiting' = NULL
  /\ head' = IF head = NULL THEN created ELSE head
  /\ next' = IF head = NULL THEN next
             ELSE [next EXCEPT ![head] = created, ![created] = next[head]]
  /\ prev' = [t \in Task |-> IF t = created THEN head
                            ELSE IF head # NULL /\ t = next[head] THEN created
                            ELSE prev[t]]

\* sched_add_task() of a new structure.  fork() copies the whole structure of
\* its parent, so the pointers of the new task are those of another at first.
AddTask ==
  /\ created < MaxTasks
  /\ created' = created + 1
  /\ exiting' = NULL
  /\ IF head = NULL
     THEN /\ head' = created
          /\ next' = [next EXCEPT ![created] = NULL]
          /\ prev' = [prev EXCEPT ![created] = NULL]
     ELSE /\ head' = head
          /\ next' = [next EXCEPT ![Last] = created, ![created] = NULL]
          /\ prev' = [prev EXCEPT ![created] = Last]

\* Mutant: the task behind the removed one keeps its link back.
RemoveTaskHalf(t) ==
  /\ exiting' = t
  /\ next' = [next EXCEPT ![prev[t]] = next[t]]
  /\ UNCHANGED <<created, head, prev>>

\* sched_remove_task().
RemoveTask(t) ==
  /\ exiting' = t
  /\ created' = created
  /\ \/ /\ next[t] = NULL
        /\ next' = [next EXCEPT ![prev[t]] = NULL]
        /\ UNCHANGED <<head, prev>>
     \/ /\ next[t] # NULL /\ prev[t] = NULL
        /\ head' = next[t]
        /\ prev' = [prev EXCEPT ![t] = NULL]
        /\ next' = next
     \/ /\ next[t] # NULL /\ prev[t] # NULL
        /\ next' = [next EXCEPT ![prev[t]] = next[t]]
        /\ prev' = [prev EXCEPT ![next[t]] = prev[t]]
        /\ head' = head

\* sys_exit() removes the current task, which is linked; the idle task panics.
Remove == \E t \in LinkedSet \ {Idle} : RemoveTask(t)

Next == AddTask \/ Remove

Spec == Init /\ [][Next]_vars

----------------------------------------------------------------------------
(* get_next_runnable_task() *)

\* Mutant: the walk wraps around to the second task, to skip the idle task.
SuccSkipsIdle(t) ==
  IF next[t] # NULL THEN next[t]
  ELSE IF next[head] # NULL THEN next[head] ELSE head

\* One step of the walk: to the next task or around to the head.
Succ(t) == IF next[t] # NULL THEN next[t] ELSE head

\* Where the walk that starts at a task is after up to two rounds.
Path(t) ==
  LET at[i \in 0 .. 2 * MaxTasks] == IF i = 0 THEN t ELSE Succ(at[i - 1])
  IN  at

Loops == -2

\* What the search finds from a task when the tasks of a set are runnable:
\* one of them, NULL when it comes back to the start, or Loops.
Search(start, runnable) ==
  LET path  == Path(start)
      stops == {i \in 1 .. 2 * MaxTasks :
                  path[i] \in runnable \ {Idle} \/ path[i] = start}
      stop  == CHOOSE i \in stops : \A j \in stops : i <= j
  IN  IF prev[start] = NULL /\ next[start] = NULL THEN start
      ELSE IF stops = {} THEN Loops
      ELSE IF path[stop] \in runnable \ {Idle} THEN path[stop]
      ELSE NULL

\* What switch_task() makes of it: the idle task runs if nothing else does.
Found(start, runnable) ==
  LET found == Search(start, runnable) IN IF found = NULL THEN Idle ELSE found

----------------------------------------------------------------------------
(* Properties *)

\* The backward pointers of the linked tasks mirror the forward ones, after
\* any order of additions and removals: sched_remove_task() relies on them to
\* unlink, and a wrong one would cut or loop the list at a later exit.
BackLinks ==
  \A i \in 1 .. Len(Linked) :
    prev[Linked[i]] = IF i = 1 THEN NULL ELSE Linked[i - 1]

\* The search of the code, through the pointers, finds what Sched picks from
\* the set of linked tasks: the first runnable task behind the start, else the
\* first runnable one, else the idle task.  It also does so from a task that
\* was just removed, through its stale pointers, and loops only from there.
SearchAgrees ==
  \A start \in LinkedSet \cup ({exiting} \ {NULL}), R \in SUBSET LinkedSet :
    LET FirstOf(S) == CHOOSE x \in S : \A y \in S : x <= y
        eligible == R \ {Idle}
        behind   == {t \in eligible : t > start}
    IN  Found(start, R) =
          IF behind # {} THEN FirstOf(behind)
          ELSE IF eligible # {} THEN FirstOf(eligible)
          ELSE IF start \in LinkedSet THEN Idle
          ELSE Loops

\* The linked list implements the sequence.
Abstract == INSTANCE TaskSeq WITH tasks <- Linked
ImplementsTaskSeq == Abstract!Spec

=============================================================================
