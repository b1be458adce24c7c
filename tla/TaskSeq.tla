------------------------------ MODULE TaskSeq ------------------------------
(***************************************************************************)
(* What the rest of the kernel relies on of the task list: it is a         *)
(* sequence of the tasks in the order of their creation.  Sched keeps this *)
(* sequence as a set, since the order of the numbers is the order of the   *)
(* list.                                                                   *)
(***************************************************************************)
EXTENDS Integers, Sequences

CONSTANT MaxTasks     \* bound: task structures created in one behaviour

VARIABLES created, tasks

vars == <<created, tasks>>

Init == created = 0 /\ tasks = <<>>

Add ==
  /\ created < MaxTasks
  /\ created' = created + 1
  /\ tasks' = Append(tasks, created)

\* Any task but the first, the idle task, can be removed.
Remove ==
  \E i \in 2 .. Len(tasks) :
    /\ tasks' = SubSeq(tasks, 1, i - 1) \o SubSeq(tasks, i + 1, Len(tasks))
    /\ created' = created

Next == Add \/ Remove

Spec == Init /\ [][Next]_vars

=============================================================================
