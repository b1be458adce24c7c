---------------------------- MODULE ProcessMemory ----------------------------
(***************************************************************************)
(* What fork() and execve() promise of the memory a process has to itself: *)
(* a child starts with what its parent has, and from then on each changes  *)
(* its own memory only.                                                    *)
(***************************************************************************)

CONSTANTS Proc,       \* the processes that may exist
          Page,       \* the virtual pages
          StackPage   \* those of the stack, which execve() leaves alone

VARIABLES procs,      \* the processes that exist
          view        \* what each process finds in each of its pages

vars == <<procs, view>>

\* The idle process is the only one.
Init == \E p \in Proc : procs = {p}

Fork(p, c) ==
  /\ procs' = procs \cup {c}
  /\ \A q \in Proc : view'[q] = IF q = c THEN view[p] ELSE view[q]

\* What the other processes have stays as it is.
OnlyOf(p) == procs' = procs /\ \A q \in Proc \ {p} : view'[q] = view[q]

Keeps(p, pages) ==
  LET old == view[p]
      new == view'[p]
  IN  \A v \in pages : new[v] = old[v]

Write(p) == OnlyOf(p) /\ \E v \in Page : Keeps(p, Page \ {v})

Load(p) == OnlyOf(p) /\ Keeps(p, StackPage)

Next ==
  \E p \in procs : (\E c \in Proc \ procs : Fork(p, c)) \/ Write(p) \/ Load(p)

Spec == Init /\ [][Next]_vars

=============================================================================
