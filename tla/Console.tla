------------------------------ MODULE Console ------------------------------
(* The consoles of conio.c and console.c: a list of screen buffers, one of   *)
(* which is on the screen.  Output goes to a buffer and marks a block of it  *)
(* as changed; a flush copies the block to video memory when the console is  *)
(* the current one.  This module has the operations; the steps that use them *)
(* are in Keyboard.  Characters stand for what is drawn; colours, palettes   *)
(* and the cursor of the VGA controller are left out.                        *)
EXTENDS Integers, FiniteSets

CONSTANTS
  Width, Height,  \* max_px and max_py
  PosSize,        \* number of values of a Uint8 position, 256 in the code
  MaxConsoles,    \* bound: consoles created, console 0 is the construct
  Bar             \* what the bar shows when a console is chosen with it

ASSUME ConsoleAssumption ==
  /\ Width \in Nat \ {0, 1} /\ Height \in Nat \ {0, 1}
  /\ PosSize \in Nat /\ PosSize > Width /\ PosSize > Height
  /\ MaxConsoles \in Nat \ {0}

Consoles == 0 .. MaxConsoles - 1
NoConsole == -1
Construct == 0

Cells == 0 .. Width * Height - 1
Cell(x, y) == y * Width + x
LastLine == {Cell(x, Height - 1) : x \in 0 .. Width - 1}

Blank == " "
Empty == "0"       \* what the line that scrolls in is filled with
NoFlush == 0
Partial == 1
WholeScreen == 2
FlushModes == {NoFlush, Partial, WholeScreen}

(* What is fresh in the memory of a new console is the flush mode; the block *)
(* it goes with is taken to be zero.                                         *)
NewConsole(mode) ==
  [next |-> NoConsole, prev |-> NoConsole, px |-> 0, py |-> 0, flush |-> mode,
   sx |-> 0, sy |-> 0, ex |-> 0, ey |-> 0, buf |-> [k \in Cells |-> Blank]]

-----------------------------------------------------------------------------
(* Drawing into a buffer. *)

Least(a, b) == IF a < b THEN a ELSE b
Most(a, b) == IF a > b THEN a ELSE b

\* A position behind the buffer is another block of the heap.
Plot(c, x, y, ch) ==
  [c EXCEPT !.buf = IF Cell(x, y) \in Cells THEN [@ EXCEPT ![Cell(x, y)] = ch]
                                           ELSE @,
            !.flush = IF @ = NoFlush THEN Partial ELSE @,
            !.sx = Least(@, x), !.ex = Most(@, x),
            !.sy = Least(@, y), !.ey = Most(@, y)]

ScrollUp(c) ==
  [c EXCEPT !.flush = WholeScreen,
            !.buf = [k \in Cells |-> IF k + Width \in Cells THEN @[k + Width]
                                     ELSE Empty]]

LineDown(c) ==
  IF c.py = Height - 1 THEN [ScrollUp(c) EXCEPT !.px = 0]
                       ELSE [c EXCEPT !.px = 0, !.py = (@ + 1) % PosSize]

DirectPutch(c, ch) ==
  LET plotted == Plot(c, c.px, c.py, ch)
      px == (c.px + 1) % PosSize
  IN IF px = Width THEN LineDown(plotted) ELSE [plotted EXCEPT !.px = px]

\* Mutant: it goes on above the first line.
BackspaceAnywhere(c) ==
  LET back == IF c.px = 0 THEN [c EXCEPT !.py = @ - 1, !.px = Width]
                          ELSE [c EXCEPT !.px = @ - 1]
  IN Plot(back, back.px, back.py, Blank)

\* In the first column it plots behind the end of the line above.
Backspace(c) ==
  LET back == IF c.px = 0 THEN [c EXCEPT !.py = @ - 1, !.px = Width]
                          ELSE [c EXCEPT !.px = @ - 1]
  IN IF c.px = 0 /\ c.py = 0 THEN c ELSE Plot(back, back.px, back.py, Blank)

Putch(c, ch) ==
  CASE ch = "newline"   -> LineDown(c)
    [] ch = "return"    -> [c EXCEPT !.px = 0]
    [] ch = "backspace" -> Backspace(c)
    [] OTHER            -> DirectPutch(c, ch)

SetXY(c, x, y) ==
  IF x < Width /\ y < Height THEN [c EXCEPT !.px = x, !.py = y] ELSE c

-----------------------------------------------------------------------------
(* Showing a buffer.  s has the consoles (con) and the screen; bar is what   *)
(* the bar of a console switch shows, Blank when there is none.              *)

\* The cells of the block a partial flush copies: each row from the first
\* changed column up to the last one, which is not copied.
Block(c) ==
  {k \in Cells : \E y \in c.sy .. c.ey :
     /\ Cell(c.sx, y) <= k
     /\ k < Cell(c.sx, y) + (c.ex - c.sx)}

Flushed(c) == CASE c.flush = WholeScreen -> Cells
                [] c.flush = Partial     -> Block(c)
                [] OTHER                 -> {}

FlushBlock(s, id) ==
  LET c == s.con[id] IN
  IF c.flush = NoFlush THEN s
  ELSE [con |-> [s.con EXCEPT ![id].flush = NoFlush,
                              ![id].sx = Width, ![id].sy = Height,
                              ![id].ex = 0, ![id].ey = 0],
        screen |-> [k \in Cells |-> IF k \in Flushed(c) THEN c.buf[k]
                                                        ELSE s.screen[k]]]

UpdateScreen(s, id, bar) ==
  IF bar = Blank THEN FlushBlock(s, id)
  ELSE LET drawn == FlushBlock([s EXCEPT !.con[id].flush = WholeScreen], id)
       IN [drawn EXCEPT !.screen = [k \in Cells |-> IF k \in LastLine THEN bar
                                                                  ELSE @[k]]]

\* Mutant: the console does not have to be the one on the screen.
FlushAny(s, id, current, bar) == UpdateScreen(s, id, bar)

Flush(s, id, current, bar) ==
  IF current = id THEN UpdateScreen(s, id, bar) ELSE s

\* The caller makes id the current console.
SwitchConsole(s, id, bar) ==
  LET shown == UpdateScreen(s, id, bar)
  IN [shown EXCEPT !.con[id] = SetXY(@, @.px, @.py)]

Clear(s, id, current, bar) ==
  LET cleared == [s EXCEPT !.con[id] =
        SetXY([@ EXCEPT !.buf = [k \in Cells |-> Blank], !.flush = WholeScreen],
              0, 0)]
  IN Flush(cleared, id, current, bar)

-----------------------------------------------------------------------------
(* The list of consoles.  Its head is the construct. *)

NextConsole(con, id) ==
  IF con[id].next # NoConsole THEN con[id].next ELSE Construct

\* The consoles from one on to the end of the list.
Walk(con, id) ==
  LET at[n \in 0 .. MaxConsoles] ==
        IF n = 0 THEN id
        ELSE IF at[n - 1] = NoConsole THEN NoConsole ELSE con[at[n - 1]].next
  IN {at[n] : n \in 0 .. MaxConsoles} \ {NoConsole}

LastConsole(con) == CHOOSE id \in Walk(con, Construct) : con[id].next = NoConsole

Link(con, new, console) ==
  LET last == LastConsole(con)
  IN [id \in DOMAIN con \cup {new} |->
        CASE id = new  -> [console EXCEPT !.prev = last]
          [] id = last -> [con[id] EXCEPT !.next = new]
          [] OTHER     -> con[id]]

\* Mutant: only the neighbour before it is written to.
UnlinkForward(con, id) ==
  LET p == con[id].prev
  IN [k \in DOMAIN con |-> IF k = p THEN [con[k] EXCEPT !.next = con[id].next]
                                     ELSE con[k]]

\* Both neighbours are written to, the NULL pointers of the ends of the list
\* included, which lead to the first page of memory.
Unlink(con, id) ==
  LET p == con[id].prev
      n == con[id].next
  IN [k \in DOMAIN con |->
        CASE k = p -> [con[k] EXCEPT !.next = n]
          [] k = n -> [con[k] EXCEPT !.prev = p]
          [] OTHER -> con[k]]
=============================================================================
