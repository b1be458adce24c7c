------------------------------ MODULE Keyboard ------------------------------
(* The keyboard interrupt, the buffer of keys and the console switch of      *)
(* keyboard.c over the consoles of console.c and conio.c, and the calls that *)
(* write to them.  The interrupt and the calls of programs run with          *)
(* interrupts disabled and are one step each; keyboard_poll() is not: it     *)
(* takes a key in three.                                                     *)
EXTENDS Console, Sequences

CONSTANTS
  Keys,           \* the keys pressed
  Ascii,          \* scan2ascii_table: key and column to code, 0 for none
  Readers,        \* who polls the keyboard
  MaxKeybuf,      \* MAX_KEYBUF
  Chars,          \* what is written to a console
  Positions,      \* where a cursor is placed
  MaxEvents, MaxTyped  \* bounds: interrupts and calls, codes

VARIABLES
  flag,           \* KEY_CTRL, KEY_ALT, ...
  keybuf, keyptr, \* the buffer and the number of keys in it
  choosing,       \* in_console_switch
  chosen,         \* ctrltab_console
  con,            \* the consoles created, in the list or not
  current,        \* _current_console
  screen,         \* video memory
  pc, ch,         \* a reader: where it is in keyboard_poll(), the key it has
  halted,         \* the kernel has panicked
  typed, got,     \* history: codes put into the buffer, codes returned
  shared,         \* history: two readers were in keyboard_poll() at once
  alive,          \* history: consoles created and not destroyed
  twice,          \* history: a console was destroyed more than once
  events          \* bound: interrupts and calls

keyVars == <<flag, keybuf, keyptr, typed>>
switchVars == <<choosing, chosen, current>>
readVars == <<pc, ch, got, shared>>
vars == <<keyVars, switchVars, readVars, con, screen, halted, alive, twice,
          events>>

Flags == {"ctrl", "alt", "lshift", "rshift", "num", "caps", "scr"}
Codes == 0 .. 255

ASSUME KeyboardAssumption ==
  /\ Ascii \in [Keys -> [0 .. 5 -> Nat]]
  /\ MaxKeybuf \in Nat \ {0, 1}
  /\ Width >= 4
  /\ Positions \subseteq (0 .. PosSize - 1) \X (0 .. PosSize - 1)

Video == [con |-> con, screen |-> screen]

BarOf(active, id) == IF active THEN Bar[id] ELSE Blank

-----------------------------------------------------------------------------
(* Flags.  A case that does not end in a break goes on with the next one:    *)
(* ALT toggles caps lock, the key at 0x36 sets both shifts, and the locks    *)
(* toggle at the press and at the release.                                   *)

FlagsAfter(key, make) ==
  CASE key = "ctrl"   -> [flag EXCEPT !.ctrl = make]
    [] key = "alt"    -> [flag EXCEPT !.alt = make, !.caps = ~@]
    [] key = "caps"   -> [flag EXCEPT !.caps = ~@]
    [] key = "num"    -> [flag EXCEPT !.num = ~@]
    [] key = "scr"    -> [flag EXCEPT !.scr = ~@]
    [] key = "lshift" -> [flag EXCEPT !.lshift = make, !.rshift = make]
    [] key = "rshift" -> [flag EXCEPT !.rshift = make, !.lshift = make /\ @]
    [] OTHER          -> flag

\* The column of the table.
Column(f) ==
  CASE f.lshift \/ f.rshift -> 1
    [] f.ctrl -> 2
    [] f.alt  -> 3
    [] f.num  -> 4
    [] f.caps -> 5
    [] OTHER  -> 0

\* The codes of a key.  The second half of a long code is masked and not
\* shifted, so that the byte it is stored in gets nothing of it.
CodesOf(key, f) ==
  LET code == Ascii[key][Column(f)]
  IN CASE code = 0  -> <<>>
       [] code > 255 -> <<code % 256, ((code \div 256) * 256) % 256>>
       [] OTHER      -> <<code>>

\* A key is put into the buffer as a whole, or not at all.
StuffKey(codes) ==
  IF keyptr + Len(codes) >= MaxKeybuf
  THEN UNCHANGED <<keybuf, keyptr, typed>>
  ELSE /\ keybuf' = [k \in DOMAIN keybuf |->
                       IF k > keyptr /\ k <= keyptr + Len(codes)
                       THEN codes[k - keyptr] ELSE keybuf[k]]
       /\ keyptr' = keyptr + Len(codes)
       /\ typed' = typed \o codes

-----------------------------------------------------------------------------
(* The interrupt.  It shows the code it got, and at its end the flags, in    *)
(* the first line of the construct.                                          *)

CodeColumn == 2
CloseColumn == 3
FlagColumn == 1

ShowCode(s, make) ==
  [s EXCEPT !.con[Construct] =
     Plot(Plot(@, CodeColumn, 0, IF make THEN "m" ELSE "b"),
          CloseColumn, 0, "]")]

ShowFlags(s, f, cur) ==
  LET shown == [s EXCEPT !.con[Construct] =
                  Plot(@, FlagColumn, 0, IF f.ctrl THEN "C" ELSE "_")]
  IN Flush(shown, Construct, cur, Blank)

Draws(s) == con' = s.con /\ screen' = s.screen

Press(key, make) ==
  /\ ~halted /\ events < MaxEvents
  /\ events' = events + 1
  /\ flag' = FlagsAfter(key, make)
  /\ UNCHANGED <<readVars, halted, alive, twice>>

\* Mutant: there is nothing to end when the console did not change.
EndsOtherSwitch(key, make) ==
  key = "ctrl" /\ ~make /\ chosen \notin {NoConsole, current}

\* The first switch leaves its console in ctrltab_console for good.
EndsSwitch(key, make) == key = "ctrl" /\ ~make /\ chosen # NoConsole

\* CTRL is released: the console last chosen with the bar is shown, whether
\* it is being chosen or was chosen before.
SwitchFini(key) ==
  /\ EndsSwitch(key, FALSE)
  /\ Press(key, FALSE)
  /\ choosing' = FALSE
  /\ current' = chosen
  /\ LET s == SwitchConsole(ShowCode(Video, FALSE), chosen, Blank)
     IN Draws(ShowFlags(s, flag', chosen))
  /\ UNCHANGED <<chosen, keybuf, keyptr, typed>>

\* TAB while CTRL is down: the switch begins at the current console.
SwitchRun(key) ==
  /\ key = "tab" /\ (choosing \/ flag.ctrl)
  /\ Press(key, TRUE)
  /\ choosing' = TRUE
  /\ chosen' = NextConsole(con, IF choosing THEN chosen ELSE current)
  /\ Draws(UpdateScreen(ShowCode(Video, TRUE), current, Bar[chosen']))
  /\ UNCHANGED <<current, keybuf, keyptr, typed>>

\* Every other key is ignored while a console is chosen.
WhileChoosing(key, make) ==
  /\ choosing
  /\ Press(key, make)
  /\ ~EndsSwitch(key, make) /\ ~(key = "tab" /\ make)
  /\ Draws(ShowCode(Video, make))
  /\ UNCHANGED <<switchVars, keybuf, keyptr, typed>>

MakeKey(key) ==
  /\ ~choosing /\ ~(key = "tab" /\ flag.ctrl)
  /\ Press(key, TRUE)
  /\ StuffKey(CodesOf(key, flag')) /\ Len(typed') <= MaxTyped
  /\ Draws(ShowFlags(ShowCode(Video, TRUE), flag', current))
  /\ UNCHANGED switchVars

BreakKey(key) ==
  /\ ~choosing /\ ~EndsSwitch(key, FALSE)
  /\ Press(key, FALSE)
  /\ Draws(ShowFlags(ShowCode(Video, FALSE), flag', current))
  /\ UNCHANGED <<switchVars, keybuf, keyptr, typed>>

-----------------------------------------------------------------------------
(* keyboard_poll(): the wait for a key, the read of the first one, and the   *)
(* removal with interrupts disabled.  Between them comes anything.           *)

PollWaits(r) ==
  /\ ~halted /\ pc[r] = "idle" /\ keyptr # 0
  /\ pc' = [pc EXCEPT ![r] = "read"]
  /\ shared' = (shared \/ \E other \in Readers : pc[other] # "idle")
  /\ UNCHANGED <<keyVars, switchVars, ch, got, con, screen, halted, alive,
                 twice, events>>

PollReads(r) ==
  /\ ~halted /\ pc[r] = "read"
  /\ pc' = [pc EXCEPT ![r] = "take"]
  /\ ch' = [ch EXCEPT ![r] = keybuf[1]]
  /\ UNCHANGED <<keyVars, switchVars, got, shared, con, screen, halted, alive,
                 twice, events>>

\* Mutant: as many bytes are moved as keys stay behind the first.
ShiftedByKeys ==
  [k \in DOMAIN keybuf |-> IF k < keyptr - 1 THEN keybuf[k + 1] ELSE keybuf[k]]

Shifted ==
  [k \in DOMAIN keybuf |-> IF k < MaxKeybuf THEN keybuf[k + 1] ELSE keybuf[k]]

PollTakes(r) ==
  /\ ~halted /\ pc[r] = "take"
  /\ pc' = [pc EXCEPT ![r] = "idle"]
  /\ keybuf' = Shifted
  /\ keyptr' = IF keyptr # 0 THEN keyptr - 1 ELSE 0
  /\ got' = Append(got, ch[r])
  /\ ch' = [ch EXCEPT ![r] = 0]
  /\ UNCHANGED <<flag, typed, switchVars, shared, con, screen, halted, alive,
                 twice, events>>

-----------------------------------------------------------------------------
(* The calls of the kernel and of programs. *)

Call ==
  /\ ~halted /\ events < MaxEvents
  /\ events' = events + 1
  /\ UNCHANGED <<keyVars, readVars>>

CallKeepsList == Call /\ UNCHANGED <<switchVars, halted, alive, twice>>

CurrentBar == BarOf(choosing, chosen)

\* sys_conwrite(), and what con_printf() and kprintf() do with a character;
\* they flush at the end of the string.
Write(id, char, flush) ==
  /\ CallKeepsList
  /\ LET s == [Video EXCEPT !.con[id] = Putch(@, char)]
     IN Draws(IF flush THEN Flush(s, id, current, CurrentBar) ELSE s)

SetCursor(id, x, y) ==
  /\ CallKeepsList
  /\ con' = [con EXCEPT ![id] = SetXY(@, x, y)]
  /\ UNCHANGED screen

\* sys_conflush().
ShowScreen(id) == CallKeepsList /\ Draws(Flush(Video, id, current, CurrentBar))

ClearScreen(id) == CallKeepsList /\ Draws(Clear(Video, id, current, CurrentBar))

CreateConsole ==
  LET id == Cardinality(DOMAIN con) IN
  /\ id < MaxConsoles
  /\ Call
  /\ \E mode \in FlushModes :
       con' = Link(con, id, NewConsole(mode))
  /\ alive' = alive \cup {id}
  /\ UNCHANGED <<switchVars, screen, halted, twice>>

\* A program destroys any console it was given, again as well.  The kernel says
\* so on the construct, which no program can name.
DestroyConsole(id) ==
  /\ id # Construct
  /\ Call
  /\ LET s == Flush([Video EXCEPT !.con[Construct] = Putch(@, "p")],
                    Construct, current, CurrentBar)
     IN con' = Unlink(s.con, id) /\ screen' = s.screen
  /\ alive' = alive \ {id}
  /\ twice' = (twice \/ id \notin alive)
  /\ UNCHANGED <<switchVars, halted>>

\* kpanic() and kdeadlock() show the construct, and print on it.
Panic ==
  LET print(s) ==
        Flush([s EXCEPT !.con[Construct] = Putch(Putch(@, "newline"), "p")],
              Construct, Construct, CurrentBar)
      show(s) == print(SwitchConsole(s, Construct, CurrentBar))
  IN /\ Call
     /\ halted' = TRUE
     /\ current' = Construct
     /\ Draws(show(show(Video)))
     /\ UNCHANGED <<choosing, chosen, alive, twice>>

-----------------------------------------------------------------------------

\* The construct begins with what the boot loader has left on the screen, and
\* its cursor where that of the screen was.
Init ==
  /\ flag = [f \in Flags |-> f = "num"]
  /\ keybuf = [k \in 1 .. MaxKeybuf |-> 0] /\ keyptr = 0
  /\ choosing = FALSE /\ chosen = NoConsole
  /\ screen = [k \in Cells |-> "bios"]
  /\ \E mode \in FlushModes, at \in Positions :
       LET construct == [SetXY(NewConsole(mode), at[1], at[2]) EXCEPT !.buf = screen]
           fresh == [con |-> [id \in {Construct} |-> construct],
                     screen |-> screen]
       IN con = SwitchConsole(fresh, Construct, Blank).con
  /\ current = Construct
  /\ pc = [r \in Readers |-> "idle"] /\ ch = [r \in Readers |-> 0]
  /\ halted = FALSE
  /\ typed = <<>> /\ got = <<>> /\ shared = FALSE
  /\ alive = {Construct} /\ twice = FALSE
  /\ events = 0

Next ==
  \/ \E key \in Keys : SwitchFini(key) \/ SwitchRun(key)
  \/ \E key \in Keys, make \in BOOLEAN : WhileChoosing(key, make)
  \/ \E key \in Keys : MakeKey(key) \/ BreakKey(key)
  \/ \E r \in Readers : PollWaits(r) \/ PollReads(r) \/ PollTakes(r)
  \/ \E id \in DOMAIN con, char \in Chars, flush \in BOOLEAN :
       Write(id, char, flush)
  \/ \E id \in DOMAIN con, at \in Positions : SetCursor(id, at[1], at[2])
  \/ \E id \in DOMAIN con : ShowScreen(id) \/ ClearScreen(id) \/ DestroyConsole(id)
  \/ CreateConsole
  \/ Panic

Spec == Init /\ [][Next]_vars

-----------------------------------------------------------------------------
(* Properties *)

Shown == {Blank, Empty, "bios", "m", "b", "]", "C", "_", "p"} \cup Chars

\* Types.  The positions of the cursor, of the block and in the key buffer
\* (keyboard.c:77, conio.c:193-197, 467).
TypeOK ==
  /\ flag \in [Flags -> BOOLEAN]
  /\ keybuf \in [1 .. MaxKeybuf -> Codes] /\ keyptr \in 0 .. MaxKeybuf - 1
  /\ choosing \in BOOLEAN /\ chosen \in Consoles \cup {NoConsole}
  /\ current \in DOMAIN con /\ DOMAIN con \subseteq Consoles
  /\ \A id \in DOMAIN con :
       /\ con[id].next \in Consoles \cup {NoConsole}
       /\ con[id].prev \in Consoles \cup {NoConsole}
       /\ con[id].px \in 0 .. PosSize - 1 /\ con[id].py \in 0 .. Height - 1
       /\ con[id].flush \in FlushModes
       /\ con[id].sx \in 0 .. PosSize - 1 /\ con[id].ex \in 0 .. PosSize - 1
       /\ con[id].sy \in 0 .. Height /\ con[id].ey \in 0 .. Height
       /\ con[id].buf \in [Cells -> Shown]
  /\ screen \in [Cells -> Shown \cup {Bar[id] : id \in Consoles}]
  /\ pc \in [Readers -> {"idle", "read", "take"}] /\ ch \in [Readers -> Codes]
  /\ halted \in BOOLEAN /\ shared \in BOOLEAN
  /\ alive \subseteq Consoles /\ twice \in BOOLEAN

\* While a console is chosen every key but TAB is ignored, and only the release
\* of CTRL ends that: CTRL is down as long as it lasts, so that the keyboard
\* always comes back (keyboard.c:118, 151-158).
ChoosingHoldsCtrl == choosing => flag.ctrl

\* Pressing TAB goes round: from whatever console the walk begins at, also one
\* that was destroyed while it was shown or chosen, it comes to every console
\* there is and then to no other.  Only destroying one a second time, which links
\* the neighbours it once had, takes others out (console.c:66-77, 149-165,
\* 232-234).
RingComplete ==
  ~ twice =>
    /\ Walk(con, Construct) = alive
    /\ \A id \in DOMAIN con :
         LET at[n \in 0 .. 2 * MaxConsoles] ==
               IF n = 0 THEN id ELSE NextConsole(con, at[n - 1])
         IN {at[n] : n \in MaxConsoles .. 2 * MaxConsoles} = alive

\* As long as no two readers poll at once, the codes that were returned and
\* those in the buffer are the codes of the keys, in order, none lost and
\* none twice (keyboard.c:73-84, 303-331).
KeysInOrder ==
  ~shared => got \o SubSeq(keybuf, 1, keyptr) = typed

\* Output to a console that is not shown does not reach the screen: what
\* changes on it is from the buffer of the console that is then current,
\* before or after the step, or the bar (conio.c:308-324, console.c:214-226).
DrawsCurrentOnly ==
  [][\A k \in Cells : screen'[k] # screen[k] =>
       \/ screen'[k] = con'[current'].buf[k]
       \/ screen'[k] = con[current'].buf[k]
       \/ k \in LastLine /\ choosing' /\ screen'[k] = Bar[chosen']]_vars
=============================================================================
