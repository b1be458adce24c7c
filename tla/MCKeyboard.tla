----------------------------- MODULE MCKeyboard -----------------------------
EXTENDS Keyboard

MCBar == [id \in Consoles |-> IF id = 0 THEN "bar0" ELSE IF id = 1 THEN "bar1"
                              ELSE IF id = 2 THEN "bar2" ELSE "bar3"]

\* Rows of scan2ascii_table: the key 1 and none for keys that only set a flag.
MCAscii == [key \in Keys |->
  CASE key = "one" -> [c \in 0 .. 5 |-> IF c = 1 THEN 33 ELSE IF c = 2 THEN 0
                                        ELSE IF c = 3 THEN 30720 ELSE 49]
    [] key = "tab" -> [c \in 0 .. 5 |-> IF c = 1 THEN 3840
                                        ELSE IF c \in {2, 3} THEN 0 ELSE 9]
    [] OTHER -> [c \in 0 .. 5 |-> 0]]

\* The last position, and one that is not on the screen, which is refused.
MCPositions == {<<3, 1>>, <<4, 0>>}

\* No key goes to the screen: once there are codes to be read, states that
\* differ in the consoles only are explored once, by which of them is shown.
KeysOrConsoles ==
  IF typed = <<>> THEN vars
  ELSE <<keyVars, switchVars, readVars, halted, events,
         {id \in DOMAIN con : con[id].buf = screen}>>
=============================================================================
