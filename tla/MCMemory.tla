------------------------------ MODULE MCMemory ------------------------------
(* Memory for TLC: a program linked at 0x100000 and padded to pages, as      *)
(* cybos.ld does, and three linked at 0x08048000, as the linker does by      *)
(* itself.  Their last pages are shared by sections, too few pages are       *)
(* mapped for the bss of one and for the only section of another.            *)
EXTENDS Memory

High0 == TablePages * UnitsPerPage

Sec(addr, size) == [addr |-> addr, size |-> size]

LowProgram ==
  [file |-> 10, loads |-> <<Sec(0, UnitsPerPage)>>, bss |-> Sec(UnitsPerPage, 0)]

\* .text, .rodata and .bss, all of them in the second page.
SmallProgram ==
  [file  |-> 20,
   loads |-> <<Sec(High0, 4), Sec(High0 + 4, 1)>>,
   bss   |-> Sec(High0 + 5, 1)]

\* .text on two whole pages; the .bss begins late in its page.
LargeProgram ==
  [file  |-> 30,
   loads |-> <<Sec(High0, 6), Sec(High0 + 6, 2)>>,
   bss   |-> Sec(High0 + 8, 2)]

\* A section that begins late in its page.
LateProgram ==
  [file |-> 40, loads |-> <<Sec(High0 + 2, 2)>>, bss |-> Sec(High0 + 4, 0)]

MCPrograms == {LowProgram, SmallProgram, LargeProgram, LateProgram}
=============================================================================
