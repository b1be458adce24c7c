------------------------------ MODULE MCFloppy ------------------------------
EXTENDS Floppy

\* Nothing reads the data of a disturbed read: states that differ in them only
\* are explored once.
ControlOnly ==
  IF disturbed THEN <<spt, flag, asleep, fdc, irq, driver, heads>> ELSE vars
=============================================================================
