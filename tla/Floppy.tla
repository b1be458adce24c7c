------------------------------- MODULE Floppy -------------------------------
(***************************************************************************)
(* The floppy driver (drivers/floppy/floppy.c) with the two chips it       *)
(* programs: the floppy controller and channel 2 of the DMA controller     *)
(* (dma.c).  A step of the driver is the code between two of its waits for *)
(* an interrupt: a busy wait at boot, a sleep on fdc_wait_queue later.     *)
(* Every process that sleeps there is woken by every interrupt, and by a   *)
(* signal.  The driver has no lock: what two readers share is global.      *)
(*                                                                         *)
(* The controller executes seeks in parallel and accepts commands          *)
(* meanwhile; it is not ready while it executes a READ, and it ignores     *)
(* commands as long as result bytes of the last READ wait to be fetched.   *)
(***************************************************************************)
EXTENDS Integers, FiniteSets

CONSTANTS Readers,          \* processes that read from the floppy drives
          SectorsPerTrack,  \* of a drive whose type the driver knows
          Cylinders,        \* of the disks
          Lbas,             \* the sectors asked for
          Tries,            \* attempts to calibrate a drive (10 in the code)
          None

Drive    == {0, 1}
Other    == 2              \* fdc[1].drives[0], of a controller that is absent
Heads    == 2              \* driveinfo.maxHead
Whole    == 513            \* the chip moves one byte more than its count, 512
AnyCyl   == 0 .. Cylinders
Boot     == {"off", "init0", "init1", "reset", "cal0", "cal1", "done"}
Sector   == Drive \X Lbas
Command  == [drive : Drive, c : Nat, h : Nat, s : Nat, eot : Nat]  \* a READ

\* None is no cylinder, no sector and no command.
ASSUME FloppyAssumption ==
  /\ SectorsPerTrack \in Nat \ {0}
  /\ Cylinders \in Nat \ {0}
  /\ Lbas \subseteq Nat
  /\ Tries \in Nat \ {0}
  /\ None \notin Nat \union Sector \union Command

VARIABLES
  spt,       \* driveinfo.sectorsPerTrack: 0 for a type that is not in the table
  cur,       \* _currentDrive
  flag,      \* fdc_receivedIRQ
  boot,      \* the wait fdc_init() is in
  tries,     \* i of fdc_calibrate_drive()
  pc,        \* the wait each reader is in, or "user"
  asleep,    \* it sleeps on fdc_wait_queue
  req,       \* the sector each reader asked for
  fdc,       \* the controller (see Controller)
  heads,     \* the cylinder over which the heads of each drive are
  irq,       \* the interrupt line is raised
  left,      \* bytes the DMA channel moves until it starts over
  buffer,    \* the sector in floppyDMABuffer
  status,    \* what the result bytes of the last READ say
  mode,      \* "run", or "panic" and "fault" when the kernel stopped
  ret,       \* history: the undisturbed read that returned in the last step
  recent,    \* history: the last two sectors the controller moved
  disturbed  \* history: two reads overlapped, or a signal ended a wait

driver == <<cur, boot, tries, pc, req, mode>>
chips  == <<heads, left, buffer, status, recent>>
vars   == <<spt, flag, asleep, fdc, irq, ret, disturbed, driver, chips>>

Controller ==
  [exec    : {None} \union Command,
   seeking : [Drive -> {None} \union Nat],
   sense   : SUBSET (0 .. 3),   \* drives with an interrupt to be sensed
   results : 0 .. 7,            \* result bytes that were not fetched
   spec    : {None} \union Drive,
   motor   : {None} \union Drive]

----------------------------------------------------------------------------
(* The commands of the driver, as functions on the controller's state *)

Ready(f) == f.exec = None

\* Commands are lost while there are result bytes to be fetched.
Listens(f) == f.results = 0

Specified(f, d) == IF Listens(f) THEN [f EXCEPT !.spec = d] ELSE f
MotorOn(f, d)   == [f EXCEPT !.motor = d]
MotorOff(f)     == [f EXCEPT !.motor = None]

\* SEEK and CALIBRATE (which is a seek to cylinder 0)
Seeks(f, d, c) == IF Listens(f) THEN [f EXCEPT !.seeking[d] = c] ELSE f

\* The number of the last sector in a READ command.
Eot(d, s) == IF s + 1 >= spt[d] THEN spt[d] ELSE s + 1

Reads(f, d, at) ==
  IF Listens(f)
  THEN [f EXCEPT !.exec = [drive |-> d, c |-> at.c, h |-> at.h, s |-> at.s,
                           eot |-> Eot(d, at.s)]]
  ELSE f

\* Mutant: fetches from an empty queue count.
FetchedMore(f, n) == [f EXCEPT !.results = @ - n]

Fetched(f, n) == [f EXCEPT !.results = IF @ > n THEN @ - n ELSE 0]

\* CHECK_INT: a cylinder, and the controller afterwards.  Without an
\* interrupt to be sensed the second byte read is anything.
Sensed(f) ==
  IF Listens(f) /\ f.sense # {}
  THEN {[f |-> [f EXCEPT !.sense = @ \ {d}],
         cyl |-> IF d \in Drive THEN heads[d] ELSE 0] : d \in f.sense}
  ELSE {[f |-> Fetched(f, 2), cyl |-> c] : c \in AnyCyl}

\* Mutant: one interrupt status too few.
SensedThreeTimes(f) ==
  {[f EXCEPT !.sense = S] : S \in {T \in SUBSET f.sense :
                                     Cardinality(T) + 3 = Cardinality(f.sense)}}

\* The four interrupts of a reset.
SensedFourTimes(f) ==
  {[f EXCEPT !.sense = S] : S \in {T \in SUBSET f.sense :
                                     Cardinality(T) + 4 = Cardinality(f.sense)}}

\* Disabled and enabled through the DOR: forgets all but where the heads are.
Reset(f) == [exec |-> None, seeking |-> [d \in Drive |-> None], sense |-> 0 .. 3,
             results |-> 0, spec |-> None, motor |-> None]

\* fdc_convert_LBA_to_CHS
Chs(d, lba) == [c |-> lba \div (spt[d] * Heads),
                h |-> (lba % (spt[d] * Heads)) \div spt[d],
                s |-> (lba % spt[d]) + 1]

\* Mutant: the DMA channel is not programmed when the drive changes.
SwitchKeepsDma(d) ==
  /\ cur' = d
  /\ left' = left

\* fdc_switch_active_drive, but for the SPECIFY.
Switch(d) ==
  /\ cur' = d
  /\ left' = IF cur = d THEN left ELSE Whole

SpecifiedIfNew(d) == IF cur = d THEN fdc ELSE Specified(fdc, d)

Panics ==
  /\ mode' = "panic"
  /\ ret' = None
  /\ UNCHANGED <<spt, flag, asleep, fdc, irq, cur, boot, tries, pc, req, chips>>

----------------------------------------------------------------------------
(* Initialisation at boot: fdc_init, with a busy wait for each interrupt *)

Idle == [exec |-> None, seeking |-> [d \in Drive |-> None], sense |-> {},
         results |-> 0, spec |-> None, motor |-> None]

Init ==
  /\ spt \in [Drive -> {0, SectorsPerTrack}]
  /\ cur = Other /\ flag = FALSE /\ boot = "off" /\ tries = 0
  /\ pc = [r \in Readers |-> "user"]
  /\ asleep = [r \in Readers |-> FALSE]
  /\ req = [r \in Readers |-> None]
  /\ fdc = Idle
  /\ heads \in [Drive -> 0 .. Cylinders - 1]
  /\ irq = FALSE /\ left = Whole /\ buffer = None /\ status = "ok"
  /\ mode = "run" /\ ret = None /\ recent = <<None, None>> /\ disturbed = FALSE

\* fdc_switch_active_drive and fdc_calibrate_drive up to its first wait.
Calibrating(f, d, stage) ==
  /\ cur' = d
  /\ left' = Whole
  /\ fdc' = Seeks(MotorOn(f, d), d, 0)
  /\ boot' = stage
  /\ tries' = 1

\* fdc_init_controller for the first controller, fdc_init_drive for its drive 0.
InitController ==
  /\ boot = "off"
  /\ Calibrating(Specified(fdc, 0), 0, "init0")
  /\ UNCHANGED <<spt, flag, asleep, irq, ret, disturbed, pc, req, mode,
                 heads, buffer, status, recent>>

\* Mutant: the drives are reset in the order 1, 0: drive 1 is still selected,
\* so the settings lost in the reset are not sent again.
AfterStageWrongOrder(f) ==
  CASE boot = "init0" -> Calibrating(Specified(f, 1), 1, "init1")
    [] boot = "init1" -> /\ fdc' = Reset(f) /\ boot' = "reset"
                         /\ UNCHANGED <<cur, left, tries>>
    [] boot = "reset" -> Calibrating(f, 1, "cal0")
    [] boot = "cal0"  -> Calibrating(Specified(f, 0), 0, "cal1")
    [] boot = "cal1"  -> /\ cur' = Other /\ fdc' = f /\ boot' = "done"
                         /\ UNCHANGED <<left, tries>>

\* What follows a wait that is over: the other drive, the reset, both drives
\* again (each is a change of drive, so its settings are sent), and the
\* second controller, of which only the attempt to find it is left.
AfterStage(f) ==
  CASE boot = "init0" -> Calibrating(Specified(f, 1), 1, "init1")
    [] boot = "init1" -> /\ fdc' = Reset(f) /\ boot' = "reset"
                         /\ UNCHANGED <<cur, left, tries>>
    [] boot = "reset" -> Calibrating(IF cur = 0 THEN f ELSE Specified(f, 0), 0, "cal0")
    [] boot = "cal0"  -> Calibrating(IF cur = 1 THEN f ELSE Specified(f, 1), 1, "cal1")
    [] boot = "cal1"  -> /\ cur' = Other /\ fdc' = f /\ boot' = "done"
                         /\ UNCHANGED <<left, tries>>

\* fdc_calibrate_drive behind fdc_wait_for_irq.  Nobody looks at its result.
CalibrateWoken ==
  /\ boot \in {"init0", "init1", "cal0", "cal1"} /\ flag
  /\ flag' = FALSE
  /\ \E answer \in Sensed(fdc) :
       IF answer.cyl = 0 \/ tries = Tries
       THEN /\ AfterStage(MotorOff(answer.f))
            /\ irq' = (irq \/ boot = "init1")
       ELSE /\ fdc' = Seeks(answer.f, cur, 0)
            /\ tries' = tries + 1
            /\ UNCHANGED <<cur, left, boot, irq>>
  /\ UNCHANGED <<spt, asleep, ret, disturbed, pc, req, mode, heads, buffer, status, recent>>

\* fdc_reset_controller behind its first fdc_wait_for_irq.
ResetWoken ==
  /\ boot = "reset" /\ flag
  /\ flag' = FALSE
  /\ \E f \in SensedFourTimes(fdc) : AfterStage(f)
  /\ UNCHANGED <<spt, asleep, irq, ret, disturbed, pc, req, mode, heads, buffer, status, recent>>

----------------------------------------------------------------------------
(* fdc_block_read *)

\* Mutant: the reader does not wait.
SleepsNotIn(r, place) ==
  /\ pc' = [pc EXCEPT ![r] = place]
  /\ asleep' = asleep

\* A reader sleeps until the next interrupt.
SleepsIn(r, place) ==
  /\ pc' = [pc EXCEPT ![r] = place]
  /\ asleep' = [asleep EXCEPT ![r] = TRUE]

\* fdc_block_read up to the first seek.  The division by the sectors of a
\* track is a fault for a drive that is not in the table of drive types.
Read(r, d, lba) ==
  /\ mode = "run" /\ boot = "done" /\ pc[r] = "user"
  /\ ~ disturbed   \* bound: no new read after a disturbance
  /\ disturbed' = (\E q \in Readers \ {r} : pc[q] # "user")
  /\ IF ~ Ready(fdc) THEN Panics
     ELSE /\ Switch(d)
          /\ LET f == MotorOn(SpecifiedIfNew(d), d)
             IN  IF spt[d] = 0
                 THEN /\ mode' = "fault"
                      /\ fdc' = f
                      /\ UNCHANGED <<pc, asleep, req>>
                 ELSE /\ fdc' = Seeks(f, d, Chs(d, lba).c)
                      /\ SleepsIn(r, "seek")
                      /\ req' = [req EXCEPT ![r] = <<d, lba>>]
                      /\ UNCHANGED mode
          /\ ret' = None
          /\ UNCHANGED <<spt, flag, irq, boot, tries, heads, buffer, status, recent>>

At(r) == Chs(req[r][1], req[r][2])

\* Mutant: the heads have to be behind the cylinder.
ArrivedBehind(r, cyl) == cyl > At(r).c

Arrived(r, cyl) == cyl = At(r).c

\* fdc_seek_floppy_cylinder behind its wait: on to the READ, or another seek.
\* Ten seeks, and then ten more, until the heads are there.  The commands go
\* to the drive that is the current one now.
SeekWoken(r) ==
  /\ mode = "run" /\ pc[r] = "seek" /\ ~ asleep[r]
  /\ IF ~ Ready(fdc) THEN Panics
     ELSE /\ \E answer \in Sensed(fdc) :
               IF Arrived(r, answer.cyl)
               THEN /\ fdc' = Reads(answer.f, cur, At(r))
                    /\ SleepsIn(r, "read")
               ELSE /\ fdc' = Seeks(answer.f, cur, At(r).c)
                    /\ SleepsIn(r, "seek")
          /\ ret' = None
          /\ UNCHANGED <<spt, flag, irq, cur, boot, tries, req, mode, chips>>
  /\ UNCHANGED disturbed

\* fdc_read_floppy_sector_CHS behind its wait: fetches seven result bytes,
\* which nobody examines, and one more interrupt status; then the buffer is
\* copied and the call returns.
ReadWoken(r) ==
  /\ mode = "run" /\ pc[r] = "read" /\ ~ asleep[r]
  /\ IF ~ Ready(fdc) THEN Panics
     ELSE /\ \E answer \in Sensed(Fetched(fdc, 7)) : fdc' = MotorOff(answer.f)
          /\ pc' = [pc EXCEPT ![r] = "user"]
          /\ req' = [req EXCEPT ![r] = None]
          /\ ret' = IF disturbed THEN None ELSE [asked |-> req[r], got |-> buffer]
          /\ UNCHANGED <<spt, flag, irq, asleep, cur, boot, tries, mode, chips>>
  /\ UNCHANGED disturbed

----------------------------------------------------------------------------
(* Interrupts and the hardware *)

\* floppy_interrupt: sets the flag, and wakes everybody once there are tasks.
Interrupt ==
  /\ irq /\ mode = "run"
  /\ irq' = FALSE
  /\ flag' = TRUE
  /\ asleep' = [r \in Readers |-> FALSE]
  /\ ret' = None
  /\ UNCHANGED <<spt, fdc, disturbed, driver, chips>>

\* A signal makes a sleeper runnable (global_task_administration, sys_exit).
Signalled(r) ==
  /\ mode = "run" /\ asleep[r]
  /\ ~ disturbed   \* bound: one disturbance
  /\ asleep' = [asleep EXCEPT ![r] = FALSE]
  /\ disturbed' = TRUE
  /\ ret' = None
  /\ UNCHANGED <<spt, flag, fdc, irq, driver, chips>>

\* A drive has moved its heads; it reports the cylinder they are over, which
\* need not be the one it was sent to.
SeekEnds(d, cyl) ==
  /\ mode = "run" /\ fdc.seeking[d] # None
  /\ heads' = [heads EXCEPT ![d] = cyl]
  /\ fdc' = [fdc EXCEPT !.seeking[d] = None, !.sense = @ \union {d}]
  /\ irq' = TRUE
  /\ ret' = None
  /\ UNCHANGED <<spt, flag, asleep, disturbed, driver, left, buffer, status, recent>>

\* The sector behind it can be read with the same command, so that the DMA
\* channel can count to its end.
Continues(e) == e.s < e.eot \/ e.h = 0

LbaOf(e) == (e.c * Heads + e.h) * spt[e.drive] + e.s - 1

\* What a READ moves: a sector and the first byte of the next one; all but
\* that byte when the cylinder ends; or the byte the last one left, behind
\* the end of the buffer.
Transfer(e) ==
  /\ left' = IF left = Whole /\ ~ Continues(e) THEN 1 ELSE Whole
  /\ buffer' = IF left = Whole THEN <<e.drive, LbaOf(e)>> ELSE buffer
  /\ status' = "ok"
  /\ recent' = IF disturbed THEN recent ELSE <<recent[2], <<e.drive, LbaOf(e)>> >>

\* A READ ends, with data if the heads and the motor let it.
ReadEnds ==
  /\ mode = "run" /\ fdc.exec # None
  /\ LET e == fdc.exec
     IN  /\ \/ /\ heads[e.drive] = e.c /\ fdc.seeking[e.drive] = None
               /\ fdc.motor = e.drive
               /\ Transfer(e)
            \/ /\ status' = "bad"
               /\ UNCHANGED <<left, buffer, recent>>
  /\ fdc' = [fdc EXCEPT !.exec = None, !.results = 7]
  /\ irq' = TRUE
  /\ ret' = None
  /\ UNCHANGED <<spt, flag, asleep, disturbed, driver, heads>>

\* The kernel stopped, or the bound is reached.
Halted ==
  /\ mode # "run" \/ disturbed
  /\ UNCHANGED vars

Next ==
  \/ InitController \/ CalibrateWoken \/ ResetWoken
  \/ \E r \in Readers : \/ \E d \in Drive, lba \in Lbas : Read(r, d, lba)
                        \/ SeekWoken(r) \/ ReadWoken(r) \/ Signalled(r)
  \/ \E d \in Drive, cyl \in 0 .. Cylinders - 1 : SeekEnds(d, cyl)
  \/ ReadEnds \/ Interrupt \/ Halted

Spec == Init /\ [][Next]_vars

\* The controller raises the interrupts it owes, interrupts are delivered and
\* woken readers get the CPU; a drive that is sent to a cylinder again and
\* again gets there.
FairSpec ==
  /\ Spec
  /\ WF_vars(InitController) /\ WF_vars(CalibrateWoken) /\ WF_vars(ResetWoken)
  /\ WF_vars(Interrupt)
  /\ \A r \in Readers : WF_vars(SeekWoken(r)) /\ WF_vars(ReadWoken(r))
  /\ WF_vars(ReadEnds)
  /\ \A d \in Drive :
       /\ WF_vars(\E cyl \in 0 .. Cylinders - 1 : SeekEnds(d, cyl))
       /\ SF_vars(fdc.seeking[d] # None /\ SeekEnds(d, fdc.seeking[d]))

----------------------------------------------------------------------------
(* Properties *)

\* Every variable has its type.
TypeOK ==
  /\ spt \in [Drive -> {0, SectorsPerTrack}]
  /\ cur \in Drive \union {Other}
  /\ flag \in BOOLEAN /\ irq \in BOOLEAN /\ disturbed \in BOOLEAN
  /\ boot \in Boot /\ tries \in 0 .. Tries
  /\ pc \in [Readers -> {"user", "seek", "read"}]
  /\ asleep \in [Readers -> BOOLEAN]
  /\ req \in [Readers -> {None} \union Sector]
  /\ fdc \in Controller
  /\ heads \in [Drive -> 0 .. Cylinders - 1]
  /\ left \in {1, Whole}
  /\ mode \in {"run", "panic", "fault"}

EndsCylinder(sector) ==
  sector # None /\ (sector[2] + 1) % (spt[sector[1]] * Heads) = 0

\* A read returns the sector it asked for.  As the driver is, three things
\* excuse it: the drive reported an error (the result bytes are not examined),
\* the read did not have the driver for itself or was woken by a signal, or
\* the sector read before it was the last of a cylinder on the same drive:
\* the DMA channel then still waits for one byte (fdc_read_floppy_sector,
\* dma_set_size).
ReadRight ==
  ret # None /\ ret.got # ret.asked =>
    \/ status = "bad"
    \/ EndsCylinder(recent[1]) /\ recent[1][1] = ret.asked[1]

\* The driver stops the kernel because the controller is not ready only if
\* reads overlapped or a signal ended a wait, and divides by zero only for a
\* drive that is not in the table of types (fdc_send_command, fdc_recv_data,
\* fdc_convert_LBA_to_CHS).
StopsOnlyDisturbed ==
  /\ mode = "panic" => disturbed
  /\ mode = "fault" => spt[cur] = 0

\* While the controller executes a command for a drive it has the settings of
\* that drive, also after the reset in which it lost them
\* (fdc_switch_active_drive, fdc_reset_controller).
SettingsMatch ==
  ~ disturbed =>
    /\ \A d \in Drive : fdc.seeking[d] # None => fdc.spec = d
    /\ fdc.exec # None => fdc.spec = fdc.exec.drive

\* When nobody is in the driver, it owes the controller nothing: no command
\* is executing, no interrupt is to come or to be sensed, no result byte
\* waits, the motors are off.  So a call never sees the answers of another
\* (the waits and status reads of all commands).
QuietBetweenReads ==
  boot = "done" /\ ~ disturbed /\ mode = "run" /\ (\A r \in Readers : pc[r] = "user") =>
    /\ fdc = [Idle EXCEPT !.spec = fdc.spec]
    /\ ~ irq

\* A read of a sector that is on the disk returns, unless it was disturbed
\* (fdc_read_floppy_sector, which seeks until the heads are there).
ReadReturns ==
  \A r \in Readers :
    (pc[r] # "user" /\ At(r).c < Cylinders) ~>
      (pc[r] = "user" \/ disturbed \/ mode # "run")
=============================================================================
