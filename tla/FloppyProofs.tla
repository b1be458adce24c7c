---------------------------- MODULE FloppyProofs ----------------------------
(***************************************************************************)
(* Proofs about Floppy, for any number of readers, any disks and any       *)
(* sectors asked for.                                                      *)
(*                                                                         *)
(* The inductive invariant is built in three layers.  Typed says what      *)
(* holds whatever happens, Orderly what the driver has of the controller   *)
(* at each of its waits as long as nothing disturbed it, and Traced which  *)
(* sector is in the buffer.                                                *)
(***************************************************************************)
EXTENDS Floppy, FiniteSetTheorems, NumberLemmas, TLAPS

Calibration == {"init0", "init1", "cal0", "cal1"}

\* The kernel stops only after boot; a reader past the seek asked for a sector
\* of a drive whose type is known, and some drive is selected.
Typed ==
  /\ TypeOK
  /\ boot \in Calibration \union {"reset"} => cur \in Drive
  /\ boot # "done" => /\ mode = "run" /\ ~ disturbed
                      /\ \A r \in Readers : pc[r] = "user"
  /\ \A r \in Readers :
       /\ asleep[r] => pc[r] # "user"
       /\ pc[r] # "user" => /\ req[r] \in Sector /\ spt[req[r][1]] # 0
                            /\ cur \in Drive
  /\ mode = "fault" => spt[cur] = 0

----------------------------------------------------------------------------
(* What the driver has of the controller *)

Still == \A d \in Drive : fdc.seeking[d] = None

\* Nothing is owed.
Quiet ==
  /\ fdc.exec = None /\ Still /\ fdc.sense = {} /\ fdc.results = 0
  /\ fdc.motor = None /\ ~ irq

\* A drive is sent to a cylinder, or has an interrupt to be sensed; the wait for
\* it is over when the interrupt was delivered.
Seeking(d, waits) ==
  /\ fdc.exec = None /\ fdc.results = 0
  /\ fdc.spec = d /\ fdc.motor = d
  /\ \A o \in Drive \ {d} : fdc.seeking[o] = None
  /\ \/ fdc.seeking[d] # None /\ fdc.sense = {} /\ ~ irq /\ waits
     \/ fdc.seeking[d] = None /\ fdc.sense = {d} /\ (irq <=> waits)

Resetting ==
  /\ fdc.exec = None /\ fdc.results = 0 /\ Still /\ fdc.sense = 0 .. 3
  /\ (irq <=> ~ flag)

\* The READ a reader's sector is read with.
CommandOf(r) ==
  [drive |-> cur, c |-> At(r).c, h |-> At(r).h, s |-> At(r).s,
   eot |-> Eot(cur, At(r).s)]

\* A READ is being executed, or its seven result bytes wait.
Reading(r) ==
  /\ Still /\ fdc.sense = {} /\ fdc.spec = cur /\ fdc.motor = cur
  /\ \/ fdc.exec = CommandOf(r) /\ fdc.results = 0 /\ ~ irq /\ asleep[r]
     \/ fdc.exec = None /\ fdc.results = 7 /\ (irq <=> asleep[r])

\* A selected drive has its settings, but for the reset that forgets them.
InDriver ==
  /\ \A r, q \in Readers : pc[r] # "user" /\ pc[q] # "user" => r = q
  /\ cur \in Drive => fdc.spec = cur /\ spt[cur] # 0
  /\ \A r \in Readers :
       /\ pc[r] # "user" => req[r][1] = cur
       /\ pc[r] = "seek" => Seeking(cur, asleep[r])
       /\ pc[r] = "read" => Reading(r)
  /\ (\A r \in Readers : pc[r] = "user") => Quiet

Stopped == fdc.exec = None /\ Still

Orderly ==
  /\ mode = "panic" => disturbed
  /\ boot = "off" => Quiet /\ ~ flag
  /\ boot \in Calibration => Seeking(cur, ~ flag)
  /\ boot \in {"init1", "reset"} => cur = 1
  /\ boot = "reset" => Resetting
  /\ boot = "done" /\ ~ disturbed /\ mode = "run" => InDriver
  /\ boot = "done" /\ ~ disturbed /\ mode = "fault" => Stopped

----------------------------------------------------------------------------
(* Which sector is in the buffer *)

\* The sector a reader asked for is the last that was moved; it is in the buffer
\* if the one before did not end a cylinder of the same drive.
Delivered(r) ==
  \/ status = "bad"
  \/ /\ recent[2] = req[r]
     /\ \/ buffer = req[r]
        \/ EndsCylinder(recent[1]) /\ recent[1][1] = cur

Traced ==
  /\ boot # "done" => left = Whole
  /\ ~ disturbed /\ left = 1 => EndsCylinder(recent[2]) /\ recent[2][1] = cur
  /\ ~ disturbed =>
       \A r \in Readers : pc[r] = "read" /\ fdc.exec = None => Delivered(r)
  /\ ReadRight

----------------------------------------------------------------------------
(* The commands of the driver *)

LEMMA Sizes ==
  /\ SectorsPerTrack \in Nat \ {0} /\ Cylinders \in Nat \ {0} /\ Tries \in Nat \ {0}
  /\ Lbas \in SUBSET Nat
  /\ None \notin Nat /\ None \notin Sector /\ None \notin Command
BY FloppyAssumption

LEMMA ControllerFields ==
  ASSUME NEW f \in Controller
  PROVE  /\ f.exec \in {None} \union Command
         /\ f.seeking \in [Drive -> {None} \union Nat]
         /\ f.sense \in SUBSET (0 .. 3) /\ f.results \in 0 .. 7
         /\ f.spec \in {None} \union Drive /\ f.motor \in {None} \union Drive
BY DEF Controller

LEMMA SpecifiedDoes ==
  ASSUME NEW f \in Controller, NEW d \in Drive
  PROVE  /\ Specified(f, d) \in Controller
         /\ Specified(f, d).exec = f.exec /\ Specified(f, d).seeking = f.seeking
         /\ Specified(f, d).sense = f.sense /\ Specified(f, d).results = f.results
         /\ Specified(f, d).motor = f.motor
         /\ f.results = 0 => Specified(f, d).spec = d
BY DEF Specified, Listens, Controller

LEMMA MotorDoes ==
  ASSUME NEW f \in Controller, NEW d \in Drive
  PROVE  /\ MotorOn(f, d) \in Controller
         /\ MotorOn(f, d).exec = f.exec /\ MotorOn(f, d).seeking = f.seeking
         /\ MotorOn(f, d).sense = f.sense /\ MotorOn(f, d).results = f.results
         /\ MotorOn(f, d).spec = f.spec /\ MotorOn(f, d).motor = d
         /\ MotorOff(f) \in Controller
         /\ MotorOff(f).exec = f.exec /\ MotorOff(f).seeking = f.seeking
         /\ MotorOff(f).sense = f.sense /\ MotorOff(f).results = f.results
         /\ MotorOff(f).spec = f.spec /\ MotorOff(f).motor = None
BY DEF MotorOn, MotorOff, Controller

LEMMA SeeksDoes ==
  ASSUME NEW f \in Controller, NEW d \in Drive, NEW c \in Nat
  PROVE  /\ Seeks(f, d, c) \in Controller
         /\ Seeks(f, d, c).exec = f.exec /\ Seeks(f, d, c).spec = f.spec
         /\ Seeks(f, d, c).sense = f.sense /\ Seeks(f, d, c).results = f.results
         /\ Seeks(f, d, c).motor = f.motor
         /\ \A o \in Drive \ {d} : Seeks(f, d, c).seeking[o] = f.seeking[o]
         /\ f.results = 0 => Seeks(f, d, c).seeking[d] = c
BY DEF Seeks, Listens, Controller

LEMMA FetchedDoes ==
  ASSUME NEW f \in Controller, NEW n \in Nat
  PROVE  /\ Fetched(f, n) \in Controller
         /\ Fetched(f, n).exec = f.exec /\ Fetched(f, n).seeking = f.seeking
         /\ Fetched(f, n).sense = f.sense /\ Fetched(f, n).spec = f.spec
         /\ Fetched(f, n).motor = f.motor
         /\ f.results <= n => Fetched(f, n).results = 0
BY DEF Fetched, Controller

LEMMA SensedDoes ==
  ASSUME TypeOK, NEW f \in Controller, NEW answer \in Sensed(f)
  PROVE  /\ answer.f \in Controller /\ answer.cyl \in Nat
         /\ answer.f.exec = f.exec /\ answer.f.seeking = f.seeking
         /\ answer.f.spec = f.spec /\ answer.f.motor = f.motor
         /\ f.results = 0 => answer.f.results = 0
         /\ f.results = 0 /\ f.sense = {} => answer.f.sense = {}
         /\ \A d : f.results = 0 /\ f.sense = {d} => answer.f.sense = {}
<1>1. CASE Listens(f) /\ f.sense # {}
  <2>1. PICK d \in f.sense :
          answer = [f |-> [f EXCEPT !.sense = @ \ {d}],
                    cyl |-> IF d \in Drive THEN heads[d] ELSE 0]
    BY <1>1, Zenon DEF Sensed
  <2>2. answer.cyl \in Nat
    <3>1. \A o \in Drive : heads[o] \in 0 .. Cylinders - 1
      BY DEF TypeOK
    <3> QED
      BY <2>1, <3>1, Sizes
  <2> QED
    BY <1>1, <2>1, <2>2 DEF Listens, Controller
<1>2. CASE ~ (Listens(f) /\ f.sense # {})
  <2>1. answer.f = Fetched(f, 2) /\ answer.cyl \in AnyCyl
    BY <1>2 DEF Sensed
  <2>2. answer.cyl \in Nat
    BY <2>1, Sizes DEF AnyCyl
  <2>3. f.results = 0 => f.sense = {}
    BY <1>2 DEF Listens
  <2>4. f.results = 0 => f.results <= 2
    OBVIOUS
  <2> QED
    BY <2>1, <2>2, <2>3, <2>4, FetchedDoes
<1> QED
  BY <1>1, <1>2

\* The end of a command, and the end of a seek.
LEMMA AnswersDoes ==
  ASSUME NEW f \in Controller
  PROVE  /\ [f EXCEPT !.exec = None, !.results = 7] \in Controller
         /\ \A d \in Drive :
              [f EXCEPT !.seeking[d] = None, !.sense = @ \union {d}] \in Controller
<1>1. [f EXCEPT !.exec = None, !.results = 7] \in Controller
  <2>1. ASSUME NEW e \in {None} \union Command, NEW n \in 0 .. 7
        PROVE  [f EXCEPT !.exec = e, !.results = n] \in Controller
    BY DEF Controller
  <2>2. None \in {None} \union Command /\ 7 \in 0 .. 7
    OBVIOUS
  <2> QED
    BY <2>1, <2>2
<1>2. ASSUME NEW d \in Drive
      PROVE  [f EXCEPT !.seeking[d] = None, !.sense = @ \union {d}] \in Controller
  <2>1. d \in 0 .. 3
    BY DEF Drive
  <2>2. [f.seeking EXCEPT ![d] = None] \in [Drive -> {None} \union Nat]
    BY ControllerFields
  <2>3. f.sense \union {d} \in SUBSET (0 .. 3)
    BY <2>1, ControllerFields
  <2> QED
    BY <2>2, <2>3 DEF Controller
<1> QED
  BY <1>1, <1>2

LEMMA FourDrives == IsFiniteSet(0 .. 3) /\ Cardinality(0 .. 3) = 4
<1>1. 0 \in Int /\ 3 \in Int /\ ~(0 > 3)
  OBVIOUS
<1>2. Cardinality(0 .. 3) = IF 0 > 3 THEN 0 ELSE 3 - 0 + 1
  BY <1>1, FS_Interval, Zenon
<1>3. IsFiniteSet(0 .. 3)
  BY <1>1, FS_Interval, Zenon
<1> QED
  BY <1>2, <1>3

LEMMA ResetDoes ==
  ASSUME NEW f \in Controller
  PROVE  /\ Reset(f) \in Controller
         /\ Reset(f).exec = None /\ Reset(f).sense = 0 .. 3 /\ Reset(f).results = 0
         /\ \A d \in Drive : Reset(f).seeking[d] = None
         /\ \A g \in SensedFourTimes(f) :
              /\ g \in Controller
              /\ g.exec = f.exec /\ g.seeking = f.seeking /\ g.results = f.results
              /\ f.sense = 0 .. 3 => g.sense = {}
<1>1. /\ Reset(f) \in Controller
      /\ Reset(f).exec = None /\ Reset(f).sense = 0 .. 3 /\ Reset(f).results = 0
      /\ \A d \in Drive : Reset(f).seeking[d] = None
  BY DEF Reset, Controller
<1>2. ASSUME NEW g \in SensedFourTimes(f)
      PROVE  /\ g \in Controller
             /\ g.exec = f.exec /\ g.seeking = f.seeking /\ g.results = f.results
             /\ f.sense = 0 .. 3 => g.sense = {}
  <2>1. PICK T \in SUBSET f.sense :
          /\ Cardinality(T) + 4 = Cardinality(f.sense)
          /\ g = [f EXCEPT !.sense = T]
    BY DEF SensedFourTimes
  <2>2. ASSUME f.sense = 0 .. 3 PROVE T = {}
    <3>1. IsFiniteSet(0 .. 3) /\ Cardinality(0 .. 3) = 4
      BY FourDrives
    <3>2. IsFiniteSet(T) /\ Cardinality(T) \in Nat
      BY <2>2, <3>1, FS_Subset, FS_CardinalityType
    <3>3. Cardinality(T) = 0
      BY <2>1, <2>2, <3>1, <3>2
    <3> QED
      BY <3>2, <3>3, FS_EmptySet
  <2> QED
    BY <2>1, <2>2 DEF Controller
<1> QED
  BY <1>1, <1>2

LEMMA ChsType ==
  ASSUME TypeOK, NEW d \in Drive, NEW lba \in Nat, spt[d] # 0
  PROVE  /\ Chs(d, lba).c \in Nat /\ Chs(d, lba).h \in Nat
         /\ Chs(d, lba).s \in Nat \ {0} /\ Chs(d, lba).s <= spt[d]
         /\ spt[d] \in Nat \ {0}
<1> DEFINE n == spt[d]
<1>1. n \in Nat \ {0}
  BY Sizes DEF TypeOK
<1> HIDE DEF n
<1>2. n * Heads \in Nat \ {0}
  BY <1>1 DEF Heads
<1>3. /\ lba \div (n * Heads) \in Nat /\ lba % (n * Heads) \in Nat
      /\ lba % n \in 0 .. n - 1
  BY <1>1, <1>2
<1>4. (lba % (n * Heads)) \div n \in Nat
  BY <1>1, <1>3
<1> QED
  BY <1>1, <1>3, <1>4 DEF Chs, n

LEMMA ReadsDoes ==
  ASSUME TypeOK, NEW f \in Controller, cur \in Drive,
         NEW d \in Drive, NEW lba \in Nat, spt[d] # 0
  PROVE  /\ Reads(f, cur, Chs(d, lba)) \in Controller
         /\ Reads(f, cur, Chs(d, lba)).seeking = f.seeking
         /\ Reads(f, cur, Chs(d, lba)).sense = f.sense
         /\ Reads(f, cur, Chs(d, lba)).results = f.results
         /\ Reads(f, cur, Chs(d, lba)).spec = f.spec
         /\ Reads(f, cur, Chs(d, lba)).motor = f.motor
         /\ f.results = 0 =>
              Reads(f, cur, Chs(d, lba)).exec =
                [drive |-> cur, c |-> Chs(d, lba).c, h |-> Chs(d, lba).h,
                 s |-> Chs(d, lba).s, eot |-> Eot(cur, Chs(d, lba).s)]
<1> DEFINE at == Chs(d, lba)
<1>1. at.c \in Nat /\ at.h \in Nat /\ at.s \in Nat
  BY ChsType
<1>2. spt[cur] \in Nat
  BY Sizes DEF TypeOK
<1> HIDE DEF at
<1>3. Eot(cur, at.s) \in Nat
  BY <1>1, <1>2 DEF Eot
<1> QED
  BY <1>1, <1>3 DEF Reads, Listens, Controller, Command, at

----------------------------------------------------------------------------
(* What holds whatever happens *)

LEMMA InitTyped == Init => Typed
<1> SUFFICES ASSUME Init PROVE Typed
  OBVIOUS
<1>1. fdc \in Controller
  BY DEF Init, Idle, Controller
<1>2. TypeOK
  <2>1. spt \in [Drive -> {0, SectorsPerTrack}] /\ heads \in [Drive -> 0 .. Cylinders - 1]
    BY DEF Init
  <2>2. tries \in 0 .. Tries
    BY Sizes DEF Init
  <2>3. /\ pc \in [Readers -> {"user", "seek", "read"}]
        /\ asleep \in [Readers -> BOOLEAN]
        /\ req \in [Readers -> {None} \union Sector]
    BY DEF Init
  <2> QED
    BY <1>1, <2>1, <2>2, <2>3 DEF Init, TypeOK, Boot
<1> QED
  BY <1>2 DEF Init, Typed, Calibration

\* The start of a calibration.
LEMMA CalibratingDoes ==
  ASSUME NEW f \in Controller, NEW d \in Drive, NEW stage, Calibrating(f, d, stage)
  PROVE  /\ cur' = d /\ left' = Whole /\ boot' = stage /\ tries' \in 0 .. Tries
         /\ fdc' \in Controller
         /\ fdc'.exec = f.exec /\ fdc'.sense = f.sense /\ fdc'.results = f.results
         /\ fdc'.spec = f.spec /\ fdc'.motor = d
         /\ \A o \in Drive \ {d} : fdc'.seeking[o] = f.seeking[o]
         /\ f.results = 0 => fdc'.seeking[d] = 0
<1>1. MotorOn(f, d) \in Controller
  BY MotorDoes
<1>2. fdc' = Seeks(MotorOn(f, d), d, 0)
  BY DEF Calibrating
<1>3. cur' = d /\ left' = Whole /\ boot' = stage /\ tries' \in 0 .. Tries
  BY Sizes DEF Calibrating
<1> DEFINE g == MotorOn(f, d)
<1>4. /\ g.exec = f.exec /\ g.seeking = f.seeking /\ g.sense = f.sense
      /\ g.results = f.results /\ g.spec = f.spec /\ g.motor = d
  BY MotorDoes
<1> HIDE DEF g
<1>5. /\ Seeks(g, d, 0) \in Controller
      /\ Seeks(g, d, 0).exec = g.exec /\ Seeks(g, d, 0).spec = g.spec
      /\ Seeks(g, d, 0).sense = g.sense /\ Seeks(g, d, 0).results = g.results
      /\ Seeks(g, d, 0).motor = g.motor
      /\ \A o \in Drive \ {d} : Seeks(g, d, 0).seeking[o] = g.seeking[o]
      /\ g.results = 0 => Seeks(g, d, 0).seeking[d] = 0
  <2>1. 0 \in Nat /\ g \in Controller
    BY <1>1 DEF g
  <2> QED
    BY <2>1, SeeksDoes, Zenon
<1> QED
  BY <1>2, <1>3, <1>4, <1>5 DEF g

\* A step of the boot ends at the next wait, or after the last.
LEMMA BootTyped ==
  ASSUME Typed, boot # "done",
         cur' \in Drive \union {Other}, left' \in {1, Whole}, tries' \in 0 .. Tries,
         boot' \in Boot \ {"off"}, boot' # "done" => cur' \in Drive,
         fdc' \in Controller, flag' \in BOOLEAN, irq' \in BOOLEAN,
         UNCHANGED <<spt, asleep, disturbed, pc, req, mode, heads>>
  PROVE  Typed'
BY DEF Typed, TypeOK, Boot, Calibration

LEMMA AfterStageTyped ==
  ASSUME Typed, boot \in Calibration \union {"reset"}, NEW f \in Controller, AfterStage(f)
  PROVE  /\ cur' \in Drive \union {Other} /\ left' \in {1, Whole} /\ tries' \in 0 .. Tries
         /\ boot' \in Boot \ {"off"} /\ (boot' # "done" => cur' \in Drive)
         /\ fdc' \in Controller
<1>1. \A d \in Drive : Specified(f, d) \in Controller
  BY SpecifiedDoes
<1>2. 0 \in Drive /\ 1 \in Drive /\ cur \in Drive /\ left \in {1, Whole} /\ tries \in 0 .. Tries
  BY DEF Typed, TypeOK, Drive
<1>3. CASE boot = "init0"
  <2>1. Calibrating(Specified(f, 1), 1, "init1")
    BY <1>3 DEF AfterStage
  <2> QED
    BY <1>1, <1>2, <2>1, CalibratingDoes DEF Boot
<1>4. CASE boot = "init1"
  BY <1>2, <1>4, ResetDoes DEF AfterStage, Boot
<1>5. CASE boot = "reset"
  <2>1. Calibrating(IF cur = 0 THEN f ELSE Specified(f, 0), 0, "cal0")
    BY <1>5 DEF AfterStage
  <2> QED
    BY <1>1, <1>2, <2>1, CalibratingDoes DEF Boot
<1>6. CASE boot = "cal0"
  <2>1. Calibrating(IF cur = 1 THEN f ELSE Specified(f, 1), 1, "cal1")
    BY <1>6 DEF AfterStage
  <2> QED
    BY <1>1, <1>2, <2>1, CalibratingDoes DEF Boot
<1>7. CASE boot = "cal1"
  BY <1>2, <1>7 DEF AfterStage, Boot
<1> QED
  BY <1>3, <1>4, <1>5, <1>6, <1>7 DEF Calibration

LEMMA BootStepsTyped ==
  ASSUME Typed, InitController \/ CalibrateWoken \/ ResetWoken
  PROVE  Typed'
<1>1. fdc \in Controller /\ 0 \in Drive /\ TypeOK /\ flag \in BOOLEAN /\ irq \in BOOLEAN
  BY DEF Typed, TypeOK, Drive
<1>2. CASE InitController
  <2>1. Calibrating(Specified(fdc, 0), 0, "init0")
    BY <1>2 DEF InitController
  <2>2. /\ cur' = 0 /\ left' = Whole /\ tries' \in 0 .. Tries /\ boot' = "init0"
        /\ fdc' \in Controller
    BY <1>1, <2>1, SpecifiedDoes, CalibratingDoes
  <2> QED
    BY <1>1, <1>2, <2>2, BootTyped DEF InitController, Boot
<1>3. CASE CalibrateWoken
  <2>1. PICK answer \in Sensed(fdc) :
          IF answer.cyl = 0 \/ tries = Tries
          THEN /\ AfterStage(MotorOff(answer.f))
               /\ irq' = (irq \/ boot = "init1")
          ELSE /\ fdc' = Seeks(answer.f, cur, 0)
               /\ tries' = tries + 1
               /\ UNCHANGED <<cur, left, boot, irq>>
    BY <1>3 DEF CalibrateWoken
  <2>2. /\ boot \in Calibration /\ boot # "done" /\ flag' = FALSE
        /\ UNCHANGED <<spt, asleep, disturbed, pc, req, mode, heads>>
    BY <1>3 DEF CalibrateWoken, Calibration
  <2>3. answer.f \in Controller
    BY <1>1, SensedDoes
  <2>4. CASE answer.cyl = 0 \/ tries = Tries
    <3>1. AfterStage(MotorOff(answer.f)) /\ irq' \in BOOLEAN
      BY <1>1, <2>1, <2>4
    <3>2. MotorOff(answer.f) \in Controller
      BY <1>1, <2>3, MotorDoes
    <3> QED
      BY <2>2, <3>1, <3>2, AfterStageTyped, BootTyped
  <2>5. CASE ~ (answer.cyl = 0 \/ tries = Tries)
    <3>1. cur \in Drive /\ tries \in 0 .. Tries /\ left \in {1, Whole} /\ boot \in Boot \ {"off"}
      BY <2>2 DEF Typed, TypeOK, Calibration, Boot
    <3>2. fdc' \in Controller
      BY <2>1, <2>3, <2>5, <3>1, SeeksDoes
    <3>3. tries' \in 0 .. Tries
      BY <2>1, <2>5, <3>1, Sizes
    <3> QED
      BY <1>1, <2>1, <2>2, <2>5, <3>1, <3>2, <3>3, BootTyped
  <2> QED
    BY <2>4, <2>5
<1>4. CASE ResetWoken
  <2>1. PICK f \in SensedFourTimes(fdc) : AfterStage(f)
    BY <1>4 DEF ResetWoken
  <2>2. /\ boot = "reset" /\ flag' = FALSE
        /\ UNCHANGED <<spt, asleep, irq, disturbed, pc, req, mode, heads>>
    BY <1>4 DEF ResetWoken
  <2>3. f \in Controller
    BY <1>1, ResetDoes
  <2> QED
    BY <1>1, <2>1, <2>2, <2>3, AfterStageTyped, BootTyped
<1> QED
  BY <1>2, <1>3, <1>4

LEMMA PanicsTyped ==
  ASSUME Typed, Panics, boot = "done", disturbed' \in BOOLEAN
  PROVE  Typed'
BY DEF Panics, Typed, TypeOK, chips, Calibration

LEMMA ReadTyped ==
  ASSUME Typed, NEW r \in Readers, NEW d \in Drive, NEW lba \in Lbas, Read(r, d, lba)
  PROVE  Typed'
<1>1. fdc \in Controller /\ TypeOK
  BY DEF Typed, TypeOK
<1>0. CASE ~ Ready(fdc)
  BY <1>0, PanicsTyped DEF Read
<1> SUFFICES ASSUME Ready(fdc) PROVE Typed'
  BY <1>0
<1> DEFINE f == MotorOn(SpecifiedIfNew(d), d)
<1>2. f \in Controller
  BY <1>1, SpecifiedDoes, MotorDoes DEF SpecifiedIfNew
<1>3. /\ cur' = d /\ left' = (IF cur = d THEN left ELSE Whole)
      /\ UNCHANGED <<spt, flag, irq, boot, tries, heads>>
      /\ boot = "done" /\ mode = "run" /\ disturbed' \in BOOLEAN
      /\ IF spt[d] = 0
         THEN /\ mode' = "fault" /\ fdc' = f /\ UNCHANGED <<pc, asleep, req>>
         ELSE /\ fdc' = Seeks(f, d, Chs(d, lba).c)
              /\ SleepsIn(r, "seek")
              /\ req' = [req EXCEPT ![r] = <<d, lba>>]
              /\ mode' = mode
  BY DEF Read, Switch
<1> HIDE DEF f
<1>4. CASE spt[d] = 0
  BY <1>2, <1>3, <1>4 DEF Typed, TypeOK, Calibration
<1>5. CASE spt[d] # 0
  <2>1. lba \in Nat /\ <<d, lba>> \in Sector
    BY Sizes DEF Sector
  <2>2. Chs(d, lba).c \in Nat
    BY <1>1, <1>5, <2>1, ChsType
  <2>3. fdc' \in Controller
    BY <1>2, <1>3, <1>5, <2>2, SeeksDoes
  <2>4. TypeOK'
    BY <1>1, <1>3, <1>5, <2>1, <2>3 DEF TypeOK, SleepsIn
  <2>5. \A q \in Readers :
          /\ asleep'[q] => pc'[q] # "user"
          /\ pc'[q] # "user" => req'[q] \in Sector /\ spt'[req'[q][1]] # 0
    <3> SUFFICES ASSUME NEW q \in Readers
                 PROVE  /\ asleep'[q] => pc'[q] # "user"
                        /\ pc'[q] # "user" => req'[q] \in Sector /\ spt'[req'[q][1]] # 0
      OBVIOUS
    <3>1. CASE q = r
      BY <1>1, <1>3, <1>5, <2>1, <3>1 DEF TypeOK, SleepsIn
    <3>2. CASE q # r
      BY <1>1, <1>3, <1>5, <3>2 DEF Typed, TypeOK, SleepsIn
    <3> QED
      BY <3>1, <3>2
  <2> QED
    BY <1>3, <1>5, <2>4, <2>5 DEF Typed, Calibration
<1> QED
  BY <1>4, <1>5

\* A woken reader whose command the controller takes.
LEMMA WokenTyped ==
  ASSUME Typed, NEW r \in Readers, pc[r] # "user", mode = "run", fdc' \in Controller,
         \/ \E place \in {"seek", "read"} : SleepsIn(r, place) /\ req' = req
         \/ /\ pc' = [pc EXCEPT ![r] = "user"] /\ req' = [req EXCEPT ![r] = None]
            /\ ~ asleep[r] /\ asleep' = asleep,
         UNCHANGED <<spt, flag, irq, cur, boot, tries, mode, heads, left, disturbed>>
  PROVE  Typed'
<1>1. TypeOK'
  BY DEF Typed, TypeOK, SleepsIn
<1>2. ASSUME NEW q \in Readers
      PROVE  /\ asleep'[q] => pc'[q] # "user"
             /\ pc'[q] # "user" => req'[q] \in Sector /\ spt'[req'[q][1]] # 0
  <2>1. CASE q = r
    BY <2>1 DEF Typed, TypeOK, SleepsIn
  <2>2. CASE q # r
    BY <2>2 DEF Typed, TypeOK, SleepsIn
  <2> QED
    BY <2>1, <2>2
<1>3. boot = "done" /\ cur \in Drive
  BY DEF Typed
<1> QED
  BY <1>1, <1>2, <1>3 DEF Typed, Calibration

LEMMA SeekWokenTyped ==
  ASSUME Typed, NEW r \in Readers, SeekWoken(r)
  PROVE  Typed'
<1>1. /\ fdc \in Controller /\ TypeOK /\ boot = "done" /\ cur \in Drive
      /\ req[r] \in Sector /\ spt[req[r][1]] # 0 /\ disturbed' \in BOOLEAN
  BY DEF Typed, TypeOK, SeekWoken
<1>2. CASE ~ Ready(fdc)
  BY <1>1, <1>2, PanicsTyped DEF SeekWoken
<1>3. CASE Ready(fdc)
  <2>1. PICK answer \in Sensed(fdc) :
          IF Arrived(r, answer.cyl)
          THEN fdc' = Reads(answer.f, cur, At(r)) /\ SleepsIn(r, "read")
          ELSE fdc' = Seeks(answer.f, cur, At(r).c) /\ SleepsIn(r, "seek")
    BY <1>3 DEF SeekWoken
  <2>2. answer.f \in Controller
    BY <1>1, SensedDoes
  <2>3. req[r][1] \in Drive /\ req[r][2] \in Nat
    BY <1>1, Sizes DEF Sector
  <2>4. At(r).c \in Nat
    BY <1>1, <2>3, ChsType DEF At
  <2>5. fdc' \in Controller
    <3>1. Seeks(answer.f, cur, At(r).c) \in Controller
      BY <1>1, <2>2, <2>4, SeeksDoes
    <3>2. Reads(answer.f, cur, At(r)) \in Controller
      BY <1>1, <2>2, <2>3, ReadsDoes, Zenon DEF At
    <3> QED
      BY <2>1, <3>1, <3>2
  <2>6. /\ pc[r] # "user" /\ mode = "run"
        /\ UNCHANGED <<spt, flag, irq, cur, boot, tries, req, mode, heads, left, disturbed>>
    BY <1>3 DEF SeekWoken, chips
  <2> QED
    BY <2>1, <2>5, <2>6, WokenTyped
<1> QED
  BY <1>2, <1>3

LEMMA ReadWokenTyped ==
  ASSUME Typed, NEW r \in Readers, ReadWoken(r)
  PROVE  Typed'
<1>1. fdc \in Controller /\ TypeOK /\ boot = "done" /\ disturbed' \in BOOLEAN
  BY DEF Typed, TypeOK, ReadWoken
<1>2. CASE ~ Ready(fdc)
  BY <1>1, <1>2, PanicsTyped DEF ReadWoken
<1>3. CASE Ready(fdc)
  <2>1. PICK answer \in Sensed(Fetched(fdc, 7)) : fdc' = MotorOff(answer.f)
    BY <1>3 DEF ReadWoken
  <2>2. Fetched(fdc, 7) \in Controller
    BY <1>1, FetchedDoes
  <2>3. answer.f \in Controller
    BY <1>1, <2>2, SensedDoes
  <2>4. fdc' \in Controller
    <3>1. 0 \in Drive
      BY DEF Drive
    <3> QED
      BY <2>1, <2>3, <3>1, MotorDoes
  <2>5. /\ pc[r] # "user" /\ mode = "run" /\ ~ asleep[r] /\ asleep' = asleep
        /\ pc' = [pc EXCEPT ![r] = "user"] /\ req' = [req EXCEPT ![r] = None]
        /\ UNCHANGED <<spt, flag, irq, cur, boot, tries, mode, heads, left, disturbed>>
    BY <1>3 DEF ReadWoken, chips
  <2> QED
    BY <2>4, <2>5, WokenTyped
<1> QED
  BY <1>2, <1>3

LEMMA HardwareTyped ==
  ASSUME Typed,
         \/ Interrupt \/ ReadEnds
         \/ \E r \in Readers : Signalled(r)
         \/ \E d \in Drive, cyl \in 0 .. Cylinders - 1 : SeekEnds(d, cyl)
  PROVE  Typed'
<1>1. fdc \in Controller
  BY DEF Typed, TypeOK
<1>2. CASE Interrupt
  BY <1>2 DEF Typed, TypeOK, Interrupt, driver, chips, Calibration
<1>3. CASE ReadEnds
  <2>1. fdc' \in Controller
    <3>1. fdc' = [fdc EXCEPT !.exec = None, !.results = 7]
      BY <1>3 DEF ReadEnds
    <3> QED
      BY <1>1, <3>1, AnswersDoes
  <2>2. left' \in {1, Whole}
    BY <1>3 DEF ReadEnds, Transfer, Typed, TypeOK
  <2> QED
    BY <1>3, <2>1, <2>2 DEF Typed, TypeOK, ReadEnds, driver, Calibration
<1>4. ASSUME NEW r \in Readers, Signalled(r) PROVE Typed'
  BY <1>4 DEF Typed, TypeOK, Signalled, driver, chips, Calibration
<1>5. ASSUME NEW d \in Drive, NEW cyl \in 0 .. Cylinders - 1, SeekEnds(d, cyl)
      PROVE  Typed'
  <2>1. fdc' \in Controller
    <3>1. fdc' = [fdc EXCEPT !.seeking[d] = None, !.sense = @ \union {d}]
      BY <1>5 DEF SeekEnds
    <3> QED
      BY <1>1, <3>1, AnswersDoes
  <2> QED
    BY <1>5, <2>1 DEF Typed, TypeOK, SeekEnds, driver, Calibration
<1> QED
  BY <1>2, <1>3, <1>4, <1>5

LEMMA NextTyped == Typed /\ [Next]_vars => Typed'
<1> SUFFICES ASSUME Typed, [Next]_vars PROVE Typed'
  OBVIOUS
<1>1. CASE UNCHANGED vars
  BY <1>1 DEF Typed, TypeOK, vars, driver, chips, Calibration
<1> QED
  BY <1>1, BootStepsTyped, ReadTyped, SeekWokenTyped, ReadWokenTyped, HardwareTyped
  DEF Next, Halted

\* Every variable keeps its type, also after reads overlapped or a signal ended a
\* wait: whatever the driver sends and fetches, the controller is asked for
\* cylinders and sectors that are numbers, and owes seven result bytes at most.
THEOREM FloppyTypeCorrect == Spec => []TypeOK
<1>1. Typed => TypeOK
  BY DEF Typed
<1> QED
  BY <1>1, InitTyped, NextTyped, PTL DEF Spec

----------------------------------------------------------------------------
(* What the driver has of the controller at its waits *)

LEMMA InitOrderly == Init => Orderly
BY DEF Init, Idle, Orderly, Quiet, Still, Calibration

\* The next stage of the boot, when the controller owes nothing more.
LEMMA AfterStageOrderly ==
  ASSUME Typed, Orderly, boot \in Calibration \union {"reset"}, NEW f \in Controller,
         AfterStage(f), f.exec = None, f.results = 0, f.sense = {},
         \A d \in Drive : f.seeking[d] = None,
         boot \in Calibration => f.spec = cur /\ f.motor = None,
         flag' = FALSE, irq' = IF boot = "init1" THEN TRUE ELSE FALSE,
         UNCHANGED <<spt, asleep, disturbed, pc, req, mode>>
  PROVE  Orderly'
<1>1. /\ 0 \in Drive /\ 1 \in Drive /\ Drive = {0, 1} /\ cur \in Drive
      /\ mode = "run" /\ ~ disturbed /\ \A r \in Readers : pc[r] = "user"
  BY DEF Typed, Drive, Calibration
<1>2. ASSUME NEW g \in Controller, NEW d \in Drive, NEW stage \in Calibration,
             Calibrating(g, d, stage), boot # "init1", stage = "init1" => d = 1,
             g.exec = None, g.results = 0, g.sense = {}, g.spec = d,
             \A o \in Drive : g.seeking[o] = None
      PROVE  Orderly'
  <2>1. /\ cur' = d /\ boot' = stage
        /\ fdc'.exec = None /\ fdc'.sense = {} /\ fdc'.results = 0
        /\ fdc'.spec = d /\ fdc'.motor = d
        /\ \A o \in Drive \ {d} : fdc'.seeking[o] = None
        /\ fdc'.seeking[d] = 0
    BY <1>2, CalibratingDoes
  <2>2. irq' = FALSE /\ 0 # None
    <3>1. 0 \in Nat
      OBVIOUS
    <3> QED
      BY <1>2, <3>1, Sizes, Zenon
  <2>3. Seeking(cur, ~ flag)'
    BY <2>1, <2>2 DEF Seeking
  <2> QED
    BY <1>1, <1>2, <2>1, <2>3 DEF Orderly, Calibration
<1>3. \A d \in Drive : /\ Specified(f, d) \in Controller
                       /\ Specified(f, d).exec = None /\ Specified(f, d).results = 0
                       /\ Specified(f, d).sense = {} /\ Specified(f, d).spec = d
                       /\ Specified(f, d).seeking = f.seeking
  BY SpecifiedDoes
<1>4. CASE boot = "init0"
  <2>1. Calibrating(Specified(f, 1), 1, "init1")
    BY <1>4 DEF AfterStage
  <2> QED
    BY <1>1, <1>2, <1>3, <1>4, <2>1 DEF Calibration
<1>5. CASE boot = "init1"
  <2>1. fdc' = Reset(f) /\ boot' = "reset" /\ cur' = cur
    BY <1>5 DEF AfterStage
  <2>2. Resetting'
    BY <1>5, <2>1, ResetDoes DEF Resetting, Still
  <2> QED
    BY <1>1, <1>5, <2>1, <2>2 DEF Orderly, Calibration
<1>6. CASE boot = "reset"
  <2>1. Calibrating(Specified(f, 0), 0, "cal0")
    BY <1>6 DEF AfterStage, Orderly
  <2> QED
    BY <1>1, <1>2, <1>3, <1>6, <2>1 DEF Calibration
<1>7. CASE boot = "cal0"
  <2>1. Calibrating(IF cur = 1 THEN f ELSE Specified(f, 1), 1, "cal1")
    BY <1>7 DEF AfterStage
  <2>2. f.spec = cur
    BY <1>7 DEF Calibration
  <2> QED
    BY <1>1, <1>2, <1>3, <1>7, <2>1, <2>2 DEF Calibration
<1>8. CASE boot = "cal1"
  <2>1. cur' = Other /\ fdc' = f /\ boot' = "done"
    BY <1>8 DEF AfterStage
  <2>2. f.motor = None /\ irq' = FALSE
    BY <1>8 DEF Calibration
  <2>3. Quiet'
    BY <2>1, <2>2 DEF Quiet, Still
  <2>4. Other \notin Drive
    BY DEF Other, Drive
  <2>5. InDriver'
    BY <1>1, <2>1, <2>3, <2>4 DEF InDriver
  <2> QED
    BY <1>1, <2>1, <2>5 DEF Orderly, Calibration
<1> QED
  BY <1>4, <1>5, <1>6, <1>7, <1>8 DEF Calibration

LEMMA BootStepsOrderly ==
  ASSUME Typed, Orderly, InitController \/ CalibrateWoken \/ ResetWoken
  PROVE  Orderly'
<1>1. fdc \in Controller /\ TypeOK /\ 0 \in Drive
  BY DEF Typed, TypeOK, Drive
<1>2. CASE InitController
  <2>1. /\ Calibrating(Specified(fdc, 0), 0, "init0") /\ boot = "off"
        /\ UNCHANGED <<flag, irq, disturbed, mode>>
    BY <1>2 DEF InitController
  <2>2. Quiet /\ ~ flag /\ mode = "run"
    BY <2>1 DEF Orderly, Typed
  <2>3. /\ Specified(fdc, 0) \in Controller
        /\ Specified(fdc, 0).exec = None /\ Specified(fdc, 0).results = 0
        /\ Specified(fdc, 0).sense = {} /\ Specified(fdc, 0).spec = 0
        /\ Specified(fdc, 0).seeking = fdc.seeking
    BY <1>1, <2>2, SpecifiedDoes DEF Quiet
  <2>4. /\ cur' = 0 /\ boot' = "init0"
        /\ fdc'.exec = None /\ fdc'.sense = {} /\ fdc'.results = 0
        /\ fdc'.spec = 0 /\ fdc'.motor = 0
        /\ \A o \in Drive \ {0} : fdc'.seeking[o] = fdc.seeking[o]
        /\ fdc'.seeking[0] = 0
    BY <1>1, <2>1, <2>3, CalibratingDoes
  <2>5. Seeking(cur, ~ flag)'
    BY <2>1, <2>2, <2>4, Sizes DEF Seeking, Quiet, Still
  <2> QED
    BY <2>1, <2>2, <2>4, <2>5 DEF Orderly, Calibration
<1>3. CASE CalibrateWoken
  <2>1. PICK answer \in Sensed(fdc) :
          IF answer.cyl = 0 \/ tries = Tries
          THEN /\ AfterStage(MotorOff(answer.f))
               /\ irq' = (irq \/ boot = "init1")
          ELSE /\ fdc' = Seeks(answer.f, cur, 0)
               /\ UNCHANGED <<cur, boot, irq>>
    BY <1>3 DEF CalibrateWoken
  <2>2. /\ boot \in Calibration /\ flag /\ flag' = FALSE /\ cur \in Drive /\ mode = "run"
        /\ UNCHANGED <<spt, asleep, disturbed, pc, req, mode>>
    BY <1>3 DEF CalibrateWoken, Calibration, Typed
  <2>3. Seeking(cur, ~ flag)
    BY <2>2 DEF Orderly
  <2>4. /\ fdc.exec = None /\ fdc.results = 0 /\ fdc.sense = {cur} /\ irq = FALSE
        /\ fdc.spec = cur /\ fdc.motor = cur /\ \A d \in Drive : fdc.seeking[d] = None
    BY <1>1, <2>2, <2>3 DEF Seeking, TypeOK
  <2>5. /\ answer.f \in Controller /\ answer.f.exec = None /\ answer.f.results = 0
        /\ answer.f.sense = {} /\ answer.f.spec = cur /\ answer.f.motor = cur
        /\ answer.f.seeking = fdc.seeking
    BY <1>1, <2>4, SensedDoes
  <2>6. CASE answer.cyl = 0 \/ tries = Tries
    <3> DEFINE g == MotorOff(answer.f)
    <3>1. /\ g \in Controller /\ g.exec = None /\ g.results = 0 /\ g.sense = {}
          /\ g.spec = cur /\ g.motor = None /\ g.seeking = fdc.seeking
      BY <1>1, <2>5, MotorDoes
    <3>2. AfterStage(g) /\ irq' = IF boot = "init1" THEN TRUE ELSE FALSE
      BY <2>1, <2>4, <2>6
    <3> HIDE DEF g
    <3> QED
      BY <2>2, <2>4, <3>1, <3>2, AfterStageOrderly
  <2>7. CASE ~ (answer.cyl = 0 \/ tries = Tries)
    <3>1. fdc' = Seeks(answer.f, cur, 0) /\ UNCHANGED <<cur, boot, irq>>
      BY <2>1, <2>7
    <3>2. /\ fdc'.exec = None /\ fdc'.sense = {} /\ fdc'.results = 0
          /\ fdc'.spec = cur /\ fdc'.motor = cur
          /\ \A o \in Drive \ {cur} : fdc'.seeking[o] = fdc.seeking[o]
          /\ fdc'.seeking[cur] = 0
      BY <2>2, <2>5, <3>1, SeeksDoes
    <3>3. Seeking(cur, ~ flag)'
      BY <2>2, <2>4, <3>1, <3>2, Sizes DEF Seeking
    <3> QED
      BY <2>2, <3>1, <3>3 DEF Orderly, Calibration
  <2> QED
    BY <2>6, <2>7
<1>4. CASE ResetWoken
  <2>1. PICK f \in SensedFourTimes(fdc) : AfterStage(f)
    BY <1>4 DEF ResetWoken
  <2>2. /\ boot = "reset" /\ flag /\ flag' = FALSE
        /\ UNCHANGED <<spt, asleep, irq, disturbed, pc, req, mode>>
    BY <1>4 DEF ResetWoken
  <2>3. Resetting /\ irq = FALSE
    BY <1>1, <2>2 DEF Orderly, Resetting, TypeOK
  <2>4. /\ f \in Controller /\ f.exec = None /\ f.results = 0 /\ f.sense = {}
        /\ \A d \in Drive : f.seeking[d] = None
    BY <1>1, <2>3, ResetDoes DEF Resetting, Still
  <2> QED
    BY <2>1, <2>2, <2>3, <2>4, AfterStageOrderly DEF Calibration
<1> QED
  BY <1>2, <1>3, <1>4

LEMMA ReadOrderly ==
  ASSUME Typed, Orderly, NEW r \in Readers, NEW d \in Drive, NEW lba \in Lbas,
         Read(r, d, lba)
  PROVE  Orderly'
<1>1. /\ fdc \in Controller /\ TypeOK /\ boot = "done" /\ mode = "run" /\ ~ disturbed
      /\ disturbed' \in BOOLEAN /\ pc[r] = "user"
  BY DEF Read, Typed, TypeOK
<1>2. boot' = "done"
  BY <1>1 DEF Read, Panics
<1>3. CASE disturbed'
  BY <1>2, <1>3 DEF Orderly, Calibration
<1>4. CASE ~ disturbed'
  <2>1. \A q \in Readers : pc[q] = "user"
    BY <1>1, <1>4 DEF Read
  <2>2. InDriver /\ Quiet
    BY <1>1, <2>1 DEF Orderly, InDriver
  <2>3. Ready(fdc)
    BY <2>2 DEF Quiet, Ready
  <2> DEFINE f == MotorOn(SpecifiedIfNew(d), d)
  <2>4. /\ f \in Controller /\ f.exec = None /\ f.results = 0 /\ f.sense = {}
        /\ f.spec = d /\ f.motor = d /\ f.seeking = fdc.seeking
    <3> DEFINE g == SpecifiedIfNew(d)
    <3>1. /\ g \in Controller /\ g.exec = None /\ g.results = 0 /\ g.sense = {}
          /\ g.spec = d /\ g.seeking = fdc.seeking
      <4>1. CASE cur = d
        BY <1>1, <2>2, <4>1 DEF SpecifiedIfNew, InDriver, Quiet
      <4>2. CASE cur # d
        BY <1>1, <2>2, <4>2, SpecifiedDoes DEF SpecifiedIfNew, Quiet
      <4> QED
        BY <4>1, <4>2
    <3> HIDE DEF g
    <3>2. /\ MotorOn(g, d) \in Controller
          /\ MotorOn(g, d).exec = None /\ MotorOn(g, d).results = 0
          /\ MotorOn(g, d).sense = {} /\ MotorOn(g, d).spec = d
          /\ MotorOn(g, d).motor = d /\ MotorOn(g, d).seeking = fdc.seeking
      BY <3>1, MotorDoes
    <3> QED
      BY <3>2 DEF g
  <2>5. /\ cur' = d /\ UNCHANGED <<spt, irq>>
        /\ IF spt[d] = 0
           THEN mode' = "fault" /\ fdc' = f
           ELSE /\ fdc' = Seeks(f, d, Chs(d, lba).c)
                /\ SleepsIn(r, "seek")
                /\ req' = [req EXCEPT ![r] = <<d, lba>>]
                /\ mode' = mode
    BY <2>3 DEF Read, Switch
  <2> HIDE DEF f
  <2>6. CASE spt[d] = 0
    <3>1. Stopped'
      BY <2>2, <2>4, <2>5, <2>6 DEF Stopped, Still, Quiet
    <3> QED
      BY <1>2, <2>5, <2>6, <3>1 DEF Orderly, Calibration
  <2>7. CASE spt[d] # 0
    <3>1. lba \in Nat /\ Chs(d, lba).c \in Nat
      BY <1>1, <2>7, Sizes, ChsType
    <3>2. /\ fdc'.exec = None /\ fdc'.sense = {} /\ fdc'.results = 0
          /\ fdc'.spec = d /\ fdc'.motor = d
          /\ \A o \in Drive \ {d} : fdc'.seeking[o] = fdc.seeking[o]
          /\ fdc'.seeking[d] # None
      BY <2>4, <2>5, <2>7, <3>1, SeeksDoes, Sizes
    <3>3. /\ pc' = [pc EXCEPT ![r] = "seek"] /\ asleep' = [asleep EXCEPT ![r] = TRUE]
          /\ req' = [req EXCEPT ![r] = <<d, lba>>] /\ mode' = "run"
      BY <1>1, <2>5, <2>7 DEF SleepsIn
    <3>4. /\ pc'[r] = "seek" /\ asleep'[r] /\ req'[r] = <<d, lba>>
          /\ \A q \in Readers \ {r} : pc'[q] = "user"
      BY <1>1, <2>1, <3>3 DEF TypeOK
    <3>5. Seeking(d, TRUE)'
      BY <2>2, <2>5, <3>2 DEF Seeking, Quiet, Still
    <3>6. Seeking(cur, asleep[r])'
      BY <2>5, <3>4, <3>5 DEF Seeking
    <3>7. InDriver'
      <4>1. cur' = d /\ spt' = spt
        BY <2>5
      <4>2. \A p, q \in Readers : pc'[p] # "user" /\ pc'[q] # "user" => p = q
        BY <3>4
      <4>3. \A q \in Readers :
              /\ pc'[q] # "user" => req'[q][1] = d
              /\ pc'[q] = "seek" => Seeking(cur, asleep[q])'
              /\ pc'[q] # "read"
        BY <3>4, <3>6 DEF Seeking
      <4> QED
        BY <2>7, <3>2, <3>4, <4>1, <4>2, <4>3 DEF InDriver
    <3> QED
      BY <1>2, <3>3, <3>7 DEF Orderly, Calibration
  <2> QED
    BY <2>6, <2>7
<1> QED
  BY <1>1, <1>3, <1>4

LEMMA SeekWokenOrderly ==
  ASSUME Typed, Orderly, NEW r \in Readers, SeekWoken(r)
  PROVE  Orderly'
<1>1. /\ fdc \in Controller /\ TypeOK /\ boot = "done" /\ mode = "run" /\ cur \in Drive
      /\ req[r] \in Sector /\ spt[req[r][1]] # 0 /\ pc[r] = "seek" /\ ~ asleep[r]
  BY DEF SeekWoken, Typed, TypeOK
<1>2. boot' = "done" /\ disturbed' = disturbed
  BY <1>1 DEF SeekWoken, Panics
<1>3. CASE disturbed
  BY <1>2, <1>3 DEF Orderly, Calibration
<1>4. CASE ~ disturbed
  <2>1. InDriver /\ Seeking(cur, asleep[r])
    BY <1>1, <1>4 DEF Orderly, InDriver
  <2>2. /\ fdc.exec = None /\ fdc.results = 0 /\ fdc.sense = {cur} /\ ~ irq
        /\ fdc.spec = cur /\ fdc.motor = cur /\ Still
    BY <1>1, <2>1 DEF Seeking, Still
  <2>3. PICK answer \in Sensed(fdc) :
          IF Arrived(r, answer.cyl)
          THEN fdc' = Reads(answer.f, cur, At(r)) /\ SleepsIn(r, "read")
          ELSE fdc' = Seeks(answer.f, cur, At(r).c) /\ SleepsIn(r, "seek")
    BY <2>2 DEF SeekWoken, Ready
  <2>4. UNCHANGED <<spt, irq, cur, req, mode>>
    BY <2>2 DEF SeekWoken, Ready
  <2>5. /\ answer.f \in Controller /\ answer.f.exec = None /\ answer.f.results = 0
        /\ answer.f.sense = {} /\ answer.f.spec = cur /\ answer.f.motor = cur
        /\ answer.f.seeking = fdc.seeking
    BY <1>1, <2>2, SensedDoes
  <2>6. req[r][1] \in Drive /\ req[r][2] \in Nat
    BY <1>1, Sizes DEF Sector
  <2>7. \A q \in Readers \ {r} : pc[q] = "user"
    BY <1>1, <2>1 DEF InDriver
  <2>8. CASE Arrived(r, answer.cyl)
    <3>1. fdc' = Reads(answer.f, cur, At(r)) /\ SleepsIn(r, "read")
      BY <2>3, <2>8
    <3>2. /\ fdc'.seeking = fdc.seeking /\ fdc'.sense = {} /\ fdc'.results = 0
          /\ fdc'.spec = cur /\ fdc'.motor = cur /\ fdc'.exec = CommandOf(r)
      <4>1. At(r) = Chs(req[r][1], req[r][2])
        BY DEF At
      <4> DEFINE g == Reads(answer.f, cur, Chs(req[r][1], req[r][2]))
      <4>2. /\ g.seeking = answer.f.seeking /\ g.sense = answer.f.sense
            /\ g.results = answer.f.results /\ g.spec = answer.f.spec
            /\ g.motor = answer.f.motor
            /\ (answer.f.results = 0 =>
                  g.exec = [drive |-> cur, c |-> At(r).c, h |-> At(r).h, s |-> At(r).s,
                            eot |-> Eot(cur, At(r).s)])
        BY <1>1, <2>5, <2>6, ReadsDoes DEF At
      <4>3. fdc' = g
        BY <3>1, <4>1
      <4> HIDE DEF g
      <4> QED
        BY <2>5, <4>2, <4>3 DEF CommandOf
    <3>3. /\ pc'[r] = "read" /\ asleep'[r] /\ req'[r] = req[r]
          /\ \A q \in Readers \ {r} : pc'[q] = "user"
      BY <1>1, <2>4, <2>7, <3>1 DEF TypeOK, SleepsIn
    <3>4. CommandOf(r)' = CommandOf(r)
      BY <2>4 DEF CommandOf, At, Chs, Eot
    <3>5. Reading(r)'
      BY <2>2, <2>4, <3>2, <3>3, <3>4 DEF Reading, Still
    <3>6. InDriver'
      BY <2>1, <2>4, <1>1, <3>2, <3>3, <3>5 DEF InDriver
    <3> QED
      BY <1>1, <1>2, <2>4, <3>6 DEF Orderly, Calibration
  <2>9. CASE ~ Arrived(r, answer.cyl)
    <3>1. fdc' = Seeks(answer.f, cur, At(r).c) /\ SleepsIn(r, "seek")
      BY <2>3, <2>9
    <3>2. At(r).c \in Nat
      BY <1>1, <2>6, ChsType DEF At
    <3>3. /\ fdc'.exec = None /\ fdc'.sense = {} /\ fdc'.results = 0
          /\ fdc'.spec = cur /\ fdc'.motor = cur
          /\ \A o \in Drive \ {cur} : fdc'.seeking[o] = fdc.seeking[o]
          /\ fdc'.seeking[cur] # None
      <4> DEFINE c == At(r).c
      <4>1. c \in Nat
        BY <3>2
      <4> HIDE DEF c
      <4>2. fdc' = Seeks(answer.f, cur, c)
        BY <3>1 DEF c
      <4>3. /\ fdc'.exec = None /\ fdc'.sense = {} /\ fdc'.results = 0
            /\ fdc'.spec = cur /\ fdc'.motor = cur
            /\ \A o \in Drive \ {cur} : fdc'.seeking[o] = answer.f.seeking[o]
            /\ fdc'.seeking[cur] = c
        <5>1. cur \in Drive /\ answer.f \in Controller
          BY <1>1, <2>5
        <5> DEFINE g == Seeks(answer.f, cur, c)
        <5>2. /\ g.exec = answer.f.exec /\ g.spec = answer.f.spec
              /\ g.sense = answer.f.sense /\ g.results = answer.f.results
              /\ g.motor = answer.f.motor
              /\ \A o \in Drive \ {cur} : g.seeking[o] = answer.f.seeking[o]
              /\ answer.f.results = 0 => g.seeking[cur] = c
          BY <5>1, <4>1, SeeksDoes
        <5> HIDE DEF g
        <5>3. fdc' = g
          BY <4>2 DEF g
        <5> QED
          BY <2>5, <5>2, <5>3
      <4> QED
        BY <2>5, <4>1, <4>3, Sizes
    <3>4. /\ pc'[r] = "seek" /\ asleep'[r] /\ req'[r] = req[r]
          /\ \A q \in Readers \ {r} : pc'[q] = "user"
      BY <1>1, <2>4, <2>7, <3>1 DEF TypeOK, SleepsIn
    <3>5. Seeking(cur, TRUE)'
      BY <2>2, <2>4, <3>3 DEF Seeking, Still
    <3>6. Seeking(cur, asleep[r])'
      BY <3>4, <3>5 DEF Seeking
    <3>7. InDriver'
      BY <1>1, <2>1, <2>4, <3>3, <3>4, <3>6 DEF InDriver
    <3> QED
      BY <1>1, <1>2, <2>4, <3>7 DEF Orderly, Calibration
  <2> QED
    BY <2>8, <2>9
<1> QED
  BY <1>3, <1>4

LEMMA ReadWokenOrderly ==
  ASSUME Typed, Orderly, NEW r \in Readers, ReadWoken(r)
  PROVE  Orderly'
<1>1. /\ fdc \in Controller /\ TypeOK /\ boot = "done" /\ mode = "run" /\ cur \in Drive
      /\ pc[r] = "read" /\ ~ asleep[r]
  BY DEF ReadWoken, Typed, TypeOK
<1>2. boot' = "done" /\ disturbed' = disturbed
  BY <1>1 DEF ReadWoken, Panics
<1>3. CASE disturbed
  BY <1>2, <1>3 DEF Orderly, Calibration
<1>4. CASE ~ disturbed
  <2>1. InDriver /\ Reading(r)
    BY <1>1, <1>4 DEF Orderly, InDriver
  <2>2. /\ fdc.exec = None /\ fdc.results = 7 /\ fdc.sense = {} /\ ~ irq
        /\ fdc.spec = cur /\ Still
    BY <1>1, <2>1 DEF Reading
  <2>3. /\ UNCHANGED <<spt, irq, cur, mode>>
        /\ pc' = [pc EXCEPT ![r] = "user"]
    BY <2>2 DEF ReadWoken, Ready
  <2>4. PICK answer \in Sensed(Fetched(fdc, 7)) : fdc' = MotorOff(answer.f)
    BY <2>2 DEF ReadWoken, Ready
  <2> DEFINE f == Fetched(fdc, 7)
  <2>5. /\ f \in Controller /\ f.exec = None /\ f.results = 0 /\ f.sense = {}
        /\ f.spec = cur /\ f.seeking = fdc.seeking
    BY <1>1, <2>2, FetchedDoes
  <2> HIDE DEF f
  <2>6. /\ answer.f \in Controller /\ answer.f.exec = None /\ answer.f.results = 0
        /\ answer.f.sense = {} /\ answer.f.spec = cur /\ answer.f.seeking = fdc.seeking
    BY <1>1, <2>4, <2>5, SensedDoes DEF f
  <2>7. /\ fdc'.exec = None /\ fdc'.results = 0 /\ fdc'.sense = {}
        /\ fdc'.spec = cur /\ fdc'.seeking = fdc.seeking /\ fdc'.motor = None
    BY <1>1, <2>4, <2>6, MotorDoes
  <2>8. \A q \in Readers : pc'[q] = "user"
    BY <1>1, <2>1, <2>3 DEF InDriver, TypeOK
  <2>9. Quiet'
    BY <2>2, <2>3, <2>7 DEF Quiet, Still
  <2>10. InDriver'
    BY <1>1, <2>1, <2>3, <2>7, <2>8, <2>9 DEF InDriver
  <2> QED
    BY <1>1, <1>2, <2>3, <2>10 DEF Orderly, Calibration
<1> QED
  BY <1>3, <1>4

LEMMA SignalledOrderly ==
  ASSUME Typed, Orderly, NEW r \in Readers, Signalled(r)
  PROVE  Orderly'
<1>1. boot' = "done" /\ disturbed'
  BY DEF Signalled, Typed, TypeOK, driver
<1> QED
  BY <1>1 DEF Orderly, Calibration

LEMMA SeekEndsOrderly ==
  ASSUME Typed, Orderly, NEW d \in Drive, NEW cyl \in 0 .. Cylinders - 1, SeekEnds(d, cyl)
  PROVE  Orderly'
<1>1. /\ fdc \in Controller /\ TypeOK /\ mode = "run" /\ mode' = "run"
      /\ fdc.seeking[d] # None /\ irq'
      /\ UNCHANGED <<spt, flag, asleep, disturbed, cur, boot, pc, req>>
  BY DEF Typed, TypeOK, SeekEnds, driver
<1>2. /\ fdc'.exec = fdc.exec /\ fdc'.results = fdc.results /\ fdc'.spec = fdc.spec
      /\ fdc'.motor = fdc.motor /\ fdc'.sense = fdc.sense \union {d}
      /\ fdc'.seeking[d] = None /\ \A o \in Drive \ {d} : fdc'.seeking[o] = fdc.seeking[o]
  <2>1. fdc' = [fdc EXCEPT !.seeking[d] = None, !.sense = @ \union {d}]
    BY DEF SeekEnds
  <2> QED
    BY <1>1, <2>1 DEF Controller
<1>3. ASSUME NEW e \in Drive, NEW waits, NEW waited, Seeking(e, waits),
             waited <=> waits
      PROVE  /\ fdc'.exec = None /\ fdc'.results = 0 /\ fdc'.spec = e /\ fdc'.motor = e
             /\ \A o \in Drive : fdc'.seeking[o] = None
             /\ fdc'.sense = {e} /\ waits
  BY <1>1, <1>2, <1>3 DEF Seeking
<1>4. boot # "off" /\ boot # "reset"
  BY <1>1 DEF Orderly, Quiet, Resetting, Still
<1>5. CASE boot \in Calibration
  <2>1. cur \in Drive /\ Seeking(cur, ~ flag)
    BY <1>5 DEF Typed, Orderly
  <2>2. Seeking(cur, ~ flag)'
    BY <1>1, <1>3, <2>1 DEF Seeking
  <2> QED
    BY <1>1, <1>4, <1>5, <2>2 DEF Orderly, Calibration
<1>6. CASE boot = "done" /\ ~ disturbed
  <2>1. InDriver
    BY <1>1, <1>6 DEF Orderly
  <2>2. PICK r \in Readers : pc[r] = "seek"
    <3>1. PICK r \in Readers : pc[r] # "user"
      BY <1>1, <2>1 DEF InDriver, Quiet, Still
    <3>2. pc[r] # "read"
      BY <1>1, <2>1 DEF InDriver, Reading, Still
    <3> QED
      BY <1>1, <3>1, <3>2 DEF TypeOK
  <2>3. cur \in Drive /\ Seeking(cur, asleep[r]) /\ \A q \in Readers \ {r} : pc[q] = "user"
    BY <2>1, <2>2 DEF InDriver, Typed
  <2>4. Seeking(cur, asleep[r])'
    BY <1>1, <1>3, <2>3 DEF Seeking
  <2>5. fdc'.spec = cur
    BY <1>3, <2>3
  <2>6. \A q \in Readers : /\ pc'[q] = "seek" => Seeking(cur, asleep[q])'
                           /\ pc'[q] # "read"
    BY <1>1, <2>2, <2>3, <2>4 DEF Seeking
  <2>7. InDriver'
    BY <1>1, <2>1, <2>2, <2>5, <2>6 DEF InDriver
  <2> QED
    BY <1>1, <1>6, <2>7 DEF Orderly, Calibration
<1>7. CASE boot = "done" /\ disturbed
  BY <1>1, <1>7 DEF Orderly, Calibration
<1> QED
  BY <1>4, <1>5, <1>6, <1>7 DEF Typed, TypeOK, Boot, Calibration

LEMMA ReadEndsOrderly ==
  ASSUME Typed, Orderly, ReadEnds
  PROVE  Orderly'
<1>1. /\ fdc \in Controller /\ TypeOK /\ mode = "run" /\ mode' = "run"
      /\ fdc.exec # None /\ irq'
      /\ UNCHANGED <<spt, flag, asleep, disturbed, cur, boot, pc, req>>
  BY DEF Typed, TypeOK, ReadEnds, driver
<1>2. /\ fdc'.exec = None /\ fdc'.results = 7 /\ fdc'.spec = fdc.spec
      /\ fdc'.motor = fdc.motor /\ fdc'.sense = fdc.sense /\ fdc'.seeking = fdc.seeking
  <2>1. fdc' = [fdc EXCEPT !.exec = None, !.results = 7]
    BY DEF ReadEnds
  <2> QED
    BY <1>1, <2>1 DEF Controller
<1>3. boot = "done"
  BY <1>1 DEF Orderly, Quiet, Resetting, Seeking, Typed, TypeOK, Boot, Calibration
<1>4. CASE ~ disturbed
  <2>1. InDriver
    BY <1>1, <1>3, <1>4 DEF Orderly
  <2>2. PICK r \in Readers : pc[r] = "read"
    <3>1. PICK r \in Readers : pc[r] # "user"
      BY <1>1, <2>1 DEF InDriver, Quiet
    <3>2. pc[r] # "seek"
      BY <1>1, <2>1 DEF InDriver, Seeking
    <3> QED
      BY <1>1, <3>1, <3>2 DEF TypeOK
  <2>3. Reading(r) /\ \A q \in Readers \ {r} : pc[q] = "user"
    BY <2>1, <2>2 DEF InDriver
  <2>4. Reading(r)'
    BY <1>1, <1>2, <2>3 DEF Reading, Still
  <2>5. \A q \in Readers : pc'[q] # "user" => q = r
    BY <1>1, <2>3
  <2>6. InDriver'
    BY <1>1, <1>2, <2>1, <2>2, <2>4, <2>5 DEF InDriver
  <2> QED
    BY <1>1, <1>3, <2>6 DEF Orderly, Calibration
<1>5. CASE disturbed
  BY <1>1, <1>3, <1>5 DEF Orderly, Calibration
<1> QED
  BY <1>4, <1>5

LEMMA InterruptOrderly ==
  ASSUME Typed, Orderly, Interrupt
  PROVE  Orderly'
<1>1. /\ TypeOK /\ mode = "run" /\ mode' = "run" /\ irq /\ ~ irq' /\ flag'
      /\ \A r \in Readers : ~ asleep'[r]
      /\ UNCHANGED <<spt, fdc, disturbed, cur, boot, pc, req>>
  BY DEF Typed, TypeOK, Interrupt, driver
<1>2. boot # "off"
  BY <1>1 DEF Orderly, Quiet
<1>3. CASE boot = "reset"
  <2>1. Resetting'
    BY <1>1, <1>3 DEF Orderly, Resetting, Still
  <2> QED
    BY <1>1, <1>3, <2>1 DEF Orderly, Calibration
<1>4. CASE boot \in Calibration
  <2>1. Seeking(cur, ~ flag)
    BY <1>4 DEF Orderly
  <2>2. Seeking(cur, ~ flag)'
    BY <1>1, <2>1 DEF Seeking
  <2> QED
    BY <1>1, <1>2, <1>4, <2>2 DEF Orderly, Calibration
<1>5. CASE boot = "done" /\ ~ disturbed
  <2>1. InDriver
    BY <1>1, <1>5 DEF Orderly
  <2>2. ASSUME NEW r \in Readers
        PROVE  /\ pc'[r] # "user" => req'[r][1] = cur'
               /\ pc'[r] = "seek" => Seeking(cur, asleep[r])'
               /\ pc'[r] = "read" => Reading(r)'
    <3>1. pc[r] = "seek" => Seeking(cur, asleep[r])'
      BY <1>1, <2>1 DEF InDriver, Seeking
    <3>2. pc[r] = "read" => Reading(r)'
      BY <1>1, <2>1 DEF InDriver, Reading, Still
    <3> QED
      BY <1>1, <2>1, <3>1, <3>2 DEF InDriver
  <2>3. ~ \A r \in Readers : pc[r] = "user"
    BY <1>1, <2>1 DEF InDriver, Quiet
  <2>4. InDriver'
    BY <1>1, <2>1, <2>2, <2>3 DEF InDriver
  <2> QED
    BY <1>1, <1>5, <2>4 DEF Orderly, Calibration
<1>6. CASE boot = "done" /\ disturbed
  BY <1>1, <1>6 DEF Orderly, Calibration
<1> QED
  BY <1>2, <1>3, <1>4, <1>5, <1>6 DEF Typed, TypeOK, Boot, Calibration

LEMMA NextOrderly == Typed /\ Orderly /\ [Next]_vars => Orderly'
<1> SUFFICES ASSUME Typed, Orderly, [Next]_vars PROVE Orderly'
  OBVIOUS
<1>1. CASE UNCHANGED vars
  BY <1>1 DEF Orderly, vars, driver, Quiet, Still, Seeking, Resetting, InDriver, Reading,
              CommandOf, At, Chs, Eot, Stopped
<1> QED
  BY <1>1, BootStepsOrderly, ReadOrderly, SeekWokenOrderly, ReadWokenOrderly,
     SignalledOrderly, SeekEndsOrderly, ReadEndsOrderly, InterruptOrderly
  DEF Next, Halted

\* As long as no reads overlap and no signal ends a wait, the driver has of the
\* controller exactly what it waits for: a seek or its interrupt to be sensed, a
\* READ with the command of the one reader or its seven result bytes, and nothing
\* at all when nobody is in the driver (fdc_wait_for_irq, fdc_check_interrupt_status,
\* fdc_read_floppy_sector_CHS, fdc_seek_floppy_cylinder).
THEOREM FloppyOrderly == Spec => [](Typed /\ Orderly)
<1>1. Init => Typed /\ Orderly
  BY InitTyped, InitOrderly
<1>2. Typed /\ Orderly /\ [Next]_vars => Typed' /\ Orderly'
  BY NextTyped, NextOrderly
<1> QED
  BY <1>1, <1>2, PTL DEF Spec

\* The driver stops the kernel over a controller that is not ready only after
\* reads overlapped or a signal ended a wait, and divides by zero only for a drive
\* that is not in the table of types (fdc_send_command, fdc_recv_data,
\* fdc_convert_LBA_to_CHS): alone, it never sends a command too early.
THEOREM FloppyStops == Spec => []StopsOnlyDisturbed
<1>1. Typed /\ Orderly => StopsOnlyDisturbed
  BY DEF Typed, Orderly, StopsOnlyDisturbed
<1> QED
  BY <1>1, FloppyOrderly, PTL

\* A controller that executes a command for a drive has the settings of that
\* drive, also after the reset at boot in which it lost them
\* (fdc_switch_active_drive, fdc_reset_controller).
THEOREM FloppySettings == Spec => []SettingsMatch
<1> DEFINE Match == /\ \A d \in Drive : fdc.seeking[d] # None => fdc.spec = d
                    /\ fdc.exec # None => fdc.spec = fdc.exec.drive
<1>1. ASSUME Typed, Orderly, ~ disturbed
      PROVE  Match
  <2>1. CASE boot \in {"off", "reset"}
    BY <1>1, <2>1 DEF Orderly, Quiet, Resetting, Still
  <2>2. CASE boot \in Calibration
    <3>1. Seeking(cur, ~ flag)
      BY <1>1, <2>2 DEF Orderly
    <3> QED
      BY <3>1 DEF Seeking
  <2>3. CASE boot = "done" /\ mode = "run"
    <3>1. InDriver
      BY <1>1, <2>3 DEF Orderly
    <3>2. CASE \A r \in Readers : pc[r] = "user"
      BY <3>1, <3>2 DEF InDriver, Quiet, Still
    <3>3. ASSUME NEW r \in Readers, pc[r] = "seek"
          PROVE  Match
      <4>1. Seeking(cur, asleep[r])
        BY <3>1, <3>3 DEF InDriver
      <4> QED
        BY <4>1 DEF Seeking
    <3>4. ASSUME NEW r \in Readers, pc[r] = "read"
          PROVE  Match
      <4>1. Reading(r)
        BY <3>1, <3>4 DEF InDriver
      <4> QED
        BY <4>1 DEF Reading, Still, CommandOf
    <3> QED
      BY <1>1, <3>2, <3>3, <3>4 DEF Typed, TypeOK
  <2>4. CASE boot = "done" /\ mode # "run"
    BY <1>1, <2>4 DEF Orderly, Stopped, Still, Typed, TypeOK
  <2> QED
    BY <1>1, <2>1, <2>2, <2>3, <2>4 DEF Typed, TypeOK, Boot, Calibration
<1>2. Typed /\ Orderly => SettingsMatch
  BY <1>1 DEF SettingsMatch
<1> QED
  BY <1>2, FloppyOrderly, PTL

\* When nobody is in the driver no command is executing, no interrupt is to come
\* or to be sensed, no result byte waits and the motors are off: a call never
\* takes the answers of another for its own (the waits and status reads of all
\* commands).
THEOREM FloppyQuiet == Spec => []QuietBetweenReads
<1>1. Typed /\ Orderly => QuietBetweenReads
  <2> SUFFICES ASSUME Typed, Orderly, boot = "done", ~ disturbed, mode = "run",
                      \A r \in Readers : pc[r] = "user"
               PROVE  fdc = [Idle EXCEPT !.spec = fdc.spec] /\ ~ irq
    BY DEF QuietBetweenReads
  <2>1. Quiet /\ fdc \in Controller
    BY DEF Orderly, InDriver, Typed, TypeOK
  <2>2. fdc.seeking = [d \in Drive |-> None]
    BY <2>1 DEF Quiet, Still, Controller
  <2> QED
    BY <2>1, <2>2 DEF Quiet, Idle, Controller
<1> QED
  BY <1>1, FloppyOrderly, PTL

----------------------------------------------------------------------------
(* A sector, its cylinder, head and number *)

\* The parts of a sector's number put it together again, and the last sector of
\* the second head is the last of its cylinder.
LEMMA ChsRoundTrip ==
  ASSUME TypeOK, NEW d \in Drive, NEW lba \in Nat, spt[d] # 0
  PROVE  /\ (Chs(d, lba).c * Heads + Chs(d, lba).h) * spt[d] + Chs(d, lba).s - 1 = lba
         /\ Chs(d, lba).h \in {0, 1}
         /\ Chs(d, lba).h = 1 /\ Chs(d, lba).s = spt[d] =>
              (lba + 1) % (spt[d] * Heads) = 0
<1> DEFINE n == spt[d]
           m == n * Heads
           q == lba \div m
           p == lba % m
           h == p \div n
           t == p % n
<1>1. n \in Nat \ {0}
  BY Sizes DEF TypeOK
<1>2. m \in Nat \ {0} /\ m = n + n
  BY <1>1 DEF Heads
<1>3. Chs(d, lba) = [c |-> q, h |-> h, s |-> (lba % n) + 1]
  BY DEF Chs
<1> HIDE DEF n, m
<1>4. q \in Nat /\ p \in 0 .. m - 1 /\ lba = m * q + p
  BY <1>2, DivMod
<1> HIDE DEF q, p
<1>5. h \in Nat /\ t \in 0 .. n - 1 /\ p = n * h + t
  <2>1. p \in Nat
    BY <1>2, <1>4
  <2> QED
    BY <1>1, <2>1, DivMod
<1> HIDE DEF h, t
<1>6. h \in {0, 1}
  <2>1. ASSUME 1 < h PROVE FALSE
    <3>1. n * 1 + n <= n * h
      BY <1>1, <1>5, <2>1, MultipleGrows
    <3>2. n * h \in Nat
      BY <1>1, <1>5
    <3> QED
      BY <1>1, <1>2, <1>4, <1>5, <3>1, <3>2
  <2> QED
    BY <1>5, <2>1
<1>7. m * q = n * (2 * q)
  BY <1>1, <1>2, <1>4
<1>8. lba = n * (2 * q + h) + t
  <2>1. n * (2 * q + h) = n * (2 * q) + n * h
    BY <1>1, <1>4, <1>5
  <2> QED
    BY <1>1, <1>4, <1>5, <1>7, <2>1
<1>9. lba % n = t
  <2>1. 2 * q + h \in Nat
    BY <1>4, <1>5
  <2> QED
    BY <1>1, <1>5, <1>8, <2>1, Remainder
<1>10. (q * Heads + h) * n + (t + 1) - 1 = lba
  <2>1. q * Heads + h = 2 * q + h /\ 2 * q + h \in Nat
    BY <1>4, <1>5 DEF Heads
  <2>2. (2 * q + h) * n = n * (2 * q + h) /\ n * (2 * q + h) \in Nat
    BY <1>1, <2>1
  <2> QED
    BY <1>1, <1>5, <1>8, <2>1, <2>2
<1>11. ASSUME h = 1, t + 1 = n PROVE (lba + 1) % m = 0
  <2>1. lba + 1 = m * (q + 1) + 0
    <3>1. m * (q + 1) = m * q + m /\ m * q \in Nat
      BY <1>2, <1>4
    <3> QED
      BY <1>1, <1>2, <1>4, <1>5, <1>11, <3>1
  <2>2. q + 1 \in Nat /\ 0 \in 0 .. m - 1
    BY <1>2, <1>4
  <2> QED
    BY <1>2, <2>1, <2>2, Remainder
<1> QED
  BY <1>3, <1>6, <1>9, <1>10, <1>11 DEF n, m

----------------------------------------------------------------------------
(* Which sector is in the buffer *)

LEMMA InitTraced == Init => Traced
BY DEF Init, Traced, ReadRight, Whole

LEMMA CommandType ==
  Typed => \A r \in Readers : pc[r] # "user" => CommandOf(r) \in Command
<1> SUFFICES ASSUME Typed, NEW r \in Readers, pc[r] # "user"
             PROVE  CommandOf(r) \in Command
  OBVIOUS
<1>1. /\ TypeOK /\ cur \in Drive /\ req[r] \in Sector /\ spt[req[r][1]] # 0
      /\ spt[cur] \in Nat
  BY Sizes DEF Typed, TypeOK
<1>2. req[r][1] \in Drive /\ req[r][2] \in Nat
  BY <1>1, Sizes DEF Sector
<1>3. At(r).c \in Nat /\ At(r).h \in Nat /\ At(r).s \in Nat
  BY <1>1, <1>2, ChsType DEF At
<1>4. Eot(cur, At(r).s) \in Nat
  BY <1>1, <1>3 DEF Eot
<1> QED
  BY <1>1, <1>3, <1>4 DEF CommandOf, Command

LEMMA CommandTypeNext ==
  Typed' => (\A r \in Readers : pc[r] # "user" => CommandOf(r) \in Command)'
BY CommandType, PTL

\* The READ of a reader that has the driver for itself moves the sector the
\* reader asked for, and leaves a byte only if it ends a cylinder.
LEMMA CommandMoves ==
  ASSUME Typed, NEW r \in Readers, pc[r] # "user", req[r][1] = cur
  PROVE  /\ <<cur, LbaOf(CommandOf(r))>> = req[r]
         /\ ~ Continues(CommandOf(r)) => EndsCylinder(req[r])
<1> DEFINE d == req[r][1]
           lba == req[r][2]
<1>1. /\ TypeOK /\ d = cur /\ req[r] \in Sector /\ spt[d] # 0 /\ req[r] # None
  BY Sizes DEF Typed
<1>2. d \in Drive /\ lba \in Nat /\ req[r] = <<d, lba>>
  <2>1. \A s \in Drive \X Lbas : s[1] \in Drive /\ s[2] \in Lbas /\ s = <<s[1], s[2]>>
    OBVIOUS
  <2> QED
    BY <1>1, <2>1, Sizes DEF Sector
<1>3. spt[d] \in Nat \ {0}
  BY <1>1, <1>2, Sizes DEF TypeOK
<1>4. At(r) = Chs(d, lba)
  BY DEF At
<1> HIDE DEF d, lba
<1>5. LbaOf(CommandOf(r)) = lba
  <2>1. (At(r).c * Heads + At(r).h) * spt[d] + At(r).s - 1 = lba
    BY <1>1, <1>2, <1>4, ChsRoundTrip
  <2> QED
    BY <1>1, <2>1 DEF LbaOf, CommandOf
<1>6. ASSUME ~ Continues(CommandOf(r)) PROVE EndsCylinder(req[r])
  <2>1. At(r).h # 0 /\ ~ (At(r).s < Eot(d, At(r).s))
    BY <1>1, <1>6 DEF Continues, CommandOf
  <2>2. At(r).s \in Nat /\ At(r).s <= spt[d] /\ At(r).h \in {0, 1}
    BY <1>1, <1>2, <1>4, ChsType, ChsRoundTrip
  <2>3. At(r).h = 1 /\ At(r).s = spt[d]
    BY <1>3, <2>1, <2>2 DEF Eot
  <2>4. (lba + 1) % (spt[d] * Heads) = 0
    BY <1>1, <1>2, <1>4, <2>3, ChsRoundTrip
  <2> QED
    BY <1>1, <1>2, <2>4 DEF EndsCylinder
<1> QED
  BY <1>1, <1>2, <1>5, <1>6

\* A step that returns from no read and moves no sector.
LEMMA NothingMoved ==
  ASSUME Traced, ret' = None,
         UNCHANGED <<spt, boot, buffer, status, recent>>,
         left' = Whole \/ (left' = left /\ cur' = cur),
         disturbed' \/ /\ ~ disturbed
                       /\ \A r \in Readers : pc'[r] = "read" /\ fdc'.exec = None =>
                            /\ pc[r] = "read" /\ fdc.exec = None
                            /\ req'[r] = req[r] /\ cur' = cur
  PROVE  Traced'
<1>1. ReadRight'
  BY DEF ReadRight
<1>2. \A s : EndsCylinder(s)' <=> EndsCylinder(s)
  BY DEF EndsCylinder
<1>3. boot' # "done" => left' = Whole
  BY DEF Traced
<1>4. CASE disturbed'
  BY <1>1, <1>3, <1>4 DEF Traced
<1>5. CASE ~ disturbed'
  <2>1. left' = 1 => EndsCylinder(recent[2])' /\ recent'[2][1] = cur'
    BY <1>2, <1>5 DEF Traced, Whole
  <2>2. ASSUME NEW r \in Readers, pc'[r] = "read", fdc'.exec = None PROVE Delivered(r)'
    BY <1>2, <1>5, <2>2 DEF Traced, Delivered
  <2> QED
    BY <1>1, <1>3, <2>1, <2>2 DEF Traced
<1> QED
  BY <1>4, <1>5

LEMMA BootTraced ==
  ASSUME Typed, Traced, InitController \/ CalibrateWoken \/ ResetWoken
  PROVE  Traced'
<1>1. boot # "done" /\ UNCHANGED <<spt, ret, disturbed, pc, status, recent>>
  BY DEF InitController, CalibrateWoken, ResetWoken
<1>2. left = Whole /\ \A r \in Readers : pc[r] = "user"
  BY <1>1 DEF Traced, Typed
<1>3. left' = Whole
  <2>1. ASSUME NEW f, boot \in Calibration \union {"reset"}, AfterStage(f)
        PROVE  left' = Whole
    <3>1. left' = left \/ left' = Whole
      BY <2>1 DEF AfterStage, Calibrating, Calibration
    <3> QED
      BY <1>2, <3>1
  <2> QED
    BY <1>2, <2>1 DEF InitController, Calibrating, CalibrateWoken, ResetWoken, Calibration
<1>4. ReadRight'
  BY <1>1 DEF Traced, ReadRight, EndsCylinder
<1> QED
  BY <1>1, <1>2, <1>3, <1>4 DEF Traced, Whole

LEMMA ReadTraced ==
  ASSUME Typed, Orderly, Traced, NEW r \in Readers, NEW d \in Drive, NEW lba \in Lbas,
         Read(r, d, lba)
  PROVE  Traced'
<1>1. /\ ret' = None /\ UNCHANGED <<spt, boot, buffer, status, recent>>
      /\ left' = Whole \/ (left' = left /\ cur' = cur)
      /\ ~ disturbed /\ disturbed' \in BOOLEAN
  BY DEF Read, Panics, Switch, chips
<1>2. ASSUME ~ disturbed', NEW q \in Readers PROVE pc'[q] # "read"
  BY <1>2 DEF Read, Panics, SleepsIn, Typed, TypeOK
<1> QED
  BY <1>1, <1>2, NothingMoved

LEMMA SeekWokenTraced ==
  ASSUME Typed, Orderly, Traced, NEW r \in Readers, SeekWoken(r), Typed', Orderly'
  PROVE  Traced'
<1>1. /\ ret' = None /\ UNCHANGED <<spt, boot, buffer, status, recent, left, cur, disturbed>>
      /\ disturbed \in BOOLEAN /\ boot = "done" /\ mode = "run"
  BY DEF SeekWoken, Panics, chips, Typed, TypeOK
<1>2. CASE disturbed
  BY <1>1, <1>2, NothingMoved
<1>3. CASE ~ disturbed
  <2>1. InDriver /\ pc[r] = "seek" /\ Seeking(cur, asleep[r]) /\ ~ asleep[r] /\ cur \in Drive
    BY <1>1, <1>3 DEF SeekWoken, Orderly, InDriver, Typed
  <2>2. Ready(fdc) /\ ~ irq
    BY <2>1 DEF Seeking, Ready
  <2>3. /\ UNCHANGED <<irq, req, mode>>
        /\ \E place \in {"seek", "read"} : SleepsIn(r, place)
    BY <2>2 DEF SeekWoken
  <2>4. asleep'[r] /\ \A q \in Readers \ {r} : pc'[q] = "user"
    BY <2>1, <2>3 DEF SleepsIn, InDriver, Typed, TypeOK
  <2>5. ASSUME pc'[r] = "read" PROVE fdc'.exec # None
    <3>1. Reading(r)'
      BY <1>1, <1>3, <2>3, <2>5 DEF Orderly, InDriver
    <3>2. fdc'.exec = CommandOf(r)'
      BY <2>2, <2>3, <2>4, <3>1 DEF Reading
    <3>3. \A q \in Readers : pc'[q] # "user" => CommandOf(q)' \in Command
      BY CommandTypeNext
    <3>4. CommandOf(r)' \in Command
      BY <2>5, <3>3
    <3> QED
      BY <3>2, <3>4, Sizes
  <2> QED
    BY <1>1, <1>3, <2>4, <2>5, NothingMoved
<1> QED
  BY <1>2, <1>3

LEMMA ReadWokenTraced ==
  ASSUME Typed, Orderly, Traced, NEW r \in Readers, ReadWoken(r)
  PROVE  Traced'
<1>1. /\ UNCHANGED <<spt, boot, buffer, status, recent, left, cur, disturbed>>
      /\ disturbed \in BOOLEAN /\ boot = "done" /\ mode = "run"
  BY DEF ReadWoken, Panics, chips, Typed, TypeOK
<1>2. CASE disturbed
  BY <1>1, <1>2, NothingMoved DEF ReadWoken, Panics
<1>3. CASE ~ disturbed
  <2>1. InDriver /\ pc[r] = "read" /\ Reading(r) /\ ~ asleep[r] /\ req[r][1] = cur
    BY <1>1, <1>3 DEF ReadWoken, Orderly, InDriver
  <2>2. fdc.exec = None
    BY <2>1 DEF Reading
  <2>3. Delivered(r)
    BY <1>3, <2>1, <2>2 DEF Traced
  <2>4. /\ ret' = [asked |-> req[r], got |-> buffer]
        /\ pc' = [pc EXCEPT ![r] = "user"]
    BY <1>3, <2>2 DEF ReadWoken, Ready
  <2>5. ReadRight'
    BY <1>1, <2>1, <2>3, <2>4 DEF ReadRight, Delivered, EndsCylinder
  <2>6. \A q \in Readers : pc'[q] # "read"
    BY <2>1, <2>4 DEF InDriver, Typed, TypeOK
  <2> QED
    BY <1>1, <2>5, <2>6 DEF Traced, EndsCylinder
<1> QED
  BY <1>2, <1>3

LEMMA ReadEndsTraced ==
  ASSUME Typed, Orderly, Traced, ReadEnds
  PROVE  Traced'
<1>1. /\ fdc \in Controller /\ TypeOK /\ mode = "run" /\ fdc.exec # None /\ ret' = None
      /\ UNCHANGED <<spt, disturbed, cur, boot, pc, req>>
  BY DEF Typed, TypeOK, ReadEnds, driver
<1>2. boot = "done"
  BY <1>1 DEF Orderly, Quiet, Resetting, Seeking, Typed, TypeOK, Boot, Calibration
<1>3. ReadRight'
  BY <1>1 DEF ReadRight
<1>4. CASE disturbed
  BY <1>1, <1>2, <1>3, <1>4 DEF Traced
<1>5. CASE ~ disturbed
  <2>1. InDriver
    BY <1>1, <1>2, <1>5 DEF Orderly
  <2>2. PICK r \in Readers : pc[r] = "read"
    <3>1. PICK r \in Readers : pc[r] # "user"
      BY <1>1, <2>1 DEF InDriver, Quiet
    <3>2. pc[r] # "seek"
      BY <1>1, <2>1 DEF InDriver, Seeking
    <3> QED
      BY <1>1, <3>1, <3>2 DEF TypeOK
  <2>3. Reading(r) /\ req[r][1] = cur /\ \A q \in Readers \ {r} : pc[q] = "user"
    BY <2>1, <2>2 DEF InDriver
  <2> DEFINE e == fdc.exec
  <2>4. e = CommandOf(r) /\ e.drive = cur
    BY <1>1, <2>3 DEF Reading, CommandOf
  <2>5. /\ <<cur, LbaOf(e)>> = req[r]
        /\ ~ Continues(e) => EndsCylinder(req[r])
    BY <2>2, <2>3, <2>4, CommandMoves
  <2>6. \A s : EndsCylinder(s)' <=> EndsCylinder(s)
    BY <1>1 DEF EndsCylinder
  <2>7. Transfer(e) \/ (status' = "bad" /\ UNCHANGED <<left, buffer, recent>>)
    BY DEF ReadEnds
  <2> HIDE DEF e
  <2>8. CASE Transfer(e)
    <3>1. /\ recent' = <<recent[2], req[r]>>
          /\ left' = IF left = Whole /\ ~ Continues(e) THEN 1 ELSE Whole
          /\ buffer' = IF left = Whole THEN req[r] ELSE buffer
      BY <1>5, <2>4, <2>5, <2>8 DEF Transfer
    <3>2. recent'[1] = recent[2] /\ recent'[2] = req[r]
      BY <3>1
    <3>3. left' = 1 => EndsCylinder(recent[2])' /\ recent'[2][1] = cur'
      BY <1>1, <2>3, <2>5, <2>6, <3>1, <3>2 DEF Whole
    <3>4. Delivered(r)'
      <4>1. CASE left = Whole
        BY <1>1, <3>1, <3>2, <4>1 DEF Delivered
      <4>2. CASE left = 1
        BY <1>1, <1>5, <2>6, <3>2, <4>2 DEF Traced, Delivered
      <4> QED
        BY <1>1, <4>1, <4>2 DEF TypeOK
    <3> QED
      BY <1>1, <1>2, <1>3, <2>3, <3>3, <3>4 DEF Traced
  <2>9. CASE status' = "bad" /\ UNCHANGED <<left, buffer, recent>>
    BY <1>1, <1>2, <1>3, <1>5, <2>6, <2>9 DEF Traced, Delivered
  <2> QED
    BY <2>7, <2>8, <2>9
<1> QED
  BY <1>4, <1>5

LEMMA NextTraced ==
  Typed /\ Orderly /\ Traced /\ [Next]_vars /\ Typed' /\ Orderly' => Traced'
<1> SUFFICES ASSUME Typed, Orderly, Traced, [Next]_vars, Typed', Orderly' PROVE Traced'
  OBVIOUS
<1>1. CASE UNCHANGED vars
  BY <1>1 DEF Traced, vars, driver, chips, Delivered, EndsCylinder, ReadRight
<1>2. CASE Interrupt
  <2>1. /\ ret' = None /\ UNCHANGED <<spt, boot, buffer, status, recent, left, cur>>
        /\ UNCHANGED <<disturbed, pc, req, fdc>> /\ disturbed \in BOOLEAN
    BY <1>2 DEF Interrupt, driver, chips, Typed, TypeOK
  <2> QED
    BY <2>1, NothingMoved
<1>3. ASSUME NEW r \in Readers, Signalled(r) PROVE Traced'
  <2>1. /\ ret' = None /\ UNCHANGED <<spt, boot, buffer, status, recent, left, cur>>
        /\ disturbed'
    BY <1>3 DEF Signalled, driver, chips
  <2> QED
    BY <2>1, NothingMoved
<1>4. ASSUME NEW d \in Drive, NEW cyl \in 0 .. Cylinders - 1, SeekEnds(d, cyl)
      PROVE  Traced'
  <2>1. /\ ret' = None /\ UNCHANGED <<spt, boot, buffer, status, recent, left, cur>>
        /\ UNCHANGED <<disturbed, pc, req>> /\ disturbed \in BOOLEAN
        /\ fdc' = [fdc EXCEPT !.seeking[d] = None, !.sense = @ \union {d}]
    BY <1>4 DEF SeekEnds, driver, Typed, TypeOK
  <2>2. fdc'.exec = fdc.exec
    BY <2>1 DEF Typed, TypeOK, Controller
  <2> QED
    BY <2>1, <2>2, NothingMoved
<1> QED
  BY <1>1, <1>2, <1>3, <1>4, BootTraced, ReadTraced, SeekWokenTraced, ReadWokenTraced,
     ReadEndsTraced
  DEF Next, Halted

\* A read that nothing disturbed returns the sector it asked for, unless the drive
\* reported an error, or the sector read before it was the last of a cylinder on
\* the same drive and the DMA channel still waits for its last byte
\* (fdc_block_read, fdc_read_floppy_sector, fdc_convert_LBA_to_CHS, dma_set_size).
THEOREM FloppyReads == Spec => []ReadRight
<1>1. Init => Typed /\ Orderly /\ Traced
  BY InitTyped, InitOrderly, InitTraced
<1>2. Typed /\ Orderly /\ Traced /\ [Next]_vars => Typed' /\ Orderly' /\ Traced'
  BY NextTyped, NextOrderly, NextTraced
<1>3. Traced => ReadRight
  BY DEF Traced
<1> QED
  BY <1>1, <1>2, <1>3, PTL DEF Spec
=============================================================================
