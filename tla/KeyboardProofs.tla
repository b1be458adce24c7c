--------------------------- MODULE KeyboardProofs ---------------------------
(***************************************************************************)
(* Proofs about Keyboard, for any table of codes, size of the key buffer,  *)
(* number of readers and of consoles.                                      *)
(*                                                                         *)
(* There are three inductive invariants, which do not need one another:    *)
(* SwitchInv for the console switch, BufferInv for the buffer of keys, and *)
(* ListInv for the list of consoles, together with PictureInv, which says  *)
(* of what kind the consoles and the screen are.  With these every step    *)
(* draws what it may (DrawsCurrent).                                       *)
(***************************************************************************)
EXTENDS Keyboard, SequenceTheorems, FiniteSetTheorems, NumberLemmas, TLAPS

----------------------------------------------------------------------------
(* The console switch *)

\* While a console is chosen there is one, so that the release of CTRL ends the
\* choice.
SwitchInv ==
  /\ flag \in [Flags -> BOOLEAN]
  /\ choosing \in BOOLEAN
  /\ ChoosingHoldsCtrl
  /\ choosing => chosen # NoConsole

\* Every key leaves the flags flags, and only CTRL changes that of CTRL.
LEMMA FlagsStayFlags ==
  ASSUME SwitchInv, NEW key, NEW make \in BOOLEAN
  PROVE  /\ FlagsAfter(key, make) \in [Flags -> BOOLEAN]
         /\ key = "ctrl" => FlagsAfter(key, make).ctrl = make
         /\ key # "ctrl" => FlagsAfter(key, make).ctrl = flag.ctrl
<1>1. flag \in [Flags -> BOOLEAN]
  BY DEF SwitchInv
<1>2. CASE key \in {"ctrl", "lshift", "rshift"}
  BY <1>1, <1>2 DEF FlagsAfter, Flags
<1>3. CASE key \in {"alt", "caps", "num", "scr"}
  BY <1>1, <1>3 DEF FlagsAfter, Flags
<1>4. CASE key \notin Flags
  BY <1>1, <1>4 DEF FlagsAfter, Flags
<1> QED
  BY <1>2, <1>3, <1>4 DEF Flags

\* TAB always finds a console.
LEMMA NextConsoleExists ==
  ASSUME NEW id PROVE NextConsole(con, id) # NoConsole
BY DEF NextConsole, Construct, NoConsole

\* A key that goes past the switch leaves it alone.
LEMMA PressKeepsSwitch ==
  ASSUME SwitchInv, NEW key, NEW make \in BOOLEAN,
         Press(key, make), UNCHANGED <<choosing, chosen>>, ~choosing
  PROVE  SwitchInv'
BY FlagsStayFlags DEF SwitchInv, Press, ChoosingHoldsCtrl

LEMMA NextKeepsSwitch == SwitchInv /\ [Next]_vars => SwitchInv'
<1> SUFFICES ASSUME SwitchInv, [Next]_vars PROVE SwitchInv'
  OBVIOUS
<1> USE DEF SwitchInv, ChoosingHoldsCtrl
<1>1. ASSUME NEW key, SwitchFini(key) PROVE SwitchInv'
  BY <1>1, FlagsStayFlags DEF SwitchFini, Press
<1>2. ASSUME NEW key, SwitchRun(key) PROVE SwitchInv'
  <2>1. flag.ctrl /\ key # "ctrl" /\ flag' = FlagsAfter(key, TRUE)
    BY <1>2 DEF SwitchRun, Press
  <2>2. flag' \in [Flags -> BOOLEAN] /\ flag'.ctrl
    BY <2>1, FlagsStayFlags
  <2>3. choosing' = TRUE /\ chosen' # NoConsole
    BY <1>2, NextConsoleExists DEF SwitchRun
  <2> QED
    BY <2>2, <2>3
<1>3. ASSUME NEW key, NEW make \in BOOLEAN, WhileChoosing(key, make)
      PROVE  SwitchInv'
  <2>1. key = "ctrl" => make
    BY <1>3 DEF WhileChoosing, EndsSwitch
  <2>2. flag' = FlagsAfter(key, make) /\ UNCHANGED <<choosing, chosen>>
    BY <1>3 DEF WhileChoosing, Press, switchVars
  <2> QED
    BY <2>1, <2>2, FlagsStayFlags
<1>4. ASSUME NEW key, MakeKey(key) PROVE SwitchInv'
  BY <1>4, PressKeepsSwitch DEF MakeKey, switchVars
<1>5. ASSUME NEW key, BreakKey(key) PROVE SwitchInv'
  BY <1>5, PressKeepsSwitch DEF BreakKey, switchVars
<1>6. ASSUME UNCHANGED <<flag, choosing, chosen>> PROVE SwitchInv'
  BY <1>6
<1>7. ASSUME NEW r, PollWaits(r) \/ PollReads(r) \/ PollTakes(r)
      PROVE  SwitchInv'
  BY <1>7 DEF PollWaits, PollReads, PollTakes, keyVars, switchVars
<1>8. ASSUME Call, UNCHANGED <<choosing, chosen>> PROVE SwitchInv'
  BY <1>8 DEF Call, keyVars
<1>9. ASSUME NEW id, NEW char, NEW flush, Write(id, char, flush)
      PROVE  SwitchInv'
  BY <1>8, <1>9 DEF Write, CallKeepsList, switchVars
<1>10. ASSUME NEW id, NEW x, NEW y, SetCursor(id, x, y) PROVE SwitchInv'
  BY <1>8, <1>10 DEF SetCursor, CallKeepsList, switchVars
<1>11. ASSUME NEW id, ShowScreen(id) \/ ClearScreen(id) PROVE SwitchInv'
  BY <1>8, <1>11 DEF ShowScreen, ClearScreen, CallKeepsList, switchVars
<1>12. ASSUME NEW id, DestroyConsole(id) PROVE SwitchInv'
  BY <1>8, <1>12 DEF DestroyConsole, switchVars
<1>13. CASE CreateConsole
  BY <1>8, <1>13 DEF CreateConsole, switchVars
<1>14. CASE Panic
  BY <1>8, <1>14 DEF Panic
<1>15. CASE UNCHANGED vars
  BY <1>6, <1>15 DEF vars, keyVars, switchVars
<1> QED
  BY <1>1, <1>2, <1>3, <1>4, <1>5, <1>7, <1>9, <1>10, <1>11, <1>12, <1>13,
     <1>14, <1>15 DEF Next

LEMMA InitSwitch == Init => SwitchInv
<1>1. Init => flag = [f \in Flags |-> f = "num"] /\ choosing = FALSE
  BY DEF Init
<1>2. [f \in Flags |-> f = "num"] \in [Flags -> BOOLEAN]
  OBVIOUS
<1> QED
  BY <1>1, <1>2 DEF SwitchInv, ChoosingHoldsCtrl

\* While a console is chosen CTRL is down, whatever the keys and their order
\* (keyboard.c:118, 151-158).
THEOREM ChoosingHolds == Spec => []ChoosingHoldsCtrl
<1>1. SwitchInv => ChoosingHoldsCtrl
  BY DEF SwitchInv
<1> QED
  BY <1>1, InitSwitch, NextKeepsSwitch, PTL DEF Spec

----------------------------------------------------------------------------
(* The buffer of keys *)

\* With one reader in keyboard_poll() the buffer has a key until that reader
\* has removed it, and the one it has read is still the first.
BufferInv ==
  /\ keybuf \in [1 .. MaxKeybuf -> Codes]
  /\ keyptr \in 0 .. MaxKeybuf - 1
  /\ pc \in [Readers -> {"idle", "read", "take"}]
  /\ ch \in [Readers -> Codes]
  /\ typed \in Seq(Codes) /\ got \in Seq(Codes)
  /\ shared \in BOOLEAN
  /\ ~shared =>
       /\ \A r, other \in Readers :
            pc[r] # "idle" /\ pc[other] # "idle" => r = other
       /\ \A r \in Readers : pc[r] # "idle" => keyptr # 0
       /\ \A r \in Readers : pc[r] = "take" => ch[r] = keybuf[1]
       /\ KeysInOrder

\* A key gives codes that fit into the buffer's bytes, the second half of a
\* long one too.
LEMMA CodesAreCodes ==
  ASSUME NEW key \in Keys, NEW f
  PROVE  CodesOf(key, f) \in Seq(Codes)
<1> DEFINE code == Ascii[key][Column(f)]
<1>1. Column(f) \in 0 .. 5
  BY DEF Column
<1>2. code \in Nat
  BY <1>1, KeyboardAssumption
<1> HIDE DEF code
<1>3. code % 256 \in Codes /\ ((code \div 256) * 256) % 256 \in Codes
  BY <1>2 DEF Codes
<1>4. code <= 255 => code \in Codes
  BY <1>2 DEF Codes
<1>5. CodesOf(key, f) \in
        {<<>>, <<code % 256, ((code \div 256) * 256) % 256>>, <<code>>}
      /\ (CodesOf(key, f) = <<code>> => code <= 255)
  <2>1. CASE code = 0
    BY <2>1 DEF CodesOf, code
  <2>2. CASE code > 255
    BY <2>2, <1>2 DEF CodesOf, code
  <2>3. CASE code # 0 /\ ~(code > 255)
    BY <2>3, <1>2 DEF CodesOf, code
  <2> QED
    BY <2>1, <2>2, <2>3
<1>6. /\ <<code % 256, ((code \div 256) * 256) % 256>> \in Seq(Codes)
      /\ code <= 255 => <<code>> \in Seq(Codes)
      /\ <<>> \in Seq(Codes)
  BY <1>3, <1>4
<1> QED
  BY <1>5, <1>6

\* The keys in the buffer are a sequence of codes.
LEMMA BufferIsSeq ==
  ASSUME NEW buf \in [1 .. MaxKeybuf -> Codes], NEW n \in 0 .. MaxKeybuf
  PROVE  /\ SubSeq(buf, 1, n) \in Seq(Codes)
         /\ Len(SubSeq(buf, 1, n)) = n
         /\ \A k \in 1 .. n : SubSeq(buf, 1, n)[k] = buf[k]
<1>1. MaxKeybuf \in Nat
  BY KeyboardAssumption
<1>2. buf \in Seq(Codes) /\ Len(buf) = MaxKeybuf
  BY <1>1
<1>3. \A k \in 1 .. n : buf[k] \in Codes
  BY <1>1
<1> QED
  BY <1>1, <1>3, SubSeqProperties

\* A key that is stuffed comes behind those in the buffer and changes none.
LEMMA StuffKeyAppends ==
  ASSUME BufferInv, NEW codes \in Seq(Codes), StuffKey(codes)
  PROVE  /\ keybuf' \in [1 .. MaxKeybuf -> Codes]
         /\ keyptr' \in 0 .. MaxKeybuf - 1 /\ keyptr' >= keyptr
         /\ typed' \in Seq(Codes)
         /\ keyptr # 0 => keybuf'[1] = keybuf[1]
         /\ got \o SubSeq(keybuf, 1, keyptr) = typed =>
              got \o SubSeq(keybuf', 1, keyptr') = typed'
<1> DEFINE kept == SubSeq(keybuf, 1, keyptr)
           all  == SubSeq(keybuf', 1, keyptr')
<1>1. /\ MaxKeybuf \in Nat /\ keyptr \in 0 .. MaxKeybuf - 1
      /\ Len(codes) \in Nat /\ codes \in [1 .. Len(codes) -> Codes]
      /\ keybuf \in [1 .. MaxKeybuf -> Codes]
      /\ typed \in Seq(Codes) /\ got \in Seq(Codes)
  BY KeyboardAssumption, LenProperties DEF BufferInv
<1>2. CASE keyptr + Len(codes) >= MaxKeybuf
  BY <1>1, <1>2 DEF StuffKey
<1>3. CASE ~(keyptr + Len(codes) >= MaxKeybuf)
  <2>1. /\ keybuf' = [k \in 1 .. MaxKeybuf |->
                        IF k > keyptr /\ k <= keyptr + Len(codes)
                        THEN codes[k - keyptr] ELSE keybuf[k]]
        /\ keyptr' = keyptr + Len(codes)
        /\ typed' = typed \o codes
    BY <1>1, <1>3 DEF StuffKey
  <2>2. keyptr' \in 0 .. MaxKeybuf - 1 /\ keyptr' >= keyptr
    BY <1>1, <1>3, <2>1
  <2>3. keybuf' \in [1 .. MaxKeybuf -> Codes]
    <3>1. ASSUME NEW k \in 1 .. MaxKeybuf, k > keyptr, k <= keyptr + Len(codes)
          PROVE  codes[k - keyptr] \in Codes
      BY <1>1, <3>1
    <3> QED
      BY <1>1, <2>1, <3>1
  <2>4. /\ \A k \in 1 .. keyptr : keybuf'[k] = keybuf[k]
        /\ \A k \in keyptr + 1 .. keyptr' : keybuf'[k] = codes[k - keyptr]
    BY <1>1, <1>3, <2>1
  <2>5. /\ kept \in Seq(Codes) /\ Len(kept) = keyptr
        /\ \A k \in 1 .. keyptr : kept[k] = keybuf[k]
    BY <1>1, BufferIsSeq
  <2>6. /\ all \in Seq(Codes) /\ Len(all) = keyptr'
        /\ \A k \in 1 .. keyptr' : all[k] = keybuf'[k]
    <3>1. keyptr' \in 0 .. MaxKeybuf
      BY <1>1, <2>2
    <3> QED
      BY <2>3, <3>1, BufferIsSeq
  <2>7. /\ kept \o codes \in Seq(Codes) /\ Len(kept \o codes) = keyptr'
        /\ \A k \in 1 .. keyptr' :
             (kept \o codes)[k] = IF k <= keyptr THEN kept[k]
                                                 ELSE codes[k - keyptr]
    BY <1>1, <2>1, <2>5, ConcatProperties
  <2> HIDE DEF kept, all
  <2>8. all = kept \o codes
    <3>1. ASSUME NEW k \in 1 .. keyptr' PROVE all[k] = (kept \o codes)[k]
      <4>1. CASE k <= keyptr
        <5>1. k \in 1 .. keyptr
          BY <1>1, <2>2, <4>1
        <5> QED
          BY <4>1, <5>1, <2>4, <2>5, <2>6, <2>7
      <4>2. CASE ~(k <= keyptr)
        <5>1. k \in keyptr + 1 .. keyptr'
          BY <1>1, <2>2, <4>2
        <5> QED
          BY <4>2, <5>1, <2>4, <2>6, <2>7
      <4> QED
        BY <4>1, <4>2
    <3> QED
      BY <2>6, <2>7, <3>1, SeqEqual
  <2>9. got \o all = (got \o kept) \o codes
    <3>1. (got \o kept) \o codes = got \o (kept \o codes)
      <4>1. got \in Seq(Codes) /\ kept \in Seq(Codes) /\ codes \in Seq(Codes)
        BY <1>1, <2>5
      <4> QED
        BY <4>1, ConcatAssociative
    <3> QED
      BY <2>8, <3>1
  <2>10. got \o kept = typed => got \o all = typed'
    BY <2>1, <2>9
  <2>11. keyptr # 0 => keybuf'[1] = keybuf[1]
    BY <1>1, <2>4
  <2>12. typed' \in Seq(Codes)
    BY <1>1, <2>1, ConcatProperties
  <2> QED
    BY <2>2, <2>3, <2>10, <2>11, <2>12 DEF kept, all
<1> QED
  BY <1>2, <1>3

\* The removal takes the first key out and moves the others up.
LEMMA ShiftedDropsFirst ==
  ASSUME BufferInv
  PROVE  /\ Shifted \in [1 .. MaxKeybuf -> Codes]
         /\ keyptr # 0 =>
              SubSeq(keybuf, 1, keyptr) =
                <<keybuf[1]>> \o SubSeq(Shifted, 1, keyptr - 1)
<1> DEFINE kept == SubSeq(keybuf, 1, keyptr)
           rest == SubSeq(Shifted, 1, keyptr - 1)
           first == keybuf[1]
<1>1. /\ MaxKeybuf \in Nat /\ keyptr \in 0 .. MaxKeybuf - 1
      /\ keybuf \in [1 .. MaxKeybuf -> Codes]
  BY KeyboardAssumption DEF BufferInv
<1>2. /\ Shifted \in [1 .. MaxKeybuf -> Codes]
      /\ \A k \in 1 .. MaxKeybuf - 1 : Shifted[k] = keybuf[k + 1]
  BY <1>1 DEF Shifted
<1>3. ASSUME keyptr # 0 PROVE kept = <<first>> \o rest
  <2>1. first \in Codes /\ <<first>> \in Seq(Codes) /\ Len(<<first>>) = 1
    BY <1>1, <1>3
  <2>2. /\ kept \in Seq(Codes) /\ Len(kept) = keyptr
        /\ \A k \in 1 .. keyptr : kept[k] = keybuf[k]
    BY <1>1, BufferIsSeq
  <2>3. /\ rest \in Seq(Codes) /\ Len(rest) = keyptr - 1
        /\ \A k \in 1 .. keyptr - 1 : rest[k] = Shifted[k]
    BY <1>1, <1>2, <1>3, BufferIsSeq
  <2> HIDE DEF kept, rest
  <2>4. /\ <<first>> \o rest \in Seq(Codes)
        /\ Len(<<first>> \o rest) = keyptr
        /\ \A k \in 1 .. keyptr :
             (<<first>> \o rest)[k] = IF k <= 1 THEN <<first>>[k] ELSE rest[k - 1]
    BY <1>1, <2>1, <2>3, ConcatProperties
  <2>5. ASSUME NEW k \in 1 .. keyptr PROVE kept[k] = (<<first>> \o rest)[k]
    <3>1. CASE k = 1
      BY <1>1, <2>2, <2>4, <3>1
    <3>2. CASE k # 1
      <4>1. k - 1 \in 1 .. keyptr - 1 /\ k - 1 \in 1 .. MaxKeybuf - 1
        BY <1>1, <3>2
      <4>2. rest[k - 1] = keybuf[(k - 1) + 1]
        BY <1>2, <2>3, <4>1
      <4> QED
        BY <1>1, <2>2, <2>4, <3>2, <4>2
    <3> QED
      BY <3>1, <3>2
  <2> QED
    BY <2>2, <2>4, <2>5, SeqEqual
<1> QED
  BY <1>2, <1>3

LEMMA InitBuffer == Init => BufferInv
<1> SUFFICES ASSUME Init PROVE BufferInv
  OBVIOUS
<1>1. /\ keybuf = [k \in 1 .. MaxKeybuf |-> 0] /\ keyptr = 0
      /\ pc = [r \in Readers |-> "idle"] /\ ch = [r \in Readers |-> 0]
      /\ typed = <<>> /\ got = <<>> /\ shared = FALSE
  BY DEF Init
<1>2. MaxKeybuf \in Nat \ {0, 1} /\ 0 \in Codes
  BY KeyboardAssumption DEF Codes
<1>3. SubSeq(keybuf, 1, keyptr) = <<>> /\ <<>> \in Seq(Codes)
  BY <1>1, SubSeqEmpty
<1>4. KeysInOrder
  BY <1>1, <1>3, ConcatEmptySeq DEF KeysInOrder
<1>5. /\ keybuf \in [1 .. MaxKeybuf -> Codes] /\ keyptr \in 0 .. MaxKeybuf - 1
      /\ ch \in [Readers -> Codes]
      /\ pc \in [Readers -> {"idle", "read", "take"}]
  BY <1>1, <1>2
<1>6. \A r \in Readers : pc[r] = "idle"
  BY <1>1
<1>7. typed \in Seq(Codes) /\ got \in Seq(Codes) /\ shared \in BOOLEAN
  BY <1>1, <1>3
<1> QED
  BY <1>4, <1>5, <1>6, <1>7 DEF BufferInv

\* What does not touch the buffer and its readers.
LEMMA OtherStepsKeepBuffer ==
  ASSUME BufferInv, UNCHANGED <<keybuf, keyptr, typed, readVars>>
  PROVE  BufferInv'
BY DEF BufferInv, KeysInOrder, readVars

LEMMA MakeKeyKeepsBuffer ==
  ASSUME BufferInv, NEW key \in Keys, MakeKey(key)
  PROVE  BufferInv'
<1> DEFINE codes == CodesOf(key, flag')
<1>1. codes \in Seq(Codes)
  BY CodesAreCodes
<1>2. StuffKey(codes) /\ UNCHANGED <<pc, ch, got, shared>>
  BY DEF MakeKey, Press, readVars
<1> HIDE DEF codes
<1>3. /\ keybuf' \in [1 .. MaxKeybuf -> Codes]
      /\ keyptr' \in 0 .. MaxKeybuf - 1 /\ keyptr' >= keyptr
      /\ typed' \in Seq(Codes)
      /\ keyptr # 0 => keybuf'[1] = keybuf[1]
      /\ KeysInOrder => KeysInOrder'
  BY <1>1, <1>2, StuffKeyAppends DEF KeysInOrder
<1>4. keyptr \in Nat /\ (keyptr # 0 => keyptr' # 0)
  BY <1>3, KeyboardAssumption DEF BufferInv
<1> QED
  BY <1>2, <1>3, <1>4 DEF BufferInv

LEMMA PollWaitsKeepsBuffer ==
  ASSUME BufferInv, NEW r \in Readers, PollWaits(r)
  PROVE  BufferInv'
<1>1. /\ pc' = [pc EXCEPT ![r] = "read"] /\ keyptr # 0
      /\ shared' = (shared \/ \E other \in Readers : pc[other] # "idle")
      /\ UNCHANGED <<keybuf, keyptr, typed, ch, got>>
  BY DEF PollWaits, keyVars
<1>2. pc' \in [Readers -> {"idle", "read", "take"}] /\ shared' \in BOOLEAN
  BY <1>1 DEF BufferInv
<1>3. ASSUME ~shared'
      PROVE  /\ ~shared /\ pc'[r] = "read"
             /\ \A other \in Readers : other # r => pc'[other] = "idle"
  BY <1>1, <1>3 DEF BufferInv
<1>4. KeysInOrder /\ ~shared' => KeysInOrder'
  BY <1>1, <1>3 DEF KeysInOrder
<1> QED
  BY <1>1, <1>2, <1>3, <1>4 DEF BufferInv

LEMMA PollReadsKeepsBuffer ==
  ASSUME BufferInv, NEW r \in Readers, PollReads(r)
  PROVE  BufferInv'
<1>1. /\ pc[r] = "read"
      /\ pc' = [pc EXCEPT ![r] = "take"]
      /\ ch' = [ch EXCEPT ![r] = keybuf[1]]
      /\ UNCHANGED <<keybuf, keyptr, typed, got, shared>>
  BY DEF PollReads, keyVars
<1>2. keybuf[1] \in Codes
  BY KeyboardAssumption DEF BufferInv
<1>3. /\ pc' \in [Readers -> {"idle", "read", "take"}]
      /\ ch' \in [Readers -> Codes]
      /\ pc'[r] = "take" /\ ch'[r] = keybuf[1]
      /\ \A other \in Readers :
           other # r => pc'[other] = pc[other] /\ ch'[other] = ch[other]
  BY <1>1, <1>2 DEF BufferInv
<1>4. KeysInOrder => KeysInOrder'
  BY <1>1 DEF KeysInOrder
<1> QED
  BY <1>1, <1>3, <1>4 DEF BufferInv

LEMMA PollTakesKeepsBuffer ==
  ASSUME BufferInv, NEW r \in Readers, PollTakes(r)
  PROVE  BufferInv'
<1>1. /\ pc[r] = "take"
      /\ pc' = [pc EXCEPT ![r] = "idle"]
      /\ keybuf' = Shifted
      /\ keyptr' = IF keyptr # 0 THEN keyptr - 1 ELSE 0
      /\ got' = Append(got, ch[r])
      /\ ch' = [ch EXCEPT ![r] = 0]
      /\ UNCHANGED <<typed, shared>>
  BY DEF PollTakes
<1>2. /\ MaxKeybuf \in Nat /\ keyptr \in 0 .. MaxKeybuf - 1 /\ 0 \in Codes
      /\ ch \in [Readers -> Codes] /\ got \in Seq(Codes)
  BY KeyboardAssumption DEF BufferInv, Codes
<1>3. keybuf' \in [1 .. MaxKeybuf -> Codes] /\ keyptr' \in 0 .. MaxKeybuf - 1
  BY <1>1, <1>2, ShiftedDropsFirst
<1>4. got' = got \o <<ch[r]>> /\ got' \in Seq(Codes) /\ <<ch[r]>> \in Seq(Codes)
  <2>1. ch[r] \in Codes
    BY <1>2
  <2> QED
    BY <1>1, <1>2, <2>1, AppendProperties, AppendIsConcat
<1>5. /\ pc' \in [Readers -> {"idle", "read", "take"}]
      /\ ch' \in [Readers -> Codes]
      /\ \A other \in Readers : other # r => pc'[other] = pc[other]
      /\ pc'[r] = "idle"
  BY <1>1, <1>2 DEF BufferInv
<1>6. ASSUME ~shared
      PROVE  /\ \A other \in Readers : pc'[other] = "idle"
             /\ KeysInOrder'
  <2>1. \A other \in Readers : pc'[other] = "idle"
    BY <1>1, <1>5, <1>6 DEF BufferInv
  <2>2. keyptr # 0 /\ ch[r] = keybuf[1]
    BY <1>1, <1>6 DEF BufferInv
  <2>3. got \o SubSeq(keybuf, 1, keyptr) = typed
    BY <1>6 DEF BufferInv, KeysInOrder
  <2> DEFINE rest == SubSeq(keybuf', 1, keyptr')
  <2>4. SubSeq(keybuf, 1, keyptr) = <<ch[r]>> \o rest
    BY <1>1, <2>2, ShiftedDropsFirst
  <2>5. rest \in Seq(Codes)
    <3>1. keyptr' \in 0 .. MaxKeybuf
      BY <1>2, <1>3
    <3> QED
      BY <1>3, <3>1, BufferIsSeq
  <2> HIDE DEF rest
  <2>6. (got \o <<ch[r]>>) \o rest = got \o (<<ch[r]>> \o rest)
    <3>1. got \in Seq(Codes) /\ <<ch[r]>> \in Seq(Codes) /\ rest \in Seq(Codes)
      BY <1>2, <1>4, <2>5
    <3> QED
      BY <3>1, ConcatAssociative
  <2>7. got' \o rest = typed'
    BY <1>1, <1>4, <2>3, <2>4, <2>6
  <2> QED
    BY <2>1, <2>7 DEF KeysInOrder, rest
<1>7. typed' \in Seq(Codes) /\ shared' = shared /\ shared' \in BOOLEAN
  BY <1>1 DEF BufferInv
<1>8. ~shared' => \A other \in Readers : pc'[other] = "idle"
  BY <1>6, <1>7
<1>9. ~shared' => KeysInOrder'
  BY <1>6, <1>7
<1> QED
  BY <1>3, <1>4, <1>5, <1>7, <1>8, <1>9 DEF BufferInv

LEMMA NextKeepsBuffer == BufferInv /\ [Next]_vars => BufferInv'
<1> SUFFICES ASSUME BufferInv, [Next]_vars PROVE BufferInv'
  OBVIOUS
<1> USE DEF readVars
<1>1. ASSUME NEW key \in Keys, MakeKey(key) PROVE BufferInv'
  BY <1>1, MakeKeyKeepsBuffer
<1>2. ASSUME NEW r \in Readers, PollWaits(r) \/ PollReads(r) \/ PollTakes(r)
      PROVE  BufferInv'
  BY <1>2, PollWaitsKeepsBuffer, PollReadsKeepsBuffer, PollTakesKeepsBuffer
<1>3. ASSUME NEW key, SwitchFini(key) \/ SwitchRun(key) \/ BreakKey(key)
      PROVE  BufferInv'
  BY <1>3, OtherStepsKeepBuffer DEF SwitchFini, SwitchRun, BreakKey, Press
<1>4. ASSUME NEW key, NEW make, WhileChoosing(key, make) PROVE BufferInv'
  BY <1>4, OtherStepsKeepBuffer DEF WhileChoosing, Press
<1>5. ASSUME Call PROVE BufferInv'
  BY <1>5, OtherStepsKeepBuffer DEF Call, keyVars
<1>6. ASSUME NEW id, NEW char, NEW flush, Write(id, char, flush)
      PROVE  BufferInv'
  BY <1>5, <1>6 DEF Write, CallKeepsList
<1>7. ASSUME NEW id, NEW x, NEW y, SetCursor(id, x, y) PROVE BufferInv'
  BY <1>5, <1>7 DEF SetCursor, CallKeepsList
<1>8. ASSUME NEW id, ShowScreen(id) \/ ClearScreen(id) \/ DestroyConsole(id)
      PROVE  BufferInv'
  BY <1>5, <1>8 DEF ShowScreen, ClearScreen, DestroyConsole, CallKeepsList
<1>9. CASE CreateConsole \/ Panic
  BY <1>5, <1>9 DEF CreateConsole, Panic
<1>10. CASE UNCHANGED vars
  BY <1>10, OtherStepsKeepBuffer DEF vars, keyVars
<1> QED
  BY <1>1, <1>2, <1>3, <1>4, <1>6, <1>7, <1>8, <1>9, <1>10 DEF Next

\* Whatever the size of the buffer and however many poll: until two of them do
\* so at once no code is lost, doubled or out of order (keyboard.c:73-84,
\* 303-331).
THEOREM KeysArriveInOrder == Spec => []KeysInOrder
<1>1. BufferInv => KeysInOrder
  BY DEF BufferInv, KeysInOrder
<1> QED
  BY <1>1, InitBuffer, NextKeepsBuffer, PTL DEF Spec

\* The number of keys stays in the buffer, two readers or not: the check of the
\* interrupt leaves one byte free, and the removal stops at 0 (keyboard.c:77,
\* 317-325).
BufferBounded == keyptr \in 0 .. MaxKeybuf - 1 /\ keybuf \in [1 .. MaxKeybuf -> Codes]

THEOREM BufferStaysBounded == Spec => []BufferBounded
<1>1. BufferInv => BufferBounded
  BY DEF BufferInv, BufferBounded
<1> QED
  BY <1>1, InitBuffer, NextKeepsBuffer, PTL DEF Spec

----------------------------------------------------------------------------
(* The list of consoles *)

\* The neighbours of a console of the list are the next ones that were not
\* destroyed.
NextAlive(id) ==
  /\ con[id].next \in alive \cup {NoConsole}
  /\ \A y \in alive : id < y => con[id].next # NoConsole /\ con[id].next <= y

PrevAlive(id) ==
  /\ con[id].prev \in alive \cup {NoConsole}
  /\ con[id].prev # NoConsole => con[id].prev < id
  /\ \A y \in alive : y < id => con[id].prev # NoConsole /\ y <= con[id].prev

\* Every console, destroyed or not, and once or twice, leads up to a younger one
\* or to none, and down to an older one: no walk turns in a circle.
LinkInv ==
  /\ Cardinality(DOMAIN con) \in Nat
  /\ DOMAIN con = 0 .. Cardinality(DOMAIN con) - 1
  /\ DOMAIN con \subseteq Consoles
  /\ Construct \in DOMAIN con /\ alive \subseteq DOMAIN con
  /\ twice \in BOOLEAN
  /\ \A id \in DOMAIN con :
       /\ con[id].next # NoConsole => con[id].next \in DOMAIN con /\ id < con[id].next
       /\ con[id].prev # NoConsole => con[id].prev \in DOMAIN con /\ con[id].prev < id
       /\ id # Construct => con[id].prev # NoConsole

\* As long as none is destroyed twice the list is that of the living.
RingInv ==
  /\ LinkInv /\ Construct \in alive
  /\ \A id \in alive : NextAlive(id) /\ PrevAlive(id)

ListInv == LinkInv /\ (~ twice => RingInv)

LEMMA ConsoleNumbers ==
  /\ MaxConsoles \in Nat \ {0}
  /\ \A id : id \in Consoles => id \in Nat /\ id < MaxConsoles
  /\ \A id \in Consoles : id # NoConsole
BY ConsoleAssumption DEF Consoles, NoConsole

\* A walk along the links comes from a console of the list to every one behind it.
LEMMA WalkUp ==
  ASSUME RingInv, NEW K \in Nat, NEW f, NEW n \in 0 .. K, f[n] \in alive,
         \A k \in 0 .. K - 1 : f[k] \in alive /\ con[f[k]].next # NoConsole =>
                                 f[k + 1] = con[f[k]].next,
         NEW y \in alive, f[n] <= y, n + (y - f[n]) <= K
  PROVE  \E m \in n .. n + (y - f[n]) : f[m] = y
<1> DEFINE x == f[n]
           Reached(z) == \E m \in n .. n + (z - x) : f[m] = z
           S == {z \in alive : x <= z /\ z <= y /\ ~ Reached(z)}
<1>1. /\ \A z : z \in alive => z \in Nat /\ z \in DOMAIN con
      /\ x \in alive /\ n \in Nat /\ x \in Nat /\ y \in Nat
  BY ConsoleNumbers DEF RingInv, LinkInv
<1> SUFFICES ASSUME S # {} PROVE FALSE
  <2>1. y \notin S => Reached(y)
    BY <1>1
  <2> QED
    BY <2>1
<1>2. PICK z \in S : \A l \in S : z <= l
  <2>1. S \in SUBSET Nat
    BY <1>1
  <2> HIDE DEF S
  <2> QED
    BY <2>1, LeastElement
<1>3. z \in alive /\ z \in Nat /\ x <= z /\ z <= y /\ ~ Reached(z)
  BY <1>1, <1>2
<1>4. z # x
  <2>1. ASSUME z = x PROVE Reached(z)
    <3>1. n \in n .. n + (z - x) /\ f[n] = z
      BY <1>1, <2>1
    <3> QED
      BY <3>1
  <2> QED
    BY <1>3, <2>1
<1>5. PICK p \in alive : p = con[z].prev /\ x <= p /\ p < z
  <2>1. x < z /\ PrevAlive(z)
    BY <1>1, <1>3, <1>4 DEF RingInv, LinkInv
  <2> QED
    BY <1>1, <2>1 DEF PrevAlive
<1>6. Reached(p)
  <2>1. ~ (z <= p) /\ p \in Nat /\ p <= y
    BY <1>1, <1>3, <1>5
  <2>2. p \notin S
    BY <1>2, <2>1
  <2> QED
    BY <1>5, <2>1, <2>2
<1>7. con[p].next = z
  <2>1. NextAlive(p) /\ p \in DOMAIN con
    BY <1>1 DEF RingInv, LinkInv
  <2>2. con[p].next # NoConsole /\ con[p].next <= z /\ con[p].next \in alive
    BY <1>3, <1>5, <2>1 DEF NextAlive
  <2>3. p < con[p].next
    BY <2>1, <2>2 DEF RingInv, LinkInv
  <2>4. con[p].next < z => con[p].next <= p
    BY <1>3, <1>5, <2>2 DEF RingInv, LinkInv, PrevAlive
  <2> QED
    BY <1>1, <1>3, <2>2, <2>3, <2>4
<1>8. PICK m \in n .. n + (p - x) : f[m] = p
  BY <1>6
<1> HIDE DEF Reached, S, x
<1>9. m \in 0 .. K - 1 /\ m + 1 \in n .. n + (z - x)
  <2>1. p \in Nat /\ p <= z - 1 /\ z <= y /\ x \in Nat /\ n + (y - x) <= K
    BY <1>1, <1>3, <1>5 DEF x
  <2>2. m \in Nat /\ n <= m /\ m <= n + (p - x)
    BY <1>1, <1>8, <2>1
  <2> QED
    BY <1>1, <1>3, <2>1, <2>2
<1>10. f[m + 1] = z
  <2>1. z # NoConsole
    BY <1>1, <1>3, ConsoleNumbers DEF RingInv, LinkInv
  <2> QED
    BY <1>7, <1>8, <1>9, <2>1
<1> QED
  BY <1>3, <1>9, <1>10 DEF Reached

\* From the head it comes to all the consoles there are, and to no other.
LEMMA WalkIsAlive == RingInv => Walk(con, Construct) = alive
<1> SUFFICES ASSUME RingInv PROVE Walk(con, Construct) = alive
  OBVIOUS
<1> DEFINE K == MaxConsoles
           D == alive \cup {NoConsole}
           Step(f) == [n \in 0 .. K |->
                         IF n = 0 THEN Construct
                         ELSE IF f[n - 1] = NoConsole THEN NoConsole
                              ELSE con[f[n - 1]].next]
           at == CHOOSE f : f = Step(f)
           g == [x \in D |-> IF x = NoConsole THEN NoConsole ELSE con[x].next]
<1>1. /\ K \in Nat /\ Construct \in alive /\ alive \subseteq Consoles
      /\ \A x \in alive : con[x].next \in D /\ x \in Nat /\ x < K
  BY ConsoleNumbers DEF RingInv, LinkInv, NextAlive
<1>2. Walk(con, Construct) = {at[n] : n \in 0 .. K} \ {NoConsole}
  BY DEF Walk
<1>3. PICK h : IsRun(h, D, g, Construct, K)
  <2>1. g \in [D -> D] /\ Construct \in D /\ K \in Nat
    BY <1>1
  <2> HIDE DEF g, D, K
  <2> QED
    BY <2>1, Iterate
<1>4. h = Step(h)
  <2> SUFFICES ASSUME NEW n \in 0 .. K PROVE h[n] = Step(h)[n]
    BY <1>3 DEF IsRun
  <2>1. CASE n = 0
    BY <1>3, <2>1 DEF IsRun
  <2>2. CASE n # 0
    <3>1. n \in 1 .. K /\ n - 1 \in 0 .. K
      BY <1>1, <2>2
    <3>2. h[n] = g[h[n - 1]] /\ h[n - 1] \in D
      BY <1>3, <3>1 DEF IsRun
    <3> QED
      BY <2>2, <3>2
  <2> QED
    BY <2>1, <2>2
<1>5. at = Step(at)
  <2> HIDE DEF Step
  <2> QED
    BY <1>4
<1> HIDE DEF at
<1>6. /\ at[0] = Construct
      /\ \A k \in 0 .. K - 1 :
           at[k + 1] = IF at[k] = NoConsole THEN NoConsole ELSE con[at[k]].next
  <2>1. 0 \in 0 .. K /\ \A k \in 0 .. K - 1 : k + 1 \in 0 .. K /\ (k + 1) - 1 = k /\ k + 1 # 0
    BY <1>1
  <2>2. \A n \in 0 .. K : at[n] = Step(at)[n]
    BY <1>5
  <2> HIDE DEF K
  <2> QED
    BY <2>1, <2>2
<1> HIDE DEF K, Step, g
<1>7. \A n \in 0 .. K : at[n] \in D
  <2>1. at[0] \in D /\ \A k \in 0 .. K - 1 : at[k] \in D => at[k + 1] \in D
    BY <1>1, <1>6
  <2>2. 0 \in Nat
    OBVIOUS
  <2> HIDE DEF D
  <2> QED
    BY <1>1, <2>1, <2>2, Stays
<1>8. ASSUME NEW y \in alive PROVE \E n \in 0 .. K : at[n] = y
  <2>1. y \in Nat /\ y < K /\ Construct = 0
    BY <1>1 DEF Construct
  <2>2. 0 \in 0 .. K /\ at[0] \in alive /\ at[0] <= y /\ 0 + (y - at[0]) <= K
        /\ 0 + (y - at[0]) = y
    BY <1>1, <1>6, <2>1
  <2>3. \A k \in 0 .. K - 1 : at[k] \in alive /\ con[at[k]].next # NoConsole =>
                                at[k + 1] = con[at[k]].next
    BY <1>1, <1>6, ConsoleNumbers
  <2>4. \E m \in 0 .. 0 + (y - at[0]) : at[m] = y
    BY <1>1, <2>2, <2>3, WalkUp
  <2> QED
    BY <1>1, <2>1, <2>2, <2>4
<1>9. NoConsole \notin alive
  BY <1>1, ConsoleNumbers
<1> QED
  BY <1>2, <1>7, <1>8, <1>9 DEF K, D

\* A walk with TAB goes up until it is back at the head.
LEMMA BackToHead ==
  ASSUME RingInv, NEW K \in Nat, NEW f,
         \A k \in 0 .. K : f[k] \in DOMAIN con,
         \A k \in 0 .. K - 1 : f[k + 1] = NextConsole(con, f[k]),
         NEW n \in 0 .. K, n + (MaxConsoles - f[n]) <= K
  PROVE  \E m \in n .. n + (MaxConsoles - f[n]) : f[m] = Construct
<1> DEFINE x == f[n]
           end == n + (MaxConsoles - x)
           S == {k \in n .. end : ~ (x + (k - n) <= f[k])}
<1>1. /\ \A k \in 0 .. K : f[k] \in Nat /\ f[k] < MaxConsoles
      /\ x \in Nat /\ x < MaxConsoles /\ n \in Nat /\ end \in Nat /\ end <= K
      /\ MaxConsoles \in Nat /\ n < end
  <2>1. \A k \in 0 .. K : f[k] \in Nat /\ f[k] < MaxConsoles
    BY ConsoleNumbers DEF RingInv, LinkInv
  <2>2. MaxConsoles \in Nat /\ n \in Nat /\ x \in Nat /\ x < MaxConsoles
    BY <2>1, ConsoleNumbers
  <2> HIDE DEF x
  <2> QED
    BY <2>1, <2>2 DEF x
<1> SUFFICES ASSUME \A m \in n .. end : f[m] # Construct PROVE FALSE
  OBVIOUS
<1>2. ASSUME NEW k \in n .. end - 1 PROVE f[k] < f[k + 1]
  <2>1. k \in 0 .. K - 1 /\ k \in 0 .. K /\ k + 1 \in n .. end
    BY <1>1
  <2>2. f[k] \in DOMAIN con /\ f[k + 1] = NextConsole(con, f[k]) /\ f[k + 1] # Construct
    BY <2>1
  <2>3. f[k + 1] = con[f[k]].next /\ con[f[k]].next # NoConsole
    BY <2>2 DEF NextConsole
  <2> QED
    BY <2>2, <2>3 DEF RingInv, LinkInv
<1>3. S = {}
  <2> SUFFICES ASSUME S # {} PROVE FALSE
    OBVIOUS
  <2>1. PICK k \in S : \A l \in S : k <= l
    <3>1. S \in SUBSET Nat
      BY <1>1
    <3> HIDE DEF S
    <3> QED
      BY <3>1, LeastElement
  <2>2. k # n
    BY <1>1, <2>1
  <2>3. k - 1 \in n .. end - 1 /\ k - 1 \in n .. end /\ k - 1 \notin S /\ (k - 1) + 1 = k
        /\ k \in 0 .. K /\ k - 1 \in 0 .. K
    BY <1>1, <2>1, <2>2
  <2>4. x + ((k - 1) - n) <= f[k - 1] /\ f[k - 1] < f[k]
    BY <1>2, <2>3
  <2>5. f[k - 1] \in Nat /\ f[k] \in Nat /\ k \in Nat
    BY <1>1, <2>3
  <2> HIDE DEF x, end
  <2>6. x + (k - n) <= f[k]
    BY <1>1, <2>4, <2>5
  <2> QED
    BY <2>1, <2>6
<1>4. end \in n .. end /\ end \notin S /\ end \in 0 .. K
  BY <1>1, <1>3
<1>5. x + (end - n) <= f[end] /\ f[end] < MaxConsoles /\ f[end] \in Nat
  BY <1>1, <1>4
<1>6. x + (end - n) = MaxConsoles
  BY <1>1
<1> QED
  BY <1>1, <1>5, <1>6

LEMMA RingIsComplete == RingInv => RingComplete
<1> SUFFICES ASSUME RingInv, NEW id \in DOMAIN con
             PROVE  LET at[n \in 0 .. 2 * MaxConsoles] ==
                          IF n = 0 THEN id ELSE NextConsole(con, at[n - 1])
                    IN  {at[n] : n \in MaxConsoles .. 2 * MaxConsoles} = alive
  BY WalkIsAlive DEF RingComplete
<1> DEFINE M == MaxConsoles
           K == 2 * MaxConsoles
           D == DOMAIN con
           Step(f) == [n \in 0 .. K |-> IF n = 0 THEN id ELSE NextConsole(con, f[n - 1])]
           at == CHOOSE f : f = Step(f)
           g == [x \in D |-> NextConsole(con, x)]
<1> SUFFICES {at[n] : n \in M .. K} = alive
  OBVIOUS
<1>1. /\ M \in Nat \ {0} /\ K \in Nat /\ K = M + M /\ Construct \in alive /\ alive \subseteq D
      /\ \A x \in D : x \in Nat /\ x < M /\ NextConsole(con, x) \in D
  BY ConsoleNumbers DEF RingInv, LinkInv, NextConsole
<1>2. PICK h : IsRun(h, D, g, id, K)
  <2>1. g \in [D -> D] /\ id \in D /\ K \in Nat
    BY <1>1
  <2> HIDE DEF g, D, K
  <2> QED
    BY <2>1, Iterate
<1>3. h = Step(h)
  <2> SUFFICES ASSUME NEW n \in 0 .. K PROVE h[n] = Step(h)[n]
    BY <1>2 DEF IsRun
  <2>1. CASE n = 0
    BY <1>2, <2>1 DEF IsRun
  <2>2. CASE n # 0
    <3>1. n \in 1 .. K /\ n - 1 \in 0 .. K
      BY <1>1, <2>2
    <3>2. h[n] = g[h[n - 1]] /\ h[n - 1] \in D
      BY <1>2, <3>1 DEF IsRun
    <3> QED
      BY <2>2, <3>2
  <2> QED
    BY <2>1, <2>2
<1>4. at = Step(at)
  <2> HIDE DEF Step
  <2> QED
    BY <1>3
<1> HIDE DEF at
<1>5. /\ at[0] = id
      /\ \A k \in 0 .. K - 1 : at[k + 1] = NextConsole(con, at[k])
  <2>1. 0 \in 0 .. K /\ \A k \in 0 .. K - 1 : k + 1 \in 0 .. K /\ (k + 1) - 1 = k /\ k + 1 # 0
    BY <1>1
  <2>2. \A n \in 0 .. K : at[n] = Step(at)[n]
    BY <1>4
  <2> HIDE DEF K
  <2> QED
    BY <2>1, <2>2
<1> HIDE DEF K, M, D, Step, g
<1>6. \A n \in 0 .. K : at[n] \in D
  <2>1. at[0] \in D /\ \A k \in 0 .. K - 1 : at[k] \in D => at[k + 1] \in D
    BY <1>1, <1>5 DEF D
  <2>2. 0 \in Nat
    OBVIOUS
  <2> QED
    BY <1>1, <2>1, <2>2, Stays
<1>7. ASSUME NEW n \in 0 .. K, at[n] \in D, n + (M - at[n]) <= K
      PROVE  \E m \in n .. n + (M - at[n]) : at[m] = Construct
  BY <1>1, <1>5, <1>6, <1>7, BackToHead DEF D, M
<1>8. ASSUME NEW n \in 0 .. K, at[n] \in alive, NEW y \in alive, at[n] <= y,
             n + (y - at[n]) <= K
      PROVE  \E m \in n .. n + (y - at[n]) : at[m] = y
  <2>1. \A k \in 0 .. K - 1 : at[k] \in alive /\ con[at[k]].next # NoConsole =>
                                at[k + 1] = con[at[k]].next
    BY <1>5 DEF NextConsole
  <2> QED
    BY <1>1, <1>8, <2>1, WalkUp
<1>9. \A n \in M .. K : at[n] \in alive
  <2>1. PICK z \in 0 .. M : at[z] = Construct
    <3>1. 0 \in 0 .. K /\ at[0] = id /\ id \in Nat /\ id < M /\ id \in D
      BY <1>1, <1>5 DEF D
    <3>2. 0 + (M - at[0]) <= K /\ 0 + (M - at[0]) <= M
      BY <1>1, <3>1
    <3>3. \E m \in 0 .. 0 + (M - at[0]) : at[m] = Construct
      BY <1>7, <3>1, <3>2
    <3> QED
      BY <1>1, <3>1, <3>2, <3>3
  <2>2. \A n \in z .. K : at[n] \in alive
    <3>1. \A k \in z .. K - 1 : at[k] \in alive => at[k + 1] \in alive
      <4> SUFFICES ASSUME NEW k \in z .. K - 1, at[k] \in alive
                   PROVE  at[k + 1] \in alive
        OBVIOUS
      <4>1. at[k + 1] = NextConsole(con, at[k])
        BY <1>1, <1>5
      <4> QED
        BY <1>1, <4>1 DEF RingInv, LinkInv, NextAlive, NextConsole
    <3>2. z \in Nat
      BY <1>1
    <3> QED
      BY <1>1, <2>1, <3>1, <3>2, Stays
  <2>3. \A n \in M .. K : n \in z .. K
    BY <1>1, <2>1
  <2> QED
    BY <2>2, <2>3
<1>10. ASSUME NEW y \in alive PROVE \E n \in M .. K : at[n] = y
  <2> DEFINE x == at[M]
  <2>1. M \in M .. K /\ M \in 0 .. K /\ x \in alive /\ x \in D /\ x \in Nat /\ x < M
    BY <1>1, <1>9
  <2>2. y \in Nat /\ y < M
    BY <1>1
  <2>3. CASE x <= y
    <3>1. M + (y - x) <= K
      BY <1>1, <2>1, <2>2
    <3>2. PICK m \in M .. M + (y - x) : at[m] = y
      BY <1>8, <2>1, <2>3, <3>1
    <3> QED
      BY <1>1, <2>1, <2>2, <3>1, <3>2
  <2>4. CASE y < x
    <3>1. M + (M - x) <= K
      BY <1>1, <2>1
    <3>2. PICK z \in M .. M + (M - x) : at[z] = Construct
      BY <1>7, <2>1, <3>1
    <3>3. z \in 0 .. K /\ z \in Nat /\ z + y <= K /\ M <= z
      <4> HIDE DEF x
      <4> QED
        BY <1>1, <2>1, <2>2, <2>4, <3>1, <3>2
    <3>4. at[z] \in alive /\ at[z] <= y /\ z + (y - at[z]) = z + y
      BY <1>1, <2>2, <3>2 DEF Construct
    <3>5. PICK m \in z .. z + y : at[m] = y
      BY <1>8, <3>3, <3>4
    <3> QED
      BY <1>1, <2>2, <3>3, <3>5
  <2> QED
    BY <2>1, <2>2, <2>3, <2>4
<1> QED
  BY <1>9, <1>10

----------------------------------------------------------------------------
(* Drawing keeps the types and the links of the consoles *)

\* What a console is made of, what a screen shows, and consoles with a screen.
Rec == [next : Consoles \cup {NoConsole}, prev : Consoles \cup {NoConsole},
        px : 0 .. PosSize - 1, py : 0 .. Height - 1, flush : FlushModes,
        sx : 0 .. PosSize - 1, sy : 0 .. Height,
        ex : 0 .. PosSize - 1, ey : 0 .. Height, buf : [Cells -> Shown]]

Bars == {Blank} \cup {Bar[id] : id \in Consoles}

Pixels == Shown \cup Bars

Videos(D) == [con : [D -> Rec], screen : [Cells -> Pixels]]

\* A console with something else on it.
Redrawn(c, d) == d \in Rec /\ d.next = c.next /\ d.prev = c.prev

\* All of them may be drawn on, and the screen.
AllRedrawn(D, s, t) == t \in Videos(D) /\ \A id \in D : Redrawn(s.con[id], t.con[id])

LEMMA Sizes ==
  /\ Width \in Nat /\ Width >= 4 /\ Height \in Nat /\ Height >= 2
  /\ PosSize \in Nat /\ PosSize > Width /\ PosSize > Height
BY ConsoleAssumption, KeyboardAssumption

LEMMA RecFields ==
  ASSUME NEW c \in Rec
  PROVE  /\ c.next \in Consoles \cup {NoConsole} /\ c.prev \in Consoles \cup {NoConsole}
         /\ c.px \in 0 .. PosSize - 1 /\ c.py \in 0 .. Height - 1
         /\ c.flush \in FlushModes
         /\ c.sx \in 0 .. PosSize - 1 /\ c.ex \in 0 .. PosSize - 1
         /\ c.sy \in 0 .. Height /\ c.ey \in 0 .. Height
         /\ c.buf \in [Cells -> Shown]
BY DEF Rec

LEMMA PlotRedraws ==
  ASSUME NEW c \in Rec, NEW x \in 0 .. PosSize - 1, NEW y \in 0 .. Height,
         NEW char \in Shown
  PROVE  /\ Redrawn(c, Plot(c, x, y, char))
         /\ Plot(c, x, y, char).px = c.px /\ Plot(c, x, y, char).py = c.py
<1> DEFINE buf  == IF Cell(x, y) \in Cells THEN [c.buf EXCEPT ![Cell(x, y)] = char] ELSE c.buf
           mode == IF c.flush = NoFlush THEN Partial ELSE c.flush
           sx == Least(c.sx, x)
           ex == Most(c.ex, x)
           sy == Least(c.sy, y)
           ey == Most(c.ey, y)
           d == Plot(c, x, y, char)
<1>1. /\ sx \in 0 .. PosSize - 1 /\ ex \in 0 .. PosSize - 1
      /\ sy \in 0 .. Height /\ ey \in 0 .. Height
  BY RecFields DEF Least, Most
<1>2. mode \in FlushModes
  BY RecFields DEF FlushModes
<1>3. buf \in [Cells -> Shown]
  BY RecFields
<1>4. d = [c EXCEPT !.buf = buf, !.flush = mode, !.sx = sx, !.ex = ex, !.sy = sy, !.ey = ey]
  BY DEF Plot
<1> HIDE DEF buf, mode, sx, ex, sy, ey, d
<1>5. d \in Rec /\ d.next = c.next /\ d.prev = c.prev /\ d.px = c.px /\ d.py = c.py
  BY <1>1, <1>2, <1>3, <1>4 DEF Rec
<1> QED
  BY <1>5 DEF d, Redrawn

LEMMA PlaceRedraws ==
  ASSUME NEW c \in Rec, NEW x \in 0 .. PosSize - 1, NEW y \in 0 .. Height - 1
  PROVE  Redrawn(c, [c EXCEPT !.px = x, !.py = y])
BY DEF Redrawn, Rec

\* What is redrawn twice is redrawn.
LEMMA RedrawnTwice ==
  ASSUME NEW c, NEW d, NEW e, Redrawn(c, d), Redrawn(d, e)
  PROVE  Redrawn(c, e)
BY DEF Redrawn

LEMMA ScrollUpRedraws ==
  ASSUME NEW c \in Rec
  PROVE  Redrawn(c, ScrollUp(c)) /\ ScrollUp(c).px = c.px /\ ScrollUp(c).py = c.py
<1> DEFINE buf == [k \in Cells |-> IF k + Width \in Cells THEN c.buf[k + Width] ELSE Empty]
<1>1. buf \in [Cells -> Shown]
  BY RecFields DEF Shown, Empty
<1>2. ScrollUp(c) = [c EXCEPT !.flush = WholeScreen, !.buf = buf]
  BY DEF ScrollUp
<1> HIDE DEF buf
<1> QED
  BY <1>1, <1>2 DEF Redrawn, Rec, FlushModes

LEMMA SetXYRedraws ==
  ASSUME NEW c \in Rec, NEW x \in Nat, NEW y \in Nat
  PROVE  Redrawn(c, SetXY(c, x, y))
<1>1. CASE x < Width /\ y < Height
  <2>1. x \in 0 .. PosSize - 1 /\ y \in 0 .. Height - 1
    BY <1>1, Sizes
  <2> QED
    BY <1>1, <2>1, PlaceRedraws DEF SetXY
<1>2. CASE ~ (x < Width /\ y < Height)
  BY <1>2 DEF SetXY, Redrawn
<1> QED
  BY <1>1, <1>2

LEMMA LineDownRedraws ==
  ASSUME NEW c \in Rec
  PROVE  Redrawn(c, LineDown(c))
<1>1. c.px \in 0 .. PosSize - 1 /\ c.py \in 0 .. Height - 1 /\ 0 \in 0 .. PosSize - 1
  BY RecFields, Sizes
<1>2. CASE c.py = Height - 1
  <2> DEFINE d == ScrollUp(c)
  <2>1. Redrawn(c, d) /\ d \in Rec
    BY ScrollUpRedraws DEF Redrawn
  <2> HIDE DEF d
  <2>2. [d EXCEPT !.px = 0] = [d EXCEPT !.px = 0, !.py = d.py]
    BY <2>1, RecFields
  <2>3. Redrawn(d, [d EXCEPT !.px = 0])
    BY <1>1, <2>1, <2>2, PlaceRedraws, RecFields
  <2> QED
    BY <1>2, <2>1, <2>3, RedrawnTwice DEF LineDown, d
<1>3. CASE c.py # Height - 1
  <2>1. (c.py + 1) % PosSize = c.py + 1 /\ c.py + 1 \in 0 .. Height - 1
    BY <1>1, <1>3, Sizes
  <2> QED
    BY <1>1, <1>3, <2>1, PlaceRedraws DEF LineDown
<1> QED
  BY <1>2, <1>3

LEMMA DirectPutchRedraws ==
  ASSUME NEW c \in Rec, NEW char \in Shown
  PROVE  Redrawn(c, DirectPutch(c, char))
<1> DEFINE d == Plot(c, c.px, c.py, char)
           px == (c.px + 1) % PosSize
<1>1. /\ Redrawn(c, d) /\ d \in Rec /\ px \in 0 .. PosSize - 1
  <2>1. c.px \in 0 .. PosSize - 1 /\ c.py \in 0 .. Height
    BY RecFields, Sizes
  <2>2. Redrawn(c, d)
    BY <2>1, PlotRedraws
  <2> QED
    BY <2>1, <2>2, Sizes DEF Redrawn
<1>2. DirectPutch(c, char) \in {LineDown(d), [d EXCEPT !.px = px]}
  BY DEF DirectPutch
<1> HIDE DEF d, px
<1>3. Redrawn(d, LineDown(d))
  BY <1>1, LineDownRedraws
<1>4. Redrawn(d, [d EXCEPT !.px = px])
  <2>1. [d EXCEPT !.px = px] = [d EXCEPT !.px = px, !.py = d.py]
    BY <1>1, RecFields
  <2> QED
    BY <1>1, <2>1, PlaceRedraws, RecFields
<1> QED
  BY <1>1, <1>2, <1>3, <1>4, RedrawnTwice

LEMMA BackspaceRedraws ==
  ASSUME NEW c \in Rec
  PROVE  Redrawn(c, Backspace(c))
<1> DEFINE up   == [c EXCEPT !.py = @ - 1, !.px = Width]
           left == [c EXCEPT !.px = @ - 1]
<1>1. c.px \in 0 .. PosSize - 1 /\ c.py \in 0 .. Height - 1 /\ Blank \in Shown
  BY RecFields DEF Shown
<1>2. ASSUME NEW d, Redrawn(c, d) PROVE Redrawn(c, Plot(d, d.px, d.py, Blank))
  <2>1. d \in Rec
    BY <1>2 DEF Redrawn
  <2>2. d.px \in 0 .. PosSize - 1 /\ d.py \in 0 .. Height
    BY <2>1, RecFields, Sizes
  <2> QED
    BY <1>1, <1>2, <2>1, <2>2, PlotRedraws, RedrawnTwice
<1>3. CASE c.px = 0 /\ c.py = 0
  BY <1>3 DEF Backspace, Redrawn
<1>4. CASE c.px = 0 /\ c.py # 0
  <2>1. up = [c EXCEPT !.px = Width, !.py = c.py - 1]
    BY RecFields
  <2>2. Width \in 0 .. PosSize - 1 /\ c.py - 1 \in 0 .. Height - 1
    BY <1>1, <1>4, Sizes
  <2>3. Redrawn(c, up)
    BY <2>1, <2>2, PlaceRedraws
  <2>4. Backspace(c) = Plot(up, up.px, up.py, Blank)
    BY <1>4 DEF Backspace
  <2> HIDE DEF up
  <2> QED
    BY <1>2, <2>3, <2>4
<1>5. CASE c.px # 0
  <2>1. left = [c EXCEPT !.px = c.px - 1, !.py = c.py]
    BY RecFields
  <2>2. c.px - 1 \in 0 .. PosSize - 1
    BY <1>1, <1>5, Sizes
  <2>3. Redrawn(c, left)
    BY <1>1, <2>1, <2>2, PlaceRedraws
  <2>4. Backspace(c) = Plot(left, left.px, left.py, Blank)
    BY <1>5 DEF Backspace
  <2> HIDE DEF left
  <2> QED
    BY <1>2, <2>3, <2>4
<1> QED
  BY <1>3, <1>4, <1>5

LEMMA PutchRedraws ==
  ASSUME NEW c \in Rec, NEW char \in Shown \cup {"newline"}
  PROVE  Redrawn(c, Putch(c, char))
<1>1. CASE char = "newline"
  BY <1>1, LineDownRedraws DEF Putch
<1>2. CASE char = "return"
  <2>1. 0 \in 0 .. PosSize - 1 /\ c.py \in 0 .. Height - 1
    BY RecFields, Sizes
  <2>2. [c EXCEPT !.px = 0] = [c EXCEPT !.px = 0, !.py = c.py]
    BY RecFields
  <2> QED
    BY <1>2, <2>1, <2>2, PlaceRedraws DEF Putch
<1>3. CASE char = "backspace"
  BY <1>3, BackspaceRedraws DEF Putch
<1>4. CASE char \notin {"newline", "return", "backspace"}
  BY <1>4, DirectPutchRedraws DEF Putch
<1> QED
  BY <1>1, <1>2, <1>3, <1>4

----------------------------------------------------------------------------
(* Showing keeps them too *)

LEMMA AllRedrawnTwice ==
  ASSUME NEW D, NEW s, NEW t, NEW u, AllRedrawn(D, s, t), AllRedrawn(D, t, u)
  PROVE  AllRedrawn(D, s, u)
BY RedrawnTwice DEF AllRedrawn

\* One console is redrawn.
LEMMA OneRedrawn ==
  ASSUME NEW D, NEW s \in Videos(D), NEW id \in D, NEW d, Redrawn(s.con[id], d)
  PROVE  AllRedrawn(D, s, [s EXCEPT !.con[id] = d])
<1> DEFINE t == [s EXCEPT !.con[id] = d]
           after == [s.con EXCEPT ![id] = d]
<1>1. s.con \in [D -> Rec] /\ s.screen \in [Cells -> Pixels] /\ d \in Rec
  BY DEF Videos, Redrawn
<1>2. after \in [D -> Rec]
  BY <1>1
<1>3. \A k \in D : Redrawn(s.con[k], after[k])
  BY <1>1 DEF Redrawn
<1>4. t = [s EXCEPT !.con = after]
  OBVIOUS
<1> HIDE DEF after
<1>5. t \in Videos(D) /\ t.con = after
  BY <1>1, <1>2, <1>4 DEF Videos
<1> QED
  BY <1>3, <1>5 DEF AllRedrawn, t

LEMMA FlushBlockRedraws ==
  ASSUME NEW D, NEW s \in Videos(D), NEW id \in D
  PROVE  AllRedrawn(D, s, FlushBlock(s, id))
<1> DEFINE c == s.con[id]
           d == [c EXCEPT !.flush = NoFlush, !.sx = Width, !.sy = Height, !.ex = 0, !.ey = 0]
           after == [s.con EXCEPT ![id].flush = NoFlush, ![id].sx = Width,
                                  ![id].sy = Height, ![id].ex = 0, ![id].ey = 0]
           screen2 == [k \in Cells |-> IF k \in Flushed(c) THEN c.buf[k] ELSE s.screen[k]]
<1>1. s.con \in [D -> Rec] /\ s.screen \in [Cells -> Pixels] /\ c \in Rec
  BY DEF Videos
<1>2. Redrawn(c, d)
  <2>1. Width \in 0 .. PosSize - 1 /\ Height \in 0 .. Height /\ 0 \in 0 .. PosSize - 1
        /\ 0 \in 0 .. Height
    BY Sizes
  <2> HIDE DEF c
  <2>2. d \in Rec /\ d.next = c.next /\ d.prev = c.prev
    BY <1>1, <2>1 DEF Rec, FlushModes
  <2> QED
    BY <2>2 DEF Redrawn
<1>3. after = [s.con EXCEPT ![id] = d]
  BY <1>1
<1>4. screen2 \in [Cells -> Pixels]
  <2>1. c.buf \in [Cells -> Shown]
    BY <1>1, RecFields
  <2> HIDE DEF c
  <2> QED
    BY <1>1, <2>1 DEF Pixels
<1>5. FlushBlock(s, id) = IF c.flush = NoFlush THEN s ELSE [con |-> after, screen |-> screen2]
  BY DEF FlushBlock
<1> HIDE DEF c, d, after, screen2
<1>6. after \in [D -> Rec] /\ \A k \in D : Redrawn(s.con[k], after[k])
  BY <1>1, <1>2, <1>3 DEF Redrawn, c
<1>7. AllRedrawn(D, s, [con |-> after, screen |-> screen2])
  BY <1>4, <1>6 DEF AllRedrawn, Videos
<1>8. AllRedrawn(D, s, s)
  BY <1>1 DEF AllRedrawn, Redrawn
<1> QED
  BY <1>5, <1>7, <1>8

LEMMA UpdateScreenRedraws ==
  ASSUME NEW D, NEW s \in Videos(D), NEW id \in D, NEW bar \in Bars
  PROVE  AllRedrawn(D, s, UpdateScreen(s, id, bar))
<1> DEFINE c == s.con[id]
           marked == [s EXCEPT !.con[id].flush = WholeScreen]
           drawn == FlushBlock(marked, id)
           bottom == [k \in Cells |-> IF k \in LastLine THEN bar ELSE drawn.screen[k]]
<1>1. CASE bar = Blank
  BY <1>1, FlushBlockRedraws DEF UpdateScreen
<1>2. CASE bar # Blank
  <2>1. s.con \in [D -> Rec] /\ c \in Rec
    BY DEF Videos
  <2>2. Redrawn(c, [c EXCEPT !.flush = WholeScreen])
    <3> HIDE DEF c
    <3>1. /\ [c EXCEPT !.flush = WholeScreen] \in Rec
          /\ [c EXCEPT !.flush = WholeScreen].next = c.next
          /\ [c EXCEPT !.flush = WholeScreen].prev = c.prev
      BY <2>1 DEF Rec, FlushModes
    <3> QED
      BY <3>1 DEF Redrawn
  <2>3. AllRedrawn(D, s, marked)
    BY <2>2, OneRedrawn
  <2>4. AllRedrawn(D, s, drawn) /\ drawn \in Videos(D)
    <3> HIDE DEF marked
    <3>1. AllRedrawn(D, marked, drawn)
      BY <2>3, FlushBlockRedraws DEF AllRedrawn
    <3> HIDE DEF drawn
    <3>2. AllRedrawn(D, s, drawn)
      BY <2>3, <3>1, AllRedrawnTwice
    <3> QED
      BY <3>2 DEF AllRedrawn
  <2>5. UpdateScreen(s, id, bar) = [drawn EXCEPT !.screen = bottom]
    BY <1>2 DEF UpdateScreen
  <2> HIDE DEF drawn
  <2>6. bottom \in [Cells -> Pixels] /\ drawn.con \in [D -> Rec]
    BY <2>4 DEF Videos, Pixels
  <2> HIDE DEF bottom
  <2>7. [drawn EXCEPT !.screen = bottom] \in Videos(D)
        /\ [drawn EXCEPT !.screen = bottom].con = drawn.con
    BY <2>4, <2>6 DEF Videos
  <2> QED
    BY <2>4, <2>5, <2>7 DEF AllRedrawn
<1> QED
  BY <1>1, <1>2

LEMMA FlushRedraws ==
  ASSUME NEW D, NEW s \in Videos(D), NEW id \in D, NEW cur, NEW bar \in Bars
  PROVE  AllRedrawn(D, s, Flush(s, id, cur, bar))
BY UpdateScreenRedraws DEF Flush, AllRedrawn, Redrawn, Videos

LEMMA SwitchConsoleRedraws ==
  ASSUME NEW D, NEW s \in Videos(D), NEW id \in D, NEW bar \in Bars
  PROVE  AllRedrawn(D, s, SwitchConsole(s, id, bar))
<1> DEFINE shown == UpdateScreen(s, id, bar)
           c == shown.con[id]
<1>1. AllRedrawn(D, s, shown)
  BY UpdateScreenRedraws
<1>2. shown \in Videos(D) /\ c \in Rec
  BY <1>1 DEF AllRedrawn, Videos
<1>3. Redrawn(c, SetXY(c, c.px, c.py))
  <2>1. c.px \in Nat /\ c.py \in Nat
    BY <1>2, RecFields
  <2> HIDE DEF c
  <2> QED
    BY <1>2, <2>1, SetXYRedraws
<1>4. SwitchConsole(s, id, bar) = [shown EXCEPT !.con[id] = SetXY(c, c.px, c.py)]
  BY DEF SwitchConsole
<1> HIDE DEF shown
<1>5. AllRedrawn(D, shown, [shown EXCEPT !.con[id] = SetXY(c, c.px, c.py)])
  BY <1>2, <1>3, OneRedrawn
<1> QED
  BY <1>1, <1>4, <1>5, AllRedrawnTwice

LEMMA ClearRedraws ==
  ASSUME NEW D, NEW s \in Videos(D), NEW id \in D, NEW cur, NEW bar \in Bars
  PROVE  AllRedrawn(D, s, Clear(s, id, cur, bar))
<1> DEFINE c == s.con[id]
           blank == [k \in Cells |-> Blank]
           d == [c EXCEPT !.buf = blank, !.flush = WholeScreen]
           cleared == [s EXCEPT !.con[id] = SetXY(d, 0, 0)]
<1>1. c \in Rec /\ blank \in [Cells -> Shown]
  BY DEF Videos, Shown
<1>2. Redrawn(c, d) /\ d \in Rec
  <2> HIDE DEF c, blank
  <2>1. d \in Rec /\ d.next = c.next /\ d.prev = c.prev
    BY <1>1 DEF Rec, FlushModes
  <2> QED
    BY <2>1 DEF Redrawn
<1>3. Redrawn(c, SetXY(d, 0, 0))
  <2> HIDE DEF c, d
  <2>1. 0 \in Nat
    OBVIOUS
  <2> QED
    BY <1>2, <2>1, SetXYRedraws, RedrawnTwice
<1>4. AllRedrawn(D, s, cleared)
  <2> HIDE DEF d
  <2> QED
    BY <1>3, OneRedrawn
<1>5. Clear(s, id, cur, bar) = Flush(cleared, id, cur, bar)
  BY DEF Clear
<1> HIDE DEF cleared
<1>6. AllRedrawn(D, cleared, Flush(cleared, id, cur, bar))
  BY <1>4, FlushRedraws DEF AllRedrawn
<1> QED
  BY <1>4, <1>5, <1>6, AllRedrawnTwice

LEMMA ShowCodeRedraws ==
  ASSUME NEW D, NEW s \in Videos(D), Construct \in D, NEW make
  PROVE  AllRedrawn(D, s, ShowCode(s, make))
<1> DEFINE c == s.con[Construct]
           mark == IF make THEN "m" ELSE "b"
           d == Plot(c, CodeColumn, 0, mark)
           e == Plot(d, CloseColumn, 0, "]")
<1>1. c \in Rec /\ mark \in Shown /\ "]" \in Shown
  BY DEF Videos, Shown
<1>2. CodeColumn \in 0 .. PosSize - 1 /\ CloseColumn \in 0 .. PosSize - 1 /\ 0 \in 0 .. Height
  BY Sizes DEF CodeColumn, CloseColumn
<1> HIDE DEF c, mark
<1>3. Redrawn(c, d) /\ d \in Rec
  BY <1>1, <1>2, PlotRedraws DEF Redrawn
<1> HIDE DEF d
<1>4. Redrawn(d, e)
  BY <1>1, <1>2, <1>3, PlotRedraws
<1> HIDE DEF e
<1>5. Redrawn(c, e)
  BY <1>3, <1>4, RedrawnTwice
<1>6. ShowCode(s, make) = [s EXCEPT !.con[Construct] = e]
  BY DEF ShowCode, e, d, c, mark
<1> QED
  BY <1>5, <1>6, OneRedrawn DEF c

LEMMA ShowFlagsRedraws ==
  ASSUME NEW D, NEW s \in Videos(D), Construct \in D, NEW f, NEW cur
  PROVE  AllRedrawn(D, s, ShowFlags(s, f, cur))
<1> DEFINE c == s.con[Construct]
           mark == IF f.ctrl THEN "C" ELSE "_"
           d == Plot(c, FlagColumn, 0, mark)
           shown == [s EXCEPT !.con[Construct] = d]
<1>1. c \in Rec /\ mark \in Shown
  BY DEF Videos, Shown
<1>2. FlagColumn \in 0 .. PosSize - 1 /\ 0 \in 0 .. Height
  BY Sizes DEF FlagColumn
<1>3. Redrawn(c, d)
  <2> HIDE DEF c, mark
  <2> QED
    BY <1>1, <1>2, PlotRedraws
<1>4. AllRedrawn(D, s, shown)
  <2> HIDE DEF d
  <2> QED
    BY <1>3, OneRedrawn
<1>5. ShowFlags(s, f, cur) = Flush(shown, Construct, cur, Blank)
  BY DEF ShowFlags
<1> HIDE DEF shown
<1>6. AllRedrawn(D, shown, Flush(shown, Construct, cur, Blank))
  BY <1>4, FlushRedraws DEF AllRedrawn, Bars
<1> QED
  BY <1>4, <1>5, <1>6, AllRedrawnTwice

----------------------------------------------------------------------------
(* Every step keeps the list and what is drawn *)

\* What is shown or chosen was created, and is there for good.
PictureInv ==
  /\ con \in [DOMAIN con -> Rec] /\ screen \in [Cells -> Pixels]
  /\ current \in DOMAIN con /\ chosen \in DOMAIN con \cup {NoConsole}
  /\ halted \in BOOLEAN

LEMMA VideoIs ==
  ASSUME ListInv, PictureInv
  PROVE  Video \in Videos(DOMAIN con) /\ Construct \in DOMAIN con
BY DEF ListInv, LinkInv, PictureInv, Video, Videos

\* What only draws keeps the list.
LEMMA DrawsKeep ==
  ASSUME ListInv, PictureInv, NEW t, AllRedrawn(DOMAIN con, Video, t), Draws(t),
         alive' = alive, twice' = twice, chosen' \in DOMAIN con \cup {NoConsole},
         current' \in DOMAIN con, halted' \in BOOLEAN
  PROVE  ListInv' /\ PictureInv'
<1>1. /\ con' \in [DOMAIN con -> Rec] /\ screen' \in [Cells -> Pixels]
      /\ \A id \in DOMAIN con : Redrawn(con[id], con'[id])
  BY DEF AllRedrawn, Draws, Video, Videos
<1>2. /\ DOMAIN con' = DOMAIN con
      /\ \A id \in DOMAIN con : con'[id].next = con[id].next /\ con'[id].prev = con[id].prev
  BY <1>1 DEF Redrawn
<1>3. PictureInv'
  BY <1>1, <1>2 DEF PictureInv
<1>4. LinkInv'
  BY <1>2 DEF ListInv, LinkInv
<1>5. ASSUME ~ twice PROVE RingInv'
  <2>1. RingInv
    BY <1>5 DEF ListInv
  <2>2. ASSUME NEW id \in alive PROVE NextAlive(id)' /\ PrevAlive(id)'
    <3>1. NextAlive(id) /\ PrevAlive(id) /\ id \in DOMAIN con
      BY <2>1 DEF RingInv, LinkInv
    <3> QED
      BY <1>2, <3>1 DEF NextAlive, PrevAlive
  <2> QED
    BY <1>4, <2>1, <2>2 DEF RingInv
<1> QED
  BY <1>3, <1>4, <1>5 DEF ListInv

LEMMA CurrentBarIs ==
  ASSUME SwitchInv, ListInv, PictureInv
  PROVE  CurrentBar \in Bars
BY DEF SwitchInv, PictureInv, ListInv, LinkInv, CurrentBar, BarOf, Bars

LEMMA NextConsoleIs ==
  ASSUME ListInv, NEW id \in DOMAIN con
  PROVE  NextConsole(con, id) \in DOMAIN con
BY DEF ListInv, LinkInv, NextConsole

\* The keys.
LEMMA KeysKeep ==
  ASSUME SwitchInv, ListInv, PictureInv, NEW key, NEW make,
         \/ SwitchFini(key) \/ SwitchRun(key)
         \/ WhileChoosing(key, make) \/ MakeKey(key) \/ BreakKey(key)
  PROVE  ListInv' /\ PictureInv'
<1> DEFINE D == DOMAIN con
           coded(m) == ShowCode(Video, m)
<1>1. /\ Video \in Videos(D) /\ Construct \in D
      /\ Blank \in Bars /\ D \subseteq Consoles
  BY VideoIs DEF Bars, ListInv, LinkInv
<1>2. \A m : AllRedrawn(D, Video, coded(m)) /\ coded(m) \in Videos(D)
  BY <1>1, ShowCodeRedraws DEF AllRedrawn
<1> HIDE DEF coded, D
<1>3. \A m : Draws(coded(m)) => AllRedrawn(D, Video, coded(m))
  BY <1>2
<1>4. \A m, f, cur : AllRedrawn(D, Video, ShowFlags(coded(m), f, cur))
  BY <1>1, <1>2, ShowFlagsRedraws, AllRedrawnTwice
<1>5. CASE SwitchFini(key)
  <2> DEFINE s == SwitchConsole(coded(FALSE), chosen, Blank)
  <2>1. chosen \in D
    BY <1>5 DEF SwitchFini, EndsSwitch, PictureInv, D
  <2>2. AllRedrawn(D, Video, s) /\ s \in Videos(D)
    <3>1. AllRedrawn(D, coded(FALSE), s)
      BY <1>1, <1>2, <2>1, SwitchConsoleRedraws
    <3> HIDE DEF s
    <3>2. AllRedrawn(D, Video, s)
      BY <1>2, <3>1, AllRedrawnTwice
    <3> QED
      BY <3>2 DEF AllRedrawn
  <2>3. /\ Draws(ShowFlags(s, flag', chosen)) /\ alive' = alive
        /\ twice' = twice /\ halted' = halted
        /\ current' = chosen /\ chosen' = chosen
    BY <1>5 DEF SwitchFini, Press, coded
  <2> HIDE DEF s
  <2>4. AllRedrawn(D, Video, ShowFlags(s, flag', chosen))
    BY <1>1, <2>2, ShowFlagsRedraws, AllRedrawnTwice
  <2>5. halted' \in BOOLEAN /\ current' \in D /\ chosen' \in D \cup {NoConsole}
    BY <2>1, <2>3 DEF PictureInv
  <2> QED
    BY <2>3, <2>4, <2>5, DrawsKeep DEF D
<1>6. CASE SwitchRun(key)
  <2> DEFINE t == UpdateScreen(coded(TRUE), current, Bar[chosen'])
  <2>1. /\ chosen' = NextConsole(con, IF choosing THEN chosen ELSE current)
        /\ Draws(t) /\ alive' = alive
        /\ twice' = twice /\ halted' = halted /\ current' = current
    BY <1>6 DEF SwitchRun, Press, coded
  <2>2. current \in D /\ chosen' \in D /\ Bar[chosen'] \in Bars
    <3>1. current \in D /\ (choosing => chosen \in D) /\ choosing \in BOOLEAN
      BY DEF PictureInv, SwitchInv, D
    <3>2. chosen' \in D
      BY <2>1, <3>1, NextConsoleIs DEF D
    <3> QED
      BY <1>1, <3>1, <3>2 DEF Bars
  <2>3. AllRedrawn(D, coded(TRUE), t)
    BY <1>2, <2>2, UpdateScreenRedraws
  <2> HIDE DEF t
  <2>5. AllRedrawn(D, Video, t)
    BY <1>2, <2>3, AllRedrawnTwice
  <2>4. halted' \in BOOLEAN
    BY <2>1 DEF PictureInv
  <2> QED
    BY <2>1, <2>2, <2>4, <2>5, DrawsKeep DEF D
<1>7. CASE WhileChoosing(key, make) \/ MakeKey(key) \/ BreakKey(key)
  <2>1. /\ alive' = alive
        /\ twice' = twice /\ halted' = halted /\ current' = current /\ chosen' = chosen
        /\ \E m : Draws(coded(m)) \/ Draws(ShowFlags(coded(m), flag', current))
    BY <1>7 DEF WhileChoosing, MakeKey, BreakKey, Press, switchVars, coded
  <2>2. PICK t : Draws(t) /\ AllRedrawn(D, Video, t)
    BY <1>2, <1>4, <2>1
  <2>3. halted' \in BOOLEAN /\ current' \in D /\ chosen' \in D \cup {NoConsole}
    BY <2>1 DEF PictureInv, D
  <2> QED
    BY <2>1, <2>2, <2>3, DrawsKeep DEF D
<1> QED
  BY <1>5, <1>6, <1>7

\* The calls that draw.
LEMMA WriteKeeps ==
  ASSUME SwitchInv, ListInv, PictureInv, NEW id \in DOMAIN con, NEW char \in Chars,
         NEW flush, Write(id, char, flush)
  PROVE  ListInv' /\ PictureInv'
<1> DEFINE D == DOMAIN con
           d == Putch(con[id], char)
           s == [Video EXCEPT !.con[id] = d]
<1>1. Video \in Videos(D) /\ CurrentBar \in Bars /\ con[id] \in Rec /\ Video.con = con
  BY VideoIs, CurrentBarIs DEF PictureInv, Video
<1>2. Redrawn(con[id], d)
  BY <1>1, PutchRedraws DEF Shown
<1>3. s = [Video EXCEPT !.con[id] = Putch(@, char)]
  BY <1>1
<1> HIDE DEF d
<1>4. AllRedrawn(D, Video, s)
  BY <1>1, <1>2, OneRedrawn
<1>5. /\ Draws(IF flush THEN Flush(s, id, current, CurrentBar) ELSE s)
      /\ alive' = alive
      /\ twice' = twice /\ halted' = halted /\ current' = current /\ chosen' = chosen
  BY <1>3 DEF Write, CallKeepsList, switchVars
<1> HIDE DEF s
<1>6. AllRedrawn(D, Video, Flush(s, id, current, CurrentBar))
  <2>1. AllRedrawn(D, s, Flush(s, id, current, CurrentBar))
    BY <1>1, <1>4, FlushRedraws DEF AllRedrawn
  <2> QED
    BY <1>4, <2>1, AllRedrawnTwice
<1>7. halted' \in BOOLEAN /\ current' \in D /\ chosen' \in D \cup {NoConsole}
  BY <1>5 DEF PictureInv
<1>8. PICK t : Draws(t) /\ AllRedrawn(D, Video, t)
  BY <1>4, <1>5, <1>6
<1> QED
  BY <1>5, <1>7, <1>8, DrawsKeep

LEMMA SetCursorKeeps ==
  ASSUME ListInv, PictureInv, NEW id \in DOMAIN con, NEW at \in Positions,
         SetCursor(id, at[1], at[2])
  PROVE  ListInv' /\ PictureInv'
<1> DEFINE D == DOMAIN con
           d == SetXY(con[id], at[1], at[2])
           s == [Video EXCEPT !.con[id] = d]
<1>1. Video \in Videos(D) /\ con[id] \in Rec /\ Video.con = con /\ Video.screen = screen
  BY VideoIs DEF PictureInv, Video
<1>2. Redrawn(con[id], d)
  <2>1. at[1] \in Nat /\ at[2] \in Nat
    BY KeyboardAssumption, Sizes
  <2> QED
    BY <1>1, <2>1, SetXYRedraws
<1>3. /\ con' = [con EXCEPT ![id] = d] /\ screen' = screen
      /\ alive' = alive
      /\ twice' = twice /\ halted' = halted /\ current' = current /\ chosen' = chosen
  BY DEF SetCursor, CallKeepsList, switchVars
<1> HIDE DEF d
<1>4. AllRedrawn(D, Video, s)
  BY <1>1, <1>2, OneRedrawn
<1>5. s.con = [con EXCEPT ![id] = d] /\ s.screen = screen
  BY <1>1 DEF Video
<1>6. Draws(s)
  BY <1>3, <1>5 DEF Draws
<1> HIDE DEF s
<1>7. halted' \in BOOLEAN /\ current' \in D /\ chosen' \in D \cup {NoConsole}
  BY <1>3 DEF PictureInv
<1> QED
  BY <1>3, <1>4, <1>6, <1>7, DrawsKeep

LEMMA ShowScreenKeeps ==
  ASSUME SwitchInv, ListInv, PictureInv, NEW id \in DOMAIN con, ShowScreen(id)
  PROVE  ListInv' /\ PictureInv'
<1> DEFINE t == Flush(Video, id, current, CurrentBar)
<1>1. AllRedrawn(DOMAIN con, Video, t)
  BY VideoIs, CurrentBarIs, FlushRedraws
<1>2. /\ Draws(t) /\ alive' = alive /\ twice' = twice /\ halted' = halted
      /\ current' = current /\ chosen' = chosen
  BY DEF ShowScreen, CallKeepsList, switchVars
<1>3. halted' \in BOOLEAN /\ current' \in DOMAIN con /\ chosen' \in DOMAIN con \cup {NoConsole}
  BY <1>2 DEF PictureInv
<1> HIDE DEF t
<1> QED
  BY <1>1, <1>2, <1>3, DrawsKeep

LEMMA ClearScreenKeeps ==
  ASSUME SwitchInv, ListInv, PictureInv, NEW id \in DOMAIN con, ClearScreen(id)
  PROVE  ListInv' /\ PictureInv'
<1>1. Video \in Videos(DOMAIN con) /\ CurrentBar \in Bars
  BY VideoIs, CurrentBarIs
<1>2. AllRedrawn(DOMAIN con, Video, Clear(Video, id, current, CurrentBar))
  BY <1>1, ClearRedraws
<1>3. /\ Draws(Clear(Video, id, current, CurrentBar))
      /\ alive' = alive
      /\ twice' = twice /\ halted' = halted /\ current' = current /\ chosen' = chosen
  BY DEF ClearScreen, CallKeepsList, switchVars
<1>4. halted' \in BOOLEAN /\ current' \in DOMAIN con /\ chosen' \in DOMAIN con \cup {NoConsole}
  BY <1>3 DEF PictureInv
<1> QED
  BY <1>2, <1>3, <1>4, DrawsKeep

LEMMA PanicKeeps ==
  ASSUME SwitchInv, ListInv, PictureInv, Panic
  PROVE  ListInv' /\ PictureInv'
<1> DEFINE D == DOMAIN con
           printed(s) == [s EXCEPT !.con[Construct] = Putch(Putch(@, "newline"), "p")]
           print(s) == Flush(printed(s), Construct, Construct, CurrentBar)
           show(s) == print(SwitchConsole(s, Construct, CurrentBar))
<1>1. /\ Video \in Videos(D) /\ CurrentBar \in Bars /\ Construct \in D
  BY VideoIs, CurrentBarIs
<1>2. ASSUME NEW s \in Videos(D) PROVE AllRedrawn(D, s, show(s))
  <2> DEFINE w == SwitchConsole(s, Construct, CurrentBar)
             c == w.con[Construct]
  <2>1. AllRedrawn(D, s, w) /\ w \in Videos(D)
    <3>1. AllRedrawn(D, s, w)
      BY <1>1, SwitchConsoleRedraws
    <3> QED
      BY <3>1 DEF AllRedrawn
  <2>2. c \in Rec /\ "p" \in Shown
    BY <1>1, <2>1 DEF Videos, Shown
  <2> HIDE DEF w
  <2>3. AllRedrawn(D, w, printed(w)) /\ printed(w) \in Videos(D)
    <3> DEFINE e == Putch(Putch(c, "newline"), "p")
    <3>1. Redrawn(c, Putch(c, "newline"))
      BY <2>2, PutchRedraws
    <3>2. Redrawn(c, e)
      BY <2>2, <3>1, PutchRedraws, RedrawnTwice DEF Redrawn
    <3>3. printed(w) = [w EXCEPT !.con[Construct] = e]
      OBVIOUS
    <3> HIDE DEF e
    <3>4. AllRedrawn(D, w, printed(w))
      BY <1>1, <2>1, <3>2, <3>3, OneRedrawn
    <3> QED
      BY <3>4 DEF AllRedrawn
  <2>4. AllRedrawn(D, printed(w), print(w))
    BY <1>1, <2>3, FlushRedraws
  <2> HIDE DEF printed
  <2>5. show(s) = print(w)
    BY DEF w
  <2> HIDE DEF show, print
  <2> QED
    BY <2>1, <2>3, <2>4, <2>5, AllRedrawnTwice
<1>3. /\ Draws(show(show(Video))) /\ halted' = TRUE
      /\ alive' = alive /\ twice' = twice /\ current' = Construct /\ chosen' = chosen
  BY DEF Panic
<1> HIDE DEF show
<1>4. AllRedrawn(D, Video, show(Video)) /\ show(Video) \in Videos(D)
  <2>1. AllRedrawn(D, Video, show(Video))
    BY <1>1, <1>2
  <2> QED
    BY <2>1 DEF AllRedrawn
<1>5. AllRedrawn(D, Video, show(show(Video)))
  BY <1>2, <1>4, AllRedrawnTwice
<1>6. halted' \in BOOLEAN /\ current' \in D /\ chosen' \in D \cup {NoConsole}
  BY <1>1, <1>3 DEF PictureInv
<1> QED
  BY <1>3, <1>5, <1>6, DrawsKeep

\* The list has an end, also when consoles of it were lost.
LEMMA LastIs ==
  ASSUME ListInv
  PROVE  LET last == LastConsole(con)
         IN  /\ last \in Walk(con, Construct) /\ last \in DOMAIN con
             /\ con[last].next = NoConsole
<1> DEFINE K == MaxConsoles
           D == DOMAIN con \cup {NoConsole}
           Step(f) == [n \in 0 .. K |->
                         IF n = 0 THEN Construct
                         ELSE IF f[n - 1] = NoConsole THEN NoConsole
                              ELSE con[f[n - 1]].next]
           at == CHOOSE f : f = Step(f)
           g == [x \in D |-> IF x = NoConsole THEN NoConsole ELSE con[x].next]
<1>1. /\ K \in Nat /\ Construct \in DOMAIN con /\ NoConsole \notin DOMAIN con
      /\ \A x \in DOMAIN con : /\ con[x].next \in D /\ x \in Nat /\ x < K
                               /\ con[x].next # NoConsole => x < con[x].next
  BY ConsoleNumbers DEF ListInv, LinkInv
<1>2. Walk(con, Construct) = {at[n] : n \in 0 .. K} \ {NoConsole}
  BY DEF Walk
<1>3. PICK h : IsRun(h, D, g, Construct, K)
  <2>1. g \in [D -> D] /\ Construct \in D /\ K \in Nat
    BY <1>1
  <2> HIDE DEF g, D, K
  <2> QED
    BY <2>1, Iterate
<1>4. h = Step(h)
  <2> SUFFICES ASSUME NEW n \in 0 .. K PROVE h[n] = Step(h)[n]
    BY <1>3 DEF IsRun
  <2>1. CASE n = 0
    BY <1>3, <2>1 DEF IsRun
  <2>2. CASE n # 0
    <3>1. n \in 1 .. K /\ n - 1 \in 0 .. K
      BY <1>1, <2>2
    <3>2. h[n] = g[h[n - 1]] /\ h[n - 1] \in D
      BY <1>3, <3>1 DEF IsRun
    <3> QED
      BY <2>2, <3>2
  <2> QED
    BY <2>1, <2>2
<1>5. at = Step(at)
  <2> HIDE DEF Step
  <2> QED
    BY <1>4
<1> HIDE DEF at
<1>6. /\ at[0] = Construct
      /\ \A k \in 0 .. K - 1 :
           at[k + 1] = IF at[k] = NoConsole THEN NoConsole ELSE con[at[k]].next
  <2>1. 0 \in 0 .. K /\ \A k \in 0 .. K - 1 : /\ k + 1 \in 0 .. K /\ (k + 1) - 1 = k
                                              /\ k + 1 # 0
    BY <1>1
  <2>2. \A n \in 0 .. K : at[n] = Step(at)[n]
    BY <1>5
  <2> HIDE DEF K
  <2> QED
    BY <2>1, <2>2
<1> HIDE DEF K, Step, g
<1>7. \A n \in 0 .. K : at[n] \in D
  <2>1. at[0] \in D /\ \A k \in 0 .. K - 1 : at[k] \in D => at[k + 1] \in D
    BY <1>1, <1>6
  <2>2. 0 \in Nat
    OBVIOUS
  <2> HIDE DEF D
  <2> QED
    BY <1>1, <2>1, <2>2, Stays
<1>8. \E n \in 0 .. K : at[n] # NoConsole /\ con[at[n]].next = NoConsole
  <2> SUFFICES ASSUME \A n \in 0 .. K : at[n] # NoConsole => con[at[n]].next # NoConsole
               PROVE  FALSE
    OBVIOUS
  <2> DEFINE G == {m \in Nat \X DOMAIN con : m[1] <= m[2]}
             w == [k \in 0 .. K |-> <<k, at[k]>>]
  <2>1. w[0] \in G
    BY <1>1, <1>6
  <2>2. ASSUME NEW k \in 0 .. K - 1, w[k] \in G PROVE w[k + 1] \in G
    <3>1. /\ k \in 0 .. K /\ k + 1 \in 0 .. K
          /\ w[k] = <<k, at[k]>> /\ w[k + 1] = <<k + 1, at[k + 1]>>
      BY <1>1
    <3>2. at[k] \in DOMAIN con /\ k <= at[k]
      BY <2>2, <3>1
    <3>3. at[k + 1] = con[at[k]].next /\ con[at[k]].next # NoConsole
      BY <1>1, <1>6, <3>1, <3>2
    <3>4. at[k + 1] \in DOMAIN con /\ at[k] < at[k + 1]
      BY <1>1, <3>2, <3>3
    <3>5. at[k] \in Nat /\ at[k + 1] \in Nat /\ k + 1 <= at[k + 1] /\ k + 1 \in Nat
      BY <1>1, <3>2, <3>4
    <3> QED
      BY <3>1, <3>4, <3>5
  <2>3. w[K] \in G
    <3>1. 0 \in Nat /\ K \in 0 .. K
      BY <1>1
    <3> HIDE DEF G, w
    <3>2. \A k \in 0 .. K : w[k] \in G
      BY <1>1, <2>1, <2>2, <3>1, Stays
    <3> QED
      BY <3>1, <3>2
  <2>4. at[K] \in DOMAIN con /\ K <= at[K]
    BY <1>1, <2>3
  <2> QED
    BY <1>1, <2>4
<1>9. Walk(con, Construct) \subseteq DOMAIN con
  BY <1>2, <1>7
<1>10. \E id \in Walk(con, Construct) : con[id].next = NoConsole
  BY <1>2, <1>8
<1> QED
  BY <1>9, <1>10 DEF LastConsole

\* A console is created: it is the youngest, and comes behind the last of the list.
LEMMA CreateConsoleKeeps ==
  ASSUME SwitchInv, ListInv, PictureInv, CreateConsole
  PROVE  ListInv' /\ PictureInv'
<1>1. PICK new : new = Cardinality(DOMAIN con)
  OBVIOUS
<1>2. PICK mode \in FlushModes : con' = Link(con, new, NewConsole(mode))
  BY <1>1 DEF CreateConsole
<1>3. /\ alive' = alive \cup {new} /\ screen' = screen /\ halted' = halted
      /\ current' = current /\ chosen' = chosen /\ new < MaxConsoles /\ twice' = twice
  BY <1>1 DEF CreateConsole, switchVars
<1>4. /\ new \in Nat /\ DOMAIN con = 0 .. new - 1 /\ new \notin DOMAIN con
      /\ new \in Consoles /\ new # NoConsole
      /\ \A id \in DOMAIN con : id \in Nat /\ id < new /\ id # NoConsole
  <2>1. new \in Nat /\ DOMAIN con = 0 .. new - 1
    BY <1>1 DEF ListInv, LinkInv
  <2>2. new \in Consoles
    BY <1>3, <2>1, ConsoleNumbers DEF Consoles
  <2> QED
    BY <2>1, <2>2, ConsoleNumbers DEF NoConsole
<1>5. PICK last \in DOMAIN con : /\ last = LastConsole(con) /\ con[last].next = NoConsole
                                  /\ last \in Walk(con, Construct)
  BY LastIs
<1>6. last \in Nat /\ last < new
  BY <1>4
<1> DEFINE c == NewConsole(mode)
           first == [c EXCEPT !.prev = last]
           linked == [con[last] EXCEPT !.next = new]
<1>7. con' = [id \in DOMAIN con \cup {new} |->
               CASE id = new -> first [] id = last -> linked [] OTHER -> con[id]]
  BY <1>2, <1>5 DEF Link
<1>8. first \in Rec /\ first.prev = last /\ first.next = NoConsole
  <2>1. c \in Rec
    <3>1. [k \in Cells |-> Blank] \in [Cells -> Shown]
      BY DEF Shown
    <3>2. 0 \in 0 .. PosSize - 1 /\ 0 \in 0 .. Height - 1 /\ 0 \in 0 .. Height
      BY Sizes
    <3> QED
      BY <3>1, <3>2 DEF NewConsole, Rec
  <2>2. c.next = NoConsole /\ last \in Consoles
    BY <1>5 DEF NewConsole, ListInv, LinkInv
  <2> HIDE DEF c
  <2> QED
    BY <2>1, <2>2 DEF Rec
<1>9. linked \in Rec /\ linked.next = new /\ linked.prev = con[last].prev
  <2>1. con[last] \in Rec
    BY DEF PictureInv
  <2> QED
    BY <1>4, <2>1 DEF Rec
<1> HIDE DEF c, first, linked
<1>10. /\ DOMAIN con' = DOMAIN con \cup {new}
       /\ con'[new] = first /\ con'[last] = linked
       /\ \A id \in DOMAIN con : id # last => con'[id] = con[id]
  BY <1>4, <1>6, <1>7
<1>11. \A id \in DOMAIN con' : con'[id] \in Rec
  BY <1>8, <1>9, <1>10 DEF PictureInv
<1>12. PictureInv'
  <2>1. con' \in [DOMAIN con' -> Rec]
    BY <1>7, <1>10, <1>11
  <2> QED
    BY <1>3, <1>10, <2>1 DEF PictureInv
<1>13. /\ con'[new].next = NoConsole /\ con'[new].prev = last
       /\ con'[last].next = new /\ con'[last].prev = con[last].prev
       /\ \A id \in DOMAIN con : id # last =>
            con'[id].next = con[id].next /\ con'[id].prev = con[id].prev
  BY <1>8, <1>9, <1>10
<1>14. DOMAIN con' = 0 .. new /\ Cardinality(DOMAIN con') = new + 1
  <2>1. DOMAIN con' = 0 .. new
    BY <1>4, <1>10
  <2>2. 0 \in Int /\ new \in Int
    BY <1>4
  <2>3. Cardinality(0 .. new) = IF 0 > new THEN 0 ELSE new - 0 + 1
    BY <2>2, FS_Interval, Zenon
  <2> QED
    BY <1>4, <2>1, <2>3
<1>15. LinkInv'
  <2>1. /\ Cardinality(DOMAIN con') \in Nat
        /\ DOMAIN con' = 0 .. Cardinality(DOMAIN con') - 1
    BY <1>4, <1>14
  <2>2. /\ DOMAIN con' \subseteq Consoles /\ Construct \in DOMAIN con'
        /\ alive' \subseteq DOMAIN con' /\ twice' \in BOOLEAN
    BY <1>3, <1>4, <1>10 DEF ListInv, LinkInv
  <2>3. ASSUME NEW id \in DOMAIN con'
        PROVE  /\ con'[id].next # NoConsole =>
                     con'[id].next \in DOMAIN con' /\ id < con'[id].next
               /\ con'[id].prev # NoConsole =>
                     con'[id].prev \in DOMAIN con' /\ con'[id].prev < id
               /\ id # Construct => con'[id].prev # NoConsole
    <3>1. CASE id = new
      BY <1>4, <1>6, <1>10, <1>13, <3>1
    <3>2. CASE id # new
      <4>1. id \in DOMAIN con
        BY <1>10, <3>2
      <4> QED
        BY <1>4, <1>6, <1>10, <1>13, <4>1 DEF ListInv, LinkInv
    <3> QED
      BY <3>1, <3>2
  <2> QED
    BY <2>1, <2>2, <2>3 DEF LinkInv
<1>16. ASSUME ~ twice PROVE RingInv'
  <2> USE <1>16
  <2>1. /\ RingInv /\ alive \subseteq DOMAIN con /\ alive' = alive \cup {new}
        /\ last \in alive
    BY <1>3, <1>5, WalkIsAlive DEF ListInv, LinkInv
  <2>2. \A y \in alive : y <= last
    <3>1. NextAlive(last)
      BY <2>1 DEF RingInv
    <3> QED
      BY <1>4, <1>5, <2>1, <3>1 DEF NextAlive
  <2>3. ASSUME NEW id \in alive' PROVE NextAlive(id)' /\ PrevAlive(id)'
    <3>1. CASE id = new
      BY <1>4, <1>6, <1>13, <2>1, <2>2, <3>1 DEF NextAlive, PrevAlive
    <3>2. CASE id = last
      <4>1. PrevAlive(last)
        BY <2>1 DEF RingInv
      <4> QED
        BY <1>4, <1>6, <1>13, <2>1, <2>2, <3>2, <4>1 DEF NextAlive, PrevAlive
    <3>3. CASE id # new /\ id # last
      <4>1. id \in alive /\ NextAlive(id) /\ PrevAlive(id) /\ id < last
        BY <1>4, <1>6, <2>1, <2>2, <3>3 DEF RingInv
      <4>2. con[id].next # NoConsole /\ con[id].next <= last /\ con[id].next \in alive
        BY <2>1, <4>1 DEF NextAlive
      <4>3. con[id].next \in Nat /\ id \in DOMAIN con /\ id \in Nat
        BY <1>4, <2>1, <4>1, <4>2
      <4> QED
        BY <1>4, <1>6, <1>13, <2>1, <2>2, <3>3, <4>1, <4>2, <4>3 DEF NextAlive, PrevAlive
    <3> QED
      BY <3>1, <3>2, <3>3
  <2> QED
    BY <1>15, <2>1, <2>3 DEF RingInv
<1> QED
  BY <1>3, <1>12, <1>15, <1>16 DEF ListInv

\* A console is destroyed: the neighbours it has, or had, are linked, and it keeps
\* its own links.
LEMMA DestroyConsoleKeeps ==
  ASSUME SwitchInv, ListInv, PictureInv, NEW id \in DOMAIN con, DestroyConsole(id)
  PROVE  ListInv' /\ PictureInv'
<1> DEFINE p == con[id].prev
           n == con[id].next
           D == DOMAIN con
           d == Putch(con[Construct], "p")
           s == [Video EXCEPT !.con[Construct] = d]
           t == Flush(s, Construct, current, CurrentBar)
<1>1. /\ id # Construct /\ alive' = alive \ {id} /\ twice' = (twice \/ id \notin alive)
      /\ con' = Unlink(t.con, id) /\ screen' = t.screen
      /\ halted' = halted /\ current' = current /\ chosen' = chosen
  <2>1. s = [Video EXCEPT !.con[Construct] = Putch(@, "p")]
    BY DEF Video
  <2> QED
    BY <2>1 DEF DestroyConsole, switchVars
<1>2. /\ \A k \in D : k \in Nat /\ k \in Consoles /\ k # NoConsole
      /\ alive \subseteq D /\ Construct \in D /\ twice \in BOOLEAN
  BY ConsoleNumbers DEF ListInv, LinkInv
<1>3. /\ t.con \in [D -> Rec] /\ t.screen \in [Cells -> Pixels]
      /\ \A k \in D : t.con[k].next = con[k].next /\ t.con[k].prev = con[k].prev
  <2>1. Video \in Videos(D) /\ CurrentBar \in Bars /\ con[Construct] \in Rec /\ Video.con = con
    BY <1>2, VideoIs, CurrentBarIs DEF PictureInv, Video
  <2>2. Redrawn(con[Construct], d)
    BY <2>1, PutchRedraws DEF Shown
  <2> HIDE DEF d
  <2>3. AllRedrawn(D, Video, s)
    BY <1>2, <2>1, <2>2, OneRedrawn
  <2> HIDE DEF s
  <2>4. AllRedrawn(D, s, t)
    BY <1>2, <2>1, <2>3, FlushRedraws DEF AllRedrawn
  <2> HIDE DEF t
  <2>5. AllRedrawn(D, Video, t)
    BY <2>3, <2>4, AllRedrawnTwice
  <2> QED
    BY <2>1, <2>5 DEF AllRedrawn, Redrawn, Videos
<1> HIDE DEF t
<1> DEFINE c == t.con
<1>4. /\ p \in D /\ p < id /\ p # NoConsole
      /\ n # NoConsole => n \in D /\ id < n
  BY <1>1, <1>2 DEF ListInv, LinkInv
<1>5. /\ p \in Nat /\ id \in Nat /\ (n # NoConsole => n \in Nat) /\ p # n
      /\ n # NoConsole => p < n
  BY <1>2, <1>4
<1> DEFINE before == [c[p] EXCEPT !.next = n]
           behind == [c[n] EXCEPT !.prev = p]
<1>6. con' = [k \in D |-> CASE k = p -> before [] k = n -> behind [] OTHER -> c[k]]
  <2>1. c[id].prev = p /\ c[id].next = n /\ DOMAIN c = D
    BY <1>3
  <2> QED
    BY <1>1, <2>1 DEF Unlink
<1>7. before \in Rec /\ before.next = n /\ before.prev = con[p].prev
  <2>1. c[p] \in Rec /\ c[p].prev = con[p].prev /\ n \in Consoles \cup {NoConsole}
    BY <1>2, <1>3, <1>4
  <2> HIDE DEF n, p, c
  <2> QED
    BY <2>1 DEF Rec
<1>8. n # NoConsole => behind \in Rec /\ behind.prev = p /\ behind.next = con[n].next
  <2>1. n # NoConsole => c[n] \in Rec /\ c[n].next = con[n].next
    BY <1>3, <1>4
  <2>2. p \in Consoles
    BY <1>2, <1>4
  <2> HIDE DEF n, p, c
  <2> QED
    BY <2>1, <2>2 DEF Rec
<1> HIDE DEF n, p, before, behind, c
<1>9. /\ DOMAIN con' = D
      /\ con'[p] = before
      /\ n # NoConsole => con'[n] = behind
      /\ \A k \in D : k # p /\ k # n => con'[k] = c[k]
  BY <1>2, <1>4, <1>5, <1>6
<1>10. /\ con'[p].next = n /\ con'[p].prev = con[p].prev
       /\ n # NoConsole => con'[n].prev = p /\ con'[n].next = con[n].next
       /\ \A k \in D : k # p /\ k # n =>
            con'[k].next = con[k].next /\ con'[k].prev = con[k].prev
  BY <1>3, <1>7, <1>8, <1>9 DEF c
<1>11. PictureInv'
  <2>1. \A k \in DOMAIN con' : con'[k] \in Rec
    BY <1>2, <1>3, <1>7, <1>8, <1>9 DEF c
  <2>2. con' \in [DOMAIN con' -> Rec]
    BY <1>6, <1>9, <2>1
  <2> QED
    BY <1>1, <1>3, <1>9, <2>2 DEF PictureInv
<1>12. LinkInv'
  <2>1. ASSUME NEW k \in D
        PROVE  /\ con'[k].next # NoConsole => con'[k].next \in D /\ k < con'[k].next
               /\ con'[k].prev # NoConsole => con'[k].prev \in D /\ con'[k].prev < k
               /\ k # Construct => con'[k].prev # NoConsole
    <3>1. /\ con[k].next # NoConsole => con[k].next \in D /\ k < con[k].next
          /\ con[k].prev # NoConsole => con[k].prev \in D /\ con[k].prev < k
          /\ k # Construct => con[k].prev # NoConsole
      BY DEF ListInv, LinkInv
    <3>2. CASE k = p
      BY <1>4, <1>5, <1>10, <3>1, <3>2
    <3>3. CASE k = n
      BY <1>2, <1>4, <1>5, <1>10, <3>1, <3>3
    <3>4. CASE k # p /\ k # n
      BY <1>10, <3>1, <3>4
    <3> QED
      BY <3>2, <3>3, <3>4
  <2> QED
    BY <1>1, <1>2, <1>9, <2>1 DEF ListInv, LinkInv
<1>13. ASSUME ~ twice' PROVE RingInv'
  <2> USE <1>13
  <2>1. ~ twice /\ id \in alive /\ RingInv /\ Construct \in alive
    BY <1>1, <1>2 DEF ListInv, RingInv
  <2>2. /\ p \in alive
        /\ \A y \in alive : y < id => y <= p
    <3>1. PrevAlive(id)
      BY <2>1 DEF RingInv
    <3> QED
      BY <1>4, <3>1 DEF PrevAlive, p
  <2>3. /\ n \in alive \cup {NoConsole}
        /\ \A y \in alive : id < y => n # NoConsole /\ n <= y
    <3>1. NextAlive(id)
      BY <2>1 DEF RingInv
    <3> QED
      BY <3>1 DEF NextAlive, n
  <2>4. ASSUME NEW k \in alive' PROVE NextAlive(k)' /\ PrevAlive(k)'
    <3>1. /\ k \in alive /\ k # id /\ k \in DOMAIN con /\ k \in Nat
          /\ NextAlive(k) /\ PrevAlive(k)
      BY <1>1, <1>2, <2>1, <2>4 DEF RingInv
    <3>2. NextAlive(k)'
      <4>1. CASE k = p
        <5>1. \A y \in alive' : p < y => id < y
          BY <1>1, <1>2, <1>4, <2>2, <1>5
        <5> QED
          BY <1>1, <1>4, <2>3, <1>5, <1>10, <4>1, <5>1 DEF NextAlive
      <4>2. CASE k # p
        <5>1. con'[k].next = con[k].next
          BY <1>2, <1>10, <3>1, <4>2
        <5>2. con[k].next # id
          <6>1. ASSUME con[k].next = id PROVE FALSE
            <7>1. k < id
              BY <1>1, <1>2, <3>1, <6>1 DEF ListInv, LinkInv
            <7>2. k < p
              BY <1>4, <2>2, <1>5, <3>1, <4>2, <7>1
            <7>3. con[k].next <= p
              BY <1>4, <2>2, <3>1, <7>2 DEF NextAlive
            <7> QED
              BY <1>4, <2>2, <1>5, <6>1, <7>3
          <6> QED
            BY <6>1
        <5> QED
          BY <1>1, <3>1, <5>1, <5>2 DEF NextAlive
      <4> QED
        BY <4>1, <4>2
    <3>3. PrevAlive(k)'
      <4>1. CASE k = n
        <5>1. k # NoConsole /\ id < k
          BY <1>2, <1>4, <2>3, <3>1, <4>1
        <5>2. con'[k].prev = p /\ p \in alive' /\ p < k
          BY <1>1, <1>4, <2>2, <1>5, <1>10, <3>1, <4>1, <5>1
        <5>3. \A y \in alive' : y < k => y <= p
          <6> SUFFICES ASSUME NEW y \in alive', y < k PROVE y <= p
            OBVIOUS
          <6>1. y \in alive /\ y # id /\ y \in Nat
            BY <1>1, <1>2
          <6>2. ~ (id < y)
            BY <1>4, <2>3, <1>5, <3>1, <4>1, <6>1
          <6> QED
            BY <1>4, <2>2, <1>5, <6>1, <6>2
        <5> QED
          BY <1>4, <2>2, <5>2, <5>3 DEF PrevAlive
      <4>2. CASE k # n
        <5>1. con'[k].prev = con[k].prev
          BY <1>10, <3>1, <4>2
        <5>2. con[k].prev # id
          <6>1. ASSUME con[k].prev = id PROVE FALSE
            <7>1. id < k
              BY <1>1, <1>2, <3>1, <6>1 DEF PrevAlive
            <7>2. n # NoConsole /\ n < k /\ n \in alive
              BY <1>4, <2>3, <1>5, <3>1, <4>2, <7>1
            <7>3. n <= con[k].prev
              BY <3>1, <7>2 DEF PrevAlive
            <7> QED
              BY <1>4, <2>3, <1>5, <6>1, <7>2, <7>3
          <6> QED
            BY <6>1
        <5> QED
          BY <1>1, <3>1, <5>1, <5>2 DEF PrevAlive
      <4> QED
        BY <4>1, <4>2
    <3> QED
      BY <3>2, <3>3
  <2> QED
    BY <1>1, <1>12, <2>1, <2>4 DEF RingInv
<1> QED
  BY <1>11, <1>12, <1>13 DEF ListInv

\* The construct is the only console, and has what the boot loader left.
LEMMA InitRing == Init => ListInv /\ PictureInv
<1> SUFFICES ASSUME Init PROVE ListInv /\ PictureInv
  OBVIOUS
<1>1. PICK mode \in FlushModes, at \in Positions :
        LET construct == [SetXY(NewConsole(mode), at[1], at[2]) EXCEPT !.buf = screen]
            fresh == [con |-> [id \in {Construct} |-> construct], screen |-> screen]
        IN con = SwitchConsole(fresh, Construct, Blank).con
  BY DEF Init
<1> DEFINE new == NewConsole(mode)
           placed == SetXY(new, at[1], at[2])
           construct == [placed EXCEPT !.buf = screen]
           fresh == [con |-> [id \in {Construct} |-> construct], screen |-> screen]
           D == {Construct}
           t == SwitchConsole(fresh, Construct, Blank)
<1>2. /\ screen = [k \in Cells |-> "bios"] /\ chosen = NoConsole /\ current = Construct
      /\ halted = FALSE /\ alive = {Construct} /\ twice = FALSE
  BY DEF Init
<1>3. screen \in [Cells -> Shown] /\ screen \in [Cells -> Pixels]
  <2>1. "bios" \in Shown /\ Shown \subseteq Pixels
    BY DEF Shown, Pixels
  <2> QED
    BY <1>2, <2>1
<1>4. new \in Rec /\ new.next = NoConsole /\ new.prev = NoConsole
  <2>1. [k \in Cells |-> Blank] \in [Cells -> Shown]
    BY DEF Shown
  <2>2. 0 \in 0 .. PosSize - 1 /\ 0 \in 0 .. Height - 1 /\ 0 \in 0 .. Height
    BY Sizes
  <2> QED
    BY <2>1, <2>2 DEF NewConsole, Rec
<1>5. Redrawn(new, placed) /\ placed \in Rec
  <2>1. at[1] \in Nat /\ at[2] \in Nat
    BY KeyboardAssumption, Sizes
  <2> HIDE DEF new
  <2> QED
    BY <1>4, <2>1, SetXYRedraws DEF Redrawn
<1>6. construct \in Rec /\ construct.next = NoConsole /\ construct.prev = NoConsole
  <2>1. placed.next = NoConsole /\ placed.prev = NoConsole
    BY <1>4, <1>5 DEF Redrawn
  <2> HIDE DEF placed
  <2> QED
    BY <1>3, <1>5, <2>1 DEF Rec
<1> HIDE DEF construct
<1>7. fresh \in Videos(D) /\ fresh.con[Construct] = construct
  BY <1>3, <1>6 DEF Videos
<1>8. con = t.con
  BY <1>1 DEF construct
<1> HIDE DEF fresh
<1>9. AllRedrawn(D, fresh, t)
  BY <1>7, SwitchConsoleRedraws DEF Bars
<1> HIDE DEF t
<1>10. /\ con \in [D -> Rec] /\ DOMAIN con = {Construct}
       /\ con[Construct].next = NoConsole /\ con[Construct].prev = NoConsole
  BY <1>6, <1>7, <1>8, <1>9 DEF AllRedrawn, Redrawn, Videos
<1>11. PictureInv
  BY <1>2, <1>3, <1>10 DEF PictureInv
<1>12. Cardinality(DOMAIN con) = 1
  BY <1>10, FS_Singleton
<1>13. DOMAIN con = 0 .. 1 - 1 /\ DOMAIN con \subseteq Consoles
  BY <1>10, ConsoleNumbers DEF Construct, Consoles
<1>14. \A id \in alive : NextAlive(id) /\ PrevAlive(id)
  BY <1>2, <1>10 DEF NextAlive, PrevAlive, Construct
<1>15. LinkInv /\ RingInv
  <2>1. LinkInv
    <3>1. /\ Construct \in DOMAIN con /\ alive \subseteq DOMAIN con
          /\ Cardinality(DOMAIN con) \in Nat
      BY <1>2, <1>10, <1>12
    <3>3. twice \in BOOLEAN
      BY <1>2
    <3>2. \A id \in DOMAIN con : /\ con[id].next = NoConsole /\ con[id].prev = NoConsole
                                /\ id = Construct
      BY <1>10
    <3> QED
      BY <1>12, <1>13, <3>1, <3>2, <3>3 DEF LinkInv
  <2> QED
    BY <1>2, <1>14, <2>1 DEF RingInv
<1> QED
  BY <1>11, <1>15 DEF ListInv

LEMMA UnchangedKeepsRing ==
  ASSUME ListInv, PictureInv,
         UNCHANGED <<con, screen, alive, twice, halted, current, chosen>>
  PROVE  ListInv' /\ PictureInv'
BY DEF ListInv, LinkInv, RingInv, PictureInv, NextAlive, PrevAlive

LEMMA NextKeepsRing ==
  SwitchInv /\ ListInv /\ PictureInv /\ [Next]_vars => ListInv' /\ PictureInv'
<1> SUFFICES ASSUME SwitchInv, ListInv, PictureInv, [Next]_vars
             PROVE  ListInv' /\ PictureInv'
  OBVIOUS
<1>1. ASSUME NEW key, NEW make,
             \/ SwitchFini(key) \/ SwitchRun(key)
             \/ WhileChoosing(key, make) \/ MakeKey(key) \/ BreakKey(key)
      PROVE  ListInv' /\ PictureInv'
  BY <1>1, KeysKeep
<1>2. ASSUME NEW r, PollWaits(r) \/ PollReads(r) \/ PollTakes(r)
      PROVE  ListInv' /\ PictureInv'
  BY <1>2, UnchangedKeepsRing DEF PollWaits, PollReads, PollTakes, switchVars
<1>3. ASSUME NEW id \in DOMAIN con, NEW char \in Chars, NEW flush, Write(id, char, flush)
      PROVE  ListInv' /\ PictureInv'
  BY <1>3, WriteKeeps
<1>4. ASSUME NEW id \in DOMAIN con, NEW at \in Positions, SetCursor(id, at[1], at[2])
      PROVE  ListInv' /\ PictureInv'
  BY <1>4, SetCursorKeeps
<1>5. ASSUME NEW id \in DOMAIN con,
             ShowScreen(id) \/ ClearScreen(id) \/ DestroyConsole(id)
      PROVE  ListInv' /\ PictureInv'
  BY <1>5, ShowScreenKeeps, ClearScreenKeeps, DestroyConsoleKeeps
<1>6. CASE CreateConsole \/ Panic
  BY <1>6, CreateConsoleKeeps, PanicKeeps
<1>7. CASE UNCHANGED vars
  BY <1>7, UnchangedKeepsRing DEF vars, switchVars
<1> QED
  BY <1>1, <1>2, <1>3, <1>4, <1>5, <1>6, <1>7 DEF Next

\* As long as no console is destroyed a second time, pressing TAB goes round all
\* consoles that were not destroyed and comes to no
\* other, from whatever console it begins, for any number of consoles created and
\* destroyed in any order: a destroyed console keeps its links, and they lead back
\* into the list (console.c:66-77, 149-165, 232-234).
THEOREM RingStaysComplete == Spec => []RingComplete
<1>1. ListInv => RingComplete
  BY RingIsComplete DEF ListInv, RingComplete
<1> QED
  BY <1>1, InitSwitch, InitRing, NextKeepsSwitch, NextKeepsRing, PTL DEF Spec

\* Cursor, changed block, key buffer and links keep their ranges, and the console
\* that is shown or chosen is one that was created, although a destroyed one stays
\* there (keyboard.c:77, 118, conio.c:193-197, 281, 467).
THEOREM KeyboardTypeCorrect == Spec => []TypeOK
<1>1. SwitchInv /\ BufferInv /\ ListInv /\ PictureInv => TypeOK
  <2> SUFFICES ASSUME SwitchInv, BufferInv, ListInv, PictureInv PROVE TypeOK
    OBVIOUS
  <2>1. \A id \in DOMAIN con :
          /\ con[id].next \in Consoles \cup {NoConsole}
          /\ con[id].prev \in Consoles \cup {NoConsole}
          /\ con[id].px \in 0 .. PosSize - 1 /\ con[id].py \in 0 .. Height - 1
          /\ con[id].flush \in FlushModes
          /\ con[id].sx \in 0 .. PosSize - 1 /\ con[id].ex \in 0 .. PosSize - 1
          /\ con[id].sy \in 0 .. Height /\ con[id].ey \in 0 .. Height
          /\ con[id].buf \in [Cells -> Shown]
    BY RecFields DEF PictureInv
  <2>2. Pixels = Shown \cup {Bar[id] : id \in Consoles}
    BY DEF Pixels, Bars, Shown
  <2>3. /\ chosen \in Consoles \cup {NoConsole} /\ alive \subseteq Consoles
        /\ DOMAIN con \subseteq Consoles /\ twice \in BOOLEAN
    BY DEF PictureInv, ListInv, LinkInv
  <2> QED
    BY <2>1, <2>2, <2>3 DEF SwitchInv, BufferInv, PictureInv, TypeOK
<1> QED
  BY <1>1, InitSwitch, InitBuffer, InitRing, NextKeepsSwitch, NextKeepsBuffer,
     NextKeepsRing, PTL DEF Spec

----------------------------------------------------------------------------
(* What a step draws on the screen *)

\* The screen is drawn from the buffer of a console, or shows the bar.
Drawn(s, t, id, bar) ==
  \A k \in Cells :
    \/ t.screen[k] = s.screen[k]
    \/ t.screen[k] = s.con[id].buf[k]
    \/ k \in LastLine /\ bar # Blank /\ t.screen[k] = bar

\* The buffers stay, and so do the cursors.
BuffersKept(D, s, t) ==
  \A id \in D : /\ t.con[id].buf = s.con[id].buf
                /\ t.con[id].px = s.con[id].px /\ t.con[id].py = s.con[id].py

\* A flush draws the console from its buffer, all of it if it scrolled.
LEMMA FlushBlockDraws ==
  ASSUME NEW D, NEW s \in Videos(D), NEW id \in D, NEW bar
  PROVE  /\ BuffersKept(D, s, FlushBlock(s, id))
         /\ Drawn(s, FlushBlock(s, id), id, bar)
         /\ s.con[id].flush = WholeScreen =>
              \A k \in Cells : FlushBlock(s, id).screen[k] = s.con[id].buf[k]
<1> DEFINE c == s.con[id]
           d == [c EXCEPT !.flush = NoFlush, !.sx = Width, !.sy = Height, !.ex = 0, !.ey = 0]
           after == [s.con EXCEPT ![id].flush = NoFlush, ![id].sx = Width,
                                  ![id].sy = Height, ![id].ex = 0, ![id].ey = 0]
           image == [k \in Cells |-> IF k \in Flushed(c) THEN c.buf[k] ELSE s.screen[k]]
<1>1. s.con \in [D -> Rec] /\ c \in Rec
  BY DEF Videos
<1>2. d.buf = c.buf /\ d.px = c.px /\ d.py = c.py
  <2> HIDE DEF c
  <2> QED
    BY <1>1 DEF Rec
<1>3. after = [s.con EXCEPT ![id] = d]
  BY <1>1
<1>4. c.flush = WholeScreen => c.flush # NoFlush /\ Flushed(c) = Cells
  BY DEF Flushed, WholeScreen, NoFlush, Partial
<1>5. FlushBlock(s, id) = IF c.flush = NoFlush THEN s ELSE [con |-> after, screen |-> image]
  BY DEF FlushBlock
<1> HIDE DEF d, after
<1>6. CASE c.flush = NoFlush
  BY <1>4, <1>5, <1>6 DEF BuffersKept, Drawn
<1>7. CASE c.flush # NoFlush
  <2>1. FlushBlock(s, id).con = after /\ FlushBlock(s, id).screen = image
    BY <1>5, <1>7
  <2>2. BuffersKept(D, s, FlushBlock(s, id))
    BY <1>1, <1>2, <1>3, <2>1 DEF BuffersKept
  <2> QED
    BY <1>4, <2>1, <2>2 DEF Drawn
<1> QED
  BY <1>6, <1>7

LEMMA UpdateScreenDraws ==
  ASSUME NEW D, NEW s \in Videos(D), NEW id \in D, NEW bar \in Bars
  PROVE  /\ BuffersKept(D, s, UpdateScreen(s, id, bar))
         /\ Drawn(s, UpdateScreen(s, id, bar), id, bar)
         /\ s.con[id].flush = WholeScreen \/ bar # Blank =>
              \A k \in Cells :
                \/ UpdateScreen(s, id, bar).screen[k] = s.con[id].buf[k]
                \/ k \in LastLine /\ bar # Blank /\ UpdateScreen(s, id, bar).screen[k] = bar
<1> DEFINE c == s.con[id]
           e == [c EXCEPT !.flush = WholeScreen]
           marked == [s EXCEPT !.con[id] = e]
           drawn == FlushBlock(marked, id)
           bottom == [k \in Cells |-> IF k \in LastLine THEN bar ELSE drawn.screen[k]]
<1>1. CASE bar = Blank
  <2>1. UpdateScreen(s, id, bar) = FlushBlock(s, id)
    BY <1>1 DEF UpdateScreen
  <2> QED
    BY <1>1, <2>1, FlushBlockDraws
<1>2. CASE bar # Blank
  <2>1. s.con \in [D -> Rec] /\ c \in Rec
    BY DEF Videos
  <2>2. /\ Redrawn(c, e) /\ e.flush = WholeScreen
        /\ e.buf = c.buf /\ e.px = c.px /\ e.py = c.py
    <3> HIDE DEF c
    <3>1. e \in Rec /\ e.next = c.next /\ e.prev = c.prev
      BY <2>1 DEF Rec, FlushModes
    <3>2. /\ e.flush = WholeScreen
          /\ e.buf = c.buf /\ e.px = c.px /\ e.py = c.py
      BY <2>1 DEF Rec
    <3> QED
      BY <3>1, <3>2 DEF Redrawn
  <2>3. marked = [s EXCEPT !.con[id].flush = WholeScreen]
    OBVIOUS
  <2>4. UpdateScreen(s, id, bar) = [drawn EXCEPT !.screen = bottom]
    BY <1>2, <2>3 DEF UpdateScreen
  <2>5. AllRedrawn(D, s, marked) /\ marked.con = [s.con EXCEPT ![id] = e]
    <3> HIDE DEF e
    <3> QED
      BY <2>2, OneRedrawn DEF Videos
  <2>6. marked \in Videos(D) /\ marked.con[id] = e
        /\ \A k \in D : k # id => marked.con[k] = s.con[k]
    BY <2>1, <2>5 DEF AllRedrawn
  <2> HIDE DEF e, marked, c
  <2>7. /\ BuffersKept(D, marked, drawn)
        /\ \A k \in Cells : drawn.screen[k] = e.buf[k]
    BY <2>2, <2>6, FlushBlockDraws
  <2>8. drawn \in Videos(D)
    BY <2>6, FlushBlockRedraws DEF AllRedrawn
  <2> HIDE DEF drawn, bottom
  <2>9. /\ UpdateScreen(s, id, bar).con = drawn.con
        /\ UpdateScreen(s, id, bar).screen = bottom
    BY <2>4, <2>8 DEF Videos
  <2>10. BuffersKept(D, s, UpdateScreen(s, id, bar))
    BY <2>2, <2>6, <2>7, <2>9 DEF BuffersKept, c
  <2>11. \A k \in Cells : \/ bottom[k] = s.con[id].buf[k]
                          \/ k \in LastLine /\ bottom[k] = bar
    BY <2>2, <2>7 DEF bottom, c
  <2> QED
    BY <1>2, <2>9, <2>10, <2>11 DEF Drawn
<1> QED
  BY <1>1, <1>2

LEMMA FlushDraws ==
  ASSUME NEW D, NEW s \in Videos(D), NEW id \in D, NEW cur, NEW bar \in Bars
  PROVE  /\ BuffersKept(D, s, Flush(s, id, cur, bar))
         /\ cur = id => Drawn(s, Flush(s, id, cur, bar), id, bar)
         /\ cur # id => Flush(s, id, cur, bar) = s
BY UpdateScreenDraws DEF Flush, BuffersKept

\* The cursor is put where it is.
LEMMA SwitchConsoleDraws ==
  ASSUME NEW D, NEW s \in Videos(D), NEW id \in D, NEW bar \in Bars
  PROVE  /\ BuffersKept(D, s, SwitchConsole(s, id, bar))
         /\ Drawn(s, SwitchConsole(s, id, bar), id, bar)
<1> DEFINE shown == UpdateScreen(s, id, bar)
           c == shown.con[id]
           d == SetXY(c, c.px, c.py)
<1>1. shown \in Videos(D) /\ BuffersKept(D, s, shown) /\ Drawn(s, shown, id, bar)
  BY UpdateScreenRedraws, UpdateScreenDraws DEF AllRedrawn
<1>2. SwitchConsole(s, id, bar) = [shown EXCEPT !.con[id] = d]
  BY DEF SwitchConsole
<1> HIDE DEF shown
<1>3. c \in Rec /\ shown.con \in [D -> Rec]
  BY <1>1 DEF Videos
<1>4. d.buf = c.buf /\ d.px = c.px /\ d.py = c.py
  <2> HIDE DEF c
  <2> QED
    BY <1>3 DEF SetXY, Rec
<1> HIDE DEF d
<1>5. /\ SwitchConsole(s, id, bar).con = [shown.con EXCEPT ![id] = d]
      /\ SwitchConsole(s, id, bar).screen = shown.screen
  BY <1>1, <1>2 DEF Videos
<1> QED
  BY <1>1, <1>3, <1>4, <1>5 DEF BuffersKept, Drawn

\* A character changes one cell.
LEMMA PlotChanges ==
  ASSUME NEW c \in Rec, NEW x, NEW y, NEW char
  PROVE  LET d == Plot(c, x, y, char)
         IN  /\ d.py = c.py /\ (c.flush = WholeScreen => d.flush = WholeScreen)
             /\ \A k \in Cells : d.buf[k] = IF k = Cell(x, y) THEN char ELSE c.buf[k]
<1> DEFINE buf  == IF Cell(x, y) \in Cells THEN [c.buf EXCEPT ![Cell(x, y)] = char] ELSE c.buf
           mode == IF c.flush = NoFlush THEN Partial ELSE c.flush
           sx == Least(c.sx, x)
           ex == Most(c.ex, x)
           sy == Least(c.sy, y)
           ey == Most(c.ey, y)
           d == Plot(c, x, y, char)
<1>1. d = [c EXCEPT !.buf = buf, !.flush = mode, !.sx = sx, !.ex = ex, !.sy = sy, !.ey = ey]
  BY DEF Plot
<1>2. \A k \in Cells : buf[k] = IF k = Cell(x, y) THEN char ELSE c.buf[k]
  BY RecFields
<1>3. c.flush = WholeScreen => mode = WholeScreen
  BY DEF NoFlush, WholeScreen
<1> HIDE DEF buf, mode, sx, ex, sy, ey, d
<1>4. d.py = c.py /\ d.flush = mode /\ d.buf = buf
  BY <1>1 DEF Rec
<1> QED
  BY <1>2, <1>3, <1>4 DEF d

\* The interrupt marks the construct in the first line.
LEMMA ShowCodeDraws ==
  ASSUME NEW D, NEW s \in Videos(D), Construct \in D, NEW make
  PROVE  /\ ShowCode(s, make).screen = s.screen
         /\ \A id \in D \ {Construct} : ShowCode(s, make).con[id] = s.con[id]
         /\ \A k \in Cells : k \notin {Cell(CodeColumn, 0), Cell(CloseColumn, 0)} =>
              ShowCode(s, make).con[Construct].buf[k] = s.con[Construct].buf[k]
<1> DEFINE c == s.con[Construct]
           mark == IF make THEN "m" ELSE "b"
           d == Plot(c, CodeColumn, 0, mark)
           e == Plot(d, CloseColumn, 0, "]")
<1>1. c \in Rec /\ mark \in Shown /\ s.con \in [D -> Rec]
  BY DEF Videos, Shown
<1>2. CodeColumn \in 0 .. PosSize - 1 /\ 0 \in 0 .. Height
  BY Sizes DEF CodeColumn
<1> HIDE DEF c, mark
<1>3. d \in Rec
  BY <1>1, <1>2, PlotRedraws DEF Redrawn
<1>4. \A k \in Cells : k # Cell(CodeColumn, 0) => d.buf[k] = c.buf[k]
  BY <1>1, PlotChanges
<1> HIDE DEF d
<1>5. \A k \in Cells : k # Cell(CloseColumn, 0) => e.buf[k] = d.buf[k]
  BY <1>3, PlotChanges
<1> HIDE DEF e
<1>6. ShowCode(s, make) = [s EXCEPT !.con[Construct] = e]
  BY DEF ShowCode, e, d, c, mark
<1>7. /\ ShowCode(s, make).con = [s.con EXCEPT ![Construct] = e]
      /\ ShowCode(s, make).screen = s.screen
  BY <1>6 DEF Videos
<1> QED
  BY <1>1, <1>4, <1>5, <1>7 DEF c

LEMMA ShowFlagsDraws ==
  ASSUME NEW D, NEW s \in Videos(D), Construct \in D, NEW f, NEW cur
  PROVE  LET t == ShowFlags(s, f, cur)
         IN  /\ \A id \in D \ {Construct} : t.con[id].buf = s.con[id].buf
             /\ \A k \in Cells : k # Cell(FlagColumn, 0) =>
                  t.con[Construct].buf[k] = s.con[Construct].buf[k]
             /\ cur # Construct => t.screen = s.screen
             /\ \A k \in Cells : \/ t.screen[k] = s.screen[k]
                                 \/ t.screen[k] = t.con[Construct].buf[k]
<1> DEFINE c == s.con[Construct]
           mark == IF f.ctrl THEN "C" ELSE "_"
           d == Plot(c, FlagColumn, 0, mark)
           shown == [s EXCEPT !.con[Construct] = d]
           t == ShowFlags(s, f, cur)
<1>1. c \in Rec /\ mark \in Shown /\ s.con \in [D -> Rec]
  BY DEF Videos, Shown
<1>2. FlagColumn \in 0 .. PosSize - 1 /\ 0 \in 0 .. Height
  BY Sizes DEF FlagColumn
<1>3. Redrawn(c, d) /\ \A k \in Cells : k # Cell(FlagColumn, 0) => d.buf[k] = c.buf[k]
  <2> HIDE DEF c, mark
  <2> QED
    BY <1>1, <1>2, PlotRedraws, PlotChanges
<1>4. AllRedrawn(D, s, shown)
  <2> HIDE DEF d
  <2> QED
    BY <1>3, OneRedrawn
<1>5. t = Flush(shown, Construct, cur, Blank)
  BY DEF ShowFlags
<1> HIDE DEF d
<1>6. shown.con = [s.con EXCEPT ![Construct] = d] /\ shown.screen = s.screen
  BY DEF Videos
<1> HIDE DEF shown, t
<1>7. shown \in Videos(D) /\ Blank \in Bars
  BY <1>4 DEF AllRedrawn, Bars
<1>8. /\ BuffersKept(D, shown, t)
      /\ cur = Construct => Drawn(shown, t, Construct, Blank)
      /\ cur # Construct => t = shown
  BY <1>5, <1>7, FlushDraws
<1>9. \A id \in D : t.con[id].buf = shown.con[id].buf
  BY <1>8 DEF BuffersKept
<1>10. /\ \A id \in D \ {Construct} : shown.con[id] = s.con[id]
       /\ shown.con[Construct] = d
  BY <1>1, <1>6
<1> QED
  BY <1>3, <1>6, <1>8, <1>9, <1>10 DEF Drawn, t

----------------------------------------------------------------------------
(* Only the current console is drawn *)

\* A cell that changes is from the current console, as it is or as it was, or shows
\* the bar.
DrawsCurrent ==
  \A k \in Cells : screen'[k] # screen[k] =>
    \/ screen'[k] = con'[current'].buf[k]
    \/ screen'[k] = con[current'].buf[k]
    \/ k \in LastLine /\ choosing' /\ screen'[k] = Bar[chosen']

\* CTRL is released: the marks of the interrupt are in other columns.
LEMMA SwitchFiniDraws ==
  ASSUME ListInv, PictureInv, NEW key, SwitchFini(key)
  PROVE  DrawsCurrent
<1> DEFINE D == DOMAIN con
           v == ShowCode(Video, FALSE)
           s == SwitchConsole(v, chosen, Blank)
           t == ShowFlags(s, flag', chosen)
<1>1. Draws(t) /\ current' = chosen
  BY DEF SwitchFini
<1>2. chosen \in D
  BY DEF SwitchFini, EndsSwitch, PictureInv
<1>3. Video \in Videos(D) /\ Construct \in D /\ Blank \in Bars
      /\ Video.con = con /\ Video.screen = screen
  BY VideoIs DEF Bars, Video
<1>4. /\ v \in Videos(D) /\ v.screen = screen
      /\ \A id \in D \ {Construct} : v.con[id] = con[id]
      /\ \A k \in Cells : k \notin {Cell(CodeColumn, 0), Cell(CloseColumn, 0)} =>
           v.con[Construct].buf[k] = con[Construct].buf[k]
  <2>1. AllRedrawn(D, Video, v)
    BY <1>3, ShowCodeRedraws
  <2>2. ASSUME NEW make
        PROVE  LET w == ShowCode(Video, make)
               IN  /\ w.screen = Video.screen
                   /\ \A id \in D \ {Construct} : w.con[id] = Video.con[id]
                   /\ \A k \in Cells : k \notin {Cell(CodeColumn, 0), Cell(CloseColumn, 0)}
                        => w.con[Construct].buf[k] = Video.con[Construct].buf[k]
    BY <1>3, ShowCodeDraws
  <2>3. /\ v.screen = Video.screen
        /\ \A id \in D \ {Construct} : v.con[id] = Video.con[id]
        /\ \A k \in Cells : k \notin {Cell(CodeColumn, 0), Cell(CloseColumn, 0)} =>
             v.con[Construct].buf[k] = Video.con[Construct].buf[k]
    BY <2>2
  <2> HIDE DEF v
  <2> QED
    BY <1>3, <2>1, <2>3 DEF AllRedrawn
<1> HIDE DEF v
<1>5. s \in Videos(D) /\ BuffersKept(D, v, s) /\ Drawn(v, s, chosen, Blank)
  BY <1>2, <1>3, <1>4, SwitchConsoleRedraws, SwitchConsoleDraws DEF AllRedrawn
<1> HIDE DEF s
<1>6. /\ \A id \in D \ {Construct} : t.con[id].buf = s.con[id].buf
      /\ \A k \in Cells : k # Cell(FlagColumn, 0) =>
           t.con[Construct].buf[k] = s.con[Construct].buf[k]
      /\ chosen # Construct => t.screen = s.screen
      /\ \A k \in Cells : \/ t.screen[k] = s.screen[k]
                          \/ t.screen[k] = t.con[Construct].buf[k]
  BY <1>3, <1>5, ShowFlagsDraws
<1> HIDE DEF t
<1>7. con' = t.con /\ screen' = t.screen
  BY <1>1 DEF Draws
<1>8. s.con[chosen].buf = v.con[chosen].buf
  BY <1>2, <1>5 DEF BuffersKept
<1>9. ASSUME NEW k \in Cells, screen'[k] # screen[k]
      PROVE  screen'[k] = con'[chosen].buf[k] \/ screen'[k] = con[chosen].buf[k]
  <2>1. s.screen[k] = screen[k] \/ s.screen[k] = v.con[chosen].buf[k]
    BY <1>4, <1>5 DEF Drawn
  <2>2. CASE chosen # Construct
    BY <1>2, <1>4, <1>6, <1>7, <1>9, <2>1, <2>2
  <2>3. CASE chosen = Construct /\ k # Cell(FlagColumn, 0)
    BY <1>6, <1>7, <1>8, <1>9, <2>1, <2>3
  <2>4. CASE chosen = Construct /\ k = Cell(FlagColumn, 0)
    <3>1. k \notin {Cell(CodeColumn, 0), Cell(CloseColumn, 0)}
      BY <2>4, Sizes DEF Cell, FlagColumn, CodeColumn, CloseColumn
    <3> QED
      BY <1>4, <1>6, <1>7, <1>9, <2>1, <2>4, <3>1
  <2> QED
    BY <2>2, <2>3, <2>4
<1> QED
  BY <1>1, <1>9 DEF DrawsCurrent

\* TAB: the current console is drawn, and the bar over it.
LEMMA SwitchRunDraws ==
  ASSUME SwitchInv, ListInv, PictureInv, NEW key, SwitchRun(key)
  PROVE  DrawsCurrent
<1> DEFINE D == DOMAIN con
           v == ShowCode(Video, TRUE)
           t == UpdateScreen(v, current, Bar[chosen'])
<1>1. /\ Draws(t) /\ current' = current /\ choosing'
      /\ chosen' = NextConsole(con, IF choosing THEN chosen ELSE current)
  BY DEF SwitchRun
<1>2. current \in D /\ Bar[chosen'] \in Bars
  <2>1. current \in D /\ (choosing => chosen \in D) /\ choosing \in BOOLEAN
    BY DEF PictureInv, SwitchInv
  <2>2. chosen' \in D /\ D \subseteq Consoles
    BY <1>1, <2>1, NextConsoleIs DEF ListInv, LinkInv
  <2> QED
    BY <2>1, <2>2 DEF Bars
<1>3. Video \in Videos(D) /\ Construct \in D /\ Video.screen = screen
  BY VideoIs DEF Video
<1>4. v \in Videos(D) /\ v.screen = screen
  BY <1>3, ShowCodeRedraws, ShowCodeDraws DEF AllRedrawn
<1> HIDE DEF v
<1>5. BuffersKept(D, v, t) /\ Drawn(v, t, current, Bar[chosen'])
  BY <1>2, <1>4, UpdateScreenDraws
<1> HIDE DEF t
<1>6. con' = t.con /\ screen' = t.screen
  BY <1>1 DEF Draws
<1>7. t.con[current].buf = v.con[current].buf
  BY <1>2, <1>5 DEF BuffersKept
<1> QED
  BY <1>1, <1>4, <1>5, <1>6, <1>7 DEF Drawn, DrawsCurrent

\* Every other key is shown on the construct only.
LEMMA OtherKeysDraw ==
  ASSUME ListInv, PictureInv, NEW key, NEW make,
         WhileChoosing(key, make) \/ MakeKey(key) \/ BreakKey(key)
  PROVE  DrawsCurrent
<1> DEFINE D == DOMAIN con
           t(m) == ShowFlags(ShowCode(Video, m), flag', current)
<1>1. Video \in Videos(D) /\ Construct \in D /\ Video.screen = screen
  BY VideoIs DEF Video
<1>2. \A m : ShowCode(Video, m) \in Videos(D) /\ ShowCode(Video, m).screen = screen
  BY <1>1, ShowCodeRedraws, ShowCodeDraws DEF AllRedrawn
<1>3. CASE WhileChoosing(key, make)
  BY <1>2, <1>3 DEF WhileChoosing, Draws, DrawsCurrent
<1>4. CASE MakeKey(key) \/ BreakKey(key)
  <2>1. PICK m : Draws(t(m)) /\ current' = current
    BY <1>4 DEF MakeKey, BreakKey, switchVars
  <2>2. /\ current # Construct => t(m).screen = screen
        /\ \A k \in Cells : \/ t(m).screen[k] = screen[k]
                            \/ t(m).screen[k] = t(m).con[Construct].buf[k]
    BY <1>1, <1>2, ShowFlagsDraws
  <2> HIDE DEF t
  <2> QED
    BY <2>1, <2>2 DEF Draws, DrawsCurrent
<1> QED
  BY <1>3, <1>4

\* The bar is shown while a console is chosen.
LEMMA BarIsChosen == SwitchInv /\ CurrentBar # Blank => choosing /\ CurrentBar = Bar[chosen]
BY DEF SwitchInv, CurrentBar, BarOf

\* Output that is flushed.
LEMMA FlushedDraws ==
  ASSUME SwitchInv, ListInv, PictureInv, NEW id \in DOMAIN con,
         NEW s \in Videos(DOMAIN con), s.screen = screen,
         screen' = Flush(s, id, current, CurrentBar).screen,
         con'[id].buf = Flush(s, id, current, CurrentBar).con[id].buf,
         UNCHANGED switchVars
  PROVE  DrawsCurrent
<1> DEFINE t == Flush(s, id, current, CurrentBar)
<1>1. /\ BuffersKept(DOMAIN con, s, t)
      /\ current = id => Drawn(s, t, id, CurrentBar)
      /\ current # id => t = s
  BY CurrentBarIs, FlushDraws
<1>2. con'[id].buf = t.con[id].buf /\ screen' = t.screen
      /\ current' = current /\ choosing' = choosing /\ chosen' = chosen
  BY DEF switchVars
<1> HIDE DEF t
<1>3. t.con[id].buf = s.con[id].buf
  BY <1>1 DEF BuffersKept
<1> QED
  BY <1>1, <1>2, <1>3, BarIsChosen DEF Drawn, DrawsCurrent

LEMMA WriteDraws ==
  ASSUME SwitchInv, ListInv, PictureInv, NEW id \in DOMAIN con, NEW char \in Chars,
         NEW flush, Write(id, char, flush)
  PROVE  DrawsCurrent
<1> DEFINE D == DOMAIN con
           d == Putch(con[id], char)
           s == [Video EXCEPT !.con[id] = d]
<1>1. /\ Video \in Videos(D) /\ con[id] \in Rec
      /\ Video.con = con /\ Video.screen = screen
  BY VideoIs DEF PictureInv, Video
<1>2. Redrawn(con[id], d)
  BY <1>1, PutchRedraws DEF Shown
<1>3. s = [Video EXCEPT !.con[id] = Putch(@, char)]
  BY <1>1
<1> HIDE DEF d
<1>4. s \in Videos(D) /\ s.screen = screen
  BY <1>1, <1>2, OneRedrawn DEF AllRedrawn
<1>5. /\ Draws(IF flush THEN Flush(s, id, current, CurrentBar) ELSE s)
      /\ UNCHANGED switchVars
  BY <1>3 DEF Write, CallKeepsList
<1> HIDE DEF s
<1> QED
  BY <1>4, <1>5, FlushedDraws DEF Draws, DrawsCurrent

\* A console is destroyed, and the kernel says so on the construct.
LEMMA DestroyConsoleDraws ==
  ASSUME SwitchInv, ListInv, PictureInv, NEW id \in DOMAIN con, DestroyConsole(id)
  PROVE  DrawsCurrent
<1> DEFINE D == DOMAIN con
           d == Putch(con[Construct], "p")
           s == [Video EXCEPT !.con[Construct] = d]
           t == Flush(s, Construct, current, CurrentBar)
<1>1. /\ Video \in Videos(D) /\ Construct \in D /\ con[Construct] \in Rec
      /\ Video.con = con /\ Video.screen = screen
  BY VideoIs DEF PictureInv, Video
<1>2. Redrawn(con[Construct], d)
  BY <1>1, PutchRedraws DEF Shown
<1>3. s = [Video EXCEPT !.con[Construct] = Putch(@, "p")]
  BY <1>1
<1> HIDE DEF d
<1>4. s \in Videos(D) /\ s.screen = screen
  BY <1>1, <1>2, OneRedrawn DEF AllRedrawn
<1>5. con' = Unlink(t.con, id) /\ screen' = t.screen /\ UNCHANGED switchVars
  BY <1>3 DEF DestroyConsole
<1> HIDE DEF s
<1>6. t.con \in [D -> Rec]
  BY <1>1, <1>4, CurrentBarIs, FlushRedraws DEF AllRedrawn, Videos
<1>7. con'[Construct].buf = t.con[Construct].buf
  <2> HIDE DEF t
  <2>1. t.con[Construct] \in Rec
    BY <1>1, <1>6
  <2>2. con'[Construct] \in {t.con[Construct], [t.con[Construct] EXCEPT !.next = t.con[id].next],
                             [t.con[Construct] EXCEPT !.prev = t.con[id].prev]}
    BY <1>1, <1>5, <1>6 DEF Unlink
  <2> QED
    BY <2>1, <2>2 DEF Rec
<1> QED
  BY <1>1, <1>4, <1>5, <1>7, FlushedDraws

LEMMA ShowScreenDraws ==
  ASSUME SwitchInv, ListInv, PictureInv, NEW id \in DOMAIN con, ShowScreen(id)
  PROVE  DrawsCurrent
<1>1. Video \in Videos(DOMAIN con) /\ Video.screen = screen
  BY VideoIs DEF Video
<1>2. Draws(Flush(Video, id, current, CurrentBar)) /\ UNCHANGED switchVars
  BY DEF ShowScreen, CallKeepsList
<1> QED
  BY <1>1, <1>2, FlushedDraws DEF Draws

LEMMA ClearScreenDraws ==
  ASSUME SwitchInv, ListInv, PictureInv, NEW id \in DOMAIN con, ClearScreen(id)
  PROVE  DrawsCurrent
<1> DEFINE D == DOMAIN con
           c == con[id]
           d == [c EXCEPT !.buf = [k \in Cells |-> Blank], !.flush = WholeScreen]
           s == [Video EXCEPT !.con[id] = SetXY(d, 0, 0)]
<1>1. /\ Video \in Videos(D) /\ c \in Rec
      /\ Video.con = con /\ Video.screen = screen
  BY VideoIs DEF PictureInv, Video
<1>2. d \in Rec /\ d.next = c.next /\ d.prev = c.prev
  <2>1. [k \in Cells |-> Blank] \in [Cells -> Shown]
    BY DEF Shown
  <2> HIDE DEF c
  <2> QED
    BY <1>1, <2>1 DEF Rec, FlushModes
<1>3. Redrawn(c, SetXY(d, 0, 0))
  <2> HIDE DEF c, d
  <2>1. 0 \in Nat
    OBVIOUS
  <2>2. Redrawn(c, d)
    BY <1>2 DEF Redrawn
  <2> QED
    BY <1>2, <2>1, <2>2, SetXYRedraws, RedrawnTwice
<1>4. Clear(Video, id, current, CurrentBar) = Flush(s, id, current, CurrentBar)
  BY <1>1 DEF Clear
<1> HIDE DEF d
<1>5. s \in Videos(D) /\ s.screen = screen
  BY <1>1, <1>3, OneRedrawn DEF AllRedrawn
<1>6. Draws(Flush(s, id, current, CurrentBar)) /\ UNCHANGED switchVars
  BY <1>4 DEF ClearScreen, CallKeepsList
<1> HIDE DEF s
<1> QED
  BY <1>5, <1>6, FlushedDraws DEF Draws

\* What a panic prints: it goes to a new line, which may move all of them up.
LEMMA PrintedIs ==
  ASSUME NEW c \in Rec
  PROVE  LET e == Putch(Putch(c, "newline"), "p")
         IN  /\ e \in Rec
             /\ c.py = Height - 1 => e.flush = WholeScreen /\ e.py = Height - 1
             /\ c.py # Height - 1 => e.py = c.py + 1
             /\ c.py # Height - 1 =>
                  \A k \in Cells : e.buf[k] = IF k = Cell(0, c.py + 1) THEN "p" ELSE c.buf[k]
<1> DEFINE d == LineDown(c)
           plotted == Plot(d, d.px, d.py, "p")
           px == (d.px + 1) % PosSize
           e == [plotted EXCEPT !.px = px]
<1>1. c.py \in 0 .. Height - 1 /\ c.py + 1 \in Nat
  BY RecFields, Sizes
<1>2. d \in Rec
  BY LineDownRedraws DEF Redrawn
<1>3. d.px = 0
  BY DEF LineDown, ScrollUp, Rec
<1>4. c.py = Height - 1 => d.flush = WholeScreen /\ d.py = Height - 1
  BY DEF LineDown, ScrollUp, Rec
<1>5. c.py # Height - 1 => d.py = c.py + 1 /\ d.buf = c.buf
  <2>1. c.py # Height - 1 => (c.py + 1) % PosSize = c.py + 1
    BY <1>1, Sizes
  <2> QED
    BY <2>1 DEF LineDown, Rec
<1> HIDE DEF d
<1>6. px = 1 /\ px # Width
  BY <1>3, Sizes
<1>7. /\ plotted \in Rec /\ plotted.py = d.py
      /\ d.flush = WholeScreen => plotted.flush = WholeScreen
      /\ \A k \in Cells : plotted.buf[k] = IF k = Cell(0, d.py) THEN "p" ELSE d.buf[k]
  <2>1. d.px \in 0 .. PosSize - 1 /\ d.py \in 0 .. Height
    <3>1. d.px \in 0 .. PosSize - 1 /\ d.py \in 0 .. Height - 1
      BY <1>2, RecFields
    <3> QED
      BY <3>1, Sizes
  <2>2. "p" \in Shown
    BY DEF Shown
  <2>3. plotted \in Rec
    BY <1>2, <2>1, <2>2, PlotRedraws DEF Redrawn
  <2> QED
    BY <1>2, <1>3, <2>3, PlotChanges
<1>8. Putch(Putch(c, "newline"), "p") = e
  <2>1. Putch(c, "newline") = d
    BY DEF Putch, d
  <2>2. Putch(d, "p") = DirectPutch(d, "p")
    BY DEF Putch
  <2>3. DirectPutch(d, "p") = e
    BY <1>6 DEF DirectPutch
  <2> QED
    BY <2>1, <2>2, <2>3
<1> HIDE DEF plotted, px
<1>9. e \in Rec /\ e.py = plotted.py /\ e.flush = plotted.flush /\ e.buf = plotted.buf
  <2>1. px \in 0 .. PosSize - 1
    BY <1>6, Sizes
  <2> QED
    BY <1>7, <2>1 DEF Rec
<1> HIDE DEF e
<1> QED
  BY <1>1, <1>4, <1>5, <1>7, <1>8, <1>9

\* The construct is shown, and printed on, twice: what was printed first is on
\* the screen still where the second line did not move it.
LEMMA PanicDraws ==
  ASSUME SwitchInv, ListInv, PictureInv, Panic
  PROVE  DrawsCurrent
<1> DEFINE D == DOMAIN con
           bar == CurrentBar
           printed(s) == [s EXCEPT !.con[Construct] = Putch(Putch(@, "newline"), "p")]
           print(s) == Flush(printed(s), Construct, Construct, CurrentBar)
           show(s) == print(SwitchConsole(s, Construct, CurrentBar))
           Shows(s, t) ==
             LET a == s.con[Construct]
                 b == t.con[Construct]
             IN  /\ t \in Videos(D)
                 /\ a.py = Height - 1 => b.py = Height - 1
                 /\ a.py # Height - 1 =>
                      /\ b.py = a.py + 1
                      /\ \A k \in Cells :
                           b.buf[k] = IF k = Cell(0, a.py + 1) THEN "p" ELSE a.buf[k]
                 /\ \A k \in Cells :
                      \/ t.screen[k] = s.screen[k] \/ t.screen[k] = a.buf[k]
                      \/ t.screen[k] = b.buf[k]
                      \/ k \in LastLine /\ bar # Blank /\ t.screen[k] = bar
                 /\ bar # Blank \/ a.py = Height - 1 =>
                      \A k \in Cells :
                        \/ t.screen[k] = b.buf[k]
                        \/ k \in LastLine /\ bar # Blank /\ t.screen[k] = bar
<1>1. /\ Video \in Videos(D) /\ CurrentBar \in Bars /\ Construct \in D
      /\ Video.con = con /\ Video.screen = screen
  BY VideoIs, CurrentBarIs DEF Video
<1>2. ASSUME NEW s \in Videos(D) PROVE Shows(s, show(s))
  <2> DEFINE w == SwitchConsole(s, Construct, CurrentBar)
             a == s.con[Construct]
             c == w.con[Construct]
             e == Putch(Putch(c, "newline"), "p")
             q == [w EXCEPT !.con[Construct] = e]
             t == Flush(q, Construct, Construct, CurrentBar)
  <2>1. w \in Videos(D) /\ BuffersKept(D, s, w) /\ Drawn(s, w, Construct, bar)
    BY <1>1, SwitchConsoleRedraws, SwitchConsoleDraws DEF AllRedrawn
  <2>2. a \in Rec /\ c \in Rec /\ w.con \in [D -> Rec]
    BY <1>1, <2>1 DEF Videos
  <2>3. show(s) = t
    OBVIOUS
  <2> HIDE DEF w, show
  <2>4. c.py = a.py /\ c.buf = a.buf
    BY <1>1, <2>1 DEF BuffersKept
  <2>5. /\ e \in Rec
        /\ a.py = Height - 1 => e.flush = WholeScreen /\ e.py = Height - 1
        /\ a.py # Height - 1 =>
             /\ e.py = a.py + 1
             /\ \A k \in Cells : e.buf[k] = IF k = Cell(0, a.py + 1) THEN "p" ELSE a.buf[k]
    <3> HIDE DEF c
    <3> QED
      BY <2>2, <2>4, PrintedIs
  <2>6. Redrawn(c, e)
    <3>1. "p" \in Shown
      BY DEF Shown
    <3> DEFINE d == Putch(c, "newline")
    <3>2. Redrawn(c, d)
      BY <2>2, PutchRedraws
    <3> HIDE DEF d
    <3>3. Redrawn(d, Putch(d, "p"))
      BY <3>1, <3>2, PutchRedraws DEF Redrawn
    <3> QED
      BY <3>2, <3>3, RedrawnTwice DEF d
  <2> HIDE DEF e
  <2>7. q \in Videos(D)
    BY <1>1, <2>1, <2>6, OneRedrawn DEF AllRedrawn
  <2>8. q.screen = w.screen /\ q.con[Construct] = e
    <3>1. q.con = [w.con EXCEPT ![Construct] = e] /\ q.screen = w.screen
      BY <2>1 DEF Videos
    <3> QED
      BY <1>1, <2>2, <3>1
  <2> HIDE DEF q
  <2>9. t \in Videos(D)
    BY <1>1, <2>7, FlushRedraws DEF AllRedrawn
  <2>10. t = UpdateScreen(q, Construct, bar)
    BY DEF Flush
  <2> HIDE DEF t
  <2>11. /\ BuffersKept(D, q, t) /\ Drawn(q, t, Construct, bar)
         /\ e.flush = WholeScreen \/ bar # Blank =>
              \A k \in Cells : \/ t.screen[k] = e.buf[k]
                               \/ k \in LastLine /\ bar # Blank /\ t.screen[k] = bar
    BY <1>1, <2>7, <2>8, <2>10, UpdateScreenDraws
  <2>12. t.con[Construct].py = e.py /\ t.con[Construct].buf = e.buf
    BY <1>1, <2>8, <2>11 DEF BuffersKept
  <2>13. \A k \in Cells :
           \/ t.screen[k] = s.screen[k] \/ t.screen[k] = a.buf[k]
           \/ t.screen[k] = e.buf[k]
           \/ k \in LastLine /\ bar # Blank /\ t.screen[k] = bar
    BY <2>1, <2>8, <2>11 DEF Drawn
  <2> HIDE DEF bar
  <2> QED
    BY <2>3, <2>5, <2>9, <2>11, <2>12, <2>13
<1>3. /\ Draws(show(show(Video))) /\ current' = Construct
      /\ choosing' = choosing /\ chosen' = chosen
  BY DEF Panic
<1> HIDE DEF show
<1> DEFINE u == show(Video)
           t == show(u)
           a == con[Construct]
           b == u.con[Construct]
           c == t.con[Construct]
<1>4. Shows(Video, u) /\ Shows(u, t)
  BY <1>1, <1>2
<1>5. con' = t.con /\ screen' = t.screen
  BY <1>3 DEF Draws
<1>6. bar # Blank => choosing' /\ bar = Bar[chosen']
  BY <1>3, BarIsChosen
<1>7. a.py \in Nat /\ Height \in Nat
  <2>1. a \in Rec
    BY <1>1 DEF PictureInv
  <2> QED
    BY <2>1, RecFields, Sizes
<1> HIDE DEF u, t, bar
<1>8. ASSUME NEW k \in Cells, screen'[k] # screen[k]
      PROVE  \/ screen'[k] = c.buf[k]
             \/ screen'[k] = a.buf[k]
             \/ k \in LastLine /\ bar # Blank /\ screen'[k] = bar
  <2>1. CASE bar # Blank \/ b.py = Height - 1
    BY <1>4, <1>5, <2>1
  <2>2. CASE bar = Blank /\ b.py # Height - 1
    <3>1. a.py # Height - 1
      BY <1>1, <1>4, <2>2
    <3>2. b.buf[k] = a.buf[k] \/ b.buf[k] = c.buf[k]
      BY <1>1, <1>4, <2>2, <3>1
    <3>3. \/ screen'[k] = screen[k] \/ screen'[k] = a.buf[k]
          \/ screen'[k] = b.buf[k] \/ screen'[k] = c.buf[k]
      BY <1>1, <1>4, <1>5, <2>2
    <3> QED
      BY <1>8, <3>2, <3>3
  <2> QED
    BY <2>1, <2>2
<1> QED
  BY <1>3, <1>5, <1>6, <1>8 DEF DrawsCurrent

LEMMA NextDraws == SwitchInv /\ ListInv /\ PictureInv /\ [Next]_vars => DrawsCurrent
<1> SUFFICES ASSUME SwitchInv, ListInv, PictureInv, [Next]_vars
             PROVE  DrawsCurrent
  OBVIOUS
<1>1. ASSUME NEW key, NEW make,
             \/ SwitchFini(key) \/ SwitchRun(key)
             \/ WhileChoosing(key, make) \/ MakeKey(key) \/ BreakKey(key)
      PROVE  DrawsCurrent
  BY <1>1, SwitchFiniDraws, SwitchRunDraws, OtherKeysDraw
<1>2. ASSUME NEW id \in DOMAIN con, NEW char \in Chars, NEW flush, Write(id, char, flush)
      PROVE  DrawsCurrent
  BY <1>2, WriteDraws
<1>3. ASSUME NEW id \in DOMAIN con,
             ShowScreen(id) \/ ClearScreen(id) \/ DestroyConsole(id)
      PROVE  DrawsCurrent
  BY <1>3, ShowScreenDraws, ClearScreenDraws, DestroyConsoleDraws
<1>4. CASE Panic
  BY <1>4, PanicDraws
<1>5. CASE screen' = screen
  BY <1>5 DEF DrawsCurrent
<1>6. CASE UNCHANGED vars
  BY <1>5, <1>6 DEF vars
<1>7. ASSUME NEW r, PollWaits(r) \/ PollReads(r) \/ PollTakes(r) PROVE screen' = screen
  BY <1>7 DEF PollWaits, PollReads, PollTakes
<1>8. ASSUME NEW id, NEW x, NEW y, SetCursor(id, x, y) \/ CreateConsole
      PROVE  screen' = screen
  BY <1>8 DEF SetCursor, CreateConsole
<1> QED
  BY <1>1, <1>2, <1>3, <1>4, <1>5, <1>6, <1>7, <1>8 DEF Next

\* Output to a console that is not shown does not reach the screen, for any size
\* of the screen and number of consoles: a key, a call, a switch and a panic, which
\* shows the construct twice, draw the console that is current after them and the
\* bar, and nothing else (conio.c:308-324, console.c:214-226).
THEOREM OnlyCurrentIsDrawn == Spec => DrawsCurrentOnly
BY InitSwitch, InitRing, NextKeepsSwitch, NextKeepsRing, NextDraws, PTL
   DEF Spec, DrawsCurrentOnly, DrawsCurrent

=============================================================================
