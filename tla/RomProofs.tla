------------------------------ MODULE RomProofs ------------------------------
(***************************************************************************)
(* Proofs about Rom: what runs is whole, a chip that was never             *)
(* bootstrapped comes up, a command stays within its page, and a bootstrap *)
(* that ends has programmed its file, for every set of images and sizes.   *)
(***************************************************************************)
EXTENDS Rom, TLAPS, WellFoundedInduction

RomStates == [pc : Pcs, woken : BOOLEAN, slot : Slots \cup {"-"}, booting : BOOLEAN]

\* Slot holds a signed image that the minimum version allows.
Holds(slot, img) ==
  \A i \in 1..SlotWords :
    \/ flash[Start(slot) + i - 1] = Word(img, i)
    \/ Word(img, i) = Ones /\ flash[Start(slot) + i - 1] = Torn /\ chip.handler
Whole(slot) == \E img \in Signed : SecVersion[img] >= min /\ Holds(slot, img)

\* The invariant: what runs, and what is tried last, is whole, and an image to
\* boot remains.
StateInv == rom \in RomStates
RunInv == rom.pc = "romExt" => rom.slot \in Slots /\ Whole(rom.slot)
BootInv ==
  /\ rom.pc \in {"check", "bootstrap", "erase", "verify", "program"} => ~rom.booting
  /\ rom.pc \in {"verify", "program"} => erased
AliveInv == ~erased => \E slot \in Slots : Whole(slot)
LastInv == rom.pc = "fallback" => rom.slot \in Slots /\ (~erased => Whole(rom.slot))
IInv == StateInv /\ RunInv /\ BootInv /\ AliveInv /\ LastInv /\ StaysAlive

-----------------------------------------------------------------------------
\* Words and headers

LEMMA SlotWordsInFlash ==
  ASSUME NEW slot \in Slots
  PROVE  /\ SlotAddrs(slot) \subseteq Addrs
         /\ Start(slot) \in SlotAddrs(slot)
         /\ \A i \in 1..SlotWords : Start(slot) + i - 1 \in SlotAddrs(slot)
BY RomAssumption DEF SlotAddrs, Addrs, Start, Slots

LEMMA FirstWord ==
  ASSUME NEW img \in Images
  PROVE  Word(img, 1) = << img, 1 >> /\ Word(img, 1) /= Ones /\ Word(img, 1) /= Torn
<1>1. << img, 1 >> \notin Gaps
  BY RomAssumption
<1>2. img /= "-"
  BY RomAssumption
<1> QED
  BY <1>1, <1>2 DEF Word, Ones, Torn

\* A slot that holds an image has its header.
LEMMA HeaderIsUnique ==
  ASSUME NEW slot \in Slots, NEW img \in Images, First(slot) = Word(img, 1)
  PROVE  HasHeader(slot) /\ Header(slot) = img
<1>1. HasHeader(slot)
  BY DEF HasHeader
<1>2. \A other \in Images : First(slot) = Word(other, 1) => other = img
  BY FirstWord
<1> QED
  BY <1>1, <1>2 DEF Header

LEMMA HoldsFirst ==
  ASSUME NEW slot \in Slots, NEW img \in Images, Holds(slot, img)
  PROVE  First(slot) = Word(img, 1)
<1>1. 1 \in 1..SlotWords /\ Start(slot) + 1 - 1 = Start(slot)
  BY RomAssumption DEF Start
<1>2. Word(img, 1) /= Ones
  BY FirstWord
<1> QED
  BY <1>1, <1>2 DEF Holds, First

LEMMA VerifiesIsWhole ==
  ASSUME NEW slot \in Slots
  PROVE  Verifies(slot) <=> Whole(slot)
<1>1. ASSUME Verifies(slot) PROVE Whole(slot)
  <2> DEFINE img == Header(slot)
  <2>1. img \in Signed /\ img \in Images /\ SecVersion[img] >= min
    BY <1>1, RomAssumption DEF Verifies, ManifestCheck
  <2>2. Holds(slot, img)
    BY <1>1, <2>1 DEF Verifies, Reads, ReadsOnes, Holds
  <2> QED
    BY <2>1, <2>2 DEF Whole
<1>2. ASSUME Whole(slot) PROVE Verifies(slot)
  <2>1. PICK img \in Signed : SecVersion[img] >= min /\ Holds(slot, img)
    BY <1>2 DEF Whole
  <2>2. img \in Images
    BY RomAssumption
  <2>3. HasHeader(slot) /\ Header(slot) = img
    BY <2>1, <2>2, HoldsFirst, HeaderIsUnique
  <2>4. \A i \in 1..SlotWords : Reads(Start(slot) + i - 1, Word(img, i))
    BY <2>1 DEF Holds, Reads, ReadsOnes
  <2> QED
    BY <2>1, <2>3, <2>4 DEF Verifies, ManifestCheck
<1> QED
  BY <1>1, <1>2

\* A slot that is not written stays whole.
LEMMA WholeIsKept ==
  ASSUME NEW slot \in Slots, Whole(slot), UNCHANGED << chip, min >>,
         \A a \in SlotAddrs(slot) : flash'[a] = flash[a]
  PROVE  Whole(slot)'
<1>1. PICK img \in Signed : SecVersion[img] >= min /\ Holds(slot, img)
  BY DEF Whole
<1>2. \A i \in 1..SlotWords : flash'[Start(slot) + i - 1] = flash[Start(slot) + i - 1]
  BY SlotWordsInFlash
<1>3. Holds(slot, img)'
  BY <1>1, <1>2 DEF Holds
<1> QED
  BY <1>1, <1>3 DEF Whole

LEMMA SlotsAreApart ==
  ASSUME NEW slot \in Slots
  PROVE  /\ Other(slot) \in Slots /\ Other(slot) /= slot
         /\ \A s \in Slots : s /= slot => s = Other(slot)
         /\ SlotAddrs(slot) \cap SlotAddrs(Other(slot)) = {}
BY RomAssumption DEF Other, Slots, SlotAddrs, Start

-----------------------------------------------------------------------------
\* Steps

DataKept == UNCHANGED << chip, flash, min, erased >>

LEMMA InvIsKept ==
  ASSUME IInv, DataKept, UNCHANGED rom
  PROVE  IInv'
<1>1. \A slot \in Slots : Whole(slot)' <=> Whole(slot)
  BY DEF DataKept, Whole, Holds
<1> QED
  BY <1>1 DEF IInv, DataKept, StateInv, RunInv, BootInv, AliveInv, LastInv, StaysAlive

LEMMA AliveIsKept ==
  ASSUME IInv, DataKept
  PROVE  AliveInv' /\ \A slot \in Slots : Whole(slot)' <=> Whole(slot)
<1>1. \A slot \in Slots : Whole(slot)' <=> Whole(slot)
  BY DEF DataKept, Whole, Holds
<1> QED
  BY <1>1 DEF IInv, AliveInv, DataKept

\* A step of the boot sequence that touches no data, by where it leads.
LEMMA GoesOn ==
  ASSUME IInv, DataKept, NEW pc \in {"check", "bootstrap", "erase"}, rom' \in RomStates,
         rom'.pc = pc, ~rom'.booting
  PROVE  IInv'
BY AliveIsKept DEF IInv, StateInv, RunInv, BootInv, LastInv, StaysAlive

LEMMA ResetKeeps ==
  ASSUME IInv, DataKept, NEW woken \in BOOLEAN, Reset(woken)
  PROVE  IInv'
<1>1. rom' \in RomStates /\ rom'.pc = "check" /\ ~rom'.booting
  BY DEF Reset, RomStates, Pcs, Slots
<1> QED
  BY <1>1, GoesOn

LEMMA GoesKeepsState ==
  ASSUME StateInv, NEW pc \in Pcs, Goes(pc)
  PROVE  /\ rom' \in RomStates /\ rom'.pc = pc /\ rom'.booting = rom.booting
         /\ rom'.slot = rom.slot
BY DEF StateInv, RomStates, Goes

\* The bootstrap ends in a shutdown.
LEMMA FailKeeps ==
  ASSUME IInv, UNCHANGED << chip, min >>, Goes("shutdown"), ~rom.booting, AliveInv'
  PROVE  IInv'
<1>1. rom' \in RomStates /\ rom'.pc = "shutdown" /\ ~rom'.booting
  BY GoesKeepsState DEF IInv, Pcs
<1> QED
  BY <1>1 DEF IInv, StateInv, RunInv, BootInv, LastInv, StaysAlive

LEMMA CheckStep ==
  ASSUME IInv, RomStateBootstrapCheck
  PROVE  IInv'
<1>1. DataKept /\ StateInv /\ ~rom.booting
  BY DEF RomStateBootstrapCheck, DataKept, IInv, BootInv
<1>2. CASE Goes("bootstrap")
  BY <1>1, <1>2, GoesKeepsState, GoesOn DEF Pcs
<1>3. CASE rom' = [rom EXCEPT !.pc = "boot", !.booting = TRUE]
  <2>1. rom' \in RomStates /\ rom'.pc = "boot"
    BY <1>1, <1>3 DEF StateInv, RomStates, Pcs
  <2> QED
    BY <1>1, <2>1, AliveIsKept DEF IInv, StateInv, RunInv, BootInv, LastInv, StaysAlive
<1> QED
  BY <1>2, <1>3 DEF RomStateBootstrapCheck

LEMMA BootstrapStep ==
  ASSUME IInv, RomStateBootstrap
  PROVE  IInv'
<1>1. DataKept /\ StateInv /\ ~rom.booting
  BY DEF RomStateBootstrap, DataKept, IInv, BootInv
<1>2. CASE Goes("erase")
  BY <1>1, <1>2, GoesKeepsState, GoesOn DEF Pcs
<1>3. CASE Goes("shutdown")
  BY <1>1, <1>3, FailKeeps, AliveIsKept DEF DataKept
<1> QED
  BY <1>2, <1>3 DEF RomStateBootstrap

\* After an erase has begun nothing is promised of what flash holds.
LEMMA ErasedStep ==
  ASSUME IInv, erased', rom' \in RomStates, rom'.pc \in {"verify", "program", "shutdown"},
         ~rom'.booting
  PROVE  IInv'
BY DEF IInv, StateInv, RunInv, BootInv, AliveInv, LastInv, StaysAlive

LEMMA EndsStep ==
  ASSUME IInv, erased', ~rom.booting, NEW results, NEW pc \in {"verify", "program"},
         NEW next, Ends(results, pc, next)
  PROVE  IInv'
<1>1. Goes(pc) \/ Goes("shutdown")
  BY DEF Ends
<1>2. rom' \in RomStates /\ rom'.pc \in {pc, "shutdown"} /\ ~rom'.booting
  BY <1>1, GoesKeepsState DEF IInv, Pcs
<1> QED
  BY <1>2, ErasedStep

LEMMA EraseStep ==
  ASSUME IInv, HandleErase
  PROVE  IInv'
<1>1. ~rom.booting
  BY DEF HandleErase, Waits, IInv, BootInv
<1>2. ASSUME Fails PROVE IInv'
  BY <1>1, <1>2, FailKeeps, AliveIsKept DEF Fails, DataKept
<1>3. ASSUME NEW next, Ignores(next) PROVE IInv'
  BY <1>3, InvIsKept DEF Ignores, DataKept
<1>4. ASSUME Ends(ChipErase, "verify", Taken), erased' = TRUE PROVE IInv'
  BY <1>1, <1>4, EndsStep
<1> QED
  BY <1>2, <1>3, <1>4 DEF HandleErase

LEMMA VerifyStep ==
  ASSUME IInv, HandleEraseVerify
  PROVE  IInv'
<1>1. ~rom.booting /\ erased /\ UNCHANGED erased
  BY DEF HandleEraseVerify, IInv, BootInv
<1>2. Goes("program") \/ Goes("shutdown")
  BY DEF HandleEraseVerify
<1>3. rom' \in RomStates /\ rom'.pc \in {"program", "shutdown"} /\ ~rom'.booting
  BY <1>1, <1>2, GoesKeepsState DEF IInv, Pcs
<1> QED
  BY <1>1, <1>3, ErasedStep

LEMMA ProgramStep ==
  ASSUME IInv, HandleProgram
  PROVE  IInv'
<1>1. ~rom.booting /\ erased
  BY DEF HandleProgram, Waits, IInv, BootInv
<1>2. ASSUME Fails PROVE IInv'
  BY <1>1, <1>2, FailKeeps, AliveIsKept DEF Fails, DataKept
<1>3. ASSUME NEW next, Ignores(next) PROVE IInv'
  BY <1>3, InvIsKept DEF Ignores, DataKept
<1>4. ASSUME NEW results, Ends(results, "program", Cleared), UNCHANGED erased PROVE IInv'
  BY <1>1, <1>4, EndsStep
<1>5. ASSUME Reset(FALSE), DataKept PROVE IInv'
  BY <1>5, ResetKeeps
<1>6. ASSUME NEW results, Serves(results) PROVE IInv'
  BY <1>4, <1>6 DEF Serves
<1>7. ASSUME Resets PROVE IInv'
  BY <1>5, <1>7 DEF Resets, DataKept
<1> QED
  BY <1>2, <1>3, <1>6, <1>7 DEF HandleProgram

LEMMA FaultsAreTorn ==
  /\ PolicyFaults => ~chip.handler /\ \E a \in Addrs : flash[a] = Torn
  /\ \A slot \in Slots :
       VerifyFaults(slot) => ~chip.handler /\ \E a \in Addrs : flash[a] = Torn
BY SlotWordsInFlash DEF PolicyFaults, VerifyFaults, First

LEMMA BootsStep ==
  ASSUME IInv, DataKept, NEW slot \in Slots, Verifies(slot), BootsRomExt(slot)
  PROVE  IInv'
<1>1. rom' \in RomStates /\ rom'.pc = "romExt" /\ rom'.slot = slot
  BY DEF BootsRomExt, IInv, StateInv, RomStates, Pcs
<1> QED
  BY <1>1, VerifiesIsWhole, AliveIsKept
  DEF IInv, StateInv, RunInv, BootInv, LastInv, StaysAlive

LEMMA ShutdownOnFault ==
  ASSUME IInv, DataKept, Goes("shutdown"),
         ~erased => ~chip.handler /\ \E a \in Addrs : flash[a] = Torn
  PROVE  IInv'
<1>1. rom' \in RomStates /\ rom'.pc = "shutdown"
  BY GoesKeepsState DEF IInv, Pcs
<1>2. UNCHANGED << chip, flash, erased >>
  BY DEF DataKept
<1>3. StaysAlive'
  BY <1>2 DEF StaysAlive
<1> QED
  BY <1>1, <1>3, AliveIsKept DEF IInv, StateInv, RunInv, BootInv, LastInv

LEMMA FirstStep ==
  ASSUME IInv, RomTryBootFirst
  PROVE  IInv'
<1>1. DataKept
  BY DEF RomTryBootFirst, DataKept
<1>2. CASE PolicyFaults /\ Goes("shutdown")
  BY <1>1, <1>2, FaultsAreTorn, ShutdownOnFault
<1>3. ASSUME NEW slot \in ManifestsFirst,
             IF VerifyFaults(slot) THEN Goes("shutdown")
             ELSE IF Verifies(slot) THEN BootsRomExt(slot)
             ELSE rom' = [rom EXCEPT !.pc = "fallback", !.slot = Other(slot)]
      PROVE  IInv'
  <2>1. slot \in Slots
    BY DEF ManifestsFirst, Slots
  <2>2. CASE VerifyFaults(slot)
    BY <1>1, <1>3, <2>1, <2>2, FaultsAreTorn, ShutdownOnFault
  <2>3. CASE ~VerifyFaults(slot) /\ Verifies(slot)
    BY <1>1, <1>3, <2>1, <2>3, BootsStep
  <2>4. CASE ~VerifyFaults(slot) /\ ~Verifies(slot)
    <3>0. Other(slot) \in Slots
      BY <2>1, SlotsAreApart
    <3>1. rom' \in RomStates /\ rom'.pc = "fallback" /\ rom'.slot = Other(slot)
      <4>1. rom' = [rom EXCEPT !.pc = "fallback", !.slot = Other(slot)]
        BY <1>3, <2>4
      <4> QED
        BY <3>0, <4>1 DEF IInv, StateInv, RomStates, Pcs
    <3>2. ~erased => Whole(Other(slot))
      BY <2>1, <2>4, VerifiesIsWhole, SlotsAreApart DEF IInv, AliveInv
    <3> QED
      BY <1>1, <3>0, <3>1, <3>2, AliveIsKept
      DEF IInv, StateInv, RunInv, BootInv, LastInv, StaysAlive, DataKept
  <2> QED
    BY <2>2, <2>3, <2>4
<1> QED
  BY <1>2, <1>3 DEF RomTryBootFirst

LEMMA SecondStep ==
  ASSUME IInv, RomTryBootSecond
  PROVE  IInv'
<1>1. DataKept /\ rom.slot \in Slots /\ (~erased => Verifies(rom.slot))
  BY VerifiesIsWhole DEF RomTryBootSecond, DataKept, IInv, LastInv
<1>2. CASE ~VerifyFaults(rom.slot) /\ Verifies(rom.slot)
  BY <1>1, <1>2, BootsStep DEF RomTryBootSecond
<1>3. CASE ~(~VerifyFaults(rom.slot) /\ Verifies(rom.slot))
  BY <1>1, <1>3, FaultsAreTorn, ShutdownOnFault DEF RomTryBootSecond
<1> QED
  BY <1>2, <1>3

\* The minimum version rises to that of the image that runs, which stays whole.
LEMMA AdvanceStep ==
  ASSUME IInv, RomExtAdvanceSecver
  PROVE  IInv'
<1>1. rom.pc = "romExt" /\ rom.slot \in Slots /\ Whole(rom.slot)
  BY DEF RomExtAdvanceSecver, IInv, RunInv
<1>2. PICK img \in Signed : SecVersion[img] >= min /\ Holds(rom.slot, img)
  BY <1>1 DEF Whole
<1>3. img \in Images /\ min' = SecVersion[img]
  <2>1. img \in Images
    BY RomAssumption
  <2>2. Header(rom.slot) = img
    BY <1>1, <1>2, <2>1, HoldsFirst, HeaderIsUnique
  <2> QED
    BY <2>1, <2>2 DEF RomExtAdvanceSecver, RunningVersion
<1>4. UNCHANGED << chip, flash, rom, erased >>
  BY DEF RomExtAdvanceSecver
<1>5. Holds(rom.slot, img)'
  BY <1>2, <1>4 DEF Holds
<1>6. Whole(rom.slot)'
  BY <1>2, <1>3, <1>4, <1>5, RomAssumption DEF Whole
<1> QED
  BY <1>1, <1>4, <1>6 DEF IInv, StateInv, RunInv, BootInv, AliveInv, LastInv, StaysAlive

\* An update leaves the slot that runs.
LEMMA UpdateLeavesSlot ==
  ASSUME IInv, rom.pc = "romExt", UNCHANGED << chip, min >>,
         \A a \in Addrs \ SlotAddrs(Other(rom.slot)) : flash'[a] = flash[a]
  PROVE  \E slot \in Slots : slot = rom.slot /\ Whole(slot)'
<1>1. PICK slot \in Slots : slot = rom.slot /\ Whole(slot)
  BY DEF IInv, RunInv
<1>2. \A a \in SlotAddrs(slot) : flash'[a] = flash[a]
  BY <1>1, SlotWordsInFlash, SlotsAreApart
<1>3. Whole(slot)'
  BY <1>1, <1>2, WholeIsKept
<1> QED
  BY <1>1, <1>3

LEMMA UpdatesStep ==
  ASSUME IInv, Updates
  PROVE  IInv'
<1>1. rom.pc = "romExt" /\ UNCHANGED << chip, min, rom, erased >>
  BY DEF Updates
<1>2. \A a \in Addrs \ SlotAddrs(Other(rom.slot)) : flash'[a] = flash[a]
  BY DEF Updates, Update
<1>3. \E slot \in Slots : slot = rom.slot /\ Whole(slot)'
  BY <1>1, <1>2, UpdateLeavesSlot
<1> QED
  BY <1>1, <1>3 DEF IInv, StateInv, RunInv, BootInv, AliveInv, LastInv, StaysAlive

LEMMA UpdateBreaksOffStep ==
  ASSUME IInv, UpdateBreaksOff
  PROVE  IInv'
<1>1. rom.pc = "romExt" /\ UNCHANGED << chip, min, erased >> /\ Reset(FALSE)
  BY DEF UpdateBreaksOff
<1>2. \A a \in Addrs \ SlotAddrs(Other(rom.slot)) : flash'[a] = flash[a]
  BY DEF UpdateBreaksOff
<1>3. \E slot \in Slots : slot = rom.slot /\ Whole(slot)'
  BY <1>1, <1>2, UpdateLeavesSlot
<1>4. rom' \in RomStates /\ rom'.pc = "check" /\ ~rom'.booting
  BY <1>1 DEF Reset, RomStates, Pcs, Slots
<1> QED
  BY <1>1, <1>3, <1>4 DEF IInv, StateInv, RunInv, BootInv, AliveInv, LastInv, StaysAlive

\* Power fails within an erase or a program page of a bootstrap.
LEMMA BreaksOffStep ==
  ASSUME IInv, BreaksOff
  PROVE  IInv'
<1>1. rom' \in RomStates /\ rom'.pc = "check" /\ ~rom'.booting
  BY DEF BreaksOff, Reset, RomStates, Pcs, Slots
<1>2. rom.pc = "program" => erased
  BY DEF IInv, BootInv
<1>3. erased' = TRUE \/ (rom.pc = "program" /\ erased' = erased)
  BY DEF BreaksOff
<1>4. erased'
  BY <1>2, <1>3
<1> QED
  BY <1>1, <1>4 DEF IInv, StateInv, RunInv, BootInv, AliveInv, LastInv, StaysAlive

LEMMA NextStep ==
  ASSUME IInv, [Next]_vars
  PROVE  IInv'
<1>1. ASSUME DataKept, UNCHANGED rom PROVE IInv'
  BY <1>1, InvIsKept
<1>2. CASE UNCHANGED vars
  BY <1>1, <1>2 DEF vars, DataKept
<1>3. CASE Chip
  BY <1>3, CheckStep, BootstrapStep, EraseStep, VerifyStep, ProgramStep, FirstStep, SecondStep
  DEF Chip
<1>4. CASE HostReadsSfdp \/ HostEnablesWrite \/ HostSendsCommand \/ HostSeesDone \/ HostResetsChip
  BY <1>1, <1>4
  DEF HostReadsSfdp, HostEnablesWrite, HostSendsCommand, HostSeesDone, HostResetsChip, DataKept
<1>5. CASE HostStops \/ StrapReleased \/ StrayCommand
  BY <1>1, <1>5 DEF HostStops, StrapReleased, StrayCommand, DataKept
<1>6. CASE HostBegins \/ HostEnds \/ SleepsAndWakes \/ ChipResets
  BY <1>6, ResetKeeps DEF HostBegins, HostEnds, SleepsAndWakes, ChipResets, DataKept
<1>7. CASE RomExtAdvanceSecver \/ Updates \/ UpdateBreaksOff \/ BreaksOff
  BY <1>7, AdvanceStep, UpdatesStep, UpdateBreaksOffStep, BreaksOffStep
<1> QED
  BY <1>2, <1>3, <1>4, <1>5, <1>6, <1>7 DEF Next, Host

\* At first slot A holds an image, and version 0 allows all.
LEMMA InitStep ==
  ASSUME Init
  PROVE  IInv
<1>1. rom \in RomStates /\ rom.pc = "check" /\ ~rom.booting
  BY DEF Init, RomStates, Pcs, Slots
<1>2. PICK img \in Signed :
        flash = [a \in Addrs |-> FileWord([slot \in Slots |-> IF slot = "A" THEN img ELSE "-"], a)]
  BY DEF Init
<1>3. Holds("A", img)
  <2>1. \A i \in 1..SlotWords : flash[Start("A") + i - 1] = Word(img, i)
    <3> SUFFICES ASSUME NEW i \in 1..SlotWords PROVE flash[Start("A") + i - 1] = Word(img, i)
      OBVIOUS
    <3> DEFINE a == Start("A") + i - 1
    <3>1. a = i - 1 /\ a < SlotWords /\ a \in Addrs /\ (a - Start("A")) + 1 = i
      BY RomAssumption DEF Start, Addrs
    <3>2. "A" \in Slots /\ img /= "-"
      BY RomAssumption DEF Slots
    <3> QED
      BY <1>2, <3>1, <3>2 DEF FileWord
  <2> QED
    BY <2>1 DEF Holds
<1>4. Whole("A")
  <2>1. SecVersion[img] \in Nat /\ min = 0
    BY RomAssumption DEF Init
  <2> QED
    BY <1>3, <2>1 DEF Whole
<1> QED
  BY <1>1, <1>4 DEF IInv, StateInv, RunInv, BootInv, AliveInv, LastInv, StaysAlive, Slots

THEOREM InductiveInvariant == Spec => []IInv
BY InitStep, NextStep, PTL DEF Spec

\* What runs is whole, signed and not older than the minimum: the ROM booted
\* it, and no update touches the slot that runs.
THEOREM WhatRunsIsWhole == Spec => []RunsWhole
<1>1. IInv => RunsWhole
  BY DEF IInv, RunInv, Whole, Holds, RunsWhole
<1> QED
  BY <1>1, InductiveInvariant, PTL

\* A chip that was never bootstrapped has an image to boot, and the ROM finds
\* it, first or last.
THEOREM NeverBootstrappedBoots == Spec => []StaysAlive
<1>1. IInv => StaysAlive
  BY DEF IInv
<1> QED
  BY <1>1, InductiveInvariant, PTL

-----------------------------------------------------------------------------
(***************************************************************************)
(* The state has its type, and a command of the program loop changes       *)
(* nothing outside the page or the sector that it names.                   *)
(***************************************************************************)

\* What flash, a command, the SPI device and the host's operation hold.
Words == {Ones, Torn} \cup (Images \X (1..SlotWords))
Flashes == [Addrs -> Words]
Ops == {"none", "chipErase", "sectorErase", "pageProgram", "reset", "other", "overflow"}
Cmds == [op : Ops, addr : Nat, data : Seq(Words)]
Spis == [up : BOOLEAN, wel : BOOLEAN, busy : BOOLEAN, cmd : Cmds]
FileSets == [Slots -> Images \cup {"-"}]
HostPages == 0..(((2 * SlotWords) \div PageWords) - 1)
Hosts ==
  [pc : HostPcs, file : FileSets, page : HostPages, erasing : BOOLEAN, reset : BOOLEAN]

FlashInv == chip \in Setups /\ flash \in Flashes /\ min \in Nat
DeviceInv == spi \in Spis
HostInv == host \in Hosts /\ strap \in BOOLEAN
CountInv == erased \in BOOLEAN /\ steps \in 0..MaxSteps /\ faults \in 0..MaxFaults
TInv == FlashInv /\ DeviceInv /\ HostInv /\ CountInv

\* An operation leaves flash that has its type, and a fault only if there was
\* one left.
Sound(results) ==
  \A r \in results : r.flash \in Flashes /\ (r.fault => faults < MaxFaults)

-----------------------------------------------------------------------------
\* Words, pages and sectors

LEMMA WordTyped ==
  ASSUME NEW img \in Images, NEW i \in 1..SlotWords
  PROVE  Word(img, i) \in Words
BY DEF Word, Words

LEMMA OnesTorn == Ones \in Words /\ Torn \in Words
BY DEF Words

\* A remainder keeps the quotient.
LEMMA SameQuotient ==
  ASSUME NEW n \in Nat \ {0}, NEW k \in Nat, NEW r \in 0..(n - 1)
  PROVE  ((n * k) + r) \div n = k
OBVIOUS

LEMMA Quotient ==
  ASSUME NEW n \in Nat \ {0}, NEW a \in Nat
  PROVE  /\ a \div n \in Nat /\ a % n \in 0..(n - 1)
         /\ a - (a % n) = n * (a \div n)
OBVIOUS

\* A multiple of n is at least n, and what is at least n has a quotient.
LEMMA AtLeast ==
  ASSUME NEW n \in Nat \ {0}, NEW a \in Nat \ {0}
  PROVE  /\ a % n = 0 => n <= a
         /\ n <= a => a \div n \in Nat \ {0}
<1> DEFINE k == a \div n
           r == a % n
<1>1. k \in Nat /\ r \in 0..(n - 1) /\ a - r = n * k
  BY Quotient
<1> HIDE DEF k, r
<1>2. k = 0 => n * k = 0
  BY <1>1
<1>3. k /= 0 => n * k >= n
  BY <1>1
<1> QED
  BY <1>1, <1>2, <1>3 DEF k, r

LEMMA InPage ==
  ASSUME NEW addr \in Nat, NEW i \in Nat \ {0}
  PROVE  Place(addr, i) \in Nat /\ Place(addr, i) \div PageWords = addr \div PageWords
<1> DEFINE k == addr \div PageWords
           r == ((addr - (addr - (addr % PageWords))) + i - 1) % PageWords
<1>1. PageWords \in Nat \ {0}
  BY RomAssumption
<1>2. k \in Nat /\ addr % PageWords \in 0..(PageWords - 1) /\ addr - (addr % PageWords) = PageWords * k
  BY <1>1, Quotient
<1>3. ((addr - (addr - (addr % PageWords))) + i - 1) \in Nat
  BY <1>2
<1>4. r \in 0..(PageWords - 1)
  BY <1>1, <1>3, Quotient
<1>5. Place(addr, i) = (PageWords * k) + r
  BY <1>2 DEF Place
<1> HIDE DEF k, r
<1>6. ((PageWords * k) + r) \div PageWords = k
  BY <1>1, <1>2, <1>4, SameQuotient
<1>7. PageWords * k \in Nat
  BY <1>1, <1>2
<1> QED
  BY <1>1, <1>4, <1>5, <1>6, <1>7 DEF k

LEMMA InSector ==
  ASSUME NEW addr \in Nat, NEW a \in SectorAt(addr)
  PROVE  a \div SectorWords = addr \div SectorWords
<1> DEFINE k == addr \div SectorWords
           r == a - (SectorWords * k)
<1>1. SectorWords \in Nat \ {0}
  BY RomAssumption
<1>2. k \in Nat /\ addr - (addr % SectorWords) = SectorWords * k
  BY <1>1, Quotient
<1>3. SectorWords * k \in Nat
  BY <1>1, <1>2
<1>4. a \in (SectorWords * k)..((SectorWords * k) + SectorWords - 1)
  BY <1>2 DEF SectorAt
<1>5. r \in 0..(SectorWords - 1) /\ a = (SectorWords * k) + r
  BY <1>1, <1>3, <1>4
<1> HIDE DEF k, r
<1> QED
  BY <1>1, <1>2, <1>5, SameQuotient DEF k

-----------------------------------------------------------------------------
\* What the operations leave

LEMMA FilledTyped ==
  ASSUME NEW f \in Flashes, NEW addrs, NEW word \in Words
  PROVE  Filled(f, addrs, word) \in Flashes
BY DEF Filled, Flashes

LEMMA EraseLeaves ==
  ASSUME NEW f, NEW addrs, NEW r \in Erase(f, addrs)
  PROVE  /\ r.flash \in {f, Filled(f, addrs, Ones), Filled(f, addrs, Torn)}
         /\ r.fault => faults /= MaxFaults
<1>1. CASE r = Good(Filled(f, addrs, Ones))
  BY <1>1 DEF Good
<1>2. CASE r /= Good(Filled(f, addrs, Ones))
  <2>1. faults /= MaxFaults
    BY <1>2 DEF Erase
  <2>2. \/ \E g \in {f, Filled(f, addrs, Torn)} : r = [flash |-> g, ok |-> FALSE, fault |-> TRUE]
        \/ \E w \in WeakErases :
             r = [flash |-> IF w = "old" THEN f ELSE Filled(f, addrs, Torn),
                  ok |-> TRUE, fault |-> TRUE]
    BY <1>2, <2>1 DEF Erase
  <2>3. r.flash \in {f, Filled(f, addrs, Torn)} /\ r.ok \in BOOLEAN /\ r.fault = TRUE
    <3>1. ASSUME NEW g \in {f, Filled(f, addrs, Torn)},
                 r = [flash |-> g, ok |-> FALSE, fault |-> TRUE]
          PROVE  r.flash = g /\ r.ok = FALSE /\ r.fault = TRUE
      BY <3>1
    <3>2. ASSUME NEW w \in WeakErases,
                 r = [flash |-> IF w = "old" THEN f ELSE Filled(f, addrs, Torn),
                      ok |-> TRUE, fault |-> TRUE]
          PROVE  r.flash \in {f, Filled(f, addrs, Torn)} /\ r.ok = TRUE /\ r.fault = TRUE
      BY <3>2
    <3> QED
      BY <2>2, <3>1, <3>2
  <2> QED
    BY <2>1, <2>3
<1> QED
  BY <1>1, <1>2

LEMMA EraseSound ==
  ASSUME CountInv, NEW f \in Flashes, NEW addrs
  PROVE  Sound(Erase(f, addrs))
<1>1. Filled(f, addrs, Ones) \in Flashes /\ Filled(f, addrs, Torn) \in Flashes
  BY OnesTorn, FilledTyped
<1>2. faults /= MaxFaults => faults < MaxFaults
  BY RomAssumption DEF CountInv
<1> QED
  BY <1>1, <1>2, EraseLeaves DEF Sound

LEMMA GoodSound ==
  ASSUME NEW f \in Flashes
  PROVE  Good(f).flash \in Flashes /\ ~Good(f).fault
BY DEF Good

LEMMA ChipEraseSound ==
  ASSUME FlashInv, CountInv
  PROVE  Sound(ChipErase)
<1> SUFFICES ASSUME NEW r \in ChipErase
             PROVE  r.flash \in Flashes /\ (r.fault => faults < MaxFaults)
  BY DEF Sound
<1>1. PICK a \in Erase(flash, SlotAddrs("A")) :
        \E b \in IF a.fault THEN {Good(Filled(a.flash, SlotAddrs("B"), Ones))}
                 ELSE Erase(a.flash, SlotAddrs("B")) :
          r = [flash |-> b.flash, ok |-> a.ok /\ b.ok, fault |-> a.fault \/ b.fault]
  BY DEF ChipErase
<1>2. PICK b \in IF a.fault THEN {Good(Filled(a.flash, SlotAddrs("B"), Ones))}
                 ELSE Erase(a.flash, SlotAddrs("B")) :
          r = [flash |-> b.flash, ok |-> a.ok /\ b.ok, fault |-> a.fault \/ b.fault]
  BY <1>1
<1>3. a.flash \in Flashes /\ (a.fault => faults < MaxFaults)
  BY EraseSound DEF Sound, FlashInv
<1>4. b.flash \in Flashes /\ (b.fault => faults < MaxFaults)
  <2>1. CASE a.fault
    BY <1>3, <2>1, OnesTorn, FilledTyped, GoodSound
  <2>2. CASE ~a.fault
    BY <1>3, <2>2, EraseSound DEF Sound
  <2> QED
    BY <2>1, <2>2
<1>5. r.flash = b.flash /\ (r.fault => a.fault \/ b.fault)
  BY <1>2
<1> QED
  BY <1>3, <1>4, <1>5

\* A page program writes within its page, whatever it is told to leave out.
LEMMA ProgrammedInPage ==
  ASSUME FlashInv, NEW addr \in Nat, NEW data \in Seq(Words), NEW places \in SUBSET DOMAIN data
  PROVE  /\ Programmed(flash, addr, data, places) \in Flashes
         /\ \A a \in Addrs :
              Programmed(flash, addr, data, places)[a] /= flash[a] =>
                a \div PageWords = addr \div PageWords
<1>1. ASSUME NEW a \in Addrs, NEW i \in places, Place(addr, i) = a
      PROVE  /\ Written(flash[a], data[CHOOSE j \in places : Place(addr, j) = a]) \in Words
             /\ a \div PageWords = addr \div PageWords
  <2>1. i \in Nat \ {0}
    OBVIOUS
  <2>2. (CHOOSE j \in places : Place(addr, j) = a) \in places
    BY <1>1
  <2>3. data[CHOOSE j \in places : Place(addr, j) = a] \in Words
    BY <2>2
  <2>4. flash[a] \in Words /\ Torn \in Words
    BY OnesTorn DEF FlashInv, Flashes
  <2> QED
    BY <1>1, <2>1, <2>3, <2>4, InPage DEF Written
<1>2. ASSUME NEW a \in Addrs, ~\E i \in places : Place(addr, i) = a
      PROVE  Programmed(flash, addr, data, places)[a] = flash[a] /\ flash[a] \in Words
  BY <1>2 DEF Programmed, FlashInv, Flashes
<1>3. ASSUME NEW a \in Addrs PROVE Programmed(flash, addr, data, places)[a] \in Words
  BY <1>1, <1>2 DEF Programmed
<1>4. Programmed(flash, addr, data, places) \in Flashes
  BY <1>3 DEF Programmed, Flashes
<1> QED
  BY <1>1, <1>2, <1>4

LEMMA TornInPage ==
  ASSUME FlashInv, NEW addr \in Nat, NEW data \in Seq(Words), NEW places \in SUBSET DOMAIN data,
         NEW n \in DOMAIN data
  PROVE  /\ TornAt(addr, data, n, places) \in Flashes
         /\ \A a \in Addrs :
              TornAt(addr, data, n, places)[a] /= flash[a] =>
                a \div PageWords = addr \div PageWords
<1> DEFINE f == Programmed(flash, addr, data, places)
<1>1. f \in Flashes /\ \A a \in Addrs : f[a] /= flash[a] => a \div PageWords = addr \div PageWords
  BY ProgrammedInPage
<1>2. n \in Nat \ {0}
  OBVIOUS
<1>3. Place(addr, n) \div PageWords = addr \div PageWords
  BY <1>2, InPage
<1>4. TornAt(addr, data, n, places) = [f EXCEPT ![Place(addr, n)] = Torn]
  BY DEF TornAt
<1> HIDE DEF f
<1>5. TornAt(addr, data, n, places) \in Flashes
  BY <1>1, <1>4, OnesTorn DEF Flashes
<1>6. ASSUME NEW a \in Addrs, a /= Place(addr, n)
      PROVE  TornAt(addr, data, n, places)[a] = f[a]
  BY <1>1, <1>4, <1>6 DEF Flashes
<1> QED
  BY <1>1, <1>3, <1>5, <1>6

LEMMA PageProgramSound ==
  ASSUME FlashInv, CountInv, NEW addr \in Nat, NEW data \in Seq(Words)
  PROVE  /\ Sound(PageProgram(addr, data))
         /\ \A r \in PageProgram(addr, data), a \in Addrs :
              r.flash[a] /= flash[a] => a \div PageWords = addr \div PageWords
<1>1. faults /= MaxFaults => faults < MaxFaults
  BY RomAssumption DEF CountInv
<1>2. ASSUME NEW n \in DOMAIN data PROVE WrittenAfter(addr, data, n) \in SUBSET DOMAIN data
  BY DEF WrittenAfter
<1>3. ASSUME NEW r \in PageProgram(addr, data)
      PROVE  /\ r.flash \in Flashes /\ (r.fault => faults < MaxFaults)
             /\ \A a \in Addrs : r.flash[a] /= flash[a] => a \div PageWords = addr \div PageWords
  <2>1. CASE r = Good(Programmed(flash, addr, data, DOMAIN data))
    <3>1. r.flash = Programmed(flash, addr, data, DOMAIN data) /\ ~r.fault
      BY <2>1 DEF Good
    <3> QED
      BY <3>1, ProgrammedInPage
  <2>2. CASE r /= Good(Programmed(flash, addr, data, DOMAIN data))
    <3>1. faults /= MaxFaults
      BY <2>2, <1>3 DEF PageProgram
    <3>2. PICK n \in DOMAIN data : r.flash = TornAt(addr, data, n, WrittenAfter(addr, data, n))
      BY <2>2, <1>3 DEF PageProgram
    <3> QED
      BY <1>1, <1>2, <3>1, <3>2, TornInPage
  <2> QED
    BY <2>1, <2>2
<1> QED
  BY <1>3 DEF Sound

-----------------------------------------------------------------------------
\* The device and the ROM

LEMMA DeviceTyped ==
  ASSUME DeviceInv
  PROVE  /\ Taken \in Spis /\ Cleared \in Spis /\ SpiDown \in Spis /\ SpiReady \in Spis
         /\ \A cmd \in Cmds : Uploaded(cmd) \in Spis
         /\ \A wel \in BOOLEAN : [spi EXCEPT !.wel = wel] \in Spis
         /\ [spi EXCEPT !.wel = FALSE, !.busy = FALSE] \in Spis
<1>1. NoCmd \in Cmds
  <2>1. << >> \in Seq(Words)
    OBVIOUS
  <2> QED
    BY <2>1 DEF NoCmd, Cmds, Ops
<1>2. SpiDown \in Spis
  BY <1>1 DEF SpiDown, Spis
<1> QED
  BY <1>1, <1>2 DEF DeviceInv, Spis, Taken, Cleared, SpiReady, Uploaded

LEMMA EndsTyped ==
  ASSUME TInv, NEW results, Sound(results), NEW pc, NEW next \in Spis,
         Ends(results, pc, next), erased' \in BOOLEAN
  PROVE  TInv'
<1>1. PICK r \in results :
        flash' = r.flash /\ faults' = (IF r.fault THEN faults + 1 ELSE faults)
  BY DEF Ends
<1>2. flash' \in Flashes
  BY <1>1 DEF Sound
<1>3. faults' \in 0..MaxFaults
  <2>1. faults \in 0..MaxFaults /\ MaxFaults \in Nat
    BY RomAssumption DEF TInv, CountInv
  <2>2. r.fault => faults < MaxFaults
    BY <1>1 DEF Sound
  <2>3. CASE r.fault
    BY <1>1, <2>1, <2>2, <2>3
  <2>4. CASE ~r.fault
    BY <1>1, <2>1, <2>4
  <2> QED
    BY <2>3, <2>4
<1>4. spi' \in Spis
  BY DeviceTyped DEF TInv, Ends
<1> QED
  BY <1>2, <1>3, <1>4 DEF Ends, TInv, FlashInv, DeviceInv, HostInv, CountInv

LEMMA IgnoresTyped ==
  ASSUME TInv, NEW next \in Spis, Ignores(next)
  PROVE  TInv'
BY DEF Ignores, TInv, FlashInv, DeviceInv, HostInv, CountInv

LEMMA FailsTyped ==
  ASSUME TInv, Fails
  PROVE  TInv'
BY DeviceTyped DEF Fails, TInv, FlashInv, DeviceInv, HostInv, CountInv

LEMMA EraseTyped ==
  ASSUME TInv, HandleErase
  PROVE  TInv'
<1>1. Taken \in Spis /\ Cleared \in Spis /\ Sound(ChipErase)
  BY DeviceTyped, ChipEraseSound DEF TInv
<1>2. ASSUME Ends(ChipErase, "verify", Taken), erased' = TRUE PROVE TInv'
  BY <1>1, <1>2, EndsTyped
<1>3. Fails \/ Ignores(Taken) \/ Ignores(Cleared)
      \/ (Ends(ChipErase, "verify", Taken) /\ erased' = TRUE)
  BY DEF HandleErase
<1> QED
  BY <1>1, <1>2, <1>3, FailsTyped, IgnoresTyped

LEMMA ProgramTyped ==
  ASSUME TInv, HandleProgram
  PROVE  TInv'
<1> DEFINE cmd == spi.cmd
<1>1. Taken \in Spis /\ Cleared \in Spis /\ SpiDown \in Spis /\ cmd.data \in Seq(Words)
  BY DeviceTyped DEF TInv, DeviceInv, Spis, Cmds
<1>2. ASSUME NEW results, Sound(results), Serves(results) PROVE TInv'
  BY <1>1, <1>2, EndsTyped DEF Serves, TInv, CountInv
<1>3. CASE Serves(ChipErase)
  BY <1>2, <1>3, ChipEraseSound DEF TInv
<1>4. CASE cmd.addr \in Addrs /\ Serves(Erase(flash, SectorAt(cmd.addr)))
  BY <1>2, <1>4, EraseSound DEF TInv, FlashInv
<1>5. CASE cmd.addr \in Addrs /\ Serves(PageProgram(cmd.addr, cmd.data))
  BY <1>1, <1>2, <1>5, PageProgramSound DEF TInv, Addrs
<1>6. CASE Resets
  BY <1>1, <1>6 DEF Resets, Reset, TInv, FlashInv, DeviceInv, HostInv, CountInv
<1>7. CASE Fails \/ Ignores(Taken) \/ Ignores(Cleared)
  BY <1>1, <1>7, FailsTyped, IgnoresTyped
<1> QED
  BY <1>3, <1>4, <1>5, <1>6, <1>7 DEF HandleProgram

LEMMA ChipTyped ==
  ASSUME TInv, Chip
  PROVE  TInv'
<1>1. SpiReady \in Spis /\ [spi EXCEPT !.wel = FALSE, !.busy = FALSE] \in Spis
  BY DeviceTyped DEF TInv
<1>2. CASE RomStateBootstrapCheck \/ RomTryBootFirst \/ RomTryBootSecond
  BY <1>2 DEF RomStateBootstrapCheck, RomTryBootFirst, RomTryBootSecond,
    TInv, FlashInv, DeviceInv, HostInv, CountInv
<1>3. CASE RomStateBootstrap
  BY <1>1, <1>3 DEF RomStateBootstrap, TInv, FlashInv, DeviceInv, HostInv, CountInv
<1>4. CASE HandleEraseVerify
  BY <1>1, <1>4 DEF HandleEraseVerify, TInv, FlashInv, DeviceInv, HostInv, CountInv
<1> QED
  BY <1>2, <1>3, <1>4, EraseTyped, ProgramTyped DEF Chip

-----------------------------------------------------------------------------
\* The host

LEMMA FileWordTyped ==
  ASSUME NEW f \in FileSets, NEW a \in Addrs
  PROVE  FileWord(f, a) \in Words
<1> DEFINE slot == IF a < SlotWords THEN "A" ELSE "B"
<1>1. slot \in Slots /\ (a - Start(slot)) + 1 \in 1..SlotWords
  BY RomAssumption DEF Addrs, Start, Slots
<1>2. f[slot] \in Images \/ f[slot] = "-"
  BY <1>1 DEF FileSets
<1>3. FileWord(f, a) = IF f[slot] = "-" THEN Ones ELSE Word(f[slot], (a - Start(slot)) + 1)
  BY RomAssumption, <1>1 DEF FileWord, Start, Addrs
<1> HIDE DEF slot
<1> QED
  BY <1>1, <1>2, <1>3, WordTyped, OnesTorn

LEMMA PageInFlash ==
  ASSUME NEW p \in HostPages, NEW i \in 1..PageWords
  PROVE  (p * PageWords) + i - 1 \in Addrs
<1> DEFINE k == (2 * SlotWords) \div PageWords
<1>1. PageWords \in Nat \ {0} /\ 2 * SlotWords \in Nat
  BY RomAssumption
<1>2. k \in Nat /\ PageWords * k <= 2 * SlotWords
  <2>1. ASSUME NEW a \in Nat
        PROVE  a \div PageWords \in Nat /\ PageWords * (a \div PageWords) <= a
    <3>1. a \div PageWords \in Nat /\ a % PageWords \in 0..(PageWords - 1)
          /\ a - (a % PageWords) = PageWords * (a \div PageWords)
      BY <1>1, Quotient
    <3> QED
      BY <1>1, <3>1
  <2> QED
    BY <1>1, <2>1
<1>3. p \in 0..(k - 1)
  BY DEF HostPages
<1> HIDE DEF k
<1>4. PageWords * (p + 1) <= PageWords * k /\ PageWords * p \in Nat
  <2>1. p + 1 \in Nat /\ k - (p + 1) \in Nat /\ k = (p + 1) + (k - (p + 1))
    BY <1>2, <1>3
  <2>2. ASSUME NEW x \in Nat, NEW y \in Nat
        PROVE  PageWords * (x + y) = (PageWords * x) + (PageWords * y) /\ PageWords * y \in Nat
    BY <1>1
  <2>3. PageWords * k = (PageWords * (p + 1)) + (PageWords * (k - (p + 1)))
        /\ PageWords * (k - (p + 1)) \in Nat
    BY <2>1, <2>2
  <2>4. PageWords * (p + 1) \in Nat /\ PageWords * p \in Nat
    BY <1>1, <1>3, <2>1
  <2> QED
    BY <2>3, <2>4
<1>5. PageWords * (p + 1) = (PageWords * p) + PageWords /\ PageWords * p = p * PageWords
  BY <1>1, <1>3
<1> QED
  BY <1>1, <1>2, <1>4, <1>5 DEF Addrs

LEMMA PageDataTyped ==
  ASSUME HostInv
  PROVE  PageData \in Seq(Words)
<1>1. host.file \in FileSets /\ host.page \in HostPages /\ PageWords \in Nat
  BY RomAssumption DEF HostInv, Hosts
<1>2. ASSUME NEW i \in 1..PageWords
      PROVE  FileWord(host.file, host.page * PageWords + i - 1) \in Words
  BY <1>1, PageInFlash, FileWordTyped
<1>3. PageData \in [1..PageWords -> Words]
  BY <1>2 DEF PageData
<1> QED
  BY <1>1, <1>3

LEMMA LeastPage ==
  ASSUME NEW S \in SUBSET Nat, S /= {}
  PROVE  \E p \in S : \A q \in S : p <= q
<1>1. \E p \in S : \A q \in S : ~ (<<q, p>> \in OpToRel(<, Nat))
  BY NatLessThanWellFounded, WFMin, Zenon
<1>2. \A q, p \in Nat : <<q, p>> \in OpToRel(<, Nat) <=> q < p
  BY DEF OpToRel
<1>3. PICK p \in S : \A q \in S : ~ (<<q, p>> \in OpToRel(<, Nat))
  BY <1>1
<1>4. \A q \in S : ~ (q < p)
  BY <1>2, <1>3
<1> QED
  BY <1>4

\* The next page to program is one of flash.
LEMMA NextPage ==
  ASSUME NextPages /= {}
  PROVE  (CHOOSE p \in NextPages : \A q \in NextPages : p <= q) \in HostPages
<1>1. NextPages \subseteq HostPages /\ NextPages \in SUBSET Nat
  BY DEF NextPages, HostPages
<1>2. \E p \in NextPages : \A q \in NextPages : p <= q
  BY <1>1, LeastPage
<1> QED
  BY <1>1, <1>2

LEMMA FirstPage == 0 \in HostPages
<1>1. PageWords \in Nat \ {0} /\ SlotWords \in Nat \ {0} /\ SectorWords \in Nat \ {0}
  BY RomAssumption
<1>2. PageWords <= SectorWords /\ SectorWords <= SlotWords
  BY <1>1, AtLeast, RomAssumption
<1>3. 2 * SlotWords \in Nat \ {0} /\ PageWords <= 2 * SlotWords
  BY <1>1, <1>2
<1>4. (2 * SlotWords) \div PageWords \in Nat \ {0}
  BY <1>1, <1>3, AtLeast
<1> QED
  BY <1>4 DEF HostPages

LEMMA HostTyped ==
  ASSUME TInv, Host
  PROVE  TInv'
<1>1. HostInv /\ DeviceInv
  BY DEF TInv
<1>2. ASSUME NEW pc \in HostPcs, HostGoes(pc) PROVE host' \in Hosts
  BY <1>1, <1>2 DEF HostGoes, HostInv, Hosts, HostPcs
<1>3. Idle \in Hosts
  BY FirstPage DEF Idle, Hosts, HostPcs, FileSets
<1>4. CASE HostReadsSfdp
  BY <1>2, <1>4 DEF HostReadsSfdp, HostPcs, TInv, FlashInv, DeviceInv, HostInv, CountInv
<1>5. CASE HostEnablesWrite
  BY <1>1, <1>2, <1>5, DeviceTyped
  DEF HostEnablesWrite, HostPcs, TInv, FlashInv, DeviceInv, HostInv, CountInv
<1>6. CASE HostSendsCommand
  <2>1. Cmd("chipErase", 0, << >>) \in Cmds
    BY DEF Cmd, Cmds, Ops
  <2>2. host.page * PageWords \in Nat
    BY <1>1, RomAssumption DEF HostInv, Hosts, HostPages
  <2>3. Cmd("pageProgram", host.page * PageWords, PageData) \in Cmds
    BY <1>1, <2>2, PageDataTyped DEF Cmd, Cmds, Ops
  <2>4. spi' \in Spis
    BY <1>1, <1>6, <2>1, <2>3, DeviceTyped DEF HostSendsCommand
  <2> QED
    BY <1>2, <1>6, <2>4 DEF HostSendsCommand, HostPcs, TInv, FlashInv, DeviceInv, HostInv, CountInv
<1>7. CASE HostSeesDone
  <2>1. ASSUME NextPages /= {},
               host' = [host EXCEPT !.pc = "wren", !.erasing = FALSE,
                          !.page = CHOOSE p \in NextPages : \A q \in NextPages : p <= q]
        PROVE  host' \in Hosts
    <3> DEFINE page == CHOOSE p \in NextPages : \A q \in NextPages : p <= q
    <3>1. page \in HostPages
      BY <2>1, NextPage
    <3> HIDE DEF page
    <3> QED
      BY <1>1, <2>1, <3>1 DEF HostInv, Hosts, HostPcs, page
  <2>2. host' \in Hosts
    BY <1>2, <1>7, <2>1 DEF HostSeesDone, HostPcs
  <2> QED
    BY <1>7, <2>2 DEF HostSeesDone, TInv, FlashInv, DeviceInv, HostInv, CountInv
<1>8. CASE HostResetsChip
  <2>1. Cmd("reset", 0, << >>) \in Cmds
    BY DEF Cmd, Cmds, Ops
  <2> QED
    BY <1>1, <1>2, <1>8, <2>1, DeviceTyped
    DEF HostResetsChip, HostPcs, TInv, FlashInv, DeviceInv, HostInv, CountInv
<1>9. CASE HostEnds
  BY <1>1, <1>3, <1>9, DeviceTyped
  DEF HostEnds, Reset, TInv, FlashInv, DeviceInv, HostInv, CountInv
<1> QED
  BY <1>4, <1>5, <1>6, <1>7, <1>8, <1>9 DEF Host

-----------------------------------------------------------------------------
\* The environment

LEMMA ResetTyped ==
  ASSUME TInv, NEW woken, Reset(woken), HostMissesReset
  PROVE  spi' \in Spis /\ host' \in Hosts
BY DeviceTyped DEF Reset, HostMissesReset, TInv, HostInv, Hosts

\* The security version of the image that runs: the ROM found it whole.
LEMMA AdvanceTyped ==
  ASSUME TInv, IInv, RomExtAdvanceSecver
  PROVE  TInv'
<1>1. rom.slot \in Slots /\ Whole(rom.slot)
  BY DEF RomExtAdvanceSecver, IInv, RunInv
<1>2. PICK img \in Signed : Holds(rom.slot, img)
  BY <1>1 DEF Whole
<1>3. img \in Images /\ Header(rom.slot) = img
  BY <1>1, <1>2, RomAssumption, HoldsFirst, HeaderIsUnique
<1>4. min' \in Nat
  BY <1>3, RomAssumption DEF RomExtAdvanceSecver, RunningVersion
<1> QED
  BY <1>4 DEF RomExtAdvanceSecver, TInv, FlashInv, DeviceInv, HostInv, CountInv

LEMMA UpdatedWord ==
  ASSUME NEW slot \in Slots, NEW a \in SlotAddrs(slot), NEW img \in Images
  PROVE  Word(img, a - Start(slot) + 1) \in Words
<1>1. a - Start(slot) + 1 \in 1..SlotWords
  BY RomAssumption DEF SlotAddrs, Start, Slots
<1> QED
  BY <1>1, WordTyped

LEMMA UpdatesTyped ==
  ASSUME TInv, IInv, Updates \/ UpdateBreaksOff
  PROVE  TInv'
<1> DEFINE other == Other(rom.slot)
<1>1. other \in Slots /\ flash \in Flashes
  BY DEF Other, Slots, TInv, FlashInv
<1>2. steps' \in 0..MaxSteps /\ faults' \in 0..MaxFaults
  <2>1. /\ steps \in 0..MaxSteps /\ steps < MaxSteps /\ steps' = steps + 1
        /\ faults \in 0..MaxFaults
        /\ faults' = faults \/ (faults < MaxFaults /\ faults' = faults + 1)
    BY DEF Updates, UpdateBreaksOff, TInv, CountInv
  <2> QED
    BY <2>1, RomAssumption
<1> HIDE DEF other
<1>3. CASE Updates
  <2>1. PICK img \in Images : flash' = Update(other, img)
    BY <1>3 DEF Updates, other
  <2>2. flash' \in Flashes
    BY <1>1, <2>1, UpdatedWord DEF Update, Flashes
  <2> QED
    BY <1>2, <1>3, <2>2 DEF Updates, TInv, FlashInv, DeviceInv, HostInv, CountInv
<1>4. CASE UpdateBreaksOff
  <2>1. PICK img \in Images, n \in 0..(SlotWords - 1) :
          flash' = [a \in Addrs |->
            IF a \notin SlotAddrs(other) THEN flash[a]
            ELSE IF a < Start(other) + n THEN Word(img, a - Start(other) + 1)
            ELSE IF a = Start(other) + n THEN Torn ELSE Ones]
    BY <1>4 DEF UpdateBreaksOff, other
  <2>2. flash' \in Flashes
    BY <1>1, <2>1, UpdatedWord, OnesTorn DEF Flashes
  <2>3. spi' \in Spis /\ host' \in Hosts
    BY <1>4, ResetTyped DEF UpdateBreaksOff
  <2> QED
    BY <1>2, <1>4, <2>2, <2>3 DEF UpdateBreaksOff, TInv, FlashInv, DeviceInv, HostInv, CountInv
<1> QED
  BY <1>3, <1>4

LEMMA CutTyped ==
  ASSUME NEW f \in Flashes, NEW addrs, NEW g \in Cut(f, addrs)
  PROVE  /\ g \in Flashes
         /\ \A a \in Addrs : g[a] /= f[a] => a \in addrs
<1>1. g \in {f, Filled(f, addrs, Torn), Filled(f, addrs, Ones)}
  BY DEF Cut
<1>2. ASSUME NEW word PROVE \A a \in Addrs : Filled(f, addrs, word)[a] /= f[a] => a \in addrs
  BY DEF Filled
<1> QED
  BY <1>1, <1>2, OnesTorn, FilledTyped

LEMMA BreaksOffTyped ==
  ASSUME TInv, BreaksOff
  PROVE  TInv'
<1> DEFINE cmd == spi.cmd
<1>1. flash \in Flashes /\ FlashInv /\ cmd.data \in Seq(Words) /\ erased \in BOOLEAN
  BY DEF TInv, FlashInv, DeviceInv, CountInv, Spis, Cmds
<1>2. spi' \in Spis /\ host' \in Hosts
  BY ResetTyped DEF BreaksOff
<1>3. faults' \in 0..MaxFaults
  BY RomAssumption DEF BreaksOff, TInv, CountInv
<1>4. flash' \in Flashes /\ erased' \in BOOLEAN
  <2>1. CASE /\ flash' \in Cut(flash, SlotAddrs("A"))
                            \cup Cut(Filled(flash, SlotAddrs("A"), Ones), SlotAddrs("B"))
             /\ erased' = TRUE
    BY <1>1, <2>1, CutTyped, FilledTyped, OnesTorn
  <2>2. CASE flash' \in Cut(flash, SectorAt(cmd.addr)) /\ UNCHANGED erased
    BY <1>1, <2>2, CutTyped
  <2>3. CASE /\ cmd.addr \in Addrs /\ UNCHANGED erased
             /\ \E n \in DOMAIN cmd.data : flash' = TornAt(cmd.addr, cmd.data, n, 1..(n - 1))
    <3>1. PICK n \in DOMAIN cmd.data : flash' = TornAt(cmd.addr, cmd.data, n, 1..(n - 1))
      BY <2>3
    <3>2. cmd.addr \in Nat /\ 1..(n - 1) \in SUBSET DOMAIN cmd.data
      BY <1>1, <2>3 DEF Addrs
    <3> QED
      BY <1>1, <2>3, <3>1, <3>2, TornInPage
  <2> QED
    BY <2>1, <2>2, <2>3 DEF BreaksOff
<1> QED
  BY <1>2, <1>3, <1>4 DEF BreaksOff, TInv, FlashInv, DeviceInv, HostInv, CountInv

LEMMA NextTyped ==
  ASSUME TInv, IInv, [Next]_vars
  PROVE  TInv'
<1>1. CASE UNCHANGED vars
  BY <1>1 DEF vars, TInv, FlashInv, DeviceInv, HostInv, CountInv
<1>2. SpiDown \in Spis /\ Idle \in Hosts /\ host \in Hosts
  <2>1. host.page \in HostPages
    BY DEF TInv, HostInv, Hosts
  <2> QED
    BY <2>1, DeviceTyped, FirstPage DEF TInv, HostInv, Idle, Hosts, HostPcs, FileSets
<1>3. CASE HostBegins
  <2>1. PICK f \in Files : host' = [Idle EXCEPT !.pc = "sfdp", !.file = f, !.erasing = TRUE]
    BY <1>3 DEF HostBegins
  <2>2. f \in FileSets
    BY RomAssumption DEF FileSets, Slots
  <2>3. host' \in Hosts
    BY <1>2, <2>1, <2>2 DEF Hosts, HostPcs
  <2>4. steps' \in 0..MaxSteps
    BY <1>3, RomAssumption DEF HostBegins, TInv, CountInv
  <2> QED
    BY <1>2, <1>3, <2>3, <2>4 DEF HostBegins, Reset, TInv, FlashInv, DeviceInv, HostInv, CountInv
<1>4. CASE HostStops \/ SleepsAndWakes \/ StrapReleased
  BY <1>2, <1>4
  DEF HostStops, SleepsAndWakes, StrapReleased, Reset, TInv, FlashInv, DeviceInv, HostInv, CountInv
<1>5. CASE StrayCommand
  <2>1. PICK cmd \in Strays, wel \in BOOLEAN : spi' = [Uploaded(cmd) EXCEPT !.wel = @ \/ wel]
    BY <1>5 DEF StrayCommand
  <2>2. Seq(Images \X (1..SlotWords)) \subseteq Seq(Words)
    BY DEF Words
  <2>3. cmd \in Cmds
    BY <2>2, RomAssumption DEF Cmds, Ops
  <2>4. Uploaded(cmd) \in Spis
    BY <2>3, DeviceTyped DEF TInv
  <2>5. spi' \in Spis
    BY <2>1, <2>4 DEF Spis
  <2>6. steps' \in 0..MaxSteps
    BY <1>5, RomAssumption DEF StrayCommand, TInv, CountInv
  <2> QED
    BY <1>5, <2>5, <2>6 DEF StrayCommand, TInv, FlashInv, DeviceInv, HostInv, CountInv
<1>6. CASE ChipResets
  <2>1. spi' \in Spis /\ host' \in Hosts
    BY <1>6, ResetTyped DEF ChipResets
  <2>2. faults' \in 0..MaxFaults
    <3>1. \/ faults' = faults
          \/ ~(rom.pc = "shutdown" \/ host.pc = "idle") /\ faults' = faults + 1
      BY <1>6 DEF ChipResets
    <3> QED
      BY <1>6, <3>1, RomAssumption DEF ChipResets, TInv, CountInv
  <2> QED
    BY <1>6, <2>1, <2>2 DEF ChipResets, TInv, FlashInv, DeviceInv, HostInv, CountInv
<1> QED
  BY <1>1, <1>3, <1>4, <1>5, <1>6, ChipTyped, HostTyped, AdvanceTyped, UpdatesTyped, BreaksOffTyped
  DEF Next

LEMMA InitTyped ==
  ASSUME Init
  PROVE  TInv
<1>1. PICK img \in Signed :
        flash = [a \in Addrs |-> FileWord([slot \in Slots |-> IF slot = "A" THEN img ELSE "-"], a)]
  BY DEF Init
<1>2. [slot \in Slots |-> IF slot = "A" THEN img ELSE "-"] \in FileSets
  BY RomAssumption DEF FileSets
<1>3. flash \in Flashes
  BY <1>1, <1>2, FileWordTyped DEF Flashes
<1>4. spi \in Spis
  <2>1. << >> \in Seq(Words)
    OBVIOUS
  <2> QED
    BY <2>1 DEF Init, SpiDown, NoCmd, Spis, Cmds, Ops
<1>5. host \in Hosts
  BY FirstPage DEF Init, Idle, Hosts, HostPcs, FileSets
<1>6. chip \in Setups /\ min = 0 /\ strap \in BOOLEAN /\ erased \in BOOLEAN
      /\ steps = 0 /\ faults = 0
  BY DEF Init
<1>7. MaxSteps \in Nat /\ MaxFaults \in Nat
  BY RomAssumption
<1>8. FlashInv /\ DeviceInv
  BY <1>3, <1>4, <1>6 DEF FlashInv, DeviceInv
<1>9. HostInv /\ CountInv
  BY <1>5, <1>6, <1>7 DEF HostInv, CountInv
<1> QED
  BY <1>8, <1>9 DEF TInv

\* Every reachable state has its type.
THEOREM TypeCorrect == Spec => []TypeOK
<1>1. ASSUME TInv, IInv PROVE TypeOK
  <2>1. \A a \in Addrs : flash[a] \in {Ones, Torn} \cup (Images \X (1..SlotWords))
    BY <1>1 DEF TInv, FlashInv, Flashes, Words
  <2>2. spi.up \in BOOLEAN /\ spi.wel \in BOOLEAN /\ spi.busy \in BOOLEAN
    BY <1>1 DEF TInv, DeviceInv, Spis
  <2>3. host.pc \in HostPcs /\ host.page \in 0..(((2 * SlotWords) \div PageWords) - 1)
    BY <1>1 DEF TInv, HostInv, Hosts, HostPages
  <2> QED
    BY <1>1, <2>1, <2>2, <2>3
    DEF TInv, FlashInv, HostInv, CountInv, IInv, StateInv, RomStates, TypeOK
<1>2. Spec => []TInv
  BY InductiveInvariant, InitTyped, NextTyped, PTL DEF Spec
<1> QED
  BY <1>1, <1>2, InductiveInvariant, PTL

\* What a command of the program loop may change: nothing outside its page or
\* sector, whether it is done, fails, or power fails within it.
InPlace ==
  rom.pc = "program" /\ spi.cmd.op /= "chipErase" =>
    \A a \in Addrs : flash'[a] /= flash[a] =>
      \/ spi.cmd.op = "pageProgram" /\ a \div PageWords = spi.cmd.addr \div PageWords
      \/ spi.cmd.op = "sectorErase" /\ a \div SectorWords = spi.cmd.addr \div SectorWords

LEMMA ErasedInPlace ==
  ASSUME TInv, NEW addrs, NEW r \in Erase(flash, addrs), NEW a \in Addrs, r.flash[a] /= flash[a]
  PROVE  a \in addrs
<1>1. r.flash \in {flash, Filled(flash, addrs, Ones), Filled(flash, addrs, Torn)}
  BY EraseLeaves DEF TInv, FlashInv
<1> QED
  BY <1>1 DEF Filled

LEMMA StepsInPlace ==
  ASSUME TInv, [Next]_vars
  PROVE  InPlace
<1> DEFINE cmd == spi.cmd
<1> SUFFICES ASSUME rom.pc = "program", cmd.op /= "chipErase",
                    NEW a \in Addrs, flash'[a] /= flash[a]
             PROVE  \/ cmd.op = "pageProgram" /\ a \div PageWords = cmd.addr \div PageWords
                    \/ cmd.op = "sectorErase" /\ a \div SectorWords = cmd.addr \div SectorWords
  BY DEF InPlace
<1>1. FlashInv /\ CountInv /\ flash \in Flashes /\ cmd.data \in Seq(Words)
  BY DEF TInv, FlashInv, DeviceInv, Spis, Cmds
<1>2. HandleProgram \/ BreaksOff
  BY DEF Next, Chip, Host, vars, RomStateBootstrapCheck, RomStateBootstrap, HandleErase, Waits,
    HandleEraseVerify, RomTryBootFirst, RomTryBootSecond, HostReadsSfdp, HostEnablesWrite,
    HostSendsCommand, HostSeesDone, HostResetsChip, HostEnds, HostBegins, HostStops,
    RomExtAdvanceSecver, Updates, UpdateBreaksOff, SleepsAndWakes, StrapReleased, StrayCommand,
    ChipResets
<1>3. CASE HandleProgram
  <2>1. \/ cmd.op = "sectorErase" /\ cmd.addr \in Addrs /\ Serves(Erase(flash, SectorAt(cmd.addr)))
        \/ cmd.op = "pageProgram" /\ cmd.addr \in Addrs /\ Serves(PageProgram(cmd.addr, cmd.data))
    BY <1>3 DEF HandleProgram, Fails, Resets, Ignores
  <2>2. ASSUME cmd.op = "sectorErase", cmd.addr \in Addrs, Serves(Erase(flash, SectorAt(cmd.addr)))
        PROVE  a \div SectorWords = cmd.addr \div SectorWords
    <3>1. PICK r \in Erase(flash, SectorAt(cmd.addr)) : flash' = r.flash
      BY <2>2 DEF Serves, Ends
    <3>2. a \in SectorAt(cmd.addr) /\ cmd.addr \in Nat
      BY <2>2, <3>1, ErasedInPlace DEF Addrs
    <3> QED
      BY <3>2, InSector
  <2>3. ASSUME cmd.op = "pageProgram", cmd.addr \in Addrs, Serves(PageProgram(cmd.addr, cmd.data))
        PROVE  a \div PageWords = cmd.addr \div PageWords
    <3>1. PICK r \in PageProgram(cmd.addr, cmd.data) : flash' = r.flash
      BY <2>3 DEF Serves, Ends
    <3>2. cmd.addr \in Nat
      BY <2>3 DEF Addrs
    <3> QED
      BY <1>1, <3>1, <3>2, PageProgramSound
  <2> QED
    BY <2>1, <2>2, <2>3
<1>4. CASE BreaksOff
  <2>1. \/ /\ cmd.op = "sectorErase" /\ cmd.addr \in Addrs
           /\ flash' \in Cut(flash, SectorAt(cmd.addr))
        \/ /\ cmd.op = "pageProgram" /\ cmd.addr \in Addrs
           /\ \E n \in DOMAIN cmd.data : flash' = TornAt(cmd.addr, cmd.data, n, 1..(n - 1))
    BY <1>4 DEF BreaksOff
  <2>2. cmd.addr \in Nat
    BY <2>1 DEF Addrs
  <2>3. ASSUME flash' \in Cut(flash, SectorAt(cmd.addr))
        PROVE  a \div SectorWords = cmd.addr \div SectorWords
    <3>1. a \in SectorAt(cmd.addr)
      BY <1>1, <2>3, CutTyped
    <3> QED
      BY <2>2, <3>1, InSector
  <2>4. ASSUME NEW n \in DOMAIN cmd.data, flash' = TornAt(cmd.addr, cmd.data, n, 1..(n - 1))
        PROVE  a \div PageWords = cmd.addr \div PageWords
    <3>1. 1..(n - 1) \in SUBSET DOMAIN cmd.data
      BY <1>1
    <3> QED
      BY <1>1, <2>2, <2>4, <3>1, TornInPage
  <2> QED
    BY <2>1, <2>3, <2>4
<1> QED
  BY <1>2, <1>3, <1>4

\* A page program that begins within its page wraps, and a sector erase is
\* aligned down: neither reaches its neighbours, also when it is cut short.
THEOREM NeighboursAreKept == Spec => CommandsStayInPlace
<1>1. Spec => []TInv
  BY InductiveInvariant, InitTyped, NextTyped, PTL DEF Spec
<1>2. TInv /\ [Next]_vars => InPlace
  BY StepsInPlace
<1>3. InPlace <=>
        (rom.pc = "program" /\ spi.cmd.op /= "chipErase" =>
           \A a \in Addrs : flash'[a] /= flash[a] =>
             \/ /\ spi.cmd.op = "pageProgram"
                /\ a \div PageWords = spi.cmd.addr \div PageWords
             \/ /\ spi.cmd.op = "sectorErase"
                /\ a \div SectorWords = spi.cmd.addr \div SectorWords)
  BY DEF InPlace
<1> QED
  BY <1>1, <1>2, <1>3, PTL DEF Spec, CommandsStayInPlace

-----------------------------------------------------------------------------
(***************************************************************************)
(* A bootstrap that ends has programmed its file.  Between the host's      *)
(* commands the chip does what the host believes: the status register is   *)
(* all that the host sees of it.                                           *)
(***************************************************************************)

Spi(wel, busy, cmd) == [up |-> TRUE, wel |-> wel, busy |-> busy, cmd |-> cmd]

\* A word that holds what the file says, or reads so.
Matches(a) == flash[a] = FileWord(host.file, a) \/ (flash[a] = Torn /\ chip.handler)
Done == \A a \in Addrs : Matches(a)

\* The pages before page n are programmed, the others are erased.
Before(n) == \A a \in Addrs : IF a < n * PageWords THEN Matches(a) ELSE ReadsOnes(a)

\* What the chip shuts down in has not cleared BUSY: the host waits on.
Failed == rom.pc = "shutdown" /\ spi.busy

\* What chip and device hold while the host erases the chip ...
EraseSession ==
  /\ host.pc = "wren" => rom.pc = "erase" /\ spi = Spi(FALSE, FALSE, NoCmd)
  /\ host.pc = "cmd" => rom.pc = "erase" /\ spi = Spi(TRUE, FALSE, NoCmd)
  /\ host.pc = "poll" =>
       \/ rom.pc = "erase" /\ spi = Spi(TRUE, TRUE, Cmd("chipErase", 0, << >>))
       \/ rom.pc = "verify" /\ spi = Spi(TRUE, TRUE, NoCmd)
       \/ rom.pc = "program" /\ spi = Spi(FALSE, FALSE, NoCmd) /\ Before(0)
       \/ Failed

PageCommand == Cmd("pageProgram", host.page * PageWords, PageData)

\* After the last page the chip is told to reset; the pins are still pulled.
Resetting ==
  \/ rom.pc = "program" /\ spi = Spi(FALSE, TRUE, Cmd("reset", 0, << >>))
  \/ rom.pc = "check" /\ ~rom.woken /\ spi = SpiDown
  \/ rom.pc = "bootstrap" /\ spi = SpiDown
  \/ rom.pc = "erase" /\ spi = Spi(FALSE, FALSE, NoCmd)

\* ... and while it programs page after page.
ProgramSession ==
  /\ host.pc = "wren" =>
       rom.pc = "program" /\ spi = Spi(FALSE, FALSE, NoCmd) /\ Before(host.page)
  /\ host.pc = "cmd" =>
       rom.pc = "program" /\ spi = Spi(TRUE, FALSE, NoCmd) /\ Before(host.page)
  /\ host.pc = "poll" =>
       \/ rom.pc = "program" /\ spi = Spi(TRUE, TRUE, PageCommand) /\ Before(host.page)
       \/ rom.pc = "program" /\ spi = Spi(FALSE, FALSE, NoCmd) /\ Before(host.page + 1)
       \/ Failed
  /\ host.pc = "reset" => rom.pc = "program" /\ spi = Spi(FALSE, FALSE, NoCmd) /\ Done
  /\ host.pc = "end" => Resetting /\ ~chip.disabled /\ Done

Serving == {"erase", "verify", "program"}

\* As long as the host has missed no reset.  The pins are pulled throughout, and
\* a host that asks for the table finds the erase loop or nothing.
SessionInv ==
  /\ host.pc /= "idle" => strap
  /\ rom.pc \in Serving => ~chip.disabled
  /\ host.pc = "sfdp" =>
       /\ host.erasing
       /\ IF spi.up THEN rom.pc = "erase" /\ spi = Spi(FALSE, FALSE, NoCmd)
          ELSE rom.pc \notin Serving
  /\ ~host.reset => IF host.erasing THEN EraseSession ELSE ProgramSession

-----------------------------------------------------------------------------
\* Pages of flash

\* A word is of one page, and a page begins at a multiple of its size.
LEMMA PageOf ==
  ASSUME NEW a \in Addrs
  PROVE  /\ a \div PageWords \in HostPages
         /\ \E i \in 1..PageWords : a = ((a \div PageWords) * PageWords) + i - 1
         /\ \A n \in Nat : a < n * PageWords <=> a \div PageWords < n
<1> DEFINE q == a \div PageWords
           j == SectorWords \div PageWords
           k == SlotWords \div SectorWords
           m == 2 * (j * k)
<1>1. PageWords \in Nat \ {0} /\ SectorWords \in Nat \ {0} /\ SlotWords \in Nat \ {0}
  BY RomAssumption
<1>2. a \in Nat /\ a < 2 * SlotWords
  BY <1>1 DEF Addrs
<1>3. q \in Nat /\ a % PageWords \in 0..(PageWords - 1) /\ a - (a % PageWords) = PageWords * q
  BY <1>1, <1>2, Quotient
<1>4. ASSUME NEW n \in Nat \ {0}, NEW b \in Nat, b % n = 0
      PROVE  b \div n \in Nat /\ b = n * (b \div n)
  <2>1. b \div n \in Nat /\ b - (b % n) = n * (b \div n)
    BY Quotient
  <2> QED
    BY <1>4, <2>1
<1>5. /\ j \in Nat /\ SectorWords = PageWords * j
      /\ k \in Nat /\ SlotWords = SectorWords * k
  <2>1. SectorWords % PageWords = 0 /\ SlotWords % SectorWords = 0
    BY RomAssumption
  <2> QED
    BY <1>1, <1>4, <2>1
<1> HIDE DEF q, j, k
<1>6. \A x, y \in Nat : x < y => (PageWords * x) + PageWords <= PageWords * y
  <2> SUFFICES ASSUME NEW x \in Nat, NEW y \in Nat, x < y
               PROVE  (PageWords * x) + PageWords <= PageWords * y
    OBVIOUS
  <2> DEFINE d == y - (x + 1)
  <2>1. d \in Nat /\ y = (x + 1) + d
    OBVIOUS
  <2> HIDE DEF d
  <2>2. PageWords * y = ((PageWords * x) + PageWords) + (PageWords * d)
        /\ PageWords * d \in Nat /\ PageWords * x \in Nat
    BY <1>1, <2>1
  <2> QED
    BY <1>1, <2>2
<1>7. m \in Nat /\ 2 * SlotWords = PageWords * m
  <2>1. j * k \in Nat
    BY <1>5
  <2>2. SlotWords = PageWords * (j * k)
    BY <1>1, <1>5
  <2> HIDE DEF m
  <2>3. \A x \in Nat : 2 * (PageWords * x) = PageWords * (2 * x)
    BY <1>1
  <2> QED
    BY <2>1, <2>2, <2>3 DEF m
<1> HIDE DEF m
<1>8. (2 * SlotWords) \div PageWords = m
  <2>1. ((PageWords * m) + 0) \div PageWords = m
    BY <1>1, <1>7, SameQuotient
  <2>2. PageWords * m \in Nat
    BY <1>1, <1>7
  <2> QED
    BY <1>7, <2>1, <2>2
<1>9. PageWords * q \in Nat /\ PageWords * m \in Nat
  BY <1>1, <1>3, <1>7
<1>10. q < m
  <2>1. q >= m => PageWords * q >= PageWords * m
    BY <1>1, <1>3, <1>6, <1>7, <1>9
  <2> QED
    BY <1>2, <1>3, <1>7, <1>9, <2>1
<1>11. q \in HostPages
  BY <1>3, <1>7, <1>8, <1>10 DEF HostPages
<1>12. PageWords * q = q * PageWords
  BY <1>1, <1>3
<1>13. \E i \in 1..PageWords : a = (q * PageWords) + i - 1
  <2>1. (a % PageWords) + 1 \in 1..PageWords /\ a = (q * PageWords) + ((a % PageWords) + 1) - 1
    BY <1>1, <1>2, <1>3, <1>9, <1>12
  <2> QED
    BY <2>1
<1>14. ASSUME NEW n \in Nat PROVE a < n * PageWords <=> q < n
  <2>1. PageWords * n \in Nat /\ n * PageWords = PageWords * n
    BY <1>1
  <2>2. q < n => a < PageWords * n
    <3>1. q < n => (PageWords * q) + PageWords <= PageWords * n
      BY <1>3, <1>6
    <3> QED
      BY <1>1, <1>2, <1>3, <1>9, <2>1, <3>1
  <2>3. ~(q < n) => ~(a < PageWords * n)
    <3>1. n < q => (PageWords * n) + PageWords <= PageWords * q
      BY <1>3, <1>6
    <3>2. ~(q < n) => PageWords * n <= PageWords * q
      BY <1>1, <1>3, <1>9, <2>1, <3>1
    <3> QED
      BY <1>2, <1>3, <1>9, <2>1, <3>2
  <2> QED
    BY <2>1, <2>2, <2>3
<1> QED
  BY <1>11, <1>13, <1>14 DEF q

\* The words of a page that is programmed from its beginning do not wrap.
LEMMA PlaceInPage ==
  ASSUME NEW p \in Nat, NEW i \in 1..PageWords
  PROVE  /\ p * PageWords \in Nat
         /\ (p * PageWords) \div PageWords = p
         /\ Place(p * PageWords, i) = (p * PageWords) + i - 1
<1> DEFINE addr == p * PageWords
<1>1. PageWords \in Nat \ {0}
  BY RomAssumption
<1>2. addr = PageWords * p /\ addr \in Nat
  BY <1>1
<1>3. addr \div PageWords = p
  <2>1. ((PageWords * p) + 0) \div PageWords = p
    BY <1>1, SameQuotient
  <2> QED
    BY <1>2, <2>1
<1> HIDE DEF addr
<1>4. addr % PageWords = 0
  <2>1. addr % PageWords \in 0..(PageWords - 1)
        /\ addr - (addr % PageWords) = PageWords * (addr \div PageWords)
    BY <1>1, <1>2, Quotient
  <2> QED
    BY <1>2, <1>3, <2>1
<1>5. (i - 1) % PageWords = i - 1
  <2>1. i - 1 \in 0..(PageWords - 1) /\ i - 1 \in Nat
    BY <1>1
  <2>2. ((PageWords * 0) + (i - 1)) \div PageWords = 0
    BY <1>1, <2>1, SameQuotient
  <2>3. (PageWords * 0) + (i - 1) = i - 1 /\ PageWords * 0 = 0
    BY <1>1, <2>1
  <2>4. (i - 1) \div PageWords = 0
    BY <2>2, <2>3
  <2>5. (i - 1) % PageWords \in 0..(PageWords - 1)
        /\ (i - 1) - ((i - 1) % PageWords) = PageWords * ((i - 1) \div PageWords)
    BY <1>1, <2>1, Quotient
  <2> QED
    BY <2>1, <2>3, <2>4, <2>5
<1>6. (addr - (addr - (addr % PageWords))) + i - 1 = i - 1
  BY <1>2, <1>4
<1>7. Place(addr, i) = addr + i - 1
  BY <1>2, <1>4, <1>5, <1>6 DEF Place
<1> QED
  BY <1>2, <1>3, <1>7 DEF addr

\* What programming the host's page leaves.
LEMMA HostPageProgrammed ==
  ASSUME TInv, NEW a \in Addrs
  PROVE  Programmed(flash, host.page * PageWords, PageData, DOMAIN PageData)[a]
           = IF a \div PageWords = host.page THEN Written(flash[a], FileWord(host.file, a))
             ELSE flash[a]
<1> DEFINE p == host.page
           addr == p * PageWords
<1>1. p \in HostPages /\ p \in Nat
  BY DEF TInv, HostInv, Hosts, HostPages
<1>2. DOMAIN PageData = 1..PageWords
      /\ \A i \in 1..PageWords : PageData[i] = FileWord(host.file, addr + i - 1)
  BY DEF PageData
<1>3. \A i \in 1..PageWords :
        /\ Place(addr, i) = addr + i - 1
        /\ addr \div PageWords = p
        /\ Place(addr, i) \div PageWords = p
  <2> SUFFICES ASSUME NEW i \in 1..PageWords
               PROVE  /\ Place(addr, i) = addr + i - 1
                      /\ addr \div PageWords = p
                      /\ Place(addr, i) \div PageWords = p
    OBVIOUS
  <2>1. addr \in Nat /\ addr \div PageWords = p /\ Place(addr, i) = addr + i - 1
    BY <1>1, PlaceInPage
  <2>2. i \in Nat \ {0}
    OBVIOUS
  <2> QED
    BY <2>1, <2>2, InPage
<1> HIDE DEF addr
<1>4. CASE a \div PageWords = p
  <2>1. \E i \in 1..PageWords : Place(addr, i) = a
    BY <1>3, <1>4, PageOf DEF addr
  <2> DEFINE i == CHOOSE j \in 1..PageWords : Place(addr, j) = a
  <2>2. i \in 1..PageWords /\ Place(addr, i) = a
    BY <2>1
  <2> HIDE DEF i
  <2>3. PageData[i] = FileWord(host.file, a)
    BY <1>2, <1>3, <2>2
  <2>4. Programmed(flash, addr, PageData, DOMAIN PageData)[a] = Written(flash[a], PageData[i])
    BY <1>2, <2>1 DEF Programmed, i
  <2> QED
    BY <1>4, <2>3, <2>4 DEF addr
<1>5. CASE a \div PageWords /= p
  <2>1. ~\E i \in DOMAIN PageData : Place(addr, i) = a
    BY <1>2, <1>3, <1>5
  <2>2. Programmed(flash, addr, PageData, DOMAIN PageData)[a] = flash[a]
    BY <2>1 DEF Programmed
  <2> QED
    BY <1>5, <2>2 DEF addr
<1> QED
  BY <1>4, <1>5

-----------------------------------------------------------------------------
\* Page by page

\* An erased word takes the file's.
LEMMA WrittenMatches ==
  ASSUME NEW a \in Addrs, ReadsOnes(a)
  PROVE  LET word == Written(flash[a], FileWord(host.file, a))
         IN  word = FileWord(host.file, a) \/ (word = Torn /\ chip.handler)
BY DEF ReadsOnes, Written, Ones, Torn

LEMMA PageIsProgrammed ==
  ASSUME TInv, Before(host.page), UNCHANGED << chip, host >>,
         flash' = Programmed(flash, host.page * PageWords, PageData, DOMAIN PageData)
  PROVE  Before(host.page + 1)'
<1> DEFINE p == host.page
<1>1. p \in Nat /\ p + 1 \in Nat
  BY DEF TInv, HostInv, Hosts, HostPages
<1> SUFFICES ASSUME NEW a \in Addrs
             PROVE  IF a < (p + 1) * PageWords THEN Matches(a)' ELSE ReadsOnes(a)'
  BY DEF Before
<1>2. /\ a < (p + 1) * PageWords <=> a \div PageWords < p + 1
      /\ a < p * PageWords <=> a \div PageWords < p
      /\ a \div PageWords \in Nat
  BY <1>1, PageOf DEF HostPages
<1>3. IF a \div PageWords < p THEN Matches(a) ELSE ReadsOnes(a)
  BY <1>2 DEF Before
<1>4. flash'[a] = IF a \div PageWords = p THEN Written(flash[a], FileWord(host.file, a))
                  ELSE flash[a]
  BY HostPageProgrammed
<1>5. CASE a \div PageWords < p
  BY <1>1, <1>2, <1>3, <1>4, <1>5 DEF Matches
<1>6. CASE a \div PageWords = p
  <2>1. ReadsOnes(a)
    BY <1>1, <1>2, <1>3, <1>6
  <2>2. flash'[a] = FileWord(host.file, a) \/ (flash'[a] = Torn /\ chip.handler)
    BY <1>4, <1>6, <2>1, WrittenMatches
  <2> QED
    BY <1>1, <1>2, <1>6, <2>2 DEF Matches
<1>7. CASE a \div PageWords > p
  BY <1>1, <1>2, <1>3, <1>4, <1>7 DEF ReadsOnes
<1> QED
  BY <1>1, <1>2, <1>5, <1>6, <1>7

\* An erased page that the file leaves out holds what the file says.
LEMMA NoDataMatches ==
  ASSUME NEW a \in Addrs, ReadsOnes(a), ~HasData(a \div PageWords)
  PROVE  Matches(a)
<1>1. PICK i \in 1..PageWords : a = ((a \div PageWords) * PageWords) + i - 1
  BY PageOf
<1>2. FileWord(host.file, a) = Ones
  BY <1>1 DEF HasData
<1> QED
  BY <1>2 DEF ReadsOnes, Matches

LEMMA PagesAreSkipped ==
  ASSUME NEW n \in Nat, Before(n), NEW p \in Nat,
         \A q \in HostPages : n <= q /\ q < p => ~HasData(q)
  PROVE  n <= p => Before(p)
<1> SUFFICES ASSUME n <= p, NEW a \in Addrs
             PROVE  IF a < p * PageWords THEN Matches(a) ELSE ReadsOnes(a)
  BY DEF Before
<1> DEFINE q == a \div PageWords
<1>1. q \in HostPages /\ q \in Nat /\ (a < p * PageWords <=> q < p) /\ (a < n * PageWords <=> q < n)
  BY PageOf DEF HostPages
<1>2. IF q < n THEN Matches(a) ELSE ReadsOnes(a)
  BY <1>1 DEF Before
<1>3. ASSUME ReadsOnes(a), n <= q, q < p PROVE Matches(a)
  BY <1>1, <1>3, NoDataMatches
<1> HIDE DEF q
<1> QED
  BY <1>1, <1>2, <1>3

LEMMA LastPage ==
  ASSUME NEW n \in Nat, Before(n), \A q \in HostPages : n <= q => ~HasData(q)
  PROVE  Done
<1> SUFFICES ASSUME NEW a \in Addrs PROVE Matches(a)
  BY DEF Done
<1> DEFINE q == a \div PageWords
<1>1. q \in HostPages /\ q \in Nat /\ (a < n * PageWords <=> q < n)
  BY PageOf DEF HostPages
<1>2. IF q < n THEN Matches(a) ELSE ReadsOnes(a)
  BY <1>1 DEF Before
<1>3. ASSUME ReadsOnes(a), n <= q PROVE Matches(a)
  BY <1>1, <1>3, NoDataMatches
<1> HIDE DEF q
<1> QED
  BY <1>1, <1>2, <1>3

\* The host goes from one page with data to the next.
LEMMA HostGoesOn ==
  ASSUME HostInv, NEW n \in Nat, n = (IF host.erasing THEN 0 ELSE host.page + 1), Before(n)
  PROVE  /\ NextPages = {} => Done
         /\ NextPages /= {} =>
              Before(CHOOSE p \in NextPages : \A q \in NextPages : p <= q)
<1>1. host.page \in Nat
  BY DEF HostInv, Hosts, HostPages
<1>2. \A q \in HostPages : q \in NextPages <=> HasData(q) /\ n <= q
  BY <1>1 DEF NextPages, HostPages
<1>3. NextPages \subseteq HostPages /\ HostPages \subseteq Nat
  BY DEF NextPages, HostPages
<1>4. ASSUME NextPages = {} PROVE Done
  BY <1>2, <1>4, LastPage
<1>5. ASSUME NextPages /= {}
      PROVE  Before(CHOOSE p \in NextPages : \A q \in NextPages : p <= q)
  <2> DEFINE p == CHOOSE p \in NextPages : \A q \in NextPages : p <= q
  <2>1. p \in NextPages /\ \A q \in NextPages : p <= q
    BY <1>3, <1>5, LeastPage
  <2> HIDE DEF p
  <2>2. p \in Nat /\ n <= p /\ \A q \in HostPages : n <= q /\ q < p => ~HasData(q)
    BY <1>2, <1>3, <2>1
  <2>3. Before(p)
    BY <2>2, PagesAreSkipped
  <2> QED
    BY <2>3 DEF p
<1> QED
  BY <1>4, <1>5

\* What verifies as erased is erased.
LEMMA ErasedBefore ==
  ASSUME EraseVerify
  PROVE  Before(0)
<1> SUFFICES ASSUME NEW a \in Addrs PROVE ReadsOnes(a) /\ ~(a < 0 * PageWords)
  BY DEF Before
<1>1. \E slot \in Slots : a \in SlotAddrs(slot)
  <2>1. a < SlotWords => a \in SlotAddrs("A")
    BY RomAssumption DEF Addrs, SlotAddrs, Start
  <2>2. ~(a < SlotWords) => a \in SlotAddrs("B")
    BY RomAssumption DEF Addrs, SlotAddrs, Start
  <2> QED
    BY <2>1, <2>2 DEF Slots
<1>2. ReadsOnes(a)
  BY <1>1 DEF EraseVerify
<1>3. 0 * PageWords = 0 /\ a \in Nat
  BY RomAssumption DEF Addrs
<1> QED
  BY <1>2, <1>3

-----------------------------------------------------------------------------
\* The steps of a bootstrap

\* What a step leaves alone that touches neither flash nor the host.
Quiet == UNCHANGED << chip, flash, strap, host >>

LEMMA QuietKeepsPages ==
  ASSUME Quiet, NEW n \in Nat
  PROVE  (Before(n) => Before(n)') /\ (Done => Done')
<1>1. Before(n) => Before(n)'
  BY DEF Quiet, Before, Matches, ReadsOnes
<1>2. Done => Done'
  BY DEF Quiet, Done, Matches
<1> QED
  BY <1>1, <1>2

\* The status register and the state machine, field by field.
LEMMA SpiIs ==
  ASSUME NEW s \in Spis, s.up
  PROVE  s = Spi(s.wel, s.busy, s.cmd)
BY DEF Spi, Spis

LEMMA NoCmdTyped == NoCmd \in Cmds
<1>1. << >> \in Seq(Words)
  OBVIOUS
<1> QED
  BY <1>1 DEF NoCmd, Cmds, Ops

LEMMA SpiFields ==
  ASSUME NEW wel, NEW busy, NEW cmd, spi = Spi(wel, busy, cmd)
  PROVE  spi.up /\ spi.wel = wel /\ spi.busy = busy /\ spi.cmd = cmd
BY DEF Spi

LEMMA SpiCleared ==
  ASSUME DeviceInv, NEW wel, NEW busy, NEW cmd, spi = Spi(wel, busy, cmd)
  PROVE  /\ Taken = Spi(wel, busy, NoCmd)
         /\ Cleared = Spi(FALSE, FALSE, NoCmd)
         /\ [spi EXCEPT !.wel = FALSE, !.busy = FALSE] = Spi(FALSE, FALSE, cmd)
<1>1. spi \in Spis /\ NoCmd \in Cmds /\ spi.up /\ spi.wel = wel /\ spi.busy = busy /\ spi.cmd = cmd
  BY SpiFields, NoCmdTyped DEF DeviceInv
<1>3. ASSUME NEW s \in Spis, NEW t, t = [s EXCEPT !.wel = FALSE, !.busy = FALSE]
      PROVE  t \in Spis /\ t.up = s.up /\ t.wel = FALSE /\ t.busy = FALSE /\ t.cmd = s.cmd
  BY <1>3 DEF Spis
<1>4. ASSUME NEW s \in Spis, NEW t, t = [s EXCEPT !.cmd = NoCmd]
      PROVE  t \in Spis /\ t.up = s.up /\ t.wel = s.wel /\ t.busy = s.busy /\ t.cmd = NoCmd
  BY <1>1, <1>4 DEF Spis
<1>5. Taken \in Spis /\ Taken.up /\ Taken.wel = wel /\ Taken.busy = busy /\ Taken.cmd = NoCmd
  BY <1>1, <1>4 DEF Taken
<1>6. Taken = Spi(wel, busy, NoCmd)
  BY <1>5, SpiIs
<1>7. Cleared = Spi(FALSE, FALSE, NoCmd)
  <2>1. Cleared = [Taken EXCEPT !.wel = FALSE, !.busy = FALSE]
    BY DEF Cleared
  <2>2. Cleared \in Spis /\ Cleared.up /\ Cleared.wel = FALSE /\ Cleared.busy = FALSE
        /\ Cleared.cmd = NoCmd
    BY <1>3, <1>5, <2>1
  <2> QED
    BY <2>2, SpiIs
<1>8. [spi EXCEPT !.wel = FALSE, !.busy = FALSE] = Spi(FALSE, FALSE, cmd)
  <2> DEFINE t == [spi EXCEPT !.wel = FALSE, !.busy = FALSE]
  <2>1. t \in Spis /\ t.up /\ t.wel = FALSE /\ t.busy = FALSE /\ t.cmd = cmd
    BY <1>1, <1>3
  <2> HIDE DEF t
  <2>2. t = Spi(FALSE, FALSE, cmd)
    BY <2>1, SpiIs
  <2> QED
    BY <2>2 DEF t
<1> QED
  BY <1>6, <1>7, <1>8

LEMMA WriteEnabled ==
  ASSUME DeviceInv, spi = Spi(FALSE, FALSE, NoCmd), NEW t, t = [spi EXCEPT !.wel = TRUE]
  PROVE  t = Spi(TRUE, FALSE, NoCmd)
<1>1. spi \in Spis /\ spi.up /\ spi.busy = FALSE /\ spi.cmd = NoCmd
  BY SpiFields DEF DeviceInv
<1>2. t \in Spis /\ t.up /\ t.wel = TRUE /\ t.busy = FALSE /\ t.cmd = NoCmd
  BY <1>1 DEF Spis
<1> QED
  BY <1>2, SpiIs

LEMMA UploadedTo ==
  ASSUME DeviceInv, NEW wel, NEW cmd \in Cmds, spi = Spi(wel, FALSE, NoCmd)
  PROVE  Uploaded(cmd) = Spi(wel, TRUE, cmd)
<1>1. spi \in Spis /\ spi.up /\ spi.wel = wel /\ spi.cmd = NoCmd
  BY SpiFields DEF DeviceInv
<1> DEFINE t == [spi EXCEPT !.busy = TRUE, !.cmd = cmd]
<1>2. Uploaded(cmd) = t
  BY <1>1 DEF Uploaded
<1>3. ASSUME NEW s \in Spis, NEW u, u = [s EXCEPT !.busy = TRUE, !.cmd = cmd]
      PROVE  u \in Spis /\ u.up = s.up /\ u.wel = s.wel /\ u.busy = TRUE /\ u.cmd = cmd
  BY <1>3 DEF Spis
<1>4. t \in Spis /\ t.up /\ t.wel = wel /\ t.busy = TRUE /\ t.cmd = cmd
  BY <1>1, <1>3
<1> HIDE DEF t
<1>5. t = Spi(wel, TRUE, cmd)
  BY <1>4, SpiIs
<1> QED
  BY <1>2, <1>5

\* The host's commands have their type.
LEMMA CommandsTyped ==
  ASSUME HostInv
  PROVE  /\ Cmd("chipErase", 0, << >>) \in Cmds /\ Cmd("reset", 0, << >>) \in Cmds
         /\ PageCommand \in Cmds
<1>1. << >> \in Seq(Words)
  OBVIOUS
<1>2. host.page * PageWords \in Nat
  BY RomAssumption DEF HostInv, Hosts, HostPages
<1>3. PageCommand \in Cmds
  BY <1>2, PageDataTyped DEF PageCommand, Cmd, Cmds, Ops
<1> QED
  BY <1>1, <1>3 DEF Cmd, Cmds, Ops

LEMMA GoesTo ==
  ASSUME StateInv, NEW pc \in Pcs, Goes(pc)
  PROVE  rom'.pc = pc /\ rom'.woken = rom.woken
BY DEF StateInv, RomStates, Goes

LEMMA SpiReadyIs == SpiReady = Spi(FALSE, FALSE, NoCmd) /\ ~SpiDown.up
<1>1. SpiDown \in Spis /\ ~SpiDown.up
  BY NoCmdTyped DEF SpiDown, Spis
<1>2. ASSUME NEW s \in Spis, NEW t, t = [s EXCEPT !.up = TRUE]
      PROVE  t \in Spis /\ t.up /\ t.wel = s.wel /\ t.busy = s.busy /\ t.cmd = s.cmd
  BY <1>2 DEF Spis
<1>3. SpiReady \in Spis /\ SpiReady.up /\ SpiReady.wel = SpiDown.wel
      /\ SpiReady.busy = SpiDown.busy /\ SpiReady.cmd = SpiDown.cmd
  BY <1>1, <1>2 DEF SpiReady
<1>4. SpiDown.wel = FALSE /\ SpiDown.busy = FALSE /\ SpiDown.cmd = NoCmd
  BY DEF SpiDown
<1> QED
  BY <1>1, <1>3, <1>4, SpiIs

LEMMA OpsDiffer ==
  /\ NoCmd /= Cmd("chipErase", 0, << >>) /\ NoCmd /= Cmd("reset", 0, << >>)
  /\ Cmd("chipErase", 0, << >>).op = "chipErase"
  /\ Cmd("reset", 0, << >>).op = "reset"
  /\ NoCmd /= PageCommand /\ PageCommand.op = "pageProgram"
  /\ PageCommand.addr = host.page * PageWords /\ PageCommand.data = PageData
BY DEF NoCmd, Cmd, PageCommand

\* The host is told of no reset, or waits for one and sees it.
LEMMA ResetEndsSession ==
  ASSUME SessionInv, HostInv, NEW woken, Reset(woken), HostMissesReset,
         UNCHANGED << chip, strap >>
  PROVE  SessionInv'
<1>1. rom'.pc \notin Serving /\ ~spi'.up
  BY DEF Reset, SpiDown, Serving
<1>2. host'.pc = host.pc /\ host'.erasing = host.erasing
      /\ (host'.reset \/ (host'.pc \in {"idle", "sfdp"} /\ host' = host))
  BY DEF HostMissesReset, HostInv, Hosts
<1> QED
  BY <1>1, <1>2 DEF SessionInv, EraseSession, ProgramSession

LEMMA CheckInSession ==
  ASSUME SessionInv, TInv, StateInv, RomStateBootstrapCheck
  PROVE  SessionInv'
<1>1. Quiet /\ UNCHANGED spi /\ rom.pc = "check"
  BY DEF RomStateBootstrapCheck, Quiet
<1>2. rom'.pc \in {"bootstrap", "boot"}
  <2>1. Goes("bootstrap") => rom'.pc = "bootstrap"
    BY GoesTo DEF Pcs
  <2> QED
    BY <2>1 DEF RomStateBootstrapCheck, StateInv, RomStates
<1>3. ~rom.woken /\ strap /\ ~chip.disabled => rom'.pc = "bootstrap"
  BY GoesTo DEF RomStateBootstrapCheck, Requested, Pcs
<1>4. Done => Done'
  BY <1>1, QuietKeepsPages
<1>5. ~host.reset => (IF host.erasing THEN EraseSession' ELSE ProgramSession')
  BY <1>1, <1>2, <1>3, <1>4
  DEF Quiet, SessionInv, EraseSession, ProgramSession, Resetting, Failed, Spi, SpiDown
<1> QED
  BY <1>1, <1>2, <1>5 DEF Quiet, SessionInv, Serving

LEMMA BootstrapInSession ==
  ASSUME SessionInv, TInv, StateInv, RomStateBootstrap
  PROVE  SessionInv'
<1>1. Quiet /\ rom.pc = "bootstrap"
  BY DEF RomStateBootstrap, Quiet
<1>2. \/ strap /\ ~chip.disabled /\ rom'.pc = "erase" /\ spi' = Spi(FALSE, FALSE, NoCmd)
      \/ ~(strap /\ ~chip.disabled) /\ rom'.pc = "shutdown" /\ UNCHANGED spi
  BY GoesTo, SpiReadyIs DEF RomStateBootstrap, Requested, Pcs
<1>3. Done => Done'
  BY <1>1, QuietKeepsPages
<1>4. ~host.reset => (IF host.erasing THEN EraseSession' ELSE ProgramSession')
  BY <1>1, <1>2, <1>3
  DEF Quiet, SessionInv, EraseSession, ProgramSession, Resetting, Failed
<1>5. host.pc = "sfdp" => ~spi.up
  BY <1>1 DEF SessionInv
<1>6. Spi(FALSE, FALSE, NoCmd).up
  BY DEF Spi
<1> QED
  BY <1>1, <1>2, <1>4, <1>5, <1>6 DEF Quiet, SessionInv, Serving

\* Where the chip serves a command in a session that knows of no reset.
LEMMA EraseWaits ==
  ASSUME SessionInv, Waits("erase")
  PROVE  /\ host.pc /= "sfdp"
         /\ ~host.reset => IF host.erasing
              THEN host.pc \notin {"wren", "cmd"}
                   /\ (host.pc = "poll" => spi = Spi(TRUE, TRUE, Cmd("chipErase", 0, << >>)))
              ELSE host.pc \notin {"wren", "cmd", "poll", "reset", "end"}
<1>1. rom.pc = "erase" /\ spi.cmd /= NoCmd
  BY DEF Waits
<1>2. \A wel, busy : spi /= Spi(wel, busy, NoCmd)
  BY <1>1 DEF Spi
<1>3. host.pc /= "sfdp"
  BY <1>1, <1>2 DEF SessionInv, Serving
<1>4. ASSUME ~host.reset, host.erasing
      PROVE  host.pc \notin {"wren", "cmd"}
             /\ (host.pc = "poll" => spi = Spi(TRUE, TRUE, Cmd("chipErase", 0, << >>)))
  BY <1>1, <1>2, <1>4 DEF SessionInv, EraseSession, Failed
<1>5. ASSUME ~host.reset, ~host.erasing
      PROVE  host.pc \notin {"wren", "cmd", "poll", "reset", "end"}
  BY <1>1, <1>2, <1>5 DEF SessionInv, ProgramSession, Resetting, Failed
<1> QED
  BY <1>3, <1>4, <1>5

LEMMA EraseInSession ==
  ASSUME SessionInv, TInv, StateInv, HandleErase
  PROVE  SessionInv'
<1>1. Waits("erase") /\ UNCHANGED << chip, strap, host >>
  BY DEF HandleErase, Fails, Ignores, Ends
<1>2. ~chip.disabled
  BY <1>1 DEF Waits, SessionInv, Serving
<1>3. ASSUME spi = Spi(TRUE, TRUE, Cmd("chipErase", 0, << >>))
      PROVE  \/ rom'.pc = "verify" /\ spi' = Spi(TRUE, TRUE, NoCmd)
             \/ rom'.pc = "shutdown" /\ spi'.busy
  <2>1. spi.wel /\ spi.cmd.op = "chipErase" /\ Taken = Spi(TRUE, TRUE, NoCmd)
    BY <1>3, SpiFields, SpiCleared, OpsDiffer DEF TInv
  <2>2. Ends(ChipErase, "verify", Taken)
    BY <2>1 DEF HandleErase, Erases
  <2>3. PICK r \in ChipErase :
          IF r.ok THEN Goes("verify") /\ spi' = Taken ELSE Goes("shutdown") /\ spi' = Taken
    BY <2>2 DEF Ends
  <2>4. Spi(TRUE, TRUE, NoCmd).busy
    BY DEF Spi
  <2> QED
    BY <2>1, <2>3, <2>4, GoesTo DEF Pcs
<1>4. ~host.reset => (IF host.erasing THEN EraseSession' ELSE ProgramSession')
  BY <1>1, <1>3, EraseWaits DEF EraseSession, ProgramSession, Failed, HostInv, Hosts
<1> QED
  BY <1>1, <1>2, <1>4, EraseWaits DEF SessionInv

LEMMA VerifyInSession ==
  ASSUME SessionInv, TInv, StateInv, HandleEraseVerify
  PROVE  SessionInv'
<1>1. Quiet /\ rom.pc = "verify"
  BY DEF HandleEraseVerify, Quiet
<1>2. ~chip.disabled /\ host.pc /= "sfdp"
  BY <1>1 DEF SessionInv, Serving
<1>3. ASSUME spi = Spi(TRUE, TRUE, NoCmd)
      PROVE  \/ rom'.pc = "program" /\ spi' = Spi(FALSE, FALSE, NoCmd) /\ Before(0)'
             \/ rom'.pc = "shutdown" /\ spi'.busy
  <2>1. spi.busy /\ [spi EXCEPT !.wel = FALSE, !.busy = FALSE] = Spi(FALSE, FALSE, NoCmd)
    BY <1>3, SpiFields, SpiCleared DEF TInv
  <2>2. EraseVerify => Before(0)'
    BY <1>1, ErasedBefore, QuietKeepsPages
  <2> QED
    BY <2>1, <2>2, GoesTo DEF HandleEraseVerify, Pcs
<1>4. ~host.reset => (IF host.erasing THEN EraseSession' ELSE ProgramSession')
  BY <1>1, <1>3 DEF Quiet, SessionInv, EraseSession, ProgramSession, Resetting, Failed
<1> QED
  BY <1>1, <1>2, <1>4 DEF Quiet, SessionInv

LEMMA ProgramWaits ==
  ASSUME SessionInv, Waits("program")
  PROVE  /\ host.pc /= "sfdp"
         /\ ~host.reset => IF host.erasing
              THEN host.pc \notin {"wren", "cmd", "poll"}
              ELSE /\ host.pc \notin {"wren", "cmd", "reset"}
                   /\ host.pc = "poll" => spi = Spi(TRUE, TRUE, PageCommand) /\ Before(host.page)
                   /\ host.pc = "end" =>
                        /\ spi = Spi(FALSE, TRUE, Cmd("reset", 0, << >>))
                        /\ ~chip.disabled /\ Done
<1>1. rom.pc = "program" /\ spi.cmd /= NoCmd
  BY DEF Waits
<1>2. \A wel, busy : spi /= Spi(wel, busy, NoCmd)
  BY <1>1 DEF Spi
<1>3. host.pc /= "sfdp"
  BY <1>1, <1>2 DEF SessionInv, Serving
<1>4. ASSUME ~host.reset, host.erasing
      PROVE  host.pc \notin {"wren", "cmd", "poll"}
  BY <1>1, <1>2, <1>4 DEF SessionInv, EraseSession, Failed
<1>5. ASSUME ~host.reset, ~host.erasing
      PROVE  /\ host.pc \notin {"wren", "cmd", "reset"}
             /\ host.pc = "poll" => spi = Spi(TRUE, TRUE, PageCommand) /\ Before(host.page)
             /\ host.pc = "end" =>
                  /\ spi = Spi(FALSE, TRUE, Cmd("reset", 0, << >>))
                  /\ ~chip.disabled /\ Done
  BY <1>1, <1>2, <1>5 DEF SessionInv, ProgramSession, Resetting, Failed
<1> QED
  BY <1>3, <1>4, <1>5

\* The page that the host waits for is programmed, or the chip shuts down.
LEMMA PageCommandServed ==
  ASSUME TInv, StateInv, HandleProgram, Before(host.page), spi = Spi(TRUE, TRUE, PageCommand)
  PROVE  \/ /\ rom'.pc = "program" /\ spi' = Spi(FALSE, FALSE, NoCmd)
            /\ Before(host.page + 1)'
         \/ rom'.pc = "shutdown" /\ spi'.busy
<1>1. /\ spi.wel /\ spi.cmd = PageCommand
      /\ Taken = Spi(TRUE, TRUE, NoCmd) /\ Cleared = Spi(FALSE, FALSE, NoCmd)
  BY SpiFields, SpiCleared DEF TInv
<1>2. spi.cmd.op = "pageProgram" /\ spi.cmd.addr = host.page * PageWords /\ spi.cmd.data = PageData
  BY <1>1, OpsDiffer
<1>3. host.page * PageWords \in Addrs
  <2>1. host.page \in HostPages /\ 1 \in 1..PageWords
    BY RomAssumption DEF TInv, HostInv, Hosts
  <2>2. host.page * PageWords \in Nat
    BY <2>1, PlaceInPage DEF HostPages
  <2>3. (host.page * PageWords) + 1 - 1 \in Addrs
    BY <2>1, PageInFlash
  <2> QED
    BY <2>2, <2>3
<1>4. Serves(PageProgram(host.page * PageWords, PageData))
  BY <1>1, <1>2, <1>3 DEF HandleProgram
<1>5. PICK r \in PageProgram(host.page * PageWords, PageData) :
        /\ flash' = r.flash
        /\ IF r.ok THEN Goes("program") /\ spi' = Cleared ELSE Goes("shutdown") /\ spi' = Taken
  BY <1>4 DEF Serves, Ends
<1>6. UNCHANGED << chip, host >>
  BY <1>4 DEF Serves, Ends
<1>7. CASE r.ok
  <2>1. r = Good(Programmed(flash, host.page * PageWords, PageData, DOMAIN PageData))
    BY <1>5, <1>7 DEF PageProgram
  <2>2. flash' = Programmed(flash, host.page * PageWords, PageData, DOMAIN PageData)
    BY <1>5, <2>1 DEF Good
  <2> QED
    BY <1>1, <1>5, <1>6, <1>7, <2>2, PageIsProgrammed, GoesTo DEF Pcs
<1>8. CASE ~r.ok
  <2>1. Spi(TRUE, TRUE, NoCmd).busy
    BY DEF Spi
  <2> QED
    BY <1>1, <1>5, <1>8, <2>1, GoesTo DEF Pcs
<1> QED
  BY <1>7, <1>8

LEMMA ProgramInSession ==
  ASSUME SessionInv, TInv, StateInv, HandleProgram
  PROVE  SessionInv'
<1>1. Waits("program") /\ UNCHANGED << chip, strap, host >>
  BY DEF HandleProgram, Fails, Resets, Ignores, Serves, Ends
<1>2. ~chip.disabled
  BY <1>1 DEF Waits, SessionInv, Serving
<1>3. ASSUME spi = Spi(FALSE, TRUE, Cmd("reset", 0, << >>)), Done
      PROVE  rom'.pc = "check" /\ ~rom'.woken /\ spi' = SpiDown /\ Done'
  <2>1. spi.cmd.op = "reset"
    BY <1>3, SpiFields, OpsDiffer
  <2>2. Reset(FALSE) /\ Quiet
    BY <2>1 DEF HandleProgram, Resets, Quiet
  <2>3. Done'
    BY <1>3, <2>2, QuietKeepsPages
  <2> QED
    BY <2>2, <2>3 DEF Reset
<1>4. ~host.reset => (IF host.erasing THEN EraseSession' ELSE ProgramSession')
  <2>1. ASSUME ~host.reset, host.erasing PROVE EraseSession'
    BY <1>1, <2>1, ProgramWaits DEF EraseSession
  <2>2. ASSUME ~host.reset, ~host.erasing, host.pc = "poll" PROVE ProgramSession'
    BY <1>1, <2>2, ProgramWaits, PageCommandServed DEF ProgramSession, Failed
  <2>3. ASSUME ~host.reset, ~host.erasing, host.pc = "end" PROVE ProgramSession'
    BY <1>1, <1>2, <1>3, <2>3, ProgramWaits DEF ProgramSession, Resetting
  <2>4. ASSUME ~host.reset, ~host.erasing, host.pc \notin {"poll", "end"} PROVE ProgramSession'
    BY <1>1, <2>4, ProgramWaits DEF ProgramSession
  <2> QED
    BY <2>1, <2>2, <2>3, <2>4
<1> QED
  BY <1>1, <1>2, <1>4, ProgramWaits DEF SessionInv

\* While the ROM boots, or a ROM_EXT runs, the host waits for nothing that the
\* chip has begun.
LEMMA BootInSession ==
  ASSUME SessionInv, HostInv, rom.pc \in {"boot", "fallback", "romExt"},
         rom'.pc \notin Serving, UNCHANGED << chip, strap, spi, host >>
  PROVE  SessionInv'
<1>1. ~host.reset /\ host.erasing => host.pc \notin {"wren", "cmd", "poll"}
  BY DEF SessionInv, EraseSession, Failed
<1>2. ~host.reset /\ ~host.erasing => host.pc \notin {"wren", "cmd", "poll", "reset", "end"}
  BY DEF SessionInv, ProgramSession, Resetting, Failed
<1>3. host.pc = "sfdp" => ~spi.up /\ host.erasing
  BY DEF SessionInv, Serving
<1>4. ~host.reset => (IF host.erasing THEN EraseSession' ELSE ProgramSession')
  BY <1>1, <1>2 DEF EraseSession, ProgramSession
<1> QED
  BY <1>3, <1>4 DEF SessionInv

LEMMA ChipInSession ==
  ASSUME SessionInv, TInv, StateInv, Chip
  PROVE  SessionInv'
<1>1. CASE RomTryBootFirst \/ RomTryBootSecond
  <2>1. ASSUME NEW slot, BootsRomExt(slot) PROVE rom'.pc = "romExt"
    BY <2>1 DEF BootsRomExt, StateInv, RomStates
  <2>2. Goes("shutdown") => rom'.pc = "shutdown"
    BY GoesTo DEF Pcs
  <2>3. ASSUME NEW slot, rom' = [rom EXCEPT !.pc = "fallback", !.slot = slot]
        PROVE  rom'.pc = "fallback"
    BY <2>3 DEF StateInv, RomStates
  <2>4. rom'.pc \in {"romExt", "shutdown", "fallback"}
    BY <1>1, <2>1, <2>2, <2>3 DEF RomTryBootFirst, RomTryBootSecond
  <2>5. rom.pc \in {"boot", "fallback"} /\ UNCHANGED << chip, strap, spi, host >>
    BY <1>1 DEF RomTryBootFirst, RomTryBootSecond
  <2> QED
    BY <2>4, <2>5, BootInSession DEF Serving, TInv
<1> QED
  BY <1>1, CheckInSession, BootstrapInSession, EraseInSession, VerifyInSession, ProgramInSession
  DEF Chip

-----------------------------------------------------------------------------
\* The steps of the host

LEMMA HostPageTyped ==
  ASSUME HostInv
  PROVE  host.page \in Nat /\ host.page + 1 \in Nat
BY DEF HostInv, Hosts, HostPages

\* A step of the host that changes its place in the operation and no more.
LEMMA HostMoves ==
  ASSUME HostInv, NEW pc, HostGoes(pc)
  PROVE  /\ host'.pc = pc /\ host'.file = host.file /\ host'.page = host.page
         /\ host'.erasing = host.erasing /\ host'.reset = host.reset
BY DEF HostInv, Hosts, HostGoes

LEMMA HostKeepsPages ==
  ASSUME UNCHANGED << chip, flash >>, host'.file = host.file, NEW n \in Nat
  PROVE  (Before(n) => Before(n)') /\ (Done => Done')
<1>1. Before(n) => Before(n)'
  BY DEF Before, Matches, ReadsOnes
<1>2. Done => Done'
  BY DEF Done, Matches
<1> QED
  BY <1>1, <1>2

LEMMA SfdpInSession ==
  ASSUME SessionInv, TInv, HostReadsSfdp
  PROVE  SessionInv'
<1>1. host.pc = "sfdp" /\ host.erasing /\ UNCHANGED << chip, strap, rom, spi >>
  BY DEF HostReadsSfdp, SessionInv
<1>2. \/ spi.up /\ HostGoes("wren") /\ host'.pc = "wren" /\ host'.erasing
      \/ HostGoes("end") /\ host'.pc = "end" /\ host'.erasing
  BY <1>1, HostMoves DEF HostReadsSfdp, TInv
<1> QED
  BY <1>1, <1>2 DEF SessionInv, EraseSession

LEMMA WriteEnableInSession ==
  ASSUME SessionInv, TInv, HostEnablesWrite
  PROVE  SessionInv'
<1>1. /\ host.pc = "wren" /\ host'.pc = "cmd" /\ host'.file = host.file
      /\ host'.page = host.page /\ host'.erasing = host.erasing /\ host'.reset = host.reset
      /\ UNCHANGED << chip, flash, strap, rom >>
  BY HostMoves DEF HostEnablesWrite, TInv
<1>2. spi = Spi(FALSE, FALSE, NoCmd) => spi' = Spi(TRUE, FALSE, NoCmd)
  <2> SUFFICES ASSUME spi = Spi(FALSE, FALSE, NoCmd) PROVE spi' = Spi(TRUE, FALSE, NoCmd)
    OBVIOUS
  <2>1. spi.up
    BY SpiFields
  <2>2. spi' = [spi EXCEPT !.wel = TRUE]
    BY <2>1 DEF HostEnablesWrite
  <2> QED
    BY <2>2, WriteEnabled DEF TInv
<1>3. Before(host.page) => Before(host.page)'
  BY <1>1, HostKeepsPages, HostPageTyped DEF TInv
<1>4. ~host'.reset => (IF host'.erasing THEN EraseSession' ELSE ProgramSession')
  BY <1>1, <1>2, <1>3 DEF SessionInv, EraseSession, ProgramSession
<1> QED
  BY <1>1, <1>4 DEF SessionInv

LEMMA SendInSession ==
  ASSUME SessionInv, TInv, HostSendsCommand
  PROVE  SessionInv'
<1>1. /\ host.pc = "cmd" /\ host'.pc = "poll" /\ host'.file = host.file
      /\ host'.page = host.page /\ host'.erasing = host.erasing /\ host'.reset = host.reset
      /\ UNCHANGED << chip, flash, strap, rom >>
  BY HostMoves DEF HostSendsCommand, TInv
<1>2. spi = Spi(TRUE, FALSE, NoCmd) =>
        spi' = Spi(TRUE, TRUE, IF host.erasing THEN Cmd("chipErase", 0, << >>) ELSE PageCommand)
  BY UploadedTo, CommandsTyped DEF HostSendsCommand, PageCommand, TInv
<1>3. PageCommand' = PageCommand
  BY <1>1 DEF PageCommand, PageData
<1>4. Before(host.page) => Before(host.page)'
  BY <1>1, HostKeepsPages, HostPageTyped DEF TInv
<1>5. ~host'.reset => (IF host'.erasing THEN EraseSession' ELSE ProgramSession')
  BY <1>1, <1>2, <1>3, <1>4 DEF SessionInv, EraseSession, ProgramSession
<1> QED
  BY <1>1, <1>5 DEF SessionInv

\* BUSY is clear: flash was erased, or the page is programmed.
LEMMA DoneInSession ==
  ASSUME SessionInv, TInv, HostSeesDone
  PROVE  SessionInv'
<1> DEFINE n == IF host.erasing THEN 0 ELSE host.page + 1
           p == CHOOSE p \in NextPages : \A q \in NextPages : p <= q
<1>1. host.pc = "poll" /\ ~spi.busy /\ UNCHANGED << chip, flash, strap, rom, spi >>
  BY DEF HostSeesDone
<1>2. n \in Nat
  BY HostPageTyped DEF TInv
<1>3. ~host.reset => rom.pc = "program" /\ spi = Spi(FALSE, FALSE, NoCmd) /\ Before(n)
  <2>1. \A c : Spi(TRUE, TRUE, c).busy
    BY DEF Spi
  <2>2. ~Failed
    BY <1>1 DEF Failed
  <2>3. ~host.reset /\ host.erasing =>
          rom.pc = "program" /\ spi = Spi(FALSE, FALSE, NoCmd) /\ Before(0)
    BY <1>1, <2>1, <2>2 DEF SessionInv, EraseSession
  <2>4. ~host.reset /\ ~host.erasing =>
          rom.pc = "program" /\ spi = Spi(FALSE, FALSE, NoCmd) /\ Before(host.page + 1)
    BY <1>1, <2>1, <2>2 DEF SessionInv, ProgramSession
  <2> QED
    BY <2>3, <2>4
<1> HIDE DEF n
<1>4. n = (IF host.erasing THEN 0 ELSE host.page + 1)
  BY DEF n
<1>5. CASE NextPages = {}
  <2>1. /\ host'.pc = "reset" /\ host'.file = host.file
        /\ host'.erasing = host.erasing /\ host'.reset = host.reset
    BY <1>5, HostMoves DEF HostSeesDone, TInv
  <2>2. Before(n) => Done'
    <3>1. Before(n) => Done
      BY <1>2, <1>4, <1>5, HostGoesOn DEF TInv
    <3> QED
      BY <1>1, <1>2, <2>1, <3>1, HostKeepsPages
  <2>3. ~host'.reset => (IF host'.erasing THEN EraseSession' ELSE ProgramSession')
    BY <1>1, <1>3, <2>1, <2>2 DEF EraseSession, ProgramSession
  <2> QED
    BY <1>1, <2>1, <2>3 DEF SessionInv
<1>6. CASE NextPages /= {}
  <2>1. Before(n) => Before(p)
    BY <1>2, <1>4, <1>6, HostGoesOn DEF TInv
  <2>2. p \in Nat
    BY <1>6, NextPage DEF HostPages
  <2>3. host' = [host EXCEPT !.pc = "wren", !.erasing = FALSE, !.page = p]
    BY <1>6 DEF HostSeesDone
  <2> HIDE DEF p
  <2>4. /\ host'.pc = "wren" /\ host'.file = host.file /\ host'.page = p
        /\ ~host'.erasing /\ host'.reset = host.reset
    BY <2>3 DEF TInv, HostInv, Hosts
  <2>5. Before(n) => Before(host.page)'
    BY <1>1, <2>1, <2>2, <2>4, HostKeepsPages
  <2>6. ~host'.reset => ProgramSession'
    BY <1>1, <1>3, <2>4, <2>5 DEF ProgramSession
  <2> QED
    BY <1>1, <2>4, <2>6 DEF SessionInv
<1> QED
  BY <1>5, <1>6

LEMMA ResetCommandInSession ==
  ASSUME SessionInv, TInv, HostResetsChip
  PROVE  SessionInv'
<1>1. /\ host.pc = "reset" /\ host'.pc = "end" /\ host'.file = host.file
      /\ host'.erasing = host.erasing /\ host'.reset = host.reset
      /\ UNCHANGED << chip, flash, strap, rom >>
  BY HostMoves DEF HostResetsChip, TInv
<1>2. spi = Spi(FALSE, FALSE, NoCmd) => spi' = Spi(FALSE, TRUE, Cmd("reset", 0, << >>))
  BY UploadedTo, CommandsTyped DEF HostResetsChip, TInv
<1>3. Done => Done'
  BY <1>1, HostKeepsPages
<1>4. ~host'.reset => (IF host'.erasing THEN EraseSession' ELSE ProgramSession')
  BY <1>1, <1>2, <1>3 DEF SessionInv, EraseSession, ProgramSession, Resetting, Serving
<1> QED
  BY <1>1, <1>4 DEF SessionInv

\* An operation ends, is stopped, or begins.
LEMMA BoundaryInSession ==
  ASSUME SessionInv, TInv, HostEnds \/ HostStops \/ HostBegins
  PROVE  SessionInv'
<1>1. CASE HostEnds \/ HostStops
  <2>1. host' = Idle /\ UNCHANGED chip /\ (rom'.pc = "check" \/ rom' = rom)
    BY <1>1 DEF HostEnds, HostStops, Reset
  <2> QED
    BY <2>1 DEF Idle, SessionInv, ProgramSession, Serving
<1>2. CASE HostBegins
  <2>1. strap' /\ rom'.pc = "check" /\ ~spi'.up
    BY <1>2 DEF HostBegins, Reset, SpiDown
  <2>2. host'.pc = "sfdp" /\ host'.erasing
    BY <1>2 DEF HostBegins, Idle
  <2> QED
    BY <2>1, <2>2 DEF SessionInv, EraseSession, Serving
<1> QED
  BY <1>1, <1>2

LEMMA HostInSession ==
  ASSUME SessionInv, TInv, Host
  PROVE  SessionInv'
BY SfdpInSession, WriteEnableInSession, SendInSession, DoneInSession, ResetCommandInSession,
  BoundaryInSession DEF Host

-----------------------------------------------------------------------------
\* The environment, and what it comes to

\* Nothing of a session goes on while the host is idle.
LEMMA IdleInSession ==
  ASSUME SessionInv, host.pc = "idle", UNCHANGED << chip, rom, host >>
  PROVE  SessionInv'
BY DEF SessionInv, EraseSession, ProgramSession

LEMMA SessionStep ==
  ASSUME SessionInv, TInv, StateInv, [Next]_vars
  PROVE  SessionInv'
<1>1. CASE UNCHANGED vars
  BY <1>1 DEF vars, SessionInv, EraseSession, ProgramSession, Resetting, Failed, Before, Done,
    Matches, ReadsOnes, PageCommand, PageData
<1>2. CASE StrapReleased \/ StrayCommand
  BY <1>2, IdleInSession DEF StrapReleased, StrayCommand
<1>3. CASE RomExtAdvanceSecver \/ Updates
  <2>1. rom.pc = "romExt" /\ UNCHANGED << chip, strap, rom, spi, host >>
    BY <1>3 DEF RomExtAdvanceSecver, Updates
  <2> QED
    BY <2>1, BootInSession DEF Serving, TInv
<1>4. CASE UpdateBreaksOff \/ ChipResets \/ BreaksOff
  <2>1. Reset(FALSE) /\ HostMissesReset /\ UNCHANGED << chip, strap >>
    BY <1>4 DEF UpdateBreaksOff, ChipResets, BreaksOff
  <2> QED
    BY <2>1, ResetEndsSession DEF TInv
<1>5. CASE SleepsAndWakes
  <2>1. rom.pc = "romExt" /\ Reset(TRUE) /\ UNCHANGED << chip, strap, host >>
    BY <1>5 DEF SleepsAndWakes
  <2>2. rom'.pc = "check" /\ ~spi'.up
    BY <2>1 DEF Reset, SpiDown
  <2>3. ~host.reset => (IF host.erasing THEN EraseSession' ELSE ProgramSession')
    BY <2>1 DEF SessionInv, EraseSession, ProgramSession, Resetting, Failed
  <2> QED
    BY <2>1, <2>2, <2>3 DEF SessionInv, Serving
<1> QED
  BY <1>1, <1>2, <1>3, <1>4, <1>5, ChipInSession, HostInSession, BoundaryInSession DEF Next

LEMMA SessionInit ==
  ASSUME Init
  PROVE  SessionInv
BY DEF Init, Idle, SessionInv, ProgramSession, Serving

\* A host that comes to the end of its operation, without a reset that it
\* missed, has its file in flash: every file, every page size, every fault.
THEOREM BootstrapProgramsTheFile == Spec => []DoneIsProgrammed
<1>1. SessionInv => DoneIsProgrammed
  BY DEF SessionInv, ProgramSession, Done, Matches, DoneIsProgrammed
<1>2. Spec => []TInv
  BY InductiveInvariant, InitTyped, NextTyped, PTL DEF Spec
<1>3. IInv => StateInv
  BY DEF IInv
<1>4. Spec => []SessionInv
  BY <1>2, <1>3, InductiveInvariant, SessionInit, SessionStep, PTL DEF Spec
<1> QED
  BY <1>1, <1>4, PTL

=============================================================================
