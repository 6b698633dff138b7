-------------------------------- MODULE Rom --------------------------------
(***************************************************************************)
(* The ROM of a chip with flash: bootstrap over SPI (lib/bootstrap.c,      *)
(* rom/bootstrap.c) and the choice of the ROM_EXT that boots (rom.c,       *)
(* boot_policy.c, boot_rom_ext.c), with the host that bootstraps the chip  *)
(* (opentitanlib) and a ROM_EXT that has the other slot updated.           *)
(*                                                                         *)
(* Flash is counted in words, each readable as a whole or not at all.      *)
(***************************************************************************)
EXTENDS Integers, Sequences

CONSTANTS
  Images,      \* ROM_EXTs, each of the size of a slot
  Signed,      \* those whose signature verifies
  SecVersion,  \* the security version of each
  Version,     \* major and minor version of each, as one number
  Gaps,        \* image and place of the words that are 0xFF
  PageWords,   \* words in a program page
  SectorWords, \* words that a SECTOR_ERASE erases
  SlotWords,   \* words in a slot, half of the flash
  Setups,      \* chips: what the OTP says
  Files,       \* what a host bootstraps: an image for each slot, or none
  Strays,      \* commands that reach the chip outside an operation
  WeakErases,  \* what a word may hold that an erase failed to erase
  MaxSteps,    \* bound on operations, stray commands and updates
  MaxFaults    \* bound on faults

ASSUME RomAssumption ==
  /\ Signed \subseteq Images /\ "-" \notin Images
  /\ SecVersion \in [Images -> Nat] /\ Version \in [Images -> Nat]
  /\ Gaps \subseteq Images \X (Nat \ {0, 1})
  /\ PageWords \in Nat \ {0} /\ SectorWords \in Nat \ {0} /\ SlotWords \in Nat \ {0}
  /\ SlotWords % SectorWords = 0 /\ SectorWords % PageWords = 0
  /\ Setups \subseteq [handler : BOOLEAN, disabled : BOOLEAN]
  /\ Files \subseteq [{"A", "B"} -> Images \cup {"-"}]
  /\ Strays \subseteq
       [op : {"chipErase", "sectorErase", "pageProgram", "reset", "other", "overflow"},
        addr : Nat, data : Seq(Images \X (1..SlotWords))]
  /\ WeakErases \subseteq {"old", "torn"}
  /\ MaxSteps \in Nat /\ MaxFaults \in Nat

VARIABLES
  chip,   \* handler: unreadable words read as ones; disabled: no bootstrap
  flash,  \* both slots, word by word
  min,    \* min_security_version_rom_ext of the boot data
  strap,  \* the bootstrap pins are pulled
  rom,    \* the ROM's state machine
  spi,    \* the SPI device: status register and the command that waits
  host,   \* the host and the operation it has begun
  erased, \* a bootstrap has begun to erase
  steps, faults

vars == << chip, flash, min, strap, rom, spi, host, erased, steps, faults >>

Slots == {"A", "B"}
Addrs == 0..(2 * SlotWords - 1)
Start(slot) == IF slot = "A" THEN 0 ELSE SlotWords
SlotAddrs(slot) == Start(slot)..(Start(slot) + SlotWords - 1)

Ones == << "-", 0 >>
Torn == << "-", 1 >>
Word(img, i) == IF << img, i >> \in Gaps THEN Ones ELSE << img, i >>
FileWord(f, a) ==
  LET slot == IF a < SlotWords THEN "A" ELSE "B"
  IN  IF f[slot] = "-" THEN Ones ELSE Word(f[slot], a - Start(slot) + 1)

NoCmd == [op |-> "none", addr |-> 0, data |-> << >>]
Cmd(op, addr, data) == [op |-> op, addr |-> addr, data |-> data]

Pcs == {"check", "bootstrap", "erase", "verify", "program", "boot", "fallback",
        "romExt", "shutdown"}
HostPcs == {"idle", "sfdp", "wren", "cmd", "poll", "reset", "end"}

-----------------------------------------------------------------------------
\* Reset, and the SPI device

SpiDown == [up |-> FALSE, wel |-> FALSE, busy |-> FALSE, cmd |-> NoCmd]
SpiReady == [SpiDown EXCEPT !.up = TRUE]

Reset(woken) ==
  /\ rom' = [pc |-> "check", woken |-> woken, slot |-> "-", booting |-> FALSE]
  /\ spi' = SpiDown

\* The host learns nothing of a reset in the middle of its operation.
HostMissesReset ==
  host' = IF host.pc \in {"idle", "sfdp"} THEN host ELSE [host EXCEPT !.reset = TRUE]

Goes(pc) == rom' = [rom EXCEPT !.pc = pc]

\* spi_device_cmd_get() and spi_device_flash_status_clear()
Taken == [spi EXCEPT !.cmd = NoCmd]
ClearedWriteEnable == [Taken EXCEPT !.wel = FALSE]
Cleared == [Taken EXCEPT !.wel = FALSE, !.busy = FALSE]

\* A command is uploaded, and sets BUSY.  One that finds another waiting
\* is lost.
Uploaded(cmd) ==
  IF ~spi.up THEN spi
  ELSE [spi EXCEPT !.busy = TRUE, !.cmd = IF spi.cmd = NoCmd THEN cmd ELSE @]

-----------------------------------------------------------------------------
\* Flash

Filled(f, addrs, word) == [a \in Addrs |-> IF a \in addrs THEN word ELSE f[a]]

\* An erase, as flash and result.  With a fault left, it reports an error, or
\* reports none and has left words behind.
Good(f) == [flash |-> f, ok |-> TRUE, fault |-> FALSE]
Erase(f, addrs) ==
  {Good(Filled(f, addrs, Ones))} \cup
  (IF faults = MaxFaults THEN {}
   ELSE {[flash |-> g, ok |-> FALSE, fault |-> TRUE] : g \in {f, Filled(f, addrs, Torn)}}
        \cup {[flash |-> IF w = "old" THEN f ELSE Filled(f, addrs, Torn),
               ok |-> TRUE, fault |-> TRUE] : w \in WeakErases})

\* bootstrap_chip_erase(): the second bank is erased whatever the first says.
ChipErase ==
  UNION {{[flash |-> b.flash, ok |-> a.ok /\ b.ok, fault |-> a.fault \/ b.fault] :
            b \in IF a.fault THEN {Good(Filled(a.flash, SlotAddrs("B"), Ones))}
                  ELSE Erase(a.flash, SlotAddrs("B"))} :
         a \in Erase(flash, SlotAddrs("A"))}

\* bootstrap_erase_verify() reads each word of both banks.  A word that
\* cannot be read is all ones if the exception handler is enabled.
ReadsOnes(a) == flash[a] = Ones \/ (flash[a] = Torn /\ chip.handler)
EraseVerifyA == \A a \in SlotAddrs("A") : ReadsOnes(a)
EraseVerify == \A slot \in Slots : \A a \in SlotAddrs(slot) : ReadsOnes(a)

\* The sector that an address falls in.
SectorAt(addr) == LET first == addr - (addr % SectorWords)
                  IN  first..(first + SectorWords - 1)

\* bootstrap_page_program(): what runs over the end of the page goes to its
\* beginning.
PlaceLinear(addr, i) == addr + i - 1
Place(addr, i) ==
  LET first == addr - (addr % PageWords)
  IN  first + ((addr - first + i - 1) % PageWords)

\* Only an erased word takes data; ones change nothing.
Written(old, new) ==
  IF new = Ones THEN old ELSE IF old = Ones THEN new ELSE Torn

\* The data at the given places of the payload is written.
Programmed(f, addr, data, places) ==
  [a \in Addrs |->
     IF \E i \in places : Place(addr, i) = a
     THEN Written(f[a], data[CHOOSE i \in places : Place(addr, i) = a])
     ELSE f[a]]

\* A payload whose n-th word is torn, and that was written at the given places.
TornAt(addr, data, n, places) ==
  [Programmed(flash, addr, data, places) EXCEPT ![Place(addr, n)] = Torn]

\* An error before the end of the page does not keep the words that wrap from
\* being written.
WrittenAfter(addr, data, n) ==
  LET wraps == {i \in DOMAIN data : Place(addr, i) < addr}
  IN  (1..(n - 1)) \cup (IF n \in wraps THEN {} ELSE wraps)

PageProgram(addr, data) ==
  {Good(Programmed(flash, addr, data, DOMAIN data))} \cup
  (IF faults = MaxFaults THEN {}
   ELSE {[flash |-> TornAt(addr, data, n, WrittenAfter(addr, data, n)),
          ok |-> FALSE, fault |-> TRUE] : n \in DOMAIN data})

-----------------------------------------------------------------------------
\* The ROM: bootstrap

\* bootstrap_requested()
Requested == ~chip.disabled /\ strap

RomStateBootstrapCheck ==
  /\ rom.pc = "check"
  /\ IF ~rom.woken /\ Requested THEN Goes("bootstrap")
     ELSE rom' = [rom EXCEPT !.pc = "boot", !.booting = TRUE]
  /\ UNCHANGED << chip, flash, min, strap, spi, host, erased, steps, faults >>

\* bootstrap() reads the pins again.
RomStateBootstrap ==
  /\ rom.pc = "bootstrap"
  /\ IF Requested THEN Goes("erase") /\ spi' = SpiReady
     ELSE Goes("shutdown") /\ UNCHANGED spi
  /\ UNCHANGED << chip, flash, min, strap, host, erased, steps, faults >>

Waits(pc) == rom.pc = pc /\ spi.cmd /= NoCmd

\* A command that is dropped: only the status may be cleared.
Ignores(next) ==
  /\ spi' = next
  /\ UNCHANGED << chip, flash, min, strap, rom, host, erased, steps, faults >>

Fails ==
  /\ Goes("shutdown") /\ spi' = Taken
  /\ UNCHANGED << chip, flash, min, strap, host, erased, steps, faults >>

\* What one operation on flash leaves; done says what follows a success.
Ends(results, pc, next) ==
  /\ \E r \in results :
       /\ flash' = r.flash
       /\ faults' = IF r.fault THEN faults + 1 ELSE faults
       /\ IF r.ok THEN Goes(pc) /\ spi' = next ELSE Goes("shutdown") /\ spi' = Taken
  /\ UNCHANGED << chip, min, strap, host, steps >>

Erases == {"chipErase", "sectorErase"}

HandleErase ==
  /\ Waits("erase")
  /\ \/ spi.cmd.op = "overflow" /\ Fails
     \/ spi.cmd.op /= "overflow" /\ ~spi.wel /\ Ignores(Taken)
     \/ /\ spi.cmd.op \in Erases /\ spi.wel
        /\ Ends(ChipErase, "verify", Taken) /\ erased' = TRUE
     \/ spi.cmd.op \notin Erases \cup {"overflow"} /\ spi.wel /\ Ignores(Cleared)

\* WIP and WEL are cleared only now.
HandleEraseVerify ==
  /\ rom.pc = "verify"
  /\ IF EraseVerify THEN Goes("program") /\ spi' = [spi EXCEPT !.wel = FALSE, !.busy = FALSE]
     ELSE Goes("shutdown") /\ UNCHANGED spi
  /\ UNCHANGED << chip, flash, min, strap, host, erased, steps, faults >>

\* An error of any command shuts the chip down; any other end clears the status.
Serves(results) == spi.wel /\ Ends(results, "program", Cleared) /\ UNCHANGED erased
Resets == Reset(FALSE) /\ UNCHANGED << chip, flash, min, strap, host, erased, steps, faults >>

HandleProgram ==
  /\ Waits("program")
  /\ LET cmd == spi.cmd
     IN  \/ cmd.op = "overflow" /\ Fails
         \/ cmd.op = "reset" /\ Resets
         \/ cmd.op \notin {"overflow", "reset"} /\ ~spi.wel /\ Ignores(Taken)
         \/ cmd.op = "chipErase" /\ Serves(ChipErase)
         \/ cmd.op = "sectorErase" /\ cmd.addr \in Addrs /\ Serves(Erase(flash, SectorAt(cmd.addr)))
         \/ cmd.op = "pageProgram" /\ cmd.addr \in Addrs /\ Serves(PageProgram(cmd.addr, cmd.data))
         \/ cmd.op \in {"sectorErase", "pageProgram"} /\ cmd.addr \notin Addrs /\ spi.wel /\ Fails
         \/ cmd.op = "other" /\ spi.wel /\ Ignores(Cleared)

-----------------------------------------------------------------------------
\* The ROM: boot

\* What the manifest at the start of a slot says of its versions.  A word
\* that reads as ones gives the highest; other data, anything.
Other(slot) == IF slot = "A" THEN "B" ELSE "A"
First(slot) == flash[Start(slot)]
Header(slot) == CHOOSE img \in Images : First(slot) = Word(img, 1)
HasHeader(slot) == \E img \in Images : First(slot) = Word(img, 1)

Precedes(s, t) ==
  \/ SecVersion[Header(s)] > SecVersion[Header(t)]
  \/ /\ SecVersion[Header(s)] = SecVersion[Header(t)]
     /\ \/ Version[Header(s)] > Version[Header(t)]
        \/ (Version[Header(s)] = Version[Header(t)] /\ s = "A")

\* boot_policy_manifests_get(): the slot to try first
ManifestsFirst ==
  IF HasHeader("A") /\ HasHeader("B")
  THEN {slot \in Slots : Precedes(slot, Other(slot))}
  ELSE IF ReadsOnes(Start("A")) THEN {"A"}
  ELSE IF ReadsOnes(Start("B")) THEN {"B"}
  ELSE Slots

\* rom_verify()
ManifestCheckAny(slot) == HasHeader(slot)
ManifestCheck(slot) == HasHeader(slot) /\ SecVersion[Header(slot)] >= min

Reads(a, word) == flash[a] = word \/ (word = Ones /\ ReadsOnes(a))
Verifies(slot) ==
  /\ ManifestCheck(slot) /\ Header(slot) \in Signed
  /\ \A i \in 1..SlotWords : Reads(Start(slot) + i - 1, Word(Header(slot), i))

\* Without the handler, a word that cannot be read is an exception, and the
\* ROM's handler of those shuts the chip down.
PolicyFaults == ~chip.handler /\ \E slot \in Slots : First(slot) = Torn
VerifyFaults(slot) ==
  ~chip.handler /\ ManifestCheck(slot) /\ \E a \in SlotAddrs(slot) : flash[a] = Torn

BootsRomExt(slot) == rom' = [rom EXCEPT !.pc = "romExt", !.slot = slot, !.booting = FALSE]

RomTryBootOnly ==
  /\ rom.pc = "boot"
  /\ \E slot \in ManifestsFirst :
       IF ~PolicyFaults /\ ~VerifyFaults(slot) /\ Verifies(slot) THEN BootsRomExt(slot)
       ELSE Goes("shutdown")
  /\ UNCHANGED << chip, flash, min, strap, spi, host, erased, steps, faults >>

RomTryBootFirst ==
  /\ rom.pc = "boot"
  /\ \/ PolicyFaults /\ Goes("shutdown")
     \/ /\ ~PolicyFaults
        /\ \E slot \in ManifestsFirst :
             IF VerifyFaults(slot) THEN Goes("shutdown")
             ELSE IF Verifies(slot) THEN BootsRomExt(slot)
             ELSE rom' = [rom EXCEPT !.pc = "fallback", !.slot = Other(slot)]
  /\ UNCHANGED << chip, flash, min, strap, spi, host, erased, steps, faults >>

RomTryBootSecond ==
  /\ rom.pc = "fallback"
  /\ IF ~VerifyFaults(rom.slot) /\ Verifies(rom.slot) THEN BootsRomExt(rom.slot)
     ELSE Goes("shutdown")
  /\ UNCHANGED << chip, flash, min, strap, spi, host, erased, steps, faults >>

-----------------------------------------------------------------------------
\* What runs then

\* rom_ext_advance_secver(), for a ROM_EXT whose manifest asks for it
RunningVersion == SecVersion[Header(rom.slot)]
RomExtAdvanceSecver ==
  /\ rom.pc = "romExt" /\ RunningVersion > min
  /\ min' = RunningVersion
  /\ UNCHANGED << chip, flash, strap, rom, spi, host, erased, steps, faults >>

\* The other slot is erased and written: rescue, or the owner's firmware.  The
\* slot that runs is protected.
Update(slot, img) == [a \in Addrs |->
  IF a \in SlotAddrs(slot) THEN Word(img, a - Start(slot) + 1) ELSE flash[a]]

Updates ==
  /\ rom.pc = "romExt" /\ steps < MaxSteps
  /\ steps' = steps + 1
  /\ \E img \in Images : flash' = Update(Other(rom.slot), img)
  /\ UNCHANGED << chip, min, strap, rom, spi, host, erased, faults >>

\* ... and cut short: the first words are written, the next is torn.
UpdateBreaksOff ==
  /\ rom.pc = "romExt" /\ steps < MaxSteps /\ faults < MaxFaults
  /\ steps' = steps + 1 /\ faults' = faults + 1
  /\ LET other == Other(rom.slot)
     IN  \E img \in Images, n \in 0..(SlotWords - 1) :
           flash' = [a \in Addrs |->
             IF a \notin SlotAddrs(other) THEN flash[a]
             ELSE IF a < Start(other) + n THEN Word(img, a - Start(other) + 1)
             ELSE IF a = Start(other) + n THEN Torn ELSE Ones]
  /\ Reset(FALSE) /\ HostMissesReset
  /\ UNCHANGED << chip, min, strap, erased >>

\* Low power sleep, and the wake-up from it.
SleepsAndWakes ==
  /\ rom.pc = "romExt"
  /\ Reset(TRUE)
  /\ UNCHANGED << chip, flash, min, strap, host, erased, steps, faults >>

-----------------------------------------------------------------------------
\* The host: Bootstrap::do_update() with the EEPROM protocol

Idle == [pc |-> "idle", file |-> [slot \in Slots |-> "-"], page |-> 0, erasing |-> FALSE,
         reset |-> FALSE]

HostGoes(pc) == host' = [host EXCEPT !.pc = pc]

HostBegins ==
  /\ host.pc = "idle" /\ steps < MaxSteps
  /\ steps' = steps + 1
  /\ \E f \in Files : host' = [Idle EXCEPT !.pc = "sfdp", !.file = f, !.erasing = TRUE]
  /\ strap' = TRUE
  /\ Reset(FALSE)
  /\ UNCHANGED << chip, flash, min, erased, faults >>

\* A chip that does not answer gives no table, and the host gives up.
HostReadsSfdp ==
  /\ host.pc = "sfdp"
  /\ \/ spi.up /\ HostGoes("wren")
     \/ ~spi.up /\ HostGoes("end")
  /\ UNCHANGED << chip, flash, min, strap, rom, spi, erased, steps, faults >>

HostEnablesWrite ==
  /\ host.pc = "wren"
  /\ HostGoes("cmd")
  /\ spi' = IF spi.up THEN [spi EXCEPT !.wel = TRUE] ELSE spi
  /\ UNCHANGED << chip, flash, min, strap, rom, erased, steps, faults >>

PageData == [i \in 1..PageWords |-> FileWord(host.file, host.page * PageWords + i - 1)]

HostSendsCommand ==
  /\ host.pc = "cmd"
  /\ HostGoes("poll")
  /\ spi' = Uploaded(IF host.erasing THEN Cmd("chipErase", 0, << >>)
                     ELSE Cmd("pageProgram", host.page * PageWords, PageData))
  /\ UNCHANGED << chip, flash, min, strap, rom, erased, steps, faults >>

\* The next page that is not all ones.
HasData(p) == \E i \in 1..PageWords : FileWord(host.file, p * PageWords + i - 1) /= Ones
NextPagesBeyond ==
  {p \in 0..((2 * SlotWords) \div PageWords) : HasData(p) /\ (host.erasing \/ p > host.page)}
NextPages ==
  {p \in 0..(((2 * SlotWords) \div PageWords) - 1) : HasData(p) /\ (host.erasing \/ p > host.page)}

HostSeesDone ==
  /\ host.pc = "poll" /\ spi.up /\ ~spi.busy
  /\ IF NextPages = {} THEN HostGoes("reset")
     ELSE host' = [host EXCEPT !.pc = "wren", !.erasing = FALSE,
                     !.page = CHOOSE p \in NextPages : \A q \in NextPages : p <= q]
  /\ UNCHANGED << chip, flash, min, strap, rom, spi, erased, steps, faults >>

\* RESET_ENABLE is no command of the chip.
HostResetsChip ==
  /\ host.pc = "reset"
  /\ HostGoes("end")
  /\ spi' = Uploaded(Cmd("reset", 0, << >>))
  /\ UNCHANGED << chip, flash, min, strap, rom, erased, steps, faults >>

HostEnds ==
  /\ host.pc = "end"
  /\ host' = Idle
  /\ strap' = FALSE
  /\ Reset(FALSE)
  /\ UNCHANGED << chip, flash, min, erased, steps, faults >>

\* A host that is stopped leaves the pins as they are.
HostStops ==
  /\ host.pc /= "idle"
  /\ host' = Idle
  /\ UNCHANGED << chip, flash, min, strap, rom, spi, erased, steps, faults >>

-----------------------------------------------------------------------------
\* The environment

StrapReleased ==
  /\ host.pc = "idle" /\ strap
  /\ strap' = FALSE
  /\ UNCHANGED << chip, flash, min, rom, spi, host, erased, steps, faults >>

\* What another programmer, or noise on the lines, sends.
StrayCommand ==
  /\ host.pc = "idle" /\ spi.up /\ steps < MaxSteps
  /\ steps' = steps + 1
  /\ \E cmd \in Strays, wel \in BOOLEAN :
       spi' = [Uploaded(cmd) EXCEPT !.wel = @ \/ wel]
  /\ UNCHANGED << chip, flash, min, strap, rom, host, erased, faults >>

\* Power, the reset pin, or the reset that ends a shutdown.  The bootstrap has
\* disabled the watchdog.
ChipResets ==
  /\ rom.pc = "shutdown" \/ host.pc = "idle" \/ faults < MaxFaults
  /\ faults' = IF rom.pc = "shutdown" \/ host.pc = "idle" THEN faults ELSE faults + 1
  /\ Reset(FALSE) /\ HostMissesReset
  /\ UNCHANGED << chip, flash, min, strap, erased, steps >>

\* Power fails within an operation on flash.
Cut(f, addrs) == {f, Filled(f, addrs, Torn), Filled(f, addrs, Ones)}

BreaksOff ==
  /\ Waits("erase") \/ Waits("program")
  /\ spi.wel /\ faults < MaxFaults
  /\ faults' = faults + 1
  /\ LET cmd == spi.cmd
         wholeChip == cmd.op = "chipErase" \/ (cmd.op = "sectorErase" /\ rom.pc = "erase")
     IN  \/ /\ wholeChip
            /\ flash' \in Cut(flash, SlotAddrs("A"))
                            \cup Cut(Filled(flash, SlotAddrs("A"), Ones), SlotAddrs("B"))
            /\ erased' = TRUE
         \/ /\ cmd.op = "sectorErase" /\ rom.pc = "program" /\ cmd.addr \in Addrs
            /\ flash' \in Cut(flash, SectorAt(cmd.addr))
            /\ UNCHANGED erased
         \/ /\ cmd.op = "pageProgram" /\ rom.pc = "program" /\ cmd.addr \in Addrs
            /\ \E n \in DOMAIN cmd.data : flash' = TornAt(cmd.addr, cmd.data, n, 1..(n - 1))
            /\ UNCHANGED erased
  /\ Reset(FALSE) /\ HostMissesReset
  /\ UNCHANGED << chip, min, strap, steps >>

\* A chip as it comes from its first update: what is in slot A boots.
Init ==
  /\ chip \in Setups
  /\ flash \in {[a \in Addrs |-> FileWord([slot \in Slots |-> IF slot = "A" THEN img ELSE "-"], a)] :
                img \in Signed}
  /\ min = 0
  /\ strap = FALSE
  /\ rom = [pc |-> "check", woken |-> FALSE, slot |-> "-", booting |-> FALSE]
  /\ spi = SpiDown
  /\ host = Idle
  /\ erased = FALSE
  /\ steps = 0 /\ faults = 0

Chip ==
  RomStateBootstrapCheck \/ RomStateBootstrap \/ HandleErase \/ HandleEraseVerify
    \/ HandleProgram \/ RomTryBootFirst \/ RomTryBootSecond

Host ==
  HostReadsSfdp \/ HostEnablesWrite \/ HostSendsCommand \/ HostSeesDone \/ HostResetsChip
    \/ HostEnds

Next ==
  Chip \/ Host \/ HostBegins \/ HostStops \/ RomExtAdvanceSecver \/ Updates
    \/ UpdateBreaksOff \/ SleepsAndWakes \/ StrapReleased \/ StrayCommand \/ ChipResets
    \/ BreaksOff

Spec == Init /\ [][Next]_vars
FairSpec == Spec /\ WF_vars(Chip) /\ WF_vars(Host)

-----------------------------------------------------------------------------
\* Properties

\* The state has its type.
TypeOK ==
  /\ chip \in Setups /\ min \in Nat /\ strap \in BOOLEAN /\ erased \in BOOLEAN
  /\ \A a \in Addrs : flash[a] \in {Ones, Torn} \cup (Images \X (1..SlotWords))
  /\ rom \in [pc : Pcs, woken : BOOLEAN, slot : Slots \cup {"-"}, booting : BOOLEAN]
  /\ spi.up \in BOOLEAN /\ spi.wel \in BOOLEAN /\ spi.busy \in BOOLEAN
  /\ host.pc \in HostPcs /\ host.page \in 0..(((2 * SlotWords) \div PageWords) - 1)
  /\ steps \in 0..MaxSteps /\ faults \in 0..MaxFaults

\* A chip that was never bootstrapped comes up: whatever updates were made or
\* broken off and however the minimum version was raised, the ROM finds a
\* ROM_EXT.  Without the exception handler a torn word may stop it.
StaysAlive ==
  rom.pc = "shutdown" /\ rom.booting /\ ~erased =>
    ~chip.handler /\ \E a \in Addrs : flash[a] = Torn

\* The ROM_EXT that runs is whole and signed, from its first word to its
\* last, and is not older than the minimum version.
RunsWhole ==
  rom.pc = "romExt" =>
    \E img \in Signed :
      /\ SecVersion[img] >= min
      /\ \A i \in 1..SlotWords :
           \/ flash[Start(rom.slot) + i - 1] = Word(img, i)
           \/ Word(img, i) = Ones /\ chip.handler

\* When the host is done and the chip was not reset meanwhile, flash holds
\* the file, and nothing else but words that the handler reads as ones.
DoneIsProgrammed ==
  host.pc = "end" /\ ~host.erasing /\ ~host.reset =>
    \A a \in Addrs :
      flash[a] = FileWord(host.file, a) \/ (flash[a] = Torn /\ chip.handler)

\* A command of the program loop changes nothing outside the page or the
\* sector that it names, in success, failure or a power cut.
CommandsStayInPlace ==
  [][rom.pc = "program" /\ spi.cmd.op /= "chipErase" =>
       \A a \in Addrs : flash'[a] /= flash[a] =>
         \/ /\ spi.cmd.op = "pageProgram"
            /\ a \div PageWords = spi.cmd.addr \div PageWords
         \/ /\ spi.cmd.op = "sectorErase"
            /\ a \div SectorWords = spi.cmd.addr \div SectorWords]_vars

\* An operation ends: the host does not wait for ever for a chip that is
\* neither reset nor shut down.
OperationEnds ==
  host.pc /= "idle" ~> host.pc = "idle" \/ host.reset \/ rom.pc = "shutdown"

\* The program loop begins on flash that is erased.
VerifiedIsErased ==
  [][rom.pc = "verify" /\ rom'.pc = "program" => \A a \in Addrs : flash[a] = Ones]_vars
=============================================================================
