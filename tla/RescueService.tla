--------------------------- MODULE RescueService ---------------------------
(***************************************************************************)
(* lib/rescue/rescue.c: the services of a rescue session that XMODEM and   *)
(* DFU share.  Each handler is an operator from the session (rescue_state_t)*)
(* and what survives it (flash and retention RAM) to a result.             *)
(*                                                                         *)
(* Data is counted in units; a block is the 2 KiB buffer of the session    *)
(* and also one flash page.                                                *)
(***************************************************************************)
EXTENDS Integers, Sequences

CONSTANTS
  Files,       \* what a host may send
  RomExtFiles, \* those that begin with a ROM_EXT manifest
  FileUnits,   \* the length of each file
  Gaps,        \* file and position of the units that are 0xFF
  BlockUnits,  \* units in the session's buffer, and in a flash page
  MsgUnits,    \* units in a boot services message
  BankPages,   \* pages of a flash bank
  FlashStart,  \* the first page of a bank that rescue may write
  FlashLimit   \* the page after the last one

ASSUME RescueAssumption ==
  /\ RomExtFiles \subseteq Files
  /\ FileUnits \in [Files -> Nat \ {0}] /\ Gaps \subseteq Files \X (Nat \ {0, 1})
  /\ BlockUnits \in Nat \ {0} /\ MsgUnits \in 1..BlockUnits
  /\ FlashStart \in Nat \ {0} /\ FlashLimit \in Nat /\ BankPages \in Nat
  /\ FlashStart < FlashLimit /\ FlashLimit <= BankPages

Slots == {"A", "B"}
Pages == 0..(BankPages - 1)

FirmwareModes == {"firmware", "firmwareB"}
SendModes == {"bootLog", "bootSvcRsp", "deviceId", "ownerPage0", "ownerPage1"}
RecvModes == FirmwareModes \cup {"bootSvcReq", "ownerBlock"}
Modes == SendModes \cup RecvModes \cup {"noop", "reboot"}

\* Units of data: a unit of a file, 0xFF, and contents the host did not send.
FF == << "ff", 0 >>
Old == << "old", 0 >>
Torn == << "torn", 0 >>
FileUnit(f, i) == IF i \in 1..FileUnits[f] /\ << f, i >> \notin Gaps THEN << f, i >> ELSE FF

PageOf(unit) == [i \in 1..BlockUnits |-> unit]
Erased == PageOf(FF)

\* chip: what a session reads and does not change.  A message's type is a
\* command of its own: here that is the file which holds the message.
Chips ==
  [active : Slots, config : BOOLEAN, allowed : SUBSET (Modes \cup Files),
   acceptsOwner : BOOLEAN, timeout : BOOLEAN]

CommandAllowed(chip, command) == ~chip.config \/ command \in chip.allowed

SessionInit(chip) ==
  LET mode == IF CommandAllowed(chip, "firmware") THEN "firmware" ELSE "noop"
  IN  [mode |-> mode, default |-> mode, deadline |-> chip.config /\ chip.timeout,
       frame |-> 0, offset |-> 0, staged |-> 0, flashOffset |-> 0,
       flashBegin |-> 0, data |-> << >>]

Result(err, s, st) == [err |-> err, s |-> s, st |-> st]

\* rescue_validate_mode(): an unknown mode that no configuration forbids
\* leaves the session as it is, and so does an owner block that is refused.
ModeVerdict(chip, mode) ==
  IF mode \in {"reboot", "noop"} THEN "ok"
  ELSE IF ~CommandAllowed(chip, mode) THEN "forbidden"
  ELSE IF mode \notin Modes \/ (mode = "ownerBlock" /\ ~chip.acceptsOwner) THEN "unchanged"
  ELSE "ok"

ValidateMode(chip, mode, s) ==
  LET restarted == [s EXCEPT !.frame = 1, !.offset = 0, !.flashOffset = 0]
  IN  CASE ModeVerdict(chip, mode) = "ok" -> [restarted EXCEPT !.mode = mode]
        [] ModeVerdict(chip, mode) = "forbidden" -> restarted
        [] OTHER -> s

\* rescue_send_handler(): what a send mode puts into the buffer.
Content(mode, st) ==
  CASE mode = "bootSvcRsp" -> st.msg
    [] mode = "ownerPage1" -> st.owner1
    [] mode = "ownerPage0" -> PageOf(<< mode, 0 >>)
    [] OTHER -> << << mode, 0 >> >>

SendHandler(chip, s, st) ==
  CASE s.mode = "reboot" -> Result("reboot", s, st)
    [] s.mode = "noop" -> Result("ok", s, st)
    [] s.mode \notin {"reboot", "noop"} /\ ~CommandAllowed(chip, s.mode) -> Result("badMode", s, st)
    [] s.mode \in SendModes /\ CommandAllowed(chip, s.mode) ->
         LET content == Content(s.mode, st)
         IN  Result("start", [s EXCEPT !.data = content, !.staged = Len(content)], st)
    [] OTHER -> Result("ok", s, st)

-----------------------------------------------------------------------------
\* flash_firmware_block()

BankOf(mode) == IF mode = "firmwareB" THEN "B" ELSE "A"
IsRomExt(data) == data[1] \in {<< f, 1 >> : f \in RomExtFiles}
UpdateAllowedActive(chip, mode) == BankOf(mode) = chip.active
UpdateAllowed(chip, mode) == BankOf(mode) /= chip.active

\* The first block of a transfer decides where it starts, and erases.
FlashBegin(chip, s) ==
  IF s.flashOffset /= 0 THEN s.flashBegin
  ELSE IF UpdateAllowed(chip, s.mode) /\ IsRomExt(s.data) THEN 0 ELSE FlashStart

FlashOffsetStart(s) == IF s.flashOffset /= 0 THEN s.flashOffset ELSE FlashStart

FlashOffset(s) ==
  IF s.flashOffset /= 0 THEN s.flashOffset
  ELSE IF IsRomExt(s.data) THEN 0 ELSE FlashStart

ErasedFrom(bank, first) ==
  [p \in Pages |-> IF first <= p /\ p < FlashLimit THEN Erased ELSE bank[p]]

EraseFirst(chip, s, bank) ==
  IF s.flashOffset = 0 THEN ErasedFrom(bank, FlashBegin(chip, s)) ELSE bank

\* Flash only clears bits: a page that was not erased does not take the data.
Programmed(page, data) == IF page = Erased THEN data ELSE PageOf(Torn)

FlashFirmwareBlock(chip, s, st) ==
  LET slot == BankOf(s.mode)
      offset == FlashOffset(s)
      begin == FlashBegin(chip, s)
      bank == EraseFirst(chip, s, st.flash[slot])
      at(n) == [s EXCEPT !.flashOffset = n, !.flashBegin = begin]
      flash(pages) == [st EXCEPT !.flash[slot] = pages]
  IN  IF offset < begin THEN Result("ok", at(offset + 1), flash(bank))
      ELSE IF offset >= FlashLimit THEN Result("tooBig", at(offset), flash(bank))
      ELSE Result("ok", at(offset + 1),
                  flash([bank EXCEPT ![offset] = Programmed(@, s.data)]))

\* flash_owner_block()
FlashOwnerBlock(chip, s, st) ==
  IF chip.acceptsOwner THEN [st EXCEPT !.owner1 = s.data] ELSE st

\* rescue_recv_handler(): a full buffer is handled and given back.
Taken(r) == IF r.err = "ok" THEN [r EXCEPT !.s.offset = 0] ELSE r

TakeMessage(chip, s, st) ==
  IF CommandAllowed(chip, s.data[1][1])
  THEN Result("ok", s, [st EXCEPT !.msg = SubSeq(s.data, 1, MsgUnits)])
  ELSE Result("badMode", s, st)

RecvHandler(chip, s, st) ==
  IF ~CommandAllowed(chip, s.mode) \/ s.mode = "reboot" THEN Result("badMode", s, st)
  ELSE IF s.mode = "bootSvcReq" /\ s.offset >= MsgUnits THEN Taken(TakeMessage(chip, s, st))
  ELSE IF s.mode = "ownerBlock" /\ s.offset = BlockUnits
  THEN Taken(Result("ok", s, FlashOwnerBlock(chip, s, st)))
  ELSE IF s.mode \in FirmwareModes /\ s.offset = BlockUnits
  THEN Taken(FlashFirmwareBlock(chip, s, st))
  ELSE Result("ok", s, st)

-----------------------------------------------------------------------------
\* What a handler that breaks off, by a power cut or a flash error, leaves.

CutErase(bank, first) ==
  {[p \in Pages |->
      IF first <= p /\ p < k THEN Erased ELSE IF p = k THEN half ELSE bank[p]] :
     k \in first..(FlashLimit - 1), half \in {PageOf(Torn), Erased}}

CutWrite(bank, page) == {[bank EXCEPT ![page] = PageOf(Torn)]}

CutFirmware(chip, s, bank) ==
  LET offset == FlashOffset(s)
      begin == FlashBegin(chip, s)
  IN  (IF s.flashOffset = 0 THEN CutErase(bank, begin) ELSE {bank})
        \cup (IF begin <= offset /\ offset < FlashLimit
              THEN CutWrite(EraseFirst(chip, s, bank), offset) ELSE {})

Broken(chip, s, st) ==
  IF s.offset < BlockUnits \/ ~CommandAllowed(chip, s.mode) THEN {}
  ELSE IF s.mode \in FirmwareModes
  THEN LET slot == BankOf(s.mode)
       IN  {[st EXCEPT !.flash[slot] = bank] : bank \in CutFirmware(chip, s, st.flash[slot])}
  ELSE IF s.mode = "ownerBlock" /\ chip.acceptsOwner
  THEN {[st EXCEPT !.owner1 = page] : page \in {Erased, PageOf(Torn)}}
  ELSE {}

-----------------------------------------------------------------------------
\* What flash should hold once a file was taken.

\* The ROM_EXT that runs, and what lies outside the area given to rescue.
ProtectedPages(chip) ==
  {sp \in Slots \X Pages :
     sp[2] >= FlashLimit \/ (sp[2] < FlashStart /\ sp[1] = chip.active)}

\* Block b of a file, counted from 0, padded with 0xFF.
Block(f, b) == [i \in 1..BlockUnits |-> FileUnit(f, b * BlockUnits + i)]

\* The page of the bank that block 0 belongs to.
Base(f) == IF f \in RomExtFiles THEN 0 ELSE FlashStart

Writable(chip, slot, f) ==
  (IF f \in RomExtFiles /\ slot /= chip.active THEN 0 ELSE FlashStart)..(FlashLimit - 1)

Holds(chip, st, slot, f) ==
  \A p \in Writable(chip, slot, f) : st.flash[slot][p] = Block(f, p - Base(f))

=============================================================================
