---------------------------- MODULE XmodemRescue ----------------------------
(***************************************************************************)
(* Rescue over a serial line: the session of lib/rescue/rescue_xmodem.c,   *)
(* the frames of lib/rescue/xmodem.c, and the host of opentitanlib         *)
(* (rescue/serial.rs, rescue/xmodem.rs) at the other end.                  *)
(*                                                                         *)
(* The line carries frames and single bytes; noise damages or loses them.  *)
(* The chip resets when the session ends, and power may fail at any time,  *)
(* also while a block is written.  After a reset the chip is in rescue     *)
(* again, whether the host asked for it or the firmware does not boot.     *)
(***************************************************************************)
EXTENDS RescueService

CONSTANTS
  Setups,          \* the chips
  Sends,           \* what a host may send: mode, file, units in a frame
  Reads,           \* the modes a host may read
  LongFrame,       \* units in an STX frame: what the chip sends long data in
  FrameNumbers,    \* frame numbers are counted modulo this: 256
  SendRetries,     \* how often xmodem_send_start() reads: 30
  ChipMaxErrors,   \* kXModemMaxErrors
  HostMaxErrors,   \* Xmodem::max_errors
  MaxTransfers,    \* bound: operations the host begins
  MaxLine,         \* bound: bytes of an idle chip that wait for the host
  MaxFaults        \* bound: bytes and frames damaged, power cuts

ASSUME XmodemAssumption ==
  /\ Setups \subseteq Chips
  /\ LongFrame \in 2..BlockUnits
  /\ Sends \subseteq [mode : RecvModes, file : Files, size : {1, LongFrame}]
  /\ \A x \in Sends :
       /\ x.mode = "ownerBlock" => FileUnits[x.file] <= BlockUnits
       /\ x.mode = "bootSvcReq" => FileUnits[x.file] = MsgUnits
  /\ Reads \subseteq SendModes
  /\ FrameNumbers \in Nat \ {0, 1}
  /\ SendRetries \in Nat \ {0} /\ ChipMaxErrors \in Nat /\ HostMaxErrors \in Nat
  /\ MaxTransfers \in Nat /\ MaxLine \in Nat /\ MaxFaults \in Nat

VARIABLES
  chip,      \* the chip's configuration: never changes
  store,     \* flash, the owner page and the message in retention RAM
  session,   \* rescue_state_t
  pc,        \* "recv", "sendStart", "sendAck", "sendEnd" or "ended"
  nextMode,  \* the mode bytes received so far
  send,      \* the loop of xmodem_send(): block, errors, cancels, reads
  toChip,    \* the line towards the chip
  toHost,    \* the line towards the host
  host,      \* the host's operation
  transfers, \* operations begun
  faults     \* faults so far

chipVars == << session, pc, nextMode, send >>
vars == << chip, store, chipVars, toChip, toHost, host, transfers, faults >>

-----------------------------------------------------------------------------
\* The line

Byte(k) == [k |-> k]
Text(mode, ok) == [k |-> "text", mode |-> mode, ok |-> ok]
ModeBytes(mode) == [k |-> "mode", mode |-> mode]
Frame(n, data) == [k |-> "frame", num |-> n % FrameNumbers, data |-> data, damage |-> "none"]

IsFrame(line) == line /= << >> /\ Head(line).k = "frame"
IsByte(line, k) == line /= << >> /\ Head(line).k = k

Damage == {"crc", "number", "head", "short"}

Noisy(line) ==
  LET head == Head(line)
  IN  {Tail(line)} \cup
      IF head.k = "frame"
      THEN IF head.damage = "none"
           THEN {<< [head EXCEPT !.damage = d] >> \o Tail(line) : d \in Damage} ELSE {}
      ELSE IF head.k \notin {"junk", "text"} THEN {<< Byte("junk") >> \o Tail(line)} ELSE {}

-----------------------------------------------------------------------------
\* The chip

NoSend == [block |-> 0, errors |-> 0, cancels |-> 0, reads |-> 0]

\* What validate_mode() prints; the no-op mode has no verdict.
Answer(mode) ==
  IF mode = "noop" THEN << >> ELSE << Text(mode, ModeVerdict(chip, mode) = "ok") >>

\* The top of the loop of protocol(): handle_send_modes().
Loop(s, st) ==
  LET r == SendHandler(chip, s, st)
  IN  /\ session' = r.s
      /\ pc' = CASE r.err = "ok" -> "recv"
                 [] r.err = "start" -> "sendStart"
                 [] OTHER -> "ended"
      /\ send' = NoSend

End(s) ==
  /\ session' = s
  /\ pc' = "ended"
  /\ UNCHANGED send

\* protocol() begins with the default mode and invites the host.
Boot ==
  /\ Loop(ValidateMode(chip, SessionInit(chip).default, SessionInit(chip)), store)
  /\ nextMode' = "none"

\* xmodem_recv_frame() returned kErrorOk: handle_recv_modes().
FrameNumberAny(t, frame) == t.damage /= "number"
FrameNumberIs(t, frame) == t.num = frame % FrameNumbers /\ t.damage /= "number"
Fits(t, s) == Len(t.data) <= BlockUnits - s.offset

ReceivedBehind(t) ==
  [session EXCEPT !.deadline = FALSE, !.offset = @ + Len(t.data), !.data = @ \o t.data]

Received(t) ==
  [session EXCEPT !.deadline = FALSE, !.offset = @ + Len(t.data),
                  !.data = SubSeq(@, 1, session.offset) \o t.data]

Cancel == << Byte("can"), Byte("can") >>
Cancelled(err) == IF err \in {"tooBig", "badMode"} THEN Cancel ELSE << >>

FrameAccepted ==
  /\ pc = "recv" /\ IsFrame(toChip)
  /\ LET t == Head(toChip)
         r == RecvHandler(chip, Received(t), store)
     IN  /\ Fits(t, session) /\ t.damage = "none"
         /\ FrameNumberIs(t, session.frame)
         /\ store' = r.st
         /\ IF r.err = "ok"
            THEN /\ Loop([r.s EXCEPT !.frame = @ + 1], r.st)
                 /\ toHost' = Append(toHost, Byte("ack"))
            ELSE /\ End(r.s)
                 /\ toHost' = toHost \o Cancelled(r.err)
         /\ toChip' = Tail(toChip)
  /\ UNCHANGED << chip, nextMode, host, transfers, faults >>

FrameRepeated ==
  /\ pc = "recv" /\ IsFrame(toChip)
  /\ LET t == Head(toChip)
     IN  Fits(t, session) /\ t.damage = "crc" /\ FrameNumberIs(t, session.frame)
  /\ Loop(session, store)
  /\ toHost' = Append(toHost, Byte("nak"))
  /\ toChip' = Tail(toChip)
  /\ UNCHANGED << chip, store, nextMode, host, transfers, faults >>

\* Without its first byte, frame number 1 begins like a short frame (SOH).
TakenForShort(t) ==
  t.damage = "head" /\ session.frame = 1 /\ t.num = 1 % FrameNumbers

\* A frame that does not fit or is cut short, or one whose first byte is
\* damaged, ends the session without a word.
FrameFails ==
  /\ pc = "recv" /\ IsFrame(toChip)
  /\ LET t == Head(toChip)
     IN  \/ t.damage /= "head" /\ ~Fits(t, session)
         \/ t.damage = "short"
         \/ t.damage = "head" /\ ~TakenForShort(t)
  /\ End(session)
  /\ toChip' = Tail(toChip)
  /\ UNCHANGED << chip, store, nextMode, toHost, host, transfers, faults >>

\* A frame with another number cancels.
FrameCancelled ==
  /\ pc = "recv" /\ IsFrame(toChip)
  /\ LET t == Head(toChip)
     IN  \/ /\ t.damage \in {"none", "crc", "number"} /\ Fits(t, session)
            /\ ~FrameNumberIs(t, session.frame)
         \/ TakenForShort(t)
  /\ End(session)
  /\ toHost' = toHost \o Cancel
  /\ toChip' = Tail(toChip)
  /\ UNCHANGED << chip, store, nextMode, host, transfers, faults >>

\* The end of a transfer pads what is left in the buffer to a block.
PaddedDropped(s) == [s EXCEPT !.offset = 0]

Padded(s) ==
  IF s.offset % BlockUnits = 0 THEN s
  ELSE [s EXCEPT !.offset = BlockUnits,
                 !.data = [i \in 1..BlockUnits |-> IF i <= s.offset THEN s.data[i] ELSE FF]]

Finished(s) == [s EXCEPT !.frame = 1, !.offset = 0, !.flashOffset = 0]

EndOfFile ==
  /\ pc = "recv" /\ IsByte(toChip, "eof")
  /\ LET s == Padded(session)
         r == IF session.offset % BlockUnits = 0 THEN Result("ok", s, store)
              ELSE RecvHandler(chip, s, store)
     IN  /\ store' = r.st
         /\ IF r.err = "ok"
            THEN /\ Loop(Finished(r.s), r.st)
                 /\ toHost' = Append(toHost, Byte("ack"))
            ELSE /\ End(r.s)
                 /\ toHost' = toHost \o Cancelled(r.err)
  /\ toChip' = Tail(toChip)
  /\ UNCHANGED << chip, nextMode, host, transfers, faults >>

\* Bytes before the first frame are collected as a mode, and the carriage
\* return asks for it.  Within a transfer any of them ends the session.
ModeByte ==
  /\ pc = "recv" /\ toChip /= << >>
  /\ LET t == Head(toChip)
     IN  /\ t.k \notin {"frame", "eof", "cr"}
         /\ IF session.frame = 1
            THEN /\ nextMode' = IF t.k = "mode" THEN t.mode ELSE "bad"
                 /\ Loop(session, store)
            ELSE End(session) /\ UNCHANGED nextMode
  /\ toChip' = Tail(toChip)
  /\ UNCHANGED << chip, store, toHost, host, transfers, faults >>

ModeChange ==
  /\ pc = "recv" /\ IsByte(toChip, "cr")
  /\ IF session.frame = 1
     THEN /\ Loop(ValidateMode(chip, nextMode, [session EXCEPT !.deadline = FALSE]), store)
          /\ toHost' = toHost \o Answer(nextMode)
          /\ nextMode' = "none"
     ELSE End(session) /\ UNCHANGED << toHost, nextMode >>
  /\ toChip' = Tail(toChip)
  /\ UNCHANGED << chip, store, host, transfers, faults >>

\* kErrorXModemTimeoutStart: the chip invites the host again, or, within a
\* transfer, gives up.
SilenceWaits ==
  /\ pc = "recv" /\ toChip = << >>
  /\ toHost' = IF session.mode /= "noop" /\ Len(toHost) < MaxLine
               THEN Append(toHost, Byte("C")) ELSE toHost
  /\ UNCHANGED << chip, store, chipVars, toChip, host, transfers, faults >>

Silence ==
  /\ pc = "recv" /\ toChip = << >>
  /\ IF session.frame = 1
     THEN /\ toHost' = IF session.mode /= "noop" /\ Len(toHost) < MaxLine
                       THEN Append(toHost, Byte("C")) ELSE toHost
          /\ UNCHANGED << session, pc, send >>
     ELSE End(session) /\ UNCHANGED toHost
  /\ UNCHANGED << chip, store, nextMode, toChip, host, transfers, faults >>

\* rescue_inactivity(), after the frame or byte that was waited for.
Inactivity ==
  /\ pc = "recv" /\ session.deadline
  /\ End(session)
  /\ toChip' = IF toChip = << >> THEN toChip ELSE Tail(toChip)
  /\ UNCHANGED << chip, store, nextMode, toHost, host, transfers, faults >>

\* xmodem_send_data(): the frames that the staged data is sent in.
Chunk(done) ==
  LET left == Len(session.data) - done
      size == IF left < LongFrame THEN 1 ELSE LongFrame
  IN  SubSeq(session.data, done + 1, done + size)

\* How much of the data the first n blocks hold.
SentLong(n) == n * LongFrame

Sent(n) ==
  LET long == Len(session.data) \div LongFrame
  IN  IF n <= long THEN n * LongFrame ELSE long * LongFrame + (n - long)

SendFrame(n) == Append(toHost, Frame(n, Chunk(Sent(n - 1))))

\* xmodem_send_start()
SendStart ==
  /\ pc = "sendStart"
  /\ LET t == IF toChip = << >> THEN "none" ELSE Head(toChip).k
         cancels == IF t = "can" THEN send.cancels + 1 ELSE send.cancels
     IN  IF t = "C"
         THEN /\ pc' = "sendAck"
              /\ send' = [NoSend EXCEPT !.block = 1]
              /\ toHost' = SendFrame(1)
              /\ UNCHANGED session
         ELSE /\ UNCHANGED toHost
              /\ IF t = "nak" \/ cancels = 2 \/ send.reads + 1 = SendRetries
                 THEN End(session)
                 ELSE /\ send' = [send EXCEPT !.reads = @ + 1, !.cancels = cancels]
                      /\ UNCHANGED << session, pc >>
  /\ toChip' = IF toChip = << >> THEN toChip ELSE Tail(toChip)
  /\ UNCHANGED << chip, store, nextMode, host, transfers, faults >>

\* xmodem_send_data(), after each frame.
SendAcked ==
  /\ pc = "sendAck" /\ IsByte(toChip, "ack")
  /\ IF Sent(send.block) >= session.staged
     THEN pc' = "sendEnd" /\ toHost' = Append(toHost, Byte("eof")) /\ UNCHANGED send
     ELSE /\ send' = [send EXCEPT !.block = @ + 1]
          /\ toHost' = SendFrame(send.block + 1)
          /\ UNCHANGED pc
  /\ toChip' = Tail(toChip)
  /\ UNCHANGED << chip, store, session, nextMode, host, transfers, faults >>

SendRefused ==
  /\ pc = "sendAck" /\ toChip /= << >>
  /\ LET t == Head(toChip)
         cancels == IF t.k = "can" THEN send.cancels + 1 ELSE send.cancels
         errors == IF t.k = "can" THEN send.errors ELSE send.errors + 1
     IN  /\ t.k /= "ack"
         /\ IF cancels = 2 \/ errors >= ChipMaxErrors
            THEN End(session) /\ UNCHANGED toHost
            ELSE /\ send' = [send EXCEPT !.errors = errors, !.cancels = cancels]
                 /\ toHost' = SendFrame(send.block)
                 /\ UNCHANGED << session, pc >>
  /\ toChip' = Tail(toChip)
  /\ UNCHANGED << chip, store, nextMode, host, transfers, faults >>

SendUnanswered ==
  /\ pc = "sendAck" /\ toChip = << >>
  /\ End(session)
  /\ UNCHANGED << chip, store, nextMode, toChip, toHost, host, transfers, faults >>

\* xmodem_send_finish() takes any byte, or none; then the default mode.
SendFinish ==
  /\ pc = "sendEnd"
  /\ toChip' = IF toChip = << >> THEN toChip ELSE Tail(toChip)
  /\ Loop(ValidateMode(chip, session.default, [session EXCEPT !.staged = 0]), store)
  /\ toHost' = toHost \o Answer(session.default)
  /\ UNCHANGED << chip, store, nextMode, host, transfers, faults >>

-----------------------------------------------------------------------------
\* The host

Idle == [pc |-> "idle", op |-> "none", mode |-> "none", file |-> "none", size |-> 0,
         block |-> 0, errors |-> 0, cancels |-> 0, got |-> << >>,
         result |-> "none", reset |-> FALSE]

HostEnds(result) == host' = [host EXCEPT !.pc = "idle", !.result = result]

HostUnchanged == UNCHANGED << chip, store, chipVars, transfers, faults >>

Blocks(f, size) == (FileUnits[f] + size - 1) \div size
HostFrame(f, size, n) ==
  Frame(n, [i \in 1..size |-> FileUnit(f, (n - 1) * size + i)])

\* Rescue::set_raw() and Rescue::get_raw() begin with set_mode().
HostBegins ==
  /\ host.pc = "idle" /\ transfers < MaxTransfers
  /\ \/ \E x \in Sends :
          host' = [Idle EXCEPT !.pc = "mode", !.op = "send", !.mode = x.mode,
                               !.file = x.file, !.size = x.size]
     \/ \E mode \in Reads :
          host' = [Idle EXCEPT !.pc = "mode", !.op = "recv", !.mode = mode]
  /\ toChip' = toChip \o << ModeBytes(host'.mode), Byte("cr") >>
  /\ transfers' = transfers + 1
  /\ UNCHANGED << chip, store, chipVars, toHost, faults >>

\* The answer to the mode: anything else is skipped.
HostReadsMode ==
  /\ host.pc = "mode" /\ toHost /= << >>
  /\ LET t == Head(toHost)
     IN  IF t.k = "text" /\ t.mode = host.mode
         THEN /\ IF ~t.ok THEN HostEnds("failed")
                 ELSE host' = [host EXCEPT !.pc = IF host.op = "send" THEN "start" ELSE "recv",
                                           !.block = 1]
              /\ toChip' = IF t.ok /\ host.op = "recv" THEN Append(toChip, Byte("C")) ELSE toChip
         ELSE UNCHANGED << host, toChip >>
  /\ toHost' = Tail(toHost)
  /\ HostUnchanged

\* One second without the answer.
HostGivesUp ==
  /\ host.pc = "mode"
  /\ HostEnds("failed")
  /\ UNCHANGED << toChip, toHost >>
  /\ HostUnchanged

\* send_start()
HostStarts ==
  /\ host.pc = "start" /\ toHost /= << >>
  /\ LET t == Head(toHost)
         cancels == IF t.k = "can" THEN host.cancels + 1 ELSE host.cancels
     IN  CASE t.k = "C" ->
                /\ host' = [host EXCEPT !.pc = "data", !.cancels = 0]
                /\ toChip' = Append(toChip, HostFrame(host.file, host.size, 1))
           [] t.k = "nak" \/ (t.k = "can" /\ cancels = 2) ->
                HostEnds("failed") /\ UNCHANGED toChip
           [] OTHER ->
                host' = [host EXCEPT !.cancels = cancels] /\ UNCHANGED toChip
  /\ toHost' = Tail(toHost)
  /\ HostUnchanged

\* send_data()
HostSends ==
  /\ host.pc = "data" /\ toHost /= << >>
  /\ LET t == Head(toHost)
         last == host.block = Blocks(host.file, host.size)
         cancels == IF t.k = "can" THEN host.cancels + 1 ELSE host.cancels
         errors == IF t.k = "can" THEN host.errors ELSE host.errors + 1
     IN  CASE t.k = "ack" /\ last ->
                /\ host' = [host EXCEPT !.pc = "finish"]
                /\ toChip' = Append(toChip, Byte("eof"))
           [] t.k = "ack" /\ ~last ->
                /\ host' = [host EXCEPT !.block = @ + 1, !.cancels = 0]
                /\ toChip' = Append(toChip, HostFrame(host.file, host.size, host.block + 1))
           [] t.k /= "ack" /\ (cancels = 2 \/ errors >= HostMaxErrors) ->
                HostEnds("failed") /\ UNCHANGED toChip
           [] OTHER ->
                /\ host' = [host EXCEPT !.cancels = cancels, !.errors = errors]
                /\ toChip' = Append(toChip, HostFrame(host.file, host.size, host.block))
  /\ toHost' = Tail(toHost)
  /\ HostUnchanged

\* send_finish() takes any byte for the end.
HostFinishes ==
  /\ host.pc = "finish" /\ toHost /= << >>
  /\ HostEnds(IF Head(toHost).k = "ack" THEN "acked" ELSE "unsure")
  /\ toHost' = Tail(toHost)
  /\ UNCHANGED toChip
  /\ HostUnchanged

\* receive(): a frame that is cut short swallows what follows it, and fails
\* like one that is damaged.
CutShort(line) == IsFrame(line) /\ Head(line).damage = "short"

HostReceives ==
  /\ host.pc = "recv" /\ Len(toHost) > (IF CutShort(toHost) THEN 1 ELSE 0)
  /\ LET t == Head(toHost)
         whole == t.k = "frame" /\ t.damage /= "head"
         expected == whole /\ FrameNumberIs(t, host.block)
         good == expected /\ t.damage = "none"
         reply == CASE t.k = "eof" \/ good -> << Byte("ack") >>
                    [] whole /\ ~expected -> Cancel
                    [] whole /\ expected /\ ~good -> << Byte("nak") >>
                    [] OTHER -> << >>
     IN  /\ toChip' = toChip \o reply
         /\ CASE t.k = "eof" -> HostEnds("received")
              [] good -> host' = [host EXCEPT !.block = @ + 1, !.got = @ \o t.data]
              [] expected /\ ~good /\ host.errors + 1 < HostMaxErrors ->
                   host' = [host EXCEPT !.errors = @ + 1]
              [] OTHER -> HostEnds("failed")
  /\ toHost' = IF CutShort(toHost) THEN Tail(Tail(toHost)) ELSE Tail(toHost)
  /\ HostUnchanged

-----------------------------------------------------------------------------
\* The environment

\* The chip resets after the session; what it prints is noise to the host.
Reset ==
  /\ pc = "ended"
  /\ Boot
  /\ toChip' = << >>
  /\ toHost' = << Byte("boot") >> \o Answer(session'.default) \o << Byte("C") >>
  /\ host' = [host EXCEPT !.reset = @ \/ host.pc /= "idle"]
  /\ UNCHANGED << chip, store, transfers, faults >>

LineNoise ==
  /\ faults < MaxFaults
  /\ faults' = faults + 1
  /\ \/ /\ toChip /= << >> /\ toChip' \in Noisy(toChip) /\ UNCHANGED toHost
     \/ /\ toHost /= << >> /\ toHost' \in Noisy(toHost) /\ UNCHANGED toChip
  /\ UNCHANGED << chip, store, chipVars, host, transfers >>

\* Power fails, or a flash operation, while the block that is now complete
\* is erased or written.
WriteBreaksOff ==
  /\ faults < MaxFaults /\ pc = "recv" /\ toChip /= << >>
  /\ faults' = faults + 1
  /\ LET t == Head(toChip)
         s == CASE t.k = "eof" -> Padded(session)
                [] IsFrame(toChip) -> Received(t)
                [] OTHER -> session
     IN  /\ t.k = "eof" => session.offset % BlockUnits /= 0
         /\ t.k = "frame" =>
              Fits(t, session) /\ t.damage = "none" /\ FrameNumberIs(t, session.frame)
         /\ store' \in Broken(chip, s, store)
         /\ End(s)
  /\ toChip' = Tail(toChip)
  /\ UNCHANGED << chip, nextMode, toHost, host, transfers >>

\* Without power, retention RAM loses the message.
Scrambled == [i \in 1..MsgUnits |-> Torn]

PowerCut ==
  /\ faults < MaxFaults
  /\ pc' = "ended"
  /\ store' = [store EXCEPT !.msg = Scrambled]
  /\ faults' = faults + 1
  /\ UNCHANGED << chip, session, nextMode, send, toChip, toHost, host, transfers >>

Init ==
  /\ chip \in Setups
  /\ store = [flash |-> [slot \in Slots |-> [p \in Pages |-> PageOf(Old)]],
              owner1 |-> PageOf(Old), msg |-> [i \in 1..MsgUnits |-> Old]]
  /\ session = ValidateMode(chip, SessionInit(chip).default, SessionInit(chip))
  /\ pc = "recv"
  /\ nextMode = "none"
  /\ send = NoSend
  /\ toChip = << >> /\ toHost = << Byte("C") >>
  /\ host = Idle
  /\ transfers = 0 /\ faults = 0

Receive == FrameAccepted \/ FrameRepeated \/ FrameFails \/ FrameCancelled
Command == EndOfFile \/ ModeByte \/ ModeChange \/ Silence
Transmit == SendStart \/ SendAcked \/ SendRefused \/ SendUnanswered \/ SendFinish

Chip == Receive \/ Command \/ Transmit

Host ==
  HostBegins \/ HostReadsMode \/ HostGivesUp \/ HostStarts \/ HostSends \/ HostFinishes
    \/ HostReceives

Next == Chip \/ Inactivity \/ Reset \/ Host \/ LineNoise \/ WriteBreaksOff \/ PowerCut

Spec == Init /\ [][Next]_vars
FairSpec == Spec /\ WF_vars(Chip)

-----------------------------------------------------------------------------
\* Properties

\* The state has its type: the buffer is never overrun, and what is in it
\* reaches as far as the offset says.
TypeOK ==
  /\ chip \in Setups
  /\ session.mode \in Modes /\ session.default \in {"firmware", "noop"}
  /\ session.offset \in 0..BlockUnits /\ session.offset <= Len(session.data)
  /\ Len(session.data) <= BlockUnits /\ session.staged \in 0..BlockUnits
  /\ session.flashOffset \in 0..FlashLimit /\ session.flashBegin \in {0, FlashStart}
  /\ pc \in {"recv", "sendStart", "sendAck", "sendEnd", "ended"}
  /\ \A slot \in Slots, p \in Pages : Len(store.flash[slot][p]) = BlockUnits
  /\ Len(store.owner1) = BlockUnits /\ Len(store.msg) = MsgUnits
  /\ host.pc \in {"idle", "mode", "start", "data", "finish", "recv"}

Stored ==
  CASE host.mode \in FirmwareModes -> Holds(chip, store, BankOf(host.mode), host.file)
    [] host.mode = "ownerBlock" -> store.owner1 = Block(host.file, 0)
    [] host.mode = "bootSvcReq" ->
         store.msg \in {SubSeq(Block(host.file, 0), 1, MsgUnits), Scrambled}

\* A host whose end of file was acknowledged, by the session it began with,
\* finds stored what it sent, whole and nothing else, and a host that received
\* everything has what the chip holds: however frames and acknowledgements
\* were damaged, lost and sent again.
SuccessIsTrue ==
  host.pc = "idle" /\ ~host.reset =>
    /\ host.result = "acked" => Stored
    /\ host.result = "received" =>
         \/ host.got = Content(host.mode, store)
         \/ host.mode = "bootSvcRsp" /\ store.msg = Scrambled

\* No step writes the ROM_EXT that runs, or what lies behind the area that
\* the owner gave to rescue: whatever is received, repeated or cut short.
ProtectedIsKept ==
  [][\A sp \in ProtectedPages(chip) :
       store.flash[sp[1]][sp[2]] = store'.flash[sp[1]][sp[2]]]_vars

\* Each bank changes as FirmwareSlot says: a transfer erases it, then the
\* blocks of one file follow each other, and only a fault leaves less.
SlotA == INSTANCE FirmwareSlot WITH
  bank <- store.flash["A"], protected <- chip.active = "A"
SlotB == INSTANCE FirmwareSlot WITH
  bank <- store.flash["B"], protected <- chip.active = "B"

SlotsGrowInOrder == SlotA!Spec /\ SlotB!Spec

\* A transfer that began ends: the chip does not wait forever for a host that
\* fell silent within it.
TransferEnds == session.frame > 1 ~> session.frame <= 1 \/ pc = "ended"

=============================================================================
