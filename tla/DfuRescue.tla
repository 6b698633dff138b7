------------------------------- MODULE DfuRescue -------------------------------
(***************************************************************************)
(* Rescue over USB and SPI: the device firmware update protocol of         *)
(* lib/rescue/dfu.c, its transports rescue_usb.c and rescue_spi.c, and the *)
(* host of opentitanlib (rescue/usbdfu.rs, rescue/spidfu.rs).              *)
(*                                                                         *)
(* A control transfer is a request, which the chip accepts or stalls, and  *)
(* its data, in chunks: packets on USB, page programs on SPI.  Over USB    *)
(* the chip is told of the end of every transfer, over SPI only of the end *)
(* of the data it receives.  A host may stop at any point and begin anew.  *)
(***************************************************************************)
EXTENDS RescueService, FiniteSets, FiniteSetsExt

CONSTANTS
  Setups,       \* the chips
  Transports,   \* those of "usb" and "spi" that are used
  Sends,        \* what a host may send: mode, file
  Reads,        \* the modes a host may read
  ChunkUnits,   \* units in a chunk
  Stops,        \* where a host may stop: transport, host.pc
  MaxTransfers, \* bound: operations the host begins
  MaxFaults     \* bound: power cuts, resets and flash errors

HostPcs ==
  {"idle", "mode", "download", "data", "status", "end", "endStatus", "upload", "uploadStatus"}

ASSUME DfuAssumption ==
  /\ Setups \subseteq Chips
  /\ Transports \subseteq {"usb", "spi"}
  /\ Sends \subseteq [mode : RecvModes, file : Files]
  /\ \A x \in Sends : x.mode \in {"ownerBlock", "bootSvcReq"} => FileUnits[x.file] <= BlockUnits
  /\ Reads \subseteq {"deviceId", "bootLog", "bootSvcRsp", "ownerPage0"}
  /\ ChunkUnits \in 1..BlockUnits /\ BlockUnits % ChunkUnits = 0
  /\ Stops \subseteq {"usb", "spi"} \X HostPcs
  /\ MaxTransfers \in Nat /\ MaxFaults \in Nat

VARIABLES
  chip,      \* the chip's configuration: never changes
  transport, \* "usb" or "spi": never changes
  store,     \* flash, the owner page and the message in retention RAM
  session,   \* rescue_state_t
  dfu,       \* the other fields of dfu_ctx_t
  host,      \* the host's operation
  transfers, \* operations begun
  faults     \* faults so far

vars == << chip, transport, store, session, dfu, host, transfers, faults >>

-----------------------------------------------------------------------------
\* The chip: modes

\* mode_by_altsetting[], from 1 instead of 0.
Settings ==
  << [mode |-> "firmware", paired |-> "none"], [mode |-> "firmwareB", paired |-> "none"],
     [mode |-> "deviceId", paired |-> "none"], [mode |-> "bootLog", paired |-> "none"],
     [mode |-> "bootSvcRsp", paired |-> "bootSvcReq"],
     [mode |-> "ownerPage0", paired |-> "ownerBlock"] >>

\* What a mode allows once rescue_validate_mode() took it.
Allows(mode) ==
  IF mode = "none" \/ ModeVerdict(chip, mode) /= "ok" THEN {}
  ELSE IF mode \in SendModes THEN {"upload"} ELSE {"download"}

\* validate_mode() stages what the first mode sends, and then makes ready to
\* receive for the mode it is paired with.
StagedOnce(mode, s) ==
  LET validated == ValidateMode(chip, mode, s)
  IN  IF "upload" \in Allows(mode) /\ s.staged = 0
      THEN SendHandler(chip, validated, store).s ELSE validated

Staged(mode, s) ==
  LET validated == ValidateMode(chip, mode, s)
  IN  IF "upload" \in Allows(mode) THEN SendHandler(chip, validated, store).s ELSE validated

SetMode(setting, s) ==
  LET staged == Staged(Settings[setting].mode, s)
      paired == Settings[setting].paired
  IN  IF paired = "none" THEN staged ELSE ValidateMode(chip, paired, staged)

Allowed(setting) == Allows(Settings[setting].mode) \cup Allows(Settings[setting].paired)

-----------------------------------------------------------------------------
\* The chip: requests.  A handler gives the session, the DFU context, and the
\* reply: a stall, nothing, data to the host, or room for data from it.

States == {"idle", "dnLoadSync", "dnLoadIdle", "manifestSync", "upLoadIdle", "error"}

Reply(k, data) == [k |-> k, data |-> data]
Handled(s, d, reply) == [s |-> s, d |-> d, reply |-> reply]

Fails(s, d, error) ==
  Handled(s, [d EXCEPT !.state = "error", !.error = error], Reply("stall", << >>))

\* SET_INTERFACE.  The operating system sends it by itself for setting 0,
\* which is not to count as activity.
SetInterface(setting, s, d) ==
  LET active == ~(d.interface = 1 /\ setting = 1)
      t == SetMode(setting, s)
  IN  IF Allowed(setting) = {} THEN Handled(t, d, Reply("stall", << >>))
      ELSE Handled(IF active THEN [t EXCEPT !.deadline = FALSE] ELSE t,
                   [d EXCEPT !.allow = Allowed(setting), !.interface = setting],
                   Reply("ack", << >>))

\* vendor_request(): the same over SPI, always taken for activity.
VendorSetMode(setting, s, d) ==
  LET t == SetMode(setting, [s EXCEPT !.deadline = FALSE])
  IN  IF Allowed(setting) = {} THEN Handled(t, d, Reply("stall", << >>))
      ELSE Handled(t, [d EXCEPT !.allow = Allowed(setting)], Reply("ack", << >>))

\* dfu_control() and dfu_state_table[], request by request.
DnLoad(length, s, d) ==
  LET sync == [d EXCEPT !.state = "dnLoadSync", !.expected = length]
  IN  CASE d.state \notin {"idle", "dnLoadIdle"} -> Fails(s, d, "stalledPkt")
        [] d.state \in {"idle", "dnLoadIdle"} /\ "download" \notin d.allow ->
             Fails(s, d, "unknown")
        [] OTHER ->
             IF length = 0
             THEN Handled(s, [d EXCEPT !.state = IF d.state = "idle" THEN "error"
                                                 ELSE "manifestSync"], Reply("ack", << >>))
             ELSE IF s.offset < FlashLimit * BlockUnits
             THEN Handled(s, sync, Reply("out", << >>))
             ELSE Fails(s, d, "address")

UpLoad(s, d) ==
  CASE d.state \notin {"idle", "upLoadIdle"} -> Fails(s, d, "stalledPkt")
    [] d.state \in {"idle", "upLoadIdle"} /\ "upload" \notin d.allow -> Fails(s, d, "unknown")
    [] OTHER -> Handled(s, [d EXCEPT !.state = "upLoadIdle"],
                        Reply("in", SubSeq(s.data, 1, s.staged)))

StateAfterStatusIdle(state) == IF state \in {"dnLoadSync", "dnLoadIdle"} THEN "idle" ELSE state

StateAfterStatus(state) ==
  CASE state = "dnLoadSync" -> "dnLoadIdle"
    [] state = "manifestSync" -> "idle"
    [] OTHER -> state

GetStatus(s, d) ==
  LET state == StateAfterStatus(d.state)
  IN  Handled(s, [d EXCEPT !.state = state], Reply("status", << state, d.error >>))

\* The table moves on with GETSTATE too.
GetState(s, d) ==
  LET state == CASE d.state = "idle" -> "upLoadIdle"
                 [] d.state = "dnLoadSync" -> "dnLoadIdle"
                 [] OTHER -> d.state
  IN  Handled(s, [d EXCEPT !.state = state], Reply("status", << state >>))

ClrStatus(s, d) ==
  CASE d.state = "error" ->
         Handled(s, [d EXCEPT !.state = "idle", !.error = "ok"], Reply("ack", << >>))
    [] d.state = "idle" ->
         Handled(s, [d EXCEPT !.error = "stalledPkt"], Reply("stall", << >>))
    [] OTHER -> Fails(s, d, "stalledPkt")

Abort(s, d) ==
  IF d.state = "error" THEN Fails(s, d, "stalledPkt")
  ELSE Handled(s, [d EXCEPT !.state = "idle"], Reply("ack", << >>))

\* Any class request cancels the inactivity deadline.
HeardLate(s) == s
Heard(s) == [s EXCEPT !.deadline = FALSE]

-----------------------------------------------------------------------------
\* The chip: data

\* Chunk c of the data goes to its place in the buffer; what was there before
\* the first use of the buffer is zero.
Unit(data, i) == IF i <= Len(data) THEN data[i] ELSE Old

CopiedBehind(s, c, chunk) == [s EXCEPT !.data = @ \o chunk]

Copied(s, c, chunk) ==
  [s EXCEPT !.data = [i \in 1..BlockUnits |->
     IF i - c * ChunkUnits \in 1..Len(chunk) THEN chunk[i - c * ChunkUnits]
     ELSE Unit(s.data, i)]]

\* The end of a transfer: a block is filled up and handled, and what was
\* staged is gone.
FilledShort(s, length) == [s EXCEPT !.offset = length]

Filled(s, length) ==
  [s EXCEPT !.offset = BlockUnits,
            !.data = [i \in 1..BlockUnits |-> IF i <= length THEN Unit(s.data, i) ELSE FF]]

Completed(s, d, length) ==
  CASE d.state = "dnLoadSync" ->
         LET r == RecvHandler(chip, Filled(s, length), store)
         IN  [s |-> r.s, st |-> r.st,
              d |-> [d EXCEPT !.state = "dnLoadIdle",
                              !.error = IF r.err = "ok" THEN "ok" ELSE "vendor"]]
    [] d.state = "upLoadIdle" ->
         [s |-> [s EXCEPT !.staged = 0], st |-> store,
          d |-> IF length < BlockUnits THEN [d EXCEPT !.state = "idle"] ELSE d]
    [] OTHER -> [s |-> s, st |-> store, d |-> d]

\* What a request leaves, once its reply is delivered: over USB that is the
\* end of a transfer.  A status is shorter than a block.
Answers(r) ==
  LET length == IF r.reply.k = "in" THEN Len(r.reply.data) ELSE 0
  IN  IF transport = "usb" /\ r.reply.k \in {"ack", "in", "status"}
      THEN \E done \in {Completed(r.s, r.d, length)} :
             session' = done.s /\ dfu' = done.d /\ store' = done.st
      ELSE session' = r.s /\ dfu' = r.d /\ UNCHANGED store

\* set_configuration(), as a part of the enumeration over USB.
FreshDfu == [state |-> "idle", error |-> "ok", allow |-> {}, interface |-> 1, expected |-> 0]

FreshSession ==
  IF transport = "usb" THEN SetMode(1, SessionInit(chip)) ELSE SessionInit(chip)

Boot ==
  /\ session' = FreshSession
  /\ dfu' = IF transport = "usb" /\ Allowed(1) /= {}
            THEN [FreshDfu EXCEPT !.allow = Allowed(1)] ELSE FreshDfu

-----------------------------------------------------------------------------
\* The host

Idle == [pc |-> "idle", op |-> "none", mode |-> "none", file |-> "none",
         block |-> 0, chunk |-> 0, got |-> << >>, result |-> "none", reset |-> FALSE]

HostEnds(result) == host' = [host EXCEPT !.pc = "idle", !.result = result]
HostGoes(pc) == host' = [host EXCEPT !.pc = pc]

\* A request of the host, and what the host makes of a reply that is no stall.
Request(result, next) ==
  /\ \E r \in {result} :
       /\ Answers(r)
       /\ IF r.reply.k = "stall" THEN HostEnds("failed") ELSE next
  /\ UNCHANGED << chip, transport, transfers, faults >>

SettingOf(mode) ==
  CHOOSE i \in DOMAIN Settings : mode \in {Settings[i].mode, Settings[i].paired}

BlockLength == Min({BlockUnits, FileUnits[host.file] - host.block * BlockUnits})

HostBegins ==
  /\ host.pc = "idle" /\ transfers < MaxTransfers
  /\ \/ \E x \in Sends :
          host' = [Idle EXCEPT !.pc = "mode", !.op = "send", !.mode = x.mode, !.file = x.file]
     \/ \E mode \in Reads :
          host' = [Idle EXCEPT !.pc = "mode", !.op = "recv", !.mode = mode]
  /\ transfers' = transfers + 1
  /\ UNCHANGED << chip, transport, store, session, dfu, faults >>

HostSetsMode ==
  /\ host.pc = "mode"
  /\ Request(IF transport = "usb" THEN SetInterface(SettingOf(host.mode), session, dfu)
             ELSE VendorSetMode(SettingOf(host.mode), session, dfu),
             HostGoes(IF host.op = "send" THEN "download" ELSE "upload"))

HostDownloads ==
  /\ host.pc = "download"
  /\ Request(DnLoad(BlockLength, Heard(session), dfu),
             host' = [host EXCEPT !.pc = "data", !.chunk = 0])

\* The next chunk of the block that is on its way.
First == host.chunk * ChunkUnits
Last == Min({First + ChunkUnits, BlockLength})
Chunk ==
  [i \in 1..(Last - First) |-> FileUnit(host.file, host.block * BlockUnits + First + i)]

HostSendsChunk ==
  IF Last < BlockLength THEN host' = [host EXCEPT !.chunk = @ + 1] ELSE HostGoes("status")

\* The end of the data, as the chip sees it: over USB the length is counted,
\* over SPI it is where the chunk ends.
IsLast == Last >= dfu.expected

ChunkArrives ==
  /\ host.pc = "data"
  /\ transport = "spi" => \E i \in DOMAIN Chunk : Chunk[i] /= FF
  /\ \E s \in {Copied(session, host.chunk, Chunk)} :
       IF IsLast
       THEN \E done \in {Completed(s, [dfu EXCEPT !.expected = 0], Last)} :
              session' = done.s /\ dfu' = done.d /\ store' = done.st
       ELSE session' = s /\ UNCHANGED << dfu, store >>
  /\ HostSendsChunk
  /\ UNCHANGED << chip, transport, transfers, faults >>

\* SpiFlash::program() leaves out what an erased flash would hold anyway.
ChunkIsSkipped ==
  /\ host.pc = "data" /\ transport = "spi"
  /\ \A i \in DOMAIN Chunk : Chunk[i] = FF
  /\ HostSendsChunk
  /\ UNCHANGED << chip, transport, store, session, dfu, transfers, faults >>

\* The status is asked for until the chip is done with the block.
HostPolls ==
  /\ host.pc = "status"
  /\ LET r == GetStatus(Heard(session), dfu)
         state == r.reply.data[1]
         error == r.reply.data[2]
         more == (host.block + 1) * BlockUnits < FileUnits[host.file]
     IN  Request(r, CASE state \notin {"dnLoadIdle", "error"} -> UNCHANGED host
                      [] state \in {"dnLoadIdle", "error"} /\ error /= "ok" -> HostEnds("failed")
                      [] OTHER -> host' = [host EXCEPT !.pc = IF more THEN "download" ELSE "end",
                                                       !.block = IF more THEN @ + 1 ELSE @])

HostFinishes ==
  /\ host.pc = "end"
  /\ Request(DnLoad(0, Heard(session), dfu), HostGoes("endStatus"))

HostUploads ==
  /\ host.pc = "upload"
  /\ LET r == UpLoad(Heard(session), dfu)
     IN  Request(r, host' = [host EXCEPT !.pc = "uploadStatus", !.got = r.reply.data])

HostReadsStatus ==
  /\ host.pc \in {"endStatus", "uploadStatus"}
  /\ Request(GetStatus(Heard(session), dfu),
             HostEnds(IF host.pc = "endStatus" THEN "acked" ELSE "received"))

\* The host is stopped, or its program crashes.
HostStops ==
  /\ << transport, host.pc >> \in Stops /\ host.pc /= "idle"
  /\ HostEnds("failed")
  /\ UNCHANGED << chip, transport, store, session, dfu, transfers, faults >>

\* Between operations, a host may ask for anything else.
HostAsks ==
  /\ host.pc = "idle"
  /\ LET s == Heard(session)
     IN  \E r \in {GetStatus(s, dfu), GetState(s, dfu), ClrStatus(s, dfu), Abort(s, dfu)} :
           Request(r, UNCHANGED host)

\* What the operating system asks by itself, outside a data stage.
OtherRequest ==
  /\ transport = "usb" /\ host.pc /= "data"
  /\ Request(Handled(session, dfu, Reply("ack", << >>)), UNCHANGED host)

-----------------------------------------------------------------------------
\* The environment

\* The chip starts over.  A host on USB notices, one on SPI does not.
HostSeesReset ==
  IF host.pc = "idle" THEN UNCHANGED host
  ELSE host' = IF transport = "usb" THEN [host EXCEPT !.pc = "idle", !.result = "failed"]
               ELSE [host EXCEPT !.reset = TRUE]

\* Rescue::reboot(): a USB reset, or the reset command over SPI.
HostReboots ==
  /\ host.pc = "idle"
  /\ Boot
  /\ UNCHANGED << chip, transport, store, host, transfers, faults >>

\* rescue_inactivity()
Inactivity ==
  /\ session.deadline
  /\ Boot
  /\ HostSeesReset
  /\ UNCHANGED << chip, transport, store, transfers, faults >>

Scrambled == [i \in 1..MsgUnits |-> Torn]

PowerCut ==
  /\ faults < MaxFaults
  /\ faults' = faults + 1
  /\ Boot
  /\ store' = [store EXCEPT !.msg = Scrambled]
  /\ HostSeesReset
  /\ UNCHANGED << chip, transport, transfers >>

\* The block that is now complete is not taken whole: power fails, or the
\* flash controller reports an error, before or after the erase is done.
Stranded(s) ==
  IF s.mode \notin FirmwareModes THEN {s}
  ELSE {[s EXCEPT !.flashOffset = n, !.flashBegin = FlashBegin(chip, s)] :
          n \in {s.flashOffset, FlashOffset(s)}}

WriteBreaksOff ==
  /\ faults < MaxFaults
  /\ host.pc = "data" /\ dfu.state = "dnLoadSync" /\ IsLast
  /\ faults' = faults + 1
  /\ LET s == Filled(Copied(session, host.chunk, Chunk), Last)
     IN  /\ store' \in Broken(chip, s, store)
         /\ \/ Boot /\ HostSeesReset
            \/ /\ session' \in Stranded(s)
               /\ dfu' = [dfu EXCEPT !.state = "dnLoadIdle", !.error = "vendor", !.expected = 0]
               /\ HostGoes("status")
  /\ UNCHANGED << chip, transport, transfers >>

Init ==
  /\ chip \in Setups
  /\ transport \in Transports
  /\ store = [flash |-> [slot \in Slots |-> [p \in Pages |-> PageOf(Old)]],
              owner1 |-> PageOf(Old), msg |-> [i \in 1..MsgUnits |-> Old]]
  /\ session = FreshSession
  /\ dfu = IF transport = "usb" /\ Allowed(1) /= {}
           THEN [FreshDfu EXCEPT !.allow = Allowed(1)] ELSE FreshDfu
  /\ host = Idle
  /\ transfers = 0 /\ faults = 0

\* The operation a host has begun goes on.
Host ==
  HostSetsMode \/ HostDownloads \/ ChunkArrives \/ ChunkIsSkipped \/ HostPolls \/ HostFinishes
    \/ HostUploads \/ HostReadsStatus

Next ==
  Host \/ HostBegins \/ HostStops \/ HostAsks \/ OtherRequest \/ HostReboots \/ Inactivity
    \/ PowerCut \/ WriteBreaksOff

Spec == Init /\ [][Next]_vars
FairSpec == Spec /\ WF_vars(Host)

-----------------------------------------------------------------------------
\* Properties

\* The state has its type: the buffer is never overrun.
TypeOK ==
  /\ chip \in Setups /\ transport \in Transports
  /\ session.mode \in Modes /\ session.default \in {"firmware", "noop"}
  /\ session.offset \in 0..BlockUnits /\ Len(session.data) <= BlockUnits
  /\ session.staged \in 0..BlockUnits
  /\ session.flashOffset \in 0..FlashLimit /\ session.flashBegin \in {0, FlashStart}
  /\ dfu.state \in States /\ dfu.allow \subseteq {"upload", "download"}
  /\ dfu.expected \in 0..BlockUnits
  /\ \A slot \in Slots, p \in Pages : Len(store.flash[slot][p]) = BlockUnits
  /\ Len(store.owner1) = BlockUnits /\ Len(store.msg) = MsgUnits
  /\ host.pc \in HostPcs

Stored ==
  CASE host.mode \in FirmwareModes -> Holds(chip, store, BankOf(host.mode), host.file)
    [] host.mode = "ownerBlock" -> store.owner1 = Block(host.file, 0)
    [] host.mode = "bootSvcReq" ->
         store.msg \in {SubSeq(Block(host.file, 0), 1, MsgUnits), Scrambled}

\* A download that ends without an error, by the session it began with, is
\* stored whole and in its place, and an upload returns what the mode stands
\* for: whatever earlier hosts left behind in the chip and in the buffer that
\* both use, and with any requests in between.
SuccessIsTrue ==
  ~host.reset =>
    /\ host.result = "acked" => Stored
    /\ host.result = "received" =>
         \/ host.got = Content(host.mode, store)
         \/ host.mode = "bootSvcRsp" /\ store.msg = Scrambled

\* A host that has sent data is not cut off by the inactivity deadline.
BusyIsNotCutOff ==
  host.pc \in {"data", "status", "end", "endStatus", "uploadStatus"} /\ ~host.reset =>
    ~session.deadline

\* No step writes the ROM_EXT that runs, or what lies behind the area that
\* the owner gave to rescue.
ProtectedIsKept ==
  [][\A sp \in ProtectedPages(chip) :
       store.flash[sp[1]][sp[2]] = store'.flash[sp[1]][sp[2]]]_vars

\* A transfer that ends while a block is awaited brought the data of the block.
CompletedIsData ==
  [][store'.flash /= store.flash => host.pc = "data"]_vars

\* When the host has sent all data of a block, the chip has handled it.
SentIsHandled == host.pc = "status" /\ ~host.reset => dfu.state /= "dnLoadSync"

\* An operation ends, unless the chip is reset under a host that cannot see
\* it: the host does not poll forever for a block to be done.
OperationEnds == host.pc /= "idle" ~> host.pc = "idle" \/ host.reset

=============================================================================
