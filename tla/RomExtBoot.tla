----------------------------- MODULE RomExtBoot -----------------------------
(***************************************************************************)
(* The boot flow of ROM_EXT: rom_ext/rom_ext.c, the boot services requests *)
(* of rom_ext/rom_ext_boot_services.c that Ownership leaves out, the boot  *)
(* policy, the boot log, and how rescue is entered and left                *)
(* (lib/rescue/rescue.c).                                                  *)
(*                                                                         *)
(* At each reset ROM prepares retention RAM and hands over to ROM_EXT,     *)
(* which serves the request left in retention RAM and then boots the       *)
(* owner's firmware from the preferred slot or the other one, or enters    *)
(* rescue.  The firmware, or the host of a rescue session, writes images   *)
(* and requests and resets the chip.  The boot data record is written      *)
(* through BootRecord, which BootData implements.                          *)
(***************************************************************************)
EXTENDS Integers

CONSTANTS
  Versions,     \* security versions of firmware images
  NoImage,      \* what is in a slot does not verify
  Requests,     \* the requests that may be staged
  Setups,       \* the configurations of the chip
  FaultKinds,   \* the faults that may happen: "cut", "error"
  MaxFaults,    \* bound: how many of them
  NoData        \* no boot data write in progress

Slots == {"A", "B"}
Other(slot) == IF slot = "A" THEN "B" ELSE "A"

\* Only the fields of a request that its handler looks at.
AnyRequest ==
  [type : {"next"}, primary : Slots \cup {"unspecified", "bad"},
   next : Slots \cup {"unspecified", "bad"}]
    \cup [type : {"minSec"}, version : Versions]
    \cup [type : {"rescue"}, skip : BOOLEAN]
    \cup [type : {"corrupt"}]

\* The owner's rescue configuration, and an OTP word of the discrete map:
\* a timeout is set, a failed boot enters rescue, ROM keeps the reset reasons.
Setup == [timeout : BOOLEAN, onFail : BOOLEAN, preserve : BOOLEAN]

ASSUME RomExtBootAssumption ==
  /\ Versions \subseteq Nat
  /\ 0 \in Versions
  /\ NoImage \notin Versions
  /\ Requests \subseteq AnyRequest
  /\ Setups \subseteq Setup
  /\ MaxFaults \in Nat

VARIABLES
  record,    \* the boot data record in flash
  pending,   \* the record boot_data_write() is writing, NoData outside
  answer,    \* how the last boot data call of this boot ended
  images,    \* the security version of the image in each slot
  msg,       \* the boot services message in retention RAM
  bootLog,   \* the boot log in retention RAM
  reasons,   \* the reset reasons in the reset manager
  setup,     \* the configuration of the chip: never changes
  pc,        \* where ROM and ROM_EXT stand
  ram,       \* the RAM copy of the boot data record
  lowPower,  \* the chip is waking from low power
  wanted,    \* rescue_requested
  attempted, \* boot_attempted
  deadline,  \* the inactivity deadline is set
  served,    \* history: a request was answered during this boot
  faults     \* faults so far

logVars == << record, pending, answer >>
bootVars == << ram, lowPower, wanted, attempted, deadline, served >>
vars == << logVars, images, msg, bootLog, reasons, setup, pc, bootVars, faults >>

BootData == [primary : Slots, minSec : Versions]

Log == INSTANCE BootRecord WITH Record <- BootData, stored <- record

NoMessage == [type |-> "none"]

\* A response keeps the request it answers; the code keeps only its type.
Messages ==
  {NoMessage}
    \cup [type : {"request"}, request : AnyRequest]
    \cup [type : {"response"}, request : AnyRequest,
          result : {"ok", "badSlot", "badSecVer"}, data : BootData]

BootLogs == [primary : Slots, minSec : Versions, slot : Slots \cup {"none"}]

TypeOK ==
  /\ record \in BootData
  /\ pending \in BootData \cup {NoData}
  /\ images \in [Slots -> Versions \cup {NoImage}]
  /\ msg \in Messages
  /\ bootLog \in BootLogs
  /\ reasons \subseteq {"por", "sw", "lowPower"}
  /\ setup \in Setups
  /\ pc \in {"rom", "serve", "save", "sync", "detect", "try", "rescue", "running"}
  /\ ram \in BootData
  /\ lowPower \in BOOLEAN
  /\ wanted \in {"none", "enter", "skip"}
  /\ attempted \in BOOLEAN
  /\ deadline \in BOOLEAN
  /\ served \in BOOLEAN
  /\ faults \in 0..MaxFaults

-----------------------------------------------------------------------------
(***************************************************************************)
(* Resets and faults.                                                      *)
(***************************************************************************)
Fault(kind) ==
  /\ kind \in FaultKinds
  /\ faults < MaxFaults
  /\ faults' = faults + 1

\* A reset for this reason, the reset manager's earlier reasons being kept.
Reset(kept, reason) ==
  /\ pc' = "rom"
  /\ reasons' = kept \cup {reason}

\* rstmgr_reboot() clears the power-on reason, shutdown_finalize() clears none.
Reboot == Reset(reasons \ {"por"}, "sw")
Shutdown == Reset(reasons, "sw")

\* Power is lost and comes back.
PowerCut ==
  /\ IF pc = "running" THEN UNCHANGED faults ELSE Fault("cut")
  /\ Reset({}, "por")
  /\ answer' = "none"
  /\ Log!GiveUp
  /\ UNCHANGED << images, msg, bootLog, setup, bootVars >>

-----------------------------------------------------------------------------
(***************************************************************************)
(* ROM, and rom_ext_start() up to the boot services.  ROM scrambles        *)
(* retention RAM after a power-on reset and starts a new boot log.         *)
(***************************************************************************)
Rom ==
  /\ pc = "rom"
  /\ msg' = IF "por" \in reasons THEN NoMessage ELSE msg
  /\ lowPower' = ("lowPower" \in reasons)
  /\ reasons' = IF setup.preserve THEN reasons ELSE {}
  /\ answer' = "ok"
  /\ Log!Read
  /\ ram' = record
  /\ bootLog' = [primary |-> record.primary, minSec |-> 0, slot |-> "none"]
  /\ wanted' = "none"
  /\ attempted' = FALSE
  /\ deadline' = FALSE
  /\ served' = FALSE
  /\ pc' = "serve"
  /\ UNCHANGED << images, setup, faults >>

-----------------------------------------------------------------------------
(***************************************************************************)
(* boot_svc_handler().                                                     *)
(***************************************************************************)
Req == msg.request

\* rom_ext_verify(): the image verifies and is not older than minSec.
VerifyingSlots(minSec) ==
  {s \in Slots : images[s] \in Versions /\ images[s] >= minSec}

Respond(result, data) ==
  /\ msg' = [type |-> "response", request |-> Req, result |-> result, data |-> data]
  /\ served' = TRUE

\* The request that the handler looks at in this boot, if there is one
Serving(type) ==
  /\ pc = "serve"
  /\ ~lowPower
  /\ msg.type = "request"
  /\ Req.type = type

\* A low-power wakeup, a message that is no request, or one that is corrupt
NothingToServe ==
  /\ pc = "serve"
  /\ lowPower \/ msg.type # "request" \/ (msg.type = "request" /\ Req.type = "corrupt")
  /\ pc' = "sync"
  /\ UNCHANGED << logVars, images, msg, bootLog, reasons, setup, bootVars, faults >>

\* rescue_enter_handler()
EnterRescueRequest ==
  /\ Serving("rescue")
  /\ wanted' = IF Req.skip THEN "skip" ELSE "enter"
  /\ Respond("ok", record)
  /\ pc' = "sync"
  /\ UNCHANGED << logVars, images, bootLog, reasons, setup, ram, lowPower,
                  attempted, deadline, faults >>

\* any value is taken for the next slot
AnswerNextSlotAny(data, error) ==
  /\ ram' = [data EXCEPT !.primary = Req.next]
  /\ Respond(IF error THEN "badSlot" ELSE "ok", data)
  /\ pc' = "sync"

\* the record is read back last, over the one-time slot
AnswerNextSlotLost(data, error) ==
  /\ ram' = data
  /\ Respond(IF error \/ Req.next = "bad" THEN "badSlot" ELSE "ok", data)
  /\ pc' = "sync"

\* boot_svc_next_boot_bl0_slot_handler(), once the primary slot is set: the
\* RAM copy is made to name the slot of the next boot, for this boot only.
AnswerNextSlot(data, error) ==
  /\ ram' = [data EXCEPT !.primary = IF Req.next \in Slots THEN Req.next ELSE @]
  /\ Respond(IF error \/ Req.next = "bad" THEN "badSlot" ELSE "ok", data)
  /\ pc' = "sync"

PrimaryChanges == Req.primary \in Slots /\ Req.primary # ram.primary

NextSlotRequest ==
  /\ Serving("next")
  /\ ~PrimaryChanges
  /\ AnswerNextSlot(ram, Req.primary = "bad")
  /\ UNCHANGED << logVars, images, bootLog, reasons, setup, lowPower, wanted,
                  attempted, deadline, faults >>

\* The RAM copy is changed, and boot_data_write() is called with it.
BeginSave(data) ==
  /\ ram' = data
  /\ pending' = data
  /\ Log!Begin
  /\ pc' = "save"
  /\ UNCHANGED << images, msg, bootLog, reasons, setup, lowPower, wanted,
                  attempted, deadline, served, faults >>

PrimarySlotRequest ==
  /\ Serving("next")
  /\ PrimaryChanges
  /\ BeginSave([ram EXCEPT !.primary = Req.primary])

\* the greater of the two versions is the limit
RaiseAllowedMax(version) ==
  /\ version > ram.minSec
  /\ \E s \in VerifyingSlots(ram.minSec) : version <= images[s]

\* boot_svc_min_sec_ver_handler(): no more than every image that verifies has,
\* and only if there is one.
RaiseAllowed(version) ==
  /\ version > ram.minSec
  /\ VerifyingSlots(ram.minSec) # {}
  /\ \A s \in VerifyingSlots(ram.minSec) : version <= images[s]

MinSecRequest ==
  /\ Serving("minSec")
  /\ RaiseAllowed(Req.version)
  /\ BeginSave([ram EXCEPT !.minSec = Req.version])

MinSecRefused ==
  /\ Serving("minSec")
  /\ ~RaiseAllowed(Req.version)
  /\ Respond("badSecVer", ram)
  /\ pc' = "sync"
  /\ UNCHANGED << logVars, images, bootLog, reasons, setup, ram, lowPower,
                  wanted, attempted, deadline, faults >>

SaveCommit ==
  /\ record # pending
  /\ Log!Commit
  /\ UNCHANGED << images, msg, bootLog, reasons, setup, pc, bootVars, faults >>

\* the boot log is not updated
LogPrimaryNot(data) == UNCHANGED bootLog

LogPrimary(data) == bootLog' = [bootLog EXCEPT !.primary = data.primary]

\* The record is read back, and the request answered.
SaveDone ==
  /\ Log!Succeed
  /\ IF Req.type = "next"
     THEN LogPrimary(record) /\ AnswerNextSlot(record, FALSE)
     ELSE /\ ram' = record
          /\ Respond("ok", record)
          /\ pc' = "sync"
          /\ UNCHANGED bootLog
  /\ UNCHANGED << images, reasons, setup, lowPower, wanted, attempted, deadline,
                  faults >>

\* the error is lost: the request is answered all the same
SaveFailsSilently ==
  /\ pending # NoData
  /\ Fault("error")
  /\ answer' = "error"
  /\ Log!GiveUp
  /\ Respond("ok", ram)
  /\ pc' = "sync"
  /\ UNCHANGED << images, bootLog, reasons, setup, ram, lowPower, wanted, attempted,
                  deadline >>

\* The handler returns the error at once: the request stays where it is, and
\* the RAM copy keeps what could not be written.
SaveFails ==
  /\ pending # NoData
  /\ Fault("error")
  /\ answer' = "error"
  /\ Log!GiveUp
  /\ pc' = "sync"
  /\ UNCHANGED << images, msg, bootLog, reasons, setup, bootVars >>

\* rom_ext_start(): the entries that boot services could have changed
SyncLog ==
  /\ pc = "sync"
  /\ bootLog' = [bootLog EXCEPT !.minSec = ram.minSec]
  /\ pc' = "detect"
  /\ UNCHANGED << logVars, images, msg, reasons, setup, bootVars, faults >>

-----------------------------------------------------------------------------
(***************************************************************************)
(* rom_ext_start() from there on.                                          *)
(***************************************************************************)

\* it is asked whenever the chip boots
WantRescueAwake(trigger) == wanted = "enter" \/ (wanted = "none" /\ trigger)

\* rescue_detect_entry(), which is not asked when waking from low power
WantRescue(trigger) ==
  /\ ~lowPower
  /\ wanted = "enter" \/ (wanted = "none" /\ trigger)

\* rescue_state_init() sets the deadline.
EnterRescue ==
  /\ pc' = "rescue"
  /\ deadline' = setup.timeout

Detect ==
  /\ pc = "detect"
  /\ \E trigger \in BOOLEAN :
       IF WantRescue(trigger) THEN EnterRescue ELSE pc' = "try" /\ UNCHANGED deadline
  /\ UNCHANGED << logVars, images, msg, bootLog, reasons, setup, ram, lowPower,
                  wanted, attempted, served, faults >>

\* rom_ext_boot_policy_manifests_get() and the loop of rom_ext_try_next_stage()
FirstSlot(data) ==
  IF data.primary \in VerifyingSlots(data.minSec) THEN data.primary ELSE Other(data.primary)

LaunchSlot ==
  /\ pc = "try"
  /\ VerifyingSlots(ram.minSec) # {}
  /\ bootLog' = [bootLog EXCEPT !.slot = FirstSlot(ram)]

Launch ==
  /\ LaunchSlot
  /\ pc' = "running"
  /\ UNCHANGED << logVars, images, msg, reasons, setup, bootVars, faults >>

\* rescue_enter_on_fail(), after rom_ext_try_next_stage() returned an error
BootFails ==
  /\ attempted' = TRUE
  /\ IF setup.onFail THEN EnterRescue /\ UNCHANGED reasons ELSE Shutdown /\ UNCHANGED deadline
  /\ UNCHANGED << logVars, images, msg, setup, ram, lowPower, wanted, served >>

\* rom_ext_boot() returns an error: the other slot is not tried.
LaunchFails ==
  /\ LaunchSlot
  /\ Fault("error")
  /\ BootFails

NothingVerifies ==
  /\ pc = "try"
  /\ VerifyingSlots(ram.minSec) = {}
  /\ BootFails
  /\ UNCHANGED << bootLog, faults >>

-----------------------------------------------------------------------------
(***************************************************************************)
(* Rescue, as far as it matters to the boot flow.                          *)
(***************************************************************************)

\* the chip resets the way it does after an error
InactivityShutdown ==
  /\ pc = "rescue"
  /\ deadline
  /\ IF attempted
     THEN UNCHANGED msg
     ELSE msg' = [type |-> "request", request |-> [type |-> "rescue", skip |-> TRUE]]
  /\ Shutdown
  /\ UNCHANGED << logVars, images, bootLog, setup, bootVars, faults >>

\* kErrorRescueInactivity, and rescue_skip_next_boot() if no boot was tried
Inactivity ==
  /\ pc = "rescue"
  /\ deadline
  /\ IF attempted
     THEN Shutdown /\ UNCHANGED msg
     ELSE /\ msg' = [type |-> "request", request |-> [type |-> "rescue", skip |-> TRUE]]
          /\ Reboot
  /\ UNCHANGED << logVars, images, bootLog, setup, bootVars, faults >>

\* The host sends a packet or a command, which cancels the deadline.
HostActs ==
  /\ pc = "rescue"
  /\ deadline' = FALSE
  /\ UNCHANGED << logVars, bootLog, setup, ram, lowPower, wanted, attempted, served, faults >>

\* rescue_recv_handler(): a request overwrites the message.
HostStages ==
  /\ HostActs
  /\ \E r \in Requests : msg' = [type |-> "request", request |-> r]
  /\ UNCHANGED << images, reasons, pc >>

\* flash_firmware_block(): the image is erased first, and complete last.
HostFlashes ==
  /\ HostActs
  /\ \E s \in Slots, v \in Versions \cup {NoImage} : images' = [images EXCEPT ![s] = v]
  /\ UNCHANGED << msg, reasons, pc >>

\* kRescueModeReboot, or a session that ends with an error
HostLeaves ==
  /\ HostActs
  /\ Reboot \/ Shutdown
  /\ UNCHANGED << images, msg >>

-----------------------------------------------------------------------------
(***************************************************************************)
(* The owner's firmware (not under verification): it replaces images,      *)
(* stages requests, clears the reset reasons or leaves them, and resets    *)
(* the chip or lets it sleep.                                              *)
(***************************************************************************)
FirmwareFlashes ==
  /\ pc = "running"
  /\ \E s \in Slots, v \in Versions \cup {NoImage} : images' = [images EXCEPT ![s] = v]
  /\ UNCHANGED << logVars, msg, bootLog, reasons, setup, pc, bootVars, faults >>

FirmwareStages ==
  /\ pc = "running"
  /\ \E r \in Requests : msg' = [type |-> "request", request |-> r]
  /\ UNCHANGED << logVars, images, bootLog, reasons, setup, pc, bootVars, faults >>

FirmwareResets ==
  /\ pc = "running"
  /\ \E kept \in {{}, reasons}, reason \in {"sw", "lowPower"} : Reset(kept, reason)
  /\ UNCHANGED << logVars, images, msg, bootLog, setup, bootVars, faults >>

-----------------------------------------------------------------------------
Init ==
  /\ record \in [primary : Slots, minSec : {0}]
  /\ pending = NoData
  /\ answer = "none"
  /\ images \in [Slots -> Versions \cup {NoImage}]
  /\ msg = NoMessage
  /\ bootLog = [primary |-> "A", minSec |-> 0, slot |-> "none"]
  /\ reasons = {"por"}
  /\ setup \in Setups
  /\ pc = "rom"
  /\ ram = record
  /\ lowPower = FALSE
  /\ wanted = "none"
  /\ attempted = FALSE
  /\ deadline = FALSE
  /\ served = FALSE
  /\ faults = 0

RomExt ==
  \/ Rom
  \/ NothingToServe
  \/ EnterRescueRequest
  \/ NextSlotRequest
  \/ PrimarySlotRequest
  \/ MinSecRequest
  \/ MinSecRefused
  \/ SaveCommit
  \/ SaveDone
  \/ SyncLog
  \/ Detect
  \/ Launch
  \/ NothingVerifies
  \/ Inactivity

Next ==
  \/ RomExt
  \/ SaveFails
  \/ LaunchFails
  \/ PowerCut
  \/ HostStages
  \/ HostFlashes
  \/ HostLeaves
  \/ FirmwareFlashes
  \/ FirmwareStages
  \/ FirmwareResets

Spec == Init /\ [][Next]_vars

\* The processor runs, and its cycle counter reaches the deadline.
FairSpec == Spec /\ WF_vars(RomExt)

-----------------------------------------------------------------------------
(***************************************************************************)
(* A boot launches the slot that it was asked for: the one-time slot of    *)
(* the request served in this very boot, or else the primary slot of the   *)
(* record in flash; the other slot only if that one does not verify        *)
(* (ownership.md: "If there is no valid firmware in the non-primary half,  *)
(* the primary half will be booted").  A boot whose write of the record    *)
(* failed is excepted: it goes on with the RAM copy.                       *)
(***************************************************************************)
LaunchedAsAsked ==
  [][/\ pc # "running" /\ pc' = "running"
     /\ answer # "error"
     => LET once == served /\ Req.type = "next" /\ Req.next \in Slots
            asked == IF once THEN Req.next ELSE record.primary
        IN bootLog'.slot =
             IF asked \in VerifyingSlots(record.minSec) THEN asked ELSE Other(asked)]_vars

(***************************************************************************)
(* Rollback protection never falls, and raising it never takes a slot away *)
(* that could be booted, nor is it raised when there is none ("This        *)
(* prevents a malicious MinBl0SecVer request from making the chip          *)
(* un-bootable").                                                          *)
(***************************************************************************)
MinSecNeverBricks ==
  [][record'.minSec # record.minSec
     => /\ record'.minSec > record.minSec
        /\ VerifyingSlots(record.minSec) # {}
        /\ VerifyingSlots(record.minSec) \subseteq VerifyingSlots(record'.minSec)]_vars

(***************************************************************************)
(* A response tells the truth, however long it waits to be read: the       *)
(* primary slot it names is the one that a reset comes back to, what was   *)
(* asked for and granted is in flash.                                      *)
(***************************************************************************)
AnsweredMeansDone ==
  msg.type = "response" /\ Req.type \in {"next", "minSec"} =>
    /\ IF Req.type = "next"
       THEN msg.data.primary = record.primary
       ELSE msg.data.minSec = record.minSec
    /\ msg.result = "ok" /\ Req.type = "minSec" => record.minSec = Req.version
    /\ msg.result = "ok" /\ Req.type = "next" /\ Req.primary \in Slots =>
         record.primary = Req.primary

(***************************************************************************)
(* The boot log that firmware and rescue hosts read agrees with the record *)
(* in flash, whatever one-time slot the boot used, unless a write of the   *)
(* record failed in this boot.                                             *)
(***************************************************************************)
LogIsTrue ==
  pc \in {"rescue", "running"} /\ answer # "error" =>
    bootLog.primary = record.primary /\ bootLog.minSec = record.minSec

(***************************************************************************)
(* A rescue that times out writes its skip request over the message in     *)
(* retention RAM.  That is never a request that was still to be served,    *)
(* unless serving it failed in this boot.                                  *)
(***************************************************************************)
RequestsAreNotLost ==
  [][/\ pc = "rescue" /\ pc' = "rom"
     /\ msg' # msg
     /\ msg.type = "request"
     => answer = "error" \/ Req.type = "corrupt"]_vars

(***************************************************************************)
(* As long as an image verifies and the rescue timeout is configured, the  *)
(* chip always gets to the firmware, whatever state the rescue trigger is  *)
(* stuck in ("This will permit booting owner code if the rescue trigger is *)
(* stuck for some reason") -- unless a host keeps talking to rescue, or    *)
(* spoke to the present session and fell silent.                           *)
(***************************************************************************)
Bootable == setup.timeout /\ VerifyingSlots(record.minSec) # {}

GetsToFirmware ==
  <>[]Bootable =>
    \/ []<>(pc = "running")
    \/ []<><<HostActs>>_vars
    \/ <>[](pc = "rescue" /\ ~deadline)

=============================================================================
