-------------------------- MODULE RomExtBootProofs --------------------------
(***************************************************************************)
(* Theorems about RomExtBoot, for any versions, requests, configurations   *)
(* and number of faults.                                                   *)
(***************************************************************************)
EXTENDS RomExtBoot, TLAPS

-----------------------------------------------------------------------------
(***************************************************************************)
(* The inductive invariant: what is known at each point of the boot flow.  *)
(***************************************************************************)

\* The slot that this boot is to launch, if it verifies
Asked ==
  IF served /\ Req.type = "next" /\ Req.next \in Slots THEN Req.next ELSE record.primary

\* No slot that can be booted is lost if the minimum version becomes v.
Harmless(v) ==
  /\ v > record.minSec
  /\ VerifyingSlots(record.minSec) # {}
  /\ VerifyingSlots(record.minSec) \subseteq VerifyingSlots(v)

\* While a record is written the request for it is still in retention RAM.
SaveInv ==
  /\ pc # "save" => pending = NoData
  /\ pc = "save" =>
       /\ pending = ram
       /\ ~served
       /\ msg.type = "request"
       /\ \/ /\ Req.type = "next"
             /\ Req.primary \in Slots
             /\ ram.primary = Req.primary
             /\ ram.minSec = record.minSec
          \/ /\ Req.type = "minSec"
             /\ ram.minSec = Req.version
             /\ ram.primary = record.primary
             /\ ram.minSec = record.minSec \/ Harmless(ram.minSec)

\* Boot services start from what is in flash.
FreshInv == pc = "serve" => ram = record /\ ~served

\* Unless a write failed, the RAM copy names the slot asked for, and agrees
\* with the record in the rest.
AskedInv ==
  pc \in {"sync", "detect", "try"} /\ answer # "error" =>
    ram.primary = Asked /\ ram.minSec = record.minSec

LogInv ==
  /\ pc = "serve" => bootLog.primary = record.primary
  /\ pc = "save" /\ Req.type = "minSec" => bootLog.primary = record.primary
  /\ pc \in {"sync", "detect", "try", "rescue", "running"} /\ answer # "error" =>
       bootLog.primary = record.primary
  /\ pc \in {"detect", "try", "rescue", "running"} /\ answer # "error" =>
       bootLog.minSec = record.minSec

\* A request to be served is left only by a wakeup, which enters no rescue
\* before a boot failed, or by a failed write.
Unserved == msg.type = "request" /\ Req.type # "corrupt" /\ answer # "error"

LeftInv ==
  /\ pc \in {"sync", "detect", "try"} /\ Unserved => lowPower
  /\ pc = "rescue" /\ deadline /\ ~attempted => ~Unserved

IInv ==
  /\ TypeOK
  /\ SaveInv
  /\ FreshInv
  /\ AskedInv
  /\ LogInv
  /\ LeftInv
  /\ AnsweredMeansDone

-----------------------------------------------------------------------------
(***************************************************************************)
(* Messages.                                                               *)
(***************************************************************************)

\* A request in retention RAM has the fields of its type.
LEMMA RequestTyped ==
  ASSUME msg \in Messages, msg.type = "request"
  PROVE  /\ Req \in AnyRequest
         /\ Req.type = "minSec" => Req.version \in Versions
<1>1. Req \in AnyRequest
  BY DEF Messages, NoMessage, Req
<1> QED
  BY <1>1 DEF AnyRequest

\* Requests that are staged are messages.
LEMMA StagedTyped ==
  ASSUME NEW r \in Requests
  PROVE  [type |-> "request", request |-> r] \in Messages
BY RomExtBootAssumption DEF Messages

\* The request by which rescue skips itself is a message.
LEMMA SkipTyped ==
  [type |-> "request", request |-> [type |-> "rescue", skip |-> TRUE]] \in Messages
<1>1. [type |-> "rescue", skip |-> TRUE] \in AnyRequest
  BY DEF AnyRequest
<1> QED
  BY <1>1 DEF Messages

\* What answers a request is a message.
LEMMA ResponseTyped ==
  ASSUME msg \in Messages, msg.type = "request",
         NEW result \in {"ok", "badSlot", "badSecVer"}, NEW data \in BootData
  PROVE  [type |-> "response", request |-> Req, result |-> result, data |-> data]
           \in Messages
BY RequestTyped DEF Messages

-----------------------------------------------------------------------------
(***************************************************************************)
(* Every action of ROM_EXT, of faults, of a rescue host and of firmware    *)
(* keeps the invariant: one lemma per action, one step per conjunct.       *)
(***************************************************************************)

\* A reset: the RAM copy and the boot log's primary slot are read from flash.
LEMMA RomKeeps ==
  ASSUME IInv, Rom
  PROVE  IInv'
<1> USE RomExtBootAssumption
<1>1. msg' \in Messages
  BY DEF IInv, TypeOK, Rom, Messages
<1>2. TypeOK'
  <2>1. lowPower' \in BOOLEAN
    BY DEF Rom
  <2> QED
    BY <1>1, <2>1 DEF IInv, TypeOK, Rom, Log!Read, BootData, BootLogs
<1>3. SaveInv'
  BY DEF Rom, Log!Read, SaveInv
<1>4. FreshInv'
  BY DEF Rom, Log!Read, FreshInv
<1>5. AskedInv'
  BY DEF Rom, AskedInv
<1>6. LogInv'
  BY DEF Rom, Log!Read, LogInv
<1>7. LeftInv'
  BY DEF Rom, LeftInv
<1>8. AnsweredMeansDone'
  BY DEF IInv, Rom, Log!Read, NoMessage, AnsweredMeansDone, Req
<1> QED
  BY <1>2, <1>3, <1>4, <1>5, <1>6, <1>7, <1>8 DEF IInv

\* A boot that answers nothing leaves a request only on a wakeup.
LEMMA NothingToServeKeeps ==
  ASSUME IInv, NothingToServe
  PROVE  IInv'
<1> USE RomExtBootAssumption
<1>1. msg' \in Messages
  BY DEF IInv, TypeOK, NothingToServe
<1>2. TypeOK'
  BY <1>1 DEF IInv, TypeOK, NothingToServe, bootVars, logVars
<1>3. SaveInv'
  BY DEF IInv, NothingToServe, logVars, SaveInv
<1>4. FreshInv'
  BY DEF NothingToServe, FreshInv
<1>5. AskedInv'
  BY DEF IInv, NothingToServe, bootVars, logVars, AskedInv, Asked, FreshInv
<1>6. LogInv'
  BY DEF IInv, NothingToServe, logVars, LogInv
<1>7. LeftInv'
  BY DEF NothingToServe, bootVars, LeftInv, Unserved, Req
<1>8. AnsweredMeansDone'
  BY DEF IInv, NothingToServe, logVars, AnsweredMeansDone, Req
<1> QED
  BY <1>2, <1>3, <1>4, <1>5, <1>6, <1>7, <1>8 DEF IInv

\* The answer to a rescue request promises nothing about the record.
LEMMA EnterRescueRequestKeeps ==
  ASSUME IInv, EnterRescueRequest
  PROVE  IInv'
<1> USE RomExtBootAssumption
<1>1. msg' \in Messages
  BY ResponseTyped DEF IInv, TypeOK, EnterRescueRequest, Serving, Respond
<1>2. TypeOK'
  BY <1>1 DEF IInv, TypeOK, EnterRescueRequest, Respond, logVars
<1>3. SaveInv'
  BY DEF IInv, EnterRescueRequest, Serving, logVars, SaveInv
<1>4. FreshInv'
  BY DEF EnterRescueRequest, FreshInv
<1>5. AskedInv'
  BY DEF IInv, EnterRescueRequest, Serving, Respond, logVars, AskedInv, Asked, FreshInv, Req
<1>6. LogInv'
  BY DEF IInv, EnterRescueRequest, Serving, logVars, LogInv
<1>7. LeftInv'
  BY DEF EnterRescueRequest, Respond, LeftInv, Unserved
<1>8. AnsweredMeansDone'
  BY DEF EnterRescueRequest, Serving, Respond, AnsweredMeansDone, Req
<1> QED
  BY <1>2, <1>3, <1>4, <1>5, <1>6, <1>7, <1>8 DEF IInv

\* A one-time slot goes to the RAM copy, and the message keeps it.
LEMMA NextSlotRequestKeeps ==
  ASSUME IInv, NextSlotRequest
  PROVE  IInv'
<1> USE RomExtBootAssumption
<1>1. msg' \in Messages
  BY ResponseTyped DEF IInv, TypeOK, NextSlotRequest, Serving, AnswerNextSlot, Respond
<1>2. TypeOK'
  BY <1>1 DEF IInv, TypeOK, NextSlotRequest, AnswerNextSlot, Respond, logVars, BootData
<1>3. SaveInv'
  BY DEF IInv, NextSlotRequest, Serving, AnswerNextSlot, logVars, SaveInv
<1>4. FreshInv'
  BY DEF NextSlotRequest, AnswerNextSlot, FreshInv
<1>5. AskedInv'
  BY DEF IInv, NextSlotRequest, Serving, AnswerNextSlot, Respond, logVars, AskedInv,
         Asked, FreshInv, Req
<1>6. LogInv'
  BY DEF IInv, NextSlotRequest, Serving, AnswerNextSlot, logVars, LogInv
<1>7. LeftInv'
  BY DEF NextSlotRequest, AnswerNextSlot, Respond, LeftInv, Unserved
<1>8. AnsweredMeansDone'
  BY DEF IInv, NextSlotRequest, Serving, PrimaryChanges, AnswerNextSlot, Respond,
         logVars, AnsweredMeansDone, FreshInv, Req
<1> QED
  BY <1>2, <1>3, <1>4, <1>5, <1>6, <1>7, <1>8 DEF IInv

\* The write of a primary slot begins with the RAM copy as the record.
LEMMA PrimarySlotRequestKeeps ==
  ASSUME IInv, PrimarySlotRequest
  PROVE  IInv'
<1> USE RomExtBootAssumption
<1>1. msg' \in Messages
  BY DEF IInv, TypeOK, PrimarySlotRequest, BeginSave
<1>2. TypeOK'
  BY <1>1, RequestTyped DEF IInv, TypeOK, PrimarySlotRequest, BeginSave, Log!Begin
<1>3. SaveInv'
  BY RequestTyped
     DEF IInv, PrimarySlotRequest, Serving, BeginSave, Log!Begin, SaveInv, FreshInv,
         BootData, Req
<1>4. FreshInv'
  BY RequestTyped DEF PrimarySlotRequest, BeginSave, FreshInv
<1>5. AskedInv'
  BY RequestTyped DEF PrimarySlotRequest, Serving, BeginSave, AskedInv
<1>6. LogInv'
  BY RequestTyped DEF PrimarySlotRequest, Serving, PrimaryChanges, BeginSave, LogInv, Req
<1>7. LeftInv'
  BY RequestTyped DEF PrimarySlotRequest, BeginSave, LeftInv
<1>8. AnsweredMeansDone'
  BY RequestTyped DEF PrimarySlotRequest, Serving, BeginSave, Log!Begin, AnsweredMeansDone
<1> QED
  BY <1>2, <1>3, <1>4, <1>5, <1>6, <1>7, <1>8 DEF IInv

\* The write of a minimum version begins only when it is harmless.
LEMMA MinSecRequestKeeps ==
  ASSUME IInv, MinSecRequest
  PROVE  IInv'
<1> USE RomExtBootAssumption
<1>1. msg' \in Messages
  BY DEF IInv, TypeOK, MinSecRequest, BeginSave
<1>2. TypeOK'
  BY <1>1, RequestTyped DEF IInv, TypeOK, MinSecRequest, BeginSave, Log!Begin
<1>3. SaveInv'
  BY RequestTyped
     DEF IInv, MinSecRequest, Serving, RaiseAllowed, BeginSave, Log!Begin, SaveInv,
         FreshInv, Harmless, VerifyingSlots, BootData, Req
<1>4. FreshInv'
  BY RequestTyped DEF MinSecRequest, BeginSave, FreshInv
<1>5. AskedInv'
  BY RequestTyped DEF MinSecRequest, BeginSave, AskedInv
<1>6. LogInv'
  BY RequestTyped DEF IInv, MinSecRequest, Serving, BeginSave, Log!Begin, LogInv
<1>7. LeftInv'
  BY RequestTyped DEF MinSecRequest, BeginSave, LeftInv
<1>8. AnsweredMeansDone'
  BY RequestTyped DEF MinSecRequest, Serving, BeginSave, AnsweredMeansDone
<1> QED
  BY <1>2, <1>3, <1>4, <1>5, <1>6, <1>7, <1>8 DEF IInv

\* A refusal reports the minimum version in flash.
LEMMA MinSecRefusedKeeps ==
  ASSUME IInv, MinSecRefused
  PROVE  IInv'
<1> USE RomExtBootAssumption
<1>1. msg' \in Messages
  BY ResponseTyped DEF IInv, TypeOK, MinSecRefused, Serving, Respond
<1>2. TypeOK'
  BY <1>1 DEF IInv, TypeOK, MinSecRefused, Respond, logVars
<1>3. SaveInv'
  BY DEF IInv, MinSecRefused, Serving, logVars, SaveInv
<1>4. FreshInv'
  BY DEF IInv, TypeOK, MinSecRefused, FreshInv
<1>5. AskedInv'
  BY DEF IInv, TypeOK, MinSecRefused, Serving, Respond, logVars, AskedInv, Asked,
         FreshInv, Req
<1>6. LogInv'
  BY DEF IInv, MinSecRefused, Serving, logVars, LogInv
<1>7. LeftInv'
  BY DEF MinSecRefused, Respond, LeftInv, Unserved
<1>8. AnsweredMeansDone'
  BY DEF IInv, MinSecRefused, Serving, Respond, logVars, AnsweredMeansDone, FreshInv
<1> QED
  BY <1>2, <1>3, <1>4, <1>5, <1>6, <1>7, <1>8 DEF IInv

\* The record becomes the RAM copy, while no boot relies on the old one.
LEMMA SaveCommitKeeps ==
  ASSUME IInv, SaveCommit
  PROVE  IInv'
<1> USE RomExtBootAssumption
<1>1. msg' \in Messages
  BY DEF IInv, TypeOK, SaveCommit, Log!Commit
<1>2. TypeOK'
  BY <1>1 DEF IInv, TypeOK, SaveCommit, Log!Commit, bootVars, logVars, BootData
<1>3. SaveInv'
  BY DEF IInv, SaveCommit, Log!Commit, bootVars, SaveInv, Req
<1>4. FreshInv'
  BY DEF IInv, SaveCommit, Log!Commit, FreshInv, SaveInv
<1>5. AskedInv'
  BY DEF IInv, SaveCommit, Log!Commit, AskedInv, SaveInv
<1>6. LogInv'
  BY DEF IInv, SaveCommit, Log!Commit, logVars, LogInv, SaveInv, FreshInv, Req
<1>7. LeftInv'
  BY DEF IInv, SaveCommit, Log!Commit, LeftInv, SaveInv
<1>8. AnsweredMeansDone'
  BY DEF IInv, SaveCommit, Log!Commit, AnsweredMeansDone, SaveInv
<1> QED
  BY <1>2, <1>3, <1>4, <1>5, <1>6, <1>7, <1>8 DEF IInv

\* The answer and the boot log are made from the record just written.
LEMMA SaveDoneKeeps ==
  ASSUME IInv, SaveDone
  PROVE  IInv'
<1> USE RomExtBootAssumption
<1>1. msg' \in Messages
  BY ResponseTyped DEF IInv, TypeOK, SaveDone, SaveInv, Log!Succeed, AnswerNextSlot, Respond
<1>2. TypeOK'
  BY <1>1
     DEF IInv, TypeOK, SaveDone, Log!Succeed, LogPrimary, AnswerNextSlot, Respond,
         BootData, BootLogs, Slots, Other
<1>3. SaveInv'
  BY DEF SaveDone, Log!Succeed, AnswerNextSlot, SaveInv
<1>4. FreshInv'
  BY DEF SaveDone, AnswerNextSlot, FreshInv
<1>5. AskedInv'
  BY DEF IInv, TypeOK, SaveDone, Log!Succeed, AnswerNextSlot, Respond, AskedInv, Asked,
         BootData, Req
<1>6. LogInv'
  BY DEF IInv, TypeOK, SaveDone, Log!Succeed, LogPrimary, AnswerNextSlot, LogInv,
         SaveInv, AskedInv, BootLogs
<1>7. LeftInv'
  BY DEF SaveDone, AnswerNextSlot, Respond, LeftInv, Unserved
<1>8. AnsweredMeansDone'
  BY DEF IInv, SaveDone, Log!Succeed, AnswerNextSlot, Respond, AnsweredMeansDone,
         SaveInv, Req
<1> QED
  BY <1>2, <1>3, <1>4, <1>5, <1>6, <1>7, <1>8 DEF IInv

\* The boot log takes the minimum version of the RAM copy.
LEMMA SyncLogKeeps ==
  ASSUME IInv, SyncLog
  PROVE  IInv'
<1> USE RomExtBootAssumption
<1>1. msg' \in Messages
  BY DEF IInv, TypeOK, SyncLog
<1>2. TypeOK'
  BY <1>1 DEF IInv, TypeOK, SyncLog, bootVars, logVars, BootData, BootLogs
<1>3. SaveInv'
  BY DEF IInv, SyncLog, logVars, SaveInv
<1>4. FreshInv'
  BY DEF SyncLog, FreshInv
<1>5. AskedInv'
  BY DEF IInv, SyncLog, bootVars, logVars, AskedInv, Asked, Req
<1>6. LogInv'
  BY DEF IInv, SyncLog, logVars, LogInv, AskedInv
<1>7. LeftInv'
  BY DEF IInv, SyncLog, bootVars, logVars, LeftInv, Unserved, Req
<1>8. AnsweredMeansDone'
  BY DEF IInv, SyncLog, logVars, AnsweredMeansDone, Req
<1> QED
  BY <1>2, <1>3, <1>4, <1>5, <1>6, <1>7, <1>8 DEF IInv

\* Rescue is entered before a boot is tried only on a strap or a request.
LEMMA DetectKeeps ==
  ASSUME IInv, Detect
  PROVE  IInv'
<1> USE RomExtBootAssumption
<1>1. msg' \in Messages
  BY DEF IInv, TypeOK, Detect
<1>2. TypeOK'
  BY <1>1 DEF IInv, TypeOK, Detect, EnterRescue, logVars, Setup
<1>3. SaveInv'
  BY DEF IInv, Detect, EnterRescue, logVars, SaveInv
<1>4. FreshInv'
  BY DEF Detect, EnterRescue, FreshInv
<1>5. AskedInv'
  BY DEF IInv, Detect, logVars, AskedInv, Asked, Req
<1>6. LogInv'
  BY DEF IInv, Detect, EnterRescue, logVars, LogInv
<1>7. LeftInv'
  BY DEF IInv, Detect, WantRescue, logVars, LeftInv, Unserved, Req
<1>8. AnsweredMeansDone'
  BY DEF IInv, Detect, logVars, AnsweredMeansDone, Req
<1> QED
  BY <1>2, <1>3, <1>4, <1>5, <1>6, <1>7, <1>8 DEF IInv

\* The firmware runs: nothing of the record, the log's rest or the message changes.
LEMMA LaunchKeeps ==
  ASSUME IInv, Launch
  PROVE  IInv'
<1> USE RomExtBootAssumption
<1>1. msg' \in Messages
  BY DEF IInv, TypeOK, Launch
<1>2. TypeOK'
  BY <1>1
     DEF IInv, TypeOK, Launch, LaunchSlot, FirstSlot, bootVars, logVars, BootData,
         BootLogs, Slots, Other
<1>3. SaveInv'
  BY DEF IInv, Launch, LaunchSlot, logVars, SaveInv
<1>4. FreshInv'
  BY DEF Launch, FreshInv
<1>5. AskedInv'
  BY DEF Launch, AskedInv
<1>6. LogInv'
  BY DEF IInv, Launch, LaunchSlot, logVars, LogInv
<1>7. LeftInv'
  BY DEF Launch, LeftInv
<1>8. AnsweredMeansDone'
  BY DEF IInv, Launch, logVars, AnsweredMeansDone, Req
<1> QED
  BY <1>2, <1>3, <1>4, <1>5, <1>6, <1>7, <1>8 DEF IInv

\* A failed boot enters rescue with the boot attempted, or resets.
LEMMA NothingVerifiesKeeps ==
  ASSUME IInv, NothingVerifies
  PROVE  IInv'
<1> USE RomExtBootAssumption
<1>1. msg' \in Messages
  BY DEF IInv, TypeOK, NothingVerifies, BootFails
<1>2. TypeOK'
  BY <1>1
     DEF IInv, TypeOK, NothingVerifies, BootFails, EnterRescue, Shutdown, Reset,
         logVars, Setup
<1>3. SaveInv'
  BY DEF IInv, NothingVerifies, BootFails, EnterRescue, Shutdown, Reset, logVars, SaveInv
<1>4. FreshInv'
  BY DEF NothingVerifies, BootFails, EnterRescue, Shutdown, Reset, FreshInv
<1>5. AskedInv'
  BY DEF NothingVerifies, BootFails, EnterRescue, Shutdown, Reset, AskedInv
<1>6. LogInv'
  BY DEF IInv, NothingVerifies, BootFails, EnterRescue, Shutdown, Reset, logVars, LogInv
<1>7. LeftInv'
  BY DEF NothingVerifies, BootFails, EnterRescue, Shutdown, Reset, LeftInv
<1>8. AnsweredMeansDone'
  BY DEF IInv, NothingVerifies, BootFails, logVars, AnsweredMeansDone, Req
<1> QED
  BY <1>2, <1>3, <1>4, <1>5, <1>6, <1>7, <1>8 DEF IInv

\* Rescue times out: its skip request replaces no answer that is owed.
LEMMA InactivityKeeps ==
  ASSUME IInv, Inactivity
  PROVE  IInv'
<1> USE RomExtBootAssumption
<1>1. msg' \in Messages
  BY SkipTyped DEF IInv, TypeOK, Inactivity
<1>2. TypeOK'
  BY <1>1 DEF IInv, TypeOK, Inactivity, Shutdown, Reboot, Reset, bootVars, logVars
<1>3. SaveInv'
  BY DEF IInv, Inactivity, Shutdown, Reboot, Reset, logVars, SaveInv
<1>4. FreshInv'
  BY DEF Inactivity, Shutdown, Reboot, Reset, FreshInv
<1>5. AskedInv'
  BY DEF Inactivity, Shutdown, Reboot, Reset, AskedInv
<1>6. LogInv'
  BY DEF Inactivity, Shutdown, Reboot, Reset, LogInv
<1>7. LeftInv'
  BY DEF Inactivity, Shutdown, Reboot, Reset, LeftInv
<1>8. AnsweredMeansDone'
  BY DEF IInv, Inactivity, logVars, AnsweredMeansDone, Req
<1> QED
  BY <1>2, <1>3, <1>4, <1>5, <1>6, <1>7, <1>8 DEF IInv

\* A failed write is remembered in the answer of the boot data component.
LEMMA SaveFailsKeeps ==
  ASSUME IInv, SaveFails
  PROVE  IInv'
<1> USE RomExtBootAssumption
<1>1. msg' \in Messages
  BY DEF IInv, TypeOK, SaveFails
<1>2. TypeOK'
  BY <1>1 DEF IInv, TypeOK, SaveFails, Fault, Log!GiveUp, bootVars
<1>3. SaveInv'
  BY DEF SaveFails, Log!GiveUp, SaveInv
<1>4. FreshInv'
  BY DEF SaveFails, FreshInv
<1>5. AskedInv'
  BY DEF SaveFails, AskedInv
<1>6. LogInv'
  BY DEF SaveFails, LogInv
<1>7. LeftInv'
  BY DEF SaveFails, LeftInv, Unserved
<1>8. AnsweredMeansDone'
  BY DEF IInv, SaveFails, AnsweredMeansDone, SaveInv
<1> QED
  BY <1>2, <1>3, <1>4, <1>5, <1>6, <1>7, <1>8 DEF IInv

\* A failed launch enters rescue with the boot attempted, or resets.
LEMMA LaunchFailsKeeps ==
  ASSUME IInv, LaunchFails
  PROVE  IInv'
<1> USE RomExtBootAssumption
<1>1. msg' \in Messages
  BY DEF IInv, TypeOK, LaunchFails, BootFails
<1>2. TypeOK'
  BY <1>1
     DEF IInv, TypeOK, LaunchFails, LaunchSlot, FirstSlot, Fault, BootFails,
         EnterRescue, Shutdown, Reset, logVars, BootData, BootLogs, Setup, Slots, Other
<1>3. SaveInv'
  BY DEF IInv, LaunchFails, LaunchSlot, BootFails, EnterRescue, Shutdown, Reset,
         logVars, SaveInv
<1>4. FreshInv'
  BY DEF LaunchFails, BootFails, EnterRescue, Shutdown, Reset, FreshInv
<1>5. AskedInv'
  BY DEF LaunchFails, BootFails, EnterRescue, Shutdown, Reset, AskedInv
<1>6. LogInv'
  BY DEF IInv, LaunchFails, LaunchSlot, BootFails, EnterRescue, Shutdown, Reset,
         logVars, LogInv
<1>7. LeftInv'
  BY DEF LaunchFails, BootFails, EnterRescue, Shutdown, Reset, LeftInv
<1>8. AnsweredMeansDone'
  BY DEF IInv, LaunchFails, BootFails, logVars, AnsweredMeansDone, Req
<1> QED
  BY <1>2, <1>3, <1>4, <1>5, <1>6, <1>7, <1>8 DEF IInv

\* Nothing is known but the record and, until ROM runs, the message.
LEMMA PowerCutKeeps ==
  ASSUME IInv, PowerCut
  PROVE  IInv'
<1> USE RomExtBootAssumption
<1>1. msg' \in Messages
  BY DEF IInv, TypeOK, PowerCut
<1>2. TypeOK'
  BY <1>1 DEF IInv, TypeOK, PowerCut, Fault, Reset, Log!GiveUp, bootVars
<1>3. SaveInv'
  BY DEF PowerCut, Reset, Log!GiveUp, SaveInv
<1>4. FreshInv'
  BY DEF PowerCut, Reset, FreshInv
<1>5. AskedInv'
  BY DEF PowerCut, Reset, AskedInv
<1>6. LogInv'
  BY DEF PowerCut, Reset, LogInv
<1>7. LeftInv'
  BY DEF PowerCut, Reset, LeftInv
<1>8. AnsweredMeansDone'
  BY DEF IInv, PowerCut, Log!GiveUp, AnsweredMeansDone, Req
<1> QED
  BY <1>2, <1>3, <1>4, <1>5, <1>6, <1>7, <1>8 DEF IInv

\* A host of rescue stages a request; its session has no deadline any more.
LEMMA HostStagesKeeps ==
  ASSUME IInv, HostStages
  PROVE  IInv'
<1> USE RomExtBootAssumption
<1>1. msg' \in Messages
  BY StagedTyped DEF HostStages
<1>2. TypeOK'
  BY <1>1 DEF IInv, TypeOK, HostStages, HostActs, logVars
<1>3. SaveInv'
  BY DEF IInv, HostStages, HostActs, logVars, SaveInv
<1>4. FreshInv'
  BY DEF HostStages, HostActs, FreshInv
<1>5. AskedInv'
  BY DEF HostStages, HostActs, AskedInv
<1>6. LogInv'
  BY DEF IInv, HostStages, HostActs, logVars, LogInv
<1>7. LeftInv'
  BY DEF HostStages, HostActs, LeftInv
<1>8. AnsweredMeansDone'
  BY DEF HostStages, AnsweredMeansDone
<1> QED
  BY <1>2, <1>3, <1>4, <1>5, <1>6, <1>7, <1>8 DEF IInv

\* A host of rescue writes an image.
LEMMA HostFlashesKeeps ==
  ASSUME IInv, HostFlashes
  PROVE  IInv'
<1> USE RomExtBootAssumption
<1>1. msg' \in Messages
  BY DEF IInv, TypeOK, HostFlashes
<1>2. TypeOK'
  <2>1. images' \in [Slots -> Versions \cup {NoImage}]
    BY DEF IInv, TypeOK, HostFlashes
  <2> QED
    BY <1>1, <2>1 DEF IInv, TypeOK, HostFlashes, HostActs, logVars
<1>3. SaveInv'
  BY DEF IInv, HostFlashes, HostActs, logVars, SaveInv
<1>4. FreshInv'
  BY DEF HostFlashes, HostActs, FreshInv
<1>5. AskedInv'
  BY DEF HostFlashes, HostActs, AskedInv
<1>6. LogInv'
  BY DEF IInv, HostFlashes, HostActs, logVars, LogInv
<1>7. LeftInv'
  BY DEF HostFlashes, HostActs, LeftInv
<1>8. AnsweredMeansDone'
  BY DEF IInv, HostFlashes, HostActs, logVars, AnsweredMeansDone, Req
<1> QED
  BY <1>2, <1>3, <1>4, <1>5, <1>6, <1>7, <1>8 DEF IInv

\* A host of rescue resets the chip.
LEMMA HostLeavesKeeps ==
  ASSUME IInv, HostLeaves
  PROVE  IInv'
<1> USE RomExtBootAssumption
<1>1. msg' \in Messages
  BY DEF IInv, TypeOK, HostLeaves
<1>2. TypeOK'
  <2>1. reasons' \subseteq {"por", "sw", "lowPower"}
    BY DEF IInv, TypeOK, HostLeaves, Reboot, Shutdown, Reset
  <2> QED
    BY <1>1, <2>1 DEF IInv, TypeOK, HostLeaves, HostActs, Reboot, Shutdown, Reset, logVars
<1>3. SaveInv'
  BY DEF IInv, HostLeaves, HostActs, Reboot, Shutdown, Reset, logVars, SaveInv
<1>4. FreshInv'
  BY DEF HostLeaves, Reboot, Shutdown, Reset, FreshInv
<1>5. AskedInv'
  BY DEF HostLeaves, Reboot, Shutdown, Reset, AskedInv
<1>6. LogInv'
  BY DEF HostLeaves, Reboot, Shutdown, Reset, LogInv
<1>7. LeftInv'
  BY DEF HostLeaves, Reboot, Shutdown, Reset, LeftInv
<1>8. AnsweredMeansDone'
  BY DEF IInv, HostLeaves, HostActs, logVars, AnsweredMeansDone, Req
<1> QED
  BY <1>2, <1>3, <1>4, <1>5, <1>6, <1>7, <1>8 DEF IInv

\* The firmware writes an image.
LEMMA FirmwareFlashesKeeps ==
  ASSUME IInv, FirmwareFlashes
  PROVE  IInv'
<1> USE RomExtBootAssumption
<1>1. msg' \in Messages
  BY DEF IInv, TypeOK, FirmwareFlashes
<1>2. TypeOK'
  BY <1>1 DEF IInv, TypeOK, FirmwareFlashes, bootVars, logVars
<1>3. SaveInv'
  BY DEF IInv, FirmwareFlashes, logVars, SaveInv
<1>4. FreshInv'
  BY DEF FirmwareFlashes, FreshInv
<1>5. AskedInv'
  BY DEF FirmwareFlashes, AskedInv
<1>6. LogInv'
  BY DEF IInv, FirmwareFlashes, logVars, LogInv
<1>7. LeftInv'
  BY DEF FirmwareFlashes, LeftInv
<1>8. AnsweredMeansDone'
  BY DEF IInv, FirmwareFlashes, logVars, AnsweredMeansDone, Req
<1> QED
  BY <1>2, <1>3, <1>4, <1>5, <1>6, <1>7, <1>8 DEF IInv

\* The firmware stages a request.
LEMMA FirmwareStagesKeeps ==
  ASSUME IInv, FirmwareStages
  PROVE  IInv'
<1> USE RomExtBootAssumption
<1>1. msg' \in Messages
  BY StagedTyped DEF FirmwareStages
<1>2. TypeOK'
  BY <1>1 DEF IInv, TypeOK, FirmwareStages, bootVars, logVars
<1>3. SaveInv'
  BY DEF IInv, FirmwareStages, logVars, SaveInv
<1>4. FreshInv'
  BY DEF FirmwareStages, FreshInv
<1>5. AskedInv'
  BY DEF FirmwareStages, AskedInv
<1>6. LogInv'
  BY DEF IInv, FirmwareStages, logVars, LogInv
<1>7. LeftInv'
  BY DEF FirmwareStages, LeftInv
<1>8. AnsweredMeansDone'
  BY DEF FirmwareStages, AnsweredMeansDone
<1> QED
  BY <1>2, <1>3, <1>4, <1>5, <1>6, <1>7, <1>8 DEF IInv

\* The firmware resets the chip.
LEMMA FirmwareResetsKeeps ==
  ASSUME IInv, FirmwareResets
  PROVE  IInv'
<1> USE RomExtBootAssumption
<1>1. msg' \in Messages
  BY DEF IInv, TypeOK, FirmwareResets
<1>2. TypeOK'
  <2>1. reasons' \subseteq {"por", "sw", "lowPower"}
    BY DEF IInv, TypeOK, FirmwareResets, Reset
  <2> QED
    BY <1>1, <2>1 DEF IInv, TypeOK, FirmwareResets, Reset, bootVars, logVars
<1>3. SaveInv'
  BY DEF IInv, FirmwareResets, Reset, logVars, SaveInv
<1>4. FreshInv'
  BY DEF FirmwareResets, Reset, FreshInv
<1>5. AskedInv'
  BY DEF FirmwareResets, Reset, AskedInv
<1>6. LogInv'
  BY DEF FirmwareResets, Reset, LogInv
<1>7. LeftInv'
  BY DEF FirmwareResets, Reset, LeftInv
<1>8. AnsweredMeansDone'
  BY DEF IInv, FirmwareResets, logVars, AnsweredMeansDone, Req
<1> QED
  BY <1>2, <1>3, <1>4, <1>5, <1>6, <1>7, <1>8 DEF IInv

-----------------------------------------------------------------------------
(***************************************************************************)
(* The invariant holds.                                                    *)
(***************************************************************************)
\* The chip as it is delivered: nothing asked for, nothing written, no fault.
LEMMA InitHolds == Init => IInv
<1> SUFFICES ASSUME Init PROVE IInv
  OBVIOUS
<1> USE RomExtBootAssumption
<1>1. record \in BootData
  BY DEF Init, BootData
<1>2. bootLog \in BootLogs
  BY DEF Init, BootLogs, Slots
<1>3. msg \in Messages
  BY DEF Init, Messages
<1>4. images \in [Slots -> Versions \cup {NoImage}] /\ setup \in Setups /\ ram \in BootData
  BY <1>1 DEF Init
<1>5. faults \in 0..MaxFaults
  BY DEF Init
<1>6. /\ pending \in BootData \cup {NoData}
      /\ reasons \subseteq {"por", "sw", "lowPower"}
      /\ pc \in {"rom", "serve", "save", "sync", "detect", "try", "rescue", "running"}
      /\ wanted \in {"none", "enter", "skip"}
  BY DEF Init
<1>7. /\ lowPower \in BOOLEAN
      /\ attempted \in BOOLEAN
      /\ deadline \in BOOLEAN
      /\ served \in BOOLEAN
  BY Zenon DEF Init
<1>8. TypeOK
  BY <1>1, <1>2, <1>3, <1>4, <1>5, <1>6, <1>7, Zenon DEF TypeOK
<1>9. SaveInv /\ FreshInv /\ AskedInv /\ LogInv /\ LeftInv /\ AnsweredMeansDone
  BY DEF Init, NoMessage, SaveInv, FreshInv, AskedInv, LogInv, LeftInv, AnsweredMeansDone
<1> QED
  BY <1>8, <1>9 DEF IInv

\* Steps that change nothing keep the invariant.
LEMMA StutterKeeps ==
  ASSUME IInv, UNCHANGED vars
  PROVE  IInv'
BY DEF IInv, vars, logVars, bootVars, TypeOK, SaveInv, Harmless, VerifyingSlots,
       FreshInv, AskedInv, Asked, LogInv, LeftInv, Unserved, AnsweredMeansDone, Req

\* Every step keeps the invariant.
LEMMA StepKeeps == IInv /\ [Next]_vars => IInv'
<1> SUFFICES ASSUME IInv, [Next]_vars PROVE IInv'
  OBVIOUS
<1>1. CASE Rom
  BY <1>1, RomKeeps
<1>2. CASE NothingToServe
  BY <1>2, NothingToServeKeeps
<1>3. CASE EnterRescueRequest
  BY <1>3, EnterRescueRequestKeeps
<1>4. CASE NextSlotRequest
  BY <1>4, NextSlotRequestKeeps
<1>5. CASE PrimarySlotRequest
  BY <1>5, PrimarySlotRequestKeeps
<1>6. CASE MinSecRequest
  BY <1>6, MinSecRequestKeeps
<1>7. CASE MinSecRefused
  BY <1>7, MinSecRefusedKeeps
<1>8. CASE SaveCommit
  BY <1>8, SaveCommitKeeps
<1>9. CASE SaveDone
  BY <1>9, SaveDoneKeeps
<1>10. CASE SyncLog
  BY <1>10, SyncLogKeeps
<1>11. CASE Detect
  BY <1>11, DetectKeeps
<1>12. CASE Launch
  BY <1>12, LaunchKeeps
<1>13. CASE NothingVerifies
  BY <1>13, NothingVerifiesKeeps
<1>14. CASE Inactivity
  BY <1>14, InactivityKeeps
<1>15. CASE SaveFails
  BY <1>15, SaveFailsKeeps
<1>16. CASE LaunchFails
  BY <1>16, LaunchFailsKeeps
<1>17. CASE PowerCut
  BY <1>17, PowerCutKeeps
<1>18. CASE HostStages
  BY <1>18, HostStagesKeeps
<1>19. CASE HostFlashes
  BY <1>19, HostFlashesKeeps
<1>20. CASE HostLeaves
  BY <1>20, HostLeavesKeeps
<1>21. CASE FirmwareFlashes
  BY <1>21, FirmwareFlashesKeeps
<1>22. CASE FirmwareStages
  BY <1>22, FirmwareStagesKeeps
<1>23. CASE FirmwareResets
  BY <1>23, FirmwareResetsKeeps
<1>24. CASE UNCHANGED vars
  BY <1>24, StutterKeeps
<1> QED
  BY <1>1, <1>2, <1>3, <1>4, <1>5, <1>6, <1>7, <1>8, <1>9, <1>10, <1>11, <1>12, <1>13,
     <1>14, <1>15, <1>16, <1>17, <1>18, <1>19, <1>20, <1>21, <1>22, <1>23, <1>24
     DEF Next, RomExt

\* At each point of the boot flow of every chip: what the RAM copy, the boot
\* log and the message have to do with the record in flash.
THEOREM Invariant == Spec => []IInv
BY InitHolds, StepKeeps, PTL DEF Spec

\* The state has its type, in particular the RAM copy always names a slot.
THEOREM TypeCorrect == Spec => []TypeOK
<1>1. IInv => TypeOK
  BY DEF IInv
<1> QED
  BY <1>1, Invariant, PTL

\* boot_svc_handler(): responses are true for as long as they are kept.
THEOREM AnswersAreTrue == Spec => []AnsweredMeansDone
<1>1. IInv => AnsweredMeansDone
  BY DEF IInv
<1> QED
  BY <1>1, Invariant, PTL

\* rom_ext_start(): the boot log agrees with the record in flash.
THEOREM BootLogIsTrue == Spec => []LogIsTrue
<1>1. IInv => LogIsTrue
  BY DEF IInv, LogInv, LogIsTrue
<1> QED
  BY <1>1, Invariant, PTL

-----------------------------------------------------------------------------
(***************************************************************************)
(* What steps never do.                                                    *)
(***************************************************************************)

\* Only Launch gets to the firmware.
LEMMA LaunchStep ==
  ASSUME IInv, Next, pc # "running", pc' = "running"
  PROVE  Launch
BY DEF Next, RomExt, Rom, NothingToServe, EnterRescueRequest, NextSlotRequest,
       PrimarySlotRequest, MinSecRequest, MinSecRefused, AnswerNextSlot, BeginSave,
       SaveCommit, SaveDone, SaveFails, SyncLog, Detect, EnterRescue, BootFails,
       LaunchFails, NothingVerifies, Inactivity, PowerCut, HostStages, HostFlashes,
       HostLeaves, FirmwareFlashes, FirmwareStages, FirmwareResets, Reboot, Shutdown,
       Reset

\* Only boot_data_write() changes the record.
LEMMA CommitStep ==
  ASSUME Next, record' # record
  PROVE  SaveCommit
BY DEF Next, RomExt, Rom, NothingToServe, EnterRescueRequest, NextSlotRequest, logVars,
       PrimarySlotRequest, MinSecRequest, MinSecRefused, BeginSave, SaveDone, SaveFails,
       SyncLog, Detect, Launch, BootFails, LaunchFails, NothingVerifies, Inactivity,
       PowerCut, HostStages, HostFlashes, HostLeaves, HostActs, FirmwareFlashes,
       FirmwareStages, FirmwareResets, Log!Begin, Log!Succeed, Log!GiveUp, Log!Read

\* Only a rescue that times out before a boot was tried leaves another message.
LEMMA SkipStep ==
  ASSUME IInv, Next, pc = "rescue", pc' = "rom", msg' # msg
  PROVE  Inactivity /\ ~attempted
BY DEF Next, RomExt, Rom, NothingToServe, EnterRescueRequest, NextSlotRequest, Serving,
       PrimarySlotRequest, MinSecRequest, MinSecRefused, SaveCommit, SaveDone,
       AnswerNextSlot, SaveFails, SyncLog, Detect, Launch, LaunchSlot, LaunchFails,
       NothingVerifies, Inactivity, PowerCut, HostStages, HostFlashes, HostLeaves,
       FirmwareFlashes, FirmwareStages, FirmwareResets

\* rom_ext_try_next_stage(): every boot launches the slot it was asked for, or
\* the other one if that does not verify.
THEOREM LaunchesAsAsked == Spec => LaunchedAsAsked
<1> DEFINE first == IF served /\ Req.type = "next" /\ Req.next \in Slots
                    THEN Req.next ELSE record.primary
           Right == (pc # "running" /\ pc' = "running" /\ answer # "error") =>
                       bootLog'.slot = IF first \in VerifyingSlots(record.minSec)
                                       THEN first ELSE Other(first)
<1>1. IInv /\ [Next]_vars => [Right]_vars
  <2> SUFFICES ASSUME IInv, Next, pc # "running", pc' = "running", answer # "error"
               PROVE  bootLog'.slot = IF first \in VerifyingSlots(record.minSec)
                                      THEN first ELSE Other(first)
    OBVIOUS
  <2>1. Launch
    BY LaunchStep
  <2>2. ram.primary = first /\ ram.minSec = record.minSec
    BY <2>1 DEF IInv, AskedInv, Asked, Launch, LaunchSlot
  <2>3. bootLog'.slot = FirstSlot(ram)
    BY <2>1 DEF Launch, LaunchSlot
  <2> QED
    BY <2>2, <2>3 DEF FirstSlot
<1> QED
  BY <1>1, Invariant, PTL DEF Spec, LaunchedAsAsked

\* boot_svc_min_sec_ver_handler(): the minimum version never falls, and never
\* rises above an image that could be booted.
THEOREM NeverBricks == Spec => MinSecNeverBricks
<1> DEFINE Safe == record'.minSec # record.minSec =>
                     /\ record'.minSec > record.minSec
                     /\ VerifyingSlots(record.minSec) # {}
                     /\ VerifyingSlots(record.minSec) \subseteq VerifyingSlots(record'.minSec)
<1>1. IInv /\ [Next]_vars => [Safe]_vars
  <2> SUFFICES ASSUME IInv, Next, record'.minSec # record.minSec PROVE Safe
    OBVIOUS
  <2>1. SaveCommit
    BY CommitStep
  <2>2. pc = "save" /\ record' = ram
    BY <2>1 DEF SaveCommit, Log!Commit, IInv, SaveInv
  <2>3. Harmless(ram.minSec)
    BY <2>2 DEF IInv, SaveInv
  <2> QED
    BY <2>2, <2>3 DEF Harmless
<1> QED
  BY <1>1, Invariant, PTL DEF Spec, MinSecNeverBricks

\* rescue_skip_next_boot(): it overwrites no request that is to be served.
THEOREM NothingIsLost == Spec => RequestsAreNotLost
<1> DEFINE Kept == (pc = "rescue" /\ pc' = "rom" /\ msg' # msg /\ msg.type = "request") =>
                      (answer = "error" \/ Req.type = "corrupt")
<1>1. IInv /\ [Next]_vars => [Kept]_vars
  <2> SUFFICES ASSUME IInv, Next, pc = "rescue", pc' = "rom", msg' # msg,
                      msg.type = "request"
               PROVE  answer = "error" \/ Req.type = "corrupt"
    OBVIOUS
  <2>1. deadline /\ ~attempted
    BY SkipStep DEF Inactivity
  <2> QED
    BY <2>1 DEF IInv, LeftInv, Unserved
<1> QED
  BY <1>1, Invariant, PTL DEF Spec, RequestsAreNotLost

=============================================================================
