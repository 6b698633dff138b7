------------------------------ MODULE Ownership ------------------------------
(***************************************************************************)
(* Ownership of the chip: lib/ownership/ownership.c, ownership_unlock.c,   *)
(* ownership_activate.c and ownership_key.c, driven by the boot flow of    *)
(* rom_ext/rom_ext.c.                                                      *)
(*                                                                         *)
(* At each boot ROM_EXT reads the boot data record and the two owner       *)
(* pages, repairs or updates the pages as the ownership state asks, serves *)
(* the request it finds in retention RAM, and runs the owner's firmware    *)
(* (or rescue), which may write owner page 1, leave a request and reset.   *)
(* Every flash operation on an owner page or on the owner secret page is a *)
(* step; power may fail before, in the middle of and after each, and each  *)
(* may report an error.  The boot data record is written through           *)
(* BootRecord, which BootData implements.                                  *)
(***************************************************************************)
EXTENDS OwnerBlock, Sequences

CONSTANTS
  FirstBlock,     \* the configuration the chip is provisioned with
  BootSlots,      \* values of primary_bl0_slot in activate requests
  FaultKinds,     \* the faults that may happen: "cut", "error", "read"
  MaxFaults,      \* bound: how many of them
  MaxNonce,       \* bound: no request is staged once so many nonces were drawn
  NoData          \* no boot data write in progress

ASSUME OwnershipAssumption ==
  /\ FirstBlock \in Blocks
  /\ FirstBlock.items = "ok"
  /\ BootSlots \subseteq {"A", "B", "unspecified"}
  /\ FaultKinds \subseteq {"cut", "error", "read"}
  /\ MaxFaults \in Nat
  /\ MaxNonce \in Nat
  /\ Bad \notin Seq(Owners \cup {NoOwner})

VARIABLES
  record,    \* the boot data record in flash
  pending,   \* the record boot_data_write() is writing, NoData outside
  answer,    \* how the last boot data call ended
  pages,     \* the owner pages in flash
  secret,    \* the owner secret page: the key history its contents derive from
  msg,       \* the boot services message in retention RAM
  pc,        \* where ROM_EXT stands
  ram,       \* the RAM copy of the boot data record
  copies,    \* the RAM copies of the owner pages
  config,    \* the owner block whose configuration is in force, or NoBlock
  plan,      \* the flash operations a function has still to do
  nonces,    \* nonces drawn so far
  faults,    \* faults so far
  holders,   \* history: owners that ran while locked with the present secret
  backups    \* history: the blocks whose sealed page firmware or rescue could read

logVars == << record, pending, answer >>
romVars == << pc, ram, copies, config, plan, nonces >>
history == << holders, backups >>
vars == << logVars, pages, secret, msg, romVars, faults, history >>

BootData ==
  [state : OwnershipStates, nextOwner : Owners \cup {NoOwner},
   minSec : Nat, transfers : Nat, nonce : Nat, primary : {"A", "B"}]

Log == INSTANCE BootRecord WITH Record <- BootData, stored <- record

\* A flash operation: what it leaves in which page.  Erasing leaves Bad.
FlashOps ==
  [page : Slots, data : OwnerPages]
    \cup [page : {"secret"}, data : Seq(Owners \cup {NoOwner}) \cup {Bad}]

Requests ==
  [op : {"any", "endorsed", "update", "abort", "activate"}, next : Owners \cup {NoOwner},
   slot : BootSlots \cup {"unspecified"}, signer : Owners \cup {Recovery}, nonce : Nat]
NoMessage == [type |-> "none"]

\* A response keeps the request it answers; the code keeps only its type.
Messages ==
  {NoMessage}
    \cup [type : {"request"}, request : Requests]
    \cup [type : {"response"}, request : Requests, result : {"ok", "refused", "failed"}]

Booting == {"boot", "init", "update", "mirror", "copy", "recover",
            "serve", "activate", "save", "launch"}

TypeOK ==
  /\ record \in BootData
  /\ pending \in BootData \cup {NoData}
  /\ pages \in [Slots -> OwnerPages]
  /\ secret \in Seq(Owners \cup {NoOwner}) \cup {Bad}
  /\ msg \in Messages
  /\ pc \in Booting \cup {"running"}
  /\ ram \in BootData
  /\ copies \in [Slots -> Copies]
  /\ config \in Blocks \cup {NoBlock}
  /\ plan \in Seq(FlashOps)
  /\ nonces \in Nat
  /\ faults \in 0..MaxFaults
  /\ holders \subseteq Owners
  /\ backups \subseteq Blocks

-----------------------------------------------------------------------------
(***************************************************************************)
(* Flash operations and faults.                                            *)
(***************************************************************************)
Copy0 == copies["slot0"]
Copy1 == copies["slot1"]
Sealed(block) == [block |-> block, sealed |-> TRUE]
SealedIn(content, slot) == content[slot] # Bad /\ content[slot].sealed

EraseOf(page) == [page |-> page, data |-> Bad]
Rewrite(page, data) == << EraseOf(page), [page |-> page, data |-> data] >>

Contents(page) == IF page = "secret" THEN secret ELSE pages[page]

Put(page, data) ==
  IF page = "secret"
  THEN /\ secret' = data
       /\ holders' = IF data = secret THEN holders ELSE {}
       /\ UNCHANGED pages
  ELSE pages' = [pages EXCEPT ![page] = data] /\ UNCHANGED << secret, holders >>

\* What an interrupted operation may leave.  A block ends with its seal, so a
\* write that lacks only its last words leaves a page that is signed.
Torn(op) ==
  {Contents(op.page), Bad}
    \cup {[block |-> b, sealed |-> FALSE] :
             b \in {c \in Blocks : op.page # "secret" /\ op.data = Sealed(c)}}

Fault(kind) ==
  /\ kind \in FaultKinds
  /\ faults < MaxFaults
  /\ faults' = faults + 1

\* A reset: what is not in flash or in retention RAM is gone.
Restart ==
  /\ pc' = "boot"
  /\ ram' = record
  /\ copies' = [s \in Slots |-> Destroyed]
  /\ config' = NoBlock
  /\ plan' = << >>
  /\ UNCHANGED nonces

\* ownership_activate_handler(), ownership_unlock_handler(): the response
Respond(result) == [type |-> "response", request |-> msg.request, result |-> result]

\* only a legal slot changes the primary one
WithSlot(req) ==
  [ram EXCEPT !.primary = IF req.slot \in {"A", "B"} THEN req.slot ELSE @]

FlashOp ==
  /\ plan # << >>
  /\ Put(Head(plan).page, Head(plan).data)
  /\ plan' = Tail(plan)
  /\ UNCHANGED << logVars, msg, pc, ram, copies, config, nonces, faults, backups >>

\* An operation reports an error, which its function returns at once.
FlashError ==
  /\ plan # << >>
  /\ Fault("error")
  /\ \E left \in Torn(Head(plan)) : Put(Head(plan).page, left)
  /\ plan' = << >>
  /\ \/ pc = "update" /\ pc' = "mirror" /\ UNCHANGED << ram, msg >>
     \/ pc = "copy" /\ pc' = "serve" /\ UNCHANGED << ram, msg >>
     \/ /\ pc = "activate"
        /\ pc' = "launch"
        /\ ram' = IF Head(plan).page = "secret" THEN WithSlot(msg.request) ELSE ram
        /\ msg' = Respond("failed")
  /\ UNCHANGED << logVars, copies, config, nonces, backups >>

PowerCut ==
  /\ IF pc = "running" THEN UNCHANGED faults ELSE Fault("cut")
  /\ \/ UNCHANGED << pages, secret, holders >>
     \/ plan # << >> /\ \E left \in Torn(Head(plan)) : Put(Head(plan).page, left)
  /\ msg' = NoMessage
  /\ answer' = "none"
  /\ Log!GiveUp
  /\ Restart
  /\ UNCHANGED backups

-----------------------------------------------------------------------------
(***************************************************************************)
(* Writing the boot data record: BootRecord's steps, and where the boot    *)
(* flow goes from there.  After kErrorWriteBootdataThenReboot rom_ext_main *)
(* resets whatever the write returned; the write that enters Recovery is   *)
(* followed by the rest of the boot.                                       *)
(***************************************************************************)
BeginSave(new, next) ==
  /\ ram' = new
  /\ pending' = new
  /\ Log!Begin
  /\ pc' = next

SaveCommit ==
  /\ record # pending
  /\ Log!Commit
  /\ UNCHANGED << pages, secret, msg, romVars, faults, history >>

AfterSave ==
  \/ pc = "save" /\ Restart
  \/ pc = "recover" /\ pc' = "serve" /\ UNCHANGED << ram, copies, config, plan, nonces >>

SaveDone ==
  /\ Log!Succeed
  /\ AfterSave
  /\ UNCHANGED << pages, secret, msg, faults, history >>

SaveFails ==
  /\ pending # NoData
  /\ Fault("error")
  /\ answer' = "error"
  /\ Log!GiveUp
  /\ AfterSave
  /\ UNCHANGED << pages, secret, msg, history >>

-----------------------------------------------------------------------------
(***************************************************************************)
(* ownership_init().                                                       *)
(***************************************************************************)

\* Both owner pages are read; a page that cannot be read counts as invalid.
Start ==
  /\ pc = "boot"
  /\ answer' = "ok"
  /\ Log!Read
  /\ ram' = record
  /\ \/ copies' = [s \in Slots |-> CopyOf(pages[s])] /\ UNCHANGED faults
     \/ /\ Fault("read")
        /\ \E bad \in Slots :
             copies' = [s \in Slots |-> IF s = bad THEN Destroyed ELSE CopyOf(pages[s])]
  /\ pc' = "init"
  /\ UNCHANGED << pages, secret, msg, config, plan, nonces, history >>

\* No page to run from: Recovery, with a new nonce.
EnterRecovery ==
  /\ BeginSave([ram EXCEPT !.state = "Recovery", !.nonce = nonces + 1], "recover")
  /\ nonces' = nonces + 1
  /\ UNCHANGED << copies, config, plan >>

\* The end of ownership_init(): the boot goes on with the configuration of a
\* block, or with what came before the item that does not parse.
Apply(block) ==
  /\ config' = block
  /\ pc' = "serve"

\* Mutant: UINT32_MAX is taken for a version.
WithMinSecAlways(block) == [ram EXCEPT !.minSec = block.minSec]

\* the RAM copy of boot data takes the minimum security version of a block
WithMinSec(block) ==
  [ram EXCEPT !.minSec = IF block.minSec = NoChange THEN @ ELSE block.minSec]

\* Mutant: an update need not be newer.
UpdateWantedAnyVersion ==
  /\ ram.state = "LockedOwner"
  /\ NewVersionMode(Copy0)
  /\ Copy1.status = "signed"
  /\ OwnerKeyEqual(Copy0, Copy1)
  /\ CheckParses(Copy1.block)

\* locked_owner_init(): page 1 holds a newer configuration of the same owner
UpdateWanted ==
  /\ ram.state = "LockedOwner"
  /\ NewVersionMode(Copy0)
  /\ Copy1.status = "signed"
  /\ Copy1.block.version > Copy0.block.version
  /\ OwnerKeyEqual(Copy0, Copy1)
  /\ CheckParses(Copy1.block)

BeginUpdate ==
  /\ pc = "init"
  /\ UpdateWanted
  /\ ram' = WithMinSec(Copy1.block)
  /\ plan' = Rewrite("slot1", Sealed(Copy1.block))
  /\ pc' = "update"
  /\ UNCHANGED << logVars, pages, secret, msg, copies, config, nonces, faults, history >>

\* Mutant: the new configuration is not mirrored into page 0.
UpdateDoneUnmirrored ==
  /\ pc = "update"
  /\ plan = << >>
  /\ copies' = [copies EXCEPT !["slot1"].status = "sealed"]
  /\ pc' = "mirror"
  /\ UNCHANGED << logVars, pages, secret, msg, ram, config, plan, nonces, faults, history >>

\* Page 0 is taken for invalid, so that Mirror copies page 1 over it.
UpdateDone ==
  /\ pc = "update"
  /\ plan = << >>
  /\ copies' = [copies EXCEPT !["slot0"].status = "invalid", !["slot1"].status = "sealed"]
  /\ pc' = "mirror"
  /\ UNCHANGED << logVars, pages, secret, msg, ram, config, plan, nonces, faults, history >>

\* Mutant: two sealed pages that differ are made equal by page 1.
CopySourcesNewest ==
  {s \in Slots : /\ IsSealed(copies[s])
                 /\ \/ ~ IsSealed(copies[Other(s)])
                    \/ s = "slot1" /\ Copy0.block # Copy1.block}

\* the good page, if the other one is not
CopySources ==
  {s \in Slots : IsSealed(copies[s]) /\ ~ IsSealed(copies[Other(s)])}

Mirror ==
  /\ ram.state = "LockedOwner"
  /\ \/ pc = "mirror"
     \/ pc = "init" /\ ~ UpdateWanted
  /\ \/ /\ CopySources = {}
        /\ \E s \in Slots : IsSealed(copies[s])
        /\ Apply(Copy0.block)
        /\ UNCHANGED << logVars, ram, copies, plan, nonces >>
     \/ \E s \in CopySources :
          /\ copies' = [copies EXCEPT ![Other(s)].block = copies[s].block]
          /\ plan' = Rewrite(Other(s), Sealed(copies[s].block))
          /\ pc' = "copy"
          /\ UNCHANGED << logVars, ram, config, nonces >>
     \/ (\A s \in Slots : ~ IsSealed(copies[s])) /\ EnterRecovery
  /\ UNCHANGED << pages, secret, msg, faults, history >>

CopyDone ==
  /\ pc = "copy"
  /\ plan = << >>
  /\ copies' = [s \in Slots |-> [copies[s] EXCEPT !.status = "sealed"]]
  /\ Apply(Copy0.block)
  /\ UNCHANGED << logVars, pages, secret, msg, ram, plan, nonces, faults, history >>

\* unlocked_init(): page 0, and page 1 if it may be transferred to
TransferReady ==
  Page1ValidForTransfer(ram.state, ram.nextOwner, Copy0, Copy1)

UnlockedInit ==
  /\ pc = "init"
  /\ ram.state \in UnlockedStates
  /\ \/ /\ ram.state = "UnlockedSelf"
        /\ ~ IsSealed(Copy0)
        /\ EnterRecovery
     \/ /\ ram.state = "UnlockedSelf" => IsSealed(Copy0)
        /\ \/ IsSealed(Copy0) /\ ~ Parses(Copy0.block) /\ Apply(Copy0.block)
           \/ /\ IsSealed(Copy0) => Parses(Copy0.block)
              /\ \/ TransferReady /\ CheckParses(Copy1.block) /\ Apply(Copy1.block)
                 \/ /\ ~ (TransferReady /\ CheckParses(Copy1.block))
                    /\ config' = IF IsSealed(Copy0) THEN Copy0.block ELSE NoBlock
                    /\ pc' = "serve"
        /\ UNCHANGED << logVars, ram, copies, plan, nonces >>
  /\ UNCHANGED << pages, secret, msg, faults, history >>

\* Mutant: an error of ownership_init() is returned from rom_ext_start().
RecoveryInitReboots ==
  /\ pc = "init"
  /\ ram.state = "Recovery"
  /\ pc' = "boot"
  /\ UNCHANGED << logVars, pages, secret, msg, ram, copies, config, plan, nonces, faults, history >>

\* In Recovery nothing is done; the error is not fatal to the boot.
RecoveryInit ==
  /\ pc = "init"
  /\ ram.state = "Recovery"
  /\ pc' = "serve"
  /\ UNCHANGED << logVars, pages, secret, msg, ram, copies, config, plan, nonces, faults, history >>

-----------------------------------------------------------------------------
(***************************************************************************)
(* boot_svc_handler(): the request in retention RAM.                       *)
(***************************************************************************)

\* A low-power wakeup serves no request; so does a boot that finds none.
SkipService ==
  /\ pc = "serve"
  /\ pc' = "launch"
  /\ UNCHANGED << logVars, pages, secret, msg, ram, copies, config, plan, nonces, faults, history >>

\* do_unlock(): the state after a request that was accepted
Unlocked(req) ==
  CASE req.op = "endorsed" -> [ram EXCEPT !.state = "UnlockedEndorsed", !.nextOwner = req.next]
    [] req.op = "any"      -> [ram EXCEPT !.state = "UnlockedAny"]
    [] req.op = "update"   -> [ram EXCEPT !.state = "UnlockedSelf"]
    [] req.op = "abort"    -> [ram EXCEPT !.state = "LockedOwner"]

\* unlock(), unlock_update() and unlock_abort(): who may ask for what, where
MayUnlock(req) ==
  \/ /\ req.op \in {"any", "endorsed"}
     /\ ram.state = "LockedOwner"
     /\ Copy0.block # NoBlock /\ Copy0.block.mode = "open"
     /\ KeyValidate(Copy0, req.signer, TRUE)
  \/ /\ req.op \in {"any", "endorsed"}
     /\ ram.state = "Recovery"
     /\ KeyValidate(Copy0, req.signer, TRUE)
  \/ /\ req.op = "update"
     /\ ram.state = "LockedOwner"
     /\ KeyValidate(Copy0, req.signer, FALSE)
     /\ Copy0.block.mode # "newversion"
  \/ /\ req.op = "abort"
     /\ ram.state \in UnlockedStates
     /\ KeyValidate(Copy0, req.signer, FALSE)

\* Mutant: the nonce is checked for unlocks only, not for an abort.
UnlockAcceptedStale(req) == MayUnlock(req) /\ (req.op = "abort" \/ req.nonce = ram.nonce)

UnlockAccepted(req) == MayUnlock(req) /\ req.nonce = ram.nonce

ServeUnlock ==
  /\ pc = "serve"
  /\ msg.type = "request"
  /\ msg.request.op # "activate"
  /\ \/ /\ UnlockAccepted(msg.request)
        /\ msg' = Respond("ok")
        /\ nonces' = nonces + 1
        /\ BeginSave([Unlocked(msg.request) EXCEPT !.nonce = nonces + 1], "save")
     \/ /\ ~ UnlockAccepted(msg.request)
        /\ msg' = Respond("refused")
        /\ pc' = "launch"
        /\ UNCHANGED << logVars, ram, nonces >>
  /\ UNCHANGED << pages, secret, copies, config, plan, faults, history >>

\* ownership_activate_handler(): what is checked before anything is written
ActivateAccepted(req) ==
  /\ ram.state \in UnlockedStates
  /\ TransferReady
  /\ KeyValidate(Copy1, req.signer, FALSE)
  /\ req.nonce = ram.nonce
  /\ CheckParses(Copy1.block)

\* ownership_secret_new(): the prior owner's key extends the history
NewSecret ==
  Append(IF secret = Bad THEN << NoOwner >> ELSE secret,
         IF Copy0.block = NoBlock THEN NoOwner ELSE Copy0.block.owner)

\* Mutant: an activation renews no secret.
ActivationPlanKeepSecret ==
  Rewrite("slot1", Sealed(Copy1.block)) \o Rewrite("slot0", Sealed(Copy1.block))

\* Mutant: both pages are erased before either is written.
ActivationPlanErasesFirst ==
  << EraseOf("slot1"), EraseOf("slot0") >>
    \o Rewrite("slot1", Sealed(Copy1.block))
    \o Rewrite("slot0", Sealed(Copy1.block))
    \o IF ram.state = "UnlockedSelf" THEN << >> ELSE Rewrite("secret", NewSecret)

ActivationPlan ==
  Rewrite("slot1", Sealed(Copy1.block))
    \o Rewrite("slot0", Sealed(Copy1.block))
    \o IF ram.state = "UnlockedSelf" THEN << >> ELSE Rewrite("secret", NewSecret)

ServeActivate ==
  /\ pc = "serve"
  /\ msg.type = "request"
  /\ msg.request.op = "activate"
  /\ \/ /\ ActivateAccepted(msg.request)
        /\ ram' = WithMinSec(Copy1.block)
        /\ plan' = ActivationPlan
        /\ pc' = "activate"
        /\ UNCHANGED msg
     \/ /\ ~ ActivateAccepted(msg.request)
        /\ msg' = Respond("refused")
        /\ pc' = "launch"
        /\ UNCHANGED << ram, plan >>
  /\ UNCHANGED << logVars, pages, secret, copies, config, nonces, faults, history >>

\* ownership_secret_new() gives up if it cannot read the secret page.
SecretUnreadable ==
  /\ pc = "activate"
  /\ plan # << >>
  /\ Head(plan) = EraseOf("secret")
  /\ IF secret = Bad THEN UNCHANGED faults ELSE Fault("read")
  /\ plan' = << >>
  /\ pc' = "launch"
  /\ ram' = WithSlot(msg.request)
  /\ msg' = Respond("failed")
  /\ UNCHANGED << logVars, pages, secret, copies, config, nonces, history >>

ActivateDone ==
  /\ pc = "activate"
  /\ plan = << >>
  /\ LET moved == IF ram.state = "UnlockedSelf" THEN 0 ELSE 1
     IN  BeginSave([WithSlot(msg.request) EXCEPT
                      !.state = "LockedOwner",
                      !.nextOwner = NoOwner,
                      !.transfers = @ + moved,
                      !.nonce = nonces + 1], "save")
  /\ nonces' = nonces + 1
  /\ msg' = Respond("ok")
  /\ UNCHANGED << pages, secret, copies, config, plan, faults, history >>

-----------------------------------------------------------------------------
(***************************************************************************)
(* Running the owner's firmware, or rescue.                                *)
(***************************************************************************)
\* Both owner pages can be read from now on.
Launch ==
  /\ pc = "launch"
  /\ pc' = "running"
  /\ holders' = IF ram.state = "LockedOwner" /\ config # NoBlock
                THEN holders \cup {config.owner} ELSE holders
  /\ backups' = backups \cup {pages[s].block : s \in {t \in Slots : SealedIn(pages, t)}}
  /\ UNCHANGED << logVars, pages, secret, msg, ram, copies, config, plan, nonces, faults >>

\* ownership_pages_lockdown() and flash_owner_block(): page 0 is never writable.
\* In Recovery page 1 is not locked either, but there are no keys to boot
\* firmware with and rescue takes no block.
Page1Writable ==
  \/ ram.state \in UnlockedStates
  \/ ram.state = "LockedOwner" /\ NewVersionMode(Copy0)

\* Any bytes may be written.  Nothing but the chip can seal a block, but a page
\* that it sealed once may be put back, and its seal is good.
WritePage1 ==
  /\ pc = "running"
  /\ Page1Writable
  /\ \E page \in [block : Blocks, sealed : {FALSE}] \cup {Bad}
                  \cup {Sealed(b) : b \in backups} :
       pages' = [pages EXCEPT !["slot1"] = page]
  /\ UNCHANGED << logVars, secret, msg, romVars, faults, history >>

\* Requests the firmware may leave: signed by anyone who has a key, with the
\* nonce of the boot log or with an old one.
StaleNonce == 0
Stageable ==
  {r \in [op : {"any", "endorsed", "update", "abort", "activate"},
          next : Owners \cup {NoOwner}, slot : BootSlots \cup {"unspecified"},
          signer : Owners \cup {Recovery}, nonce : {ram.nonce, StaleNonce}] :
     /\ r.next # NoOwner <=> r.op = "endorsed"
     /\ r.op # "activate" => r.slot = "unspecified"}

StageRequest ==
  /\ pc = "running"
  /\ nonces < MaxNonce
  /\ \E r \in Stageable : msg' = [type |-> "request", request |-> r]
  /\ UNCHANGED << logVars, pages, secret, romVars, faults, history >>

Reset ==
  /\ pc = "running"
  /\ Restart
  /\ UNCHANGED << logVars, pages, secret, msg, faults, history >>

-----------------------------------------------------------------------------
Init ==
  /\ record = [state |-> "LockedOwner", nextOwner |-> NoOwner, minSec |-> 0,
               transfers |-> 0, nonce |-> 1, primary |-> "A"]
  /\ pending = NoData
  /\ answer = "none"
  /\ pages = [s \in Slots |-> Sealed(FirstBlock)]
  /\ secret = << >>
  /\ msg = NoMessage
  /\ pc = "boot"
  /\ ram = record
  /\ copies = [s \in Slots |-> Destroyed]
  /\ config = NoBlock
  /\ plan = << >>
  /\ nonces = 1
  /\ faults = 0
  /\ holders = {}
  /\ backups = {}

\* The steps ROM_EXT takes by itself.
RomExt ==
  \/ Start \/ BeginUpdate \/ UpdateDone \/ Mirror \/ CopyDone
  \/ UnlockedInit \/ RecoveryInit
  \/ SkipService \/ ServeUnlock \/ ServeActivate \/ SecretUnreadable \/ ActivateDone
  \/ FlashOp \/ FlashError
  \/ SaveCommit \/ SaveDone \/ SaveFails
  \/ Launch

Environment == WritePage1 \/ StageRequest \/ Reset \/ PowerCut

Next == RomExt \/ Environment

Spec == Init /\ [][Next]_vars

\* The processor runs: ROM_EXT always takes its next step.
FairSpec == Spec /\ WF_vars(RomExt)

-----------------------------------------------------------------------------
(***************************************************************************)
(* Properties.                                                             *)
(***************************************************************************)
SomeSealed(content) == \E s \in Slots : SealedIn(content, s)

\* The block a boot of the locked chip would run with: page 0 if it is sealed.
InForce(content) ==
  IF SealedIn(content, "slot0") THEN content["slot0"].block ELSE content["slot1"].block

(***************************************************************************)
(* A block is sealed to the chip only while the durable ownership state    *)
(* lets its owner in, or if the page in force has that owner already:      *)
(* whatever is cut short, no sequence of boots installs an owner that was  *)
(* not asked for.  Only firmware or rescue may do something else: put a    *)
(* page that was sealed before back into page 1.                           *)
(***************************************************************************)
LetsIn(owner) ==
  \/ record.state = "UnlockedAny"
  \/ record.state = "UnlockedEndorsed" /\ record.nextOwner = owner

PutBack(slot) == pc = "running" /\ slot = "slot1" /\ pages'[slot].block \in backups

OwnersAreLetIn ==
  [][\A s \in Slots :
       /\ SealedIn(pages', s)
       /\ pages'[s] # pages[s]
       => \/ LetsIn(pages'[s].block.owner)
          \/ SomeSealed(pages) /\ InForce(pages).owner = pages'[s].block.owner
          \/ PutBack(s)]_vars

(***************************************************************************)
(* When the record of an activation takes effect everything it stands for  *)
(* is in flash: two equal sealed pages and, if the owner may be another    *)
(* one, a secret that no owner has run with, counted as a transfer.        *)
(***************************************************************************)
ActivationIsComplete ==
  [][/\ pc = "save"
     /\ msg.request.op = "activate"
     /\ record' # record
     => /\ SealedIn(pages, "slot0")
        /\ pages["slot0"] = pages["slot1"]
        /\ record.state # "UnlockedSelf" =>
             holders = {} /\ record'.transfers = record.transfers + 1]_vars

(***************************************************************************)
(* A change of the durable ownership state, but for the fall into          *)
(* Recovery, serves a request that carries the nonce of the record it      *)
(* replaces, and every change leaves a nonce no request has been made for: *)
(* a request left in retention RAM, or an old one, is not served again.    *)
(***************************************************************************)
RequestsAreServedOnce ==
  [][record'.state # record.state =>
       /\ record'.nonce > record.nonce
       /\ record'.state # "Recovery" => msg.request.nonce = record.nonce]_vars

(***************************************************************************)
(* Nothing that ROM_EXT does to the owner pages, whole or cut short, takes *)
(* the last sealed page from the chip.                                     *)
(***************************************************************************)
SealedPageRemains ==
  [][pc # "running" /\ SomeSealed(pages) => SomeSealed(pages')]_vars

(***************************************************************************)
(* ownership.md: a locked chip "will not accept new owner configurations". *)
(* While it stays locked, the configuration it would run with keeps its    *)
(* owner, and its version never falls, if no page fails to be read.        *)
(***************************************************************************)
StaysLocked ==
  /\ record.state = "LockedOwner" /\ record'.state = "LockedOwner"
  /\ SomeSealed(pages) /\ SomeSealed(pages')

OwnerAndVersionKept ==
  /\ InForce(pages').owner = InForce(pages).owner
  /\ InForce(pages').version >= InForce(pages).version

LockedKeepsOwner == [][StaysLocked => OwnerAndVersionKept]_vars

(***************************************************************************)
(* Whatever fails, reads included, the configuration a locked chip would   *)
(* run with gives way only to a newer one of its owner or to one that was  *)
(* sealed before and lies in page 1: locked_owner_init() writes over a     *)
(* page 0 that it cannot read, but only with what the chip has accepted.   *)
(***************************************************************************)
LockedKeepsOwnerOrBackup ==
  [][StaysLocked =>
       \/ OwnerAndVersionKept
       \/ /\ SealedIn(pages, "slot1")
          /\ InForce(pages') = pages["slot1"].block
          /\ InForce(pages') \in backups]_vars

(***************************************************************************)
(* A locked chip whose pages are sealed, as they were read or as they were *)
(* repaired, boots with the whole configuration of its owner in force:     *)
(* whatever was sealed parses.  (It does not hold for blocks that repeat   *)
(* an item: "Check if page1 parses correctly" does not look for those.)    *)
(***************************************************************************)
LockedIsConfigured ==
  /\ pc = "launch"
  /\ ram.state = "LockedOwner"
  /\ \A s \in Slots : IsSealed(copies[s])
  => config # NoBlock /\ Parses(config)

(***************************************************************************)
(* If nothing was cut short and nothing failed, a locked chip has finished *)
(* updating and repairing its pages when it serves requests: page 0 holds  *)
(* the configuration in force, and page 1 holds it as well or is a sealed  *)
(* page that was put back, which locked_owner_init() leaves as it is.      *)
(***************************************************************************)
LockedPagesAreSealed ==
  pc \in {"serve", "launch"} /\ ram.state = "LockedOwner" /\ faults = 0 =>
    /\ pages["slot0"] = Sealed(config)
    /\ SealedIn(pages, "slot1")
    /\ pages["slot1"].block \in {config} \cup backups

(***************************************************************************)
(* ROM_EXT always gets to the owner's firmware or to rescue: no contents   *)
(* of the pages, of the record and of retention RAM makes it reboot again  *)
(* and again.                                                              *)
(***************************************************************************)
AlwaysLaunches == []<>(pc = "running")

-----------------------------------------------------------------------------
(***************************************************************************)
(* What comments and documents say and the code does not do.               *)
(***************************************************************************)

(***************************************************************************)
(* "In the No-Owner state, we check against the silicon_creator's          *)
(* no_owner_recovery_key": the algorithm is first looked up in page 0.     *)
(***************************************************************************)
RecoveryKeyIsAccepted ==
  [][/\ pc = "serve" /\ pc' # "boot" /\ msg' # msg
     /\ ram.state = "Recovery"
     /\ msg.request.op \in {"any", "endorsed"}
     /\ msg.request.signer = Recovery
     /\ msg.request.nonce = ram.nonce
     => msg'.result = "ok"]_vars

=============================================================================
