------------------------- MODULE OwnershipPageProofs -------------------------
(***************************************************************************)
(* Theorems about what ROM_EXT writes to the owner pages: whose blocks are *)
(* sealed to the chip, that an activation is complete when its record takes*)
(* effect, and what a locked chip boots with.                              *)
(***************************************************************************)
EXTENDS OwnershipProofs

USE DEF history

\* Page slot holds one of contents once the first n of ops are done.
Ends(content, ops, n, slot, contents) ==
  \/ content[slot] \in contents /\ \A i \in 1..n : ops[i].page # slot
  \/ \E i \in 1..n : /\ ops[i].page = slot /\ ops[i].data \in contents
                     /\ \A j \in (i + 1)..n : ops[j].page # slot

\* When the plan is done this page holds this block.
EndsWith(slot, block) == Ends(pages, plan, Len(plan), slot, {Sealed(block)})

SealedOf(owner) == {Sealed(b) : b \in {c \in Blocks : c.owner = owner}}

\* The RAM copy of the record has the fields of the record that say who is
\* endorsed and how often the chip was transferred.
FieldInv ==
  pc \in {"init", "update", "mirror", "copy", "recover", "serve", "activate"} =>
    ram.nextOwner = record.nextOwner /\ ram.transfers = record.transfers

\* A page that was found sealed still is, with the block that was read.
Exact(slot) == copies[slot].status = "sealed" => pages[slot] = Sealed(copies[slot].block)

ExactInv ==
  pc \in {"init", "update", "mirror", "copy", "recover", "serve"} => \A s \in Slots : Exact(s)

\* The page in force is this owner's once the first n of ops are done: page 0,
\* or page 1 if page 0 is erased.
ForceEnds(content, ops, n, owner) ==
  \/ Ends(content, ops, n, "slot0", SealedOf(owner))
  \/ Ends(content, ops, n, "slot0", {Bad}) /\ Ends(content, ops, n, "slot1", SealedOf(owner))

\* What is still to be sealed: a block whose owner is let in, or one whose
\* owner has the page in force at that point.
Vouched(content, ops, i, block) ==
  LetsIn(block.owner) \/ ForceEnds(content, ops, i - 1, block.owner)

VouchInv ==
  \A i \in 1..Len(plan) : plan[i].page \in Slots /\ plan[i].data # Bad =>
    \E b \in Blocks :
      plan[i].data = Sealed(b) /\ CheckParses(b) /\ Vouched(pages, plan, i, b)

\* All that is planned is to write this block to this page.
Writes(slot, block) ==
  \A i \in 1..Len(plan) : plan[i].page = slot /\ plan[i].data \in {Bad, Sealed(block)}

\* What the functions that write pages are about to leave
UpdateInv ==
  /\ pc \in {"update", "mirror", "copy"} => ram.state = "LockedOwner"
  /\ pc = "update" =>
       /\ EndsWith("slot1", Copy1.block)
       /\ OwnerKeyEqual(Copy0, Copy1) /\ Copy1.block.version > Copy0.block.version
       /\ Writes("slot1", Copy1.block)
  /\ pc = "copy" =>
       /\ Copy0.block = Copy1.block /\ \A s \in Slots : EndsWith(s, Copy0.block)
       /\ \E s \in Slots : pages[Other(s)] = Sealed(Copy0.block) /\ Writes(s, Copy0.block)
  /\ pc = "serve" /\ ram.state = "UnlockedSelf" => IsSealed(Copy0)

\* The secret page is still to be written with something it does not hold by then.
SecretAhead ==
  \E i \in 1..Len(plan) :
    /\ plan[i].page = "secret" /\ plan[i].data # Bad
    /\ secret = Bad \/ \E j \in 1..(i - 1) : plan[j].page = "secret" /\ plan[j].data = Bad

\* An activation renews the secret, unless it is the same owner's, and does so
\* last.
ActivateInv ==
  /\ pc = "activate" =>
       /\ ram.state \in UnlockedStates /\ Copy1.block \in Blocks
       /\ \A s \in Slots : EndsWith(s, Copy1.block)
       /\ ram.state = "UnlockedSelf" \/ holders = {} \/ SecretAhead
       /\ \A i, j \in 1..Len(plan) : i < j /\ plan[i].page = "secret" => plan[j].page = "secret"
  /\ pc = "save" /\ pending \notin {NoData, record} /\ msg.request.op = "activate" =>
       /\ SealedIn(pages, "slot0") /\ pages["slot0"] = pages["slot1"]
       /\ record.state # "UnlockedSelf" =>
            holders = {} /\ pending.transfers = record.transfers + 1

\* What is sealed parses, as far as it was looked at.
SealedParses ==
  \A s \in Slots : SealedIn(pages, s) => CheckParses(pages[s].block)

PageInv == FieldInv /\ ExactInv /\ VouchInv /\ UpdateInv /\ ActivateInv /\ SealedParses

(***************************************************************************)
(* A sealed page 1 that is not the other copy of page 0 was put back.      *)
(***************************************************************************)
Known(slot) == SealedIn(pages, slot) => pages[slot].block \in backups

\* What a boot of the locked chip may find in two sealed pages: page 1 was put
\* back, or it is the newer configuration of the same owner, or the same one.
LockedPair ==
  (\A s \in Slots : SealedIn(pages, s)) =>
    \/ Known("slot1")
    \/ /\ pages["slot1"].block.owner = pages["slot0"].block.owner
       /\ pages["slot1"].block.version >= pages["slot0"].block.version

\* Page 1 is only written to by firmware while the chip is unlocked, so that it
\* is known when a request brings the chip back to the locked state.
BackupInv ==
  /\ \A b \in backups : CheckParses(b)
  /\ pc = "running" => Known("slot1")
  /\ /\ pc \in {"boot", "init", "recover", "serve"}
     /\ msg.type = "request" /\ record.state \in UnlockedStates
     => Known("slot1")
  /\ record.state = "LockedOwner" => LockedPair
  /\ pc = "save" /\ pending # NoData /\ pending.state = "LockedOwner" => LockedPair

(***************************************************************************)
(* The blocks that an owner signs do not repeat an item: owner_block_parse *)
(* would not notice before the block is sealed.                            *)
(***************************************************************************)
NoRepeats == \A b \in Blocks : CheckParses(b) => Parses(b)

ConfigInv ==
  pc \in {"serve", "launch"} /\ ram.state = "LockedOwner" /\ (\A s \in Slots : IsSealed(copies[s]))
    => config # NoBlock /\ Parses(config)

\* As long as nothing was cut short and nothing failed
CleanInv ==
  faults = 0 =>
    /\ pc \notin {"update", "mirror", "copy", "activate"} =>
         /\ SealedIn(pages, "slot0")
         /\ SealedIn(pages, "slot1") =>
              pages["slot1"].block \in {pages["slot0"].block} \cup backups
    /\ pc = "init" =>
         IsSealed(Copy0) /\ (SealedIn(pages, "slot1") => IsSealed(Copy1))
    /\ pc = "mirror" => IsSealed(Copy1) /\ ~ IsSealed(Copy0)
    /\ pc \in {"serve", "launch"} /\ ram.state = "LockedOwner" =>
         /\ pages["slot0"] = Sealed(config)
         /\ SealedIn(pages, "slot1") /\ pages["slot1"].block \in {config} \cup backups

(***************************************************************************)
(* Page 0 is given up in a locked chip only for a page 1 of the same owner *)
(* that is as new or, if a page can fail to be read, one that was put back.*)
(***************************************************************************)
PagesAreRead == "read" \notin FaultKinds

\* The block in force passes from page 0 to page 1.
HandsOver ==
  SealedIn(pages, "slot1")
    /\ (SealedIn(pages, "slot0") =>
          \/ /\ pages["slot1"].block.owner = pages["slot0"].block.owner
             /\ pages["slot1"].block.version >= pages["slot0"].block.version
          \/ ~ PagesAreRead /\ pages["slot1"].block \in backups)

KeepInv ==
  /\ pc \in {"recover", "serve", "launch", "running"} => ram.state \in {record.state, "Recovery"}
  /\ pc = "recover" => ram.state = "Recovery"
  /\ pc = "init" /\ SealedIn(pages, "slot0") => IsSealed(Copy0) \/ ~ PagesAreRead
  /\ pc = "mirror" /\ ~ IsSealed(Copy0) => HandsOver
  /\ pc = "copy" =>
       \/ SealedIn(pages, "slot0") /\ \A i \in 1..Len(plan) : plan[i].page = "slot1"
       \/ HandsOver /\ \A i \in 1..Len(plan) :
                         /\ plan[i].page = "slot0"
                         /\ plan[i].data \in {Bad, pages["slot1"]}
  /\ pc \in {"serve", "launch", "running"} /\ ram.state = "LockedOwner" /\ IsSealed(Copy0)
       => SealedIn(pages, "slot0")

-----------------------------------------------------------------------------
(***************************************************************************)
(* Plans.                                                                  *)
(***************************************************************************)

\* What the pages end with does not change when the first operation is done.
LEMMA EndsShifted ==
  ASSUME NEW content \in [Slots -> OwnerPages], NEW ops \in Seq(FlashOps), ops # << >>,
         NEW n \in 0..(Len(ops) - 1), NEW slot \in Slots, NEW contents,
         Ends(content, ops, n + 1, slot, contents)
  PROVE  Ends(Done(content, Head(ops)), Tail(ops), n, slot, contents)
<1> DEFINE after == Done(content, Head(ops))
<1>1. Len(ops) \in Nat /\ Len(ops) > 0 /\ Head(ops) = ops[1] /\ Len(Tail(ops)) = Len(ops) - 1
  BY EmptySeq, HeadTailProperties
<1>2. \A i \in 1..n : Tail(ops)[i] = ops[i + 1]
  BY <1>1, HeadTailProperties
<1>3. after[slot] = IF ops[1].page = slot THEN ops[1].data ELSE content[slot]
  BY <1>1 DEF Done
<1>4. CASE content[slot] \in contents /\ \A i \in 1..(n + 1) : ops[i].page # slot
  <2>1. after[slot] \in contents
    BY <1>3, <1>4
  <2>2. \A i \in 1..n : Tail(ops)[i].page # slot
    BY <1>2, <1>4
  <2> QED
    BY <2>1, <2>2 DEF Ends
<1>5. ASSUME NEW k \in 1..(n + 1), ops[k].page = slot, ops[k].data \in contents,
             \A j \in (k + 1)..(n + 1) : ops[j].page # slot
      PROVE  Ends(after, Tail(ops), n, slot, contents)
  <2>1. CASE k = 1
    <3>1. after[slot] \in contents
      BY <1>3, <1>5, <2>1
    <3>2. \A i \in 1..n : i + 1 \in (k + 1)..(n + 1)
      BY <2>1
    <3>3. \A i \in 1..n : Tail(ops)[i].page # slot
      BY <1>2, <1>5, <3>2
    <3> QED
      BY <3>1, <3>3 DEF Ends
  <2>2. CASE k # 1
    <3>1. k - 1 \in 1..n /\ Tail(ops)[k - 1] = ops[k]
      BY <1>2, <2>2
    <3>2. \A j \in ((k - 1) + 1)..n : j \in 1..n /\ j + 1 \in (k + 1)..(n + 1)
      BY <2>2
    <3>3. \A j \in ((k - 1) + 1)..n : Tail(ops)[j].page # slot
      BY <1>2, <1>5, <3>2
    <3> QED
      BY <1>5, <3>1, <3>3 DEF Ends
  <2> QED
    BY <2>1, <2>2
<1> QED
  BY <1>4, <1>5 DEF Ends

\* With nothing left to do, a page holds what it ends with.
LEMMA EndsNow ==
  ASSUME NEW slot \in Slots, NEW block, plan = << >>, EndsWith(slot, block)
  PROVE  pages[slot] = Sealed(block)
<1>1. Len(plan) = 0
  BY EmptySeq
<1> QED
  BY <1>1 DEF EndsWith, Ends

\* A rewritten page is erased before it gets the block.
LEMMA RewriteOps ==
  ASSUME NEW slot \in Slots, NEW b \in Blocks, NEW ops, ops = Rewrite(slot, Sealed(b))
  PROVE  /\ Len(ops) = 2
         /\ ops[1].page = slot /\ ops[1].data = Bad
         /\ ops[2].page = slot /\ ops[2].data = Sealed(b)
         /\ \A i \in 1..Len(ops) : ops[i].page = slot /\ ops[i].data \in {Bad, Sealed(b)}
<1>1. Len(ops) = 2 /\ ops[1] = EraseOf(slot) /\ ops[2] = [page |-> slot, data |-> Sealed(b)]
  BY RewriteSeq
<1>2. ops[1].page = slot /\ ops[1].data = Bad /\ ops[2].page = slot /\ ops[2].data = Sealed(b)
  BY <1>1 DEF EraseOf
<1> QED
  BY <1>1, <1>2

\* It ends with the block, the other page as it is.
LEMMA RewriteEnds ==
  ASSUME NEW content, NEW slot \in Slots, NEW b \in Blocks, NEW other, other = Other(slot),
         NEW ops, ops = Rewrite(slot, Sealed(b)), NEW contents, content[other] \in contents
  PROVE  /\ Ends(content, ops, 2, slot, {Sealed(b)})
         /\ \A n \in 0..2 : Ends(content, ops, n, other, contents)
<1>1. ops[1].page = slot /\ ops[2].page = slot /\ ops[2].data = Sealed(b)
  BY RewriteOps
<1>2. slot # other
  BY DEF Slots, Other
<1>3. Ends(content, ops, 2, slot, {Sealed(b)})
  BY <1>1 DEF Ends
<1>4. \A n \in 0..2 : Ends(content, ops, n, other, contents)
  BY <1>1, <1>2 DEF Ends
<1> QED
  BY <1>3, <1>4

\* The operations of an activation
LEMMA ActivationOps ==
  ASSUME Copy1.block \in Blocks, Copy0.block \in Blocks \cup {NoBlock},
         secret \in Seq(Owners \cup {NoOwner}) \cup {Bad}, ~ SealedIn(pages, "slot1")
  PROVE  /\ Len(ActivationPlan) \in Nat /\ Len(ActivationPlan) >= 4
         /\ ActivationPlan[1].page = "slot1" /\ ActivationPlan[1].data = Bad
         /\ ActivationPlan[2].page = "slot1" /\ ActivationPlan[2].data = Sealed(Copy1.block)
         /\ ActivationPlan[3].page = "slot0" /\ ActivationPlan[3].data = Bad
         /\ ActivationPlan[4].page = "slot0" /\ ActivationPlan[4].data = Sealed(Copy1.block)
         /\ \A i \in 5..Len(ActivationPlan) : ActivationPlan[i].page = "secret"
         /\ ram.state # "UnlockedSelf" =>
              /\ Len(ActivationPlan) = 6
              /\ ActivationPlan[5].data = Bad /\ ActivationPlan[6].data # Bad
<1> DEFINE x == SecretPlan
           b == Copy1.block
           ops == Rewrite("slot1", Sealed(b)) \o Rewrite("slot0", Sealed(b)) \o x
<1>1. ActivationPlan = ops
  BY DEF ActivationPlan, SecretPlan
<1>2. x \in Seq(FlashOps) /\ Len(x) \in Nat /\ (\A i \in 1..Len(x) : x[i].page = "secret")
      /\ (ram.state # "UnlockedSelf" => Len(x) = 2 /\ x[1].data = Bad /\ x[2].data # Bad)
  BY SecretOps
<1> HIDE DEF x
<1>3. /\ Len(ops) = 4 + Len(x)
      /\ ops[1] = EraseOf("slot1") /\ ops[2] = [page |-> "slot1", data |-> Sealed(b)]
      /\ ops[3] = EraseOf("slot0") /\ ops[4] = [page |-> "slot0", data |-> Sealed(b)]
      /\ \A i \in 5..Len(ops) : i - 4 \in 1..Len(x) /\ ops[i] = x[i - 4]
  BY <1>2, ActivationSeq
<1> HIDE DEF ops
<1>4. ASSUME NEW i \in 5..Len(ops) PROVE ops[i].page = "secret"
  <2>1. i - 4 \in 1..Len(x) /\ ops[i] = x[i - 4]
    BY <1>3
  <2>2. x[i - 4].page = "secret"
    BY <1>2, <2>1
  <2> QED
    BY <2>1, <2>2
<1>5. /\ ops[1].page = "slot1" /\ ops[1].data = Bad
      /\ ops[2].page = "slot1" /\ ops[2].data = Sealed(b)
      /\ ops[3].page = "slot0" /\ ops[3].data = Bad
      /\ ops[4].page = "slot0" /\ ops[4].data = Sealed(b)
  BY <1>3 DEF EraseOf
<1>6. Len(ops) \in Nat /\ Len(ops) >= 4 /\ (ram.state # "UnlockedSelf" => Len(ops) = 6)
  <2>1. Len(ops) = 4 + Len(x)
    BY <1>3
  <2>2. Len(x) \in Nat /\ (ram.state # "UnlockedSelf" => Len(x) = 2)
    BY <1>2
  <2>3. \A m, n : n \in Nat /\ m = 4 + n => m \in Nat /\ m >= 4 /\ (n = 2 => m = 6)
    OBVIOUS
  <2> QED
    BY <2>1, <2>2, <2>3, Zenon
<1>7. ASSUME ram.state # "UnlockedSelf"
      PROVE  Len(ops) = 6 /\ ops[5].data = Bad /\ ops[6].data # Bad
  <2>1. Len(ops) = 6 /\ x[1].data = Bad /\ x[2].data # Bad
    BY <1>2, <1>6, <1>7
  <2>2. 5 \in 5..Len(ops) /\ 6 \in 5..Len(ops) /\ 5 - 4 = 1 /\ 6 - 4 = 2
    BY <2>1
  <2>3. ops[5] = x[1] /\ ops[6] = x[2]
    BY <1>3, <2>2
  <2> QED
    BY <2>1, <2>3
<1> QED
  BY <1>1, <1>4, <1>5, <1>6, <1>7

-----------------------------------------------------------------------------
(***************************************************************************)
(* Every action keeps PageInv.                                             *)
(***************************************************************************)

\* A page is read as it is.
LEMMA CopyExact ==
  ASSUME NEW page \in OwnerPages, CopyOf(page).status = "sealed"
  PROVE  page = Sealed(CopyOf(page).block)
BY DEF OwnerPages, CopyOf, Destroyed, Sealed

\* A page found sealed is one of its owner's.
LEMMA ExactSeals ==
  ASSUME NEW slot \in Slots, copies[slot].status = "sealed", Exact(slot),
         copies[slot].block \in Blocks
  PROVE  /\ SealedIn(pages, slot) /\ pages[slot].block = copies[slot].block
         /\ pages[slot] \in SealedOf(copies[slot].block.owner)
BY SealedIsNotBad DEF Exact, SealedIn, Sealed, SealedOf

\* A page is rewritten while the other one is its owner's: page 0 all along, or
\* page 1 once page 0 is erased.
LEMMA OneVouched ==
  ASSUME NEW b \in Blocks, CheckParses(b), NEW slot \in Slots,
         plan' = Rewrite(slot, Sealed(b)), pages'[Other(slot)] \in SealedOf(b.owner)
  PROVE  VouchInv'
<1> DEFINE ops == plan'
<1>1. /\ Len(ops) = 2
      /\ ops[1].page = slot /\ ops[1].data = Bad
      /\ ops[2].page = slot /\ ops[2].data = Sealed(b)
  BY RewriteOps
<1> HIDE DEF ops
<1>2. ForceEnds(pages', ops, 1, b.owner)
  <2>1. CASE slot = "slot1"
    <3>1. Ends(pages', ops, 1, "slot0", SealedOf(b.owner))
      BY <1>1, <2>1 DEF Ends, Other
    <3> QED
      BY <3>1 DEF ForceEnds
  <2>2. CASE slot = "slot0"
    <3>1. Ends(pages', ops, 1, "slot0", {Bad})
      BY <1>1, <2>2 DEF Ends
    <3>2. Ends(pages', ops, 1, "slot1", SealedOf(b.owner))
      BY <1>1, <2>2 DEF Ends, Other
    <3> QED
      BY <3>1, <3>2 DEF ForceEnds
  <2> QED
    BY <2>1, <2>2 DEF Slots
<1>3. ASSUME NEW i \in 1..Len(ops), ops[i].data # Bad
      PROVE  i - 1 = 1 /\ ops[i].data = Sealed(b)
  <2>1. i = 1 \/ i = 2
    BY <1>1
  <2> QED
    BY <1>1, <1>3, <2>1
<1>4. ASSUME NEW i \in 1..Len(ops), ops[i].page \in Slots, ops[i].data # Bad
      PROVE  ops[i].data = Sealed(b) /\ CheckParses(b) /\ Vouched(pages, plan, i, b)'
  <2>1. ForceEnds(pages', ops, i - 1, b.owner)
    BY <1>2, <1>3, <1>4
  <2> QED
    BY <1>3, <1>4, <2>1 DEF Vouched, ops
<1> QED
  BY <1>4 DEF VouchInv, ops

\* Nothing is vouched for where nothing is planned.
LEMMA NoPlan ==
  ASSUME plan' = << >>
  PROVE  VouchInv'
<1>1. Len(plan') = 0
  BY EmptySeq
<1> QED
  BY <1>1 DEF VouchInv

\* Nothing new is sealed.
LEMMA ParsesKeep ==
  ASSUME SealedParses,
         \A s \in Slots : SealedIn(pages', s) => pages'[s] = pages[s]
  PROVE  SealedParses'
BY DEF SealedParses, SealedIn

\* PageInv says little of a chip that is not within a boot.
LEMMA OutsideKeeps ==
  ASSUME plan' = << >>, pc' \in {"boot", "launch", "running"}, SealedParses'
  PROVE  PageInv'
BY NoPlan DEF PageInv, FieldInv, ExactInv, UpdateInv, ActivateInv

LEMMA StartPages ==
  ASSUME IInv, PageInv, Start
  PROVE  PageInv'
<1>1. /\ pc = "boot" /\ pc' = "init" /\ ram' = record /\ record' = record
      /\ pages' = pages /\ plan' = plan
      /\ \A s \in Slots : copies'[s] = Destroyed \/ copies'[s] = CopyOf(pages[s])
  BY DEF Start, Log!Read
<1>2. plan' = << >>
  BY <1>1 DEF IInv, PlanInv
<1>3. \A s \in Slots : Exact(s)'
  BY <1>1, CopyExact DEF IInv, TypeOK, Exact, Destroyed
<1>4. SealedParses'
  BY <1>1, ParsesKeep DEF PageInv
<1> QED
  BY <1>1, <1>2, <1>3, <1>4, NoPlan DEF PageInv, FieldInv, ExactInv, UpdateInv, ActivateInv

\* The function that reads and repairs pages returns: nothing changes.
LEMMA ServePages ==
  ASSUME IInv, PageInv, pc \in {"init", "mirror", "recover"}, pc' = "serve",
         UNCHANGED << record, pages, ram, copies, plan >>,
         ram.state = "UnlockedSelf" => IsSealed(Copy0)
  PROVE  PageInv'
<1>1. plan' = << >>
  BY DEF IInv, PlanInv
<1>2. FieldInv' /\ ExactInv'
  BY DEF PageInv, FieldInv, ExactInv, Exact
<1>3. UpdateInv' /\ ActivateInv'
  BY DEF UpdateInv, ActivateInv, IsSealed, Copy0
<1>4. SealedParses'
  BY ParsesKeep DEF PageInv
<1> QED
  BY <1>1, <1>2, <1>3, <1>4, NoPlan DEF PageInv

LEMMA EnterRecoveryPages ==
  ASSUME IInv, PageInv, pc \in {"init", "mirror"}, EnterRecovery, UNCHANGED pages
  PROVE  PageInv'
<1>1. /\ pc' = "recover" /\ record' = record /\ copies' = copies /\ plan' = plan
      /\ ram' = [ram EXCEPT !.state = "Recovery", !.nonce = nonces + 1]
  BY DEF EnterRecovery, BeginSave, Log!Begin
<1>2. plan' = << >>
  BY <1>1 DEF IInv, PlanInv
<1>3. ram'.nextOwner = ram.nextOwner /\ ram'.transfers = ram.transfers
  BY <1>1 DEF IInv, TypeOK, BootData
<1>4. FieldInv'
  BY <1>1, <1>3 DEF PageInv, FieldInv
<1>5. ExactInv'
  BY <1>1 DEF PageInv, ExactInv, Exact
<1>6. UpdateInv' /\ ActivateInv'
  BY <1>1 DEF UpdateInv, ActivateInv
<1>7. SealedParses'
  BY ParsesKeep DEF PageInv
<1> QED
  BY <1>2, <1>4, <1>5, <1>6, <1>7, NoPlan DEF PageInv

\* The new configuration goes to page 1: page 0 is sealed, and its owner is
\* the same.
LEMMA BeginUpdatePages ==
  ASSUME IInv, PageInv, BeginUpdate
  PROVE  PageInv'
<1> DEFINE b == Copy1.block
           ops == Rewrite("slot1", Sealed(b))
<1>1. /\ pc = "init" /\ pc' = "update" /\ plan' = ops
      /\ record' = record /\ pages' = pages /\ copies' = copies /\ ram' = WithMinSec(b)
  BY DEF BeginUpdate, logVars
<1>2. copies["slot0"].status = "sealed" /\ OwnerKeyEqual(Copy0, Copy1) /\ CheckParses(b)
  BY DEF BeginUpdate, UpdateWanted, NewVersionMode, IsSealed, Copy0
<1>3. Copy0.block \in Blocks /\ b \in Blocks /\ Copy0.block.owner = b.owner
  BY <1>2 DEF IInv, TypeOK, Copies, OwnerKeyEqual, Copy0, Copy1, Slots
<1>4. "slot0" \in Slots /\ "slot1" \in Slots /\ Other("slot1") = "slot0"
  BY DEF Slots, Other
<1>5. pages["slot0"] \in SealedOf(b.owner)
  BY <1>1, <1>2, <1>3, <1>4, ExactSeals DEF PageInv, ExactInv, Copy0
<1>6. ops = Rewrite("slot1", Sealed(b))
  OBVIOUS
<1>7. FieldInv'
  BY <1>1, <1>3 DEF PageInv, FieldInv, WithMinSec, IInv, TypeOK, BootData
<1>8. ram'.state = "LockedOwner"
  BY <1>1 DEF BeginUpdate, UpdateWanted, WithMinSec, IInv, TypeOK, BootData
<1> HIDE DEF ops
<1>9. ExactInv'
  BY <1>1 DEF PageInv, ExactInv, Exact
<1>10. /\ Len(ops) = 2
      /\ \A i \in 1..Len(ops) : ops[i].page = "slot1" /\ ops[i].data \in {Bad, Sealed(b)}
      /\ Ends(pages, ops, 2, "slot1", {Sealed(b)})
  <2> HIDE DEF b
  <2>1. Len(ops) = 2
        /\ \A i \in 1..Len(ops) : ops[i].page = "slot1" /\ ops[i].data \in {Bad, Sealed(b)}
    BY <1>3, <1>4, <1>6, RewriteOps
  <2>2. Ends(pages, ops, 2, "slot1", {Sealed(b)})
    BY <1>3, <1>4, <1>5, <1>6, RewriteEnds, SMT
  <2> QED
    BY <2>1, <2>2
<1>11. VouchInv'
  <2> HIDE DEF b
  <2> QED
    BY <1>1, <1>2, <1>3, <1>4, <1>5, <1>6, OneVouched
<1>12. UpdateInv'
  <2>1. Ends(pages, ops, Len(ops), "slot1", {Sealed(b)})
    BY <1>10
  <2>2. EndsWith("slot1", Copy1.block)'
    BY <1>1, <2>1 DEF EndsWith, Copy1
  <2>3. Writes("slot1", Copy1.block)'
    BY <1>1, <1>10 DEF Writes, Copy1
  <2>4. (OwnerKeyEqual(Copy0, Copy1) /\ Copy1.block.version > Copy0.block.version)'
    BY <1>1 DEF BeginUpdate, UpdateWanted, Copy0, Copy1
  <2> QED
    BY <1>1, <1>8, <2>2, <2>3, <2>4 DEF UpdateInv
<1>13. ActivateInv'
  BY <1>1 DEF ActivateInv
<1>14. SealedParses'
  BY <1>1, ParsesKeep DEF PageInv
<1> QED
  BY <1>7, <1>9, <1>11, <1>12, <1>13, <1>14 DEF PageInv

LEMMA UpdateDonePages ==
  ASSUME IInv, PageInv, UpdateDone
  PROVE  PageInv'
<1>1. /\ pc = "update" /\ pc' = "mirror" /\ plan = << >> /\ plan' = plan
      /\ record' = record /\ pages' = pages /\ ram' = ram
      /\ copies' = [copies EXCEPT !["slot0"].status = "invalid", !["slot1"].status = "sealed"]
  BY DEF UpdateDone, logVars
<1>2. copies'["slot0"].status = "invalid" /\ copies'["slot1"].block = copies["slot1"].block
  BY <1>1 DEF IInv, TypeOK, Copies, Slots
<1>3. "slot1" \in Slots /\ EndsWith("slot1", Copy1.block)
  BY <1>1 DEF PageInv, UpdateInv, Slots
<1>4. pages["slot1"] = Sealed(copies["slot1"].block)
  BY <1>1, <1>3, EndsNow DEF Copy1
<1>5. ExactInv'
  BY <1>1, <1>2, <1>4 DEF ExactInv, Exact, Slots
<1>6. FieldInv' /\ UpdateInv' /\ ActivateInv'
  BY <1>1 DEF PageInv, FieldInv, UpdateInv, ActivateInv
<1>7. SealedParses'
  BY <1>1, ParsesKeep DEF PageInv
<1> QED
  BY <1>1, <1>5, <1>6, <1>7, NoPlan DEF PageInv

\* The good page is copied to the other one: its owner has it.
LEMMA MirrorPages ==
  ASSUME IInv, PageInv, Mirror
  PROVE  PageInv'
<1>1. pc \in {"init", "mirror"} /\ ram.state = "LockedOwner" /\ pages' = pages
  BY DEF Mirror
<1>2. ASSUME Apply(Copy0.block), UNCHANGED << logVars, ram, copies, plan, nonces >>
      PROVE  PageInv'
  BY <1>1, <1>2, ServePages DEF Apply, logVars
<1>3. CASE EnterRecovery
  BY <1>1, <1>3, EnterRecoveryPages
<1>4. ASSUME NEW s \in CopySources,
             copies' = [copies EXCEPT ![Other(s)].block = copies[s].block],
             plan' = Rewrite(Other(s), Sealed(copies[s].block)),
             pc' = "copy",
             UNCHANGED << logVars, ram, config, nonces >>
      PROVE  PageInv'
  <2> DEFINE b == copies[s].block
             t == Other(s)
             ops == Rewrite(Other(s), Sealed(copies[s].block))
  <2>1. s \in Slots /\ t \in Slots /\ Other(t) = s /\ s # t /\ Slots = {s, t}
    BY DEF CopySources, Slots, Other
  <2>2. copies[s].status = "sealed" /\ copies[t].status # "sealed"
    BY <2>1 DEF CopySources, IsSealed
  <2>3. b \in Blocks
    BY <2>1, <2>2 DEF IInv, CopyInv
  <2>4. Exact(s) /\ SealedIn(pages, s) /\ pages[s] \in SealedOf(b.owner) /\ pages[s] = Sealed(b)
        /\ pages[s].block = b
    <3>1. Exact(s)
      BY <1>1, <2>1 DEF PageInv, ExactInv
    <3> QED
      BY <2>1, <2>2, <2>3, <3>1, ExactSeals DEF Exact
  <2>5. CheckParses(b)
    BY <2>1, <2>4 DEF PageInv, SealedParses
  <2>6. ops = Rewrite(t, Sealed(b)) /\ plan' = ops /\ pages' = pages
    BY <1>1, <1>4
  <2>7. \A i \in Slots : copies'[i].status = copies[i].status /\ copies'[i].block = b
    BY <1>4, <2>1 DEF IInv, TypeOK, Copies
  <2> HIDE DEF ops, b, t
  <2>8. /\ Len(ops) = 2
        /\ \A i \in 1..Len(ops) : ops[i].page = t /\ ops[i].data \in {Bad, Sealed(b)}
        /\ Ends(pages, ops, 2, t, {Sealed(b)})
    <3>1. Len(ops) = 2 /\ \A i \in 1..Len(ops) : ops[i].page = t /\ ops[i].data \in {Bad, Sealed(b)}
      BY <2>1, <2>3, <2>6, RewriteOps
    <3>2. Ends(pages, ops, 2, t, {Sealed(b)})
      BY <2>1, <2>3, <2>4, <2>6, RewriteEnds, SMT
    <3> QED
      BY <3>1, <3>2
  <2>9. \A n \in 0..2 : Ends(pages, ops, n, s, {Sealed(b)})
    <3> DEFINE c == {Sealed(b)}
    <3>1. pages[s] \in c
      BY <2>4
    <3> HIDE DEF c
    <3>2. /\ Ends(pages, ops, 2, t, {Sealed(b)})
          /\ \A n \in 0..2 : Ends(pages, ops, n, s, c)
      BY <2>1, <2>3, <2>6, <3>1, RewriteEnds, SMT
    <3> QED
      BY <3>2 DEF c
  <2>10. FieldInv' /\ ActivateInv'
    BY <1>1, <1>4 DEF PageInv, FieldInv, ActivateInv, logVars
  <2>11. ExactInv'
    BY <1>1, <2>1, <2>2, <2>4, <2>7 DEF ExactInv, Exact
  <2>12. VouchInv'
    BY <2>1, <2>3, <2>4, <2>5, <2>6, OneVouched
  <2>13. UpdateInv'
    <3>1. \A i \in Slots : Ends(pages, ops, Len(ops), i, {Sealed(b)})
      BY <2>1, <2>8, <2>9
    <3>2. Copy0'.block = b /\ Copy1'.block = b
      BY <2>7 DEF Copy0, Copy1, Slots
    <3>3. \A i \in Slots : EndsWith(i, Copy0.block)'
      BY <2>6, <3>1, <3>2 DEF EndsWith
    <3>4. pages'[Other(t)] = Sealed(Copy0'.block) /\ Writes(t, Copy0.block)'
      BY <2>1, <2>4, <2>6, <2>8, <3>2 DEF Writes
    <3> QED
      BY <1>1, <1>4, <2>1, <3>2, <3>3, <3>4 DEF UpdateInv
  <2>14. SealedParses'
    BY <1>1, ParsesKeep DEF PageInv
  <2> QED
    BY <2>10, <2>11, <2>12, <2>13, <2>14 DEF PageInv
<1> QED
  BY <1>1, <1>2, <1>3, <1>4 DEF Mirror

\* Both pages are sealed: they are what was read or what was repaired.
LEMMA CopyDonePages ==
  ASSUME IInv, PageInv, CopyDone
  PROVE  PageInv'
<1>1. /\ pc = "copy" /\ pc' = "serve" /\ plan = << >> /\ plan' = plan
      /\ record' = record /\ pages' = pages /\ ram' = ram
      /\ copies' = [s \in Slots |-> [copies[s] EXCEPT !.status = "sealed"]]
  BY DEF CopyDone, Apply, logVars
<1>2. \A s \in Slots : copies'[s].status = "sealed" /\ copies'[s].block = copies[s].block
  BY <1>1 DEF IInv, TypeOK, Copies
<1>3. /\ copies["slot0"].block = copies["slot1"].block
      /\ \A s \in Slots : EndsWith(s, copies["slot0"].block)
  BY <1>1 DEF PageInv, UpdateInv, Copy0, Copy1
<1>4. \A s \in Slots : pages[s] = Sealed(copies[s].block)
  <2>1. \A s \in Slots : pages[s] = Sealed(copies["slot0"].block)
    BY <1>1, <1>3, EndsNow
  <2> QED
    BY <1>3, <2>1 DEF Slots
<1>5. ExactInv'
  BY <1>1, <1>2, <1>4 DEF ExactInv, Exact
<1>6. FieldInv' /\ UpdateInv' /\ ActivateInv'
  <2>1. IsSealed(Copy0)'
    BY <1>2 DEF IsSealed, Copy0, Slots
  <2> QED
    BY <1>1, <2>1 DEF PageInv, FieldInv, UpdateInv, ActivateInv
<1>7. SealedParses'
  BY <1>1, ParsesKeep DEF PageInv
<1> QED
  BY <1>1, <1>5, <1>6, <1>7, NoPlan DEF PageInv

LEMMA UnlockedInitPages ==
  ASSUME IInv, PageInv, UnlockedInit
  PROVE  PageInv'
<1>1. pc = "init" /\ pages' = pages
  BY DEF UnlockedInit
<1>2. CASE EnterRecovery
  BY <1>1, <1>2, EnterRecoveryPages
<1>3. ASSUME ~ EnterRecovery
      PROVE  /\ UNCHANGED << logVars, ram, copies, plan >>
             /\ pc' = "serve"
             /\ ram.state = "UnlockedSelf" => IsSealed(Copy0)
  BY <1>3 DEF UnlockedInit, Apply
<1> QED
  BY <1>1, <1>2, <1>3, ServePages DEF logVars

LEMMA RecoveryInitPages ==
  ASSUME IInv, PageInv, RecoveryInit
  PROVE  PageInv'
BY ServePages DEF RecoveryInit, logVars

\* A request that is refused, and one that changes only the record.
LEMMA ServedPages ==
  ASSUME IInv, PageInv, pc = "serve", pc' \in {"save", "launch"}, UNCHANGED << pages, plan >>,
         pc' = "save" => msg'.request.op # "activate"
  PROVE  PageInv'
<1>1. plan' = << >>
  BY DEF IInv, PlanInv
<1>2. FieldInv' /\ ExactInv' /\ UpdateInv' /\ ActivateInv'
  BY DEF FieldInv, ExactInv, UpdateInv, ActivateInv
<1>3. SealedParses'
  BY ParsesKeep DEF PageInv
<1> QED
  BY <1>1, <1>2, <1>3, NoPlan DEF PageInv

LEMMA SkipServicePages ==
  ASSUME IInv, PageInv, SkipService
  PROVE  PageInv'
BY ServedPages DEF SkipService

LEMMA ServeUnlockPages ==
  ASSUME IInv, PageInv, ServeUnlock
  PROVE  PageInv'
<1>1. /\ pc = "serve" /\ msg.request.op # "activate" /\ pages' = pages /\ plan' = plan
      /\ pc' \in {"save", "launch"} /\ msg' \in {Respond("ok"), Respond("refused")}
  BY DEF ServeUnlock, BeginSave
<1>2. msg'.request.op # "activate"
  BY <1>1 DEF Respond
<1> QED
  BY <1>1, <1>2, ServedPages

\* An activation seals a block of an owner who is let in, or of the owner of a
\* page that is still sealed, or sealed by then; page 1 is not sealed before.
LEMMA ActivationVouched ==
  ASSUME IInv, PageInv, pc = "serve", msg.type = "request", ActivateAccepted(msg.request)
  PROVE  /\ Copy1.block \in Blocks /\ CheckParses(Copy1.block)
         /\ \A s \in Slots :
              Ends(pages, ActivationPlan, Len(ActivationPlan), s, {Sealed(Copy1.block)})
         /\ \A i \in 1..Len(ActivationPlan) :
              ActivationPlan[i].page \in Slots /\ ActivationPlan[i].data # Bad =>
                /\ ActivationPlan[i].data = Sealed(Copy1.block)
                /\ Vouched(pages, ActivationPlan, i, Copy1.block)
         /\ ram.state # "UnlockedSelf" =>
              \E i \in 1..Len(ActivationPlan) :
                /\ ActivationPlan[i].page = "secret" /\ ActivationPlan[i].data # Bad
                /\ \E j \in 1..(i - 1) :
                     ActivationPlan[j].page = "secret" /\ ActivationPlan[j].data = Bad
         /\ \A i, j \in 1..Len(ActivationPlan) :
              i < j /\ ActivationPlan[i].page = "secret" => ActivationPlan[j].page = "secret"
<1> DEFINE b == Copy1.block
           ops == ActivationPlan
<1>1. /\ CheckParses(b) /\ Copy1.status = "signed" /\ ram.state \in UnlockedStates
      /\ \/ ram.state = "UnlockedAny"
         \/ ram.state = "UnlockedSelf" /\ OwnerKeyEqual(Copy0, Copy1)
         \/ ram.state = "UnlockedEndorsed" /\ ram.nextOwner = b.owner
  BY DEF ActivateAccepted, TransferReady, Page1ValidForTransfer, UnlockedStates
<1>2. b \in Blocks /\ ~ SealedIn(pages, "slot1") /\ Copy0.block \in Blocks \cup {NoBlock}
  BY <1>1 DEF IInv, TypeOK, Copies, CopyInv, RepairInv, Faithful, Copy0, Copy1, Slots
<1>3. secret \in Seq(Owners \cup {NoOwner}) \cup {Bad}
  BY DEF IInv, TypeOK
<1>4. /\ Len(ops) \in Nat /\ Len(ops) >= 4
      /\ ops[1].page = "slot1" /\ ops[1].data = Bad
      /\ ops[2].page = "slot1" /\ ops[2].data = Sealed(b)
      /\ ops[3].page = "slot0" /\ ops[3].data = Bad
      /\ ops[4].page = "slot0" /\ ops[4].data = Sealed(b)
      /\ \A i \in 5..Len(ops) : ops[i].page = "secret"
      /\ ram.state # "UnlockedSelf" => Len(ops) = 6 /\ ops[5].data = Bad /\ ops[6].data # Bad
  BY <1>2, <1>3, ActivationOps
<1> HIDE DEF b, ops
<1>5. \A i \in 1..Len(ops) : i \in 5..Len(ops) \/ i = 1 \/ i = 2 \/ i = 3 \/ i = 4
  BY <1>4
<1>6. "secret" \notin Slots /\ "slot0" \in Slots /\ "slot1" \in Slots
  BY DEF Slots
<1>7. Ends(pages, ops, Len(ops), "slot0", {Sealed(b)})
  <2>1. 4 \in 1..Len(ops) /\ \A j \in (4 + 1)..Len(ops) : ops[j].page # "slot0"
    BY <1>4
  <2> QED
    BY <1>4, <2>1 DEF Ends
<1>8. Ends(pages, ops, Len(ops), "slot1", {Sealed(b)})
  <2>1. 2 \in 1..Len(ops) /\ \A j \in (2 + 1)..Len(ops) : ops[j].page # "slot1"
    BY <1>4
  <2> QED
    BY <1>4, <2>1 DEF Ends
<1>9. \A s \in Slots : Ends(pages, ops, Len(ops), s, {Sealed(b)})
  BY <1>7, <1>8 DEF Slots
<1>10. LetsIn(b.owner) \/ pages["slot0"] \in SealedOf(b.owner)
  <2>1. CASE ram.state = "UnlockedSelf"
    <3>1. OwnerKeyEqual(Copy0, Copy1) /\ IsSealed(Copy0)
      BY <1>1, <2>1 DEF PageInv, UpdateInv
    <3>2. copies["slot0"].status = "sealed" /\ copies["slot0"].block.owner = b.owner
          /\ copies["slot0"].block \in Blocks
      BY <1>2, <3>1 DEF OwnerKeyEqual, IsSealed, Copy0, b
    <3>3. Exact("slot0")
      BY <1>6 DEF PageInv, ExactInv
    <3> QED
      BY <1>6, <3>2, <3>3, ExactSeals
  <2>2. CASE ram.state # "UnlockedSelf"
    <3>1. Agrees
      <4>1. Agrees \/ Fresh
        BY DEF IInv, RamInv
      <4>2. msg.request.nonce \in Nat /\ msg.request.nonce = ram.nonce
        BY ResponseTyped DEF IInv, TypeOK, Requests, ActivateAccepted
      <4>3. ~ Fresh
        BY <4>2 DEF Fresh
      <4> QED
        BY <4>1, <4>3
    <3> QED
      BY <1>1, <2>2, <3>1 DEF Agrees, LetsIn, PageInv, FieldInv
  <2> QED
    BY <2>1, <2>2
<1>11. ASSUME NEW i \in 1..Len(ops), ops[i].page \in Slots, ops[i].data # Bad
       PROVE  ops[i].data = Sealed(b) /\ Vouched(pages, ops, i, b)
  <2>1. i = 2 \/ i = 4
    BY <1>4, <1>5, <1>6, <1>11
  <2>2. ops[i].data = Sealed(b)
    BY <1>4, <2>1
  <2>3. CASE LetsIn(b.owner)
    BY <2>2, <2>3 DEF Vouched
  <2>4. CASE pages["slot0"] \in SealedOf(b.owner) /\ i = 2
    <3>1. Ends(pages, ops, 1, "slot0", SealedOf(b.owner))
      BY <1>4, <2>4 DEF Ends
    <3>2. ForceEnds(pages, ops, i - 1, b.owner)
      BY <2>4, <3>1 DEF ForceEnds
    <3> QED
      BY <2>2, <3>2 DEF Vouched
  <2>5. CASE i = 4
    <3>1. Sealed(b) \in SealedOf(b.owner)
      BY <1>2 DEF SealedOf, b
    <3>2. Ends(pages, ops, 3, "slot1", SealedOf(b.owner))
      BY <1>4, <3>1 DEF Ends
    <3>3. Ends(pages, ops, 3, "slot0", {Bad})
      BY <1>4 DEF Ends
    <3>4. ForceEnds(pages, ops, i - 1, b.owner)
      BY <2>5, <3>2, <3>3 DEF ForceEnds
    <3> QED
      BY <2>2, <3>4 DEF Vouched
  <2> QED
    BY <1>10, <2>1, <2>3, <2>4, <2>5
<1>12. ASSUME ram.state # "UnlockedSelf"
       PROVE  \E i \in 1..Len(ops) :
                /\ ops[i].page = "secret" /\ ops[i].data # Bad
                /\ \E j \in 1..(i - 1) : ops[j].page = "secret" /\ ops[j].data = Bad
  <2>1. Len(ops) = 6 /\ ops[5].data = Bad /\ ops[6].data # Bad
    BY <1>4, <1>12, Zenon
  <2>2. 6 \in 1..Len(ops) /\ 6 \in 5..Len(ops) /\ 5 \in 5..Len(ops) /\ 5 \in 1..(6 - 1)
    BY <2>1
  <2>3. ops[5].page = "secret" /\ ops[6].page = "secret"
    BY <1>4, <2>2, Zenon
  <2> QED
    BY <2>1, <2>2, <2>3
<1>13. \A i, j \in 1..Len(ops) : i < j /\ ops[i].page = "secret" => ops[j].page = "secret"
  <2> SUFFICES ASSUME NEW i \in 1..Len(ops), NEW j \in 1..Len(ops), i < j, ops[i].page = "secret"
               PROVE  ops[j].page = "secret"
    OBVIOUS
  <2>1. i \in 5..Len(ops)
    BY <1>4, <1>5
  <2>2. j \in 5..Len(ops)
    BY <1>4, <2>1
  <2> QED
    BY <1>4, <2>2
<1> QED
  BY <1>1, <1>2, <1>9, <1>11, <1>12, <1>13 DEF ops, b

LEMMA ServeActivatePages ==
  ASSUME IInv, PageInv, ServeActivate
  PROVE  PageInv'
<1>1. pc = "serve" /\ msg.type = "request"
      /\ UNCHANGED << logVars, pages, secret, copies, config, nonces, faults, history >>
  BY DEF ServeActivate
<1>2. CASE pc' = "launch" /\ plan' = plan
  BY <1>1, <1>2, ServedPages
<1>3. ASSUME ActivateAccepted(msg.request), ram' = WithMinSec(Copy1.block),
             plan' = ActivationPlan, pc' = "activate"
      PROVE  PageInv'
  <2> DEFINE ops == ActivationPlan
  <2>1. PICK b \in Blocks : b = Copy1.block
    BY <1>1, <1>3, ActivationVouched
  <2>2. /\ CheckParses(b)
        /\ \A s \in Slots : Ends(pages, ops, Len(ops), s, {Sealed(b)})
        /\ \A i \in 1..Len(ops) : ops[i].page \in Slots /\ ops[i].data # Bad =>
             ops[i].data = Sealed(b) /\ Vouched(pages, ops, i, b)
        /\ ram.state # "UnlockedSelf" =>
             \E i \in 1..Len(ops) :
               /\ ops[i].page = "secret" /\ ops[i].data # Bad
               /\ \E j \in 1..(i - 1) : ops[j].page = "secret" /\ ops[j].data = Bad
        /\ \A i, j \in 1..Len(ops) : i < j /\ ops[i].page = "secret" => ops[j].page = "secret"
    BY <1>1, <1>3, <2>1, ActivationVouched
  <2>3. /\ ram'.state = ram.state /\ ram'.nextOwner = ram.nextOwner
        /\ ram'.transfers = ram.transfers
    BY <1>3 DEF WithMinSec, IInv, TypeOK, BootData
  <2> HIDE DEF ops
  <2>4. plan' = ops /\ pages' = pages /\ copies' = copies /\ record' = record /\ holders' = holders
    BY <1>1, <1>3 DEF ops, logVars
  <2>5. FieldInv' /\ ExactInv'
    BY <1>1, <1>3, <2>3, <2>4 DEF PageInv, FieldInv, ExactInv
  <2>6. VouchInv'
    <3> SUFFICES ASSUME NEW i \in 1..Len(ops), ops[i].page \in Slots, ops[i].data # Bad
                 PROVE  ops[i].data = Sealed(b) /\ CheckParses(b) /\ Vouched(pages, plan, i, b)'
      BY <2>4 DEF VouchInv
    <3>1. ops[i].data = Sealed(b) /\ Vouched(pages, ops, i, b)
      BY <2>2
    <3>2. LetsIn(b.owner)' \/ ForceEnds(pages', plan', i - 1, b.owner)
      BY <2>4, <3>1 DEF Vouched, LetsIn
    <3> QED
      BY <2>2, <3>1, <3>2 DEF Vouched
  <2>7. UpdateInv'
    BY <1>3 DEF UpdateInv
  <2>8. ActivateInv'
    <3>1. ram.state \in UnlockedStates
      BY <1>3 DEF ActivateAccepted
    <3>2. \A s \in Slots : EndsWith(s, Copy1.block)'
      BY <2>1, <2>2, <2>4 DEF EndsWith, Copy1
    <3>3. Copy1' = Copy1
      BY <2>4 DEF Copy1
    <3>4. ram.state # "UnlockedSelf" => SecretAhead'
      BY <2>2, <2>4 DEF SecretAhead
    <3> QED
      BY <1>3, <2>1, <2>2, <2>3, <2>4, <3>1, <3>2, <3>3, <3>4 DEF ActivateInv
  <2>9. SealedParses'
    BY <2>4, ParsesKeep DEF PageInv
  <2> QED
    BY <2>5, <2>6, <2>7, <2>8, <2>9 DEF PageInv
<1> QED
  BY <1>1, <1>2, <1>3 DEF ServeActivate

\* An activation that cannot make a secret is given up.
LEMMA SecretUnreadablePages ==
  ASSUME IInv, PageInv, SecretUnreadable
  PROVE  PageInv'
<1>1. SealedParses'
  BY ParsesKeep DEF SecretUnreadable, PageInv
<1> QED
  BY <1>1, OutsideKeeps DEF SecretUnreadable

\* With the last operation of an activation done, its record is written.
LEMMA ActivateDonePages ==
  ASSUME IInv, PageInv, ActivateDone
  PROVE  PageInv'
<1> DEFINE moved == IF ram.state = "UnlockedSelf" THEN 0 ELSE 1
<1>1. /\ pc = "activate" /\ pc' = "save" /\ plan = << >> /\ plan' = plan
      /\ record' = record /\ pages' = pages /\ holders' = holders
      /\ pending' = [WithSlot(msg.request) EXCEPT
                       !.state = "LockedOwner", !.nextOwner = NoOwner,
                       !.transfers = @ + moved, !.nonce = nonces + 1]
  BY DEF ActivateDone, BeginSave, Log!Begin
<1>2. Len(plan) = 0
  BY <1>1, EmptySeq
<1>3. ~ SecretAhead
  BY <1>2 DEF SecretAhead
<1>4. /\ \A s \in Slots : EndsWith(s, Copy1.block)
      /\ ram.state # "UnlockedSelf" => holders = {}
      /\ Copy1.block \in Blocks
  BY <1>1, <1>3 DEF PageInv, ActivateInv
<1>5. SealedIn(pages, "slot0") /\ pages["slot0"] = pages["slot1"]
  <2>1. \A s \in Slots : pages[s] = Sealed(Copy1.block)
    BY <1>1, <1>4, EndsNow
  <2> QED
    BY <1>4, <2>1, SealedIsNotBad DEF Slots, SealedIn
<1>6. record.state = ram.state /\ ram.transfers = record.transfers
  BY <1>1 DEF IInv, RamInv, Agrees, PageInv, FieldInv
<1>7. pending'.transfers = ram.transfers + moved
  <2>1. ram \in BootData
    BY DEF IInv, TypeOK
  <2>2. WithSlot(msg.request) \in [state : OwnershipStates, nextOwner : Owners \cup {NoOwner},
                minSec : Nat, transfers : {ram.transfers}, nonce : Nat, primary : {"A", "B"}]
    BY <2>1 DEF WithSlot, BootData
  <2> HIDE DEF moved
  <2> QED
    BY <1>1, <2>2
<1>8. ActivateInv'
  BY <1>1, <1>4, <1>5, <1>6, <1>7 DEF ActivateInv
<1>9. FieldInv' /\ ExactInv' /\ UpdateInv'
  BY <1>1 DEF FieldInv, ExactInv, UpdateInv
<1>10. SealedParses'
  BY <1>1, ParsesKeep DEF PageInv
<1>11. VouchInv'
  BY <1>1, NoPlan
<1> QED
  BY <1>8, <1>9, <1>10, <1>11 DEF PageInv

\* The operation that is next seals a block that parses, whose owner is let in
\* or has the page in force.
LEMMA NextVouched ==
  ASSUME VouchInv, plan \in Seq(FlashOps), plan # << >>,
         Head(plan).page \in Slots, Head(plan).data # Bad
  PROVE  \E b \in Blocks :
           /\ Head(plan).data = Sealed(b) /\ CheckParses(b)
           /\ LetsIn(b.owner) \/ (SomeSealed(pages) /\ InForce(pages).owner = b.owner)
<1>1. Len(plan) \in Nat /\ Len(plan) > 0 /\ Head(plan) = plan[1]
  BY EmptySeq, HeadTailProperties
<1>2. PICK b \in Blocks :
        plan[1].data = Sealed(b) /\ CheckParses(b) /\ Vouched(pages, plan, 1, b)
  BY <1>1 DEF VouchInv
<1>3. ASSUME NEW t \in Slots, NEW contents, Ends(pages, plan, 0, t, contents)
      PROVE  pages[t] \in contents
  BY <1>3 DEF Ends
<1>4. ASSUME NEW t \in Slots, pages[t] \in SealedOf(b.owner)
      PROVE  SealedIn(pages, t) /\ pages[t].block.owner = b.owner
  <2>1. PICK c \in Blocks : c.owner = b.owner /\ pages[t] = Sealed(c)
    BY <1>4 DEF SealedOf
  <2> QED
    BY <2>1, SealedIsNotBad DEF SealedIn, Sealed
<1>5. ASSUME ForceEnds(pages, plan, 0, b.owner)
      PROVE  SomeSealed(pages) /\ InForce(pages).owner = b.owner
  <2>1. "slot0" \in Slots /\ "slot1" \in Slots
    BY DEF Slots
  <2>2. \/ pages["slot0"] \in SealedOf(b.owner)
        \/ pages["slot0"] \in {Bad} /\ pages["slot1"] \in SealedOf(b.owner)
    BY <1>3, <1>5, <2>1 DEF ForceEnds
  <2>3. CASE pages["slot0"] \in SealedOf(b.owner)
    BY <1>4, <2>1, <2>3 DEF SomeSealed, InForce
  <2>4. CASE pages["slot0"] = Bad /\ pages["slot1"] \in SealedOf(b.owner)
    <3>1. ~ SealedIn(pages, "slot0") /\ SealedIn(pages, "slot1")
          /\ pages["slot1"].block.owner = b.owner
      BY <1>4, <2>1, <2>4 DEF SealedIn
    <3> QED
      BY <2>1, <3>1 DEF SomeSealed, InForce
  <2> QED
    BY <2>2, <2>3, <2>4
<1>6. LetsIn(b.owner) \/ ForceEnds(pages, plan, 0, b.owner)
  BY <1>2 DEF Vouched
<1> QED
  BY <1>1, <1>2, <1>5, <1>6

\* A step towards the new secret wipes the old one, or does not touch it.
LEMMA SecretStays ==
  ASSUME SecretAhead, Len(plan) \in Nat, Len(plan) > 0, Len(plan') = Len(plan) - 1,
         \A i \in 1..Len(plan') : plan'[i] = plan[i + 1],
         Put(Head(plan).page, Head(plan).data), Head(plan) = plan[1]
  PROVE  holders' = {} \/ SecretAhead'
<1>1. PICK i \in 1..Len(plan) :
        /\ plan[i].page = "secret" /\ plan[i].data # Bad
        /\ secret = Bad \/ \E j \in 1..(i - 1) : plan[j].page = "secret" /\ plan[j].data = Bad
  BY DEF SecretAhead
<1>2. ASSUME NEW k \in 1..Len(plan), k # 1
      PROVE  k - 1 \in 1..Len(plan') /\ plan'[k - 1] = plan[k]
  BY <1>2
<1>3. CASE plan[1].page = "secret"
  <2>1. holders' = {} \/ (plan[1].data = secret /\ secret' = secret)
    BY <1>3 DEF Put
  <2> SUFFICES ASSUME plan[1].data = secret, secret' = secret PROVE SecretAhead'
    BY <2>1
  <2>2. CASE secret = Bad
    <3>1. i # 1
      BY <1>1, <2>2
    <3>2. i - 1 \in 1..Len(plan') /\ plan'[i - 1].page = "secret" /\ plan'[i - 1].data # Bad
      BY <1>1, <1>2, <3>1
    <3> QED
      BY <2>2, <3>2 DEF SecretAhead
  <2>3. CASE secret # Bad
    <3>1. PICK j \in 1..(i - 1) : plan[j].page = "secret" /\ plan[j].data = Bad
      BY <1>1, <2>3
    <3>2. j # 1 /\ i # 1 /\ j \in 1..Len(plan) /\ j - 1 \in 1..((i - 1) - 1)
      BY <2>3, <3>1
    <3>3. /\ i - 1 \in 1..Len(plan') /\ plan'[i - 1].page = "secret" /\ plan'[i - 1].data # Bad
          /\ plan'[j - 1].page = "secret" /\ plan'[j - 1].data = Bad
      BY <1>1, <1>2, <3>1, <3>2
    <3> QED
      BY <3>2, <3>3 DEF SecretAhead
  <2> QED
    BY <2>2, <2>3
<1>4. CASE plan[1].page # "secret"
  <2>1. secret' = secret
    BY <1>4 DEF Put
  <2>2. i # 1 /\ i - 1 \in 1..Len(plan') /\ plan'[i - 1].page = "secret" /\ plan'[i - 1].data # Bad
    BY <1>1, <1>2, <1>4
  <2>3. ASSUME NEW j \in 1..(i - 1), plan[j].page = "secret", plan[j].data = Bad
        PROVE  /\ j - 1 \in 1..((i - 1) - 1)
               /\ plan'[j - 1].page = "secret" /\ plan'[j - 1].data = Bad
    <3>1. j # 1 /\ j \in 1..Len(plan)
      BY <1>4, <2>3
    <3> QED
      BY <1>2, <2>3, <3>1
  <2> QED
    BY <1>1, <2>1, <2>2, <2>3 DEF SecretAhead
<1> QED
  BY <1>3, <1>4

\* An operation is done: what is left ends with the same pages.
LEMMA FlashOpPages ==
  ASSUME IInv, PageInv, FlashOp
  PROVE  PageInv'
<1> DEFINE op == Head(plan)
<1>1. /\ plan # << >> /\ Put(op.page, op.data) /\ plan' = Tail(plan)
      /\ UNCHANGED << logVars, msg, pc, ram, copies, config, nonces, faults, backups >>
  BY DEF FlashOp
<1>2. /\ plan \in Seq(FlashOps) /\ Len(plan) \in Nat /\ Len(plan) > 0 /\ op = plan[1]
      /\ plan' \in Seq(FlashOps) /\ Len(plan') = Len(plan) - 1
      /\ \A i \in 1..Len(plan') : plan'[i] = plan[i + 1]
  BY <1>1, EmptySeq, HeadTailProperties DEF IInv, TypeOK
<1>3. /\ pages \in [Slots -> OwnerPages]
      /\ op.page \in Slots => pages' = [pages EXCEPT ![op.page] = op.data]
      /\ op.page \notin Slots => pages' = pages
  BY <1>1, PutTyped DEF IInv, TypeOK
<1>4. pages' = Done(pages, op)
  BY <1>3 DEF Done
<1>5. pc \in {"update", "copy", "activate"}
  BY <1>1 DEF IInv, PlanInv
<1>6. ASSUME NEW slot \in Slots, NEW block, EndsWith(slot, block)
      PROVE  Ends(pages', plan', Len(plan'), slot, {Sealed(block)})
  <2>1. Len(plan) - 1 \in 0..(Len(plan) - 1) /\ (Len(plan) - 1) + 1 = Len(plan)
    BY <1>2
  <2> DEFINE c == {Sealed(block)}
  <2>2. Ends(pages, plan, (Len(plan) - 1) + 1, slot, c)
    BY <1>6, <2>1 DEF EndsWith
  <2> HIDE DEF c
  <2>3. Ends(pages', plan', Len(plan) - 1, slot, c)
    BY <1>1, <1>2, <1>3, <1>4, <2>1, <2>2, EndsShifted
  <2> QED
    BY <1>2, <2>3 DEF c
<1>7. VouchInv'
  <2> SUFFICES ASSUME NEW i \in 1..Len(plan'), plan'[i].page \in Slots, plan'[i].data # Bad
               PROVE  \E b \in Blocks :
                        plan'[i].data = Sealed(b) /\ CheckParses(b) /\ Vouched(pages, plan, i, b)'
    BY DEF VouchInv
  <2>1. i \in 1..(Len(plan) - 1) /\ i + 1 \in 1..Len(plan) /\ (i + 1) - 1 = (i - 1) + 1
        /\ i - 1 \in 0..(Len(plan) - 1) /\ plan'[i] = plan[i + 1]
    BY <1>2
  <2>2. PICK b \in Blocks :
          plan[i + 1].data = Sealed(b) /\ CheckParses(b) /\ Vouched(pages, plan, i + 1, b)
    BY <2>1 DEF PageInv, VouchInv
  <2>3. LetsIn(b.owner) \/ ForceEnds(pages, plan, (i - 1) + 1, b.owner)
    BY <2>1, <2>2 DEF Vouched
  <2>4. ASSUME NEW t \in Slots, NEW contents, Ends(pages, plan, (i - 1) + 1, t, contents)
        PROVE  Ends(pages', plan', i - 1, t, contents)
    BY <1>1, <1>2, <1>3, <1>4, <2>1, <2>4, EndsShifted
  <2>5. LetsIn(b.owner) => LetsIn(b.owner)'
    BY <1>1 DEF LetsIn, logVars
  <2>6. LetsIn(b.owner)' \/ ForceEnds(pages', plan', i - 1, b.owner)
    BY <2>3, <2>4, <2>5 DEF ForceEnds, Slots
  <2> QED
    BY <2>1, <2>2, <2>6 DEF Vouched
<1>8. ExactInv'
  <2> SUFFICES ASSUME pc \in {"update", "copy"}, NEW s \in Slots, copies[s].status = "sealed"
               PROVE  pages'[s] = Sealed(copies[s].block)
    BY <1>1, <1>5 DEF ExactInv, Exact
  <2>1. op.page # s
    BY <1>2 DEF IInv, RepairInv
  <2>2. pages'[s] = pages[s]
    BY <1>3, <2>1
  <2> QED
    BY <2>2 DEF PageInv, ExactInv, Exact
<1>9. FieldInv'
  BY <1>1 DEF PageInv, FieldInv, logVars
<1>10. UpdateInv'
  <2>1. Copy0' = Copy0 /\ Copy1' = Copy1 /\ pc' = pc /\ ram' = ram
    BY <1>1 DEF Copy0, Copy1
  <2>2. pc = "update" => EndsWith("slot1", Copy1.block)'
    BY <1>6, <2>1 DEF PageInv, UpdateInv, EndsWith, Slots
  <2>3. pc = "copy" => \A s \in Slots : EndsWith(s, Copy0.block)'
    BY <1>6, <2>1 DEF PageInv, UpdateInv, EndsWith
  <2>4. ASSUME NEW s \in Slots, NEW b, Writes(s, b)
        PROVE  /\ \A i \in 1..Len(plan') : plan'[i].page = s /\ plan'[i].data \in {Bad, Sealed(b)}
               /\ op.page = s
    <3>1. \A i \in 1..Len(plan') : i + 1 \in 1..Len(plan)
      BY <1>2
    <3> QED
      BY <1>2, <2>4, <3>1 DEF Writes
  <2>5. pc = "update" => Writes("slot1", Copy1.block)'
    <3> SUFFICES ASSUME pc = "update" PROVE Writes("slot1", Copy1.block)'
      OBVIOUS
    <3>1. Writes("slot1", Copy1.block)
      BY DEF PageInv, UpdateInv
    <3>2. \A i \in 1..Len(plan') :
            plan'[i].page = "slot1" /\ plan'[i].data \in {Bad, Sealed(Copy1.block)}
      BY <2>4, <3>1 DEF Slots
    <3> QED
      BY <2>1, <3>2 DEF Writes
  <2>6. ASSUME pc = "copy"
        PROVE  \E s \in Slots :
                 /\ pages'[Other(s)] = Sealed(Copy0.block)
                 /\ \A i \in 1..Len(plan') :
                      plan'[i].page = s /\ plan'[i].data \in {Bad, Sealed(Copy0.block)}
    <3>1. PICK s \in Slots : pages[Other(s)] = Sealed(Copy0.block) /\ Writes(s, Copy0.block)
      BY <2>6 DEF PageInv, UpdateInv
    <3>2. pages'[Other(s)] = pages[Other(s)]
      BY <1>3, <2>4, <3>1 DEF Slots, Other
    <3> QED
      BY <2>4, <3>1, <3>2
  <2>7. pc = "copy" => \E s \in Slots :
          (pages[Other(s)] = Sealed(Copy0.block) /\ Writes(s, Copy0.block))'
    BY <2>1, <2>6 DEF Writes
  <2> QED
    BY <1>5, <2>1, <2>2, <2>3, <2>5, <2>7 DEF PageInv, UpdateInv, OwnerKeyEqual
<1>11. ActivateInv'
  <2> SUFFICES ASSUME pc = "activate"
               PROVE  /\ ram.state \in UnlockedStates /\ Copy1.block \in Blocks
                      /\ \A s \in Slots : EndsWith(s, Copy1.block)'
                      /\ ram.state = "UnlockedSelf" \/ holders' = {} \/ SecretAhead'
                      /\ \A i, j \in 1..Len(plan') :
                           i < j /\ plan'[i].page = "secret" => plan'[j].page = "secret"
    BY <1>1, <1>5 DEF ActivateInv, Copy1
  <2>1. /\ ram.state \in UnlockedStates /\ Copy1.block \in Blocks
        /\ \A s \in Slots : EndsWith(s, Copy1.block)
        /\ ram.state = "UnlockedSelf" \/ holders = {} \/ SecretAhead
        /\ \A i, j \in 1..Len(plan) :
             i < j /\ plan[i].page = "secret" => plan[j].page = "secret"
    BY DEF PageInv, ActivateInv
  <2>2. \A s \in Slots : EndsWith(s, Copy1.block)'
    BY <1>1, <1>6, <2>1 DEF EndsWith, Copy1
  <2>3. \A i, j \in 1..Len(plan') :
          i < j /\ plan'[i].page = "secret" => plan'[j].page = "secret"
    <3>1. \A i \in 1..Len(plan') : i + 1 \in 1..Len(plan)
      BY <1>2
    <3>2. \A i, j \in 1..Len(plan') : i < j => i + 1 < j + 1
      BY <1>2
    <3> QED
      BY <1>2, <2>1, <3>1, <3>2
  <2>4. holders = {} => holders' = {}
    BY <1>1 DEF Put
  <2>5. SecretAhead => holders' = {} \/ SecretAhead'
    BY <1>1, <1>2, SecretStays
  <2> QED
    BY <2>1, <2>2, <2>3, <2>4, <2>5
<1>12. SealedParses'
  <2> SUFFICES ASSUME NEW s \in Slots, SealedIn(pages', s)
               PROVE  CheckParses(pages'[s].block)
    BY DEF SealedParses, SealedIn
  <2>1. CASE op.page = s
    <3>1. pages'[s] = op.data /\ op.data # Bad
      BY <1>3, <2>1 DEF SealedIn
    <3>2. PICK b \in Blocks : op.data = Sealed(b) /\ CheckParses(b)
      BY <1>1, <1>2, <2>1, <3>1, NextVouched DEF PageInv
    <3> QED
      BY <3>1, <3>2 DEF Sealed
  <2>2. CASE op.page # s
    <3>1. pages'[s] = pages[s]
      BY <1>3, <2>2
    <3> QED
      BY <3>1 DEF PageInv, SealedParses, SealedIn
  <2> QED
    BY <2>1, <2>2
<1> QED
  BY <1>7, <1>8, <1>9, <1>10, <1>11, <1>12 DEF PageInv

\* An operation that is cut short seals nothing.
LEMMA TornSealsNothing ==
  ASSUME IInv, plan # << >>, NEW left \in Torn(Head(plan)), Put(Head(plan).page, left)
  PROVE  \A s \in Slots : SealedIn(pages', s) => pages'[s] = pages[s]
<1> DEFINE op == Head(plan)
<1>1. /\ pages \in [Slots -> OwnerPages]
      /\ op.page \in Slots => pages' = [pages EXCEPT ![op.page] = left]
      /\ op.page \notin Slots => pages' = pages
  BY PutTyped DEF IInv, TypeOK
<1> SUFFICES ASSUME NEW s \in Slots, SealedIn(pages', s), op.page = s
             PROVE  pages'[s] = pages[s]
  BY <1>1
<1>2. pages'[s] = left
  BY <1>1
<1>3. s # "secret" /\ left # Bad /\ left.sealed
  BY <1>2 DEF Slots, SealedIn
<1>4. left = Contents(op.page)
  BY <1>3 DEF Torn
<1> QED
  BY <1>2, <1>3, <1>4 DEF Contents

\* The function that meets an error returns: only the copies of the pages that
\* are sealed still count.
LEMMA FlashErrorPages ==
  ASSUME IInv, PageInv, FlashError
  PROVE  PageInv'
<1> DEFINE op == Head(plan)
<1>1. plan # << >> /\ plan' = << >> /\ UNCHANGED << logVars, copies, config, nonces >>
  BY DEF FlashError
<1>2. PICK left \in Torn(op) : Put(op.page, left)
  BY DEF FlashError
<1>3. \/ pc = "update" /\ pc' = "mirror" /\ ram' = ram
      \/ pc = "copy" /\ pc' = "serve" /\ ram' = ram
      \/ pc = "activate" /\ pc' = "launch"
  BY DEF FlashError
<1>4. SealedParses'
  BY <1>1, <1>2, TornSealsNothing, ParsesKeep DEF PageInv
<1>5. CASE pc = "activate"
  BY <1>1, <1>3, <1>4, <1>5, OutsideKeeps
<1>6. CASE pc \in {"update", "copy"}
  <2>1. plan \in Seq(FlashOps) /\ Len(plan) \in Nat /\ Len(plan) > 0 /\ op = plan[1]
    BY <1>1, EmptySeq, HeadTailProperties DEF IInv, TypeOK
  <2>2. /\ op.page \in Slots => pages' = [pages EXCEPT ![op.page] = left]
        /\ op.page \notin Slots => pages' = pages
        /\ pages \in [Slots -> OwnerPages]
    BY <1>1, <1>2, PutTyped DEF IInv, TypeOK
  <2>3. copies[op.page].status # "sealed"
    BY <1>6, <2>1 DEF IInv, RepairInv
  <2>4. \A s \in Slots : Exact(s)'
    <3> SUFFICES ASSUME NEW s \in Slots, copies[s].status = "sealed"
                 PROVE  pages'[s] = Sealed(copies[s].block)
      BY <1>1 DEF Exact
    <3>1. pages'[s] = pages[s]
      BY <2>2, <2>3
    <3> QED
      BY <1>6, <3>1 DEF PageInv, ExactInv, Exact
  <2>5. ram'.state = ram.state /\ ram.state = record.state
    BY <1>3, <1>6 DEF IInv, RamInv, Agrees
  <2>6. FieldInv' /\ ExactInv'
    BY <1>1, <1>3, <1>6, <2>4 DEF PageInv, FieldInv, ExactInv, logVars
  <2>7. UpdateInv' /\ ActivateInv'
    BY <1>3, <1>6 DEF PageInv, UpdateInv, ActivateInv
  <2> QED
    BY <1>1, <1>4, <2>6, <2>7, NoPlan DEF PageInv
<1> QED
  BY <1>3, <1>5, <1>6

\* After a reset
LEMMA RestartPages ==
  ASSUME PageInv, Restart, \A s \in Slots : SealedIn(pages', s) => pages'[s] = pages[s]
  PROVE  PageInv'
<1>1. SealedParses'
  BY ParsesKeep DEF PageInv
<1> QED
  BY <1>1, OutsideKeeps DEF Restart

LEMMA PowerCutPages ==
  ASSUME IInv, PageInv, PowerCut
  PROVE  PageInv'
<1>1. Restart
  BY DEF PowerCut
<1>2. CASE UNCHANGED << pages, secret, holders >>
  BY <1>1, <1>2, RestartPages
<1>3. ASSUME plan # << >>, NEW left \in Torn(Head(plan)), Put(Head(plan).page, left)
      PROVE  PageInv'
  BY <1>1, <1>3, TornSealsNothing, RestartPages
<1> QED
  BY <1>2, <1>3 DEF PowerCut

\* Once its record is durable an activation is over.
LEMMA SaveCommitPages ==
  ASSUME IInv, PageInv, SaveCommit
  PROVE  PageInv'
<1>1. /\ pending # NoData /\ record' = pending /\ pending' = pending
      /\ UNCHANGED << pages, secret, msg, romVars, faults, history >>
  BY DEF SaveCommit, Log!Commit
<1>2. pc \in {"save", "recover"} /\ plan = << >> /\ plan' = plan
  BY <1>1 DEF IInv, SaveInv, PlanInv, romVars
<1>3. pending = ram /\ ram' = ram /\ pc' = pc /\ copies' = copies
  BY <1>1 DEF IInv, SaveInv, romVars
<1>4. FieldInv' /\ ExactInv' /\ UpdateInv'
  BY <1>1, <1>2, <1>3 DEF PageInv, FieldInv, ExactInv, Exact, UpdateInv
<1>5. ActivateInv'
  BY <1>1, <1>2, <1>3 DEF ActivateInv
<1>6. SealedParses'
  BY <1>1, ParsesKeep DEF PageInv
<1> QED
  BY <1>2, <1>4, <1>5, <1>6, NoPlan DEF PageInv

\* The boot goes on in Recovery, or starts again.
LEMMA AfterSavePages ==
  ASSUME IInv, PageInv, AfterSave, pending # NoData, UNCHANGED << record, pages >>
  PROVE  PageInv'
<1>1. CASE Restart
  BY <1>1, RestartPages
<1>2. CASE pc = "recover" /\ pc' = "serve" /\ UNCHANGED << ram, copies, config, plan, nonces >>
  <2>1. ram.state # "UnlockedSelf"
    BY <1>2 DEF IInv, SaveInv
  <2> QED
    BY <1>2, <2>1, ServePages
<1> QED
  BY <1>1, <1>2 DEF AfterSave

LEMMA SaveDonePages ==
  ASSUME IInv, PageInv, SaveDone
  PROVE  PageInv'
BY AfterSavePages DEF SaveDone, Log!Succeed

LEMMA SaveFailsPages ==
  ASSUME IInv, PageInv, SaveFails
  PROVE  PageInv'
BY AfterSavePages DEF SaveFails, Log!GiveUp

\* What firmware or rescue leaves in page 1 was sealed before, if it is sealed.
LEMMA WrittenPage ==
  ASSUME IInv, WritePage1
  PROVE  /\ pages'["slot0"] = pages["slot0"]
         /\ SealedIn(pages', "slot1") => pages'["slot1"].block \in backups
         /\ \A s \in Slots : SealedIn(pages', s) =>
              pages'[s] = pages[s] \/ pages'[s].block \in backups
<1>1. PICK page \in [block : Blocks, sealed : {FALSE}] \cup {Bad}
                      \cup {Sealed(b) : b \in backups} :
        pages' = [pages EXCEPT !["slot1"] = page]
  BY DEF WritePage1
<1>2. pages'["slot0"] = pages["slot0"] /\ pages'["slot1"] = page
  BY <1>1 DEF IInv, TypeOK, Slots
<1>3. page # Bad /\ page.sealed => page.block \in backups
  <2>1. \A b \in backups : Sealed(b).block = b
    BY DEF Sealed
  <2> QED
    BY <1>1, <2>1
<1> QED
  BY <1>2, <1>3 DEF SealedIn, Slots

LEMMA LaunchPages ==
  ASSUME IInv, PageInv, Launch
  PROVE  PageInv'
<1>1. pc = "launch" /\ pc' = "running" /\ plan' = plan /\ pages' = pages
  BY DEF Launch
<1>2. plan = << >> /\ SealedParses'
  BY <1>1, ParsesKeep DEF IInv, PlanInv, PageInv
<1> QED
  BY <1>1, <1>2, OutsideKeeps

\* The owner's firmware has no seal, but pages that were sealed before.
LEMMA WritePage1Pages ==
  ASSUME IInv, PageInv, BackupInv, WritePage1
  PROVE  PageInv'
<1>1. pc = "running" /\ UNCHANGED romVars
  BY DEF WritePage1
<1>2. pc' = "running" /\ plan' = plan /\ plan = << >>
  BY <1>1 DEF romVars, IInv, PlanInv
<1>3. \A s \in Slots : SealedIn(pages', s) =>
        pages'[s] = pages[s] \/ pages'[s].block \in backups
  BY WrittenPage
<1>4. SealedParses'
  BY <1>3 DEF SealedParses, SealedIn, PageInv, BackupInv
<1> QED
  BY <1>2, <1>4, OutsideKeeps

LEMMA StageRequestPages ==
  ASSUME IInv, PageInv, StageRequest
  PROVE  PageInv'
<1>1. pc = "running" /\ pc' = pc /\ pages' = pages /\ plan' = plan /\ plan = << >>
  BY DEF StageRequest, romVars, IInv, PlanInv
<1>2. SealedParses'
  BY <1>1, ParsesKeep DEF PageInv
<1> QED
  BY <1>1, <1>2, OutsideKeeps

LEMMA ResetPages ==
  ASSUME IInv, PageInv, Reset
  PROVE  PageInv'
BY RestartPages DEF Reset

-----------------------------------------------------------------------------
LEMMA InitPages == Init => PageInv
<1> SUFFICES ASSUME Init PROVE PageInv
  OBVIOUS
<1>1. plan = << >> /\ Len(plan) = 0 /\ pc = "boot"
  BY EmptySeq DEF Init
<1>2. VouchInv
  BY <1>1 DEF VouchInv
<1>3. SealedParses
  BY OwnershipAssumption DEF Init, SealedParses, Sealed, CheckParses
<1> QED
  BY <1>1, <1>2, <1>3 DEF PageInv, FieldInv, ExactInv, UpdateInv, ActivateInv

LEMMA StepPages == IInv /\ PageInv /\ BackupInv /\ [Next]_vars => PageInv'
<1> SUFFICES ASSUME IInv, PageInv, BackupInv, [Next]_vars PROVE PageInv'
  OBVIOUS
<1>1. CASE Start
  BY <1>1, StartPages
<1>2. CASE BeginUpdate
  BY <1>2, BeginUpdatePages
<1>3. CASE UpdateDone
  BY <1>3, UpdateDonePages
<1>4. CASE Mirror
  BY <1>4, MirrorPages
<1>5. CASE CopyDone
  BY <1>5, CopyDonePages
<1>6. CASE UnlockedInit
  BY <1>6, UnlockedInitPages
<1>7. CASE RecoveryInit
  BY <1>7, RecoveryInitPages
<1>8. CASE SkipService
  BY <1>8, SkipServicePages
<1>9. CASE ServeUnlock
  BY <1>9, ServeUnlockPages
<1>10. CASE ServeActivate
  BY <1>10, ServeActivatePages
<1>11. CASE ActivateDone
  BY <1>11, ActivateDonePages
<1>12. CASE FlashOp
  BY <1>12, FlashOpPages
<1>13. CASE FlashError
  BY <1>13, FlashErrorPages
<1>14. CASE SaveCommit
  BY <1>14, SaveCommitPages
<1>15. CASE SaveDone
  BY <1>15, SaveDonePages
<1>16. CASE SaveFails
  BY <1>16, SaveFailsPages
<1>17. CASE Launch
  BY <1>17, LaunchPages
<1>18. CASE WritePage1
  BY <1>18, WritePage1Pages
<1>19. CASE StageRequest
  BY <1>19, StageRequestPages
<1>20. CASE Reset
  BY <1>20, ResetPages
<1>21. CASE PowerCut
  BY <1>21, PowerCutPages
<1>22. CASE UNCHANGED vars
  <2>1. UNCHANGED << record, pending, pages, secret, msg, pc, ram, copies, plan, holders >>
    BY <1>22 DEF vars, logVars, romVars
  <2>2. VouchInv'
    BY <2>1 DEF PageInv, VouchInv, Vouched, LetsIn
  <2>3. FieldInv' /\ ExactInv' /\ SealedParses'
    BY <2>1 DEF PageInv, FieldInv, ExactInv, Exact, SealedParses, SealedIn
  <2>4. UpdateInv'
    BY <2>1 DEF PageInv, UpdateInv, EndsWith, Writes, Copy0, Copy1
  <2>5. ActivateInv'
    BY <2>1 DEF PageInv, ActivateInv, EndsWith, Copy1, SecretAhead, SealedIn
  <2> QED
    BY <2>2, <2>3, <2>4, <2>5 DEF PageInv
<1>23. CASE SecretUnreadable
  BY <1>23, SecretUnreadablePages
<1> QED
  BY <1>1, <1>2, <1>3, <1>4, <1>5, <1>6, <1>7, <1>8, <1>9, <1>10, <1>11, <1>12, <1>13, <1>14,
     <1>15, <1>16, <1>17, <1>18, <1>19, <1>20, <1>21, <1>22, <1>23 DEF Next, RomExt, Environment

\* The pages of a locked chip are as good with fewer sealed ones.
LEMMA PairStays ==
  ASSUME LockedPair, backups \subseteq backups',
         \A s \in Slots : SealedIn(pages', s) => pages'[s] = pages[s]
  PROVE  LockedPair'
BY DEF LockedPair, Known, SealedIn, Slots

\* Two equal pages are as good as one.
LEMMA EqualPair ==
  ASSUME pages'["slot0"] = pages'["slot1"], pages' \in [Slots -> OwnerPages]
  PROVE  LockedPair'
<1> SUFFICES ASSUME SealedIn(pages', "slot1")
             PROVE  pages'["slot1"].block.version >= pages'["slot0"].block.version
  BY DEF LockedPair, SealedIn, Slots
<1>1. pages'["slot1"].block \in Blocks
  BY DEF OwnerPages, SealedIn, Slots
<1>2. pages'["slot1"].block.version \in Nat
  BY <1>1, OwnerBlockAssumption DEF OwnerBlocks
<1> QED
  BY <1>2

\* Where no page is written and firmware does not start or stop
LEMMA BackupStays ==
  ASSUME BackupInv, UNCHANGED << pages, backups, record >>,
         pc' = "running" => pc = "running",
         pc' \in {"boot", "init", "recover", "serve"} /\ record.state \in UnlockedStates
           /\ msg'.type = "request" =>
           \/ pc = "running"
           \/ pc \in {"boot", "init", "recover", "serve"} /\ msg.type = "request",
         pc' = "save" => pc = "save" /\ pending' = pending
  PROVE  BackupInv'
BY DEF BackupInv, Known, LockedPair, SealedIn

LEMMA StartBackups ==
  ASSUME BackupInv, Start
  PROVE  BackupInv'
BY BackupStays DEF Start, Log!Read

\* ownership_init(), and what is served without a write
LEMMA BootBackups ==
  ASSUME IInv, PageInv, BackupInv,
         BeginUpdate \/ UpdateDone \/ Mirror \/ CopyDone \/ UnlockedInit \/ RecoveryInit
  PROVE  BackupInv'
<1>1. /\ UNCHANGED << pages, backups, record, msg >>
      /\ pc \in {"init", "update", "mirror", "copy"}
      /\ pc' \in {"update", "mirror", "copy", "recover", "serve"}
  BY DEF BeginUpdate, UpdateDone, Mirror, CopyDone, UnlockedInit, RecoveryInit, EnterRecovery,
         BeginSave, Log!Begin, Apply, logVars
<1>2. record.state \in UnlockedStates => pc = "init"
  BY <1>1 DEF IInv, RamInv, Agrees, PageInv, UpdateInv, UnlockedStates
<1> QED
  BY <1>1, <1>2, BackupStays

\* The request that locks the chip again finds a page 1 that is known.
LEMMA ServeUnlockBackups ==
  ASSUME IInv, BackupInv, ServeUnlock
  PROVE  BackupInv'
<1>1. /\ pc = "serve" /\ pc' \in {"save", "launch"} /\ msg.type = "request"
      /\ UNCHANGED << pages, backups, record >>
  BY DEF ServeUnlock, BeginSave, Log!Begin, logVars
<1>2. CASE pc' = "launch"
  BY <1>1, <1>2, BackupStays
<1>3. CASE pc' = "save"
  <2>1. UnlockAccepted(msg.request) /\ pending' = [Unlocked(msg.request) EXCEPT !.nonce = nonces + 1]
    BY <1>3 DEF ServeUnlock, BeginSave
  <2> SUFFICES ASSUME pending'.state = "LockedOwner" PROVE Known("slot1")
    BY <1>1, <1>3 DEF BackupInv, Known, LockedPair, SealedIn
  <2>2. msg.request.op = "abort"
    <3>1. msg.request \in Requests /\ ram \in BootData
      BY <1>1, ResponseTyped DEF IInv, TypeOK
    <3>2. msg.request.op # "activate"
      BY DEF ServeUnlock
    <3>3. CASE msg.request.op \in {"any", "endorsed", "update"}
      <4>1. Unlocked(msg.request).state \in UnlockedStates /\ Unlocked(msg.request) \in BootData
        BY <3>1, <3>3 DEF Unlocked, BootData, UnlockedStates, OwnershipStates, Requests
      <4>2. pending'.state \in UnlockedStates
        BY <2>1, <4>1 DEF BootData
      <4> QED
        BY <4>2 DEF UnlockedStates
    <3> QED
      BY <3>1, <3>2, <3>3 DEF Requests
  <2>3. ram.state \in UnlockedStates /\ msg.request.nonce = ram.nonce
    BY <2>1, <2>2 DEF UnlockAccepted, MayUnlock
  <2>4. record.state = ram.state
    <3>1. msg.request.nonce \in Nat
      BY <1>1, ResponseTyped DEF IInv, TypeOK, Requests
    <3> QED
      BY <1>1, <2>3, <3>1 DEF IInv, RamInv, Agrees, Fresh
  <2> QED
    BY <1>1, <2>3, <2>4 DEF BackupInv
<1> QED
  BY <1>1, <1>2, <1>3

\* An activation leaves two equal pages.
LEMMA ActivateDoneBackups ==
  ASSUME IInv, PageInv, BackupInv, ActivateDone
  PROVE  BackupInv'
<1>1. /\ pc = "activate" /\ pc' = "save" /\ plan = << >>
      /\ UNCHANGED << pages, backups, record >>
  BY DEF ActivateDone, BeginSave, Log!Begin
<1>2. \A s \in Slots : EndsWith(s, Copy1.block)
  BY <1>1 DEF PageInv, ActivateInv
<1>3. pages["slot0"] = pages["slot1"]
  BY <1>1, <1>2, EndsNow DEF Slots
<1>4. LockedPair'
  BY <1>1, <1>3, EqualPair DEF IInv, TypeOK
<1> QED
  BY <1>1, <1>4 DEF BackupInv, Known, SealedIn

\* An update leaves the newer block in page 1, a repair two equal pages.
LEMMA FlashOpBackups ==
  ASSUME IInv, PageInv, BackupInv, FlashOp
  PROVE  BackupInv'
<1> DEFINE op == Head(plan)
<1>1. /\ plan # << >> /\ Put(op.page, op.data)
      /\ UNCHANGED << logVars, pc, ram, copies, backups >>
  BY DEF FlashOp
<1>2. /\ plan \in Seq(FlashOps) /\ 1 \in 1..Len(plan) /\ op = plan[1]
  BY <1>1, EmptySeq, HeadTailProperties DEF IInv, TypeOK
<1>3. /\ pages \in [Slots -> OwnerPages] /\ pages' \in [Slots -> OwnerPages]
      /\ op.page \in Slots => pages' = [pages EXCEPT ![op.page] = op.data]
  BY <1>1, PutTyped DEF IInv, TypeOK
<1>4. pc \in {"update", "copy", "activate"} /\ pc' = pc /\ record' = record
  BY <1>1 DEF IInv, PlanInv, logVars
<1> SUFFICES ASSUME record.state = "LockedOwner" PROVE LockedPair'
  BY <1>1, <1>4 DEF BackupInv
<1>5. pc # "activate"
  BY DEF IInv, RamInv, Agrees, PageInv, ActivateInv, UnlockedStates
<1>6. CASE pc = "update"
  <2>1. /\ Writes("slot1", Copy1.block) /\ OwnerKeyEqual(Copy0, Copy1)
        /\ Copy1.block.version > Copy0.block.version
    BY <1>6 DEF PageInv, UpdateInv
  <2>2. op.page = "slot1" /\ op.data \in {Bad, Sealed(Copy1.block)}
    BY <1>2, <2>1 DEF Writes
  <2>3. pages'["slot1"] = op.data /\ pages'["slot0"] = pages["slot0"]
    BY <1>3, <2>2 DEF Slots
  <2>4. pages["slot0"] = Sealed(Copy0.block)
    BY <1>6 DEF IInv, RepairInv, PageInv, ExactInv, Exact, Copy0, Slots
  <2>5. Copy0.block.version \in Nat /\ Copy1.block.version \in Nat
    <3>1. Copy0.block \in Blocks /\ Copy1.block \in Blocks
      BY <1>6, <2>1 DEF IInv, RepairInv, CopyInv, Copy0, Copy1, Slots
    <3> QED
      BY <3>1, OwnerBlockAssumption DEF OwnerBlocks
  <2>6. CASE op.data = Bad
    BY <2>3, <2>6 DEF LockedPair, SealedIn, Slots
  <2>7. CASE op.data = Sealed(Copy1.block)
    <3>1. pages'["slot1"].block = Copy1.block /\ pages'["slot0"].block = Copy0.block
      BY <2>3, <2>4, <2>7 DEF Sealed
    <3>2. Copy1.block.owner = Copy0.block.owner /\ Copy1.block.version >= Copy0.block.version
      BY <2>1, <2>5 DEF OwnerKeyEqual
    <3> QED
      BY <3>1, <3>2 DEF LockedPair
  <2> QED
    BY <2>2, <2>6, <2>7
<1>7. CASE pc = "copy"
  <2>1. PICK s \in Slots : pages[Other(s)] = Sealed(Copy0.block) /\ Writes(s, Copy0.block)
    BY <1>7 DEF PageInv, UpdateInv
  <2>2. op.page = s /\ op.data \in {Bad, Sealed(Copy0.block)}
    BY <1>2, <2>1 DEF Writes
  <2>3. pages'[s] = op.data /\ pages'[Other(s)] = pages[Other(s)]
    BY <1>3, <2>2 DEF Slots, Other
  <2>4. CASE op.data = Bad
    BY <2>3, <2>4 DEF LockedPair, SealedIn
  <2>5. CASE op.data = Sealed(Copy0.block)
    <3>1. pages'["slot0"] = pages'["slot1"]
      BY <2>1, <2>3, <2>5 DEF Slots, Other
    <3> QED
      BY <1>3, <3>1, EqualPair
  <2> QED
    BY <2>2, <2>4, <2>5
<1> QED
  BY <1>4, <1>5, <1>6, <1>7

\* An operation that is cut short or fails seals nothing.
LEMMA FaultBackups ==
  ASSUME IInv, PageInv, BackupInv, FlashError \/ PowerCut
  PROVE  BackupInv'
<1>1. UNCHANGED << record, backups >>
  BY DEF FlashError, PowerCut, Log!GiveUp, logVars
<1>2. \A s \in Slots : SealedIn(pages', s) => pages'[s] = pages[s]
  <2>1. ASSUME plan # << >>, NEW left \in Torn(Head(plan)), Put(Head(plan).page, left)
        PROVE  \A s \in Slots : SealedIn(pages', s) => pages'[s] = pages[s]
    BY <2>1, TornSealsNothing
  <2> QED
    BY <2>1 DEF FlashError, PowerCut
<1>3. record.state = "LockedOwner" => LockedPair'
  BY <1>1, <1>2, PairStays DEF BackupInv
<1>4. pc' \notin {"running", "save"}
  BY DEF FlashError, PowerCut, Restart
<1>5. pc' \in {"boot", "init", "recover", "serve"} /\ msg'.type = "request" =>
        record.state \notin UnlockedStates
  <2>1. CASE PowerCut
    BY <2>1 DEF PowerCut, NoMessage
  <2>2. CASE FlashError /\ pc' = "serve"
    <3>1. pc = "copy"
      BY <2>2 DEF FlashError
    <3> QED
      BY <3>1 DEF IInv, RamInv, Agrees, PageInv, UpdateInv, UnlockedStates
  <2> QED
    BY <2>1, <2>2 DEF FlashError
<1> QED
  BY <1>1, <1>3, <1>4, <1>5 DEF BackupInv

LEMMA SaveBackups ==
  ASSUME IInv, BackupInv, SaveCommit \/ SaveDone \/ SaveFails
  PROVE  BackupInv'
<1>1. /\ UNCHANGED << pages, backups, msg >> /\ pending # NoData
      /\ pc \in {"save", "recover"}
  BY DEF SaveCommit, SaveDone, SaveFails, Log!Commit, Log!Succeed, IInv, SaveInv
<1>2. CASE SaveCommit
  <2>1. record' = pending /\ pending' = pending /\ pc' = pc
    BY <1>2 DEF SaveCommit, Log!Commit, romVars
  <2>2. pc = "recover" => pending.state = "Recovery"
    BY <1>1 DEF IInv, SaveInv
  <2> QED
    BY <1>1, <2>1, <2>2 DEF BackupInv, Known, LockedPair, SealedIn, UnlockedStates
<1>3. CASE SaveDone \/ SaveFails
  <2>1. record' = record /\ AfterSave
    BY <1>3 DEF SaveDone, SaveFails, Log!Succeed, Log!GiveUp
  <2>2. pc = "save" => msg.type # "request"
    BY <1>1 DEF IInv, SaveInv
  <2>3. \/ pc = "save" /\ pc' = "boot"
        \/ pc = "recover" /\ pc' = "serve"
    BY <2>1 DEF AfterSave, Restart
  <2> QED
    BY <1>1, <2>1, <2>2, <2>3, BackupStays
<1> QED
  BY <1>2, <1>3

\* Both pages become known.
LEMMA LaunchBackups ==
  ASSUME IInv, PageInv, BackupInv, Launch
  PROVE  BackupInv'
<1>1. /\ pc' = "running" /\ UNCHANGED << pages, record >>
      /\ backups' = backups \cup {pages[s].block : s \in {t \in Slots : SealedIn(pages, t)}}
  BY DEF Launch, logVars
<1>2. \A b \in backups' : CheckParses(b)
  BY <1>1 DEF BackupInv, PageInv, SealedParses
<1>3. Known("slot1")'
  BY <1>1 DEF Known, SealedIn, Slots
<1>4. record.state = "LockedOwner" => LockedPair'
  BY <1>1, PairStays DEF BackupInv, SealedIn
<1> QED
  BY <1>1, <1>2, <1>3, <1>4 DEF BackupInv

\* Firmware and rescue know what they put into page 1.
LEMMA WritePage1Backups ==
  ASSUME IInv, BackupInv, WritePage1
  PROVE  BackupInv'
<1>1. pc = "running" /\ pc' = "running" /\ UNCHANGED << record, backups >>
  BY DEF WritePage1, romVars, logVars
<1>2. Known("slot1")'
  BY <1>1, WrittenPage DEF Known
<1> QED
  BY <1>1, <1>2 DEF BackupInv, LockedPair

LEMMA InitBackups == Init => BackupInv
<1> SUFFICES ASSUME Init PROVE BackupInv
  OBVIOUS
<1>1. FirstBlock.version \in Nat
  BY OwnershipAssumption, OwnerBlockAssumption DEF OwnerBlocks
<1>2. LockedPair
  BY <1>1 DEF Init, LockedPair, Sealed, Slots
<1> QED
  BY <1>2 DEF Init, BackupInv, NoMessage

LEMMA StepBackups == IInv /\ PageInv /\ BackupInv /\ [Next]_vars => BackupInv'
<1> SUFFICES ASSUME IInv, PageInv, BackupInv, [Next]_vars PROVE BackupInv'
  OBVIOUS
<1>1. CASE Start
  BY <1>1, StartBackups
<1>2. CASE BeginUpdate \/ UpdateDone \/ Mirror \/ CopyDone \/ UnlockedInit \/ RecoveryInit
  BY <1>2, BootBackups
<1>3. CASE SkipService \/ ServeActivate \/ SecretUnreadable
  <2>1. /\ pc' \in {"launch", "activate"} /\ UNCHANGED << pages, backups, record >>
    BY <1>3 DEF SkipService, ServeActivate, SecretUnreadable, logVars
  <2> QED
    BY <2>1, BackupStays
<1>4. CASE ServeUnlock
  BY <1>4, ServeUnlockBackups
<1>5. CASE ActivateDone
  BY <1>5, ActivateDoneBackups
<1>6. CASE FlashOp
  BY <1>6, FlashOpBackups
<1>7. CASE FlashError \/ PowerCut
  BY <1>7, FaultBackups
<1>8. CASE SaveCommit \/ SaveDone \/ SaveFails
  BY <1>8, SaveBackups
<1>9. CASE Launch
  BY <1>9, LaunchBackups
<1>10. CASE WritePage1
  BY <1>10, WritePage1Backups
<1>11. CASE StageRequest \/ Reset
  <2>1. /\ UNCHANGED << pages, backups, record >> /\ pc = "running"
        /\ pc' \in {"running", "boot"}
    BY <1>11 DEF StageRequest, Reset, Restart, romVars, logVars
  <2> QED
    BY <2>1, BackupStays
<1>12. CASE UNCHANGED vars
  BY <1>12 DEF vars, logVars, romVars, BackupInv, Known, LockedPair, SealedIn
<1> QED
  BY <1>1, <1>2, <1>3, <1>4, <1>5, <1>6, <1>7, <1>8, <1>9, <1>10, <1>11, <1>12
     DEF Next, RomExt, Environment

\* What is written to the owner pages, and what the record of it says, keep to
\* this in every state.
THEOREM PageInvariance == Spec => [](IInv /\ PageInv /\ BackupInv)
<1>1. Init => IInv /\ PageInv /\ BackupInv
  BY InitHolds, InitPages, InitBackups
<1>2. IInv /\ PageInv /\ BackupInv /\ [Next]_vars => (IInv /\ PageInv /\ BackupInv)'
  BY StepKeeps, StepPages, StepBackups
<1> QED
  BY <1>1, <1>2, PTL DEF Spec

-----------------------------------------------------------------------------
(***************************************************************************)
(* What is sealed, and by whom.                                            *)
(***************************************************************************)

\* A page gets its seal from a flash operation that is done to the end.
LEMMA SealStep ==
  ASSUME IInv, Next, NEW s \in Slots, SealedIn(pages', s), pages'[s] # pages[s], ~ PutBack(s)
  PROVE  /\ FlashOp
         /\ plan # << >> /\ plan \in Seq(FlashOps)
         /\ Head(plan).page = s /\ Head(plan).data = pages'[s]
<1>1. ASSUME plan # << >>, NEW left \in Torn(Head(plan)), Put(Head(plan).page, left)
      PROVE  FALSE
  BY <1>1, TornSealsNothing
<1>2. ~ FlashError
  BY <1>1 DEF FlashError
<1>3. ~ PowerCut
  BY <1>1 DEF PowerCut
<1>4. ~ WritePage1
  <2> SUFFICES ASSUME WritePage1 PROVE FALSE
    OBVIOUS
  <2>1. s = "slot1" /\ pages'[s].block \in backups /\ pc = "running"
    BY WrittenPage DEF Slots, WritePage1
  <2> QED
    BY <2>1 DEF PutBack
<1>5. FlashOp
  BY <1>2, <1>3, <1>4
     DEF Next, RomExt, Environment, Start, BeginUpdate, UpdateDone, Mirror, CopyDone,
         UnlockedInit, RecoveryInit, SkipService, ServeUnlock, ServeActivate, SecretUnreadable,
         ActivateDone, SaveCommit, SaveDone, SaveFails, Launch, StageRequest, Reset
<1>6. plan # << >> /\ Put(Head(plan).page, Head(plan).data) /\ plan \in Seq(FlashOps)
  BY <1>5 DEF FlashOp, IInv, TypeOK
<1>7. /\ pages \in [Slots -> OwnerPages]
      /\ Head(plan).page \in Slots => pages' = [pages EXCEPT ![Head(plan).page] = Head(plan).data]
      /\ Head(plan).page \notin Slots => pages' = pages
  BY <1>6, PutTyped DEF IInv, TypeOK
<1>8. Head(plan).page = s /\ Head(plan).data = pages'[s]
  BY <1>7
<1> QED
  BY <1>5, <1>6, <1>8

(***************************************************************************)
(* No sequence of boots, however cut short, seals a page for an owner that *)
(* the durable state does not let in and that does not have the page in    *)
(* force: ownership_init(), ownership_activate_handler().  A page of any   *)
(* other owner was sealed before, and put back by firmware or rescue.      *)
(***************************************************************************)
THEOREM NoForeignOwner == Spec => OwnersAreLetIn
<1> DEFINE Let ==
      \A s \in Slots :
        /\ SealedIn(pages', s)
        /\ pages'[s] # pages[s]
        => \/ LetsIn(pages'[s].block.owner)
           \/ SomeSealed(pages) /\ InForce(pages).owner = pages'[s].block.owner
           \/ PutBack(s)
<1>1. IInv /\ PageInv /\ [Next]_vars => [Let]_vars
  <2> SUFFICES ASSUME IInv, PageInv, Next, NEW s \in Slots,
                      SealedIn(pages', s), pages'[s] # pages[s], ~ PutBack(s)
               PROVE  \/ LetsIn(pages'[s].block.owner)
                      \/ SomeSealed(pages) /\ InForce(pages).owner = pages'[s].block.owner
    BY DEF vars
  <2>1. /\ plan # << >> /\ plan \in Seq(FlashOps)
        /\ Head(plan).page = s /\ Head(plan).data = pages'[s] /\ pages'[s] # Bad
    BY SealStep DEF SealedIn
  <2>2. PICK b \in Blocks :
          /\ Head(plan).data = Sealed(b)
          /\ LetsIn(b.owner) \/ (SomeSealed(pages) /\ InForce(pages).owner = b.owner)
    BY <2>1, NextVouched DEF PageInv
  <2>3. pages'[s].block.owner = b.owner
    BY <2>1, <2>2 DEF Sealed
  <2> QED
    BY <2>2, <2>3
<1> QED
  BY <1>1, PageInvariance, PTL DEF Spec, OwnersAreLetIn

(***************************************************************************)
(* When ownership_activate_handler()'s record takes effect both pages hold *)
(* the new owner's block, and no earlier owner ran with its secret.        *)
(***************************************************************************)
THEOREM CompleteActivation == Spec => ActivationIsComplete
<1> DEFINE Complete ==
      /\ pc = "save"
      /\ msg.request.op = "activate"
      /\ record' # record
      => /\ SealedIn(pages, "slot0")
         /\ pages["slot0"] = pages["slot1"]
         /\ record.state # "UnlockedSelf" =>
              holders = {} /\ record'.transfers = record.transfers + 1
<1>1. IInv /\ PageInv /\ [Next]_vars => [Complete]_vars
  <2> SUFFICES ASSUME IInv, PageInv, Next, pc = "save", msg.request.op = "activate",
                      record' # record
               PROVE  /\ SealedIn(pages, "slot0")
                      /\ pages["slot0"] = pages["slot1"]
                      /\ record.state # "UnlockedSelf" =>
                           holders = {} /\ record'.transfers = record.transfers + 1
    BY DEF vars
  <2>1. pending # NoData /\ record' = pending
    BY RecordStep DEF SaveCommit, Log!Commit
  <2> QED
    BY <2>1 DEF PageInv, ActivateInv
<1> QED
  BY <1>1, PageInvariance, PTL DEF Spec, ActivationIsComplete

-----------------------------------------------------------------------------
(***************************************************************************)
(* What a locked chip boots with, if signed blocks do not repeat an item.  *)
(***************************************************************************)

\* What is sealed parses.
LEMMA SealedParse ==
  ASSUME NoRepeats, SealedParses, NEW s \in Slots, NEW b \in Blocks, pages[s] = Sealed(b)
  PROVE  Parses(b)
<1>1. SealedIn(pages, s) /\ pages[s].block = b
  BY SealedIsNotBad DEF SealedIn, Sealed
<1> QED
  BY <1>1 DEF SealedParses, NoRepeats

\* What was found sealed is in the page.
LEMMA ExactPage ==
  ASSUME IInv, PageInv, pc \in {"init", "mirror"}, NEW s \in Slots, IsSealed(copies[s])
  PROVE  /\ copies[s].block \in Blocks
         /\ pages[s] = Sealed(copies[s].block) /\ SealedIn(pages, s)
<1>1. copies[s].block \in Blocks /\ pages[s] = Sealed(copies[s].block)
  BY DEF IsSealed, IInv, CopyInv, PageInv, ExactInv, Exact
<1> QED
  BY <1>1, SealedIsNotBad DEF SealedIn

\* What a repair leaves
LEMMA CopyDoneLeaves ==
  ASSUME IInv, PageInv, CopyDone
  PROVE  /\ config' = Copy0.block /\ Copy0.block \in Blocks /\ pc' = "serve"
         /\ pages' = pages /\ \A s \in Slots : pages[s] = Sealed(Copy0.block)
<1>1. /\ pc = "copy" /\ plan = << >> /\ pages' = pages /\ Apply(Copy0.block)
  BY DEF CopyDone
<1>2. \A s \in Slots : EndsWith(s, Copy0.block)
  BY <1>1 DEF PageInv, UpdateInv
<1>3. \A s \in Slots : pages[s] = Sealed(Copy0.block)
  BY <1>1, <1>2, EndsNow
<1>4. Copy0.block \in Blocks
  BY <1>1 DEF IInv, CopyInv, Copy0, Slots
<1> QED
  BY <1>1, <1>3, <1>4 DEF Apply

\* A boot of the locked chip that finds or makes both pages sealed applies a
\* block that is sealed.
LEMMA StepConfigured ==
  ASSUME NoRepeats, IInv, PageInv, ConfigInv, [Next]_vars
  PROVE  ConfigInv'
<1> SUFFICES ASSUME pc' \in {"serve", "launch"}, ram'.state = "LockedOwner",
                    \A s \in Slots : IsSealed(copies[s])'
             PROVE  config' # NoBlock /\ Parses(config')
  BY DEF ConfigInv, IsSealed
<1>1. CASE Mirror
  <2>1. /\ pc \in {"init", "mirror"} /\ copies' = copies /\ Apply(Copy0.block)
    BY <1>1 DEF Mirror, EnterRecovery, BeginSave
  <2>2. IsSealed(copies["slot0"]) /\ "slot0" \in Slots
    BY <2>1 DEF IsSealed, Slots
  <2>3. Copy0.block \in Blocks /\ Parses(Copy0.block)
    BY <2>1, <2>2, ExactPage, SealedParse DEF Copy0, PageInv
  <2> QED
    BY <2>1, <2>3, OwnerBlockAssumption DEF Apply
<1>2. CASE CopyDone
  <2>1. config' = Copy0.block /\ Copy0.block \in Blocks /\ pages["slot0"] = Sealed(Copy0.block)
    BY <1>2, CopyDoneLeaves DEF Slots
  <2>2. Parses(Copy0.block)
    BY <2>1, SealedParse DEF PageInv, Slots
  <2> QED
    BY <2>1, <2>2, OwnerBlockAssumption
<1>3. CASE FlashError
  <2>1. /\ plan # << >> /\ copies' = copies
        /\ pc = "copy" \/ (pc = "activate" /\ ram'.state = ram.state)
    <3>1. ASSUME pc = "activate", ram' = IF Head(plan).page = "secret"
                                           THEN WithSlot(msg.request) ELSE ram
          PROVE  ram'.state = ram.state
      BY <3>1 DEF WithSlot, IInv, TypeOK, BootData
    <3> QED
      BY <1>3, <3>1 DEF FlashError
  <2>2. CASE pc = "copy"
    <3>1. Len(plan) \in Nat /\ Len(plan) > 0
      BY <2>1, EmptySeq DEF IInv, TypeOK
    <3>2. plan[1].page \in Slots /\ copies[plan[1].page].status # "sealed"
      BY <2>2, <3>1 DEF IInv, RepairInv
    <3> QED
      BY <2>1, <3>2 DEF IsSealed
  <2>3. CASE pc = "activate" /\ ram'.state = ram.state
    BY <2>3 DEF PageInv, ActivateInv, UnlockedStates
  <2> QED
    BY <2>1, <2>2, <2>3
<1>4. CASE SaveDone \/ SaveFails
  <2>1. pending # NoData /\ pc = "recover" /\ ram' = ram
    BY <1>4 DEF SaveDone, SaveFails, AfterSave, Restart, Log!Succeed
  <2> QED
    BY <2>1 DEF IInv, SaveInv
<1>5. CASE UnlockedInit \/ RecoveryInit
  BY <1>5 DEF UnlockedInit, RecoveryInit, EnterRecovery, BeginSave, UnlockedStates
<1>6. CASE SkipService \/ ServeUnlock \/ ServeActivate
  BY <1>6 DEF SkipService, ServeUnlock, ServeActivate, BeginSave, ConfigInv
<1>9. CASE SecretUnreadable
  <2>1. pc = "activate" /\ ram'.state = ram.state
    BY <1>9 DEF SecretUnreadable, WithSlot, IInv, TypeOK, BootData
  <2> QED
    BY <2>1 DEF PageInv, ActivateInv, UnlockedStates
<1>7. CASE UNCHANGED << pc, ram, copies, config >>
  BY <1>7 DEF ConfigInv
<1>8. CASE FlashOp \/ SaveCommit \/ UNCHANGED vars
  BY <1>7, <1>8 DEF FlashOp, SaveCommit, vars, romVars
<1> QED
  BY <1>1, <1>2, <1>3, <1>4, <1>5, <1>6, <1>8, <1>9
     DEF Next, RomExt, Environment, Start, BeginUpdate, UpdateDone, ActivateDone, BeginSave,
         Launch, WritePage1, StageRequest, romVars, Reset, PowerCut, Restart

(***************************************************************************)
(* A locked chip with two sealed pages boots with a whole configuration in *)
(* force: locked_owner_init().                                             *)
(***************************************************************************)
THEOREM LockedConfigured ==
  ASSUME NoRepeats
  PROVE  Spec => []LockedIsConfigured
<1>1. Init => ConfigInv
  BY DEF Init, ConfigInv
<1>2. IInv /\ PageInv /\ ConfigInv /\ [Next]_vars => ConfigInv'
  BY StepConfigured
<1>3. ConfigInv => LockedIsConfigured
  BY DEF ConfigInv, LockedIsConfigured
<1> QED
  BY <1>1, <1>2, <1>3, PageInvariance, PTL DEF Spec

-----------------------------------------------------------------------------
(***************************************************************************)
(* What the pages of a chip hold that met no fault.                        *)
(***************************************************************************)

\* A fault is counted.
LEMMA FaultCounts ==
  ASSUME IInv, NEW kind, Fault(kind)
  PROVE  faults' # 0
BY DEF IInv, TypeOK, Fault

\* Where no page is written, and none is to be read
LEMMA CleanStays ==
  ASSUME CleanInv, UNCHANGED << pages, faults >>, backups \subseteq backups',
         pc \notin {"update", "mirror", "copy", "activate"}, pc' \notin {"init", "mirror"},
         pc' \in {"serve", "launch"} /\ ram'.state = "LockedOwner" =>
           pc \in {"serve", "launch"} /\ ram'.state = ram.state /\ config' = config
  PROVE  CleanInv'
BY DEF CleanInv, SealedIn

\* The pages are read.
LEMMA StartClean ==
  ASSUME IInv, CleanInv, Start
  PROVE  CleanInv'
<1> SUFFICES ASSUME faults' = 0
             PROVE  CleanInv'
  BY DEF CleanInv
<1>1. pc = "boot" /\ pc' = "init" /\ UNCHANGED << pages, backups >>
  BY DEF Start
<1>2. ~ Fault("read")
  BY FaultCounts
<1>3. faults = 0 /\ \A s \in Slots : copies'[s] = CopyOf(pages[s])
  BY <1>2 DEF Start
<1>4. ASSUME NEW s \in Slots, SealedIn(pages, s)
      PROVE  copies'[s].status = "sealed"
  <2>1. copies'[s] = CopyOf(pages[s])
    BY <1>3
  <2> QED
    BY <1>4, <2>1 DEF SealedIn, CopyOf
<1> QED
  BY <1>1, <1>3, <1>4 DEF CleanInv, SealedIn, IsSealed, Copy0, Copy1, Slots

\* Both pages are as they should be, or page 0 is not as it was and is mirrored.
LEMMA MirrorClean ==
  ASSUME IInv, PageInv, CleanInv, Mirror
  PROVE  CleanInv'
<1> SUFFICES ASSUME faults' = 0
             PROVE  CleanInv'
  BY DEF CleanInv
<1>1. pages' = pages /\ faults = 0 /\ pc \in {"init", "mirror"}
  BY DEF Mirror
<1>2. CASE pc' = "copy"
  BY <1>2 DEF CleanInv
<1>3. CASE EnterRecovery
  <2>1. IsSealed(copies["slot0"]) \/ IsSealed(copies["slot1"])
    BY <1>1 DEF CleanInv, Copy0, Copy1
  <2>2. FALSE
    BY <1>3, <2>1 DEF Mirror, EnterRecovery, BeginSave, Apply, Slots
  <2> QED
    BY <2>2
<1>4. ASSUME CopySources = {}, NEW s \in Slots, IsSealed(copies[s]), Apply(Copy0.block),
             UNCHANGED << logVars, ram, copies, plan, nonces >>
      PROVE  CleanInv'
  <2>1. \A t \in Slots : IsSealed(copies[t])
    BY <1>4 DEF CopySources, Slots, Other
  <2>2. pc = "init"
    BY <1>1, <2>1 DEF CleanInv, Copy0, Slots
  <2>3. /\ pages["slot0"] = Sealed(Copy0.block) /\ Copy0.block \in Blocks
        /\ SealedIn(pages, "slot0") /\ SealedIn(pages, "slot1")
    BY <1>1, <2>1, ExactPage DEF Copy0, Slots
  <2>4. pages["slot1"].block \in {Copy0.block} \cup backups
    BY <1>1, <2>2, <2>3 DEF CleanInv, Sealed
  <2>5. config' = Copy0.block /\ pc' = "serve"
    BY <1>4 DEF Apply
  <2>6. backups' = backups
    BY DEF Mirror
  <2> QED
    BY <1>1, <2>3, <2>4, <2>5, <2>6 DEF CleanInv, SealedIn, Sealed
<1> QED
  BY <1>2, <1>3, <1>4 DEF Mirror

LEMMA StepClean ==
  ASSUME IInv, PageInv, CleanInv, [Next]_vars
  PROVE  CleanInv'
<1> SUFFICES ASSUME faults' = 0
             PROVE  CleanInv'
  BY DEF CleanInv
<1>1. CASE Start
  BY <1>1, StartClean
<1>2. CASE Mirror
  BY <1>2, MirrorClean
<1>3. CASE BeginUpdate \/ FlashOp
  <2>1. pc' \in {"update", "copy", "activate"}
    BY <1>3 DEF BeginUpdate, FlashOp, IInv, PlanInv
  <2> QED
    BY <2>1 DEF CleanInv
<1>4. CASE UpdateDone
  <2>1. /\ pc' = "mirror"
        /\ copies' = [copies EXCEPT !["slot0"].status = "invalid", !["slot1"].status = "sealed"]
    BY <1>4 DEF UpdateDone
  <2>2. copies'["slot0"].status = "invalid" /\ copies'["slot1"].status = "sealed"
    BY <2>1 DEF IInv, TypeOK, Copies, Slots
  <2> QED
    BY <2>1, <2>2 DEF CleanInv, IsSealed, Copy0, Copy1
<1>5. CASE CopyDone
  <2>1. config' = Copy0.block /\ Copy0.block \in Blocks /\ pc' = "serve"
        /\ \A s \in Slots : pages'[s] = Sealed(Copy0.block)
    BY <1>5, CopyDoneLeaves
  <2>2. /\ SealedIn(pages', "slot0") /\ SealedIn(pages', "slot1")
        /\ pages'["slot0"] = Sealed(Copy0.block)
        /\ pages'["slot0"].block = Copy0.block /\ pages'["slot1"].block = Copy0.block
    BY <2>1, SealedIsNotBad DEF SealedIn, Slots, Sealed
  <2> QED
    BY <2>1, <2>2 DEF CleanInv, SealedIn
<1>6. CASE UnlockedInit \/ RecoveryInit
  <2>1. /\ pc = "init" /\ pc' \in {"recover", "serve"} /\ UNCHANGED << pages, faults, backups >>
        /\ pc' = "serve" => ram'.state # "LockedOwner"
    BY <1>6 DEF UnlockedInit, RecoveryInit, EnterRecovery, BeginSave, Apply, UnlockedStates
  <2> QED
    BY <2>1, CleanStays
<1>7. CASE SkipService \/ ServeUnlock
  BY <1>7, CleanStays DEF SkipService, ServeUnlock, BeginSave
<1>16. CASE SecretUnreadable
  <2>1. /\ pc = "activate" /\ pc' = "launch" /\ plan # << >> /\ Head(plan).page = "secret"
        /\ pages' = pages /\ ram'.state = ram.state
    BY <1>16 DEF SecretUnreadable, EraseOf, WithSlot, IInv, TypeOK, BootData
  <2>2. Len(plan) \in Nat /\ 1 \in 1..Len(plan) /\ Head(plan) = plan[1]
    BY <2>1, EmptySeq, HeadTailProperties DEF IInv, TypeOK
  <2>3. \A i \in 1..Len(plan) : plan[i].page = "secret"
    BY <2>1, <2>2 DEF PageInv, ActivateInv
  <2>4. Copy1.block \in Blocks /\ \A s \in Slots : EndsWith(s, Copy1.block)
    BY <2>1 DEF PageInv, ActivateInv
  <2>5. \A s \in Slots : pages[s] = Sealed(Copy1.block)
    BY <2>3, <2>4 DEF EndsWith, Ends, Slots
  <2>6. SealedIn(pages, "slot0") /\ pages["slot1"] = pages["slot0"]
    BY <2>4, <2>5, SealedIsNotBad DEF SealedIn, Slots
  <2>7. ram'.state # "LockedOwner"
    BY <2>1 DEF PageInv, ActivateInv, UnlockedStates
  <2> QED
    BY <2>1, <2>6, <2>7 DEF CleanInv, SealedIn
<1>8. CASE ServeActivate
  <2>1. CASE pc' = "activate"
    BY <2>1 DEF CleanInv
  <2>2. CASE pc' = "launch" /\ ram' = ram
    BY <1>8, <2>2, CleanStays DEF ServeActivate
  <2> QED
    BY <1>8, <2>1, <2>2 DEF ServeActivate
<1>9. CASE ActivateDone
  <2>1. pc = "activate" /\ pc' = "save" /\ plan = << >> /\ pages' = pages
    BY <1>9 DEF ActivateDone, BeginSave
  <2>2. Copy1.block \in Blocks /\ \A s \in Slots : EndsWith(s, Copy1.block)
    BY <2>1 DEF PageInv, ActivateInv
  <2>3. \A s \in Slots : pages[s] = Sealed(Copy1.block)
    BY <2>1, <2>2, EndsNow
  <2>4. SealedIn(pages, "slot0") /\ pages["slot1"] = pages["slot0"]
    BY <2>2, <2>3, SealedIsNotBad DEF SealedIn, Slots
  <2> QED
    BY <2>1, <2>4 DEF CleanInv, SealedIn
<1>10. ~ FlashError /\ ~ SaveFails
  BY FaultCounts DEF FlashError, SaveFails
<1>11. CASE SaveCommit \/ SaveDone
  <2>1. /\ pending # NoData /\ UNCHANGED << pages, faults, backups >>
        /\ pc \in {"save", "recover"}
    BY <1>11 DEF SaveCommit, SaveDone, Log!Commit, Log!Succeed, IInv, SaveInv
  <2>2. pc' \in {"save", "recover", "boot"} \/ (pc = "recover" /\ pc' = "serve" /\ ram' = ram)
    BY <1>11, <2>1 DEF SaveCommit, SaveDone, AfterSave, Restart, romVars
  <2>3. pc = "recover" => ram.state = "Recovery"
    BY <2>1 DEF IInv, SaveInv
  <2> QED
    BY <2>1, <2>2, <2>3, CleanStays
<1>12. CASE Launch \/ StageRequest \/ Reset
  BY <1>12, CleanStays DEF Launch, StageRequest, Reset, Restart, romVars
<1>13. CASE WritePage1
  <2>1. /\ pages'["slot0"] = pages["slot0"]
        /\ SealedIn(pages', "slot1") => pages'["slot1"].block \in backups
    BY <1>13, WrittenPage
  <2>2. pc = "running" /\ pc' = "running" /\ UNCHANGED << faults, backups >>
    BY <1>13 DEF WritePage1, romVars
  <2> QED
    BY <2>1, <2>2 DEF CleanInv, SealedIn
<1>14. CASE PowerCut
  <2>1. pc = "running" /\ faults' = faults
    BY <1>14, FaultCounts DEF PowerCut
  <2>2. plan = << >> /\ UNCHANGED << pages, backups >> /\ pc' = "boot"
    BY <1>14, <2>1 DEF IInv, PlanInv, PowerCut, Restart
  <2> QED
    BY <2>1, <2>2, CleanStays
<1>15. CASE UNCHANGED vars
  BY <1>15 DEF vars, logVars, romVars, CleanInv, SealedIn, IsSealed, Copy0, Copy1
<1> QED
  BY <1>1, <1>2, <1>3, <1>4, <1>5, <1>6, <1>7, <1>8, <1>9, <1>10, <1>11, <1>12, <1>13, <1>14,
     <1>15, <1>16 DEF Next, RomExt, Environment

(***************************************************************************)
(* If nothing was cut short and nothing failed, page 0 of a locked chip    *)
(* that serves requests holds the configuration in force, and page 1 holds *)
(* it as well or was put back: locked_owner_init().                        *)
(***************************************************************************)
THEOREM LockedSealed == Spec => []LockedPagesAreSealed
<1>1. Init => CleanInv
  BY OwnershipAssumption, SealedIsNotBad DEF Init, CleanInv, SealedIn, Slots
<1>2. IInv /\ PageInv /\ CleanInv /\ [Next]_vars => CleanInv'
  BY StepClean
<1>3. CleanInv => LockedPagesAreSealed
  BY DEF CleanInv, LockedPagesAreSealed
<1> QED
  BY <1>1, <1>2, <1>3, PageInvariance, PTL DEF Spec

-----------------------------------------------------------------------------
(***************************************************************************)
(* What a locked chip would run with.                                      *)
(***************************************************************************)

\* Page 0 is found sealed if it is, unless it could not be read.
LEMMA StartKeep ==
  ASSUME IInv, Start
  PROVE  KeepInv'
<1>1. /\ pc' = "init" /\ pages' = pages
      /\ PagesAreRead => \A s \in Slots : copies'[s] = CopyOf(pages[s])
  BY DEF Start, Fault, PagesAreRead
<1>2. PagesAreRead /\ SealedIn(pages, "slot0") => copies'["slot0"].status = "sealed"
  BY <1>1 DEF SealedIn, CopyOf, Slots
<1> QED
  BY <1>1, <1>2 DEF KeepInv, SealedIn, IsSealed, Copy0

\* With the update in page 1, page 0 may go.
LEMMA UpdateDoneKeep ==
  ASSUME IInv, PageInv, KeepInv, UpdateDone
  PROVE  KeepInv'
<1>1. /\ pc = "update" /\ pc' = "mirror" /\ plan = << >> /\ UNCHANGED << pages, backups >>
  BY DEF UpdateDone
<1>2. /\ Copy0.status = "sealed" /\ Copy0.block \in Blocks /\ Copy1.block \in Blocks
      /\ Copy1.block.owner = Copy0.block.owner /\ Copy1.block.version > Copy0.block.version
  BY <1>1 DEF PageInv, UpdateInv, OwnerKeyEqual, IInv, TypeOK, Copies, RepairInv, Copy0, Copy1, Slots
<1>3. pages["slot1"] = Sealed(Copy1.block)
  BY <1>1, EndsNow DEF PageInv, UpdateInv, Slots
<1>4. pages["slot0"] = Sealed(Copy0.block)
  BY <1>1, <1>2 DEF PageInv, ExactInv, Exact, Copy0, Slots
<1>5. Copy0.block.version \in Nat /\ Copy1.block.version \in Nat
  BY <1>2, OwnerBlockAssumption DEF OwnerBlocks
<1>6. HandsOver
  <2>1. SealedIn(pages, "slot1")
    BY <1>2, <1>3, SealedIsNotBad DEF SealedIn
  <2>2. pages["slot1"].block = Copy1.block /\ pages["slot0"].block = Copy0.block
    BY <1>3, <1>4 DEF Sealed
  <2>3. Copy1.block.version >= Copy0.block.version
    BY <1>2, <1>5
  <2> QED
    BY <1>2, <2>1, <2>2, <2>3 DEF HandsOver
<1> QED
  BY <1>1, <1>6 DEF KeepInv, HandsOver, SealedIn

\* Page 0 is repaired from page 1 only if it may go, or is not sealed, or could
\* not be read.
LEMMA MirrorKeep ==
  ASSUME IInv, PageInv, BackupInv, KeepInv, Mirror
  PROVE  KeepInv'
<1>1. /\ pc \in {"init", "mirror"} /\ ram.state = "LockedOwner" /\ ram.state = record.state
      /\ UNCHANGED << pages, backups >>
  BY DEF Mirror, IInv, RamInv, Agrees
<1>2. ASSUME NEW s \in Slots, IsSealed(copies[s])
      PROVE  /\ copies[s].block \in Blocks /\ pages[s] = Sealed(copies[s].block)
             /\ SealedIn(pages, s)
  <2>1. copies[s].block \in Blocks /\ pages[s] = Sealed(copies[s].block)
    BY <1>1, <1>2 DEF IsSealed, IInv, CopyInv, PageInv, ExactInv, Exact
  <2> QED
    BY <2>1, SealedIsNotBad DEF SealedIn
<1>3. CASE EnterRecovery
  <2>1. pc' = "recover" /\ ram'.state = "Recovery"
    BY <1>3 DEF EnterRecovery, BeginSave, IInv, TypeOK, BootData
  <2> QED
    BY <2>1 DEF KeepInv
<1>4. CASE Apply(Copy0.block) /\ UNCHANGED << logVars, ram, copies, plan, nonces >>
  <2>1. IsSealed(Copy0) => SealedIn(pages, "slot0")
    BY <1>2 DEF Copy0, Slots
  <2> QED
    BY <1>1, <1>4, <2>1 DEF KeepInv, Apply, logVars, SealedIn, IsSealed, Copy0
<1>5. ASSUME NEW s \in CopySources,
             plan' = Rewrite(Other(s), Sealed(copies[s].block)), pc' = "copy"
      PROVE  KeepInv'
  <2>1. s \in Slots /\ Other(s) \in Slots /\ IsSealed(copies[s]) /\ ~ IsSealed(copies[Other(s)])
    BY DEF CopySources, Slots, Other
  <2>2. \A i \in 1..Len(plan') :
          plan'[i].page = Other(s) /\ plan'[i].data \in {Bad, Sealed(copies[s].block)}
    BY <1>2, <1>5, <2>1, RewriteOps
  <2>3. CASE s = "slot0"
    <3>1. SealedIn(pages, "slot0") /\ \A i \in 1..Len(plan') : plan'[i].page = "slot1"
      BY <1>2, <2>1, <2>2, <2>3 DEF Other
    <3> QED
      BY <1>1, <1>5, <3>1 DEF KeepInv, SealedIn
  <2>4. CASE s = "slot1"
    <3>1. ~ IsSealed(Copy0) /\ SealedIn(pages, "slot1")
          /\ pages["slot1"] = Sealed(copies["slot1"].block)
      BY <1>2, <2>1, <2>4 DEF Other, Copy0
    <3>2. HandsOver
      <4>1. CASE pc = "mirror"
        BY <3>1, <4>1 DEF KeepInv
      <4>2. CASE pc = "init" /\ SealedIn(pages, "slot0")
        <5>1. ~ PagesAreRead
          BY <3>1, <4>2 DEF KeepInv
        <5>2. LockedPair /\ \A t \in Slots : SealedIn(pages, t)
          BY <1>1, <3>1, <4>2 DEF BackupInv, Slots
        <5> QED
          BY <3>1, <5>1, <5>2 DEF LockedPair, Known, HandsOver
      <4>3. CASE ~ SealedIn(pages, "slot0")
        BY <3>1, <4>3 DEF HandsOver
      <4> QED
        BY <1>1, <4>1, <4>2, <4>3
    <3>3. \A i \in 1..Len(plan') :
            plan'[i].page = "slot0" /\ plan'[i].data \in {Bad, pages["slot1"]}
      BY <2>2, <2>4, <3>1 DEF Other
    <3> QED
      BY <1>1, <1>5, <3>2, <3>3 DEF KeepInv, HandsOver, SealedIn
  <2> QED
    BY <2>1, <2>3, <2>4 DEF Slots
<1> QED
  BY <1>3, <1>4, <1>5 DEF Mirror

\* Both pages are sealed.
LEMMA CopyDoneKeep ==
  ASSUME IInv, PageInv, CopyDone
  PROVE  KeepInv'
<1>1. /\ pc = "copy" /\ plan = << >> /\ pages' = pages /\ ram' = ram /\ record' = record
      /\ pc' = "serve"
  BY DEF CopyDone, Apply, logVars
<1>2. Copy0.block \in Blocks /\ EndsWith("slot0", Copy0.block)
  BY <1>1 DEF PageInv, UpdateInv, IInv, CopyInv, Copy0, Slots
<1>3. pages["slot0"] = Sealed(Copy0.block)
  BY <1>1, <1>2, EndsNow DEF Slots
<1>4. SealedIn(pages', "slot0")
  BY <1>1, <1>2, <1>3, SealedIsNotBad DEF SealedIn
<1>5. ram.state = record.state
  BY <1>1 DEF IInv, RamInv, Agrees
<1> QED
  BY <1>1, <1>4, <1>5 DEF KeepInv, SealedIn

\* What is left of a plan keeps to the same page.
LEMMA FlashOpKeep ==
  ASSUME IInv, KeepInv, FlashOp
  PROVE  KeepInv'
<1> DEFINE op == Head(plan)
<1>1. /\ plan # << >> /\ Put(op.page, op.data) /\ plan' = Tail(plan)
      /\ UNCHANGED << logVars, msg, pc, ram, copies, config, nonces, faults, backups >>
  BY DEF FlashOp
<1>2. /\ plan \in Seq(FlashOps) /\ Len(plan) \in Nat /\ Len(plan) > 0 /\ op = plan[1]
      /\ Len(plan') = Len(plan) - 1
      /\ \A i \in 1..Len(plan') : i + 1 \in 1..Len(plan) /\ plan'[i] = plan[i + 1]
  BY <1>1, EmptySeq, HeadTailProperties DEF IInv, TypeOK
<1>3. /\ pages \in [Slots -> OwnerPages]
      /\ op.page \in Slots => pages' = [pages EXCEPT ![op.page] = op.data]
      /\ op.page \notin Slots => pages' = pages
  BY <1>1, PutTyped DEF IInv, TypeOK
<1>4. pc \in {"update", "copy", "activate"} /\ pc' = pc /\ Copy0' = Copy0 /\ Copy1' = Copy1
  BY <1>1 DEF IInv, PlanInv, Copy0, Copy1
<1>5. CASE pc = "update"
  BY <1>4, <1>5 DEF KeepInv
<1>6. CASE pc = "copy" /\ SealedIn(pages, "slot0") /\ \A i \in 1..Len(plan) : plan[i].page = "slot1"
  <2>1. \A i \in 1..Len(plan') : plan'[i].page = "slot1"
    BY <1>2, <1>6
  <2>2. pages'["slot0"] = pages["slot0"]
    BY <1>2, <1>3, <1>6 DEF Slots
  <2> QED
    BY <1>4, <1>6, <2>1, <2>2 DEF KeepInv, SealedIn
<1>7. CASE /\ pc = "copy" /\ HandsOver
           /\ \A i \in 1..Len(plan) :
                plan[i].page = "slot0" /\ plan[i].data \in {Bad, pages["slot1"]}
  <2>1. pages'["slot1"] = pages["slot1"] /\ pages'["slot0"] \in {Bad, pages["slot1"]}
    BY <1>2, <1>3, <1>7 DEF Slots
  <2>2. \A i \in 1..Len(plan') : plan'[i].page = "slot0" /\ plan'[i].data \in {Bad, pages'["slot1"]}
    BY <1>2, <1>7, <2>1
  <2>3. pages["slot1"].block \in Blocks /\ pages["slot1"].block.version \in Nat
    BY <1>3, <1>7, OwnerBlockAssumption
       DEF HandsOver, SealedIn, OwnerPages, OwnerBlocks, Slots
  <2>4. HandsOver'
    BY <1>1, <1>7, <2>1, <2>3 DEF HandsOver, SealedIn
  <2> QED
    BY <1>4, <1>7, <2>2, <2>4 DEF KeepInv
<1>8. CASE pc = "activate"
  BY <1>4, <1>8 DEF KeepInv
<1> QED
  BY <1>4, <1>5, <1>6, <1>7, <1>8 DEF KeepInv

\* A page that was found sealed is not touched by an update or a repair.
LEMMA FlashErrorKeep ==
  ASSUME IInv, PageInv, KeepInv, FlashError
  PROVE  KeepInv'
<1> DEFINE op == Head(plan)
<1>1. plan # << >> /\ plan' = << >> /\ record' = record /\ copies' = copies
  BY DEF FlashError, logVars
<1>2. PICK left \in Torn(op) : Put(op.page, left)
  BY DEF FlashError
<1>3. ram.state = record.state /\ pc \in {"update", "copy", "activate"}
  BY DEF FlashError, IInv, RamInv, Agrees
<1>4. CASE pc = "update"
  <2>1. pc' = "mirror" /\ IsSealed(Copy0)
    BY <1>4 DEF FlashError, IInv, RepairInv, IsSealed, Copy0
  <2> QED
    BY <1>1, <2>1 DEF KeepInv, IsSealed, Copy0
<1>5. CASE pc = "copy"
  <2>1. pc' = "serve" /\ ram' = ram
    BY <1>5 DEF FlashError
  <2>2. plan \in Seq(FlashOps) /\ Len(plan) \in Nat /\ Len(plan) > 0 /\ op = plan[1]
    BY <1>1, EmptySeq, HeadTailProperties DEF IInv, TypeOK
  <2>3. copies[op.page].status # "sealed" /\ op.page \in Slots
    BY <1>5, <2>2 DEF IInv, RepairInv
  <2>4. pages' = [pages EXCEPT ![op.page] = left] /\ pages \in [Slots -> OwnerPages]
    BY <1>1, <1>2, <2>3, PutTyped DEF IInv, TypeOK
  <2>5. IsSealed(Copy0) => SealedIn(pages', "slot0")
    <3> SUFFICES ASSUME copies["slot0"].status = "sealed"
                 PROVE  SealedIn(pages', "slot0")
      BY DEF IsSealed, Copy0
    <3>1. copies["slot0"].block \in Blocks /\ pages["slot0"] = Sealed(copies["slot0"].block)
      BY <1>5 DEF IInv, CopyInv, PageInv, ExactInv, Exact, Slots
    <3>2. pages'["slot0"] = pages["slot0"]
      BY <2>3, <2>4 DEF Slots
    <3> QED
      BY <3>1, <3>2, SealedIsNotBad DEF SealedIn
  <2> QED
    BY <1>1, <1>3, <2>1, <2>5 DEF KeepInv, SealedIn, IsSealed, Copy0
<1>6. CASE pc = "activate"
  <2>1. pc' = "launch" /\ ram' \in {WithSlot(msg.request), ram}
    BY <1>6 DEF FlashError
  <2>2. ram'.state = ram.state
    BY <2>1 DEF WithSlot, IInv, TypeOK, BootData
  <2>3. ram.state \in UnlockedStates
    BY <1>6 DEF PageInv, ActivateInv
  <2> QED
    BY <1>1, <1>3, <2>1, <2>2, <2>3 DEF KeepInv, UnlockedStates
<1> QED
  BY <1>3, <1>4, <1>5, <1>6

\* Only a chip whose durable state and RAM state agree is unlocked.
LEMMA StepKeep ==
  ASSUME IInv, PageInv, BackupInv, KeepInv, [Next]_vars
  PROVE  KeepInv'
<1>1. CASE Start
  BY <1>1, StartKeep
<1>2. CASE BeginUpdate
  BY <1>2 DEF BeginUpdate, KeepInv
<1>3. CASE UpdateDone
  BY <1>3, UpdateDoneKeep
<1>4. CASE Mirror
  BY <1>4, MirrorKeep
<1>5. CASE CopyDone
  BY <1>5, CopyDoneKeep
<1>6. CASE FlashOp
  BY <1>6, FlashOpKeep
<1>7. CASE FlashError
  BY <1>7, FlashErrorKeep
<1>8. CASE UnlockedInit
  <2>1. pc = "init" /\ ram.state \in UnlockedStates /\ ram.state = record.state
    BY <1>8 DEF UnlockedInit, IInv, RamInv, Agrees
  <2>2. CASE EnterRecovery
    <3>1. pc' = "recover" /\ ram'.state = "Recovery"
      BY <2>2 DEF EnterRecovery, BeginSave, IInv, TypeOK, BootData
    <3> QED
      BY <3>1 DEF KeepInv
  <2>3. CASE ~ EnterRecovery
    <3>1. pc' = "serve" /\ ram' = ram /\ record' = record
      BY <1>8, <2>3 DEF UnlockedInit, Apply, logVars
    <3> QED
      BY <2>1, <3>1 DEF KeepInv, UnlockedStates
  <2> QED
    BY <2>2, <2>3
<1>9. CASE RecoveryInit
  BY <1>9 DEF RecoveryInit, KeepInv
<1>10. CASE SkipService \/ ServeUnlock \/ ServeActivate
  <2>1. CASE pc' \in {"save", "activate"}
    BY <2>1 DEF KeepInv
  <2>2. CASE /\ pc = "serve" /\ pc' = "launch"
             /\ UNCHANGED << record, ram, pages, copies >>
    BY <2>2 DEF KeepInv, SealedIn, IsSealed, Copy0
  <2> QED
    BY <1>10, <2>1, <2>2 DEF SkipService, ServeUnlock, ServeActivate, BeginSave, logVars
<1>11. CASE ActivateDone
  BY <1>11 DEF ActivateDone, BeginSave, KeepInv
<1>12. CASE SaveCommit
  <2>1. pc' = pc /\ ram' = ram /\ pending # NoData
    BY <1>12 DEF SaveCommit, Log!Commit, romVars
  <2>2. pc = "save" \/ (pc = "recover" /\ ram.state = "Recovery")
    BY <2>1 DEF IInv, SaveInv
  <2> QED
    BY <2>1, <2>2 DEF KeepInv
<1>13. CASE SaveDone \/ SaveFails
  <2>1. pending # NoData /\ AfterSave /\ record' = record
    BY <1>13 DEF SaveDone, SaveFails, Log!Succeed, Log!GiveUp
  <2>2. pc = "recover" => ram.state = "Recovery"
    BY DEF KeepInv
  <2> QED
    BY <2>1, <2>2 DEF AfterSave, Restart, KeepInv
<1>14. CASE Launch
  <2>1. /\ pc = "launch" /\ pc' = "running"
        /\ UNCHANGED << record, ram, pages, copies >>
    BY <1>14 DEF Launch, logVars
  <2> QED
    BY <2>1 DEF KeepInv, SealedIn, IsSealed, Copy0
<1>15. CASE WritePage1
  <2>1. /\ pc = "running" /\ pc' = "running"
        /\ UNCHANGED << record, ram, copies >>
    BY <1>15 DEF WritePage1, logVars, romVars
  <2>2. pages'["slot0"] = pages["slot0"]
    BY <1>15 DEF WritePage1, IInv, TypeOK, Slots
  <2> QED
    BY <2>1, <2>2 DEF KeepInv, SealedIn, IsSealed, Copy0
<1>16. CASE StageRequest \/ UNCHANGED vars
  BY <1>16 DEF StageRequest, vars, logVars, romVars, KeepInv, HandsOver, SealedIn, IsSealed,
               Copy0, Copy1
<1>17. CASE Reset \/ PowerCut
  BY <1>17 DEF Reset, PowerCut, Restart, KeepInv
<1>18. CASE SecretUnreadable
  <2>1. /\ pc = "activate" /\ pc' = "launch" /\ ram'.state = ram.state /\ record' = record
    BY <1>18 DEF SecretUnreadable, logVars, WithSlot, IInv, TypeOK, BootData
  <2>2. ram.state = record.state /\ ram.state \in UnlockedStates
    BY <2>1 DEF IInv, RamInv, Agrees, PageInv, ActivateInv
  <2> QED
    BY <2>1, <2>2 DEF KeepInv, UnlockedStates
<1> QED
  BY <1>1, <1>2, <1>3, <1>4, <1>5, <1>6, <1>7, <1>8, <1>9, <1>10, <1>11, <1>12, <1>13, <1>14,
     <1>15, <1>16, <1>17, <1>18 DEF Next, RomExt, Environment

\* A page that was put back takes over.
BackupTakesOver ==
  /\ SealedIn(pages, "slot1")
  /\ InForce(pages') = pages["slot1"].block
  /\ InForce(pages') \in backups

\* Nobody takes the chip over while it is locked.
LEMMA LockedStep ==
  ASSUME IInv, PageInv, KeepInv, Next, StaysLocked
  PROVE  OwnerAndVersionKept \/ (~ PagesAreRead /\ BackupTakesOver)
<1> USE DEF StaysLocked, OwnerAndVersionKept
<1> DEFINE op == Head(plan)
<1>1. /\ pages \in [Slots -> OwnerPages]
      /\ \A s \in Slots : SealedIn(pages, s) =>
           pages[s].block \in Blocks /\ pages[s].block.version \in Nat
  BY OwnerBlockAssumption DEF IInv, TypeOK, SealedIn, OwnerPages, OwnerBlocks
<1>2. InForce(pages).version \in Nat
  BY <1>1 DEF InForce, SomeSealed, Slots
<1>3. CASE pages'["slot0"] = pages["slot0"] /\ SealedIn(pages, "slot0")
  <2>1. InForce(pages') = InForce(pages)
    BY <1>3 DEF InForce, SealedIn
  <2> QED
    BY <1>2, <2>1
<1>4. CASE pages' = pages
  BY <1>2, <1>4
<1>5. ASSUME pc = "running", pages' # pages
      PROVE  pages'["slot0"] = pages["slot0"] /\ SealedIn(pages, "slot0")
  <2>1. plan = << >>
    BY <1>5 DEF IInv, PlanInv
  <2>2. WritePage1
    BY <1>5, <2>1
       DEF Next, RomExt, Environment, Start, BeginUpdate, UpdateDone, Mirror, CopyDone,
           UnlockedInit, RecoveryInit, SkipService, ServeUnlock, ServeActivate,
           SecretUnreadable, ActivateDone, FlashOp, FlashError, SaveCommit, SaveDone, SaveFails, Launch, StageRequest, Reset,
           PowerCut
  <2>3. pages'["slot0"] = pages["slot0"]
    BY <2>2 DEF WritePage1, IInv, TypeOK, Slots
  <2>4. ram.state = "LockedOwner" /\ IsSealed(Copy0)
    BY <1>5, <2>2 DEF WritePage1, Page1Writable, NewVersionMode, KeepInv, UnlockedStates
  <2> QED
    BY <1>5, <2>3, <2>4 DEF KeepInv
<1>6. ASSUME pc # "running", pages' # pages
      PROVE  OwnerAndVersionKept \/ (~ PagesAreRead /\ BackupTakesOver)
  <2>1. PICK data : /\ plan # << >>
                    /\ data = op.data \/ data \in Torn(op)
                    /\ Put(op.page, data)
    BY <1>6, PageStep
  <2>2. plan \in Seq(FlashOps) /\ Len(plan) \in Nat /\ Len(plan) > 0 /\ op = plan[1]
    BY <2>1, EmptySeq, HeadTailProperties DEF IInv, TypeOK
  <2>3. op.page \in Slots /\ pages' = [pages EXCEPT ![op.page] = data]
    BY <1>6, <2>1, PutTyped
  <2>4. pc \in {"update", "copy"}
    <3>1. pc \in {"update", "copy", "activate"}
      BY <2>1 DEF IInv, PlanInv
    <3>2. pc # "activate"
      BY DEF IInv, RamInv, Agrees, PageInv, ActivateInv, UnlockedStates
    <3> QED
      BY <3>1, <3>2
  <2>5. CASE pc = "update"
    <3>1. copies["slot0"].status = "sealed" /\ copies["slot0"].block \in Blocks
      BY <2>5 DEF IInv, RepairInv, CopyInv, Slots
    <3>2. SealedIn(pages, "slot0")
      BY <2>5, <3>1, ExactSeals DEF PageInv, ExactInv, Slots
    <3>3. op.page = "slot1"
      BY <2>2, <2>5 DEF PageInv, UpdateInv, Writes
    <3>4. pages'["slot0"] = pages["slot0"]
      BY <1>1, <2>3, <3>3 DEF Slots
    <3> QED
      BY <1>3, <3>2, <3>4
  <2>6. CASE /\ pc = "copy" /\ SealedIn(pages, "slot0")
             /\ \A i \in 1..Len(plan) : plan[i].page = "slot1"
    <3>1. pages'["slot0"] = pages["slot0"]
      BY <1>1, <2>2, <2>3, <2>6 DEF Slots
    <3> QED
      BY <1>3, <2>6, <3>1
  <2>7. CASE /\ pc = "copy" /\ HandsOver
             /\ \A i \in 1..Len(plan) :
                  plan[i].page = "slot0" /\ plan[i].data \in {Bad, pages["slot1"]}
    <3>1. op.page = "slot0" /\ op.data \in {Bad, pages["slot1"]}
      BY <2>2, <2>7
    <3>2. pages'["slot0"] = data /\ pages'["slot1"] = pages["slot1"]
      BY <1>1, <2>3, <3>1 DEF Slots
    <3>3. data = pages["slot0"] \/ data = pages["slot1"] \/ ~ SealedIn(pages', "slot0")
      BY <2>1, <3>1, <3>2 DEF Torn, Contents, SealedIn
    <3>4. CASE data = pages["slot0"]
      <4>1. pages' = pages
        BY <1>1, <2>3, <3>1, <3>4
      <4> QED
        BY <1>6, <4>1
    <3>5. CASE data = pages["slot1"] \/ ~ SealedIn(pages', "slot0")
      <4>1. InForce(pages') = pages["slot1"].block
        BY <3>2, <3>5 DEF InForce
      <4>2. pages["slot1"].block.version \in Nat
        BY <1>1, <2>7 DEF HandsOver, Slots
      <4> QED
        BY <2>7, <4>1, <4>2 DEF InForce, HandsOver, BackupTakesOver
    <3> QED
      BY <3>3, <3>4, <3>5
  <2> QED
    BY <2>4, <2>5, <2>6, <2>7 DEF KeepInv
<1> QED
  BY <1>3, <1>4, <1>5, <1>6

\* What the pages of a locked chip go through keeps to this in every state.
LEMMA KeepInvariance == Spec => [](IInv /\ PageInv /\ KeepInv)
<1>1. Init => KeepInv
  BY DEF Init, KeepInv
<1>2. IInv /\ PageInv /\ BackupInv /\ KeepInv /\ [Next]_vars => KeepInv'
  BY StepKeep
<1> QED
  BY <1>1, <1>2, PageInvariance, PTL DEF Spec

(***************************************************************************)
(* While the chip stays locked the block it would run with keeps its       *)
(* owner, and its version never falls, if a page can always be read:       *)
(* locked_owner_init().                                                    *)
(***************************************************************************)
THEOREM LockedKeeps ==
  ASSUME PagesAreRead
  PROVE  Spec => LockedKeepsOwner
<1>1. IInv /\ PageInv /\ KeepInv /\ [Next]_vars => [StaysLocked => OwnerAndVersionKept]_vars
  BY LockedStep DEF vars
<1> QED
  BY <1>1, KeepInvariance, PTL DEF Spec, LockedKeepsOwner

(***************************************************************************)
(* Whatever fails, it gives way at most to a block that the chip sealed    *)
(* before and that firmware or rescue put back into page 1.                *)
(***************************************************************************)
THEOREM LockedKeepsOrBackup == Spec => LockedKeepsOwnerOrBackup
<1> DEFINE Keeps ==
      StaysLocked =>
        \/ OwnerAndVersionKept
        \/ /\ SealedIn(pages, "slot1")
           /\ InForce(pages') = pages["slot1"].block
           /\ InForce(pages') \in backups
<1>1. IInv /\ PageInv /\ KeepInv /\ [Next]_vars => [Keeps]_vars
  BY LockedStep DEF BackupTakesOver, vars
<1> QED
  BY <1>1, KeepInvariance, PTL DEF Spec, LockedKeepsOwnerOrBackup

=============================================================================
