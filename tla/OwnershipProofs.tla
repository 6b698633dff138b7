--------------------------- MODULE OwnershipProofs ---------------------------
(***************************************************************************)
(* Theorems about Ownership, for any owners, owner blocks, builds with and *)
(* without a recovery key, and any number of requests and faults.          *)
(***************************************************************************)
EXTENDS Ownership, SequenceTheorems, TLAPS

USE DEF history

-----------------------------------------------------------------------------
(***************************************************************************)
(* The inductive invariant.                                                *)
(***************************************************************************)

\* What is in retention RAM was drawn before; so were the nonces of boot data.
NonceInv ==
  /\ record.nonce <= nonces
  /\ ram.nonce <= nonces
  /\ msg.type = "request" => msg.request.nonce <= nonces

\* Until a request is accepted the RAM copy has the state and the nonce of the
\* record.  If the fall into Recovery could not be recorded, the RAM copy has a
\* nonce that no request has been made for.
Agrees == ram.state = record.state /\ ram.nonce = record.nonce

Fresh == msg.type = "request" => msg.request.nonce < ram.nonce

RamInv ==
  /\ pc \in {"init", "update", "mirror", "copy"} => Agrees
  /\ pc = "serve" => Agrees \/ Fresh
  /\ pc = "activate" =>
       /\ Agrees
       /\ msg.type = "request"
       /\ msg.request.op = "activate"
       /\ msg.request.nonce = record.nonce

\* A record being written has a new nonce; it is the fall into Recovery, or
\* serves a request made for the nonce it replaces.
SaveInv ==
  /\ pc \notin {"save", "recover"} => pending = NoData
  /\ pending # NoData =>
       /\ pending = ram
       /\ pending = record \/ pending.nonce > record.nonce
       /\ pc = "recover" => ram.state = "Recovery" /\ Fresh
       /\ pc = "save" =>
            /\ msg.type = "response"
            /\ pending = record \/ msg.request.nonce = record.nonce

\* The RAM copies are what was read from the pages, as far as it matters: a
\* page that was found sealed is sealed, one that was found signed is not.
Faithful(slot) ==
  /\ copies[slot].status = "sealed" => SealedIn(pages, slot)
  /\ copies[slot].status = "signed" => ~ SealedIn(pages, slot)

\* What the first n of these flash operations make of these pages
SealsPage(op, slot) == op.page = slot /\ op.data # Bad
SealedBy(content, ops, n, slot) ==
  \/ SealedIn(content, slot) /\ \A i \in 1..n : ops[i].page # slot
  \/ \E i \in 1..n : /\ SealsPage(ops[i], slot)
                     /\ \A j \in (i + 1)..n : ops[j].page # slot
NothingSealedBy(content, ops, n) ==
  /\ ~ SomeSealed(content)
  /\ \A i \in 1..n, s \in Slots : ~ SealsPage(ops[i], s)

\* Pages are erased and then sealed.  When it is a page's turn the other one is
\* sealed, unless there is no sealed page at all.
Orderly(content, ops) ==
  \A i \in 1..Len(ops) : ops[i].page \in Slots =>
    /\ ops[i].data # Bad => ops[i].data.sealed
    /\ \/ SealedBy(content, ops, i - 1, Other(ops[i].page))
       \/ NothingSealedBy(content, ops, i - 1)

PlanInv ==
  /\ Orderly(pages, plan)
  /\ pc \notin {"update", "copy", "activate"} => plan = << >>

\* A page that is not invalid has a block, and so has one that is being repaired.
CopyInv ==
  /\ \A s \in Slots : copies[s].status # "invalid" => copies[s].block \in Blocks
  /\ pc = "update" => copies["slot1"].status = "signed"
  /\ pc = "copy" => \A s \in Slots : copies[s].block \in Blocks

\* An update or a repair touches only a page that was not found sealed, and
\* leaves both pages sealed, or what was read unless it is complete.
RepairInv ==
  /\ pc = "update" => copies["slot0"].status = "sealed"
  /\ pc \in {"update", "copy"} =>
       /\ \A s \in Slots : SealedBy(pages, plan, Len(plan), s)
       /\ \A i \in 1..Len(plan) :
            /\ plan[i].page \in Slots
            /\ copies[plan[i].page].status # "sealed"
            /\ i < Len(plan) => plan[i].data = Bad
       /\ plan # << >> => \A s \in Slots : Faithful(s)
  /\ pc \in {"init", "mirror", "recover", "serve"} => \A s \in Slots : Faithful(s)

IInv ==
  /\ TypeOK
  /\ NonceInv
  /\ RamInv
  /\ SaveInv
  /\ PlanInv
  /\ CopyInv
  /\ RepairInv

-----------------------------------------------------------------------------
(***************************************************************************)
(* Plans.                                                                  *)
(***************************************************************************)

\* The two operations by which a page gets a sealed block.
LEMMA RewriteSeq ==
  ASSUME NEW slot \in Slots, NEW b \in Blocks
  PROVE  /\ Rewrite(slot, Sealed(b)) \in Seq(FlashOps)
         /\ Len(Rewrite(slot, Sealed(b))) = 2
         /\ Rewrite(slot, Sealed(b))[1] = EraseOf(slot)
         /\ Rewrite(slot, Sealed(b))[2] = [page |-> slot, data |-> Sealed(b)]
<1>1. Sealed(b) \in OwnerPages /\ Bad \in OwnerPages
  BY DEF Sealed, OwnerPages
<1>2. EraseOf(slot) \in FlashOps /\ [page |-> slot, data |-> Sealed(b)] \in FlashOps
  BY <1>1 DEF FlashOps, EraseOf
<1> QED
  BY <1>2 DEF Rewrite

\* Their pages and what they leave
LEMMA RewriteFields ==
  ASSUME NEW slot \in Slots, NEW b \in Blocks
  PROVE  /\ Rewrite(slot, Sealed(b))[1].page = slot
         /\ Rewrite(slot, Sealed(b))[1].data = Bad
         /\ Rewrite(slot, Sealed(b))[2].page = slot
         /\ \A i \in 1..Len(Rewrite(slot, Sealed(b))) : i = 1 \/ i = 2
<1>1. /\ Len(Rewrite(slot, Sealed(b))) = 2
      /\ Rewrite(slot, Sealed(b))[1] = EraseOf(slot)
      /\ Rewrite(slot, Sealed(b))[2] = [page |-> slot, data |-> Sealed(b)]
  BY RewriteSeq
<1> QED
  BY <1>1 DEF EraseOf

\* A sealed page is not Bad.
LEMMA SealedIsNotBad ==
  ASSUME NEW b \in Blocks
  PROVE  Sealed(b) # Bad /\ Sealed(b).sealed
BY OwnerBlockAssumption DEF Sealed

\* A page is rewritten in order if the other one is sealed, and then both are.
LEMMA RewriteOrderly ==
  ASSUME NEW content, NEW slot \in Slots, NEW b \in Blocks, SealedIn(content, Other(slot))
  PROVE  /\ Orderly(content, Rewrite(slot, Sealed(b)))
         /\ \A s \in Slots : SealedBy(content, Rewrite(slot, Sealed(b)), 2, s)
<1> DEFINE ops == Rewrite(slot, Sealed(b))
<1>1. Len(ops) = 2 /\ ops[1] = EraseOf(slot) /\ ops[2] = [page |-> slot, data |-> Sealed(b)]
  BY RewriteSeq
<1>2. ops[1].page = slot /\ ops[1].data = Bad /\ ops[2].page = slot /\ ops[2].data = Sealed(b)
  BY <1>1 DEF EraseOf
<1>3. slot # Other(slot) /\ \A s \in Slots : s = slot \/ s = Other(slot)
  BY DEF Slots, Other
<1> HIDE DEF ops
<1>4. \A n \in 0..2 : SealedBy(content, ops, n, Other(slot))
  BY <1>2, <1>3 DEF SealedBy
<1>5. SealedBy(content, ops, 2, slot)
  BY <1>2, SealedIsNotBad DEF SealedBy, SealsPage
<1>6. Orderly(content, ops)
  BY <1>1, <1>2, <1>4, SealedIsNotBad DEF Orderly
<1> QED
  BY <1>3, <1>4, <1>5, <1>6 DEF ops

\* What the first operation of a plan makes of the pages
Done(content, op) ==
  IF op.page \in Slots THEN [content EXCEPT ![op.page] = op.data] ELSE content

\* A plan is as good with its first operation done.
LEMMA Shifted ==
  ASSUME NEW content \in [Slots -> OwnerPages], NEW ops \in Seq(FlashOps), ops # << >>,
         Head(ops).page \in Slots /\ Head(ops).data # Bad => Head(ops).data.sealed,
         NEW n \in 0..(Len(ops) - 1), NEW slot \in Slots
  PROVE  /\ SealedBy(content, ops, n + 1, slot) =>
              SealedBy(Done(content, Head(ops)), Tail(ops), n, slot)
         /\ NothingSealedBy(content, ops, n + 1) =>
              NothingSealedBy(Done(content, Head(ops)), Tail(ops), n)
<1> DEFINE after == Done(content, Head(ops))
<1>1. Len(ops) \in Nat /\ Len(ops) > 0 /\ Head(ops) = ops[1] /\ Len(Tail(ops)) = Len(ops) - 1
  BY EmptySeq, HeadTailProperties
<1>2. \A i \in 1..n : Tail(ops)[i] = ops[i + 1]
  BY <1>1, HeadTailProperties
<1>3. after[slot] = IF ops[1].page = slot THEN ops[1].data ELSE content[slot]
  BY <1>1 DEF Done
<1>4. ASSUME SealedBy(content, ops, n + 1, slot)
      PROVE  SealedBy(after, Tail(ops), n, slot)
  <2>1. CASE SealedIn(content, slot) /\ \A i \in 1..(n + 1) : ops[i].page # slot
    <3>1. SealedIn(after, slot)
      BY <1>3, <2>1 DEF SealedIn
    <3>2. \A i \in 1..n : Tail(ops)[i].page # slot
      BY <1>2, <2>1
    <3> QED
      BY <3>1, <3>2 DEF SealedBy
  <2>2. ASSUME NEW k \in 1..(n + 1), SealsPage(ops[k], slot),
               \A j \in (k + 1)..(n + 1) : ops[j].page # slot
        PROVE  SealedBy(after, Tail(ops), n, slot)
    <3>1. CASE k = 1
      <4>1. SealedIn(after, slot)
        BY <1>1, <1>3, <2>2, <3>1 DEF SealedIn, SealsPage
      <4>2. \A i \in 1..n : i + 1 \in (k + 1)..(n + 1)
        BY <3>1
      <4>3. \A i \in 1..n : Tail(ops)[i].page # slot
        BY <1>2, <2>2, <4>2
      <4> QED
        BY <4>1, <4>3 DEF SealedBy
    <3>2. CASE k # 1
      <4>1. k - 1 \in 1..n /\ SealsPage(Tail(ops)[k - 1], slot)
        BY <1>2, <2>2, <3>2
      <4>2. \A j \in ((k - 1) + 1)..n : j \in 1..n /\ j + 1 \in (k + 1)..(n + 1)
        BY <3>2
      <4>3. \A j \in ((k - 1) + 1)..n : Tail(ops)[j].page # slot
        BY <1>2, <2>2, <4>2
      <4> QED
        BY <4>1, <4>3 DEF SealedBy
    <3> QED
      BY <3>1, <3>2
  <2> QED
    BY <1>4, <2>1, <2>2 DEF SealedBy
<1>5. ASSUME NothingSealedBy(content, ops, n + 1)
      PROVE  NothingSealedBy(after, Tail(ops), n)
  <2>1. \A s \in Slots : ~ SealsPage(ops[1], s)
    BY <1>5 DEF NothingSealedBy
  <2>2. \A s \in Slots : ~ SealedIn(after, s)
    BY <1>1, <1>5, <2>1 DEF NothingSealedBy, SomeSealed, SealedIn, SealsPage, Done
  <2>3. \A i \in 1..n, s \in Slots : ~ SealsPage(Tail(ops)[i], s)
    BY <1>2, <1>5 DEF NothingSealedBy
  <2> QED
    BY <2>2, <2>3 DEF NothingSealedBy, SomeSealed
<1> QED
  BY <1>4, <1>5

\* What is left of an orderly plan is orderly when the first operation is done.
LEMMA OrderlyTail ==
  ASSUME NEW content \in [Slots -> OwnerPages], NEW ops \in Seq(FlashOps), ops # << >>,
         Orderly(content, ops)
  PROVE  Orderly(Done(content, Head(ops)), Tail(ops))
<1>1. Len(ops) \in Nat /\ Len(ops) > 0 /\ Head(ops) = ops[1] /\ Len(Tail(ops)) = Len(ops) - 1
  BY EmptySeq, HeadTailProperties
<1>2. \A i \in 1..Len(Tail(ops)) : Tail(ops)[i] = ops[i + 1]
  BY <1>1, HeadTailProperties
<1>3. Head(ops).page \in Slots /\ Head(ops).data # Bad => Head(ops).data.sealed
  BY <1>1 DEF Orderly
<1> SUFFICES ASSUME NEW i \in 1..Len(Tail(ops)), Tail(ops)[i].page \in Slots
             PROVE  /\ Tail(ops)[i].data # Bad => Tail(ops)[i].data.sealed
                    /\ \/ SealedBy(Done(content, Head(ops)), Tail(ops), i - 1,
                                   Other(Tail(ops)[i].page))
                       \/ NothingSealedBy(Done(content, Head(ops)), Tail(ops), i - 1)
  BY DEF Orderly
<1>4. i + 1 \in 1..Len(ops) /\ ops[i + 1] = Tail(ops)[i] /\ (i + 1) - 1 = (i - 1) + 1
  BY <1>1, <1>2
<1>5. /\ ops[i + 1].data # Bad => ops[i + 1].data.sealed
      /\ \/ SealedBy(content, ops, (i - 1) + 1, Other(ops[i + 1].page))
         \/ NothingSealedBy(content, ops, (i - 1) + 1)
  BY <1>4 DEF Orderly
<1>6. Other(ops[i + 1].page) \in Slots /\ i - 1 \in 0..(Len(ops) - 1)
  BY <1>1, <1>4 DEF Slots, Other
<1> QED
  BY <1>3, <1>4, <1>5, <1>6, Shifted

\* The operation that is next in an orderly plan leaves the other page sealed.
LEMMA NextIsSafe ==
  ASSUME NEW content, NEW ops \in Seq(FlashOps), ops # << >>,
         Orderly(content, ops), SomeSealed(content), Head(ops).page \in Slots
  PROVE  SealedIn(content, Other(Head(ops).page))
<1>1. Len(ops) \in Nat /\ Len(ops) > 0 /\ Head(ops) = ops[1]
  BY EmptySeq, HeadTailProperties
<1>2. SealedBy(content, ops, 0, Other(ops[1].page)) \/ NothingSealedBy(content, ops, 0)
  BY <1>1 DEF Orderly
<1> QED
  BY <1>1, <1>2 DEF SealedBy, NothingSealedBy

\* An activation rewrites page 1, page 0 and perhaps the secret page.
LEMMA ActivationSeq ==
  ASSUME NEW b \in Blocks, NEW x \in Seq(FlashOps)
  PROVE  LET ops == Rewrite("slot1", Sealed(b)) \o Rewrite("slot0", Sealed(b)) \o x
         IN  /\ ops \in Seq(FlashOps)
             /\ Len(ops) = 4 + Len(x)
             /\ ops[1] = EraseOf("slot1") /\ ops[2] = [page |-> "slot1", data |-> Sealed(b)]
             /\ ops[3] = EraseOf("slot0") /\ ops[4] = [page |-> "slot0", data |-> Sealed(b)]
             /\ \A i \in 5..Len(ops) : i - 4 \in 1..Len(x) /\ ops[i] = x[i - 4]
<1> DEFINE r1 == Rewrite("slot1", Sealed(b))
           r0 == Rewrite("slot0", Sealed(b))
<1>1. /\ r1 \in Seq(FlashOps) /\ Len(r1) = 2
      /\ r1[1] = EraseOf("slot1") /\ r1[2] = [page |-> "slot1", data |-> Sealed(b)]
  BY RewriteSeq DEF Slots
<1>2. /\ r0 \in Seq(FlashOps) /\ Len(r0) = 2
      /\ r0[1] = EraseOf("slot0") /\ r0[2] = [page |-> "slot0", data |-> Sealed(b)]
  BY RewriteSeq DEF Slots
<1> HIDE DEF r1, r0
<1>3. /\ r1 \o r0 \in Seq(FlashOps)
      /\ Len(r1 \o r0) = 4
      /\ \A i \in 1..4 : (r1 \o r0)[i] = IF i <= 2 THEN r1[i] ELSE r0[i - 2]
  <2>1. /\ r1 \o r0 \in Seq(FlashOps)
        /\ Len(r1 \o r0) = Len(r1) + Len(r0)
        /\ \A i \in 1..(Len(r1) + Len(r0)) :
             (r1 \o r0)[i] = IF i <= Len(r1) THEN r1[i] ELSE r0[i - Len(r1)]
    BY <1>1, <1>2, ConcatProperties
  <2> QED
    BY <1>1, <1>2, <2>1
<1> DEFINE r == r1 \o r0
<1> HIDE DEF r
<1>4. /\ r \in Seq(FlashOps) /\ Len(r) = 4
      /\ r[1] = EraseOf("slot1") /\ r[2] = [page |-> "slot1", data |-> Sealed(b)]
      /\ r[3] = EraseOf("slot0") /\ r[4] = [page |-> "slot0", data |-> Sealed(b)]
  BY <1>1, <1>2, <1>3 DEF r
<1>5. /\ r \o x \in Seq(FlashOps)
      /\ Len(x) \in Nat
      /\ Len(r \o x) = 4 + Len(x)
      /\ \A i \in 1..(4 + Len(x)) : (r \o x)[i] = IF i <= 4 THEN r[i] ELSE x[i - 4]
  <2>1. /\ r \o x \in Seq(FlashOps)
        /\ Len(r \o x) = Len(r) + Len(x)
        /\ \A i \in 1..(Len(r) + Len(x)) :
             (r \o x)[i] = IF i <= Len(r) THEN r[i] ELSE x[i - Len(r)]
    BY <1>4, ConcatProperties
  <2>2. Len(x) \in Nat
    BY LenProperties
  <2> QED
    BY <1>4, <2>1, <2>2
<1>6. /\ r \o x \in Seq(FlashOps)
      /\ Len(r \o x) = 4 + Len(x)
      /\ (r \o x)[1] = EraseOf("slot1")
      /\ (r \o x)[2] = [page |-> "slot1", data |-> Sealed(b)]
      /\ (r \o x)[3] = EraseOf("slot0")
      /\ (r \o x)[4] = [page |-> "slot0", data |-> Sealed(b)]
      /\ \A i \in 5..Len(r \o x) : i - 4 \in 1..Len(x) /\ (r \o x)[i] = x[i - 4]
  BY <1>4, <1>5
<1> QED
  BY <1>6 DEF r, r1, r0

\* Its order is right if page 1 is not sealed, as it is not when it is signed.
LEMMA ActivationOrderly ==
  ASSUME NEW content, NEW b \in Blocks, NEW x \in Seq(FlashOps),
         \A i \in 1..Len(x) : x[i].page = "secret", ~ SealedIn(content, "slot1")
  PROVE  Orderly(content, Rewrite("slot1", Sealed(b)) \o Rewrite("slot0", Sealed(b)) \o x)
<1> DEFINE ops == Rewrite("slot1", Sealed(b)) \o Rewrite("slot0", Sealed(b)) \o x
<1>1. /\ Len(ops) = 4 + Len(x) /\ Len(x) \in Nat
      /\ ops[1].page = "slot1" /\ ops[1].data = Bad
      /\ ops[2].page = "slot1" /\ ops[2].data = Sealed(b)
      /\ ops[3].page = "slot0" /\ ops[3].data = Bad
      /\ ops[4].page = "slot0" /\ ops[4].data = Sealed(b)
      /\ \A i \in 5..Len(ops) : ops[i].page = "secret"
  <2>1. Len(ops) = 4 + Len(x) /\ Len(x) \in Nat
    BY ActivationSeq, LenProperties
  <2>2. /\ ops[1] = EraseOf("slot1") /\ ops[2] = [page |-> "slot1", data |-> Sealed(b)]
        /\ ops[3] = EraseOf("slot0") /\ ops[4] = [page |-> "slot0", data |-> Sealed(b)]
    BY ActivationSeq
  <2>3. \A i \in 5..Len(ops) : i - 4 \in 1..Len(x) /\ ops[i] = x[i - 4]
    BY ActivationSeq
  <2> HIDE DEF ops
  <2>4. \A i \in 5..Len(ops) : ops[i].page = "secret"
    BY <2>3
  <2> QED
    BY <2>1, <2>2, <2>4 DEF EraseOf
<1> HIDE DEF ops
<1>2. Other("slot0") = "slot1" /\ Other("slot1") = "slot0" /\ "secret" \notin Slots
  BY DEF Slots, Other
<1>3. ASSUME SealedBy(content, ops, 0, "slot0") \/ NothingSealedBy(content, ops, 0),
             SealedBy(content, ops, 1, "slot0") \/ NothingSealedBy(content, ops, 1),
             SealedBy(content, ops, 2, "slot1"), SealedBy(content, ops, 3, "slot1")
      PROVE  Orderly(content, ops)
  <2> SUFFICES ASSUME NEW i \in 1..Len(ops), ops[i].page \in Slots
               PROVE  /\ ops[i].data # Bad => ops[i].data.sealed
                      /\ \/ SealedBy(content, ops, i - 1, Other(ops[i].page))
                         \/ NothingSealedBy(content, ops, i - 1)
    BY DEF Orderly
  <2>1. i = 1 \/ i = 2 \/ i = 3 \/ i = 4
    BY <1>1, <1>2
  <2> QED
    BY <1>1, <1>2, <1>3, <2>1, SealedIsNotBad
<1>4. ASSUME SealedIn(content, "slot0") PROVE Orderly(content, ops)
  <2>1. SealedBy(content, ops, 0, "slot0") /\ SealedBy(content, ops, 1, "slot0")
    BY <1>1, <1>4 DEF SealedBy
  <2>2. SealedBy(content, ops, 2, "slot1") /\ SealedBy(content, ops, 3, "slot1")
    BY <1>1, SealedIsNotBad DEF SealedBy, SealsPage
  <2> QED
    BY <1>3, <2>1, <2>2
<1>5. ASSUME ~ SealedIn(content, "slot0") PROVE Orderly(content, ops)
  <2>1. NothingSealedBy(content, ops, 0) /\ NothingSealedBy(content, ops, 1)
    BY <1>1, <1>5 DEF NothingSealedBy, SomeSealed, SealsPage, Slots
  <2>2. SealedBy(content, ops, 2, "slot1") /\ SealedBy(content, ops, 3, "slot1")
    BY <1>1, SealedIsNotBad DEF SealedBy, SealsPage
  <2> QED
    BY <1>3, <2>1, <2>2
<1> QED
  BY <1>4, <1>5 DEF ops

\* What an activation does to the secret page
SecretPlan == IF ram.state = "UnlockedSelf" THEN << >> ELSE Rewrite("secret", NewSecret)

LEMMA SecretOps ==
  ASSUME Copy0.block \in Blocks \cup {NoBlock},
         secret \in Seq(Owners \cup {NoOwner}) \cup {Bad}
  PROVE  /\ SecretPlan \in Seq(FlashOps) /\ Len(SecretPlan) \in Nat
         /\ \A i \in 1..Len(SecretPlan) : SecretPlan[i].page = "secret"
         /\ ram.state # "UnlockedSelf" =>
              /\ Len(SecretPlan) = 2
              /\ SecretPlan[1].data = Bad /\ SecretPlan[2].data # Bad
<1>1. NewSecret \in Seq(Owners \cup {NoOwner})
  <2> DEFINE old == IF secret = Bad THEN << NoOwner >> ELSE secret
             prior == IF Copy0.block = NoBlock THEN NoOwner ELSE Copy0.block.owner
  <2>1. old \in Seq(Owners \cup {NoOwner})
    <3>1. << NoOwner >> \in Seq(Owners \cup {NoOwner})
      OBVIOUS
    <3> QED
      BY <3>1
  <2>2. prior \in Owners \cup {NoOwner}
    BY OwnerBlockAssumption DEF OwnerBlocks
  <2>3. NewSecret = Append(old, prior)
    BY DEF NewSecret
  <2> HIDE DEF old, prior
  <2> QED
    BY <2>1, <2>2, <2>3, AppendProperties
<1>2. EraseOf("secret") \in FlashOps /\ [page |-> "secret", data |-> NewSecret] \in FlashOps
  BY <1>1 DEF FlashOps, EraseOf
<1>3. CASE ram.state = "UnlockedSelf"
  BY <1>3, EmptySeq DEF SecretPlan
<1>4. CASE ram.state # "UnlockedSelf"
  <2>1. SecretPlan = << EraseOf("secret"), [page |-> "secret", data |-> NewSecret] >>
    BY <1>4 DEF SecretPlan, Rewrite
  <2>2. EraseOf("secret").page = "secret" /\ EraseOf("secret").data = Bad
    BY DEF EraseOf
  <2>3. /\ SecretPlan \in Seq(FlashOps) /\ Len(SecretPlan) = 2
        /\ SecretPlan[1] = EraseOf("secret")
        /\ SecretPlan[2] = [page |-> "secret", data |-> NewSecret]
    BY <1>2, <2>1
  <2>4. SecretPlan[2].page = "secret" /\ SecretPlan[2].data # Bad
    BY <1>1, <2>3, OwnershipAssumption
  <2> QED
    BY <2>2, <2>3, <2>4
<1> QED
  BY <1>3, <1>4

\* The plan of this activation
LEMMA ActivationPlanGood ==
  ASSUME Copy1.block \in Blocks, Copy0.block \in Blocks \cup {NoBlock},
         secret \in Seq(Owners \cup {NoOwner}) \cup {Bad}, ~ SealedIn(pages, "slot1")
  PROVE  ActivationPlan \in Seq(FlashOps) /\ Orderly(pages, ActivationPlan)
<1>1. ActivationPlan = Rewrite("slot1", Sealed(Copy1.block))
                         \o Rewrite("slot0", Sealed(Copy1.block)) \o SecretPlan
  BY DEF ActivationPlan, SecretPlan
<1> QED
  BY <1>1, SecretOps, ActivationSeq, ActivationOrderly

-----------------------------------------------------------------------------
(***************************************************************************)
(* Types.                                                                  *)
(***************************************************************************)

\* What is read from an owner page.
LEMMA CopyTyped ==
  ASSUME NEW page \in OwnerPages
  PROVE  CopyOf(page) \in Copies
BY DEF OwnerPages, CopyOf, Copies, Destroyed

\* A page that was read is what its copy says.
LEMMA CopyFaithful ==
  ASSUME NEW page \in OwnerPages
  PROVE  /\ CopyOf(page).status = "sealed" => page # Bad /\ page.sealed
         /\ CopyOf(page).status = "signed" => page = Bad \/ ~ page.sealed
BY DEF OwnerPages, CopyOf, Destroyed

\* Boot data after the fall into Recovery
LEMMA RecoveryTyped ==
  ASSUME ram \in BootData, nonces \in Nat
  PROVE  LET new == [ram EXCEPT !.state = "Recovery", !.nonce = nonces + 1]
         IN  new \in BootData /\ new.state = "Recovery" /\ new.nonce = nonces + 1
<1>1. "Recovery" \in OwnershipStates /\ nonces + 1 \in Nat
  BY DEF OwnershipStates
<1> QED
  BY <1>1 DEF BootData

\* Boot data after an unlock
LEMMA UnlockedTyped ==
  ASSUME ram \in BootData, nonces \in Nat, NEW req \in Requests, req.op # "activate"
  PROVE  LET new == [Unlocked(req) EXCEPT !.nonce = nonces + 1]
         IN  new \in BootData /\ new.nonce = nonces + 1
<1>1. req.op \in {"any", "endorsed", "update", "abort"} /\ req.next \in Owners \cup {NoOwner}
  BY DEF Requests
<1>2. Unlocked(req) \in BootData
  BY <1>1 DEF Unlocked, BootData, OwnershipStates, UnlockedStates
<1> QED
  BY <1>2 DEF BootData

\* Boot data after an activation
LEMMA ActivatedTyped ==
  ASSUME ram \in BootData, nonces \in Nat, NEW req \in Requests, NEW moved \in {0, 1}
  PROVE  LET new == [WithSlot(req) EXCEPT
                       !.state = "LockedOwner",
                       !.nextOwner = NoOwner,
                       !.transfers = @ + moved,
                       !.nonce = nonces + 1]
         IN  new \in BootData /\ new.nonce = nonces + 1
<1>1. WithSlot(req) \in BootData
  BY DEF WithSlot, BootData
<1>2. "LockedOwner" \in OwnershipStates /\ nonces + 1 \in Nat
  BY DEF OwnershipStates
<1>3. WithSlot(req).transfers + moved \in Nat
  BY <1>1 DEF BootData
<1> QED
  BY <1>1, <1>2, <1>3 DEF BootData

\* Boot data with the minimum security version of a block
LEMMA WithMinSecTyped ==
  ASSUME ram \in BootData, NEW block \in Blocks
  PROVE  /\ WithMinSec(block) \in BootData
         /\ WithMinSec(block).state = ram.state
         /\ WithMinSec(block).nonce = ram.nonce
<1>1. block.minSec \in Nat \cup {NoChange}
  BY OwnerBlockAssumption DEF OwnerBlocks
<1> QED
  BY <1>1 DEF WithMinSec, BootData

\* The boot services message
LEMMA ResponseTyped ==
  ASSUME msg \in Messages, msg.type # "none", NEW result \in {"ok", "refused", "failed"}
  PROVE  /\ msg.request \in Requests
         /\ Respond(result) \in Messages
         /\ Respond(result).type = "response"
         /\ Respond(result).request = msg.request
BY DEF Messages, NoMessage, Respond

\* What an interrupted operation leaves
LEMMA TornTyped ==
  ASSUME NEW op \in FlashOps, pages \in [Slots -> OwnerPages],
         secret \in Seq(Owners \cup {NoOwner}) \cup {Bad},
         NEW left \in Torn(op)
  PROVE  /\ op.page \in Slots => left \in OwnerPages
         /\ op.page \notin Slots => left \in Seq(Owners \cup {NoOwner}) \cup {Bad}
         /\ op.page \in Slots => left = pages[op.page] \/ left = Bad \/ ~ left.sealed
<1>1. op.page = "secret" \/ op.page \in Slots
  BY DEF FlashOps
<1>2. CASE op.page = "secret"
  <2>1. op.page \notin Slots
    BY <1>2 DEF Slots
  <2>2. left = secret \/ left = Bad
    BY <1>2 DEF Torn, Contents
  <2> QED
    BY <2>1, <2>2
<1>3. CASE op.page \in Slots
  <2>1. op.page # "secret" /\ pages[op.page] \in OwnerPages
    BY <1>3 DEF Slots
  <2>2. \/ left = pages[op.page]
        \/ left = Bad
        \/ \E b \in Blocks : left = [block |-> b, sealed |-> FALSE]
    BY <2>1 DEF Torn, Contents
  <2>3. \A b \in Blocks : [block |-> b, sealed |-> FALSE] \in OwnerPages
    BY DEF OwnerPages
  <2>4. left \in OwnerPages
    BY <2>1, <2>2, <2>3 DEF OwnerPages
  <2>5. left = pages[op.page] \/ left = Bad \/ ~ left.sealed
    BY <2>2
  <2> QED
    BY <1>3, <2>4, <2>5
<1> QED
  BY <1>1, <1>2, <1>3

-----------------------------------------------------------------------------
(***************************************************************************)
(* Every action of ROM_EXT and of its environment keeps the invariant: one *)
(* lemma per action, one step per conjunct.                                *)
(***************************************************************************)

\* A boot reads the record and the pages, and what it reads is what is there.
LEMMA StartKeeps ==
  ASSUME IInv, Start
  PROVE  IInv'
<1>1. copies' \in [Slots -> Copies] /\ faults' \in 0..MaxFaults
  <2>1. Destroyed \in Copies /\ \A s \in Slots : CopyOf(pages[s]) \in Copies
    BY CopyTyped DEF IInv, TypeOK, Destroyed, Copies
  <2> QED
    BY <2>1, OwnershipAssumption DEF IInv, TypeOK, Start, Fault
<1>2. TypeOK'
  BY <1>1 DEF IInv, TypeOK, Start, Log!Read, Booting
<1>3. NonceInv'
  BY DEF IInv, NonceInv, Start, Log!Read
<1>4. RamInv'
  BY DEF Start, Log!Read, RamInv, Agrees
<1>5. SaveInv'
  BY DEF IInv, Start, Log!Read, SaveInv
<1>6. PlanInv'
  BY DEF IInv, Start, PlanInv
<1>7. CopyInv'
  BY <1>1 DEF IInv, TypeOK, OwnerPages, CopyOf, Destroyed, CopyInv, Start
<1>8. RepairInv'
  <2>1. \A s \in Slots : copies'[s] = Destroyed \/ copies'[s] = CopyOf(pages[s])
    BY DEF Start
  <2>2. \A s \in Slots : Faithful(s)'
    BY <2>1, CopyFaithful DEF IInv, TypeOK, Start, Faithful, SealedIn, Destroyed
  <2> QED
    BY <2>2 DEF Start, RepairInv
<1> QED
  BY <1>2, <1>3, <1>4, <1>5, <1>6, <1>7, <1>8 DEF IInv

\* An update rewrites page 1, while page 0 is sealed.
LEMMA BeginUpdateKeeps ==
  ASSUME IInv, BeginUpdate
  PROVE  IInv'
<1>1. Copy1.block \in Blocks
  BY DEF IInv, TypeOK, Copies, BeginUpdate, UpdateWanted, OwnerKeyEqual, Copy1, Slots
<1>2. ram' \in BootData /\ ram'.state = ram.state /\ ram'.nonce = ram.nonce
  BY <1>1, WithMinSecTyped DEF IInv, TypeOK, BeginUpdate
<1>3. plan' = Rewrite("slot1", Sealed(Copy1.block)) /\ pages' = pages
  BY DEF BeginUpdate
<1>4. copies["slot0"].status = "sealed" /\ copies["slot1"].status = "signed"
  BY DEF BeginUpdate, UpdateWanted, NewVersionMode, IsSealed, Copy0, Copy1
<1>5. SealedIn(pages, "slot0")
  BY <1>4 DEF IInv, RepairInv, Faithful, BeginUpdate, Slots
<1>6. Other("slot1") = "slot0" /\ "slot1" \in Slots
  BY DEF Other, Slots
<1>7. TypeOK'
  BY <1>1, <1>2, <1>3, <1>6, RewriteSeq DEF IInv, TypeOK, BeginUpdate, logVars, Booting
<1>8. NonceInv' /\ RamInv' /\ SaveInv'
  BY <1>2 DEF IInv, NonceInv, RamInv, Agrees, SaveInv, BeginUpdate, logVars
<1>9. PlanInv'
  BY <1>1, <1>3, <1>5, <1>6, RewriteOrderly DEF PlanInv, BeginUpdate
<1>10. CopyInv'
  BY <1>4 DEF IInv, CopyInv, BeginUpdate
<1>11. RepairInv'
  <2>1. \A s \in Slots : SealedBy(pages, plan, Len(plan), s)'
    BY <1>1, <1>3, <1>5, <1>6, RewriteSeq, RewriteOrderly
  <2>2. \A i \in 1..Len(plan') : plan'[i].page = "slot1" /\ (i < Len(plan') => plan'[i].data = Bad)
    BY <1>1, <1>3, <1>6, RewriteSeq, RewriteFields
  <2>3. \A s \in Slots : Faithful(s)'
    BY DEF IInv, RepairInv, Faithful, BeginUpdate
  <2> QED
    BY <1>4, <1>6, <2>1, <2>2, <2>3 DEF RepairInv, BeginUpdate
<1> QED
  BY <1>7, <1>8, <1>9, <1>10, <1>11 DEF IInv

\* An update that is done leaves both pages sealed.
LEMMA UpdateDoneKeeps ==
  ASSUME IInv, UpdateDone
  PROVE  IInv'
<1>1. TypeOK'
  <2>1. copies' \in [Slots -> Copies]
    BY DEF IInv, TypeOK, UpdateDone, Copies, Slots
  <2> QED
    BY <2>1 DEF IInv, TypeOK, UpdateDone, logVars, Booting
<1>2. NonceInv' /\ RamInv' /\ SaveInv' /\ PlanInv'
  BY DEF IInv, NonceInv, RamInv, Agrees, SaveInv, PlanInv, UpdateDone, logVars
<1>3. CopyInv'
  <2>1. copies'["slot0"].status = "invalid" /\ copies'["slot1"].block = copies["slot1"].block
    BY DEF IInv, TypeOK, Copies, UpdateDone, Slots
  <2>2. copies["slot1"].block \in Blocks
    BY DEF IInv, CopyInv, UpdateDone, Slots
  <2> QED
    BY <2>1, <2>2 DEF CopyInv, UpdateDone, Slots
<1>4. RepairInv'
  <2>1. \A s \in Slots : SealedIn(pages, s)
    BY DEF IInv, RepairInv, UpdateDone, SealedBy
  <2>2. \A s \in Slots : copies'[s].status \in {"invalid", "sealed"}
    BY DEF IInv, TypeOK, Copies, UpdateDone, Slots
  <2> QED
    BY <2>1, <2>2 DEF RepairInv, Faithful, UpdateDone
<1> QED
  BY <1>1, <1>2, <1>3, <1>4 DEF IInv

\* Nothing to repair, or repaired: the configuration is applied.
LEMMA ApplyKeeps ==
  ASSUME IInv, pc \in {"init", "mirror"}, NEW b \in Blocks \cup {NoBlock},
         config' \in {b, NoBlock}, pc' = "serve",
         UNCHANGED << logVars, pages, secret, msg, ram, copies, plan, nonces, faults, history >>
  PROVE  IInv'
<1>1. TypeOK'
  BY DEF IInv, TypeOK, logVars, Booting
<1>2. NonceInv' /\ SaveInv' /\ PlanInv'
  BY DEF IInv, NonceInv, SaveInv, PlanInv, logVars
<1>3. RamInv'
  BY DEF IInv, RamInv, Agrees, logVars
<1>4. CopyInv' /\ RepairInv'
  BY DEF IInv, CopyInv, RepairInv, Faithful
<1> QED
  BY <1>1, <1>2, <1>3, <1>4 DEF IInv

\* The fall into Recovery has a nonce that no request was made for.
LEMMA EnterRecoveryKeeps ==
  ASSUME IInv, pc \in {"init", "mirror"}, EnterRecovery,
         UNCHANGED << pages, secret, msg, faults, history >>
  PROVE  IInv'
<1>1. ram' \in BootData /\ ram'.state = "Recovery" /\ ram'.nonce = nonces + 1
  BY RecoveryTyped DEF IInv, TypeOK, EnterRecovery, BeginSave
<1>2. nonces \in Nat /\ nonces' = nonces + 1 /\ pending' = ram' /\ record' = record
  BY DEF IInv, TypeOK, EnterRecovery, BeginSave, Log!Begin
<1>3. pc' = "recover" /\ plan' = plan /\ copies' = copies /\ config' = config
  BY DEF EnterRecovery, BeginSave
<1>4. TypeOK'
  BY <1>1, <1>2, <1>3 DEF IInv, TypeOK, Booting
<1>5. record.nonce \in Nat /\ (msg.type = "request" => msg.request.nonce \in Nat)
  BY DEF IInv, TypeOK, BootData, Messages, NoMessage, Requests
<1>6. NonceInv' /\ SaveInv'
  BY <1>1, <1>2, <1>3, <1>5 DEF IInv, NonceInv, SaveInv, Fresh
<1>7. RamInv' /\ PlanInv' /\ CopyInv' /\ RepairInv'
  BY <1>3 DEF IInv, RamInv, PlanInv, CopyInv, RepairInv, Faithful
<1> QED
  BY <1>4, <1>6, <1>7 DEF IInv

\* The good page of a locked chip is copied to the other one, if that is not.
LEMMA MirrorKeeps ==
  ASSUME IInv, Mirror
  PROVE  IInv'
<1>1. pc \in {"init", "mirror"} /\ UNCHANGED << pages, secret, msg, faults, history >>
  BY DEF Mirror
<1>2. ASSUME Apply(Copy0.block), UNCHANGED << logVars, ram, copies, plan, nonces >>
      PROVE  IInv'
  <2>1. Copy0.block \in Blocks \cup {NoBlock}
    BY DEF IInv, TypeOK, Copies, Copy0, Slots
  <2> QED
    BY <1>1, <1>2, <2>1, ApplyKeeps DEF Apply
<1>3. ASSUME NEW s \in CopySources,
             copies' = [copies EXCEPT ![Other(s)].block = copies[s].block],
             plan' = Rewrite(Other(s), Sealed(copies[s].block)),
             pc' = "copy",
             UNCHANGED << logVars, ram, config, nonces >>
      PROVE  IInv'
  <2>1. PICK t : t = Other(s) /\ s \in Slots /\ t \in Slots /\ Other(t) = s /\ s # t
    BY DEF CopySources, Slots, Other
  <2>2. copies[s].status = "sealed" /\ copies[t].status # "sealed"
    BY <2>1 DEF CopySources, IsSealed
  <2>3. SealedIn(pages, s) /\ copies[s].block \in Blocks
    BY <1>1, <2>1, <2>2 DEF IInv, CopyInv, RepairInv, Faithful
  <2>4. \A i \in Slots : copies'[i].status = copies[i].status
    BY <1>3, <2>1 DEF IInv, TypeOK, Copies
  <2>5. copies' \in [Slots -> Copies] /\ \A i \in Slots : copies'[i].block \in Blocks
    BY <1>3, <2>1, <2>3 DEF IInv, TypeOK, Copies, Slots
  <2>6. TypeOK'
    BY <1>1, <1>3, <2>1, <2>3, <2>5, RewriteSeq DEF IInv, TypeOK, logVars, Booting
  <2>7. NonceInv' /\ RamInv' /\ SaveInv'
    BY <1>1, <1>3 DEF IInv, NonceInv, RamInv, Agrees, SaveInv, logVars
  <2>8. PlanInv'
    BY <1>1, <1>3, <2>1, <2>3, RewriteOrderly DEF PlanInv
  <2>9. CopyInv'
    BY <1>3, <2>5 DEF CopyInv
  <2>10. RepairInv'
    <3> DEFINE ops == Rewrite(t, Sealed(copies[s].block))
    <3>1. plan' = ops /\ pages' = pages
      BY <1>1, <1>3, <2>1
    <3>2. Len(ops) = 2 /\ \A i \in Slots : SealedBy(pages, ops, 2, i)
      BY <2>1, <2>3, RewriteSeq, RewriteOrderly
    <3>3. /\ ops[1].page = t /\ ops[1].data = Bad /\ ops[2].page = t
          /\ \A i \in 1..Len(ops) : i = 1 \/ i = 2
      BY <2>1, <2>3, RewriteFields
    <3> HIDE DEF ops
    <3>4. \A i \in Slots : SealedBy(pages, plan, Len(plan), i)'
      BY <3>1, <3>2
    <3>5. \A i \in 1..Len(plan') : plan'[i].page = t /\ (i < Len(plan') => plan'[i].data = Bad)
      BY <3>1, <3>2, <3>3
    <3>6. \A i \in Slots : Faithful(i)'
      BY <1>1, <2>4 DEF IInv, RepairInv, Faithful
    <3> QED
      BY <1>3, <2>1, <2>2, <2>4, <3>4, <3>5, <3>6 DEF RepairInv
  <2> QED
    BY <2>6, <2>7, <2>8, <2>9, <2>10 DEF IInv
<1>4. CASE EnterRecovery
  BY <1>1, <1>4, EnterRecoveryKeeps
<1> QED
  BY <1>2, <1>3, <1>4 DEF Mirror

\* A repair that is done leaves both pages sealed.
LEMMA CopyDoneKeeps ==
  ASSUME IInv, CopyDone
  PROVE  IInv'
<1>1. copies' \in [Slots -> Copies] /\ \A s \in Slots : copies'[s].block \in Blocks
  BY DEF IInv, TypeOK, CopyInv, CopyDone, Copies
<1>2. config' \in Blocks \cup {NoBlock}
  BY DEF IInv, CopyInv, CopyDone, Apply, Copy0, Slots
<1>3. TypeOK'
  BY <1>1, <1>2 DEF IInv, TypeOK, CopyDone, Apply, logVars, Booting
<1>4. NonceInv' /\ RamInv' /\ SaveInv' /\ PlanInv' /\ CopyInv'
  BY <1>1 DEF IInv, NonceInv, RamInv, Agrees, SaveInv, PlanInv, CopyInv, CopyDone, Apply, logVars
<1>5. RepairInv'
  BY DEF IInv, RepairInv, Faithful, SealedBy, CopyDone, Apply, TypeOK, Copies
<1> QED
  BY <1>3, <1>4, <1>5 DEF IInv

\* An unlocked chip boots with one page or the other, or falls into Recovery.
LEMMA UnlockedInitKeeps ==
  ASSUME IInv, UnlockedInit
  PROVE  IInv'
<1>1. pc = "init" /\ UNCHANGED << pages, secret, msg, faults, history >>
  BY DEF UnlockedInit
<1>2. CASE EnterRecovery
  BY <1>1, <1>2, EnterRecoveryKeeps
<1>3. ASSUME ~ EnterRecovery
      PROVE  /\ UNCHANGED << logVars, ram, copies, plan, nonces >>
             /\ pc' = "serve"
             /\ \E b \in Blocks \cup {NoBlock} : config' \in {b, NoBlock}
  <2>1. Copy0.block \in Blocks \cup {NoBlock} /\ Copy1.block \in Blocks \cup {NoBlock}
    BY DEF IInv, TypeOK, Copies, Copy0, Copy1, Slots
  <2> QED
    BY <1>3, <2>1 DEF UnlockedInit, Apply
<1>4. CASE ~ EnterRecovery
  BY <1>1, <1>3, <1>4, ApplyKeeps
<1> QED
  BY <1>2, <1>4

\* The chip without an owner boots as it is.
LEMMA RecoveryInitKeeps ==
  ASSUME IInv, RecoveryInit
  PROVE  IInv'
<1>1. config \in Blocks \cup {NoBlock}
  BY DEF IInv, TypeOK
<1> QED
  BY <1>1, ApplyKeeps DEF RecoveryInit

\* A request that is not served stays what it is.
LEMMA SkipServiceKeeps ==
  ASSUME IInv, SkipService
  PROVE  IInv'
<1>1. TypeOK'
  BY DEF IInv, TypeOK, SkipService, logVars, Booting
<1> QED
  BY <1>1 DEF IInv, SkipService, NonceInv, RamInv, SaveInv, PlanInv, CopyInv, RepairInv, logVars

\* An unlock that is accepted has the nonce of the record.
LEMMA ServeUnlockKeeps ==
  ASSUME IInv, ServeUnlock
  PROVE  IInv'
<1>1. /\ pc = "serve" /\ msg.type = "request" /\ msg.request \in Requests
      /\ msg.request.op # "activate"
  BY ResponseTyped DEF IInv, TypeOK, ServeUnlock
<1>2. ASSUME UnlockAccepted(msg.request), msg' = Respond("ok"), nonces' = nonces + 1,
             BeginSave([Unlocked(msg.request) EXCEPT !.nonce = nonces + 1], "save"),
             UNCHANGED << pages, secret, copies, config, plan, faults, history >>
      PROVE  IInv'
  <2>1. ram' \in BootData /\ ram'.nonce = nonces + 1 /\ pending' = ram' /\ record' = record
    BY <1>1, <1>2, UnlockedTyped DEF IInv, TypeOK, BeginSave, Log!Begin
  <2>2. /\ msg' \in Messages /\ msg'.type = "response"
        /\ msg'.request.nonce = msg.request.nonce
    BY <1>1, <1>2, ResponseTyped DEF IInv, TypeOK
  <2>3. pc' = "save"
    BY <1>2 DEF BeginSave
  <2>4. TypeOK'
    BY <1>2, <2>1, <2>2, <2>3 DEF IInv, TypeOK, Booting
  <2>5. record.nonce \in Nat /\ ram.nonce \in Nat /\ msg.request.nonce \in Nat /\ nonces \in Nat
    BY <1>1 DEF IInv, TypeOK, BootData, Requests
  <2>6. msg.request.nonce = record.nonce
    BY <1>1, <1>2, <2>5 DEF IInv, RamInv, Agrees, Fresh, UnlockAccepted
  <2>7. NonceInv' /\ SaveInv'
    BY <1>2, <2>1, <2>2, <2>3, <2>5, <2>6 DEF IInv, NonceInv, SaveInv
  <2>8. RamInv' /\ PlanInv' /\ CopyInv' /\ RepairInv'
    BY <1>1, <1>2, <2>3 DEF IInv, RamInv, PlanInv, CopyInv, RepairInv
  <2> QED
    BY <2>4, <2>7, <2>8 DEF IInv
<1>3. ASSUME msg' = Respond("refused"), pc' = "launch", UNCHANGED << logVars, ram, nonces >>,
             UNCHANGED << pages, secret, copies, config, plan, faults, history >>
      PROVE  IInv'
  <2>1. msg' \in Messages /\ msg'.type = "response"
    BY <1>1, <1>3, ResponseTyped DEF IInv, TypeOK
  <2>2. TypeOK'
    BY <1>3, <2>1 DEF IInv, TypeOK, logVars, Booting
  <2>3. NonceInv' /\ RamInv' /\ SaveInv' /\ PlanInv' /\ CopyInv' /\ RepairInv'
    BY <1>1, <1>3, <2>1 DEF IInv, NonceInv, RamInv, SaveInv, PlanInv, CopyInv, RepairInv, logVars
  <2> QED
    BY <2>2, <2>3 DEF IInv
<1> QED
  BY <1>2, <1>3 DEF ServeUnlock

\* An activation begins when page 1 is signed, so not sealed, and with the
\* nonce of the record.
LEMMA ServeActivateKeeps ==
  ASSUME IInv, ServeActivate
  PROVE  IInv'
<1>1. pc = "serve" /\ msg.type = "request" /\ msg.request \in Requests
      /\ UNCHANGED << logVars, pages, secret, copies, config, nonces, faults, history >>
  BY ResponseTyped DEF IInv, TypeOK, ServeActivate
<1>2. ASSUME ActivateAccepted(msg.request), ram' = WithMinSec(Copy1.block),
             plan' = ActivationPlan, pc' = "activate", UNCHANGED msg,
             msg.request.op = "activate"
      PROVE  IInv'
  <2>1. copies["slot1"].status = "signed" /\ Copy1.block \in Blocks
    BY <1>2 DEF IInv, TypeOK, CopyInv, Copies, ActivateAccepted, TransferReady,
       Page1ValidForTransfer, UnlockedStates, IsSealed, Copy1, Slots
  <2>2. ~ SealedIn(pages, "slot1")
    BY <1>1, <2>1 DEF IInv, RepairInv, Faithful, Slots
  <2>3. Copy0.block \in Blocks \cup {NoBlock}
    BY DEF IInv, TypeOK, Copies, Copy0, Slots
  <2>4. plan' \in Seq(FlashOps) /\ Orderly(pages, plan')
    BY <1>2, <2>1, <2>2, <2>3, ActivationPlanGood DEF IInv, TypeOK
  <2>5. ram' \in BootData /\ ram'.state = ram.state /\ ram'.nonce = ram.nonce
    BY <1>2, <2>1, WithMinSecTyped DEF IInv, TypeOK
  <2>6. TypeOK'
    BY <1>1, <1>2, <2>4, <2>5 DEF IInv, TypeOK, logVars, Booting
  <2>7. record.nonce \in Nat /\ ram.nonce \in Nat /\ msg.request.nonce \in Nat
    BY <1>1 DEF IInv, TypeOK, BootData, Requests
  <2>8. Agrees /\ msg.request.nonce = record.nonce
    BY <1>1, <1>2, <2>7 DEF IInv, RamInv, Agrees, Fresh, ActivateAccepted
  <2>9. NonceInv' /\ RamInv' /\ SaveInv'
    BY <1>1, <1>2, <2>5, <2>8 DEF IInv, NonceInv, RamInv, Agrees, SaveInv, logVars
  <2>10. PlanInv' /\ CopyInv' /\ RepairInv'
    BY <1>1, <1>2, <2>4 DEF IInv, PlanInv, CopyInv, RepairInv
  <2> QED
    BY <2>6, <2>9, <2>10 DEF IInv
<1>3. ASSUME msg' = Respond("refused"), pc' = "launch", UNCHANGED << ram, plan >>
      PROVE  IInv'
  <2>1. msg' \in Messages /\ msg'.type = "response"
    BY <1>1, <1>3, ResponseTyped DEF IInv, TypeOK
  <2>2. TypeOK'
    BY <1>1, <1>3, <2>1 DEF IInv, TypeOK, logVars, Booting
  <2>3. NonceInv' /\ RamInv' /\ SaveInv' /\ PlanInv' /\ CopyInv' /\ RepairInv'
    BY <1>1, <1>3, <2>1 DEF IInv, NonceInv, RamInv, SaveInv, PlanInv, CopyInv, RepairInv, logVars
  <2> QED
    BY <2>2, <2>3 DEF IInv
<1> QED
  BY <1>1, <1>2, <1>3 DEF ServeActivate

\* The record of an activation is written.
LEMMA ActivateDoneKeeps ==
  ASSUME IInv, ActivateDone
  PROVE  IInv'
<1>1. /\ pc = "activate" /\ plan = << >>
      /\ msg.type = "request" /\ msg.request \in Requests
      /\ msg.request.nonce = record.nonce
  BY ResponseTyped DEF IInv, TypeOK, RamInv, ActivateDone
<1>2. ram' \in BootData /\ ram'.nonce = nonces + 1 /\ pending' = ram' /\ record' = record
  <2> DEFINE moved == IF ram.state = "UnlockedSelf" THEN 0 ELSE 1
  <2>1. moved \in {0, 1}
    OBVIOUS
  <2>2. BeginSave([WithSlot(msg.request) EXCEPT
                     !.state = "LockedOwner",
                     !.nextOwner = NoOwner,
                     !.transfers = @ + moved,
                     !.nonce = nonces + 1], "save")
    BY DEF ActivateDone
  <2> HIDE DEF moved
  <2> QED
    BY <1>1, <2>1, <2>2, ActivatedTyped DEF IInv, TypeOK, BeginSave, Log!Begin
<1>3. /\ nonces' = nonces + 1 /\ pc' = "save"
      /\ UNCHANGED << pages, secret, copies, config, plan, faults, history >>
  BY DEF ActivateDone, BeginSave
<1>4. msg' \in Messages /\ msg'.type = "response" /\ msg'.request = msg.request
  BY <1>1, ResponseTyped DEF IInv, TypeOK, ActivateDone
<1>5. TypeOK'
  BY <1>2, <1>3, <1>4 DEF IInv, TypeOK, Booting
<1>6. record.nonce \in Nat /\ nonces \in Nat
  BY DEF IInv, TypeOK, BootData
<1>7. NonceInv' /\ RamInv' /\ SaveInv'
  BY <1>1, <1>2, <1>3, <1>4, <1>6 DEF IInv, NonceInv, RamInv, SaveInv
<1>8. PlanInv' /\ CopyInv' /\ RepairInv'
  BY <1>1, <1>3 DEF IInv, PlanInv, CopyInv, RepairInv
<1> QED
  BY <1>5, <1>7, <1>8 DEF IInv

\* What the next operation of a plan does to the pages, whole or cut short
LEMMA PutTyped ==
  ASSUME IInv, plan # << >>, NEW data, Put(Head(plan).page, data),
         data = Head(plan).data \/ data \in Torn(Head(plan))
  PROVE  /\ Head(plan) \in FlashOps
         /\ pages' \in [Slots -> OwnerPages]
         /\ secret' \in Seq(Owners \cup {NoOwner}) \cup {Bad}
         /\ holders' \subseteq Owners
         /\ Head(plan).page \in Slots => pages' = [pages EXCEPT ![Head(plan).page] = data]
         /\ Head(plan).page \notin Slots => pages' = pages
         /\ pc \in {"update", "copy", "activate"}
<1>1. plan \in Seq(FlashOps) /\ Head(plan) \in FlashOps
  BY HeadTailProperties DEF IInv, TypeOK
<1>2. Head(plan).page \in Slots \cup {"secret"} /\ "secret" \notin Slots
  BY <1>1 DEF FlashOps, Slots
<1>3. /\ Head(plan).page \in Slots => data \in OwnerPages
      /\ Head(plan).page \notin Slots => data \in Seq(Owners \cup {NoOwner}) \cup {Bad}
  <2>1. CASE data = Head(plan).data
    BY <1>1, <1>2, <2>1 DEF FlashOps
  <2>2. CASE data \in Torn(Head(plan))
    BY <1>1, <2>2, TornTyped DEF IInv, TypeOK
  <2> QED
    BY <2>1, <2>2
<1>4. pc \in {"update", "copy", "activate"}
  BY DEF IInv, PlanInv
<1> QED
  BY <1>1, <1>2, <1>3, <1>4 DEF IInv, TypeOK, Put

\* A flash operation is done: what is left of the plan is in order.
LEMMA FlashOpKeeps ==
  ASSUME IInv, FlashOp
  PROVE  IInv'
<1> DEFINE op == Head(plan)
<1>1. /\ plan # << >> /\ Put(op.page, op.data) /\ plan' = Tail(plan)
      /\ UNCHANGED << logVars, msg, pc, ram, copies, config, nonces, faults, backups >>
  BY DEF FlashOp
<1>2. /\ plan \in Seq(FlashOps) /\ Len(plan) \in Nat /\ Len(plan) > 0 /\ op = plan[1]
      /\ plan' \in Seq(FlashOps) /\ Len(plan') = Len(plan) - 1
      /\ \A i \in 1..Len(plan') : plan'[i] = plan[i + 1]
  BY <1>1, EmptySeq, HeadTailProperties DEF IInv, TypeOK
<1>3. /\ pages' \in [Slots -> OwnerPages]
      /\ secret' \in Seq(Owners \cup {NoOwner}) \cup {Bad}
      /\ holders' \subseteq Owners
      /\ pages' = Done(pages, op)
      /\ pc \in {"update", "copy", "activate"}
  BY <1>1, PutTyped DEF Done
<1>4. TypeOK'
  BY <1>1, <1>2, <1>3 DEF IInv, TypeOK, logVars
<1>5. NonceInv' /\ RamInv' /\ SaveInv' /\ CopyInv'
  <2>1. NonceInv' /\ SaveInv'
    BY <1>1 DEF IInv, NonceInv, SaveInv, Fresh, logVars
  <2>2. RamInv' /\ CopyInv'
    BY <1>1, <1>3 DEF IInv, RamInv, Agrees, CopyInv, logVars
  <2> QED
    BY <2>1, <2>2
<1>6. PlanInv'
  BY <1>1, <1>2, <1>3, OrderlyTail DEF IInv, TypeOK, PlanInv
<1>7. RepairInv'
  <2> SUFFICES ASSUME pc \in {"update", "copy"} PROVE RepairInv'
    BY <1>1, <1>3 DEF RepairInv
  <2>1. /\ \A s \in Slots : SealedBy(pages, plan, Len(plan), s)
        /\ \A i \in 1..Len(plan) :
             /\ plan[i].page \in Slots
             /\ copies[plan[i].page].status # "sealed"
             /\ i < Len(plan) => plan[i].data = Bad
        /\ \A s \in Slots : Faithful(s)
    BY <1>1 DEF IInv, RepairInv
  <2>2. op.page \in Slots /\ op.data # Bad => op.data.sealed
    BY <1>2 DEF IInv, PlanInv, Orderly
  <2>3. \A s \in Slots : SealedBy(pages, plan, Len(plan), s)'
    <3>1. Len(plan) - 1 \in 0..(Len(plan) - 1) /\ (Len(plan) - 1) + 1 = Len(plan)
      BY <1>2
    <3>2. \A s \in Slots : SealedBy(pages, plan, (Len(plan) - 1) + 1, s)
      BY <2>1, <3>1
    <3>3. \A s \in Slots : SealedBy(Done(pages, op), Tail(plan), Len(plan) - 1, s)
      BY <1>1, <1>2, <2>2, <3>1, <3>2, Shifted DEF IInv, TypeOK
    <3> QED
      BY <1>1, <1>2, <1>3, <3>3
  <2>4. \A i \in 1..Len(plan') :
          /\ plan'[i].page \in Slots
          /\ copies[plan'[i].page].status # "sealed"
          /\ i < Len(plan') => plan'[i].data = Bad
    <3>1. \A i \in 1..Len(plan') : i + 1 \in 1..Len(plan) /\ (i < Len(plan') => i + 1 < Len(plan))
      BY <1>2
    <3> QED
      BY <1>2, <2>1, <3>1
  <2>5. ASSUME plan' # << >>, NEW s \in Slots
        PROVE  Faithful(s)'
    <3>1. Len(plan) > 1
      BY <1>2, <2>5, EmptySeq
    <3>2. op.data = Bad /\ op.page \in Slots /\ copies[op.page].status # "sealed"
      BY <1>2, <2>1, <3>1
    <3>3. pages'[s] = IF s = op.page THEN Bad ELSE pages[s]
      BY <1>3, <3>2 DEF Done, IInv, TypeOK
    <3> QED
      BY <1>1, <2>1, <3>2, <3>3 DEF Faithful, SealedIn
  <2> QED
    BY <1>1, <2>3, <2>4, <2>5 DEF IInv, RepairInv
<1> QED
  BY <1>4, <1>5, <1>6, <1>7 DEF IInv

\* A flash operation reports an error: its function returns, and what it was
\* working on is not taken for sealed.
LEMMA FlashErrorKeeps ==
  ASSUME IInv, FlashError
  PROVE  IInv'
<1> DEFINE op == Head(plan)
<1>1. plan # << >> /\ plan' = << >> /\ UNCHANGED << logVars, copies, config, nonces, backups >>
  BY DEF FlashError
<1>2. PICK left \in Torn(op) : Put(op.page, left)
  BY DEF FlashError
<1>3. /\ op \in FlashOps
      /\ pages' \in [Slots -> OwnerPages]
      /\ secret' \in Seq(Owners \cup {NoOwner}) \cup {Bad}
      /\ holders' \subseteq Owners
      /\ op.page \in Slots => pages' = [pages EXCEPT ![op.page] = left]
  BY <1>1, <1>2, PutTyped
<1>4. faults' \in 0..MaxFaults
  BY OwnershipAssumption DEF IInv, TypeOK, FlashError, Fault
<1>5. Orderly(pages', << >>) /\ << >> \in Seq(FlashOps)
  BY EmptySeq DEF Orderly
<1>6. CASE pc \in {"update", "copy"}
  <2>1. ram' = ram /\ msg' = msg /\ pc' \in {"mirror", "serve"}
        /\ (pc' = "mirror" => pc = "update")
    BY <1>6 DEF FlashError
  <2>2. TypeOK'
    BY <1>1, <1>3, <1>4, <1>5, <2>1 DEF IInv, TypeOK, logVars, Booting
  <2>3. NonceInv' /\ RamInv' /\ SaveInv' /\ PlanInv' /\ CopyInv'
    BY <1>1, <1>5, <1>6, <2>1
       DEF IInv, NonceInv, RamInv, Agrees, SaveInv, PlanInv, CopyInv, logVars
  <2>4. op.page \in Slots /\ copies[op.page].status # "sealed" /\ \A s \in Slots : Faithful(s)
    <3>1. 1 \in 1..Len(plan) /\ op = plan[1]
      BY <1>1, EmptySeq, HeadTailProperties DEF IInv, TypeOK
    <3> QED
      BY <1>1, <1>6, <3>1 DEF IInv, RepairInv
  <2>5. left = pages[op.page] \/ left = Bad \/ ~ left.sealed
    BY <1>2, <1>3, <2>4, TornTyped DEF IInv, TypeOK
  <2>6. \A s \in Slots : Faithful(s)'
    BY <1>1, <1>3, <2>4, <2>5 DEF IInv, TypeOK, Faithful, SealedIn
  <2>7. RepairInv'
    BY <2>1, <2>6 DEF RepairInv
  <2> QED
    BY <2>2, <2>3, <2>7 DEF IInv
<1>7. CASE pc = "activate"
  <2>1. pc' = "launch" /\ msg' = Respond("failed") /\ ram' \in {ram, WithSlot(msg.request)}
    BY <1>7 DEF FlashError
  <2>2. msg.type = "request" /\ msg.request \in Requests
    BY <1>7, ResponseTyped DEF IInv, TypeOK, RamInv
  <2>3. msg' \in Messages /\ msg'.type = "response"
    BY <2>1, <2>2, ResponseTyped DEF IInv, TypeOK
  <2>4. ram' \in BootData /\ ram'.nonce = ram.nonce
    BY <2>1 DEF IInv, TypeOK, WithSlot, BootData
  <2>5. TypeOK'
    BY <1>1, <1>3, <1>4, <1>5, <2>1, <2>3, <2>4 DEF IInv, TypeOK, logVars, Booting
  <2>6. NonceInv' /\ RamInv' /\ SaveInv' /\ PlanInv' /\ CopyInv' /\ RepairInv'
    BY <1>1, <1>5, <1>7, <2>1, <2>3, <2>4
       DEF IInv, NonceInv, RamInv, SaveInv, PlanInv, CopyInv, RepairInv, logVars
  <2> QED
    BY <2>5, <2>6 DEF IInv
<1> QED
  BY <1>1, <1>2, <1>6, <1>7, PutTyped

\* The secret page cannot be read: the activation is given up.
LEMMA SecretUnreadableKeeps ==
  ASSUME IInv, SecretUnreadable
  PROVE  IInv'
<1>1. /\ pc = "activate" /\ pc' = "launch" /\ plan' = << >>
      /\ ram' = WithSlot(msg.request) /\ msg' = Respond("failed")
      /\ UNCHANGED << logVars, pages, secret, copies, config, nonces, history >>
  BY DEF SecretUnreadable
<1>2. faults' \in 0..MaxFaults
  BY OwnershipAssumption DEF IInv, TypeOK, SecretUnreadable, Fault
<1>3. msg' \in Messages /\ msg'.type = "response"
  BY <1>1, ResponseTyped DEF IInv, TypeOK, RamInv
<1>4. ram' \in BootData /\ ram'.nonce = ram.nonce
  BY <1>1 DEF IInv, TypeOK, WithSlot, BootData
<1>5. << >> \in Seq(FlashOps) /\ Orderly(pages', << >>)
  BY EmptySeq DEF Orderly
<1>6. TypeOK'
  BY <1>1, <1>2, <1>3, <1>4, <1>5 DEF IInv, TypeOK, logVars, Booting
<1>7. NonceInv' /\ RamInv' /\ SaveInv' /\ PlanInv' /\ CopyInv' /\ RepairInv'
  BY <1>1, <1>3, <1>4, <1>5 DEF IInv, NonceInv, RamInv, SaveInv, PlanInv, CopyInv, RepairInv, logVars
<1> QED
  BY <1>6, <1>7 DEF IInv

\* After a reset nothing is known but the record and the nonces.
LEMMA RestartKeeps ==
  ASSUME IInv, Restart, UNCHANGED record, pending' = NoData,
         pages' \in [Slots -> OwnerPages],
         secret' \in Seq(Owners \cup {NoOwner}) \cup {Bad},
         msg' \in {msg, NoMessage}, faults' \in 0..MaxFaults, holders' \subseteq Owners,
         UNCHANGED backups
  PROVE  IInv'
<1>1. /\ pc' = "boot" /\ ram' = record /\ config' = NoBlock /\ plan' = << >>
      /\ nonces' = nonces /\ copies' = [s \in Slots |-> Destroyed]
  BY DEF Restart
<1>2. << >> \in Seq(FlashOps) /\ Orderly(pages', << >>)
  BY EmptySeq DEF Orderly
<1>3. Destroyed \in Copies /\ Destroyed.status = "invalid"
  BY DEF Destroyed, Copies
<1>4. msg' \in Messages /\ (msg'.type = "request" => msg' = msg)
  BY DEF IInv, TypeOK, Messages, NoMessage
<1>5. TypeOK'
  BY <1>1, <1>2, <1>3, <1>4 DEF IInv, TypeOK, Booting
<1>6. NonceInv' /\ RamInv' /\ SaveInv'
  BY <1>1, <1>4 DEF IInv, NonceInv, RamInv, SaveInv
<1>7. PlanInv' /\ CopyInv' /\ RepairInv'
  BY <1>1, <1>2, <1>3 DEF PlanInv, CopyInv, RepairInv
<1> QED
  BY <1>5, <1>6, <1>7 DEF IInv

\* Power fails, between operations or in the middle of one.
LEMMA PowerCutKeeps ==
  ASSUME IInv, PowerCut
  PROVE  IInv'
<1>1. /\ Restart /\ record' = record /\ pending' = NoData /\ msg' = NoMessage
      /\ backups' = backups
  BY DEF PowerCut, Log!GiveUp
<1>2. faults' \in 0..MaxFaults
  BY OwnershipAssumption DEF IInv, TypeOK, PowerCut, Fault
<1>3. /\ pages' \in [Slots -> OwnerPages]
      /\ secret' \in Seq(Owners \cup {NoOwner}) \cup {Bad}
      /\ holders' \subseteq Owners
  <2>1. CASE UNCHANGED << pages, secret, holders >>
    BY <2>1 DEF IInv, TypeOK
  <2>2. CASE plan # << >> /\ \E left \in Torn(Head(plan)) : Put(Head(plan).page, left)
    BY <2>2, PutTyped
  <2> QED
    BY <2>1, <2>2 DEF PowerCut
<1> QED
  BY <1>1, <1>2, <1>3, RestartKeeps

\* The record takes effect, with everything it needs.
LEMMA SaveCommitKeeps ==
  ASSUME IInv, SaveCommit
  PROVE  IInv'
<1>1. /\ pending # NoData /\ record' = pending /\ pending' = pending
      /\ UNCHANGED << pages, secret, msg, romVars, faults, history >>
  BY DEF SaveCommit, Log!Commit
<1>2. pending = ram /\ pc \in {"save", "recover"}
  BY <1>1 DEF IInv, SaveInv
<1>3. TypeOK'
  BY <1>1, <1>2 DEF IInv, TypeOK, romVars
<1>4. NonceInv' /\ RamInv' /\ SaveInv'
  BY <1>1, <1>2 DEF IInv, NonceInv, RamInv, SaveInv, Fresh, romVars
<1>5. PlanInv' /\ CopyInv' /\ RepairInv'
  BY <1>1, <1>2 DEF IInv, PlanInv, CopyInv, RepairInv, Faithful, romVars
<1> QED
  BY <1>3, <1>4, <1>5 DEF IInv

\* The write returns: ROM_EXT resets the chip, or boots on without an owner.
LEMMA AfterSaveKeeps ==
  ASSUME IInv, pending # NoData, AfterSave, UNCHANGED << record, pages, secret, msg, history >>,
         pending' = NoData, faults' \in 0..MaxFaults
  PROVE  IInv'
<1>1. CASE pc = "save" /\ Restart
  BY <1>1, RestartKeeps DEF IInv, TypeOK
<1>2. CASE /\ pc = "recover" /\ pc' = "serve"
           /\ UNCHANGED << ram, copies, config, plan, nonces >>
  <2>1. TypeOK'
    BY <1>2 DEF IInv, TypeOK, Booting
  <2>2. NonceInv' /\ RamInv' /\ SaveInv'
    BY <1>2 DEF IInv, NonceInv, RamInv, SaveInv, Fresh
  <2>3. PlanInv' /\ CopyInv' /\ RepairInv'
    BY <1>2 DEF IInv, PlanInv, CopyInv, RepairInv, Faithful
  <2> QED
    BY <2>1, <2>2, <2>3 DEF IInv
<1> QED
  BY <1>1, <1>2 DEF AfterSave

\* The write was good.
LEMMA SaveDoneKeeps ==
  ASSUME IInv, SaveDone
  PROVE  IInv'
BY AfterSaveKeeps DEF SaveDone, Log!Succeed, IInv, TypeOK

\* The write reports an error, which is lost.
LEMMA SaveFailsKeeps ==
  ASSUME IInv, SaveFails
  PROVE  IInv'
<1>1. faults' \in 0..MaxFaults
  BY OwnershipAssumption DEF IInv, TypeOK, SaveFails, Fault
<1> QED
  BY <1>1, AfterSaveKeeps DEF SaveFails, Log!GiveUp

\* The owner's firmware runs.
LEMMA LaunchKeeps ==
  ASSUME IInv, Launch
  PROVE  IInv'
<1>1. /\ pc = "launch" /\ pc' = "running"
      /\ UNCHANGED << logVars, pages, secret, msg, ram, copies, config, plan, nonces, faults >>
  BY DEF Launch
<1>2. holders' \subseteq Owners /\ backups' \subseteq Blocks
  BY OwnerBlockAssumption DEF IInv, TypeOK, Launch, OwnerBlocks, OwnerPages, SealedIn
<1>3. TypeOK'
  BY <1>1, <1>2 DEF IInv, TypeOK, logVars
<1>4. NonceInv' /\ RamInv' /\ SaveInv' /\ PlanInv' /\ CopyInv' /\ RepairInv'
  BY <1>1 DEF IInv, NonceInv, RamInv, SaveInv, PlanInv, CopyInv, RepairInv, logVars
<1> QED
  BY <1>3, <1>4 DEF IInv

\* The owner's firmware writes page 1.
LEMMA WritePage1Keeps ==
  ASSUME IInv, WritePage1
  PROVE  IInv'
<1>1. /\ pc = "running"
      /\ UNCHANGED << logVars, secret, msg, romVars, faults, history >>
  BY DEF WritePage1
<1>2. pages' \in [Slots -> OwnerPages]
  <2>1. PICK page \in [block : Blocks, sealed : {FALSE}] \cup {Bad}
                       \cup {Sealed(b) : b \in backups} :
          pages' = [pages EXCEPT !["slot1"] = page]
    BY DEF WritePage1
  <2>2. backups \subseteq Blocks
    BY DEF IInv, TypeOK
  <2>3. \A c \in Blocks : Sealed(c) \in OwnerPages
    BY DEF OwnerPages, Sealed
  <2>4. page \in OwnerPages
    BY <2>2, <2>3 DEF OwnerPages
  <2> QED
    BY <2>1, <2>4 DEF IInv, TypeOK
<1>3. TypeOK'
  BY <1>1, <1>2 DEF IInv, TypeOK, logVars, romVars
<1>4. NonceInv' /\ RamInv' /\ SaveInv' /\ CopyInv' /\ RepairInv'
  BY <1>1 DEF IInv, NonceInv, RamInv, SaveInv, CopyInv, RepairInv, logVars, romVars
<1>5. plan' = << >> /\ Orderly(pages', << >>)
  BY <1>1, EmptySeq DEF IInv, PlanInv, Orderly, romVars
<1>6. PlanInv'
  BY <1>1, <1>5 DEF PlanInv
<1> QED
  BY <1>3, <1>4, <1>6 DEF IInv

\* The owner's firmware stages a request, for a nonce that was drawn.
LEMMA StageRequestKeeps ==
  ASSUME IInv, StageRequest
  PROVE  IInv'
<1>1. /\ pc = "running"
      /\ UNCHANGED << logVars, pages, secret, romVars, faults, history >>
  BY DEF StageRequest
<1>2. PICK r \in Stageable : msg' = [type |-> "request", request |-> r]
  BY DEF StageRequest
<1>3. ram.nonce \in Nat /\ nonces \in Nat /\ ram.nonce <= nonces
  BY DEF IInv, TypeOK, BootData, NonceInv
<1>4. r \in Requests /\ r.nonce <= nonces
  BY <1>3 DEF Stageable, Requests, StaleNonce
<1>5. msg' \in Messages /\ msg'.type = "request" /\ msg'.request.nonce <= nonces
  BY <1>2, <1>4 DEF Messages
<1>6. TypeOK'
  BY <1>1, <1>5 DEF IInv, TypeOK, logVars, romVars
<1>7. NonceInv' /\ RamInv' /\ SaveInv'
  BY <1>1, <1>5 DEF IInv, NonceInv, RamInv, SaveInv, logVars, romVars
<1>8. PlanInv' /\ CopyInv' /\ RepairInv'
  BY <1>1 DEF IInv, PlanInv, CopyInv, RepairInv, romVars
<1> QED
  BY <1>6, <1>7, <1>8 DEF IInv

\* The owner's firmware resets the chip.
LEMMA ResetKeeps ==
  ASSUME IInv, Reset
  PROVE  IInv'
<1>1. pending = NoData
  BY DEF IInv, SaveInv, Reset
<1> QED
  BY <1>1, RestartKeeps DEF IInv, TypeOK, Reset, logVars

-----------------------------------------------------------------------------
(***************************************************************************)
(* The invariant holds.                                                    *)
(***************************************************************************)

\* The chip as it is provisioned.
LEMMA InitHolds == Init => IInv
<1> SUFFICES ASSUME Init PROVE IInv
  OBVIOUS
<1>1. record \in BootData /\ ram \in BootData
  BY DEF Init, BootData, OwnershipStates
<1>2. pages \in [Slots -> OwnerPages] /\ copies \in [Slots -> Copies]
  BY OwnershipAssumption DEF Init, Sealed, OwnerPages, Destroyed, Copies
<1>3. << >> \in Seq(FlashOps) /\ << >> \in Seq(Owners \cup {NoOwner}) /\ Len(<< >>) = 0
  BY EmptySeq
<1>4. msg \in Messages /\ msg.type # "request" /\ 0 \in 0..MaxFaults
  BY OwnershipAssumption DEF Init, Messages, NoMessage
<1>5. TypeOK
  BY <1>1, <1>2, <1>3, <1>4 DEF Init, TypeOK, Booting
<1>6. NonceInv /\ RamInv /\ SaveInv
  BY <1>4 DEF Init, NonceInv, RamInv, SaveInv
<1>7. PlanInv /\ CopyInv /\ RepairInv
  BY <1>3 DEF Init, PlanInv, Orderly, CopyInv, RepairInv, Destroyed
<1> QED
  BY <1>5, <1>6, <1>7 DEF IInv

\* Every step keeps the invariant.
LEMMA StepKeeps == IInv /\ [Next]_vars => IInv'
<1> SUFFICES ASSUME IInv, [Next]_vars PROVE IInv'
  OBVIOUS
<1>1. CASE Start
  BY <1>1, StartKeeps
<1>2. CASE BeginUpdate
  BY <1>2, BeginUpdateKeeps
<1>3. CASE UpdateDone
  BY <1>3, UpdateDoneKeeps
<1>4. CASE Mirror
  BY <1>4, MirrorKeeps
<1>5. CASE CopyDone
  BY <1>5, CopyDoneKeeps
<1>6. CASE UnlockedInit
  BY <1>6, UnlockedInitKeeps
<1>7. CASE RecoveryInit
  BY <1>7, RecoveryInitKeeps
<1>8. CASE SkipService
  BY <1>8, SkipServiceKeeps
<1>9. CASE ServeUnlock
  BY <1>9, ServeUnlockKeeps
<1>10. CASE ServeActivate
  BY <1>10, ServeActivateKeeps
<1>11. CASE ActivateDone
  BY <1>11, ActivateDoneKeeps
<1>12. CASE FlashOp
  BY <1>12, FlashOpKeeps
<1>13. CASE FlashError
  BY <1>13, FlashErrorKeeps
<1>14. CASE SaveCommit
  BY <1>14, SaveCommitKeeps
<1>15. CASE SaveDone
  BY <1>15, SaveDoneKeeps
<1>16. CASE SaveFails
  BY <1>16, SaveFailsKeeps
<1>17. CASE Launch
  BY <1>17, LaunchKeeps
<1>18. CASE WritePage1
  BY <1>18, WritePage1Keeps
<1>19. CASE StageRequest
  BY <1>19, StageRequestKeeps
<1>20. CASE Reset
  BY <1>20, ResetKeeps
<1>21. CASE PowerCut
  BY <1>21, PowerCutKeeps
<1>22. CASE SecretUnreadable
  BY <1>22, SecretUnreadableKeeps
<1>23. CASE UNCHANGED vars
  <2>1. TypeOK'
    BY <1>23 DEF IInv, TypeOK, vars, logVars, romVars
  <2>2. NonceInv' /\ RamInv' /\ SaveInv'
    BY <1>23 DEF IInv, NonceInv, RamInv, Agrees, SaveInv, Fresh, vars, logVars, romVars
  <2>3. PlanInv' /\ CopyInv' /\ RepairInv'
    BY <1>23 DEF IInv, PlanInv, CopyInv, RepairInv, Faithful, vars, romVars
  <2> QED
    BY <2>1, <2>2, <2>3 DEF IInv
<1> QED
  BY <1>1, <1>2, <1>3, <1>4, <1>5, <1>6, <1>7, <1>8, <1>9, <1>10, <1>11, <1>12, <1>13,
     <1>14, <1>15, <1>16, <1>17, <1>18, <1>19, <1>20, <1>21, <1>22, <1>23
     DEF Next, RomExt, Environment

\* In every state of every chip the RAM copies, the plan of the function that
\* writes pages and the request in retention RAM are as IInv says.
THEOREM Invariance == Spec => []IInv
BY InitHolds, StepKeeps, PTL DEF Spec

\* The state has its type: in particular every sealed page has a block.
THEOREM TypeCorrect == Spec => []TypeOK
<1>1. IInv => TypeOK
  BY DEF IInv
<1> QED
  BY <1>1, Invariance, PTL

-----------------------------------------------------------------------------
(***************************************************************************)
(* What steps never do.                                                    *)
(***************************************************************************)

\* Only boot_data_write() changes the record.
LEMMA RecordStep ==
  ASSUME Next, record' # record
  PROVE  SaveCommit
BY DEF Next, RomExt, Environment, Start, BeginUpdate, UpdateDone, Mirror, EnterRecovery,
       CopyDone, UnlockedInit, RecoveryInit, SkipService, ServeUnlock, ServeActivate,
       SecretUnreadable, ActivateDone, BeginSave, FlashOp, FlashError, SaveDone, SaveFails, Launch, WritePage1,
       StageRequest, Reset, PowerCut, logVars, Log!Read, Log!Begin, Log!Succeed, Log!GiveUp

\* Only a flash operation, whole or cut short, changes the pages of a chip whose
\* firmware does not run.
LEMMA PageStep ==
  ASSUME Next, pc # "running", pages' # pages
  PROVE  /\ plan # << >>
         /\ \E data : /\ data = Head(plan).data \/ data \in Torn(Head(plan))
                      /\ Put(Head(plan).page, data)
<1>1. FlashOp \/ FlashError \/ PowerCut
  BY DEF Next, RomExt, Environment, Start, BeginUpdate, UpdateDone, Mirror, CopyDone,
         UnlockedInit, RecoveryInit, SkipService, ServeUnlock, ServeActivate, SecretUnreadable,
         ActivateDone, SaveCommit, SaveDone, SaveFails, Launch, WritePage1, StageRequest, Reset
<1>2. CASE FlashOp
  BY <1>2 DEF FlashOp
<1>3. CASE FlashError
  BY <1>3 DEF FlashError
<1>4. CASE PowerCut
  BY <1>4 DEF PowerCut
<1> QED
  BY <1>1, <1>2, <1>3, <1>4

\* do_unlock(), ownership_activate_handler(): no request is served twice.
THEOREM NoReplay == Spec => RequestsAreServedOnce
<1> DEFINE Once == record'.state # record.state =>
                     /\ record'.nonce > record.nonce
                     /\ record'.state # "Recovery" => msg.request.nonce = record.nonce
<1>1. IInv /\ [Next]_vars => [Once]_vars
  <2> SUFFICES ASSUME IInv, Next, record'.state # record.state PROVE Once
    BY DEF vars
  <2>1. pending # NoData /\ record' = pending /\ record' # record
    BY RecordStep DEF SaveCommit, Log!Commit
  <2>2. pending.nonce > record.nonce /\ pending = ram /\ pc \in {"save", "recover"}
    BY <2>1 DEF IInv, SaveInv
  <2>3. CASE pc = "recover"
    BY <2>1, <2>2, <2>3 DEF IInv, SaveInv
  <2>4. CASE pc = "save"
    BY <2>1, <2>2, <2>4 DEF IInv, SaveInv
  <2> QED
    BY <2>2, <2>3, <2>4
<1> QED
  BY <1>1, Invariance, PTL DEF Spec, RequestsAreServedOnce

\* locked_owner_init(), ownership_activate(): whatever is cut short, ROM_EXT
\* never takes the last sealed page from the chip.
THEOREM NoBrick == Spec => SealedPageRemains
<1> DEFINE Remains == pc # "running" /\ SomeSealed(pages) => SomeSealed(pages')
<1>1. IInv /\ [Next]_vars => [Remains]_vars
  <2> SUFFICES ASSUME IInv, Next, pc # "running", SomeSealed(pages), pages' # pages
               PROVE  SomeSealed(pages')
    BY DEF vars
  <2>1. PICK data : /\ plan # << >>
                    /\ data = Head(plan).data \/ data \in Torn(Head(plan))
                    /\ Put(Head(plan).page, data)
    BY PageStep
  <2>2. Head(plan).page \in Slots /\ pages' = [pages EXCEPT ![Head(plan).page] = data]
    BY <2>1, PutTyped
  <2>3. SealedIn(pages, Other(Head(plan).page))
    BY <2>1, <2>2, NextIsSafe DEF IInv, TypeOK, PlanInv
  <2>4. Other(Head(plan).page) \in Slots /\ Other(Head(plan).page) # Head(plan).page
    BY <2>2 DEF Slots, Other
  <2>5. SealedIn(pages', Other(Head(plan).page))
    BY <2>2, <2>3, <2>4 DEF IInv, TypeOK, SealedIn
  <2> QED
    BY <2>4, <2>5 DEF SomeSealed
<1> QED
  BY <1>1, Invariance, PTL DEF Spec, SealedPageRemains
=============================================================================
