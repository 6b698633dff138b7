----------------------------- MODULE OwnerBlock -----------------------------
(***************************************************************************)
(* Owner pages as ROM_EXT sees them: lib/ownership/owner_block.c and the   *)
(* checks of lib/ownership/ownership_key.c.                                *)
(*                                                                         *)
(* An owner block carries its owner's public keys, a version, an update    *)
(* mode, a minimum security version and a list of configuration items.  It *)
(* is signed by its owner, and sealed to the chip once it is accepted.     *)
(* The keys of one owner (owner, unlock, activate) are one value, and a    *)
(* signature is the signer it verifies for.                                *)
(***************************************************************************)
EXTENDS Integers

CONSTANTS
  Owners,           \* owner keys
  Recovery,         \* kNoOwnerRecoveryKey, the silicon creator's key
  HasRecoveryKey,   \* whether the ROM_EXT is built with that key
  Blocks,           \* the owner blocks that owners may sign
  NoBlock,          \* a RAM copy that was destroyed: no keys, no mode
  NoOwner,          \* next_owner when nobody is endorsed
  NoChange,         \* UINT32_MAX in min_security_version_bl0
  Bad               \* a flash page that is erased, torn or not signed

UpdateModes == {"open", "self", "newversion", "selfversion"}

\* items: "ok"; "bad" when an item is malformed; "twice" when an item that may
\* appear once appears twice
OwnerBlocks ==
  [owner : Owners, mode : UpdateModes, version : Nat,
   minSec : Nat \cup {NoChange}, items : {"ok", "bad", "twice"}]

ASSUME OwnerBlockAssumption ==
  /\ Blocks \subseteq OwnerBlocks
  /\ HasRecoveryKey \in BOOLEAN
  /\ NoOwner \notin Owners
  /\ Recovery \notin Owners
  /\ NoBlock \notin Blocks
  /\ NoChange \notin Nat
  /\ \A b \in Blocks, s \in BOOLEAN : Bad # [block |-> b, sealed |-> s]

Slots == {"slot0", "slot1"}
Other(slot) == IF slot = "slot0" THEN "slot1" ELSE "slot0"

\* the contents of a page in flash
OwnerPages == [block : Blocks, sealed : BOOLEAN] \cup {Bad}

\* the RAM copy of a page (owner_page) and its status (owner_page_valid)
Copies == [status : {"sealed", "signed", "invalid"}, block : Blocks \cup {NoBlock}]

UnlockedStates == {"UnlockedSelf", "UnlockedAny", "UnlockedEndorsed"}
OwnershipStates == {"LockedOwner", "Recovery"} \cup UnlockedStates

-----------------------------------------------------------------------------
\* owner_page_validity_check(): what is neither sealed nor signed is destroyed
Destroyed == [status |-> "invalid", block |-> NoBlock]

CopyOf(page) ==
  IF page = Bad THEN Destroyed
  ELSE [status |-> IF page.sealed THEN "sealed" ELSE "signed", block |-> page.block]

IsSealed(copy) == copy.status = "sealed"

\* ownership_key_validate(): the key algorithm and the keys come from the RAM
\* copy of a page; the owner key is tried last, whichever keys were asked for
KeyValidate(copy, signer, recoveryAllowed) ==
  /\ copy.block # NoBlock
  /\ \/ signer = copy.block.owner
     \/ recoveryAllowed /\ HasRecoveryKey /\ signer = Recovery

\* owner_block_owner_key_equal(); it is asked only of a page 1 that is signed
OwnerKeyEqual(copy0, copy1) ==
  /\ copy0.block # NoBlock
  /\ copy1.block # NoBlock
  /\ copy0.block.owner = copy1.block.owner

\* owner_block_newversion_mode()
NewVersionMode(copy0) ==
  IsSealed(copy0) /\ copy0.block.mode \in {"newversion", "selfversion"}

\* Mutant: any signed page will do in UnlockedSelf.
Page1ValidForAnyTransfer(state, nextOwner, copy0, copy1) ==
  \/ state = "LockedOwner" /\ IsSealed(copy1)
  \/ /\ copy1.status = "signed"
     /\ \/ state \in {"UnlockedAny", "UnlockedSelf"}
        \/ state = "UnlockedEndorsed" /\ nextOwner = copy1.block.owner

\* owner_block_page1_valid_for_transfer()
Page1ValidForTransfer(state, nextOwner, copy0, copy1) ==
  \/ state = "LockedOwner" /\ IsSealed(copy1)
  \/ /\ copy1.status = "signed"
     /\ \/ state = "UnlockedAny"
        \/ state = "UnlockedSelf" /\ OwnerKeyEqual(copy0, copy1)
        \/ state = "UnlockedEndorsed" /\ nextOwner = copy1.block.owner

\* Mutant: nothing is checked.
CheckParsesNothing(block) == TRUE

\* owner_block_parse(check_only = true): does not look for duplicate items
CheckParses(block) == block.items # "bad"

\* owner_block_parse(check_only = false)
Parses(block) == block.items = "ok"

=============================================================================
