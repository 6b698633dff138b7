---------------------------- MODULE MCOwnership ----------------------------
(***************************************************************************)
(* Owner blocks for model checking Ownership: two owners, of whom the chip *)
(* comes with the first.                                                   *)
(***************************************************************************)
EXTENDS Ownership

CONSTANTS o1, o2

Block(owner, mode, version, minSec, items) ==
  [owner |-> owner, mode |-> mode, version |-> version, minSec |-> minSec, items |-> items]

\* Ownership transfers, and updates of an unlocked chip
Open1 == Block(o1, "open", 1, NoChange, "ok")
Open2 == Block(o2, "open", 1, NoChange, "ok")
Broken2 == Block(o2, "open", 1, NoChange, "bad")
Twice1 == Block(o1, "open", 2, NoChange, "twice")
TransferBlocks == {Open1, Open2}
CheckedBlocks == {Open1, Open2, Broken2}
RepeatedBlocks == {Open1, Twice1}

\* Updates of a locked chip
New1 == Block(o1, "newversion", 1, NoChange, "ok")
New2 == Block(o1, "newversion", 2, 1, "ok")
Self3 == Block(o1, "selfversion", 3, NoChange, "ok")
Foreign4 == Block(o2, "newversion", 4, NoChange, "ok")
Broken5 == Block(o1, "newversion", 5, NoChange, "bad")
UpdateBlocks == {New1, New2, Self3, Foreign4, Broken5}

=============================================================================
