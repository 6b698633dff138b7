---------------------------- MODULE FirmwareSlot ----------------------------
(***************************************************************************)
(* What a rescue protocol may do to one bank of flash: begin a transfer,   *)
(* which erases the area it will write; take the next block of the file    *)
(* whose blocks it holds; or break off.                                    *)
(***************************************************************************)
EXTENDS RescueService

VARIABLES
  bank,     \* the pages of the bank
  protected \* the bank holds the ROM_EXT that runs

First(f) == IF f \in RomExtFiles /\ ~protected THEN 0 ELSE FlashStart

\* The first n pages of f's area hold f, and the others are erased.
HoldsUpTo(b, f, n) ==
  \A p \in First(f)..(FlashLimit - 1) :
    b[p] = IF p < n THEN Block(f, p - Base(f)) ELSE Erased

Outside(f) == {p \in Pages : p < First(f) \/ p >= FlashLimit}

\* The block that comes first may lie before the area, and is then dropped.
Begin(f) ==
  /\ \A p \in Outside(f) : bank'[p] = bank[p]
  /\ HoldsUpTo(bank', f, IF Base(f) = First(f) THEN First(f) + 1 ELSE First(f))

Extend(f) ==
  \E n \in First(f)..(FlashLimit - 1) :
    /\ HoldsUpTo(bank, f, n)
    /\ bank' = [bank EXCEPT ![n] = Block(f, n - Base(f))]

\* A transfer that turns out to be unwelcome has erased already.
BreakOff ==
  \/ \E first \in {FlashStart} \cup (IF protected THEN {} ELSE {0}) :
       bank' \in CutErase(bank, first)
  \/ \E f \in Files, n \in Pages :
       /\ First(f) <= n /\ n < FlashLimit
       /\ HoldsUpTo(bank, f, n) \/ n = First(f)
       /\ bank' \in CutWrite(IF n = First(f) THEN ErasedFrom(bank, n) ELSE bank, n)

Init == bank = [p \in Pages |-> PageOf(Old)]

Next == bank' /= bank /\ ((\E f \in Files : Begin(f) \/ Extend(f)) \/ BreakOff)

Spec == Init /\ [][Next /\ UNCHANGED protected]_bank
=============================================================================
