----------------------------- MODULE BootRecord -----------------------------
(***************************************************************************)
(* What lib/boot_data.h promises to its callers, without pages, entries or *)
(* digests: one durable record, replaced atomically.  A write that is cut  *)
(* short by an error or by the loss of power leaves either the old record  *)
(* or the new one, and a write that returned kErrorOk left the new one.    *)
(***************************************************************************)

CONSTANTS
  Record,    \* what a boot data record may hold
  NoData     \* no record yet, no write in progress, nothing read yet

VARIABLES
  stored,    \* the record that survives a reset
  pending,   \* the record being written, NoData when no write is in progress
  answer     \* "none", or how the last call to the component ended

vars == << stored, pending, answer >>

Answers == {"none", "ok", "error"}

TypeOK ==
  /\ stored \in Record \cup {NoData}
  /\ pending \in Record \cup {NoData}
  /\ answer \in Answers

Init ==
  /\ stored \in Record \cup {NoData}
  /\ pending = NoData
  /\ answer = "none"

(***************************************************************************)
(* boot_data_write() is called with a new record.                          *)
(***************************************************************************)
Begin ==
  /\ pending = NoData
  /\ pending' \in Record
  /\ answer' = "none"
  /\ UNCHANGED stored

(***************************************************************************)
(* The instant at which the new record replaces the old one.               *)
(***************************************************************************)
Commit ==
  /\ pending # NoData
  /\ stored' = pending
  /\ UNCHANGED << pending, answer >>

(***************************************************************************)
(* boot_data_write() returns kErrorOk.                                     *)
(***************************************************************************)
Succeed ==
  /\ pending # NoData
  /\ stored = pending
  /\ pending' = NoData
  /\ answer' = "ok"
  /\ UNCHANGED stored

(***************************************************************************)
(* A call returns an error, or power is lost: the answer is not kErrorOk   *)
(* and the stored record is what it was.                                   *)
(***************************************************************************)
GiveUp ==
  /\ pending' = NoData
  /\ answer' \in {"none", "error"}
  /\ UNCHANGED stored

(***************************************************************************)
(* boot_data_read() returns: it changes nothing that is durable.           *)
(***************************************************************************)
Read ==
  /\ pending = NoData
  /\ answer' \in {"ok", "error"}
  /\ UNCHANGED << stored, pending >>

Next ==
  \/ Begin
  \/ Commit
  \/ Succeed
  \/ GiveUp
  \/ Read

Spec == Init /\ [][Next]_vars

=============================================================================
