------------------------------ MODULE BootData ------------------------------
(***************************************************************************)
(* The boot data log of the silicon creator code                           *)
(* (sw/device/silicon_creator/lib/boot_data.c).                            *)
(*                                                                         *)
(* Boot data is one small record (minimum security versions, primary slot, *)
(* ownership state, nonce, ...).  It is kept in two flash info pages used  *)
(* as append-only logs: an update appends a new entry to the active page,  *)
(* or erases the other page and starts it when the active page is full,    *)
(* and then invalidates the entry it replaces.  Nothing but the contents   *)
(* of the two pages survives a reset, and power may fail between any two   *)
(* flash operations and in the middle of each.                             *)
(***************************************************************************)
EXTENDS Integers

CONSTANTS
  EntriesPerPage,   \* kBootDataEntriesPerPage
  Policies,         \* every field of a record but its slot, as one value
  DefaultPolicy,    \* the value boot_data_default_get() builds
  LcState,          \* the life cycle state of the device
  AllowedInProd,    \* the OTP item DEFAULT_BOOT_DATA_IN_PROD_EN
  CounterMod,       \* counters are CounterMod-bit-width words: 2^32 in the code
  Erased, Torn,     \* flash words never programmed; words cut short
  NoData,           \* no record read, or found
  MaxCounter,       \* bound: no write once the counter has reached it
  MaxFaults         \* bound: flash errors and power cuts in the middle of a write

DefaultCounter == 5        \* kBootDataDefaultCounterVal

Pages == {0, 1}
Index == 1..EntriesPerPage

Slots == {"A", "B", "unset"}
Settings == [slot : Slots, policy : Policies]
Record == [version : {1, 2}, counter : Nat, settings : Settings]

ASSUME ConstantsAssumption ==
  /\ EntriesPerPage \in Nat \ {0}
  /\ DefaultPolicy \in Policies
  /\ LcState \in {"test", "dev", "prod", "prod_end", "rma"}
  /\ AllowedInProd \in BOOLEAN
  /\ CounterMod \in Nat \ {0}
  /\ MaxCounter \in Nat
  /\ MaxFaults \in Nat
  /\ Erased \notin Record
  /\ Torn \notin Record
  /\ NoData \notin Record
  /\ Erased # Torn

(***************************************************************************)
(* An entry as it is laid out in flash.  The digest of a record is         *)
(* represented by the record it was computed from.                         *)
(***************************************************************************)
Entry == [digest  : Record \cup {Erased, Torn},
          isValid : {"erased", "torn", "zero"},
          body    : Record \cup {Erased, Torn}]

EmptyEntry == [digest |-> Erased, isValid |-> "erased", body |-> Erased]
ErasedPage == [i \in Index |-> EmptyEntry]

VARIABLES
  flash,    \* the two boot data pages
  pc,       \* where boot_data_write() stands; "idle" outside, "off" without power
  job,      \* the local variables of boot_data_write()
  ram,      \* the caller's boot_data_t, NoData until it has been read
  answer,   \* what the last call returned
  faults    \* faults so far

vars == << flash, pc, job, ram, answer, faults >>

Writing == {"erase", "digest", "body", "check", "invalidate"}

Job == [page : Pages, index : Index, record : Record,
        replaces : BOOLEAN, oldPage : Pages, oldIndex : Index]

TypeOK ==
  /\ flash \in [Pages -> [Index -> Entry]]
  /\ pc \in Writing \cup {"off", "idle", "trap"}
  /\ job \in Job \cup {NoData}
  /\ pc \in Writing => job \in Job
  /\ ram \in Record \cup {NoData}
  /\ answer \in {"none", "ok", "error"}
  /\ faults \in 0..MaxFaults

-----------------------------------------------------------------------------
(***************************************************************************)
(* Reading the log.                                                        *)
(***************************************************************************)

\* boot_data_is_empty()
IsEmpty(e) == e = EmptyEntry

\* boot_data_sniff(): the identifier masked with the words of is_valid
MaskedIdentifier(e) ==
  IF e.isValid # "erased" THEN "masked"
  ELSE IF e.body = Erased THEN "erased" ELSE "identifier"

\* boot_data_check(): the digest covers is_valid and the body
Check(e) ==
  /\ e.isValid = "erased"
  /\ e.body \notin {Erased, Torn}
  /\ e.digest = e.body

\* Mutant: trust the masked identifier, do not look at the whole entry.
EmptyFoundBySniff(e) == MaskedIdentifier(e) = "erased"

\* the forward search of boot_data_page_info_update_impl()
EmptyFound(e) == MaskedIdentifier(e) = "erased" /\ IsEmpty(e)
HasEmpty(pg) == \E i \in Index : EmptyFound(pg[i])

\* Mutant: the search stops one entry too far.
FirstEmptyTooFar(pg) ==
  1 + CHOOSE i \in Index : EmptyFound(pg[i]) /\ \A j \in 1..(i - 1) : ~ EmptyFound(pg[j])

FirstEmpty(pg) ==
  CHOOSE i \in Index : EmptyFound(pg[i]) /\ \A j \in 1..(i - 1) : ~ EmptyFound(pg[j])

\* its backward search, from the first empty entry down
ValidFound(pg) ==
  {i \in Index : /\ \A j \in 1..i : ~ EmptyFound(pg[j])
                 /\ MaskedIdentifier(pg[i]) = "identifier"
                 /\ Check(pg[i])}
LastOf(valid) == CHOOSE i \in valid : \A j \in valid : j <= i
LastValid(pg) == LastOf(ValidFound(pg))
LastRecord(pg) == pg[LastValid(pg)].body

\* boot_data_active_page_find(): page 0, then page 1 if it is newer
HasRecord(f) == \E p \in Pages : ValidFound(f[p]) # {}
BothValid(f) == \A p \in Pages : ValidFound(f[p]) # {}

\* Mutant: a valid entry in page 1 always wins.
ActivePageLastScanned(f) == IF ValidFound(f[1]) # {} THEN 1 ELSE 0

ActivePage(f) ==
  IF \/ ValidFound(f[0]) = {}
     \/ ValidFound(f[1]) # {} /\ LastRecord(f[1]).counter > LastRecord(f[0]).counter
  THEN 1 ELSE 0

LastEntry(f) == IF ActivePage(f) = 1 THEN LastRecord(f[1]) ELSE LastRecord(f[0])

\* HARDENED_CHECK_LT(buf.counter, boot_data->counter) fails
ScanTraps(f) ==
  /\ BothValid(f)
  /\ LastRecord(f[1]).counter = LastRecord(f[0]).counter

\* boot_data_as_v2()
AsV2(r) ==
  IF r.version = 1
  THEN [r EXCEPT !.version = 2, !.settings.slot = "A"]
  ELSE r

\* boot_data_default_get()
DefaultAllowed == LcState \in {"prod", "prod_end"} => AllowedInProd
DefaultRecord ==
  [version |-> 2, counter |-> DefaultCounter,
   settings |-> [slot |-> "A", policy |-> DefaultPolicy]]

-----------------------------------------------------------------------------
(***************************************************************************)
(* Flash words.  Programming can only clear bits, so programming a word    *)
(* that is not erased leaves neither the old value nor the new one.        *)
(***************************************************************************)
Program(old, new) == IF old = Erased THEN new ELSE Torn

\* What an interrupted page erase may do to an entry: nothing, erase it all,
\* bring is_valid back to its erased state, or leave noise.
Decay(e, how) ==
  CASE how = "kept"    -> e
    [] how = "erased"  -> EmptyEntry
    [] how = "revived" -> [e EXCEPT !.isValid = "erased"]
    [] how = "noise"   -> [e EXCEPT !.digest = Torn, !.body = Torn]
Decays == {"kept", "erased", "revived", "noise"}

NextCounter(c) == (c + 1) % CounterMod

-----------------------------------------------------------------------------
\* A device fresh from the factory, or one whose first record was written by
\* code that knew version 1 only.
OldRecord ==
  [version |-> 1, counter |-> DefaultCounter + 1,
   settings |-> [slot |-> "unset", policy |-> DefaultPolicy]]

Init ==
  /\ \/ flash = [p \in Pages |-> ErasedPage]
     \/ flash = [p \in Pages |->
                  IF p = 0
                  THEN [ErasedPage EXCEPT ![1] =
                         [digest |-> OldRecord, isValid |-> "erased", body |-> OldRecord]]
                  ELSE ErasedPage]
  /\ pc = "off"
  /\ job = NoData
  /\ ram = NoData
  /\ answer = "none"
  /\ faults = 0

Return(a) == pc' = "idle" /\ answer' = a

(***************************************************************************)
(* A flash operation fails in the middle: power is gone, or the controller *)
(* reports an error and the error is returned to the caller.               *)
(***************************************************************************)
Interrupted ==
  /\ faults < MaxFaults
  /\ faults' = faults + 1
  /\ \/ pc' = "off" /\ answer' = "none" /\ ram' = NoData
     \/ Return("error") /\ UNCHANGED ram

\* The controller reports success, but a word is not what was written.
SilentFault(next) ==
  /\ faults < MaxFaults
  /\ faults' = faults + 1
  /\ pc' = next
  /\ UNCHANGED << ram, answer >>

PowerUp ==
  /\ pc = "off"
  /\ pc' = "idle"
  /\ answer' = "none"
  /\ UNCHANGED << flash, job, ram, faults >>

\* Power is lost, or the device resets, between two flash operations.
PowerCut ==
  /\ pc # "off"
  /\ IF pc \in Writing
     THEN faults < MaxFaults /\ faults' = faults + 1
     ELSE UNCHANGED faults
  /\ pc' = "off"
  /\ ram' = NoData
  /\ answer' = "none"
  /\ UNCHANGED << flash, job >>

Trap ==
  /\ ScanTraps(flash)
  /\ pc' = "trap"
  /\ UNCHANGED << flash, job, ram, answer, faults >>

\* A read transaction of the scan fails: nothing has been changed.
ScanFails ==
  /\ faults < MaxFaults
  /\ faults' = faults + 1
  /\ Return("error")
  /\ UNCHANGED << flash, job >>

(***************************************************************************)
(* boot_data_read().                                                       *)
(***************************************************************************)
BootDataRead ==
  /\ pc = "idle"
  /\ \/ Trap
     \/ ScanFails /\ ram' = NoData
     \/ /\ ~ ScanTraps(flash)
        /\ IF HasRecord(flash)
           THEN ram' = AsV2(LastEntry(flash)) /\ Return("ok")
           ELSE IF DefaultAllowed
                THEN ram' = DefaultRecord /\ Return("ok")
                ELSE ram' = NoData /\ Return("error")
        /\ UNCHANGED << flash, job, faults >>

(***************************************************************************)
(* boot_data_write(), called with the caller's copy of the record after it *)
(* has changed some of its settings.  The scan and the choice of the entry *)
(* to write are one step: they only read.                                  *)
(***************************************************************************)

\* Mutant: count on from the caller's copy, which no write updates.
NewRecordOfCaller(counter, settings) ==
  [version |-> ram.version, counter |-> NextCounter(ram.counter), settings |-> settings]

NewRecord(counter, settings) ==
  [version |-> ram.version, counter |-> counter, settings |-> settings]

\* Mutant: a full page is erased and reused at once.
ReplaceInPlace(settings) ==
  LET page == ActivePage(flash)
      append == HasEmpty(flash[page])
  IN  /\ LastEntry(flash).counter < MaxCounter
      /\ job' = [page     |-> page,
                 index    |-> IF append THEN FirstEmpty(flash[page]) ELSE 1,
                 record   |-> NewRecord(NextCounter(LastEntry(flash).counter), settings),
                 replaces |-> TRUE,
                 oldPage  |-> page,
                 oldIndex |-> LastValid(flash[page])]
      /\ pc' = IF append THEN "digest" ELSE "erase"

Replace(settings) ==
  LET page == ActivePage(flash)
      append == HasEmpty(flash[page])
  IN  /\ LastEntry(flash).counter < MaxCounter
      /\ job' = [page     |-> IF append THEN page ELSE 1 - page,
                 index    |-> IF append THEN FirstEmpty(flash[page]) ELSE 1,
                 record   |-> NewRecord(NextCounter(LastEntry(flash).counter), settings),
                 replaces |-> TRUE,
                 oldPage  |-> page,
                 oldIndex |-> LastValid(flash[page])]
      /\ pc' = IF append THEN "digest" ELSE "erase"

CreateFirst(settings) ==
  /\ job' = [page     |-> 0,
             index    |-> 1,
             record   |-> NewRecord(DefaultCounter + 1, settings),
             replaces |-> FALSE,
             oldPage  |-> 0,
             oldIndex |-> 1]
  /\ pc' = "erase"

BootDataWrite(settings) ==
  /\ pc = "idle"
  /\ ram # NoData
  /\ \/ Trap
     \/ ScanFails /\ UNCHANGED ram
     \/ /\ ~ ScanTraps(flash)
        /\ IF HasRecord(flash) THEN Replace(settings) ELSE CreateFirst(settings)
        /\ ram' = [ram EXCEPT !.settings = settings]
        /\ answer' = "none"
        /\ UNCHANGED << flash, faults >>

Target == flash[job.page][job.index]
WriteTarget(e) == flash' = [flash EXCEPT ![job.page][job.index] = e]

ErasePage ==
  /\ pc = "erase"
  /\ \/ /\ flash' = [flash EXCEPT ![job.page] = ErasedPage]
        /\ pc' = "digest"
        /\ UNCHANGED << ram, answer, faults >>
     \/ /\ \E how \in [Index -> Decays] :
             flash' = [flash EXCEPT ![job.page] =
                        [i \in Index |-> Decay(flash[job.page][i], how[i])]]
        /\ Interrupted
  /\ UNCHANGED job

WriteDigest ==
  /\ pc = "digest"
  /\ \/ /\ WriteTarget([Target EXCEPT !.digest = Program(@, job.record)])
        /\ pc' = "body"
        /\ UNCHANGED << ram, answer, faults >>
     \/ /\ WriteTarget([Target EXCEPT !.digest = Torn])
        /\ SilentFault("body")
     \/ /\ flash' = flash \/ WriteTarget([Target EXCEPT !.digest = Torn])
        /\ Interrupted
  /\ UNCHANGED job

WriteBody ==
  /\ pc = "body"
  /\ \/ /\ WriteTarget([Target EXCEPT !.body = Program(@, job.record)])
        /\ pc' = "check"
        /\ UNCHANGED << ram, answer, faults >>
     \/ /\ WriteTarget([Target EXCEPT !.body = Torn])
        /\ SilentFault("check")
     \/ /\ flash' = flash \/ WriteTarget([Target EXCEPT !.body = Torn])
        /\ Interrupted
  /\ UNCHANGED job

\* Mutant: the entry is not read back.
WrittenUnchecked == TRUE

\* The new entry is read back and compared word by word.
WrittenAsIntended ==
  Target = [digest |-> job.record, isValid |-> "erased", body |-> job.record]

CheckWritten ==
  /\ pc = "check"
  /\ \/ /\ IF ~ WrittenAsIntended THEN Return("error")
           ELSE IF job.replaces THEN pc' = "invalidate" /\ UNCHANGED answer
           ELSE Return("ok")
        /\ UNCHANGED << ram, faults >>
     \/ Interrupted
  /\ UNCHANGED << flash, job >>

\* Mutant: the entry just written is invalidated.
WriteIsValidOfNew(v) == flash' = [flash EXCEPT ![job.page][job.index].isValid = v]

WriteIsValid(v) == flash' = [flash EXCEPT ![job.oldPage][job.oldIndex].isValid = v]

Invalidate ==
  /\ pc = "invalidate"
  /\ \/ /\ WriteIsValid("zero")
        /\ Return("ok")
        /\ UNCHANGED << ram, faults >>
     \/ /\ flash' = flash \/ WriteIsValid("torn")
        /\ Interrupted
  /\ UNCHANGED job

Next ==
  \/ PowerUp
  \/ PowerCut
  \/ BootDataRead
  \/ \E settings \in [slot : {"A", "B"}, policy : Policies] : BootDataWrite(settings)
  \/ ErasePage
  \/ WriteDigest
  \/ WriteBody
  \/ CheckWritten
  \/ Invalidate

Spec == Init /\ [][Next]_vars

-----------------------------------------------------------------------------
(***************************************************************************)
(* The log as one durable record.  What survives a reset is what the scan  *)
(* of the two pages finds.                                                 *)
(***************************************************************************)
Durable == IF HasRecord(flash) THEN AsV2(LastEntry(flash)) ELSE NoData

Abstract == INSTANCE BootRecord WITH
  stored  <- Durable,
  pending <- IF pc \in Writing THEN job.record ELSE NoData

(***************************************************************************)
(* The log implements one atomically replaced record: whatever is cut      *)
(* short, and wherever, boot_data_read() finds the old record or the new   *)
(* one, and a write that returned kErrorOk is never undone.                *)
(***************************************************************************)
AtomicRecord == Abstract!Spec

Complete(e) == e.body \notin {Erased, Torn} /\ e.digest = e.body

(***************************************************************************)
(* The scan finds the newest entry.  It looks at a page only up to the     *)
(* first empty entry, picks by position inside a page and by counter       *)
(* between the pages; still no entry that carries a matching digest, even  *)
(* one an interrupted erase brought back, has a higher counter, and none   *)
(* but the one found has the same.                                         *)
(***************************************************************************)
NewestIsFound ==
  LET active == ActivePage(flash)
      last   == LastValid(flash[active])
      newest == flash[active][last].body.counter
  IN  \A p \in Pages, i \in Index :
        Complete(flash[p][i]) =>
          /\ HasRecord(flash)
          /\ flash[p][i].body.counter <= newest
          /\ flash[p][i].body.counter = newest => p = active /\ i = last

(***************************************************************************)
(* boot_data_page_info_update_impl() traps when the two pages hold valid   *)
(* entries with equal counters ("Counters cannot be equal ... since they   *)
(* are incremented at each write").  It never does: a device whose log was *)
(* torn at any point does not hang in the scan.                            *)
(***************************************************************************)
NeverTraps == pc # "trap"

(***************************************************************************)
(* Once a record exists one always exists, and the counter of the record   *)
(* in force never decreases: no step, interrupted or not, returns the      *)
(* device to its default record or to an older one.                        *)
(***************************************************************************)
NeverRollsBack ==
  [][HasRecord(flash) =>
       /\ HasRecord(flash')
       /\ LastEntry(flash').counter >= LastEntry(flash).counter]_vars

(***************************************************************************)
(* New entries go to erased flash words only, whatever earlier writes left *)
(* behind, so an interrupted write never makes a later one fail.           *)
(***************************************************************************)
WritesHitErasedWords ==
  /\ pc = "digest" => Target = EmptyEntry
  /\ pc = "body" => Target.body = Erased

(***************************************************************************)
(* After a call that returned kErrorOk, what would be read after a reset   *)
(* holds the settings of the caller's copy.                                *)
(***************************************************************************)
AnswerIsDurable ==
  pc = "idle" /\ answer = "ok" /\ HasRecord(flash) =>
    Durable.settings = ram.settings

=============================================================================
