--------------------------- MODULE BootDataProofs ---------------------------
(***************************************************************************)
(* Theorems about BootData, for pages of any size, any set of policies and *)
(* any number of faults.                                                   *)
(***************************************************************************)
EXTENDS BootData, WellFoundedInduction, TLAPS

\* 2^32 writes wear the flash out long before the counter can wrap.
NoWrap == MaxCounter < CounterMod

-----------------------------------------------------------------------------
(***************************************************************************)
(* The inductive invariant.  It is stated about the contents f of the two  *)
(* pages, so that it can be used of flash and of flash'.                   *)
(***************************************************************************)
Flash == [Pages -> [Index -> Entry]]

\* Counters grow along a page, counting entries that were invalidated too:
\* an interrupted erase may bring those back.
Ordered(f) ==
  \A p \in Pages : \A i, j \in Index :
    i < j /\ Complete(f[p][i]) /\ Complete(f[p][j]) =>
      f[p][i].body.counter < f[p][j].body.counter

\* Entry i of page p is in force: it is valid, no empty entry hides it from
\* the scan, and every other complete entry is older.
InForce(f, p, i) ==
  /\ Check(f[p][i])
  /\ \A j \in 1..i : ~ IsEmpty(f[p][j])
  /\ \A q \in Pages : \A j \in Index :
       Complete(f[q][j]) /\ ~ (q = p /\ j = i) =>
         f[q][j].body.counter < f[p][i].body.counter

NoneComplete(f) == \A p \in Pages : \A i \in Index : ~ Complete(f[p][i])

Sound(f) ==
  /\ Ordered(f)
  /\ NoneComplete(f) \/ \E p \in Pages : \E i \in Index : InForce(f, p, i)

\* Everything complete but the entry being written is older than it.
OthersOlder(f) ==
  \A q \in Pages : \A j \in Index :
    Complete(f[q][j]) /\ ~ (q = job.page /\ j = job.index) =>
      f[q][j].body.counter < job.record.counter

\* The entry being written is where the log of its page ends.
AtTheEnd(f) ==
  /\ \A j \in 1..(job.index - 1) : ~ IsEmpty(f[job.page][j])
  /\ \A j \in Index : j > job.index => ~ Complete(f[job.page][j])

Half(w) == w \in {job.record, Torn}

WritingInv ==
  /\ pc \in Writing =>
       /\ OthersOlder(flash)
       /\ job.record.version = 2
       /\ ram \in Record
       /\ job.record.settings = ram.settings
       /\ (job.replaces =>
             ~ (job.oldPage = job.page /\ job.oldIndex = job.index))
  /\ pc = "erase" =>
       /\ job.index = 1
       /\ NoneComplete(flash) \/ \E i \in Index : InForce(flash, 1 - job.page, i)
  /\ pc \in Writing \ {"erase"} => AtTheEnd(flash)
  /\ pc = "digest" => Target = EmptyEntry
  /\ pc = "body" => Half(Target.digest) /\ Target.isValid = "erased" /\ Target.body = Erased
  /\ pc = "check" => Half(Target.digest) /\ Target.isValid = "erased" /\ Half(Target.body)
  /\ pc = "invalidate" => WrittenAsIntended /\ job.replaces

IInv ==
  /\ TypeOK
  /\ Sound(flash)
  /\ pc # "trap"
  /\ WritingInv
  /\ ram # NoData => ram.version = 2
  /\ AnswerIsDurable

-----------------------------------------------------------------------------
(***************************************************************************)
(* Least and greatest indices.                                             *)
(***************************************************************************)

\* Every nonempty set of natural numbers has a least element.
LEMMA LeastNat ==
  ASSUME NEW S \in SUBSET Nat, S # {}
  PROVE  \E n \in S : \A m \in S : n <= m
<1>1. \E n \in S : \A m \in S : ~ (<<m, n>> \in OpToRel(<, Nat))
  BY NatLessThanWellFounded, WFMin, Zenon
<1>2. \A m, n \in Nat : <<m, n>> \in OpToRel(<, Nat) <=> m < n
  BY DEF OpToRel
<1>3. PICK n \in S : \A m \in S : ~ (<<m, n>> \in OpToRel(<, Nat))
  BY <1>1
<1>4. \A m \in S : ~ (m < n)
  BY <1>2, <1>3
<1> QED
  BY <1>4

\* LastOf() returns the greatest element of a nonempty set of indices.
LEMMA LastOfIsGreatest ==
  ASSUME NEW V \in SUBSET Index, V # {}
  PROVE  LastOf(V) \in V /\ \A j \in V : j <= LastOf(V)
<1> DEFINE S == {EntriesPerPage - v : v \in V}
<1>1. S \in SUBSET Nat /\ S # {}
  <2>1. \A v \in V : EntriesPerPage - v \in Nat
    BY ConstantsAssumption DEF Index
  <2>2. \E v \in V : TRUE
    OBVIOUS
  <2> QED
    BY <2>1, <2>2
<1>2. PICK n \in S : \A m \in S : n <= m
  BY <1>1, LeastNat
<1>3. PICK i \in V : n = EntriesPerPage - i
  BY <1>2
<1>4. \A j \in V : j <= i
  <2> SUFFICES ASSUME NEW j \in V PROVE j <= i
    OBVIOUS
  <2>1. n <= EntriesPerPage - j
    BY <1>2
  <2> QED
    BY <2>1, <1>3, ConstantsAssumption DEF Index
<1> QED
  BY <1>4 DEF LastOf

\* FirstEmpty() returns the first empty entry of a page that has one.
LEMMA FirstEmptyIsFirst ==
  ASSUME NEW pg, HasEmpty(pg)
  PROVE  /\ FirstEmpty(pg) \in Index
         /\ EmptyFound(pg[FirstEmpty(pg)])
         /\ \A j \in 1..(FirstEmpty(pg) - 1) : ~ EmptyFound(pg[j])
<1> DEFINE S == {i \in Index : EmptyFound(pg[i])}
<1>1. S \in SUBSET Nat /\ S # {}
  BY DEF HasEmpty, Index
<1>2. PICK n \in S : \A m \in S : n <= m
  BY <1>1, LeastNat
<1>3. n \in Index /\ EmptyFound(pg[n])
  BY <1>2
<1>4. \A j \in 1..(n - 1) : ~ EmptyFound(pg[j])
  <2> SUFFICES ASSUME NEW j \in 1..(n - 1), EmptyFound(pg[j]) PROVE FALSE
    OBVIOUS
  <2>1. j \in Index
    BY <1>3, ConstantsAssumption DEF Index
  <2>2. n <= j
    BY <1>2, <2>1
  <2> QED
    BY <2>2, <1>3 DEF Index
<1> QED
  BY <1>3, <1>4, Zenon DEF FirstEmpty

-----------------------------------------------------------------------------
(***************************************************************************)
(* What the scan finds.                                                    *)
(***************************************************************************)

\* A page holds entries, and a complete entry holds a record.
LEMMA CompleteIsRecord ==
  ASSUME NEW f \in Flash, NEW p \in Pages, NEW i \in Index, Complete(f[p][i])
  PROVE  f[p][i].body \in Record /\ f[p][i].body.counter \in Nat
<1>1. f[p][i] \in Entry
  BY DEF Flash
<1>2. f[p][i].body \in Record
  BY <1>1 DEF Entry, Complete
<1> QED
  BY <1>2 DEF Record

\* Valid entries are complete.
LEMMA CheckedIsComplete ==
  ASSUME NEW e, Check(e)
  PROVE  Complete(e)
BY DEF Check, Complete

\* The backward search returns indices of valid entries.
LEMMA ValidFoundChecked ==
  ASSUME NEW pg
  PROVE  /\ ValidFound(pg) \in SUBSET Index
         /\ \A i \in ValidFound(pg) : Check(pg[i])
BY DEF ValidFound

\* The search reaches the entry in force and stops there.
LEMMA ScanPage ==
  ASSUME NEW f \in Flash, Ordered(f), NEW p \in Pages, NEW i \in Index,
         InForce(f, p, i)
  PROVE  ValidFound(f[p]) # {} /\ LastValid(f[p]) = i
<1> DEFINE V == ValidFound(f[p])
<1>1. Check(f[p][i]) /\ Complete(f[p][i])
  BY CheckedIsComplete DEF InForce
<1>2. i \in V
  <2>1. \A j \in 1..i : ~ EmptyFound(f[p][j])
    BY DEF InForce, EmptyFound
  <2>2. MaskedIdentifier(f[p][i]) = "identifier"
    BY <1>1 DEF Check, MaskedIdentifier
  <2> QED
    BY <1>1, <2>1, <2>2 DEF ValidFound
<1>3. V \in SUBSET Index /\ \A j \in V : Check(f[p][j])
  BY ValidFoundChecked
<1>4. LastOf(V) \in V /\ \A j \in V : j <= LastOf(V)
  BY <1>2, <1>3, LastOfIsGreatest
<1>5. ASSUME LastOf(V) # i PROVE FALSE
  <2> DEFINE k == LastOf(V)
  <2>1. k \in Index /\ Check(f[p][k]) /\ i < k
    BY <1>2, <1>3, <1>4, <1>5 DEF Index
  <2>2. Complete(f[p][k])
    BY <2>1, CheckedIsComplete
  <2>3. f[p][k].body.counter < f[p][i].body.counter
    BY <1>5, <2>1, <2>2 DEF InForce
  <2>4. f[p][i].body.counter < f[p][k].body.counter
    BY <1>1, <2>1, <2>2 DEF Ordered
  <2>5. f[p][i].body.counter \in Nat /\ f[p][k].body.counter \in Nat
    BY <1>1, <2>1, <2>2, CompleteIsRecord
  <2> QED
    BY <2>3, <2>4, <2>5
<1> QED
  BY <1>2, <1>5 DEF LastValid

\* What the search finds on a page is an entry of the page, and complete.
LEMMA FoundIsComplete ==
  ASSUME NEW pg, ValidFound(pg) # {}
  PROVE  LastValid(pg) \in Index /\ Check(pg[LastValid(pg)]) /\ Complete(pg[LastValid(pg)])
BY ValidFoundChecked, LastOfIsGreatest, CheckedIsComplete DEF LastValid

\* boot_data_active_page_find() finds the entry in force, and does not trap.
LEMMA ScanFindsInForce ==
  ASSUME NEW f \in Flash, Ordered(f), NEW p \in Pages, NEW i \in Index,
         InForce(f, p, i)
  PROVE  /\ HasRecord(f)
         /\ ActivePage(f) = p
         /\ LastValid(f[p]) = i
         /\ LastEntry(f) = f[p][i].body
         /\ ~ ScanTraps(f)
<1>1. ValidFound(f[p]) # {} /\ LastValid(f[p]) = i
  BY ScanPage
<1>2. LastRecord(f[p]) = f[p][i].body /\ f[p][i].body.counter \in Nat
  BY <1>1, CheckedIsComplete, CompleteIsRecord DEF LastRecord, InForce
<1>3. ASSUME NEW q \in Pages, q # p, ValidFound(f[q]) # {}
      PROVE  /\ LastRecord(f[q]).counter \in Nat
             /\ LastRecord(f[q]).counter < f[p][i].body.counter
  <2>1. LastValid(f[q]) \in Index /\ Complete(f[q][LastValid(f[q])])
    BY <1>3, FoundIsComplete
  <2> QED
    BY <1>3, <2>1, CompleteIsRecord DEF InForce, LastRecord
<1>4. CASE p = 0
  <2>1. ValidFound(f[1]) # {} => LastRecord(f[1]).counter \in Nat
                              /\ LastRecord(f[1]).counter < LastRecord(f[0]).counter
    BY <1>2, <1>3, <1>4 DEF Pages
  <2>2. ActivePage(f) = 0
    BY <1>1, <1>2, <1>4, <2>1 DEF ActivePage
  <2> QED
    BY <1>1, <1>2, <1>4, <2>1, <2>2 DEF HasRecord, LastEntry, ScanTraps, BothValid, Pages
<1>5. CASE p = 1
  <2>1. ValidFound(f[0]) # {} => LastRecord(f[0]).counter \in Nat
                              /\ LastRecord(f[0]).counter < LastRecord(f[1]).counter
    BY <1>2, <1>3, <1>5 DEF Pages
  <2>2. ActivePage(f) = 1
    BY <1>1, <1>2, <1>5, <2>1 DEF ActivePage
  <2> QED
    BY <1>1, <1>2, <1>5, <2>1, <2>2 DEF HasRecord, LastEntry, ScanTraps, BothValid, Pages
<1> QED
  BY <1>4, <1>5 DEF Pages

\* It finds nothing when nothing is complete.
LEMMA ScanFindsNothing ==
  ASSUME NEW f \in Flash, NoneComplete(f)
  PROVE  ~ HasRecord(f) /\ ~ ScanTraps(f)
<1>1. \A p \in Pages : ValidFound(f[p]) = {}
  BY FoundIsComplete DEF NoneComplete
<1> QED
  BY <1>1 DEF HasRecord, ScanTraps, BothValid, Pages

-----------------------------------------------------------------------------
(***************************************************************************)
(* What a change of the pages does to them.                                *)
(***************************************************************************)

\* The pages g are the pages f with one entry overwritten.
Overwritten(f, g, p, i, e) ==
  /\ g \in Flash
  /\ g[p][i] = e
  /\ \A q \in Pages : \A j \in Index : ~ (q = p /\ j = i) => g[q][j] = f[q][j]

LEMMA Put ==
  ASSUME NEW f \in Flash, NEW p \in Pages, NEW i \in Index, NEW e \in Entry
  PROVE  Overwritten(f, [f EXCEPT ![p][i] = e], p, i, e)
BY DEF Flash, Overwritten

\* No entry of g is complete that was not complete in f.
NothingCompleted(f, g) ==
  \A q \in Pages : \A j \in Index :
    Complete(g[q][j]) => Complete(f[q][j]) /\ g[q][j].body = f[q][j].body

\* The entry in force is as it was, and no entry before it was erased.
InForceKept(f, g) ==
  \A p \in Pages : \A i \in Index :
    InForce(f, p, i) =>
      /\ g[p][i] = f[p][i]
      /\ \A j \in 1..i : IsEmpty(g[p][j]) => IsEmpty(f[p][j])

Kept(f, g) == NothingCompleted(f, g) /\ InForceKept(f, g)

\* A change that completes no entry, and leaves the entry in force where the
\* scan finds it, leaves it in force.
LEMMA StaysSound ==
  ASSUME NEW f \in Flash, NEW g \in Flash, Sound(f), Kept(f, g)
  PROVE  /\ Sound(g)
         /\ \A p \in Pages : \A i \in Index : InForce(f, p, i) => InForce(g, p, i)
<1>1. Ordered(g)
  BY DEF Ordered, Sound, Kept, NothingCompleted
<1>2. NoneComplete(f) => NoneComplete(g)
  BY DEF NoneComplete, Kept, NothingCompleted
<1>3. ASSUME NEW p \in Pages, NEW i \in Index, InForce(f, p, i)
      PROVE  InForce(g, p, i)
  BY <1>3 DEF InForce, Kept, InForceKept, NothingCompleted
<1> QED
  BY <1>1, <1>2, <1>3 DEF Sound

-----------------------------------------------------------------------------
(***************************************************************************)
(* Sound pages have at most one record in force, the one the scan returns. *)
(***************************************************************************)
LEMMA RecordInForce ==
  ASSUME NEW f \in Flash, Sound(f), HasRecord(f)
  PROVE  /\ ActivePage(f) \in Pages
         /\ LastValid(f[ActivePage(f)]) \in Index
         /\ InForce(f, ActivePage(f), LastValid(f[ActivePage(f)]))
         /\ LastEntry(f) = f[ActivePage(f)][LastValid(f[ActivePage(f)])].body
         /\ LastEntry(f) \in Record
<1>1. ~ NoneComplete(f)
  BY ScanFindsNothing
<1>2. PICK p \in Pages, i \in Index : InForce(f, p, i)
  BY <1>1 DEF Sound
<1>3. ActivePage(f) = p /\ LastValid(f[p]) = i /\ LastEntry(f) = f[p][i].body
  BY <1>2, ScanFindsInForce DEF Sound
<1>4. f[p][i].body \in Record
  BY <1>2, CheckedIsComplete, CompleteIsRecord DEF InForce
<1> QED
  BY <1>2, <1>3, <1>4

LEMMA SoundNeverTraps ==
  ASSUME NEW f \in Flash, Sound(f)
  PROVE  ~ ScanTraps(f)
<1>1. CASE NoneComplete(f)
  BY <1>1, ScanFindsNothing
<1>2. CASE \E p \in Pages : \E i \in Index : InForce(f, p, i)
  BY <1>2, ScanFindsInForce DEF Sound
<1> QED
  BY <1>1, <1>2 DEF Sound

LEMMA AsV2Record ==
  ASSUME NEW r \in Record
  PROVE  AsV2(r) \in Record /\ AsV2(r).version = 2 /\ AsV2(r).counter = r.counter
BY DEF AsV2, Record, Settings, Slots

-----------------------------------------------------------------------------
(***************************************************************************)
(* The invariant holds initially and every step preserves it.              *)
(***************************************************************************)
LEMMA EmptyEntryIsEntry == EmptyEntry \in Entry /\ ~ Complete(EmptyEntry)
BY ConstantsAssumption DEF EmptyEntry, Entry, Complete

LEMMA InitIInv == Init => IInv
<1> SUFFICES ASSUME Init PROVE IInv
  OBVIOUS
<1> DEFINE old == [digest |-> OldRecord, isValid |-> "erased", body |-> OldRecord]
<1>1. OldRecord \in Record
  BY ConstantsAssumption DEF OldRecord, Record, Settings, Slots, DefaultCounter
<1>2. old \in Entry /\ Check(old) /\ ~ IsEmpty(old)
  <2>1. OldRecord # Erased /\ OldRecord # Torn
    BY <1>1, ConstantsAssumption
  <2> QED
    BY <1>1, <2>1 DEF Entry, Check, IsEmpty, EmptyEntry
<1>3. ErasedPage \in [Index -> Entry] /\ \A i \in Index : ~ Complete(ErasedPage[i])
  BY EmptyEntryIsEntry DEF ErasedPage
<1>4. flash \in Flash /\ Sound(flash)
  <2>1. CASE flash = [p \in Pages |-> ErasedPage]
    BY <1>3, <2>1 DEF Flash, Sound, Ordered, NoneComplete
  <2>2. CASE flash = [p \in Pages |-> IF p = 0 THEN [ErasedPage EXCEPT ![1] = old]
                                      ELSE ErasedPage]
    <3>1. 1 \in Index /\ 0 \in Pages
      BY ConstantsAssumption DEF Index, Pages
    <3>2. flash \in Flash /\ flash[0][1] = old
      BY <1>2, <1>3, <2>2, <3>1 DEF Flash
    <3>3. \A q \in Pages : \A j \in Index :
            ~ (q = 0 /\ j = 1) => ~ Complete(flash[q][j])
      BY <1>3, <2>2, <3>1 DEF Flash
    <3>4. InForce(flash, 0, 1)
      BY <1>2, <3>1, <3>2, <3>3 DEF InForce, Index
    <3>5. Ordered(flash)
      BY <3>3 DEF Ordered, Index
    <3> QED
      BY <3>1, <3>2, <3>4, <3>5 DEF Sound
  <2> QED
    BY <2>1, <2>2 DEF Init
<1>5. TypeOK
  BY <1>4, ConstantsAssumption DEF Init, TypeOK, Flash, Writing
<1> QED
  BY <1>4, <1>5 DEF Init, IInv, WritingInv, AnswerIsDurable, Writing

\* Steps outside boot_data_write().
LEMMA OutsideIInv ==
  ASSUME IInv, PowerUp \/ PowerCut \/ BootDataRead
  PROVE  IInv'
<1>1. CASE PowerUp
  BY <1>1 DEF PowerUp, IInv, TypeOK, WritingInv, AnswerIsDurable, Writing
<1>2. CASE PowerCut
  <2>1. faults' \in 0..MaxFaults
    BY <1>2, ConstantsAssumption DEF PowerCut, IInv, TypeOK
  <2> QED
    BY <1>2, <2>1 DEF PowerCut, IInv, TypeOK, WritingInv, AnswerIsDurable, Writing
<1>3. CASE BootDataRead
  <2>1. flash \in Flash /\ ~ ScanTraps(flash)
    BY SoundNeverTraps DEF IInv, TypeOK, Flash
  <2>2. CASE ScanFails /\ ram' = NoData
    <3>1. faults' \in 0..MaxFaults
      BY <2>2, ConstantsAssumption DEF ScanFails, IInv, TypeOK
    <3> QED
      BY <2>2, <3>1
      DEF ScanFails, Return, IInv, TypeOK, WritingInv, AnswerIsDurable, Writing
  <2>3. CASE /\ IF HasRecord(flash)
                THEN ram' = AsV2(LastEntry(flash)) /\ Return("ok")
                ELSE IF DefaultAllowed
                     THEN ram' = DefaultRecord /\ Return("ok")
                     ELSE ram' = NoData /\ Return("error")
             /\ UNCHANGED << flash, job, faults >>
    <3>1. CASE HasRecord(flash)
      <4>1. ram' \in Record /\ ram'.version = 2 /\ ram' = Durable
        BY <2>1, <2>3, <3>1, RecordInForce, AsV2Record DEF IInv, Durable
      <4>2. Durable' = Durable
        BY <2>3 DEF Durable
      <4> QED
        BY <2>3, <3>1, <4>1, <4>2
        DEF Return, IInv, TypeOK, WritingInv, AnswerIsDurable, Writing
    <3>2. CASE ~ HasRecord(flash)
      <4>1. ram' \in Record \cup {NoData} /\ (ram' # NoData => ram'.version = 2)
        BY <2>3, <3>2, ConstantsAssumption
        DEF DefaultRecord, Record, Settings, Slots, DefaultCounter
      <4> QED
        BY <2>3, <3>2, <4>1
        DEF Return, IInv, TypeOK, WritingInv, AnswerIsDurable, Writing
    <3> QED
      BY <3>1, <3>2
  <2> QED
    BY <1>3, <2>1, <2>2, <2>3 DEF BootDataRead, Trap
<1> QED
  BY <1>1, <1>2, <1>3

\* The new counter is the successor of the last one.
LEMMA NextCounterIsSuccessor ==
  ASSUME NoWrap, NEW c \in Nat, c < MaxCounter
  PROVE  NextCounter(c) = c + 1
BY ConstantsAssumption DEF NextCounter, NoWrap

\* boot_data_write() chooses an erased entry after everything complete in its
\* page, and a counter above every other.
LEMMA WriteIInv ==
  ASSUME IInv, NoWrap, NEW settings \in [slot : {"A", "B"}, policy : Policies],
         BootDataWrite(settings)
  PROVE  IInv'
<1>1. flash \in Flash /\ ~ ScanTraps(flash) /\ Sound(flash)
  BY SoundNeverTraps DEF IInv, TypeOK, Flash
<1>2. ram \in Record /\ ram.version = 2
  BY DEF BootDataWrite, IInv, TypeOK
<1>3. settings \in Settings
  BY DEF Settings, Slots
<1>4. [ram EXCEPT !.settings = settings] \in Record
      /\ [ram EXCEPT !.settings = settings].version = 2
      /\ [ram EXCEPT !.settings = settings].settings = settings
  BY <1>2, <1>3 DEF Record
<1>5. CASE ScanFails /\ UNCHANGED ram
  <2>1. faults' \in 0..MaxFaults
    BY <1>5, ConstantsAssumption DEF ScanFails, IInv, TypeOK
  <2> QED
    BY <1>5, <2>1 DEF ScanFails, Return, IInv, TypeOK, WritingInv, AnswerIsDurable, Writing
<1>6. CASE /\ HasRecord(flash)
           /\ Replace(settings)
           /\ ram' = [ram EXCEPT !.settings = settings]
           /\ answer' = "none"
           /\ UNCHANGED << flash, faults >>
  <2> DEFINE page == ActivePage(flash)
             last == LastValid(flash[page])
             record == NewRecord(NextCounter(LastEntry(flash).counter), settings)
  <2>1. /\ page \in Pages /\ last \in Index /\ InForce(flash, page, last)
        /\ LastEntry(flash) = flash[page][last].body /\ LastEntry(flash) \in Record
    BY <1>1, <1>6, RecordInForce
  <2>2. LastEntry(flash).counter \in Nat /\ LastEntry(flash).counter < MaxCounter
    BY <1>6, <2>1 DEF Replace, Record
  <2>3. NextCounter(LastEntry(flash).counter) = LastEntry(flash).counter + 1
    BY <2>2, NextCounterIsSuccessor
  <2>4. /\ record \in Record /\ record.version = 2 /\ record.settings = settings
        /\ record.counter = LastEntry(flash).counter + 1
    BY <1>2, <1>3, <2>2, <2>3 DEF NewRecord, Record
  <2>5. \A q \in Pages : \A j \in Index :
          Complete(flash[q][j]) => flash[q][j].body.counter < record.counter
    <3> SUFFICES ASSUME NEW q \in Pages, NEW j \in Index, Complete(flash[q][j])
                 PROVE  flash[q][j].body.counter < record.counter
      OBVIOUS
    <3>1. flash[q][j].body.counter \in Nat
      BY <1>1, CompleteIsRecord
    <3>2. flash[q][j].body.counter <= LastEntry(flash).counter
      BY <2>1, <2>2, <3>1 DEF InForce
    <3> QED
      BY <2>2, <2>4, <3>1, <3>2
  <2>6. Complete(flash[page][last]) /\ ~ IsEmpty(flash[page][last])
    BY <2>1, CheckedIsComplete DEF InForce, Index
  <2>7. job'.record = record /\ job'.replaces /\ job'.oldPage = page /\ job'.oldIndex = last
    BY <1>6 DEF Replace
  <2>8. CASE HasEmpty(flash[page])
    <3> DEFINE first == FirstEmpty(flash[page])
    <3>1. /\ first \in Index /\ flash[page][first] = EmptyEntry
          /\ \A j \in 1..(first - 1) : ~ EmptyFound(flash[page][j])
      BY <2>8, FirstEmptyIsFirst DEF EmptyFound, IsEmpty
    <3>2. job'.page = page /\ job'.index = first /\ pc' = "digest" /\ job' \in Job
      BY <1>6, <2>1, <2>4, <2>8, <3>1 DEF Replace, Job
    <3>3. \A j \in 1..(first - 1) : ~ IsEmpty(flash[page][j])
      BY <3>1 DEF EmptyFound, IsEmpty, MaskedIdentifier, EmptyEntry
    <3>4. last < first
      <4>1. ~ (first \in 1..last)
        BY <2>1, <3>1 DEF InForce, IsEmpty
      <4> QED
        BY <2>1, <3>1, <4>1 DEF Index
    <3>5. \A j \in Index : j > first => ~ Complete(flash[page][j])
      <4> SUFFICES ASSUME NEW j \in Index, j > first, Complete(flash[page][j])
                   PROVE  FALSE
        OBVIOUS
      <4>1. last < j
        BY <3>1, <3>4, <2>1 DEF Index
      <4>2. flash[page][j].body.counter < flash[page][last].body.counter
        BY <2>1, <4>1 DEF InForce, Index
      <4>3. flash[page][last].body.counter < flash[page][j].body.counter
        BY <1>1, <2>1, <2>6, <4>1 DEF Sound, Ordered
      <4> QED
        BY <1>1, <2>1, <2>6, <4>2, <4>3, CompleteIsRecord
    <3>6. AtTheEnd(flash)' /\ OthersOlder(flash)'
      BY <1>6, <2>5, <2>7, <3>2, <3>3, <3>5 DEF AtTheEnd, OthersOlder
    <3>7. (Target = EmptyEntry)'
      BY <1>6, <3>1, <3>2 DEF Target
    <3>8. ~ (job'.oldPage = job'.page /\ job'.oldIndex = job'.index)
      BY <2>7, <3>1, <3>2, <3>4, <2>1 DEF Index
    <3> QED
      BY <1>1, <1>4, <1>6, <2>4, <2>7, <3>2, <3>6, <3>7, <3>8
      DEF IInv, TypeOK, WritingInv, AnswerIsDurable, Writing
  <2>9. CASE ~ HasEmpty(flash[page])
    <3>1. /\ job'.page = 1 - page /\ job'.index = 1 /\ pc' = "erase" /\ job' \in Job
          /\ 1 - job'.page = page
      BY <1>6, <2>1, <2>4, <2>9, ConstantsAssumption DEF Replace, Job, Pages, Index
    <3>2. OthersOlder(flash)'
      BY <1>6, <2>5, <2>7 DEF OthersOlder
    <3>3. job'.oldPage # job'.page
      BY <2>1, <2>7, <3>1 DEF Pages
    <3>4. (\E i \in Index : InForce(flash, 1 - job.page, i))'
      BY <1>6, <2>1, <3>1
    <3> QED
      BY <1>1, <1>4, <1>6, <2>4, <2>7, <3>1, <3>2, <3>3, <3>4
      DEF IInv, TypeOK, WritingInv, AnswerIsDurable, Writing
  <2> QED
    BY <2>8, <2>9
<1>7. CASE /\ ~ HasRecord(flash)
           /\ CreateFirst(settings)
           /\ ram' = [ram EXCEPT !.settings = settings]
           /\ answer' = "none"
           /\ UNCHANGED << flash, faults >>
  <2> DEFINE record == NewRecord(DefaultCounter + 1, settings)
  <2>1. NoneComplete(flash)
    BY <1>1, <1>7, ScanFindsInForce DEF Sound
  <2>2. record \in Record /\ record.version = 2 /\ record.settings = settings
    BY <1>2, <1>3 DEF NewRecord, Record, DefaultCounter
  <2>3. /\ job'.record = record /\ ~ job'.replaces /\ job'.index = 1
        /\ pc' = "erase" /\ job' \in Job
    BY <1>7, <2>2, ConstantsAssumption DEF CreateFirst, Job, Pages, Index
  <2>4. OthersOlder(flash)' /\ NoneComplete(flash)'
    BY <1>7, <2>1 DEF OthersOlder, NoneComplete
  <2> QED
    BY <1>1, <1>4, <1>7, <2>2, <2>3, <2>4
    DEF IInv, TypeOK, WritingInv, AnswerIsDurable, Writing
<1> QED
  BY <1>1, <1>5, <1>6, <1>7 DEF BootDataWrite, Trap

\* A fault leaves boot_data_write(): only the pages matter.
LEMMA InterruptedIInv ==
  ASSUME IInv, Interrupted, UNCHANGED job, flash' \in Flash, Sound(flash')
  PROVE  IInv'
<1>1. faults' \in 0..MaxFaults
  BY ConstantsAssumption DEF Interrupted, IInv, TypeOK
<1>2. /\ pc' \in {"off", "idle"} /\ answer' \in {"none", "error"}
      /\ ram' \in {ram, NoData} /\ job' = job
  BY DEF Interrupted, Return
<1> QED
  BY <1>1, <1>2 DEF IInv, TypeOK, WritingInv, AnswerIsDurable, Writing, Flash

LEMMA SilentFaultFaults ==
  ASSUME IInv, NEW next, SilentFault(next)
  PROVE  faults' \in 0..MaxFaults
BY ConstantsAssumption DEF SilentFault, IInv, TypeOK

\* An interrupted erase completes no entry.
LEMMA DecayedEntry ==
  ASSUME NEW e \in Entry, NEW how \in Decays
  PROVE  /\ Decay(e, how) \in Entry
         /\ Complete(Decay(e, how)) => Complete(e) /\ Decay(e, how).body = e.body
<1>1. CASE how = "kept"
  BY <1>1 DEF Decay
<1>2. CASE how = "erased"
  BY <1>2, EmptyEntryIsEntry DEF Decay
<1>3. CASE how = "revived"
  BY <1>3 DEF Decay, Entry, Complete
<1>4. CASE how = "noise"
  BY <1>4 DEF Decay, Entry, Complete
<1> QED
  BY <1>1, <1>2, <1>3, <1>4 DEF Decays

\* The page being erased is not the one that holds the entry in force.
LEMMA ErasesTheOtherPage ==
  ASSUME IInv, pc = "erase", NEW p \in Pages, NEW i \in Index, InForce(flash, p, i)
  PROVE  p # job.page
<1>1. flash \in Flash /\ Sound(flash) /\ job.page \in Pages
  BY DEF IInv, TypeOK, Flash, Job, Writing
<1>2. Complete(flash[p][i])
  BY CheckedIsComplete DEF InForce
<1>3. PICK k \in Index : InForce(flash, 1 - job.page, k)
  BY <1>2 DEF IInv, WritingInv, NoneComplete
<1>4. 1 - job.page \in Pages /\ 1 - job.page # job.page
  BY <1>1 DEF Pages
<1>5. ActivePage(flash) = p /\ ActivePage(flash) = 1 - job.page
  BY <1>1, <1>3, <1>4, ScanFindsInForce DEF Sound
<1> QED
  BY <1>4, <1>5

\* Erasing that page, or failing to, leaves the entry in force alone.
LEMMA PageDecays ==
  ASSUME IInv, pc = "erase", UNCHANGED job, NEW how \in [Index -> Decays],
         flash' = [flash EXCEPT ![job.page] =
                    [i \in Index |-> Decay(flash[job.page][i], how[i])]]
  PROVE  flash' \in Flash /\ Kept(flash, flash') /\ Sound(flash')
<1>1. flash \in Flash /\ Sound(flash) /\ job.page \in Pages
  BY DEF IInv, TypeOK, Flash, Job, Writing
<1>2. \A i \in Index : flash[job.page][i] \in Entry /\ how[i] \in Decays
  BY <1>1 DEF Flash
<1>3. [i \in Index |-> Decay(flash[job.page][i], how[i])] \in [Index -> Entry]
  BY <1>2, DecayedEntry
<1>4. /\ flash' \in Flash
      /\ \A j \in Index : flash'[job.page][j] = Decay(flash[job.page][j], how[j])
      /\ \A q \in Pages : q # job.page => flash'[q] = flash[q]
  BY <1>1, <1>3 DEF Flash
<1>5. NothingCompleted(flash, flash')
  BY <1>2, <1>4, DecayedEntry DEF NothingCompleted
<1>6. InForceKept(flash, flash')
  BY <1>4, ErasesTheOtherPage DEF InForceKept
<1> QED
  BY <1>1, <1>4, <1>5, <1>6, StaysSound DEF Kept

LEMMA PageErased ==
  ASSUME IInv, pc = "erase", UNCHANGED job,
         flash' = [flash EXCEPT ![job.page] = ErasedPage]
  PROVE  /\ flash' \in Flash /\ Kept(flash, flash') /\ Sound(flash')
         /\ OthersOlder(flash)' /\ AtTheEnd(flash)' /\ (Target = EmptyEntry)'
<1>1. /\ flash \in Flash /\ Sound(flash) /\ job.page \in Pages /\ job.index \in Index
      /\ OthersOlder(flash) /\ job.index = 1
  BY DEF IInv, TypeOK, Flash, Job, WritingInv, Writing
<1>2. /\ flash' \in Flash
      /\ \A j \in Index : flash'[job.page][j] = EmptyEntry
      /\ \A q \in Pages : q # job.page => flash'[q] = flash[q]
  BY <1>1, EmptyEntryIsEntry DEF Flash, ErasedPage
<1>3. \A q \in Pages : \A j \in Index :
        Complete(flash'[q][j]) => q # job.page /\ flash'[q][j] = flash[q][j]
  BY <1>2, EmptyEntryIsEntry
<1>4. Kept(flash, flash')
  <2>1. NothingCompleted(flash, flash')
    BY <1>3 DEF NothingCompleted
  <2>2. InForceKept(flash, flash')
    BY <1>2, ErasesTheOtherPage DEF InForceKept
  <2> QED
    BY <2>1, <2>2 DEF Kept
<1>5. OthersOlder(flash)'
  BY <1>1, <1>3 DEF OthersOlder
<1>6. AtTheEnd(flash)'
  BY <1>1, <1>3 DEF AtTheEnd
<1> QED
  BY <1>1, <1>2, <1>4, <1>5, <1>6, StaysSound DEF Target

LEMMA EraseIInv ==
  ASSUME IInv, ErasePage
  PROVE  IInv'
<1>1. pc = "erase" /\ UNCHANGED job
  BY DEF ErasePage
<1>2. CASE /\ flash' = [flash EXCEPT ![job.page] = ErasedPage]
           /\ pc' = "digest"
           /\ UNCHANGED << ram, answer, faults >>
  BY <1>1, <1>2, PageErased
  DEF IInv, TypeOK, WritingInv, AnswerIsDurable, Writing, Flash
<1>3. CASE /\ \E how \in [Index -> Decays] :
                flash' = [flash EXCEPT ![job.page] =
                           [i \in Index |-> Decay(flash[job.page][i], how[i])]]
           /\ Interrupted
  BY <1>1, <1>3, PageDecays, InterruptedIInv
<1> QED
  BY <1>2, <1>3 DEF ErasePage

\* Writing into an entry that is not valid, and does not become complete.
LEMMA PutIncomplete ==
  ASSUME NEW f \in Flash, NEW p \in Pages, NEW i \in Index, NEW e \in Entry,
         NEW g, Overwritten(f, g, p, i, e),
         Sound(f), ~ Check(f[p][i]), ~ Complete(e), IsEmpty(e) => IsEmpty(f[p][i])
  PROVE  Kept(f, g) /\ Sound(g)
<1>1. NothingCompleted(f, g)
  <2> SUFFICES ASSUME NEW q \in Pages, NEW j \in Index, Complete(g[q][j])
               PROVE  g[q][j] = f[q][j]
    BY DEF NothingCompleted
  <2> QED
    BY DEF Overwritten
<1>2. InForceKept(f, g)
  <2> SUFFICES ASSUME NEW q \in Pages, NEW k \in Index, InForce(f, q, k)
               PROVE  /\ g[q][k] = f[q][k]
                      /\ \A j \in 1..k : IsEmpty(g[q][j]) => IsEmpty(f[q][j])
    BY DEF InForceKept
  <2>1. ~ (q = p /\ k = i)
    BY DEF InForce
  <2>2. \A j \in 1..k : j \in Index
    BY ConstantsAssumption DEF Index
  <2>3. \A j \in Index : IsEmpty(g[q][j]) => IsEmpty(f[q][j])
    BY DEF Overwritten
  <2> QED
    BY <2>1, <2>2, <2>3 DEF Overwritten
<1> QED
  BY <1>1, <1>2, StaysSound DEF Overwritten, Kept

\* The facts about a write in progress that every step of it uses.
LEMMA InProgress ==
  ASSUME IInv, pc \in Writing
  PROVE  /\ flash \in Flash /\ Sound(flash) /\ job \in Job /\ OthersOlder(flash)
         /\ job.page \in Pages /\ job.index \in Index
         /\ job.oldPage \in Pages /\ job.oldIndex \in Index
         /\ job.record \in Record /\ job.record # Erased /\ job.record # Torn
         /\ job.record.counter \in Nat
         /\ Target \in Entry
         /\ pc # "erase" => AtTheEnd(flash)
<1>1. flash \in Flash /\ Sound(flash) /\ job \in Job /\ OthersOlder(flash)
      /\ (pc # "erase" => AtTheEnd(flash))
  BY DEF IInv, TypeOK, Flash, WritingInv, Writing
<1>2. /\ job.page \in Pages /\ job.index \in Index /\ job.record \in Record
      /\ job.oldPage \in Pages /\ job.oldIndex \in Index
  BY <1>1 DEF Job
<1>3. job.record # Erased /\ job.record # Torn /\ job.record.counter \in Nat
  BY <1>2, ConstantsAssumption DEF Record
<1>4. Target \in Entry
  BY <1>1, <1>2 DEF Flash, Target
<1> QED
  BY <1>1, <1>2, <1>3, <1>4

\* OthersOlder() and AtTheEnd() do not look at the entry being written.
LEMMA OthersUntouched ==
  ASSUME OthersOlder(flash), AtTheEnd(flash), UNCHANGED job, job \in Job,
         NEW e, Overwritten(flash, flash', job.page, job.index, e)
  PROVE  OthersOlder(flash)' /\ AtTheEnd(flash)'
<1>1. job.page \in Pages /\ job.index \in Index
  BY DEF Job
<1>2. OthersOlder(flash)'
  BY DEF OthersOlder, Overwritten
<1>3. AtTheEnd(flash)'
  <2>1. \A j \in 1..(job.index - 1) : j \in Index /\ j # job.index
    BY <1>1, ConstantsAssumption DEF Index
  <2>2. \A j \in Index : j > job.index => j # job.index
    BY <1>1 DEF Index
  <2> QED
    BY <1>1, <2>1, <2>2 DEF AtTheEnd, Overwritten
<1> QED
  BY <1>2, <1>3

\* Programming the digest, whole or in part.
LEMMA DigestWritten ==
  ASSUME IInv, pc = "digest", UNCHANGED job,
         NEW w \in {job.record, Torn}, WriteTarget([Target EXCEPT !.digest = w])
  PROVE  /\ flash' \in Flash /\ Kept(flash, flash') /\ Sound(flash')
         /\ OthersOlder(flash)' /\ AtTheEnd(flash)'
         /\ Target' = [digest |-> w, isValid |-> "erased", body |-> Erased]
<1>1. pc \in Writing
  BY DEF Writing
<1>2. Target = EmptyEntry
  BY <1>1 DEF IInv, WritingInv
<1>3. flash[job.page][job.index] = EmptyEntry
  BY <1>2 DEF Target
<1> DEFINE e == [digest |-> w, isValid |-> "erased", body |-> Erased]
<1>4. [Target EXCEPT !.digest = w] = e
  BY <1>2 DEF EmptyEntry
<1>5. e \in Entry /\ ~ Complete(e) /\ ~ IsEmpty(e)
  BY <1>1, InProgress, ConstantsAssumption DEF Entry, Complete, IsEmpty, EmptyEntry
<1>6. flash' = [flash EXCEPT ![job.page][job.index] = e]
  BY <1>4 DEF WriteTarget
<1>7. ~ Check(flash[job.page][job.index])
  BY <1>3 DEF Check, EmptyEntry
<1>8. Overwritten(flash, flash', job.page, job.index, e)
  BY <1>1, <1>5, <1>6, InProgress, Put
<1>9. Kept(flash, flash') /\ Sound(flash')
  BY <1>1, <1>5, <1>7, <1>8, InProgress, PutIncomplete
<1>10. OthersOlder(flash)' /\ AtTheEnd(flash)'
  BY <1>1, <1>8, InProgress, OthersUntouched
<1> QED
  BY <1>1, <1>8, <1>9, <1>10 DEF Target, Overwritten

LEMMA DigestIInv ==
  ASSUME IInv, WriteDigest
  PROVE  IInv'
<1>1. pc = "digest" /\ pc \in Writing /\ UNCHANGED job
  BY DEF WriteDigest, Writing
<1>2. Target = EmptyEntry
  BY <1>1 DEF IInv, WritingInv
<1>3. ASSUME NEW w \in {job.record, Torn}, WriteTarget([Target EXCEPT !.digest = w]),
             pc' = "body", UNCHANGED << ram, answer >>, faults' \in 0..MaxFaults
      PROVE  IInv'
  BY <1>1, <1>3, DigestWritten
  DEF IInv, TypeOK, WritingInv, AnswerIsDurable, Writing, Flash, Half
<1>4. CASE /\ WriteTarget([Target EXCEPT !.digest = Program(@, job.record)])
           /\ pc' = "body"
           /\ UNCHANGED << ram, answer, faults >>
  <2>1. [Target EXCEPT !.digest = Program(@, job.record)] = [Target EXCEPT !.digest = job.record]
    BY <1>2 DEF Program, EmptyEntry
  <2> QED
    BY <1>3, <1>4, <2>1 DEF IInv, TypeOK
<1>5. CASE WriteTarget([Target EXCEPT !.digest = Torn]) /\ SilentFault("body")
  BY <1>3, <1>5, SilentFaultFaults DEF SilentFault
<1>6. CASE /\ flash' = flash \/ WriteTarget([Target EXCEPT !.digest = Torn])
           /\ Interrupted
  <2>1. flash' \in Flash /\ Sound(flash')
    BY <1>1, <1>6, InProgress, DigestWritten
  <2> QED
    BY <1>1, <1>6, <2>1, InterruptedIInv
<1> QED
  BY <1>4, <1>5, <1>6 DEF WriteDigest

\* An entry that was written whole is in force.
LEMMA WrittenInForce ==
  ASSUME NEW f \in Flash, OthersOlder(f), AtTheEnd(f), job \in Job,
         Check(f[job.page][job.index]), f[job.page][job.index].body = job.record
  PROVE  InForce(f, job.page, job.index)
<1>1. job.page \in Pages /\ job.index \in Index
  BY DEF Job
<1>2. ~ IsEmpty(f[job.page][job.index])
  BY DEF Check, IsEmpty, EmptyEntry
<1>3. \A j \in 1..job.index : j = job.index \/ j \in 1..(job.index - 1)
  BY <1>1 DEF Index
<1>4. \A j \in 1..job.index : ~ IsEmpty(f[job.page][j])
  BY <1>2, <1>3 DEF AtTheEnd
<1> QED
  BY <1>4 DEF InForce, OthersOlder

\* The instant at which the new entry becomes complete.
LEMMA CompletedSound ==
  ASSUME flash \in Flash, Sound(flash), OthersOlder(flash), AtTheEnd(flash), job \in Job,
         NEW e, Overwritten(flash, flash', job.page, job.index, e),
         Check(e), e.body = job.record
  PROVE  Sound(flash') /\ InForce(flash', job.page, job.index)
<1>1. job.page \in Pages /\ job.index \in Index
  BY DEF Job
<1>2. \A j \in 1..(job.index - 1) : j \in Index /\ j # job.index
  BY <1>1, ConstantsAssumption DEF Index
<1>3. OthersOlder(flash') /\ AtTheEnd(flash')
  BY <1>1, <1>2 DEF OthersOlder, AtTheEnd, Overwritten, Index
<1>4. InForce(flash', job.page, job.index)
  BY <1>3, WrittenInForce DEF Overwritten
<1>5. Ordered(flash')
  <2> SUFFICES ASSUME NEW p \in Pages, NEW i \in Index, NEW j \in Index, i < j,
                      Complete(flash'[p][i]), Complete(flash'[p][j])
               PROVE  flash'[p][i].body.counter < flash'[p][j].body.counter
    BY DEF Ordered
  <2>1. CASE p = job.page /\ j = job.index
    BY <2>1, <1>3 DEF OthersOlder, Overwritten, Index
  <2>2. CASE p = job.page /\ i = job.index
    BY <2>2, <1>3 DEF AtTheEnd, Index
  <2>3. CASE ~ (p = job.page /\ (i = job.index \/ j = job.index))
    BY <2>3 DEF Sound, Ordered, Overwritten
  <2> QED
    BY <2>1, <2>2, <2>3
<1> QED
  BY <1>1, <1>4, <1>5 DEF Sound

\* Programming the rest of the entry: it is complete now, or it is torn.
LEMMA BodyWritten ==
  ASSUME IInv, pc = "body", UNCHANGED job,
         NEW w \in {job.record, Torn}, WriteTarget([Target EXCEPT !.body = w])
  PROVE  /\ flash' \in Flash /\ Sound(flash')
         /\ Kept(flash, flash') \/ (w = job.record /\ InForce(flash', job.page, job.index))
         /\ OthersOlder(flash)' /\ AtTheEnd(flash)'
         /\ Half(Target.digest)' /\ Target'.isValid = "erased" /\ Target'.body = w
<1> DEFINE e == [digest |-> Target.digest, isValid |-> "erased", body |-> w]
<1>1. pc \in Writing
  BY DEF Writing
<1>2. Half(Target.digest) /\ Target.isValid = "erased" /\ Target.body = Erased
  BY <1>1 DEF IInv, WritingInv
<1>3. [Target EXCEPT !.body = w] = e
  BY <1>1, <1>2, InProgress DEF Entry
<1>4. e \in Entry /\ ~ IsEmpty(e)
  BY <1>1, <1>2, InProgress, ConstantsAssumption DEF Entry, IsEmpty, EmptyEntry, Half
<1>5. flash' = [flash EXCEPT ![job.page][job.index] = e]
  BY <1>3 DEF WriteTarget
<1>6. Overwritten(flash, flash', job.page, job.index, e)
  BY <1>1, <1>4, <1>5, InProgress, Put
<1>7. OthersOlder(flash)' /\ AtTheEnd(flash)'
  BY <1>1, <1>6, InProgress, OthersUntouched
<1>8. /\ Sound(flash')
      /\ Kept(flash, flash') \/ (w = job.record /\ InForce(flash', job.page, job.index))
  <2>1. ~ Check(flash[job.page][job.index])
    BY <1>2 DEF Check, Target
  <2>2. CASE Complete(e)
    <3>1. Check(e) /\ e.body = job.record
      BY <2>2, <1>2 DEF Complete, Check, Half
    <3> QED
      BY <1>1, <1>6, <3>1, InProgress, CompletedSound
  <2>3. CASE ~ Complete(e)
    BY <1>1, <1>4, <1>6, <2>1, <2>3, InProgress, PutIncomplete
  <2> QED
    BY <2>2, <2>3
<1>9. Target' = e
  BY <1>1, <1>6 DEF Target, Overwritten
<1>10. Half(Target.digest)'
  BY <1>1, <1>2, <1>9 DEF Half
<1> QED
  BY <1>6, <1>7, <1>8, <1>9, <1>10 DEF Overwritten

LEMMA BodyIInv ==
  ASSUME IInv, WriteBody
  PROVE  IInv'
<1>1. pc = "body" /\ pc \in Writing /\ UNCHANGED job
  BY DEF WriteBody, Writing
<1>2. Target.body = Erased
  BY <1>1 DEF IInv, WritingInv
<1>3. ASSUME NEW w \in {job.record, Torn}, WriteTarget([Target EXCEPT !.body = w]),
             pc' = "check", UNCHANGED << ram, answer >>, faults' \in 0..MaxFaults
      PROVE  IInv'
  <2>1. Half(Target.body)'
    BY <1>1, <1>3, BodyWritten DEF Half
  <2> QED
    BY <1>1, <1>3, <2>1, BodyWritten
    DEF IInv, TypeOK, WritingInv, AnswerIsDurable, Writing, Flash
<1>4. CASE /\ WriteTarget([Target EXCEPT !.body = Program(@, job.record)])
           /\ pc' = "check"
           /\ UNCHANGED << ram, answer, faults >>
  <2>1. [Target EXCEPT !.body = Program(@, job.record)] = [Target EXCEPT !.body = job.record]
    BY <1>2 DEF Program
  <2> QED
    BY <1>3, <1>4, <2>1 DEF IInv, TypeOK
<1>5. CASE WriteTarget([Target EXCEPT !.body = Torn]) /\ SilentFault("check")
  BY <1>3, <1>5, SilentFaultFaults DEF SilentFault
<1>6. CASE /\ flash' = flash \/ WriteTarget([Target EXCEPT !.body = Torn])
           /\ Interrupted
  <2>1. flash' \in Flash /\ Sound(flash')
    BY <1>1, <1>6, InProgress, BodyWritten
  <2> QED
    BY <1>1, <1>6, <2>1, InterruptedIInv
<1> QED
  BY <1>4, <1>5, <1>6 DEF WriteBody

\* The record just written is the one a reset would find.
LEMMA WrittenIsDurable ==
  ASSUME IInv, pc \in {"check", "invalidate"}, WrittenAsIntended
  PROVE  /\ InForce(flash, job.page, job.index)
         /\ HasRecord(flash) /\ LastEntry(flash) = job.record /\ Durable = job.record
<1>1. pc \in Writing /\ pc # "erase"
  BY DEF Writing
<1>2. /\ flash[job.page][job.index].digest = job.record
      /\ flash[job.page][job.index].isValid = "erased"
      /\ flash[job.page][job.index].body = job.record
  BY DEF WrittenAsIntended, Target
<1>3. InForce(flash, job.page, job.index)
  <2>1. Check(flash[job.page][job.index])
    BY <1>1, <1>2, InProgress DEF Check
  <2> QED
    BY <1>1, <1>2, <2>1, InProgress, WrittenInForce
<1>4. HasRecord(flash) /\ LastEntry(flash) = job.record
  BY <1>1, <1>2, <1>3, InProgress, ScanFindsInForce DEF Sound
<1>5. job.record.version = 2
  BY <1>1 DEF IInv, WritingInv
<1> QED
  BY <1>3, <1>4, <1>5 DEF Durable, AsV2

LEMMA CheckIInv ==
  ASSUME IInv, CheckWritten
  PROVE  IInv'
<1>1. pc = "check" /\ pc \in Writing /\ UNCHANGED << flash, job >>
  BY DEF CheckWritten, Writing
<1>2. CASE Interrupted
  BY <1>1, <1>2, InProgress, InterruptedIInv
<1>3. CASE UNCHANGED << ram, faults >> /\ Return("error")
  BY <1>1, <1>3 DEF Return, IInv, TypeOK, WritingInv, AnswerIsDurable, Writing
<1>4. CASE /\ UNCHANGED << ram, faults, answer >>
           /\ WrittenAsIntended /\ job.replaces /\ pc' = "invalidate"
  <2>1. OthersOlder(flash)' /\ AtTheEnd(flash)' /\ WrittenAsIntended'
    BY <1>1, <1>4, InProgress DEF OthersOlder, AtTheEnd, WrittenAsIntended, Target
  <2> QED
    BY <1>1, <1>4, <2>1 DEF IInv, TypeOK, WritingInv, AnswerIsDurable, Writing
<1>5. CASE UNCHANGED << ram, faults >> /\ WrittenAsIntended /\ Return("ok")
  <2>1. Durable' = job.record /\ job.record.settings = ram.settings
    BY <1>1, WrittenIsDurable, <1>5 DEF Durable, IInv, WritingInv
  <2> QED
    BY <1>1, <1>5, <2>1 DEF Return, IInv, TypeOK, WritingInv, AnswerIsDurable, Writing
<1> QED
  BY <1>2, <1>3, <1>4, <1>5 DEF CheckWritten

\* Invalidating the entry that was replaced, whole or in part.
LEMMA OldInvalidated ==
  ASSUME IInv, pc = "invalidate", UNCHANGED job, NEW v \in {"zero", "torn"},
         WriteIsValid(v)
  PROVE  flash' \in Flash /\ Kept(flash, flash') /\ Sound(flash')
<1> DEFINE old == flash[job.oldPage][job.oldIndex]
           e   == [old EXCEPT !.isValid = v]
<1>1. pc \in Writing /\ WrittenAsIntended /\ job.replaces
  BY DEF Writing, IInv, WritingInv
<1>2. job.oldPage \in Pages /\ job.oldIndex \in Index /\ old \in Entry /\ flash \in Flash
  BY <1>1, InProgress DEF Flash
<1>3. e \in Entry /\ e.digest = old.digest /\ e.body = old.body /\ ~ IsEmpty(e)
  BY <1>2 DEF Entry, IsEmpty, EmptyEntry
<1>4. flash' = [flash EXCEPT ![job.oldPage][job.oldIndex] = e]
  BY <1>2 DEF WriteIsValid, Flash
<1>5. Overwritten(flash, flash', job.oldPage, job.oldIndex, e)
  BY <1>2, <1>3, <1>4, Put
<1>6. NothingCompleted(flash, flash')
  BY <1>3, <1>5 DEF NothingCompleted, Overwritten, Complete
<1>7. InForceKept(flash, flash')
  <2> SUFFICES ASSUME NEW p \in Pages, NEW i \in Index, InForce(flash, p, i)
               PROVE  /\ flash'[p][i] = flash[p][i]
                      /\ \A j \in 1..i : IsEmpty(flash'[p][j]) => IsEmpty(flash[p][j])
    BY DEF InForceKept
  <2>1. InForce(flash, job.page, job.index)
    BY WrittenIsDurable, <1>1
  <2>2. p = job.page /\ i = job.index
    BY <1>1, <2>1, InProgress, ScanFindsInForce DEF Sound
  <2>3. ~ (job.oldPage = job.page /\ job.oldIndex = job.index)
    BY <1>1 DEF IInv, WritingInv
  <2>4. \A j \in 1..i : j \in Index
    BY ConstantsAssumption DEF Index
  <2> QED
    BY <1>3, <1>5, <2>2, <2>3, <2>4 DEF Overwritten
<1> QED
  BY <1>1, <1>2, <1>5, <1>6, <1>7, InProgress, StaysSound DEF Kept, Overwritten

LEMMA InvalidateIInv ==
  ASSUME IInv, Invalidate
  PROVE  IInv'
<1>1. pc = "invalidate" /\ pc \in Writing /\ UNCHANGED job
  BY DEF Invalidate, Writing
<1>2. CASE WriteIsValid("zero") /\ Return("ok") /\ UNCHANGED << ram, faults >>
  <2>1. flash' \in Flash /\ Kept(flash, flash') /\ Sound(flash')
    BY <1>1, <1>2, OldInvalidated
  <2>2. InForce(flash, job.page, job.index)
    BY <1>1, WrittenIsDurable DEF IInv, WritingInv
  <2>3. flash[job.page][job.index].body = job.record /\ job.record.version = 2
        /\ job.record.settings = ram.settings
    BY <1>1 DEF IInv, WritingInv, WrittenAsIntended, Target
  <2>4. flash'[job.page][job.index].body = job.record /\ InForce(flash', job.page, job.index)
    BY <1>1, <2>1, <2>2, <2>3, InProgress, StaysSound DEF Kept, InForceKept
  <2>5. LastEntry(flash') = job.record
    BY <1>1, <2>1, <2>4, InProgress, ScanFindsInForce DEF Sound
  <2>6. HasRecord(flash') => Durable' = job.record
    BY <2>3, <2>5 DEF Durable, AsV2
  <2>7. AnswerIsDurable'
    BY <1>2, <2>3, <2>6 DEF AnswerIsDurable
  <2> QED
    BY <1>1, <1>2, <2>1, <2>7 DEF Return, IInv, TypeOK, WritingInv, Writing, Flash
<1>3. CASE (flash' = flash \/ WriteIsValid("torn")) /\ Interrupted
  <2>1. flash' \in Flash /\ Sound(flash')
    BY <1>1, <1>3, InProgress, OldInvalidated
  <2> QED
    BY <1>1, <1>3, <2>1, InterruptedIInv
<1> QED
  BY <1>2, <1>3 DEF Invalidate

LEMMA NextIInv ==
  ASSUME IInv, NoWrap, [Next]_vars
  PROVE  IInv'
<1>1. CASE UNCHANGED vars
  BY <1>1 DEF vars, IInv, TypeOK, WritingInv, AnswerIsDurable, Durable, OthersOlder,
              AtTheEnd, Target, Half, WrittenAsIntended
<1>2. CASE PowerUp \/ PowerCut \/ BootDataRead
  BY <1>2, OutsideIInv
<1>3. CASE \E settings \in [slot : {"A", "B"}, policy : Policies] : BootDataWrite(settings)
  BY <1>3, WriteIInv
<1>4. CASE ErasePage
  BY <1>4, EraseIInv
<1>5. CASE WriteDigest
  BY <1>5, DigestIInv
<1>6. CASE WriteBody
  BY <1>6, BodyIInv
<1>7. CASE CheckWritten
  BY <1>7, CheckIInv
<1>8. CASE Invalidate
  BY <1>8, InvalidateIInv
<1> QED
  BY <1>1, <1>2, <1>3, <1>4, <1>5, <1>6, <1>7, <1>8 DEF Next

-----------------------------------------------------------------------------
(***************************************************************************)
(* What a step does to the record a reset would find.                      *)
(***************************************************************************)
SameRecord(f, g) ==
  /\ HasRecord(f) <=> HasRecord(g)
  /\ HasRecord(f) => LastEntry(g) = LastEntry(f)

LEMMA KeptIsSame ==
  ASSUME NEW f \in Flash, NEW g \in Flash, Sound(f), Kept(f, g)
  PROVE  SameRecord(f, g)
<1>1. CASE NoneComplete(f)
  <2>1. NoneComplete(g)
    BY <1>1 DEF NoneComplete, Kept, NothingCompleted
  <2> QED
    BY <1>1, <2>1, ScanFindsNothing DEF SameRecord
<1>2. CASE \E p \in Pages : \E i \in Index : InForce(f, p, i)
  <2>1. PICK p \in Pages, i \in Index : InForce(f, p, i)
    BY <1>2
  <2>2. Sound(g) /\ InForce(g, p, i) /\ g[p][i] = f[p][i]
    BY <2>1, StaysSound DEF Kept, InForceKept
  <2>3. HasRecord(f) /\ LastEntry(f) = f[p][i].body
    BY <2>1, ScanFindsInForce DEF Sound
  <2>4. HasRecord(g) /\ LastEntry(g) = g[p][i].body
    BY <2>2, ScanFindsInForce DEF Sound
  <2> QED
    BY <2>2, <2>3, <2>4 DEF SameRecord
<1> QED
  BY <1>1, <1>2 DEF Sound

LEMMA UnchangedIsSame ==
  ASSUME UNCHANGED flash
  PROVE  SameRecord(flash, flash')
BY DEF SameRecord

\* The record in force is older than the one being written.
LEMMA NewerThanStored ==
  ASSUME IInv, pc = "body", HasRecord(flash)
  PROVE  LastEntry(flash).counter < job.record.counter
<1>1. pc \in Writing /\ Target.body = Erased
  BY DEF Writing, IInv, WritingInv
<1> DEFINE p == ActivePage(flash)
           i == LastValid(flash[p])
<1>2. p \in Pages /\ i \in Index /\ InForce(flash, p, i) /\ LastEntry(flash) = flash[p][i].body
  BY <1>1, InProgress, RecordInForce
<1>3. Complete(flash[p][i])
  BY <1>2, CheckedIsComplete DEF InForce
<1>4. ~ (p = job.page /\ i = job.index)
  BY <1>1, <1>3 DEF Complete, Target
<1> QED
  BY <1>1, <1>2, <1>3, <1>4, InProgress DEF OthersOlder

\* Programming the body is the one step that replaces the record.
Committed ==
  /\ pc = "body"
  /\ HasRecord(flash') /\ LastEntry(flash') = job.record /\ Durable' = job.record

LEMMA BodyCommits ==
  ASSUME IInv, WriteBody
  PROVE  SameRecord(flash, flash') \/ (Committed /\ UNCHANGED answer /\ pc' = "check")
<1>1. pc = "body" /\ pc \in Writing /\ UNCHANGED job
  BY DEF WriteBody, Writing
<1>2. Target.body = Erased /\ job.record.version = 2
  BY <1>1 DEF IInv, WritingInv
<1>3. ASSUME NEW w \in {job.record, Torn}, WriteTarget([Target EXCEPT !.body = w])
      PROVE  SameRecord(flash, flash') \/ (w = job.record /\ Committed)
  <2>1. flash' \in Flash /\ Sound(flash')
        /\ (Kept(flash, flash') \/ (w = job.record /\ InForce(flash', job.page, job.index)))
        /\ Target'.body = w
    BY <1>1, <1>3, BodyWritten
  <2>2. CASE Kept(flash, flash')
    BY <1>1, <2>1, <2>2, InProgress, KeptIsSame
  <2>3. CASE w = job.record /\ InForce(flash', job.page, job.index)
    <3>1. flash'[job.page][job.index].body = job.record
      BY <1>1, <2>1, <2>3 DEF Target
    <3>2. HasRecord(flash') /\ LastEntry(flash') = job.record
      BY <1>1, <2>1, <2>3, <3>1, InProgress, ScanFindsInForce DEF Sound
    <3>3. Durable' = job.record
      BY <1>2, <3>2 DEF Durable, AsV2
    <3> QED
      BY <1>1, <2>3, <3>2, <3>3 DEF Committed
  <2> QED
    BY <2>1, <2>2, <2>3
<1>4. CASE /\ WriteTarget([Target EXCEPT !.body = Program(@, job.record)])
           /\ pc' = "check"
           /\ UNCHANGED << ram, answer, faults >>
  <2>1. [Target EXCEPT !.body = Program(@, job.record)] = [Target EXCEPT !.body = job.record]
    BY <1>2 DEF Program
  <2> QED
    BY <1>3, <1>4, <2>1
<1>5. CASE WriteTarget([Target EXCEPT !.body = Torn])
  <2>1. Torn # job.record
    BY <1>1, InProgress
  <2> QED
    BY <1>3, <1>5, <2>1
<1>6. CASE flash' = flash
  BY <1>6, UnchangedIsSame
<1> QED
  BY <1>4, <1>5, <1>6 DEF WriteBody, SilentFault

LEMMA StepRecord ==
  ASSUME IInv, [Next]_vars
  PROVE  SameRecord(flash, flash') \/ Committed
<1>1. CASE UNCHANGED flash
  BY <1>1, UnchangedIsSame
<1>2. CASE ErasePage
  <2>1. flash \in Flash /\ Sound(flash) /\ flash' \in Flash /\ Kept(flash, flash')
    BY <1>2, PageErased, PageDecays DEF ErasePage, IInv, TypeOK, Flash
  <2> QED
    BY <2>1, KeptIsSame
<1>3. CASE WriteDigest
  <2>1. pc = "digest" /\ pc \in Writing /\ UNCHANGED job
    BY <1>3 DEF WriteDigest, Writing
  <2>2. [Target EXCEPT !.digest = Program(@, job.record)] = [Target EXCEPT !.digest = job.record]
    BY <2>1 DEF Program, EmptyEntry, IInv, WritingInv
  <2>3. \/ flash' = flash
        \/ WriteTarget([Target EXCEPT !.digest = job.record])
        \/ WriteTarget([Target EXCEPT !.digest = Torn])
    BY <1>3, <2>2 DEF WriteDigest
  <2>4. flash' = flash \/ (flash' \in Flash /\ Kept(flash, flash'))
    BY <2>1, <2>3, DigestWritten
  <2> QED
    BY <2>1, <2>4, InProgress, KeptIsSame, UnchangedIsSame
<1>4. CASE WriteBody
  BY <1>4, BodyCommits
<1>5. CASE Invalidate
  <2>1. pc = "invalidate" /\ pc \in Writing /\ UNCHANGED job
    BY <1>5 DEF Invalidate, Writing
  <2>2. flash' = flash \/ (flash' \in Flash /\ Kept(flash, flash'))
    BY <1>5, <2>1, OldInvalidated DEF Invalidate
  <2> QED
    BY <2>1, <2>2, InProgress, KeptIsSame, UnchangedIsSame
<1>6. CASE PowerUp \/ PowerCut \/ BootDataRead \/ CheckWritten
  BY <1>1, <1>6 DEF PowerUp, PowerCut, BootDataRead, Trap, ScanFails, CheckWritten
<1>7. CASE \E settings \in [slot : {"A", "B"}, policy : Policies] : BootDataWrite(settings)
  BY <1>1, <1>7 DEF BootDataWrite, Trap, ScanFails
<1> QED
  BY <1>1, <1>2, <1>3, <1>4, <1>5, <1>6, <1>7 DEF Next, vars

-----------------------------------------------------------------------------
(***************************************************************************)
(* The log is one atomically replaced record.                              *)
(***************************************************************************)
Pending == IF pc \in Writing THEN job.record ELSE NoData

LEMMA DurableType ==
  ASSUME IInv
  PROVE  Durable \in Record \cup {NoData} /\ Pending \in Record \cup {NoData}
<1>1. flash \in Flash /\ Sound(flash)
  BY DEF IInv, TypeOK, Flash
<1>2. Durable \in Record \cup {NoData}
  BY <1>1, RecordInForce, AsV2Record DEF Durable
<1>3. Pending \in Record \cup {NoData}
  BY InProgress DEF Pending
<1> QED
  BY <1>2, <1>3

LEMMA SameIsDurable ==
  ASSUME SameRecord(flash, flash')
  PROVE  Durable' = Durable
BY DEF SameRecord, Durable

\* Every step is a step of BootRecord, or changes nothing it has.
LEMMA StepIsAtomic ==
  ASSUME IInv, IInv', [Next]_vars
  PROVE  [Abstract!Next]_(Abstract!vars)
<1> USE DEF Abstract!vars, Abstract!Next, Abstract!Begin, Abstract!Commit,
            Abstract!Succeed, Abstract!GiveUp, Abstract!Read
<1>1. SameRecord(flash, flash') => Durable' = Durable
  BY SameIsDurable
<1>2. UNCHANGED flash => Durable' = Durable
  BY UnchangedIsSame, SameIsDurable
<1>3. pc \in Writing => job.record \in Record /\ job.record # NoData
  BY InProgress, ConstantsAssumption
<1>4. pc' \in Writing => job'.record \in Record
  BY DEF IInv, TypeOK, Job
<1>5. CASE UNCHANGED vars
  BY <1>2, <1>5 DEF vars
<1>6. CASE PowerUp \/ PowerCut
  BY <1>2, <1>6 DEF PowerUp, PowerCut, Writing
<1>7. CASE BootDataRead
  <2>1. pc = "idle" /\ UNCHANGED flash /\ pc' \in {"idle", "trap"}
    BY <1>7 DEF BootDataRead, Trap, ScanFails, Return
  <2>2. pc' # "trap"
    BY DEF IInv
  <2>3. answer' \in {"ok", "error"}
    BY <1>7, <2>2 DEF BootDataRead, Trap, ScanFails, Return
  <2> QED
    BY <1>2, <2>1, <2>2, <2>3 DEF Writing
<1>8. CASE \E settings \in [slot : {"A", "B"}, policy : Policies] : BootDataWrite(settings)
  <2>1. pc = "idle" /\ UNCHANGED flash
    BY <1>8 DEF BootDataWrite, Trap, ScanFails
  <2>2. pc' # "trap"
    BY DEF IInv
  <2>3. \/ pc' = "idle" /\ answer' = "error"
        \/ pc' \in Writing /\ answer' = "none"
    BY <1>8, <2>2
    DEF BootDataWrite, Trap, ScanFails, Return, Replace, CreateFirst, Writing
  <2> QED
    BY <1>2, <1>4, <2>1, <2>3 DEF Writing
<1>9. ASSUME SameRecord(flash, flash'), Interrupted, pc \in Writing
      PROVE  Abstract!GiveUp
  BY <1>1, <1>9 DEF Interrupted, Return, Writing
<1>10. ASSUME SameRecord(flash, flash'), pc \in Writing, pc' \in Writing,
              UNCHANGED << job, answer >>
       PROVE  UNCHANGED Abstract!vars
  BY <1>1, <1>10
<1>11. CASE ErasePage
  <2>1. pc = "erase" /\ UNCHANGED job /\ SameRecord(flash, flash')
    BY <1>11, StepRecord DEF ErasePage, Next, Committed
  <2>2. (pc' = "digest" /\ UNCHANGED answer) \/ Interrupted
    BY <1>11 DEF ErasePage
  <2> QED
    BY <1>9, <1>10, <2>1, <2>2 DEF Writing
<1>12. CASE WriteDigest
  <2>1. pc = "digest" /\ UNCHANGED job /\ SameRecord(flash, flash')
    BY <1>12, StepRecord DEF WriteDigest, Next, Committed
  <2>2. (pc' = "body" /\ UNCHANGED answer) \/ Interrupted
    BY <1>12 DEF WriteDigest, SilentFault
  <2> QED
    BY <1>9, <1>10, <2>1, <2>2 DEF Writing
<1>13. CASE WriteBody
  <2>1. pc = "body" /\ pc \in Writing /\ UNCHANGED job
    BY <1>13 DEF WriteBody, Writing
  <2>2. (pc' = "check" /\ UNCHANGED answer) \/ Interrupted
    BY <1>13 DEF WriteBody, SilentFault
  <2>3. CASE SameRecord(flash, flash')
    BY <1>9, <1>10, <2>1, <2>2, <2>3 DEF Writing
  <2>4. CASE Committed /\ UNCHANGED answer /\ pc' = "check"
    <3>1. Durable' = job.record /\ pc' \in Writing
      BY <2>4 DEF Committed, Writing
    <3> QED
      BY <1>3, <2>1, <2>4, <3>1
  <2> QED
    BY <1>13, <2>3, <2>4, BodyCommits
<1>14. CASE CheckWritten
  <2>1. pc = "check" /\ UNCHANGED << flash, job >> /\ SameRecord(flash, flash')
    BY <1>14, UnchangedIsSame DEF CheckWritten
  <2>2. CASE Interrupted
    BY <1>9, <2>1, <2>2 DEF Writing
  <2>3. CASE Return("error")
    BY <1>1, <2>1, <2>3 DEF Return, Writing
  <2>4. CASE pc' = "invalidate" /\ UNCHANGED answer
    BY <1>10, <2>1, <2>4 DEF Writing
  <2>5. CASE WrittenAsIntended /\ Return("ok")
    <3>1. Durable = job.record
      BY <2>1, <2>5, WrittenIsDurable
    <3> QED
      BY <1>1, <1>3, <2>1, <2>5, <3>1 DEF Return, Writing
  <2> QED
    BY <1>14, <2>2, <2>3, <2>4, <2>5 DEF CheckWritten
<1>15. CASE Invalidate
  <2>1. pc = "invalidate" /\ pc \in Writing /\ UNCHANGED job /\ SameRecord(flash, flash')
    BY <1>15, StepRecord DEF Invalidate, Next, Committed, Writing
  <2>2. CASE Interrupted
    BY <1>9, <2>1, <2>2
  <2>3. CASE Return("ok")
    <3>1. Durable = job.record
      BY <2>1, WrittenIsDurable DEF IInv, WritingInv
    <3> QED
      BY <1>1, <1>3, <2>1, <2>3, <3>1 DEF Return, Writing
  <2> QED
    BY <1>15, <2>2, <2>3 DEF Invalidate
<1> QED
  BY <1>5, <1>6, <1>7, <1>8, <1>11, <1>12, <1>13, <1>14, <1>15 DEF Next

-----------------------------------------------------------------------------
(***************************************************************************)
(* The theorems.  Each is about a device on which fewer than 2^32 records  *)
(* are written.                                                            *)
(***************************************************************************)

\* The inductive invariant holds in every reachable state.
THEOREM Invariance ==
  ASSUME NoWrap
  PROVE  Spec => []IInv
<1>1. Init => IInv
  BY InitIInv
<1>2. IInv /\ [Next]_vars => IInv'
  BY NextIInv
<1> QED
  BY <1>1, <1>2, PTL DEF Spec

\* The state has its type: in particular no search of a page ever returns an
\* index that is not one of its entries.
THEOREM TypeCorrect ==
  ASSUME NoWrap
  PROVE  Spec => []TypeOK
<1>1. IInv => TypeOK
  BY DEF IInv
<1> QED
  BY <1>1, Invariance, PTL

\* The scan of boot_data.c never meets its equal-counters trap.
THEOREM ScanNeverTraps ==
  ASSUME NoWrap
  PROVE  Spec => []NeverTraps
<1>1. IInv => NeverTraps
  BY DEF IInv, NeverTraps
<1> QED
  BY <1>1, Invariance, PTL

\* The scan finds the one entry with the highest counter of all entries that
\* are complete, invalidated ones included.
THEOREM ScanFindsNewest ==
  ASSUME NoWrap
  PROVE  Spec => []NewestIsFound
<1>1. ASSUME IInv PROVE NewestIsFound
  <2>1. flash \in Flash /\ Sound(flash)
    BY <1>1 DEF IInv, TypeOK, Flash
  <2>2. CASE NoneComplete(flash)
    BY <2>2 DEF NoneComplete, NewestIsFound
  <2>3. CASE \E p \in Pages : \E i \in Index : InForce(flash, p, i)
    <3>1. PICK p \in Pages, i \in Index : InForce(flash, p, i)
      BY <2>3
    <3>2. HasRecord(flash) /\ ActivePage(flash) = p /\ LastValid(flash[p]) = i
      BY <2>1, <3>1, ScanFindsInForce DEF Sound
    <3>3. flash[p][i].body.counter \in Nat
      BY <2>1, <3>1, CheckedIsComplete, CompleteIsRecord DEF InForce
    <3>4. \A q \in Pages, j \in Index :
            Complete(flash[q][j]) =>
              /\ flash[q][j].body.counter <= flash[p][i].body.counter
              /\ flash[q][j].body.counter = flash[p][i].body.counter => q = p /\ j = i
      BY <2>1, <3>1, <3>3, CompleteIsRecord DEF InForce
    <3> QED
      BY <3>2, <3>4 DEF NewestIsFound
  <2> QED
    BY <2>1, <2>2, <2>3 DEF Sound
<1> QED
  BY <1>1, Invariance, PTL

\* boot_data_write() programs erased words only.
THEOREM WritesErasedWords ==
  ASSUME NoWrap
  PROVE  Spec => []WritesHitErasedWords
<1>1. IInv => WritesHitErasedWords
  BY DEF IInv, WritingInv, WritesHitErasedWords
<1> QED
  BY <1>1, Invariance, PTL

\* What a call answered with kErrorOk is what a reset finds.
THEOREM AnswersAreDurable ==
  ASSUME NoWrap
  PROVE  Spec => []AnswerIsDurable
<1>1. IInv => AnswerIsDurable
  BY DEF IInv
<1> QED
  BY <1>1, Invariance, PTL

\* No step, interrupted or not, takes the device back to an older record.
THEOREM NoRollback ==
  ASSUME NoWrap
  PROVE  Spec => NeverRollsBack
<1>1. ASSUME IInv, [Next]_vars, HasRecord(flash)
      PROVE  /\ HasRecord(flash')
             /\ LastEntry(flash').counter >= LastEntry(flash).counter
  <2>1. LastEntry(flash).counter \in Nat
    BY <1>1, RecordInForce DEF IInv, TypeOK, Flash, Record
  <2>2. CASE SameRecord(flash, flash')
    BY <1>1, <2>1, <2>2 DEF SameRecord
  <2>3. CASE Committed
    <3>1. job.record.counter \in Nat /\ LastEntry(flash).counter < job.record.counter
      BY <1>1, <2>3, NewerThanStored, InProgress DEF Committed, Writing
    <3> QED
      BY <2>1, <2>3, <3>1 DEF Committed
  <2> QED
    BY <1>1, <2>2, <2>3, StepRecord
<1>2. IInv /\ [Next]_vars =>
        [HasRecord(flash) =>
           /\ HasRecord(flash')
           /\ LastEntry(flash').counter >= LastEntry(flash).counter]_vars
  BY <1>1
<1> QED
  BY <1>2, Invariance, PTL DEF Spec, NeverRollsBack

\* The two logs implement one record that is replaced atomically.
THEOREM Refinement ==
  ASSUME NoWrap
  PROVE  Spec => AtomicRecord
<1>1. Init => Abstract!Init
  <2> SUFFICES ASSUME Init PROVE Abstract!Init
    OBVIOUS
  <2>1. Durable \in Record \cup {NoData}
    BY InitIInv, DurableType
  <2> QED
    BY <2>1 DEF Init, Abstract!Init, Writing
<1>2. IInv /\ IInv' /\ [Next]_vars => [Abstract!Next]_(Abstract!vars)
  BY StepIsAtomic
<1> QED
  BY <1>1, <1>2, Invariance, PTL DEF Spec, AtomicRecord, Abstract!Spec

=============================================================================
