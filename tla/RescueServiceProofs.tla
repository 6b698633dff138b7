------------------------ MODULE RescueServiceProofs ------------------------
(***************************************************************************)
(* Lemmas about the handlers of RescueService, for any files, sizes and    *)
(* configurations: no handler, whole or broken off, touches the protected  *)
(* pages.  The theorems about the two transports rest on them.             *)
(***************************************************************************)
EXTENDS RescueService, SequenceTheorems, TLAPS

\* A session and a store have their fields, whatever these hold.
IsSession(s) ==
  s = [mode |-> s.mode, default |-> s.default, deadline |-> s.deadline,
       frame |-> s.frame, offset |-> s.offset, staged |-> s.staged,
       flashOffset |-> s.flashOffset, flashBegin |-> s.flashBegin, data |-> s.data]

IsBank(bank) == bank = [p \in Pages |-> bank[p]]

IsStore(st) ==
  /\ st = [flash |-> st.flash, owner1 |-> st.owner1, msg |-> st.msg]
  /\ st.flash = [slot \in Slots |-> st.flash[slot]]
  /\ \A slot \in Slots : IsBank(st.flash[slot])

\* Within a transfer the area begins at 0 only if it is not that of the
\* ROM_EXT that runs: this is what makes the protection inductive.
Safe(chip, s) ==
  /\ IsSession(s)
  /\ s.flashOffset \in Nat
  /\ s.flashBegin \in {0, FlashStart}
  /\ s.flashOffset /= 0 /\ BankOf(s.mode) = chip.active => s.flashBegin = FlashStart

Keeps(chip, st, new) ==
  \A slot \in Slots, p \in Pages :
    (p >= FlashLimit \/ (p < FlashStart /\ slot = chip.active)) =>
      new.flash[slot][p] = st.flash[slot][p]

-----------------------------------------------------------------------------
LEMMA ValidateModeSafe ==
  ASSUME NEW chip, NEW mode, NEW s, Safe(chip, s)
  PROVE  Safe(chip, ValidateMode(chip, mode, s))
BY RescueAssumption DEF ValidateMode, Safe, IsSession

LEMMA SessionInitSafe ==
  ASSUME NEW chip
  PROVE  Safe(chip, SessionInit(chip))
BY RescueAssumption DEF SessionInit, Safe, IsSession

LEMMA SendHandlerSafe ==
  ASSUME NEW chip, NEW s, NEW st, Safe(chip, s)
  PROVE  Safe(chip, SendHandler(chip, s, st).s)
<1>1. CASE s.mode \in SendModes /\ CommandAllowed(chip, s.mode)
  <2> DEFINE content == Content(s.mode, st)
             staged == [s EXCEPT !.data = content, !.staged = Len(content)]
  <2>1. SendHandler(chip, s, st).s = staged
    BY <1>1 DEF SendHandler, Result, SendModes
  <2>2. ASSUME NEW c, NEW n, NEW t, t = [s EXCEPT !.data = c, !.staged = n]
        PROVE  Safe(chip, t)
    <3>1. t = [mode |-> s.mode, default |-> s.default, deadline |-> s.deadline,
               frame |-> s.frame, offset |-> s.offset, staged |-> n,
               flashOffset |-> s.flashOffset, flashBegin |-> s.flashBegin, data |-> c]
      BY <2>2 DEF Safe, IsSession
    <3>2. IsSession(t)
      BY <3>1 DEF IsSession
    <3> QED BY <3>1, <3>2 DEF Safe
  <2> QED BY <2>1, <2>2
<1>2. CASE ~ (s.mode \in SendModes /\ CommandAllowed(chip, s.mode))
  BY <1>2 DEF SendHandler, Result
<1> QED BY <1>1, <1>2

LEMMA FlashBeginSafe ==
  ASSUME NEW chip, NEW s, Safe(chip, s)
  PROVE  /\ FlashBegin(chip, s) \in {0, FlashStart}
         /\ BankOf(s.mode) = chip.active => FlashBegin(chip, s) = FlashStart
         /\ FlashOffset(s) \in Nat
BY RescueAssumption DEF FlashBegin, FlashOffset, UpdateAllowed, Safe

LEMMA EraseKeeps ==
  ASSUME NEW bank, IsBank(bank), NEW first \in Nat
  PROVE  /\ IsBank(ErasedFrom(bank, first))
         /\ \A p \in Pages : p < first \/ p >= FlashLimit => ErasedFrom(bank, first)[p] = bank[p]
<1>1. ASSUME NEW p \in Pages, p < first \/ p >= FlashLimit
      PROVE  ErasedFrom(bank, first)[p] = bank[p]
  <2>1. ErasedFrom(bank, first)[p] = IF first <= p /\ p < FlashLimit THEN Erased ELSE bank[p]
    BY DEF ErasedFrom
  <2> QED BY <1>1, <2>1, RescueAssumption DEF Pages
<1> QED BY <1>1 DEF ErasedFrom, IsBank

\* A new content of one bank that keeps its protected pages
KeepsBank(chip, slot, bank, new) ==
  /\ IsBank(new)
  /\ \A p \in Pages :
       (p >= FlashLimit \/ (p < FlashStart /\ slot = chip.active)) => new[p] = bank[p]

LEMMA StoreKeeps ==
  ASSUME NEW chip, NEW st, IsStore(st), NEW slot \in Slots, NEW bank,
         KeepsBank(chip, slot, st.flash[slot], bank)
  PROVE  /\ IsStore([st EXCEPT !.flash[slot] = bank])
         /\ Keeps(chip, st, [st EXCEPT !.flash[slot] = bank])
<1> DEFINE new == [st EXCEPT !.flash[slot] = bank]
<1>1. /\ new = [flash |-> new.flash, owner1 |-> new.owner1, msg |-> new.msg]
      /\ new.flash = [st.flash EXCEPT ![slot] = bank]
  BY DEF IsStore
<1>2. new.flash = [x \in Slots |-> IF x = slot THEN bank ELSE st.flash[x]]
  BY <1>1 DEF IsStore
<1>3. IsStore(new)
  BY <1>1, <1>2 DEF IsStore, KeepsBank
<1>4. Keeps(chip, st, new)
  BY <1>2 DEF Keeps, KeepsBank
<1> QED BY <1>3, <1>4

LEMMA PageKept ==
  ASSUME NEW chip, NEW slot, NEW bank, IsBank(bank), NEW new, KeepsBank(chip, slot, bank, new),
         NEW q \in Nat, q < FlashLimit, slot = chip.active => q >= FlashStart, NEW page
  PROVE  KeepsBank(chip, slot, bank, [new EXCEPT ![q] = page])
<1> DEFINE b == [new EXCEPT ![q] = page]
<1>1. b = [p \in Pages |-> IF p = q THEN page ELSE new[p]]
  BY DEF KeepsBank, IsBank
<1>2. ASSUME NEW p \in Pages, p >= FlashLimit \/ (p < FlashStart /\ slot = chip.active)
      PROVE  b[p] = bank[p]
  <2>1. p # q
    BY <1>2, RescueAssumption DEF Pages
  <2> QED BY <1>1, <1>2, <2>1 DEF KeepsBank
<1> QED BY <1>1, <1>2 DEF KeepsBank, IsBank

LEMMA EraseFirstKeeps ==
  ASSUME NEW chip, NEW s, Safe(chip, s), NEW bank, IsBank(bank)
  PROVE  KeepsBank(chip, BankOf(s.mode), bank, EraseFirst(chip, s, bank))
<1>1. FlashBegin(chip, s) \in Nat
  BY FlashBeginSafe, RescueAssumption
<1>2. KeepsBank(chip, BankOf(s.mode), bank, bank)
  BY DEF KeepsBank
<1>3. KeepsBank(chip, BankOf(s.mode), bank, ErasedFrom(bank, FlashBegin(chip, s)))
  <2>1. /\ IsBank(ErasedFrom(bank, FlashBegin(chip, s)))
        /\ \A p \in Pages : p < FlashBegin(chip, s) \/ p >= FlashLimit =>
             ErasedFrom(bank, FlashBegin(chip, s))[p] = bank[p]
    BY <1>1, EraseKeeps
  <2> QED BY <2>1, FlashBeginSafe DEF KeepsBank
<1> QED BY <1>2, <1>3 DEF EraseFirst

LEMMA TransferSafe ==
  ASSUME NEW chip, NEW s, Safe(chip, s), NEW n \in Nat, NEW b \in {0, FlashStart},
         BankOf(s.mode) = chip.active => b = FlashStart
  PROVE  Safe(chip, [s EXCEPT !.flashOffset = n, !.flashBegin = b])
<1>1. ASSUME NEW t, t = [s EXCEPT !.flashOffset = n, !.flashBegin = b]
      PROVE  Safe(chip, t)
  <2>1. t = [mode |-> s.mode, default |-> s.default, deadline |-> s.deadline,
             frame |-> s.frame, offset |-> s.offset, staged |-> s.staged,
             flashOffset |-> n, flashBegin |-> b, data |-> s.data]
    BY <1>1 DEF Safe, IsSession
  <2>2. IsSession(t)
    BY <2>1 DEF IsSession
  <2> QED BY <2>1, <2>2 DEF Safe
<1> QED BY <1>1

LEMMA FlashFirmwareBlockKeeps ==
  ASSUME NEW chip, NEW s, Safe(chip, s), NEW st, IsStore(st)
  PROVE  LET r == FlashFirmwareBlock(chip, s, st)
         IN  Safe(chip, r.s) /\ IsStore(r.st) /\ Keeps(chip, st, r.st)
<1> DEFINE slot == BankOf(s.mode)
           offset == FlashOffset(s)
           begin == FlashBegin(chip, s)
           bank == EraseFirst(chip, s, st.flash[slot])
           r == FlashFirmwareBlock(chip, s, st)
           at(n) == [s EXCEPT !.flashOffset = n, !.flashBegin = begin]
           store(b) == [st EXCEPT !.flash[slot] = b]
<1> SUFFICES Safe(chip, r.s) /\ IsStore(r.st) /\ Keeps(chip, st, r.st)
  OBVIOUS
<1>1. slot \in Slots /\ IsBank(st.flash[slot])
  BY DEF BankOf, Slots, IsStore
<1>2. /\ begin \in {0, FlashStart} /\ offset \in Nat
      /\ slot = chip.active => begin = FlashStart
  BY FlashBeginSafe
<1>3. KeepsBank(chip, slot, st.flash[slot], bank)
  BY <1>1, EraseFirstKeeps
<1>4. Safe(chip, at(offset)) /\ Safe(chip, at(offset + 1))
  <2>1. ASSUME NEW n \in Nat PROVE Safe(chip, at(n))
    BY <1>2, TransferSafe
  <2>2. offset \in Nat /\ offset + 1 \in Nat
    BY <1>2
  <2> HIDE DEF at, offset
  <2> QED BY <2>1, <2>2
<1>5. IsStore(store(bank)) /\ Keeps(chip, st, store(bank))
  BY <1>1, <1>3, StoreKeeps
<1>6. CASE offset < begin
  <2>1. r = Result("ok", at(offset + 1), store(bank))
    BY <1>6 DEF FlashFirmwareBlock
  <2>2. r.s = at(offset + 1) /\ r.st = store(bank)
    BY <2>1 DEF Result
  <2> HIDE DEF r, at, store, offset
  <2> QED BY <2>2, <1>4, <1>5
<1>7. CASE ~ (offset < begin) /\ offset >= FlashLimit
  <2>1. r = Result("tooBig", at(offset), store(bank))
    BY <1>7 DEF FlashFirmwareBlock
  <2>2. r.s = at(offset) /\ r.st = store(bank)
    BY <2>1 DEF Result
  <2> HIDE DEF r, at, store, offset
  <2> QED BY <2>2, <1>4, <1>5
<1>8. CASE ~ (offset < begin) /\ ~ (offset >= FlashLimit)
  <2> DEFINE new == [bank EXCEPT ![offset] = Programmed(@, s.data)]
  <2>1. r = Result("ok", at(offset + 1), store(new))
    BY <1>8 DEF FlashFirmwareBlock
  <2>2. KeepsBank(chip, slot, st.flash[slot], new)
    <3>1. offset < FlashLimit /\ (slot = chip.active => offset >= FlashStart)
      BY <1>2, <1>8, RescueAssumption
    <3> QED BY <3>1, <1>1, <1>2, <1>3, PageKept
  <2>3. IsStore(store(new)) /\ Keeps(chip, st, store(new))
    BY <1>1, <2>2, StoreKeeps
  <2>4. r.s = at(offset + 1) /\ r.st = store(new)
    BY <2>1 DEF Result
  <2> HIDE DEF r, at, store, offset
  <2> QED BY <2>3, <2>4, <1>4
<1> QED BY <1>6, <1>7, <1>8

LEMMA TakenKeeps ==
  ASSUME NEW chip, NEW st, NEW err, NEW s, Safe(chip, s), NEW new, IsStore(new),
         Keeps(chip, st, new)
  PROVE  LET r == Taken(Result(err, s, new))
         IN  Safe(chip, r.s) /\ IsStore(r.st) /\ Keeps(chip, st, r.st)
<1>1. ASSUME NEW t, t = [s EXCEPT !.offset = 0] PROVE Safe(chip, t)
  BY <1>1 DEF Safe, IsSession
<1>2. Taken(Result(err, s, new)).s \in {s, [s EXCEPT !.offset = 0]}
  BY DEF Taken, Result
<1>3. Taken(Result(err, s, new)).st = new
  BY DEF Taken, Result
<1> QED BY <1>1, <1>2, <1>3

LEMMA RecvHandlerKeeps ==
  ASSUME NEW chip, NEW s, Safe(chip, s), NEW st, IsStore(st)
  PROVE  LET r == RecvHandler(chip, s, st)
         IN  Safe(chip, r.s) /\ IsStore(r.st) /\ Keeps(chip, st, r.st)
<1> DEFINE Good(r) == Safe(chip, r.s) /\ IsStore(r.st) /\ Keeps(chip, st, r.st)
<1>1. IsStore(st) /\ Keeps(chip, st, st)
  BY DEF Keeps
<1>2. ASSUME NEW m
      PROVE  /\ IsStore([st EXCEPT !.msg = m]) /\ Keeps(chip, st, [st EXCEPT !.msg = m])
             /\ IsStore([st EXCEPT !.owner1 = m]) /\ Keeps(chip, st, [st EXCEPT !.owner1 = m])
  BY DEF IsStore, Keeps
<1>3. ASSUME NEW err PROVE Good(Result(err, s, st)) /\ Good(Taken(Result(err, s, st)))
  BY <1>1, TakenKeeps DEF Result
<1>4. Good(Taken(TakeMessage(chip, s, st)))
  <2> DEFINE m == SubSeq(s.data, 1, MsgUnits)
  <2>1. Good(Taken(Result("ok", s, [st EXCEPT !.msg = m])))
    BY <1>2, TakenKeeps
  <2> QED BY <1>3, <2>1 DEF TakeMessage
<1>5. Good(Taken(Result("ok", s, FlashOwnerBlock(chip, s, st))))
  <2>1. /\ IsStore(FlashOwnerBlock(chip, s, st))
        /\ Keeps(chip, st, FlashOwnerBlock(chip, s, st))
    BY <1>1, <1>2 DEF FlashOwnerBlock
  <2> QED BY <2>1, TakenKeeps
<1>6. Good(Taken(FlashFirmwareBlock(chip, s, st)))
  <2> DEFINE f == FlashFirmwareBlock(chip, s, st)
  <2>1. Good(f)
    BY FlashFirmwareBlockKeeps
  <2>2. f = Result(f.err, f.s, f.st)
    BY DEF FlashFirmwareBlock, Result
  <2>3. Good(Taken(Result(f.err, f.s, f.st)))
    BY <2>1, TakenKeeps
  <2> QED BY <2>2, <2>3
<1> HIDE DEF Good
<1>7. Good(RecvHandler(chip, s, st))
  BY <1>3, <1>4, <1>5, <1>6 DEF RecvHandler
<1> QED BY <1>7 DEF Good

LEMMA BrokenKeeps ==
  ASSUME NEW chip, NEW s, Safe(chip, s), NEW st, IsStore(st), NEW new \in Broken(chip, s, st)
  PROVE  IsStore(new) /\ Keeps(chip, st, new)
<1> DEFINE slot == BankOf(s.mode)
           bank == st.flash[slot]
           offset == FlashOffset(s)
           begin == FlashBegin(chip, s)
<1>1. slot \in Slots /\ IsBank(bank)
  BY DEF BankOf, Slots, IsStore
<1>2. /\ begin \in {0, FlashStart} /\ offset \in Nat
      /\ slot = chip.active => begin = FlashStart
  BY FlashBeginSafe
<1>3. ASSUME NEW b \in CutErase(bank, begin) PROVE KeepsBank(chip, slot, bank, b)
  <2>1. PICK k \in begin..(FlashLimit - 1), half \in {PageOf(Torn), Erased} :
          b = [p \in Pages |-> IF begin <= p /\ p < k THEN Erased
                               ELSE IF p = k THEN half ELSE bank[p]]
    BY <1>3 DEF CutErase
  <2>2. ASSUME NEW p \in Pages, p >= FlashLimit \/ (p < FlashStart /\ slot = chip.active)
        PROVE  b[p] = bank[p]
    <3>1. ~ (begin <= p /\ p < k) /\ p # k
      BY <1>2, <2>1, <2>2, RescueAssumption DEF Pages
    <3> QED BY <2>1, <3>1
  <2> QED BY <2>1, <2>2 DEF KeepsBank, IsBank
<1>4. ASSUME NEW b \in CutWrite(EraseFirst(chip, s, bank), offset),
             begin <= offset, offset < FlashLimit
      PROVE  KeepsBank(chip, slot, bank, b)
  <2>1. b = [EraseFirst(chip, s, bank) EXCEPT ![offset] = PageOf(Torn)]
    BY <1>4 DEF CutWrite
  <2>2. KeepsBank(chip, slot, bank, EraseFirst(chip, s, bank))
    BY <1>1, EraseFirstKeeps
  <2>3. slot = chip.active => offset >= FlashStart
    BY <1>2, <1>4
  <2> QED BY <1>1, <1>2, <1>4, <2>1, <2>2, <2>3, PageKept
<1>5. ASSUME NEW b \in CutFirmware(chip, s, bank) PROVE KeepsBank(chip, slot, bank, b)
  <2>1. KeepsBank(chip, slot, bank, bank)
    BY <1>1 DEF KeepsBank
  <2> QED BY <1>3, <1>4, <1>5, <2>1 DEF CutFirmware
<1>6. ASSUME NEW m
      PROVE  IsStore([st EXCEPT !.owner1 = m]) /\ Keeps(chip, st, [st EXCEPT !.owner1 = m])
  BY DEF IsStore, Keeps
<1>7. \/ \E b \in CutFirmware(chip, s, bank) : new = [st EXCEPT !.flash[slot] = b]
      \/ \E m : new = [st EXCEPT !.owner1 = m]
  BY DEF Broken
<1> QED BY <1>1, <1>5, <1>6, <1>7, StoreKeeps

-----------------------------------------------------------------------------
(***************************************************************************)
(* Types: the buffer of a session is never overrun, a transfer stays below *)
(* the limit, and what is stored is whole pages and messages.              *)
(***************************************************************************)

Units == (Files \cup Modes \cup {"ff", "old", "torn"}) \X Nat
FullPages == [1..BlockUnits -> Units]
Messages == [1..MsgUnits -> Units]
Buffers == {d \in Seq(Units) : Len(d) <= BlockUnits}

Sessions ==
  [mode : Modes, default : {"firmware", "noop"}, deadline : BOOLEAN, frame : Nat,
   offset : 0..BlockUnits, staged : 0..BlockUnits, flashOffset : 0..FlashLimit,
   flashBegin : {0, FlashStart}, data : Buffers]

Banks == [Pages -> FullPages]
Stores == [flash : [Slots -> Banks], owner1 : FullPages, msg : Messages]

\* What is in the buffer reaches as far as the offset says.
Filling(s) == s.offset <= Len(s.data)

LEMMA UnitTyped ==
  /\ FF \in Units /\ Old \in Units /\ Torn \in Units
  /\ \A f \in Files, i \in Int : FileUnit(f, i) \in Units
  /\ \A mode \in Modes : << mode, 0 >> \in Units
<1>1. FF \in Units /\ Old \in Units /\ Torn \in Units
  BY DEF FF, Old, Torn, Units
<1>2. ASSUME NEW f \in Files, NEW i \in Int PROVE FileUnit(f, i) \in Units
  BY <1>1 DEF FileUnit, Units
<1>3. \A mode \in Modes : << mode, 0 >> \in Units
  BY DEF Units
<1> QED
  BY <1>1, <1>2, <1>3

LEMMA FunctionLength ==
  ASSUME NEW n \in Nat, NEW S, NEW x \in [1..n -> S]
  PROVE  x \in Seq(S) /\ Len(x) = n
<1>1. x \in Seq(S)
  BY SeqDef
<1>2. DOMAIN x = 1..Len(x) /\ Len(x) \in Nat
  BY <1>1, LenProperties
<1> QED
  BY <1>1, <1>2

LEMMA PageTyped ==
  /\ \A u \in Units : PageOf(u) \in FullPages
  /\ \A page \in FullPages : page \in Buffers /\ Len(page) = BlockUnits
  /\ \A m \in Messages : m \in Buffers /\ Len(m) = MsgUnits
  /\ \A data \in Buffers : Len(data) = BlockUnits => data \in FullPages
<1>1. \A u \in Units : PageOf(u) \in FullPages
  BY DEF PageOf, FullPages
<1>2. BlockUnits \in Nat /\ MsgUnits \in Nat /\ MsgUnits <= BlockUnits
  BY RescueAssumption
<1>3. \A page \in FullPages : page \in Buffers /\ Len(page) = BlockUnits
  BY <1>2, FunctionLength DEF FullPages, Buffers
<1>4. \A m \in Messages : m \in Buffers /\ Len(m) = MsgUnits
  BY <1>2, FunctionLength DEF Messages, Buffers
<1>5. ASSUME NEW data \in Buffers, Len(data) = BlockUnits PROVE data \in FullPages
  BY <1>5, LenProperties DEF Buffers, FullPages
<1> QED
  BY <1>1, <1>3, <1>4, <1>5

LEMMA SessionInitTyped ==
  ASSUME NEW chip \in Chips
  PROVE  SessionInit(chip) \in Sessions /\ Filling(SessionInit(chip))
<1>1. << >> \in Buffers /\ Len(<< >>) = 0
  BY EmptySeq, RescueAssumption DEF Buffers
<1>2. {"firmware", "noop"} \subseteq Modes
  BY DEF Modes, RecvModes, FirmwareModes
<1>3. (chip.config /\ chip.timeout) \in BOOLEAN
  BY DEF Chips
<1> QED
  BY <1>1, <1>2, <1>3, RescueAssumption DEF SessionInit, Sessions, Filling

LEMMA ValidateModeTyped ==
  ASSUME NEW chip, NEW mode, NEW s \in Sessions
  PROVE  /\ ValidateMode(chip, mode, s) \in Sessions
         /\ Filling(s) => Filling(ValidateMode(chip, mode, s))
<1>1. ModeVerdict(chip, mode) = "ok" => mode \in Modes
  BY DEF ModeVerdict, Modes
<1>2. Len(s.data) \in Nat
  BY LenProperties DEF Sessions, Buffers
<1> DEFINE restarted == [s EXCEPT !.frame = 1, !.offset = 0, !.flashOffset = 0]
<1>3. restarted \in Sessions /\ restarted.offset = 0 /\ restarted.data = s.data
  <2>1. 0 \in 0..BlockUnits /\ 0 \in 0..FlashLimit
    BY RescueAssumption
  <2> QED
    BY <2>1 DEF Sessions
<1>4. ASSUME mode \in Modes
      PROVE  /\ [restarted EXCEPT !.mode = mode] \in Sessions
             /\ [restarted EXCEPT !.mode = mode].offset = 0
             /\ [restarted EXCEPT !.mode = mode].data = s.data
  <2> HIDE DEF restarted
  <2> QED
    BY <1>3, <1>4 DEF Sessions
<1>5. \/ ValidateMode(chip, mode, s) \in {s, restarted}
      \/ mode \in Modes /\ ValidateMode(chip, mode, s) = [restarted EXCEPT !.mode = mode]
  BY <1>1 DEF ValidateMode
<1> HIDE DEF restarted
<1>6. ASSUME NEW t \in Sessions, t.offset = 0, t.data = s.data
      PROVE  Filling(t)
  BY <1>2, <1>6 DEF Filling
<1>7. CASE ValidateMode(chip, mode, s) \in {s, restarted}
  BY <1>3, <1>6, <1>7
<1>8. CASE mode \in Modes /\ ValidateMode(chip, mode, s) = [restarted EXCEPT !.mode = mode]
  BY <1>4, <1>6, <1>8
<1> QED
  BY <1>5, <1>7, <1>8

LEMMA SendHandlerTyped ==
  ASSUME NEW chip, NEW s \in Sessions, NEW st \in Stores
  PROVE  SendHandler(chip, s, st).s \in Sessions
<1>1. CASE s.mode \in SendModes /\ CommandAllowed(chip, s.mode)
  <2> DEFINE content == Content(s.mode, st)
  <2>1. content \in Buffers
    <3>1. << s.mode, 0 >> \in Units
      BY UnitTyped DEF Sessions
    <3>2. << << s.mode, 0 >> >> \in Buffers
      BY <3>1, RescueAssumption DEF Buffers
    <3>3. st.msg \in Buffers /\ st.owner1 \in Buffers /\ PageOf(<< s.mode, 0 >>) \in Buffers
      BY <3>1, PageTyped DEF Stores
    <3> QED
      BY <3>2, <3>3 DEF Content
  <2>2. Len(content) \in 0..BlockUnits
    BY <2>1, LenProperties, RescueAssumption DEF Buffers
  <2>3. SendHandler(chip, s, st).s = [s EXCEPT !.data = content, !.staged = Len(content)]
    BY <1>1 DEF SendHandler, Result, SendModes
  <2> HIDE DEF content
  <2> QED
    BY <2>1, <2>2, <2>3 DEF Sessions
<1>2. CASE ~ (s.mode \in SendModes /\ CommandAllowed(chip, s.mode))
  BY <1>2 DEF SendHandler, Result
<1> QED
  BY <1>1, <1>2

\* Where the block goes that is now complete.
LEMMA FlashBeginTyped ==
  ASSUME NEW chip, NEW s \in Sessions
  PROVE  FlashBegin(chip, s) \in {0, FlashStart} /\ FlashOffset(s) \in 0..FlashLimit
BY RescueAssumption DEF FlashBegin, FlashOffset, Sessions

LEMMA BankTyped ==
  ASSUME NEW bank \in Banks
  PROVE  /\ \A first : ErasedFrom(bank, first) \in Banks
         /\ \A page \in FullPages : \A p : [bank EXCEPT ![p] = page] \in Banks
         /\ \A data \in FullPages, p \in Pages :
              [bank EXCEPT ![p] = Programmed(bank[p], data)] \in Banks
<1>1. Erased \in FullPages /\ PageOf(Torn) \in FullPages
  BY UnitTyped, PageTyped DEF Erased
<1>2. \A first : ErasedFrom(bank, first) \in Banks
  BY <1>1 DEF ErasedFrom, Banks
<1>3. ASSUME NEW page \in FullPages, NEW p PROVE [bank EXCEPT ![p] = page] \in Banks
  BY DEF Banks
<1>4. ASSUME NEW data \in FullPages, NEW p \in Pages
      PROVE  [bank EXCEPT ![p] = Programmed(bank[p], data)] \in Banks
  <2>1. Programmed(bank[p], data) \in FullPages
    BY <1>1 DEF Programmed
  <2> QED
    BY <1>3, <2>1
<1> QED
  BY <1>2, <1>3, <1>4

LEMMA StoreTyped ==
  ASSUME NEW st \in Stores
  PROVE  /\ \A slot : \A bank \in Banks : [st EXCEPT !.flash[slot] = bank] \in Stores
         /\ \A page \in FullPages : [st EXCEPT !.owner1 = page] \in Stores
         /\ \A m \in Messages : [st EXCEPT !.msg = m] \in Stores
<1>1. ASSUME NEW slot, NEW bank \in Banks PROVE [st EXCEPT !.flash[slot] = bank] \in Stores
  <2>1. [st.flash EXCEPT ![slot] = bank] \in [Slots -> Banks]
    BY DEF Stores
  <2> QED
    BY <2>1 DEF Stores
<1>2. ASSUME NEW page \in FullPages PROVE [st EXCEPT !.owner1 = page] \in Stores
  BY DEF Stores
<1>3. ASSUME NEW m \in Messages PROVE [st EXCEPT !.msg = m] \in Stores
  BY DEF Stores
<1> QED
  BY <1>1, <1>2, <1>3

\* What a handler of received data returns
Typed(r) == r.s \in Sessions /\ Filling(r.s) /\ r.st \in Stores

LEMMA ResultTyped ==
  ASSUME NEW err, NEW s \in Sessions, Filling(s), NEW st \in Stores
  PROVE  Typed(Result(err, s, st)) /\ Typed(Taken(Result(err, s, st)))
<1>1. Typed(Result(err, s, st))
  BY DEF Typed, Result
<1>2. ASSUME NEW t, t = [s EXCEPT !.offset = 0] PROVE t \in Sessions /\ Filling(t)
  <2>1. 0 \in 0..BlockUnits
    BY RescueAssumption
  <2>2. t \in Sessions /\ t.offset = 0 /\ t.data = s.data
    BY <1>2, <2>1 DEF Sessions
  <2>3. Len(s.data) \in Nat
    BY LenProperties DEF Sessions, Buffers
  <2> QED
    BY <2>2, <2>3 DEF Filling
<1>3. /\ Taken(Result(err, s, st)).s \in {s, [s EXCEPT !.offset = 0]}
      /\ Taken(Result(err, s, st)).st = st
  BY DEF Taken, Result
<1> QED
  BY <1>1, <1>2, <1>3 DEF Typed

LEMMA FlashFirmwareBlockTyped ==
  ASSUME NEW chip, NEW s \in Sessions, s.offset = BlockUnits, Filling(s), NEW st \in Stores
  PROVE  /\ FlashFirmwareBlock(chip, s, st).s \in Sessions
         /\ Filling(FlashFirmwareBlock(chip, s, st).s)
         /\ FlashFirmwareBlock(chip, s, st).st \in Stores
<1> DEFINE slot == BankOf(s.mode)
           offset == FlashOffset(s)
           begin == FlashBegin(chip, s)
           bank == EraseFirst(chip, s, st.flash[slot])
           r == FlashFirmwareBlock(chip, s, st)
           at(n) == [s EXCEPT !.flashOffset = n, !.flashBegin = begin]
           store(b) == [st EXCEPT !.flash[slot] = b]
           new == [bank EXCEPT ![offset] = Programmed(@, s.data)]
<1> SUFFICES r.s \in Sessions /\ Filling(r.s) /\ r.st \in Stores
  OBVIOUS
<1>1. begin \in {0, FlashStart} /\ offset \in 0..FlashLimit
  BY FlashBeginTyped
<1>2. slot \in Slots /\ st.flash[slot] \in Banks
  BY DEF BankOf, Slots, Stores
<1>3. bank \in Banks
  BY <1>2, BankTyped DEF EraseFirst
<1>4. s.data \in FullPages
  <2>1. Len(s.data) = BlockUnits
    BY LenProperties, RescueAssumption DEF Filling, Sessions, Buffers
  <2> QED
    BY <2>1, PageTyped DEF Sessions
<1>5. ASSUME NEW n \in 0..FlashLimit
      PROVE  at(n) \in Sessions /\ Filling(at(n))
  <2>1. at(n) \in Sessions /\ at(n).offset = s.offset /\ at(n).data = s.data
    <3> HIDE DEF begin
    <3> QED
      BY <1>1, <1>5 DEF Sessions
  <2> QED
    BY <2>1 DEF Filling
<1>s. ASSUME NEW b \in Banks PROVE store(b) \in Stores
  BY StoreTyped
<1>6. CASE offset < begin
  <2>1. r = Result("ok", at(offset + 1), store(bank))
    BY <1>6 DEF FlashFirmwareBlock
  <2>2. r.s = at(offset + 1) /\ r.st = store(bank)
    BY <2>1 DEF Result
  <2>3. offset + 1 \in 0..FlashLimit
    BY <1>1, <1>6, RescueAssumption
  <2> HIDE DEF r, at, store, offset, bank
  <2> QED
    BY <1>3, <1>5, <2>2, <2>3, <1>s
<1>7. CASE ~ (offset < begin) /\ offset >= FlashLimit
  <2>1. r = Result("tooBig", at(offset), store(bank))
    BY <1>7 DEF FlashFirmwareBlock
  <2>2. r.s = at(offset) /\ r.st = store(bank)
    BY <2>1 DEF Result
  <2> HIDE DEF r, at, store, offset, bank
  <2> QED
    BY <1>1, <1>3, <1>5, <2>2, <1>s
<1>8. CASE ~ (offset < begin) /\ ~ (offset >= FlashLimit)
  <2>1. r = Result("ok", at(offset + 1), store(new))
    BY <1>8 DEF FlashFirmwareBlock
  <2>2. r.s = at(offset + 1) /\ r.st = store(new)
    BY <2>1 DEF Result
  <2>3. offset + 1 \in 0..FlashLimit /\ offset \in Pages
    BY <1>1, <1>8, RescueAssumption DEF Pages
  <2>4. new \in Banks
    <3> HIDE DEF bank, offset
    <3> QED
      BY <1>3, <1>4, <2>3, BankTyped
  <2> HIDE DEF r, at, store, offset, bank, new
  <2> QED
    BY <1>5, <2>2, <2>3, <2>4, <1>s
<1> QED
  BY <1>6, <1>7, <1>8

LEMMA RecvHandlerTyped ==
  ASSUME NEW chip, NEW s \in Sessions, Filling(s), NEW st \in Stores
  PROVE  Typed(RecvHandler(chip, s, st))
<1>1. ASSUME NEW err PROVE Typed(Result(err, s, st)) /\ Typed(Taken(Result(err, s, st)))
  BY ResultTyped
<1>2. s.data \in Seq(Units) /\ Len(s.data) \in Nat /\ s.offset \in Nat
  BY LenProperties, RescueAssumption DEF Sessions, Buffers
<1>3. ASSUME s.offset >= MsgUnits PROVE Typed(Taken(TakeMessage(chip, s, st)))
  <2> DEFINE m == SubSeq(s.data, 1, MsgUnits)
  <2>1. m \in Messages
    <3>1. MsgUnits \in Nat /\ MsgUnits >= 1 /\ MsgUnits <= Len(s.data)
      BY <1>2, <1>3, RescueAssumption DEF Filling
    <3>2. \A i \in 1..MsgUnits : s.data[i] \in Units
      BY <1>2, <3>1, ElementOfSeq
    <3>3. m \in Seq(Units) /\ Len(m) = MsgUnits
      BY <3>1, <3>2, SubSeqProperties
    <3> HIDE DEF m
    <3> QED
      BY <3>3, LenProperties DEF Messages
  <2> HIDE DEF m
  <2>2. [st EXCEPT !.msg = m] \in Stores
    BY <2>1, StoreTyped
  <2>3. Typed(Taken(Result("ok", s, [st EXCEPT !.msg = m])))
    BY <2>2, ResultTyped
  <2> QED
    BY <1>1, <2>3 DEF TakeMessage, m
<1>4. ASSUME s.offset = BlockUnits PROVE Typed(Taken(Result("ok", s, FlashOwnerBlock(chip, s, st))))
  <2>1. Len(s.data) = BlockUnits
    BY <1>2, <1>4, RescueAssumption DEF Filling, Sessions, Buffers
  <2>2. s.data \in FullPages
    BY <2>1, PageTyped DEF Sessions
  <2>3. FlashOwnerBlock(chip, s, st) \in Stores
    BY <2>2, StoreTyped DEF FlashOwnerBlock
  <2> QED
    BY <2>3, ResultTyped
<1>5. ASSUME s.offset = BlockUnits PROVE Typed(Taken(FlashFirmwareBlock(chip, s, st)))
  <2> DEFINE f == FlashFirmwareBlock(chip, s, st)
  <2>1. f.s \in Sessions /\ Filling(f.s) /\ f.st \in Stores
    BY <1>5, FlashFirmwareBlockTyped
  <2>2. f = Result(f.err, f.s, f.st)
    BY DEF FlashFirmwareBlock, Result
  <2>3. Typed(Taken(Result(f.err, f.s, f.st)))
    BY <2>1, ResultTyped
  <2> QED
    BY <2>2, <2>3
<1> QED
  BY <1>1, <1>3, <1>4, <1>5 DEF RecvHandler

LEMMA BrokenTyped ==
  ASSUME NEW chip, NEW s \in Sessions, NEW st \in Stores, NEW new \in Broken(chip, s, st)
  PROVE  new \in Stores
<1> DEFINE slot == BankOf(s.mode)
           bank == st.flash[slot]
<1>1. bank \in Banks
  BY DEF BankOf, Slots, Stores
<1>2. Erased \in FullPages /\ PageOf(Torn) \in FullPages
  BY UnitTyped, PageTyped DEF Erased
<1>3. ASSUME NEW first, NEW b \in CutErase(bank, first) PROVE b \in Banks
  BY <1>1, <1>2 DEF CutErase, Banks
<1>4. ASSUME NEW p, NEW b \in CutWrite(EraseFirst(chip, s, bank), p) PROVE b \in Banks
  <2>1. EraseFirst(chip, s, bank) \in Banks
    BY <1>1, BankTyped DEF EraseFirst
  <2> QED
    BY <1>2, <2>1, BankTyped DEF CutWrite
<1>5. ASSUME NEW b \in CutFirmware(chip, s, bank) PROVE b \in Banks
  BY <1>1, <1>3, <1>4 DEF CutFirmware
<1>6. \/ \E b \in CutFirmware(chip, s, bank) : new = [st EXCEPT !.flash[slot] = b]
      \/ \E page \in {Erased, PageOf(Torn)} : new = [st EXCEPT !.owner1 = page]
  BY DEF Broken
<1> QED
  BY <1>2, <1>5, <1>6, StoreTyped

-----------------------------------------------------------------------------
(***************************************************************************)
(* What a transfer has achieved once some blocks of a file were taken: the *)
(* pages before them hold the file, and those behind are still erased.     *)
(***************************************************************************)

FirstPage(chip, mode, f) ==
  IF f \in RomExtFiles /\ BankOf(mode) /= chip.active THEN 0 ELSE FlashStart

TakenFirmware(chip, f, s, st, k) ==
  IF k = 0 THEN s.flashOffset = 0
  ELSE /\ s.flashOffset = Base(f) + k
       /\ s.flashBegin = FirstPage(chip, s.mode, f)
       /\ \A p \in Writable(chip, BankOf(s.mode), f) :
            st.flash[BankOf(s.mode)][p] =
              IF p < Base(f) + k THEN Block(f, p - Base(f)) ELSE Erased

\* A message and an owner block are one block.
TakenBlocks(chip, mode, f, s, st, k) ==
  /\ s.mode = mode /\ ModeVerdict(chip, mode) = "ok"
  /\ mode \in FirmwareModes => TakenFirmware(chip, f, s, st, k)
  /\ mode = "ownerBlock" /\ k > 0 => st.owner1 = Block(f, 0)
  /\ mode = "bootSvcReq" /\ k > 0 => st.msg = SubSeq(Block(f, 0), 1, MsgUnits)

LEMMA FirstUnit ==
  ASSUME NEW f \in Files
  PROVE  IsRomExt(Block(f, 0)) <=> f \in RomExtFiles
<1>1. FileUnits[f] \in Nat \ {0} /\ BlockUnits \in Nat \ {0} /\ << f, 1 >> \notin Gaps
  BY RescueAssumption
<1>2. Block(f, 0)[1] = FileUnit(f, 0 * BlockUnits + 1)
  BY <1>1 DEF Block
<1>3. Block(f, 0)[1] = << f, 1 >>
  BY <1>1, <1>2 DEF FileUnit
<1> QED
  BY <1>3 DEF IsRomExt

LEMMA PageBounds ==
  ASSUME NEW chip, NEW mode, NEW f, NEW p
  PROVE  /\ Base(f) \in 0..FlashStart /\ FirstPage(chip, mode, f) \in {0, FlashStart}
         /\ Base(f) <= FirstPage(chip, mode, f)
         /\ Base(f) < FlashLimit /\ FirstPage(chip, mode, f) < FlashLimit
         /\ p \in Writable(chip, BankOf(mode), f) <=>
              p \in Int /\ FirstPage(chip, mode, f) <= p /\ p < FlashLimit
         /\ p \in Writable(chip, BankOf(mode), f) => p \in Pages
<1>1. FlashStart \in Nat \ {0} /\ FlashLimit \in Nat /\ BankPages \in Nat
      /\ FlashStart < FlashLimit /\ FlashLimit <= BankPages
  BY RescueAssumption
<1> QED
  BY <1>1 DEF Base, FirstPage, Writable, Pages

\* Where the block goes, and what it finds there.
LEMMA BlockGoes ==
  ASSUME NEW chip, NEW s \in Sessions, NEW st \in Stores, NEW f \in Files, NEW k \in Nat,
         s.mode \in FirmwareModes, Base(f) + k < FlashLimit => s.data = Block(f, k),
         TakenFirmware(chip, f, s, st, k)
  PROVE  /\ FlashOffset(s) = Base(f) + k
         /\ FlashBegin(chip, s) = FirstPage(chip, s.mode, f)
         /\ \A p \in Writable(chip, BankOf(s.mode), f) :
              EraseFirst(chip, s, st.flash[BankOf(s.mode)])[p] =
                IF p < Base(f) + k THEN Block(f, p - Base(f)) ELSE Erased
<1> DEFINE bank == st.flash[BankOf(s.mode)]
<1>0. /\ Base(f) \in 0..FlashStart /\ Base(f) < FlashLimit
      /\ FirstPage(chip, s.mode, f) \in {0, FlashStart}
      /\ FlashStart \in Nat \ {0} /\ Base(f) <= FirstPage(chip, s.mode, f)
  BY PageBounds, RescueAssumption
<1>1. CASE k = 0
  <2>1. s.flashOffset = 0 /\ s.data = Block(f, 0)
    BY <1>0, <1>1 DEF TakenFirmware
  <2>2. IsRomExt(s.data) <=> f \in RomExtFiles
    BY <2>1, FirstUnit
  <2>3. FlashOffset(s) = Base(f)
    BY <2>1, <2>2 DEF FlashOffset, Base
  <2>4. FlashBegin(chip, s) = FirstPage(chip, s.mode, f)
    BY <2>1, <2>2 DEF FlashBegin, FirstPage, UpdateAllowed
  <2>5. EraseFirst(chip, s, bank) = ErasedFrom(bank, FirstPage(chip, s.mode, f))
    BY <2>1, <2>4 DEF EraseFirst
  <2>6. ASSUME NEW p \in Writable(chip, BankOf(s.mode), f)
        PROVE  ErasedFrom(bank, FirstPage(chip, s.mode, f))[p] = Erased /\ ~ (p < Base(f))
    <3>1. p \in Pages /\ p \in Int /\ FirstPage(chip, s.mode, f) <= p /\ p < FlashLimit
      BY PageBounds
    <3> QED
      BY <1>0, <3>1 DEF ErasedFrom
  <2> QED
    BY <1>0, <1>1, <2>3, <2>4, <2>5, <2>6
<1>2. CASE k > 0
  <2>1. /\ s.flashOffset = Base(f) + k /\ s.flashBegin = FirstPage(chip, s.mode, f)
        /\ \A p \in Writable(chip, BankOf(s.mode), f) :
             bank[p] = IF p < Base(f) + k THEN Block(f, p - Base(f)) ELSE Erased
    BY <1>2 DEF TakenFirmware
  <2>2. s.flashOffset /= 0
    BY <1>0, <1>2, <2>1
  <2>3. EraseFirst(chip, s, bank) = bank
    BY <2>2 DEF EraseFirst
  <2>4. FlashOffset(s) = s.flashOffset /\ FlashBegin(chip, s) = s.flashBegin
    BY <2>2 DEF FlashOffset, FlashBegin
  <2> QED
    BY <2>1, <2>3, <2>4
<1> QED
  BY <1>1, <1>2

LEMMA FirmwareTaken ==
  ASSUME NEW chip, NEW s \in Sessions, NEW st \in Stores, NEW f \in Files, NEW k \in Nat,
         s.mode \in FirmwareModes, Base(f) + k < FlashLimit => s.data = Block(f, k),
         TakenFirmware(chip, f, s, st, k), FlashFirmwareBlock(chip, s, st).err = "ok"
  PROVE  /\ TakenFirmware(chip, f, FlashFirmwareBlock(chip, s, st).s,
                          FlashFirmwareBlock(chip, s, st).st, k + 1)
         /\ FlashFirmwareBlock(chip, s, st).s.mode = s.mode
<1> DEFINE slot == BankOf(s.mode)
           offset == FlashOffset(s)
           begin == FlashBegin(chip, s)
           bank == EraseFirst(chip, s, st.flash[slot])
           first == FirstPage(chip, s.mode, f)
           r == FlashFirmwareBlock(chip, s, st)
           at(n) == [s EXCEPT !.flashOffset = n, !.flashBegin = begin]
           store(b) == [st EXCEPT !.flash[slot] = b]
           new == [bank EXCEPT ![offset] = Programmed(@, s.data)]
<1> SUFFICES TakenFirmware(chip, f, r.s, r.st, k + 1) /\ r.s.mode = s.mode
  OBVIOUS
<1>0. /\ Base(f) \in 0..FlashStart /\ Base(f) < FlashLimit /\ first \in {0, FlashStart}
      /\ FlashStart \in Nat \ {0} /\ Base(f) <= first /\ first < FlashLimit
      /\ FlashLimit \in Nat
  BY PageBounds, RescueAssumption
<1>1. offset = Base(f) + k /\ begin = first
  BY BlockGoes
<1>2. \A p \in Writable(chip, slot, f) :
        bank[p] = IF p < Base(f) + k THEN Block(f, p - Base(f)) ELSE Erased
  BY BlockGoes
<1>3. slot \in Slots /\ st.flash[slot] \in Banks /\ bank \in Banks
  <2>1. slot \in Slots /\ st.flash[slot] \in Banks
    BY DEF BankOf, Slots, Stores
  <2> QED
    BY <2>1, BankTyped DEF EraseFirst
<1>w. \A p \in Writable(chip, slot, f) : p \in Pages /\ p \in Int /\ first <= p /\ p < FlashLimit
  BY PageBounds
<1>4. ASSUME NEW b, NEW n, n = offset + 1,
             \A p \in Writable(chip, slot, f) :
               b[p] = IF p < Base(f) + (k + 1) THEN Block(f, p - Base(f)) ELSE Erased,
             r.s = at(n), r.st = store(b)
      PROVE  TakenFirmware(chip, f, r.s, r.st, k + 1) /\ r.s.mode = s.mode
  <2>1. r.s.mode = s.mode /\ r.s.flashOffset = n /\ r.s.flashBegin = first
    <3>1. ASSUME NEW t, t = at(n)
          PROVE  t.mode = s.mode /\ t.flashOffset = n /\ t.flashBegin = begin
      BY <3>1 DEF Sessions
    <3> QED
      BY <1>1, <1>4, <3>1
  <2>2. r.st.flash[slot] = b
    BY <1>3, <1>4 DEF Stores
  <2>3. n = Base(f) + (k + 1) /\ k + 1 # 0
    BY <1>0, <1>1, <1>4
  <2> HIDE DEF r, at, store, offset, begin
  <2> QED
    BY <1>4, <2>1, <2>2, <2>3 DEF TakenFirmware
<1>5. CASE offset < begin
  <2>1. r.s = at(offset + 1) /\ r.st = store(bank)
    BY <1>5 DEF FlashFirmwareBlock, Result
  <2>2. ASSUME NEW p \in Writable(chip, slot, f)
        PROVE  bank[p] = IF p < Base(f) + (k + 1) THEN Block(f, p - Base(f)) ELSE Erased
    <3>1. ~ (p < Base(f) + k) /\ ~ (p < Base(f) + (k + 1))
      BY <1>0, <1>1, <1>5, <1>w
    <3> QED
      BY <1>2, <3>1
  <2> QED
    BY <1>4, <2>1, <2>2
<1>6. CASE ~ (offset < begin) /\ offset >= FlashLimit
  <2>1. r.err = "tooBig"
    BY <1>6 DEF FlashFirmwareBlock, Result
  <2> QED
    BY <2>1
<1>7. CASE ~ (offset < begin) /\ ~ (offset >= FlashLimit)
  <2>1. r.s = at(offset + 1) /\ r.st = store(new)
    BY <1>7 DEF FlashFirmwareBlock, Result
  <2>2. Base(f) + k < FlashLimit /\ first <= Base(f) + k /\ Base(f) + k \in Int
    BY <1>0, <1>1, <1>7
  <2>3. offset \in Writable(chip, slot, f)
    BY <1>1, <2>2, PageBounds
  <2>4. bank[offset] = Erased
    BY <1>0, <1>1, <1>2, <2>2, <2>3
  <2>5. Programmed(bank[offset], s.data) = Block(f, k)
    BY <2>2, <2>4 DEF Programmed
  <2>6. ASSUME NEW p \in Writable(chip, slot, f)
        PROVE  new[p] = IF p < Base(f) + (k + 1) THEN Block(f, p - Base(f)) ELSE Erased
    <3>1. p \in Pages /\ p \in Int
      BY <1>w
    <3>2. new[p] = IF p = offset THEN Block(f, k) ELSE bank[p]
      <4> HIDE DEF bank, offset
      <4> QED
        BY <1>3, <2>5, <3>1 DEF Banks
    <3>3. CASE p = offset
      <4>1. p < Base(f) + (k + 1) /\ p - Base(f) = k
        BY <1>0, <1>1, <3>3
      <4> QED
        BY <3>2, <3>3, <4>1
    <3>4. CASE p # offset
      <4>1. p < Base(f) + (k + 1) <=> p < Base(f) + k
        BY <1>0, <1>1, <3>1, <3>4
      <4> HIDE DEF bank, offset, new
      <4> QED
        BY <1>2, <3>2, <3>4, <4>1
    <3> QED
      BY <3>3, <3>4
  <2> HIDE DEF new, r, at, store, offset
  <2> QED
    BY <1>4, <2>1, <2>6
<1> QED
  BY <1>5, <1>6, <1>7

\* A full buffer that is handled without an error is one more block taken.
LEMMA BlockTaken ==
  ASSUME NEW chip, NEW mode \in RecvModes, NEW f \in Files, NEW k \in Nat,
         NEW s \in Sessions, NEW st \in Stores, s.offset = BlockUnits,
         Base(f) + k < FlashLimit => s.data = Block(f, k),
         mode \in {"ownerBlock", "bootSvcReq"} => k = 0,
         TakenBlocks(chip, mode, f, s, st, k), RecvHandler(chip, s, st).err = "ok"
  PROVE  TakenBlocks(chip, mode, f, RecvHandler(chip, s, st).s, RecvHandler(chip, s, st).st, k + 1)
<1> DEFINE r == RecvHandler(chip, s, st)
<1> SUFFICES TakenBlocks(chip, mode, f, r.s, r.st, k + 1)
  OBVIOUS
<1>0. s.mode = mode /\ ModeVerdict(chip, mode) = "ok" /\ k + 1 > 0 /\ k + 1 # 0
  BY DEF TakenBlocks
<1>1. CommandAllowed(chip, mode) /\ mode # "reboot" /\ (mode = "ownerBlock" => chip.acceptsOwner)
  BY <1>0 DEF ModeVerdict, RecvModes, FirmwareModes, Modes
<1>2. BlockUnits >= MsgUnits
  BY RescueAssumption
<1>3. ASSUME NEW err, NEW t, NEW new, NEW a, a = Taken(Result(err, t, new)), a.err = "ok",
             IsSession(t)
      PROVE  /\ err = "ok" /\ a.st = new
             /\ a.s.mode = t.mode /\ a.s.flashOffset = t.flashOffset
             /\ a.s.flashBegin = t.flashBegin
  <2>1. ASSUME NEW u, u = [t EXCEPT !.offset = 0]
        PROVE  u.mode = t.mode /\ u.flashOffset = t.flashOffset /\ u.flashBegin = t.flashBegin
    BY <1>3, <2>1 DEF IsSession
  <2>2. err = "ok"
    BY <1>3 DEF Taken, Result
  <2>3. a.st = new /\ a.s = [t EXCEPT !.offset = 0]
    BY <1>3, <2>2 DEF Taken, Result
  <2> QED
    BY <2>1, <2>2, <2>3
<1>4. IsSession(s)
  BY DEF Sessions, IsSession
<1>5. Base(f) + 0 < FlashLimit
  BY PageBounds, RescueAssumption
<1>6. CASE mode = "bootSvcReq"
  <2>1. r = Taken(TakeMessage(chip, s, st))
    BY <1>0, <1>1, <1>2, <1>6 DEF RecvHandler
  <2>2. k = 0 /\ s.data = Block(f, 0)
    BY <1>5, <1>6
  <2> DEFINE m == SubSeq(s.data, 1, MsgUnits)
  <2>3. ASSUME ~CommandAllowed(chip, s.data[1][1]) PROVE FALSE
    BY <2>1, <2>3 DEF TakeMessage, Taken, Result
  <2>4. r = Taken(Result("ok", s, [st EXCEPT !.msg = m]))
    BY <2>1, <2>3 DEF TakeMessage
  <2>5. r.err = "ok"
    OBVIOUS
  <2> HIDE DEF r
  <2>6. r.st = [st EXCEPT !.msg = m] /\ r.s.mode = mode
    BY <1>0, <1>3, <1>4, <2>4, <2>5
  <2>7. r.st.msg = m
    BY <2>6 DEF Stores
  <2> QED
    BY <1>0, <1>6, <2>2, <2>6, <2>7 DEF TakenBlocks, FirmwareModes
<1>7. CASE mode = "ownerBlock"
  <2>1. r = Taken(Result("ok", s, FlashOwnerBlock(chip, s, st)))
    BY <1>0, <1>1, <1>7 DEF RecvHandler
  <2>2. k = 0 /\ s.data = Block(f, 0)
    BY <1>5, <1>7
  <2>3. FlashOwnerBlock(chip, s, st) = [st EXCEPT !.owner1 = s.data]
    BY <1>1, <1>7 DEF FlashOwnerBlock
  <2>4. r.err = "ok"
    OBVIOUS
  <2> HIDE DEF r
  <2>5. r.st = [st EXCEPT !.owner1 = s.data] /\ r.s.mode = mode
    BY <1>0, <1>3, <1>4, <2>1, <2>3, <2>4
  <2>6. r.st.owner1 = s.data
    BY <2>5 DEF Stores
  <2> QED
    BY <1>0, <1>7, <2>2, <2>5, <2>6 DEF TakenBlocks, FirmwareModes
<1>8. CASE mode \in FirmwareModes
  <2> DEFINE b == FlashFirmwareBlock(chip, s, st)
  <2>1. r = Taken(b)
    BY <1>0, <1>1, <1>8 DEF RecvHandler, FirmwareModes
  <2>2. b = Result(b.err, b.s, b.st)
    BY DEF FlashFirmwareBlock, Result
  <2>3. IsSession(b.s)
    <3>1. \E n : b.s = [s EXCEPT !.flashOffset = n, !.flashBegin = FlashBegin(chip, s)]
      BY DEF FlashFirmwareBlock, Result
    <3>2. ASSUME NEW n, NEW g, NEW t, t = [s EXCEPT !.flashOffset = n, !.flashBegin = g]
          PROVE  IsSession(t)
      <4>1. t = [mode |-> s.mode, default |-> s.default, deadline |-> s.deadline,
                 frame |-> s.frame, offset |-> s.offset, staged |-> s.staged,
                 flashOffset |-> n, flashBegin |-> g, data |-> s.data]
        BY <1>4, <3>2 DEF IsSession
      <4> QED
        BY <4>1 DEF IsSession
    <3> QED
      BY <3>1, <3>2
  <2> HIDE DEF b
  <2>4. /\ b.err = "ok" /\ r.st = b.st
        /\ r.s.mode = b.s.mode /\ r.s.flashOffset = b.s.flashOffset
        /\ r.s.flashBegin = b.s.flashBegin
    <3>1. r.err = "ok"
      OBVIOUS
    <3>2. r = Taken(Result(b.err, b.s, b.st))
      BY <2>1, <2>2
    <3> HIDE DEF r
    <3> QED
      BY <1>3, <2>3, <3>1, <3>2
  <2>5. TakenFirmware(chip, f, s, st, k)
    BY <1>0, <1>8 DEF TakenBlocks
  <2>6. TakenFirmware(chip, f, b.s, b.st, k + 1) /\ b.s.mode = s.mode
    BY <1>0, <1>8, <2>4, <2>5, FirmwareTaken DEF b
  <2> HIDE DEF r
  <2>7. TakenFirmware(chip, f, r.s, r.st, k + 1)
    BY <1>0, <2>4, <2>6 DEF TakenFirmware
  <2> QED
    BY <1>0, <1>8, <2>4, <2>6, <2>7 DEF TakenBlocks, FirmwareModes
<1> QED
  BY <1>6, <1>7, <1>8 DEF RecvModes

\* A file whose blocks were all taken is stored.
LEMMA TakenIsHeld ==
  ASSUME NEW chip, NEW mode \in FirmwareModes, NEW f \in Files, NEW k \in Nat, k > 0,
         NEW s, NEW st, FileUnits[f] <= k * BlockUnits,
         TakenBlocks(chip, mode, f, s, st, k)
  PROVE  Holds(chip, st, BankOf(mode), f)
<1>1. /\ s.mode = mode
      /\ \A p \in Writable(chip, BankOf(mode), f) :
           st.flash[BankOf(mode)][p] = IF p < Base(f) + k THEN Block(f, p - Base(f)) ELSE Erased
  BY DEF TakenBlocks, TakenFirmware
<1>2. ASSUME NEW p \in Writable(chip, BankOf(mode), f), ~ (p < Base(f) + k)
      PROVE  Block(f, p - Base(f)) = Erased
  <2>1. p \in Int /\ Base(f) \in Int
    BY PageBounds
  <2>2. BlockUnits \in Nat \ {0} /\ FileUnits[f] \in Nat
    BY RescueAssumption
  <2> DEFINE n == p - Base(f)
  <2>3. n \in Nat /\ k <= n
    BY <1>2, <2>1
  <2> HIDE DEF n
  <2>4. n * BlockUnits >= k * BlockUnits
    <3>1. PICK j \in Nat : n = k + j
      <4>1. n - k \in Nat /\ n = k + (n - k)
        BY <2>3
      <4> QED
        BY <4>1
    <3>2. n * BlockUnits = k * BlockUnits + j * BlockUnits
      BY <2>2, <3>1
    <3>3. j * BlockUnits \in Nat /\ k * BlockUnits \in Nat
      BY <2>2
    <3> QED
      BY <3>2, <3>3
  <2>5. ASSUME NEW i \in 1..BlockUnits PROVE FileUnit(f, n * BlockUnits + i) = FF
    <3>1. n * BlockUnits \in Nat /\ k * BlockUnits \in Nat
      BY <2>2, <2>3
    <3>2. ~ (n * BlockUnits + i \in 1..FileUnits[f])
      BY <2>2, <2>4, <3>1
    <3> QED
      BY <3>2 DEF FileUnit
  <2>6. Block(f, n) = Erased
    BY <2>5 DEF Block, Erased, PageOf
  <2> QED
    BY <2>6 DEF n
<1> QED
  BY <1>1, <1>2 DEF Holds

=============================================================================
