---------------------------- MODULE DfuRescueProofs ----------------------------
(***************************************************************************)
(* Rescue over USB and SPI keeps the ROM_EXT that runs, does not cut off   *)
(* a host at work, has its type, and does what it acknowledges, for every  *)
(* file, chip and size of flash, whatever hosts ask, and for any number of *)
(* operations and faults.                                                  *)
(***************************************************************************)
EXTENDS DfuRescue, RescueServiceProofs

\* The inductive invariant: the session that the next handler starts from.
Inv == Safe(chip, session) /\ IsStore(store)

\* What a step does to the store, if it does anything.
Kept == IsStore(store') /\ Keeps(chip, store, store')

-----------------------------------------------------------------------------
\* Updates that touch neither the mode nor the offsets in flash.
LEMMA UpdatesSafe ==
  ASSUME NEW s, Safe(chip, s)
  PROVE  /\ Safe(chip, [s EXCEPT !.deadline = FALSE])
         /\ Safe(chip, [s EXCEPT !.staged = 0])
         /\ \A d : Safe(chip, [s EXCEPT !.data = d])
         /\ \A n, d : Safe(chip, [s EXCEPT !.offset = n, !.data = d])
<1>1. ASSUME NEW t, t = [s EXCEPT !.deadline = FALSE] PROVE Safe(chip, t)
  BY <1>1 DEF Safe, IsSession
<1>2. ASSUME NEW t, t = [s EXCEPT !.staged = 0] PROVE Safe(chip, t)
  BY <1>2 DEF Safe, IsSession
<1>3. ASSUME NEW d, NEW t, t = [s EXCEPT !.data = d] PROVE Safe(chip, t)
  BY <1>3 DEF Safe, IsSession
<1>4. ASSUME NEW n, NEW d, NEW t, t = [s EXCEPT !.offset = n, !.data = d]
      PROVE  Safe(chip, t)
  <2>1. t = [mode |-> s.mode, default |-> s.default, deadline |-> s.deadline,
             frame |-> s.frame, offset |-> n, staged |-> s.staged,
             flashOffset |-> s.flashOffset, flashBegin |-> s.flashBegin, data |-> d]
    BY <1>4 DEF Safe, IsSession
  <2>2. IsSession(t)
    BY <2>1 DEF IsSession
  <2> QED BY <2>1, <2>2 DEF Safe
<1> QED BY <1>1, <1>2, <1>3, <1>4

LEMMA SetModeSafe ==
  ASSUME NEW s, Safe(chip, s), NEW setting
  PROVE  Safe(chip, SetMode(setting, s))
<1>1. ASSUME NEW mode PROVE Safe(chip, Staged(mode, s))
  <2>1. Safe(chip, ValidateMode(chip, mode, s))
    BY ValidateModeSafe
  <2>2. Safe(chip, SendHandler(chip, ValidateMode(chip, mode, s), store).s)
    BY <2>1, SendHandlerSafe
  <2> QED BY <2>1, <2>2 DEF Staged
<1>2. ASSUME NEW mode, NEW t, Safe(chip, t) PROVE Safe(chip, ValidateMode(chip, mode, t))
  BY <1>2, ValidateModeSafe
<1> QED BY <1>1, <1>2 DEF SetMode

LEMMA FreshSafe == Safe(chip, FreshSession)
<1>1. Safe(chip, SessionInit(chip))
  BY SessionInitSafe
<1> QED BY <1>1, SetModeSafe DEF FreshSession

\* The end of a transfer.
LEMMA CompletedKeeps ==
  ASSUME NEW s, Safe(chip, s), IsStore(store), NEW d, NEW length
  PROVE  LET done == Completed(s, d, length)
         IN  Safe(chip, done.s) /\ IsStore(done.st) /\ Keeps(chip, store, done.st)
<1> DEFINE done == Completed(s, d, length)
           r == RecvHandler(chip, Filled(s, length), store)
<1>1. Safe(chip, Filled(s, length))
  BY UpdatesSafe DEF Filled
<1>2. Safe(chip, r.s) /\ IsStore(r.st) /\ Keeps(chip, store, r.st)
  BY <1>1, RecvHandlerKeeps
<1>3. Safe(chip, [s EXCEPT !.staged = 0])
  BY UpdatesSafe
<1>4. Keeps(chip, store, store)
  BY DEF Keeps
<1>5. CASE d.state = "dnLoadSync"
  <2>1. done.s = r.s /\ done.st = r.st
    BY <1>5 DEF Completed
  <2> QED BY <1>2, <2>1
<1>6. CASE d.state /= "dnLoadSync"
  <2>1. done.s \in {s, [s EXCEPT !.staged = 0]} /\ done.st = store
    BY <1>6 DEF Completed
  <2> QED BY <1>3, <1>4, <2>1
<1> QED BY <1>5, <1>6

\* A request whose handler leaves a safe session.
LEMMA RequestKeeps ==
  ASSUME IsStore(store), NEW r, Safe(chip, r.s), Answers(r)
  PROVE  Safe(chip, session') /\ Kept
<1> DEFINE length == IF r.reply.k = "in" THEN Len(r.reply.data) ELSE 0
           done == Completed(r.s, r.d, length)
<1>1. Safe(chip, done.s) /\ IsStore(done.st) /\ Keeps(chip, store, done.st)
  BY CompletedKeeps
<1>2. Keeps(chip, store, store)
  BY DEF Keeps
<1>3. \/ session' = done.s /\ store' = done.st
      \/ session' = r.s /\ store' = store
  BY DEF Answers
<1> HIDE DEF done
<1> QED BY <1>1, <1>2, <1>3 DEF Kept

\* The handlers of the class requests leave the session to the data.
LEMMA ClassRequests ==
  ASSUME NEW s, NEW d, NEW length
  PROVE  /\ DnLoad(length, s, d).s = s /\ UpLoad(s, d).s = s
         /\ GetStatus(s, d).s = s /\ GetState(s, d).s = s
         /\ ClrStatus(s, d).s = s /\ Abort(s, d).s = s
BY DEF DnLoad, UpLoad, GetStatus, GetState, ClrStatus, Abort, Fails, Handled

LEMMA SetRequests ==
  ASSUME NEW s, Safe(chip, s), NEW d, NEW setting
  PROVE  /\ Safe(chip, SetInterface(setting, s, d).s)
         /\ Safe(chip, VendorSetMode(setting, s, d).s)
<1>1. Safe(chip, SetInterface(setting, s, d).s)
  <2> DEFINE t == SetMode(setting, s)
  <2>1. Safe(chip, t)
    BY SetModeSafe
  <2>2. SetInterface(setting, s, d).s \in {t, [t EXCEPT !.deadline = FALSE]}
    BY DEF SetInterface, Handled
  <2> HIDE DEF t
  <2> QED BY <2>1, <2>2, UpdatesSafe
<1>2. Safe(chip, VendorSetMode(setting, s, d).s)
  <2>1. VendorSetMode(setting, s, d).s = SetMode(setting, [s EXCEPT !.deadline = FALSE])
    BY DEF VendorSetMode, Handled
  <2>2. Safe(chip, [s EXCEPT !.deadline = FALSE])
    BY UpdatesSafe
  <2> QED BY <2>1, <2>2, SetModeSafe
<1> QED BY <1>1, <1>2

LEMMA StrandedSafe ==
  ASSUME NEW s, Safe(chip, s), NEW t \in Stranded(s)
  PROVE  Safe(chip, t)
<1>1. CASE s.mode \notin FirmwareModes
  BY <1>1 DEF Stranded
<1>2. CASE s.mode \in FirmwareModes
  <2>1. PICK n \in {s.flashOffset, FlashOffset(s)} :
          t = [s EXCEPT !.flashOffset = n, !.flashBegin = FlashBegin(chip, s)]
    BY <1>2 DEF Stranded
  <2>2. n \in Nat
    BY <2>1, FlashBeginSafe DEF Safe
  <2> QED BY <2>1, <2>2, FlashBeginSafe, TransferSafe
<1> QED BY <1>1, <1>2

-----------------------------------------------------------------------------
LEMMA InitInv ==
  ASSUME Init
  PROVE  Inv
<1>1. Safe(chip, session)
  BY FreshSafe DEF Init
<1>2. IsStore(store)
  BY DEF Init, IsStore, IsBank
<1> QED BY <1>1, <1>2 DEF Inv

\* One step per action: the store keeps its protected pages, and the session
\* stays safe.
LEMMA StepKeeps ==
  ASSUME Inv, Next
  PROVE  chip' = chip /\ Safe(chip, session') /\ Kept
<1> USE DEF Inv
<1> DEFINE h == Heard(session)
<1>0. Keeps(chip, store, store)
  BY DEF Keeps
<1>h. Safe(chip, h)
  BY UpdatesSafe DEF Heard
<1> HIDE DEF h
<1>1. CASE HostSetsMode
  <2> DEFINE r == IF transport = "usb" THEN SetInterface(SettingOf(host.mode), session, dfu)
                  ELSE VendorSetMode(SettingOf(host.mode), session, dfu)
  <2>1. Safe(chip, r.s)
    BY SetRequests
  <2>2. Answers(r) /\ chip' = chip
    BY <1>1 DEF HostSetsMode, Request
  <2> HIDE DEF r
  <2> QED BY <2>1, <2>2, RequestKeeps
<1>2. CASE HostDownloads \/ HostFinishes
  <2>1. PICK n : Answers(DnLoad(n, h, dfu)) /\ chip' = chip
    BY <1>2 DEF HostDownloads, HostFinishes, Request, h
  <2>2. DnLoad(n, h, dfu).s = h
    BY ClassRequests
  <2> QED BY <1>h, <2>1, <2>2, RequestKeeps
<1>3. CASE HostPolls \/ HostReadsStatus
  <2>1. Answers(GetStatus(h, dfu)) /\ chip' = chip
    BY <1>3 DEF HostPolls, HostReadsStatus, Request, h
  <2>2. GetStatus(h, dfu).s = h
    BY ClassRequests
  <2> QED BY <1>h, <2>1, <2>2, RequestKeeps
<1>4. CASE HostUploads
  <2>1. Answers(UpLoad(h, dfu)) /\ chip' = chip
    BY <1>4 DEF HostUploads, Request, h
  <2>2. UpLoad(h, dfu).s = h
    BY ClassRequests
  <2> QED BY <1>h, <2>1, <2>2, RequestKeeps
<1>5. CASE HostAsks
  <2>1. PICK r \in {GetStatus(h, dfu), GetState(h, dfu), ClrStatus(h, dfu), Abort(h, dfu)} :
          Answers(r) /\ chip' = chip
    BY <1>5 DEF HostAsks, Request, h
  <2>2. r.s = h
    BY <2>1, ClassRequests
  <2> QED BY <1>h, <2>1, <2>2, RequestKeeps
<1>6. CASE OtherRequest
  <2>1. Answers(Handled(session, dfu, Reply("ack", << >>))) /\ chip' = chip
    BY <1>6 DEF OtherRequest, Request
  <2>2. Handled(session, dfu, Reply("ack", << >>)).s = session
    BY DEF Handled
  <2> QED BY <2>1, <2>2, RequestKeeps
<1>7. CASE ChunkArrives
  <2> DEFINE s == Copied(session, host.chunk, Chunk)
             done == Completed(s, [dfu EXCEPT !.expected = 0], Last)
  <2>1. Safe(chip, s)
    BY UpdatesSafe DEF Copied
  <2>2. Safe(chip, done.s) /\ IsStore(done.st) /\ Keeps(chip, store, done.st)
    BY <2>1, CompletedKeeps
  <2>3. /\ chip' = chip
        /\ \/ session' = done.s /\ store' = done.st
           \/ session' = s /\ store' = store
    BY <1>7 DEF ChunkArrives
  <2> HIDE DEF s, done
  <2> QED BY <1>0, <2>1, <2>2, <2>3 DEF Kept
<1>8. CASE HostReboots \/ Inactivity
  BY <1>0, <1>8, FreshSafe DEF HostReboots, Inactivity, Boot, Kept
<1>9. CASE PowerCut
  <2>1. /\ IsStore([store EXCEPT !.msg = Scrambled])
        /\ Keeps(chip, store, [store EXCEPT !.msg = Scrambled])
    BY DEF IsStore, Keeps
  <2> QED BY <1>9, <2>1, FreshSafe DEF PowerCut, Boot, Kept
<1>10. CASE WriteBreaksOff
  <2> DEFINE s == Filled(Copied(session, host.chunk, Chunk), Last)
  <2>1. Safe(chip, s)
    <3>1. Safe(chip, Copied(session, host.chunk, Chunk))
      BY UpdatesSafe DEF Copied
    <3> QED BY <3>1, UpdatesSafe DEF Filled
  <2>2. /\ chip' = chip /\ store' \in Broken(chip, s, store)
        /\ session' = FreshSession \/ session' \in Stranded(s)
    BY <1>10 DEF WriteBreaksOff, Boot
  <2> HIDE DEF s
  <2> QED BY <2>1, <2>2, BrokenKeeps, FreshSafe, StrandedSafe DEF Kept
<1>11. CASE HostBegins \/ HostStops \/ ChunkIsSkipped
  BY <1>0, <1>11 DEF HostBegins, HostStops, ChunkIsSkipped, Kept
<1> QED BY <1>1, <1>2, <1>3, <1>4, <1>5, <1>6, <1>7, <1>8, <1>9, <1>10, <1>11 DEF Next, Host

LEMMA StepInv ==
  ASSUME Inv, [Next]_vars
  PROVE  Inv'
<1>1. CASE Next
  BY <1>1, StepKeeps DEF Inv, Kept
<1>2. CASE UNCHANGED vars
  BY <1>2 DEF vars, Inv
<1> QED BY <1>1, <1>2

\* Wherever a host stops, whatever is asked and wherever power or flash fail,
\* the session never has an area of flash open that holds the ROM_EXT that runs.
THEOREM SessionIsSafe == Spec => []Inv
<1>1. Init => Inv
  BY InitInv
<1>2. Inv /\ [Next]_vars => Inv'
  BY StepInv
<1> QED BY <1>1, <1>2, PTL DEF Spec

\* No step of chip, host or environment changes a page of the ROM_EXT that
\* runs, or one behind the area that the owner gave to rescue.
THEOREM RunningFirmwareIsKept == Spec => ProtectedIsKept
<1> DEFINE Same == \A sp \in ProtectedPages(chip) :
                     store.flash[sp[1]][sp[2]] = store'.flash[sp[1]][sp[2]]
<1>1. Inv /\ [Next]_vars => [Same]_vars
  <2> SUFFICES ASSUME Inv, Next PROVE Same
    OBVIOUS
  <2>1. Keeps(chip, store, store')
    BY StepKeeps DEF Kept
  <2> QED BY <2>1 DEF Keeps, ProtectedPages
<1> QED BY <1>1, SessionIsSafe, PTL DEF Spec, ProtectedIsKept

-----------------------------------------------------------------------------
(***************************************************************************)
(* The inactivity deadline.  Only a session that begins anew sets it: what *)
(* a class request cancelled stays cancelled through blocks and errors.    *)
(***************************************************************************)

Waiting == {"idle", "mode", "download", "upload"}

\* Together with Inv, this makes BusyIsNotCutOff inductive.
IsHost(h) ==
  h = [pc |-> h.pc, op |-> h.op, mode |-> h.mode, file |-> h.file, block |-> h.block,
       chunk |-> h.chunk, got |-> h.got, result |-> h.result, reset |-> h.reset]

HostInv == IsHost(host) /\ host.pc \in HostPcs

LEMMA HostMoves ==
  ASSUME HostInv, NEW pc \in HostPcs
  PROVE  /\ host' = [host EXCEPT !.pc = pc] =>
              HostInv' /\ host'.pc = pc /\ host'.reset = host.reset
         /\ \A x : host' = [host EXCEPT !.pc = pc, !.result = x] => HostInv' /\ host'.pc = pc
         /\ \A x : host' = [host EXCEPT !.pc = pc, !.chunk = x] => HostInv' /\ host'.pc = pc
         /\ \A x : host' = [host EXCEPT !.pc = pc, !.block = x] => HostInv' /\ host'.pc = pc
         /\ \A x : host' = [host EXCEPT !.pc = pc, !.got = x] => HostInv' /\ host'.pc = pc
<1>1. ASSUME host' = [host EXCEPT !.pc = pc]
      PROVE  HostInv' /\ host'.pc = pc /\ host'.reset = host.reset
  BY <1>1 DEF HostInv, IsHost
<1>2. ASSUME NEW x, host' = [host EXCEPT !.pc = pc, !.result = x]
      PROVE  HostInv' /\ host'.pc = pc
  <2>1. host' = [pc |-> pc, op |-> host.op, mode |-> host.mode, file |-> host.file,
              block |-> host.block, chunk |-> host.chunk, got |-> host.got,
              result |-> x, reset |-> host.reset]
    BY <1>2 DEF HostInv, IsHost
  <2> QED BY <2>1 DEF HostInv, IsHost
<1>3. ASSUME NEW x, host' = [host EXCEPT !.pc = pc, !.chunk = x]
      PROVE  HostInv' /\ host'.pc = pc
  <2>1. host' = [pc |-> pc, op |-> host.op, mode |-> host.mode, file |-> host.file,
              block |-> host.block, chunk |-> x, got |-> host.got,
              result |-> host.result, reset |-> host.reset]
    BY <1>3 DEF HostInv, IsHost
  <2> QED BY <2>1 DEF HostInv, IsHost
<1>4. ASSUME NEW x, host' = [host EXCEPT !.pc = pc, !.block = x]
      PROVE  HostInv' /\ host'.pc = pc
  <2>1. host' = [pc |-> pc, op |-> host.op, mode |-> host.mode, file |-> host.file,
              block |-> x, chunk |-> host.chunk, got |-> host.got,
              result |-> host.result, reset |-> host.reset]
    BY <1>4 DEF HostInv, IsHost
  <2> QED BY <2>1 DEF HostInv, IsHost
<1>5. ASSUME NEW x, host' = [host EXCEPT !.pc = pc, !.got = x]
      PROVE  HostInv' /\ host'.pc = pc
  <2>1. host' = [pc |-> pc, op |-> host.op, mode |-> host.mode, file |-> host.file,
              block |-> host.block, chunk |-> host.chunk, got |-> x,
              result |-> host.result, reset |-> host.reset]
    BY <1>5 DEF HostInv, IsHost
  <2> QED BY <2>1 DEF HostInv, IsHost
<1> QED BY <1>1, <1>2, <1>3, <1>4, <1>5

LEMMA HostStays ==
  ASSUME HostInv
  PROVE  /\ \A x : host' = [host EXCEPT !.chunk = x] =>
                     HostInv' /\ host'.pc = host.pc /\ host'.reset = host.reset
         /\ host' = [host EXCEPT !.reset = TRUE] => HostInv' /\ host'.reset
<1>1. ASSUME NEW x, host' = [host EXCEPT !.chunk = x]
      PROVE  HostInv' /\ host'.pc = host.pc /\ host'.reset = host.reset
  BY <1>1 DEF HostInv, IsHost
<1>2. ASSUME host' = [host EXCEPT !.reset = TRUE]
      PROVE  HostInv' /\ host'.reset
  BY <1>2 DEF HostInv, IsHost
<1> QED BY <1>1, <1>2

LEMMA HostGoesOn ==
  ASSUME HostInv, NEW pc \in HostPcs
  PROVE  HostGoes(pc) => HostInv' /\ host'.pc = pc /\ host'.reset = host.reset
BY HostMoves DEF HostGoes

LEMMA HostIsDone ==
  ASSUME HostInv, NEW result
  PROVE  HostEnds(result) => HostInv' /\ host'.pc \in Waiting
<1>1. "idle" \in HostPcs /\ "idle" \in Waiting
  BY DEF HostPcs, Waiting
<1>2. host' = [host EXCEPT !.pc = "idle", !.result = result] => HostInv' /\ host'.pc = "idle"
  BY <1>1, HostMoves
<1> QED BY <1>1, <1>2 DEF HostEnds

LEMMA HeardIsNotCutOff ==
  ASSUME Inv
  PROVE  ~Heard(session).deadline
BY DEF Inv, Safe, IsSession, Heard

\* A session that a handler of the services leaves keeps the deadline.
LEMMA TakenKeepsDeadline ==
  ASSUME NEW s, Safe(chip, s), NEW st
  PROVE  RecvHandler(chip, s, st).s.deadline = s.deadline
<1>1. ASSUME NEW r, NEW t, r.s = t, Safe(chip, t), t.deadline = s.deadline,
             r = [err |-> r.err, s |-> r.s, st |-> r.st]
      PROVE  Taken(r).s.deadline = s.deadline
  <2>1. Taken(r).s \in {t, [t EXCEPT !.offset = 0]}
    BY <1>1 DEF Taken
  <2> QED BY <1>1, <2>1 DEF Safe, IsSession
<1>2. ASSUME NEW err, NEW t, NEW new, Safe(chip, t), t.deadline = s.deadline
      PROVE  Taken(Result(err, t, new)).s.deadline = s.deadline
  BY <1>1, <1>2 DEF Result
<1>3. Taken(TakeMessage(chip, s, st)).s.deadline = s.deadline
  BY <1>2 DEF TakeMessage
<1>4. Taken(FlashFirmwareBlock(chip, s, st)).s.deadline = s.deadline
  <2> DEFINE at(n) == [s EXCEPT !.flashOffset = n, !.flashBegin = FlashBegin(chip, s)]
  <2>1. PICK err, new :
          \/ FlashFirmwareBlock(chip, s, st) = Result(err, at(FlashOffset(s) + 1), new)
          \/ FlashFirmwareBlock(chip, s, st) = Result(err, at(FlashOffset(s)), new)
    BY Zenon DEF FlashFirmwareBlock
  <2>2. ASSUME NEW n \in Nat PROVE Safe(chip, at(n)) /\ at(n).deadline = s.deadline
    <3>1. Safe(chip, at(n))
      BY FlashBeginSafe, TransferSafe
    <3> QED BY <3>1 DEF Safe, IsSession
  <2>3. FlashOffset(s) \in Nat /\ FlashOffset(s) + 1 \in Nat
    BY FlashBeginSafe
  <2> HIDE DEF at
  <2> QED BY <1>2, <2>1, <2>2, <2>3
<1>5. \A err, new : /\ Result(err, s, new).s.deadline = s.deadline
                    /\ Taken(Result(err, s, new)).s.deadline = s.deadline
  BY <1>2 DEF Result
<1> QED BY <1>3, <1>4, <1>5 DEF RecvHandler

LEMMA DataKeepsDeadline ==
  ASSUME NEW s, Safe(chip, s), NEW d, NEW n
  PROVE  /\ [s EXCEPT !.data = d].deadline = s.deadline
         /\ [s EXCEPT !.staged = 0].deadline = s.deadline
         /\ [s EXCEPT !.offset = n, !.data = d].deadline = s.deadline
BY DEF Safe, IsSession

LEMMA CompletedKeepsDeadline ==
  ASSUME NEW s, Safe(chip, s), NEW d, NEW length
  PROVE  Completed(s, d, length).s.deadline = s.deadline
<1> DEFINE t == Filled(s, length)
<1>1. Safe(chip, t) /\ t.deadline = s.deadline
  BY UpdatesSafe, DataKeepsDeadline DEF Filled
<1>2. RecvHandler(chip, t, store).s.deadline = s.deadline
  BY <1>1, TakenKeepsDeadline
<1>3. [s EXCEPT !.staged = 0].deadline = s.deadline
  BY DataKeepsDeadline
<1> HIDE DEF t
<1>4. Completed(s, d, length).s \in {RecvHandler(chip, t, store).s, [s EXCEPT !.staged = 0], s}
  BY DEF Completed, t
<1> QED BY <1>2, <1>3, <1>4

LEMMA StrandedKeepsDeadline ==
  ASSUME NEW s, Safe(chip, s), NEW t \in Stranded(s)
  PROVE  t.deadline = s.deadline
<1>1. ASSUME NEW n PROVE [s EXCEPT !.flashOffset = n, !.flashBegin = FlashBegin(chip, s)].deadline
                           = s.deadline
  BY DEF Safe, IsSession
<1> QED BY <1>1 DEF Stranded

\* A class request: the deadline is cancelled, whatever its reply.
LEMMA AnswerIsHeard ==
  ASSUME Inv, NEW r, r.s = Heard(session), Answers(r)
  PROVE  ~session'.deadline
<1>1. Safe(chip, r.s) /\ ~r.s.deadline
  BY HeardIsNotCutOff, UpdatesSafe DEF Inv, Heard
<1>2. \A n : ~Completed(r.s, r.d, n).s.deadline
  BY <1>1, CompletedKeepsDeadline
<1> QED BY <1>1, <1>2 DEF Answers

LEMMA ResetHost ==
  ASSUME HostInv, HostSeesReset
  PROVE  HostInv' /\ (host'.pc \in Waiting \/ host'.reset)
<1>1. CASE host.pc = "idle"
  BY <1>1 DEF HostSeesReset, HostInv, Waiting
<1>2. CASE host.pc /= "idle" /\ transport = "usb"
  <2>1. HostEnds("failed")
    BY <1>2 DEF HostSeesReset, HostEnds
  <2> QED BY <2>1, HostIsDone
<1>3. CASE host.pc /= "idle" /\ transport /= "usb"
  <2>1. host' = [host EXCEPT !.reset = TRUE]
    BY <1>3 DEF HostSeesReset
  <2> QED BY <2>1, HostStays
<1> QED BY <1>1, <1>2, <1>3

\* One step per action.
LEMMA DeadlineStep ==
  ASSUME Inv, HostInv, BusyIsNotCutOff, Next
  PROVE  HostInv' /\ BusyIsNotCutOff'
<1> DEFINE h == Heard(session)
<1>w. ASSUME host'.pc \in Waiting \/ host'.reset \/ ~session'.deadline
      PROVE  BusyIsNotCutOff'
  BY <1>w DEF BusyIsNotCutOff, Waiting
<1>1. CASE HostSetsMode
  <2>1. \/ \E result : HostEnds(result)
        \/ HostGoes("download") \/ HostGoes("upload")
    BY <1>1 DEF HostSetsMode, Request
  <2>2. HostInv' /\ host'.pc \in Waiting
    BY <2>1, HostGoesOn, HostIsDone DEF HostPcs, Waiting
  <2> QED BY <1>w, <2>2
<1>2. CASE HostDownloads \/ HostFinishes
  <2>1. PICK n : Answers(DnLoad(n, h, dfu))
    BY <1>2 DEF HostDownloads, HostFinishes, Request
  <2>2. ~session'.deadline
    <3>1. DnLoad(n, h, dfu).s = h
      BY ClassRequests
    <3> QED BY <2>1, <3>1, AnswerIsHeard
  <2>3. \/ \E result : HostEnds(result)
        \/ host' = [host EXCEPT !.pc = "data", !.chunk = 0]
        \/ HostGoes("endStatus")
    BY <1>2 DEF HostDownloads, HostFinishes, Request
  <2>4. HostInv'
    <3>1. "data" \in HostPcs /\ "endStatus" \in HostPcs
      BY DEF HostPcs
    <3>2. host' = [host EXCEPT !.pc = "data", !.chunk = 0] => HostInv'
      BY <3>1, HostMoves
    <3> QED BY <2>3, <3>1, <3>2, HostGoesOn, HostIsDone
  <2> QED BY <1>w, <2>2, <2>4
<1>3. CASE HostPolls \/ HostReadsStatus
  <2>1. Answers(GetStatus(h, dfu))
    BY <1>3 DEF HostPolls, HostReadsStatus, Request
  <2>2. ~session'.deadline
    <3>1. GetStatus(h, dfu).s = h
      BY ClassRequests
    <3> QED BY <2>1, <3>1, AnswerIsHeard
  <2>3. HostInv'
    <3>1. CASE HostPolls
      <4>1. \/ \E result : HostEnds(result)
            \/ UNCHANGED host
            \/ \E pc \in {"download", "end"} : \E b :
                 host' = [host EXCEPT !.pc = pc, !.block = b]
        BY <3>1 DEF HostPolls, Request
      <4>2. ASSUME NEW pc \in {"download", "end"}, NEW b,
                   host' = [host EXCEPT !.pc = pc, !.block = b]
            PROVE  HostInv'
        <5>1. pc \in HostPcs
          BY DEF HostPcs
        <5> QED BY <4>2, <5>1, HostMoves
      <4>3. UNCHANGED host => HostInv'
        BY DEF HostInv, IsHost
      <4> QED BY <4>1, <4>2, <4>3, HostIsDone
    <3>2. CASE HostReadsStatus
      <4>1. \E result : HostEnds(result)
        BY <3>2 DEF HostReadsStatus, Request
      <4> QED BY <4>1, HostIsDone
    <3> QED BY <1>3, <3>1, <3>2
  <2> QED BY <1>w, <2>2, <2>3
<1>4. CASE HostUploads
  <2>1. Answers(UpLoad(h, dfu))
    BY <1>4 DEF HostUploads, Request
  <2>2. ~session'.deadline
    <3>1. UpLoad(h, dfu).s = h
      BY ClassRequests
    <3> QED BY <2>1, <3>1, AnswerIsHeard
  <2>3. \/ \E result : HostEnds(result)
        \/ \E got : host' = [host EXCEPT !.pc = "uploadStatus", !.got = got]
    BY <1>4 DEF HostUploads, Request
  <2>4. HostInv'
    <3>1. "uploadStatus" \in HostPcs
      BY DEF HostPcs
    <3> QED BY <2>3, <3>1, HostMoves, HostIsDone
  <2> QED BY <1>w, <2>2, <2>4
<1>5. CASE HostAsks \/ HostBegins \/ HostStops
  <2>1. HostInv' /\ host'.pc \in Waiting
    <3>1. CASE HostAsks
      <4>1. host.pc = "idle" /\ (UNCHANGED host \/ \E result : HostEnds(result))
        BY <3>1 DEF HostAsks, Request
      <4> QED BY <4>1, HostIsDone DEF HostInv, Waiting
    <3>2. CASE HostBegins
      BY <3>2 DEF HostBegins, Idle, HostInv, IsHost, HostPcs, Waiting
    <3>3. CASE HostStops
      BY <3>3, HostIsDone DEF HostStops
    <3> QED BY <1>5, <3>1, <3>2, <3>3
  <2> QED BY <1>w, <2>1
<1>6. CASE OtherRequest
  <2>1. Answers(Handled(session, dfu, Reply("ack", << >>)))
    BY <1>6 DEF OtherRequest, Request
  <2>2. session'.deadline = session.deadline
    BY <2>1, CompletedKeepsDeadline DEF Answers, Handled, Inv
  <2>3. UNCHANGED host
    BY <1>6 DEF OtherRequest, Request, Handled, Reply
  <2> QED BY <2>2, <2>3 DEF BusyIsNotCutOff, HostInv
<1>7. CASE ChunkArrives \/ ChunkIsSkipped
  <2>1. host.pc = "data"
    BY <1>7 DEF ChunkArrives, ChunkIsSkipped
  <2>2. session'.deadline = session.deadline
    <3>1. CASE ChunkIsSkipped
      BY <3>1 DEF ChunkIsSkipped
    <3>2. CASE ChunkArrives
      <4> DEFINE s == Copied(session, host.chunk, Chunk)
                 done == Completed(s, [dfu EXCEPT !.expected = 0], Last)
      <4>1. Safe(chip, s) /\ s.deadline = session.deadline
        BY UpdatesSafe, DataKeepsDeadline DEF Copied, Inv
      <4>2. done.s.deadline = session.deadline
        BY <4>1, CompletedKeepsDeadline
      <4>3. session' = done.s \/ session' = s
        BY <3>2 DEF ChunkArrives
      <4> HIDE DEF s, done
      <4> QED BY <4>1, <4>2, <4>3
    <3> QED BY <1>7, <3>1, <3>2
  <2>3. HostGoes("status") \/ \E c : host' = [host EXCEPT !.chunk = c]
    BY <1>7 DEF ChunkArrives, ChunkIsSkipped, HostSendsChunk
  <2>4. HostInv' /\ host'.reset = host.reset
    <3>1. "status" \in HostPcs
      BY DEF HostPcs
    <3> QED BY <2>3, <3>1, HostGoesOn, HostStays
  <2> QED BY <2>1, <2>2, <2>4 DEF BusyIsNotCutOff
<1>8. CASE HostReboots \/ Inactivity \/ PowerCut
  <2>1. (host.pc = "idle" /\ UNCHANGED host) \/ HostSeesReset
    BY <1>8 DEF HostReboots, Inactivity, PowerCut
  <2> QED BY <1>w, <2>1, ResetHost DEF HostInv, Waiting
<1>9. CASE WriteBreaksOff
  <2> DEFINE s == Filled(Copied(session, host.chunk, Chunk), Last)
  <2>1. CASE HostSeesReset
    BY <1>w, <2>1, ResetHost
  <2>2. CASE session' \in Stranded(s) /\ HostGoes("status")
    <3>1. Safe(chip, s) /\ s.deadline = session.deadline
      <4>1. /\ Safe(chip, Copied(session, host.chunk, Chunk))
            /\ Copied(session, host.chunk, Chunk).deadline = session.deadline
        BY UpdatesSafe, DataKeepsDeadline DEF Copied, Inv
      <4> QED BY <4>1, UpdatesSafe, DataKeepsDeadline DEF Filled
    <3>2. session'.deadline = session.deadline
      BY <2>2, <3>1, StrandedKeepsDeadline
    <3>3. HostInv' /\ host'.reset = host.reset /\ host.pc = "data"
      BY <1>9, <2>2, HostGoesOn DEF WriteBreaksOff, HostPcs
    <3> QED BY <3>2, <3>3 DEF BusyIsNotCutOff
  <2> QED BY <1>9, <2>1, <2>2 DEF WriteBreaksOff
<1> QED BY <1>1, <1>2, <1>3, <1>4, <1>5, <1>6, <1>7, <1>8, <1>9 DEF Next, Host

\* A host that has sent data is never cut off by the inactivity deadline, for
\* any data, timing and faults: only a reset sets the deadline again, and then
\* a host on USB gives up, and one on SPI is a host that was reset unnoticed.
THEOREM ActivityIsKept == Spec => []BusyIsNotCutOff
<1>1. Init => HostInv /\ BusyIsNotCutOff
  BY DEF Init, Idle, HostInv, IsHost, HostPcs, BusyIsNotCutOff
<1>2. Inv /\ HostInv /\ BusyIsNotCutOff /\ [Next]_vars => HostInv' /\ BusyIsNotCutOff'
  <2>1. ASSUME HostInv, BusyIsNotCutOff, UNCHANGED vars PROVE HostInv' /\ BusyIsNotCutOff'
    BY <2>1 DEF vars, HostInv, BusyIsNotCutOff
  <2> QED BY <2>1, DeadlineStep
<1> QED BY <1>1, <1>2, SessionIsSafe, PTL DEF Spec

-----------------------------------------------------------------------------
(***************************************************************************)
(* Types.  The length of a block and of a chunk come from the host, so the *)
(* type of the protocol's state rests on where the host is in its file.    *)
(***************************************************************************)

Errors == {"ok", "stalledPkt", "unknown", "address", "vendor"}

IsDfu(d) ==
  /\ d = [state |-> d.state, error |-> d.error, allow |-> d.allow,
          interface |-> d.interface, expected |-> d.expected]
  /\ d.state \in States /\ d.error \in Errors /\ d.allow \subseteq {"upload", "download"}
  /\ d.expected \in 0..BlockUnits

Downloading == {"download", "data", "status", "end", "endStatus"}

\* A host that sends is within its file, and within the block.
WithinFile ==
  /\ host.op = "send" =>
       /\ host.file \in Files /\ host.block \in Nat
       /\ host.block * BlockUnits < FileUnits[host.file]
  /\ host.pc \in Downloading => host.op = "send"
  /\ host.pc = "data" => host.chunk \in Nat /\ First < BlockLength

TInv ==
  /\ chip \in Setups /\ transport \in Transports
  /\ session \in Sessions /\ store \in Stores /\ IsDfu(dfu)
  /\ HostInv /\ WithinFile

LEMMA MinOfTwo ==
  ASSUME NEW a \in Int, NEW b \in Int
  PROVE  Min({a, b}) = IF a <= b THEN a ELSE b
<1>1. ASSUME NEW m \in {a, b}, \A y \in {a, b} : m <= y
      PROVE  m = IF a <= b THEN a ELSE b
  BY <1>1
<1>2. \E m \in {a, b} : \A y \in {a, b} : m <= y
  OBVIOUS
<1>3. Min({a, b}) \in {a, b} /\ \A y \in {a, b} : Min({a, b}) <= y
  BY <1>2 DEF Min
<1> QED
  BY <1>1, <1>3

LEMMA LengthOfBlock ==
  ASSUME host.file \in Files, host.block \in Nat,
         host.block * BlockUnits < FileUnits[host.file]
  PROVE  /\ BlockLength \in 1..BlockUnits
         /\ BlockLength = BlockUnits \/ BlockLength = FileUnits[host.file] - host.block * BlockUnits
         /\ BlockLength <= FileUnits[host.file] - host.block * BlockUnits
<1>1. BlockUnits \in Nat \ {0} /\ FileUnits[host.file] \in Nat
  BY RescueAssumption
<1>2. host.block * BlockUnits \in Nat
  BY <1>1
<1> QED
  BY <1>1, <1>2, MinOfTwo DEF BlockLength

LEMMA LengthOfChunk ==
  ASSUME WithinFile, host.pc = "data"
  PROVE  /\ BlockLength \in 1..BlockUnits /\ First \in Nat /\ ChunkUnits \in Nat \ {0}
         /\ Last = IF First + ChunkUnits <= BlockLength THEN First + ChunkUnits
                   ELSE BlockLength
         /\ Last - First \in 1..ChunkUnits
         /\ Last <= BlockLength
         /\ Chunk \in Seq(Units) /\ Len(Chunk) = Last - First
         /\ Last < BlockLength => (host.chunk + 1) * ChunkUnits = Last
<1>1. ChunkUnits \in Nat \ {0} /\ BlockUnits \in Nat
  BY DfuAssumption, RescueAssumption
<1>2. BlockLength \in 1..BlockUnits
  BY LengthOfBlock DEF WithinFile, Downloading
<1>3. First \in Nat /\ First < BlockLength
  BY <1>1 DEF WithinFile, First
<1>4. Last = IF First + ChunkUnits <= BlockLength THEN First + ChunkUnits ELSE BlockLength
  BY <1>1, <1>2, <1>3, MinOfTwo DEF Last
<1>5. Last - First \in 1..ChunkUnits /\ Last <= BlockLength
  BY <1>1, <1>2, <1>3, <1>4
<1>6. Chunk \in [1..(Last - First) -> Units]
  <2>1. host.file \in Files /\ host.block * BlockUnits \in Nat
    BY <1>1 DEF WithinFile, Downloading
  <2>2. ASSUME NEW i \in 1..(Last - First)
        PROVE  FileUnit(host.file, host.block * BlockUnits + First + i) \in Units
    BY <1>3, <1>5, <2>1, UnitTyped
  <2> QED
    BY <2>2 DEF Chunk
<1>7. Chunk \in Seq(Units) /\ Len(Chunk) = Last - First
  BY <1>5, <1>6, FunctionLength
<1>8. Last < BlockLength => (host.chunk + 1) * ChunkUnits = Last
  BY <1>1, <1>2, <1>3, <1>4 DEF First, WithinFile
<1> QED
  BY <1>1, <1>2, <1>3, <1>4, <1>5, <1>7, <1>8

LEMMA UpdatesTyped ==
  ASSUME NEW s \in Sessions
  PROVE  /\ [s EXCEPT !.deadline = FALSE] \in Sessions
         /\ [s EXCEPT !.staged = 0] \in Sessions
         /\ \A d \in FullPages : [s EXCEPT !.data = d] \in Sessions
         /\ \A d \in FullPages : [s EXCEPT !.offset = BlockUnits, !.data = d] \in Sessions
<1>1. 0 \in 0..BlockUnits /\ BlockUnits \in 0..BlockUnits
  BY RescueAssumption
<1>2. [s EXCEPT !.deadline = FALSE] \in Sessions
  BY DEF Sessions
<1>3. [s EXCEPT !.staged = 0] \in Sessions
  BY <1>1 DEF Sessions
<1>4. ASSUME NEW d \in FullPages
      PROVE  /\ [s EXCEPT !.data = d] \in Sessions
             /\ [s EXCEPT !.offset = BlockUnits, !.data = d] \in Sessions
  <2>1. d \in Buffers
    BY PageTyped
  <2> QED
    BY <1>1, <2>1 DEF Sessions
<1> QED
  BY <1>2, <1>3, <1>4

LEMMA DataTyped ==
  ASSUME NEW s \in Sessions
  PROVE  /\ \A c \in Nat, chunk \in Seq(Units) : Copied(s, c, chunk) \in Sessions
         /\ \A n \in Nat : Filled(s, n) \in Sessions /\ Filling(Filled(s, n))
<1>1. s.data \in Seq(Units)
  BY DEF Sessions, Buffers
<1>2. ASSUME NEW i \in 1..BlockUnits PROVE Unit(s.data, i) \in Units
  BY <1>1, UnitTyped, ElementOfSeq, LenProperties DEF Unit
<1>3. ASSUME NEW c \in Nat, NEW chunk \in Seq(Units)
      PROVE  Copied(s, c, chunk) \in Sessions
  <2> DEFINE data == [i \in 1..BlockUnits |->
                        IF i - c * ChunkUnits \in 1..Len(chunk) THEN chunk[i - c * ChunkUnits]
                        ELSE Unit(s.data, i)]
  <2>1. data \in FullPages
    <3>1. \A j \in 1..Len(chunk) : chunk[j] \in Units
      BY ElementOfSeq
    <3> QED
      BY <1>2, <3>1 DEF FullPages
  <2>2. Copied(s, c, chunk) = [s EXCEPT !.data = data]
    BY DEF Copied
  <2> HIDE DEF data
  <2> QED
    BY <2>1, <2>2, UpdatesTyped
<1>4. ASSUME NEW n \in Nat PROVE Filled(s, n) \in Sessions /\ Filling(Filled(s, n))
  <2> DEFINE data == [i \in 1..BlockUnits |-> IF i <= n THEN Unit(s.data, i) ELSE FF]
  <2>1. data \in FullPages
    BY <1>2, UnitTyped DEF FullPages
  <2>2. Filled(s, n) = [s EXCEPT !.offset = BlockUnits, !.data = data]
    BY DEF Filled
  <2>3. Filled(s, n).offset = BlockUnits /\ Filled(s, n).data = data
    BY <2>2 DEF Sessions
  <2>4. Len(data) = BlockUnits
    BY <2>1, PageTyped
  <2> HIDE DEF data
  <2>5. Filled(s, n) \in Sessions
    BY <2>1, <2>2, UpdatesTyped
  <2> QED
    BY <2>3, <2>4, <2>5, RescueAssumption DEF Filling
<1> QED
  BY <1>3, <1>4

LEMMA SetModeTyped ==
  ASSUME store \in Stores, NEW s \in Sessions, NEW setting
  PROVE  SetMode(setting, s) \in Sessions
<1>1. ASSUME NEW mode PROVE Staged(mode, s) \in Sessions
  <2>1. ValidateMode(chip, mode, s) \in Sessions
    BY ValidateModeTyped
  <2>2. SendHandler(chip, ValidateMode(chip, mode, s), store).s \in Sessions
    BY <2>1, SendHandlerTyped
  <2> QED
    BY <2>1, <2>2 DEF Staged
<1>2. ASSUME NEW mode, NEW t \in Sessions PROVE ValidateMode(chip, mode, t) \in Sessions
  BY ValidateModeTyped
<1> QED
  BY <1>1, <1>2 DEF SetMode

LEMMA FreshTyped ==
  ASSUME chip \in Setups, store \in Stores
  PROVE  FreshSession \in Sessions /\ IsDfu(FreshDfu)
         /\ IsDfu([FreshDfu EXCEPT !.allow = Allowed(1)])
<1>1. chip \in Chips
  BY DfuAssumption
<1>2. FreshSession \in Sessions
  BY <1>1, SessionInitTyped, SetModeTyped DEF FreshSession
<1>3. Allowed(1) \subseteq {"upload", "download"}
  BY DEF Allowed, Allows
<1>4. IsDfu(FreshDfu) /\ IsDfu([FreshDfu EXCEPT !.allow = Allowed(1)])
  <2> HIDE DEF Allowed
  <2> QED
    BY <1>3, RescueAssumption DEF FreshDfu, IsDfu, States, Errors
<1> QED
  BY <1>2, <1>4

\* The DFU context that each request leaves
LEMMA DfuMoves ==
  ASSUME NEW d, IsDfu(d)
  PROVE  /\ \A state \in States : IsDfu([d EXCEPT !.state = state])
         /\ \A error \in Errors : IsDfu([d EXCEPT !.error = error])
         /\ \A state \in States : \A error \in Errors :
              IsDfu([d EXCEPT !.state = state, !.error = error])
         /\ \A state \in States : \A n \in 0..BlockUnits :
              IsDfu([d EXCEPT !.state = state, !.expected = n])
         /\ IsDfu([d EXCEPT !.expected = 0])
         /\ \A allow \in SUBSET {"upload", "download"} :
              /\ IsDfu([d EXCEPT !.allow = allow])
              /\ \A i : IsDfu([d EXCEPT !.allow = allow, !.interface = i])
<1>1. ASSUME NEW state \in States, NEW error \in Errors,
             NEW allow \in SUBSET {"upload", "download"}, NEW i, NEW n \in 0..BlockUnits
      PROVE  IsDfu([state |-> state, error |-> error, allow |-> allow,
                    interface |-> i, expected |-> n])
  BY DEF IsDfu
<1>2. /\ d.state \in States /\ d.error \in Errors /\ d.expected \in 0..BlockUnits
      /\ d.allow \in SUBSET {"upload", "download"} /\ 0 \in 0..BlockUnits
  BY RescueAssumption DEF IsDfu
<1>3. d = [state |-> d.state, error |-> d.error, allow |-> d.allow,
           interface |-> d.interface, expected |-> d.expected]
  BY DEF IsDfu
<1>4. ASSUME NEW state \in States PROVE IsDfu([d EXCEPT !.state = state])
  <2>1. [d EXCEPT !.state = state] =
          [state |-> state, error |-> d.error, allow |-> d.allow,
           interface |-> d.interface, expected |-> d.expected]
    BY <1>3
  <2> QED
    BY <1>1, <1>2, <2>1
<1>5. ASSUME NEW error \in Errors PROVE IsDfu([d EXCEPT !.error = error])
  <2>1. [d EXCEPT !.error = error] =
          [state |-> d.state, error |-> error, allow |-> d.allow,
           interface |-> d.interface, expected |-> d.expected]
    BY <1>3
  <2> QED
    BY <1>1, <1>2, <2>1
<1>6. ASSUME NEW state \in States, NEW error \in Errors
      PROVE  IsDfu([d EXCEPT !.state = state, !.error = error])
  <2>1. ASSUME NEW t, t = [d EXCEPT !.state = state, !.error = error]
        PROVE  t = [state |-> state, error |-> error, allow |-> d.allow,
               interface |-> d.interface, expected |-> d.expected]
    BY <1>3, <2>1
  <2> QED
    BY <1>1, <1>2, <2>1
<1>7. ASSUME NEW state \in States, NEW n \in 0..BlockUnits
      PROVE  IsDfu([d EXCEPT !.state = state, !.expected = n])
  <2>1. ASSUME NEW t, t = [d EXCEPT !.state = state, !.expected = n]
        PROVE  t = [state |-> state, error |-> d.error, allow |-> d.allow,
               interface |-> d.interface, expected |-> n]
    BY <1>3, <2>1
  <2> QED
    BY <1>1, <1>2, <2>1
<1>8. IsDfu([d EXCEPT !.expected = 0])
  <2>1. [d EXCEPT !.expected = 0] =
          [state |-> d.state, error |-> d.error, allow |-> d.allow,
           interface |-> d.interface, expected |-> 0]
    BY <1>3
  <2> QED
    BY <1>1, <1>2, <2>1
<1>9. ASSUME NEW allow \in SUBSET {"upload", "download"}
      PROVE  IsDfu([d EXCEPT !.allow = allow])
  <2>1. [d EXCEPT !.allow = allow] =
          [state |-> d.state, error |-> d.error, allow |-> allow,
           interface |-> d.interface, expected |-> d.expected]
    BY <1>3
  <2> QED
    BY <1>1, <1>2, <2>1
<1>10. ASSUME NEW allow \in SUBSET {"upload", "download"}, NEW i
       PROVE  IsDfu([d EXCEPT !.allow = allow, !.interface = i])
  <2>1. ASSUME NEW t, t = [d EXCEPT !.allow = allow, !.interface = i]
        PROVE  t = [state |-> d.state, error |-> d.error, allow |-> allow,
               interface |-> i, expected |-> d.expected]
    BY <1>3, <2>1
  <2> QED
    BY <1>1, <1>2, <2>1
<1> QED
  BY <1>4, <1>5, <1>6, <1>7, <1>8, <1>9, <1>10

LEMMA ClassRequestsTyped ==
  ASSUME NEW s, NEW d, IsDfu(d)
  PROVE  /\ \A length \in 0..BlockUnits : IsDfu(DnLoad(length, s, d).d)
         /\ IsDfu(UpLoad(s, d).d) /\ IsDfu(GetStatus(s, d).d) /\ IsDfu(GetState(s, d).d)
         /\ IsDfu(ClrStatus(s, d).d) /\ IsDfu(Abort(s, d).d)
<1>1. d.state \in States
  BY DEF IsDfu
<1>2. \A error \in Errors : IsDfu(Fails(s, d, error).d)
  BY DfuMoves DEF Fails, Handled, States
<1>3. {"stalledPkt", "unknown", "address", "ok"} \subseteq Errors
  BY DEF Errors
<1>4. ASSUME NEW length \in 0..BlockUnits PROVE IsDfu(DnLoad(length, s, d).d)
  <2>1. "dnLoadSync" \in States /\ "error" \in States /\ "manifestSync" \in States
    BY DEF States
  <2>2. /\ IsDfu([d EXCEPT !.state = "dnLoadSync", !.expected = length])
        /\ IsDfu([d EXCEPT !.state = IF d.state = "idle" THEN "error" ELSE "manifestSync"])
    BY <2>1, DfuMoves
  <2> QED
    BY <1>2, <1>3, <2>2 DEF DnLoad, Handled
<1>5. IsDfu(UpLoad(s, d).d)
  <2>1. IsDfu([d EXCEPT !.state = "upLoadIdle"])
    BY DfuMoves DEF States
  <2> QED
    BY <1>2, <1>3, <2>1 DEF UpLoad, Handled
<1>6. IsDfu(GetStatus(s, d).d)
  <2>1. StateAfterStatus(d.state) \in States
    BY <1>1 DEF StateAfterStatus, States
  <2> QED
    BY <2>1, DfuMoves DEF GetStatus, Handled
<1>7. IsDfu(GetState(s, d).d)
  <2> DEFINE state == CASE d.state = "idle" -> "upLoadIdle"
                        [] d.state = "dnLoadSync" -> "dnLoadIdle"
                        [] OTHER -> d.state
  <2>1. state \in States
    BY <1>1 DEF States
  <2>2. GetState(s, d).d = [d EXCEPT !.state = state]
    BY DEF GetState, Handled
  <2> HIDE DEF state
  <2>3. IsDfu([d EXCEPT !.state = state])
    BY <2>1, DfuMoves
  <2> QED
    BY <2>2, <2>3
<1>8. IsDfu(ClrStatus(s, d).d)
  <2>1. /\ IsDfu([d EXCEPT !.state = "idle", !.error = "ok"])
        /\ IsDfu([d EXCEPT !.error = "stalledPkt"])
    BY <1>3, DfuMoves DEF States
  <2> QED
    BY <1>2, <1>3, <2>1 DEF ClrStatus, Handled
<1>9. IsDfu(Abort(s, d).d)
  <2>1. IsDfu([d EXCEPT !.state = "idle"])
    BY DfuMoves DEF States
  <2> QED
    BY <1>2, <1>3, <2>1 DEF Abort, Handled
<1> QED
  BY <1>4, <1>5, <1>6, <1>7, <1>8, <1>9

LEMMA SetRequestsTyped ==
  ASSUME store \in Stores, NEW s \in Sessions, NEW d, IsDfu(d), NEW setting
  PROVE  /\ SetInterface(setting, s, d).s \in Sessions /\ IsDfu(SetInterface(setting, s, d).d)
         /\ VendorSetMode(setting, s, d).s \in Sessions /\ IsDfu(VendorSetMode(setting, s, d).d)
<1>1. Allowed(setting) \in SUBSET {"upload", "download"}
  BY DEF Allowed, Allows
<1>2. /\ IsDfu([d EXCEPT !.allow = Allowed(setting), !.interface = setting])
      /\ IsDfu([d EXCEPT !.allow = Allowed(setting)])
  <2> HIDE DEF Allowed
  <2> QED
    BY <1>1, DfuMoves
<1>3. SetInterface(setting, s, d).s \in Sessions /\ IsDfu(SetInterface(setting, s, d).d)
  <2> DEFINE t == SetMode(setting, s)
  <2>1. t \in Sessions /\ [t EXCEPT !.deadline = FALSE] \in Sessions
    <3>1. t \in Sessions
      BY SetModeTyped
    <3> HIDE DEF t
    <3> QED
      BY <3>1, UpdatesTyped
  <2>2. /\ SetInterface(setting, s, d).s \in {t, [t EXCEPT !.deadline = FALSE]}
        /\ SetInterface(setting, s, d).d \in
             {d, [d EXCEPT !.allow = Allowed(setting), !.interface = setting]}
    BY DEF SetInterface, Handled
  <2> HIDE DEF t
  <2> QED
    BY <1>2, <2>1, <2>2
<1>4. VendorSetMode(setting, s, d).s \in Sessions /\ IsDfu(VendorSetMode(setting, s, d).d)
  <2>1. [s EXCEPT !.deadline = FALSE] \in Sessions
    BY UpdatesTyped
  <2>2. SetMode(setting, [s EXCEPT !.deadline = FALSE]) \in Sessions
    BY <2>1, SetModeTyped
  <2>3. /\ VendorSetMode(setting, s, d).s = SetMode(setting, [s EXCEPT !.deadline = FALSE])
        /\ VendorSetMode(setting, s, d).d \in {d, [d EXCEPT !.allow = Allowed(setting)]}
    BY DEF VendorSetMode, Handled
  <2> QED
    BY <1>2, <2>2, <2>3
<1> QED
  BY <1>3, <1>4

LEMMA CompletedTyped ==
  ASSUME store \in Stores, NEW s \in Sessions, NEW d, IsDfu(d), NEW length \in Nat
  PROVE  LET done == Completed(s, d, length)
         IN  done.s \in Sessions /\ done.st \in Stores /\ IsDfu(done.d)
<1> DEFINE done == Completed(s, d, length)
           r == RecvHandler(chip, Filled(s, length), store)
<1> SUFFICES done.s \in Sessions /\ done.st \in Stores /\ IsDfu(done.d)
  OBVIOUS
<1>1. Filled(s, length) \in Sessions /\ Filling(Filled(s, length))
  BY DataTyped
<1>2. r.s \in Sessions /\ r.st \in Stores
  BY <1>1, RecvHandlerTyped DEF Typed
<1>3. [s EXCEPT !.staged = 0] \in Sessions
  BY UpdatesTyped
<1>4. /\ \A error \in {"ok", "vendor"} :
           IsDfu([d EXCEPT !.state = "dnLoadIdle", !.error = error])
      /\ IsDfu([d EXCEPT !.state = "idle"])
  BY DfuMoves DEF States, Errors
<1>5. CASE d.state = "dnLoadSync"
  <2>1. /\ done.s = r.s /\ done.st = r.st
        /\ done.d = [d EXCEPT !.state = "dnLoadIdle",
                              !.error = IF r.err = "ok" THEN "ok" ELSE "vendor"]
    BY <1>5 DEF Completed
  <2> HIDE DEF done, r
  <2> QED
    BY <1>2, <1>4, <2>1
<1>6. CASE d.state /= "dnLoadSync"
  <2>1. /\ done.s \in {s, [s EXCEPT !.staged = 0]} /\ done.st = store
        /\ done.d \in {d, [d EXCEPT !.state = "idle"]}
    BY <1>6 DEF Completed
  <2> HIDE DEF done
  <2> QED
    BY <1>3, <1>4, <2>1
<1> QED
  BY <1>5, <1>6

LEMMA RequestTyped ==
  ASSUME store \in Stores, NEW r, r.s \in Sessions, IsDfu(r.d),
         r.reply.k = "in" => Len(r.reply.data) \in Nat, Answers(r)
  PROVE  session' \in Sessions /\ store' \in Stores /\ IsDfu(dfu')
<1> DEFINE length == IF r.reply.k = "in" THEN Len(r.reply.data) ELSE 0
           done == Completed(r.s, r.d, length)
<1>1. length \in Nat
  OBVIOUS
<1>2. done.s \in Sessions /\ done.st \in Stores /\ IsDfu(done.d)
  BY <1>1, CompletedTyped
<1>3. \/ session' = done.s /\ dfu' = done.d /\ store' = done.st
      \/ session' = r.s /\ dfu' = r.d /\ store' = store
  BY DEF Answers
<1> HIDE DEF done
<1> QED
  BY <1>2, <1>3

LEMMA StrandedTyped ==
  ASSUME NEW s \in Sessions, NEW t \in Stranded(s)
  PROVE  t \in Sessions
<1>1. FlashBegin(chip, s) \in {0, FlashStart} /\ FlashOffset(s) \in 0..FlashLimit
  BY FlashBeginTyped
<1>2. ASSUME NEW n \in 0..FlashLimit, NEW b \in {0, FlashStart}
      PROVE  [s EXCEPT !.flashOffset = n, !.flashBegin = b] \in Sessions
  BY DEF Sessions
<1>3. \/ t = s
      \/ \E n \in {s.flashOffset, FlashOffset(s)} :
           t = [s EXCEPT !.flashOffset = n, !.flashBegin = FlashBegin(chip, s)]
  BY DEF Stranded
<1>4. s.flashOffset \in 0..FlashLimit
  BY DEF Sessions
<1> QED
  BY <1>1, <1>2, <1>3, <1>4

\* Where the host is when it is not in a transfer
LEMMA HostWithin ==
  ASSUME HostInv, WithinFile
  PROVE  /\ \A result : HostEnds(result) => HostInv' /\ WithinFile'
         /\ HostSeesReset => HostInv' /\ WithinFile'
         /\ UNCHANGED host => HostInv' /\ WithinFile'
         /\ \A pc \in {"status", "endStatus"} :
              host.pc \in Downloading /\ HostGoes(pc) => HostInv' /\ WithinFile'
<1>1. UNCHANGED host => HostInv' /\ WithinFile'
  BY DEF HostInv, WithinFile, IsHost, First, BlockLength
<1>2. ASSUME NEW t, IsHost(t), t.pc \in HostPcs \ {"data"}, host' = t,
             t.op = host.op, t.file = host.file, t.block = host.block,
             t.pc \in Downloading => host.pc \in Downloading
      PROVE  HostInv' /\ WithinFile'
  BY <1>2 DEF HostInv, WithinFile
<1>3. ASSUME NEW result, HostEnds(result) PROVE HostInv' /\ WithinFile'
  <2>1. host' = [pc |-> "idle", op |-> host.op, mode |-> host.mode, file |-> host.file,
                 block |-> host.block, chunk |-> host.chunk, got |-> host.got,
                 result |-> result, reset |-> host.reset]
    BY <1>3 DEF HostEnds, HostInv, IsHost
  <2> QED
    BY <2>1, <1>2 DEF IsHost, HostPcs, Downloading
<1>4. ASSUME HostSeesReset PROVE HostInv' /\ WithinFile'
  <2>1. CASE host.pc = "idle"
    BY <1>1, <1>4, <2>1 DEF HostSeesReset
  <2>2. CASE host.pc /= "idle" /\ transport = "usb"
    <3>1. HostEnds("failed")
      BY <1>4, <2>2 DEF HostSeesReset, HostEnds
    <3> QED
      BY <1>3, <3>1
  <2>3. CASE host.pc /= "idle" /\ transport /= "usb"
    <3>1. host' = [host EXCEPT !.reset = TRUE]
      BY <1>4, <2>3 DEF HostSeesReset
    <3>2. host' = [pc |-> host.pc, op |-> host.op, mode |-> host.mode, file |-> host.file,
                   block |-> host.block, chunk |-> host.chunk, got |-> host.got,
                   result |-> host.result, reset |-> TRUE]
      BY <3>1 DEF HostInv, IsHost
    <3> QED
      BY <3>2 DEF HostInv, IsHost, WithinFile, First, BlockLength
  <2> QED
    BY <2>1, <2>2, <2>3
<1>5. ASSUME NEW pc \in {"status", "endStatus"}, host.pc \in Downloading, HostGoes(pc)
      PROVE  HostInv' /\ WithinFile'
  <2>1. host' = [pc |-> pc, op |-> host.op, mode |-> host.mode, file |-> host.file,
                 block |-> host.block, chunk |-> host.chunk, got |-> host.got,
                 result |-> host.result, reset |-> host.reset]
    BY <1>5 DEF HostGoes, HostInv, IsHost
  <2> QED
    BY <1>5, <2>1, <1>2 DEF IsHost, HostPcs
<1> QED
  BY <1>1, <1>3, <1>4, <1>5

\* Where the host is after each step of its operation
LEMMA HostBeginsWithin ==
  ASSUME HostBegins
  PROVE  HostInv' /\ WithinFile'
<1>1. CASE \E x \in Sends :
             host' = [Idle EXCEPT !.pc = "mode", !.op = "send", !.mode = x.mode, !.file = x.file]
  <2>1. PICK x \in Sends :
          host' = [Idle EXCEPT !.pc = "mode", !.op = "send", !.mode = x.mode, !.file = x.file]
    BY <1>1
  <2>2. x.file \in Files /\ FileUnits[x.file] \in Nat \ {0} /\ BlockUnits \in Nat
    BY DfuAssumption, RescueAssumption
  <2>3. host' = [pc |-> "mode", op |-> "send", mode |-> x.mode, file |-> x.file,
                 block |-> 0, chunk |-> 0, got |-> << >>, result |-> "none", reset |-> FALSE]
    BY <2>1 DEF Idle
  <2> QED
    BY <2>2, <2>3 DEF HostInv, IsHost, HostPcs, WithinFile, Downloading
<1>2. CASE \E mode \in Reads :
             host' = [Idle EXCEPT !.pc = "mode", !.op = "recv", !.mode = mode]
  <2>1. PICK mode \in Reads :
          host' = [Idle EXCEPT !.pc = "mode", !.op = "recv", !.mode = mode]
    BY <1>2
  <2>2. host' = [pc |-> "mode", op |-> "recv", mode |-> mode, file |-> "none",
                 block |-> 0, chunk |-> 0, got |-> << >>, result |-> "none", reset |-> FALSE]
    BY <2>1 DEF Idle
  <2> QED
    BY <2>2 DEF HostInv, IsHost, HostPcs, WithinFile, Downloading
<1> QED
  BY <1>1, <1>2 DEF HostBegins

LEMMA HostGoesWithin ==
  ASSUME HostInv, WithinFile
  PROVE  /\ host.pc = "mode" /\ HostGoes(IF host.op = "send" THEN "download" ELSE "upload") =>
              HostInv' /\ WithinFile'
         /\ host.pc = "download" /\ host' = [host EXCEPT !.pc = "data", !.chunk = 0] =>
              HostInv' /\ WithinFile'
         /\ host.pc = "data" /\ HostSendsChunk => HostInv' /\ WithinFile'
         /\ \A got : host' = [host EXCEPT !.pc = "uploadStatus", !.got = got] =>
                       HostInv' /\ WithinFile'
<1>1. ASSUME host.pc = "mode", HostGoes(IF host.op = "send" THEN "download" ELSE "upload")
      PROVE  HostInv' /\ WithinFile'
  <2>1. host' = [pc |-> IF host.op = "send" THEN "download" ELSE "upload", op |-> host.op,
                 mode |-> host.mode, file |-> host.file,
                 block |-> host.block, chunk |-> host.chunk, got |-> host.got,
                 result |-> host.result, reset |-> host.reset]
    BY <1>1 DEF HostGoes, HostInv, IsHost
  <2> QED
    BY <2>1 DEF HostInv, IsHost, HostPcs, WithinFile, Downloading
<1>2. ASSUME host.pc = "download", host' = [host EXCEPT !.pc = "data", !.chunk = 0]
      PROVE  HostInv' /\ WithinFile'
  <2>1. host' = [pc |-> "data", op |-> host.op, mode |-> host.mode, file |-> host.file,
                 block |-> host.block, chunk |-> 0, got |-> host.got,
                 result |-> host.result, reset |-> host.reset]
    BY <1>2 DEF HostInv, IsHost
  <2>2. host.op = "send"
    BY <1>2 DEF WithinFile, Downloading
  <2>3. BlockLength \in 1..BlockUnits /\ BlockLength' = BlockLength
    BY <2>1, <2>2, LengthOfBlock DEF WithinFile, BlockLength
  <2>4. First' = 0
    BY <2>1, DfuAssumption DEF First
  <2> QED
    BY <2>1, <2>2, <2>3, <2>4 DEF HostInv, IsHost, HostPcs, WithinFile
<1>3. ASSUME host.pc = "data", HostSendsChunk
      PROVE  HostInv' /\ WithinFile'
  <2>1. CASE Last < BlockLength
    <3>1. host' = [pc |-> "data", op |-> host.op, mode |-> host.mode, file |-> host.file,
                   block |-> host.block, chunk |-> host.chunk + 1, got |-> host.got,
                   result |-> host.result, reset |-> host.reset]
      BY <1>3, <2>1 DEF HostSendsChunk, HostInv, IsHost
    <3>2. host.op = "send" /\ host.chunk \in Nat
      BY <1>3 DEF WithinFile, Downloading
    <3>3. First' = Last /\ BlockLength' = BlockLength
      BY <1>3, <2>1, <3>1, LengthOfChunk DEF First, BlockLength
    <3> QED
      BY <2>1, <3>1, <3>2, <3>3 DEF HostInv, IsHost, HostPcs, WithinFile
  <2>2. CASE ~ (Last < BlockLength)
    BY <1>3, <2>2, HostWithin DEF HostSendsChunk, Downloading
  <2> QED
    BY <2>1, <2>2
<1>4. ASSUME NEW got, host' = [host EXCEPT !.pc = "uploadStatus", !.got = got]
      PROVE  HostInv' /\ WithinFile'
  <2>1. host' = [pc |-> "uploadStatus", op |-> host.op, mode |-> host.mode, file |-> host.file,
                 block |-> host.block, chunk |-> host.chunk, got |-> got,
                 result |-> host.result, reset |-> host.reset]
    BY <1>4 DEF HostInv, IsHost
  <2> QED
    BY <2>1 DEF HostInv, IsHost, HostPcs, WithinFile, Downloading
<1> QED
  BY <1>1, <1>2, <1>3, <1>4

LEMMA HostPollsWithin ==
  ASSUME HostInv, WithinFile, HostPolls
  PROVE  HostInv' /\ WithinFile'
<1> DEFINE more == (host.block + 1) * BlockUnits < FileUnits[host.file]
<1>1. \/ \E result : HostEnds(result)
      \/ UNCHANGED host
      \/ host' = [host EXCEPT !.pc = IF more THEN "download" ELSE "end",
                              !.block = IF more THEN @ + 1 ELSE @]
  BY DEF HostPolls, Request
<1>2. ASSUME host' = [host EXCEPT !.pc = IF more THEN "download" ELSE "end",
                                  !.block = IF more THEN @ + 1 ELSE @]
      PROVE  HostInv' /\ WithinFile'
  <2>1. ASSUME NEW pc, NEW b, host' = [host EXCEPT !.pc = pc, !.block = b]
        PROVE  host' = [pc |-> pc, op |-> host.op, mode |-> host.mode, file |-> host.file,
                        block |-> b, chunk |-> host.chunk, got |-> host.got,
                        result |-> host.result, reset |-> host.reset]
    BY <2>1 DEF HostInv, IsHost
  <2>2. host.op = "send" /\ host.block \in Nat
    BY DEF HostPolls, WithinFile, Downloading
  <2>3. CASE more
    <3>1. host' = [host EXCEPT !.pc = "download", !.block = host.block + 1]
      BY <1>2, <2>3
    <3>2. host' = [pc |-> "download", op |-> host.op, mode |-> host.mode, file |-> host.file,
                   block |-> host.block + 1, chunk |-> host.chunk, got |-> host.got,
                   result |-> host.result, reset |-> host.reset]
      BY <2>1, <3>1
    <3> QED
      BY <2>2, <2>3, <3>2 DEF HostInv, IsHost, HostPcs, WithinFile
  <2>4. CASE ~ more
    <3>1. host' = [host EXCEPT !.pc = "end", !.block = host.block]
      BY <1>2, <2>4
    <3>2. host' = [pc |-> "end", op |-> host.op, mode |-> host.mode, file |-> host.file,
                   block |-> host.block, chunk |-> host.chunk, got |-> host.got,
                   result |-> host.result, reset |-> host.reset]
      BY <2>1, <3>1
    <3> QED
      BY <2>2, <3>2 DEF HostInv, IsHost, HostPcs, WithinFile
  <2> QED
    BY <2>3, <2>4
<1> QED
  BY <1>1, <1>2, HostWithin

\* The chip starts over.
LEMMA BootTyped ==
  ASSUME chip \in Setups, store \in Stores, Boot
  PROVE  session' \in Sessions /\ IsDfu(dfu')
BY FreshTyped DEF Boot

LEMMA TypeStep ==
  ASSUME TInv, Next
  PROVE  TInv'
<1> USE DEF TInv
<1> DEFINE h == Heard(session)
<1>h. h \in Sessions
  BY UpdatesTyped DEF Heard
<1>c. chip' = chip /\ transport' = transport
  BY DEF Next, Host, HostBegins, HostSetsMode, HostDownloads, ChunkArrives, ChunkIsSkipped,
         HostPolls, HostFinishes, HostUploads, HostReadsStatus, HostStops, HostAsks,
         OtherRequest, HostReboots, Inactivity, PowerCut, WriteBreaksOff, Request
<1>w. ASSUME session' \in Sessions, store' \in Stores, IsDfu(dfu'), HostInv', WithinFile'
      PROVE  TInv'
  BY <1>c, <1>w
<1>a. ASSUME NEW r, r.s = h, IsDfu(r.d), r.reply.k # "in", Answers(r)
      PROVE  session' \in Sessions /\ store' \in Stores /\ IsDfu(dfu')
  BY <1>h, <1>a, RequestTyped
<1> HIDE DEF h
<1>1. CASE HostSetsMode
  <2> DEFINE r == IF transport = "usb" THEN SetInterface(SettingOf(host.mode), session, dfu)
                  ELSE VendorSetMode(SettingOf(host.mode), session, dfu)
  <2>1. r.s \in Sessions /\ IsDfu(r.d)
    BY SetRequestsTyped
  <2>2. r.reply.k # "in"
    BY DEF SetInterface, VendorSetMode, Handled, Reply
  <2>3. Answers(r)
    BY <1>1 DEF HostSetsMode, Request
  <2>4. \/ HostEnds("failed")
        \/ host.pc = "mode" /\ HostGoes(IF host.op = "send" THEN "download" ELSE "upload")
    BY <1>1 DEF HostSetsMode, Request
  <2> HIDE DEF r
  <2>5. session' \in Sessions /\ store' \in Stores /\ IsDfu(dfu')
    BY <2>1, <2>2, <2>3, RequestTyped
  <2> QED
    BY <1>w, <2>4, <2>5, HostWithin, HostGoesWithin
<1>2. CASE HostDownloads \/ HostFinishes
  <2>1. PICK n \in 0..BlockUnits : Answers(DnLoad(n, h, dfu))
    <3>1. CASE HostDownloads
      <4>1. BlockLength \in 1..BlockUnits
        BY <3>1, LengthOfBlock DEF HostDownloads, WithinFile, Downloading
      <4>2. BlockLength \in 0..BlockUnits
        BY <4>1, RescueAssumption
      <4> QED
        BY <3>1, <4>2 DEF HostDownloads, Request, h
    <3>2. CASE HostFinishes
      BY <3>2, RescueAssumption DEF HostFinishes, Request, h
    <3> QED
      BY <1>2, <3>1, <3>2
  <2>2. /\ DnLoad(n, h, dfu).s = h /\ IsDfu(DnLoad(n, h, dfu).d)
        /\ DnLoad(n, h, dfu).reply.k # "in"
    <3>1. DnLoad(n, h, dfu).reply.k # "in"
      BY DEF DnLoad, Fails, Handled, Reply
    <3> QED
      BY <3>1, ClassRequests, ClassRequestsTyped
  <2>3. session' \in Sessions /\ store' \in Stores /\ IsDfu(dfu')
    BY <1>a, <2>1, <2>2
  <2>4. \/ HostEnds("failed")
        \/ host.pc = "download" /\ host' = [host EXCEPT !.pc = "data", !.chunk = 0]
        \/ host.pc = "end" /\ HostGoes("endStatus")
    BY <1>2 DEF HostDownloads, HostFinishes, Request
  <2> QED
    BY <1>w, <2>3, <2>4, HostWithin, HostGoesWithin DEF Downloading
<1>3. CASE HostPolls \/ HostReadsStatus
  <2>1. Answers(GetStatus(h, dfu))
    BY <1>3 DEF HostPolls, HostReadsStatus, Request, h
  <2>2. /\ GetStatus(h, dfu).s = h /\ IsDfu(GetStatus(h, dfu).d)
        /\ GetStatus(h, dfu).reply.k # "in"
    BY ClassRequests, ClassRequestsTyped DEF GetStatus, Handled, Reply
  <2>3. session' \in Sessions /\ store' \in Stores /\ IsDfu(dfu')
    BY <1>a, <2>1, <2>2
  <2>4. HostReadsStatus => \E result : HostEnds(result)
    BY DEF HostReadsStatus, Request
  <2> QED
    BY <1>w, <1>3, <2>3, <2>4, HostWithin, HostPollsWithin
<1>4. CASE HostUploads
  <2> DEFINE r == UpLoad(h, dfu)
  <2>1. Answers(r)
    BY <1>4 DEF HostUploads, Request, h
  <2>2. r.s = h /\ IsDfu(r.d)
    BY ClassRequests, ClassRequestsTyped
  <2>3. r.reply.k = "in" => Len(r.reply.data) \in Nat
    <3>1. r.reply.k = "in" => r.reply.data = SubSeq(h.data, 1, h.staged)
      BY DEF UpLoad, Fails, Handled, Reply
    <3>2. Len(SubSeq(h.data, 1, h.staged)) \in Nat
      BY <1>h, RescueAssumption DEF Sessions, Buffers
    <3> QED
      BY <3>1, <3>2
  <2>4. HostEnds("failed") \/ \E got : host' = [host EXCEPT !.pc = "uploadStatus", !.got = got]
    BY <1>4 DEF HostUploads, Request
  <2> HIDE DEF r
  <2>5. session' \in Sessions /\ store' \in Stores /\ IsDfu(dfu')
    BY <1>h, <2>1, <2>2, <2>3, RequestTyped
  <2> QED
    BY <1>w, <2>4, <2>5, HostWithin, HostGoesWithin
<1>5. CASE HostAsks
  <2>1. PICK r \in {GetStatus(h, dfu), GetState(h, dfu), ClrStatus(h, dfu), Abort(h, dfu)} :
          Answers(r)
    BY <1>5 DEF HostAsks, Request, h
  <2>2. r.s = h /\ IsDfu(r.d)
    BY <2>1, ClassRequests, ClassRequestsTyped
  <2>3. r.reply.k # "in"
    BY <2>1 DEF GetStatus, GetState, ClrStatus, Abort, Fails, Handled, Reply
  <2>4. session' \in Sessions /\ store' \in Stores /\ IsDfu(dfu')
    BY <1>a, <2>1, <2>2, <2>3
  <2>5. HostEnds("failed") \/ UNCHANGED host
    BY <1>5 DEF HostAsks, Request
  <2> QED
    BY <1>w, <2>4, <2>5, HostWithin
<1>6. CASE OtherRequest
  <2> DEFINE r == Handled(session, dfu, Reply("ack", << >>))
  <2>1. r.s = session /\ r.d = dfu /\ r.reply.k = "ack" /\ Answers(r)
    BY <1>6 DEF OtherRequest, Request, Handled, Reply
  <2>2. UNCHANGED host
    BY <1>6 DEF OtherRequest, Request, Handled, Reply
  <2> HIDE DEF r
  <2>3. session' \in Sessions /\ store' \in Stores /\ IsDfu(dfu')
    BY <2>1, RequestTyped
  <2> QED
    BY <1>w, <2>2, <2>3, HostWithin
<1>7. CASE ChunkArrives
  <2> DEFINE s == Copied(session, host.chunk, Chunk)
             done == Completed(s, [dfu EXCEPT !.expected = 0], Last)
  <2>1. Chunk \in Seq(Units) /\ host.chunk \in Nat /\ Last \in Nat
    BY <1>7, LengthOfChunk DEF ChunkArrives, WithinFile
  <2>2. s \in Sessions
    BY <2>1, DataTyped
  <2>3. done.s \in Sessions /\ done.st \in Stores /\ IsDfu(done.d)
    <3>1. IsDfu([dfu EXCEPT !.expected = 0])
      BY DfuMoves
    <3> HIDE DEF s
    <3> QED
      BY <2>1, <2>2, <3>1, CompletedTyped
  <2>4. /\ \/ session' = done.s /\ dfu' = done.d /\ store' = done.st
           \/ session' = s /\ dfu' = dfu /\ store' = store
        /\ host.pc = "data" /\ HostSendsChunk
    BY <1>7 DEF ChunkArrives
  <2> HIDE DEF s, done
  <2> QED
    BY <1>w, <2>2, <2>3, <2>4, HostGoesWithin
<1>8. CASE ChunkIsSkipped
  BY <1>w, <1>8, HostGoesWithin DEF ChunkIsSkipped
<1>9. CASE HostBegins
  BY <1>w, <1>9, HostBeginsWithin DEF HostBegins
<1>10. CASE HostStops
  BY <1>w, <1>10, HostWithin DEF HostStops
<1>11. CASE HostReboots \/ Inactivity
  BY <1>w, <1>11, BootTyped, HostWithin DEF HostReboots, Inactivity
<1>12. CASE PowerCut
  <2>1. [store EXCEPT !.msg = Scrambled] \in Stores
    BY UnitTyped, StoreTyped DEF Scrambled, Messages
  <2> QED
    BY <1>w, <1>12, <2>1, BootTyped, HostWithin DEF PowerCut
<1>13. CASE WriteBreaksOff
  <2> DEFINE s == Filled(Copied(session, host.chunk, Chunk), Last)
  <2>1. Chunk \in Seq(Units) /\ host.chunk \in Nat /\ Last \in Nat /\ host.pc = "data"
    BY <1>13, LengthOfChunk DEF WriteBreaksOff, WithinFile
  <2>2. s \in Sessions
    <3>1. Copied(session, host.chunk, Chunk) \in Sessions
      BY <2>1, DataTyped
    <3> QED
      BY <2>1, <3>1, DataTyped
  <2>3. /\ store' \in Broken(chip, s, store)
        /\ \/ Boot /\ HostSeesReset
           \/ /\ session' \in Stranded(s)
              /\ dfu' = [dfu EXCEPT !.state = "dnLoadIdle", !.error = "vendor", !.expected = 0]
              /\ HostGoes("status")
    BY <1>13 DEF WriteBreaksOff
  <2> HIDE DEF s
  <2>4. store' \in Stores
    BY <2>2, <2>3, BrokenTyped
  <2>5. CASE Boot /\ HostSeesReset
    BY <1>w, <2>4, <2>5, BootTyped, HostWithin
  <2>6. CASE /\ session' \in Stranded(s)
             /\ dfu' = [dfu EXCEPT !.state = "dnLoadIdle", !.error = "vendor", !.expected = 0]
             /\ HostGoes("status")
    <3>1. session' \in Sessions
      BY <2>2, <2>6, StrandedTyped
    <3>2. IsDfu(dfu')
      <4>1. ASSUME NEW t, t = [dfu EXCEPT !.state = "dnLoadIdle", !.error = "vendor",
                                          !.expected = 0]
            PROVE  t = [state |-> "dnLoadIdle", error |-> "vendor", allow |-> dfu.allow,
                        interface |-> dfu.interface, expected |-> 0]
        BY <4>1 DEF IsDfu
      <4>2. dfu.allow \subseteq {"upload", "download"} /\ 0 \in 0..BlockUnits
        BY RescueAssumption DEF IsDfu
      <4> QED
        BY <2>6, <4>1, <4>2 DEF IsDfu, States, Errors
    <3>3. HostInv' /\ WithinFile'
      BY <2>1, <2>6, HostWithin DEF Downloading
    <3> QED
      BY <1>w, <2>4, <3>1, <3>2, <3>3
  <2> QED
    BY <2>3, <2>5, <2>6
<1> QED
  BY <1>1, <1>2, <1>3, <1>4, <1>5, <1>6, <1>7, <1>8, <1>9, <1>10, <1>11, <1>12, <1>13
     DEF Next, Host

LEMMA InitTyped ==
  ASSUME Init
  PROVE  TInv
<1>1. store \in Stores
  <2>1. Old \in Units /\ PageOf(Old) \in FullPages
    BY UnitTyped, PageTyped
  <2> QED
    BY <2>1 DEF Init, Stores, Banks, Messages
<1>2. session \in Sessions /\ IsDfu(dfu)
  BY <1>1, FreshTyped DEF Init
<1>3. HostInv /\ WithinFile
  BY DEF Init, Idle, HostInv, IsHost, HostPcs, WithinFile, Downloading
<1> QED
  BY <1>1, <1>2, <1>3 DEF Init, TInv

\* Every reachable state of chip, host and flash has its type: the buffer is
\* never overrun, whatever is sent, skipped, broken off or left behind.
THEOREM TypeInvariance == Spec => []TInv
<1>1. Init => TInv
  BY InitTyped
<1>2. TInv /\ [Next]_vars => TInv'
  <2>1. ASSUME TInv, UNCHANGED vars PROVE TInv'
    BY <2>1 DEF vars, TInv, HostInv, WithinFile, First, BlockLength
  <2> QED
    BY <2>1, TypeStep
<1> QED
  BY <1>1, <1>2, PTL DEF Spec

THEOREM TypeCorrect == Spec => []TypeOK
<1>1. TInv => TypeOK
  <2> SUFFICES ASSUME TInv PROVE TypeOK
    OBVIOUS
  <2>1. \A slot \in Slots, p \in Pages : Len(store.flash[slot][p]) = BlockUnits
    BY PageTyped DEF TInv, Stores, Banks
  <2>2. Len(store.owner1) = BlockUnits /\ Len(store.msg) = MsgUnits
    BY PageTyped DEF TInv, Stores
  <2>3. /\ session.mode \in Modes /\ session.default \in {"firmware", "noop"}
        /\ session.offset \in 0..BlockUnits /\ Len(session.data) <= BlockUnits
        /\ session.staged \in 0..BlockUnits
        /\ session.flashOffset \in 0..FlashLimit /\ session.flashBegin \in {0, FlashStart}
    BY DEF TInv, Sessions, Buffers
  <2> QED
    BY <2>1, <2>2, <2>3 DEF TInv, TypeOK, IsDfu, HostInv
<1> QED
  BY <1>1, TypeInvariance, PTL

-----------------------------------------------------------------------------
(***************************************************************************)
(* A download that is acknowledged is stored, and an upload returns what   *)
(* its mode stands for.  Two hosts that the code does not serve are left   *)
(* out, and the runs show why: one on USB that stops within data, and one  *)
(* on SPI that leaves out a part of a block which the chip waits for.      *)
(***************************************************************************)

StopsOutsideTransfers == Stops \cap {<< "usb", "data" >>, << "usb", "uploadStatus" >>} = {}

\* Chunk c of block b is not all 0xFF, unless it is neither the last of its
\* block nor of a block that has a place in flash.
NothingIsSkipped ==
  "spi" \in Transports =>
    \A x \in Sends : \A b \in Nat : \A c \in Nat :
      LET at == b * BlockUnits + c * ChunkUnits
          last == (c + 1) * ChunkUnits >= BlockUnits \/ at + ChunkUnits >= FileUnits[x.file]
      IN  /\ c * ChunkUnits < BlockUnits /\ at < FileUnits[x.file]
          /\ Base(x.file) + b < FlashLimit \/ last
          => \E i \in 1..ChunkUnits : FileUnit(x.file, at + i) /= FF

\* The host's operation is one that it began.
OperationInv ==
  /\ host.pc /= "idle" => host.result = "none" /\ host.op \in {"send", "recv"}
  /\ host.result = "acked" => host.op = "send"
  /\ host.pc = "mode" => host.block = 0
  /\ transport = "usb" => ~host.reset
  /\ host.op = "send" => \E x \in Sends : x.mode = host.mode /\ x.file = host.file
  /\ host.op = "recv" => host.mode \in Reads
  /\ host.pc \in {"upload", "uploadStatus"} => host.op = "recv"
  /\ host.pc \in {"end", "endStatus"} => (host.block + 1) * BlockUnits >= FileUnits[host.file]

\* Over USB the chip waits for data only while the host sends some, so no other
\* transfer completes a block.
StateInv ==
  /\ transport = "usb" /\ host.pc /= "data" => dfu.state /= "dnLoadSync"
  /\ transport = "usb" /\ host.pc /= "uploadStatus" => dfu.state /= "upLoadIdle"
  /\ ~host.reset =>
       /\ host.pc = "data" => dfu.state = "dnLoadSync" /\ dfu.expected = BlockLength
       /\ host.pc = "status" => dfu.state = "dnLoadIdle"

Taken_(k) == TakenBlocks(chip, host.mode, host.file, session, store, k)

\* The chip has taken the blocks before the one the host is at; once its status
\* says so, this one too.
TransferInv ==
  ~host.reset =>
    /\ (host.pc = "download" /\ "download" \in dfu.allow) \/ host.pc = "data" =>
         Taken_(host.block)
    /\ (host.pc = "status" /\ dfu.error = "ok") \/ host.pc \in {"end", "endStatus"} =>
         Taken_(host.block + 1)

\* The buffer holds the chunks that were sent.
BufferInv ==
  ~host.reset /\ host.pc = "data" /\ Base(host.file) + host.block < FlashLimit =>
    \A i \in 1..First :
      /\ i <= Len(session.data)
      /\ session.data[i] = FileUnit(host.file, host.block * BlockUnits + i)

UploadInv ==
  ~host.reset =>
    /\ host.pc = "upload" /\ "upload" \in dfu.allow =>
         session.data = Content(host.mode, store) /\ session.staged = Len(session.data)
    /\ host.pc = "uploadStatus" => host.got = Content(host.mode, store)

Faithful ==
  /\ OperationInv /\ StateInv /\ TransferInv /\ BufferInv /\ UploadInv /\ SuccessIsTrue

\* Steps that leave the host idle, or end its operation without success
StoreRests ==
  /\ store'.flash = store.flash /\ store'.owner1 = store.owner1
  /\ store'.msg \in {store.msg, Scrambled}

StateRests == transport' = "usb" => dfu'.state \notin {"dnLoadSync", "upLoadIdle"}

LEMMA IdleFaithful ==
  ASSUME Faithful, host.pc = "idle", UNCHANGED << chip, transport, host >>, StoreRests, StateRests
  PROVE  Faithful'
<1>1. /\ OperationInv' /\ StateInv' /\ TransferInv' /\ BufferInv' /\ UploadInv'
  BY DEF Faithful, OperationInv, StateInv, StateRests, TransferInv, BufferInv, UploadInv,
         BlockLength
<1>2. ASSUME host.mode \in RecvModes, Stored PROVE Stored'
  <2>1. CASE host.mode \in FirmwareModes
    <3>1. Holds(chip, store, BankOf(host.mode), host.file)
      BY <1>2, <2>1 DEF Stored, FirmwareModes
    <3>2. Holds(chip, store', BankOf(host.mode), host.file)
      BY <3>1 DEF Holds, StoreRests
    <3> QED
      BY <2>1, <3>2 DEF Stored, FirmwareModes
  <2>2. CASE host.mode = "ownerBlock"
    <3>1. store.owner1 = Block(host.file, 0)
      BY <1>2, <2>2 DEF Stored, FirmwareModes
    <3> QED
      BY <2>2, <3>1 DEF Stored, FirmwareModes, StoreRests
  <2>3. CASE host.mode = "bootSvcReq"
    <3>1. store.msg \in {SubSeq(Block(host.file, 0), 1, MsgUnits), Scrambled}
      BY <1>2, <2>3 DEF Stored, FirmwareModes
    <3> QED
      BY <2>3, <3>1 DEF Stored, FirmwareModes, StoreRests
  <2> QED
    BY <1>2, <2>1, <2>2, <2>3 DEF RecvModes
<1>3. ASSUME host.got = Content(host.mode, store)
      PROVE  \/ host.got = Content(host.mode, store')
             \/ host.mode = "bootSvcRsp" /\ store'.msg = Scrambled
  <2>1. CASE host.mode = "bootSvcRsp"
    <3>1. Content(host.mode, store) = store.msg /\ Content(host.mode, store') = store'.msg
      BY <2>1 DEF Content
    <3> QED
      BY <1>3, <2>1, <3>1 DEF StoreRests
  <2>2. CASE host.mode # "bootSvcRsp"
    <3>1. Content(host.mode, store) = Content(host.mode, store')
      BY <2>2 DEF Content, StoreRests
    <3> QED
      BY <1>3, <3>1
  <2> QED
    BY <2>1, <2>2
<1>4. host.result = "acked" => host.mode \in RecvModes
  BY DfuAssumption DEF Faithful, OperationInv
<1>5. SuccessIsTrue'
  BY <1>2, <1>3, <1>4 DEF Faithful, SuccessIsTrue, StoreRests
<1> QED
  BY <1>1, <1>5 DEF Faithful

LEMMA EndFaithful ==
  ASSUME HostInv, Faithful, UNCHANGED << chip, transport >>, HostEnds("failed"), StateRests
  PROVE  Faithful'
<1>1. host' = [pc |-> "idle", op |-> host.op, mode |-> host.mode, file |-> host.file,
               block |-> host.block, chunk |-> host.chunk, got |-> host.got,
               result |-> "failed", reset |-> host.reset]
  BY DEF HostEnds, HostInv, IsHost
<1> QED
  BY <1>1 DEF Faithful, OperationInv, StateInv, StateRests, TransferInv, BufferInv, UploadInv,
              SuccessIsTrue

\* The chip starts over: a host on USB gives up, one on SPI goes on unawares.
LEMMA ResetFaithful ==
  ASSUME HostInv, Faithful, UNCHANGED << chip, transport >>, HostSeesReset, StateRests,
         host.pc = "idle" => StoreRests
  PROVE  Faithful'
<1>1. CASE host.pc = "idle"
  BY <1>1, IdleFaithful DEF HostSeesReset
<1>2. CASE host.pc /= "idle" /\ transport = "usb"
  <2>1. HostEnds("failed")
    BY <1>2 DEF HostSeesReset, HostEnds
  <2> QED
    BY <2>1, EndFaithful
<1>3. CASE host.pc /= "idle" /\ transport /= "usb"
  <2>1. host' = [pc |-> host.pc, op |-> host.op, mode |-> host.mode, file |-> host.file,
                 block |-> host.block, chunk |-> host.chunk, got |-> host.got,
                 result |-> host.result, reset |-> TRUE]
    BY <1>3 DEF HostSeesReset, HostInv, IsHost
  <2> QED
    BY <1>3, <2>1 DEF Faithful, OperationInv, StateInv, StateRests, TransferInv, BufferInv,
                      UploadInv, SuccessIsTrue
<1> QED
  BY <1>1, <1>2, <1>3

LEMMA BootRests ==
  ASSUME Boot
  PROVE  StateRests
<1>1. FreshDfu.state = "idle" /\ \A a : [FreshDfu EXCEPT !.allow = a].state = "idle"
  BY DEF FreshDfu
<1>2. dfu'.state = "idle"
  <2>1. dfu' = FreshDfu \/ \E a : dfu' = [FreshDfu EXCEPT !.allow = a]
    BY DEF Boot
  <2> QED
    BY <1>1, <2>1
<1> QED
  BY <1>2 DEF StateRests

\* A reply that the chip has given completes nothing while it waits for no
\* data.
LEMMA AnswerRests ==
  ASSUME NEW r, Answers(r), IsDfu(r.d),
         transport = "usb" /\ r.reply.k # "stall" => r.d.state # "dnLoadSync" \/ r.reply.k = "out"
  PROVE  /\ store' = store
         /\ transport # "usb" \/ r.d.state # "upLoadIdle" \/ r.reply.k \in {"stall", "out"} =>
              session' = r.s /\ dfu' = r.d
         /\ transport = "usb" /\ r.reply.k \in {"ack", "status"} =>
              dfu'.state \notin {"dnLoadSync", "upLoadIdle"}
         /\ transport = "usb" /\ r.reply.k = "in" => dfu'.state # "dnLoadSync"
<1> DEFINE length == IF r.reply.k = "in" THEN Len(r.reply.data) ELSE 0
           done == Completed(r.s, r.d, length)
           answered == transport = "usb" /\ r.reply.k \in {"ack", "in", "status"}
<1>1. IF answered THEN session' = done.s /\ dfu' = done.d /\ store' = done.st
      ELSE session' = r.s /\ dfu' = r.d /\ UNCHANGED store
  BY DEF Answers
<1>2. CASE ~answered
  BY <1>1, <1>2
<1>3. CASE answered
  <2>1. r.d.state # "dnLoadSync"
    BY <1>3
  <2>2. /\ done.st = store
        /\ r.d.state # "upLoadIdle" => done.s = r.s /\ done.d = r.d
        /\ r.d.state = "upLoadIdle" =>
             done.d = IF length < BlockUnits THEN [r.d EXCEPT !.state = "idle"] ELSE r.d
    BY <2>1 DEF Completed
  <2>3. [r.d EXCEPT !.state = "idle"].state = "idle"
    BY DEF IsDfu
  <2>4. r.reply.k \in {"ack", "status"} => length < BlockUnits
    BY RescueAssumption
  <2>5. session' = done.s /\ dfu' = done.d /\ store' = done.st
    BY <1>1, <1>3
  <2> HIDE DEF done, length
  <2> QED
    BY <1>3, <2>1, <2>2, <2>3, <2>4, <2>5
<1> QED
  BY <1>2, <1>3

-----------------------------------------------------------------------------
\* What a request for a mode makes ready

LEMMA SettingsTable ==
  /\ DOMAIN Settings = 1..6
  /\ Settings[1].mode = "firmware" /\ Settings[1].paired = "none"
  /\ Settings[2].mode = "firmwareB" /\ Settings[2].paired = "none"
  /\ Settings[3].mode = "deviceId" /\ Settings[3].paired = "none"
  /\ Settings[4].mode = "bootLog" /\ Settings[4].paired = "none"
  /\ Settings[5].mode = "bootSvcRsp" /\ Settings[5].paired = "bootSvcReq"
  /\ Settings[6].mode = "ownerPage0" /\ Settings[6].paired = "ownerBlock"
BY DEF Settings

LEMMA SettingOfMode ==
  ASSUME NEW mode \in RecvModes \cup Reads
  PROVE  LET setting == Settings[SettingOf(mode)]
         IN  /\ mode \in RecvModes =>
                  \/ setting.mode = mode /\ setting.paired = "none"
                  \/ setting.mode \in SendModes /\ setting.paired = mode
             /\ mode \in Reads =>
                  setting.mode = mode /\ setting.paired \in RecvModes \cup {"none"}
<1> DEFINE i == SettingOf(mode)
<1>1. \E j \in DOMAIN Settings : mode \in {Settings[j].mode, Settings[j].paired}
  BY SettingsTable, DfuAssumption DEF RecvModes, FirmwareModes
<1>2. i \in DOMAIN Settings /\ mode \in {Settings[i].mode, Settings[i].paired}
  BY <1>1 DEF SettingOf
<1>3. i \in {1, 2, 3, 4, 5, 6}
  BY <1>2, SettingsTable
<1> HIDE DEF i
<1>4. mode \in RecvModes => mode \in {"firmware", "firmwareB", "bootSvcReq", "ownerBlock"}
  BY DEF RecvModes, FirmwareModes
<1>5. mode \in Reads => mode \in {"deviceId", "bootLog", "bootSvcRsp", "ownerPage0"}
  BY DfuAssumption
<1>6. /\ mode \in RecvModes =>
           \/ Settings[i].mode = mode /\ Settings[i].paired = "none"
           \/ Settings[i].mode \in SendModes /\ Settings[i].paired = mode
      /\ mode \in Reads => Settings[i].mode = mode /\ Settings[i].paired \in RecvModes \cup {"none"}
  BY <1>2, <1>3, <1>4, <1>5, SettingsTable DEF RecvModes, FirmwareModes, SendModes
<1> QED
  BY <1>6 DEF i

LEMMA Validated ==
  ASSUME NEW mode, NEW s \in Sessions
  PROVE  /\ ValidateMode(chip, mode, s).data = s.data
         /\ ValidateMode(chip, mode, s).staged = s.staged
         /\ ModeVerdict(chip, mode) = "ok" =>
              ValidateMode(chip, mode, s).mode = mode /\ ValidateMode(chip, mode, s).flashOffset = 0
<1>1. ASSUME NEW t, t = [s EXCEPT !.frame = 1, !.offset = 0, !.flashOffset = 0]
      PROVE  /\ t.data = s.data /\ t.staged = s.staged
             /\ [t EXCEPT !.mode = mode].data = s.data /\ [t EXCEPT !.mode = mode].staged = s.staged
             /\ [t EXCEPT !.mode = mode].mode = mode /\ [t EXCEPT !.mode = mode].flashOffset = 0
  BY <1>1 DEF Sessions
<1> DEFINE t == [s EXCEPT !.frame = 1, !.offset = 0, !.flashOffset = 0]
<1>2. ValidateMode(chip, mode, s) \in {s, t, [t EXCEPT !.mode = mode]}
  BY DEF ValidateMode
<1>3. ModeVerdict(chip, mode) = "ok" => ValidateMode(chip, mode, s) = [t EXCEPT !.mode = mode]
  BY DEF ValidateMode
<1>4. /\ t.data = s.data /\ t.staged = s.staged
      /\ [t EXCEPT !.mode = mode].data = s.data /\ [t EXCEPT !.mode = mode].staged = s.staged
      /\ [t EXCEPT !.mode = mode].mode = mode /\ [t EXCEPT !.mode = mode].flashOffset = 0
  BY <1>1
<1> HIDE DEF t
<1> QED
  BY <1>2, <1>3, <1>4

LEMMA ModesApart ==
  /\ \A mode \in SendModes : mode \notin RecvModes /\ mode # "none" /\ mode \in Modes
                             /\ mode \notin {"reboot", "noop"}
  /\ \A mode \in RecvModes : mode \notin SendModes /\ mode # "none"
  /\ Reads \subseteq SendModes
BY DfuAssumption DEF SendModes, RecvModes, FirmwareModes, Modes

\* A mode is set by its own setting, and by nothing before it.
LEMMA ModeIsReady ==
  ASSUME store \in Stores, NEW s \in Sessions, NEW mode \in RecvModes \cup Reads
  PROVE  LET setting == SettingOf(mode)
             t == SetMode(setting, s)
         IN  /\ mode \in RecvModes /\ "download" \in Allowed(setting) =>
                  t.mode = mode /\ ModeVerdict(chip, mode) = "ok" /\ t.flashOffset = 0
             /\ mode \in Reads /\ "upload" \in Allowed(setting) =>
                  t.data = Content(mode, store) /\ t.staged = Len(t.data)
<1> DEFINE setting == SettingOf(mode)
           first == Settings[setting].mode
           paired == Settings[setting].paired
           t == SetMode(setting, s)
<1>1. /\ mode \in RecvModes => (first = mode /\ paired = "none")
                                \/ (first \in SendModes /\ paired = mode)
      /\ mode \in Reads => first = mode /\ paired \in RecvModes \cup {"none"}
  BY SettingOfMode
<1>2. Allowed(setting) = Allows(first) \cup Allows(paired)
  BY DEF Allowed
<1>3. t = IF paired = "none" THEN Staged(first, s) ELSE ValidateMode(chip, paired, Staged(first, s))
  BY DEF SetMode
<1> HIDE DEF setting, first, paired, t
<1>4. Staged(first, s) \in Sessions
  <2>1. ValidateMode(chip, first, s) \in Sessions
    BY ValidateModeTyped
  <2> QED
    BY <2>1, SendHandlerTyped DEF Staged
<1>5. ASSUME mode \in RecvModes, "download" \in Allowed(setting)
      PROVE  t.mode = mode /\ ModeVerdict(chip, mode) = "ok" /\ t.flashOffset = 0
  <2>1. "download" \in Allows(mode) /\ "upload" \notin Allows(mode)
    BY <1>1, <1>2, <1>5, ModesApart DEF Allows
  <2>2. ModeVerdict(chip, mode) = "ok"
    BY <2>1 DEF Allows
  <2>3. CASE first = mode /\ paired = "none"
    <3>1. t = ValidateMode(chip, mode, s)
      BY <1>3, <2>1, <2>3 DEF Staged
    <3> QED
      BY <2>2, <3>1, Validated
  <2>4. CASE first \in SendModes /\ paired = mode
    <3>1. t = ValidateMode(chip, mode, Staged(first, s))
      BY <1>3, <1>5, <2>4, ModesApart
    <3> QED
      BY <1>4, <2>2, <3>1, Validated
  <2> QED
    BY <1>1, <1>5, <2>3, <2>4
<1>6. ASSUME mode \in Reads, "upload" \in Allowed(setting)
      PROVE  t.data = Content(mode, store) /\ t.staged = Len(t.data)
  <2>1. first = mode /\ mode \in SendModes /\ "upload" \notin Allows(paired)
    BY <1>1, <1>6, ModesApart DEF Allows
  <2>2. "upload" \in Allows(mode)
    BY <1>2, <1>6, <2>1
  <2>3. ModeVerdict(chip, mode) = "ok"
    BY <2>2 DEF Allows
  <2>4. CommandAllowed(chip, mode)
    BY <2>1, <2>3, ModesApart DEF ModeVerdict
  <2> DEFINE v == ValidateMode(chip, mode, s)
  <2>5. v.mode = mode /\ v \in Sessions
    BY <2>3, Validated, ValidateModeTyped
  <2> HIDE DEF v
  <2>6. SendHandler(chip, v, store).s =
          [v EXCEPT !.data = Content(mode, store), !.staged = Len(Content(mode, store))]
    BY <2>1, <2>4, <2>5, ModesApart DEF SendHandler, Result
  <2>7. Staged(first, s) = SendHandler(chip, v, store).s
    BY <2>1, <2>2 DEF Staged, v
  <2> DEFINE c == Content(mode, store)
             n == Len(c)
  <2> HIDE DEF c, n
  <2>8. ASSUME NEW u, u = [v EXCEPT !.data = c, !.staged = n]
        PROVE  u.data = c /\ u.staged = n
    BY <2>5, <2>8 DEF Sessions
  <2>a. ASSUME NEW u, u = Staged(first, s) PROVE u = [v EXCEPT !.data = c, !.staged = n]
    BY <2>6, <2>7, <2>a DEF c, n
  <2>9. /\ Staged(first, s).data = Content(mode, store)
        /\ Staged(first, s).staged = Len(Content(mode, store))
    BY <2>8, <2>a DEF c, n
  <2>10. t.data = Staged(first, s).data /\ t.staged = Staged(first, s).staged
    BY <1>3, <1>4, Validated
  <2> QED
    BY <2>9, <2>10
<1> QED
  BY <1>5, <1>6 DEF t, setting

-----------------------------------------------------------------------------
\* The host's operation, step by step

LEMMA SetsModeFaithful ==
  ASSUME TInv, Faithful, HostSetsMode
  PROVE  Faithful'
<1> DEFINE setting == SettingOf(host.mode)
           r == IF transport = "usb" THEN SetInterface(setting, session, dfu)
                ELSE VendorSetMode(setting, session, dfu)
           s == IF transport = "usb" THEN session ELSE [session EXCEPT !.deadline = FALSE]
           t == SetMode(setting, s)
           next == IF host.op = "send" THEN "download" ELSE "upload"
<1>1. /\ host.pc = "mode" /\ Answers(r) /\ chip' = chip /\ transport' = transport
      /\ IF r.reply.k = "stall" THEN HostEnds("failed") ELSE HostGoes(next)
  BY DEF HostSetsMode, Request
<1>2. s \in Sessions
  BY UpdatesTyped DEF TInv
<1>3. IsDfu(r.d) /\ IsDfu(dfu)
  BY SetRequestsTyped DEF TInv
<1>4. /\ r.s \in {t, [t EXCEPT !.deadline = FALSE]} /\ t \in Sessions
      /\ Allowed(setting) = {} => r.d = dfu /\ r.reply.k = "stall"
      /\ Allowed(setting) # {} => r.d.allow = Allowed(setting) /\ r.d.state = dfu.state
                                  /\ r.reply.k = "ack"
  <2>1. t \in Sessions
    BY <1>2, SetModeTyped DEF TInv
  <2>2. ASSUME NEW a
        PROVE  /\ [dfu EXCEPT !.allow = a].allow = a /\ [dfu EXCEPT !.allow = a].state = dfu.state
    BY <1>3 DEF IsDfu
  <2> HIDE DEF Allowed
  <2>3. CASE transport = "usb"
    <3>1. /\ r.s \in {t, [t EXCEPT !.deadline = FALSE]}
          /\ Allowed(setting) = {} => r.d = dfu /\ r.reply.k = "stall"
          /\ Allowed(setting) # {} =>
               r.d = [dfu EXCEPT !.allow = Allowed(setting), !.interface = setting]
               /\ r.reply.k = "ack"
      BY <2>3 DEF SetInterface, Handled, Reply
    <3> HIDE DEF r, t
    <3>2. ASSUME Allowed(setting) # {}, NEW d, d = r.d
          PROVE  d.allow = Allowed(setting) /\ d.state = dfu.state
      <4>1. d = [dfu EXCEPT !.allow = Allowed(setting), !.interface = setting]
        BY <3>1, <3>2
      <4> QED
        BY <1>3, <4>1 DEF IsDfu
    <3> QED
      BY <2>1, <3>1, <3>2
  <2>4. CASE transport # "usb"
    <3>1. /\ r.s = t
          /\ Allowed(setting) = {} => r.d = dfu /\ r.reply.k = "stall"
          /\ Allowed(setting) # {} =>
               r.d = [dfu EXCEPT !.allow = Allowed(setting)] /\ r.reply.k = "ack"
      BY <2>4 DEF VendorSetMode, Handled, Reply
    <3> HIDE DEF r, t
    <3> QED
      BY <2>1, <2>2, <3>1
  <2> QED
    BY <2>3, <2>4
<1>5. transport = "usb" => dfu.state \notin {"dnLoadSync", "upLoadIdle"}
  BY <1>1 DEF Faithful, StateInv
<1>6. host.mode \in RecvModes \cup Reads /\ (host.op = "send" => host.mode \in RecvModes)
      /\ (host.op # "send" => host.mode \in Reads)
  BY <1>1, DfuAssumption DEF Faithful, OperationInv
<1>7. /\ host.mode \in RecvModes /\ "download" \in Allowed(setting) =>
           t.mode = host.mode /\ ModeVerdict(chip, host.mode) = "ok" /\ t.flashOffset = 0
      /\ host.mode \in Reads /\ "upload" \in Allowed(setting) =>
           t.data = Content(host.mode, store) /\ t.staged = Len(t.data)
  BY <1>2, <1>6, ModeIsReady DEF TInv
<1> HIDE DEF setting, r, s, t
<1>8. store' = store /\ session' = r.s /\ dfu' = r.d
  BY <1>1, <1>3, <1>4, <1>5, AnswerRests
<1>9. StateRests
  BY <1>1, <1>4, <1>5, <1>8 DEF StateRests
<1>10. CASE Allowed(setting) = {}
  BY <1>1, <1>4, <1>9, <1>10, EndFaithful DEF TInv
<1>11. CASE Allowed(setting) # {}
  <2>1. host' = [pc |-> next, op |-> host.op, mode |-> host.mode, file |-> host.file,
                 block |-> host.block, chunk |-> host.chunk, got |-> host.got,
                 result |-> host.result, reset |-> host.reset]
    BY <1>1, <1>4, <1>11 DEF HostGoes, TInv, HostInv, IsHost
  <2>2. /\ session'.mode = t.mode /\ session'.flashOffset = t.flashOffset
        /\ session'.data = t.data /\ session'.staged = t.staged
    BY <1>4, <1>8 DEF Sessions
  <2>3. dfu'.allow = Allowed(setting) /\ dfu'.state = dfu.state
    BY <1>4, <1>8, <1>11
  <2>4. host.block = 0 /\ host.result = "none" /\ host.op \in {"send", "recv"}
    BY <1>1 DEF Faithful, OperationInv
  <2>5. OperationInv' /\ StateInv' /\ BufferInv' /\ SuccessIsTrue'
    BY <1>1, <1>5, <2>1, <2>3, <2>4
       DEF Faithful, OperationInv, StateInv, BufferInv, SuccessIsTrue
  <2>6. UploadInv'
    BY <1>6, <1>7, <1>8, <2>1, <2>2, <2>3 DEF UploadInv
  <2>7. TransferInv'
    <3>1. ASSUME host'.pc = "download", "download" \in dfu'.allow PROVE Taken_(host.block)'
      <4>1. host.op = "send" /\ host.mode \in RecvModes
        BY <1>6, <2>1, <3>1
      <4>2. t.mode = host.mode /\ ModeVerdict(chip, host.mode) = "ok" /\ t.flashOffset = 0
        BY <1>7, <2>3, <3>1, <4>1
      <4> QED
        BY <1>1, <2>1, <2>2, <2>4, <4>2 DEF Taken_, TakenBlocks, TakenFirmware
    <3> QED
      BY <2>1, <3>1 DEF TransferInv
  <2> QED
    BY <2>5, <2>6, <2>7 DEF Faithful
<1> QED
  BY <1>10, <1>11

\* A session that differs in its deadline has taken the same blocks.
LEMMA HeardTaken ==
  ASSUME session \in Sessions
  PROVE  LET h == Heard(session)
         IN  /\ h \in Sessions /\ h.mode = session.mode /\ h.flashOffset = session.flashOffset
             /\ h.flashBegin = session.flashBegin /\ h.data = session.data
             /\ h.staged = session.staged
             /\ \A mode, f, k : TakenBlocks(chip, mode, f, session, store, k) =>
                                  TakenBlocks(chip, mode, f, h, store, k)
<1>1. ASSUME NEW h, h = [session EXCEPT !.deadline = FALSE]
      PROVE  /\ h \in Sessions /\ h.mode = session.mode /\ h.flashOffset = session.flashOffset
             /\ h.flashBegin = session.flashBegin /\ h.data = session.data
             /\ h.staged = session.staged
  BY <1>1 DEF Sessions
<1>2. ASSUME NEW h, h.mode = session.mode, h.flashOffset = session.flashOffset,
             h.flashBegin = session.flashBegin, NEW mode, NEW f, NEW k,
             TakenBlocks(chip, mode, f, session, store, k)
      PROVE  TakenBlocks(chip, mode, f, h, store, k)
  BY <1>2 DEF TakenBlocks, TakenFirmware
<1> QED
  BY <1>1, <1>2 DEF Heard

LEMMA DnLoadReplies ==
  ASSUME NEW s, NEW d, IsDfu(d), NEW n \in Nat
  PROVE  LET r == DnLoad(n, s, d)
         IN  /\ r.reply.k = "stall" => r.d.state = "error"
             /\ r.reply.k # "stall" /\ n # 0 =>
                  /\ r.reply.k = "out" /\ "download" \in d.allow
                  /\ r.d.state = "dnLoadSync" /\ r.d.expected = n /\ r.d.allow = d.allow
             /\ r.reply.k # "stall" /\ n = 0 =>
                  r.reply.k = "ack" /\ r.d.state \in {"error", "manifestSync"}
<1> DEFINE r == DnLoad(n, s, d)
<1>1. \A e : Fails(s, d, e).reply.k = "stall" /\ Fails(s, d, e).d.state = "error"
  <2>1. ASSUME NEW e, NEW x, x = [d EXCEPT !.state = "error", !.error = e]
        PROVE  x.state = "error"
    BY <2>1 DEF IsDfu
  <2> QED
    BY <2>1 DEF Fails, Handled, Reply
<1>2. CASE \E e : r = Fails(s, d, e)
  BY <1>1, <1>2
<1>3. CASE ~ \E e : r = Fails(s, d, e)
  <2>1. /\ "download" \in d.allow
        /\ n = 0 => r = Handled(s, [d EXCEPT !.state = IF d.state = "idle" THEN "error"
                                                       ELSE "manifestSync"], Reply("ack", << >>))
        /\ n # 0 => r = Handled(s, [d EXCEPT !.state = "dnLoadSync", !.expected = n],
                                Reply("out", << >>))
    BY <1>3 DEF DnLoad
  <2>2. CASE n = 0
    <3>1. [d EXCEPT !.state = IF d.state = "idle" THEN "error" ELSE "manifestSync"].state
            \in {"error", "manifestSync"}
      BY DEF IsDfu
    <3>2. /\ r.reply.k = "ack"
          /\ r.d = [d EXCEPT !.state = IF d.state = "idle" THEN "error" ELSE "manifestSync"]
      BY <2>1, <2>2 DEF Handled, Reply
    <3> HIDE DEF r
    <3>3. r.reply.k = "ack" /\ r.d.state \in {"error", "manifestSync"}
      BY <3>1, <3>2
    <3> QED
      BY <2>2, <3>3 DEF r
  <2>3. CASE n # 0
    <3>1. ASSUME NEW x, x = [d EXCEPT !.state = "dnLoadSync", !.expected = n]
          PROVE  x.state = "dnLoadSync" /\ x.expected = n /\ x.allow = d.allow
      BY <3>1 DEF IsDfu
    <3>2. r.reply.k = "out" /\ r.d = [d EXCEPT !.state = "dnLoadSync", !.expected = n]
      BY <2>1, <2>3 DEF Handled, Reply
    <3> HIDE DEF r
    <3>3. ASSUME NEW x, x = r.d PROVE x.state = "dnLoadSync" /\ x.expected = n /\ x.allow = d.allow
      <4>1. x = [d EXCEPT !.state = "dnLoadSync", !.expected = n]
        BY <3>2, <3>3
      <4> QED
        BY <3>1, <4>1
    <3>4. r.d.state = "dnLoadSync" /\ r.d.expected = n /\ r.d.allow = d.allow
      BY <3>3
    <3> QED
      BY <2>1, <2>3, <3>2, <3>4 DEF r
  <2> QED
    BY <2>2, <2>3
<1> QED
  BY <1>2, <1>3

LEMMA DownloadsFaithful ==
  ASSUME TInv, Faithful, HostDownloads
  PROVE  Faithful'
<1> DEFINE h == Heard(session)
           r == DnLoad(BlockLength, h, dfu)
<1>1. /\ host.pc = "download" /\ Answers(r) /\ chip' = chip /\ transport' = transport
      /\ IF r.reply.k = "stall" THEN HostEnds("failed")
         ELSE host' = [host EXCEPT !.pc = "data", !.chunk = 0]
  BY DEF HostDownloads, Request
<1>2. BlockLength \in 0..BlockUnits /\ BlockLength \in Nat /\ BlockLength # 0
  BY <1>1, LengthOfBlock, RescueAssumption DEF TInv, WithinFile, Downloading
<1>3. IsDfu(r.d) /\ r.s = h /\ IsDfu(dfu)
  BY <1>2, ClassRequests, ClassRequestsTyped DEF TInv
<1>4. /\ r.reply.k = "stall" => r.d.state = "error"
      /\ r.reply.k # "stall" =>
           /\ r.reply.k = "out" /\ "download" \in dfu.allow
           /\ r.d.state = "dnLoadSync" /\ r.d.expected = BlockLength
  BY <1>2, <1>3, DnLoadReplies
<1>5. /\ \A mode, f, k : TakenBlocks(chip, mode, f, session, store, k) =>
                           TakenBlocks(chip, mode, f, h, store, k)
  BY HeardTaken DEF TInv
<1> HIDE DEF h, r
<1>6. store' = store /\ session' = h /\ dfu' = r.d
  BY <1>1, <1>3, <1>4, AnswerRests
<1>7. CASE r.reply.k = "stall"
  <2>1. StateRests
    BY <1>4, <1>6, <1>7 DEF StateRests
  <2> QED
    BY <1>1, <1>7, <2>1, EndFaithful DEF TInv
<1>8. CASE r.reply.k # "stall"
  <2>1. host' = [pc |-> "data", op |-> host.op, mode |-> host.mode, file |-> host.file,
                 block |-> host.block, chunk |-> 0, got |-> host.got,
                 result |-> host.result, reset |-> host.reset]
    <3>1. ASSUME NEW x, x = [host EXCEPT !.pc = "data", !.chunk = 0]
          PROVE  x = [pc |-> "data", op |-> host.op, mode |-> host.mode, file |-> host.file,
                      block |-> host.block, chunk |-> 0, got |-> host.got,
                      result |-> host.result, reset |-> host.reset]
      BY <3>1 DEF TInv, HostInv, IsHost
    <3> QED
      BY <1>1, <1>8, <3>1
  <2>2. host.result = "none" /\ host.op \in {"send", "recv"}
    BY <1>1 DEF Faithful, OperationInv
  <2>3. BlockLength' = BlockLength /\ First' = 0
    BY <2>1, DfuAssumption DEF BlockLength, First
  <2>4. OperationInv' /\ SuccessIsTrue' /\ UploadInv'
    BY <1>1, <2>1, <2>2 DEF Faithful, OperationInv, SuccessIsTrue, UploadInv
  <2>5. StateInv'
    BY <1>1, <1>4, <1>6, <1>8, <2>1, <2>3 DEF StateInv
  <2>6. BufferInv'
    BY <2>3 DEF BufferInv
  <2>7. TransferInv'
    <3>1. ~host.reset => Taken_(host.block)
      BY <1>1, <1>4, <1>8 DEF Faithful, TransferInv
    <3>2. ~host.reset => TakenBlocks(chip, host.mode, host.file, session', store', host.block)
      BY <1>5, <1>6, <3>1 DEF Taken_
    <3> QED
      BY <1>1, <2>1, <3>2 DEF TransferInv, Taken_
  <2> QED
    BY <2>4, <2>5, <2>6, <2>7 DEF Faithful
<1> QED
  BY <1>7, <1>8

LEMMA FinishesFaithful ==
  ASSUME TInv, Faithful, HostFinishes
  PROVE  Faithful'
<1> DEFINE h == Heard(session)
           r == DnLoad(0, h, dfu)
<1>1. /\ host.pc = "end" /\ Answers(r) /\ chip' = chip /\ transport' = transport
      /\ IF r.reply.k = "stall" THEN HostEnds("failed") ELSE HostGoes("endStatus")
  BY DEF HostFinishes, Request
<1>2. IsDfu(r.d) /\ r.s = h /\ IsDfu(dfu)
  BY ClassRequests, ClassRequestsTyped, RescueAssumption DEF TInv
<1>3. /\ r.reply.k = "stall" => r.d.state = "error"
      /\ r.reply.k # "stall" => r.reply.k = "ack" /\ r.d.state \in {"error", "manifestSync"}
  BY <1>2, DnLoadReplies
<1>4. \A mode, f, k : TakenBlocks(chip, mode, f, session, store, k) =>
                        TakenBlocks(chip, mode, f, h, store, k)
  BY HeardTaken DEF TInv
<1> HIDE DEF h, r
<1>5. store' = store /\ session' = h /\ dfu' = r.d
  BY <1>1, <1>2, <1>3, AnswerRests
<1>6. StateRests
  BY <1>3, <1>5 DEF StateRests
<1>7. CASE r.reply.k = "stall"
  BY <1>1, <1>6, <1>7, EndFaithful DEF TInv
<1>8. CASE r.reply.k # "stall"
  <2>1. host' = [pc |-> "endStatus", op |-> host.op, mode |-> host.mode, file |-> host.file,
                 block |-> host.block, chunk |-> host.chunk, got |-> host.got,
                 result |-> host.result, reset |-> host.reset]
    BY <1>1, <1>8 DEF HostGoes, TInv, HostInv, IsHost
  <2>2. host.result = "none" /\ host.op \in {"send", "recv"}
    BY <1>1 DEF Faithful, OperationInv
  <2>3. OperationInv' /\ SuccessIsTrue' /\ UploadInv' /\ BufferInv'
    BY <1>1, <2>1, <2>2 DEF Faithful, OperationInv, SuccessIsTrue, UploadInv, BufferInv
  <2>4. StateInv'
    BY <1>1, <1>6, <2>1 DEF StateInv, StateRests
  <2>5. TransferInv'
    <3>1. ~host.reset => Taken_(host.block + 1)
      BY <1>1 DEF Faithful, TransferInv
    <3>2. ~host.reset => TakenBlocks(chip, host.mode, host.file, session', store', host.block + 1)
      BY <1>4, <1>5, <3>1 DEF Taken_
    <3> QED
      BY <1>1, <2>1, <3>2 DEF TransferInv, Taken_
  <2> QED
    BY <2>3, <2>4, <2>5 DEF Faithful
<1> QED
  BY <1>7, <1>8

LEMMA StatusReplies ==
  ASSUME NEW s, NEW d, IsDfu(d)
  PROVE  LET r == GetStatus(s, d)
         IN  /\ r.s = s /\ r.reply.k = "status"
             /\ r.reply.data[1] = StateAfterStatus(d.state) /\ r.reply.data[2] = d.error
             /\ r.d.state = StateAfterStatus(d.state) /\ r.d.error = d.error
             /\ r.d.allow = d.allow /\ r.d.state # "dnLoadSync"
<1> DEFINE r == GetStatus(s, d)
           state == StateAfterStatus(d.state)
<1>1. state # "dnLoadSync"
  BY DEF StateAfterStatus
<1> HIDE DEF state
<1>2. /\ r.s = s /\ r.reply.k = "status" /\ r.reply.data = << state, d.error >>
      /\ r.d = [d EXCEPT !.state = state]
  BY DEF GetStatus, Handled, Reply, state
<1>3. /\ [d EXCEPT !.state = state].state = state
      /\ [d EXCEPT !.state = state].error = d.error
      /\ [d EXCEPT !.state = state].allow = d.allow
  BY DEF IsDfu
<1> QED
  BY <1>1, <1>2, <1>3 DEF state

LEMMA PollsFaithful ==
  ASSUME TInv, Faithful, HostPolls
  PROVE  Faithful'
<1> DEFINE h == Heard(session)
           r == GetStatus(h, dfu)
           state == r.reply.data[1]
           error == r.reply.data[2]
           more == (host.block + 1) * BlockUnits < FileUnits[host.file]
<1>1. /\ host.pc = "status" /\ Answers(r) /\ chip' = chip /\ transport' = transport
      /\ IF r.reply.k = "stall" THEN HostEnds("failed")
         ELSE CASE state \notin {"dnLoadIdle", "error"} -> UNCHANGED host
                [] state \in {"dnLoadIdle", "error"} /\ error /= "ok" -> HostEnds("failed")
                [] OTHER -> host' = [host EXCEPT !.pc = IF more THEN "download" ELSE "end",
                                                 !.block = IF more THEN @ + 1 ELSE @]
  BY DEF HostPolls, Request
<1>2. IsDfu(r.d) /\ IsDfu(dfu)
  BY ClassRequestsTyped DEF TInv
<1>3. /\ r.s = h /\ r.reply.k = "status"
      /\ state = StateAfterStatus(dfu.state) /\ error = dfu.error
      /\ r.d.state = state /\ r.d.error = dfu.error /\ r.d.state # "dnLoadSync"
  BY <1>2, StatusReplies
<1>4. /\ \A mode, f, k : TakenBlocks(chip, mode, f, session, store, k) =>
                           TakenBlocks(chip, mode, f, h, store, k)
  BY HeardTaken DEF TInv
<1>5. /\ ~host.reset => state = "dnLoadIdle"
      /\ transport = "usb" => ~host.reset
  BY <1>1, <1>3 DEF Faithful, StateInv, OperationInv, StateAfterStatus
<1>6. \/ state \notin {"dnLoadIdle", "error"} /\ UNCHANGED host
      \/ HostEnds("failed")
      \/ error = "ok" /\ host' = [host EXCEPT !.pc = IF more THEN "download" ELSE "end",
                                                !.block = IF more THEN @ + 1 ELSE @]
  <2> HIDE DEF state, error, r, more
  <2> QED
    BY <1>1, <1>3
<1> HIDE DEF h, r, state, error
<1>7. store' = store /\ session' = h /\ dfu' = r.d
  BY <1>1, <1>2, <1>3, <1>5, AnswerRests
<1>8. host.result = "none" /\ host.op \in {"send", "recv"}
  BY <1>1 DEF Faithful, OperationInv
<1>9. CASE HostEnds("failed")
  <2>1. StateRests
    BY <1>1, <1>3, <1>5, <1>7 DEF StateRests
  <2> QED
    BY <1>1, <1>9, <2>1, EndFaithful DEF TInv
<1>10. CASE state \notin {"dnLoadIdle", "error"} /\ UNCHANGED host
  <2>1. host.reset /\ transport # "usb"
    BY <1>5, <1>10
  <2> QED
    BY <1>1, <1>8, <1>10, <2>1
       DEF Faithful, OperationInv, StateInv, TransferInv, BufferInv, UploadInv, SuccessIsTrue
<1>11. CASE error = "ok" /\ host' = [host EXCEPT !.pc = IF more THEN "download" ELSE "end",
                                                 !.block = IF more THEN @ + 1 ELSE @]
  <2> DEFINE pc == IF more THEN "download" ELSE "end"
             b == IF more THEN host.block + 1 ELSE host.block
  <2>1. host' = [pc |-> pc, op |-> host.op, mode |-> host.mode, file |-> host.file,
                 block |-> b, chunk |-> host.chunk, got |-> host.got,
                 result |-> host.result, reset |-> host.reset]
    <3>1. host' = [host EXCEPT !.pc = pc, !.block = b]
      BY <1>11
    <3> HIDE DEF pc, b
    <3>2. ASSUME NEW x, x = [host EXCEPT !.pc = pc, !.block = b]
          PROVE  x = [pc |-> pc, op |-> host.op, mode |-> host.mode, file |-> host.file,
                      block |-> b, chunk |-> host.chunk, got |-> host.got,
                      result |-> host.result, reset |-> host.reset]
      BY <3>2 DEF TInv, HostInv, IsHost
    <3> QED
      BY <3>1, <3>2
  <2>2. ~ more => (host.block + 1) * BlockUnits >= FileUnits[host.file]
    <3>1. (host.block + 1) * BlockUnits \in Int /\ FileUnits[host.file] \in Int
      BY <1>1, RescueAssumption DEF TInv, WithinFile, Downloading
    <3> QED
      BY <3>1
  <2> HIDE DEF more
  <2>3. OperationInv'
    BY <1>1, <1>8, <2>1, <2>2 DEF Faithful, OperationInv
  <2>4. SuccessIsTrue' /\ UploadInv' /\ BufferInv'
    BY <1>8, <2>1 DEF SuccessIsTrue, UploadInv, BufferInv
  <2>5. StateInv'
    BY <1>1, <1>3, <1>5, <1>7, <2>1 DEF StateInv
  <2>6. TransferInv'
    <3>1. ~host.reset => Taken_(host.block + 1)
      BY <1>1, <1>3, <1>11 DEF Faithful, TransferInv
    <3>2. ~host.reset => TakenBlocks(chip, host.mode, host.file, session', store', host.block + 1)
      BY <1>4, <1>7, <3>1 DEF Taken_
    <3> QED
      BY <1>1, <2>1, <3>2 DEF TransferInv, Taken_
  <2> QED
    BY <2>3, <2>4, <2>5, <2>6 DEF Faithful
<1> QED
  BY <1>6, <1>9, <1>10, <1>11

LEMMA UploadsFaithful ==
  ASSUME TInv, Faithful, HostUploads
  PROVE  Faithful'
<1> DEFINE h == Heard(session)
           r == UpLoad(h, dfu)
<1>1. /\ host.pc = "upload" /\ Answers(r) /\ chip' = chip /\ transport' = transport
      /\ IF r.reply.k = "stall" THEN HostEnds("failed")
         ELSE host' = [host EXCEPT !.pc = "uploadStatus", !.got = r.reply.data]
  BY DEF HostUploads, Request
<1>2. IsDfu(r.d) /\ r.s = h /\ IsDfu(dfu)
  BY ClassRequests, ClassRequestsTyped DEF TInv
<1>3. /\ r.reply.k = "stall" => r.d.state = "error"
      /\ r.reply.k # "stall" =>
           /\ r.reply.k = "in" /\ "upload" \in dfu.allow /\ r.d.state = "upLoadIdle"
           /\ r.reply.data = SubSeq(h.data, 1, h.staged)
  <2>1. \A e : Fails(h, dfu, e).reply.k = "stall" /\ Fails(h, dfu, e).d.state = "error"
    <3>1. ASSUME NEW e, NEW x, x = [dfu EXCEPT !.state = "error", !.error = e]
          PROVE  x.state = "error"
      BY <1>2, <3>1 DEF IsDfu
    <3> QED
      BY <3>1 DEF Fails, Handled, Reply
  <2>2. CASE \E e : r = Fails(h, dfu, e)
    BY <2>1, <2>2
  <2>3. CASE ~ \E e : r = Fails(h, dfu, e)
    <3>1. /\ "upload" \in dfu.allow
          /\ r = Handled(h, [dfu EXCEPT !.state = "upLoadIdle"],
                         Reply("in", SubSeq(h.data, 1, h.staged)))
      BY <2>3 DEF UpLoad
    <3>2. [dfu EXCEPT !.state = "upLoadIdle"].state = "upLoadIdle"
      BY <1>2 DEF IsDfu
    <3>3. /\ r.reply.k = "in" /\ r.reply.data = SubSeq(h.data, 1, h.staged)
          /\ r.d = [dfu EXCEPT !.state = "upLoadIdle"]
      BY <3>1 DEF Handled, Reply
    <3> HIDE DEF r, h
    <3> QED
      BY <3>1, <3>2, <3>3
  <2> QED
    BY <2>2, <2>3
<1>4. h.data = session.data /\ h.staged = session.staged /\ h \in Sessions
  BY HeardTaken DEF TInv
<1> HIDE DEF h, r
<1>5. store' = store
  BY <1>1, <1>2, <1>3, AnswerRests
<1>6. CASE r.reply.k = "stall"
  <2>1. dfu' = r.d
    BY <1>1, <1>2, <1>3, <1>6, AnswerRests
  <2>2. StateRests
    BY <1>3, <1>6, <2>1 DEF StateRests
  <2> QED
    BY <1>1, <1>6, <2>2, EndFaithful DEF TInv
<1>7. CASE r.reply.k # "stall"
  <2>1. host' = [pc |-> "uploadStatus", op |-> host.op, mode |-> host.mode, file |-> host.file,
                 block |-> host.block, chunk |-> host.chunk, got |-> r.reply.data,
                 result |-> host.result, reset |-> host.reset]
    <3>1. ASSUME NEW x, x = [host EXCEPT !.pc = "uploadStatus", !.got = r.reply.data]
          PROVE  x = [pc |-> "uploadStatus", op |-> host.op, mode |-> host.mode,
                      file |-> host.file, block |-> host.block, chunk |-> host.chunk,
                      got |-> r.reply.data, result |-> host.result, reset |-> host.reset]
      BY <3>1 DEF TInv, HostInv, IsHost
    <3> QED
      BY <1>1, <1>7, <3>1
  <2>2. host.result = "none" /\ host.op = "recv"
    BY <1>1 DEF Faithful, OperationInv
  <2>3. OperationInv' /\ SuccessIsTrue' /\ BufferInv' /\ TransferInv'
    BY <1>1, <2>1, <2>2 DEF Faithful, OperationInv, SuccessIsTrue, BufferInv, TransferInv
  <2>4. StateInv'
    <3>1. transport = "usb" => dfu'.state # "dnLoadSync"
      BY <1>1, <1>2, <1>3, <1>7, AnswerRests
    <3> QED
      BY <1>1, <2>1, <3>1 DEF StateInv
  <2>5. UploadInv'
    <3>1. ASSUME ~host.reset PROVE r.reply.data = Content(host.mode, store)
      <4>1. session.data = Content(host.mode, store) /\ session.staged = Len(session.data)
        BY <1>1, <1>3, <1>7, <3>1 DEF Faithful, UploadInv
      <4>2. session.data \in Seq(Units)
        BY DEF TInv, Sessions, Buffers
      <4>3. SubSeq(session.data, 1, Len(session.data)) = session.data
        BY <4>2
      <4> QED
        BY <1>3, <1>4, <1>7, <4>1, <4>3
    <3> QED
      BY <1>5, <2>1, <3>1 DEF UploadInv
  <2> QED
    BY <2>3, <2>4, <2>5 DEF Faithful
<1> QED
  BY <1>6, <1>7

\* A download that has come to its end is stored.
LEMMA TakenIsStored ==
  ASSUME TInv, Faithful, host.pc = "endStatus", ~host.reset
  PROVE  Stored
<1>1. /\ Taken_(host.block + 1) /\ (host.block + 1) * BlockUnits >= FileUnits[host.file]
      /\ host.op = "send"
  BY DEF Faithful, TransferInv, OperationInv, TInv, WithinFile, Downloading
<1>2. host.file \in Files /\ host.block \in Nat /\ host.mode \in RecvModes
  BY <1>1, DfuAssumption DEF Faithful, OperationInv, TInv, WithinFile
<1>3. host.block + 1 \in Nat /\ host.block + 1 > 0
  BY <1>2
<1>4. /\ (host.block + 1) * BlockUnits \in Int /\ FileUnits[host.file] \in Int
  BY <1>2, RescueAssumption
<1>5. CASE host.mode \in FirmwareModes
  <2>1. Holds(chip, store, BankOf(host.mode), host.file)
    <3>1. FileUnits[host.file] <= (host.block + 1) * BlockUnits
      BY <1>1, <1>4
    <3> QED
      BY <1>1, <1>2, <1>3, <1>5, <3>1, TakenIsHeld DEF Taken_
  <2> QED
    BY <1>5, <2>1 DEF Stored, FirmwareModes
<1>6. CASE host.mode = "ownerBlock"
  BY <1>1, <1>3, <1>6 DEF Taken_, TakenBlocks, Stored, FirmwareModes
<1>7. CASE host.mode = "bootSvcReq"
  BY <1>1, <1>3, <1>7 DEF Taken_, TakenBlocks, Stored, FirmwareModes
<1> QED
  BY <1>2, <1>5, <1>6, <1>7 DEF RecvModes

LEMMA ReadsStatusFaithful ==
  ASSUME TInv, Faithful, HostReadsStatus
  PROVE  Faithful'
<1> DEFINE h == Heard(session)
           r == GetStatus(h, dfu)
           result == IF host.pc = "endStatus" THEN "acked" ELSE "received"
<1>1. IsDfu(r.d) /\ IsDfu(dfu)
  BY ClassRequestsTyped DEF TInv
<1>2. r.s = h /\ r.reply.k = "status" /\ r.d.state # "dnLoadSync"
  BY <1>1, StatusReplies
<1>3. /\ host.pc \in {"endStatus", "uploadStatus"} /\ Answers(r)
      /\ chip' = chip /\ transport' = transport /\ HostEnds(result)
  BY <1>2 DEF HostReadsStatus, Request
<1> HIDE DEF h, r
<1>4. store' = store /\ StateRests
  BY <1>1, <1>2, <1>3, AnswerRests DEF StateRests
<1>5. host' = [pc |-> "idle", op |-> host.op, mode |-> host.mode, file |-> host.file,
               block |-> host.block, chunk |-> host.chunk, got |-> host.got,
               result |-> result, reset |-> host.reset]
  BY <1>3 DEF HostEnds, TInv, HostInv, IsHost
<1>6. /\ host.pc = "endStatus" => host.op = "send"
      /\ host.pc = "uploadStatus" => host.op = "recv"
  BY DEF TInv, WithinFile, Downloading, Faithful, OperationInv
<1>7. OperationInv' /\ StateInv' /\ TransferInv' /\ BufferInv' /\ UploadInv'
  BY <1>3, <1>4, <1>5, <1>6
     DEF Faithful, OperationInv, StateInv, StateRests, TransferInv, BufferInv, UploadInv
<1>8. SuccessIsTrue'
  <2>1. CASE host.pc = "endStatus"
    <3>1. ~host.reset => Stored
      BY <2>1, TakenIsStored
    <3>2. Stored => Stored'
      BY <1>3, <1>4, <1>5 DEF Stored, Holds
    <3> QED
      BY <1>5, <2>1, <3>1, <3>2 DEF SuccessIsTrue
  <2>2. CASE host.pc = "uploadStatus"
    <3>1. ~host.reset => host.got = Content(host.mode, store)
      BY <2>2 DEF Faithful, UploadInv
    <3> QED
      BY <1>4, <1>5, <2>2, <3>1 DEF SuccessIsTrue
  <2> QED
    BY <1>3, <2>1, <2>2
<1> QED
  BY <1>7, <1>8 DEF Faithful

\* Data: what the host sends is what the buffer holds.

LEMMA ChunksFit ==
  ASSUME NEW c \in Nat, c * ChunkUnits < BlockUnits
  PROVE  (c + 1) * ChunkUnits <= BlockUnits
<1>1. ChunkUnits \in Nat \ {0} /\ BlockUnits \in Nat /\ BlockUnits % ChunkUnits = 0
  BY DfuAssumption, RescueAssumption
<1> DEFINE q == BlockUnits \div ChunkUnits
<1>2. q \in Nat /\ BlockUnits = ChunkUnits * q
  BY <1>1
<1> HIDE DEF q
<1>3. ASSUME NEW a \in Nat, NEW b \in Nat, a <= b PROVE a * ChunkUnits <= b * ChunkUnits
  <2>1. PICK j \in Nat : b = a + j
    <3>1. b - a \in Nat /\ b = a + (b - a)
      BY <1>3
    <3> QED
      BY <3>1
  <2>2. b * ChunkUnits = a * ChunkUnits + j * ChunkUnits /\ j * ChunkUnits \in Nat
        /\ a * ChunkUnits \in Nat
    BY <1>1, <2>1
  <2> QED
    BY <2>2
<1>4. q * ChunkUnits = BlockUnits
  BY <1>1, <1>2
<1>5. ~ (q <= c)
  <2>1. c * ChunkUnits \in Nat
    BY <1>1
  <2> QED
    BY <1>1, <1>2, <1>3, <1>4, <2>1
<1>6. c + 1 <= q /\ c + 1 \in Nat
  BY <1>2, <1>5
<1> QED
  BY <1>2, <1>3, <1>4, <1>6

LEMMA OneBlock ==
  ASSUME TInv, Faithful, host.pc = "data", host.mode \in {"ownerBlock", "bootSvcReq"}
  PROVE  host.block = 0
<1>1. host.op = "send" /\ host.block \in Nat /\ host.block * BlockUnits < FileUnits[host.file]
      /\ host.file \in Files
  BY DEF TInv, WithinFile, Downloading
<1>2. FileUnits[host.file] <= BlockUnits
  BY <1>1, DfuAssumption DEF Faithful, OperationInv
<1>3. BlockUnits \in Nat \ {0} /\ FileUnits[host.file] \in Nat
  BY <1>1, RescueAssumption
<1>4. ASSUME host.block # 0 PROVE FALSE
  <2>1. PICK j \in Nat : host.block = j + 1
    <3>1. host.block - 1 \in Nat /\ host.block = (host.block - 1) + 1
      BY <1>1, <1>4
    <3> QED
      BY <3>1
  <2>2. host.block * BlockUnits = j * BlockUnits + BlockUnits /\ j * BlockUnits \in Nat
    BY <1>3, <2>1
  <2> QED
    BY <1>1, <1>2, <1>3, <2>2
<1> QED
  BY <1>4

LEMMA CopiedSession ==
  ASSUME TInv, host.pc = "data"
  PROVE  LET s == Copied(session, host.chunk, Chunk)
         IN  /\ s \in Sessions /\ s.mode = session.mode
             /\ s.flashOffset = session.flashOffset /\ s.flashBegin = session.flashBegin
             /\ s.data \in FullPages /\ Len(s.data) = BlockUnits
             /\ \A i \in 1..BlockUnits :
                  s.data[i] = IF i - First \in 1..Len(Chunk) THEN Chunk[i - First]
                              ELSE Unit(session.data, i)
<1> DEFINE s == Copied(session, host.chunk, Chunk)
           data == [i \in 1..BlockUnits |->
                      IF i - First \in 1..Len(Chunk) THEN Chunk[i - First]
                      ELSE Unit(session.data, i)]
<1>1. Chunk \in Seq(Units) /\ host.chunk \in Nat
  BY LengthOfChunk DEF TInv, WithinFile
<1>2. s \in Sessions
  BY <1>1, DataTyped DEF TInv
<1>3. s = [session EXCEPT !.data = data]
  BY DEF Copied, First
<1> HIDE DEF data
<1>4. /\ s.mode = session.mode /\ s.flashOffset = session.flashOffset
      /\ s.flashBegin = session.flashBegin /\ s.data = data
  BY <1>3 DEF TInv, Sessions
<1>5. DOMAIN data = 1..BlockUnits
  BY DEF data
<1>6. s.data \in Seq(Units)
  BY <1>2 DEF Sessions, Buffers
<1>7. Len(s.data) = BlockUnits
  <2>1. DOMAIN s.data = 1..Len(s.data) /\ Len(s.data) \in Nat /\ BlockUnits \in Nat
    BY <1>6, LenProperties, RescueAssumption
  <2> QED
    BY <1>4, <1>5, <2>1
<1>8. s.data \in FullPages
  BY <1>2, <1>7, PageTyped DEF Sessions
<1> QED
  BY <1>2, <1>4, <1>7, <1>8 DEF data

LEMMA CopiedIsFile ==
  ASSUME TInv, Faithful, host.pc = "data", ~host.reset,
         Base(host.file) + host.block < FlashLimit, NEW i \in 1..Last
  PROVE  /\ i \in 1..BlockUnits
         /\ Copied(session, host.chunk, Chunk).data[i]
              = FileUnit(host.file, host.block * BlockUnits + i)
<1> DEFINE data == Copied(session, host.chunk, Chunk).data
<1>1. /\ First \in Nat /\ Last - First \in 1..ChunkUnits /\ Last <= BlockLength
      /\ BlockLength \in 1..BlockUnits /\ Len(Chunk) = Last - First
      /\ Last \in Int /\ BlockUnits \in Nat
  BY LengthOfChunk, RescueAssumption DEF TInv, WithinFile
<1>2. i \in 1..BlockUnits
  BY <1>1
<1>3. data[i] = IF i - First \in 1..Len(Chunk) THEN Chunk[i - First] ELSE Unit(session.data, i)
  BY <1>2, CopiedSession
<1> HIDE DEF data
<1>4. CASE i > First
  <2>1. i - First \in 1..(Last - First)
    BY <1>1, <1>4
  <2>2. Chunk[i - First] = FileUnit(host.file, host.block * BlockUnits + First + (i - First))
    BY <2>1 DEF Chunk
  <2>3. host.block * BlockUnits \in Nat
    BY <1>1 DEF TInv, WithinFile, Downloading
  <2>4. host.block * BlockUnits + First + (i - First) = host.block * BlockUnits + i
    BY <1>1, <2>3
  <2> QED
    BY <1>1, <1>2, <1>3, <2>1, <2>2, <2>4 DEF data
<1>5. CASE ~ (i > First)
  <2>1. i \in 1..First /\ ~ (i - First \in 1..Len(Chunk))
    BY <1>1, <1>5
  <2>2. i <= Len(session.data)
        /\ session.data[i] = FileUnit(host.file, host.block * BlockUnits + i)
    BY <2>1 DEF Faithful, BufferInv
  <2> QED
    BY <1>2, <1>3, <2>1, <2>2 DEF Unit, data
<1> QED
  BY <1>4, <1>5

\* With its last chunk, the block is complete.
LEMMA FilledIsBlock ==
  ASSUME TInv, Faithful, host.pc = "data", ~host.reset, Last = BlockLength,
         Base(host.file) + host.block < FlashLimit
  PROVE  Filled(Copied(session, host.chunk, Chunk), Last).data = Block(host.file, host.block)
<1> DEFINE s == Copied(session, host.chunk, Chunk)
           at == host.block * BlockUnits
           data == [i \in 1..BlockUnits |-> IF i <= Last THEN Unit(s.data, i) ELSE FF]
<1>1. /\ s \in Sessions /\ Len(s.data) = BlockUnits
      /\ \A i \in 1..Last : i \in 1..BlockUnits /\ s.data[i] = FileUnit(host.file, at + i)
  BY CopiedSession, CopiedIsFile
<1>2. /\ BlockLength \in 1..BlockUnits /\ at \in Nat /\ BlockUnits \in Nat
      /\ host.file \in Files /\ FileUnits[host.file] \in Nat
      /\ BlockLength = BlockUnits \/ BlockLength = FileUnits[host.file] - at
  BY LengthOfBlock, RescueAssumption DEF TInv, WithinFile, Downloading
<1> HIDE DEF s, at
<1>3. ASSUME NEW i \in 1..BlockUnits
      PROVE  (IF i <= Last THEN Unit(s.data, i) ELSE FF) = FileUnit(host.file, at + i)
  <2>1. CASE i <= Last
    <3>1. i \in 1..Last /\ i <= Len(s.data)
      BY <1>1, <1>2, <2>1
    <3> QED
      BY <1>1, <2>1, <3>1 DEF Unit
  <2>2. CASE ~ (i <= Last)
    <3>1. ~ (at + i \in 1..FileUnits[host.file])
      BY <1>2, <2>2
    <3> QED
      BY <2>2, <3>1 DEF FileUnit
  <2> QED
    BY <2>1, <2>2
<1>4. data = Block(host.file, host.block)
  BY <1>3 DEF Block, at
<1>5. ASSUME NEW d, NEW t, t = [s EXCEPT !.offset = BlockUnits, !.data = d] PROVE t.data = d
  BY <1>1, <1>5 DEF Sessions
<1> HIDE DEF data
<1>6. ASSUME NEW t, t = Filled(s, Last) PROVE t.data = data
  <2>1. t = [s EXCEPT !.offset = BlockUnits, !.data = data]
    BY <1>6 DEF Filled, data
  <2> QED
    BY <1>5, <2>1
<1> QED
  BY <1>4, <1>6 DEF s

LEMMA FilledSession ==
  ASSUME NEW s \in Sessions, NEW n \in Nat
  PROVE  LET t == Filled(s, n)
         IN  /\ t \in Sessions /\ t.offset = BlockUnits /\ t.mode = s.mode
             /\ t.flashOffset = s.flashOffset /\ t.flashBegin = s.flashBegin
<1>1. ASSUME NEW d, NEW t, t = [s EXCEPT !.offset = BlockUnits, !.data = d]
      PROVE  /\ t.offset = BlockUnits /\ t.mode = s.mode
             /\ t.flashOffset = s.flashOffset /\ t.flashBegin = s.flashBegin
  BY <1>1 DEF Sessions
<1>2. Filled(s, n) \in Sessions
  BY DataTyped
<1>3. ASSUME NEW t, t = Filled(s, n)
      PROVE  /\ t.offset = BlockUnits /\ t.mode = s.mode
             /\ t.flashOffset = s.flashOffset /\ t.flashBegin = s.flashBegin
  <2> DEFINE d == [i \in 1..BlockUnits |-> IF i <= n THEN Unit(s.data, i) ELSE FF]
  <2>1. t = [s EXCEPT !.offset = BlockUnits, !.data = d]
    BY <1>3 DEF Filled
  <2> HIDE DEF d
  <2> QED
    BY <1>1, <2>1
<1> QED
  BY <1>2, <1>3

\* The block that is complete is taken, if the chip says so.
LEMMA CompletedIsTaken ==
  ASSUME TInv, Faithful, host.pc = "data", ~host.reset, Last = BlockLength
  PROVE  LET s == Copied(session, host.chunk, Chunk)
             done == Completed(s, [dfu EXCEPT !.expected = 0], Last)
         IN  /\ done.d.state = "dnLoadIdle"
             /\ done.d.error = "ok" =>
                  TakenBlocks(chip, host.mode, host.file, done.s, done.st, host.block + 1)
<1> DEFINE s == Copied(session, host.chunk, Chunk)
           t == Filled(s, Last)
           d == [dfu EXCEPT !.expected = 0]
           r == RecvHandler(chip, t, store)
           done == Completed(s, d, Last)
<1>1. /\ s \in Sessions /\ s.mode = session.mode
      /\ s.flashOffset = session.flashOffset /\ s.flashBegin = session.flashBegin
  BY CopiedSession
<1>2. Last \in Nat
  BY LengthOfChunk DEF TInv, WithinFile
<1>3. /\ t \in Sessions /\ t.offset = BlockUnits /\ t.mode = s.mode
      /\ t.flashOffset = s.flashOffset /\ t.flashBegin = s.flashBegin
  BY <1>1, <1>2, FilledSession
<1>4. Base(host.file) + host.block < FlashLimit => t.data = Block(host.file, host.block)
  BY FilledIsBlock
<1>5. host.mode \in RecvModes /\ host.file \in Files /\ host.block \in Nat
  BY DfuAssumption DEF Faithful, OperationInv, TInv, WithinFile, Downloading
<1>6. host.mode \in {"ownerBlock", "bootSvcReq"} => host.block = 0
  BY OneBlock
<1>7. d.state = "dnLoadSync" /\ IsDfu(d)
  <2>1. dfu.state = "dnLoadSync"
    BY DEF Faithful, StateInv
  <2> QED
    BY <2>1, DfuMoves DEF TInv, IsDfu
<1>8. /\ done.s = r.s /\ done.st = r.st
      /\ done.d = [d EXCEPT !.state = "dnLoadIdle", !.error = IF r.err = "ok" THEN "ok" ELSE "vendor"]
  BY <1>7 DEF Completed
<1> HIDE DEF d, s, t, r, done
<1>9. done.d.state = "dnLoadIdle" /\ (done.d.error = "ok" => r.err = "ok")
  <2>1. ASSUME NEW x, NEW e, x = [d EXCEPT !.state = "dnLoadIdle", !.error = e]
        PROVE  x.state = "dnLoadIdle" /\ x.error = e
    BY <1>7, <2>1 DEF IsDfu
  <2> DEFINE e == IF r.err = "ok" THEN "ok" ELSE "vendor"
  <2>2. ASSUME NEW x, x = done.d PROVE x = [d EXCEPT !.state = "dnLoadIdle", !.error = e]
    BY <1>8, <2>2
  <2>3. e = "ok" => r.err = "ok"
    OBVIOUS
  <2> HIDE DEF e
  <2>4. done.d.state = "dnLoadIdle" /\ done.d.error = e
    BY <2>1, <2>2
  <2> QED
    BY <2>3, <2>4
<1>10. TakenBlocks(chip, host.mode, host.file, t, store, host.block)
  <2>1. TakenBlocks(chip, host.mode, host.file, session, store, host.block)
    BY DEF Faithful, TransferInv, Taken_
  <2> QED
    BY <1>1, <1>3, <2>1 DEF TakenBlocks, TakenFirmware
<1>11. r.err = "ok" => TakenBlocks(chip, host.mode, host.file, r.s, r.st, host.block + 1)
  <2>1. store \in Stores
    BY DEF TInv
  <2> QED
    BY <1>3, <1>4, <1>5, <1>6, <1>10, <2>1, BlockTaken DEF r
<1> QED
  BY <1>8, <1>9, <1>11 DEF d, s, done

LEMMA HostSends ==
  ASSUME TInv, HostSendsChunk, host.pc = "data"
  PROVE  /\ Last < BlockLength =>
              host' = [pc |-> "data", op |-> host.op, mode |-> host.mode, file |-> host.file,
                       block |-> host.block, chunk |-> host.chunk + 1, got |-> host.got,
                       result |-> host.result, reset |-> host.reset]
         /\ ~ (Last < BlockLength) =>
              host' = [pc |-> "status", op |-> host.op, mode |-> host.mode, file |-> host.file,
                       block |-> host.block, chunk |-> host.chunk, got |-> host.got,
                       result |-> host.result, reset |-> host.reset]
BY DEF HostSendsChunk, HostGoes, TInv, HostInv, IsHost

\* After a reset that it did not see, nothing is expected of a host.
LEMMA UnawareFaithful ==
  ASSUME TInv, Faithful, host.reset, host.pc = "data", HostSendsChunk,
         UNCHANGED << chip, transport >>
  PROVE  Faithful'
<1>1. transport # "usb" /\ host.result = "none" /\ host.op = "send"
  BY DEF Faithful, OperationInv, TInv, WithinFile, Downloading
<1>2. /\ host'.pc \in {"data", "status"} /\ host'.op = host.op /\ host'.mode = host.mode
      /\ host'.file = host.file /\ host'.result = host.result /\ host'.reset = host.reset
  <2>1. CASE Last < BlockLength
    <3>1. host' = [pc |-> "data", op |-> host.op, mode |-> host.mode, file |-> host.file,
                   block |-> host.block, chunk |-> host.chunk + 1, got |-> host.got,
                   result |-> host.result, reset |-> host.reset]
      BY <2>1, HostSends
    <3> QED
      BY <3>1
  <2>2. CASE ~ (Last < BlockLength)
    <3>1. host' = [pc |-> "status", op |-> host.op, mode |-> host.mode, file |-> host.file,
                   block |-> host.block, chunk |-> host.chunk, got |-> host.got,
                   result |-> host.result, reset |-> host.reset]
      BY <2>2, HostSends
    <3> QED
      BY <3>1
  <2> QED
    BY <2>1, <2>2
<1> QED
  BY <1>1, <1>2 DEF Faithful, OperationInv, StateInv, TransferInv, BufferInv, UploadInv,
                    SuccessIsTrue

LEMMA ChunkArrivesFaithful ==
  ASSUME TInv, Faithful, ChunkArrives
  PROVE  Faithful'
<1> DEFINE s == Copied(session, host.chunk, Chunk)
           done == Completed(s, [dfu EXCEPT !.expected = 0], Last)
<1>1. /\ host.pc = "data" /\ HostSendsChunk /\ chip' = chip /\ transport' = transport
      /\ IF IsLast THEN session' = done.s /\ dfu' = done.d /\ store' = done.st
         ELSE session' = s /\ UNCHANGED << dfu, store >>
  BY DEF ChunkArrives
<1>2. CASE host.reset
  BY <1>1, <1>2, UnawareFaithful
<1>3. CASE ~host.reset
  <2>1. dfu.state = "dnLoadSync" /\ dfu.expected = BlockLength
    BY <1>1, <1>3 DEF Faithful, StateInv
  <2>2. host.result = "none" /\ host.op = "send"
    BY <1>1 DEF Faithful, OperationInv, TInv, WithinFile, Downloading
  <2>3. /\ Last <= BlockLength /\ Last \in Nat /\ BlockLength \in Nat /\ host.chunk \in Nat
        /\ Last < BlockLength => (host.chunk + 1) * ChunkUnits = Last
    BY <1>1, LengthOfChunk DEF TInv, WithinFile
  <2>4. IsLast <=> ~ (Last < BlockLength)
    BY <2>1, <2>3 DEF IsLast
  <2>5. CASE Last < BlockLength
    <3>1. session' = s /\ dfu' = dfu /\ store' = store
      BY <1>1, <2>4, <2>5
    <3>2. host' = [pc |-> "data", op |-> host.op, mode |-> host.mode, file |-> host.file,
                   block |-> host.block, chunk |-> host.chunk + 1, got |-> host.got,
                   result |-> host.result, reset |-> host.reset]
      BY <1>1, <2>5, HostSends
    <3>3. BlockLength' = BlockLength /\ First' = Last
      BY <2>3, <2>5, <3>2 DEF BlockLength, First
    <3>4. OperationInv' /\ StateInv' /\ UploadInv' /\ SuccessIsTrue'
      BY <1>1, <2>1, <2>2, <3>1, <3>2, <3>3
         DEF Faithful, OperationInv, StateInv, UploadInv, SuccessIsTrue
    <3>5. TransferInv'
      <4>1. TakenBlocks(chip, host.mode, host.file, session, store, host.block)
        BY <1>1, <1>3 DEF Faithful, TransferInv, Taken_
      <4>2. /\ s.mode = session.mode /\ s.flashOffset = session.flashOffset
            /\ s.flashBegin = session.flashBegin
        BY <1>1, CopiedSession
      <4> HIDE DEF s
      <4>3. TakenBlocks(chip, host.mode, host.file, session', store', host.block)
        BY <3>1, <4>1, <4>2 DEF TakenBlocks, TakenFirmware
      <4> QED
        BY <1>1, <3>2, <4>3 DEF TransferInv, Taken_
    <3>6. BufferInv'
      <4>1. ASSUME Base(host.file) + host.block < FlashLimit, NEW i \in 1..Last
            PROVE  i <= Len(session'.data)
                   /\ session'.data[i] = FileUnit(host.file, host.block * BlockUnits + i)
        <5>1. i \in 1..BlockUnits /\ s.data[i] = FileUnit(host.file, host.block * BlockUnits + i)
          BY <1>1, <1>3, <4>1, CopiedIsFile
        <5>2. Len(s.data) = BlockUnits
          BY <1>1, CopiedSession
        <5>3. i <= BlockUnits
          BY <5>1, RescueAssumption
        <5> HIDE DEF s
        <5> QED
          BY <3>1, <5>1, <5>2, <5>3
      <4> QED
        BY <3>2, <3>3, <4>1 DEF BufferInv
    <3> QED
      BY <3>4, <3>5, <3>6 DEF Faithful
  <2>6. CASE ~ (Last < BlockLength)
    <3>1. session' = done.s /\ dfu' = done.d /\ store' = done.st
      BY <1>1, <2>4, <2>6
    <3>2. host' = [pc |-> "status", op |-> host.op, mode |-> host.mode, file |-> host.file,
                   block |-> host.block, chunk |-> host.chunk, got |-> host.got,
                   result |-> host.result, reset |-> host.reset]
      BY <1>1, <2>6, HostSends
    <3>3. Last = BlockLength
      BY <2>3, <2>6
    <3>4. /\ done.d.state = "dnLoadIdle"
          /\ done.d.error = "ok" =>
               TakenBlocks(chip, host.mode, host.file, done.s, done.st, host.block + 1)
      BY <1>1, <1>3, <3>3, CompletedIsTaken
    <3> HIDE DEF done
    <3>5. OperationInv' /\ UploadInv' /\ SuccessIsTrue' /\ BufferInv'
      BY <1>1, <2>2, <3>2 DEF Faithful, OperationInv, UploadInv, SuccessIsTrue, BufferInv
    <3>6. StateInv'
      BY <3>1, <3>2, <3>4 DEF StateInv
    <3>7. TransferInv'
      BY <1>1, <3>1, <3>2, <3>4 DEF TransferInv, Taken_
    <3> QED
      BY <3>5, <3>6, <3>7 DEF Faithful
  <2> QED
    BY <2>5, <2>6
<1> QED
  BY <1>2, <1>3

LEMMA ChunkSkippedFaithful ==
  ASSUME NothingIsSkipped, TInv, Faithful, ChunkIsSkipped
  PROVE  Faithful'
<1>1. /\ host.pc = "data" /\ transport = "spi" /\ HostSendsChunk
      /\ \A i \in DOMAIN Chunk : Chunk[i] = FF
      /\ UNCHANGED << chip, transport, store, session, dfu >>
  BY DEF ChunkIsSkipped
<1>2. CASE host.reset
  BY <1>1, <1>2, UnawareFaithful
<1>3. CASE ~host.reset
  <2> DEFINE at == host.block * BlockUnits + host.chunk * ChunkUnits
             last == \/ (host.chunk + 1) * ChunkUnits >= BlockUnits
                     \/ at + ChunkUnits >= FileUnits[host.file]
  <2>1. host.result = "none" /\ host.op = "send"
    BY <1>1 DEF Faithful, OperationInv, TInv, WithinFile, Downloading
  <2>2. /\ First \in Nat /\ ChunkUnits \in Nat \ {0} /\ BlockLength \in 1..BlockUnits
        /\ Last = IF First + ChunkUnits <= BlockLength THEN First + ChunkUnits ELSE BlockLength
        /\ Last - First \in 1..ChunkUnits /\ First < BlockLength
        /\ Last < BlockLength => (host.chunk + 1) * ChunkUnits = Last
        /\ host.chunk \in Nat /\ First = host.chunk * ChunkUnits
    BY <1>1, LengthOfChunk DEF TInv, WithinFile, First
  <2>3. /\ host.file \in Files /\ host.block \in Nat /\ host.block * BlockUnits \in Nat
        /\ BlockUnits \in Nat /\ FileUnits[host.file] \in Nat
        /\ BlockLength = BlockUnits \/ BlockLength = FileUnits[host.file] - host.block * BlockUnits
        /\ BlockLength <= FileUnits[host.file] - host.block * BlockUnits
    BY <2>1, LengthOfBlock, RescueAssumption DEF TInv, WithinFile
  <2>4. at = host.block * BlockUnits + First /\ (host.chunk + 1) * ChunkUnits = First + ChunkUnits
    BY <2>2
  <2>5. First < BlockUnits /\ at < FileUnits[host.file] /\ First + ChunkUnits <= BlockUnits
    <3> HIDE DEF at
    <3>1. First < BlockUnits /\ at < FileUnits[host.file]
      BY <2>2, <2>3, <2>4
    <3> QED
      BY <2>2, <2>4, <3>1, ChunksFit
  \* A chunk of 0xFF is one that a block without a place in flash has, before its last.
  <2>6. ~ (Base(host.file) + host.block < FlashLimit) /\ ~last
    <3>1. ASSUME NEW i \in 1..ChunkUnits PROVE FileUnit(host.file, at + i) = FF
      <4>1. CASE i \in 1..(Last - First)
        <5>1. Chunk[i] = FileUnit(host.file, host.block * BlockUnits + First + i)
              /\ i \in DOMAIN Chunk
          BY <4>1 DEF Chunk
        <5> QED
          BY <1>1, <2>4, <5>1
      <4>2. CASE ~ (i \in 1..(Last - First))
        <5>1. i > Last - First /\ Last = BlockLength /\ First + ChunkUnits > BlockLength
          BY <2>2, <4>2
        <5>2. BlockLength = FileUnits[host.file] - host.block * BlockUnits
          BY <2>2, <2>3, <2>5, <5>1
        <5>3. ~ (at + i \in 1..FileUnits[host.file])
          BY <2>2, <2>3, <2>4, <5>1, <5>2
        <5> QED
          BY <5>3 DEF FileUnit
      <4> QED
        BY <4>1, <4>2
    <3>2. PICK x \in Sends : x.file = host.file
      BY <2>1 DEF Faithful, OperationInv
    <3>3. "spi" \in Transports
      BY <1>1 DEF TInv
    <3>4. host.chunk * ChunkUnits < BlockUnits /\ at < FileUnits[x.file]
      BY <2>2, <2>5, <3>2
    <3>5. /\ host.chunk * ChunkUnits < BlockUnits /\ at < FileUnits[x.file]
          /\ Base(x.file) + host.block < FlashLimit
             \/ (host.chunk + 1) * ChunkUnits >= BlockUnits
             \/ at + ChunkUnits >= FileUnits[x.file]
          => \E i \in 1..ChunkUnits : FileUnit(x.file, at + i) /= FF
      <4>1. host.block \in Nat /\ host.chunk \in Nat
        BY <2>2, <2>3
      <4> QED
        BY <3>2, <3>3, <4>1, Zenon DEF NothingIsSkipped
    <3> QED
      BY <3>1, <3>2, <3>4, <3>5
  <2>7. Last < BlockLength
    <3> DEFINE chunks == (host.chunk + 1) * ChunkUnits
               base == host.block * BlockUnits
    <3>1. /\ ~ (chunks >= BlockUnits) /\ ~ (at + ChunkUnits >= FileUnits[host.file])
          /\ chunks = First + ChunkUnits /\ at = base + First
      BY <2>4, <2>6
    <3>2. /\ First \in Nat /\ ChunkUnits \in Nat /\ base \in Nat
          /\ BlockUnits \in Nat /\ FileUnits[host.file] \in Nat
      BY <2>2, <2>3
    <3>3. BlockLength = BlockUnits \/ BlockLength = FileUnits[host.file] - base
      BY <2>3
    <3>4. Last = IF First + ChunkUnits <= BlockLength THEN First + ChunkUnits ELSE BlockLength
      BY <2>2
    <3> HIDE DEF at, chunks, base
    <3>5. First + ChunkUnits < BlockLength
      BY <3>1, <3>2, <3>3
    <3> QED
      BY <3>2, <3>3, <3>4, <3>5
  <2>8. host' = [pc |-> "data", op |-> host.op, mode |-> host.mode, file |-> host.file,
                 block |-> host.block, chunk |-> host.chunk + 1, got |-> host.got,
                 result |-> host.result, reset |-> host.reset]
    BY <1>1, <2>7, HostSends
  <2>9. BlockLength' = BlockLength
    BY <2>8 DEF BlockLength
  <2> HIDE DEF last, at
  <2>10. OperationInv' /\ StateInv' /\ UploadInv' /\ SuccessIsTrue'
    BY <1>1, <2>1, <2>8, <2>9
       DEF Faithful, OperationInv, StateInv, UploadInv, SuccessIsTrue
  <2>11. TransferInv'
    BY <1>1, <1>3, <2>8 DEF Faithful, TransferInv, Taken_
  <2>12. BufferInv'
    BY <2>6, <2>8 DEF BufferInv
  <2> QED
    BY <2>10, <2>11, <2>12 DEF Faithful
<1> QED
  BY <1>2, <1>3

LEMMA StutterFaithful ==
  ASSUME Faithful, UNCHANGED << chip, transport, store, session, dfu, host >>
  PROVE  Faithful'
<1>1. OperationInv' /\ StateInv' /\ UploadInv'
  BY DEF Faithful, OperationInv, StateInv, UploadInv, BlockLength
<1>2. TransferInv'
  BY DEF Faithful, TransferInv, Taken_
<1>3. BufferInv'
  BY DEF Faithful, BufferInv, First
<1>4. Stored <=> Stored'
  BY DEF Stored, Holds
<1>5. SuccessIsTrue'
  BY <1>4 DEF Faithful, SuccessIsTrue
<1> QED
  BY <1>1, <1>2, <1>3, <1>5 DEF Faithful

LEMMA BeginsFaithful ==
  ASSUME Faithful, HostBegins
  PROVE  Faithful'
<1>1. host.pc = "idle" /\ UNCHANGED << chip, transport, store, session, dfu >>
  BY DEF HostBegins
<1>2. \E op \in {"send", "recv"} : \E mode, file :
        /\ host' = [pc |-> "mode", op |-> op, mode |-> mode, file |-> file,
                    block |-> 0, chunk |-> 0, got |-> << >>, result |-> "none", reset |-> FALSE]
        /\ op = "send" => \E x \in Sends : x.mode = mode /\ x.file = file
        /\ op = "recv" => mode \in Reads
  <2>1. CASE \E x \in Sends :
               host' = [Idle EXCEPT !.pc = "mode", !.op = "send", !.mode = x.mode, !.file = x.file]
    <3>1. PICK x \in Sends :
            host' = [Idle EXCEPT !.pc = "mode", !.op = "send", !.mode = x.mode, !.file = x.file]
      BY <2>1
    <3>2. host' = [pc |-> "mode", op |-> "send", mode |-> x.mode, file |-> x.file, block |-> 0,
                   chunk |-> 0, got |-> << >>, result |-> "none", reset |-> FALSE]
      BY <3>1 DEF Idle
    <3> QED
      BY <3>2
  <2>2. CASE \E mode \in Reads :
               host' = [Idle EXCEPT !.pc = "mode", !.op = "recv", !.mode = mode]
    <3>1. PICK mode \in Reads :
            host' = [Idle EXCEPT !.pc = "mode", !.op = "recv", !.mode = mode]
      BY <2>2
    <3>2. host' = [pc |-> "mode", op |-> "recv", mode |-> mode, file |-> "none", block |-> 0,
                   chunk |-> 0, got |-> << >>, result |-> "none", reset |-> FALSE]
      BY <3>1 DEF Idle
    <3> QED
      BY <3>2
  <2> QED
    BY <2>1, <2>2 DEF HostBegins
<1>3. /\ host'.pc = "mode" /\ host'.result = "none" /\ host'.block = 0 /\ ~host'.reset
      /\ host'.op \in {"send", "recv"}
      /\ host'.op = "send" => \E x \in Sends : x.mode = host'.mode /\ x.file = host'.file
      /\ host'.op = "recv" => host'.mode \in Reads
  <2>1. PICK op \in {"send", "recv"} : \E mode, file :
        /\ host' = [pc |-> "mode", op |-> op, mode |-> mode, file |-> file,
                    block |-> 0, chunk |-> 0, got |-> << >>, result |-> "none", reset |-> FALSE]
        /\ op = "send" => \E x \in Sends : x.mode = mode /\ x.file = file
        /\ op = "recv" => mode \in Reads
    BY <1>2
  <2> QED
    BY <2>1
<1> QED
  BY <1>1, <1>3 DEF Faithful, OperationInv, StateInv, TransferInv, BufferInv, UploadInv,
                    SuccessIsTrue

LEMMA AsksFaithful ==
  ASSUME TInv, Faithful, HostAsks
  PROVE  Faithful'
<1> DEFINE h == Heard(session)
<1>1. PICK r \in {GetStatus(h, dfu), GetState(h, dfu), ClrStatus(h, dfu), Abort(h, dfu)} :
        /\ Answers(r) /\ chip' = chip /\ transport' = transport
        /\ IF r.reply.k = "stall" THEN HostEnds("failed") ELSE UNCHANGED host
  BY DEF HostAsks, Request
<1>2. host.pc = "idle"
  BY DEF HostAsks
<1>3. IsDfu(r.d) /\ IsDfu(dfu)
  BY <1>1, ClassRequestsTyped DEF TInv
<1>4. transport = "usb" => dfu.state \notin {"dnLoadSync", "upLoadIdle"}
  BY <1>2 DEF Faithful, StateInv
<1>5. /\ r.reply.k \in {"stall", "ack", "status"}
      /\ transport = "usb" => r.d.state # "dnLoadSync"
      /\ transport = "usb" /\ r.reply.k = "stall" => r.d.state # "upLoadIdle"
  <2> DEFINE Fine(x) == /\ x.reply.k \in {"stall", "ack", "status"}
                        /\ transport = "usb" => x.d.state # "dnLoadSync"
                        /\ transport = "usb" /\ x.reply.k = "stall" => x.d.state # "upLoadIdle"
  <2>1. \A state : [dfu EXCEPT !.state = state].state = state
    BY <1>3 DEF IsDfu
  <2>2. \A e : [dfu EXCEPT !.error = e].state = dfu.state
    BY <1>3 DEF IsDfu
  <2>3. ASSUME NEW state, NEW e, NEW x, x = [dfu EXCEPT !.state = state, !.error = e]
        PROVE  x.state = state
    BY <1>3, <2>3 DEF IsDfu
  <2>4. \A e : Fine(Fails(h, dfu, e))
    <3>1. ASSUME NEW e PROVE Fails(h, dfu, e).reply.k = "stall" /\ Fails(h, dfu, e).d.state = "error"
      BY <2>3 DEF Fails, Handled, Reply
    <3> QED
      BY <3>1
  <2>5. Fine(GetStatus(h, dfu))
    BY <1>3, StatusReplies
  <2>6. Fine(GetState(h, dfu))
    <3> DEFINE state == CASE dfu.state = "idle" -> "upLoadIdle"
                          [] dfu.state = "dnLoadSync" -> "dnLoadIdle"
                          [] OTHER -> dfu.state
    <3>1. state # "dnLoadSync"
      OBVIOUS
    <3>2. GetState(h, dfu) = Handled(h, [dfu EXCEPT !.state = state], Reply("status", << state >>))
      BY DEF GetState
    <3> HIDE DEF state
    <3>3. GetState(h, dfu).d = [dfu EXCEPT !.state = state] /\ GetState(h, dfu).reply.k = "status"
      BY <3>2 DEF Handled, Reply
    <3> QED
      BY <2>1, <3>1, <3>3
  <2>7. Fine(ClrStatus(h, dfu))
    <3>1. CASE dfu.state = "error"
      <4>1. /\ ClrStatus(h, dfu).reply.k = "ack"
            /\ ClrStatus(h, dfu).d = [dfu EXCEPT !.state = "idle", !.error = "ok"]
        BY <3>1 DEF ClrStatus, Handled, Reply
      <4>2. ASSUME NEW x, x = ClrStatus(h, dfu).d PROVE x.state = "idle"
        BY <2>3, <4>1, <4>2
      <4> QED
        BY <4>1, <4>2
    <3>2. CASE dfu.state = "idle"
      <4>1. /\ ClrStatus(h, dfu).reply.k = "stall"
            /\ ClrStatus(h, dfu).d = [dfu EXCEPT !.error = "stalledPkt"]
        BY <3>2 DEF ClrStatus, Handled, Reply
      <4> QED
        BY <2>2, <3>2, <4>1
    <3>3. CASE dfu.state \notin {"error", "idle"}
      <4>1. ClrStatus(h, dfu) = Fails(h, dfu, "stalledPkt")
        BY <3>3 DEF ClrStatus
      <4> QED
        BY <2>4, <4>1
    <3> QED
      BY <3>1, <3>2, <3>3
  <2>8. Fine(Abort(h, dfu))
    <3>1. CASE dfu.state = "error"
      <4>1. Abort(h, dfu) = Fails(h, dfu, "stalledPkt")
        BY <3>1 DEF Abort
      <4> QED
        BY <2>4, <4>1
    <3>2. CASE dfu.state # "error"
      <4>1. /\ Abort(h, dfu).reply.k = "ack"
            /\ Abort(h, dfu).d = [dfu EXCEPT !.state = "idle"]
        BY <3>2 DEF Abort, Handled, Reply
      <4> QED
        BY <2>1, <4>1
    <3> QED
      BY <3>1, <3>2
  <2> HIDE DEF Fine, h
  <2>9. Fine(r)
    BY <1>1, <2>5, <2>6, <2>7, <2>8
  <2> QED
    BY <2>9 DEF Fine
<1>6. store' = store /\ StateRests
  <2>1. transport = "usb" /\ r.reply.k # "stall" => r.d.state # "dnLoadSync" \/ r.reply.k = "out"
    BY <1>5
  <2>2. store' = store
    BY <1>1, <1>3, <2>1, AnswerRests
  <2>3. r.reply.k = "stall" => dfu' = r.d
    BY <1>1, <1>3, <2>1, AnswerRests
  <2>4. transport = "usb" /\ r.reply.k # "stall" => dfu'.state \notin {"dnLoadSync", "upLoadIdle"}
    BY <1>1, <1>3, <1>5, <2>1, AnswerRests
  <2> QED
    BY <1>1, <1>5, <2>2, <2>3, <2>4 DEF StateRests
<1>7. CASE r.reply.k = "stall"
  BY <1>1, <1>6, <1>7, EndFaithful DEF TInv
<1>8. CASE r.reply.k # "stall"
  BY <1>1, <1>2, <1>6, <1>8, IdleFaithful DEF StoreRests
<1> QED
  BY <1>7, <1>8

LEMMA OtherRequestFaithful ==
  ASSUME TInv, Faithful, OtherRequest
  PROVE  Faithful'
<1> DEFINE r == Handled(session, dfu, Reply("ack", << >>))
<1>1. r.s = session /\ r.d = dfu /\ r.reply.k = "ack"
  BY DEF Handled, Reply
<1>2. /\ transport = "usb" /\ host.pc # "data" /\ Answers(r)
      /\ UNCHANGED << chip, transport, host >>
  BY <1>1 DEF OtherRequest, Request
<1>3. /\ dfu.state # "dnLoadSync" /\ (host.pc # "uploadStatus" => dfu.state # "upLoadIdle")
      /\ IsDfu(dfu)
  BY <1>2 DEF Faithful, StateInv, TInv
<1> HIDE DEF r
<1>4. /\ store' = store /\ dfu'.state \notin {"dnLoadSync", "upLoadIdle"}
      /\ host.pc # "uploadStatus" => session' = session /\ dfu' = dfu
  BY <1>1, <1>2, <1>3, AnswerRests
<1>5. CASE host.pc # "uploadStatus"
  BY <1>2, <1>4, <1>5, StutterFaithful
<1>6. CASE host.pc = "uploadStatus"
  <2>1. host.result = "none"
    BY <1>6 DEF Faithful, OperationInv
  <2> QED
    BY <1>2, <1>4, <1>6, <2>1
       DEF Faithful, OperationInv, StateInv, TransferInv, BufferInv, UploadInv, SuccessIsTrue
<1> QED
  BY <1>5, <1>6

LEMMA BreaksOffFaithful ==
  ASSUME TInv, Faithful, WriteBreaksOff
  PROVE  Faithful'
<1>1. host.pc = "data" /\ UNCHANGED << chip, transport >>
  BY DEF WriteBreaksOff
<1>2. CASE Boot /\ HostSeesReset
  BY <1>1, <1>2, BootRests, ResetFaithful DEF TInv
<1>3. CASE /\ dfu' = [dfu EXCEPT !.state = "dnLoadIdle", !.error = "vendor", !.expected = 0]
           /\ HostGoes("status")
  <2>1. host' = [pc |-> "status", op |-> host.op, mode |-> host.mode, file |-> host.file,
                 block |-> host.block, chunk |-> host.chunk, got |-> host.got,
                 result |-> host.result, reset |-> host.reset]
    BY <1>3 DEF HostGoes, TInv, HostInv, IsHost
  <2>2. dfu'.state = "dnLoadIdle" /\ dfu'.error = "vendor"
    <3>1. ASSUME NEW x, x = [dfu EXCEPT !.state = "dnLoadIdle", !.error = "vendor", !.expected = 0]
          PROVE  x.state = "dnLoadIdle" /\ x.error = "vendor"
      BY <3>1 DEF TInv, IsDfu
    <3> QED
      BY <1>3, <3>1
  <2>3. host.result = "none" /\ host.op = "send"
    BY <1>1 DEF Faithful, OperationInv, TInv, WithinFile, Downloading
  <2> QED
    BY <1>1, <2>1, <2>2, <2>3
       DEF Faithful, OperationInv, StateInv, TransferInv, BufferInv, UploadInv, SuccessIsTrue
<1> QED
  BY <1>2, <1>3 DEF WriteBreaksOff

LEMMA StepFaithful ==
  ASSUME StopsOutsideTransfers, NothingIsSkipped, TInv, Faithful, Next
  PROVE  Faithful'
<1>1. CASE HostStops
  <2>1. host.pc \notin {"data", "uploadStatus"} \/ transport # "usb"
    BY <1>1 DEF HostStops, StopsOutsideTransfers
  <2>2. StateRests /\ HostEnds("failed") /\ UNCHANGED << chip, transport >>
    BY <1>1, <2>1 DEF HostStops, StateRests, Faithful, StateInv
  <2> QED
    BY <2>2, EndFaithful DEF TInv
<1>2. CASE HostReboots
  BY <1>2, BootRests, IdleFaithful DEF HostReboots, StoreRests
<1>3. CASE Inactivity
  BY <1>3, BootRests, ResetFaithful DEF Inactivity, StoreRests, TInv
<1>4. CASE PowerCut
  <2>1. StoreRests
    BY <1>4 DEF PowerCut, StoreRests, TInv, Stores
  <2> QED
    BY <1>4, <2>1, BootRests, ResetFaithful DEF PowerCut, TInv
<1>5. CASE Host
  BY <1>5, SetsModeFaithful, DownloadsFaithful, ChunkArrivesFaithful, ChunkSkippedFaithful,
     PollsFaithful, FinishesFaithful, UploadsFaithful, ReadsStatusFaithful DEF Host
<1> QED
  BY <1>1, <1>2, <1>3, <1>4, <1>5, BeginsFaithful, AsksFaithful, OtherRequestFaithful,
     BreaksOffFaithful DEF Next

LEMMA InitFaithful ==
  ASSUME Init
  PROVE  Faithful
<1>1. /\ host.pc = "idle" /\ host.result = "none" /\ host.op = "none" /\ ~host.reset
  BY DEF Init, Idle
<1>2. dfu.state = "idle"
  BY DEF Init, FreshDfu
<1> QED
  BY <1>1, <1>2 DEF Faithful, OperationInv, StateInv, TransferInv, BufferInv, UploadInv,
                    SuccessIsTrue

\* A download that is acknowledged is stored whole and in its place, and an
\* upload returns what its mode stands for, for any files, chips, blocks and
\* chunks, after any earlier hosts and requests, faults and resets.  Hosts on USB
\* do not stop within data, and those on SPI leave out no chunk that matters.
THEOREM SuccessIsProved ==
  ASSUME StopsOutsideTransfers, NothingIsSkipped
  PROVE  Spec => []SuccessIsTrue
<1>1. Init => Faithful
  BY InitFaithful
<1>2. TInv /\ Faithful /\ [Next]_vars => Faithful'
  <2>1. ASSUME Faithful, UNCHANGED vars PROVE Faithful'
    BY <2>1, StutterFaithful DEF vars
  <2> QED
    BY <2>1, StepFaithful
<1>3. Faithful => SuccessIsTrue
  BY DEF Faithful
<1> QED
  BY <1>1, <1>2, <1>3, TypeInvariance, PTL DEF Spec

=============================================================================
