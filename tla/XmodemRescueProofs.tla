-------------------------- MODULE XmodemRescueProofs --------------------------
(***************************************************************************)
(* XMODEM rescue keeps the ROM_EXT that runs, and its state its type, for  *)
(* every file, chip and size of flash, and for any number of transfers and *)
(* faults; and what it acknowledged is stored, if every operation begins   *)
(* on a quiet line.                                                        *)
(***************************************************************************)
EXTENDS XmodemRescue, RescueServiceProofs

\* The inductive invariant: the session that the next handler starts from.
Inv == Safe(chip, session) /\ IsStore(store)

\* What a step does to the store, if it does anything.
Kept == IsStore(store') /\ Keeps(chip, store, store')

-----------------------------------------------------------------------------
\* The top of the loop and a boot leave a safe session.
LEMMA LoopSafe ==
  ASSUME NEW s, NEW st, Safe(chip, s), Loop(s, st)
  PROVE  Safe(chip, session')
BY SendHandlerSafe DEF Loop

LEMMA BootSafe ==
  ASSUME Boot
  PROVE  Safe(chip, session')
<1>1. Safe(chip, ValidateMode(chip, SessionInit(chip).default, SessionInit(chip)))
  BY SessionInitSafe, ValidateModeSafe
<1> QED BY <1>1, LoopSafe DEF Boot

\* Bytes that come in change neither the mode nor the offsets in flash.
LEMMA ReceivedSafe ==
  ASSUME NEW t, Safe(chip, session)
  PROVE  Safe(chip, Received(t))
<1>1. ASSUME NEW s, NEW n, NEW d,
             s = [session EXCEPT !.deadline = FALSE, !.offset = n, !.data = d]
      PROVE  Safe(chip, s)
  <2>1. s = [mode |-> session.mode, default |-> session.default, deadline |-> FALSE,
             frame |-> session.frame, offset |-> n, staged |-> session.staged,
             flashOffset |-> session.flashOffset, flashBegin |-> session.flashBegin,
             data |-> d]
    BY <1>1 DEF Safe, IsSession
  <2>2. IsSession(s)
    BY <2>1 DEF IsSession
  <2> QED BY <2>1, <2>2 DEF Safe
<1>2. Received(t) =
        [session EXCEPT !.deadline = FALSE, !.offset = session.offset + Len(t.data),
                        !.data = SubSeq(session.data, 1, session.offset) \o t.data]
  BY DEF Received
<1> QED BY <1>1, <1>2

\* Padding does not either.
LEMMA PaddedSafe ==
  ASSUME Safe(chip, session)
  PROVE  Safe(chip, Padded(session))
<1>1. ASSUME NEW s, NEW d, s = [session EXCEPT !.offset = BlockUnits, !.data = d]
      PROVE  Safe(chip, s)
  <2>1. s = [mode |-> session.mode, default |-> session.default,
             deadline |-> session.deadline, frame |-> session.frame,
             offset |-> BlockUnits, staged |-> session.staged,
             flashOffset |-> session.flashOffset, flashBegin |-> session.flashBegin,
             data |-> d]
    BY <1>1 DEF Safe, IsSession
  <2>2. IsSession(s)
    BY <2>1 DEF IsSession
  <2> QED BY <2>1, <2>2 DEF Safe
<1>2. Padded(session) = session \/
      Padded(session) =
        [session EXCEPT !.offset = BlockUnits,
           !.data = [i \in 1..BlockUnits |-> IF i <= session.offset THEN session.data[i] ELSE FF]]
  BY DEF Padded
<1> QED BY <1>1, <1>2

\* The other updates of a session.
LEMMA UpdatesSafe ==
  ASSUME NEW s, Safe(chip, s)
  PROVE  /\ \A n : Safe(chip, [s EXCEPT !.frame = n])
         /\ \A n : Safe(chip, [s EXCEPT !.staged = n])
         /\ Safe(chip, [s EXCEPT !.deadline = FALSE])
         /\ Safe(chip, Finished(s))
<1>1. ASSUME NEW n, NEW t, t = [s EXCEPT !.frame = n] PROVE Safe(chip, t)
  BY <1>1 DEF Safe, IsSession
<1>2. ASSUME NEW n, NEW t, t = [s EXCEPT !.staged = n] PROVE Safe(chip, t)
  BY <1>2 DEF Safe, IsSession
<1>3. ASSUME NEW t, t = [s EXCEPT !.deadline = FALSE] PROVE Safe(chip, t)
  BY <1>3 DEF Safe, IsSession
<1>4. ASSUME NEW t, t = [s EXCEPT !.frame = 1, !.offset = 0, !.flashOffset = 0]
      PROVE  Safe(chip, t)
  <2>1. t = [mode |-> s.mode, default |-> s.default, deadline |-> s.deadline,
             frame |-> 1, offset |-> 0, staged |-> s.staged, flashOffset |-> 0,
             flashBegin |-> s.flashBegin, data |-> s.data]
    BY <1>4 DEF Safe, IsSession
  <2>2. IsSession(t)
    BY <2>1 DEF IsSession
  <2> QED BY <2>1, <2>2 DEF Safe
<1> QED BY <1>1, <1>2, <1>3, <1>4 DEF Finished

-----------------------------------------------------------------------------
\* The invariant holds initially,
LEMMA InitInv ==
  ASSUME Init
  PROVE  Inv
<1>1. Safe(chip, session)
  BY SessionInitSafe, ValidateModeSafe DEF Init
<1>2. IsStore(store)
  BY DEF Init, IsStore, IsBank
<1> QED BY <1>1, <1>2 DEF Inv

\* One step per action: the store keeps its protected pages, and the session
\* stays safe.
LEMMA StepKeeps ==
  ASSUME Inv, Next
  PROVE  chip' = chip /\ Safe(chip, session') /\ Kept
<1> USE DEF Inv
<1>0. Keeps(chip, store, store)
  BY DEF Keeps
<1>1. CASE FrameAccepted
  <2> DEFINE s == Received(Head(toChip))
             r == RecvHandler(chip, s, store)
  <2>1. Safe(chip, r.s) /\ IsStore(r.st) /\ Keeps(chip, store, r.st)
    BY ReceivedSafe, RecvHandlerKeeps
  <2>2. /\ chip' = chip /\ store' = r.st
        /\ Loop([r.s EXCEPT !.frame = r.s.frame + 1], r.st) \/ session' = r.s
    BY <1>1 DEF FrameAccepted, End
  <2> HIDE DEF r
  <2>3. Safe(chip, session')
    BY <2>1, <2>2, UpdatesSafe, LoopSafe
  <2> QED BY <2>1, <2>2, <2>3 DEF Kept
<1>2. CASE EndOfFile
  <2> DEFINE s == Padded(session)
             r == IF session.offset % BlockUnits = 0 THEN Result("ok", s, store)
                  ELSE RecvHandler(chip, s, store)
  <2>1. Safe(chip, s)
    BY PaddedSafe
  <2>2. Safe(chip, r.s) /\ IsStore(r.st) /\ Keeps(chip, store, r.st)
    <3>1. CASE session.offset % BlockUnits = 0
      <4>1. r.s = s /\ r.st = store
        BY <3>1 DEF Result
      <4> QED BY <4>1, <2>1, <1>0
    <3>2. CASE session.offset % BlockUnits # 0
      BY <3>2, <2>1, RecvHandlerKeeps
    <3> QED BY <3>1, <3>2
  <2>3. /\ chip' = chip /\ store' = r.st
        /\ Loop(Finished(r.s), r.st) \/ session' = r.s
    BY <1>2 DEF EndOfFile, End
  <2> HIDE DEF r
  <2>4. Safe(chip, session')
    BY <2>2, <2>3, UpdatesSafe, LoopSafe
  <2> QED BY <2>2, <2>3, <2>4 DEF Kept
<1>3. CASE ModeChange
  <2>1. Safe(chip, [session EXCEPT !.deadline = FALSE])
    BY UpdatesSafe
  <2>2. Safe(chip, ValidateMode(chip, nextMode, [session EXCEPT !.deadline = FALSE]))
    BY <2>1, ValidateModeSafe
  <2>3. Safe(chip, session')
    BY <1>3, <2>2, LoopSafe DEF ModeChange, End
  <2> QED BY <1>0, <1>3, <2>3 DEF ModeChange, Kept
<1>4. CASE SendFinish
  <2>1. Safe(chip, [session EXCEPT !.staged = 0])
    BY UpdatesSafe
  <2>2. Safe(chip, ValidateMode(chip, session.default, [session EXCEPT !.staged = 0]))
    BY <2>1, ValidateModeSafe
  <2>3. Safe(chip, session')
    BY <1>4, <2>2, LoopSafe DEF SendFinish
  <2> QED BY <1>0, <1>4, <2>3 DEF SendFinish, Kept
<1>5. CASE FrameRepeated \/ ModeByte
  <2>1. Safe(chip, session')
    BY <1>5, LoopSafe DEF FrameRepeated, ModeByte, End
  <2> QED BY <1>0, <1>5, <2>1 DEF FrameRepeated, ModeByte, Kept
<1>6. CASE Reset
  BY <1>0, <1>6, BootSafe DEF Reset, Kept
<1>7. CASE WriteBreaksOff
  <2> DEFINE t == Head(toChip)
             s == CASE t.k = "eof" -> Padded(session)
                    [] IsFrame(toChip) -> Received(t)
                    [] OTHER -> session
  <2>1. Safe(chip, s)
    <3>1. s \in {Padded(session), Received(t), session}
      OBVIOUS
    <3> QED BY <3>1, PaddedSafe, ReceivedSafe
  <2>2. chip' = chip /\ store' \in Broken(chip, s, store) /\ session' = s
    BY <1>7 DEF WriteBreaksOff, End
  <2> HIDE DEF s
  <2> QED BY <2>1, <2>2, BrokenKeeps DEF Kept
<1>8. CASE PowerCut
  <2>1. /\ IsStore([store EXCEPT !.msg = Scrambled])
        /\ Keeps(chip, store, [store EXCEPT !.msg = Scrambled])
    BY DEF IsStore, Keeps
  <2> QED BY <1>8, <2>1 DEF PowerCut, Kept
<1>9. CASE FrameFails \/ FrameCancelled \/ Silence \/ Inactivity \/ SendStart
  BY <1>0, <1>9 DEF FrameFails, FrameCancelled, Silence, Inactivity, SendStart, End, Kept
<1>10. CASE SendAcked \/ SendRefused \/ SendUnanswered
  BY <1>0, <1>10 DEF SendAcked, SendRefused, SendUnanswered, End, Kept
<1>11. CASE Host \/ LineNoise
  BY <1>0, <1>11 DEF Host, HostBegins, HostReadsMode, HostGivesUp, HostStarts, HostSends,
       HostFinishes, HostReceives, LineNoise, HostUnchanged, chipVars, Kept
<1> QED BY <1>1, <1>2, <1>3, <1>4, <1>5, <1>6, <1>7, <1>8, <1>9, <1>10, <1>11
      DEF Next, Chip, Receive, Command, Transmit

\* and after every step.
LEMMA StepInv ==
  ASSUME Inv, [Next]_vars
  PROVE  Inv'
<1>1. CASE Next
  BY <1>1, StepKeeps DEF Inv, Kept
<1>2. CASE UNCHANGED vars
  BY <1>2 DEF vars, chipVars, Inv
<1> QED BY <1>1, <1>2

\* Whatever a host sends, and wherever a frame is lost or power fails, the
\* session never has an area of flash open that holds the ROM_EXT that runs.
THEOREM SessionIsSafe == Spec => []Inv
<1>1. Init => Inv
  BY InitInv
<1>2. Inv /\ [Next]_vars => Inv'
  BY StepInv
<1> QED BY <1>1, <1>2, PTL DEF Spec

\* No step of chip, host or environment changes a page of the ROM_EXT that
\* runs, or one behind the area that the owner gave to rescue.
THEOREM RunningFirmwareIsKept == Spec => ProtectedIsKept
<1> DEFINE Same == \A sp \in ProtectedPages(chip) :
                     store.flash[sp[1]][sp[2]] = store'.flash[sp[1]][sp[2]]
<1>1. Inv /\ [Next]_vars => [Same]_vars
  <2> SUFFICES ASSUME Inv, Next PROVE Same
    OBVIOUS
  <2>1. Keeps(chip, store, store')
    BY StepKeeps DEF Kept
  <2> QED BY <2>1 DEF Keeps, ProtectedPages
<1> QED BY <1>1, SessionIsSafe, PTL DEF Spec, ProtectedIsKept

-----------------------------------------------------------------------------
(***************************************************************************)
(* Types.  How much is received is up to the line, so the type of the      *)
(* buffer rests on what a frame may hold, and on a session that sends      *)
(* having received nothing.                                                *)
(***************************************************************************)

Pcs == {"recv", "sendStart", "sendAck", "sendEnd", "ended"}
HostPcs == {"idle", "mode", "start", "data", "finish", "recv"}

Frames == [k : {"frame"}, num : Nat, data : Seq(Units), damage : {"none"} \cup Damage]
ModeRequests == [k : {"mode"}, mode : Modes]
Bytes == [k : {"ack", "nak", "can", "C", "eof", "cr", "junk"}]
Signals == Frames \cup ModeRequests \cup Bytes

\* The session that handlers start from
Ready(s) == s \in Sessions /\ Filling(s) /\ (s.mode \in SendModes => s.offset = 0)

IsHost(h) ==
  h = [pc |-> h.pc, op |-> h.op, mode |-> h.mode, file |-> h.file, size |-> h.size,
       block |-> h.block, errors |-> h.errors, cancels |-> h.cancels, got |-> h.got,
       result |-> h.result, reset |-> h.reset]

HostInv ==
  /\ IsHost(host) /\ host.pc \in HostPcs /\ host.block \in Nat
  /\ host.op = "send" => host.file \in Files /\ host.size \in {1, LongFrame}
  /\ host.pc \in {"start", "data", "finish"} => host.op = "send"

TInv ==
  /\ chip \in Setups /\ store \in Stores
  /\ Ready(session)
  /\ pc \in Pcs /\ (pc = "recv" => session.mode \notin SendModes)
  /\ toChip \in Seq(Signals)
  /\ HostInv

\* What kinds of signals there are
LEMMA SignalKinds ==
  ASSUME NEW t \in Signals
  PROVE  /\ t.k = "frame" => t \in Frames
         /\ t.k \notin {"frame", "mode"} => t \in Bytes
         /\ t \in Bytes => t = [k |-> t.k]
BY DEF Signals, Frames, ModeRequests, Bytes

\* The first signal and the rest of a line
LEMMA LineTyped ==
  ASSUME NEW line \in Seq(Signals)
  PROVE  /\ line # << >> => Head(line) \in Signals /\ Tail(line) \in Seq(Signals)
         /\ \A t \in Signals : Append(line, t) \in Seq(Signals)
         /\ \A t \in Signals : << t >> \o line \in Seq(Signals)
         /\ \A t, u \in Signals : line \o << t, u >> \in Seq(Signals)
         /\ \A k \in {"ack", "nak", "can", "C", "eof", "cr", "junk"} : Byte(k) \in Signals
<1>1. \A k \in {"ack", "nak", "can", "C", "eof", "cr", "junk"} : Byte(k) \in Signals
  BY DEF Byte, Signals, Bytes
<1>2. line # << >> => Head(line) \in Signals /\ Tail(line) \in Seq(Signals)
  BY HeadTailProperties
<1>3. \A t \in Signals : Append(line, t) \in Seq(Signals)
  BY AppendProperties
<1>4. \A t \in Signals : << t >> \in Seq(Signals)
  OBVIOUS
<1>5. \A t, u \in Signals : << t, u >> \in Seq(Signals)
  OBVIOUS
<1> QED
  BY <1>1, <1>2, <1>3, <1>4, <1>5, ConcatProperties

\* Noise makes signals of signals.
LEMMA NoisyTyped ==
  ASSUME NEW line \in Seq(Signals), line # << >>, NEW noisy \in Noisy(line)
  PROVE  noisy \in Seq(Signals)
<1>1. Head(line) \in Signals /\ Tail(line) \in Seq(Signals) /\ Byte("junk") \in Signals
  BY LineTyped
<1>2. CASE noisy = Tail(line)
  BY <1>1, <1>2
<1>3. CASE \E d \in Damage :
             Head(line).k = "frame" /\ noisy = << [Head(line) EXCEPT !.damage = d] >> \o Tail(line)
  <2>1. PICK d \in Damage :
          Head(line).k = "frame" /\ noisy = << [Head(line) EXCEPT !.damage = d] >> \o Tail(line)
    BY <1>3
  <2>2. Head(line) \in Frames
    BY <1>1, <2>1, SignalKinds
  <2>3. [Head(line) EXCEPT !.damage = d] \in Signals
    BY <2>2 DEF Frames, Signals
  <2> QED
    BY <1>1, <2>1, <2>3, LineTyped
<1>4. CASE noisy = << Byte("junk") >> \o Tail(line)
  BY <1>1, <1>4, LineTyped
<1> QED
  BY <1>2, <1>3, <1>4 DEF Noisy

-----------------------------------------------------------------------------
\* The chip

\* A session stays ready for what follows through each part of a handler: a verdict,
LEMMA ValidateModeReady ==
  ASSUME NEW mode, NEW s, Ready(s)
  PROVE  Ready(ValidateMode(chip, mode, s))
<1> DEFINE restarted == [s EXCEPT !.frame = 1, !.offset = 0, !.flashOffset = 0]
<1>1. ASSUME NEW x, x = restarted
      PROVE  x.offset = 0 /\ [x EXCEPT !.mode = mode].offset = 0
  BY <1>1 DEF Ready, Sessions
<1>2. ValidateMode(chip, mode, s) \in {s, restarted, [restarted EXCEPT !.mode = mode]}
  BY DEF ValidateMode
<1> HIDE DEF restarted
<1>3. ValidateMode(chip, mode, s) = s \/ ValidateMode(chip, mode, s).offset = 0
  BY <1>1, <1>2
<1> QED
  BY <1>3, ValidateModeTyped DEF Ready

\* the top of the loop,
LEMMA LoopReady ==
  ASSUME NEW s, Ready(s), NEW st \in Stores, Loop(s, st)
  PROVE  /\ Ready(session')
         /\ pc' \in Pcs /\ (pc' = "recv" => session'.mode \notin SendModes)
<1> DEFINE r == SendHandler(chip, s, st)
<1>1. r.s \in Sessions
  BY SendHandlerTyped DEF Ready
<1>2. /\ session' = r.s
      /\ pc' = CASE r.err = "ok" -> "recv" [] r.err = "start" -> "sendStart" [] OTHER -> "ended"
  BY DEF Loop
<1>3. CASE s.mode \in SendModes /\ CommandAllowed(chip, s.mode)
  <2> DEFINE content == Content(s.mode, st)
  <2>1. r = Result("start", [s EXCEPT !.data = content, !.staged = Len(content)], st)
    BY <1>3 DEF SendHandler, SendModes
  <2>2. r.err = "start" /\ r.s = [s EXCEPT !.data = content, !.staged = Len(content)]
    BY <2>1 DEF Result
  <2> HIDE DEF content, r
  <2>3. r.s.offset = 0
    BY <1>3, <2>2 DEF Ready, Sessions
  <2>4. Filling(r.s)
    BY <1>1, <2>3, LenProperties DEF Filling, Sessions, Buffers
  <2> QED
    BY <1>1, <1>2, <2>2, <2>3, <2>4 DEF Ready, Pcs
<1>4. CASE ~(s.mode \in SendModes /\ CommandAllowed(chip, s.mode))
  <2>1. r.s = s /\ (r.err = "ok" => s.mode \notin SendModes)
    BY <1>4 DEF SendHandler, Result, SendModes
  <2> HIDE DEF r
  <2> QED
    BY <1>2, <2>1 DEF Pcs
<1> QED
  BY <1>3, <1>4

\* a boot,
LEMMA BootReady ==
  ASSUME chip \in Setups
  PROVE  /\ Ready(ValidateMode(chip, SessionInit(chip).default, SessionInit(chip)))
         /\ ValidateMode(chip, SessionInit(chip).default, SessionInit(chip)).mode \notin SendModes
<1> DEFINE s == SessionInit(chip)
<1>1. s \in Sessions /\ Filling(s) /\ s.mode \in {"firmware", "noop"}
      /\ s.default \in {"firmware", "noop"}
  BY SessionInitTyped, XmodemAssumption DEF SessionInit
<1>2. Ready(s)
  BY <1>1 DEF Ready, SendModes
<1>3. ValidateMode(chip, s.default, s).mode \in {s.mode, s.default}
  <2> DEFINE restarted == [s EXCEPT !.frame = 1, !.offset = 0, !.flashOffset = 0]
  <2>1. ASSUME NEW x, x = restarted
        PROVE  x.mode = s.mode /\ [x EXCEPT !.mode = s.default].mode = s.default
    BY <1>1, <2>1 DEF Sessions
  <2>2. ValidateMode(chip, s.default, s) \in {s, restarted, [restarted EXCEPT !.mode = s.default]}
    BY DEF ValidateMode
  <2> HIDE DEF restarted, s
  <2> QED
    BY <2>1, <2>2
<1> HIDE DEF s
<1>4. Ready(ValidateMode(chip, s.default, s))
  BY <1>2, ValidateModeReady
<1> QED
  BY <1>1, <1>3, <1>4 DEF SendModes, s

\* A handler does not change the mode, so what it leaves is ready.
LEMMA RecvHandlerMode ==
  ASSUME NEW s \in Sessions, NEW st
  PROVE  RecvHandler(chip, s, st).s.mode = s.mode
<1>1. ASSUME NEW err, NEW t \in Sessions, NEW new, t.mode = s.mode
      PROVE  /\ Result(err, t, new).s.mode = s.mode
             /\ Taken(Result(err, t, new)).s.mode = s.mode
  <2>1. [t EXCEPT !.offset = 0].mode = s.mode
    BY <1>1 DEF Sessions
  <2>2. Taken(Result(err, t, new)).s \in {t, [t EXCEPT !.offset = 0]}
    BY DEF Taken, Result
  <2> QED
    BY <1>1, <2>1, <2>2 DEF Result
<1>2. Taken(TakeMessage(chip, s, st)).s.mode = s.mode
  BY <1>1 DEF TakeMessage
<1>3. Taken(FlashFirmwareBlock(chip, s, st)).s.mode = s.mode
  <2> DEFINE at(n) == [s EXCEPT !.flashOffset = n, !.flashBegin = FlashBegin(chip, s)]
  <2>1. PICK err, new :
          \/ FlashFirmwareBlock(chip, s, st) = Result(err, at(FlashOffset(s) + 1), new)
          \/ FlashFirmwareBlock(chip, s, st) = Result(err, at(FlashOffset(s)), new)
    BY Zenon DEF FlashFirmwareBlock
  <2>2. ASSUME NEW r, r.s.mode = s.mode, NEW n, NEW e, r = Result(e, at(n), new)
        PROVE  Taken(r).s.mode = s.mode
    <3>1. r.s = at(n) /\ r = [err |-> e, s |-> at(n), st |-> new]
      BY <2>2 DEF Result
    <3>2. ASSUME NEW x, x = at(n) PROVE [x EXCEPT !.offset = 0].mode = s.mode
      BY <3>2 DEF Sessions
    <3>3. Taken(r).s \in {at(n), [at(n) EXCEPT !.offset = 0]}
      <4> HIDE DEF at
      <4> QED
        BY <3>1 DEF Taken
    <3> HIDE DEF at
    <3> QED
      BY <2>2, <3>1, <3>2, <3>3
  <2>3. ASSUME NEW n, NEW e PROVE Result(e, at(n), new).s.mode = s.mode
    <3>1. ASSUME NEW x, x = at(n) PROVE x.mode = s.mode
      BY <3>1 DEF Sessions
    <3> HIDE DEF at
    <3> QED
      BY <3>1 DEF Result
  <2> HIDE DEF at
  <2> QED
    BY <2>1, <2>2, <2>3
<1> QED
  BY <1>1, <1>2, <1>3 DEF RecvHandler

\* a frame,
LEMMA ReceivedReady ==
  ASSUME Ready(session), session.mode \notin SendModes, NEW t \in Frames, Fits(t, session)
  PROVE  Ready(Received(t)) /\ Received(t).mode = session.mode
<1> DEFINE d == SubSeq(session.data, 1, session.offset) \o t.data
           n == session.offset + Len(t.data)
<1>1. /\ session.data \in Seq(Units) /\ t.data \in Seq(Units)
      /\ session.offset \in Nat /\ BlockUnits \in Nat
      /\ session.offset <= Len(session.data)
  BY RescueAssumption DEF Ready, Filling, Sessions, Buffers, Frames
<1>2. /\ SubSeq(session.data, 1, session.offset) \in Seq(Units)
      /\ Len(SubSeq(session.data, 1, session.offset)) = session.offset
  BY <1>1, SubSeqProperties, LenProperties
<1>3. /\ d \in Seq(Units) /\ Len(d) = n /\ Len(t.data) \in Nat
  BY <1>1, <1>2, ConcatProperties, LenProperties
<1>4. n \in 0..BlockUnits
  BY <1>1, <1>3 DEF Fits
<1>5. Received(t) = [session EXCEPT !.deadline = FALSE, !.offset = n, !.data = d]
  BY DEF Received
<1> HIDE DEF n, d
<1>6. d \in Buffers
  BY <1>3, <1>4 DEF Buffers
<1>7. ASSUME NEW s, s = [session EXCEPT !.deadline = FALSE, !.offset = n, !.data = d]
      PROVE  s \in Sessions /\ s.offset = n /\ s.data = d /\ s.mode = session.mode
  BY <1>4, <1>6, <1>7 DEF Ready, Sessions
<1> QED
  BY <1>3, <1>4, <1>5, <1>7 DEF Ready, Filling

\* the padding of the last block,
LEMMA PaddedReady ==
  ASSUME Ready(session), session.mode \notin SendModes
  PROVE  Ready(Padded(session)) /\ Padded(session).mode = session.mode
<1> DEFINE d == [i \in 1..BlockUnits |-> IF i <= session.offset THEN session.data[i] ELSE FF]
<1>1. CASE session.offset % BlockUnits = 0
  BY <1>1 DEF Padded
<1>2. CASE session.offset % BlockUnits # 0
  <2>1. /\ session.data \in Seq(Units) /\ session.offset \in Nat
        /\ session.offset <= Len(session.data)
    BY RescueAssumption DEF Ready, Filling, Sessions, Buffers
  <2>2. \A i \in 1..BlockUnits : i <= session.offset => session.data[i] \in Units
    BY <2>1, ElementOfSeq, LenProperties
  <2>3. d \in FullPages
    BY <2>2, UnitTyped DEF FullPages
  <2>4. d \in Buffers /\ Len(d) = BlockUnits
    BY <2>3, PageTyped
  <2>5. Padded(session) = [session EXCEPT !.offset = BlockUnits, !.data = d]
    BY <1>2 DEF Padded
  <2> HIDE DEF d
  <2>6. ASSUME NEW s, s = [session EXCEPT !.offset = BlockUnits, !.data = d]
        PROVE  s \in Sessions /\ s.offset = BlockUnits /\ s.data = d /\ s.mode = session.mode
    <3>1. BlockUnits \in 0..BlockUnits
      BY RescueAssumption
    <3> QED
      BY <2>4, <2>6, <3>1 DEF Ready, Sessions
  <2> QED
    BY <2>4, <2>5, <2>6, RescueAssumption DEF Ready, Filling
<1> QED
  BY <1>1, <1>2

\* and updates of single fields.
LEMMA UpdatesReady ==
  ASSUME NEW s, Ready(s)
  PROVE  /\ \A n \in Nat : Ready([s EXCEPT !.frame = n])
         /\ Ready([s EXCEPT !.deadline = FALSE])
         /\ Ready([s EXCEPT !.staged = 0])
         /\ Ready(Finished(s))
<1>1. ASSUME NEW n \in Nat, NEW t, t = [s EXCEPT !.frame = n] PROVE Ready(t)
  BY <1>1 DEF Ready, Filling, Sessions
<1>2. ASSUME NEW t, t = [s EXCEPT !.deadline = FALSE] PROVE Ready(t)
  BY <1>2 DEF Ready, Filling, Sessions
<1>3. ASSUME NEW t, t = [s EXCEPT !.staged = 0] PROVE Ready(t)
  BY <1>3, RescueAssumption DEF Ready, Filling, Sessions
<1>4. ASSUME NEW t, t = [s EXCEPT !.frame = 1, !.offset = 0, !.flashOffset = 0] PROVE Ready(t)
  <2>1. 0 \in 0..BlockUnits /\ 0 \in 0..FlashLimit
    BY RescueAssumption
  <2>2. Len(s.data) \in Nat
    BY LenProperties DEF Ready, Sessions, Buffers
  <2>3. t \in Sessions
    BY <1>4, <2>1 DEF Ready, Sessions
  <2>4. t.offset = 0 /\ t.data = s.data
    BY <1>4 DEF Ready, Sessions
  <2> QED
    BY <2>2, <2>3, <2>4 DEF Ready, Filling
<1> QED
  BY <1>1, <1>2, <1>3, <1>4 DEF Finished

\* What handling a buffer leaves
LEMMA HandledReady ==
  ASSUME NEW s, Ready(s), s.mode \notin SendModes, store \in Stores
  PROVE  /\ Ready(RecvHandler(chip, s, store).s) /\ RecvHandler(chip, s, store).st \in Stores
         /\ RecvHandler(chip, s, store).s.mode \notin SendModes
<1>1. Typed(RecvHandler(chip, s, store)) /\ RecvHandler(chip, s, store).s.mode = s.mode
  BY RecvHandlerTyped, RecvHandlerMode DEF Ready
<1> QED
  BY <1>1 DEF Typed, Ready

-----------------------------------------------------------------------------
\* The host: what it sends is a frame of its file.

\* A frame of the host is a signal.
LEMMA HostFrameTyped ==
  ASSUME NEW f \in Files, NEW size \in {1, LongFrame}, NEW n \in Nat
  PROVE  HostFrame(f, size, n) \in Frames
<1> DEFINE d == [i \in 1..size |-> FileUnit(f, (n - 1) * size + i)]
<1>1. size \in Nat /\ (n - 1) * size \in Int
  BY XmodemAssumption
<1>2. ASSUME NEW at \in Int, NEW i \in 1..size PROVE FileUnit(f, at + i) \in Units
  BY <1>1, UnitTyped
<1>3. d \in [1..size -> Units]
  BY <1>1, <1>2
<1>4. d \in Seq(Units)
  BY <1>1, <1>3, FunctionLength
<1>5. n % FrameNumbers \in Nat
  BY XmodemAssumption
<1>6. HostFrame(f, size, n) =
        [k |-> "frame", num |-> n % FrameNumbers, data |-> d, damage |-> "none"]
  BY DEF HostFrame, Frame
<1> HIDE DEF d
<1> QED
  BY <1>4, <1>5, <1>6 DEF Frames

\* Updates of the host's operation
LEMMA HostMoves ==
  ASSUME HostInv
  PROVE  /\ \A result : HostEnds(result) => HostInv'
         /\ \A pc_ \in {"finish", "start", "recv"} : \A b \in Nat :
              host' = [host EXCEPT !.pc = pc_, !.block = b] /\ (pc_ # "recv" => host.op = "send")
              => HostInv'
         /\ \A c : host' = [host EXCEPT !.cancels = c] => HostInv'
         /\ \A e : host' = [host EXCEPT !.errors = e] => HostInv'
         /\ \A c, e : host' = [host EXCEPT !.cancels = c, !.errors = e] => HostInv'
         /\ \A c : host' = [host EXCEPT !.pc = "data", !.cancels = c] /\ host.op = "send"
              => HostInv'
         /\ host' = [host EXCEPT !.pc = "finish"] /\ host.op = "send" => HostInv'
         /\ \A b \in Nat : \A c : host' = [host EXCEPT !.block = b, !.cancels = c] => HostInv'
         /\ \A b \in Nat : \A g : host' = [host EXCEPT !.block = b, !.got = g] => HostInv'
         /\ \A r : host' = [host EXCEPT !.reset = r] => HostInv'
<1> USE DEF HostInv, IsHost, HostPcs
<1>1. \A result : HostEnds(result) => HostInv'
  BY DEF HostEnds
<1>2. \A pc_ \in {"finish", "start", "recv"} : \A b \in Nat :
        host' = [host EXCEPT !.pc = pc_, !.block = b] /\ (pc_ # "recv" => host.op = "send")
        => HostInv'
  OBVIOUS
<1>3. \A c : host' = [host EXCEPT !.cancels = c] => HostInv'
  OBVIOUS
<1>4. \A e : host' = [host EXCEPT !.errors = e] => HostInv'
  OBVIOUS
<1>5. \A c, e : host' = [host EXCEPT !.cancels = c, !.errors = e] => HostInv'
  OBVIOUS
<1>6. \A c : host' = [host EXCEPT !.pc = "data", !.cancels = c] /\ host.op = "send" => HostInv'
  OBVIOUS
<1>7. host' = [host EXCEPT !.pc = "finish"] /\ host.op = "send" => HostInv'
  OBVIOUS
<1>8. \A b \in Nat : \A c : host' = [host EXCEPT !.block = b, !.cancels = c] => HostInv'
  OBVIOUS
<1>9. \A b \in Nat : \A g : host' = [host EXCEPT !.block = b, !.got = g] => HostInv'
  OBVIOUS
<1>10. \A r : host' = [host EXCEPT !.reset = r] => HostInv'
  OBVIOUS
<1> QED
  BY <1>1, <1>2, <1>3, <1>4, <1>5, <1>6, <1>7, <1>8, <1>9, <1>10

\* The host's steps keep the types of host and line.
LEMMA HostBeginsTyped ==
  ASSUME TInv, HostBegins
  PROVE  HostInv' /\ toChip' \in Seq(Signals)
<1>1. \/ \E x \in Sends :
           host' = [Idle EXCEPT !.pc = "mode", !.op = "send", !.mode = x.mode,
                                !.file = x.file, !.size = x.size]
      \/ \E mode \in Reads :
           host' = [Idle EXCEPT !.pc = "mode", !.op = "recv", !.mode = mode]
  BY DEF HostBegins
<1>2. toChip' = toChip \o << ModeBytes(host'.mode), Byte("cr") >>
  BY DEF HostBegins
<1>3. HostInv' /\ host'.mode \in Modes
  <2>1. CASE \E x \in Sends :
               host' = [Idle EXCEPT !.pc = "mode", !.op = "send", !.mode = x.mode,
                                    !.file = x.file, !.size = x.size]
    <3>1. PICK x \in Sends :
            host' = [Idle EXCEPT !.pc = "mode", !.op = "send", !.mode = x.mode,
                                 !.file = x.file, !.size = x.size]
      BY <2>1
    <3>2. host' = [pc |-> "mode", op |-> "send", mode |-> x.mode, file |-> x.file,
                   size |-> x.size, block |-> 0, errors |-> 0, cancels |-> 0, got |-> << >>,
                   result |-> "none", reset |-> FALSE]
      BY <3>1 DEF Idle
    <3>3. x.mode \in Modes /\ x.file \in Files /\ x.size \in {1, LongFrame}
      BY XmodemAssumption DEF Modes
    <3> QED
      BY <3>2, <3>3 DEF HostInv, IsHost, HostPcs
  <2>2. CASE \E mode \in Reads :
               host' = [Idle EXCEPT !.pc = "mode", !.op = "recv", !.mode = mode]
    <3>1. PICK mode \in Reads :
            host' = [Idle EXCEPT !.pc = "mode", !.op = "recv", !.mode = mode]
      BY <2>2
    <3>2. host' = [pc |-> "mode", op |-> "recv", mode |-> mode, file |-> "none",
                   size |-> 0, block |-> 0, errors |-> 0, cancels |-> 0, got |-> << >>,
                   result |-> "none", reset |-> FALSE]
      BY <3>1 DEF Idle
    <3>3. mode \in Modes
      BY XmodemAssumption DEF Modes
    <3> QED
      BY <3>2, <3>3 DEF HostInv, IsHost, HostPcs
  <2> QED
    BY <1>1, <2>1, <2>2
<1>4. ModeBytes(host'.mode) \in Signals
  BY <1>3 DEF ModeBytes, Signals, ModeRequests
<1> QED
  BY <1>2, <1>3, <1>4, LineTyped DEF TInv

LEMMA HostReadsModeTyped ==
  ASSUME TInv, HostReadsMode
  PROVE  HostInv' /\ toChip' \in Seq(Signals)
<1>1. toChip' \in {toChip, Append(toChip, Byte("C"))}
  BY DEF HostReadsMode
<1>2. \/ HostEnds("failed") \/ UNCHANGED host
      \/ host' = [host EXCEPT !.pc = IF host.op = "send" THEN "start" ELSE "recv", !.block = 1]
  BY DEF HostReadsMode
<1>3. HostInv'
  <2>1. CASE UNCHANGED host
    BY <2>1 DEF TInv, HostInv, IsHost
  <2>2. CASE HostEnds("failed")
    BY <2>2, HostMoves DEF TInv
  <2>3. CASE host' = [host EXCEPT !.pc = IF host.op = "send" THEN "start" ELSE "recv", !.block = 1]
    BY <2>3, HostMoves DEF TInv
  <2> QED
    BY <1>2, <2>1, <2>2, <2>3
<1> QED
  BY <1>1, <1>3, LineTyped DEF TInv

\* send_start() and send_data(): the next frame, or one again.
LEMMA HostSendsTyped ==
  ASSUME TInv, HostStarts \/ HostSends \/ HostFinishes
  PROVE  HostInv' /\ toChip' \in Seq(Signals)
<1>1. host.op = "send" /\ host.file \in Files /\ host.size \in {1, LongFrame} /\ host.block \in Nat
  BY DEF TInv, HostInv, HostStarts, HostSends, HostFinishes
<1>2. \A n \in Nat : HostFrame(host.file, host.size, n) \in Signals
  BY <1>1, HostFrameTyped DEF Signals
<1>3. toChip' \in Seq(Signals)
  <2>1. \/ toChip' = toChip \/ toChip' = Append(toChip, Byte("eof"))
        \/ \E n \in {1, host.block, host.block + 1} :
             toChip' = Append(toChip, HostFrame(host.file, host.size, n))
    BY DEF HostStarts, HostSends, HostFinishes
  <2>2. \A n \in {1, host.block, host.block + 1} : n \in Nat
    BY <1>1
  <2> QED
    BY <1>2, <2>1, <2>2, LineTyped DEF TInv
<1>4. HostInv'
  <2>1. CASE HostStarts
    <3>1. \/ host' = [host EXCEPT !.pc = "data", !.cancels = 0] \/ HostEnds("failed")
          \/ \E c : host' = [host EXCEPT !.cancels = c]
      BY <2>1 DEF HostStarts
    <3> QED
      BY <1>1, <3>1, HostMoves DEF TInv
  <2>2. CASE HostSends
    <3>1. \/ host' = [host EXCEPT !.pc = "finish"] \/ HostEnds("failed")
          \/ host' = [host EXCEPT !.block = host.block + 1, !.cancels = 0]
          \/ \E c, e : host' = [host EXCEPT !.cancels = c, !.errors = e]
      BY <2>2 DEF HostSends
    <3>2. host.block + 1 \in Nat
      BY <1>1
    <3> QED
      BY <1>1, <3>1, <3>2, HostMoves DEF TInv
  <2>3. CASE HostFinishes
    BY <2>3, HostMoves DEF TInv, HostFinishes
  <2> QED
    BY <2>1, <2>2, <2>3
<1> QED
  BY <1>3, <1>4

LEMMA HostReceivesTyped ==
  ASSUME TInv, HostReceives
  PROVE  HostInv' /\ toChip' \in Seq(Signals)
<1>1. \E reply \in {<< Byte("ack") >>, Cancel, << Byte("nak") >>, << >>} : toChip' = toChip \o reply
  BY DEF HostReceives
<1>2. \A reply \in {<< Byte("ack") >>, Cancel, << Byte("nak") >>, << >>} : reply \in Seq(Signals)
  <2>1. \A k \in {"ack", "nak", "can"} : Byte(k) \in Signals
    BY LineTyped DEF TInv
  <2>2. \A a \in Signals : << a >> \in Seq(Signals) /\ << a, a >> \in Seq(Signals)
    OBVIOUS
  <2>3. << >> \in Seq(Signals)
    OBVIOUS
  <2> QED
    BY <2>1, <2>2, <2>3 DEF Cancel
<1>3. toChip' \in Seq(Signals)
  BY <1>1, <1>2, ConcatProperties DEF TInv
<1>4. \/ HostEnds("received") \/ HostEnds("failed")
      \/ \E e : host' = [host EXCEPT !.errors = e]
      \/ \E g : host' = [host EXCEPT !.block = host.block + 1, !.got = g]
  BY DEF HostReceives
<1>5. host.block + 1 \in Nat
  BY DEF TInv, HostInv
<1> QED
  BY <1>3, <1>4, <1>5, HostMoves DEF TInv

\* One step per action.
LEMMA TypeStep ==
  ASSUME TInv, Next
  PROVE  TInv'
<1>0. /\ toChip # << >> => Head(toChip) \in Signals /\ Tail(toChip) \in Seq(Signals)
      /\ HostInv /\ (UNCHANGED host => HostInv')
  <2>1. UNCHANGED host => HostInv'
    BY DEF TInv, HostInv, IsHost
  <2> QED
    BY <2>1, LineTyped DEF TInv
<1>1. CASE FrameAccepted
  <2> DEFINE t == Head(toChip)
             r == RecvHandler(chip, Received(t), store)
  <2>1. pc = "recv" /\ IsFrame(toChip) /\ Fits(t, session)
    BY <1>1 DEF FrameAccepted
  <2>2. t \in Frames
    BY <1>0, <2>1, SignalKinds DEF IsFrame
  <2>3. Ready(Received(t)) /\ Received(t).mode \notin SendModes
    BY <2>1, <2>2, ReceivedReady DEF TInv
  <2>4. Ready(r.s) /\ r.st \in Stores /\ r.s.mode \notin SendModes
    BY <2>3, HandledReady DEF TInv
  <2>5. /\ store' = r.st /\ toChip' = Tail(toChip) /\ UNCHANGED << chip, host >>
        /\ \/ Loop([r.s EXCEPT !.frame = r.s.frame + 1], r.st)
           \/ End(r.s)
    BY <1>1 DEF FrameAccepted
  <2> HIDE DEF r, t
  <2>6. Ready([r.s EXCEPT !.frame = r.s.frame + 1])
    <3>1. r.s.frame + 1 \in Nat
      BY <2>4 DEF Ready, Sessions
    <3> QED
      BY <2>4, <3>1, UpdatesReady
  <2>7. Ready(session') /\ pc' \in Pcs /\ (pc' = "recv" => session'.mode \notin SendModes)
    BY <2>4, <2>5, <2>6, LoopReady DEF End, Pcs
  <2>8. toChip # << >>
    BY <2>1 DEF IsFrame
  <2> QED
    BY <1>0, <2>4, <2>5, <2>7, <2>8 DEF TInv
<1>2. CASE EndOfFile
  <2> DEFINE s == Padded(session)
             r == IF session.offset % BlockUnits = 0 THEN Result("ok", s, store)
                  ELSE RecvHandler(chip, s, store)
  <2>1. pc = "recv" /\ toChip # << >>
    BY <1>2 DEF EndOfFile, IsByte
  <2>2. Ready(s) /\ s.mode \notin SendModes
    BY <2>1, PaddedReady DEF TInv
  <2>3. Ready(r.s) /\ r.st \in Stores /\ r.s.mode \notin SendModes
    <3>1. Result("ok", s, store).s = s /\ Result("ok", s, store).st = store
      BY DEF Result
    <3>2. Ready(RecvHandler(chip, s, store).s) /\ RecvHandler(chip, s, store).st \in Stores
          /\ RecvHandler(chip, s, store).s.mode \notin SendModes
      BY <2>2, HandledReady DEF TInv
    <3> HIDE DEF s
    <3> QED
      BY <2>2, <3>1, <3>2 DEF TInv
  <2>4. /\ store' = r.st /\ toChip' = Tail(toChip) /\ UNCHANGED << chip, host >>
        /\ Loop(Finished(r.s), r.st) \/ End(r.s)
    BY <1>2 DEF EndOfFile
  <2> HIDE DEF r, s
  <2>5. Ready(session') /\ pc' \in Pcs /\ (pc' = "recv" => session'.mode \notin SendModes)
    BY <2>3, <2>4, UpdatesReady, LoopReady DEF End, Pcs
  <2> QED
    BY <1>0, <2>1, <2>3, <2>4, <2>5 DEF TInv
<1>3. CASE FrameRepeated \/ ModeByte
  <2>1. /\ toChip # << >> /\ toChip' = Tail(toChip) /\ UNCHANGED << chip, store, host >>
        /\ Loop(session, store) \/ End(session)
    BY <1>3 DEF FrameRepeated, ModeByte, IsFrame
  <2>2. Ready(session') /\ pc' \in Pcs /\ (pc' = "recv" => session'.mode \notin SendModes)
    BY <2>1, LoopReady DEF TInv, End, Pcs
  <2> QED
    BY <1>0, <2>1, <2>2 DEF TInv
<1>4. CASE ModeChange
  <2> DEFINE s == ValidateMode(chip, nextMode, [session EXCEPT !.deadline = FALSE])
  <2>1. Ready(s)
    BY UpdatesReady, ValidateModeReady DEF TInv
  <2>2. /\ toChip # << >> /\ toChip' = Tail(toChip) /\ UNCHANGED << chip, store, host >>
        /\ Loop(s, store) \/ End(session)
    BY <1>4 DEF ModeChange, IsByte
  <2> HIDE DEF s
  <2>3. Ready(session') /\ pc' \in Pcs /\ (pc' = "recv" => session'.mode \notin SendModes)
    BY <2>1, <2>2, LoopReady DEF TInv, End, Pcs
  <2> QED
    BY <1>0, <2>2, <2>3 DEF TInv
<1>5. CASE SendFinish
  <2> DEFINE s == ValidateMode(chip, session.default, [session EXCEPT !.staged = 0])
  <2>1. Ready(s)
    BY UpdatesReady, ValidateModeReady DEF TInv
  <2>2. /\ toChip' = IF toChip = << >> THEN toChip ELSE Tail(toChip)
        /\ UNCHANGED << chip, store, host >> /\ Loop(s, store)
    BY <1>5 DEF SendFinish
  <2> HIDE DEF s
  <2>3. Ready(session') /\ pc' \in Pcs /\ (pc' = "recv" => session'.mode \notin SendModes)
    BY <2>1, <2>2, LoopReady DEF TInv
  <2>4. toChip' \in Seq(Signals)
    BY <1>0, <2>2 DEF TInv
  <2> QED
    BY <1>0, <2>2, <2>3, <2>4 DEF TInv
<1>6. CASE FrameFails \/ FrameCancelled \/ Inactivity
  <2>1. /\ toChip' \in {toChip, Tail(toChip)} /\ (toChip = << >> => toChip' = toChip)
        /\ End(session) /\ UNCHANGED << chip, store, host >>
    BY <1>6 DEF FrameFails, FrameCancelled, Inactivity, IsFrame
  <2>2. toChip' \in Seq(Signals)
    BY <1>0, <2>1 DEF TInv
  <2> QED
    BY <1>0, <2>1, <2>2 DEF TInv, End, Pcs
<1>7. CASE Silence \/ SendUnanswered
  <2>1. /\ UNCHANGED << chip, store, toChip, host >>
        /\ UNCHANGED << session, pc >> \/ End(session)
    BY <1>7 DEF Silence, SendUnanswered
  <2> QED
    BY <1>0, <2>1 DEF TInv, End, Pcs
<1>8. CASE SendStart \/ SendAcked \/ SendRefused
  <2>1. /\ toChip' \in {toChip, Tail(toChip)} /\ (toChip = << >> => toChip' = toChip)
        /\ UNCHANGED << chip, store, session, host >>
        /\ pc' = pc \/ pc' \in {"sendAck", "sendEnd", "ended"}
    BY <1>8 DEF SendStart, SendAcked, SendRefused, End, IsByte
  <2>2. toChip' \in Seq(Signals)
    BY <1>0, <2>1 DEF TInv
  <2> QED
    BY <1>0, <2>1, <2>2 DEF TInv, Pcs
<1>9. CASE Reset
  <2>1. /\ Boot /\ toChip' = << >> /\ UNCHANGED << chip, store >>
        /\ host' = [host EXCEPT !.reset = host.reset \/ host.pc # "idle"]
    BY <1>9 DEF Reset
  <2>2. Ready(session') /\ pc' \in Pcs /\ (pc' = "recv" => session'.mode \notin SendModes)
    BY <2>1, BootReady, LoopReady DEF TInv, Boot
  <2>3. HostInv'
    BY <1>0, <2>1, HostMoves
  <2> QED
    BY <2>1, <2>2, <2>3 DEF TInv
<1>10. CASE Host
  <2>1. UNCHANGED << chip, store, session, pc >>
    BY <1>10 DEF Host, HostBegins, HostReadsMode, HostGivesUp, HostStarts, HostSends,
                 HostFinishes, HostReceives, HostUnchanged, chipVars
  <2>2. CASE HostGivesUp
    BY <1>0, <2>1, <2>2, HostMoves DEF TInv, HostGivesUp
  <2>3. HostInv' /\ toChip' \in Seq(Signals)
    BY <1>10, <2>2, HostBeginsTyped, HostReadsModeTyped, HostSendsTyped, HostReceivesTyped
       DEF Host, TInv
  <2> QED
    BY <2>1, <2>3 DEF TInv
<1>11. CASE LineNoise
  <2>1. /\ UNCHANGED << chip, store, session, pc, host >>
        /\ toChip' = toChip \/ (toChip # << >> /\ toChip' \in Noisy(toChip))
    BY <1>11 DEF LineNoise, chipVars
  <2>2. toChip' \in Seq(Signals)
    BY <2>1, NoisyTyped DEF TInv
  <2> QED
    BY <1>0, <2>1, <2>2 DEF TInv
<1>12. CASE WriteBreaksOff
  <2> DEFINE t == Head(toChip)
             s == CASE t.k = "eof" -> Padded(session)
                    [] IsFrame(toChip) -> Received(t)
                    [] OTHER -> session
  <2>1. /\ pc = "recv" /\ toChip # << >> /\ toChip' = Tail(toChip) /\ UNCHANGED << chip, host >>
        /\ t.k = "frame" => Fits(t, session)
        /\ store' \in Broken(chip, s, store) /\ End(s)
    BY <1>12 DEF WriteBreaksOff
  <2>2. Ready(Padded(session)) /\ Ready(session)
    BY <2>1, PaddedReady DEF TInv
  <2>3. IsFrame(toChip) => Ready(Received(t))
    BY <1>0, <2>1, SignalKinds, ReceivedReady DEF TInv, IsFrame
  <2>4. Ready(s)
    BY <2>2, <2>3
  <2> HIDE DEF s
  <2>5. store' \in Stores
    BY <2>1, <2>4, BrokenTyped DEF TInv, Ready
  <2> QED
    BY <1>0, <2>1, <2>4, <2>5 DEF TInv, End, Pcs
<1>13. CASE PowerCut
  <2>1. Scrambled \in Messages
    BY UnitTyped DEF Scrambled, Messages
  <2>2. store' \in Stores
    BY <1>13, <2>1, StoreTyped DEF PowerCut, TInv
  <2> QED
    BY <1>0, <1>13, <2>2 DEF PowerCut, TInv, Pcs
<1> QED
  BY <1>1, <1>2, <1>3, <1>4, <1>5, <1>6, <1>7, <1>8, <1>9, <1>10, <1>11, <1>12, <1>13
     DEF Next, Chip, Receive, Command, Transmit

\* The initial state has its type.
LEMMA InitTyped ==
  ASSUME Init
  PROVE  TInv
<1>1. store \in Stores
  <2>1. PageOf(Old) \in FullPages
    BY UnitTyped, PageTyped
  <2>2. [i \in 1..MsgUnits |-> Old] \in Messages
    BY UnitTyped DEF Messages
  <2> QED
    BY <2>1, <2>2 DEF Init, Stores, Banks
<1>2. Ready(session) /\ session.mode \notin SendModes
  BY BootReady DEF Init
<1>3. HostInv
  BY DEF Init, Idle, HostInv, IsHost, HostPcs
<1> QED
  BY <1>1, <1>2, <1>3 DEF Init, TInv, Pcs

\* The types of session, store, line and host stay: what TypeOK and the lemmas below rest
\* on.
THEOREM TypeInvariance == Spec => []TInv
<1>1. Init => TInv
  BY InitTyped
<1>2. TInv /\ [Next]_vars => TInv'
  <2>1. ASSUME TInv, UNCHANGED vars PROVE TInv'
    BY <2>1 DEF vars, chipVars, TInv, Ready, Filling, HostInv, IsHost
  <2> QED
    BY <2>1, TypeStep
<1> QED
  BY <1>1, <1>2, PTL DEF Spec

\* Every reachable state of chip, line, host and flash has its type: the buffer
\* is never overrun and filled as far as the offset says, and a transfer stays
\* below the limit, whatever is sent, damaged, lost or sent again.
THEOREM TypeCorrect == Spec => []TypeOK
<1>1. TInv => TypeOK
  <2> SUFFICES ASSUME TInv PROVE TypeOK
    OBVIOUS
  <2>1. /\ session \in Sessions /\ Filling(session) /\ store \in Stores
    BY DEF TInv, Ready
  <2>2. Len(session.data) <= BlockUnits
    BY <2>1 DEF Sessions, Buffers
  <2>3. \A slot \in Slots, p \in Pages : Len(store.flash[slot][p]) = BlockUnits
    BY <2>1, PageTyped DEF Stores, Banks
  <2>4. Len(store.owner1) = BlockUnits /\ Len(store.msg) = MsgUnits
    BY <2>1, PageTyped DEF Stores
  <2> QED
    BY <2>1, <2>2, <2>3, <2>4 DEF TypeOK, TInv, Filling, Sessions, Pcs, HostInv, HostPcs
<1> QED
  BY <1>1, TypeInvariance, PTL

-----------------------------------------------------------------------------
(***************************************************************************)
(* What an acknowledged file and a received one rest on: host and chip     *)
(* agree on the mode, and then on the frame that comes next, whatever was  *)
(* lost, damaged or sent again.  Frames are numbered modulo FrameNumbers,  *)
(* so the line may hold copies of two neighbours at most.                  *)
(***************************************************************************)

Has(line, k) == \E i \in DOMAIN line : line[i].k = k
Only(line, kinds) == \A i \in DOMAIN line : line[i].k \in kinds
AtMostOne(line, k) == \A i, j \in DOMAIN line : line[i].k = k /\ line[j].k = k => i = j
OnlyLast(line, k) == \A i \in DOMAIN line : line[i].k = k => i = Len(line)
IsLine(line) == \E S : line \in Seq(S)

\* A frame and another that damage made of it
Copy(t, x) == t.k = "frame" /\ x.k = "frame" /\ t.num = x.num /\ t.data = x.data

\* The frames on a line are copies of x, and then of y.
Copies(line, x, y) ==
  \E n \in 0..Len(line) : \A i \in DOMAIN line :
    line[i].k = "frame" => Copy(line[i], IF i <= n THEN x ELSE y)

\* What is on the line of a host that asks for a mode, and of one that receives
Asking == {"ack", "junk", "mode", "cr"}
Replies == {"ack", "nak", "can", "junk"}
Sending == {"sendStart", "sendAck", "sendEnd"}

-----------------------------------------------------------------------------
TrueTexts(line) == \A i \in DOMAIN line : line[i].k = "text" =>
  (line[i].ok <=> ModeVerdict(chip, line[i].mode) = "ok")

\* The chip: between transfers nothing is left of the last one, and what it
\* sends is what it holds.
ChipInv ==
  /\ session.frame \in Nat \ {0} /\ session.default = SessionInit(chip).default
  /\ pc /= "ended" /\ session.frame = 1 => session.offset = 0 /\ session.flashOffset = 0
  /\ pc \in Sending =>
       /\ session.frame = 1 /\ session.mode \in SendModes
       /\ session.data = Content(session.mode, store) /\ session.staged = Len(session.data)
  /\ pc = "sendAck" => send.block \in Nat \ {0} /\ Sent(send.block - 1) < session.staged
  /\ IsLine(toHost) /\ TrueTexts(toHost)

Asked ==
  /\ nextMode \in {"none", "bad", host.mode}
  /\ \A i \in DOMAIN toChip : toChip[i].k = "mode" => toChip[i].mode = host.mode

Answered == \E i \in DOMAIN toHost :
  toHost[i].k = "text" /\ toHost[i].mode = host.mode /\ toHost[i].ok

Agreed == session.mode = host.mode /\ ModeVerdict(chip, host.mode) = "ok"

-----------------------------------------------------------------------------
\* A host that sends

FileFrame(n) == HostFrame(host.file, host.size, n)
LastBlock == Blocks(host.file, host.size)

\* u units of the file have come: k blocks are in their place, and the rest is in
\* the buffer.  A message and an owner block are one block.
Whole(mode) == IF mode = "bootSvcReq" THEN MsgUnits ELSE BlockUnits

Counted(mode, offset, u, k) ==
  IF mode \in FirmwareModes
  THEN u = k * BlockUnits + offset /\ offset < BlockUnits
  ELSE \/ k = 0 /\ offset = u /\ u < Whole(mode)
       \/ k = 1 /\ offset = 0 /\ u >= Whole(mode)

Buffered(s, f, k) == \A i \in 1..s.offset : s.data[i] = FileUnit(f, k * BlockUnits + i)

Holding(s, st, mode, f, u) ==
  \E k \in Nat :
    /\ TakenBlocks(chip, mode, f, s, st, k)
    /\ Buffered(s, f, k) /\ Counted(mode, s.offset, u, k)

Progress(u) == Holding(session, store, host.mode, host.file, u)

AskingToSend ==
  /\ Only(toChip, Asking) /\ session.frame = 1 /\ ~Has(toHost, "ack")
  /\ pc \in {"recv", "sendEnd", "ended"}
  /\ host.pc = "mode" => (Answered => Agreed)
  /\ host.pc = "start" => Agreed /\ host.block = 1

\* The chip waits for the frame on its way, or has taken it and the
\* acknowledgement is on its way or lost.
Waits ==
  /\ session.frame = host.block /\ ~Has(toHost, "ack")
  /\ Copies(toChip, FileFrame(host.block - 1), FileFrame(host.block))

HasTaken ==
  /\ session.frame = host.block + 1 /\ AtMostOne(toHost, "ack")
  /\ Copies(toChip, FileFrame(host.block), FileFrame(host.block))

SendingData ==
  /\ Agreed /\ pc \in {"recv", "ended"}
  /\ host.block \in 1..LastBlock
  /\ Only(toChip, Asking \cup {"frame"})
  /\ Waits \/ HasTaken
  /\ pc = "recv" => Progress((session.frame - 1) * host.size)

Finishing ==
  /\ Agreed /\ pc \in {"recv", "ended"}
  /\ host.block = LastBlock /\ LastBlock \in Nat \ {0}
  /\ \/ /\ session.frame = host.block + 1 /\ ~Has(toHost, "ack")
        /\ Only(toChip, Asking \cup {"frame", "eof"}) /\ OnlyLast(toChip, "eof")
        /\ Copies(toChip, FileFrame(host.block), FileFrame(host.block))
        /\ pc = "recv" => Progress(host.block * host.size)
     \/ session.frame = 1 /\ toChip = << >> /\ Stored

SendInv ==
  /\ [mode |-> host.mode, file |-> host.file, size |-> host.size] \in Sends
  /\ host.pc \in {"idle", "mode", "start", "data", "finish"} /\ host.result /= "received"
  /\ host.pc /= "idle" => Asked
  /\ host.pc \in {"mode", "start"} => AskingToSend
  /\ host.pc = "data" => SendingData
  /\ host.pc = "finish" => Finishing
  /\ host.pc = "idle" /\ host.result = "acked" =>
       Stored /\ toChip = << >> /\ session.frame = 1 /\ pc \in {"recv", "ended"}

-----------------------------------------------------------------------------
\* A host that receives

Complete ==
  host.got = Content(host.mode, store) \/ (host.mode = "bootSvcRsp" /\ store.msg = Scrambled)

ChipFrame(n) == Frame(n, Chunk(Sent(n - 1)))

AskingToReceive ==
  /\ Only(toChip, Asking) /\ Asked /\ host.got = << >>
  /\ ~Has(toHost, "frame") /\ ~Has(toHost, "eof")
  /\ pc \in {"recv", "sendEnd", "sendStart", "ended"}
  /\ pc = "sendStart" => session.mode = host.mode
  /\ Answered => pc \in {"sendStart", "ended"}

Starting ==
  /\ session.mode = host.mode /\ host.block = 1 /\ host.got = << >>
  /\ ~Has(toHost, "frame") /\ ~Has(toHost, "eof")
  /\ Only(toChip, Asking \cup {"C"}) /\ OnlyLast(toChip, "C")

\* The frame is on its way, or was received and the acknowledgement is on its
\* way or lost.
Offered ==
  /\ host.block = send.block /\ ~Has(toChip, "ack")
  /\ Copies(toHost, ChipFrame(send.block - 1), ChipFrame(send.block))

WasReceived ==
  /\ host.block = send.block + 1 /\ AtMostOne(toChip, "ack")
  /\ Copies(toHost, ChipFrame(send.block), ChipFrame(send.block))

Transmitting ==
  /\ session.mode = host.mode /\ Only(toChip, Replies) /\ ~Has(toHost, "eof")
  /\ host.got = SubSeq(session.data, 1, Sent(host.block - 1))
  /\ Offered \/ WasReceived

AllSent ==
  /\ Complete /\ Only(toChip, Replies) /\ session.frame = 1
  /\ pc \in {"recv", "sendEnd", "ended"}
  /\ \A i \in DOMAIN toHost : toHost[i].k = "frame" => toHost[i].num # host.block % FrameNumbers

Receiving ==
  /\ host.block \in Nat \ {0}
  /\ pc = "sendStart" => Starting
  /\ pc = "sendAck" => Transmitting
  /\ pc \in {"recv", "sendEnd"} => Only(toChip, Replies)
  /\ Has(toHost, "eof") => AllSent

ReceiveInv ==
  /\ host.mode \in SendModes
  /\ host.pc \in {"idle", "mode", "recv"} /\ host.result /= "acked"
  /\ host.pc = "mode" => AskingToReceive
  /\ host.pc = "recv" => Receiving
  /\ host.pc = "idle" /\ host.result = "received" =>
       /\ Complete /\ Only(toChip, Replies) /\ session.frame = 1
       /\ pc \in {"recv", "sendEnd", "ended"}

-----------------------------------------------------------------------------
LinkInv ==
  /\ host.op \in {"none", "send", "recv"}
  /\ host.op = "none" => host.result = "none" /\ host.pc = "idle"
  /\ host.op = "send" /\ ~host.reset => SendInv
  /\ host.op = "recv" /\ ~host.reset => ReceiveInv

\* The line an operation begins on: nothing of an earlier one is left on it.
QuietLine ==
  /\ \/ pc = "recv" /\ session.frame = 1 /\ toChip = << >>
     \/ pc = "sendEnd" /\ toChip \in {<< >>, << Byte("ack") >>}
  /\ nextMode \in {"none", "bad"}
  /\ \A i \in DOMAIN toHost :
       /\ toHost[i].k \notin {"ack", "frame", "eof"}
       /\ toHost[i].k = "text" /\ toHost[i].mode = host'.mode =>
            pc = "recv" /\ session.mode = host'.mode

-----------------------------------------------------------------------------
(***************************************************************************)
(* Lines: what is left of a line, and what an operation adds to it.        *)
(***************************************************************************)

\* What comes after d of a line, damaged or not, and sounds of other kinds
Same(t, u) == t = u \/ Copy(t, u)
Remains(line, new, extra) ==
  \E d \in 0..Len(line) : \A i \in DOMAIN new :
    (i + d \in DOMAIN line /\ Same(new[i], line[i + d])) \/ new[i].k \in extra

Fades(line, new) ==
  /\ Remains(line, new, {"junk"}) /\ IsLine(new)
  /\ line = << >> => new = << >>
  /\ \A k : k # "junk" /\ OnlyLast(line, k) => OnlyLast(new, k)

\* What every host skips, or counts as an error
Mere == {"junk", "C", "nak", "can", "boot"}

\* What a line is, whatever its elements: their positions, and what is left without the
\* first
LEMMA LineFacts ==
  ASSUME NEW line, IsLine(line)
  PROVE  /\ Len(line) \in Nat /\ DOMAIN line = 1..Len(line)
         /\ line = << >> <=> Len(line) = 0
         /\ line # << >> => /\ Head(line) = line[1] /\ 1 \in DOMAIN line
                            /\ IsLine(Tail(line)) /\ Len(Tail(line)) = Len(line) - 1
                            /\ \A i \in DOMAIN Tail(line) :
                                 i + 1 \in DOMAIN line /\ Tail(line)[i] = line[i + 1]
<1>1. PICK S : line \in Seq(S)
  BY DEF IsLine
<1>2. Len(line) \in Nat /\ DOMAIN line = 1..Len(line) /\ (line = << >> <=> Len(line) = 0)
  BY <1>1, LenProperties, EmptySeq
<1>3. ASSUME line # << >>
      PROVE  /\ Head(line) = line[1] /\ 1 \in DOMAIN line
             /\ Tail(line) \in Seq(S) /\ Len(Tail(line)) = Len(line) - 1
             /\ \A i \in 1..Len(Tail(line)) : Tail(line)[i] = line[i + 1]
  <2>1. Head(line) = line[1]
    BY <1>1, <1>3
  <2>2. Tail(line) \in Seq(S) /\ Len(Tail(line)) = Len(line) - 1
        /\ \A i \in 1..Len(Tail(line)) : Tail(line)[i] = line[i + 1]
    BY <1>1, <1>3, HeadTailProperties
  <2> QED
    BY <1>2, <1>3, <2>1, <2>2
<1>4. ASSUME line # << >>
      PROVE  \A i \in DOMAIN Tail(line) : i + 1 \in DOMAIN line /\ Tail(line)[i] = line[i + 1]
  <2>1. DOMAIN Tail(line) = 1..Len(Tail(line))
    BY <1>3, <1>4, LenProperties
  <2> QED
    BY <1>2, <1>3, <1>4, <2>1
<1> QED
  BY <1>2, <1>3, <1>4 DEF IsLine

\* A line with one more element
LEMMA AppendFacts ==
  ASSUME NEW line, IsLine(line), NEW t
  PROVE  /\ IsLine(Append(line, t)) /\ Len(Append(line, t)) = Len(line) + 1
         /\ DOMAIN Append(line, t) = 1..(Len(line) + 1)
         /\ \A i \in DOMAIN line : Append(line, t)[i] = line[i]
         /\ Append(line, t)[Len(line) + 1] = t
<1>1. PICK S : line \in Seq(S)
  BY DEF IsLine
<1>2. line \in Seq(S \cup {t}) /\ t \in S \cup {t}
  BY <1>1, SeqMonotonic
<1>3. /\ Append(line, t) \in Seq(S \cup {t}) /\ Len(Append(line, t)) = Len(line) + 1
      /\ \A i \in 1..Len(line) : Append(line, t)[i] = line[i]
      /\ Append(line, t)[Len(line) + 1] = t
  BY <1>2, AppendProperties
<1>4. DOMAIN Append(line, t) = 1..(Len(line) + 1) /\ DOMAIN line = 1..Len(line)
  BY <1>1, <1>3, LenProperties
<1> QED
  BY <1>3, <1>4 DEF IsLine

\* Appending nothing, one element or two
LEMMA ConcatFacts ==
  ASSUME NEW line, IsLine(line), NEW t, NEW u
  PROVE  /\ line \o << >> = line
         /\ line \o << t >> = Append(line, t)
         /\ line \o << t, u >> = Append(Append(line, t), u)
<1>1. PICK S : line \in Seq(S)
  BY DEF IsLine
<1> DEFINE T == S \cup {t, u}
<1>2. line \in Seq(T) /\ t \in T /\ u \in T
  BY <1>1, SeqMonotonic
<1> HIDE DEF T
<1>3. line \o << >> = line
  BY <1>2, ConcatEmptySeq
<1>4. line \o << t >> = Append(line, t) /\ Append(line, t) \in Seq(T)
  BY <1>2, AppendIsConcat, AppendProperties
<1>5. line \o << t, u >> = Append(Append(line, t), u)
  BY <1>2
<1> QED
  BY <1>3, <1>4, <1>5

\* What remains of a line keeps what was said of it.
LEMMA RemainsKeeps ==
  ASSUME NEW line, IsLine(line), NEW new, IsLine(new), NEW extra, Remains(line, new, extra)
  PROVE  /\ \A kinds : Only(line, kinds) /\ extra \subseteq kinds => Only(new, kinds)
         /\ \A k : k \notin extra /\ Has(new, k) => Has(line, k)
         /\ \A k : k \notin extra /\ AtMostOne(line, k) => AtMostOne(new, k)
         /\ "frame" \notin extra => \A x, y : Copies(line, x, y) => Copies(new, x, y)
         /\ \A i \in DOMAIN new : new[i].k \notin extra /\ new[i].k # "frame" =>
              \E j \in DOMAIN line : line[j] = new[i]
         /\ \A i \in DOMAIN new : new[i].k \notin extra /\ new[i].k = "frame" =>
              \E j \in DOMAIN line : line[j].k = "frame" /\ line[j].num = new[i].num
<1>1. PICK d \in 0..Len(line) : \A i \in DOMAIN new :
        (i + d \in DOMAIN line /\ Same(new[i], line[i + d])) \/ new[i].k \in extra
  BY DEF Remains
<1>2. /\ Len(line) \in Nat /\ DOMAIN line = 1..Len(line)
      /\ Len(new) \in Nat /\ DOMAIN new = 1..Len(new)
  BY LineFacts
<1>3. \A i \in DOMAIN new : new[i].k \in extra \/ (i + d \in DOMAIN line /\ new[i].k = line[i + d].k)
  BY <1>1 DEF Same, Copy
<1>4. ASSUME NEW kinds, Only(line, kinds), extra \subseteq kinds PROVE Only(new, kinds)
  BY <1>3, <1>4 DEF Only
<1>5. ASSUME NEW k, k \notin extra, Has(new, k) PROVE Has(line, k)
  BY <1>3, <1>5 DEF Has
<1>6. ASSUME NEW k, k \notin extra, AtMostOne(line, k) PROVE AtMostOne(new, k)
  BY <1>2, <1>3, <1>6 DEF AtMostOne
<1>7. ASSUME "frame" \notin extra, NEW x, NEW y, Copies(line, x, y) PROVE Copies(new, x, y)
  <2>1. PICK n \in 0..Len(line) : \A i \in DOMAIN line :
          line[i].k = "frame" => Copy(line[i], IF i <= n THEN x ELSE y)
    BY <1>7 DEF Copies
  <2> DEFINE m == IF n <= d THEN 0 ELSE IF n - d <= Len(new) THEN n - d ELSE Len(new)
  <2>2. m \in 0..Len(new) /\ \A i \in DOMAIN new : i <= m <=> i + d <= n
    BY <1>2
  <2>3. ASSUME NEW i \in DOMAIN new, new[i].k = "frame"
        PROVE  Copy(new[i], IF i <= m THEN x ELSE y)
    <3>1. i + d \in DOMAIN line /\ Same(new[i], line[i + d])
      BY <1>1, <1>7, <2>3
    <3>2. line[i + d].k = "frame" /\ new[i].num = line[i + d].num /\ new[i].data = line[i + d].data
      BY <2>3, <3>1 DEF Same, Copy
    <3>3. Copy(line[i + d], IF i + d <= n THEN x ELSE y)
      BY <2>1, <3>1, <3>2
    <3> HIDE DEF m
    <3> QED
      BY <2>2, <2>3, <3>2, <3>3 DEF Copy
  <2> QED
    BY <2>2, <2>3 DEF Copies
<1>8. ASSUME NEW i \in DOMAIN new, new[i].k \notin extra
      PROVE  /\ new[i].k # "frame" => \E j \in DOMAIN line : line[j] = new[i]
             /\ new[i].k = "frame" =>
                  \E j \in DOMAIN line : line[j].k = "frame" /\ line[j].num = new[i].num
  BY <1>1, <1>8 DEF Same, Copy
<1> QED
  BY <1>4, <1>5, <1>6, <1>7, <1>8

\* A line that is read, or lost, fades.
LEMMA TailFades ==
  ASSUME NEW line, IsLine(line)
  PROVE  /\ Fades(line, line) /\ Fades(line, << >>) /\ Remains(line, line, Mere)
         /\ line # << >> => Fades(line, Tail(line)) /\ Remains(line, Tail(line), Mere)
<1>0. Len(line) \in Nat /\ DOMAIN line = 1..Len(line) /\ (line = << >> <=> Len(line) = 0)
  BY LineFacts
<1>1. Remains(line, line, {"junk"}) /\ Remains(line, line, Mere)
  <2>1. 0 \in 0..Len(line) /\ \A i \in DOMAIN line : i + 0 \in DOMAIN line /\ line[i] = line[i + 0]
    BY <1>0
  <2> QED
    BY <2>1 DEF Remains, Same
<1>2. IsLine(<< >>) /\ DOMAIN << >> = {}
  BY EmptySeq DEF IsLine
<1>3. Fades(line, << >>)
  BY <1>0, <1>2 DEF Fades, Remains, OnlyLast
<1>4. ASSUME line # << >> PROVE Fades(line, Tail(line)) /\ Remains(line, Tail(line), Mere)
  <2>1. /\ IsLine(Tail(line)) /\ Len(Tail(line)) = Len(line) - 1
        /\ \A i \in DOMAIN Tail(line) : i + 1 \in DOMAIN line /\ Tail(line)[i] = line[i + 1]
    BY <1>4, LineFacts
  <2>2. 1 \in 0..Len(line)
    BY <1>0, <1>4
  <2>3. Remains(line, Tail(line), {"junk"}) /\ Remains(line, Tail(line), Mere)
    BY <2>1, <2>2 DEF Remains, Same
  <2>4. \A i \in DOMAIN Tail(line) : i \in Nat
    BY <2>1, LineFacts
  <2>5. \A k : OnlyLast(line, k) => OnlyLast(Tail(line), k)
    BY <1>0, <2>1, <2>4 DEF OnlyLast
  <2> QED
    BY <1>4, <2>1, <2>3, <2>5 DEF Fades
<1> QED
  BY <1>1, <1>3, <1>4 DEF Fades

\* What remains of a line remains when something unimportant is sent after it.
LEMMA AppendRemains ==
  ASSUME NEW line, IsLine(line), NEW new, IsLine(new), NEW extra, Remains(line, new, extra), NEW t
  PROVE  t.k \in extra => Remains(line, Append(new, t), extra)
<1>1. /\ DOMAIN Append(new, t) = 1..(Len(new) + 1) /\ DOMAIN new = 1..Len(new) /\ Len(new) \in Nat
      /\ \A i \in DOMAIN new : Append(new, t)[i] = new[i]
      /\ Append(new, t)[Len(new) + 1] = t
  BY AppendFacts, LineFacts
<1> QED
  BY <1>1 DEF Remains

\* Noise loses the first sound of a line, or damages it.
LEMMA NoisyFades ==
  ASSUME NEW line, IsLine(line), line # << >>, NEW new \in Noisy(line)
  PROVE  Fades(line, new) /\ Remains(line, new, Mere)
<1>1. CASE new = Tail(line)
  BY <1>1, TailFades
<1>2. CASE \E t : /\ new = << t >> \o Tail(line)
                  /\ Same(t, Head(line)) \/ t.k = "junk"
                  /\ t.k = Head(line).k \/ t.k = "junk"
  <2>1. PICK t : /\ new = << t >> \o Tail(line)
                 /\ Same(t, Head(line)) \/ t.k = "junk"
                 /\ t.k = Head(line).k \/ t.k = "junk"
    BY <1>2
  <2>2. PICK S : line \in Seq(S)
    BY DEF IsLine
  <2> DEFINE T == S \cup {t}
  <2>3. line \in Seq(T) /\ << t >> \in Seq(T)
    BY <2>2, SeqMonotonic
  <2>4. /\ Len(<< t >>) = 1 /\ << t >>[1] = t /\ Tail(line) \in Seq(T) /\ Head(line) = line[1]
        /\ Len(Tail(line)) = Len(line) - 1
        /\ \A i \in 1..Len(Tail(line)) : Tail(line)[i] = line[i + 1]
    BY <2>3, HeadTailProperties
  <2>5. Len(line) \in Nat /\ Len(line) > 0 /\ DOMAIN line = 1..Len(line)
    BY LineFacts
  <2>6. new \in Seq(T) /\ Len(new) = Len(line) /\ DOMAIN new = 1..Len(line)
    BY <2>1, <2>3, <2>4, <2>5, ConcatProperties, LenProperties
  <2>7. new[1] = t /\ \A i \in 2..Len(line) : new[i] = line[i]
    <3>1. \A i \in 1..(1 + Len(Tail(line))) :
            (<< t >> \o Tail(line))[i] = IF i <= 1 THEN << t >>[i] ELSE Tail(line)[i - 1]
      BY <2>3, <2>4, ConcatProperties
    <3>2. \A i \in 2..Len(line) : i - 1 \in 1..Len(Tail(line)) /\ (i - 1) + 1 = i
      BY <2>4, <2>5
    <3> QED
      BY <2>1, <2>4, <2>5, <3>1, <3>2
  <2>8. \A i \in DOMAIN new :
          i + 0 \in DOMAIN line /\ (Same(new[i], line[i + 0]) \/ new[i].k = "junk")
    BY <2>1, <2>4, <2>5, <2>6, <2>7 DEF Same
  <2>9. Remains(line, new, {"junk"}) /\ Remains(line, new, Mere)
    BY <2>5, <2>8 DEF Remains, Mere
  <2>10. \A k : k # "junk" /\ OnlyLast(line, k) => OnlyLast(new, k)
    <3>1. \A i \in DOMAIN new : new[i].k = line[i].k \/ new[i].k = "junk"
      BY <2>1, <2>4, <2>5, <2>6, <2>7
    <3> QED
      BY <2>5, <2>6, <3>1 DEF OnlyLast
  <2> QED
    BY <2>6, <2>9, <2>10 DEF Fades, IsLine
<1>3. CASE \E d \in Damage :
             Head(line).k = "frame" /\ new = << [Head(line) EXCEPT !.damage = d] >> \o Tail(line)
  <2>1. PICK d \in Damage :
          Head(line).k = "frame" /\ new = << [Head(line) EXCEPT !.damage = d] >> \o Tail(line)
    BY <1>3
  <2>2. ASSUME NEW t, t = [Head(line) EXCEPT !.damage = d]
        PROVE  t.k = Head(line).k /\ Same(t, Head(line))
    BY <2>1, <2>2 DEF Same, Copy
  <2> QED
    BY <1>2, <2>1, <2>2
<1>4. CASE new = << Byte("junk") >> \o Tail(line)
  <2>1. Byte("junk").k = "junk"
    BY DEF Byte
  <2> QED
    BY <1>2, <1>4, <2>1
<1> QED
  BY <1>1, <1>3, <1>4 DEF Noisy

-----------------------------------------------------------------------------
(***************************************************************************)
(* Sessions: what the operations of the chip do to one.                    *)
(***************************************************************************)

\* Where the top of the loop leads (Loop): it sends only in a mode that sends, and then
\* all of the content.
LEMMA LoopGoes ==
  ASSUME NEW s \in Sessions, NEW st, Loop(s, st)
  PROVE  /\ s.mode \notin SendModes => session' = s /\ pc' \in {"recv", "ended"}
         /\ s.mode \notin SendModes /\ s.mode # "reboot" /\ CommandAllowed(chip, s.mode) => pc' = "recv"
         /\ s.mode = "noop" => pc' = "recv"
         /\ s.mode \in SendModes /\ CommandAllowed(chip, s.mode) =>
              /\ pc' = "sendStart" /\ session'.data = Content(s.mode, st)
              /\ session'.staged = Len(Content(s.mode, st))
              /\ session'.mode = s.mode /\ session'.frame = s.frame
              /\ session'.default = s.default /\ session'.offset = s.offset
              /\ session'.flashOffset = s.flashOffset
<1> DEFINE r == SendHandler(chip, s, st)
<1>1. /\ session' = r.s
      /\ pc' = CASE r.err = "ok" -> "recv" [] r.err = "start" -> "sendStart" [] OTHER -> "ended"
  BY DEF Loop
<1>2. ASSUME s.mode \notin SendModes
      PROVE  /\ r.s = s /\ r.err # "start"
             /\ s.mode # "reboot" /\ CommandAllowed(chip, s.mode) => r.err = "ok"
             /\ s.mode = "noop" => r.err = "ok"
  BY <1>2 DEF SendHandler, Result
<1>3. ASSUME s.mode \in SendModes, CommandAllowed(chip, s.mode)
      PROVE  r.err = "start" /\ r.s = [s EXCEPT !.data = Content(s.mode, st), !.staged = Len(Content(s.mode, st))]
  BY <1>3 DEF SendHandler, Result, SendModes
<1> DEFINE c == Content(s.mode, st)
<1>5. ASSUME s.mode \in SendModes, CommandAllowed(chip, s.mode)
      PROVE  pc' = "sendStart" /\ session' = [s EXCEPT !.data = c, !.staged = Len(c)]
  <2>1. r.err = "start" /\ r.s = [s EXCEPT !.data = c, !.staged = Len(c)]
    BY <1>3, <1>5
  <2> HIDE DEF r, c
  <2> QED
    BY <1>1, <2>1
<1>6. ASSUME s.mode \notin SendModes
      PROVE  /\ session' = s /\ pc' \in {"recv", "ended"}
             /\ r.err = "ok" => pc' = "recv"
  <2> HIDE DEF r
  <2> QED
    BY <1>1, <1>2, <1>6
<1>7. "noop" \notin SendModes
  BY DEF SendModes
<1> HIDE DEF r, c
<1> DEFINE n == Len(c)
<1> HIDE DEF n
<1>4. ASSUME NEW t, t = [s EXCEPT !.data = c, !.staged = n]
      PROVE  /\ t.data = c /\ t.staged = n /\ t.mode = s.mode /\ t.frame = s.frame
             /\ t.default = s.default /\ t.offset = s.offset /\ t.flashOffset = s.flashOffset
  BY <1>4 DEF Sessions
<1>8. ASSUME s.mode \in SendModes, CommandAllowed(chip, s.mode)
      PROVE  /\ pc' = "sendStart" /\ session'.data = c /\ session'.staged = Len(c)
             /\ session'.mode = s.mode /\ session'.frame = s.frame
             /\ session'.default = s.default /\ session'.offset = s.offset
             /\ session'.flashOffset = s.flashOffset
  BY <1>4, <1>5, <1>8 DEF n
<1> QED
  BY <1>2, <1>6, <1>7, <1>8 DEF c

\* A verdict resets the transfer, and only an accepted mode takes effect (validate_mode).
LEMMA ValidateModeGoes ==
  ASSUME NEW mode, NEW s \in Sessions
  PROVE  /\ ModeVerdict(chip, mode) = "ok" => ValidateMode(chip, mode, s).mode = mode
         /\ ModeVerdict(chip, mode) # "ok" => ValidateMode(chip, mode, s).mode = s.mode
         /\ ModeVerdict(chip, mode) \in {"ok", "forbidden"} =>
              /\ ValidateMode(chip, mode, s).frame = 1 /\ ValidateMode(chip, mode, s).offset = 0
              /\ ValidateMode(chip, mode, s).flashOffset = 0
         /\ ModeVerdict(chip, mode) \notin {"ok", "forbidden"} => ValidateMode(chip, mode, s) = s
         /\ ValidateMode(chip, mode, s).default = s.default
<1> DEFINE t == [s EXCEPT !.frame = 1, !.offset = 0, !.flashOffset = 0]
<1>1. ASSUME NEW x, x = t
      PROVE  x.mode = s.mode /\ x.default = s.default /\ x.frame = 1 /\ x.offset = 0 /\ x.flashOffset = 0
  BY <1>1 DEF Sessions
<1>2. ASSUME NEW x, x = [t EXCEPT !.mode = mode]
      PROVE  x.mode = mode /\ x.default = s.default /\ x.frame = 1 /\ x.offset = 0 /\ x.flashOffset = 0
  BY <1>2 DEF Sessions
<1>3. ValidateMode(chip, mode, s) =
        CASE ModeVerdict(chip, mode) = "ok" -> [t EXCEPT !.mode = mode]
          [] ModeVerdict(chip, mode) = "forbidden" -> t
          [] OTHER -> s
  BY DEF ValidateMode
<1> HIDE DEF t
<1> QED
  BY <1>1, <1>2, <1>3

\* The default mode is one that the configuration allows.
LEMMA DefaultMode ==
  /\ SessionInit(chip).default \in {"firmware", "noop"}
  /\ ModeVerdict(chip, SessionInit(chip).default) = "ok"
  /\ CommandAllowed(chip, SessionInit(chip).default) \/ SessionInit(chip).default = "noop"
<1>1. SessionInit(chip).default =
        IF CommandAllowed(chip, "firmware") THEN "firmware" ELSE "noop"
  BY DEF SessionInit
<1>2. ModeVerdict(chip, "noop") = "ok"
  BY DEF ModeVerdict
<1>3. CommandAllowed(chip, "firmware") => ModeVerdict(chip, "firmware") = "ok"
  BY DEF ModeVerdict, Modes, RecvModes, FirmwareModes
<1> QED
  BY <1>1, <1>2, <1>3

\* A handler changes neither the mode nor the count of frames.
LEMMA RecvHandlerLeaves ==
  ASSUME NEW s \in Sessions, NEW st
  PROVE  /\ RecvHandler(chip, s, st).s.mode = s.mode
         /\ RecvHandler(chip, s, st).s.frame = s.frame
         /\ RecvHandler(chip, s, st).s.default = s.default
<1> DEFINE Like(a) == a.mode = s.mode /\ a.frame = s.frame /\ a.default = s.default
<1>1. ASSUME NEW err, NEW new
      PROVE  Like(Result(err, s, new).s) /\ Like(Taken(Result(err, s, new)).s)
  <2>1. ASSUME NEW t, t = [s EXCEPT !.offset = 0] PROVE Like(t)
    BY <2>1 DEF Sessions
  <2>2. Taken(Result(err, s, new)).s \in {s, [s EXCEPT !.offset = 0]}
    BY DEF Taken, Result
  <2>3. Result(err, s, new).s = s
    BY DEF Result
  <2> QED
    BY <2>1, <2>2, <2>3
<1>2. Like(Taken(TakeMessage(chip, s, st)).s)
  <2>1. \E err, new : TakeMessage(chip, s, st) = Result(err, s, new)
    BY DEF TakeMessage
  <2> HIDE DEF Like
  <2> QED
    BY <1>1, <2>1
<1>3. Like(Taken(FlashFirmwareBlock(chip, s, st)).s)
  <2> DEFINE at(n) == [s EXCEPT !.flashOffset = n, !.flashBegin = FlashBegin(chip, s)]
  <2>1. PICK err, new :
          \/ FlashFirmwareBlock(chip, s, st) = Result(err, at(FlashOffset(s) + 1), new)
          \/ FlashFirmwareBlock(chip, s, st) = Result(err, at(FlashOffset(s)), new)
    BY Zenon DEF FlashFirmwareBlock
  <2>2. ASSUME NEW n PROVE Like(Taken(Result(err, at(n), new)).s)
    <3>1. ASSUME NEW x, x = at(n) PROVE Like(x) /\ Like([x EXCEPT !.offset = 0])
      BY <3>1 DEF Sessions
    <3> HIDE DEF at
    <3>2. Taken(Result(err, at(n), new)).s \in {at(n), [at(n) EXCEPT !.offset = 0]}
      BY DEF Taken, Result
    <3> QED
      BY <3>1, <3>2
  <2> HIDE DEF at, Like
  <2> QED
    BY <2>1, <2>2
<1>4. Like(RecvHandler(chip, s, st).s)
  <2> HIDE DEF Like
  <2> QED
    BY <1>1, <1>2, <1>3 DEF RecvHandler
<1> QED
  BY <1>4

\* What a frame leaves alone, and what it appends (Received)
LEMMA ReceivedFields ==
  ASSUME Ready(session), NEW t
  PROVE  /\ Received(t).mode = session.mode /\ Received(t).frame = session.frame
         /\ Received(t).default = session.default
         /\ Received(t).flashOffset = session.flashOffset
         /\ Received(t).flashBegin = session.flashBegin
         /\ Received(t).offset = session.offset + Len(t.data)
         /\ Received(t).data = SubSeq(session.data, 1, session.offset) \o t.data
<1>2. Received(t) = [session EXCEPT !.deadline = FALSE, !.offset = session.offset + Len(t.data),
                                    !.data = SubSeq(session.data, 1, session.offset) \o t.data]
  BY DEF Received
<1> DEFINE n == session.offset + Len(t.data)
           d == SubSeq(session.data, 1, session.offset) \o t.data
           s == Received(t)
<1>3. s = [session EXCEPT !.deadline = FALSE, !.offset = n, !.data = d]
  BY <1>2
<1> HIDE DEF n, d, s
<1>4. /\ s.mode = session.mode /\ s.frame = session.frame /\ s.default = session.default
      /\ s.flashOffset = session.flashOffset /\ s.flashBegin = session.flashBegin
      /\ s.offset = n /\ s.data = d
  BY <1>3 DEF Ready, Sessions
<1> QED
  BY <1>4 DEF n, d, s

\* What padding leaves alone, and what it fills up (Padded)
LEMMA PaddedFields ==
  ASSUME Ready(session)
  PROVE  /\ Padded(session).mode = session.mode /\ Padded(session).frame = session.frame
         /\ Padded(session).default = session.default
         /\ Padded(session).flashOffset = session.flashOffset
         /\ Padded(session).flashBegin = session.flashBegin
         /\ session.offset % BlockUnits = 0 => Padded(session) = session
         /\ session.offset % BlockUnits # 0 =>
              /\ Padded(session).offset = BlockUnits
              /\ Padded(session).data =
                   [i \in 1..BlockUnits |-> IF i <= session.offset THEN session.data[i] ELSE FF]
<1> DEFINE d == [i \in 1..BlockUnits |-> IF i <= session.offset THEN session.data[i] ELSE FF]
<1>2. Padded(session) = IF session.offset % BlockUnits = 0 THEN session
                        ELSE [session EXCEPT !.offset = BlockUnits, !.data = d]
  BY DEF Padded
<1> DEFINE s == Padded(session)
<1> HIDE DEF d, s
<1>5. CASE session.offset % BlockUnits # 0
  <2>1. s = [session EXCEPT !.offset = BlockUnits, !.data = d]
    BY <1>2, <1>5 DEF s
  <2>2. /\ s.mode = session.mode /\ s.frame = session.frame /\ s.default = session.default
        /\ s.flashOffset = session.flashOffset /\ s.flashBegin = session.flashBegin
        /\ s.offset = BlockUnits /\ s.data = d
    BY <2>1 DEF Ready, Sessions
  <2> QED
    BY <1>5, <2>2 DEF s, d
<1>6. CASE session.offset % BlockUnits = 0
  BY <1>2, <1>6
<1> QED
  BY <1>5, <1>6

\* Updates of one field of the session leave the others.
LEMMA UpdatedFields ==
  ASSUME NEW s \in Sessions
  PROVE  /\ \A n : /\ [s EXCEPT !.frame = n].frame = n /\ [s EXCEPT !.frame = n].mode = s.mode
                   /\ [s EXCEPT !.frame = n].default = s.default
                   /\ [s EXCEPT !.frame = n].offset = s.offset
                   /\ [s EXCEPT !.frame = n].flashOffset = s.flashOffset
                   /\ [s EXCEPT !.frame = n].flashBegin = s.flashBegin
                   /\ [s EXCEPT !.frame = n].data = s.data
         /\ [s EXCEPT !.deadline = FALSE].frame = s.frame /\ [s EXCEPT !.deadline = FALSE].mode = s.mode
         /\ [s EXCEPT !.deadline = FALSE].default = s.default
         /\ [s EXCEPT !.deadline = FALSE].offset = s.offset
         /\ [s EXCEPT !.deadline = FALSE].flashOffset = s.flashOffset
         /\ [s EXCEPT !.staged = 0].default = s.default
         /\ Finished(s).frame = 1 /\ Finished(s).offset = 0 /\ Finished(s).flashOffset = 0
         /\ Finished(s).mode = s.mode /\ Finished(s).default = s.default
BY DEF Sessions, Finished

-----------------------------------------------------------------------------
(***************************************************************************)
(* The steps of the chip.  Most of them are alike to the host: something   *)
(* is taken from the line, and the chip goes on as before or ends.         *)
(***************************************************************************)

Dull ==
  /\ UNCHANGED << chip, host >>
  /\ session'.mode = session.mode /\ session'.frame = session.frame
  /\ session'.default = session.default
  /\ pc' = "ended" \/ (pc' = pc /\ session' = session /\ store' = store)
  /\ pc' = "sendAck" => send'.block = send.block
  /\ \/ store' = store \/ store' = [store EXCEPT !.msg = Scrambled]
     \/ /\ pc = "recv" /\ toChip # << >>
        /\ Head(toChip).k \in {"frame", "eof"} \/ session.offset = BlockUnits
  /\ \/ nextMode' \in {nextMode, "bad"}
     \/ \E i \in DOMAIN toChip : toChip[i].k = "mode" /\ nextMode' = toChip[i].mode
  /\ Fades(toChip, toChip') /\ Remains(toHost, toHost', Mere) /\ IsLine(toHost')

\* What the chip refuses or invites with does not count for the host.
LEMMA MereFacts ==
  ASSUME IsLine(toHost)
  PROVE  /\ \A k \in Mere : /\ Byte(k).k = k
                            /\ Remains(toHost, Append(toHost, Byte(k)), Mere)
                            /\ IsLine(Append(toHost, Byte(k)))
         /\ Remains(toHost, toHost \o Cancel, Mere) /\ IsLine(toHost \o Cancel)
         /\ toHost \o << >> = toHost
<1>1. \A k : Byte(k).k = k
  BY DEF Byte
<1>2. Remains(toHost, toHost, Mere)
  BY TailFades
<1>3. ASSUME NEW new, IsLine(new), Remains(toHost, new, Mere), NEW k \in Mere
      PROVE  Remains(toHost, Append(new, Byte(k)), Mere) /\ IsLine(Append(new, Byte(k)))
  BY <1>1, <1>3, AppendRemains, AppendFacts
<1>4. toHost \o Cancel = Append(Append(toHost, Byte("can")), Byte("can"))
  BY ConcatFacts DEF Cancel
<1>5. "can" \in Mere
  BY DEF Mere
<1> QED
  BY <1>1, <1>2, <1>3, <1>4, <1>5, ConcatFacts

\* Both lines are lines, and the first element towards the chip is a signal.
LEMMA LinesOfChip ==
  ASSUME TInv, ChipInv
  PROVE  /\ IsLine(toChip) /\ IsLine(toHost) /\ session \in Sessions /\ store \in Stores
         /\ toChip # << >> => /\ Head(toChip) = toChip[1] /\ 1 \in DOMAIN toChip
                              /\ Head(toChip) \in Signals
                              /\ Fades(toChip, Tail(toChip))
         /\ Fades(toChip, toChip) /\ Fades(toChip, << >>) /\ Remains(toHost, toHost, Mere)
BY LineFacts, LineTyped, TailFades DEF TInv, ChipInv, Ready, IsLine

\* Steps that refuse, lose, damage or wait are dull.
LEMMA DullSteps ==
  ASSUME TInv, ChipInv,
         \/ FrameRepeated \/ FrameFails \/ FrameCancelled \/ ModeByte \/ Silence
         \/ Inactivity \/ SendUnanswered \/ LineNoise \/ PowerCut
         \/ (ModeChange /\ session.frame # 1)
  PROVE  Dull
<1> USE LinesOfChip
<1>1. CASE FrameRepeated
  <2>1. /\ pc = "recv" /\ toChip # << >> /\ Loop(session, store) /\ toChip' = Tail(toChip)
        /\ toHost' = Append(toHost, Byte("nak")) /\ UNCHANGED << chip, store, nextMode, host >>
    BY <1>1 DEF FrameRepeated, IsFrame
  <2>2. session' = session /\ pc' \in {"recv", "ended"}
    BY <2>1, LoopGoes DEF TInv
  <2>3. "nak" \in Mere
    BY DEF Mere
  <2> QED
    BY <2>1, <2>2, <2>3, MereFacts DEF Dull
<1>2. CASE FrameFails \/ FrameCancelled \/ Inactivity \/ SendUnanswered
  <2>1. /\ End(session) /\ UNCHANGED << chip, store, nextMode, host >>
        /\ toChip' = toChip \/ (toChip # << >> /\ toChip' = Tail(toChip))
        /\ toHost' = toHost \/ toHost' = toHost \o Cancel
    BY <1>2 DEF FrameFails, FrameCancelled, Inactivity, SendUnanswered, IsFrame
  <2> QED
    BY <2>1, MereFacts DEF Dull, End
<1>3. CASE ModeByte
  <2>1. /\ pc = "recv" /\ toChip # << >> /\ toChip' = Tail(toChip)
        /\ UNCHANGED << chip, store, toHost, host >>
        /\ \/ /\ nextMode' = IF Head(toChip).k = "mode" THEN Head(toChip).mode ELSE "bad"
              /\ Loop(session, store)
           \/ End(session) /\ UNCHANGED nextMode
    BY <1>3 DEF ModeByte
  <2>2. session' = session /\ pc' \in {"recv", "ended"}
    BY <2>1, LoopGoes DEF TInv, End
  <2>3. \/ nextMode' \in {nextMode, "bad"}
        \/ \E i \in DOMAIN toChip : toChip[i].k = "mode" /\ nextMode' = toChip[i].mode
    BY <2>1
  <2> QED
    BY <2>1, <2>2, <2>3 DEF Dull
<1>4. CASE Silence
  <2>1. /\ pc = "recv" /\ UNCHANGED << chip, store, nextMode, toChip, host >>
        /\ UNCHANGED << session, pc, send >> \/ End(session)
        /\ toHost' = toHost \/ toHost' = Append(toHost, Byte("C"))
    BY <1>4 DEF Silence
  <2>2. "C" \in Mere
    BY DEF Mere
  <2> QED
    BY <2>1, <2>2, MereFacts DEF Dull, End
<1>5. CASE LineNoise
  <2>1. /\ UNCHANGED << chip, store, session, pc, nextMode, send, host >>
        /\ \/ toChip # << >> /\ toChip' \in Noisy(toChip) /\ UNCHANGED toHost
           \/ toHost # << >> /\ toHost' \in Noisy(toHost) /\ UNCHANGED toChip
    BY <1>5 DEF LineNoise, chipVars
  <2>2. /\ toChip # << >> => \A x \in Noisy(toChip) : Fades(toChip, x)
        /\ toHost # << >> => \A x \in Noisy(toHost) : Remains(toHost, x, Mere) /\ IsLine(x)
    BY NoisyFades DEF Fades
  <2> QED
    BY <2>1, <2>2 DEF Dull
<1>6. CASE PowerCut
  BY <1>6 DEF PowerCut, Dull
<1>7. CASE ModeChange /\ session.frame # 1
  <2>1. /\ toChip # << >> /\ toChip' = Tail(toChip) /\ End(session)
        /\ UNCHANGED << chip, store, toHost, nextMode, host >>
    BY <1>7 DEF ModeChange, IsByte
  <2> QED
    BY <2>1 DEF Dull, End
<1> QED
  BY <1>1, <1>2, <1>3, <1>4, <1>5, <1>6, <1>7

\* So is a write that breaks off: the session ends there.
LEMMA BrokenOffIsDull ==
  ASSUME TInv, ChipInv, WriteBreaksOff
  PROVE  Dull
<1> DEFINE t == Head(toChip)
           s == CASE t.k = "eof" -> Padded(session)
                  [] IsFrame(toChip) -> Received(t)
                  [] OTHER -> session
<1>1. /\ pc = "recv" /\ toChip # << >> /\ toChip' = Tail(toChip)
      /\ UNCHANGED << chip, nextMode, toHost, host >>
      /\ store' \in Broken(chip, s, store) /\ End(s)
  BY DEF WriteBreaksOff
<1>2. s.mode = session.mode /\ s.frame = session.frame /\ s.default = session.default
  BY ReceivedFields, PaddedFields DEF TInv
<1>3. t.k \notin {"frame", "eof"} => s = session
  BY <1>1 DEF IsFrame
<1> HIDE DEF s
<1>4. s.offset < BlockUnits => Broken(chip, s, store) = {}
  BY DEF Broken
<1>5. t.k \in {"frame", "eof"} \/ session.offset = BlockUnits
  BY <1>1, <1>3, <1>4, RescueAssumption DEF TInv, Ready, Sessions
<1> QED
  BY <1>1, <1>2, <1>5, LinesOfChip DEF Dull, End

\* A frame that is the next one, and is handled
Accepts ==
  LET t == Head(toChip)
      r == RecvHandler(chip, Received(t), store)
  IN  /\ pc = "recv" /\ toChip # << >> /\ t \in Frames /\ Fits(t, session)
      /\ FrameNumberIs(t, session.frame) /\ r.err = "ok"
      /\ UNCHANGED << chip, host, nextMode >> /\ store' = r.st
      /\ session'.mode = session.mode /\ session'.default = session.default
      /\ session'.frame = session.frame + 1
      /\ session'.offset = r.s.offset /\ session'.data = r.s.data
      /\ session'.flashOffset = r.s.flashOffset /\ session'.flashBegin = r.s.flashBegin
      /\ pc' \in {"recv", "ended"}
      /\ toChip' = Tail(toChip) /\ toHost' = Append(toHost, Byte("ack"))

\* A frame is taken, or the session ends.
LEMMA FrameAcceptedGoes ==
  ASSUME TInv, ChipInv, FrameAccepted
  PROVE  Dull \/ Accepts
<1> DEFINE t == Head(toChip)
           r == RecvHandler(chip, Received(t), store)
<1>1. /\ pc = "recv" /\ toChip # << >> /\ t.k = "frame" /\ Fits(t, session)
      /\ FrameNumberIs(t, session.frame) /\ toChip' = Tail(toChip)
      /\ UNCHANGED << chip, nextMode, host >> /\ store' = r.st
      /\ IF r.err = "ok"
         THEN Loop([r.s EXCEPT !.frame = r.s.frame + 1], r.st) /\ toHost' = Append(toHost, Byte("ack"))
         ELSE End(r.s) /\ toHost' = toHost \o Cancelled(r.err)
  BY DEF FrameAccepted, IsFrame
<1>2. t \in Frames /\ session.mode \notin SendModes
  BY <1>1, LinesOfChip, SignalKinds DEF TInv
<1>3. Ready(Received(t)) /\ Received(t).mode = session.mode
  BY <1>1, <1>2, ReceivedReady DEF TInv
<1>4. /\ r.s \in Sessions /\ r.s.mode = session.mode /\ r.s.frame = session.frame
      /\ r.s.default = session.default
  <2>1. Received(t) \in Sessions /\ store \in Stores
        /\ Received(t).frame = session.frame /\ Received(t).default = session.default
    BY <1>3, ReceivedFields DEF Ready, TInv
  <2>2. r.s.mode = Received(t).mode /\ r.s.frame = Received(t).frame
        /\ r.s.default = Received(t).default
    BY <2>1, RecvHandlerLeaves
  <2>3. Ready(r.s)
    BY <1>2, <1>3, HandledReady DEF TInv
  <2> HIDE DEF r
  <2> QED
    BY <1>3, <2>1, <2>2, <2>3 DEF Ready
<1>5. CASE r.err = "ok"
  <2> DEFINE u == [r.s EXCEPT !.frame = r.s.frame + 1]
  <2>1. /\ u.frame = session.frame + 1 /\ u.mode = session.mode /\ u.default = session.default
        /\ u.offset = r.s.offset /\ u.data = r.s.data
        /\ u.flashOffset = r.s.flashOffset /\ u.flashBegin = r.s.flashBegin
    <3> HIDE DEF r
    <3> QED
      BY <1>4, UpdatedFields
  <2>2. u \in Sessions
    <3> HIDE DEF r
    <3>1. r.s.frame + 1 \in Nat
      BY <1>4 DEF Sessions
    <3> QED
      BY <1>4, <3>1 DEF Sessions
  <2>3. Loop(u, r.st) /\ toHost' = Append(toHost, Byte("ack"))
    BY <1>1, <1>5
  <2> HIDE DEF u, r
  <2>4. session' = u /\ pc' \in {"recv", "ended"}
    BY <1>2, <2>1, <2>2, <2>3, LoopGoes
  <2>5. Accepts
    <3> HIDE DEF t
    <3> QED
      BY <1>1, <1>2, <1>5, <2>1, <2>3, <2>4 DEF Accepts, r, t
  <2> QED
    BY <2>5
<1>6. CASE r.err # "ok"
  <2>1. End(r.s) /\ toHost' = toHost \o Cancelled(r.err)
    BY <1>1, <1>6
  <2>2. Cancelled(r.err) \in {<< >>, Cancel}
    BY DEF Cancelled
  <2> HIDE DEF r
  <2>3. Remains(toHost, toHost', Mere) /\ IsLine(toHost')
    BY <2>1, <2>2, LinesOfChip, MereFacts
  <2> QED
    BY <1>1, <1>4, <2>1, <2>3, LinesOfChip DEF Dull, End
<1> QED
  BY <1>5, <1>6

\* The end of a file, when all of it was handled
Ends ==
  LET s == Padded(session)
      r == IF session.offset % BlockUnits = 0 THEN Result("ok", s, store)
           ELSE RecvHandler(chip, s, store)
  IN  /\ pc = "recv" /\ toChip # << >> /\ Head(toChip).k = "eof" /\ r.err = "ok"
      /\ UNCHANGED << chip, host, nextMode >> /\ store' = r.st
      /\ session'.mode = session.mode /\ session'.default = session.default
      /\ session'.frame = 1 /\ session'.offset = 0 /\ session'.flashOffset = 0
      /\ pc' \in {"recv", "ended"}
      /\ toChip' = Tail(toChip) /\ toHost' = Append(toHost, Byte("ack"))

\* A file ends, or the session does.
LEMMA EndOfFileGoes ==
  ASSUME TInv, ChipInv, EndOfFile
  PROVE  Dull \/ Ends
<1> DEFINE s == Padded(session)
           r == IF session.offset % BlockUnits = 0 THEN Result("ok", s, store)
                ELSE RecvHandler(chip, s, store)
<1>1. /\ pc = "recv" /\ toChip # << >> /\ Head(toChip).k = "eof"
      /\ toChip' = Tail(toChip) /\ UNCHANGED << chip, nextMode, host >> /\ store' = r.st
      /\ IF r.err = "ok"
         THEN Loop(Finished(r.s), r.st) /\ toHost' = Append(toHost, Byte("ack"))
         ELSE End(r.s) /\ toHost' = toHost \o Cancelled(r.err)
  BY DEF EndOfFile, IsByte
<1>2. session.mode \notin SendModes /\ Ready(s) /\ s.mode = session.mode
      /\ s.frame = session.frame /\ s.default = session.default
  BY <1>1, PaddedReady, PaddedFields DEF TInv
<1>3. /\ r.s \in Sessions /\ r.s.mode = session.mode /\ r.s.frame = session.frame
      /\ r.s.default = session.default /\ Ready(r.s)
  <2> HIDE DEF s
  <2>1. Ready(RecvHandler(chip, s, store).s)
    BY <1>2, HandledReady DEF TInv
  <2>2. /\ RecvHandler(chip, s, store).s.mode = s.mode
        /\ RecvHandler(chip, s, store).s.frame = s.frame
        /\ RecvHandler(chip, s, store).s.default = s.default
    BY <1>2, RecvHandlerLeaves DEF Ready
  <2>3. Result("ok", s, store).s = s
    BY DEF Result
  <2> QED
    BY <1>2, <2>1, <2>2, <2>3 DEF Ready
<1>4. CASE r.err = "ok"
  <2> DEFINE u == Finished(r.s)
  <2>1. /\ u.frame = 1 /\ u.mode = session.mode /\ u.default = session.default
        /\ u.offset = 0 /\ u.flashOffset = 0 /\ u \in Sessions
    <3> HIDE DEF r
    <3> QED
      BY <1>3, UpdatedFields, UpdatesReady DEF Ready
  <2>2. Loop(u, r.st) /\ toHost' = Append(toHost, Byte("ack"))
    BY <1>1, <1>4
  <2> HIDE DEF u, r, s
  <2>3. session' = u /\ pc' \in {"recv", "ended"}
    BY <1>2, <2>1, <2>2, LoopGoes
  <2> QED
    BY <1>1, <1>4, <2>1, <2>2, <2>3 DEF Ends, r, s
<1>5. CASE r.err # "ok"
  <2>1. End(r.s) /\ toHost' = toHost \o Cancelled(r.err)
    BY <1>1, <1>5
  <2>2. Cancelled(r.err) \in {<< >>, Cancel}
    BY DEF Cancelled
  <2> HIDE DEF r, s
  <2>3. Remains(toHost, toHost', Mere) /\ IsLine(toHost')
    BY <2>1, <2>2, LinesOfChip, MereFacts
  <2> QED
    BY <1>1, <1>3, <2>1, <2>3, LinesOfChip DEF Dull, End
<1> QED
  BY <1>4, <1>5

\* The first frame of what the chip sends, and the current one again
Offers(b) ==
  /\ UNCHANGED << chip, store, session, nextMode, host >>
  /\ pc' = "sendAck" /\ send'.block = b /\ toChip # << >> /\ toChip' = Tail(toChip)
  /\ toHost' = Append(toHost, ChipFrame(b))

\* The chip offers its first frame to a host that asks for it, and only then.
LEMMA SendStartGoes ==
  ASSUME TInv, ChipInv, SendStart
  PROVE  \/ Dull
         \/ pc = "sendStart" /\ Head(toChip).k = "C" /\ Offers(1)
<1>1. /\ pc = "sendStart" /\ UNCHANGED << chip, store, nextMode, host >>
      /\ toChip' = IF toChip = << >> THEN toChip ELSE Tail(toChip)
  BY DEF SendStart
<1>2. CASE toChip # << >> /\ Head(toChip).k = "C"
  <2>1. /\ pc' = "sendAck" /\ send' = [NoSend EXCEPT !.block = 1] /\ toHost' = SendFrame(1)
        /\ UNCHANGED session
    BY <1>2 DEF SendStart
  <2>2. send'.block = 1
    BY <2>1 DEF NoSend
  <2> QED
    BY <1>1, <1>2, <2>1, <2>2 DEF Offers, SendFrame, ChipFrame
<1>3. CASE ~(toChip # << >> /\ Head(toChip).k = "C")
  <2>1. /\ UNCHANGED toHost
        /\ End(session) \/ UNCHANGED << session, pc >>
    BY <1>3 DEF SendStart
  <2> QED
    BY <1>1, <2>1, LinesOfChip DEF Dull, End
<1> QED
  BY <1>2, <1>3

\* A refused frame is offered again.
LEMMA SendRefusedGoes ==
  ASSUME TInv, ChipInv, SendRefused
  PROVE  Dull \/ (pc = "sendAck" /\ Head(toChip).k # "ack" /\ Offers(send.block))
<1>1. /\ pc = "sendAck" /\ UNCHANGED << chip, store, nextMode, host >>
      /\ toChip # << >> /\ toChip' = Tail(toChip) /\ Head(toChip).k # "ack"
      /\ \/ End(session) /\ UNCHANGED toHost
         \/ /\ \E e, c : send' = [send EXCEPT !.errors = e, !.cancels = c]
            /\ toHost' = SendFrame(send.block) /\ UNCHANGED << session, pc >>
  BY DEF SendRefused
<1>2. CASE End(session) /\ UNCHANGED toHost
  BY <1>1, <1>2, LinesOfChip DEF Dull, End
<1>3. CASE /\ \E e, c : send' = [send EXCEPT !.errors = e, !.cancels = c]
           /\ toHost' = SendFrame(send.block) /\ UNCHANGED << session, pc >>
  <2>1. send'.block = send.block
    BY <1>3
  <2> QED
    BY <1>1, <1>3, <2>1 DEF Offers, SendFrame, ChipFrame
<1> QED
  BY <1>1, <1>2, <1>3

-----------------------------------------------------------------------------
\* What the chip sends, block by block

\* A quotient rounds down.
LEMMA QuotientFacts ==
  ASSUME NEW a \in Nat, NEW b \in Nat \ {0}
  PROVE  /\ a \div b \in Nat /\ (a \div b) * b \in Nat
         /\ (a \div b) * b <= a /\ a < (a \div b) * b + b
<1>1. a \div b \in Nat
  OBVIOUS
<1>2. (a \div b) * b <= a /\ a < (a \div b) * b + b
  OBVIOUS
<1>3. \A q \in Nat : q * b \in Nat
  OBVIOUS
<1> QED
  BY <1>1, <1>2, <1>3

\* q long frames, and then short ones: where frame m + 1 begins and ends
LEMMA SentArithmetic ==
  ASSUME NEW l \in Nat, NEW size \in Nat \ {0, 1}, NEW q \in Nat, NEW m \in Nat,
         q * size <= l, l < q * size + size, NEW a, NEW b,
         a = IF m <= q THEN m * size ELSE q * size + (m - q),
         b = IF m + 1 <= q THEN (m + 1) * size ELSE q * size + ((m + 1) - q),
         a < l
  PROVE  a \in Nat /\ b \in (a + 1)..l /\ b = a + (IF l - a < size THEN 1 ELSE size)
<1>1. CASE m + 1 <= q
  <2>1. a = m * size /\ b = (m + 1) * size
    BY <1>1
  <2> DEFINE x == m * size
             y == (m + 1) * size
             z == q * size
  <2>2. y = x + size /\ x \in Nat /\ y \in Nat /\ z \in Nat
    OBVIOUS
  <2>3. y <= z
    <3>1. q - (m + 1) \in Nat
      BY <1>1
    <3> DEFINE j == q - (m + 1)
    <3>2. q = (m + 1) + j /\ j \in Nat
      BY <3>1
    <3> HIDE DEF j
    <3>3. ((m + 1) + j) * size = (m + 1) * size + j * size /\ j * size \in Nat
      BY <3>2
    <3>4. z = y + j * size
      BY <3>2, <3>3
    <3> DEFINE w == j * size
    <3>5. w \in Nat /\ z = y + w
      BY <3>3, <3>4
    <3> HIDE DEF w, y, z
    <3> QED
      BY <2>2, <3>5
  <2>4. a = x /\ b = y /\ z <= l
    BY <2>1
  <2> HIDE DEF x, y, z
  <2> QED
    BY <2>2, <2>3, <2>4
<1>2. CASE ~(m + 1 <= q)
  <2> DEFINE z == q * size
  <2>1. z \in Nat /\ z <= l /\ l < z + size
    OBVIOUS
  <2>2. m <= q => m = q
    BY <1>2
  <2>3. a = z + (m - q) /\ b = z + ((m + 1) - q)
    <3>1. m = q => a = z
      OBVIOUS
    <3>2. ~(m <= q) => a = z + (m - q)
      OBVIOUS
    <3>3. b = z + ((m + 1) - q)
      BY <1>2
    <3> HIDE DEF z
    <3> QED
      BY <2>1, <2>2, <3>1, <3>2, <3>3
  <2> HIDE DEF z
  <2> QED
    BY <1>2, <2>1, <2>3
<1> QED
  BY <1>1, <1>2

\* The chunks of xmodem_send_data() follow each other: after n of them the first Sent(n)
\* units are sent.
LEMMA SentFacts ==
  ASSUME session.data \in Buffers
  PROVE  /\ Sent(0) = 0
         /\ \A n \in Nat \ {0} : Sent(n - 1) < Len(session.data) =>
              /\ Sent(n - 1) \in Nat /\ Sent(n) \in (Sent(n - 1) + 1)..Len(session.data)
              /\ SubSeq(session.data, 1, Sent(n - 1)) \o Chunk(Sent(n - 1))
                   = SubSeq(session.data, 1, Sent(n))
<1> DEFINE l == Len(session.data)
           q == l \div LongFrame
<1>1. session.data \in Seq(Units) /\ l \in Nat /\ LongFrame \in Nat \ {0, 1}
  BY XmodemAssumption, RescueAssumption, LenProperties DEF Buffers
<1>2. \A n : Sent(n) = IF n <= q THEN n * LongFrame ELSE q * LongFrame + (n - q)
  BY DEF Sent
<1>3. \A n : Chunk(n) = SubSeq(session.data, n + 1, n + (IF l - n < LongFrame THEN 1 ELSE LongFrame))
  BY DEF Chunk
<1> HIDE DEF l
<1>4. q \in Nat /\ q * LongFrame <= l /\ l < q * LongFrame + LongFrame
  BY <1>1, QuotientFacts
<1> HIDE DEF q
<1>5. Sent(0) = 0
  BY <1>1, <1>2, <1>4
<1>6. ASSUME NEW n \in Nat \ {0}, Sent(n - 1) < l
      PROVE  /\ Sent(n - 1) \in Nat /\ Sent(n) \in (Sent(n - 1) + 1)..l
             /\ Chunk(Sent(n - 1)) = SubSeq(session.data, Sent(n - 1) + 1, Sent(n))
  <2>1. n - 1 \in Nat /\ n = (n - 1) + 1
    OBVIOUS
  <2> DEFINE m == n - 1
             a == Sent(m)
             b == Sent(n)
  <2>2. /\ a = IF m <= q THEN m * LongFrame ELSE q * LongFrame + (m - q)
        /\ b = IF m + 1 <= q THEN (m + 1) * LongFrame ELSE q * LongFrame + ((m + 1) - q)
        /\ m \in Nat /\ a < l
    BY <1>2, <1>6, <2>1
  <2> HIDE DEF a, b, m
  <2>3. a \in Nat /\ b \in (a + 1)..l /\ b = a + (IF l - a < LongFrame THEN 1 ELSE LongFrame)
    BY <1>1, <1>4, <2>2, SentArithmetic
  <2> QED
    BY <1>3, <2>3 DEF a, b, m
<1>7. ASSUME NEW n \in Nat \ {0}, Sent(n - 1) < l
      PROVE  SubSeq(session.data, 1, Sent(n - 1)) \o Chunk(Sent(n - 1)) = SubSeq(session.data, 1, Sent(n))
  <2> DEFINE a == Sent(n - 1)
             b == Sent(n)
  <2>1. a \in Nat /\ b \in (a + 1)..l /\ Chunk(a) = SubSeq(session.data, a + 1, b)
    BY <1>6, <1>7
  <2> HIDE DEF a, b
  <2>2. 1 \in 1..(l + 1) /\ a \in (1 - 1)..l /\ b \in a..l
    BY <1>1, <2>1
  <2>3. SubSeq(session.data, 1, a) \o SubSeq(session.data, a + 1, b) = SubSeq(session.data, 1, b)
    BY <1>1, <2>2, ConcatAdjacentSubSeq DEF l
  <2> QED
    BY <2>1, <2>3 DEF a, b
<1> QED
  BY <1>5, <1>6, <1>7 DEF l

\* There is always something to send.
LEMMA ContentFacts ==
  ASSUME NEW mode \in Modes, NEW st \in Stores
  PROVE  Content(mode, st) \in Buffers /\ Len(Content(mode, st)) \in Nat \ {0}
<1>1. << mode, 0 >> \in Units
  BY UnitTyped
<1>2. << << mode, 0 >> >> \in Seq(Units) /\ Len(<< << mode, 0 >> >>) = 1
  BY <1>1
<1>3. << << mode, 0 >> >> \in Buffers
  BY <1>2, RescueAssumption DEF Buffers
<1>4. /\ st.msg \in Buffers /\ Len(st.msg) = MsgUnits
      /\ st.owner1 \in Buffers /\ Len(st.owner1) = BlockUnits
      /\ PageOf(<< mode, 0 >>) \in Buffers /\ Len(PageOf(<< mode, 0 >>)) = BlockUnits
  BY <1>1, PageTyped DEF Stores
<1> QED
  BY <1>2, <1>3, <1>4, RescueAssumption DEF Content

-----------------------------------------------------------------------------
\* The steps of the chip that change the mode, or end what it sends

Answers(mode) ==
  /\ IsLine(toHost') /\ Remains(toHost, toHost', {"text"})
  /\ \A i \in DOMAIN toHost' : toHost'[i].k = "text" =>
       \/ \E j \in DOMAIN toHost : toHost[j] = toHost'[i]
       \/ toHost'[i].mode = mode /\ (toHost'[i].ok <=> ModeVerdict(chip, mode) = "ok")

\* Answer is one of Answers.
LEMMA AnswerGoes ==
  ASSUME IsLine(toHost), NEW mode, toHost' = toHost \o Answer(mode)
  PROVE  Answers(mode)
<1>1. Remains(toHost, toHost, {"text"})
  <2>1. \A i \in DOMAIN toHost : i + 0 = i
    BY LineFacts
  <2> QED
    BY <2>1, LineFacts DEF Remains, Same
<1>2. CASE mode = "noop"
  <2>1. toHost' = toHost
    BY <1>2, ConcatFacts DEF Answer
  <2> QED
    BY <1>1, <2>1 DEF Answers
<1>3. CASE mode # "noop"
  <2> DEFINE t == Text(mode, ModeVerdict(chip, mode) = "ok")
  <2>1. t.k = "text" /\ t.mode = mode /\ (t.ok <=> ModeVerdict(chip, mode) = "ok")
    BY DEF Text
  <2> HIDE DEF t
  <2>2. toHost' = Append(toHost, t)
    BY <1>3, ConcatFacts DEF Answer, t
  <2>3. IsLine(toHost') /\ Remains(toHost, toHost', {"text"})
    BY <1>1, <2>1, <2>2, AppendRemains, AppendFacts
  <2>4. \A i \in DOMAIN toHost' : toHost'[i] = t \/ (i \in DOMAIN toHost /\ toHost[i] = toHost'[i])
    BY <2>2, AppendFacts, LineFacts
  <2> QED
    BY <2>1, <2>3, <2>4 DEF Answers
<1> QED
  BY <1>2, <1>3

ModeChanged ==
  /\ pc = "recv" /\ session.frame = 1 /\ toChip # << >> /\ Head(toChip).k = "cr"
  /\ UNCHANGED << chip, store, host >> /\ nextMode' = "none"
  /\ toChip' = Tail(toChip) /\ Answers(nextMode)
  /\ session'.mode = IF ModeVerdict(chip, nextMode) = "ok" THEN nextMode ELSE session.mode
  /\ session'.default = session.default
  /\ session'.frame = 1 /\ session'.offset = 0 /\ session'.flashOffset = 0
  /\ \/ pc' \in {"recv", "ended"} /\ session'.mode \notin SendModes
     \/ /\ pc' = "sendStart" /\ session'.mode \in SendModes
        /\ session'.data = Content(session'.mode, store)
        /\ session'.staged = Len(session'.data)

\* Between transfers a carriage return asks for the collected mode.
LEMMA ModeChangeGoes ==
  ASSUME TInv, ChipInv, ModeChange, session.frame = 1
  PROVE  ModeChanged
<1> DEFINE s == [session EXCEPT !.deadline = FALSE]
           v == ValidateMode(chip, nextMode, s)
<1>1. /\ pc = "recv" /\ toChip # << >> /\ Head(toChip).k = "cr" /\ Loop(v, store)
      /\ toHost' = toHost \o Answer(nextMode) /\ nextMode' = "none"
      /\ toChip' = Tail(toChip) /\ UNCHANGED << chip, store, host >>
  BY DEF ModeChange, IsByte
<1>2. /\ s.frame = 1 /\ s.mode = session.mode /\ s.default = session.default
      /\ s.offset = 0 /\ s.flashOffset = 0 /\ s \in Sessions
  BY <1>1, UpdatedFields, UpdatesReady DEF TInv, Ready, ChipInv
<1>3. session.mode \notin SendModes
  BY <1>1 DEF TInv
<1> HIDE DEF s
<1>4. v \in Sessions
  BY <1>2, ValidateModeTyped
<1>5. /\ v.mode = IF ModeVerdict(chip, nextMode) = "ok" THEN nextMode ELSE session.mode
      /\ v.frame = 1 /\ v.offset = 0 /\ v.flashOffset = 0 /\ v.default = session.default
  BY <1>2, ValidateModeGoes
<1> HIDE DEF v
<1>6. v.mode \in SendModes => CommandAllowed(chip, v.mode)
  <2>1. ASSUME v.mode \in SendModes PROVE ModeVerdict(chip, v.mode) = "ok" /\ v.mode \notin {"reboot", "noop"}
    BY <1>3, <1>5, <2>1 DEF SendModes
  <2> QED
    BY <2>1 DEF ModeVerdict
<1>7. CASE v.mode \in SendModes
  <2>1. /\ pc' = "sendStart" /\ session'.data = Content(v.mode, store)
        /\ session'.staged = Len(Content(v.mode, store)) /\ session'.mode = v.mode
        /\ session'.frame = v.frame /\ session'.default = v.default
        /\ session'.offset = v.offset /\ session'.flashOffset = v.flashOffset
    BY <1>1, <1>4, <1>6, <1>7, LoopGoes
  <2> QED
    BY <1>1, <1>5, <1>7, <2>1, AnswerGoes DEF ModeChanged, ChipInv
<1>8. CASE v.mode \notin SendModes
  <2>1. session' = v /\ pc' \in {"recv", "ended"}
    BY <1>1, <1>4, <1>8, LoopGoes
  <2> QED
    BY <1>1, <1>5, <1>8, <2>1, AnswerGoes DEF ModeChanged, ChipInv
<1> QED
  BY <1>7, <1>8

\* Back to the default mode
Defaults ==
  /\ session'.mode = SessionInit(chip).default /\ session'.default = SessionInit(chip).default
  /\ session'.frame = 1 /\ session'.offset = 0 /\ session'.flashOffset = 0
  /\ pc' = "recv"

\* The default mode leaves nothing of a transfer.
LEMMA DefaultGoes ==
  ASSUME NEW s \in Sessions, s.default = SessionInit(chip).default, NEW st,
         Loop(ValidateMode(chip, s.default, s), st)
  PROVE  Defaults
<1> DEFINE v == ValidateMode(chip, s.default, s)
<1>1. v \in Sessions
  BY ValidateModeTyped
<1>2. /\ v.mode = s.default /\ v.default = s.default /\ v.frame = 1 /\ v.offset = 0
      /\ v.flashOffset = 0
  BY DefaultMode, ValidateModeGoes
<1> HIDE DEF v
<1>3. v.mode \notin SendModes /\ v.mode # "reboot"
  BY <1>2, DefaultMode DEF SendModes
<1>4. session' = v /\ pc' = "recv"
  BY <1>1, <1>2, <1>3, DefaultMode, LoopGoes DEF v
<1> QED
  BY <1>2, <1>4 DEF Defaults

\* After its end of file the chip goes back to the default mode.
LEMMA SendFinishGoes ==
  ASSUME TInv, ChipInv, SendFinish
  PROVE  /\ pc = "sendEnd" /\ UNCHANGED << chip, store, nextMode, host >>
         /\ Fades(toChip, toChip') /\ Answers(SessionInit(chip).default) /\ Defaults
<1> DEFINE s == [session EXCEPT !.staged = 0]
<1>1. /\ pc = "sendEnd" /\ UNCHANGED << chip, store, nextMode, host >>
      /\ toChip' = IF toChip = << >> THEN toChip ELSE Tail(toChip)
      /\ Loop(ValidateMode(chip, session.default, s), store)
      /\ toHost' = toHost \o Answer(session.default)
  BY DEF SendFinish
<1>2. s \in Sessions /\ s.default = session.default /\ s.default = SessionInit(chip).default
  BY UpdatedFields, UpdatesReady DEF TInv, Ready, ChipInv
<1> HIDE DEF s
<1>3. Defaults
  BY <1>1, <1>2, DefaultGoes
<1> QED
  BY <1>1, <1>2, <1>3, AnswerGoes, LinesOfChip DEF ChipInv

\* After a reset too, and an operation under way is marked.
LEMMA ResetGoes ==
  ASSUME TInv, ChipInv, Reset
  PROVE  /\ pc = "ended" /\ UNCHANGED << chip, store >> /\ toChip' = << >>
         /\ host' = [host EXCEPT !.reset = host.reset \/ host.pc # "idle"]
         /\ Defaults /\ IsLine(toHost') /\ TrueTexts(toHost)'
<1> DEFINE s == SessionInit(chip)
<1>1. /\ pc = "ended" /\ UNCHANGED << chip, store >> /\ toChip' = << >>
      /\ Loop(ValidateMode(chip, s.default, s), store)
      /\ toHost' = << Byte("boot") >> \o Answer(session'.default) \o << Byte("C") >>
      /\ host' = [host EXCEPT !.reset = host.reset \/ host.pc # "idle"]
  BY DEF Reset, Boot
<1>2. s \in Sessions
  BY SessionInitTyped, XmodemAssumption DEF TInv
<1>3. Defaults
  BY <1>1, <1>2, DefaultGoes
<1>4. IsLine(toHost') /\ TrueTexts(toHost)'
  <2> DEFINE d == session'.default
             a == << Byte("boot") >>
             b == a \o Answer(d)
             t == Text(d, ModeVerdict(chip, d) = "ok")
  <2>1. IsLine(a) /\ Len(a) = 1 /\ a[1].k = "boot" /\ DOMAIN a = {1}
    <3>1. a \in Seq({Byte("boot")}) /\ Len(a) = 1 /\ a[1] = Byte("boot")
      OBVIOUS
    <3>2. IsLine(a)
      BY <3>1 DEF IsLine
    <3>3. Byte("boot").k = "boot"
      BY DEF Byte
    <3>4. DOMAIN a = 1..1
      BY <3>1, <3>2, LineFacts
    <3> QED
      BY <3>1, <3>2, <3>3, <3>4
  <2>2. t.k = "text" /\ t.mode = d /\ (t.ok <=> ModeVerdict(chip, d) = "ok")
    BY DEF Text
  <2> HIDE DEF a, t
  <2>3. b = a \/ b = Append(a, t)
    BY <2>1, ConcatFacts DEF Answer, t
  <2>4. IsLine(b) /\ \A i \in DOMAIN b : b[i] = t \/ b[i].k = "boot"
    <3>1. CASE b = a
      BY <2>1, <3>1
    <3>2. CASE b = Append(a, t)
      <4>1. IsLine(b) /\ DOMAIN b = 1..2 /\ b[1] = a[1] /\ b[2] = t
        BY <2>1, <3>2, AppendFacts
      <4>2. \A i \in 1..2 : i = 1 \/ i = 2
        OBVIOUS
      <4> HIDE DEF b
      <4> QED
        BY <2>1, <4>1, <4>2
    <3> QED
      BY <2>3, <3>1, <3>2
  <2> HIDE DEF b
  <2>5. toHost' = Append(b, Byte("C"))
    BY <1>1, <2>4, ConcatFacts DEF a, b
  <2>6. IsLine(toHost') /\ \A i \in DOMAIN toHost' : toHost'[i] = t \/ toHost'[i].k \in {"boot", "C"}
    <3>1. Byte("C").k = "C"
      BY DEF Byte
    <3> QED
      BY <2>4, <2>5, <3>1, AppendFacts, LineFacts
  <2> HIDE DEF d
  <2> QED
    BY <1>1, <2>2, <2>6 DEF TrueTexts
<1> QED
  BY <1>1, <1>3, <1>4

\* An acknowledged frame is followed by the next, or by the end of the file.
LEMMA SendAckedGoes ==
  ASSUME TInv, ChipInv, SendAcked
  PROVE  /\ pc = "sendAck" /\ toChip # << >> /\ Head(toChip).k = "ack"
         /\ \/ Sent(send.block) < session.staged /\ Offers(send.block + 1)
            \/ /\ ~(Sent(send.block) < session.staged)
               /\ UNCHANGED << chip, store, session, nextMode, host >> /\ pc' = "sendEnd"
               /\ toChip' = Tail(toChip) /\ toHost' = Append(toHost, Byte("eof"))
<1>1. /\ pc = "sendAck" /\ UNCHANGED << chip, store, session, nextMode, host >>
      /\ toChip # << >> /\ Head(toChip).k = "ack" /\ toChip' = Tail(toChip)
      /\ IF Sent(send.block) >= session.staged
         THEN pc' = "sendEnd" /\ toHost' = Append(toHost, Byte("eof"))
         ELSE /\ send' = [send EXCEPT !.block = send.block + 1]
              /\ toHost' = SendFrame(send.block + 1) /\ UNCHANGED pc
  BY DEF SendAcked, IsByte
<1>2. session.data \in Buffers /\ session.staged = Len(session.data)
      /\ send.block \in Nat \ {0} /\ Sent(send.block - 1) < session.staged
  BY <1>1 DEF TInv, Ready, Sessions, ChipInv, Sending
<1>3. Sent(send.block) \in Int /\ session.staged \in Int
  BY <1>2, SentFacts DEF Buffers
<1>4. CASE Sent(send.block) >= session.staged
  BY <1>1, <1>3, <1>4
<1>5. CASE ~(Sent(send.block) >= session.staged)
  <2>1. send' = [send EXCEPT !.block = send.block + 1]
    BY <1>1, <1>5
  <2>2. send'.block = send.block + 1
    BY <2>1
  <2> QED
    BY <1>1, <1>3, <1>5, <2>2 DEF Offers, SendFrame, ChipFrame
<1> QED
  BY <1>4, <1>5

-----------------------------------------------------------------------------
\* The invariant of the chip

\* Answers on the line stay true: a chip never changes its verdict.
LEMMA TextsRemain ==
  ASSUME IsLine(toHost), TrueTexts(toHost), chip' = chip, IsLine(toHost')
  PROVE  /\ Remains(toHost, toHost', Mere) => TrueTexts(toHost)'
         /\ \A mode : Answers(mode) => TrueTexts(toHost)'
         /\ \A t : toHost' = Append(toHost, t) /\ t.k # "text" => TrueTexts(toHost)'
<1>1. ASSUME Remains(toHost, toHost', Mere) PROVE TrueTexts(toHost)'
  <2>1. \A i \in DOMAIN toHost' : toHost'[i].k = "text" => \E j \in DOMAIN toHost : toHost[j] = toHost'[i]
    <3>1. "text" \notin Mere
      BY DEF Mere
    <3> QED
      BY <1>1, <3>1, RemainsKeeps
  <2> QED
    BY <2>1 DEF TrueTexts
<1>2. ASSUME NEW mode, Answers(mode) PROVE TrueTexts(toHost)'
  BY <1>2 DEF TrueTexts, Answers
<1>3. ASSUME NEW t, toHost' = Append(toHost, t), t.k # "text" PROVE TrueTexts(toHost)'
  <2>1. \A i \in DOMAIN toHost' : toHost'[i] = t \/ (i \in DOMAIN toHost /\ toHost[i] = toHost'[i])
    BY <1>3, AppendFacts, LineFacts
  <2> QED
    BY <1>3, <2>1 DEF TrueTexts
<1> QED
  BY <1>1, <1>2, <1>3

\* The host takes from its line, and leaves the chip alone.
LEMMA HostTakes ==
  ASSUME TInv, ChipInv, Host
  PROVE  /\ UNCHANGED << chip, store, session, pc, nextMode, send >>
         /\ Remains(toHost, toHost', Mere) /\ IsLine(toHost')
<1>1. UNCHANGED << chip, store, session, pc, nextMode, send >>
  BY DEF Host, HostBegins, HostReadsMode, HostGivesUp, HostStarts, HostSends,
         HostFinishes, HostReceives, HostUnchanged, chipVars
<1>2. \/ toHost' = toHost \/ (toHost # << >> /\ toHost' = Tail(toHost))
      \/ CutShort(toHost) /\ Len(toHost) > 1 /\ toHost' = Tail(Tail(toHost))
  <2>1. CASE HostReceives
    <3>1. ~CutShort(toHost) => Len(toHost) > 0 /\ toHost' = Tail(toHost)
      BY <2>1 DEF HostReceives
    <3>2. CutShort(toHost) => Len(toHost) > 1 /\ toHost' = Tail(Tail(toHost))
      BY <2>1 DEF HostReceives
    <3> QED
      BY <3>1, <3>2, LinesOfChip, LineFacts
  <2>2. CASE HostBegins \/ HostReadsMode \/ HostGivesUp \/ HostStarts \/ HostSends \/ HostFinishes
    BY <2>2 DEF HostBegins, HostReadsMode, HostGivesUp, HostStarts, HostSends, HostFinishes
  <2> QED
    BY <2>1, <2>2 DEF Host
<1>3. ASSUME Len(toHost) > 1
      PROVE  Remains(toHost, Tail(Tail(toHost)), Mere) /\ IsLine(Tail(Tail(toHost)))
  <2>1. Len(toHost) \in Nat /\ DOMAIN toHost = 1..Len(toHost) /\ toHost # << >>
        /\ IsLine(Tail(toHost)) /\ Len(Tail(toHost)) = Len(toHost) - 1
        /\ \A i \in DOMAIN Tail(toHost) : i + 1 \in DOMAIN toHost /\ Tail(toHost)[i] = toHost[i + 1]
    BY <1>3, LinesOfChip, LineFacts
  <2> DEFINE a == Tail(toHost)
  <2>2. IsLine(Tail(a)) /\ \A i \in DOMAIN Tail(a) : i + 1 \in DOMAIN a /\ Tail(a)[i] = a[i + 1]
    <3>1. Len(a) # 0 /\ IsLine(a)
      BY <1>3, <2>1
    <3> HIDE DEF a
    <3> QED
      BY <3>1, LineFacts
  <2>3. \A i \in DOMAIN Tail(a) : i + 2 \in DOMAIN toHost /\ Tail(a)[i] = toHost[i + 2]
    <3>1. ASSUME NEW i \in DOMAIN Tail(a)
          PROVE  i + 2 \in DOMAIN toHost /\ Tail(a)[i] = toHost[i + 2]
      <4>1. i \in Nat
        BY <2>2, LineFacts
      <4>2. (i + 1) + 1 \in DOMAIN toHost /\ a[i + 1] = toHost[(i + 1) + 1]
        BY <2>1, <2>2
      <4>3. (i + 1) + 1 = i + 2
        BY <4>1
      <4> HIDE DEF a
      <4> QED
        BY <2>2, <4>2, <4>3
    <3> QED
      BY <3>1
  <2> HIDE DEF a
  <2>4. 2 \in 0..Len(toHost)
    BY <1>3, <2>1
  <2>5. Remains(toHost, Tail(a), Mere)
    BY <2>3, <2>4 DEF Remains, Same
  <2> QED
    BY <2>2, <2>5 DEF a
<1> QED
  BY <1>1, <1>2, <1>3, LinesOfChip, TailFades, LineFacts

\* Every step keeps what the chip relies on.
LEMMA ChipStep ==
  ASSUME TInv, ChipInv, Next
  PROVE  ChipInv'
<1> USE DEF Sending
<1>0. IsLine(toHost) /\ TrueTexts(toHost)
  BY DEF ChipInv
<1>1. CASE Dull
  <2>1. TrueTexts(toHost)'
    BY <1>0, <1>1, TextsRemain DEF Dull
  <2>2. pc' # "ended" => UNCHANGED << chip, pc, session, store >>
    BY <1>1 DEF Dull
  <2>3. pc' = "sendAck" => (Sent(send.block - 1) < session.staged)' /\ send'.block \in Nat \ {0}
    <3>1. ASSUME pc' = "sendAck"
          PROVE  /\ session' = session /\ send'.block = send.block /\ pc = "sendAck"
      BY <1>1, <2>2, <3>1 DEF Dull
    <3>2. ASSUME pc' = "sendAck" PROVE Sent(send.block - 1)' = Sent(send.block - 1)
      BY <3>1, <3>2 DEF Sent
    <3> QED
      BY <3>1, <3>2 DEF ChipInv
  <2> QED
    BY <1>1, <2>1, <2>2, <2>3 DEF ChipInv, Dull
<1>2. CASE Accepts
  <2>1. Byte("ack").k # "text"
    BY DEF Byte
  <2>2. IsLine(toHost') /\ TrueTexts(toHost)'
    BY <1>0, <1>2, <2>1, TextsRemain, AppendFacts DEF Accepts
  <2>3. session'.frame \in Nat \ {0, 1}
    BY <1>2 DEF Accepts, ChipInv
  <2> QED
    BY <1>2, <2>2, <2>3 DEF Accepts, ChipInv
<1>3. CASE Ends
  <2>1. Byte("ack").k # "text"
    BY DEF Byte
  <2>2. IsLine(toHost') /\ TrueTexts(toHost)'
    BY <1>0, <1>3, <2>1, TextsRemain, AppendFacts DEF Ends
  <2> QED
    BY <1>3, <2>2 DEF Ends, ChipInv
<1>4. ASSUME NEW b \in Nat \ {0}, Offers(b), pc \in Sending, Sent(b - 1) < session.staged
      PROVE  ChipInv'
  <2>1. ChipFrame(b).k # "text"
    BY DEF ChipFrame, Frame
  <2>2. IsLine(toHost') /\ TrueTexts(toHost)'
    BY <1>0, <1>4, <2>1, TextsRemain, AppendFacts DEF Offers
  <2>3. (Sent(send.block - 1) < session.staged)'
    BY <1>4 DEF Offers, Sent
  <2> QED
    BY <1>4, <2>2, <2>3 DEF Offers, ChipInv
<1>5. CASE SendStart
  <2>1. CASE pc = "sendStart" /\ Offers(1)
    <3>1. /\ session.data = Content(session.mode, store) /\ session.staged = Len(session.data)
          /\ session.mode \in Modes
      BY <2>1 DEF ChipInv, TInv, Ready, Sessions
    <3>2. session.staged \in Nat \ {0} /\ session.data \in Buffers
      BY <3>1, ContentFacts DEF TInv
    <3>3. Sent(1 - 1) = 0
      BY <3>2, SentFacts
    <3> QED
      BY <1>4, <2>1, <3>2, <3>3
  <2>2. Dull \/ (pc = "sendStart" /\ Offers(1))
    BY <1>5, SendStartGoes
  <2> QED
    BY <1>1, <2>1, <2>2
<1>6. CASE SendRefused
  <2>1. CASE pc = "sendAck" /\ Offers(send.block)
    BY <1>4, <2>1 DEF ChipInv
  <2> QED
    BY <1>1, <1>6, <2>1, SendRefusedGoes
<1>7. CASE SendAcked
  <2>1. pc = "sendAck" /\ send.block \in Nat \ {0}
    BY <1>7, SendAckedGoes DEF ChipInv
  <2>2. CASE Sent(send.block) < session.staged /\ Offers(send.block + 1)
    <3>1. (send.block + 1) - 1 = send.block /\ send.block + 1 \in Nat \ {0}
      BY <2>1
    <3> QED
      BY <1>4, <2>1, <2>2, <3>1
  <2>3. CASE /\ UNCHANGED << chip, store, session, nextMode, host >> /\ pc' = "sendEnd"
             /\ toHost' = Append(toHost, Byte("eof"))
    <3>1. Byte("eof").k # "text"
      BY DEF Byte
    <3>2. IsLine(toHost') /\ TrueTexts(toHost)'
      BY <1>0, <2>3, <3>1, TextsRemain, AppendFacts
    <3> QED
      BY <2>1, <2>3, <3>2 DEF ChipInv
  <2> QED
    BY <1>7, <2>2, <2>3, SendAckedGoes
<1>8. CASE ModeChange /\ session.frame = 1
  <2>1. ModeChanged
    BY <1>8, ModeChangeGoes
  <2>2. IsLine(toHost') /\ TrueTexts(toHost)'
    BY <1>0, <2>1, TextsRemain DEF ModeChanged, Answers
  <2> QED
    BY <2>1, <2>2 DEF ModeChanged, ChipInv
<1>9. CASE SendFinish
  <2>1. /\ UNCHANGED << chip, store >> /\ Answers(SessionInit(chip).default) /\ Defaults
    BY <1>9, SendFinishGoes
  <2>2. IsLine(toHost') /\ TrueTexts(toHost)'
    BY <1>0, <2>1, TextsRemain DEF Answers
  <2> QED
    BY <2>1, <2>2 DEF Defaults, ChipInv
<1>10. CASE Reset
  BY <1>10, ResetGoes DEF Defaults, ChipInv
<1>11. CASE Host
  <2>1. /\ UNCHANGED << chip, store, session, pc, nextMode, send >>
        /\ Remains(toHost, toHost', Mere) /\ IsLine(toHost')
    BY <1>11, HostTakes
  <2>2. TrueTexts(toHost)'
    BY <1>0, <2>1, TextsRemain
  <2>3. Sent(send.block - 1)' = Sent(send.block - 1)
    BY <2>1 DEF Sent
  <2> QED
    BY <2>1, <2>2, <2>3 DEF ChipInv
<1> QED
  BY <1>1, <1>2, <1>3, <1>5, <1>6, <1>7, <1>8, <1>9, <1>10, <1>11,
     DullSteps, BrokenOffIsDull, FrameAcceptedGoes, EndOfFileGoes
     DEF Next, Chip, Receive, Command, Transmit

\* And it starts with it.
LEMMA ChipInit ==
  ASSUME Init
  PROVE  ChipInv
<1> DEFINE s == SessionInit(chip)
<1>1. /\ chip \in Setups /\ session = ValidateMode(chip, s.default, s) /\ pc = "recv"
      /\ toHost = << Byte("C") >>
  BY DEF Init
<1>2. s \in Sessions
  BY <1>1, SessionInitTyped, XmodemAssumption
<1>3. session.frame = 1 /\ session.offset = 0 /\ session.flashOffset = 0 /\ session.default = s.default
  BY <1>1, <1>2, DefaultMode, ValidateModeGoes
<1>4. toHost \in Seq({Byte("C")}) /\ Len(toHost) = 1 /\ toHost[1] = Byte("C")
  BY <1>1
<1>5. IsLine(toHost) /\ TrueTexts(toHost)
  <2>1. IsLine(toHost)
    BY <1>4 DEF IsLine
  <2>2. \A i \in DOMAIN toHost : toHost[i].k = "C"
    <3>1. Byte("C").k = "C"
      BY DEF Byte
    <3>2. DOMAIN toHost = 1..1
      BY <1>4, <2>1, LineFacts
    <3> QED
      BY <1>4, <3>1, <3>2
  <2> QED
    BY <2>1, <2>2 DEF TrueTexts
<1> QED
  BY <1>1, <1>3, <1>5 DEF ChipInv, Sending

-----------------------------------------------------------------------------
(***************************************************************************)
(* Host and chip agree.  Dull steps first.                                 *)
(***************************************************************************)

\* A power cut takes the message, and nothing else that was stored.
LEMMA StoreLosesMessage ==
  ASSUME TInv, UNCHANGED << chip, host >>,
         store' = store \/ store' = [store EXCEPT !.msg = Scrambled]
  PROVE  /\ host.mode \in RecvModes /\ Stored => Stored'
         /\ host.mode \in SendModes /\ Complete => Complete'
<1>1. CASE store' = store
  BY <1>1 DEF Stored, Complete, Holds
<1>2. CASE store' = [store EXCEPT !.msg = Scrambled]
  <2>1. store'.flash = store.flash /\ store'.owner1 = store.owner1 /\ store'.msg = Scrambled
    BY <1>2 DEF TInv, Stores
  <2>2. ASSUME host.mode \in RecvModes, Stored PROVE Stored'
    <3>1. CASE host.mode \in FirmwareModes
      <4>1. host.mode \notin {"ownerBlock", "bootSvcReq"}
        BY <3>1 DEF FirmwareModes
      <4>2. Holds(chip, store, BankOf(host.mode), host.file)
        BY <2>2, <3>1, <4>1 DEF Stored
      <4>3. Holds(chip, store', BankOf(host.mode), host.file)
        BY <2>1, <4>2 DEF Holds
      <4> QED
        BY <3>1, <4>1, <4>3 DEF Stored
    <3>2. CASE host.mode = "ownerBlock"
      <4>1. store.owner1 = Block(host.file, 0)
        BY <2>2, <3>2 DEF Stored, FirmwareModes
      <4> QED
        BY <2>1, <3>2, <4>1 DEF Stored, FirmwareModes
    <3>3. CASE host.mode = "bootSvcReq"
      BY <2>1, <3>3 DEF Stored, FirmwareModes
    <3> QED
      BY <2>2, <3>1, <3>2, <3>3 DEF RecvModes
  <2>3. Complete => Complete'
    BY <2>1 DEF Complete, Content
  <2> QED
    BY <2>2, <2>3
<1> QED
  BY <1>1, <1>2

\* What a dull step leaves of the lines
LEMMA DullLines ==
  ASSUME TInv, ChipInv, Dull
  PROVE  /\ \A kinds : Only(toChip, kinds) /\ "junk" \in kinds => Only(toChip', kinds)
         /\ \A k : k # "junk" /\ Has(toChip', k) => Has(toChip, k)
         /\ \A k : k # "junk" /\ AtMostOne(toChip, k) => AtMostOne(toChip', k)
         /\ \A k : k # "junk" /\ OnlyLast(toChip, k) => OnlyLast(toChip', k)
         /\ \A x, y : Copies(toChip, x, y) => Copies(toChip', x, y)
         /\ toChip = << >> => toChip' = << >>
         /\ \A k : k \notin Mere /\ Has(toHost', k) => Has(toHost, k)
         /\ \A k : k \notin Mere /\ AtMostOne(toHost, k) => AtMostOne(toHost', k)
         /\ \A x, y : Copies(toHost, x, y) => Copies(toHost', x, y)
         /\ \A i \in DOMAIN toHost' : toHost'[i].k = "frame" =>
              \E j \in DOMAIN toHost : toHost[j].k = "frame" /\ toHost[j].num = toHost'[i].num
         /\ Asked => Asked'
         /\ Answered' => Answered
<1>1. /\ IsLine(toChip) /\ IsLine(toChip') /\ IsLine(toHost) /\ IsLine(toHost')
      /\ Remains(toChip, toChip', {"junk"}) /\ Remains(toHost, toHost', Mere)
  BY LinesOfChip DEF Dull, Fades
<1>2. /\ \A k : k # "junk" /\ OnlyLast(toChip, k) => OnlyLast(toChip', k)
      /\ toChip = << >> => toChip' = << >>
  BY DEF Dull, Fades
<1>3. "frame" \notin Mere /\ "text" \notin Mere
  BY DEF Mere
<1>4. /\ \A i \in DOMAIN toChip' : toChip'[i].k = "mode" => \E j \in DOMAIN toChip : toChip[j] = toChip'[i]
      /\ \A i \in DOMAIN toHost' : toHost'[i].k = "text" => \E j \in DOMAIN toHost : toHost[j] = toHost'[i]
  BY <1>1, <1>3, RemainsKeeps
<1>5. Asked => Asked'
  <2> SUFFICES ASSUME Asked PROVE Asked'
    OBVIOUS
  <2>1. host' = host
    BY DEF Dull
  <2>2. nextMode' \in {"none", "bad", host.mode}
    BY DEF Dull, Asked
  <2>3. \A i \in DOMAIN toChip' : toChip'[i].k = "mode" => toChip'[i].mode = host.mode
    BY <1>4 DEF Asked
  <2> QED
    BY <2>1, <2>2, <2>3 DEF Asked
<1>6. Answered' => Answered
  BY <1>4 DEF Answered, Dull
<1>7. /\ \A kinds : Only(toChip, kinds) /\ "junk" \in kinds => Only(toChip', kinds)
      /\ \A k : k # "junk" /\ Has(toChip', k) => Has(toChip, k)
      /\ \A k : k # "junk" /\ AtMostOne(toChip, k) => AtMostOne(toChip', k)
      /\ \A x, y : Copies(toChip, x, y) => Copies(toChip', x, y)
  <2>1. \A kinds : "junk" \in kinds => {"junk"} \subseteq kinds
    OBVIOUS
  <2> QED
    BY <1>1, <2>1, RemainsKeeps
<1>8. /\ \A k : k \notin Mere /\ Has(toHost', k) => Has(toHost, k)
      /\ \A k : k \notin Mere /\ AtMostOne(toHost, k) => AtMostOne(toHost', k)
      /\ \A x, y : Copies(toHost, x, y) => Copies(toHost', x, y)
      /\ \A i \in DOMAIN toHost' : toHost'[i].k = "frame" =>
           \E j \in DOMAIN toHost : toHost[j].k = "frame" /\ toHost[j].num = toHost'[i].num
  BY <1>1, <1>3, RemainsKeeps
<1> QED
  BY <1>2, <1>5, <1>6, <1>7, <1>8

\* A chip between transfers that waits writes nothing, unless a frame or the end of a
\* file is on the line.
LEMMA DullStore ==
  ASSUME TInv, ChipInv, Dull, session.frame = 1,
         NEW kinds, Only(toChip, kinds), "frame" \notin kinds, "eof" \notin kinds
  PROVE  store' = store \/ store' = [store EXCEPT !.msg = Scrambled]
<1>1. toChip # << >> => Head(toChip).k \in kinds
  BY LinesOfChip DEF Only
<1>2. pc = "recv" => session.offset # BlockUnits
  BY RescueAssumption DEF ChipInv
<1> QED
  BY <1>1, <1>2 DEF Dull

\* Steps that do nothing for the host keep what a sending host relies on,
LEMMA DullSend ==
  ASSUME TInv, ChipInv, Dull, SendInv
  PROVE  SendInv'
<1>1. /\ UNCHANGED << chip, host >> /\ session'.mode = session.mode /\ session'.frame = session.frame
      /\ pc' = "ended" \/ (pc' = pc /\ session' = session /\ store' = store)
      /\ pc' \in {pc, "ended"}
  BY DEF Dull
<1>2. (Agreed => Agreed') /\ (Asked => Asked') /\ (Answered' => Answered)
  BY <1>1, DullLines DEF Agreed
<1>3. host.mode \in RecvModes
  BY XmodemAssumption DEF SendInv
<1>4. \A n : FileFrame(n)' = FileFrame(n)
  BY <1>1 DEF FileFrame
<1>5. LastBlock' = LastBlock
  BY <1>1 DEF LastBlock
<1>6. "ack" \notin Mere /\ "ack" # "junk" /\ "eof" # "junk"
  BY DEF Mere
<1>7. ASSUME pc' = "recv" PROVE \A u : Progress(u) => Progress(u)'
  BY <1>1, <1>7 DEF Progress, Holding
<1>8. ASSUME AskingToSend, host.pc \in {"mode", "start"} PROVE AskingToSend'
  <2>1. Only(toChip', Asking) /\ ~Has(toHost', "ack")
    BY <1>6, <1>8, DullLines DEF AskingToSend, Asking
  <2> QED
    BY <1>1, <1>2, <1>8, <2>1 DEF AskingToSend
<1>9. ASSUME SendingData PROVE SendingData'
  <2>1. Only(toChip', Asking \cup {"frame"})
    BY <1>9, DullLines DEF SendingData, Asking
  <2>2. Waits => Waits'
    BY <1>1, <1>4, <1>6, DullLines DEF Waits
  <2>3. HasTaken => HasTaken'
    BY <1>1, <1>4, <1>6, DullLines DEF HasTaken
  <2>4. pc' = "recv" => Progress((session.frame - 1) * host.size)'
    BY <1>1, <1>7, <1>9 DEF SendingData
  <2> QED
    BY <1>1, <1>2, <1>5, <1>9, <2>1, <2>2, <2>3, <2>4 DEF SendingData
<1>10. ASSUME Finishing PROVE Finishing'
  <2>1. CASE session.frame = 1 /\ toChip = << >> /\ Stored
    <3>1. toChip' = << >> /\ Stored'
      <4>1. Only(toChip, {})
        BY <2>1 DEF Only
      <4> QED
        BY <1>1, <1>3, <2>1, <4>1, DullStore, DullLines, StoreLosesMessage
    <3> QED
      BY <1>1, <1>2, <1>5, <1>10, <2>1, <3>1 DEF Finishing
  <2>2. CASE ~(session.frame = 1 /\ toChip = << >> /\ Stored)
    <3>1. /\ Only(toChip', Asking \cup {"frame", "eof"}) /\ OnlyLast(toChip', "eof")
          /\ ~Has(toHost', "ack")
          /\ Copies(toChip', FileFrame(host.block), FileFrame(host.block))
      BY <1>6, <1>10, <2>2, DullLines DEF Finishing, Asking
    <3>2. pc' = "recv" => Progress(host.block * host.size)'
      BY <1>1, <1>7, <1>10, <2>2 DEF Finishing
    <3>3. Copies(toChip, FileFrame(host.block), FileFrame(host.block))'
      BY <1>1, <1>4, <3>1
    <3> QED
      BY <1>1, <1>2, <1>5, <1>10, <2>2, <3>1, <3>2, <3>3 DEF Finishing
  <2> QED
    BY <2>1, <2>2
<1>11. ASSUME Stored, toChip = << >>, session.frame = 1
       PROVE  Stored' /\ toChip' = << >> /\ session'.frame = 1
  <2>1. Only(toChip, {})
    BY <1>11 DEF Only
  <2> QED
    BY <1>1, <1>3, <1>11, <2>1, DullStore, DullLines, StoreLosesMessage
<1> QED
  BY <1>1, <1>2, <1>8, <1>9, <1>10, <1>11 DEF SendInv

\* and a receiving one.
LEMMA DullReceive ==
  ASSUME TInv, ChipInv, Dull, ReceiveInv
  PROVE  ReceiveInv'
<1>1. /\ UNCHANGED << chip, host >> /\ session'.mode = session.mode /\ session'.frame = session.frame
      /\ pc' = "ended" \/ (pc' = pc /\ session' = session /\ store' = store)
      /\ pc' \in {pc, "ended"} /\ (pc' = "sendAck" => send'.block = send.block)
  BY DEF Dull
<1>2. (Asked => Asked') /\ (Answered' => Answered)
  BY DullLines
<1>3. host.mode \in SendModes
  BY DEF ReceiveInv
<1>4. /\ "ack" \notin Mere /\ "eof" \notin Mere /\ "frame" \notin Mere
      /\ "ack" # "junk" /\ "C" # "junk"
      /\ "junk" \in Replies /\ "junk" \in Asking
      /\ "frame" \notin Replies /\ "eof" \notin Replies
  BY DEF Mere, Replies, Asking
<1>5. ASSUME Complete, Only(toChip, Replies), session.frame = 1
      PROVE  Complete' /\ Only(toChip, Replies)' /\ session'.frame = 1
  BY <1>1, <1>3, <1>4, <1>5, DullStore, DullLines, StoreLosesMessage
<1>6. ASSUME AskingToReceive PROVE AskingToReceive'
  BY <1>1, <1>2, <1>4, <1>6, DullLines DEF AskingToReceive
<1>7. ASSUME Receiving PROVE Receiving'
  <2>1. ASSUME pc' = "sendStart" PROVE Starting'
    <3>1. Only(toChip', Asking \cup {"C"}) /\ OnlyLast(toChip', "C")
      BY <1>1, <1>4, <1>7, <2>1, DullLines DEF Receiving, Starting
    <3>2. ~Has(toHost', "frame") /\ ~Has(toHost', "eof")
      BY <1>1, <1>4, <1>7, <2>1, DullLines DEF Receiving, Starting
    <3> QED
      BY <1>1, <1>7, <2>1, <3>1, <3>2 DEF Receiving, Starting
  <2>2. ASSUME pc' = "sendAck" PROVE Transmitting'
    <3>0. UNCHANGED << session, pc >> /\ send'.block = send.block /\ Transmitting
      BY <1>1, <1>7, <2>2 DEF Receiving
    <3>1. \A n : ChipFrame(n)' = ChipFrame(n) /\ Sent(n)' = Sent(n)
      BY <3>0 DEF ChipFrame, Chunk, Sent
    <3>2. Only(toChip', Replies) /\ ~Has(toHost', "eof")
      BY <1>4, <3>0, DullLines DEF Transmitting
    <3>3. Offered => Offered'
      BY <1>1, <1>4, <3>0, <3>1, DullLines DEF Offered
    <3>4. WasReceived => WasReceived'
      BY <1>1, <1>4, <3>0, <3>1, DullLines DEF WasReceived
    <3> QED
      BY <1>1, <3>0, <3>1, <3>2, <3>3, <3>4 DEF Transmitting
  <2>3. ASSUME pc' \in {"recv", "sendEnd"} PROVE Only(toChip', Replies)
    BY <1>1, <1>4, <1>7, <2>3, DullLines DEF Receiving
  <2>4. ASSUME Has(toHost', "eof") PROVE AllSent'
    <3>1. AllSent
      BY <1>4, <1>7, <2>4, DullLines DEF Receiving
    <3>2. \A i \in DOMAIN toHost' : toHost'[i].k = "frame" => toHost'[i].num # host.block % FrameNumbers
      BY <3>1, DullLines DEF AllSent
    <3> QED
      BY <1>1, <1>5, <3>1, <3>2 DEF AllSent
  <2> QED
    BY <1>1, <1>7, <2>1, <2>2, <2>3, <2>4 DEF Receiving
<1> QED
  BY <1>1, <1>5, <1>6, <1>7 DEF ReceiveInv

-----------------------------------------------------------------------------
(***************************************************************************)
(* The frames of a file fill the buffer, and the buffer the flash.         *)
(***************************************************************************)

\* The numbers of neighbouring frames differ.
LEMMA NumbersDiffer ==
  ASSUME NEW b \in Nat \ {0}
  PROVE  (b - 1) % FrameNumbers # b % FrameNumbers
<1>1. FrameNumbers \in Nat \ {0, 1}
  BY XmodemAssumption
<1>2. ASSUME NEW n \in Nat, NEW m \in Nat \ {0, 1}, n % m = (n + 1) % m PROVE FALSE
  <2>1. ASSUME NEW a \in Nat PROVE a = (a \div m) * m + (a % m) /\ a \div m \in Nat /\ a % m \in Nat
    OBVIOUS
  <2> DEFINE p == n \div m
             q == (n + 1) \div m
             r == n % m
  <2>2. n = p * m + r /\ n + 1 = q * m + r /\ p \in Nat /\ q \in Nat /\ r \in Nat
    BY <1>2, <2>1
  <2> HIDE DEF p, q, r
  <2>3. q - p \in Int /\ (q - p) * m = q * m - p * m
    BY <2>2
  <2>4. q * m \in Nat /\ p * m \in Nat
    BY <2>2
  <2>5. (q - p) * m = 1
    <3> DEFINE x == p * m
               y == q * m
               z == (q - p) * m
    <3>1. n = x + r /\ n + 1 = y + r /\ z = y - x /\ x \in Nat /\ y \in Nat
      BY <2>2, <2>3, <2>4
    <3> HIDE DEF x, y, z
    <3>2. z = 1
      BY <2>2, <3>1
    <3> QED
      BY <3>2 DEF z
  <2>6. ASSUME NEW d \in Int PROVE d * m # 1
    <3>1. CASE d <= 0
      <4>1. d * m <= 0
        BY <3>1
      <4>2. d * m \in Int
        OBVIOUS
      <4> QED
        BY <4>1, <4>2
    <3>2. CASE d >= 1
      <4>1. d * m >= m
        BY <3>2
      <4>2. d * m \in Int
        OBVIOUS
      <4> QED
        BY <4>1, <4>2
    <3> QED
      BY <3>1, <3>2
  <2> QED
    BY <2>3, <2>5, <2>6
<1>3. b - 1 \in Nat /\ (b - 1) + 1 = b
  OBVIOUS
<1> QED
  BY <1>1, <1>2, <1>3

\* The frames before the last one do not reach the end of the file, and the last one does.
LEMMA BlocksCover ==
  ASSUME NEW f \in Files, NEW size \in Nat \ {0}
  PROVE  /\ Blocks(f, size) \in Nat \ {0} /\ FileUnits[f] <= Blocks(f, size) * size
         /\ \A b \in 1..Blocks(f, size) : (b - 1) * size \in Nat /\ (b - 1) * size < FileUnits[f]
<1> DEFINE l == FileUnits[f]
           q == (l + size - 1) \div size
<1>1. l \in Nat \ {0}
  BY RescueAssumption
<1> HIDE DEF l
<1>2. q \in Nat /\ q * size \in Nat /\ q * size <= l + size - 1 /\ l + size - 1 < q * size + size
  BY <1>1, QuotientFacts
<1> HIDE DEF q
<1>3. l <= q * size
  BY <1>1, <1>2
<1>4. q # 0
  BY <1>1, <1>3
<1>5. ASSUME NEW b \in 1..q PROVE (b - 1) * size \in Nat /\ (b - 1) * size < l
  <2>1. q - b \in Nat /\ b - 1 \in Nat
    BY <1>2
  <2> DEFINE j == q - b
             a == b - 1
  <2>2. q = (a + j) + 1 /\ j \in Nat /\ a \in Nat
    BY <2>1, <1>2
  <2> HIDE DEF j, a
  <2>3. ((a + j) + 1) * size = a * size + j * size + size /\ a * size \in Nat /\ j * size \in Nat
    BY <2>2
  <2> DEFINE x == a * size
             y == j * size
             z == q * size
  <2>4. z = x + y + size /\ x \in Nat /\ y \in Nat /\ z <= l + size - 1
    BY <1>2, <2>2, <2>3
  <2> HIDE DEF x, y, z
  <2>5. x \in Nat /\ x < l
    BY <1>1, <2>4
  <2> QED
    BY <2>5 DEF x, a
<1> QED
  BY <1>2, <1>3, <1>4, <1>5 DEF Blocks, l, q

\* A buffer with k blocks before it and all of its units in place is a block.
LEMMA BufferIsBlock ==
  ASSUME NEW s \in Sessions, NEW f, NEW k \in Nat, Buffered(s, f, k),
         s.offset = BlockUnits, BlockUnits <= Len(s.data)
  PROVE  s.data = Block(f, k)
<1>1. s.data \in Seq(Units) /\ Len(s.data) <= BlockUnits /\ BlockUnits \in Nat
  BY RescueAssumption DEF Sessions, Buffers
<1>2. Len(s.data) = BlockUnits
  BY <1>1
<1>3. s.data = [i \in 1..BlockUnits |-> s.data[i]]
  BY <1>1, <1>2
<1>4. \A i \in 1..BlockUnits : s.data[i] = FileUnit(f, k * BlockUnits + i)
  BY DEF Buffered
<1> QED
  BY <1>3, <1>4 DEF Block

\* What a handler that succeeds leaves of the buffer
LEMMA HandledOffset ==
  ASSUME NEW s \in Sessions, NEW st \in Stores, s.mode \in RecvModes,
         RecvHandler(chip, s, st).err = "ok"
  PROVE  /\ \/ s.offset = BlockUnits
            \/ s.mode = "bootSvcReq" /\ s.offset >= MsgUnits
            => RecvHandler(chip, s, st).s.offset = 0
         /\ s.offset # BlockUnits /\ (s.mode = "bootSvcReq" => s.offset < MsgUnits) =>
              RecvHandler(chip, s, st).s = s /\ RecvHandler(chip, s, st).st = st
<1> DEFINE r == RecvHandler(chip, s, st)
<1>0. /\ s.offset \in Nat /\ MsgUnits \in Nat /\ BlockUnits \in Nat /\ MsgUnits <= BlockUnits
      /\ IsSession(s)
  BY RescueAssumption DEF Sessions, IsSession
<1>1. s.mode # "reboot"
  BY DEF RecvModes, FirmwareModes
<1>2. CommandAllowed(chip, s.mode)
  BY DEF RecvHandler, Result
<1>3. ASSUME s.offset # BlockUnits, s.mode = "bootSvcReq" => s.offset < MsgUnits
      PROVE  r = Result("ok", s, st)
  <2>1. ~(s.mode = "bootSvcReq" /\ s.offset >= MsgUnits)
    BY <1>0, <1>3
  <2> QED
    BY <1>1, <1>2, <1>3, <2>1 DEF RecvHandler
<1>4. ASSUME NEW err, NEW t, NEW new, IsSession(t), r = Taken(Result(err, t, new))
      PROVE  r.s.offset = 0
  <2>1. r.err = err
    BY <1>4 DEF Taken, Result
  <2>2. err = "ok"
    BY <2>1
  <2>3. r.s = [t EXCEPT !.offset = 0]
    BY <1>4, <2>2 DEF Taken, Result
  <2> QED
    BY <1>4, <2>3 DEF IsSession
<1>5. ASSUME s.offset = BlockUnits \/ (s.mode = "bootSvcReq" /\ s.offset >= MsgUnits)
      PROVE  r.s.offset = 0
  <2>1. CASE s.mode = "bootSvcReq"
    <3>1. s.offset >= MsgUnits
      BY <1>0, <1>5
    <3>2. r = Taken(TakeMessage(chip, s, st))
      BY <1>1, <1>2, <2>1, <3>1 DEF RecvHandler
    <3>3. \E err, new : TakeMessage(chip, s, st) = Result(err, s, new)
      BY DEF TakeMessage
    <3> QED
      BY <1>0, <1>4, <3>2, <3>3
  <2>2. CASE s.mode = "ownerBlock"
    <3>1. r = Taken(Result("ok", s, FlashOwnerBlock(chip, s, st)))
      BY <1>1, <1>2, <1>5, <2>2 DEF RecvHandler
    <3> QED
      BY <1>0, <1>4, <3>1
  <2>3. CASE s.mode \in FirmwareModes
    <3>1. r = Taken(FlashFirmwareBlock(chip, s, st))
      BY <1>1, <1>2, <1>5, <2>3 DEF RecvHandler, FirmwareModes
    <3>2. \E err, new, n, g : FlashFirmwareBlock(chip, s, st) =
            Result(err, [s EXCEPT !.flashOffset = n, !.flashBegin = g], new)
      BY DEF FlashFirmwareBlock
    <3>3. ASSUME NEW n, NEW g, NEW t, t = [s EXCEPT !.flashOffset = n, !.flashBegin = g]
          PROVE  IsSession(t)
      <4>1. t = [mode |-> s.mode, default |-> s.default, deadline |-> s.deadline,
                 frame |-> s.frame, offset |-> s.offset, staged |-> s.staged,
                 flashOffset |-> n, flashBegin |-> g, data |-> s.data]
        BY <1>0, <3>3 DEF IsSession
      <4> QED
        BY <4>1 DEF IsSession
    <3> QED
      BY <1>4, <3>1, <3>2, <3>3
  <2> QED
    BY <2>1, <2>2, <2>3 DEF RecvModes
<1> QED
  BY <1>3, <1>5 DEF Result

\* A message that is complete before the buffer is full
LEMMA MessageTaken ==
  ASSUME NEW f \in Files, NEW s \in Sessions, NEW st \in Stores,
         Buffered(s, f, 0), s.offset >= MsgUnits, s.offset <= Len(s.data),
         TakenBlocks(chip, "bootSvcReq", f, s, st, 0), RecvHandler(chip, s, st).err = "ok"
  PROVE  TakenBlocks(chip, "bootSvcReq", f, RecvHandler(chip, s, st).s,
                     RecvHandler(chip, s, st).st, 1)
<1> DEFINE r == RecvHandler(chip, s, st)
           new == [st EXCEPT !.msg = SubSeq(s.data, 1, MsgUnits)]
<1>0. /\ s.mode = "bootSvcReq" /\ ModeVerdict(chip, "bootSvcReq") = "ok"
      /\ s.offset \in Nat /\ MsgUnits \in Nat \ {0} /\ MsgUnits <= BlockUnits
      /\ s.data \in Seq(Units) /\ Len(s.data) \in Nat
  BY RescueAssumption DEF TakenBlocks, Sessions, Buffers
<1>1. r = Taken(TakeMessage(chip, s, st))
  <2>1. CommandAllowed(chip, s.mode)
    BY DEF RecvHandler, Result
  <2> QED
    BY <1>0, <2>1 DEF RecvHandler
<1>2. TakeMessage(chip, s, st) = Result("ok", s, new)
  BY <1>1 DEF TakeMessage, Taken, Result
<1>3. r.st = new /\ r.s = [s EXCEPT !.offset = 0]
  <2> HIDE DEF new
  <2> QED
    BY <1>1, <1>2 DEF Taken, Result
<1>4. r.s.mode = "bootSvcReq" /\ r.st.msg = SubSeq(s.data, 1, MsgUnits)
  BY <1>0, <1>3 DEF Sessions, Stores
<1>6. s.offset >= MsgUnits /\ s.offset <= Len(s.data)
  OBVIOUS
<1>5. SubSeq(s.data, 1, MsgUnits) = SubSeq(Block(f, 0), 1, MsgUnits)
  <2>1. \A i \in 1..MsgUnits : s.data[i] = Block(f, 0)[i]
    <3>1. ASSUME NEW i \in 1..MsgUnits PROVE i \in 1..s.offset /\ i \in 1..BlockUnits
      <4>1. BlockUnits \in Nat
        BY RescueAssumption
      <4> QED
        BY <1>0, <1>6, <4>1
    <3> QED
      BY <3>1 DEF Buffered, Block
  <2>2. ASSUME NEW d \in Seq(Units), MsgUnits <= Len(d)
        PROVE  /\ SubSeq(d, 1, MsgUnits) \in Seq(Units) /\ Len(SubSeq(d, 1, MsgUnits)) = MsgUnits
               /\ \A i \in 1..MsgUnits : SubSeq(d, 1, MsgUnits)[i] = d[i]
    <3>1. Len(d) \in Nat /\ 1 \in 1..(Len(d) + 1) /\ MsgUnits \in (1 - 1)..Len(d)
      BY <1>0, <2>2, LenProperties
    <3>2. \A i \in 1..MsgUnits : (1 + i) - 1 = i /\ i \in 1..((MsgUnits - 1) + 1)
      BY <1>0
    <3> QED
      BY <1>0, <3>1, <3>2, SubSeqProperties
  <2>3. Block(f, 0) \in Seq(Units) /\ Len(Block(f, 0)) = BlockUnits
    <3>1. \A i \in Int : FileUnit(f, 0 * BlockUnits + i) \in Units
      BY UnitTyped, RescueAssumption
    <3>2. Block(f, 0) \in [1..BlockUnits -> Units] /\ BlockUnits \in Nat
      BY <3>1, RescueAssumption DEF Block
    <3> QED
      BY <3>2
  <2>4. MsgUnits <= Len(s.data) /\ MsgUnits <= Len(Block(f, 0))
    BY <1>0, <2>3, <1>6
  <2> DEFINE x == SubSeq(s.data, 1, MsgUnits)
             y == SubSeq(Block(f, 0), 1, MsgUnits)
  <2>5. /\ x \in Seq(Units) /\ y \in Seq(Units) /\ Len(x) = MsgUnits /\ Len(y) = MsgUnits
        /\ \A i \in 1..MsgUnits : x[i] = y[i]
    BY <1>0, <2>1, <2>2, <2>3, <2>4
  <2> HIDE DEF x, y
  <2>6. x = y
    BY <2>5, SeqEqual
  <2> QED
    BY <2>6 DEF x, y
<1> QED
  BY <1>0, <1>4, <1>5 DEF TakenBlocks, FirmwareModes

\* How u units have come to be in the buffer, before it is handled
Coming(mode, offset, u, k) ==
  IF mode \in FirmwareModes THEN u = k * BlockUnits + offset ELSE k = 0 /\ offset = u

\* The units of a frame reach their place: in the buffer, or with it in flash, owner page
\* or message.
LEMMA UnitsTaken ==
  ASSUME NEW mode \in RecvModes, NEW f \in Files, NEW k \in Nat, NEW u \in Nat,
         NEW s \in Sessions, NEW st \in Stores, s.offset <= Len(s.data),
         TakenBlocks(chip, mode, f, s, st, k), Buffered(s, f, k),
         Coming(mode, s.offset, u, k), RecvHandler(chip, s, st).err = "ok"
  PROVE  Holding(RecvHandler(chip, s, st).s, RecvHandler(chip, s, st).st, mode, f, u)
<1> DEFINE r == RecvHandler(chip, s, st)
<1> SUFFICES Holding(r.s, r.st, mode, f, u)
  OBVIOUS
<1>0. /\ s.mode = mode /\ s.offset \in 0..BlockUnits /\ BlockUnits \in Nat \ {0}
      /\ MsgUnits \in 1..BlockUnits /\ Len(s.data) \in Nat
  BY RescueAssumption, LenProperties DEF TakenBlocks, Sessions, Buffers
<1>1. ASSUME r.s.offset = 0 PROVE \A n : Buffered(r.s, f, n)
  <2>1. 1..0 = {}
    OBVIOUS
  <2> QED
    BY <1>1, <2>1 DEF Buffered
<1>2. CASE s.offset = BlockUnits
  <2>1. s.data = Block(f, k)
    BY <1>0, <1>2, BufferIsBlock
  <2>2. mode \notin FirmwareModes => k = 0
    BY DEF Coming
  <2>3. TakenBlocks(chip, mode, f, r.s, r.st, k + 1)
    <3>1. mode \in {"ownerBlock", "bootSvcReq"} => k = 0
      BY <2>2 DEF FirmwareModes
    <3> QED
      BY <1>2, <2>1, <3>1, BlockTaken
  <2>4. r.s.offset = 0
    BY <1>0, <1>2, HandledOffset
  <2>5. Counted(mode, 0, u, k + 1)
    <3>1. CASE mode \in FirmwareModes
      <4>1. u = k * BlockUnits + BlockUnits
        BY <1>2, <3>1 DEF Coming
      <4>2. (k + 1) * BlockUnits + 0 = k * BlockUnits + BlockUnits
        BY <1>0
      <4> QED
        BY <1>0, <3>1, <4>1, <4>2 DEF Counted
    <3>2. CASE mode \notin FirmwareModes
      <4>1. k + 1 = 1 /\ u = BlockUnits
        BY <1>2, <3>2 DEF Coming
      <4> QED
        BY <1>0, <3>2, <4>1 DEF Counted, Whole
    <3> QED
      BY <3>1, <3>2
  <2> HIDE DEF r
  <2> QED
    BY <1>1, <2>3, <2>4, <2>5 DEF Holding
<1>3. CASE mode = "bootSvcReq" /\ s.offset >= MsgUnits
  <2>1. mode \notin FirmwareModes
    BY <1>3 DEF FirmwareModes
  <2>2. k = 0 /\ s.offset = u
    BY <2>1 DEF Coming
  <2>3. TakenBlocks(chip, mode, f, r.s, r.st, 1)
    BY <1>3, <2>2, MessageTaken
  <2>4. r.s.offset = 0
    BY <1>0, <1>3, HandledOffset
  <2>5. Counted(mode, 0, u, 1)
    BY <1>0, <1>3, <2>1, <2>2 DEF Counted, Whole
  <2> HIDE DEF r
  <2> QED
    BY <1>1, <2>3, <2>4, <2>5 DEF Holding
<1>4. CASE s.offset # BlockUnits /\ ~(mode = "bootSvcReq" /\ s.offset >= MsgUnits)
  <2>1. r.s = s /\ r.st = st
    <3>1. s.mode = "bootSvcReq" => s.offset < MsgUnits
      BY <1>0, <1>4
    <3> QED
      BY <1>0, <1>4, <3>1, HandledOffset
  <2>2. Counted(mode, s.offset, u, k)
    <3>1. s.offset < BlockUnits
      BY <1>0, <1>4
    <3>2. mode \notin FirmwareModes => s.offset < Whole(mode)
      BY <1>0, <1>4, <3>1 DEF Whole
    <3> QED
      BY <3>1, <3>2 DEF Coming, Counted
  <2> HIDE DEF r
  <2> QED
    BY <2>1, <2>2 DEF Holding
<1> QED
  BY <1>2, <1>3, <1>4

\* What the host sends is in reach of the file.
LEMMA SendFacts ==
  ASSUME TInv, SendInv
  PROVE  /\ host.mode \in RecvModes /\ host.file \in Files /\ host.size \in Nat \ {0}
         /\ FileUnits[host.file] \in Nat \ {0}
         /\ host.mode = "ownerBlock" => FileUnits[host.file] <= BlockUnits
         /\ host.mode = "bootSvcReq" => FileUnits[host.file] = MsgUnits
         /\ LastBlock \in Nat \ {0} /\ FileUnits[host.file] <= LastBlock * host.size
         /\ \A b \in 1..LastBlock :
              (b - 1) * host.size \in Nat /\ (b - 1) * host.size < FileUnits[host.file]
<1> DEFINE x == [mode |-> host.mode, file |-> host.file, size |-> host.size]
<1>1. x \in Sends /\ x.mode = host.mode /\ x.file = host.file /\ x.size = host.size
  BY DEF SendInv
<1> HIDE DEF x
<1>2. x \in [mode : RecvModes, file : Files, size : {1, LongFrame}]
  BY <1>1, XmodemAssumption
<1>3. /\ x.mode = "ownerBlock" => FileUnits[x.file] <= BlockUnits
      /\ x.mode = "bootSvcReq" => FileUnits[x.file] = MsgUnits
  BY <1>1, XmodemAssumption
<1>4. host.file \in Files /\ host.size \in Nat \ {0}
  <2>1. LongFrame \in Nat \ {0}
    BY XmodemAssumption, RescueAssumption
  <2> QED
    BY <1>1, <1>2, <2>1
<1> QED
  BY <1>1, <1>2, <1>3, <1>4, BlocksCover, RescueAssumption DEF LastBlock

\* The units of a frame follow those that are in the buffer.
LEMMA FrameFollows ==
  ASSUME TInv, SendInv, pc = "recv", NEW b \in 1..LastBlock, Progress((b - 1) * host.size),
         NEW t \in Frames, t.data = FileFrame(b).data, Fits(t, session),
         RecvHandler(chip, Received(t), store).err = "ok"
  PROVE  Holding(RecvHandler(chip, Received(t), store).s, RecvHandler(chip, Received(t), store).st,
                 host.mode, host.file, b * host.size)
<1> DEFINE f == host.file
           size == host.size
           o == session.offset
           u == (b - 1) * size
           s == Received(t)
           d == [i \in 1..size |-> FileUnit(f, u + i)]
<1>1. /\ host.mode \in RecvModes /\ f \in Files /\ size \in Nat \ {0}
      /\ FileUnits[f] \in Nat \ {0} /\ u \in Nat /\ u < FileUnits[f]
      /\ host.mode = "ownerBlock" => FileUnits[f] <= BlockUnits
      /\ host.mode = "bootSvcReq" => FileUnits[f] = MsgUnits
      /\ LastBlock \in Nat
  BY SendFacts
<1>2. b * size = u + size /\ b \in Nat
  <2>1. b \in Nat
    BY <1>1
  <2>2. b * size = (b - 1) * size + size
    BY <1>1, <2>1
  <2> QED
    BY <2>1, <2>2
<1>3. t.data = d
  BY DEF FileFrame, HostFrame, Frame
<1> HIDE DEF u
<1>4. t.data \in Seq(Units) /\ Len(t.data) = size /\ \A i \in 1..size : t.data[i] = FileUnit(f, u + i)
  <2>1. d \in [1..size -> Units]
    BY <1>1, UnitTyped
  <2> QED
    BY <1>1, <1>3, <2>1, FunctionLength
<1>5. /\ session.data \in Seq(Units) /\ o \in 0..BlockUnits /\ o <= Len(session.data)
      /\ BlockUnits \in Nat \ {0} /\ Len(session.data) \in Nat /\ o + size <= BlockUnits
  <2>1. /\ session.data \in Seq(Units) /\ o \in 0..BlockUnits /\ o <= Len(session.data)
        /\ BlockUnits \in Nat \ {0} /\ Len(session.data) \in Nat
    BY RescueAssumption, LenProperties DEF TInv, Ready, Sessions, Buffers, Filling
  <2>2. size <= BlockUnits - o
    BY <1>4 DEF Fits
  <2> QED
    BY <1>1, <2>1, <2>2
<1>6. /\ Ready(s) /\ s.mode = session.mode /\ s.offset = o + size
      /\ s.flashOffset = session.flashOffset /\ s.flashBegin = session.flashBegin
      /\ s.data = SubSeq(session.data, 1, o) \o t.data
  BY <1>4, ReceivedReady, ReceivedFields DEF TInv
<1> HIDE DEF s
<1>7. PICK k \in Nat :
        /\ TakenBlocks(chip, host.mode, f, session, store, k)
        /\ Buffered(session, f, k) /\ Counted(host.mode, o, u, k)
  BY DEF Progress, Holding, u
<1>8. Coming(host.mode, o, u, k) /\ (host.mode \notin FirmwareModes => k = 0)
  <2>1. CASE host.mode \in FirmwareModes
    BY <1>7, <2>1 DEF Counted, Coming
  <2>2. CASE host.mode \notin FirmwareModes
    <3>1. u < Whole(host.mode)
      BY <1>1, <1>5, <2>2 DEF Whole, RecvModes
    <3>2. k = 0 /\ o = u
      <4>1. ~(u >= Whole(host.mode))
        BY <1>1, <3>1, RescueAssumption DEF Whole
      <4> QED
        BY <1>7, <2>2, <4>1 DEF Counted
    <3> QED
      BY <2>2, <3>2 DEF Coming
  <2> QED
    BY <2>1, <2>2
<1>9. u = k * BlockUnits + o
  BY <1>5, <1>8 DEF Coming
<1>10. Buffered(s, f, k)
  <2>1. ASSUME NEW i \in 1..(o + size) PROVE s.data[i] = FileUnit(f, k * BlockUnits + i)
    <3>1. /\ SubSeq(session.data, 1, o) \in Seq(Units) /\ Len(SubSeq(session.data, 1, o)) = o
          /\ \A j \in 1..o : SubSeq(session.data, 1, o)[j] = session.data[j]
      <4>1. \A j \in 1..o : session.data[j] \in Units /\ (1 + j) - 1 = j /\ j \in 1..((o - 1) + 1)
        BY <1>5
      <4>2. o \in Int /\ 1 \in Int /\ (1 <= o => (o - 1) + 1 = o) /\ (~(1 <= o) => o = 0)
        BY <1>5
      <4> QED
        BY <4>1, <4>2, SubSeqProperties
    <3> DEFINE a == SubSeq(session.data, 1, o)
    <3>2. a \in Seq(Units) /\ Len(a) = o
      BY <3>1
    <3>3. (a \o t.data)[i] = IF i <= o THEN a[i] ELSE t.data[i - o]
      <4> HIDE DEF a, o
      <4>1. i \in 1..(Len(a) + Len(t.data))
        BY <1>4, <3>2
      <4> QED
        BY <1>4, <3>2, <4>1, ConcatProperties
    <3>4. CASE i <= o
      <4>1. i \in 1..o
        BY <1>5, <3>4
      <4> QED
        BY <1>6, <1>7, <3>1, <3>3, <4>1 DEF Buffered
    <3>5. CASE ~(i <= o)
      <4>1. i - o \in 1..size /\ i \in Nat
        BY <1>1, <1>5, <3>5
      <4>2. u + (i - o) = k * BlockUnits + i
        <5> DEFINE z == k * BlockUnits
        <5>1. z \in Nat /\ u = z + o
          BY <1>5, <1>9
        <5> HIDE DEF z
        <5>2. u + (i - o) = z + i
          BY <1>5, <4>1, <5>1
        <5> QED
          BY <5>2 DEF z
      <4> QED
        BY <1>4, <1>6, <3>3, <3>5, <4>1, <4>2
    <3> QED
      BY <3>4, <3>5
  <2> QED
    BY <1>6, <2>1 DEF Buffered
<1>11. Coming(host.mode, s.offset, u + size, k)
  <2> DEFINE z == k * BlockUnits
  <2>1. z \in Nat /\ u = z + o
    BY <1>5, <1>9
  <2>2. host.mode \notin FirmwareModes => z = 0
    BY <1>5, <1>8
  <2> HIDE DEF z
  <2>3. u + size = z + (o + size) /\ (z = 0 => o + size = u + size)
    BY <1>1, <1>5, <2>1
  <2> QED
    BY <1>6, <1>8, <2>2, <2>3 DEF Coming, z
<1>12. TakenBlocks(chip, host.mode, f, s, store, k)
  BY <1>6, <1>7 DEF TakenBlocks, TakenFirmware
<1>13. s.offset <= Len(s.data) /\ s \in Sessions /\ store \in Stores
  BY <1>6 DEF Ready, Filling, TInv
<1>14. u + size \in Nat
  BY <1>1
<1>15. Holding(RecvHandler(chip, s, store).s, RecvHandler(chip, s, store).st, host.mode, f, u + size)
  <2>1. RecvHandler(chip, s, store).err = "ok"
    BY DEF s
  <2> QED
    BY <1>1, <1>10, <1>11, <1>12, <1>13, <1>14, <2>1, UnitsTaken
<1> QED
  BY <1>2, <1>15 DEF s

-----------------------------------------------------------------------------
\* The next frame of copies of x and then of y, when it is not x
LEMMA HeadOfCopies ==
  ASSUME NEW line, IsLine(line), line # << >>, Head(line).k = "frame", NEW x, NEW y,
         Copies(line, x, y), Head(line).num # x.num
  PROVE  Copy(Head(line), y) /\ Copies(line, y, y) /\ Copies(Tail(line), y, y)
<1>1. PICK n \in 0..Len(line) : \A i \in DOMAIN line :
        line[i].k = "frame" => Copy(line[i], IF i <= n THEN x ELSE y)
  BY DEF Copies
<1>2. /\ Len(line) \in Nat /\ DOMAIN line = 1..Len(line) /\ Head(line) = line[1]
      /\ 1 \in DOMAIN line /\ IsLine(Tail(line))
  BY LineFacts
<1>3. n = 0
  <2>1. ~(1 <= n)
    BY <1>1, <1>2 DEF Copy
  <2> QED
    BY <1>2, <2>1
<1>4. \A i \in DOMAIN line : line[i].k = "frame" => Copy(line[i], y)
  <2>1. \A i \in DOMAIN line : ~(i <= n)
    BY <1>2, <1>3
  <2> QED
    BY <1>1, <2>1
<1>5. Copies(line, y, y)
  BY <1>2, <1>4 DEF Copies
<1>6. Remains(line, Tail(line), {"junk"})
  BY TailFades DEF Fades
<1>7. Copies(Tail(line), y, y)
  BY <1>2, <1>5, <1>6, RemainsKeeps
<1> QED
  BY <1>2, <1>4, <1>5, <1>7

\* One more sound of a kind
LEMMA OneMore ==
  ASSUME NEW line, IsLine(line), NEW t
  PROVE  /\ ~Has(line, t.k) => AtMostOne(Append(line, t), t.k) /\ OnlyLast(Append(line, t), t.k)
         /\ \A k : k # t.k /\ ~Has(line, k) => ~Has(Append(line, t), k)
         /\ \A k : k # t.k /\ AtMostOne(line, k) => AtMostOne(Append(line, t), k)
         /\ \A kinds : Only(line, kinds) /\ t.k \in kinds => Only(Append(line, t), kinds)
         /\ \A x, y : Copies(line, x, y) /\ t.k # "frame" => Copies(Append(line, t), x, y)
         /\ \A x, y : Copies(line, x, x) /\ (t.k = "frame" => Copy(t, y)) => Copies(Append(line, t), x, y)
         /\ \A x, y : Copies(line, x, y) /\ Copy(t, y) => Copies(Append(line, t), x, y)
<1> DEFINE new == Append(line, t)
<1>1. /\ IsLine(new) /\ Len(new) = Len(line) + 1 /\ DOMAIN new = 1..(Len(line) + 1)
      /\ \A i \in DOMAIN line : new[i] = line[i]
      /\ new[Len(line) + 1] = t
      /\ Len(line) \in Nat /\ DOMAIN line = 1..Len(line)
  BY AppendFacts, LineFacts
<1> HIDE DEF new
<1>2. \A i \in DOMAIN new : i = Len(line) + 1 \/ (i \in DOMAIN line /\ new[i] = line[i])
  BY <1>1
<1>3. ~Has(line, t.k) => AtMostOne(new, t.k) /\ OnlyLast(new, t.k)
  BY <1>1, <1>2 DEF Has, AtMostOne, OnlyLast
<1>4. \A k : k # t.k /\ ~Has(line, k) => ~Has(new, k)
  BY <1>1, <1>2 DEF Has
<1>5. \A k : k # t.k /\ AtMostOne(line, k) => AtMostOne(new, k)
  BY <1>1, <1>2 DEF AtMostOne
<1>6. \A kinds : Only(line, kinds) /\ t.k \in kinds => Only(new, kinds)
  BY <1>1, <1>2 DEF Only
<1>7. ASSUME NEW x, NEW y, Copies(line, x, y), t.k # "frame" PROVE Copies(new, x, y)
  <2>1. PICK n \in 0..Len(line) : \A i \in DOMAIN line :
          line[i].k = "frame" => Copy(line[i], IF i <= n THEN x ELSE y)
    BY <1>7 DEF Copies
  <2>2. n \in 0..Len(new)
    BY <1>1
  <2>3. \A i \in DOMAIN new : new[i].k = "frame" => Copy(new[i], IF i <= n THEN x ELSE y)
    BY <1>1, <1>2, <1>7, <2>1
  <2> QED
    BY <2>2, <2>3 DEF Copies
<1>8. ASSUME NEW x, NEW y, Copies(line, x, x), t.k = "frame" => Copy(t, y) PROVE Copies(new, x, y)
  <2>1. \A i \in DOMAIN line : line[i].k = "frame" => Copy(line[i], x)
    BY <1>8 DEF Copies
  <2>2. Len(line) \in 0..Len(new)
    BY <1>1
  <2>3. \A i \in DOMAIN new : new[i].k = "frame" => Copy(new[i], IF i <= Len(line) THEN x ELSE y)
    <3>1. ASSUME NEW i \in DOMAIN new, new[i].k = "frame"
          PROVE  Copy(new[i], IF i <= Len(line) THEN x ELSE y)
      <4>1. CASE i \in DOMAIN line
        <5>1. i <= Len(line)
          BY <1>1, <4>1
        <5> QED
          BY <1>1, <2>1, <3>1, <4>1, <5>1
      <4>2. CASE i = Len(line) + 1
        <5>1. ~(i <= Len(line))
          BY <1>1, <4>2
        <5> QED
          BY <1>1, <1>8, <3>1, <4>2, <5>1
      <4> QED
        BY <1>2, <4>1, <4>2
    <3> QED
      BY <3>1
  <2> QED
    BY <2>2, <2>3 DEF Copies
<1>9. ASSUME NEW x, NEW y, Copies(line, x, y), Copy(t, y) PROVE Copies(new, x, y)
  <2>1. PICK n \in 0..Len(line) : \A i \in DOMAIN line :
          line[i].k = "frame" => Copy(line[i], IF i <= n THEN x ELSE y)
    BY <1>9 DEF Copies
  <2>2. n \in 0..Len(new) /\ ~(Len(line) + 1 <= n)
    BY <1>1
  <2>3. \A i \in DOMAIN new : new[i].k = "frame" => Copy(new[i], IF i <= n THEN x ELSE y)
    BY <1>1, <1>2, <1>9, <2>1, <2>2
  <2> QED
    BY <2>2, <2>3 DEF Copies
<1> QED
  BY <1>3, <1>4, <1>5, <1>6, <1>7, <1>8, <1>9 DEF new

\* Frames are copies of what is sent with one number.
LEMMA FrameFields ==
  /\ \A n, data : /\ Frame(n, data).k = "frame" /\ Frame(n, data).num = n % FrameNumbers
                  /\ Frame(n, data).data = data /\ Frame(n, data).damage = "none"
                  /\ Copy(Frame(n, data), Frame(n, data))
  /\ \A k : Byte(k).k = k
BY DEF Frame, Byte, Copy

\* The chip takes a frame.
LEMMA AcceptsSend ==
  ASSUME TInv, ChipInv, SendInv, Accepts
  PROVE  SendInv'
<1> DEFINE t == Head(toChip)
           r == RecvHandler(chip, Received(t), store)
           b == host.block
<1>1. /\ pc = "recv" /\ toChip # << >> /\ t \in Frames /\ Fits(t, session) /\ r.err = "ok"
      /\ t.num = session.frame % FrameNumbers
      /\ UNCHANGED << chip, host, nextMode >> /\ store' = r.st
      /\ session'.mode = session.mode /\ session'.frame = session.frame + 1
      /\ session'.offset = r.s.offset /\ session'.data = r.s.data
      /\ session'.flashOffset = r.s.flashOffset /\ session'.flashBegin = r.s.flashBegin
      /\ pc' \in {"recv", "ended"}
      /\ toChip' = Tail(toChip) /\ toHost' = Append(toHost, Byte("ack"))
  BY DEF Accepts, FrameNumberIs
<1>2. /\ IsLine(toChip) /\ IsLine(toHost) /\ t.k = "frame" /\ t = toChip[1] /\ 1 \in DOMAIN toChip
      /\ Fades(toChip, toChip')
  BY <1>1, LinesOfChip DEF Frames
<1>3. \A kinds : Only(toChip, kinds) => "frame" \in kinds
  BY <1>2 DEF Only
<1>4. host.pc \notin {"mode", "start"}
  BY <1>3 DEF SendInv, AskingToSend, Asking
<1>5. toChip # << >>
  BY <1>1
<1>6. \A n : FileFrame(n).num = n % FrameNumbers
  BY FrameFields DEF FileFrame, HostFrame
<1>7. ASSUME Copies(toChip, FileFrame(b), FileFrame(b)), session.frame = b + 1, b \in Nat \ {0}
      PROVE  FALSE
  <2>1. t.num = b % FrameNumbers
    BY <1>2, <1>6, <1>7, LineFacts DEF Copies, Copy
  <2>2. (b + 1) - 1 = b /\ b + 1 \in Nat \ {0}
    BY <1>7
  <2> QED
    BY <1>1, <1>7, <2>1, <2>2, NumbersDiffer
<1>8. host.pc # "finish"
  <2>1. SUFFICES ASSUME Finishing PROVE FALSE
    BY DEF SendInv
  <2>2. b \in Nat \ {0}
    BY <2>1 DEF Finishing
  <2> QED
    BY <1>5, <1>7, <2>1, <2>2 DEF Finishing
<1>9. CASE host.pc = "idle"
  BY <1>1, <1>5, <1>9 DEF SendInv
<1>10. CASE host.pc = "data"
  <2>1. SendingData
    BY <1>10 DEF SendInv
  <2>2. b \in 1..LastBlock /\ b \in Nat \ {0} /\ host.size \in Nat
    BY <2>1, SendFacts DEF SendingData
  <2>3. Waits
    BY <1>7, <2>1, <2>2 DEF SendingData, HasTaken
  <2>4. session.frame = b /\ ~Has(toHost, "ack")
        /\ Copies(toChip, FileFrame(b - 1), FileFrame(b))
    BY <2>3 DEF Waits
  <2>5. t.num # FileFrame(b - 1).num
    BY <1>1, <1>6, <2>2, <2>4, NumbersDiffer
  <2>6. Copy(t, FileFrame(b)) /\ Copies(toChip', FileFrame(b), FileFrame(b))
    BY <1>1, <1>2, <2>4, <2>5, HeadOfCopies
  <2>7. Holding(r.s, r.st, host.mode, host.file, b * host.size)
    <3>1. t.data = FileFrame(b).data
      BY <2>6 DEF Copy
    <3>2. Progress((b - 1) * host.size)
      BY <1>1, <2>1, <2>4 DEF SendingData
    <3> QED
      BY <1>1, <2>2, <3>1, <3>2, FrameFollows
  <2>8. r.s.mode = session'.mode
    <3>1. r.s.mode = host.mode
      BY <2>7 DEF Holding, TakenBlocks
    <3> QED
      BY <1>1, <2>1, <3>1 DEF SendingData, Agreed
  <2> HIDE DEF r
  <2>9. Progress(b * host.size)'
    BY <1>1, <2>7, <2>8 DEF Progress, Holding, TakenBlocks, TakenFirmware, Buffered
  <2>10. HasTaken'
    <3>1. AtMostOne(toHost', "ack")
      BY <1>1, <1>2, <2>4, OneMore, FrameFields
    <3>2. Copies(toChip, FileFrame(b), FileFrame(b))'
      BY <1>1, <2>6 DEF FileFrame
    <3> QED
      BY <1>1, <2>4, <3>1, <3>2 DEF HasTaken
  <2>11. Only(toChip', Asking \cup {"frame"})
    <3>1. Remains(toChip, toChip', {"junk"}) /\ IsLine(toChip')
      BY <1>2 DEF Fades
    <3>2. {"junk"} \subseteq Asking \cup {"frame"}
      BY DEF Asking
    <3> QED
      BY <1>2, <2>1, <3>1, <3>2, RemainsKeeps DEF SendingData
  <2>12. (session'.frame - 1) * host.size = b * host.size
    BY <1>1, <2>2, <2>4
  <2>13. SendingData'
    BY <1>1, <2>1, <2>2, <2>9, <2>10, <2>11, <2>12 DEF SendingData, Agreed, LastBlock
  <2> QED
    <3>1. Asked'
      <4>1. Remains(toChip, toChip', {"junk"}) /\ IsLine(toChip')
        BY <1>2 DEF Fades
      <4>2. \A i \in DOMAIN toChip' : toChip'[i].k = "mode" => \E j \in DOMAIN toChip : toChip[j] = toChip'[i]
        BY <1>2, <4>1, RemainsKeeps
      <4>3. Asked
        BY <1>10 DEF SendInv
      <4> QED
        BY <1>1, <4>2, <4>3 DEF Asked
    <3> QED
      BY <1>1, <1>10, <2>13, <3>1 DEF SendInv
<1> QED
  BY <1>4, <1>8, <1>9, <1>10 DEF SendInv

\* Frames and the end of a file do not reach a chip that a host receives from.
LEMMA NothingReceived ==
  ASSUME TInv, ChipInv, ReceiveInv, Accepts \/ Ends
  PROVE  ReceiveInv'
<1>1. /\ pc = "recv" /\ toChip # << >> /\ Head(toChip).k \in {"frame", "eof"}
      /\ UNCHANGED << chip, host >>
  BY DEF Accepts, Ends, Frames
<1>2. \A kinds : Only(toChip, kinds) => Head(toChip).k \in kinds
  BY <1>1, LinesOfChip DEF Only
<1>3. host.pc # "mode"
  BY <1>1, <1>2 DEF ReceiveInv, AskingToReceive, Asking
<1>4. host.pc # "recv"
  BY <1>1, <1>2 DEF ReceiveInv, Receiving, Replies
<1>5. ~(host.pc = "idle" /\ host.result = "received")
  BY <1>1, <1>2 DEF ReceiveInv, Replies
<1> QED
  BY <1>1, <1>3, <1>4, <1>5 DEF ReceiveInv

-----------------------------------------------------------------------------
\* The end of the file: what is left in the buffer is one more block.

\* A file of which every block is in its place is stored.
LEMMA TakenIsStored ==
  ASSUME UNCHANGED << chip, host >>, host.mode \in RecvModes, host.file \in Files,
         NEW s, NEW k \in Nat \ {0},
         TakenBlocks(chip, host.mode, host.file, s, store', k),
         host.mode \in FirmwareModes => FileUnits[host.file] <= k * BlockUnits
  PROVE  Stored'
<1>0. k > 0
  OBVIOUS
<1>1. CASE host.mode \in FirmwareModes
  <2>1. Holds(chip, store', BankOf(host.mode), host.file)
    BY <1>0, <1>1, TakenIsHeld
  <2>2. host.mode \notin {"ownerBlock", "bootSvcReq"}
    BY <1>1 DEF FirmwareModes
  <2> QED
    BY <1>1, <2>1, <2>2 DEF Stored
<1>2. CASE host.mode = "ownerBlock"
  <2>1. store'.owner1 = Block(host.file, 0)
    BY <1>0, <1>2 DEF TakenBlocks
  <2> QED
    BY <1>2, <2>1 DEF Stored, FirmwareModes
<1>3. CASE host.mode = "bootSvcReq"
  <2>1. store'.msg = SubSeq(Block(host.file, 0), 1, MsgUnits)
    BY <1>0, <1>3 DEF TakenBlocks
  <2> QED
    BY <1>3, <2>1 DEF Stored, FirmwareModes
<1> QED
  BY <1>1, <1>2, <1>3 DEF RecvModes

\* At the end of a file whose frames have all come it is stored,
LEMMA FileEnds ==
  ASSUME TInv, ChipInv, SendInv, Ends, Progress(LastBlock * host.size)
  PROVE  Stored'
<1> DEFINE f == host.file
           o == session.offset
           u == LastBlock * host.size
           s == Padded(session)
           r == IF o % BlockUnits = 0 THEN Result("ok", s, store) ELSE RecvHandler(chip, s, store)
<1>1. UNCHANGED << chip, host >> /\ store' = r.st /\ r.err = "ok" /\ pc = "recv"
  BY DEF Ends
<1>2. /\ host.mode \in RecvModes /\ f \in Files /\ FileUnits[f] \in Nat \ {0}
      /\ FileUnits[f] <= u /\ u \in Nat
      /\ host.mode = "bootSvcReq" => FileUnits[f] = MsgUnits
  BY SendFacts
<1> HIDE DEF u
<1>3. PICK k \in Nat :
        /\ TakenBlocks(chip, host.mode, f, session, store, k)
        /\ Buffered(session, f, k) /\ Counted(host.mode, o, u, k)
  BY DEF Progress, Holding, u
<1>4. /\ o \in 0..BlockUnits /\ o <= Len(session.data) /\ BlockUnits \in Nat \ {0}
      /\ MsgUnits \in 1..BlockUnits /\ Len(session.data) \in Nat
  BY RescueAssumption, LenProperties DEF TInv, Ready, Sessions, Buffers, Filling
<1>5. o < BlockUnits
  BY <1>2, <1>3, <1>4 DEF Counted, Whole
<1>6. CASE o = 0
  <2>1. o % BlockUnits = 0
    BY <1>4, <1>6
  <2>2. store' = store
    BY <1>1, <2>1 DEF Result
  <2>3. k # 0 /\ (host.mode \in FirmwareModes => FileUnits[f] <= k * BlockUnits)
    <3>1. CASE host.mode \in FirmwareModes
      <4>1. u = k * BlockUnits + 0
        BY <1>3, <1>6, <3>1 DEF Counted
      <4>2. u = k * BlockUnits
        BY <1>2, <1>4, <4>1
      <4>3. k # 0
        <5>1. k = 0 => k * BlockUnits = 0
          BY <1>4
        <5> QED
          BY <1>2, <4>2, <5>1
      <4> QED
        BY <1>2, <4>2, <4>3
    <3>2. CASE host.mode \notin FirmwareModes
      BY <1>2, <1>3, <1>6, <3>2 DEF Counted
    <3> QED
      BY <3>1, <3>2
  <2> QED
    BY <1>1, <1>2, <1>3, <2>2, <2>3, TakenIsStored
<1>7. CASE o # 0
  <2>1. o % BlockUnits # 0
    BY <1>4, <1>5, <1>7
  <2>2. r = RecvHandler(chip, s, store)
    BY <2>1
  <2>3. host.mode \notin FirmwareModes => k = 0 /\ o = u
    BY <1>3, <1>7 DEF Counted
  <2>4. host.mode # "bootSvcReq"
    <3>1. SUFFICES ASSUME host.mode = "bootSvcReq" PROVE FALSE
      OBVIOUS
    <3>2. host.mode \notin FirmwareModes
      BY <3>1 DEF FirmwareModes
    <3>3. u < MsgUnits
      BY <1>3, <1>7, <3>1, <3>2 DEF Counted, Whole
    <3> QED
      BY <1>2, <1>4, <3>1, <3>3
  <2>5. u = k * BlockUnits + o
    BY <1>3, <1>4, <1>2, <2>3 DEF Counted
  <2>6. /\ Ready(s) /\ s.mode = session.mode /\ s.offset = BlockUnits
        /\ s.flashOffset = session.flashOffset /\ s.flashBegin = session.flashBegin
        /\ s.data = [i \in 1..BlockUnits |-> IF i <= o THEN session.data[i] ELSE FF]
    <3>1. session.mode \notin SendModes
      BY <1>1 DEF TInv
    <3> QED
      BY <2>1, <3>1, PaddedReady, PaddedFields DEF TInv
  <2> HIDE DEF s
  <2>7. s.data = Block(f, k)
    <3>1. ASSUME NEW i \in 1..BlockUnits
          PROVE  (IF i <= o THEN session.data[i] ELSE FF) = FileUnit(f, k * BlockUnits + i)
      <4>1. CASE i <= o
        <5>1. i \in 1..o
          BY <1>4, <4>1
        <5> QED
          BY <1>3, <4>1, <5>1 DEF Buffered
      <4>2. CASE ~(i <= o)
        <5> DEFINE z == k * BlockUnits
        <5>1. z \in Nat /\ u = z + o
          BY <1>4, <2>5
        <5> HIDE DEF z
        <5>2. z + i > FileUnits[f]
          BY <1>2, <1>4, <4>2, <5>1
        <5>3. FileUnit(f, z + i) = FF
          <6>1. z + i \notin 1..FileUnits[f]
            BY <1>2, <1>4, <5>1, <5>2
          <6> QED
            BY <6>1 DEF FileUnit
        <5> QED
          BY <4>2, <5>3 DEF z
      <4> QED
        BY <4>1, <4>2
    <3> QED
      BY <2>6, <3>1 DEF Block
  <2>8. TakenBlocks(chip, host.mode, f, s, store, k)
    BY <1>3, <2>6 DEF TakenBlocks, TakenFirmware
  <2>9. RecvHandler(chip, s, store).err = "ok"
    BY <1>1, <2>2
  <2>10. host.mode \in {"ownerBlock", "bootSvcReq"} => k = 0
    BY <2>3 DEF FirmwareModes
  <2>11. s \in Sessions /\ store \in Stores
    BY <2>6 DEF Ready, TInv
  <2>12. TakenBlocks(chip, host.mode, f, RecvHandler(chip, s, store).s, RecvHandler(chip, s, store).st, k + 1)
    BY <1>2, <2>6, <2>7, <2>8, <2>9, <2>10, <2>11, BlockTaken
  <2>13. FileUnits[f] <= (k + 1) * BlockUnits
    <3> DEFINE z == k * BlockUnits
    <3>1. z \in Nat /\ u = z + o /\ (k + 1) * BlockUnits = z + BlockUnits
      BY <1>4, <2>5
    <3> HIDE DEF z
    <3>2. FileUnits[f] <= z + BlockUnits
      BY <1>2, <1>4, <3>1
    <3> QED
      BY <3>1, <3>2
  <2>14. store' = RecvHandler(chip, s, store).st /\ k + 1 \in Nat \ {0}
    BY <1>1, <2>2
  <2> QED
    BY <1>1, <1>2, <2>12, <2>13, <2>14, TakenIsStored
<1> QED
  BY <1>6, <1>7

\* which is what a host that finishes relies on.
LEMMA EndsSend ==
  ASSUME TInv, ChipInv, SendInv, Ends
  PROVE  SendInv'
<1>1. /\ pc = "recv" /\ toChip # << >> /\ Head(toChip).k = "eof"
      /\ UNCHANGED << chip, host, nextMode >>
      /\ session'.mode = session.mode /\ session'.frame = 1
      /\ pc' \in {"recv", "ended"} /\ toChip' = Tail(toChip)
  BY DEF Ends
<1>2. \A kinds : Only(toChip, kinds) => "eof" \in kinds
  BY <1>1, LinesOfChip DEF Only
<1>3. host.pc \notin {"mode", "start"}
  BY <1>2 DEF SendInv, AskingToSend, Asking
<1>4. host.pc # "data"
  BY <1>2 DEF SendInv, SendingData, Asking
<1>5. ~(host.pc = "idle" /\ host.result = "acked")
  BY <1>1 DEF SendInv
<1>6. CASE host.pc = "finish"
  <2>1. Finishing
    BY <1>6 DEF SendInv
  <2>2. /\ host.block = LastBlock /\ Progress(host.block * host.size) /\ OnlyLast(toChip, "eof")
        /\ Agreed /\ LastBlock \in Nat \ {0}
    BY <1>1, <2>1 DEF Finishing
  <2>3. toChip' = << >>
    <3>1. IsLine(toChip) /\ Head(toChip) = toChip[1] /\ 1 \in DOMAIN toChip
      BY <1>1, LinesOfChip
    <3>2. Len(toChip) = 1
      BY <1>1, <2>2, <3>1 DEF OnlyLast
    <3>3. IsLine(Tail(toChip)) /\ Len(Tail(toChip)) = Len(toChip) - 1
      BY <1>1, <3>1, LineFacts
    <3>4. Len(Tail(toChip)) = 0
      BY <3>2, <3>3
    <3> QED
      BY <1>1, <3>3, <3>4, LineFacts
  <2>4. Stored'
    BY <2>2, FileEnds
  <2>5. Finishing'
    BY <1>1, <2>2, <2>3, <2>4 DEF Finishing, Agreed, LastBlock
  <2>6. Asked'
    <3>1. \A i \in DOMAIN << >> : FALSE
      OBVIOUS
    <3>2. Asked
      BY <1>6 DEF SendInv
    <3> QED
      BY <1>1, <2>3, <3>1, <3>2 DEF Asked
  <2> QED
    BY <1>1, <1>6, <2>5, <2>6 DEF SendInv
<1> QED
  BY <1>1, <1>3, <1>4, <1>5, <1>6 DEF SendInv

-----------------------------------------------------------------------------
\* The other steps of the chip

\* What is true of a line stays true when it fades.
LEMMA FadesKeeps ==
  ASSUME NEW line, IsLine(line), NEW new, Fades(line, new)
  PROVE  /\ \A kinds : Only(line, kinds) /\ "junk" \in kinds => Only(new, kinds)
         /\ \A k : k # "junk" /\ Has(new, k) => Has(line, k)
         /\ \A k : k # "junk" /\ AtMostOne(line, k) => AtMostOne(new, k)
         /\ \A k : k # "junk" /\ OnlyLast(line, k) => OnlyLast(new, k)
         /\ \A x, y : Copies(line, x, y) => Copies(new, x, y)
         /\ \A i \in DOMAIN new : new[i].k = "mode" => \E j \in DOMAIN line : line[j] = new[i]
         /\ line = << >> => new = << >>
<1>1. Remains(line, new, {"junk"}) /\ IsLine(new)
  BY DEF Fades
<1>2. \A kinds : "junk" \in kinds => {"junk"} \subseteq kinds
  OBVIOUS
<1> QED
  BY <1>1, <1>2, RemainsKeeps DEF Fades

\* An answer adds no frame, acknowledgement or end of file.
LEMMA AnswersKeep ==
  ASSUME IsLine(toHost), NEW mode, Answers(mode)
  PROVE  /\ \A k : k # "text" /\ Has(toHost', k) => Has(toHost, k)
         /\ \A i \in DOMAIN toHost' : toHost'[i].k = "frame" =>
              \E j \in DOMAIN toHost : toHost[j].k = "frame" /\ toHost[j].num = toHost'[i].num
         /\ IsLine(toHost')
BY RemainsKeeps DEF Answers

\* The last of its kind
LEMMA HeadIsOnly ==
  ASSUME NEW line, IsLine(line), line # << >>, NEW k, Head(line).k = k
  PROVE  /\ AtMostOne(line, k) => ~Has(Tail(line), k)
         /\ OnlyLast(line, k) => Tail(line) = << >>
<1>1. /\ Head(line) = line[1] /\ 1 \in DOMAIN line /\ Len(line) \in Nat
      /\ DOMAIN line = 1..Len(line)
      /\ IsLine(Tail(line)) /\ Len(Tail(line)) = Len(line) - 1
      /\ \A i \in DOMAIN Tail(line) : i + 1 \in DOMAIN line /\ Tail(line)[i] = line[i + 1]
  BY LineFacts
<1>2. DOMAIN Tail(line) = 1..Len(Tail(line)) /\ (Tail(line) = << >> <=> Len(Tail(line)) = 0)
      /\ Len(Tail(line)) \in Nat
  BY <1>1, LineFacts
<1>3. ASSUME AtMostOne(line, k) PROVE ~Has(Tail(line), k)
  <2>1. SUFFICES ASSUME NEW i \in DOMAIN Tail(line), Tail(line)[i].k = k PROVE FALSE
    BY DEF Has
  <2>2. i + 1 \in DOMAIN line /\ line[i + 1].k = k /\ i \in 1..Len(Tail(line))
    BY <1>1, <1>2, <2>1
  <2>3. 1 = i + 1
    BY <1>1, <1>3, <2>2 DEF AtMostOne
  <2> QED
    BY <1>2, <2>2, <2>3
<1>4. ASSUME OnlyLast(line, k) PROVE Tail(line) = << >>
  <2>1. Len(line) = 1
    BY <1>1, <1>4 DEF OnlyLast
  <2> QED
    BY <1>1, <1>2, <2>1
<1> QED
  BY <1>3, <1>4

\* On an empty line is nothing.
LEMMA EmptyLine ==
  ASSUME NEW kinds
  PROVE  Only(<< >>, kinds) /\ IsLine(<< >>) /\ \A k : ~Has(<< >>, k)
BY DEF Only, Has, IsLine

\* Modes that are no modes
LEMMA NoMode ==
  /\ ModeVerdict(chip, "none") # "ok" /\ ModeVerdict(chip, "bad") # "ok"
  /\ "none" \notin Modes /\ "bad" \notin Modes
  /\ \A mode \in RecvModes : mode \notin SendModes
  /\ \A mode \in SendModes : mode \notin RecvModes \cup {"firmware", "noop"}
<1>1. "none" \notin Modes /\ "bad" \notin Modes
  BY DEF Modes, SendModes, RecvModes, FirmwareModes
<1>2. /\ \A mode \in RecvModes : mode \notin SendModes
      /\ \A mode \in SendModes : mode \notin RecvModes \cup {"firmware", "noop"}
  BY DEF SendModes, RecvModes, FirmwareModes
<1> QED
  BY <1>1, <1>2 DEF ModeVerdict

\* No mode but the one that the host asked for comes into being.
LEMMA AskedStays ==
  ASSUME IsLine(toChip), Asked, UNCHANGED host, nextMode' \in {nextMode, "none", "bad"},
         Fades(toChip, toChip')
  PROVE  Asked'
BY FadesKeeps DEF Asked

\* A session that starts anew holds nothing.
LEMMA StartsAnew ==
  ASSUME UNCHANGED << chip, host >>, Agreed', session'.offset = 0, session'.flashOffset = 0
  PROVE  Progress(0)'
<1>1. TakenBlocks(chip, host.mode, host.file, session', store', 0)
  <2>1. session'.mode = host.mode /\ ModeVerdict(chip, host.mode) = "ok"
    BY DEF Agreed
  <2> QED
    BY <2>1 DEF TakenBlocks, TakenFirmware
<1>2. Buffered(session', host.file, 0)
  <2>1. 1..0 = {}
    OBVIOUS
  <2> QED
    BY <2>1 DEF Buffered
<1>3. Counted(host.mode, session'.offset, 0, 0)
  BY RescueAssumption DEF Counted, Whole
<1> QED
  BY <1>1, <1>2, <1>3 DEF Progress, Holding

\* A new mode leaves a sending host what it relies on: it asked for it, or it is done,
LEMMA ModeChangedSend ==
  ASSUME TInv, ChipInv, SendInv, ModeChanged
  PROVE  SendInv'
<1>1. /\ pc = "recv" /\ session.frame = 1 /\ toChip # << >> /\ Head(toChip).k = "cr"
      /\ UNCHANGED << chip, store, host >> /\ nextMode' = "none"
      /\ toChip' = Tail(toChip) /\ Answers(nextMode)
      /\ session'.mode = IF ModeVerdict(chip, nextMode) = "ok" THEN nextMode ELSE session.mode
      /\ session'.frame = 1 /\ session'.offset = 0 /\ session'.flashOffset = 0
      /\ pc' \in {"recv", "ended"} \/ session'.mode \in SendModes
  BY DEF ModeChanged
<1>2. IsLine(toChip) /\ IsLine(toHost) /\ Fades(toChip, toChip')
  BY <1>1, LinesOfChip
<1>3. host.mode \in RecvModes /\ session.mode \notin SendModes
  BY <1>1, SendFacts DEF TInv
<1>4. ASSUME Asked
      PROVE  /\ Asked' /\ pc' \in {"recv", "ended"} /\ (Agreed => Agreed')
             /\ (Answered' => Answered \/ Agreed')
  <2>1. nextMode \in {"none", "bad", host.mode}
    BY <1>4 DEF Asked
  <2>2. nextMode # host.mode => ModeVerdict(chip, nextMode) # "ok"
    BY <2>1, NoMode
  <2>3. session'.mode \notin SendModes
    BY <1>1, <1>3, <2>2, NoMode
  <2>4. Agreed => Agreed'
    BY <1>1, <2>2 DEF Agreed
  <2>5. Answered' => Answered \/ Agreed'
    <3>1. ASSUME NEW i \in DOMAIN toHost', toHost'[i].k = "text", toHost'[i].mode = host.mode, toHost'[i].ok
          PROVE  Answered \/ Agreed'
      <4>1. CASE \E j \in DOMAIN toHost : toHost[j] = toHost'[i]
        BY <3>1, <4>1 DEF Answered
      <4>2. CASE toHost'[i].mode = nextMode /\ (toHost'[i].ok <=> ModeVerdict(chip, nextMode) = "ok")
        BY <1>1, <3>1, <4>2 DEF Agreed
      <4> QED
        BY <1>1, <3>1, <4>1, <4>2 DEF Answers
    <3> QED
      BY <1>1, <3>1 DEF Answered
  <2> QED
    BY <1>1, <1>2, <1>4, <2>3, <2>4, <2>5, AskedStays
<1>5. ~Has(toHost, "ack") => ~Has(toHost', "ack")
  BY <1>1, <1>2, AnswersKeep
<1>6. CASE host.pc \in {"mode", "start"}
  <2>1. AskingToSend /\ Asked
    BY <1>6 DEF SendInv
  <2>2. Only(toChip', Asking)
    BY <1>2, <2>1, FadesKeeps DEF AskingToSend, Asking
  <2>3. AskingToSend'
    BY <1>1, <1>4, <1>5, <2>1, <2>2 DEF AskingToSend
  <2> QED
    BY <1>1, <1>4, <1>6, <2>1, <2>3 DEF SendInv
<1>7. CASE host.pc = "data"
  <2>1. SendingData /\ Asked
    BY <1>7 DEF SendInv
  <2>2. Waits /\ host.block = 1
    <3>1. host.block \in Nat \ {0}
      BY <2>1, SendFacts DEF SendingData
    <3> QED
      BY <1>1, <2>1, <3>1 DEF SendingData, Waits, HasTaken
  <2>3. Only(toChip', Asking \cup {"frame"})
    BY <1>2, <2>1, FadesKeeps DEF SendingData, Asking
  <2>4. Waits'
    <3>1. \A n : FileFrame(n)' = FileFrame(n)
      BY <1>1 DEF FileFrame
    <3>2. Copies(toChip', FileFrame(host.block - 1), FileFrame(host.block))
      BY <1>2, <2>2, FadesKeeps DEF Waits
    <3> QED
      BY <1>1, <1>5, <2>2, <3>1, <3>2 DEF Waits
  <2>5. Agreed'
    BY <1>4, <2>1 DEF SendingData
  <2>6. Progress((session.frame - 1) * host.size)'
    <3>1. (session'.frame - 1) * host'.size = 0
      BY <1>1, SendFacts
    <3>2. Progress(0)'
      BY <1>1, <2>5, StartsAnew
    <3> QED
      BY <3>1, <3>2 DEF Progress
  <2>7. SendingData'
    BY <1>1, <1>4, <2>1, <2>3, <2>4, <2>5, <2>6 DEF SendingData, LastBlock
  <2> QED
    BY <1>1, <1>4, <1>7, <2>1, <2>7 DEF SendInv
<1>8. host.pc # "finish"
  <2>1. SUFFICES ASSUME Finishing PROVE FALSE
    BY DEF SendInv
  <2> QED
    BY <1>1, <2>1 DEF Finishing
<1> QED
  BY <1>1, <1>6, <1>7, <1>8 DEF SendInv

\* and a receiving one.
LEMMA ModeChangedReceive ==
  ASSUME TInv, ChipInv, ReceiveInv, ModeChanged
  PROVE  ReceiveInv'
<1>1. /\ pc = "recv" /\ session.frame = 1 /\ toChip # << >> /\ Head(toChip).k = "cr"
      /\ UNCHANGED << chip, store, host >> /\ nextMode' = "none"
      /\ toChip' = Tail(toChip) /\ Answers(nextMode)
      /\ session'.mode = IF ModeVerdict(chip, nextMode) = "ok" THEN nextMode ELSE session.mode
      /\ \/ pc' \in {"recv", "ended"} /\ session'.mode \notin SendModes
         \/ pc' = "sendStart" /\ session'.mode \in SendModes
  BY DEF ModeChanged
<1>2. IsLine(toChip) /\ IsLine(toHost) /\ Fades(toChip, toChip')
      /\ \A kinds : Only(toChip, kinds) => "cr" \in kinds
  BY <1>1, LinesOfChip DEF Only
<1>3. host.mode \in SendModes /\ session.mode \notin SendModes
  BY <1>1 DEF ReceiveInv, TInv
<1>4. CASE host.pc = "mode"
  <2>1. AskingToReceive
    BY <1>4 DEF ReceiveInv
  <2>2. nextMode \in {"none", "bad", host.mode} /\ ~Answered
    BY <1>1, <2>1 DEF AskingToReceive, Asked
  <2>3. Only(toChip', Asking) /\ Asked'
    BY <1>1, <1>2, <2>1, FadesKeeps, AskedStays DEF AskingToReceive, Asking
  <2>4. ~Has(toHost', "frame") /\ ~Has(toHost', "eof")
    BY <1>1, <1>2, <2>1, AnswersKeep DEF AskingToReceive
  <2>5. pc' = "sendStart" => session'.mode = host.mode
    BY <1>1, <1>3, <2>2, NoMode
  <2>6. ASSUME Answered' PROVE pc' = "sendStart"
    <3>1. PICK i \in DOMAIN toHost' :
            toHost'[i].k = "text" /\ toHost'[i].mode = host.mode /\ toHost'[i].ok
      BY <1>1, <2>6 DEF Answered
    <3>2. ~ \E j \in DOMAIN toHost : toHost[j] = toHost'[i]
      BY <2>2, <3>1 DEF Answered
    <3>3. nextMode = host.mode /\ ModeVerdict(chip, nextMode) = "ok"
      BY <1>1, <3>1, <3>2 DEF Answers
    <3> QED
      BY <1>1, <1>3, <3>3
  <2>7. AskingToReceive'
    BY <1>1, <2>1, <2>3, <2>4, <2>5, <2>6 DEF AskingToReceive
  <2> QED
    BY <1>1, <1>4, <2>7 DEF ReceiveInv
<1>5. host.pc # "recv"
  BY <1>1, <1>2 DEF ReceiveInv, Receiving, Replies
<1>6. ~(host.pc = "idle" /\ host.result = "received")
  BY <1>1, <1>2 DEF ReceiveInv, Replies
<1> QED
  BY <1>1, <1>4, <1>5, <1>6 DEF ReceiveInv

\* So does the end of what the chip sends.
LEMMA SendFinishLinks ==
  ASSUME TInv, ChipInv, SendFinish
  PROVE  (SendInv => SendInv') /\ (ReceiveInv => ReceiveInv')
<1>1. /\ pc = "sendEnd" /\ UNCHANGED << chip, store, nextMode, host >>
      /\ Fades(toChip, toChip') /\ Answers(SessionInit(chip).default)
      /\ session'.mode = SessionInit(chip).default /\ session'.frame = 1 /\ pc' = "recv"
  BY SendFinishGoes DEF Defaults
<1>2. /\ IsLine(toChip) /\ IsLine(toHost) /\ session.mode \in SendModes /\ session.frame = 1
  BY <1>1, LinesOfChip DEF ChipInv, Sending
<1>3. /\ SessionInit(chip).default \in {"firmware", "noop"}
      /\ ModeVerdict(chip, SessionInit(chip).default) = "ok"
  BY DefaultMode
<1>4. \A i \in DOMAIN toHost' : toHost'[i].k = "text" =>
        \/ \E j \in DOMAIN toHost : toHost[j] = toHost'[i]
        \/ toHost'[i].mode = SessionInit(chip).default
  BY <1>1 DEF Answers
<1>5. ASSUME SendInv PROVE SendInv'
  <2>1. host.mode \in RecvModes /\ ~Agreed
    BY <1>2, <1>5, SendFacts, NoMode DEF Agreed
  <2>2. CASE host.pc \in {"mode", "start"}
    <3>1. AskingToSend /\ Asked
      BY <1>5, <2>2 DEF SendInv
    <3>2. host.pc = "mode" /\ ~Answered
      BY <2>1, <2>2, <3>1 DEF AskingToSend
    <3>3. Only(toChip', Asking) /\ ~Has(toHost', "ack") /\ Asked'
      BY <1>1, <1>2, <3>1, FadesKeeps, AnswersKeep, AskedStays DEF AskingToSend, Asking
    <3>4. Answered' => Agreed'
      BY <1>1, <1>3, <1>4, <3>2 DEF Answered, Agreed
    <3>5. AskingToSend'
      BY <1>1, <3>2, <3>3, <3>4 DEF AskingToSend
    <3> QED
      BY <1>1, <1>5, <3>2, <3>3, <3>5 DEF SendInv
  <2>3. host.pc \notin {"data", "finish"}
    BY <1>5, <2>1 DEF SendInv, SendingData, Finishing
  <2>4. ~(host.pc = "idle" /\ host.result = "acked")
    BY <1>1, <1>5 DEF SendInv
  <2> QED
    BY <1>1, <1>5, <2>2, <2>3, <2>4 DEF SendInv
<1>6. ASSUME ReceiveInv PROVE ReceiveInv'
  <2>1. host.mode \in SendModes /\ host.mode # SessionInit(chip).default
    BY <1>3, <1>6, NoMode DEF ReceiveInv
  <2>2. ASSUME Only(toChip, Replies) PROVE Only(toChip', Replies)
    BY <1>1, <1>2, <2>2, FadesKeeps DEF Replies
  <2>3. Complete => Complete'
    BY <1>1 DEF Complete, Content
  <2>4. CASE host.pc = "mode"
    <3>1. AskingToReceive
      BY <1>6, <2>4 DEF ReceiveInv
    <3>2. ~Answered'
      <4>1. ~Answered
        BY <1>1, <3>1 DEF AskingToReceive
      <4> QED
        BY <1>1, <1>4, <2>1, <4>1 DEF Answered
    <3>3. Only(toChip', Asking) /\ Asked'
      BY <1>1, <1>2, <3>1, FadesKeeps, AskedStays DEF AskingToReceive, Asking
    <3>4. ~Has(toHost', "frame") /\ ~Has(toHost', "eof")
      BY <1>1, <1>2, <3>1, AnswersKeep DEF AskingToReceive
    <3>5. AskingToReceive'
      BY <1>1, <3>1, <3>2, <3>3, <3>4 DEF AskingToReceive
    <3> QED
      BY <1>1, <1>6, <2>4, <3>5 DEF ReceiveInv
  <2>5. CASE host.pc = "recv"
    <3>1. Receiving /\ Only(toChip', Replies)
      BY <1>1, <1>6, <2>2, <2>5 DEF ReceiveInv, Receiving
    <3>2. ASSUME Has(toHost', "eof") PROVE AllSent'
      <4>1. AllSent
        BY <1>1, <1>2, <3>1, <3>2, AnswersKeep DEF Receiving
      <4>2. \A i \in DOMAIN toHost' : toHost'[i].k = "frame" =>
              toHost'[i].num # host.block % FrameNumbers
        BY <1>1, <1>2, <4>1, AnswersKeep DEF AllSent
      <4> QED
        BY <1>1, <2>3, <3>1, <4>1, <4>2 DEF AllSent
    <3>3. Receiving'
      BY <1>1, <3>1, <3>2 DEF Receiving
    <3> QED
      BY <1>1, <1>6, <2>5, <3>3 DEF ReceiveInv
  <2> QED
    BY <1>1, <1>6, <2>2, <2>3, <2>4, <2>5 DEF ReceiveInv
<1> QED
  BY <1>5, <1>6

\* Nobody sends to a chip that sends.
LEMMA SendersWait ==
  ASSUME SendInv, pc \in {"sendStart", "sendAck"}, UNCHANGED host
  PROVE  SendInv'
<1>1. host.pc = "idle" /\ host.result # "acked"
  BY DEF SendInv, AskingToSend, SendingData, Finishing
<1> QED
  BY <1>1 DEF SendInv

\* The first frame begins what the host receives.
LEMMA OffersFirst ==
  ASSUME TInv, ChipInv, ReceiveInv, pc = "sendStart", Offers(1), Head(toChip).k = "C"
  PROVE  ReceiveInv'
<1>1. /\ UNCHANGED << chip, store, session, nextMode, host >>
      /\ pc' = "sendAck" /\ send'.block = 1 /\ toChip # << >> /\ toChip' = Tail(toChip)
      /\ toHost' = Append(toHost, ChipFrame(1))
  BY DEF Offers
<1>2. /\ IsLine(toChip) /\ IsLine(toHost)
      /\ \A kinds : Only(toChip, kinds) => "C" \in kinds
  BY <1>1, LinesOfChip DEF Only
<1>3. host.pc # "mode"
  BY <1>2 DEF ReceiveInv, AskingToReceive, Asking
<1>4. CASE host.pc = "recv"
  <2>1. Starting /\ host.block = 1 /\ session.mode = host.mode /\ host.got = << >>
    BY <1>4 DEF ReceiveInv, Receiving, Starting
  <2>2. toChip' = << >>
    BY <1>1, <1>2, <2>1, HeadIsOnly DEF Starting
  <2>3. \A n : ChipFrame(n).k = "frame" /\ Copy(ChipFrame(n), ChipFrame(n))
    BY FrameFields DEF ChipFrame
  <2>4. Copies(toHost', ChipFrame(0), ChipFrame(1))
    <3>1. Copies(toHost, ChipFrame(0), ChipFrame(0))
      <4>1. 0 \in 0..Len(toHost)
        BY <1>2, LineFacts
      <4> QED
        BY <2>1, <4>1 DEF Starting, Copies, Has
    <3> QED
      BY <1>1, <1>2, <2>3, <3>1, OneMore
  <2>5. ~Has(toHost', "eof")
    BY <1>1, <1>2, <2>1, <2>3, OneMore DEF Starting
  <2>6. \A n : ChipFrame(n)' = ChipFrame(n) /\ Sent(n)' = Sent(n)
    BY <1>1 DEF ChipFrame, Chunk, Sent
  <2>7. SubSeq(session.data, 1, Sent(0)) = << >>
    <3>1. Sent(0) = 0
      BY SentFacts DEF TInv, Ready, Sessions
    <3>2. SubSeq(session.data, 1, 0) = << >>
      BY SubSeqEmpty
    <3> QED
      BY <3>1, <3>2
  <2>8. Transmitting'
    <3>0. 1 - 1 = 0
      OBVIOUS
    <3>1. Offered'
      <4>1. ChipFrame(send.block - 1)' = ChipFrame(0) /\ ChipFrame(send.block)' = ChipFrame(1)
        BY <1>1, <2>6, <3>0
      <4>2. Copies(toHost, ChipFrame(send.block - 1), ChipFrame(send.block))'
        BY <2>4, <4>1
      <4> QED
        BY <1>1, <2>1, <2>2, <4>2, EmptyLine DEF Offered
    <3>2. (host.got = SubSeq(session.data, 1, Sent(host.block - 1)))'
      <4>1. Sent(host.block - 1)' = Sent(0)
        BY <1>1, <2>1, <2>6, <3>0
      <4> QED
        BY <1>1, <2>1, <2>7, <4>1
    <3> QED
      BY <1>1, <2>1, <2>2, <2>5, <3>1, <3>2, EmptyLine DEF Transmitting
  <2>9. Receiving'
    BY <1>1, <2>1, <2>5, <2>8 DEF Receiving
  <2> QED
    BY <1>1, <1>4, <2>9 DEF ReceiveInv
<1>5. ~(host.pc = "idle" /\ host.result = "received")
  BY DEF ReceiveInv
<1> QED
  BY <1>1, <1>3, <1>4, <1>5 DEF ReceiveInv

\* A frame sent again is a copy of the one on its way, or of the one the host has.
LEMMA OffersAgain ==
  ASSUME TInv, ChipInv, ReceiveInv, pc = "sendAck", Offers(send.block)
  PROVE  ReceiveInv'
<1>1. /\ UNCHANGED << chip, store, session, nextMode, host >>
      /\ pc' = "sendAck" /\ send'.block = send.block /\ toChip # << >> /\ toChip' = Tail(toChip)
      /\ toHost' = Append(toHost, ChipFrame(send.block))
  BY DEF Offers
<1>2. IsLine(toChip) /\ IsLine(toHost) /\ Fades(toChip, toChip')
  BY <1>1, LinesOfChip
<1>3. host.pc # "mode" /\ ~(host.pc = "idle" /\ host.result = "received")
  BY DEF ReceiveInv, AskingToReceive
<1>4. CASE host.pc = "recv"
  <2>1. Transmitting /\ host.block \in Nat \ {0}
    BY <1>4 DEF ReceiveInv, Receiving
  <2>2. \A n : ChipFrame(n).k = "frame" /\ Copy(ChipFrame(n), ChipFrame(n))
    BY FrameFields DEF ChipFrame
  <2>3. \A n : ChipFrame(n)' = ChipFrame(n) /\ Sent(n)' = Sent(n)
    BY <1>1 DEF ChipFrame, Chunk, Sent
  <2>4. ~Has(toHost', "eof")
    BY <1>1, <1>2, <2>1, <2>2, OneMore DEF Transmitting
  <2>5. Only(toChip', Replies)
    BY <1>2, <2>1, FadesKeeps DEF Transmitting, Replies
  <2>6. ASSUME Offered PROVE Offered'
    <3>1. ~Has(toChip', "ack")
      BY <1>2, <2>6, FadesKeeps DEF Offered
    <3>2. Copies(toHost', ChipFrame(send.block - 1), ChipFrame(send.block))
      BY <1>1, <1>2, <2>2, <2>6, OneMore DEF Offered
    <3> QED
      BY <1>1, <2>3, <2>6, <3>1, <3>2 DEF Offered
  <2>7. ASSUME WasReceived PROVE WasReceived'
    <3>1. AtMostOne(toChip', "ack")
      BY <1>2, <2>7, FadesKeeps DEF WasReceived
    <3>2. Copies(toHost', ChipFrame(send.block), ChipFrame(send.block))
      BY <1>1, <1>2, <2>2, <2>7, OneMore DEF WasReceived
    <3> QED
      BY <1>1, <2>3, <2>7, <3>1, <3>2 DEF WasReceived
  <2>8. Transmitting'
    BY <1>1, <2>1, <2>3, <2>4, <2>5, <2>6, <2>7 DEF Transmitting
  <2>9. Receiving'
    BY <1>1, <2>1, <2>4, <2>8 DEF Receiving
  <2> QED
    BY <1>1, <1>4, <2>9 DEF ReceiveInv
<1> QED
  BY <1>1, <1>3, <1>4 DEF ReceiveInv

\* An acknowledgement is of the frame on its way: the host has it, and the next may
\* follow.
LEMMA AckedReceive ==
  ASSUME TInv, ChipInv, ReceiveInv, SendAcked
  PROVE  ReceiveInv'
<1> DEFINE b == send.block
<1>1. /\ pc = "sendAck" /\ toChip # << >> /\ Head(toChip).k = "ack"
      /\ UNCHANGED << chip, store, session, nextMode, host >> /\ toChip' = Tail(toChip)
      /\ \/ Sent(b) < session.staged /\ Offers(b + 1)
         \/ /\ ~(Sent(b) < session.staged) /\ pc' = "sendEnd"
            /\ toHost' = Append(toHost, Byte("eof"))
  BY SendAckedGoes DEF Offers
<1>2. IsLine(toChip) /\ IsLine(toHost) /\ Fades(toChip, toChip') /\ Head(toChip) = toChip[1]
      /\ 1 \in DOMAIN toChip
  BY <1>1, LinesOfChip
<1>3. host.pc # "mode" /\ ~(host.pc = "idle" /\ host.result = "received")
  BY <1>1 DEF ReceiveInv, AskingToReceive
<1>4. CASE host.pc = "recv"
  <2>1. Transmitting /\ host.block \in Nat \ {0}
    BY <1>1, <1>4 DEF ReceiveInv, Receiving
  <2>2. WasReceived
    BY <1>1, <1>2, <2>1 DEF Transmitting, Offered, Has
  <2>3. /\ host.block = b + 1 /\ ~Has(toChip', "ack")
        /\ Copies(toHost, ChipFrame(b), ChipFrame(b))
    BY <1>1, <1>2, <2>2, HeadIsOnly DEF WasReceived
  <2>4. \A n : /\ ChipFrame(n).k = "frame" /\ Copy(ChipFrame(n), ChipFrame(n))
               /\ ChipFrame(n).num = n % FrameNumbers
    BY FrameFields DEF ChipFrame
  <2>5. \A n : ChipFrame(n)' = ChipFrame(n) /\ Sent(n)' = Sent(n)
    BY <1>1 DEF ChipFrame, Chunk, Sent
  <2>6. Only(toChip', Replies)
    BY <1>2, <2>1, FadesKeeps DEF Transmitting, Replies
  <2>7. b \in Nat \ {0} /\ (b + 1) - 1 = b
    BY <1>1 DEF ChipInv
  <2>8. CASE Offers(b + 1)
    <3>1. toHost' = Append(toHost, ChipFrame(b + 1)) /\ pc' = "sendAck" /\ send'.block = b + 1
      BY <2>8 DEF Offers
    <3>2. ~Has(toHost', "eof")
      BY <1>2, <2>1, <2>4, <3>1, OneMore DEF Transmitting
    <3>3. Copies(toHost', ChipFrame(b), ChipFrame(b + 1))
      BY <1>2, <2>3, <2>4, <3>1, OneMore
    <3>4. Offered'
      BY <1>1, <2>3, <2>5, <2>7, <3>1, <3>3 DEF Offered
    <3>5. Transmitting'
      BY <1>1, <2>1, <2>5, <2>6, <3>2, <3>4 DEF Transmitting
    <3>6. Receiving'
      BY <1>1, <2>1, <3>1, <3>2, <3>5 DEF Receiving
    <3> QED
      BY <1>1, <1>4, <3>6 DEF ReceiveInv
  <2>9. CASE ~(Sent(b) < session.staged) /\ pc' = "sendEnd" /\ toHost' = Append(toHost, Byte("eof"))
    <3>1. host.got = session.data
      <4>1. /\ session.data \in Buffers /\ session.staged = Len(session.data)
            /\ Sent(b - 1) < session.staged
        BY <1>1 DEF TInv, Ready, Sessions, ChipInv, Sending
      <4>2. session.data \in Seq(Units) /\ Len(session.data) \in Nat
        BY <4>1, LenProperties DEF Buffers
      <4>3. Sent(b) \in (Sent(b - 1) + 1)..Len(session.data) /\ Sent(b - 1) \in Nat
        BY <2>7, <4>1, SentFacts
      <4>4. Sent(b) = Len(session.data)
        BY <2>9, <4>1, <4>2, <4>3
      <4>5. SubSeq(session.data, 1, Len(session.data)) = session.data
        BY <4>2, SubSeqFull
      <4> QED
        BY <2>1, <2>3, <2>7, <4>4, <4>5 DEF Transmitting
    <3>2. Complete'
      <4>1. session.data = Content(session.mode, store) /\ session.mode = host.mode
        BY <1>1, <2>1 DEF ChipInv, Sending, Transmitting
      <4> QED
        BY <1>1, <3>1, <4>1 DEF Complete, Content
    <3>3. \A i \in DOMAIN toHost' : toHost'[i].k = "frame" => toHost'[i].num # host.block % FrameNumbers
      <4>1. Copies(toHost', ChipFrame(b), ChipFrame(b))
        BY <1>2, <2>3, <2>9, OneMore, FrameFields
      <4>2. \A i \in DOMAIN toHost' : toHost'[i].k = "frame" => toHost'[i].num = b % FrameNumbers
        BY <2>4, <4>1 DEF Copies, Copy
      <4>3. b % FrameNumbers # (b + 1) % FrameNumbers
        <5>1. b + 1 \in Nat \ {0}
          BY <2>7
        <5> QED
          BY <2>7, <5>1, NumbersDiffer
      <4> QED
        BY <2>3, <4>2, <4>3
    <3>4. session.frame = 1
      BY <1>1 DEF ChipInv, Sending
    <3>5. AllSent'
      BY <1>1, <2>6, <2>9, <3>2, <3>3, <3>4 DEF AllSent
    <3>6. Receiving'
      BY <1>1, <2>1, <2>6, <2>9, <3>5 DEF Receiving
    <3> QED
      BY <1>1, <1>4, <3>6 DEF ReceiveInv
  <2> QED
    BY <1>1, <2>8, <2>9
<1> QED
  BY <1>1, <1>3, <1>4 DEF ReceiveInv

\* A reset leaves a finished operation alone and marks the others.
LEMMA ResetLinks ==
  ASSUME TInv, ChipInv, LinkInv, Reset
  PROVE  LinkInv'
<1>1. /\ UNCHANGED << chip, store >> /\ toChip' = << >>
      /\ host' = [host EXCEPT !.reset = host.reset \/ host.pc # "idle"]
      /\ session'.frame = 1 /\ pc' = "recv"
  BY ResetGoes DEF Defaults
<1>2. /\ host'.pc = host.pc /\ host'.op = host.op /\ host'.mode = host.mode
      /\ host'.file = host.file /\ host'.size = host.size /\ host'.got = host.got
      /\ host'.result = host.result /\ (host'.reset <=> host.reset \/ host.pc # "idle")
  BY <1>1 DEF TInv, HostInv, IsHost
<1>3. Stored => Stored'
  BY <1>1, <1>2 DEF Stored, Holds
<1>4. Complete => Complete'
  BY <1>1, <1>2 DEF Complete, Content
<1>5. ASSUME SendInv, host.pc = "idle" PROVE SendInv'
  BY <1>1, <1>2, <1>3, <1>5 DEF SendInv
<1>6. ASSUME ReceiveInv, host.pc = "idle" PROVE ReceiveInv'
  BY <1>1, <1>2, <1>4, <1>6, EmptyLine DEF ReceiveInv
<1> QED
  BY <1>2, <1>5, <1>6 DEF LinkInv

-----------------------------------------------------------------------------
(***************************************************************************)
(* The steps of the host.                                                  *)
(***************************************************************************)

\* What is left when the host took one from its line
LEMMA HostLines ==
  ASSUME TInv, ChipInv, Host
  PROVE  /\ UNCHANGED << chip, store, session, pc, nextMode, send >>
         /\ IsLine(toHost) /\ IsLine(toHost') /\ IsLine(toChip)
         /\ toHost # << >> => Head(toHost) = toHost[1] /\ 1 \in DOMAIN toHost
         /\ \A k : k \notin Mere /\ Has(toHost', k) => Has(toHost, k)
         /\ \A k : k \notin Mere /\ AtMostOne(toHost, k) => AtMostOne(toHost', k)
         /\ \A x, y : Copies(toHost, x, y) => Copies(toHost', x, y)
         /\ \A i \in DOMAIN toHost' : toHost'[i].k = "text" => \E j \in DOMAIN toHost : toHost[j] = toHost'[i]
         /\ \A i \in DOMAIN toHost' : toHost'[i].k = "frame" =>
              \E j \in DOMAIN toHost : toHost[j].k = "frame" /\ toHost[j].num = toHost'[i].num
         /\ {"ack", "frame", "eof", "text"} \cap Mere = {}
<1>1. "frame" \notin Mere /\ "text" \notin Mere /\ {"ack", "frame", "eof", "text"} \cap Mere = {}
  BY DEF Mere
<1>2. /\ UNCHANGED << chip, store, session, pc, nextMode, send >>
      /\ Remains(toHost, toHost', Mere) /\ IsLine(toHost')
  BY HostTakes
<1>3. IsLine(toHost) /\ IsLine(toChip)
  BY LinesOfChip
<1> QED
  BY <1>1, <1>2, <1>3, RemainsKeeps, LineFacts

\* An operation that failed, or whose end is unsure, promises nothing.
LEMMA HostEnded ==
  ASSUME TInv, LinkInv, NEW result, HostEnds(result), host.op # "none",
         result \notin {"acked", "received"}
  PROVE  LinkInv'
<1>1. /\ host'.pc = "idle" /\ host'.result = result /\ host'.op = host.op
      /\ host'.mode = host.mode /\ host'.file = host.file /\ host'.size = host.size
      /\ host'.reset = host.reset
  BY DEF HostEnds, TInv, HostInv, IsHost
<1>2. SendInv => SendInv'
  BY <1>1 DEF SendInv
<1>3. ReceiveInv => ReceiveInv'
  BY <1>1 DEF ReceiveInv
<1> QED
  BY <1>1, <1>2, <1>3 DEF LinkInv

\* A host that goes on waiting, while what it waits for does not come
LEMMA AskingGoesOn ==
  ASSUME TInv, ChipInv, Host, host'.mode = host.mode, UNCHANGED toChip, host'.pc = host.pc,
         host'.block = host.block, host'.got = host.got
  PROVE  /\ Asked => Asked'
         /\ AskingToSend => AskingToSend'
         /\ AskingToReceive => AskingToReceive'
<1>1. UNCHANGED << chip, store, session, pc, nextMode, send >>
  BY HostLines
<1>2. Asked => Asked'
  BY <1>1 DEF Asked
<1>3. Answered' => Answered
  BY HostLines DEF Answered
<1>4. Agreed => Agreed'
  BY <1>1 DEF Agreed
<1>5. \A k \in {"ack", "frame", "eof"} : Has(toHost', k) => Has(toHost, k)
  BY HostLines
<1>6. AskingToSend => AskingToSend'
  BY <1>1, <1>3, <1>4, <1>5 DEF AskingToSend
<1>7. AskingToReceive => AskingToReceive'
  BY <1>1, <1>2, <1>3, <1>5 DEF AskingToReceive
<1> QED
  BY <1>2, <1>6, <1>7

\* A host that reads its answer agrees with the chip on the mode.
LEMMA ReadsModeLinks ==
  ASSUME TInv, ChipInv, LinkInv, HostReadsMode
  PROVE  LinkInv'
<1> DEFINE t == Head(toHost)
<1>1. /\ host.pc = "mode" /\ toHost # << >> /\ toHost' = Tail(toHost) /\ Host
      /\ host.op \in {"send", "recv"}
  BY DEF HostReadsMode, Host, LinkInv
<1>2. CASE t.k = "text" /\ t.mode = host.mode /\ ~t.ok
  BY <1>1, <1>2, HostEnded DEF HostReadsMode
<1>3. CASE t.k = "text" /\ t.mode = host.mode /\ t.ok
  <2>1. /\ host' = [host EXCEPT !.pc = IF host.op = "send" THEN "start" ELSE "recv", !.block = 1]
        /\ toChip' = IF host.op = "recv" THEN Append(toChip, Byte("C")) ELSE toChip
    BY <1>3 DEF HostReadsMode
  <2>2. /\ host'.pc = IF host.op = "send" THEN "start" ELSE "recv"
        /\ host'.block = 1 /\ host'.op = host.op /\ host'.mode = host.mode
        /\ host'.file = host.file /\ host'.size = host.size /\ host'.got = host.got
        /\ host'.result = host.result /\ host'.reset = host.reset
    BY <2>1 DEF TInv, HostInv, IsHost
  <2>3. Answered
    BY <1>1, <1>3, HostLines DEF Answered
  <2>4. /\ UNCHANGED << chip, store, session, pc, nextMode, send >>
        /\ \A k \in {"ack", "frame", "eof"} : Has(toHost', k) => Has(toHost, k)
    BY <1>1, HostLines
  <2>5. ASSUME host.op = "send", SendInv PROVE SendInv'
    <3>1. AskingToSend /\ Agreed /\ Asked /\ toChip' = toChip
      BY <1>1, <2>1, <2>3, <2>5 DEF SendInv, AskingToSend
    <3>2. AskingToSend'
      BY <2>2, <2>4, <2>5, <3>1 DEF AskingToSend, Agreed
    <3>3. Asked'
      BY <2>2, <2>4, <3>1 DEF Asked
    <3> QED
      BY <2>2, <2>5, <3>2, <3>3 DEF SendInv
  <2>6. ASSUME host.op = "recv", ReceiveInv PROVE ReceiveInv'
    <3>1. AskingToReceive /\ pc \in {"sendStart", "ended"} /\ toChip' = Append(toChip, Byte("C"))
      BY <1>1, <2>1, <2>3, <2>6 DEF ReceiveInv, AskingToReceive
    <3>2. IsLine(toChip) /\ Byte("C").k = "C"
      BY LinesOfChip, FrameFields
    <3>3. Only(toChip', Asking \cup {"C"}) /\ OnlyLast(toChip', "C")
      <4>1. Only(toChip, Asking \cup {"C"}) /\ ~Has(toChip, "C")
        BY <3>1 DEF AskingToReceive, Only, Has, Asking
      <4> QED
        BY <3>1, <3>2, <4>1, OneMore
    <3>4. pc' = "sendStart" => Starting'
      BY <2>2, <2>4, <3>1, <3>3 DEF Starting, AskingToReceive
    <3>5. ~Has(toHost', "eof")
      BY <2>4, <3>1 DEF AskingToReceive
    <3>6. Receiving'
      BY <2>2, <2>4, <3>1, <3>4, <3>5 DEF Receiving
    <3> QED
      BY <2>2, <2>6, <3>6 DEF ReceiveInv
  <2> QED
    BY <1>1, <2>2, <2>5, <2>6 DEF LinkInv
<1>4. CASE ~(t.k = "text" /\ t.mode = host.mode)
  <2>1. UNCHANGED << host, toChip >>
    BY <1>4 DEF HostReadsMode
  <2>2. SendInv => SendInv'
    BY <1>1, <2>1, AskingGoesOn DEF SendInv
  <2>3. ReceiveInv => ReceiveInv'
    BY <1>1, <2>1, AskingGoesOn DEF ReceiveInv
  <2> QED
    BY <1>1, <2>1, <2>2, <2>3 DEF LinkInv
<1> QED
  BY <1>2, <1>3, <1>4

\* A host that is invited sends frame 1, the one the chip waits for.
LEMMA StartsLinks ==
  ASSUME TInv, ChipInv, LinkInv, HostStarts
  PROVE  LinkInv'
<1> DEFINE t == Head(toHost)
           cancels == IF t.k = "can" THEN host.cancels + 1 ELSE host.cancels
<1>1. /\ host.pc = "start" /\ toHost # << >> /\ toHost' = Tail(toHost) /\ Host
      /\ host.op = "send"
  BY DEF HostStarts, Host, TInv, HostInv
<1>2. /\ UNCHANGED << chip, store, session, pc, nextMode, send >>
      /\ \A k \in {"ack", "frame", "eof"} : Has(toHost', k) => Has(toHost, k)
  BY <1>1, HostLines
<1>3. \/ /\ host' = [host EXCEPT !.pc = "data", !.cancels = 0]
         /\ toChip' = Append(toChip, HostFrame(host.file, host.size, 1))
      \/ HostEnds("failed")
      \/ host' = [host EXCEPT !.cancels = cancels] /\ UNCHANGED toChip
  BY DEF HostStarts
<1>4. CASE HostEnds("failed")
  BY <1>1, <1>4, HostEnded
<1>5. CASE host' = [host EXCEPT !.cancels = cancels] /\ UNCHANGED toChip
  <2>1. /\ host'.pc = host.pc /\ host'.op = host.op /\ host'.mode = host.mode
        /\ host'.file = host.file /\ host'.size = host.size /\ host'.got = host.got
        /\ host'.block = host.block /\ host'.result = host.result /\ host'.reset = host.reset
    BY <1>5 DEF TInv, HostInv, IsHost
  <2>2. SendInv => SendInv'
    BY <1>1, <1>5, <2>1, AskingGoesOn DEF SendInv
  <2> QED
    BY <1>1, <2>1, <2>2 DEF LinkInv
<1>6. CASE /\ host' = [host EXCEPT !.pc = "data", !.cancels = 0]
           /\ toChip' = Append(toChip, HostFrame(host.file, host.size, 1))
  <2>1. /\ host'.pc = "data" /\ host'.op = host.op /\ host'.mode = host.mode
        /\ host'.file = host.file /\ host'.size = host.size
        /\ host'.block = host.block /\ host'.result = host.result /\ host'.reset = host.reset
    BY <1>6 DEF TInv, HostInv, IsHost
  <2>2. ASSUME SendInv PROVE SendInv'
    <3>1. AskingToSend /\ Agreed /\ Asked /\ host.block = 1
      BY <1>1, <2>2 DEF SendInv, AskingToSend
    <3>2. toChip' = Append(toChip, FileFrame(1)) /\ IsLine(toChip)
          /\ FileFrame(1).k = "frame" /\ Copy(FileFrame(1), FileFrame(1))
      BY <1>6, LinesOfChip, FrameFields DEF FileFrame, HostFrame
    <3>3. Only(toChip', Asking \cup {"frame"}) /\ Copies(toChip', FileFrame(0), FileFrame(1))
      <4>1. Only(toChip, Asking \cup {"frame"})
        BY <3>1 DEF AskingToSend, Only
      <4>2. Copies(toChip, FileFrame(0), FileFrame(0))
        <5>1. 0 \in 0..Len(toChip)
          BY <3>2, LineFacts
        <5>2. "frame" \notin Asking
          BY DEF Asking
        <5> QED
          BY <3>1, <5>1, <5>2 DEF AskingToSend, Only, Copies
      <4> QED
        BY <3>2, <4>1, <4>2, OneMore
    <3>4. pc \in {"recv", "ended"}
      <4>1. pc # "sendEnd"
        BY <2>2, <3>1, SendFacts, NoMode DEF Agreed, ChipInv, Sending
      <4> QED
        BY <3>1, <4>1 DEF AskingToSend
    <3>5. \A n : FileFrame(n)' = FileFrame(n)
      BY <2>1 DEF FileFrame
    <3>6. Waits'
      <4>1. 1 - 1 = 0
        OBVIOUS
      <4>2. FileFrame(host.block - 1)' = FileFrame(0) /\ FileFrame(host.block)' = FileFrame(1)
        BY <2>1, <3>1, <3>5, <4>1
      <4>3. Copies(toChip, FileFrame(host.block - 1), FileFrame(host.block))'
        BY <3>3, <4>2
      <4> QED
        BY <1>2, <2>1, <3>1, <4>3 DEF Waits, AskingToSend
    <3>7. pc' = "recv" => Progress((session.frame - 1) * host.size)'
      <4>1. SUFFICES ASSUME pc = "recv" PROVE Progress((session.frame - 1) * host.size)'
        BY <1>2
      <4>2. session.offset = 0 /\ session.flashOffset = 0 /\ session.frame = 1
        BY <3>1, <4>1 DEF ChipInv, AskingToSend
      <4>3. TakenBlocks(chip, host.mode, host.file, session, store, 0)
        BY <3>1, <4>2 DEF Agreed, TakenBlocks, TakenFirmware
      <4>4. Buffered(session, host.file, 0)
        <5>1. 1..0 = {}
          OBVIOUS
        <5> QED
          BY <4>2, <5>1 DEF Buffered
      <4>5. Counted(host.mode, session.offset, 0, 0)
        BY <4>2, RescueAssumption DEF Counted, Whole
      <4>6. Holding(session, store, host.mode, host.file, 0)
        BY <4>3, <4>4, <4>5 DEF Holding
      <4>7. (session.frame - 1) * host.size = 0
        BY <2>2, <4>2, SendFacts
      <4>8. Holding(session, store, host.mode, host.file, (session.frame - 1) * host.size)
        BY <4>6, <4>7
      <4> QED
        BY <1>2, <2>1, <4>8 DEF Progress, Holding
    <3>8. SendingData'
      <4>1. 1 \in 1..LastBlock
        BY <2>2, SendFacts
      <4> QED
        BY <1>2, <2>1, <3>1, <3>3, <3>4, <3>6, <3>7, <4>1 DEF SendingData, Agreed, LastBlock
    <3>9. Asked'
      <4>1. \A i \in DOMAIN toChip' : toChip'[i].k = "mode" => i \in DOMAIN toChip /\ toChip'[i] = toChip[i]
        BY <3>2, AppendFacts, LineFacts
      <4> QED
        BY <1>2, <2>1, <3>1, <4>1 DEF Asked
    <3> QED
      BY <2>1, <2>2, <3>8, <3>9 DEF SendInv
  <2> QED
    BY <1>1, <2>1, <2>2 DEF LinkInv
<1> QED
  BY <1>3, <1>4, <1>5, <1>6

\* An acknowledgement is of the frame the host sent last, and it goes on to the next;
\* anything else makes it send a copy.
LEMMA SendsLinks ==
  ASSUME TInv, ChipInv, LinkInv, HostSends
  PROVE  LinkInv'
<1> DEFINE t == Head(toHost)
           b == host.block
           last == host.block = Blocks(host.file, host.size)
           cancels == IF t.k = "can" THEN host.cancels + 1 ELSE host.cancels
           errors == IF t.k = "can" THEN host.errors ELSE host.errors + 1
<1>1. /\ host.pc = "data" /\ toHost # << >> /\ toHost' = Tail(toHost) /\ Host
      /\ host.op = "send"
  BY DEF HostSends, Host, TInv, HostInv
<1>2. /\ UNCHANGED << chip, store, session, pc, nextMode, send >>
      /\ Has(toHost', "ack") => Has(toHost, "ack")
      /\ AtMostOne(toHost, "ack") => AtMostOne(toHost', "ack")
      /\ IsLine(toHost) /\ IsLine(toChip)
  BY <1>1, HostLines
<1>3. \/ /\ t.k = "ack" /\ last /\ host' = [host EXCEPT !.pc = "finish"]
         /\ toChip' = Append(toChip, Byte("eof"))
      \/ /\ t.k = "ack" /\ ~last /\ host' = [host EXCEPT !.block = b + 1, !.cancels = 0]
         /\ toChip' = Append(toChip, HostFrame(host.file, host.size, b + 1))
      \/ HostEnds("failed")
      \/ /\ t.k # "ack" /\ host' = [host EXCEPT !.cancels = cancels, !.errors = errors]
         /\ toChip' = Append(toChip, HostFrame(host.file, host.size, b))
  BY DEF HostSends
<1>4. CASE HostEnds("failed")
  BY <1>1, <1>4, HostEnded
<1>5. SUFFICES ASSUME SendInv, ~HostEnds("failed"), ~host.reset
               PROVE  LinkInv'
  <2>1. host.reset => (host'.reset /\ host'.op = host.op) \/ HostEnds("failed")
    BY <1>3 DEF TInv, HostInv, IsHost
  <2> QED
    BY <1>1, <1>4, <2>1 DEF LinkInv
<1>6. /\ SendingData /\ Agreed /\ Asked /\ b \in 1..LastBlock /\ pc \in {"recv", "ended"}
      /\ Only(toChip, Asking \cup {"frame"}) /\ b \in Nat \ {0} /\ LastBlock \in Nat
  BY <1>1, <1>5, SendFacts DEF SendInv, SendingData
<1>7. t.k = "ack" => HasTaken /\ ~Has(toHost', "ack")
  <2>1. ASSUME t.k = "ack" PROVE Has(toHost, "ack")
    BY <1>1, <2>1, HostLines DEF Has
  <2>2. ASSUME t.k = "ack" PROVE HasTaken
    BY <1>6, <2>1, <2>2 DEF SendingData, Waits
  <2> QED
    BY <1>1, <1>2, <2>2, HeadIsOnly DEF HasTaken
<1>8. \A n : /\ FileFrame(n).k = "frame" /\ Copy(FileFrame(n), FileFrame(n))
             /\ FileFrame(n) = HostFrame(host.file, host.size, n)
  BY FrameFields DEF FileFrame, HostFrame
<1>9. ASSUME NEW x, toChip' = Append(toChip, x), x.k # "mode", host'.mode = host.mode PROVE Asked'
  <2>1. \A i \in DOMAIN toChip' : toChip'[i].k = "mode" => i \in DOMAIN toChip /\ toChip'[i] = toChip[i]
    BY <1>2, <1>9, AppendFacts, LineFacts
  <2> QED
    BY <1>2, <1>6, <1>9, <2>1 DEF Asked
<1>10. pc = "recv" => Progress((session.frame - 1) * host.size)
  BY <1>6 DEF SendingData
<1>11. CASE /\ t.k = "ack" /\ last /\ host' = [host EXCEPT !.pc = "finish"]
            /\ toChip' = Append(toChip, Byte("eof"))
  <2>1. /\ host'.pc = "finish" /\ host'.op = host.op /\ host'.mode = host.mode
        /\ host'.file = host.file /\ host'.size = host.size
        /\ host'.block = b /\ host'.result = host.result /\ host'.reset = host.reset
    BY <1>11 DEF TInv, HostInv, IsHost
  <2>2. Byte("eof").k = "eof"
    BY FrameFields
  <2>3. /\ session.frame = b + 1 /\ ~Has(toHost', "ack") /\ b = LastBlock
        /\ Copies(toChip, FileFrame(b), FileFrame(b))
    BY <1>7, <1>11 DEF HasTaken, LastBlock
  <2>4. /\ Only(toChip', Asking \cup {"frame", "eof"}) /\ OnlyLast(toChip', "eof")
        /\ Copies(toChip', FileFrame(b), FileFrame(b))
    <3>1. Only(toChip, Asking \cup {"frame", "eof"})
      BY <1>6 DEF Only
    <3>2. ~Has(toChip, "eof")
      BY <1>6 DEF Only, Has, Asking
    <3> QED
      BY <1>2, <1>11, <2>2, <2>3, <3>1, <3>2, OneMore
  <2>5. pc = "recv" => Progress(b * host.size)
    <3>1. (session.frame - 1) * host.size = b * host.size
      BY <1>5, <1>6, <2>3, SendFacts
    <3> QED
      BY <1>10, <3>1
  <2>6. Finishing'
    <3>1. FileFrame(host.block)' = FileFrame(b)
      BY <2>1 DEF FileFrame
    <3>2. Copies(toChip, FileFrame(host.block), FileFrame(host.block))'
      BY <2>4, <3>1
    <3>3. pc' = "recv" => Progress(host.block * host.size)'
      BY <1>2, <2>1, <2>5 DEF Progress, Holding
    <3> QED
      BY <1>2, <1>6, <2>1, <2>3, <2>4, <3>2, <3>3 DEF Finishing, Agreed, LastBlock
  <2> QED
    BY <1>1, <1>5, <1>9, <1>11, <2>1, <2>2, <2>6 DEF LinkInv, SendInv
<1>12. CASE /\ t.k = "ack" /\ ~last /\ host' = [host EXCEPT !.block = b + 1, !.cancels = 0]
            /\ toChip' = Append(toChip, HostFrame(host.file, host.size, b + 1))
  <2>1. /\ host'.pc = "data" /\ host'.op = host.op /\ host'.mode = host.mode
        /\ host'.file = host.file /\ host'.size = host.size
        /\ host'.block = b + 1 /\ host'.result = host.result /\ host'.reset = host.reset
    BY <1>1, <1>12 DEF TInv, HostInv, IsHost
  <2>2. /\ session.frame = b + 1 /\ ~Has(toHost', "ack")
        /\ Copies(toChip, FileFrame(b), FileFrame(b))
    BY <1>7, <1>12 DEF HasTaken
  <2>3. toChip' = Append(toChip, FileFrame(b + 1))
    BY <1>8, <1>12
  <2>4. Only(toChip', Asking \cup {"frame"}) /\ Copies(toChip', FileFrame(b), FileFrame(b + 1))
    BY <1>2, <1>6, <1>8, <2>2, <2>3, OneMore
  <2>5. Waits'
    <3>1. \A n : FileFrame(n)' = FileFrame(n)
      BY <2>1 DEF FileFrame
    <3>2. (b + 1) - 1 = b
      BY <1>6
    <3>3. FileFrame(host.block - 1)' = FileFrame(b) /\ FileFrame(host.block)' = FileFrame(b + 1)
      BY <2>1, <3>1, <3>2
    <3>4. Copies(toChip, FileFrame(host.block - 1), FileFrame(host.block))'
      BY <2>4, <3>3
    <3> QED
      BY <1>2, <2>1, <2>2, <3>4 DEF Waits
  <2>6. b + 1 \in 1..LastBlock
    BY <1>6, <1>12 DEF LastBlock
  <2>7. SendingData'
    <3>1. pc' = "recv" => Progress((session.frame - 1) * host.size)'
      BY <1>2, <1>10, <2>1 DEF Progress, Holding
    <3> QED
      BY <1>2, <1>6, <2>1, <2>4, <2>5, <2>6, <3>1 DEF SendingData, Agreed, LastBlock
  <2> QED
    BY <1>1, <1>5, <1>8, <1>9, <2>1, <2>3, <2>7 DEF LinkInv, SendInv
<1>13. CASE /\ t.k # "ack" /\ host' = [host EXCEPT !.cancels = cancels, !.errors = errors]
            /\ toChip' = Append(toChip, HostFrame(host.file, host.size, b))
  <2>1. /\ host'.pc = "data" /\ host'.op = host.op /\ host'.mode = host.mode
        /\ host'.file = host.file /\ host'.size = host.size
        /\ host'.block = b /\ host'.result = host.result /\ host'.reset = host.reset
    <3> HIDE DEF cancels, errors
    <3> QED
      BY <1>1, <1>13 DEF TInv, HostInv, IsHost
  <2>2. toChip' = Append(toChip, FileFrame(b))
    BY <1>8, <1>13
  <2>3. Only(toChip', Asking \cup {"frame"})
    BY <1>2, <1>6, <1>8, <2>2, OneMore
  <2>4. \A n : FileFrame(n)' = FileFrame(n)
    BY <2>1 DEF FileFrame
  <2>5. ASSUME Waits PROVE Waits'
    <3>1. Copies(toChip', FileFrame(b - 1), FileFrame(b))
      BY <1>2, <1>8, <2>2, <2>5, OneMore DEF Waits
    <3> QED
      BY <1>2, <2>1, <2>4, <2>5, <3>1 DEF Waits
  <2>6. ASSUME HasTaken PROVE HasTaken'
    <3>1. Copies(toChip', FileFrame(b), FileFrame(b))
      BY <1>2, <1>8, <2>2, <2>6, OneMore DEF HasTaken
    <3> QED
      BY <1>2, <2>1, <2>4, <2>6, <3>1 DEF HasTaken
  <2>7. SendingData'
    <3>1. pc' = "recv" => Progress((session.frame - 1) * host.size)'
      BY <1>2, <1>10, <2>1 DEF Progress, Holding
    <3> QED
      BY <1>2, <1>6, <2>1, <2>3, <2>5, <2>6, <3>1 DEF SendingData, Agreed, LastBlock
  <2> QED
    BY <1>1, <1>5, <1>8, <1>9, <2>1, <2>2, <2>7 DEF LinkInv, SendInv
<1> QED
  BY <1>3, <1>5, <1>11, <1>12, <1>13

\* An acknowledged end of file is acknowledged by a chip that stored it.
LEMMA FinishesLinks ==
  ASSUME TInv, ChipInv, LinkInv, HostFinishes
  PROVE  LinkInv'
<1> DEFINE result == IF Head(toHost).k = "ack" THEN "acked" ELSE "unsure"
<1>1. /\ host.pc = "finish" /\ toHost # << >> /\ Host /\ host.op = "send"
      /\ HostEnds(result) /\ toChip' = toChip
  BY DEF HostFinishes, Host, TInv, HostInv
<1>2. CASE Head(toHost).k # "ack"
  BY <1>1, <1>2, HostEnded
<1>3. CASE Head(toHost).k = "ack"
  <2>1. /\ host'.pc = "idle" /\ host'.result = "acked" /\ host'.op = host.op
        /\ host'.mode = host.mode /\ host'.file = host.file /\ host'.size = host.size
        /\ host'.reset = host.reset
    BY <1>1, <1>3 DEF HostEnds, TInv, HostInv, IsHost
  <2>2. UNCHANGED << chip, store, session, pc, nextMode, send >>
    BY <1>1, HostLines
  <2>3. ASSUME SendInv PROVE SendInv'
    <3>1. Finishing /\ Has(toHost, "ack")
      BY <1>1, <1>3, <2>3, HostLines DEF SendInv, Has
    <3>2. session.frame = 1 /\ toChip = << >> /\ Stored /\ pc \in {"recv", "ended"}
      BY <3>1 DEF Finishing
    <3>3. Stored'
      BY <2>1, <2>2, <3>2 DEF Stored, Holds
    <3> QED
      BY <1>1, <2>1, <2>2, <2>3, <3>2, <3>3 DEF SendInv
  <2> QED
    BY <1>1, <2>1, <2>3 DEF LinkInv
<1> QED
  BY <1>2, <1>3

\* A host that receives appends the frame it waits for once, and no copy of the one
\* before.
LEMMA ReceivesLinks ==
  ASSUME TInv, ChipInv, LinkInv, HostReceives
  PROVE  LinkInv'
<1> DEFINE t == Head(toHost)
           b == host.block
           whole == t.k = "frame" /\ t.damage /= "head"
           expected == whole /\ FrameNumberIs(t, b)
           good == expected /\ t.damage = "none"
           reply == CASE t.k = "eof" \/ good -> << Byte("ack") >>
                      [] whole /\ ~expected -> Cancel
                      [] whole /\ expected /\ ~good -> << Byte("nak") >>
                      [] OTHER -> << >>
<1>1. /\ host.pc = "recv" /\ Len(toHost) > 0 /\ Host /\ host.op \in {"send", "recv"}
  <2>1. Len(toHost) \in Nat
    BY LinesOfChip, LineFacts
  <2>2. host.pc = "recv" /\ Len(toHost) > (IF CutShort(toHost) THEN 1 ELSE 0)
    BY DEF HostReceives
  <2>3. Len(toHost) > 0
    <3>1. CASE CutShort(toHost)
      BY <2>1, <2>2, <3>1
    <3>2. CASE ~CutShort(toHost)
      BY <2>1, <2>2, <3>2
    <3> QED
      BY <3>1, <3>2
  <2>4. Host
    BY DEF Host
  <2>5. host.op \in {"send", "recv"}
    BY <2>2 DEF LinkInv
  <2> QED
    BY <2>2, <2>3, <2>4, <2>5
<1>2. /\ UNCHANGED << chip, store, session, pc, nextMode, send >>
      /\ \A k \in {"ack", "frame", "eof"} : Has(toHost', k) => Has(toHost, k)
      /\ Copies(toHost, ChipFrame(send.block - 1), ChipFrame(send.block)) =>
           Copies(toHost', ChipFrame(send.block - 1), ChipFrame(send.block))
      /\ Copies(toHost, ChipFrame(send.block), ChipFrame(send.block)) =>
           Copies(toHost', ChipFrame(send.block), ChipFrame(send.block))
      /\ \A i \in DOMAIN toHost' : toHost'[i].k = "frame" =>
           \E j \in DOMAIN toHost : toHost[j].k = "frame" /\ toHost[j].num = toHost'[i].num
      /\ IsLine(toHost) /\ IsLine(toChip)
  BY <1>1, HostLines
<1>3. /\ toHost # << >> /\ t = toHost[1] /\ 1 \in DOMAIN toHost
  BY <1>1, <1>2, LineFacts
<1>4. /\ toChip' = toChip \o reply
      /\ CASE t.k = "eof" -> HostEnds("received")
           [] good -> host' = [host EXCEPT !.block = b + 1, !.got = host.got \o t.data]
           [] expected /\ ~good /\ host.errors + 1 < HostMaxErrors ->
                host' = [host EXCEPT !.errors = host.errors + 1]
           [] OTHER -> HostEnds("failed")
      /\ toHost' = IF CutShort(toHost) THEN Tail(Tail(toHost)) ELSE Tail(toHost)
  BY DEF HostReceives
<1>5. t.k = "frame" => t.k # "eof"
  OBVIOUS
<1>6. /\ \/ t.k = "eof" /\ HostEnds("received")
         \/ good /\ host' = [host EXCEPT !.block = b + 1, !.got = host.got \o t.data]
         \/ expected /\ ~good /\ host' = [host EXCEPT !.errors = host.errors + 1]
         \/ HostEnds("failed")
  BY <1>4
<1>7. /\ t.k = "eof" \/ good => toChip' = Append(toChip, Byte("ack"))
      /\ expected /\ ~good => toChip' = Append(toChip, Byte("nak"))
  <2>1. \A x : toChip \o << x >> = Append(toChip, x)
    BY <1>2, ConcatFacts
  <2>2. t.k = "eof" \/ good => reply = << Byte("ack") >>
    BY <1>5
  <2>3. expected /\ ~good => reply = << Byte("nak") >>
    BY <1>5
  <2> QED
    BY <1>4, <2>1, <2>2, <2>3
<1> HIDE DEF reply
<1>8. ASSUME host.op = "send" PROVE LinkInv'
  <2>1. host.reset
    BY <1>1, <1>8 DEF LinkInv, SendInv
  <2>2. host'.reset = host.reset /\ host'.op = host.op
    <3> HIDE DEF good, expected
    <3> QED
      BY <1>6 DEF HostEnds, TInv, HostInv, IsHost
  <2> QED
    BY <1>8, <2>1, <2>2 DEF LinkInv
<1>9. CASE HostEnds("failed")
  BY <1>1, <1>9, HostEnded
<1>10. ASSUME host.op = "recv", host.reset, ~HostEnds("failed") PROVE LinkInv'
  <2>1. host'.reset = host.reset /\ host'.op = host.op
    <3> HIDE DEF good, expected
    <3> QED
      BY <1>6 DEF HostEnds, TInv, HostInv, IsHost
  <2> QED
    BY <1>10, <2>1 DEF LinkInv
<1>11. SUFFICES ASSUME host.op = "recv", ~host.reset, ReceiveInv, ~HostEnds("failed")
                PROVE  LinkInv'
  BY <1>1, <1>8, <1>9, <1>10 DEF LinkInv
<1>12. Receiving /\ b \in Nat \ {0} /\ host.mode \in SendModes /\ host.result # "acked"
  BY <1>1, <1>11 DEF ReceiveInv, Receiving
<1>13. \A k : Byte(k).k = k
  BY FrameFields
<1>14. ASSUME Only(toChip, Replies), t.k = "eof" \/ expected PROVE Only(toChip', Replies)
  <2>1. "ack" \in Replies /\ "nak" \in Replies
    BY DEF Replies
  <2> HIDE DEF good, expected
  <2>2. \E x : toChip' = Append(toChip, x) /\ x.k \in Replies
    BY <1>7, <1>13, <1>14, <2>1
  <2> QED
    BY <1>2, <1>14, <2>2, OneMore
<1>15. ASSUME UNCHANGED store, host'.got = host.got, host'.mode = host.mode, Complete PROVE Complete'
  BY <1>15 DEF Complete, Content
<1>16. CASE t.k = "eof" /\ HostEnds("received")
  <2>1. /\ host'.pc = "idle" /\ host'.result = "received" /\ host'.op = host.op
        /\ host'.mode = host.mode /\ host'.got = host.got /\ host'.reset = host.reset
    BY <1>16 DEF HostEnds, TInv, HostInv, IsHost
  <2>2. AllSent
    BY <1>3, <1>12, <1>16 DEF Receiving, Has
  <2>3. Complete' /\ Only(toChip', Replies)
    BY <1>2, <1>14, <1>15, <1>16, <2>1, <2>2 DEF AllSent
  <2> QED
    BY <1>2, <1>11, <1>12, <2>1, <2>2, <2>3 DEF LinkInv, ReceiveInv, AllSent
<1>17. ASSUME expected PROVE ~(pc = "sendStart") /\ t.num = b % FrameNumbers /\ t.k = "frame"
  <2>1. t.num = b % FrameNumbers /\ t.k = "frame"
    BY <1>17 DEF FrameNumberIs
  <2>2. Has(toHost, "frame")
    BY <1>3, <2>1 DEF Has
  <2> QED
    BY <1>12, <2>1, <2>2 DEF Receiving, Starting
<1>18. CASE good /\ host' = [host EXCEPT !.block = b + 1, !.got = host.got \o t.data]
  <2> DEFINE got == host.got \o t.data
  <2>1. /\ host'.pc = "recv" /\ host'.op = host.op /\ host'.mode = host.mode
        /\ host'.block = b + 1 /\ host'.got = got
        /\ host'.result = host.result /\ host'.reset = host.reset
    <3> HIDE DEF got
    <3> QED
      BY <1>1, <1>18 DEF TInv, HostInv, IsHost, got
  <2>2. pc # "sendStart" /\ t.num = b % FrameNumbers /\ t.k = "frame"
    BY <1>17, <1>18
  <2>3. ~Has(toHost, "eof")
    <3>1. SUFFICES ASSUME AllSent PROVE FALSE
      BY <1>12 DEF Receiving
    <3> QED
      BY <1>3, <2>2, <3>1 DEF AllSent
  <2>4. toHost' = Tail(toHost)
    BY <1>4, <1>18 DEF CutShort
  <2>5. toChip' = Append(toChip, Byte("ack"))
    BY <1>7, <1>18
  <2>6. ASSUME pc = "sendAck" PROVE Transmitting'
    <3> DEFINE c == send.block
    <3>1. Transmitting /\ c \in Nat \ {0} /\ Sent(c - 1) < Len(session.data) /\ session.data \in Buffers
      BY <1>12, <2>6 DEF Receiving, ChipInv, Sending, TInv, Ready, Sessions
    <3>2. \A n : /\ ChipFrame(n).k = "frame" /\ ChipFrame(n).num = n % FrameNumbers
                 /\ ChipFrame(n).data = Chunk(Sent(n - 1))
      BY FrameFields DEF ChipFrame
    <3>3. ~WasReceived
      <4>1. SUFFICES ASSUME WasReceived PROVE FALSE
        OBVIOUS
      <4>2. t.num = c % FrameNumbers /\ b = c + 1
        BY <1>3, <2>2, <3>2, <4>1, LineFacts DEF WasReceived, Copies, Copy
      <4>3. b \in Nat \ {0} /\ b - 1 = c
        BY <3>1, <4>2
      <4> QED
        BY <2>2, <4>2, <4>3, NumbersDiffer
    <3>4. b = c /\ ~Has(toChip, "ack") /\ Copies(toHost, ChipFrame(c - 1), ChipFrame(c))
      BY <3>1, <3>3 DEF Transmitting, Offered
    <3>5. t.num # ChipFrame(c - 1).num
      BY <2>2, <3>1, <3>2, <3>4, NumbersDiffer
    <3>6. Copy(t, ChipFrame(c)) /\ Copies(toHost', ChipFrame(c), ChipFrame(c))
      BY <1>2, <1>3, <2>2, <2>4, <3>4, <3>5, HeadOfCopies
    <3>7. got = SubSeq(session.data, 1, Sent(c))
      <4>1. t.data = Chunk(Sent(c - 1))
        BY <3>2, <3>6 DEF Copy
      <4>2. host.got = SubSeq(session.data, 1, Sent(c - 1))
        BY <3>1, <3>4 DEF Transmitting
      <4> QED
        BY <3>1, <4>1, <4>2, SentFacts
    <3> HIDE DEF got
    <3>8. \A n : ChipFrame(n)' = ChipFrame(n) /\ Sent(n)' = Sent(n)
      BY <1>2 DEF ChipFrame, Chunk, Sent
    <3>9. WasReceived'
      <4>1. AtMostOne(toChip', "ack")
        BY <1>2, <1>13, <2>5, <3>4, OneMore
      <4> QED
        BY <1>2, <2>1, <3>4, <3>6, <3>8, <4>1 DEF WasReceived
    <3>10. (host.got = SubSeq(session.data, 1, Sent(host.block - 1)))'
      <4>1. (c + 1) - 1 = c
        BY <3>1
      <4>2. Sent(host.block - 1)' = Sent(c)
        BY <2>1, <3>4, <3>8, <4>1
      <4> QED
        BY <1>2, <2>1, <3>7, <4>2
    <3>11. Only(toChip', Replies) /\ ~Has(toHost', "eof")
      BY <1>2, <1>14, <1>18, <2>3, <3>1 DEF Transmitting
    <3> QED
      BY <1>2, <2>1, <3>1, <3>9, <3>10, <3>11 DEF Transmitting
  <2>7. pc \in {"recv", "sendEnd"} => Only(toChip', Replies)
    BY <1>12, <1>14, <1>18 DEF Receiving
  <2>8. Receiving'
    <3>1. b + 1 \in Nat \ {0} /\ ~Has(toHost', "eof")
      BY <1>2, <1>12, <2>3
    <3> QED
      BY <1>2, <2>1, <2>2, <2>6, <2>7, <3>1 DEF Receiving
  <2> QED
    BY <1>11, <1>12, <2>1, <2>8 DEF LinkInv, ReceiveInv
<1>19. CASE expected /\ ~good /\ host' = [host EXCEPT !.errors = host.errors + 1]
  <2>1. /\ host'.pc = "recv" /\ host'.op = host.op /\ host'.mode = host.mode
        /\ host'.block = b /\ host'.got = host.got
        /\ host'.result = host.result /\ host'.reset = host.reset
    BY <1>1, <1>19 DEF TInv, HostInv, IsHost
  <2>2. pc # "sendStart" /\ toChip' = Append(toChip, Byte("nak"))
    BY <1>7, <1>17, <1>19
  <2>3. \A n : ChipFrame(n)' = ChipFrame(n) /\ Sent(n)' = Sent(n)
    BY <1>2 DEF ChipFrame, Chunk, Sent
  <2>4. ASSUME pc = "sendAck" PROVE Transmitting'
    <3>1. Transmitting
      BY <1>12, <2>4 DEF Receiving
    <3>2. /\ ~Has(toChip, "ack") => ~Has(toChip', "ack")
          /\ AtMostOne(toChip, "ack") => AtMostOne(toChip', "ack")
      BY <1>2, <1>13, <2>2, OneMore
    <3>3. Offered => Offered'
      BY <1>2, <2>1, <2>3, <3>2 DEF Offered
    <3>4. WasReceived => WasReceived'
      BY <1>2, <2>1, <2>3, <3>2 DEF WasReceived
    <3>5. Only(toChip', Replies) /\ ~Has(toHost', "eof")
      BY <1>2, <1>14, <1>19, <3>1 DEF Transmitting
    <3>6. (host.got = SubSeq(session.data, 1, Sent(host.block - 1)))'
      BY <1>2, <2>1, <2>3, <3>1 DEF Transmitting
    <3> QED
      BY <1>2, <2>1, <3>1, <3>3, <3>4, <3>5, <3>6 DEF Transmitting
  <2>5. pc \in {"recv", "sendEnd"} => Only(toChip', Replies)
    BY <1>12, <1>14, <1>19 DEF Receiving
  <2>6. ASSUME Has(toHost', "eof") PROVE AllSent'
    <3>1. AllSent
      BY <1>2, <1>12, <2>6 DEF Receiving
    <3>2. Complete' /\ Only(toChip', Replies)
      BY <1>2, <1>14, <1>15, <1>19, <2>1, <3>1 DEF AllSent
    <3>3. \A i \in DOMAIN toHost' : toHost'[i].k = "frame" => toHost'[i].num # b % FrameNumbers
      BY <1>2, <3>1 DEF AllSent
    <3> QED
      BY <1>2, <2>1, <3>1, <3>2, <3>3 DEF AllSent
  <2>7. Receiving'
    BY <1>2, <1>12, <2>1, <2>2, <2>4, <2>5, <2>6 DEF Receiving
  <2> QED
    BY <1>11, <1>12, <2>1, <2>7 DEF LinkInv, ReceiveInv
<1> QED
  BY <1>6, <1>11, <1>16, <1>18, <1>19

\* An operation that begins on a quiet line
LEMMA BeginsLinks ==
  ASSUME TInv, ChipInv, LinkInv, HostBegins, QuietLine
  PROVE  LinkInv'
<1>1. /\ \/ \E x \in Sends :
              host' = [Idle EXCEPT !.pc = "mode", !.op = "send", !.mode = x.mode,
                                   !.file = x.file, !.size = x.size]
         \/ \E mode \in Reads : host' = [Idle EXCEPT !.pc = "mode", !.op = "recv", !.mode = mode]
      /\ toChip' = toChip \o << ModeBytes(host'.mode), Byte("cr") >>
      /\ UNCHANGED << chip, store, session, pc, nextMode, send, toHost >>
  BY DEF HostBegins, chipVars
<1>2. /\ IsLine(toChip) /\ IsLine(toHost) /\ ModeBytes(host'.mode).k = "mode"
      /\ ModeBytes(host'.mode).mode = host'.mode /\ Byte("cr").k = "cr"
      /\ toChip' = Append(Append(toChip, ModeBytes(host'.mode)), Byte("cr"))
  <2>1. IsLine(toChip) /\ IsLine(toHost)
    BY LinesOfChip
  <2>2. \A x, y : toChip \o << x, y >> = Append(Append(toChip, x), y)
    BY <2>1, ConcatFacts
  <2>3. toChip' = Append(Append(toChip, ModeBytes(host'.mode)), Byte("cr"))
    BY <1>1, <2>2
  <2>4. \A mode : ModeBytes(mode).k = "mode" /\ ModeBytes(mode).mode = mode
    BY DEF ModeBytes
  <2> QED
    BY <2>1, <2>3, <2>4, FrameFields
<1>3. /\ pc \in {"recv", "sendEnd"} /\ session.frame = 1
      /\ \A i \in DOMAIN toChip : toChip[i].k = "ack"
      /\ ~Has(toHost, "ack") /\ ~Has(toHost, "frame") /\ ~Has(toHost, "eof")
      /\ \A i \in DOMAIN toHost : toHost[i].k = "text" /\ toHost[i].mode = host'.mode =>
           pc = "recv" /\ session.mode = host'.mode
  <2>1. session.frame = 1 /\ pc \in {"recv", "sendEnd"}
    BY DEF QuietLine, ChipInv, Sending
  <2>2. \A i \in DOMAIN toChip : toChip[i].k = "ack"
    <3>1. CASE toChip = << >>
      BY <3>1, <1>2, LineFacts
    <3>2. CASE toChip = << Byte("ack") >>
      <4>1. Len(toChip) = 1 /\ toChip[1] = Byte("ack")
        BY <3>2
      <4>2. DOMAIN toChip = 1..1
        BY <1>2, <4>1, LineFacts
      <4> QED
        BY <4>1, <4>2, FrameFields
    <3> QED
      BY <3>1, <3>2 DEF QuietLine
  <2> QED
    BY <2>1, <2>2 DEF QuietLine, Has
<1>4. Only(toChip', Asking)
  <2>1. Only(toChip, Asking)
    BY <1>3 DEF Only, Asking
  <2>2. "mode" \in Asking /\ "cr" \in Asking
    BY DEF Asking
  <2>3. IsLine(Append(toChip, ModeBytes(host'.mode))) /\ Only(Append(toChip, ModeBytes(host'.mode)), Asking)
    BY <1>2, <2>1, <2>2, OneMore, AppendFacts
  <2> QED
    BY <1>2, <2>2, <2>3, OneMore
<1>5. Asked'
  <2> DEFINE m == ModeBytes(host'.mode)
             line == Append(toChip, m)
  <2>1. IsLine(line) /\ \A i \in DOMAIN line : line[i] = m \/ (i \in DOMAIN toChip /\ line[i] = toChip[i])
    BY <1>2, AppendFacts, LineFacts
  <2>2. toChip' = Append(line, Byte("cr"))
    BY <1>2
  <2> HIDE DEF line
  <2>3. \A i \in DOMAIN toChip' : toChip'[i] = Byte("cr") \/ (i \in DOMAIN line /\ toChip'[i] = line[i])
    BY <2>1, <2>2, AppendFacts, LineFacts
  <2>4. \A i \in DOMAIN toChip' : toChip'[i].k = "mode" => toChip'[i] = m
    BY <1>2, <1>3, <2>1, <2>3
  <2>5. nextMode' \in {"none", "bad"}
    BY <1>1 DEF QuietLine
  <2> QED
    BY <1>2, <2>4, <2>5 DEF Asked
<1>6. ASSUME NEW x \in Sends,
             host' = [Idle EXCEPT !.pc = "mode", !.op = "send", !.mode = x.mode,
                                  !.file = x.file, !.size = x.size]
      PROVE  LinkInv'
  <2>1. /\ host'.pc = "mode" /\ host'.op = "send" /\ host'.mode = x.mode /\ host'.file = x.file
        /\ host'.size = x.size /\ host'.result = "none"
    BY <1>6 DEF Idle
  <2>2. [mode |-> host'.mode, file |-> host'.file, size |-> host'.size] \in Sends
    <3>1. x \in [mode : RecvModes, file : Files, size : {1, LongFrame}]
      BY XmodemAssumption
    <3>2. x = [mode |-> x.mode, file |-> x.file, size |-> x.size]
      BY <3>1
    <3> QED
      BY <2>1, <3>2
  <2>3. Answered' => Agreed'
    <3>1. ASSUME NEW i \in DOMAIN toHost, toHost[i].k = "text", toHost[i].mode = host'.mode, toHost[i].ok
          PROVE  Agreed'
      BY <1>1, <1>3, <3>1 DEF ChipInv, TrueTexts, Agreed
    <3> QED
      BY <1>1, <3>1 DEF Answered
  <2>4. AskingToSend'
    BY <1>1, <1>3, <1>4, <2>1, <2>3 DEF AskingToSend
  <2> QED
    BY <1>5, <2>1, <2>2, <2>4 DEF LinkInv, SendInv
<1>7. ASSUME NEW mode \in Reads, host' = [Idle EXCEPT !.pc = "mode", !.op = "recv", !.mode = mode]
      PROVE  LinkInv'
  <2>1. /\ host'.pc = "mode" /\ host'.op = "recv" /\ host'.mode = mode /\ host'.got = << >>
        /\ host'.result = "none" /\ mode \in SendModes
    BY <1>7, XmodemAssumption DEF Idle
  <2>2. ~Answered'
    <3>1. pc = "recv" => session.mode # mode
      BY <2>1 DEF TInv
    <3> QED
      BY <1>1, <1>3, <2>1, <3>1 DEF Answered
  <2>3. AskingToReceive'
    BY <1>1, <1>3, <1>4, <1>5, <2>1, <2>2 DEF AskingToReceive
  <2> QED
    BY <2>1, <2>3 DEF LinkInv, ReceiveInv
<1> QED
  BY <1>1, <1>6, <1>7

-----------------------------------------------------------------------------
\* Every step but one that begins an operation on a line that is not quiet
LEMMA LinkStep ==
  ASSUME TInv, ChipInv, LinkInv, Next, HostBegins => QuietLine
  PROVE  LinkInv'
<1>1. ASSUME UNCHANGED host, SendInv => SendInv', ReceiveInv => ReceiveInv' PROVE LinkInv'
  BY <1>1 DEF LinkInv
<1>2. CASE Dull
  BY <1>1, <1>2, DullSend, DullReceive DEF Dull
<1>3. CASE Accepts \/ Ends
  BY <1>1, <1>3, AcceptsSend, EndsSend, NothingReceived DEF Accepts, Ends
<1>4. CASE ModeChange /\ session.frame = 1
  BY <1>1, <1>4, ModeChangeGoes, ModeChangedSend, ModeChangedReceive DEF ModeChanged
<1>5. CASE SendFinish
  BY <1>1, <1>5, SendFinishGoes, SendFinishLinks
<1>6. CASE SendStart
  BY <1>1, <1>2, <1>6, SendStartGoes, SendersWait, OffersFirst DEF Offers
<1>7. CASE SendRefused
  BY <1>1, <1>2, <1>7, SendRefusedGoes, SendersWait, OffersAgain DEF Offers
<1>8. CASE SendAcked
  <2>1. pc = "sendAck" /\ UNCHANGED host
    BY <1>8, SendAckedGoes DEF Offers
  <2> QED
    BY <1>1, <1>8, <2>1, SendersWait, AckedReceive
<1>9. CASE HostGivesUp
  <2>1. host.op # "none" /\ HostEnds("failed")
    BY <1>9 DEF HostGivesUp, LinkInv
  <2> QED
    BY <2>1, HostEnded
<1>10. CASE Host
  BY <1>9, <1>10, BeginsLinks, ReadsModeLinks, StartsLinks, SendsLinks, FinishesLinks, ReceivesLinks
     DEF Host
<1> QED
  BY <1>2, <1>3, <1>4, <1>5, <1>6, <1>7, <1>8, <1>10, ResetLinks,
     DullSteps, BrokenOffIsDull, FrameAcceptedGoes, EndOfFileGoes
     DEF Next, Chip, Receive, Command, Transmit

\* Whatever the line loses or damages, and whenever power fails: a host whose end of
\* file was acknowledged by the session it began with finds its file stored, and one
\* that received everything has what the chip holds (SuccessIsTrue).  The hypothesis:
\* no operation begins while frames, acknowledgements or answers of an earlier one are
\* still on the line, or the chip in the middle of one.
THEOREM AcknowledgedIsStored ==
  Spec /\ [][HostBegins => QuietLine]_vars => []SuccessIsTrue
<1> DEFINE QInv == TInv /\ ChipInv /\ LinkInv
<1>1. Init => QInv
  <2>1. Init => LinkInv
    BY DEF Init, LinkInv, Idle
  <2> QED
    BY <2>1, ChipInit, InitTyped
<1>2. QInv /\ [Next]_vars /\ [HostBegins => QuietLine]_vars => QInv'
  <2> SUFFICES ASSUME QInv, [Next]_vars, [HostBegins => QuietLine]_vars PROVE QInv'
    OBVIOUS
  <2>1. CASE UNCHANGED vars
    <3>1. TInv'
      BY <2>1 DEF vars, chipVars, TInv, Ready, Filling, HostInv, IsHost
    <3>2. ChipInv'
      BY <2>1 DEF vars, chipVars, ChipInv, IsLine, TrueTexts, Sent
    <3>3. UNCHANGED host /\ Dull
      <4>1. Fades(toChip, toChip) /\ Remains(toHost, toHost, Mere) /\ IsLine(toHost)
        BY LinesOfChip
      <4> QED
        BY <2>1, <4>1 DEF vars, chipVars, Dull
    <3>4. LinkInv'
      BY <3>3, DullSend, DullReceive DEF LinkInv
    <3> QED
      BY <3>1, <3>2, <3>4
  <2>2. CASE Next /\ (HostBegins => QuietLine)
    BY <2>2, ChipStep, LinkStep, TypeStep
  <2> QED
    BY <2>1, <2>2
<1>3. QInv => SuccessIsTrue
  BY DEF LinkInv, SendInv, ReceiveInv, SuccessIsTrue, Complete
<1> QED
  BY <1>1, <1>2, <1>3, PTL DEF Spec

=============================================================================
