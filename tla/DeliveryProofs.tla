--------------------------- MODULE DeliveryProofs ---------------------------
(***************************************************************************)
(* What a TeeStream delivers and reports, for any consumers, callers of    *)
(* Stop, capacities and inputs: types, DeliveredToTheEnd, ReadErrReported  *)
(* and ReadAheadBounded.                                                   *)
(***************************************************************************)
EXTENDS ContractProofs

(* The locals of Run and of the reader that no other invariant speaks of.  *)
LocalsInv ==
  /\ rpc \in {"idle", "start", "select", "ctxStop", "send", "drain", "finalStop", "done"}
  /\ kpc \in {"none", "read", "part", "poll", "err", "exit", "ended"}
  /\ remove \subseteq Pipes /\ todo \subseteq Pipes
  /\ readErr \in {"nil", "stopped", "ctx", "read", "noProgress"}
  /\ emptyReads \in 0..MaxEmptyReads /\ emptySeen \in 0..MaxEmptyReads
  /\ kpc \in {"none", "read", "part", "poll"} => emptyReads = 0
  /\ isStopped \in BOOLEAN /\ innerClosed \in BOOLEAN
  /\ inputClosed \in BOOLEAN /\ ctxDone \in BOOLEAN

(* Who may have set the stopped flag: a user, or Run on its way out.       *)
CauseInv ==
  /\ stopPc["run"] # "none" => rpc \in {"ctxStop", "finalStop"}
  /\ rpc = "ctxStop" => readErr = "ctx"
  /\ readErr = "ctx" => ctxDone
  /\ isStopped => UserStops \/ readErr = "ctx" \/ rpc \in {"finalStop", "done"}

(* A reader that is through has handed everything over, unless it was      *)
(* stopped; before Run leaves its loop its error waits to be received.     *)
EndInv ==
  /\ kpc = "err" => buf.to = nread
  /\ kpc \in {"exit", "ended"} => buf.to = nread \/ innerClosed
  /\ rpc \in {"idle", "start", "select", "send"} /\ sendErr # "nil" => kpc = "err"

(* Run left its loop for nothing else than a Stop or the context: then no  *)
(* consumer stayed, or the reader is through, its error is kept, and each  *)
(* consumer that stayed was sent all there was.                            *)
LeftInv ==
  rpc \in {"ctxStop", "drain", "finalStop", "done"} =>
    \/ UserStops \/ readErr = "ctx"
    \/ current = {} /\ AllGone
    \/ /\ kpc \in {"exit", "ended"} /\ (sendErr = "nil" \/ readErr = sendErr)
       /\ \A p \in Pipes : outcome[p] = "ok" => sent[p] = nread

(* The invariants of the other modules, in every state.                    *)
StreamAll == PipeInv /\ StreamInv /\ ReadErrInv /\ GoneInv

(* The invariants of the other modules, which the steps below start from.  *)
THEOREM StreamAllHolds == Spec => []StreamAll
<1>1. Init => StreamAll
  BY StreamInitInv, ReadErrInit DEF StreamAll
<1>2. StreamAll /\ [Next]_vars => StreamAll'
  BY NextInv, StepImplements, ReaderInvStep, RoundInvStep, DrainInvStep, StopInvStep,
     ReadErrStep, GoneStep
     DEF StreamInv, StreamAll
<1>3. QED
  BY <1>1, <1>2, PTL DEF Spec

-----------------------------------------------------------------------------
(* Each step leaves the locals of Run and the reader in their types.       *)
LEMMA LocalsStep == StreamAll /\ LocalsInv /\ [Next]_vars => LocalsInv'
<1> SUFFICES ASSUME StreamAll, LocalsInv, [Next]_vars PROVE LocalsInv'
  OBVIOUS
<1> USE DEF LocalsInv
<1>1. CASE Run
  <2>1. CASE RunRefused \/ RunCheck \/ RunStart \/ SeesCtx \/ SeesReaderEnd
               \/ SeesInnerStop \/ EndDrain
    BY <2>1 DEF RunRefused, RunCheck, RunStart, SeesCtx, SeesReaderEnd, SeesInnerStop,
                EndDrain, LeaveLoop, readVars, flagVars, StreamAll, StreamInv, ReaderInv
  <2>6. CASE EndRound
    BY <2>6 DEF EndRound, LeaveLoop, readVars, flagVars
  <2>7. CASE RunAfterStop
    BY <2>7 DEF RunAfterStop, LeaveLoop, readVars
  <2>2. CASE SeesReadErr
    BY <2>2 DEF SeesReadErr, LeaveLoop, flagVars, StreamAll, ReadErrInv
  <2>3. CASE HandOver
    <3>1. partErr \in {"nil", "end", "fail"}
      BY StreamAssumption DEF StreamAll, StreamInv, ReaderInv
    <3>2. QED
      BY <2>3, <3>1 DEF HandOver, AfterPart, flagVars, StreamAll, StreamInv, RoundInv
  <2>4. ASSUME NEW p \in Pipes, OnPipe(p) PROVE LocalsInv'
    BY <2>4 DEF OnPipe, CallGoesOn, WriteDone, WriteStopped, PipeStopped, runVars, readVars,
                flagVars
  <2>5. QED
    BY <1>1, <2>1, <2>2, <2>3, <2>4, <2>6, <2>7 DEF Run
<1>2. ASSUME NEW n \in 0..BufSize, NEW err, ReadReturns(n, err) PROVE LocalsInv'
  <2>1. kpc = "read" /\ emptyReads = 0
    BY <1>2 DEF ReadReturns
  <2>2. emptySeen' \in 0..MaxEmptyReads
    BY <1>2, StreamAssumption DEF ReadReturns
  <2>3. emptyReads' \in 0..MaxEmptyReads /\ kpc' \in {"part", "err"}
        /\ (kpc' = "part" => emptyReads' = 0)
    BY <1>2, <2>1, StreamAssumption DEF ReadReturns
  <2>4. UNCHANGED <<runVars, flagVars>>
    BY <1>2 DEF ReadReturns
  <2>5. QED
    BY <2>2, <2>3, <2>4 DEF runVars, flagVars
<1>3. CASE ReadInput
  BY <1>2, <1>3 DEF ReadInput
<1>4. CASE ReaderOnly
  <2>1. 0 \in 0..BufSize
    BY PipeAssumption
  <2>2. CASE ReadClosedInput
    BY <1>2, <2>1, <2>2 DEF ReadClosedInput
  <2>3. CASE DropPart \/ PollStop \/ ReaderExit
    BY <2>3 DEF DropPart, PollStop, ReaderExit, runVars, flagVars
  <2>4. QED
    BY <1>4, <2>2, <2>3 DEF ReaderOnly
<1>5. ASSUME NEW c \in Callers, Stop(c) PROVE LocalsInv'
  <2>1. CASE StopCalled(c) \/ CloseInner(c)
    BY <2>1 DEF StopCalled, CloseInner, runVars, readVars
  <2>2. CASE RunBeforeStop(c)
    <3>1. inputClosed' \in BOOLEAN
      BY <2>2 DEF RunBeforeStop
    <3>2. QED
      BY <2>2, <3>1 DEF RunBeforeStop, runVars, readVars
  <2>3. QED
    BY <1>5, <2>1, <2>2 DEF Stop, StopGoesOn
<1>6. ASSUME NEW p \in Pipes, ConsumerSide(p) PROVE LocalsInv'
  BY <1>6 DEF ConsumerSide, runVars, readVars, flagVars
<1>7. CASE CancelCtx
  BY <1>7 DEF CancelCtx, runVars, readVars, flagVars
<1>8. CASE Terminated \/ UNCHANGED vars
  BY <1>8 DEF Terminated, vars, runVars, readVars, flagVars
<1>9. QED
  BY <1>1, <1>3, <1>4, <1>5, <1>6, <1>7, <1>8 DEF Next

(* A user's call of Stop is not taken back.                                *)
LEMMA UserStopsStay ==
  ASSUME StreamAll, [Next]_vars, UserStops
  PROVE  UserStops'
<1>1. \A c \in Users : c # "run" /\ c \in Callers
  BY StreamAssumption DEF Callers
<1>2. stopPc \in [Callers -> {"none", "before", "close", "returned"}]
  BY DEF StreamAll, StreamInv, StopInv
<1>3. PICK u \in Users : stopPc[u] # "none"
  BY DEF UserStops
<1>4. CASE RunAfterStop
  BY <1>1, <1>2, <1>3, <1>4 DEF RunAfterStop, UserStops
<1>5. ASSUME NEW c \in Callers, Stop(c) PROVE UserStops'
  BY <1>1, <1>2, <1>3, <1>5
     DEF Stop, StopGoesOn, StopCalled, RunBeforeStop, CloseInner, UserStops
<1>6. CASE stopPc' = stopPc
  BY <1>6 DEF UserStops
<1>7. ASSUME NEW p \in Pipes, OnPipe(p) \/ ConsumerSide(p) PROVE stopPc' = stopPc
  BY <1>7 DEF OnPipe, CallGoesOn, WriteDone, WriteStopped, PipeStopped, ConsumerSide, flagVars
<1>8. CASE RunRefused \/ RunCheck \/ RunStart \/ SeesCtx \/ SeesReadErr \/ SeesReaderEnd
             \/ SeesInnerStop \/ HandOver \/ EndRound \/ EndDrain
  BY <1>6, <1>8 DEF RunRefused, RunCheck, RunStart, SeesCtx, SeesReadErr, SeesReaderEnd,
                    SeesInnerStop, HandOver, EndRound, EndDrain, flagVars
<1>9. CASE CancelCtx \/ ReadInput \/ ReaderOnly \/ Terminated \/ UNCHANGED vars
  BY <1>6, <1>9 DEF CancelCtx, ReadInput, ReaderOnly, ReadClosedInput, ReadReturns, DropPart,
                    PollStop, ReaderExit, Terminated, vars, flagVars
<1>10. QED
  BY <1>4, <1>5, <1>6, <1>7, <1>8, <1>9 DEF Next, Run

(* Each step keeps what is known of why Run stops.                         *)
LEMMA CauseStep == StreamAll /\ CauseInv /\ [Next]_vars => CauseInv'
<1> SUFFICES ASSUME StreamAll, CauseInv, [Next]_vars PROVE CauseInv'
  OBVIOUS
<1> USE DEF CauseInv
<1>0. UserStops => UserStops'
  BY UserStopsStay
<1>1. stopPc \in [Callers -> {"none", "before", "close", "returned"}] /\ "run" \in Callers
  BY DEF StreamAll, StreamInv, StopInv, Callers
<1>2. CASE Run
  <2>1. CASE RunRefused \/ RunCheck \/ RunStart \/ SeesCtx \/ SeesReaderEnd
               \/ SeesInnerStop \/ EndDrain \/ HandOver \/ EndRound
    BY <1>0, <2>1 DEF RunRefused, RunCheck, RunStart, SeesCtx, SeesReaderEnd, SeesInnerStop,
                EndDrain, HandOver, EndRound, LeaveLoop, flagVars
  <2>2. CASE SeesReadErr
    BY <1>0, <2>2 DEF SeesReadErr, LeaveLoop, flagVars, StreamAll, ReadErrInv
  <2>3. CASE RunAfterStop
    BY <1>0, <1>1, <2>3 DEF RunAfterStop, LeaveLoop
  <2>4. ASSUME NEW p \in Pipes, OnPipe(p) PROVE CauseInv'
    BY <1>0, <2>4 DEF OnPipe, CallGoesOn, WriteDone, WriteStopped, PipeStopped, runVars,
                      flagVars
  <2>5. QED
    BY <1>2, <2>1, <2>2, <2>3, <2>4 DEF Run
<1>3. ASSUME NEW c \in Callers, StopCalled(c) PROVE CauseInv'
  <2>1. CASE c = "run"
    BY <1>0, <1>1, <1>3, <2>1 DEF StopCalled, runVars
  <2>2. CASE c \in Users /\ c # "run"
    <3>1. stopPc'[c] # "none" /\ stopPc'["run"] = stopPc["run"]
      BY <1>1, <1>3, <2>2 DEF StopCalled
    <3>2. UserStops'
      BY <2>2, <3>1 DEF UserStops
    <3>3. QED
      BY <1>3, <3>1, <3>2 DEF StopCalled, runVars
  <2>3. QED
    BY <2>1, <2>2 DEF Callers
<1>4. ASSUME NEW c \in Callers, StopGoesOn(c) PROVE CauseInv'
  BY <1>0, <1>1, <1>4 DEF StopGoesOn, RunBeforeStop, CloseInner, runVars
<1>5. CASE CancelCtx \/ ReadInput \/ ReaderOnly \/ Terminated \/ UNCHANGED vars
  BY <1>0, <1>5 DEF CancelCtx, ReadInput, ReaderOnly, ReadClosedInput, ReadReturns, DropPart,
                    PollStop, ReaderExit, Terminated, vars, runVars, flagVars
<1>6. ASSUME NEW p \in Pipes, ConsumerSide(p) PROVE CauseInv'
  BY <1>0, <1>6 DEF ConsumerSide, runVars, flagVars
<1>7. QED
  BY <1>2, <1>3, <1>4, <1>5, <1>6 DEF Next, Stop

-----------------------------------------------------------------------------
(* Outside a round of sendToAll nothing is sent.                           *)
LEMMA SentStays ==
  ASSUME [Next]_vars, rpc # "send"
  PROVE  sent' = sent
<1>1. ASSUME NEW p \in Pipes, OnPipe(p) PROVE sent' = sent
  BY <1>1 DEF OnPipe, CallGoesOn, WriteDone, WriteStopped, PipeStopped,
              StopEnter, StopCheck, StopWait, StopClose, StopReturn, StopAgain, PushSeesEnd,
              BeginStop, chanVars, pipeVars
<1>2. ASSUME NEW p \in Pipes, ConsumerSide(p) PROVE sent' = sent
  BY <1>2, CycleFrame DEF ConsumerSide
<1>3. CASE UNCHANGED pipeVars
  BY <1>3 DEF pipeVars
<1>4. CASE Run
  BY <1>1, <1>3, <1>4
     DEF Run, RunRefused, RunCheck, RunStart, SeesCtx, SeesReadErr, SeesReaderEnd,
         SeesInnerStop, HandOver, EndRound, EndDrain, RunAfterStop
<1>5. ASSUME NEW c \in Callers, Stop(c) PROVE sent' = sent
  BY <1>3, <1>5 DEF Stop, StopGoesOn, StopCalled, RunBeforeStop, CloseInner
<1>6. CASE CancelCtx \/ ReadInput \/ ReaderOnly \/ Terminated \/ UNCHANGED vars
  BY <1>3, <1>6 DEF CancelCtx, ReadInput, ReaderOnly, ReadClosedInput, ReadReturns, DropPart,
                    PollStop, ReaderExit, Terminated, vars
<1>7. QED
  BY <1>2, <1>4, <1>5, <1>6 DEF Next

(* Each step keeps what is known of the end of the input.                  *)
LEMMA EndStep == StreamAll /\ LocalsInv /\ EndInv /\ [Next]_vars => EndInv'
<1> SUFFICES ASSUME StreamAll, LocalsInv, EndInv, [Next]_vars PROVE EndInv'
  OBVIOUS
<1> USE DEF EndInv
<1>1. CASE Run
  <2>1. CASE RunRefused \/ RunCheck \/ RunStart \/ SeesCtx \/ SeesReaderEnd \/ SeesReadErr
               \/ SeesInnerStop \/ EndDrain \/ EndRound \/ RunAfterStop
    BY <2>1 DEF RunRefused, RunCheck, RunStart, SeesCtx, SeesReaderEnd, SeesReadErr,
                SeesInnerStop, EndDrain, EndRound, RunAfterStop, LeaveLoop, readVars,
                flagVars, StreamAll, StreamInv, ReaderInv
  <2>2. CASE HandOver
    <3>1. partErr \in {"nil", "end", "fail"} /\ part.to = nread
      BY <2>2, StreamAssumption DEF HandOver, StreamAll, StreamInv, ReaderInv
    <3>2. sendErr = "nil"
      BY <2>2 DEF HandOver
    <3>3. QED
      BY <2>2, <3>1, <3>2 DEF HandOver, AfterPart
  <2>3. ASSUME NEW p \in Pipes, OnPipe(p) PROVE EndInv'
    BY <2>3 DEF OnPipe, CallGoesOn, WriteDone, WriteStopped, PipeStopped, runVars, readVars,
                flagVars
  <2>4. QED
    BY <1>1, <2>1, <2>2, <2>3 DEF Run
<1>2. ASSUME NEW n \in 0..BufSize, NEW err, ReadReturns(n, err) PROVE EndInv'
  <2>1. kpc = "read" /\ UNCHANGED runVars /\ nread' = nread + n
        /\ \/ kpc' = "part" /\ sendErr' = sendErr
           \/ kpc' = "err" /\ n = 0
    BY <1>2 DEF ReadReturns
  <2>2. buf.to = nread /\ nread \in Nat
    BY <2>1, PipeAssumption DEF StreamAll, StreamInv, ReaderInv
  <2>3. QED
    BY <2>1, <2>2 DEF runVars
<1>3. CASE ReadInput
  BY <1>2, <1>3 DEF ReadInput
<1>4. CASE ReaderOnly
  <2>1. 0 \in 0..BufSize
    BY PipeAssumption
  <2>2. CASE ReadClosedInput
    BY <1>2, <2>1, <2>2 DEF ReadClosedInput
  <2>3. CASE DropPart \/ PollStop \/ ReaderExit
    BY <2>3 DEF DropPart, PollStop, ReaderExit, runVars, flagVars, StreamAll, StreamInv,
                ReaderInv
  <2>4. QED
    BY <1>4, <2>2, <2>3 DEF ReaderOnly
<1>5. ASSUME NEW c \in Callers, Stop(c) PROVE EndInv'
  BY <1>5 DEF Stop, StopGoesOn, StopCalled, RunBeforeStop, CloseInner, runVars, readVars
<1>6. ASSUME NEW p \in Pipes, ConsumerSide(p) PROVE EndInv'
  BY <1>6 DEF ConsumerSide, runVars, readVars, flagVars
<1>7. CASE CancelCtx \/ Terminated \/ UNCHANGED vars
  BY <1>7 DEF CancelCtx, Terminated, vars, runVars, readVars, flagVars
<1>8. QED
  BY <1>1, <1>3, <1>4, <1>5, <1>6, <1>7 DEF Next

(* Run is in its loop: an inner stop is a user's.                          *)
LEMMA StopIsUsers ==
  ASSUME StreamAll, CauseInv, isStopped \/ innerClosed, rpc \in {"idle", "start", "select", "send"}
  PROVE  UserStops
BY DEF StreamAll, StreamInv, StopInv, ReadErrInv, CauseInv

(* Each step keeps what is known of a Run that has left its loop.          *)
LEMMA LeftStep ==
  StreamAll /\ LocalsInv /\ CauseInv /\ EndInv /\ LeftInv /\ [Next]_vars => LeftInv'
<1> SUFFICES ASSUME StreamAll, LocalsInv, CauseInv, EndInv, LeftInv, [Next]_vars
             PROVE  LeftInv'
  OBVIOUS
<1>0. UserStops => UserStops'
  BY UserStopsStay
<1>1. \A p \in Pipes : outcome'[p] = "ok" => outcome[p] = "ok"
  BY OutcomeStays DEF StreamAll
<1>2. AllGone => AllGone'
  BY <1>1 DEF AllGone
<1>3. ASSUME rpc \in {"ctxStop", "drain", "finalStop", "done"},
             readErr' = readErr, current' = current,
             kpc \in {"exit", "ended"} => kpc' \in {"exit", "ended"} /\ UNCHANGED <<sendErr, nread>>
      PROVE  LeftInv'
  <2>1. sent' = sent
    BY <1>3, SentStays
  <2>2. QED
    BY <1>0, <1>1, <1>2, <1>3, <2>1 DEF LeftInv
<1>4. ASSUME rpc \in {"idle", "start", "select", "send"},
             rpc' \in {"idle", "start", "select", "send"}
      PROVE  LeftInv'
  BY <1>4 DEF LeftInv
<1>5. CASE Run
  <2>1. CASE RunRefused
    <3>1. UserStops
      BY <2>1, StopIsUsers DEF RunRefused
    <3>2. QED
      BY <1>0, <3>1 DEF LeftInv
  <2>2. CASE RunCheck \/ RunStart \/ HandOver
    BY <1>4, <2>2 DEF RunCheck, RunStart, HandOver
  <2>3. CASE SeesCtx
    BY <2>3 DEF SeesCtx, LeftInv
  <2>4. CASE SeesInnerStop
    <3>1. UserStops
      BY <2>4, StopIsUsers DEF SeesInnerStop
    <3>2. QED
      BY <1>0, <3>1 DEF LeftInv
  <2>5. CASE SeesReadErr \/ SeesReaderEnd
    <3>1. rpc = "select" /\ kpc \in {"err", "ended"}
      BY <2>5 DEF SeesReadErr, SeesReaderEnd
    <3>2. buf.to = nread \/ UserStops
      BY <3>1, StopIsUsers DEF EndInv
    <3>3. \A p \in Pipes : outcome[p] = "ok" => sent[p] = buf.to
      BY <3>1 DEF StreamAll, StreamInv, RoundInv, GoneInv
    <3>4. sent' = sent /\ nread' = nread /\ outcome' = outcome
      BY <2>5 DEF SeesReadErr, SeesReaderEnd, pipeVars, readVars
    <3>5. kpc' \in {"exit", "ended"} /\ (sendErr' = "nil" \/ readErr' = sendErr')
      BY <2>5, <3>1 DEF SeesReadErr, SeesReaderEnd, EndInv, readVars
    <3>6. QED
      BY <1>0, <3>2, <3>3, <3>4, <3>5 DEF LeftInv
  <2>6. CASE EndRound
    <3>1. CASE current' = {}
      <4>1. AllGone
        BY <2>6, <3>1 DEF EndRound, StreamAll, GoneInv, AllGone
      <4>2. QED
        BY <1>2, <3>1, <4>1 DEF LeftInv
    <3>2. CASE current' # {}
      BY <1>4, <2>6, <3>2 DEF EndRound
    <3>3. QED
      BY <3>1, <3>2
  <2>7. CASE EndDrain \/ RunAfterStop
    BY <1>3, <2>7 DEF EndDrain, RunAfterStop, readVars
  <2>8. ASSUME NEW p \in Pipes, OnPipe(p) PROVE LeftInv'
    <3>1. rpc' = rpc /\ readErr' = readErr /\ current' = current /\ UNCHANGED readVars
          /\ rpc \in {"send", "drain"}
      BY <2>8 DEF OnPipe, CallGoesOn, WriteDone, WriteStopped, PipeStopped, runVars
    <3>2. QED
      BY <1>3, <1>4, <3>1 DEF readVars
  <2>9. QED
    BY <1>5, <2>1, <2>2, <2>3, <2>4, <2>5, <2>6, <2>7, <2>8 DEF Run
<1>6. ASSUME UNCHANGED runVars, UNCHANGED readVars PROVE LeftInv'
  BY <1>3, <1>4, <1>6 DEF runVars, readVars, LocalsInv
<1>7. ASSUME NEW c \in Callers, Stop(c) PROVE LeftInv'
  BY <1>6, <1>7 DEF Stop, StopGoesOn, StopCalled, RunBeforeStop, CloseInner
<1>8. CASE ReadInput \/ ReaderOnly
  <2>1. /\ UNCHANGED runVars
        /\ kpc \in {"exit", "ended"} =>
             kpc' \in {"exit", "ended"} /\ UNCHANGED <<sendErr, nread>>
    BY <1>8 DEF ReadInput, ReaderOnly, ReadClosedInput, ReadReturns, DropPart, PollStop,
                ReaderExit
  <2>2. QED
    BY <1>3, <1>4, <2>1 DEF runVars, LocalsInv
<1>9. ASSUME NEW p \in Pipes, ConsumerSide(p) PROVE LeftInv'
  BY <1>6, <1>9 DEF ConsumerSide
<1>10. CASE CancelCtx \/ Terminated \/ UNCHANGED vars
  BY <1>6, <1>10 DEF CancelCtx, Terminated, vars
<1>11. QED
  BY <1>5, <1>7, <1>8, <1>9, <1>10 DEF Next

-----------------------------------------------------------------------------
(* The bound on what is read ahead.  A chunk is no longer than the read    *)
(* buffer, so what is behind the i-th of n chunks in a channel is at most  *)
(* n - i buffers.                                                          *)
AheadInv(p) ==
  /\ \A i \in 1..Len(writeCh[p]) :
       /\ Length(writeCh[p][i]) <= BufSize
       /\ sent[p] - writeCh[p][i].to <= BufSize * (Len(writeCh[p]) - i)
  /\ cycle[p] = "write" => Length(data[p]) <= BufSize

(* The reader is at most a part ahead of Run, and outside a round the      *)
(* pipes of the list have what Run has.                                    *)
BufInv ==
  /\ buf.to <= nread /\ nread - buf.to <= BufSize
  /\ rpc # "send" => \A p \in current : sent[p] = buf.to

(* One factor more is one summand more.                                    *)
LEMMA TimesStep ==
  ASSUME NEW b \in Nat, NEW k \in Int
  PROVE  b * (k + 1) = b * k + b
OBVIOUS

(* A larger factor makes no smaller a product.                             *)
LEMMA TimesMono ==
  ASSUME NEW b \in Nat, NEW j \in Nat, NEW k \in Nat, j <= k
  PROVE  b * j <= b * k /\ b * j \in Nat
OBVIOUS

(* Distances add up.                                                       *)
LEMMA Behind ==
  ASSUME NEW t \in Int, NEW s \in Int, NEW u \in Int, NEW b \in Int, NEW d \in Int,
         s - t <= b, u - s <= d
  PROVE  u - t <= b + d
OBVIOUS

(* A chunk that follows what was sent, at the end of the channel.          *)
LEMMA PushKeepsAhead ==
  ASSUME NEW p \in Pipes, NEW c \in Offers(p), AheadInv(p), writeCh[p] \in Seq(Chunk),
         sent[p] \in Nat, writeCh'[p] = Append(writeCh[p], c), sent'[p] = c.to,
         UNCHANGED <<cycle, data>>
  PROVE  AheadInv(p)'
<1> DEFINE ch == writeCh[p]
<1>1. Len(ch) \in Nat /\ Len(ch') = Len(ch) + 1 /\ ch'[Len(ch) + 1] = c
      /\ \A i \in 1..Len(ch) : ch'[i] = ch[i] /\ ch[i] \in Chunk
  OBVIOUS
<1>2. c.from = sent[p] + 1 /\ c.to \in Nat /\ Length(c) <= BufSize /\ c.to - sent[p] <= BufSize
  BY PipeAssumption, SMTT(30) DEF Offers, Length, Chunk
<1>3. ASSUME NEW i \in 1..Len(ch')
      PROVE  /\ Length(ch'[i]) <= BufSize
             /\ sent'[p] - ch'[i].to <= BufSize * (Len(ch') - i)
  <2>1. CASE i = Len(ch) + 1
    <3>1. BufSize * (Len(ch') - i) = 0
      BY <1>1, <2>1, PipeAssumption
    <3>2. QED
      BY <1>1, <1>2, <2>1, <3>1
  <2>2. CASE i \in 1..Len(ch)
    <3>1. Length(ch[i]) <= BufSize /\ sent[p] - ch[i].to <= BufSize * (Len(ch) - i)
      BY <2>2 DEF AheadInv
    <3>2. BufSize * ((Len(ch) - i) + 1) = BufSize * (Len(ch) - i) + BufSize
      BY <1>1, <2>2, TimesStep, PipeAssumption
    <3>3. (Len(ch) - i) + 1 = Len(ch') - i
      BY <1>1, <2>2
    <3>4. ch'[i] = ch[i] /\ ch[i].to \in Int /\ BufSize * (Len(ch) - i) \in Int
      BY <1>1, <2>2, PipeAssumption DEF Chunk
    <3>5. sent[p] \in Int /\ c.to \in Int /\ BufSize \in Int
      BY <1>2, PipeAssumption
    <3>6. c.to - ch[i].to <= BufSize * (Len(ch) - i) + BufSize
      BY <1>2, <3>1, <3>4, <3>5, Behind
    <3>7. QED
      BY <3>1, <3>2, <3>3, <3>4, <3>6
  <2>3. QED
    BY <1>1, <2>1, <2>2
<1>4. QED
  BY <1>3 DEF AheadInv, Length

(* Each step keeps a chunk i from the end of the channel i buffers back.   *)
LEMMA AheadStep ==
  ASSUME PipeInv, NEW p \in Pipes, AheadInv(p), Step(p)
  PROVE  AheadInv(p)'
<1> USE DEF PipeInv, PipeVarsOK, chanVars, stopVars, consVars, pipeVars
<1>0. ASSUME UNCHANGED <<writeCh, sent>>,
             cycle'[p] = "write" => cycle[p] = "write" /\ data' = data
      PROVE  AheadInv(p)'
  BY <1>0 DEF AheadInv, Length
<1>1. CASE Begin(p)
  BY <1>0, <1>1 DEF Begin, StopEnter, StopAgain, WriteRefused, WriteSeesError, WriteEnter,
                    BeginStop
<1>2. CASE StopCheck(p) \/ StopWait(p) \/ StopClose(p) \/ StopReturn(p) \/ PushSeesEnd(p)
  BY <1>0, <1>2 DEF StopCheck, StopWait, StopClose, StopReturn, PushSeesEnd, BeginStop
<1>3. ASSUME NEW c \in Offers(p), PushBuffered(p, c) PROVE AheadInv(p)'
  <2>1. sent'[p] = c.to /\ writeCh'[p] = Append(writeCh[p], c) /\ UNCHANGED <<cycle, data>>
    BY <1>3 DEF PushBuffered
  <2>2. writeCh[p] \in Seq(Chunk) /\ sent[p] \in Nat
    OBVIOUS
  <2>3. QED
    BY <2>1, <2>2, PushKeepsAhead
<1>4. ASSUME NEW c \in Offers(p), PushDirect(p, c) PROVE AheadInv(p)'
  <2>1. writeCh[p] = <<>> /\ writeCh' = writeCh /\ data'[p] = c
    BY <1>4 DEF PushDirect, ChainInv
  <2>2. Length(c) <= BufSize
    BY PipeAssumption DEF Offers, Length, Chunk
  <2>3. QED
    BY <2>1, <2>2 DEF AheadInv, Length
<1>5. CASE Receive(p)
  <2> DEFINE ch == writeCh[p]
  <2>1. ch \in Seq(Chunk) /\ ch # <<>> /\ ch' = Tail(ch) /\ data'[p] = ch[1] /\ sent' = sent
    BY <1>5 DEF Receive
  <2>2. Len(ch) \in Nat /\ Len(ch) > 0 /\ Len(ch') = Len(ch) - 1
        /\ \A i \in 1..Len(ch') : ch'[i] = ch[i + 1]
    BY <2>1
  <2>3. ASSUME NEW i \in 1..Len(ch')
        PROVE  /\ Length(ch'[i]) <= BufSize
               /\ sent'[p] - ch'[i].to <= BufSize * (Len(ch') - i)
    <3>1. i + 1 \in 1..Len(ch) /\ Len(ch') - i = Len(ch) - (i + 1) /\ ch'[i] = ch[i + 1]
      BY <2>2
    <3>2. QED
      BY <2>1, <3>1 DEF AheadInv
  <2>4. Length(ch[1]) <= BufSize
    BY <2>2 DEF AheadInv
  <2>5. QED
    BY <2>1, <2>3, <2>4 DEF AheadInv, Length
<1>6. CASE ConsumerTakes(p)
  <2>1. PICK n \in 1..Length(data[p]) : data'[p] = [data[p] EXCEPT !.from = @ + n]
    BY <1>6 DEF ConsumerTakes
  <2>2. data[p] \in Chunk
    OBVIOUS
  <2>3. Length(data[p]') <= Length(data[p]) /\ Length(data[p]) \in Int /\ Length(data[p]') \in Int
    BY <2>1, <2>2 DEF Length, Chunk
  <2>4. cycle[p] = "write" /\ UNCHANGED <<writeCh, sent>>
    BY <1>6 DEF ConsumerTakes
  <2>5. QED
    BY <2>3, <2>4, PipeAssumption DEF AheadInv, Length
<1>7. CASE ReceiveClosed(p) \/ ConsumerDone(p) \/ ConsumerFails(p) \/ SetWriteErr(p)
             \/ CloseEnd(p)
  BY <1>0, <1>7 DEF ReceiveClosed, ConsumerDone, ConsumerFails, SetWriteErr, CloseEnd
<1>8. QED
  BY <1>1, <1>2, <1>3, <1>4, <1>5, <1>6, <1>7 DEF Step, Finish, Push, Cycle, Consume

(* What a pipe has and its consumer does not: the channel and one chunk.   *)
LEMMA PipeAhead ==
  ASSUME PipeInv, NEW p \in Pipes, AheadInv(p), outcome[p] = "ok"
  PROVE  sent[p] - accepted[p] <= BufSize * (Cap + 1)
<1> DEFINE ch == writeCh[p]
<1>1. /\ ch \in Seq(Chunk) /\ data[p] \in Chunk /\ accepted[p] \in Nat /\ sent[p] \in Nat
      /\ cycle[p] \in {"recv", "write", "fail", "end", "done"}
  BY DEF PipeInv, PipeVarsOK
<1>2. ChainInv(p) /\ OutcomeInv(p) /\ cycle[p] # "fail"
  BY DEF PipeInv, OutcomeInv
<1>3. Cap \in Nat /\ Len(ch) \in Nat /\ Len(ch) <= Cap
  BY <1>1, <1>2, PipeAssumption DEF Cap, ChainInv
<1>4. BufSize * (Cap + 1) = BufSize * Cap + BufSize /\ BufSize * Len(ch) <= BufSize * Cap
      /\ BufSize * Len(ch) \in Nat /\ BufSize * Cap \in Nat
  BY <1>3, TimesStep, TimesMono, PipeAssumption
<1>5. CASE cycle[p] \in {"recv", "write"}
  <2>1. Taken(p) \in Int /\ Taken(p) - accepted[p] <= BufSize
    <3>1. CASE cycle[p] = "write"
      BY <1>1, <1>2, <3>1 DEF Taken, AheadInv, ChainInv, Length, Chunk
    <3>2. CASE cycle[p] = "recv"
      BY <1>1, <3>2, PipeAssumption DEF Taken
    <3>3. QED
      BY <1>5, <3>1, <3>2
  <2>2. sent[p] - Taken(p) <= BufSize * Len(ch)
    <3>1. CASE ch = <<>>
      BY <1>1, <1>2, <1>4, <1>5, <2>1, <3>1 DEF ChainInv
    <3>2. CASE ch # <<>>
      <4>1. 1 \in 1..Len(ch) /\ ch[1] \in Chunk /\ Len(ch) - 1 \in Nat
        BY <1>1, <1>3, <3>2
      <4>2. ch[1].from = Taken(p) + 1
        BY <1>2, <1>5, <3>2 DEF ChainInv
      <4>3. Length(ch[1]) <= BufSize /\ sent[p] - ch[1].to <= BufSize * (Len(ch) - 1)
        BY <4>1 DEF AheadInv
      <4>4. BufSize * ((Len(ch) - 1) + 1) = BufSize * (Len(ch) - 1) + BufSize
            /\ BufSize * (Len(ch) - 1) \in Nat
        BY <4>1, TimesStep, TimesMono, PipeAssumption
      <4>5. (Len(ch) - 1) + 1 = Len(ch)
        BY <1>3
      <4>6. ch[1].to \in Int /\ ch[1].from \in Int /\ Length(ch[1]) = ch[1].to - ch[1].from + 1
        BY <4>1 DEF Chunk, Length
      <4>7. ch[1].to - Taken(p) <= BufSize /\ BufSize \in Int /\ sent[p] \in Int
        <5>1. BufSize \in Int /\ sent[p] \in Int
          BY <1>1, PipeAssumption
        <5>2. QED
          BY ONLY <2>1, <4>2, <4>3, <4>6, <5>1
      <4>8. sent[p] - Taken(p) <= BufSize + BufSize * (Len(ch) - 1)
        BY <2>1, <4>3, <4>4, <4>6, <4>7, Behind
      <4>9. QED
        BY <4>4, <4>5, <4>7, <4>8
    <3>3. QED
      BY <3>1, <3>2
  <2>3. QED
    BY <1>1, <1>4, <2>1, <2>2, PipeAssumption
<1>6. CASE cycle[p] \in {"end", "done"}
  <2>1. sent[p] - accepted[p] = 0
    BY <1>1, <1>2, <1>6 DEF ChainInv
  <2>2. QED
    BY <1>4, <2>1, PipeAssumption
<1>7. QED
  BY <1>1, <1>2, <1>5, <1>6

(* Each step keeps the reader at most one buffer ahead of Run.             *)
LEMMA BufStep == StreamAll /\ LocalsInv /\ BufInv /\ [Next]_vars => BufInv'
<1> SUFFICES ASSUME StreamAll, LocalsInv, BufInv, [Next]_vars PROVE BufInv'
  OBVIOUS
<1> USE DEF BufInv
<1>1. ASSUME rpc # "send", rpc' # "send", UNCHANGED <<buf, nread, current>> PROVE BufInv'
  BY <1>1, SentStays
<1>2. ASSUME rpc = "send", rpc' = "send", UNCHANGED <<buf, nread>> PROVE BufInv'
  BY <1>2
<1>3. CASE Run
  <2>1. CASE RunRefused \/ RunCheck \/ RunStart \/ SeesCtx \/ SeesReaderEnd \/ SeesReadErr
               \/ SeesInnerStop \/ EndDrain \/ RunAfterStop
    BY <1>1, <2>1 DEF RunRefused, RunCheck, RunStart, SeesCtx, SeesReaderEnd, SeesReadErr,
                SeesInnerStop, EndDrain, RunAfterStop, LeaveLoop, readVars
  <2>2. CASE HandOver
    <3>1. part.to = nread /\ nread \in Nat
      BY <2>2, PipeAssumption DEF HandOver, StreamAll, StreamInv, ReaderInv
    <3>2. QED
      BY <2>2, <3>1, PipeAssumption DEF HandOver
  <2>3. CASE EndRound
    <3>1. \A p \in current \ remove : sent[p] = buf.to
      BY <2>3 DEF EndRound, StreamAll, StreamInv, RoundInv
    <3>2. QED
      BY <2>3, <3>1 DEF EndRound, pipeVars, readVars
  <2>4. ASSUME NEW p \in Pipes, OnPipe(p) PROVE BufInv'
    BY <1>1, <1>2, <2>4 DEF OnPipe, CallGoesOn, WriteDone, WriteStopped, PipeStopped, runVars,
                readVars
  <2>5. QED
    BY <1>3, <2>1, <2>2, <2>3, <2>4 DEF Run
<1>4. ASSUME NEW n \in 0..BufSize, NEW err, ReadReturns(n, err) PROVE BufInv'
  <2>1. kpc = "read" /\ UNCHANGED runVars /\ nread' = nread + n /\ sent' = sent
    BY <1>4 DEF ReadReturns, pipeVars
  <2>2. buf.to = nread /\ nread \in Nat
    BY <2>1, PipeAssumption DEF StreamAll, StreamInv, ReaderInv
  <2>3. QED
    BY <2>1, <2>2, PipeAssumption DEF runVars
<1>5. CASE ReadInput
  BY <1>4, <1>5 DEF ReadInput
<1>6. CASE ReaderOnly
  <2>1. 0 \in 0..BufSize
    BY PipeAssumption
  <2>2. CASE ReadClosedInput
    BY <1>4, <2>1, <2>2 DEF ReadClosedInput
  <2>3. CASE DropPart \/ PollStop \/ ReaderExit
    BY <1>1, <1>2, <2>3 DEF DropPart, PollStop, ReaderExit, runVars
  <2>4. QED
    BY <1>6, <2>2, <2>3 DEF ReaderOnly
<1>7. ASSUME NEW c \in Callers, Stop(c) PROVE BufInv'
  BY <1>1, <1>2, <1>7
     DEF Stop, StopGoesOn, StopCalled, RunBeforeStop, CloseInner, runVars, readVars
<1>8. ASSUME NEW p \in Pipes, ConsumerSide(p) PROVE BufInv'
  BY <1>1, <1>2, <1>8 DEF ConsumerSide, runVars, readVars
<1>9. CASE CancelCtx \/ Terminated \/ UNCHANGED vars
  BY <1>1, <1>2, <1>9 DEF CancelCtx, Terminated, vars, runVars, readVars
<1>10. QED
  BY <1>3, <1>5, <1>6, <1>7, <1>8, <1>9 DEF Next

-----------------------------------------------------------------------------
DeliveryInv ==
  /\ StreamAll /\ LocalsInv /\ CauseInv /\ EndInv /\ LeftInv /\ BufInv
  /\ \A p \in Pipes : AheadInv(p)

(* It holds at the start.                                                  *)
LEMMA DeliveryInit == Init => DeliveryInv
<1> SUFFICES ASSUME Init PROVE DeliveryInv
  OBVIOUS
<1>1. StreamAll
  BY StreamInitInv, ReadErrInit DEF StreamAll
<1>2. LocalsInv
  <2>1. emptyReads \in 0..MaxEmptyReads /\ emptySeen \in 0..MaxEmptyReads
    BY StreamAssumption DEF Init
  <2>2. QED
    BY <2>1 DEF Init, LocalsInv
<1>3. CauseInv
  BY DEF Init, CauseInv, Callers
<1>4. EndInv /\ LeftInv
  BY DEF Init, EndInv, LeftInv
<1>5. BufInv
  BY PipeAssumption DEF Init, PipeInit, BufInv, NoChunk
<1>6. \A p \in Pipes : AheadInv(p)
  <2> SUFFICES ASSUME NEW p \in Pipes PROVE AheadInv(p)
    OBVIOUS
  <2>1. writeCh[p] = <<>> /\ cycle[p] = "recv"
    BY DEF Init, PipeInit
  <2>2. Len(writeCh[p]) = 0
    BY <2>1
  <2>3. QED
    BY <2>1, <2>2 DEF AheadInv
<1>7. QED
  BY <1>1, <1>2, <1>3, <1>4, <1>5, <1>6 DEF DeliveryInv

(* What each step keeps of one pipe it keeps of all.                       *)
LEMMA AheadNext ==
  ASSUME PipeInv, [PipeNext]_pipeVars, \A p \in Pipes : AheadInv(p)
  PROVE  \A p \in Pipes : AheadInv(p)'
<1>1. ASSUME NEW p \in Pipes, NEW q \in Pipes, Step(q) PROVE AheadInv(p)'
  <2>1. CASE p = q
    BY <1>1, <2>1, AheadStep
  <2>2. CASE p # q
    <3>1. /\ writeCh'[p] = writeCh[p] /\ sent'[p] = sent[p]
          /\ cycle'[p] = cycle[p] /\ data'[p] = data[p]
      BY <1>1, <2>2, OthersSame DEF Same
    <3>2. QED
      BY <3>1 DEF AheadInv, Length
  <2>3. QED
    BY <2>1, <2>2
<1>2. CASE UNCHANGED pipeVars
  BY <1>2 DEF pipeVars, AheadInv, Length
<1>3. QED
  BY <1>1, <1>2 DEF PipeNext, Step

(* The invariant behind the theorems below, in every state.                *)
THEOREM DeliveryInvariant == Spec => []DeliveryInv
<1>1. DeliveryInv /\ [Next]_vars => DeliveryInv'
  <2> SUFFICES ASSUME DeliveryInv, [Next]_vars PROVE DeliveryInv'
    OBVIOUS
  <2>1. StreamAll /\ LocalsInv /\ CauseInv /\ EndInv /\ LeftInv /\ BufInv
    BY DEF DeliveryInv
  <2>2. [PipeNext]_pipeVars
    BY <2>1, StepImplements DEF StreamAll, StreamInv
  <2>3. StreamAll'
    BY <2>1, <2>2, NextInv, ReaderInvStep, RoundInvStep, DrainInvStep, StopInvStep,
       ReadErrStep, GoneStep
       DEF StreamInv, StreamAll
  <2>4. LocalsInv' /\ CauseInv' /\ EndInv'
    BY <2>1, LocalsStep, CauseStep, EndStep
  <2>5. LeftInv' /\ BufInv'
    BY <2>1, LeftStep, BufStep
  <2>6. \A p \in Pipes : AheadInv(p)'
    BY <2>1, <2>2, AheadNext DEF DeliveryInv, StreamAll
  <2>7. QED
    BY <2>3, <2>4, <2>5, <2>6 DEF DeliveryInv
<1>2. QED
  BY <1>1, DeliveryInit, PTL DEF Spec

(* Every variable of a TeeStream stays in its type; the count of empty     *)
(* reads never passes its limit (startRead, stream_tee.go:291-372).        *)
THEOREM StreamTypes == Spec => []StreamTypeOK
<1>1. DeliveryInv => StreamTypeOK
  BY DEF DeliveryInv, StreamAll, StreamInv, ReaderInv, RoundInv, DrainInv, StopInv,
         ReadErrInv, LocalsInv, StreamTypeOK
<1>2. QED
  BY <1>1, DeliveryInvariant, PTL

(* A Run that was not cut short has delivered all that the input gave to   *)
(* every consumer that stayed (Run and startRead, stream_tee.go:62-372).   *)
THEOREM DeliversAll == Spec => []DeliveredToTheEnd
<1>1. ASSUME DeliveryInv, rpc = "done", readErr \notin {"stopped", "ctx"}, ~UserStops,
             NEW p \in Pipes, outcome[p] = "ok"
      PROVE  accepted[p] = nread
  <2>1. sent[p] = nread
    BY <1>1 DEF DeliveryInv, LeftInv, AllGone
  <2>2. stopped[p] /\ call[p] = "none"
    BY <1>1 DEF DeliveryInv, StreamAll, StreamInv, DrainInv
  <2>3. cycle[p] \in {"end", "done"}
    BY <1>1, <2>2 DEF DeliveryInv, StreamAll, PipeInv, PhaseInv
  <2>4. accepted[p] = sent[p]
    BY <1>1, <2>3 DEF DeliveryInv, StreamAll, PipeInv, ChainInv
  <2>5. QED
    BY <2>1, <2>4
<1>2. DeliveryInv => DeliveredToTheEnd
  BY <1>1 DEF DeliveredToTheEnd
<1>3. QED
  BY <1>2, DeliveryInvariant, PTL

(* An error of the input is in the results of Run, unless it ended for a   *)
(* reason of its own (select loop of Run, stream_tee.go:178-223).          *)
THEOREM ErrsReported == Spec => []ReadErrReported
<1>1. DeliveryInv => ReadErrReported
  BY DEF DeliveryInv, LeftInv, CauseInv, ReadErrReported
<1>2. QED
  BY <1>1, DeliveryInvariant, PTL

(* The input is read ahead of a live consumer by no more than the channel  *)
(* and three chunks (newPipe, sendToAll and sendPart).                     *)
THEOREM AheadBounded == Spec => []ReadAheadBounded
<1>1. ASSUME DeliveryInv, NEW p \in current, outcome[p] = "ok"
      PROVE  nread - accepted[p] <= BufSize * (Cap + 3)
  <2>1. /\ p \in Pipes /\ PipeInv /\ AheadInv(p)
        /\ buf \in Chunk /\ nread \in Nat /\ sent[p] \in Nat /\ accepted[p] \in Nat
    <3>1. StreamInv /\ PipeInv /\ \A q \in Pipes : AheadInv(q)
      BY <1>1 DEF DeliveryInv, StreamAll
    <3>2. p \in Pipes /\ sent \in [Pipes -> 0..MaxBytes] /\ buf \in Chunk /\ nread \in Nat
      BY <3>1, PipeAssumption DEF StreamInv, RoundInv, ReaderInv
    <3>3. accepted \in [Pipes -> 0..MaxBytes]
      BY <3>1 DEF PipeInv, PipeVarsOK
    <3>4. QED
      BY <3>1, <3>2, <3>3, PipeAssumption
  <2>2. sent[p] - accepted[p] <= BufSize * (Cap + 1)
    BY <1>1, <2>1, PipeAhead
  <2>3. buf.to - sent[p] <= BufSize
    <3>1. CASE rpc # "send"
      BY <1>1, <2>1, <3>1, PipeAssumption DEF DeliveryInv, BufInv
    <3>2. CASE rpc = "send"
      <4>1. p \notin remove /\ Length(buf) <= BufSize
        BY <1>1, <2>1, <3>2, PipeAssumption
           DEF DeliveryInv, StreamAll, StreamInv, RoundInv, GoneInv, Length, Chunk
      <4>2. sent[p] = buf.from - 1 \/ sent[p] = buf.to
        BY <1>1, <3>2, <4>1 DEF DeliveryInv, StreamAll, StreamInv, RoundInv
      <4>3. QED
        BY <2>1, <4>1, <4>2, PipeAssumption DEF Length, Chunk
    <3>3. QED
      BY <3>1, <3>2
  <2>4. nread - buf.to <= BufSize
    BY <1>1 DEF DeliveryInv, BufInv
  <2>5. Cap \in Nat
    BY PipeAssumption DEF Cap
  <2>6. BufSize * (Cap + 3) = (BufSize * (Cap + 1) + BufSize) + BufSize
        /\ BufSize * (Cap + 1) \in Nat
    <3>1. BufSize * ((Cap + 1) + 1) = BufSize * (Cap + 1) + BufSize
          /\ BufSize * (((Cap + 1) + 1) + 1) = BufSize * ((Cap + 1) + 1) + BufSize
      BY <2>5, TimesStep, PipeAssumption
    <3>2. ((Cap + 1) + 1) + 1 = Cap + 3 /\ Cap + 1 \in Nat
      BY <2>5
    <3>3. BufSize * (Cap + 1) \in Nat
      BY <3>2, TimesMono, PipeAssumption
    <3>4. QED
      BY <3>1, <3>2, <3>3
  <2>7. buf.to \in Int
    BY <2>1 DEF Chunk
  <2>8. QED
    BY <2>1, <2>2, <2>3, <2>4, <2>6, <2>7, PipeAssumption
<1>2. DeliveryInv => ReadAheadBounded
  BY <1>1 DEF ReadAheadBounded
<1>3. QED
  BY <1>2, DeliveryInvariant, PTL

-----------------------------------------------------------------------------
(***************************************************************************)
(* After Run.                                                              *)
(***************************************************************************)

(* A Run that was refused has started nothing.                             *)
RefusedInv ==
  readErr = "stopped" =>
    rpc = "done" /\ \A p \in Pipes : cycle[p] = "recv" /\ writeCh[p] = <<>> /\ ~writeClosed[p]

(* Once Run has returned only write cycles are left, at their last step.   *)
LEMMA LastSteps ==
  ASSUME StreamAll, RefusedInv, [Next]_vars, rpc = "done"
  PROVE  /\ UNCHANGED <<rpc, readErr, consErrs>>
         /\ UNCHANGED pipeVars \/ (readErr # "stopped" /\ \E p \in Pipes : CloseEnd(p))
<1>1. CASE Run
  <2>1. CASE RunRefused \/ RunCheck \/ RunStart \/ SeesCtx \/ SeesReadErr \/ SeesReaderEnd
               \/ SeesInnerStop \/ HandOver \/ EndRound \/ EndDrain \/ RunAfterStop
    BY <2>1 DEF RunRefused, RunCheck, RunStart, SeesCtx, SeesReadErr, SeesReaderEnd,
                SeesInnerStop, HandOver, EndRound, EndDrain, RunAfterStop
  <2>2. ASSUME NEW p \in Pipes, OnPipe(p) PROVE FALSE
    BY <2>2 DEF OnPipe, CallGoesOn, WriteDone, WriteStopped, PipeStopped
  <2>3. QED
    BY <1>1, <2>1, <2>2 DEF Run
<1>2. CASE (\E c \in Callers : Stop(c)) \/ CancelCtx
  BY <1>2 DEF Stop, StopGoesOn, StopCalled, RunBeforeStop, CloseInner, CancelCtx, runVars
<1>3. CASE ReadInput \/ ReaderOnly
  BY <1>3 DEF ReadInput, ReaderOnly, ReadClosedInput, ReadReturns, DropPart, PollStop,
              ReaderExit, runVars
<1>4. ASSUME NEW p \in Pipes, ConsumerSide(p)
      PROVE  UNCHANGED runVars /\ readErr # "stopped" /\ CloseEnd(p)
  <2>1. Cycle(p) /\ UNCHANGED runVars
    BY <1>4 DEF ConsumerSide
  <2>2. readErr # "stopped"
    BY <2>1 DEF RefusedInv, Cycle, Consume, Receive, ReceiveClosed, ConsumerTakes, ConsumerDone,
                ConsumerFails, SetWriteErr, CloseEnd
  <2>3. cycle[p] \in {"end", "done"}
    BY <2>2 DEF StreamAll, PipeInv, PhaseInv, StreamInv, DrainInv
  <2>4. CloseEnd(p)
    BY <2>1, <2>3 DEF Cycle, Consume, Receive, ReceiveClosed, ConsumerTakes, ConsumerDone,
                      ConsumerFails, SetWriteErr
  <2>5. QED
    BY <2>1, <2>2, <2>4
<1>5. CASE Terminated \/ UNCHANGED vars
  BY <1>5 DEF Terminated, vars, runVars
<1>6. QED
  BY <1>1, <1>2, <1>3, <1>4, <1>5 DEF Next, runVars

(* A step keeps it: of all steps one of Run alone refuses.                 *)
LEMMA RefusedStep == StreamAll /\ RefusedInv /\ [Next]_vars => RefusedInv'
<1> SUFFICES ASSUME StreamAll, RefusedInv, [Next]_vars, readErr' = "stopped" PROVE RefusedInv'
  BY DEF RefusedInv
<1>1. CASE readErr = "stopped"
  <2>1. UNCHANGED <<rpc, cycle, writeCh, writeClosed>>
    BY <1>1, LastSteps DEF RefusedInv, pipeVars
  <2>2. QED
    BY <1>1, <2>1 DEF RefusedInv
<1>2. CASE readErr # "stopped"
  <2>1. RunRefused
    <3>1. ASSUME NEW p \in Pipes, OnPipe(p) PROVE FALSE
      BY <1>2, <3>1 DEF OnPipe, CallGoesOn, WriteDone, WriteStopped, PipeStopped, runVars
    <3>2. sendErr # "stopped"
      BY DEF StreamAll, StreamInv, ReaderInv
    <3>3. Run
      BY <1>2 DEF Next, Stop, StopGoesOn, StopCalled, RunBeforeStop, CloseInner, CancelCtx,
         ReadInput, ReaderOnly, ReadClosedInput, ReadReturns, DropPart, PollStop, ReaderExit,
         ConsumerSide, Terminated, vars, runVars
    <3>4. QED
      BY <1>2, <3>1, <3>2, <3>3 DEF Run, RunCheck, RunStart, SeesCtx, SeesReadErr, SeesReaderEnd,
         SeesInnerStop, HandOver, EndRound, EndDrain, RunAfterStop
  <2>2. QED
    BY <2>1 DEF RunRefused, StreamAll, GoneInv, RefusedInv, pipeVars
<1>3. QED
  BY <1>1, <1>2

(* Run's return is the end of what its consumers get and of what its caller*)
(* may have to read: results, and what the consumers took (stream_tee.go:  *)
(* 229-243), for any consumers, stoppers and inputs, a refused Run too.    *)
THEOREM QuietAfterRun == Spec => NothingAfterReturn
<1>1. Init => RefusedInv
  BY DEF Init, RefusedInv
<1>2. StreamAll /\ RefusedInv /\ [Next]_vars =>
        [rpc = "done" => UNCHANGED <<readErr, consErrs, resultErr, accepted, outcome,
                                     consClosed>>]_vars
  BY LastSteps DEF pipeVars, CloseEnd, stopVars, consVars
<1>3. StreamAll /\ RefusedInv /\ [Next]_vars => RefusedInv'
  BY RefusedStep
<1>4. QED
  BY <1>1, <1>2, <1>3, StreamAllHolds, PTL DEF Spec, NothingAfterReturn

=============================================================================
