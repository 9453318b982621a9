-------------------------- MODULE TeeStreamProofs --------------------------
(***************************************************************************)
(* Proofs about TeeStream, for any consumers, users, capacities, chunk     *)
(* sizes and inputs: a TeeStream implements Pipe's provider, so that what  *)
(* PipeProofs shows of a pipe holds of the pipes of a stream; and what the *)
(* stream leaves behind when Run returns.                                  *)
(***************************************************************************)
EXTENDS TeeStream, PipeProofs, WellFoundedInduction

(* What the steps of one pipe leave alone, whoever takes them.             *)
LEMMA PipeStepFrame ==
  ASSUME NEW p \in Pipes, Begin(p) \/ Cycle(p) \/ StopCheck(p) \/ StopWait(p)
                            \/ StopClose(p) \/ StopReturn(p) \/ PushSeesEnd(p)
  PROVE  sent' = sent
BY DEF Begin, StopEnter, StopAgain, WriteRefused, WriteSeesError, WriteEnter, BeginStop,
       Cycle, Consume, Receive, ReceiveClosed, ConsumerTakes, ConsumerDone, ConsumerFails,
       SetWriteErr, CloseEnd, StopCheck, StopWait, StopClose, StopReturn, PushSeesEnd,
       chanVars, pipeVars

LEMMA CycleFrame ==
  ASSUME NEW p \in Pipes, Cycle(p)
  PROVE  UNCHANGED <<sent, stopped, call, resultErr>>
BY DEF Cycle, Consume, Receive, ReceiveClosed, ConsumerTakes, ConsumerDone, ConsumerFails,
       SetWriteErr, CloseEnd, chanVars, stopVars

-----------------------------------------------------------------------------
(* Stop: one caller wins the flag and closes innerStopCh.                  *)
LEMMA StopInvStep == StopInv /\ [Next]_vars => StopInv'
<1> SUFFICES ASSUME StopInv, [Next]_vars PROVE StopInv'
  OBVIOUS
<1> USE DEF StopInv, StoppedOnce
<1>1. CASE Run
  <2>1. CASE RunRefused \/ RunCheck \/ RunStart \/ SeesCtx \/ SeesReadErr \/ SeesReaderEnd
               \/ SeesInnerStop \/ HandOver \/ EndRound \/ EndDrain
    BY <2>1 DEF RunRefused, RunCheck, RunStart, SeesCtx, SeesReadErr, SeesReaderEnd,
                SeesInnerStop, HandOver, EndRound, EndDrain, LeaveLoop, flagVars
  <2>2. CASE RunAfterStop
    BY <2>2 DEF RunAfterStop, LeaveLoop, Callers
  <2>3. ASSUME NEW p \in Pipes, OnPipe(p) PROVE StopInv'
    BY <2>3 DEF OnPipe, CallGoesOn, WriteDone, WriteStopped, PipeStopped, runVars, flagVars
  <2>4. QED
    BY <1>1, <2>1, <2>2, <2>3 DEF Run
<1>2. ASSUME NEW c \in Callers, Stop(c) PROVE StopInv'
  <2>1. CASE StopCalled(c)
    BY <2>1 DEF StopCalled, runVars
  <2>2. CASE RunBeforeStop(c)
    BY <2>2 DEF RunBeforeStop, runVars
  <2>3. CASE CloseInner(c)
    BY <2>3 DEF CloseInner, runVars
  <2>4. QED
    BY <1>2, <2>1, <2>2, <2>3 DEF Stop, StopGoesOn
<1>3. CASE CancelCtx \/ ReadInput \/ ReaderOnly
  BY <1>3 DEF CancelCtx, ReadInput, ReaderOnly, ReadClosedInput, ReadReturns, DropPart,
              PollStop, ReaderExit, runVars, flagVars
<1>4. ASSUME NEW p \in Pipes, ConsumerSide(p) PROVE StopInv'
  BY <1>4 DEF ConsumerSide, runVars, flagVars
<1>5. CASE Terminated \/ UNCHANGED vars
  BY <1>5 DEF Terminated, vars, runVars, flagVars
<1>6. QED
  BY <1>1, <1>2, <1>3, <1>4, <1>5 DEF Next

-----------------------------------------------------------------------------
(* The reader: each part begins where the one before it ended.             *)
LEMMA ReaderInvStep == ReaderInv /\ [Next]_vars => ReaderInv'
<1> SUFFICES ASSUME ReaderInv, [Next]_vars PROVE ReaderInv'
  OBVIOUS
<1> USE DEF ReaderInv
<1>1. CASE Run
  <2>1. ASSUME buf' = buf, UNCHANGED <<nread, part, sendErr, partErr>>,
               rpc' \in {"idle", "start"} => kpc' = "none",
               kpc' \in {"none", "read", "poll"} => kpc \in {"none", "read", "poll"},
               kpc' = "part" => kpc = "part"
        PROVE  ReaderInv'
    BY <2>1
  <2>2. CASE RunRefused \/ RunCheck \/ SeesCtx \/ SeesReadErr \/ SeesReaderEnd
               \/ SeesInnerStop \/ EndRound \/ EndDrain \/ RunAfterStop
    BY <2>1, <2>2 DEF RunRefused, RunCheck, SeesCtx, SeesReadErr, SeesReaderEnd,
                      SeesInnerStop, EndRound, EndDrain, RunAfterStop, LeaveLoop, readVars
  <2>3. CASE RunStart
    BY <2>3 DEF RunStart
  <2>4. CASE HandOver
    <3>1. buf' = part /\ part' = part /\ nread' = nread /\ part.to = nread
          /\ kpc' \in {"poll", "exit", "err"} /\ sendErr' # "stopped"
          /\ partErr' = partErr /\ rpc' = "send"
      BY <2>4, StreamAssumption DEF HandOver, AfterPart
    <3>2. QED
      BY <3>1
  <2>5. ASSUME NEW p \in Pipes, OnPipe(p) PROVE ReaderInv'
    <3>1. buf' = buf /\ UNCHANGED readVars /\ rpc' = rpc
      BY <2>5 DEF OnPipe, CallGoesOn, WriteDone, WriteStopped, PipeStopped, runVars
    <3>2. QED
      BY <2>1, <3>1 DEF readVars
  <2>6. QED
    BY <1>1, <2>2, <2>3, <2>4, <2>5 DEF Run
<1>2. ASSUME NEW n \in 0..BufSize, NEW err \in {"nil"} \union InputErrs, nread + n <= MaxBytes, ReadReturns(n, err)
      PROVE  ReaderInv'
  <2>1. n \in Nat /\ nread' = nread + n /\ nread' \in 0..MaxBytes
    BY <1>2, PipeAssumption DEF ReadReturns
  <2>2. part' = [from |-> nread + 1, to |-> nread + n] /\ kpc' \in {"part", "err"}
        /\ buf' = buf /\ buf.to = nread /\ sendErr' # "stopped"
        /\ partErr' = err /\ rpc' = rpc /\ rpc \notin {"idle", "start"}
    BY <1>2 DEF ReadReturns, runVars
  <2>3. part' \in Chunk
    BY <2>1, <2>2, PipeAssumption DEF Chunk
  <2>4. QED
    BY <2>1, <2>2, <2>3, PipeAssumption DEF Length
<1>3. CASE ReadInput
  BY <1>2, <1>3 DEF ReadInput
<1>4. CASE ReaderOnly
  <2>1. CASE ReadClosedInput
    <3>1. 0 \in 0..BufSize /\ nread + 0 <= MaxBytes
      BY PipeAssumption
    <3>2. QED
      BY <1>2, <2>1, <3>1 DEF ReadClosedInput
  <2>2. CASE DropPart \/ PollStop \/ ReaderExit
    BY <2>2 DEF DropPart, PollStop, ReaderExit, runVars
  <2>3. QED
    BY <1>4, <2>1, <2>2 DEF ReaderOnly
<1>5. ASSUME NEW c \in Callers, Stop(c) PROVE ReaderInv'
  BY <1>5 DEF Stop, StopGoesOn, StopCalled, RunBeforeStop, CloseInner, runVars, readVars
<1>6. ASSUME NEW p \in Pipes, ConsumerSide(p) PROVE ReaderInv'
  BY <1>6 DEF ConsumerSide, runVars, readVars
<1>7. CASE CancelCtx \/ Terminated \/ UNCHANGED vars
  BY <1>7 DEF CancelCtx, Terminated, vars, runVars, readVars
<1>8. QED
  BY <1>1, <1>3, <1>4, <1>5, <1>6, <1>7 DEF Next

(* The rounds of sendToAll: a pipe in the list has all parts up to this one*)
LEMMA RoundInvStep == PipeInv /\ ReaderInv /\ RoundInv /\ [Next]_vars => RoundInv'
<1> SUFFICES ASSUME PipeInv, ReaderInv, RoundInv, [Next]_vars PROVE RoundInv'
  OBVIOUS
<1> USE DEF RoundInv
<1>1. CASE Run
  <2>1. CASE RunRefused \/ RunCheck \/ RunStart \/ SeesCtx \/ SeesReadErr \/ SeesReaderEnd
               \/ SeesInnerStop \/ EndDrain \/ RunAfterStop
    BY <2>1 DEF RunRefused, RunCheck, RunStart, SeesCtx, SeesReadErr, SeesReaderEnd,
                SeesInnerStop, EndDrain, RunAfterStop, LeaveLoop, pipeVars
  <2>2. CASE HandOver
    <3>1. part.from = buf.to + 1 /\ Length(part) \in 0..BufSize /\ buf \in Chunk
      BY <2>2 DEF HandOver, ReaderInv
    <3>2. \A p \in current : sent[p] = part.from - 1 /\ ~stopped[p]
      BY <2>2, <3>1 DEF HandOver, Chunk
    <3>3. QED
      BY <2>2, <3>1, <3>2 DEF HandOver, pipeVars
  <2>3. CASE EndRound
    BY <2>3 DEF EndRound, LeaveLoop, pipeVars
  <2>4. ASSUME NEW p \in Pipes, CallGoesOn(p) PROVE RoundInv'
    <3>1. sent' = sent /\ UNCHANGED runVars /\ p \in todo
      BY <2>4, PipeStepFrame DEF CallGoesOn, Begin, Turn
    <3>2. \A q \in Pipes \ {p} : stopped'[q] = stopped[q] /\ call'[q] = call[q]
      BY <2>4, OthersSame DEF CallGoesOn, Step, Begin, Finish, Same
    <3>3. stopped'[p] => call'[p] # "none"
      BY <2>4 DEF CallGoesOn, StopEnter, WriteSeesError, WriteEnter, BeginStop, StopCheck,
                  StopWait, StopClose, PushSeesEnd, PipeInv, PipeVarsOK
    <3>4. rpc \in {"send", "drain"}
      BY <2>4 DEF CallGoesOn
    <3>5. QED
      BY <3>1, <3>2, <3>3, <3>4 DEF runVars
  <2>5. ASSUME NEW p \in Pipes, WriteDone(p) PROVE RoundInv'
    <3>1. rpc = "send" /\ p \in todo /\ todo' = todo \ {p} /\ call[p] = "push"
          /\ UNCHANGED <<rpc, current, remove, buf, stopped>>
      BY <2>5 DEF WriteDone, Turn, Push, PushBuffered, PushDirect, stopVars
    <3>2. ~stopped[p]
      BY <3>1 DEF PipeInv, FlagsInv
    <3>3. sent' = [sent EXCEPT ![p] = buf.to] /\ call' = [call EXCEPT ![p] = "none"]
      BY <2>5 DEF WriteDone, Push, PushBuffered, PushDirect
    <3>4. sent' \in [Pipes -> 0..MaxBytes]
      BY <3>3 DEF ReaderInv, Chunk
    <3>5. QED
      BY <3>1, <3>2, <3>3, <3>4 DEF PipeInv, PipeVarsOK
  <2>6. ASSUME NEW p \in Pipes, WriteStopped(p) PROVE RoundInv'
    <3>1. rpc = "send" /\ p \in todo /\ todo' = todo \ {p} /\ remove' = remove \union {p}
          /\ UNCHANGED <<rpc, current, buf, stopped, sent>>
      BY <2>6 DEF WriteStopped, Turn, StopReturn, chanVars
    <3>2. call' = [call EXCEPT ![p] = "none"]
      BY <2>6 DEF WriteStopped, StopReturn
    <3>3. QED
      BY <3>1, <3>2 DEF PipeInv, PipeVarsOK
  <2>7. ASSUME NEW p \in Pipes, PipeStopped(p) PROVE RoundInv'
    BY <2>7 DEF PipeStopped, StopReturn, StopAgain, chanVars, pipeVars
  <2>8. QED
    BY <1>1, <2>1, <2>2, <2>3, <2>4, <2>5, <2>6, <2>7 DEF Run, OnPipe
<1>2. ASSUME NEW c \in Callers, Stop(c) PROVE RoundInv'
  BY <1>2 DEF Stop, StopGoesOn, StopCalled, RunBeforeStop, CloseInner, runVars, pipeVars
<1>3. CASE ReadInput \/ ReaderOnly
  BY <1>3 DEF ReadInput, ReaderOnly, ReadClosedInput, ReadReturns, DropPart, PollStop,
              ReaderExit, runVars, pipeVars
<1>4. ASSUME NEW p \in Pipes, ConsumerSide(p) PROVE RoundInv'
  BY <1>4, CycleFrame DEF ConsumerSide, runVars
<1>5. CASE CancelCtx \/ Terminated \/ UNCHANGED vars
  BY <1>5 DEF CancelCtx, Terminated, vars, runVars, pipeVars
<1>6. QED
  BY <1>1, <1>2, <1>3, <1>4, <1>5 DEF Next

(* The last round: pipes behind it stay stopped, with their error kept.    *)
LEMMA DrainInvStep == PipeInv /\ ReaderInv /\ DrainInv /\ [Next]_vars => DrainInv'
<1> SUFFICES ASSUME PipeInv, ReaderInv, DrainInv, [Next]_vars PROVE DrainInv'
  OBVIOUS
<1> USE StreamAssumption DEF DrainInv
<1>1. CASE Run
  <2>1. CASE RunRefused \/ RunCheck \/ RunStart \/ SeesCtx \/ SeesReaderEnd \/ SeesInnerStop
               \/ HandOver
    BY <2>1 DEF RunRefused, RunCheck, RunStart, SeesCtx, SeesReaderEnd,
                SeesInnerStop, HandOver, LeaveLoop, pipeVars
  <2>2. CASE SeesReadErr
    BY <2>2 DEF SeesReadErr, LeaveLoop, pipeVars, ReaderInv
  <2>3. CASE EndRound
    BY <2>3 DEF EndRound, LeaveLoop, pipeVars
  <2>4. CASE EndDrain \/ RunAfterStop
    BY <2>4 DEF EndDrain, RunAfterStop, LeaveLoop, pipeVars
  <2>5. ASSUME NEW p \in Pipes, CallGoesOn(p) PROVE DrainInv'
    <3>1. UNCHANGED runVars /\ p \in todo
      BY <2>5 DEF CallGoesOn, Turn
    <3>2. ASSUME NEW q \in Pipes, q # p
          PROVE  stopped'[q] = stopped[q] /\ call'[q] = call[q] /\ resultErr'[q] = resultErr[q]
      BY <2>5, <3>2, OthersSame DEF CallGoesOn, Step, Begin, Finish, Same
    <3>3. rpc \in {"send", "drain"}
      BY <2>5 DEF CallGoesOn
    <3>4. QED
      BY <3>1, <3>2, <3>3 DEF runVars
  <2>6. ASSUME NEW p \in Pipes, WriteDone(p) \/ WriteStopped(p) PROVE DrainInv'
    BY <2>6 DEF WriteDone, WriteStopped
  <2>7. ASSUME NEW p \in Pipes, PipeStopped(p) PROVE DrainInv'
    <3>1. rpc' = "drain" /\ rpc = "drain" /\ todo' = todo \ {p} /\ readErr' = readErr
          /\ consErrs' = [consErrs EXCEPT ![p] = resultErr'[p]]
      BY <2>7 DEF PipeStopped
    <3>2. stopped'[p] /\ call'[p] = "none"
      BY <2>7 DEF PipeStopped, StopReturn, StopAgain, pipeVars, PipeInv, PipeVarsOK, FlagsInv
    <3>3. ASSUME NEW q \in Pipes, q # p
          PROVE  stopped'[q] = stopped[q] /\ call'[q] = call[q] /\ resultErr'[q] = resultErr[q]
      BY <2>7, <3>3, OthersSame DEF PipeStopped, Step, Begin, Finish, Same
    <3>4. resultErr'[p] \in SUBSET {"write", "close"}
      BY <2>7, TypeStep, ZenonT(40) DEF PipeStopped, Step, Begin, Finish, PipeInv, PipeVarsOK
    <3>5. consErrs' \in [Pipes -> SUBSET {"write", "close"}]
      BY <3>1, <3>4
    <3>6. QED
      BY <3>1, <3>2, <3>3, <3>5
  <2>8. QED
    BY <1>1, <2>1, <2>2, <2>3, <2>4, <2>5, <2>6, <2>7 DEF Run, OnPipe
<1>2. ASSUME NEW c \in Callers, Stop(c) PROVE DrainInv'
  BY <1>2 DEF Stop, StopGoesOn, StopCalled, RunBeforeStop, CloseInner, runVars, pipeVars
<1>3. CASE ReadInput \/ ReaderOnly
  BY <1>3 DEF ReadInput, ReaderOnly, ReadClosedInput, ReadReturns, DropPart, PollStop,
              ReaderExit, runVars, pipeVars
<1>4. ASSUME NEW p \in Pipes, ConsumerSide(p) PROVE DrainInv'
  BY <1>4, CycleFrame DEF ConsumerSide, runVars
<1>5. CASE CancelCtx \/ Terminated \/ UNCHANGED vars
  BY <1>5 DEF CancelCtx, Terminated, vars, runVars, pipeVars
<1>6. QED
  BY <1>1, <1>2, <1>3, <1>4, <1>5 DEF Next

-----------------------------------------------------------------------------
(* The stream drives its pipes as Pipe allows: what it offers a pipe is    *)
(* what comes next in the input.                                           *)
LEMMA StepImplements == ReaderInv /\ RoundInv /\ [Next]_vars => [PipeNext]_pipeVars
<1> SUFFICES ASSUME ReaderInv, RoundInv, [Next]_vars PROVE [PipeNext]_pipeVars
  OBVIOUS
<1>1. CASE Run
  <2>1. CASE RunRefused \/ RunCheck \/ RunStart \/ SeesCtx \/ SeesReadErr \/ SeesReaderEnd
               \/ SeesInnerStop \/ HandOver \/ EndRound \/ EndDrain \/ RunAfterStop
    BY <2>1 DEF RunRefused, RunCheck, RunStart, SeesCtx, SeesReadErr, SeesReaderEnd,
                SeesInnerStop, HandOver, EndRound, EndDrain, RunAfterStop
  <2>2. ASSUME NEW p \in Pipes, CallGoesOn(p) \/ WriteStopped(p) \/ PipeStopped(p)
        PROVE  PipeNext
    BY <2>2 DEF CallGoesOn, WriteStopped, PipeStopped, PipeNext, Begin, Finish
  <2>3. ASSUME NEW p \in Pipes, WriteDone(p) PROVE PipeNext
    <3>1. p \in todo /\ rpc = "send" /\ Push(p, buf)
      BY <2>3 DEF WriteDone, Turn
    <3>2. buf \in Chunk /\ buf.from = sent[p] + 1 /\ Length(buf) \in 0..BufSize
      BY <3>1 DEF ReaderInv, RoundInv, Chunk
    <3>3. buf \in Offers(p)
      BY <3>2 DEF Offers
    <3>4. QED
      BY <3>1, <3>3 DEF PipeNext, Finish
  <2>4. QED
    BY <1>1, <2>1, <2>2, <2>3 DEF Run, OnPipe
<1>2. ASSUME NEW c \in Callers, Stop(c) PROVE UNCHANGED pipeVars
  BY <1>2 DEF Stop, StopGoesOn, StopCalled, RunBeforeStop, CloseInner
<1>3. CASE ReadInput \/ ReaderOnly
  BY <1>3 DEF ReadInput, ReaderOnly, ReadClosedInput, ReadReturns, DropPart, PollStop,
              ReaderExit
<1>4. ASSUME NEW p \in Pipes, ConsumerSide(p) PROVE PipeNext
  BY <1>4 DEF ConsumerSide, PipeNext
<1>5. CASE CancelCtx \/ Terminated \/ UNCHANGED vars
  BY <1>5 DEF CancelCtx, Terminated, vars
<1>6. QED
  BY <1>1, <1>2, <1>3, <1>4, <1>5 DEF Next

LEMMA StreamInitInv == Init => PipeInv /\ StreamInv
<1> SUFFICES ASSUME Init PROVE PipeInv /\ StreamInv
  OBVIOUS
<1> USE PipeAssumption DEF Init, StreamInv
<1>1. PipeInv
  BY InitInv
<1>2. NoChunk \in Chunk /\ NoChunk.to = 0
  BY DEF NoChunk, Chunk
<1>3. ReaderInv
  BY <1>2 DEF ReaderInv
<1>4. RoundInv
  BY <1>2 DEF RoundInv, PipeInit
<1>5. DrainInv /\ StopInv
  BY DEF DrainInv, StopInv, StoppedOnce
<1>6. QED
  BY <1>1, <1>3, <1>4, <1>5

(* The invariant of the stream and of its pipes holds in every state.      *)
THEOREM StreamInvariant == Spec => [](PipeInv /\ StreamInv)
<1>1. PipeInv /\ StreamInv /\ [Next]_vars => (PipeInv /\ StreamInv)'
  BY NextInv, StepImplements, ReaderInvStep, RoundInvStep, DrainInvStep, StopInvStep
     DEF StreamInv
<1>2. QED
  BY <1>1, StreamInitInv, PTL DEF Spec

(* A TeeStream implements Pipe with its provider (stream_tee.go:109-170    *)
(* and 229-237 over pipe.go): every behaviour of the stream is, on the     *)
(* state of the pipes, a behaviour of PipeSpec, for any set of consumers.  *)
THEOREM StreamImplementsPipe == Spec => PipeSpec
<1>1. Init => PipeInit
  BY DEF Init
<1>2. StreamInv /\ [Next]_vars => [PipeNext]_pipeVars
  BY StepImplements DEF StreamInv
<1>3. QED
  BY <1>1, <1>2, StreamInvariant, PTL DEF Spec, PipeSpec

(* So the pipes of a stream never panic, close a consumer during a write,  *)
(* lose, repeat or reorder bytes, or forget a failure.                     *)
THEOREM StreamPipesSafe ==
  Spec => [](NoChannelPanic /\ CloseAfterWrites /\ InOrder /\ DrainedBeforeClose
               /\ FailureReported)
BY StreamImplementsPipe, NoPanic, ClosedAfterWrites, BytesInOrder, DrainedAtClose,
   FailuresReported, PTL

(* So each consumer of a stream, whatever Reader, stoppers and contexts do *)
(* and whatever it answers, is called as its interface wants it.           *)
THEOREM StreamDrivesConsumers == Spec => DrivesConsumers
BY StreamImplementsPipe, PipeDrivesConsumers, PTL

(* Whatever the number of callers, one runs the BeforeStop functions and   *)
(* closes innerStopCh (Stop, stream_tee.go:265-278).                       *)
THEOREM OneStops == Spec => []StoppedOnce
<1>1. StreamInv => StoppedOnce
  BY DEF StreamInv, StopInv
<1>2. QED
  BY <1>1, StreamInvariant, PTL

(* sendToAll never writes to a pipe that was stopped.                      *)
THEOREM LivePipesOnly == Spec => []OnlyLivePipes
<1>1. StreamInv => OnlyLivePipes
  BY DEF StreamInv, RoundInv, OnlyLivePipes
<1>2. QED
  BY <1>1, StreamInvariant, PTL

(* Run returns with every consumer closed, every channel closed and no     *)
(* write cycle inside a consumer, on every path out of its loop.           *)
THEOREM AllReleased == Spec => []ReleasedOnReturn
<1>1. PipeInv /\ StreamInv => ReleasedOnReturn
  BY DEF PipeInv, FlagsInv, PhaseInv, StreamInv, DrainInv, StopInv, ReleasedOnReturn
<1>2. QED
  BY <1>1, StreamInvariant, PTL

(* Results.ConsumersErrs names exactly the consumers that failed.          *)
THEOREM ErrsExact == Spec => []ConsumerErrsExact
<1>1. StreamInv /\ FailureReported => ConsumerErrsExact
  BY DEF StreamInv, DrainInv, FailureReported, ConsumerErrsExact
<1>2. QED
  BY <1>1, StreamInvariant, StreamPipesSafe, PTL

-----------------------------------------------------------------------------
(***************************************************************************)
(* Progress of Run, as far as safety goes.                                 *)
(***************************************************************************)

(* Of some pipes one is the first: the order of the natural numbers is     *)
(* well-founded.                                                           *)
LEMMA FirstTurn ==
  ASSUME NEW T \in SUBSET Nat, T # {}
  PROVE  \E p \in T : \A q \in T : p <= q
<1> DEFINE R == {ss \in Nat \X Nat : ss[1] < ss[2]}
<1>1. IsWellFoundedOn(R, Nat)
  BY NatLessThanWellFounded DEF OpToRel
<1>2. \E p \in T : \A q \in T : ~(<<q, p>> \in R)
  <2> HIDE DEF R
  <2> QED
    BY <1>1, WFMin
<1>3. PICK p \in T : \A q \in T : ~(<<q, p>> \in R)
  BY <1>2
<1>4. ASSUME NEW q \in T PROVE p <= q
  <2>1. p \in Nat /\ q \in Nat /\ ~(<<q, p>> \in R)
    BY <1>3
  <2>2. ~(q < p)
    BY <2>1
  <2>3. QED
    BY <2>1, <2>2
<1>5. QED
  BY <1>4

(* It is the turn of one pipe only.                                        *)
LEMMA OneTurn ==
  ASSUME NEW p \in Pipes, NEW q \in Pipes, Turn(p), Turn(q)
  PROVE  p = q
<1>1. p \in Nat /\ q \in Nat /\ p <= q /\ q <= p
  BY StreamAssumption DEF Turn
<1>2. QED
  BY <1>1

(* A write cycle has no part in a call, a step of another is in one of the *)
(* pipe whose turn it is.                                                  *)
LEMMA CallsInvStep == PipeInv /\ ReaderInv /\ CallsInv /\ [Next]_vars => CallsInv'
<1> SUFFICES ASSUME PipeInv, ReaderInv, CallsInv, [Next]_vars PROVE CallsInv'
  OBVIOUS
<1> DEFINE AtWork(k) == k \in {"read", "part", "poll", "err", "exit", "ended"}
<1> USE DEF CallsInv
<1>c. call \in [Pipes -> {"none", "push", "check", "wait", "close", "result"}]
  BY DEF PipeInv, PipeVarsOK
<1>1. ASSUME call' = call, todo' = todo, rpc' = rpc,
             rpc \in {"select", "send"} => AtWork(kpc')
      PROVE  CallsInv'
  BY <1>1 DEF Turn
<1>2. ASSUME call' = call, rpc \notin {"send", "drain"} \/ todo = {},
             rpc' \in {"select", "send"} => AtWork(kpc')
      PROVE  CallsInv'
  BY <1>2 DEF Turn
<1>3. CASE Run
  <2>1. CASE RunRefused \/ RunCheck \/ RunStart \/ SeesCtx \/ SeesReadErr \/ SeesReaderEnd
               \/ SeesInnerStop \/ EndDrain \/ RunAfterStop
    BY <1>2, <2>1 DEF RunRefused, RunCheck, RunStart, SeesCtx, SeesReadErr, SeesReaderEnd,
                SeesInnerStop, EndDrain, RunAfterStop, LeaveLoop, pipeVars, readVars
  <2>2. CASE HandOver
    <3>1. partErr \in {"nil", "end", "fail"}
      BY StreamAssumption DEF ReaderInv
    <3>2. kpc' \in {"poll", "exit", "err"}
      BY <2>2, <3>1 DEF HandOver, AfterPart
    <3>3. QED
      BY <1>2, <2>2, <3>2 DEF HandOver, pipeVars
  <2>3. CASE EndRound
    BY <1>2, <2>3 DEF EndRound, LeaveLoop, pipeVars, readVars
  <2>4. ASSUME NEW p \in Pipes, CallGoesOn(p) PROVE CallsInv'
    <3>1. rpc \in {"send", "drain"} /\ Turn(p) /\ todo' = todo /\ rpc' = rpc /\ kpc' = kpc
      BY <2>4 DEF CallGoesOn, runVars, readVars
    <3>2. \A q \in Pipes \ {p} : call'[q] = call[q]
      BY <2>4, OthersSame DEF CallGoesOn, Step, Begin, Finish, Same
    <3>3. rpc = "drain" => call'[p] # "push"
      BY <1>c, <2>4 DEF CallGoesOn, StopEnter, BeginStop, StopCheck, StopWait, StopClose,
                        PushSeesEnd
    <3>4. QED
      BY <3>1, <3>2, <3>3 DEF Turn
  <2>5. ASSUME NEW p \in Pipes, WriteDone(p) \/ WriteStopped(p) \/ PipeStopped(p) PROVE CallsInv'
    <3>1. rpc \in {"send", "drain"} /\ Turn(p) /\ rpc' = rpc /\ kpc' = kpc
      BY <2>5 DEF WriteDone, WriteStopped, PipeStopped, readVars
    <3>2. \A q \in Pipes : q # p => call[q] = "none"
      BY <3>1, OneTurn
    <3>3. call'[p] = "none" /\ \A q \in Pipes \ {p} : call'[q] = call[q]
      BY <1>c, <2>5 DEF WriteDone, WriteStopped, PipeStopped, StopReturn, StopAgain, Push,
                        PushBuffered, PushDirect, pipeVars
    <3>4. QED
      BY <3>1, <3>2, <3>3
  <2>6. QED
    BY <1>3, <2>1, <2>2, <2>3, <2>4, <2>5 DEF Run, OnPipe
<1>4. ASSUME NEW c \in Callers, Stop(c) PROVE CallsInv'
  BY <1>1, <1>4 DEF Stop, StopGoesOn, StopCalled, RunBeforeStop, CloseInner, runVars, pipeVars,
                    readVars
<1>5. CASE ReadInput \/ ReaderOnly
  BY <1>1, <1>5 DEF ReadInput, ReaderOnly, ReadClosedInput, ReadReturns, DropPart, PollStop,
              ReaderExit, runVars, pipeVars
<1>6. ASSUME NEW p \in Pipes, ConsumerSide(p) PROVE CallsInv'
  BY <1>1, <1>6, CycleFrame DEF ConsumerSide, runVars, readVars
<1>7. CASE CancelCtx \/ Terminated \/ UNCHANGED vars
  BY <1>1, <1>7 DEF CancelCtx, Terminated, vars, runVars, pipeVars, readVars
<1>8. QED
  BY <1>3, <1>4, <1>5, <1>6, <1>7 DEF Next

(* The calls of Run come one after the other, in every state.              *)
LEMMA CallsHold == Spec => []CallsInv
<1>1. Init => CallsInv
  BY DEF Init, PipeInit, CallsInv
<1>2. QED
  <2>1. PipeInv /\ StreamInv /\ CallsInv /\ [Next]_vars => CallsInv'
    BY CallsInvStep DEF StreamInv
  <2>2. QED
    BY <1>1, <2>1, StreamInvariant, PTL DEF Spec

(* No deadlock of Run with its pipes and its reader (stream_tee.go:116-170 *)
(* over pipe.go), for any number of consumers: the pipe whose turn it is   *)
(* has a step for its call, and in its select Run waits for the input only.*)
THEOREM RunGoesOn == Spec => []RunNeverStuck
<1>1. ASSUME StreamInv, CallsInv, NeverStuck, rpc \in {"send", "drain"}, todo # {}
      PROVE  RoundReady
  <2>1. todo \in SUBSET Nat /\ todo \subseteq Pipes
    BY <1>1, StreamAssumption DEF StreamInv, RoundInv
  <2>2. PICK p \in todo : \A q \in todo : p <= q
    BY <1>1, <2>1, FirstTurn
  <2>3. p \in Pipes /\ Turn(p)
    BY <2>1, <2>2 DEF Turn
  <2>4. call[p] = "none" => (rpc = "send" => ~stopped[p])
    BY <1>1, <2>2 DEF StreamInv, RoundInv
  <2>5. call[p] # "none" => (rpc = "drain" => call[p] # "push") /\ (CallReady(p) \/ CycleReady(p))
    BY <1>1, <2>3 DEF CallsInv, NeverStuck
  <2>6. QED
    BY <2>3, <2>4, <2>5 DEF RoundReady
<1>2. StreamInv /\ CallsInv /\ NeverStuck => RunNeverStuck
  BY <1>1 DEF RunNeverStuck, RoundReady, SelectReady, CallsInv
<1>3. Spec => []NeverStuck
  BY StreamImplementsPipe, PipeNeverStuck, PTL
<1>4. QED
  BY <1>2, <1>3, CallsHold, StreamInvariant, PTL

(* And the calls of a round do not go on for ever: each step of a call or  *)
(* of the write cycle leaves fewer to take, whatever goes on elsewhere.    *)
THEOREM RunComesNearer == Spec => CallsComeNearer
BY StreamImplementsPipe, PipeComesNearer, PTL

=============================================================================
