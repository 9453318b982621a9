--------------------------- MODULE ContractProofs ---------------------------
(***************************************************************************)
(* TeeStream implements StreamContract, for any consumers, callers of Stop,*)
(* capacities and inputs: what CmdStream assumes of its two streams is what*)
(* a TeeStream does.                                                       *)
(***************************************************************************)
EXTENDS TeeStreamProofs

(* An error the reader offers is one Run reports; Run has no read error    *)
(* while it is in its loop.                                                *)
ReadErrInv ==
  /\ kpc = "err" => sendErr \in {"read", "noProgress"}
  /\ sendErr \in {"nil", "read", "noProgress"}
  /\ rpc \in {"idle", "start", "select", "send"} => readErr = "nil"

(* Before Run starts nothing moves in the pipes; a pipe is taken off the   *)
(* list only when its consumer has refused data.                           *)
GoneInv ==
  /\ rpc \in {"idle", "start"} =>
       \A p \in Pipes : cycle[p] = "recv" /\ writeCh[p] = <<>> /\ ~writeClosed[p]
  /\ \A p \in Pipes : p \notin current \/ p \in remove => outcome[p] # "ok"
  /\ rpc = "send" => \A p \in todo : call[p] \in {"check", "wait", "close", "result"} =>
                                       outcome[p] # "ok"

(* A step of Run or of its callers never changes an outcome.               *)
LEMMA OutcomeFrame ==
  ASSUME Run \/ (\E c \in Callers : Stop(c)) \/ CancelCtx \/ ReadInput \/ ReaderOnly
           \/ Terminated \/ UNCHANGED vars
  PROVE  outcome' = outcome
<1>1. ASSUME NEW p \in Pipes, OnPipe(p) PROVE outcome' = outcome
  BY <1>1 DEF OnPipe, CallGoesOn, WriteDone, WriteStopped, PipeStopped, WriteSeesError,
              WriteEnter, StopEnter, StopCheck, StopWait, StopClose, PushSeesEnd, Push,
              PushBuffered, PushDirect, StopReturn, StopAgain, consVars, pipeVars
<1>2. CASE UNCHANGED pipeVars
  BY <1>2 DEF pipeVars
<1>3. QED
  BY <1>1, <1>2
     DEF Run, RunRefused, RunCheck, RunStart, SeesCtx, SeesReadErr, SeesReaderEnd,
         SeesInnerStop, HandOver, EndRound, EndDrain, RunAfterStop, Stop, StopGoesOn,
         StopCalled, RunBeforeStop, CloseInner, CancelCtx, ReadInput, ReaderOnly,
         ReadClosedInput, ReadReturns, DropPart, PollStop, ReaderExit, Terminated, vars

(* A consumer that has refused data stays so; one that refuses was ok.     *)
LEMMA OutcomeStays ==
  ASSUME PipeInv, [Next]_vars, NEW p \in Pipes, outcome[p] # "ok"
  PROVE  outcome'[p] # "ok"
<1>1. ASSUME NEW q \in Pipes, Cycle(q) PROVE outcome'[p] # "ok"
  BY <1>1 DEF Cycle, Consume, Receive, ReceiveClosed, ConsumerTakes, ConsumerDone,
              ConsumerFails, SetWriteErr, CloseEnd, consVars, PipeInv, PipeVarsOK
<1>2. QED
  BY <1>1, OutcomeFrame DEF Next, ConsumerSide

LEMMA ReadErrStep == ReaderInv /\ ReadErrInv /\ [Next]_vars => ReadErrInv'
<1> SUFFICES ASSUME ReaderInv, ReadErrInv, [Next]_vars PROVE ReadErrInv'
  OBVIOUS
<1> USE DEF ReadErrInv
<1>1. CASE Run
  <2>1. CASE RunRefused \/ RunCheck \/ RunStart \/ SeesCtx \/ SeesReadErr \/ SeesReaderEnd
               \/ SeesInnerStop \/ EndRound \/ EndDrain \/ RunAfterStop
    BY <2>1 DEF RunRefused, RunCheck, RunStart, SeesCtx, SeesReadErr, SeesReaderEnd,
                SeesInnerStop, EndRound, EndDrain, RunAfterStop, LeaveLoop, readVars
  <2>2. CASE HandOver
    <3>1. partErr \in {"nil", "end", "fail"}
      BY StreamAssumption DEF ReaderInv
    <3>2. QED
      BY <2>2, <3>1 DEF HandOver, AfterPart
  <2>3. ASSUME NEW p \in Pipes, OnPipe(p) PROVE ReadErrInv'
    BY <2>3 DEF OnPipe, CallGoesOn, WriteDone, WriteStopped, PipeStopped, runVars, readVars
  <2>4. QED
    BY <1>1, <2>1, <2>2, <2>3 DEF Run
<1>2. ASSUME NEW c \in Callers, Stop(c) PROVE ReadErrInv'
  BY <1>2 DEF Stop, StopGoesOn, StopCalled, RunBeforeStop, CloseInner, runVars, readVars
<1>3. CASE ReadInput \/ ReaderOnly
  BY <1>3 DEF ReadInput, ReaderOnly, ReadClosedInput, ReadReturns, DropPart, PollStop,
              ReaderExit, runVars
<1>4. ASSUME NEW p \in Pipes, ConsumerSide(p) PROVE ReadErrInv'
  BY <1>4 DEF ConsumerSide, runVars, readVars
<1>5. CASE CancelCtx \/ Terminated \/ UNCHANGED vars
  BY <1>5 DEF CancelCtx, Terminated, vars, runVars, readVars
<1>6. QED
  BY <1>1, <1>2, <1>3, <1>4, <1>5 DEF Next

LEMMA GoneStep == PipeInv /\ StreamInv /\ GoneInv /\ [Next]_vars => GoneInv'
<1> SUFFICES ASSUME PipeInv, StreamInv, GoneInv, [Next]_vars PROVE GoneInv'
  OBVIOUS
<1>1. \A p \in Pipes : outcome[p] # "ok" => outcome'[p] # "ok"
  BY OutcomeStays
<1> USE DEF GoneInv
<1>2. CASE Run
  <2>1. CASE RunRefused \/ RunCheck \/ RunStart \/ SeesCtx \/ SeesReadErr \/ SeesReaderEnd
               \/ SeesInnerStop \/ EndDrain \/ RunAfterStop
    BY <1>1, <2>1 DEF RunRefused, RunCheck, RunStart, SeesCtx, SeesReadErr, SeesReaderEnd,
                SeesInnerStop, EndDrain, RunAfterStop, LeaveLoop, pipeVars
  <2>2. CASE HandOver
    <3>1. \A p \in current : call[p] \notin {"check", "wait", "close", "result"}
      BY <2>2 DEF HandOver, StreamInv, RoundInv, PipeInv, FlagsInv
    <3>2. QED
      BY <1>1, <2>2, <3>1 DEF HandOver, pipeVars
  <2>3. CASE EndRound
    BY <1>1, <2>3 DEF EndRound, LeaveLoop, pipeVars
  <2>4. ASSUME NEW p \in Pipes, CallGoesOn(p) PROVE GoneInv'
    <3>1. UNCHANGED runVars /\ p \in todo /\ rpc \in {"send", "drain"}
      BY <2>4 DEF CallGoesOn, Turn
    <3>2. \A q \in Pipes \ {p} : call'[q] = call[q]
      BY <2>4, OthersSame DEF CallGoesOn, Step, Begin, Finish, Same
    <3>3. rpc = "send" /\ call'[p] \in {"check", "wait", "close", "result"} => outcome[p] # "ok"
      <4>1. CASE WriteSeesError(p) \/ PushSeesEnd(p)
        BY <4>1 DEF WriteSeesError, PushSeesEnd, PipeInv, PipeVarsOK, FlagsInv, OutcomeInv,
                    ChainInv
      <4>2. CASE WriteEnter(p)
        BY <4>2 DEF WriteEnter, PipeInv, PipeVarsOK
      <4>3. CASE StopCheck(p) \/ StopWait(p) \/ StopClose(p)
        BY <3>1, <4>3 DEF StopCheck, StopWait, StopClose
      <4>4. QED
        BY <2>4, <4>1, <4>2, <4>3 DEF CallGoesOn
    <3>4. QED
      BY <1>1, <3>1, <3>2, <3>3 DEF runVars, StreamInv, RoundInv
  <2>5. ASSUME NEW p \in Pipes, WriteDone(p) PROVE GoneInv'
    <3>1. rpc = "send" /\ todo' = todo \ {p} /\ UNCHANGED <<rpc, current, remove>>
      BY <2>5 DEF WriteDone
    <3>2. call' = [call EXCEPT ![p] = "none"]
      BY <2>5 DEF WriteDone, Push, PushBuffered, PushDirect
    <3>3. QED
      BY <1>1, <3>1, <3>2 DEF PipeInv, PipeVarsOK, StreamInv, RoundInv
  <2>6. ASSUME NEW p \in Pipes, WriteStopped(p) PROVE GoneInv'
    <3>1. rpc = "send" /\ p \in todo /\ todo' = todo \ {p} /\ remove' = remove \union {p}
          /\ call[p] = "result" /\ UNCHANGED <<rpc, current>>
      BY <2>6 DEF WriteStopped, Turn, StopReturn
    <3>2. call' = [call EXCEPT ![p] = "none"]
      BY <2>6 DEF WriteStopped, StopReturn
    <3>3. QED
      BY <1>1, <3>1, <3>2 DEF PipeInv, PipeVarsOK, StreamInv, RoundInv
  <2>7. ASSUME NEW p \in Pipes, PipeStopped(p) PROVE GoneInv'
    BY <1>1, <2>7 DEF PipeStopped
  <2>8. QED
    BY <1>2, <2>1, <2>2, <2>3, <2>4, <2>5, <2>6, <2>7 DEF Run, OnPipe
<1>3. ASSUME NEW c \in Callers, Stop(c) PROVE GoneInv'
  BY <1>1, <1>3 DEF Stop, StopGoesOn, StopCalled, RunBeforeStop, CloseInner, runVars, pipeVars
<1>4. CASE ReadInput \/ ReaderOnly
  BY <1>1, <1>4 DEF ReadInput, ReaderOnly, ReadClosedInput, ReadReturns, DropPart, PollStop,
                    ReaderExit, runVars, pipeVars
<1>5. ASSUME NEW p \in Pipes, ConsumerSide(p) PROVE GoneInv'
  <2>1. UNCHANGED <<runVars, call>>
    BY <1>5, CycleFrame DEF ConsumerSide
  <2>2. cycle[p] = "recv" => writeCh[p] # <<>> \/ writeClosed[p]
    BY <1>5 DEF ConsumerSide, Cycle, Consume, Receive, ReceiveClosed, ConsumerTakes,
                ConsumerDone, ConsumerFails, SetWriteErr, CloseEnd
  <2>3. QED
    BY <1>1, <2>1, <2>2 DEF runVars, StreamInv, RoundInv
<1>6. CASE CancelCtx \/ Terminated \/ UNCHANGED vars
  BY <1>1, <1>6 DEF CancelCtx, Terminated, vars, runVars, pipeVars
<1>7. QED
  BY <1>2, <1>3, <1>4, <1>5, <1>6 DEF Next

-----------------------------------------------------------------------------
(* The mapping is of functions on the one stream 0: a step changes their   *)
(* only value.                                                             *)
LEMMA OneUpdate ==
  ASSUME NEW e, NEW v
  PROVE  [s \in One |-> v] = [[s \in One |-> e] EXCEPT ![0] = v]
BY DEF One

LEMMA OneValue == ASSUME NEW e PROVE [s \in One |-> e][0] = e
BY DEF One

LEMMA ContractInitMaps == Init => Contract!ContractInit
<1> SUFFICES ASSUME Init PROVE Contract!ContractInit
  OBVIOUS
<1>1. AllGone = FALSE
  BY StreamAssumption DEF Init, PipeInit, AllGone
<1>2. QED
  BY <1>1 DEF Init, Contract!ContractInit, RunPhase, ReaderPhase, Reason, NoChunk

(* Each step of Run is a step of the contract, or one it does not see.     *)
LEMMA RunImplements ==
  ASSUME PipeInv, StreamInv, ReadErrInv, GoneInv, Run
  PROVE  Contract!StreamStep(0) \/ UNCHANGED Contract!contractVars
<1> USE OneUpdate, OneValue
    DEF Contract!contractVars, Contract!runOnly, Contract!stopOnly, Contract!readOnly,
        RunPhase, ReaderPhase, Reason
<1>1. AllGone' = AllGone
  BY OutcomeFrame DEF AllGone
<1>2. CASE RunRefused
  <2>1. Contract!Refuse(0)
    BY <1>1, <1>2, ZenonT(40) DEF RunRefused, Contract!Refuse, readVars, flagVars, ReadErrInv
  <2>2. QED
    BY <2>1 DEF Contract!StreamStep
<1>3. CASE RunCheck
  BY <1>1, <1>3 DEF RunCheck, readVars, flagVars
<1>4. CASE RunStart
  <2>1. Contract!Start(0)
    BY <1>1, <1>4, ZenonT(40) DEF RunStart, Contract!Start, flagVars
  <2>2. QED
    BY <2>1 DEF Contract!StreamStep
<1>5. CASE SeesCtx
  <2>1. Contract!LeaveOnCtx(0)
    BY <1>1, <1>5, ZenonT(40)
       DEF SeesCtx, Contract!LeaveOnCtx, Contract!Leave, readVars, flagVars
  <2>2. QED
    BY <2>1 DEF Contract!StreamStep
<1>6. CASE SeesReadErr
  <2>1. Contract!LeaveOnErr(0)
    BY <1>1, <1>6, ZenonT(40)
       DEF SeesReadErr, LeaveLoop, Contract!LeaveOnErr, Contract!Leave, flagVars, ReadErrInv
  <2>2. QED
    BY <2>1 DEF Contract!StreamStep
<1>7. CASE SeesReaderEnd
  <2>1. Contract!LeaveOnEnd(0)
    BY <1>1, <1>7
       DEF SeesReaderEnd, LeaveLoop, Contract!LeaveOnEnd, Contract!Leave, readVars,
           flagVars, ReadErrInv
  <2>2. QED
    BY <2>1 DEF Contract!StreamStep
<1>8. CASE SeesInnerStop
  <2>1. Contract!LeaveOnStop(0)
    BY <1>1, <1>8
       DEF SeesInnerStop, LeaveLoop, Contract!LeaveOnStop, Contract!Leave, readVars,
           flagVars, ReadErrInv
  <2>2. QED
    BY <2>1 DEF Contract!StreamStep
<1>9. CASE HandOver
  <2>1. partErr \in {"nil", "end", "fail"} /\ part.to = nread
    BY <1>9, StreamAssumption DEF StreamInv, ReaderInv, HandOver
  <2>2. /\ rpc = "select" /\ rpc' = "send" /\ kpc = "part" /\ buf'.to = nread
        /\ partErr = "nil" => kpc' = "poll"
        /\ partErr = "end" => kpc' = "exit"
        /\ partErr = "fail" => kpc' = "err"
        /\ UNCHANGED <<readErr, isStopped, innerClosed, ctxDone, partErr, nread>>
    BY <1>9, <2>1 DEF HandOver, AfterPart, flagVars
  <2>3. Contract!Deliver(0)
    <3> DEFINE last == [s \in One |-> partErr]
               next == CASE last[0] = "nil" -> "poll"
                         [] last[0] = "end" -> "ended"
                         [] last[0] = "fail" -> "err"
    <3>1. last[0] = partErr
      BY DEF One
    <3>2. next = ReaderPhase'
      BY <2>1, <2>2, <3>1
    <3>3. /\ [s \in One |-> RunPhase][0] = "loop" /\ [s \in One |-> ReaderPhase][0] = "part"
          /\ [s \in One |-> nread][0] = buf'.to /\ RunPhase' = "send"
      BY <2>2 DEF One
    <3> HIDE DEF last, next, RunPhase, ReaderPhase
    <3>4. [s \in One |-> RunPhase'] = [[s \in One |-> RunPhase] EXCEPT ![0] = "send"]
      BY <3>3 DEF One
    <3>5. [s \in One |-> buf'.to] =
            [[s \in One |-> buf.to] EXCEPT ![0] = [s \in One |-> nread][0]]
      BY <3>3 DEF One
    <3>6. [s \in One |-> ReaderPhase'] = [[s \in One |-> ReaderPhase] EXCEPT ![0] = next]
      BY <3>2 DEF One
    <3>7. QED
      BY <1>1, <2>2, <3>3, <3>4, <3>5, <3>6 DEF Contract!Deliver, last, next
  <2>4. QED
    BY <2>3 DEF Contract!StreamStep
<1>10. CASE EndRound
  <2>1. current' = {} => AllGone
    BY <1>10 DEF EndRound, GoneInv, AllGone
  <2>2. /\ rpc = "send" /\ rpc' = IF current' = {} THEN "drain" ELSE "select"
        /\ UNCHANGED <<readVars, flagVars, buf, readErr>>
    BY <1>10 DEF EndRound, LeaveLoop
  <2>3. CASE current' = {}
    <3>1. Contract!LeaveAlone(0)
      BY <1>1, <2>1, <2>2, <2>3, ZenonT(40) DEF Contract!LeaveAlone, readVars, flagVars
    <3>2. QED
      BY <3>1 DEF Contract!StreamStep
  <2>4. CASE current' # {}
    <3>1. Contract!SendDone(0)
      BY <1>1, <2>2, <2>4, ZenonT(40) DEF Contract!SendDone, readVars, flagVars
    <3>2. QED
      BY <3>1 DEF Contract!StreamStep
  <2>5. QED
    BY <2>3, <2>4
<1>11. CASE EndDrain
  BY <1>1, <1>11 DEF EndDrain, readVars, flagVars
<1>12. CASE RunAfterStop
  <2>1. /\ isStopped
        /\ \/ rpc = "ctxStop" /\ rpc' = "drain"
           \/ rpc = "finalStop" /\ rpc' = "done"
        /\ UNCHANGED <<readVars, isStopped, innerClosed, ctxDone, buf, readErr>>
    BY <1>12 DEF RunAfterStop, LeaveLoop, StreamInv, StopInv, Callers
  <2>2. CASE rpc = "ctxStop"
    BY <1>1, <2>1, <2>2 DEF readVars
  <2>3. CASE rpc = "finalStop"
    <3>1. Contract!Finish(0)
      BY <1>1, <2>1, <2>3 DEF Contract!Finish, readVars
    <3>2. QED
      BY <3>1 DEF Contract!StreamStep
  <2>4. QED
    BY <2>1, <2>2, <2>3
<1>13. ASSUME NEW p \in Pipes, OnPipe(p) PROVE UNCHANGED Contract!contractVars
  BY <1>1, <1>13 DEF OnPipe, CallGoesOn, WriteDone, WriteStopped, PipeStopped, runVars,
                     readVars, flagVars
<1>14. QED
  BY <1>2, <1>3, <1>4, <1>5, <1>6, <1>7, <1>8, <1>9, <1>10, <1>11, <1>12, <1>13 DEF Run

(* So is each step of a caller of Stop, of the context and of the reader.  *)
LEMMA OthersImplement ==
  ASSUME PipeInv, StreamInv,
         (\E c \in Callers : Stop(c)) \/ CancelCtx \/ ReadInput \/ ReaderOnly
  PROVE  Contract!StreamStep(0) \/ UNCHANGED Contract!contractVars
<1> USE OneUpdate, OneValue
    DEF Contract!contractVars, Contract!runOnly, Contract!stopOnly, Contract!readOnly,
        RunPhase, ReaderPhase, Reason
<1>1. AllGone' = AllGone
  BY OutcomeFrame DEF AllGone
<1>2. ASSUME NEW c \in Callers, StopCalled(c)
      PROVE  Contract!StreamStep(0) \/ UNCHANGED Contract!contractVars
  <2>1. CASE isStopped = TRUE
    BY <1>1, <1>2, <2>1 DEF StopCalled, runVars, readVars
  <2>2. CASE ~isStopped
    <3>1. isStopped' = TRUE /\ UNCHANGED <<runVars, readVars, innerClosed, ctxDone>>
      BY <1>2 DEF StopCalled
    <3>2. Contract!SetFlag(0)
      BY <1>1, <2>2, <3>1 DEF Contract!SetFlag, runVars, readVars
    <3>3. QED
      BY <3>2 DEF Contract!StreamStep
  <2>3. QED
    BY <2>1, <2>2
<1>3. ASSUME NEW c \in Callers, RunBeforeStop(c) PROVE UNCHANGED Contract!contractVars
  BY <1>1, <1>3 DEF RunBeforeStop, runVars, readVars
<1>4. ASSUME NEW c \in Callers, CloseInner(c) PROVE Contract!StreamStep(0)
  <2>1. isStopped /\ ~innerClosed
    BY <1>4 DEF CloseInner, StreamInv, StopInv, StoppedOnce
  <2>2. Contract!Signal(0)
    BY <1>1, <1>4, <2>1 DEF CloseInner, Contract!Signal, runVars, readVars
  <2>3. QED
    BY <2>2 DEF Contract!StreamStep
<1>5. CASE CancelCtx
  <2>1. Contract!EndCtx(0)
    BY <1>1, <1>5 DEF CancelCtx, Contract!EndCtx, runVars, readVars
  <2>2. QED
    BY <2>1 DEF Contract!StreamStep
<1>6. ASSUME NEW n \in 0..BufSize, NEW err \in {"nil", "end", "fail"}, ReadReturns(n, err)
      PROVE  Contract!StreamStep(0)
  <2>1. /\ kpc = "read" /\ nread' = nread + n /\ partErr' = err
        /\ kpc' = "part" \/ (kpc' = "err" /\ nread' = nread)
        /\ UNCHANGED <<runVars, flagVars>>
    BY <1>6, PipeAssumption DEF ReadReturns, StreamInv, ReaderInv
  <2>2. CASE kpc' = "part"
    <3>1. Contract!Fetch(0, n, err)
      BY <1>1, <2>1, <2>2, ZenonT(40) DEF Contract!Fetch, runVars, flagVars
    <3>2. QED
      BY <3>1 DEF Contract!StreamStep
  <2>3. CASE kpc' = "err" /\ nread' = nread
    <3>1. Contract!FetchNothing(0, err)
      BY <1>1, <2>1, <2>3, ZenonT(40) DEF Contract!FetchNothing, runVars, flagVars
    <3>2. QED
      BY <3>1 DEF Contract!StreamStep
  <2>4. QED
    BY <2>1, <2>2, <2>3
<1>7. CASE ReadInput \/ ReadClosedInput
  <2>1. 0 \in 0..BufSize
    BY PipeAssumption
  <2>2. QED
    BY <1>6, <1>7, <2>1, StreamAssumption DEF ReadInput, ReadClosedInput
<1>8. CASE DropPart
  <2>1. Contract!Drop(0)
    BY <1>1, <1>8, ZenonT(40) DEF DropPart, Contract!Drop, runVars, flagVars
  <2>2. QED
    BY <2>1 DEF Contract!StreamStep
<1>9. CASE PollStop
  <2>1. Contract!Poll(0)
    BY <1>1, <1>9, ZenonT(40) DEF PollStop, Contract!Poll, runVars, flagVars
  <2>2. QED
    BY <2>1 DEF Contract!StreamStep
<1>10. CASE ReaderExit
  BY <1>1, <1>10 DEF ReaderExit, runVars, flagVars
<1>11. QED
  BY <1>2, <1>3, <1>4, <1>5, <1>7, <1>8, <1>9, <1>10 DEF Stop, StopGoesOn, ReaderOnly

(* A consumer is seen only when it is the last one to refuse data.         *)
LEMMA ConsumerImplements ==
  ASSUME PipeInv, GoneInv, NEW p \in Pipes, ConsumerSide(p)
  PROVE  Contract!StreamStep(0) \/ UNCHANGED Contract!contractVars
<1> USE OneUpdate, OneValue
    DEF Contract!contractVars, Contract!runOnly, Contract!stopOnly, Contract!readOnly,
        RunPhase, ReaderPhase, Reason
<1>1. UNCHANGED <<runVars, readVars, flagVars>>
  BY DEF ConsumerSide
<1>2. CASE AllGone' = AllGone
  BY <1>1, <1>2 DEF runVars, readVars, flagVars
<1>3. CASE AllGone = FALSE /\ AllGone' = TRUE
  <2>1. rpc \notin {"idle", "start"}
    BY DEF ConsumerSide, Cycle, Consume, Receive, ReceiveClosed, ConsumerTakes, ConsumerDone,
           ConsumerFails, SetWriteErr, CloseEnd, GoneInv
  <2>2. Contract!AllRefuse(0)
    BY <1>1, <1>3, <2>1, ZenonT(40) DEF Contract!AllRefuse, runVars, readVars, flagVars
  <2>3. QED
    BY <2>2 DEF Contract!StreamStep
<1>4. \A q \in Pipes : outcome[q] # "ok" => outcome'[q] # "ok"
  <2>1. [Next]_vars
    BY DEF Next
  <2>2. QED
    BY <2>1, OutcomeStays
<1>5. QED
  BY <1>2, <1>3, <1>4 DEF AllGone

LEMMA ReadErrInit == Init => ReadErrInv /\ GoneInv
BY DEF Init, PipeInit, ReadErrInv, GoneInv

(* What the user of a TeeStream sees, whatever its consumers, the callers  *)
(* of Stop and the input do, is a behaviour of the contract (the Stream    *)
(* interface, pkg/tee/base.go, as stream_tee.go implements it).            *)
THEOREM StreamKeepsContract == Spec => KeepsContract
<1> DEFINE Inv == PipeInv /\ StreamInv /\ ReadErrInv /\ GoneInv
<1>1. Init => Inv
  BY StreamInitInv, ReadErrInit
<1>2. Inv /\ [Next]_vars => Inv'
  BY NextInv, StepImplements, ReaderInvStep, RoundInvStep, DrainInvStep, StopInvStep,
     ReadErrStep, GoneStep
     DEF StreamInv
<1>3. Inv /\ [Next]_vars =>
        [\E s \in One : Contract!StreamStep(s)]_(Contract!contractVars)
  <2> SUFFICES ASSUME Inv, [Next]_vars
               PROVE  Contract!StreamStep(0) \/ UNCHANGED Contract!contractVars
    BY DEF One
  <2>1. CASE Run
    BY <2>1, RunImplements
  <2>2. CASE (\E c \in Callers : Stop(c)) \/ CancelCtx \/ ReadInput \/ ReaderOnly
    BY <2>2, OthersImplement
  <2>3. ASSUME NEW p \in Pipes, ConsumerSide(p)
        PROVE  Contract!StreamStep(0) \/ UNCHANGED Contract!contractVars
    BY <2>3, ConsumerImplements
  <2>4. CASE Terminated \/ UNCHANGED vars
    BY <2>4 DEF Terminated, vars, pipeVars, runVars, readVars, flagVars,
                Contract!contractVars, RunPhase, ReaderPhase, Reason, AllGone
  <2>5. QED
    BY <2>1, <2>2, <2>3, <2>4 DEF Next
<1>4. QED
  BY <1>1, <1>2, <1>3, ContractInitMaps, PTL DEF Spec, KeepsContract, Contract!ContractSpec

=============================================================================
