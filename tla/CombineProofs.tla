---------------------------- MODULE CombineProofs ----------------------------
(***************************************************************************)
(* Proofs about CombineStream, for any set of streams and any number of    *)
(* goroutines that call Run, Stop, WaitReadEnd and GetError: the cleaner   *)
(* runs once, a Stop reaches all streams, and what Run returns.            *)
(***************************************************************************)
EXTENDS CombineStream, TLAPS, WellFoundedInduction

(* The types of the streams: an io.Pipe ends, but does not fail.           *)
StreamsTypeOK ==
  /\ run \in [Streams -> {"idle", "loop", "send", "leaving", "done"}]
  /\ result \in [Streams -> {"nil", "ctx"}]
  /\ alone \in [Streams -> BOOLEAN]
  /\ flagged \in [Streams -> BOOLEAN] /\ signalled \in [Streams -> BOOLEAN]
  /\ ctxEnded \in [Streams -> BOOLEAN]
  /\ reader \in [Streams -> {"none", "read", "part", "poll", "ended"}]
  /\ lastErr \in [Streams -> {"nil", "end"}]
  /\ fetched \in [Streams -> Nat] /\ got \in [Streams -> Nat]

TypeInv == CombineTypeOK /\ StreamsTypeOK /\ outs # {}

(* One caller of Stop runs the cleaner and stops the streams; what is      *)
(* closed and flagged by then follows from where it is.                    *)
Stopping(c) == stopPc[c] \notin {"none", "returned"}
Cleaned == errSent \/ errTaken

StopperInv ==
  /\ CleanerClosesOnce
  /\ \A c \in Users : stopPc[c] # "none" => combined
  /\ \A c \in Users : stopPc[c] = "streams" =>
       /\ Cleaned /\ \A d \in Users \ {c} : ~Stopping(d)
       /\ \A o \in outs \ stopTodo : flagged[o]
  /\ \A c \in Users : stopPc[c] \in {"sleep", "readers"} => \A o \in outs : writerEnd[o]
  /\ \A o \in Streams : writerEnd[o] \/ readerEnd[o] => combined
  /\ errSent => combined /\ \A o \in outs : writerEnd[o] /\ readerEnd[o]
  /\ combined /\ (\A c \in Users : ~Stopping(c)) => Cleaned /\ \A o \in outs : flagged[o]

(* What a call of Run knows of the streams, and what it tells.             *)
Tells(r, o) ==
  /\ answer[r][o] = "mine" => run[o] = "done" /\ (result[o] = "nil" \/ result[o] \in results[r])
  /\ answer[r][o] \in {"started", "stopped"} => answer[r][o] \in results[r]

RunInv ==
  /\ \A r \in Users : runner[r] = "idle" => \A o \in outs : answer[r][o] = "none"
  /\ \A r \in Users : runner[r] = "wait" /\ stopPc[r] # "none" => \A o \in outs : Returned(r, o)
  /\ \A r \in Users : runner[r] = "done" =>
       /\ combined /\ \A o \in outs : Tells(r, o)
       /\ stopPc[r] = "none" => \A o \in outs : answer[r][o] = "none"
  /\ \A o \in outs : run[o] # "idle" <=> \E r \in Users : answer[r][o] = "mine"

(* A stream that its consumers hold goes on.                               *)
Calm(o) ==
  /\ run[o] \in {"idle", "loop", "send"}
  /\ ~flagged[o] /\ ~signalled[o] /\ reader[o] # "ended" /\ lastErr[o] = "nil"

(* Unless something interrupts it, Run is stopped by itself alone, when all*)
(* consumers have left.                                                    *)
Quiet == ~CtxDone /\ ~TurnedAway /\ ~StopAsked

QuietInv ==
  /\ \A o \in outs : alone[o] => run[o] # "idle"
  /\ Quiet => \A o \in outs : ~alone[o] => ~combined /\ Calm(o)

CombineInv == TypeInv /\ StopperInv /\ RunInv /\ QuietInv

-----------------------------------------------------------------------------
(* What the steps leave alone.                                             *)
StreamOnly(o) ==
  StreamGoesOn(o) \/ SeesCtx(o) \/ ConsumersLeave(o) \/ PipeGives(o) \/ ReadEnd(o)
UserOnly(u) == CallsGetError(u) \/ WaitReadEnd(u)

LEMMA StreamFrame ==
  ASSUME NEW o \in outs, StreamOnly(o)
  PROVE  UNCHANGED <<outs, combineVars, stopVars, errTaken, blocked, ctxEnded>>
BY DEF StreamOnly, StreamGoesOn, SeesCtx, ConsumersLeave, PipeGives, ReadEnd, Fetch, LeaveOnStop,
       LeaveOnEnd, SendDone, LeaveAlone, SetFlag, Finish, Signal, Deliver, Poll, Drop, LeaveOnCtx,
       Leave, AllRefuse, stopOnly, readOnly, runOnly

LEMMA UserFrame ==
  ASSUME NEW u \in Users, UserOnly(u)
  PROVE  /\ UNCHANGED <<contractVars, outs, combineVars, stopVars>>
         /\ errTaken' \in {errTaken, TRUE}
BY DEF UserOnly, CallsGetError, PollError, AskError, ErrorComes, TakeError, WaitReadEnd,
       WaitCalled, WaitDone, WaitCut

LEMMA RunnerFrame ==
  ASSUME NEW r \in Users, CombineRun(r)
  PROVE  UNCHANGED <<contractVars, outs, answer, stopVars, errTaken, blocked>>
BY DEF CombineRun, CombineRefused, CombineStarts, CombineStopped

LEMMA CallFrame ==
  ASSUME NEW r \in Users, NEW o \in outs, CallsRun(r, o)
  PROVE  UNCHANGED <<outs, runner, results, stopVars, errTaken, blocked, result, alone, flagged,
                     signalled, ctxEnded, lastErr, fetched, got>>
BY DEF CallsRun, Start, contractVars, stopOnly

LEMMA StopFrame ==
  ASSUME NEW c \in Users, CombineStop(c)
  PROVE  UNCHANGED <<outs, combineVars, errTaken, blocked, run, result, alone, signalled,
                     ctxEnded, reader, lastErr, fetched, got>>
BY DEF CombineStop, StopGoesOn, StopCalled, CloseSkipped, CloseWriters, CloseWait, CloseReaders,
       StopStream, SetFlag, runOnly, readOnly, contractVars

(* The steps of the system, by what they leave alone.                      *)
LEMMA CombineSteps ==
  ASSUME [CombineNext]_allVars
  PROVE  \/ \E u \in Users : CombineRun(u) \/ CombineStop(u) \/ UserOnly(u)
         \/ \E o \in outs : StreamOnly(o) \/ \E r \in Users : CallsRun(r, o)
         \/ CancelCtx
         \/ UNCHANGED allVars
BY CombineAssumption DEF CombineNext, UserOnly, StreamOnly, StreamRuns

LEMMA CombineOuts == [CombineNext]_allVars => UNCHANGED outs
BY CombineSteps, StreamFrame, UserFrame, RunnerFrame, CallFrame, StopFrame
   DEF CancelCtx, allVars

-----------------------------------------------------------------------------
LEMMA CombineTypeInit == CombineInit => TypeInv
<1> SUFFICES ASSUME CombineInit PROVE TypeInv
  OBVIOUS
<1>1. CombineTypeOK
  BY DEF CombineInit, CombineTypeOK
<1>2. StreamsTypeOK
  BY DEF CombineInit, ContractInit, StreamsTypeOK
<1>3. outs # {}
  BY Zenon DEF CombineInit
<1>4. QED
  BY <1>1, <1>2, <1>3 DEF TypeInv

(* A step of the streams keeps their types.                                *)
LEMMA StreamsTypeStep ==
  ASSUME StreamsTypeOK, outs \subseteq Streams, [CombineNext]_allVars
  PROVE  StreamsTypeOK'
<1>1. UNCHANGED contractVars => StreamsTypeOK'
  BY DEF StreamsTypeOK, contractVars
<1>2. ASSUME NEW o \in outs, StreamOnly(o) PROVE StreamsTypeOK'
  <2> USE DEF StreamsTypeOK, stopOnly, readOnly, runOnly
  <2>1. o \in Streams
    OBVIOUS
  <2>2. CASE LeaveOnStop(o) \/ LeaveOnEnd(o) \/ LeaveOnCtx(o)
    BY <2>1, <2>2 DEF LeaveOnStop, LeaveOnEnd, LeaveOnCtx, Leave
  <2>3. CASE SendDone(o) \/ LeaveAlone(o) \/ Finish(o) \/ AllRefuse(o)
    BY <2>1, <2>3 DEF SendDone, LeaveAlone, Finish, AllRefuse
  <2>4. CASE SetFlag(o) \/ Signal(o)
    BY <2>1, <2>4 DEF SetFlag, Signal
  <2>5. CASE Deliver(o)
    BY <2>1, <2>5 DEF Deliver
  <2>6. CASE Poll(o) \/ Drop(o)
    BY <2>1, <2>6 DEF Poll, Drop
  <2>7. CASE PipeGives(o) \/ ReadEnd(o)
    BY <2>1, <2>7 DEF PipeGives, ReadEnd, Fetch
  <2>8. QED
    BY <1>2, <2>2, <2>3, <2>4, <2>5, <2>6, <2>7
       DEF StreamOnly, StreamGoesOn, SeesCtx, ConsumersLeave
<1>3. ASSUME NEW o \in outs, NEW r \in Users, CallsRun(r, o) PROVE StreamsTypeOK'
  <2>1. CASE Start(o)
    BY <2>1 DEF StreamsTypeOK, Start, stopOnly
  <2>2. QED
    BY <1>1, <1>3, <2>1 DEF CallsRun
<1>4. ASSUME NEW c \in Users, CombineStop(c) PROVE StreamsTypeOK'
  <2>1. flagged' \in [Streams -> BOOLEAN]
    BY <1>4
       DEF StreamsTypeOK, contractVars, CombineStop, StopGoesOn, StopCalled, CloseSkipped,
           CloseWriters, CloseWait, CloseReaders, StopStream, SetFlag
  <2>2. QED
    BY <1>4, <2>1, StopFrame DEF StreamsTypeOK
<1>5. CASE CancelCtx
  BY <1>5 DEF StreamsTypeOK, CancelCtx, runOnly, readOnly
<1>6. QED
  BY <1>1, <1>2, <1>3, <1>4, <1>5, CombineSteps, RunnerFrame, UserFrame DEF allVars

(* What stands in stop and pipe variables after a call of Stop.            *)
LEMMA StopTypeStep ==
  ASSUME CombineTypeOK, NEW c \in Users, CombineStop(c)
  PROVE  CombineTypeOK'
<1>1. UNCHANGED <<outs, combineVars, errTaken, blocked>>
  BY StopFrame
<1>2. /\ combined' \in BOOLEAN /\ errSent' \in BOOLEAN /\ stopTodo' \subseteq outs
      /\ stopPc' \in [Users -> {"none", "writers", "sleep", "readers", "streams", "returned"}]
  <2> USE DEF CombineTypeOK, pipeEnds
  <2>1. CASE StopCalled(c) \/ CloseWait(c)
    BY <2>1 DEF StopCalled, CloseWait
  <2>2. CASE CloseSkipped(c) \/ CloseWriters(c) \/ CloseReaders(c)
    BY <2>2 DEF CloseSkipped, CloseWriters, CloseReaders
  <2>3. ASSUME NEW o \in outs, StopStream(c, o)
        PROVE  /\ combined' \in BOOLEAN /\ errSent' \in BOOLEAN /\ stopTodo' \subseteq outs
               /\ stopPc' \in [Users -> {"none", "writers", "sleep", "readers", "streams",
                                         "returned"}]
    BY <2>3 DEF StopStream
  <2>4. QED
    BY <2>1, <2>2, <2>3 DEF CombineStop, StopGoesOn
<1>3. writerEnd' \in [Streams -> BOOLEAN] /\ readerEnd' \in [Streams -> BOOLEAN]
  <2>1. [o \in Streams |-> o \in outs] \in [Streams -> BOOLEAN]
    OBVIOUS
  <2>2. /\ writerEnd' \in {writerEnd, [o \in Streams |-> o \in outs]}
        /\ readerEnd' \in {readerEnd, [o \in Streams |-> o \in outs]}
    BY DEF CombineStop, StopGoesOn, StopCalled, CloseSkipped, CloseWriters, CloseWait,
           CloseReaders, StopStream, pipeEnds
  <2>3. QED
    BY <2>1, <2>2, Zenon DEF CombineTypeOK
<1>4. QED
  BY <1>1, <1>2, <1>3 DEF CombineTypeOK, combineVars

LEMMA CombineTypeStep == TypeInv /\ RunInv /\ [CombineNext]_allVars => TypeInv'
<1> SUFFICES ASSUME TypeInv, RunInv, [CombineNext]_allVars PROVE TypeInv'
  OBVIOUS
<1>1. CombineTypeOK /\ StreamsTypeOK /\ outs \subseteq Streams
  BY DEF TypeInv, CombineTypeOK
<1>2. StreamsTypeOK'
  BY <1>1, StreamsTypeStep
<1>3. outs' # {}
  BY CombineOuts DEF TypeInv
<1>4. UNCHANGED <<outs, combineVars, stopVars, errTaken, blocked>> => CombineTypeOK'
  BY <1>1 DEF CombineTypeOK, combineVars, stopVars, pipeEnds
<1>5. ASSUME NEW u \in Users, UserOnly(u) PROVE CombineTypeOK'
  <2>1. errTaken' \in BOOLEAN
    BY <1>1, <1>5, UserFrame DEF CombineTypeOK
  <2>2. \E b \in {"no", "end", "error"} : blocked' \in {blocked, [blocked EXCEPT ![u] = b]}
    BY <1>5 DEF UserOnly, CallsGetError, PollError, AskError, ErrorComes,
                WaitReadEnd, WaitCalled, WaitDone, WaitCut
  <2>3. blocked' \in [Users -> {"no", "end", "error"}]
    BY <1>1, <2>2 DEF CombineTypeOK
  <2>4. QED
    BY <1>1, <1>5, <2>1, <2>3, UserFrame DEF CombineTypeOK, combineVars, stopVars, pipeEnds
<1>6. ASSUME NEW r \in Users, CombineRun(r) PROVE CombineTypeOK'
  <2>1. CombineStopped(r) => ReadErrs(r) \subseteq {"started", "stopped", "ctx"}
    <3> SUFFICES ASSUME CombineStopped(r) PROVE ReadErrs(r) \subseteq {"started", "stopped", "ctx"}
      OBVIOUS
    <3>1. \A o \in outs : answer[r][o] \in {"mine", "started", "stopped"}
      BY DEF CombineStopped, RunInv, Returned
    <3>2. \A o \in outs : result[o] \in {"nil", "ctx"}
      BY <1>1 DEF StreamsTypeOK
    <3>3. QED
      BY <3>1, <3>2 DEF ReadErrs
  <2>2. /\ runner' \in [Users -> {"idle", "wait", "done"}]
        /\ results' \in [Users -> SUBSET {"started", "stopped", "ctx"}]
    <3>1. CASE CombineRefused(r)
      <4>1. {"stopped"} \in SUBSET {"started", "stopped", "ctx"}
        OBVIOUS
      <4>2. QED
        BY <1>1, <3>1, <4>1 DEF CombineTypeOK, CombineRefused
    <3>2. CASE CombineStopped(r)
      <4>1. results' = [results EXCEPT ![r] = ReadErrs(r)] /\ runner' = [runner EXCEPT ![r] = "done"]
        BY <3>2 DEF CombineStopped
      <4>2. ReadErrs(r) \in SUBSET {"started", "stopped", "ctx"}
        BY <2>1, <3>2
      <4> HIDE DEF ReadErrs
      <4>3. QED
        BY <1>1, <4>1, <4>2 DEF CombineTypeOK
    <3>3. CASE CombineStarts(r)
      BY <1>1, <3>3 DEF CombineTypeOK, CombineStarts
    <3>4. QED
      BY <1>6, <3>1, <3>2, <3>3 DEF CombineRun
  <2>3. QED
    BY <1>1, <1>6, <2>2, RunnerFrame DEF CombineTypeOK, stopVars, pipeEnds
<1>7. ASSUME NEW r \in Users, NEW o \in outs, CallsRun(r, o) PROVE CombineTypeOK'
  <2>1. \E a \in {"mine", "started", "stopped"} : answer' = [answer EXCEPT ![r][o] = a]
    BY <1>7 DEF CallsRun
  <2>2. answer' \in [Users -> [Streams -> {"none", "mine", "started", "stopped"}]]
    BY <1>1, <2>1 DEF CombineTypeOK
  <2>3. QED
    BY <1>1, <1>7, <2>2, CallFrame DEF CombineTypeOK, stopVars, pipeEnds
<1>8. ASSUME CancelCtx PROVE CombineTypeOK'
  <2>1. UNCHANGED <<outs, combineVars, stopVars, errTaken, blocked>>
    BY <1>8 DEF CancelCtx
  <2>2. QED
    BY <1>4, <2>1
<1>9. CombineTypeOK'
  BY <1>1, <1>4, <1>5, <1>6, <1>7, <1>8, CombineSteps, StreamFrame, StopTypeStep DEF allVars
<1>10. QED
  BY <1>2, <1>3, <1>9 DEF TypeInv

-----------------------------------------------------------------------------
LEMMA StopperInit == CombineInit => StopperInv
BY DEF CombineInit, StopperInv, CleanerClosesOnce

(* Stop of a stream: the flag is set, and no other is cleared.             *)
LEMMA FlagSet ==
  ASSUME TypeInv, NEW o \in outs, SetFlag(o) \/ (flagged[o] /\ UNCHANGED contractVars)
  PROVE  flagged'[o] /\ \A q \in outs : flagged[q] => flagged'[q]
<1>1. o \in Streams /\ flagged \in [Streams -> BOOLEAN]
  BY DEF TypeInv, CombineTypeOK, StreamsTypeOK
<1>2. CASE SetFlag(o)
  BY <1>1, <1>2 DEF SetFlag
<1>3. CASE flagged[o] /\ UNCHANGED contractVars
  BY <1>3 DEF contractVars
<1>4. QED
  BY <1>2, <1>3

LEMMA StopperStep == TypeInv /\ StopperInv /\ [CombineNext]_allVars => StopperInv'
<1> SUFFICES ASSUME TypeInv, StopperInv, [CombineNext]_allVars PROVE StopperInv'
  OBVIOUS
<1>1. CombineTypeOK /\ StreamsTypeOK /\ outs \subseteq Streams
  BY DEF TypeInv, CombineTypeOK
<1>2. ASSUME UNCHANGED <<outs, stopVars>>, errTaken' \in {errTaken, TRUE},
             \A o \in outs : flagged[o] => flagged'[o]
      PROVE  StopperInv'
  <2>1. UNCHANGED <<outs, combined, stopPc, stopTodo, writerEnd, readerEnd, errSent>>
    BY <1>2 DEF stopVars, pipeEnds
  <2>2. Cleaned => Cleaned'
    BY <1>2, <2>1 DEF Cleaned
  <2>3. CleanerClosesOnce'
    BY <2>1 DEF StopperInv, CleanerClosesOnce
  <2>4. \A c \in Users : Stopping(c)' <=> Stopping(c)
    BY <2>1 DEF Stopping
  <2>5. QED
    BY <1>2, <2>1, <2>2, <2>3, <2>4 DEF StopperInv
<1>3. ASSUME NEW c \in Users, CombineStop(c) PROVE StopperInv'
  <2>1. UNCHANGED <<outs, errTaken>>
    BY <1>3, StopFrame
  <2> USE <1>1 DEF StopperInv, CleanerClosesOnce, Stopping, Cleaned, CombineTypeOK, pipeEnds
  <2>2. CASE StopCalled(c)
    BY <2>1, <2>2 DEF StopCalled, contractVars
  <2>3. CASE CloseSkipped(c)
    BY <2>1, <2>3 DEF CloseSkipped, contractVars
  <2>4. CASE CloseWriters(c)
    <3>1. \A o \in outs : writerEnd'[o]
      BY <2>4 DEF CloseWriters
    <3>2. combined' /\ \A d \in Users : stopPc'[d] # "none" => stopPc[d] # "none"
      BY <2>4 DEF CloseWriters
    <3>3. /\ stopPc'[c] = "sleep" /\ ~errSent'
          /\ \A d \in Users \ {c} : stopPc'[d] \in {"none", "returned"}
      BY <2>4 DEF CloseWriters
    <3>4. QED
      BY <2>1, <3>1, <3>2, <3>3
  <2>5. CASE CloseWait(c)
    BY <2>1, <2>5 DEF CloseWait, contractVars
  <2>6. CASE CloseReaders(c)
    <3>1. \A o \in outs : readerEnd'[o] /\ writerEnd'[o]
      BY <2>6 DEF CloseReaders
    <3>2. QED
      BY <2>1, <2>6, <3>1 DEF CloseReaders, contractVars
  <2>7. ASSUME NEW o \in outs, StopStream(c, o) PROVE StopperInv'
    <3>1. flagged'[o] /\ \A q \in outs : flagged[q] => flagged'[q]
      BY <2>7, FlagSet DEF StopStream
    <3>2. \A q \in outs \ stopTodo' : flagged'[q]
      BY <2>7, <3>1 DEF StopStream
    <3>3. \A d \in Users \ {c} : ~Stopping(d) /\ stopPc'[d] = stopPc[d]
      BY <2>7 DEF StopStream
    <3>4. /\ stopPc'[c] = IF stopTodo' = {} THEN "returned" ELSE "streams"
          /\ combined' = combined /\ combined /\ Cleaned
          /\ UNCHANGED <<writerEnd, readerEnd, errSent>>
      BY <2>7 DEF StopStream
    <3>5. QED
      BY <2>1, <3>1, <3>2, <3>3, <3>4
  <2>8. QED
    BY <1>3, <2>2, <2>3, <2>4, <2>5, <2>6, <2>7 DEF CombineStop, StopGoesOn
<1>4. ASSUME NEW o \in outs, StreamOnly(o) PROVE StopperInv'
  <2>1. \A q \in outs : flagged[q] => flagged'[q]
    BY <1>1, <1>4
       DEF StreamOnly, StreamGoesOn, SeesCtx, ConsumersLeave, PipeGives, ReadEnd, Fetch,
           LeaveOnStop, LeaveOnEnd, SendDone, LeaveAlone, SetFlag, Finish, Signal, Deliver, Poll,
           Drop, LeaveOnCtx, Leave, AllRefuse, stopOnly, readOnly, runOnly, StreamsTypeOK
  <2>2. QED
    BY <1>2, <1>4, <2>1, StreamFrame
<1>5. ASSUME NEW u \in Users, UserOnly(u) PROVE StopperInv'
  BY <1>2, <1>5, UserFrame DEF contractVars
<1>6. ASSUME NEW r \in Users, CombineRun(r) PROVE StopperInv'
  BY <1>2, <1>6, RunnerFrame DEF contractVars
<1>7. ASSUME NEW r \in Users, NEW o \in outs, CallsRun(r, o) PROVE StopperInv'
  BY <1>2, <1>7, CallFrame
<1>8. CASE CancelCtx
  BY <1>2, <1>8 DEF CancelCtx
<1>9. CASE UNCHANGED allVars
  BY <1>2, <1>9 DEF allVars, contractVars
<1>10. QED
  BY <1>3, <1>4, <1>5, <1>6, <1>7, <1>8, <1>9, CombineSteps

-----------------------------------------------------------------------------
LEMMA RunInit == CombineInit => RunInv
<1> SUFFICES ASSUME CombineInit PROVE RunInv
  OBVIOUS
<1>1. outs \subseteq Streams
  BY Zenon DEF CombineInit
<1>2. QED
  BY <1>1 DEF CombineInit, ContractInit, RunInv

(* A Run of a stream that has returned stays so, with its result.          *)
LEMMA StreamsDone ==
  ASSUME StreamsTypeOK, outs \subseteq Streams, NEW o \in outs, NEW q \in outs, StreamOnly(q)
  PROVE  /\ run[o] # "idle" <=> run'[o] # "idle"
         /\ run[o] = "done" => run'[o] = "done" /\ result'[o] = result[o]
<1> USE DEF StreamsTypeOK, stopOnly, readOnly, runOnly
<1>1. CASE LeaveOnStop(q) \/ LeaveOnEnd(q) \/ LeaveOnCtx(q)
  BY <1>1 DEF LeaveOnStop, LeaveOnEnd, LeaveOnCtx, Leave
<1>2. CASE SendDone(q) \/ LeaveAlone(q) \/ Finish(q) \/ AllRefuse(q)
  BY <1>2 DEF SendDone, LeaveAlone, Finish, AllRefuse
<1>3. CASE SetFlag(q) \/ Signal(q) \/ Poll(q) \/ Drop(q) \/ PipeGives(q) \/ ReadEnd(q)
  BY <1>3 DEF SetFlag, Signal, Poll, Drop, PipeGives, ReadEnd, Fetch
<1>4. CASE Deliver(q)
  BY <1>4 DEF Deliver
<1>5. QED
  BY <1>1, <1>2, <1>3, <1>4 DEF StreamOnly, StreamGoesOn, SeesCtx, ConsumersLeave

LEMMA RunStep == TypeInv /\ StopperInv /\ RunInv /\ [CombineNext]_allVars => RunInv'
<1> SUFFICES ASSUME TypeInv, StopperInv, RunInv, [CombineNext]_allVars PROVE RunInv'
  OBVIOUS
<1>1. CombineTypeOK /\ StreamsTypeOK /\ outs \subseteq Streams
  BY DEF TypeInv, CombineTypeOK
<1>2. outs' = outs
  BY CombineOuts
<1>3. ASSUME UNCHANGED <<combineVars, stopPc, combined>>,
             \A o \in outs : /\ run[o] # "idle" <=> run'[o] # "idle"
                             /\ run[o] = "done" => run'[o] = "done" /\ result'[o] = result[o]
      PROVE  RunInv'
  BY <1>2, <1>3 DEF RunInv, Tells, Returned, combineVars
<1>4. ASSUME NEW o \in outs, StreamOnly(o) PROVE RunInv'
  BY <1>1, <1>3, <1>4, StreamsDone, StreamFrame DEF stopVars
<1>5. ASSUME NEW u \in Users, UserOnly(u) PROVE RunInv'
  BY <1>3, <1>5, UserFrame DEF contractVars, stopVars
<1>6. ASSUME NEW c \in Users, CombineStop(c) PROVE RunInv'
  <2>1. UNCHANGED <<combineVars, run, result>>
    BY <1>6, StopFrame
  <2>2. combined => combined'
    BY <1>6 DEF CombineStop, StopGoesOn, StopCalled, CloseSkipped, CloseWriters, CloseWait,
                CloseReaders, StopStream
  <2>3. \A r \in Users : stopPc[r] # "none" => stopPc'[r] # "none"
    BY <1>1, <1>6 DEF CombineTypeOK, CombineStop, StopGoesOn, StopCalled, CloseSkipped,
                      CloseWriters, CloseWait, CloseReaders, StopStream
  <2>4. \A r \in Users : stopPc[r] = "none" /\ stopPc'[r] # "none" => Free(r) \/ AllReturned(r)
    BY <1>1, <1>6 DEF CombineTypeOK, CombineStop, StopGoesOn, StopCalled, CloseSkipped,
                      CloseWriters, CloseWait, CloseReaders, StopStream
  <2>5. \A r \in Users : runner[r] = "wait" /\ stopPc'[r] # "none" => \A o \in outs : Returned(r, o)
    BY <2>3, <2>4 DEF RunInv, Free, AllReturned
  <2>6. QED
    BY <1>2, <2>1, <2>2, <2>3, <2>5 DEF RunInv, Tells, Returned, combineVars
<1>7. ASSUME NEW r \in Users, CombineRun(r) PROVE RunInv'
  <2>1. UNCHANGED <<run, result, answer, combined, stopPc>>
    BY <1>7, RunnerFrame DEF contractVars, stopVars
  <2>2. \A u \in Users \ {r} : runner'[u] = runner[u] /\ results'[u] = results[u]
    BY <1>1, <1>7 DEF CombineTypeOK, CombineRun, CombineRefused, CombineStarts, CombineStopped
  <2>3. CASE CombineRefused(r)
    <3>1. runner[r] = "idle" /\ runner'[r] = "done" /\ combined
      BY <1>1, <2>3 DEF CombineTypeOK, CombineRefused
    <3>2. QED
      BY <1>2, <2>1, <2>2, <3>1 DEF RunInv, Tells, Returned
  <2>4. CASE CombineStarts(r)
    <3>1. runner[r] = "idle" /\ runner'[r] = "wait" /\ stopPc[r] = "none"
      BY <1>1, <2>4 DEF CombineTypeOK, CombineStarts, StopperInv
    <3>2. QED
      BY <1>2, <2>1, <2>2, <3>1 DEF RunInv, Tells, Returned
  <2>5. CASE CombineStopped(r)
    <3>1. /\ runner[r] = "wait" /\ runner'[r] = "done" /\ stopPc[r] = "returned" /\ combined
          /\ results'[r] = ReadErrs(r)
      BY <1>1, <2>5 DEF CombineTypeOK, CombineStopped, StopperInv
    <3>2. ASSUME NEW o \in outs PROVE Tells(r, o)'
      <4>1. Returned(r, o)
        BY <3>1 DEF RunInv
      <4>2. answer[r][o] = "mine" /\ result[o] # "nil" => result[o] \in ReadErrs(r)
        BY DEF ReadErrs
      <4>3. answer[r][o] \in {"started", "stopped"} => answer[r][o] \in ReadErrs(r)
        BY DEF ReadErrs
      <4>4. QED
        BY <2>1, <3>1, <4>1, <4>2, <4>3 DEF Tells, Returned
    <3>3. QED
      BY <1>2, <2>1, <2>2, <3>1, <3>2 DEF RunInv, Tells, Returned
  <2>6. QED
    BY <1>7, <2>3, <2>4, <2>5 DEF CombineRun
<1>8. ASSUME NEW r \in Users, NEW o \in outs, CallsRun(r, o) PROVE RunInv'
  <2>1. UNCHANGED <<runner, results, combined, stopPc, result>> /\ runner[r] = "wait"
    BY <1>8, CallFrame DEF stopVars, CallsRun
  <2>2. answer[r][o] = "none" /\ stopPc[r] = "none"
    <3>1. answer[r][o] = "none"
      BY <1>8 DEF CallsRun
    <3>2. ~Returned(r, o)
      BY <3>1 DEF Returned
    <3>3. QED
      BY <2>1, <3>1, <3>2 DEF RunInv
  <2>3. \A u \in Users, q \in outs : u # r \/ q # o => answer'[u][q] = answer[u][q]
    BY <1>1, <1>8 DEF CombineTypeOK, CallsRun
  <2>4. \A q \in outs : /\ q # o => run'[q] = run[q]
                        /\ run[q] = "done" => run'[q] = "done"
                        /\ run[q] # "idle" => run'[q] # "idle"
    BY <1>1, <1>8 DEF CallsRun, Start, StreamsTypeOK, contractVars
  <2>5. run'[o] # "idle" <=> answer'[r][o] = "mine" \/ run[o] # "idle"
    BY <1>1, <1>8 DEF CallsRun, Start, StreamsTypeOK, CombineTypeOK, contractVars
  <2>6. QED
    BY <1>2, <2>1, <2>2, <2>3, <2>4, <2>5 DEF RunInv, Tells, Returned
<1>9. CASE CancelCtx
  BY <1>3, <1>9 DEF CancelCtx, runOnly, stopVars
<1>10. CASE UNCHANGED allVars
  BY <1>3, <1>10 DEF allVars, contractVars, stopVars
<1>11. QED
  BY <1>4, <1>5, <1>6, <1>7, <1>8, <1>9, <1>10, CombineSteps

-----------------------------------------------------------------------------
LEMMA QuietInit == CombineInit => QuietInv
<1> SUFFICES ASSUME CombineInit PROVE QuietInv
  OBVIOUS
<1>1. outs \subseteq Streams
  BY Zenon DEF CombineInit
<1>2. QED
  BY <1>1 DEF CombineInit, ContractInit, QuietInv, Calm

(* A Stop by a call of Run comes after its streams have returned, so all   *)
(* consumers had left; any other Stop is one that somebody asked for.      *)
LEMMA StopIsAsked ==
  ASSUME TypeInv, StopperInv, RunInv, QuietInv, NEW c \in Users, StopCalled(c),
         Quiet, StopAsked' => FALSE
  PROVE  \A o \in outs : alone[o]
<1>1. CombineTypeOK
  BY DEF TypeInv
<1>2. stopPc[c] = "none" /\ stopPc'[c] # "none" /\ UNCHANGED <<runner, answer, outs>>
  BY <1>1 DEF CombineTypeOK, StopCalled, combineVars
<1>3. runner[c] = "wait" \/ Answered(c)
  BY <1>2 DEF StopAsked, Answered
<1>4. runner[c] = "wait"
  BY <1>1, <1>2, <1>3 DEF RunInv, Answered, CombineTypeOK
<1>5. \A o \in outs : Returned(c, o)
  BY <1>4 DEF StopCalled, Free, AllReturned
<1>6. \A o \in outs : run[o] = "done"
  BY <1>5 DEF Returned, Quiet, TurnedAway
<1>7. QED
  BY <1>6 DEF QuietInv, Calm

(* What interrupts a Run stays so.                                         *)
LEMMA QuietBack ==
  ASSUME TypeInv, StopperInv, RunInv, [CombineNext]_allVars, Quiet'
  PROVE  Quiet
<1>1. CombineTypeOK /\ StreamsTypeOK /\ outs' = outs
  BY CombineOuts DEF TypeInv
<1>2. CtxDone => CtxDone'
  <2>1. UNCHANGED ctxEnded \/ CancelCtx
    BY CombineSteps, StreamFrame, UserFrame, RunnerFrame, CallFrame, StopFrame
       DEF contractVars, allVars
  <2>2. CASE CancelCtx
    BY <2>2 DEF CtxDone, CancelCtx
  <2>3. QED
    BY <2>1, <2>2 DEF CtxDone
<1>3. \A r \in Users, o \in outs : answer[r][o] # "none" => answer'[r][o] = answer[r][o]
  <2>1. ASSUME NEW r \in Users, NEW o \in outs, CallsRun(r, o)
        PROVE  \A u \in Users, q \in outs : answer[u][q] # "none" => answer'[u][q] = answer[u][q]
    BY <1>1, <2>1 DEF CallsRun, CombineTypeOK
  <2>2. UNCHANGED answer \/ \E r \in Users, o \in outs : CallsRun(r, o)
    BY CombineSteps, StreamFrame, UserFrame, RunnerFrame, StopFrame
       DEF combineVars, allVars, CancelCtx
  <2>3. QED
    BY <2>1, <2>2
<1>4. TurnedAway => TurnedAway'
  BY <1>1, <1>3 DEF TurnedAway
<1>5. ASSUME NEW u \in Users, stopPc[u] # "none", runner[u] # "wait", ~Answered(u)
      PROVE  stopPc'[u] # "none" /\ runner'[u] # "wait" /\ ~Answered(u)'
  <2>1. combined
    BY <1>5 DEF StopperInv
  <2>2. ASSUME NEW c \in Users, CombineStop(c) PROVE stopPc'[u] # "none"
    BY <1>1, <1>5, <2>2
       DEF CombineTypeOK, CombineStop, StopGoesOn, StopCalled, CloseSkipped, CloseWriters,
           CloseWait, CloseReaders, StopStream
  <2>3. ASSUME NEW r \in Users, CombineRun(r) PROVE runner'[u] # "wait"
    BY <1>1, <1>5, <2>1, <2>3
       DEF CombineTypeOK, CombineRun, CombineRefused, CombineStarts, CombineStopped
  <2>4. ASSUME NEW r \in Users, NEW o \in outs, CallsRun(r, o)
        PROVE  answer'[u] = answer[u]
    BY <1>1, <1>5, <2>4 DEF CallsRun, CombineTypeOK
  <2>5. stopPc'[u] # "none"
    BY <1>5, <2>2, CombineSteps, StreamFrame, UserFrame, RunnerFrame, CallFrame
       DEF stopVars, allVars, CancelCtx
  <2>6. runner'[u] # "wait"
    BY <1>5, <2>3, CombineSteps, StreamFrame, UserFrame, StopFrame, CallFrame
       DEF combineVars, allVars, CancelCtx
  <2>7. answer'[u] = answer[u]
    BY <2>4, CombineSteps, StreamFrame, UserFrame, StopFrame, RunnerFrame
       DEF combineVars, allVars, CancelCtx
  <2>8. QED
    BY <1>1, <1>5, <2>5, <2>6, <2>7 DEF Answered
<1>6. StopAsked => StopAsked'
  BY <1>5 DEF StopAsked
<1>7. QED
  BY <1>2, <1>4, <1>6 DEF Quiet

(* A step of the streams keeps a calm stream calm.                         *)
LEMMA CalmStep ==
  ASSUME TypeInv, StopperInv, NEW o \in outs, ~ctxEnded[o], ~alone[o], ~combined, Calm(o),
         NEW q \in outs, StreamOnly(q)
  PROVE  Calm(o)'
<1> USE DEF Calm, StreamsTypeOK, stopOnly, readOnly, runOnly
<1>1. StreamsTypeOK /\ o \in Streams /\ q \in Streams
  BY DEF TypeInv, CombineTypeOK
<1>2. CASE LeaveOnStop(q) \/ LeaveOnEnd(q) \/ LeaveOnCtx(q)
  BY <1>1, <1>2 DEF LeaveOnStop, LeaveOnEnd, LeaveOnCtx, Leave
<1>3. CASE SendDone(q) \/ LeaveAlone(q) \/ Finish(q) \/ AllRefuse(q)
  BY <1>1, <1>3 DEF SendDone, LeaveAlone, Finish, AllRefuse
<1>4. CASE (run[q] = "leaving" /\ SetFlag(q)) \/ Signal(q)
  BY <1>1, <1>4 DEF SetFlag, Signal
<1>5. CASE Poll(q) \/ Drop(q)
  BY <1>1, <1>5 DEF Poll, Drop
<1>6. CASE Deliver(q)
  BY <1>1, <1>6 DEF Deliver
<1>7. CASE PipeGives(q)
  BY <1>1, <1>7 DEF PipeGives, Fetch
<1>8. ~ReadEnd(q)
  BY <1>1 DEF ReadEnd, StopperInv
<1>9. QED
  BY <1>2, <1>3, <1>4, <1>5, <1>6, <1>7, <1>8 DEF StreamOnly, StreamGoesOn, SeesCtx, ConsumersLeave

LEMMA QuietStep ==
  TypeInv /\ StopperInv /\ RunInv /\ QuietInv /\ [CombineNext]_allVars => QuietInv'
<1> SUFFICES ASSUME TypeInv, StopperInv, RunInv, QuietInv, [CombineNext]_allVars
             PROVE  QuietInv'
  OBVIOUS
<1>1. CombineTypeOK /\ StreamsTypeOK /\ outs' = outs /\ outs \subseteq Streams
  BY CombineOuts DEF TypeInv, CombineTypeOK
<1>2. \A o \in outs : /\ run[o] # "idle" => run'[o] # "idle"
                      /\ alone[o] => alone'[o]
                      /\ alone'[o] /\ ~alone[o] => run[o] # "idle"
  <2>1. ASSUME NEW q \in outs, StreamOnly(q)
        PROVE  \A o \in outs : /\ alone[o] => alone'[o]
                               /\ alone'[o] /\ ~alone[o] => run[o] # "idle"
    BY <1>1, <2>1
       DEF StreamOnly, StreamGoesOn, SeesCtx, ConsumersLeave, PipeGives, ReadEnd, Fetch,
           LeaveOnStop, LeaveOnEnd, SendDone, LeaveAlone, SetFlag, Finish, Signal, Deliver, Poll,
           Drop, LeaveOnCtx, Leave, AllRefuse, stopOnly, readOnly, runOnly, StreamsTypeOK
  <2>2. ASSUME NEW q \in outs, StreamOnly(q)
        PROVE  \A o \in outs : run[o] # "idle" => run'[o] # "idle"
    BY <1>1, <2>2, StreamsDone
  <2>3. ASSUME NEW r \in Users, NEW q \in outs, CallsRun(r, q)
        PROVE  \A o \in outs : (run[o] # "idle" => run'[o] # "idle") /\ alone'[o] = alone[o]
    BY <1>1, <2>3 DEF CallsRun, Start, StreamsTypeOK, contractVars
  <2>4. \/ UNCHANGED <<run, alone>>
        \/ \E q \in outs : StreamOnly(q) \/ \E r \in Users : CallsRun(r, q)
    BY CombineSteps, UserFrame, StopFrame, RunnerFrame DEF contractVars, allVars, CancelCtx, runOnly
  <2>5. QED
    BY <2>1, <2>2, <2>3, <2>4
<1>3. ASSUME Quiet', NEW o \in outs, ~alone'[o]
      PROVE  ~combined' /\ Calm(o)'
  <2>1. Quiet
    BY <1>3, QuietBack
  <2>2. ~alone[o] /\ ~ctxEnded[o] /\ ~combined /\ Calm(o)
    BY <1>1, <1>2, <1>3, <2>1 DEF QuietInv, Quiet, CtxDone
  <2>3. UNCHANGED contractVars => Calm(o)'
    BY <2>2 DEF contractVars, Calm
  <2>4. ASSUME NEW c \in Users PROVE ~CombineStop(c)
    <3>1. stopPc[c] = "none"
      BY <2>2 DEF StopperInv
    <3>2. ~StopGoesOn(c)
      BY <3>1 DEF StopGoesOn, CloseSkipped, CloseWriters, CloseWait, CloseReaders, StopStream
    <3>3. ~StopCalled(c)
      BY <1>3, <2>1, <2>2, StopIsAsked DEF Quiet
    <3>4. QED
      BY <3>2, <3>3 DEF CombineStop
  <2>5. ASSUME NEW q \in outs, StreamOnly(q) PROVE ~combined' /\ Calm(o)'
    BY <2>2, <2>5, CalmStep, StreamFrame DEF stopVars
  <2>6. ASSUME NEW u \in Users, UserOnly(u) PROVE ~combined' /\ Calm(o)'
    BY <2>2, <2>3, <2>6, UserFrame DEF stopVars
  <2>7. ASSUME NEW r \in Users, CombineRun(r) PROVE ~combined' /\ Calm(o)'
    BY <2>2, <2>3, <2>7, RunnerFrame DEF stopVars
  <2>8. ASSUME NEW r \in Users, NEW q \in outs, CallsRun(r, q) PROVE ~combined' /\ Calm(o)'
    <3>1. UNCHANGED <<combined, flagged, signalled, lastErr>>
      BY <2>8, CallFrame DEF stopVars
    <3>2. run'[o] \in {run[o], "loop"} /\ reader'[o] \in {reader[o], "read"}
      BY <1>1, <2>8 DEF CallsRun, Start, contractVars, StreamsTypeOK
    <3>3. QED
      BY <2>2, <3>1, <3>2 DEF Calm
  <2>9. CASE CancelCtx
    BY <2>2, <2>9 DEF CancelCtx, runOnly, readOnly, stopVars, Calm
  <2>10. CASE UNCHANGED allVars
    BY <2>2, <2>3, <2>10 DEF allVars, stopVars
  <2>11. QED
    BY <2>4, <2>5, <2>6, <2>7, <2>8, <2>9, <2>10, CombineSteps
<1>4. QED
  BY <1>1, <1>2, <1>3 DEF QuietInv

-----------------------------------------------------------------------------
(* A step keeps the invariant.                                             *)
LEMMA CombineStep == CombineInv /\ [CombineNext]_allVars => CombineInv'
BY CombineTypeStep, StopperStep, RunStep, QuietStep DEF CombineInv

(* The invariant of every behaviour, for any streams and any callers.      *)
THEOREM CombineInvariant == CombineSpec => []CombineInv
<1>1. CombineInit => CombineInv
  BY CombineTypeInit, StopperInit, RunInit, QuietInit DEF CombineInv
<1>2. QED
  BY <1>1, CombineStep, PTL DEF CombineSpec

(* Every variable stays in its type.                                       *)
THEOREM CombineTypes == CombineSpec => []CombineTypeOK
<1>1. CombineInv => CombineTypeOK
  BY DEF CombineInv, TypeInv
<1>2. QED
  BY <1>1, CombineInvariant, PTL

(* However many goroutines call Stop, and end a Run, the cleaner's Close   *)
(* runs once and alone.                                                    *)
THEOREM ClosesOnce == CombineSpec => []CleanerClosesOnce
<1>1. CombineInv => CleanerClosesOnce
  BY DEF CombineInv, StopperInv
<1>2. QED
  BY <1>1, CombineInvariant, PTL

(* A CombineStream whose Stop is over has stopped all its streams, and its *)
(* pipes are closed unless the cleaner was polled before.                  *)
THEOREM StopsAll == CombineSpec => []StopClosesAll
<1>1. CombineInv => StopClosesAll
  BY DEF CombineInv, StopperInv, StopClosesAll, Stopping, Cleaned, Polled
<1>2. QED
  BY <1>1, CombineInvariant, PTL

(* Run returns for a cause: all consumers left, the context, a Stop or     *)
(* another Run.                                                            *)
THEOREM WaitsForAll == CombineSpec => []RunWaits
<1>1. CombineInv => RunWaits
  BY DEF CombineInv, RunInv, QuietInv, Quiet, RunWaits
<1>2. QED
  BY <1>1, CombineInvariant, PTL

(* No stream's error is lost between the Results of concurrent Runs.       *)
THEOREM TellsErrors == CombineSpec => []ErrorsTold
<1>1. CombineInv => ErrorsTold
  <2> SUFFICES ASSUME CombineInv, \A r \in Users : runner[r] # "wait" PROVE ErrorsTold
    BY DEF ErrorsTold
  <2>1. \A r \in Users : runner[r] \in {"idle", "done"}
    BY DEF CombineInv, TypeInv, CombineTypeOK
  <2>2. \A r \in Users, o \in outs : answer[r][o] # "none" => Tells(r, o)
    BY <2>1 DEF CombineInv, RunInv
  <2>3. \A o \in outs : run[o] = "done" => \E r \in Users : answer[r][o] = "mine"
    BY DEF CombineInv, RunInv
  <2>4. QED
    BY <2>2, <2>3 DEF ErrorsTold, Tells
<1>2. QED
  BY <1>1, CombineInvariant, PTL

(* A stream that no call runs does not take part in a step that matters.   *)
LEMMA IdleStream ==
  ASSUME StreamsTypeOK, NEW o \in outs, run[o] \in {"idle", "done"}, StreamOnly(o)
  PROVE  UNCHANGED <<got, result>>
BY DEF StreamOnly, StreamGoesOn, SeesCtx, ConsumersLeave, PipeGives, ReadEnd, Fetch, LeaveOnStop,
       LeaveOnEnd, SendDone, LeaveAlone, SetFlag, Finish, Signal, Deliver, Poll, Drop, LeaveOnCtx,
       Leave, AllRefuse, stopOnly, readOnly, runOnly

(* With no call of Run under way each stream is idle or done.              *)
LEMMA NoRunNoStream ==
  ASSUME CombineInv, [CombineNext]_allVars, \A r \in Users : runner[r] # "wait"
  PROVE  UNCHANGED <<got, result>>
<1>1. \A r \in Users : runner[r] \in {"idle", "done"}
  BY DEF CombineInv, TypeInv, CombineTypeOK
<1>2. ASSUME NEW o \in outs PROVE run[o] \in {"idle", "done"}
  <2>1. ASSUME NEW r \in Users, answer[r][o] = "mine" PROVE run[o] = "done"
    BY <1>1, <2>1 DEF CombineInv, RunInv, Tells
  <2>2. QED
    BY <2>1 DEF CombineInv, RunInv
<1>3. StreamsTypeOK
  BY DEF CombineInv, TypeInv
<1>4. ASSUME NEW o \in outs, StreamOnly(o) PROVE UNCHANGED <<got, result>>
  BY <1>2, <1>3, <1>4, IdleStream
<1>5. ASSUME NEW u \in Users, CombineRun(u) \/ CombineStop(u) \/ UserOnly(u)
      PROVE  UNCHANGED <<got, result>>
  BY <1>5, RunnerFrame, StopFrame, UserFrame DEF contractVars
<1>6. ASSUME NEW o \in outs, NEW r \in Users, CallsRun(r, o) PROVE UNCHANGED <<got, result>>
  BY <1>6, CallFrame
<1>7. CASE CancelCtx \/ UNCHANGED allVars
  BY <1>7 DEF CancelCtx, runOnly, readOnly, allVars, contractVars
<1>8. QED
  BY <1>4, <1>5, <1>6, <1>7, CombineSteps

(* A Run that has returned leaves no stream at work, unless another Run is *)
(* under way (the wait group, stream_combine.go:67).                       *)
THEOREM QuietBetweenRuns == CombineSpec => NothingBetweenRuns
<1>1. CombineInv /\ [CombineNext]_allVars =>
        [(\A r \in Users : runner[r] # "wait") => UNCHANGED <<got, result>>]_allVars
  BY NoRunNoStream
<1>2. QED
  BY <1>1, CombineInvariant, PTL DEF CombineSpec, NothingBetweenRuns

-----------------------------------------------------------------------------
(***************************************************************************)
(* A Stop frees all who wait: the safety half.                             *)
(***************************************************************************)

(* A stream has a reader from its start, is flagged when its Run returns,  *)
(* and was not written to more often than the bound allows; a Stop at its  *)
(* streams has one left.                                                   *)
ProgressInv ==
  /\ \A o \in Streams : /\ run[o] = "idle" <=> reader[o] = "none"
                        /\ run[o] = "done" => flagged[o]
                        /\ fetched[o] <= MaxWrites[o]
  /\ \A c \in Users : stopPc[c] = "streams" => stopTodo # {}

LEMMA ProgressInit == CombineInit => ProgressInv
BY CombineAssumption DEF CombineInit, ContractInit, ProgressInv

(* A step of a stream keeps what is said of it.                            *)
LEMMA StreamProgress ==
  ASSUME StreamsTypeOK, ProgressInv, NEW o \in Streams, NEW q \in Streams,
         StreamOnly(q) \/ Start(q) \/ SetFlag(q)
  PROVE  /\ run'[o] = "idle" <=> reader'[o] = "none"
         /\ run'[o] = "done" => flagged'[o]
         /\ fetched'[o] <= MaxWrites[o]
<1> USE CombineAssumption DEF StreamsTypeOK, ProgressInv, stopOnly, readOnly, runOnly
<1>1. CASE LeaveOnStop(q) \/ LeaveOnEnd(q) \/ LeaveOnCtx(q)
  BY <1>1 DEF LeaveOnStop, LeaveOnEnd, LeaveOnCtx, Leave
<1>2. CASE SendDone(q) \/ LeaveAlone(q) \/ Finish(q) \/ AllRefuse(q)
  BY <1>2 DEF SendDone, LeaveAlone, Finish, AllRefuse
<1>3. CASE SetFlag(q) \/ Signal(q) \/ Poll(q) \/ Drop(q)
  BY <1>3 DEF SetFlag, Signal, Poll, Drop
<1>4. CASE Deliver(q) \/ Start(q)
  BY <1>4 DEF Deliver, Start
<1>5. CASE PipeGives(q) \/ ReadEnd(q)
  BY <1>5 DEF PipeGives, ReadEnd, Fetch
<1>6. QED
  BY <1>1, <1>2, <1>3, <1>4, <1>5 DEF StreamOnly, StreamGoesOn, SeesCtx, ConsumersLeave

LEMMA ProgressStep == CombineInv /\ ProgressInv /\ [CombineNext]_allVars => ProgressInv'
<1> SUFFICES ASSUME CombineInv, ProgressInv, [CombineNext]_allVars PROVE ProgressInv'
  OBVIOUS
<1>1. StreamsTypeOK /\ CombineTypeOK /\ outs \subseteq Streams /\ outs # {} /\ StopperInv
  BY DEF CombineInv, TypeInv, CombineTypeOK
<1>2. ASSUME UNCHANGED contractVars, UNCHANGED <<stopPc, stopTodo>> PROVE ProgressInv'
  BY <1>2 DEF ProgressInv, contractVars
<1>3. ASSUME NEW o \in outs, StreamOnly(o) PROVE ProgressInv'
  BY <1>1, <1>3, StreamProgress, StreamFrame DEF ProgressInv, stopVars
<1>4. ASSUME NEW o \in outs, NEW r \in Users, CallsRun(r, o) PROVE ProgressInv'
  <2>1. UNCHANGED <<stopPc, stopTodo>>
    BY <1>4, CallFrame DEF stopVars
  <2>2. CASE Start(o)
    BY <1>1, <2>1, <2>2, StreamProgress DEF ProgressInv
  <2>3. QED
    BY <1>2, <1>4, <2>1, <2>2 DEF CallsRun
<1>5. ASSUME NEW c \in Users, CombineStop(c) PROVE ProgressInv'
  <2>1. \A d \in Users : stopPc'[d] = "streams" => stopTodo' # {}
    <3>1. CASE StopCalled(c) \/ CloseWriters(c) \/ CloseWait(c)
      BY <1>1, <3>1 DEF ProgressInv, CombineTypeOK, StopCalled, CloseWriters, CloseWait
    <3>2. CASE CloseSkipped(c) \/ CloseReaders(c)
      BY <1>1, <3>2 DEF CloseSkipped, CloseReaders
    <3>3. ASSUME NEW o \in outs, StopStream(c, o)
          PROVE  \A d \in Users : stopPc'[d] = "streams" => stopTodo' # {}
      <4>1. stopPc' = [stopPc EXCEPT ![c] = IF stopTodo' = {} THEN "returned" ELSE "streams"]
        BY <3>3 DEF StopStream
      <4>2. \A d \in Users \ {c} : stopPc[d] # "streams"
        BY <1>1, <3>3 DEF StopStream, StopperInv, Stopping
      <4>3. QED
        BY <1>1, <4>1, <4>2 DEF CombineTypeOK
    <3>4. QED
      BY <1>5, <3>1, <3>2, <3>3 DEF CombineStop, StopGoesOn
  <2>2. UNCHANGED contractVars \/ \E o \in outs : SetFlag(o)
    BY <1>5 DEF CombineStop, StopGoesOn, StopCalled, CloseSkipped, CloseWriters, CloseWait,
      CloseReaders, StopStream
  <2>3. \A o \in Streams : /\ run'[o] = "idle" <=> reader'[o] = "none"
                           /\ run'[o] = "done" => flagged'[o]
                           /\ fetched'[o] <= MaxWrites[o]
    <3>1. CASE UNCHANGED contractVars
      BY <3>1 DEF ProgressInv, contractVars
    <3>2. QED
      BY <1>1, <2>2, <3>1, StreamProgress
  <2>4. QED
    BY <2>1, <2>3 DEF ProgressInv
<1>6. CASE CancelCtx
  BY <1>6 DEF CancelCtx, ProgressInv, runOnly, readOnly, stopVars
<1>7. QED
  BY <1>2, <1>3, <1>4, <1>5, <1>6, CombineSteps, RunnerFrame, UserFrame
  DEF allVars, stopVars, combineVars

LEMMA ProgressHolds == CombineSpec => []ProgressInv
BY ProgressInit, ProgressStep, CombineInvariant, PTL DEF CombineSpec

(* Of the streams a Stop has still to stop one is the first.               *)
LEMMA FirstStream ==
  ASSUME NEW T \in SUBSET Nat, T # {}
  PROVE  \E o \in T : \A q \in T : o <= q
<1> DEFINE R == {ss \in Nat \X Nat : ss[1] < ss[2]}
<1>1. IsWellFoundedOn(R, Nat)
  BY NatLessThanWellFounded DEF OpToRel
<1>2. \E o \in T : \A q \in T : ~(<<q, o>> \in R)
  <2> HIDE DEF R
  <2> QED
    BY <1>1, WFMin
<1>3. PICK o \in T : \A q \in T : ~(<<q, o>> \in R)
  BY <1>2
<1>4. ASSUME NEW q \in T PROVE o <= q
  <2>1. o \in Nat /\ q \in Nat /\ ~(<<q, o>> \in R)
    BY <1>3
  <2>2. QED
    BY <2>1
<1>5. QED
  BY <1>4

(* A reader that is not through can step once its pipe is closed or the    *)
(* stop signal is out.                                                     *)
LEMMA ReaderGoesOn ==
  ASSUME TypeInv, ProgressInv, NEW o \in outs, ~StreamReady(o),
         writerEnd[o] \/ readerEnd[o], signalled[o] \/ run[o] # "idle"
  PROVE  reader[o] \in {"none", "ended"}
<1>1. /\ o \in Streams /\ reader[o] \in {"none", "read", "part", "poll", "ended"}
      /\ run[o] \in {"idle", "loop", "send", "leaving", "done"} /\ signalled[o] \in BOOLEAN
  BY DEF TypeInv, CombineTypeOK, StreamsTypeOK
<1>2. QED
  BY <1>1 DEF ProgressInv, StreamReady

(* Deadlock freedom: until all who wait are free, someone can step, in     *)
(* Close, in the streams' Reads, in Stop and in Run's wait for its streams *)
(* (Close, cleaner.go; Run and Stop, stream_combine.go).                   *)
THEOREM StopNotStuck == CombineSpec => []StopNeverStuck
<1>1. CombineInv /\ ProgressInv => StopNeverStuck
  <2> SUFFICES ASSUME CombineInv, ProgressInv, combined,
                      \A u \in Users : ~UserReady(u), \A o \in outs : ~StreamReady(o)
               PROVE  AllFree
    BY DEF StopNeverStuck
  <2>1. TypeInv /\ StopperInv /\ RunInv /\ outs \subseteq Streams /\ stopTodo \subseteq outs
    BY DEF CombineInv, TypeInv, CombineTypeOK
  <2>2. ASSUME NEW c \in Users PROVE ~Stopping(c)
    <3>1. stopPc[c] \in {"none", "writers", "sleep", "readers", "streams", "returned"}
      BY <2>1 DEF TypeInv, CombineTypeOK
    <3>2. stopPc[c] # "streams"
      <4> SUFFICES ASSUME stopPc[c] = "streams" PROVE FALSE
        OBVIOUS
      <4>1. stopTodo # {} /\ stopTodo \in SUBSET Nat
        BY <2>1, CombineAssumption DEF ProgressInv
      <4>2. \E o \in stopTodo : \A q \in stopTodo : o <= q
        BY <4>1, FirstStream
      <4>3. QED
        BY <4>2 DEF UserReady
    <3>3. QED
      BY <3>1, <3>2 DEF UserReady, Stopping
  <2>3. Cleaned /\ \A o \in outs : flagged[o] /\ signalled[o]
    BY <2>1, <2>2 DEF StopperInv, StreamReady
  <2>4. ASSUME NEW o \in outs PROVE run[o] \in {"idle", "done"}
    <3>1. run[o] \in {"idle", "loop", "send", "leaving", "done"}
      BY <2>1 DEF TypeInv, StreamsTypeOK
    <3>2. QED
      BY <2>3, <3>1 DEF StreamReady
  <2>5. ASSUME NEW u \in Users, runner[u] = "wait" PROVE FALSE
    <3>1. stopPc[u] \in {"none", "returned"}
      BY <2>2 DEF Stopping
    <3>2. ASSUME NEW o \in outs PROVE Returned(u, o)
      <4>1. answer[u][o] \in {"mine", "started", "stopped"}
        BY <2>1, <2>5 DEF UserReady, TypeInv, CombineTypeOK
      <4>2. answer[u][o] = "mine" => run[o] = "done"
        BY <2>1, <2>4 DEF RunInv
      <4>3. QED
        BY <4>1, <4>2 DEF Returned
    <3>3. QED
      BY <2>5, <3>1, <3>2 DEF UserReady, AllReturned
  <2>6. CASE errSent
    <3>1. ASSUME NEW o \in outs PROVE reader[o] \in {"none", "ended"}
      BY <2>1, <2>3, <2>6, ReaderGoesOn DEF StopperInv
    <3>2. \A u \in Users : blocked[u] # "error"
      BY <2>6 DEF UserReady
    <3>3. QED
      BY <2>2, <2>5, <3>1, <3>2 DEF AllFree, Stopping
  <2>7. QED
    BY <2>2, <2>3, <2>5, <2>6 DEF AllFree, Stopping, Cleaned, Polled
<1>2. QED
  BY <1>1, CombineInvariant, ProgressHolds, PTL

(* The counts are numbers.                                                 *)
LEMMA StepsCounted ==
  ASSUME StreamsTypeOK, ProgressInv, NEW o \in Streams
  PROVE  ReaderSteps(o) \in Nat /\ StreamSteps(o) \in Nat
<1>1. MaxWrites[o] \in Nat /\ fetched[o] \in Nat /\ fetched[o] <= MaxWrites[o]
  BY CombineAssumption DEF StreamsTypeOK, ProgressInv
<1>2. ReaderSteps(o) \in Nat
  BY <1>1 DEF ReaderSteps
<1>3. QED
  BY <1>2 DEF StreamSteps

(* The reader comes nearer to its end; what Run does in the same step pays.*)
LEMMA ReaderNearer ==
  ASSUME StreamsTypeOK, ProgressInv, NEW q \in Streams,
         Start(q) \/ Poll(q) \/ Drop(q) \/ Deliver(q) \/ PipeGives(q) \/ ReadEnd(q)
  PROVE  ReaderSteps(q)' < ReaderSteps(q)
<1>1. /\ MaxWrites[q] \in Nat /\ fetched[q] \in Nat /\ lastErr[q] \in {"nil", "end"}
      /\ reader[q] \in {"none", "read", "part", "poll", "ended"}
  BY CombineAssumption DEF StreamsTypeOK
<1>2. CASE Poll(q) \/ Drop(q)
  <2>1. /\ fetched'[q] = fetched[q]
        /\ \/ reader[q] = "poll" /\ reader'[q] \in {"ended", "read"}
           \/ reader[q] = "part" /\ reader'[q] = "ended"
    BY <1>2 DEF StreamsTypeOK, Poll, Drop
  <2>2. QED
    BY <1>1, <2>1 DEF ReaderSteps
<1>3. CASE Deliver(q)
  <2>1. /\ fetched'[q] = fetched[q] /\ reader[q] = "part"
        /\ reader'[q] = IF lastErr[q] = "nil" THEN "poll" ELSE "ended"
    BY <1>1, <1>3 DEF StreamsTypeOK, Deliver
  <2>2. QED
    BY <1>1, <2>1 DEF ReaderSteps
<1>4. CASE Start(q)
  <2>1. fetched'[q] = fetched[q] /\ reader[q] = "none" /\ reader'[q] = "read"
    BY <1>4 DEF StreamsTypeOK, ProgressInv, Start
  <2>2. QED
    BY <1>1, <2>1 DEF ReaderSteps
<1>5. CASE PipeGives(q)
  <2>1. /\ fetched'[q] = fetched[q] + 1 /\ reader[q] = "read" /\ reader'[q] = "part"
        /\ lastErr'[q] = "nil"
    BY <1>5 DEF StreamsTypeOK, PipeGives, Fetch
  <2>2. QED
    BY <1>1, <2>1 DEF ReaderSteps
<1>6. CASE ReadEnd(q)
  <2>1. /\ fetched'[q] = fetched[q] + 0 /\ reader[q] = "read" /\ reader'[q] = "part"
        /\ lastErr'[q] = "end"
    BY <1>6 DEF StreamsTypeOK, ReadEnd, Fetch
  <2>2. QED
    BY <1>1, <2>1 DEF ReaderSteps
<1>7. QED
  BY <1>2, <1>3, <1>4, <1>5, <1>6

(* A step of a stream leaves fewer to it, and as many to the others.       *)
LEMMA StreamNearer ==
  ASSUME StreamsTypeOK, ProgressInv, ProgressInv', StreamsTypeOK',
         NEW q \in Streams, StreamOnly(q) \/ Start(q) \/ SetFlag(q)
  PROVE  /\ StreamSteps(q)' < StreamSteps(q)
         /\ \A o \in Streams \ {q} : StreamSteps(o)' = StreamSteps(o)
<1>1. StreamSteps(q)' < StreamSteps(q)
  <2> USE DEF StreamsTypeOK, stopOnly, readOnly, runOnly
  <2>0. ReaderSteps(q) \in Nat /\ ReaderSteps(q)' \in Nat
    <3>1. /\ MaxWrites[q] \in Nat /\ fetched[q] \in Nat /\ fetched[q] <= MaxWrites[q]
          /\ fetched'[q] \in Nat /\ fetched'[q] <= MaxWrites[q]
      BY CombineAssumption DEF ProgressInv
    <3>2. QED
      BY <3>1 DEF ReaderSteps
  <2>1. CASE LeaveOnStop(q) \/ LeaveOnEnd(q) \/ LeaveOnCtx(q)
    <3>1. /\ run[q] = "loop" /\ run'[q] = "leaving" /\ ReaderSteps(q)' = ReaderSteps(q)
          /\ UNCHANGED <<flagged, signalled, alone, ctxEnded>>
      BY <2>1 DEF LeaveOnStop, LeaveOnEnd, LeaveOnCtx, Leave, ReaderSteps
    <3>2. QED
      BY <2>0, <3>1 DEF StreamSteps
  <2>2. CASE SendDone(q) \/ LeaveAlone(q) \/ Finish(q)
    <3>1. /\ \/ run[q] = "send" /\ run'[q] \in {"loop", "leaving"}
             \/ run[q] = "leaving" /\ run'[q] = "done"
          /\ ReaderSteps(q)' = ReaderSteps(q)
          /\ UNCHANGED <<flagged, signalled, alone, ctxEnded>>
      BY <2>2 DEF SendDone, LeaveAlone, Finish, ReaderSteps
    <3>2. QED
      BY <2>0, <3>1 DEF StreamSteps
  <2>3. CASE AllRefuse(q)
    <3>1. /\ ~alone[q] /\ alone'[q] = TRUE /\ ReaderSteps(q)' = ReaderSteps(q)
          /\ UNCHANGED <<run, flagged, signalled, ctxEnded>>
      BY <2>3 DEF AllRefuse, ReaderSteps
    <3>2. QED
      BY <2>0, <3>1 DEF StreamSteps
  <2>4. CASE SetFlag(q)
    <3>1. /\ ~flagged[q] /\ flagged'[q] = TRUE /\ ReaderSteps(q)' = ReaderSteps(q)
          /\ UNCHANGED <<run, signalled, alone, ctxEnded>>
      BY <2>4 DEF SetFlag, ReaderSteps
    <3>2. QED
      BY <2>0, <3>1 DEF StreamSteps
  <2>5. CASE Signal(q)
    <3>1. /\ ~signalled[q] /\ signalled'[q] = TRUE /\ ReaderSteps(q)' = ReaderSteps(q)
          /\ UNCHANGED <<run, flagged, alone, ctxEnded>>
      BY <2>5 DEF Signal, ReaderSteps
    <3>2. QED
      BY <2>0, <3>1 DEF StreamSteps
  <2>6. CASE Start(q) \/ Poll(q) \/ Drop(q) \/ Deliver(q) \/ PipeGives(q) \/ ReadEnd(q)
    <3>1. ReaderSteps(q)' < ReaderSteps(q)
      BY <2>6, ReaderNearer
    <3>2. /\ \/ run'[q] = run[q]
             \/ run[q] = "idle" /\ run'[q] = "loop"
             \/ run[q] = "loop" /\ run'[q] = "send"
          /\ UNCHANGED <<flagged, signalled, alone, ctxEnded>>
      BY <2>6 DEF Start, Poll, Drop, Deliver, PipeGives, ReadEnd, Fetch
    <3>3. QED
      BY <2>0, <3>1, <3>2 DEF StreamSteps
  <2>7. QED
    BY <2>1, <2>2, <2>3, <2>4, <2>5, <2>6 DEF StreamOnly, StreamGoesOn, SeesCtx, ConsumersLeave
<1>2. ASSUME NEW o \in Streams \ {q} PROVE StreamSteps(o)' = StreamSteps(o)
  <2> USE DEF StreamsTypeOK, stopOnly, readOnly, runOnly
  <2>1. /\ run'[o] = run[o] /\ alone'[o] = alone[o] /\ flagged'[o] = flagged[o]
        /\ signalled'[o] = signalled[o] /\ ctxEnded'[o] = ctxEnded[o]
        /\ reader'[o] = reader[o] /\ lastErr'[o] = lastErr[o] /\ fetched'[o] = fetched[o]
    <3>1. CASE LeaveOnStop(q) \/ LeaveOnEnd(q) \/ LeaveOnCtx(q) \/ SendDone(q) \/ LeaveAlone(q)
                 \/ Finish(q) \/ AllRefuse(q)
      BY <3>1 DEF LeaveOnStop, LeaveOnEnd, LeaveOnCtx, Leave, SendDone, LeaveAlone, Finish,
        AllRefuse
    <3>2. CASE SetFlag(q) \/ Signal(q) \/ Start(q) \/ Poll(q) \/ Drop(q) \/ Deliver(q)
                 \/ PipeGives(q) \/ ReadEnd(q)
      BY <3>2 DEF SetFlag, Signal, Start, Poll, Drop, Deliver, PipeGives, ReadEnd, Fetch
    <3>3. QED
      BY <3>1, <3>2 DEF StreamOnly, StreamGoesOn, SeesCtx, ConsumersLeave
  <2>2. QED
    BY <2>1 DEF StreamSteps, ReaderSteps
<1>3. QED
  BY <1>1, <1>2

(* A call of Run or Stop that goes on has fewer steps left.                *)
LEMMA CallNearer ==
  ASSUME CombineTypeOK, NEW u \in Users,
         CombineRun(u) \/ CombineStop(u)
  PROVE  /\ \A v \in Users \ {u} : CallSteps(v)' = CallSteps(v)
         /\ \/ CallSteps(u)' < CallSteps(u)
            \/ /\ CallSteps(u)' = CallSteps(u)
               /\ stopTodo' \subseteq stopTodo /\ stopTodo' # stopTodo
<1> DEFINE calls == {"none", "writers", "sleep", "readers", "streams", "returned"}
<1>1. /\ runner \in [Users -> {"idle", "wait", "done"}] /\ stopPc \in [Users -> calls]
  BY DEF CombineTypeOK
<1>2. CASE CombineRun(u)
  <2>1. /\ \/ runner[u] = "idle" /\ runner'[u] \in {"wait", "done"}
           \/ runner[u] = "wait" /\ runner'[u] = "done"
        /\ \A v \in Users \ {u} : runner'[v] = runner[v]
        /\ stopPc' = stopPc
    BY <1>1, <1>2 DEF CombineRun, CombineRefused, CombineStarts, CombineStopped, stopVars
  <2>2. CallSteps(u)' < CallSteps(u)
    BY <1>1, <2>1 DEF CallSteps
  <2>3. QED
    BY <2>1, <2>2 DEF CallSteps
<1>3. CASE CombineStop(u)
  <2>1. /\ \A v \in Users \ {u} : stopPc'[v] = stopPc[v]
        /\ runner' = runner
    BY <1>1, <1>3 DEF CombineStop, StopGoesOn, StopCalled, CloseSkipped, CloseWriters, CloseWait,
      CloseReaders, StopStream, combineVars
  <2>2. \A v \in Users \ {u} : CallSteps(v)' = CallSteps(v)
    BY <2>1 DEF CallSteps
  <2>3. CASE StopCalled(u) \/ CloseSkipped(u) \/ CloseWriters(u) \/ CloseWait(u) \/ CloseReaders(u)
    <3>1. \/ stopPc[u] = "none" /\ stopPc'[u] \in {"returned", "writers"}
          \/ stopPc[u] = "writers" /\ stopPc'[u] \in {"streams", "sleep"}
          \/ stopPc[u] = "sleep" /\ stopPc'[u] = "readers"
          \/ stopPc[u] = "readers" /\ stopPc'[u] = "streams"
      BY <1>1, <2>3 DEF StopCalled, CloseSkipped, CloseWriters, CloseWait, CloseReaders
    <3>2. CallSteps(u)' < CallSteps(u)
      BY <1>1, <2>1, <3>1 DEF CallSteps
    <3>3. QED
      BY <2>2, <3>2
  <2>4. ASSUME NEW o \in outs, StopStream(u, o)
        PROVE  \/ CallSteps(u)' < CallSteps(u)
               \/ /\ CallSteps(u)' = CallSteps(u)
                  /\ stopTodo' \subseteq stopTodo /\ stopTodo' # stopTodo
    <3>1. /\ stopPc[u] = "streams" /\ stopPc'[u] \in {"streams", "returned"}
          /\ stopTodo' \subseteq stopTodo /\ stopTodo' # stopTodo
      BY <1>1, <2>4 DEF StopStream
    <3>2. QED
      BY <1>1, <2>1, <3>1 DEF CallSteps
  <2>5. QED
    BY <1>3, <2>2, <2>3, <2>4 DEF CombineStop, StopGoesOn
<1>4. QED
  BY <1>2, <1>3

(* Where the streams stand still, so do their counts.                      *)
LEMMA StepsStay ==
  ASSUME UNCHANGED contractVars
  PROVE  \A o \in Streams : StreamSteps(o)' = StreamSteps(o)
BY DEF contractVars, StreamSteps, ReaderSteps

LEMMA StopNearer ==
  ASSUME CombineInv, CombineInv', ProgressInv, ProgressInv', [CombineNext]_allVars
  PROVE  /\ Nearer
         /\ \A o \in Streams : StreamSteps(o)' <= StreamSteps(o)
<1> DEFINE Falls(o) == StreamSteps(o)' < StreamSteps(o)
           Counts == \A o \in Streams : StreamSteps(o)' <= StreamSteps(o)
<1>1. /\ StreamsTypeOK /\ CombineTypeOK /\ StreamsTypeOK' /\ outs \subseteq Streams /\ outs # {}
  BY DEF CombineInv, TypeInv, CombineTypeOK
<1>2. \A o \in Streams : StreamSteps(o) \in Nat /\ StreamSteps(o)' \in Nat
  <2>1. ASSUME NEW o \in Streams PROVE ReaderSteps(o)' \in Nat
    <3>1. MaxWrites[o] \in Nat /\ fetched'[o] \in Nat /\ fetched'[o] <= MaxWrites[o]
      BY <1>1, CombineAssumption DEF StreamsTypeOK, ProgressInv
    <3>2. QED
      BY <3>1 DEF ReaderSteps
  <2>2. ASSUME NEW o \in Streams PROVE StreamSteps(o)' \in Nat
    BY <2>1 DEF StreamSteps
  <2>3. QED
    BY <1>1, <2>2, StepsCounted
<1>3. \A u \in Users : CallSteps(u) \in Nat /\ CallSteps(u)' \in Nat
  BY DEF CallSteps
<1>4. ASSUME NEW q \in Streams, StreamOnly(q) \/ Start(q) \/ SetFlag(q)
      PROVE  Falls(q) /\ Counts
  <2>1. Falls(q) /\ \A o \in Streams \ {q} : StreamSteps(o)' = StreamSteps(o)
    BY <1>1, <1>4, StreamNearer
  <2>2. QED
    BY <1>2, <2>1
<1>5. ASSUME UNCHANGED contractVars PROVE Counts
  BY <1>2, <1>5, StepsStay
<1>6. ASSUME UNCHANGED <<contractVars, combineVars, stopVars>> PROVE Nearer /\ Counts
  BY <1>5, <1>6 DEF Nearer
<1>7. ASSUME NEW u \in Users, CombineRun(u) \/ CombineStop(u) PROVE Nearer /\ Counts
  <2>1. /\ \A v \in Users \ {u} : CallSteps(v)' = CallSteps(v)
        /\ \/ CallSteps(u)' < CallSteps(u)
           \/ /\ CallSteps(u)' = CallSteps(u)
              /\ stopTodo' \subseteq stopTodo /\ stopTodo' # stopTodo
    BY <1>1, <1>7, CallNearer
  <2>2. \A v \in Users : CallSteps(v)' <= CallSteps(v)
    BY <1>3, <2>1
  <2>3. answer' = answer
    BY <1>7, RunnerFrame, StopFrame DEF combineVars
  <2>4. UNCHANGED contractVars \/ \E o \in outs : SetFlag(o)
    BY <1>7, RunnerFrame DEF CombineStop, StopGoesOn, StopCalled, CloseSkipped, CloseWriters,
      CloseWait, CloseReaders, StopStream
  <2>5. Counts
    BY <1>1, <1>4, <1>5, <2>4
  <2>6. QED
    BY <2>1, <2>2, <2>3, <2>5 DEF Nearer
<1>8. ASSUME NEW o \in outs, StreamOnly(o) PROVE Nearer /\ Counts
  <2>1. UNCHANGED <<combineVars, stopVars>>
    BY <1>8, StreamFrame
  <2>2. \A u \in Users : CallSteps(u)' <= CallSteps(u)
    BY <1>3, <2>1 DEF CallSteps, combineVars, stopVars
  <2>3. Falls(o) /\ Counts
    BY <1>1, <1>4, <1>8
  <2>4. QED
    BY <1>1, <2>1, <2>2, <2>3 DEF Nearer, combineVars, stopVars
<1>9. ASSUME NEW o \in outs, NEW r \in Users, CallsRun(r, o) PROVE Nearer /\ Counts
  <2>1. UNCHANGED <<runner, stopVars>>
    BY <1>9, CallFrame
  <2>2. \A u \in Users : CallSteps(u)' <= CallSteps(u)
    BY <1>3, <2>1 DEF CallSteps, stopVars
  <2>3. /\ answer[r][o] = "none" /\ answer'[r][o] # "none"
        /\ \A u \in Users, p \in Streams : answer[u][p] # "none" => answer'[u][p] # "none"
    BY <1>1, <1>9 DEF CallsRun, CombineTypeOK
  <2>4. Counts
    BY <1>1, <1>4, <1>5, <1>9 DEF CallsRun
  <2>5. QED
    BY <2>1, <2>2, <2>3, <2>4 DEF Nearer, stopVars
<1>10. CASE CancelCtx
  <2>1. UNCHANGED <<combineVars, stopVars>>
    BY <1>10 DEF CancelCtx
  <2>2. \A u \in Users : CallSteps(u)' <= CallSteps(u)
    BY <1>3, <2>1 DEF CallSteps, combineVars, stopVars
  <2>3. ASSUME NEW o \in Streams PROVE Falls(o)
    <3>1. /\ ~ctxEnded[o] /\ ctxEnded'[o] = TRUE /\ ReaderSteps(o)' = ReaderSteps(o)
          /\ UNCHANGED <<run, flagged, signalled, alone>>
      BY <1>10 DEF CancelCtx, ReaderSteps, runOnly, readOnly
    <3>2. ReaderSteps(o) \in Nat
      BY <1>1, StepsCounted
    <3>3. QED
      BY <3>1, <3>2 DEF StreamSteps
  <2>4. Counts
    BY <1>2, <2>3
  <2>5. QED
    BY <1>1, <2>1, <2>2, <2>3, <2>4 DEF Nearer, combineVars, stopVars
<1>11. QED
  BY <1>6, <1>7, <1>8, <1>9, <1>10, CombineSteps, UserFrame DEF allVars

(* And it does not go on for ever: each step of a call or a stream lowers  *)
(* a count that nothing raises, which is at most six for a write into the  *)
(* stream and sixteen, seven for a call, and one for its part in a stream. *)
THEOREM StopEnds ==
  CombineSpec =>
    /\ [](/\ \A o \in Streams : StreamSteps(o) \in 0..(6 * MaxWrites[o] + 16)
          /\ \A u \in Users : CallSteps(u) \in 0..7)
    /\ StopComesNearer
<1> DEFINE Below == \A o \in Streams : StreamSteps(o) <= 6 * MaxWrites[o] + 16
           Whole == \A o \in Streams : StreamSteps(o) \in Nat
<1>1. CombineInit => Below
  <2> SUFFICES ASSUME CombineInit, NEW o \in Streams
               PROVE  StreamSteps(o) <= 6 * MaxWrites[o] + 16
    OBVIOUS
  <2>1. /\ run[o] = "idle" /\ ~flagged[o] /\ ~signalled[o] /\ ~alone[o] /\ ~ctxEnded[o]
        /\ reader[o] = "none" /\ fetched[o] = 0 /\ MaxWrites[o] \in Nat
    BY CombineAssumption DEF CombineInit, ContractInit
  <2>2. ReaderSteps(o) = 3 * MaxWrites[o] + 4
    BY <2>1 DEF ReaderSteps
  <2>3. QED
    BY <2>1, <2>2 DEF StreamSteps
<1>2. CombineInv /\ ProgressInv => Whole
  BY StepsCounted DEF CombineInv, TypeInv
<1>3. /\ CombineInv /\ CombineInv' /\ ProgressInv /\ ProgressInv' /\ Whole /\ Whole'
      /\ [CombineNext]_allVars
      => (Below => Below') /\ [Nearer]_allVars
  <2> SUFFICES ASSUME CombineInv, CombineInv', ProgressInv, ProgressInv', Whole, Whole',
                      [CombineNext]_allVars
               PROVE  (Below => Below') /\ Nearer
    OBVIOUS
  <2>1. Nearer /\ \A o \in Streams : StreamSteps(o)' <= StreamSteps(o)
    BY StopNearer
  <2>2. ASSUME Below, NEW o \in Streams PROVE StreamSteps(o)' <= 6 * MaxWrites[o] + 16
    <3>1. /\ StreamSteps(o) \in Nat /\ StreamSteps(o)' \in Nat /\ MaxWrites[o] \in Nat
          /\ StreamSteps(o) <= 6 * MaxWrites[o] + 16
          /\ StreamSteps(o)' <= StreamSteps(o)
      BY <2>1, <2>2, CombineAssumption
    <3>2. QED
      BY <3>1
  <2>3. QED
    BY <2>1, <2>2
<1>4. Below /\ Whole =>
        /\ \A o \in Streams : StreamSteps(o) \in 0..(6 * MaxWrites[o] + 16)
        /\ \A u \in Users : CallSteps(u) \in 0..7
  BY CombineAssumption DEF CallSteps
<1> HIDE DEF Below, Whole
<1>5. CombineSpec => [](Below /\ Whole) /\ [][Nearer]_allVars
  BY <1>1, <1>2, <1>3, CombineInvariant, ProgressHolds, PTL DEF CombineSpec
<1>6. QED
  BY <1>4, <1>5, PTL DEF StopComesNearer

=============================================================================
