--------------------------- MODULE CmdStreamProofs ---------------------------
(***************************************************************************)
(* Proofs about CmdStream, for any outputs, any number of writes and any   *)
(* capacity of the OS pipes: that RunCmd uses a CombineStream as anyone    *)
(* may, why no pipe is closed under a program that still writes, and where *)
(* the bytes are on their way from the program to the consumers.           *)
(***************************************************************************)
EXTENDS CmdStream, CombineProofs

(* RunCmd and its program in their types; a write in progress is one of    *)
(* those the program may still make.                                       *)
ProgInv ==
  /\ MainTypeOK /\ ProgTypeOK
  /\ dest # 0 => written[dest] < MaxWrites[dest]

(* What RunCmd does with the CombineStream, by where it is.                *)
MainInv ==
  /\ runner["main"] = "idle" /\ \A u \in Users : blocked[u] = "no"
  /\ pc \in {"start", "wait"} => stopPc["main"] = "none"
  /\ pc \in {"getError", "done"} => stopPc["main"] = "returned"
  /\ errTaken => errSent
  /\ pc = "done" => errSent

(* A byte the program has written is in the OS pipe, in the copy's hand or *)
(* in the stream, as long as the copy has not failed.                      *)
InHand(o) == IF copy[o] = "write" THEN 1 ELSE 0

CopyInv ==
  /\ proc # "runs" => dest = 0
  /\ pc = "start" => proc = "none"
  /\ pc = "wait" => proc # "none"
  /\ pc \notin {"start", "wait"} => proc # "runs"
  /\ \A o \in outs :
       /\ proc = "none" <=> copy[o] = "none"
       /\ pc \notin {"start", "wait"} => copy[o] \in {"none", "ended", "failed"}
       /\ copy[o] = "ended" => osPipe[o] = 0 /\ proc = "exited"
       /\ copy[o] # "failed" => fetched[o] + osPipe[o] + InHand(o) = written[o]

(* While the context holds and consumers of output o are there, nothing    *)
(* stops its stream before the program and the copies are through.         *)
Held(o) == ~CtxDone /\ ~alone[o]

HeldInv ==
  \A o \in outs : Held(o) =>
    /\ copy[o] # "failed"
    /\ combined => pc \notin {"start", "wait"}
    /\ ~combined => Calm(o) /\ answer["runner"][o] \in {"none", "mine"}

(* And its stream is stopped only when it has delivered all it has read.   *)
Closing == errSent \/ \E c \in Users : stopPc[c] = "readers"

DeliveredInv ==
  \A o \in outs :
    /\ run[o] = "idle" => reader[o] = "none"
    /\ signalled[o] => flagged[o]
    /\ /\ Held(o) /\ ~cutShort
       /\ reader[o] # "part" \/ run[o] = "leaving" \/ flagged[o] \/ Closing
       => got[o] = fetched[o]

CmdInv == CombineInv /\ ProgInv /\ MainInv /\ CopyInv /\ HeldInv /\ DeliveredInv

-----------------------------------------------------------------------------
(* The steps of RunCmd, the program and the copies that do not touch the   *)
(* CombineStream.                                                          *)
OwnStep ==
  \/ CmdStarts \/ CmdStartFails \/ CmdWaited \/ GetResults \/ Program
  \/ \E o \in outs : ProcBegins(o) \/ CopyReads(o) \/ CopyEnds(o) \/ CopyFails(o)

(* Those of the CombineStream and its streams, as RunCmd uses them.        *)
Calls(c) ==
  \/ c = "runner" /\ CombineRun(c)
  \/ StopCalled(c) /\ IF c = "main" THEN pc \in {"stop", "stopAfterFail"} ELSE AllReturned(c)
  \/ StopGoesOn(c)

StreamStepOf(o) ==
  \/ StreamGoesOn(o) \/ SeesCtx(o) \/ ConsumersLeave(o) \/ ReadEnd(o)
  \/ \E r \in Users : CallsRun(r, o)

(* What they leave alone of RunCmd.                                        *)
CallsStay == SleepOver /\ UNCHANGED <<leavers, pc, waitErr, progVars>>

LEMMA CmdSteps ==
  ASSUME [Next]_vars
  PROVE  \/ OwnStep
         \/ GetError
         \/ (\E c \in Users : Calls(c)) /\ CallsStay
         \/ \E o \in outs : Transfer(o)
         \/ (\E o \in outs : StreamStepOf(o)) /\ UNCHANGED cmdVars
         \/ CancelCtx /\ UNCHANGED cmdVars
         \/ UNCHANGED vars
<1>1. "main" \in Users /\ "runner" \in Users
  BY CmdAssumption
<1>2. ASSUME Combine PROVE (\E c \in Users : Calls(c)) /\ CallsStay
  BY <1>1, <1>2 DEF Combine, Calls, CallsStay
<1>3. ASSUME CmdStops PROVE (\E c \in Users : Calls(c)) /\ CallsStay
  BY <1>1, <1>3 DEF CmdStops, Calls, CallsStay
<1>4. QED
  BY <1>2, <1>3
     DEF Next, RunCmd, OwnStep, Output, StreamsRun, ReadsEnd, SeesCancel, Refuses, Cancel,
         Terminated, StreamStepOf, StreamRuns

LEMMA OwnFrame == OwnStep => UNCHANGED allVars
BY DEF OwnStep, CmdStarts, CmdStartFails, CmdWaited, GetResults, Program, ProcExits, ProcWrites,
       ProcBroken, ProcBegins, CopyReads, CopyEnds, CopyFails

LEMMA CallsFrame ==
  ASSUME NEW c \in Users, Calls(c)
  PROVE  /\ CombineRun(c) \/ CombineStop(c)
         /\ UNCHANGED <<outs, answer, errTaken, blocked, run, result, alone, signalled,
                        ctxEnded, reader, lastErr, fetched, got>>
BY RunnerFrame, StopFrame DEF Calls, CombineStop, combineVars, contractVars

LEMMA StreamStepFrame ==
  ASSUME NEW o \in outs, StreamStepOf(o)
  PROVE  /\ StreamOnly(o) \/ \E r \in Users : CallsRun(r, o)
         /\ UNCHANGED <<outs, runner, results, stopVars, errTaken, blocked, ctxEnded>>
         /\ TypeInv => fetched'[o] = fetched[o] /\ \A q \in Streams \ {o} : fetched'[q] = fetched[q]
<1>1. CASE ReadEnd(o)
  <2>1. TypeInv => fetched \in [Streams -> Nat] /\ outs \subseteq Streams
    BY DEF TypeInv, CombineTypeOK, StreamsTypeOK
  <2>2. fetched' = [fetched EXCEPT ![o] = @ + 0]
    BY <1>1 DEF ReadEnd, Fetch
  <2>3. TypeInv => fetched'[o] = fetched[o] /\ \A q \in Streams \ {o} : fetched'[q] = fetched[q]
    BY <2>1, <2>2
  <2>4. StreamOnly(o)
    BY <1>1 DEF StreamOnly
  <2>5. QED
    BY <2>3, <2>4, StreamFrame DEF combineVars
<1>2. CASE StreamGoesOn(o) \/ SeesCtx(o) \/ ConsumersLeave(o)
  <2>1. UNCHANGED fetched
    BY <1>2 DEF StreamGoesOn, SeesCtx, ConsumersLeave, LeaveOnStop, LeaveOnEnd, SendDone,
                LeaveAlone, SetFlag, Finish, Signal, Deliver, Poll, Drop, LeaveOnCtx, Leave,
                AllRefuse, readOnly
  <2>2. QED
    BY <1>2, <2>1, StreamFrame DEF StreamOnly, combineVars
<1>3. CASE \E r \in Users : CallsRun(r, o)
  BY <1>3, CallFrame
<1>4. QED
  BY <1>1, <1>2, <1>3 DEF StreamStepOf

-----------------------------------------------------------------------------
(* Every step is one a user of a CombineStream may make.                   *)
LEMMA Simulation ==
  ASSUME CombineInv, ProgInv, MainInv, CopyInv, [Next]_vars
  PROVE  [CombineNext]_allVars
<1>1. "main" \in Users /\ "main" \in Waiters /\ outs \subseteq Streams
  BY CmdAssumption DEF CombineInv, TypeInv, CombineTypeOK
<1>2. CASE OwnStep
  BY <1>2, OwnFrame
<1>3. CASE GetError
  <2>1. stopPc["main"] = "returned"
    BY <1>3 DEF GetError, MainInv
  <2>2. PollError("main")
    BY <1>1, <1>3, <2>1 DEF GetError, TakeError, PollError, Free, MainInv
  <2>3. QED
    BY <1>1, <2>2 DEF CombineNext, CallsGetError
<1>4. ASSUME NEW c \in Users, Calls(c) PROVE [CombineNext]_allVars
  BY <1>4, CallsFrame DEF CombineNext
<1>5. ASSUME NEW o \in outs, Transfer(o) PROVE [CombineNext]_allVars
  <2>1. copy[o] = "write" /\ fetched[o] + osPipe[o] + 1 = written[o]
    BY <1>5 DEF Transfer, CopyInv, InHand
  <2>2. /\ fetched[o] \in Nat /\ osPipe[o] \in Nat /\ written[o] \in Nat
        /\ MaxWrites[o] \in Nat /\ written[o] <= MaxWrites[o]
    BY <1>1, CombineAssumption, CmdAssumption
       DEF CombineInv, TypeInv, StreamsTypeOK, ProgInv, ProgTypeOK
  <2>3. PipeGives(o)
    BY <1>5, <2>1, <2>2 DEF Transfer, PipeGives
  <2>4. QED
    BY <2>3 DEF CombineNext
<1>6. ASSUME NEW o \in outs, StreamStepOf(o) PROVE [CombineNext]_allVars
  BY <1>6 DEF StreamStepOf, CombineNext, StreamRuns
<1>7. CASE CancelCtx
  BY <1>7 DEF CombineNext
<1>8. CASE UNCHANGED vars
  BY <1>8 DEF vars
<1>9. QED
  BY <1>2, <1>3, <1>4, <1>5, <1>6, <1>7, <1>8, CmdSteps

-----------------------------------------------------------------------------
LEMMA ProgInit == Init => ProgInv
<1>1. Init => MainTypeOK
  BY DEF Init, MainTypeOK
<1>2. Init => ProgTypeOK /\ dest = 0
  BY CmdAssumption, CombineAssumption DEF Init, ProgTypeOK
<1>3. QED
  BY <1>1, <1>2 DEF ProgInv

LEMMA ProgStep == CombineInv /\ ProgInv /\ [Next]_vars => ProgInv'
<1> SUFFICES ASSUME CombineInv, ProgInv, [Next]_vars PROVE ProgInv'
  OBVIOUS
<1>1. MainTypeOK /\ ProgTypeOK /\ outs \subseteq Streams
  BY DEF ProgInv, CombineInv, TypeInv, CombineTypeOK
<1>2. UNCHANGED <<outs, cmdVars>> => ProgInv'
  BY DEF ProgInv, MainTypeOK, ProgTypeOK, cmdVars, mainVars, progVars
<1>3. CASE OwnStep
  <2>1. outs' = outs
    BY <1>3, OwnFrame DEF allVars
  <2> USE <1>1, <2>1 DEF ProgInv, MainTypeOK, ProgTypeOK
  <2>2. CASE CmdStarts \/ CmdStartFails \/ CmdWaited \/ GetResults
    BY <2>2 DEF CmdStarts, CmdStartFails, CmdWaited, GetResults, progVars
  <2>3. CASE ProcExits
    BY <2>3 DEF ProcExits, mainVars
  <2>4. ASSUME NEW o \in outs, ProcBroken(o) \/ ProcBegins(o) \/ CopyEnds(o) \/ CopyFails(o)
        PROVE  ProgInv'
    BY <2>4, CmdAssumption DEF ProcBroken, ProcBegins, CopyEnds, CopyFails, mainVars
  <2>5. ASSUME NEW o \in outs, ProcWrites(o) PROVE ProgInv'
    <3>1. o \in Streams /\ o # 0 /\ MaxWrites[o] \in Nat
      BY <2>5, CombineAssumption
    <3>2. osPipe[o] + 1 \in 0..OsCapacity /\ written[o] + 1 \in Nat
      BY <2>5, <3>1, CmdAssumption DEF ProcWrites
    <3>3. written[o] + 1 <= MaxWrites[o]
      BY <2>5, <3>1 DEF ProcWrites
    <3>4. QED
      BY <2>5, <3>1, <3>2, <3>3 DEF ProcWrites, mainVars
  <2>6. ASSUME NEW o \in outs, CopyReads(o) PROVE ProgInv'
    BY <2>6, CmdAssumption DEF CopyReads, mainVars
  <2>7. QED
    BY <1>3, <2>2, <2>3, <2>4, <2>5, <2>6 DEF OwnStep, Program
<1>4. CASE GetError
  BY <1>1, <1>4 DEF GetError, ProgInv, MainTypeOK, ProgTypeOK, progVars
<1>5. ASSUME NEW o \in outs, Transfer(o) PROVE ProgInv'
  BY <1>1, <1>5 DEF Transfer, ProgInv, MainTypeOK, ProgTypeOK, mainVars
<1>6. ASSUME CallsStay, NEW c \in Users, Calls(c) PROVE ProgInv'
  BY <1>1, <1>6, CallsFrame
     DEF CallsStay, SleepOver, ProgInv, MainTypeOK, ProgTypeOK, progVars
<1>7. ASSUME UNCHANGED cmdVars, NEW o \in outs, StreamStepOf(o) PROVE ProgInv'
  BY <1>2, <1>7, StreamStepFrame
<1>8. CASE (CancelCtx /\ UNCHANGED cmdVars) \/ UNCHANGED vars
  BY <1>2, <1>8 DEF CancelCtx, vars, allVars
<1>9. QED
  BY <1>3, <1>4, <1>5, <1>6, <1>7, <1>8, CmdSteps

-----------------------------------------------------------------------------
LEMMA MainInit == Init => MainInv
BY CmdAssumption DEF Init, CombineInit, MainInv

LEMMA MainStep ==
  CombineInv /\ ProgInv /\ MainInv /\ [Next]_vars => MainInv'
<1> SUFFICES ASSUME CombineInv, ProgInv, MainInv, [Next]_vars PROVE MainInv'
  OBVIOUS
<1>1. CombineTypeOK /\ MainTypeOK /\ "main" \in Users
  BY CmdAssumption DEF CombineInv, TypeInv, ProgInv
<1>2. UNCHANGED <<runner, blocked, pc, stopPc, errTaken, errSent>> => MainInv'
  BY DEF MainInv
<1>3. CASE OwnStep
  <2>1. UNCHANGED <<runner, blocked, stopPc, errTaken, errSent>>
    BY <1>3, OwnFrame DEF allVars, combineVars, stopVars, pipeEnds
  <2>2. /\ pc' \in {"start", "wait"} => pc \in {"start", "wait"}
        /\ pc' \in {"getError", "done"} => pc' = pc \/ stopPc["main"] = "returned"
        /\ pc' = "done" => pc = "done"
    BY <1>3 DEF OwnStep, CmdStarts, CmdStartFails, CmdWaited, GetResults, Program, ProcExits,
                ProcWrites, ProcBroken, ProcBegins, CopyReads, CopyEnds, CopyFails, mainVars
  <2>3. QED
    BY <2>1, <2>2 DEF MainInv
<1>4. CASE GetError
  BY <1>4 DEF GetError, TakeError, MainInv, combineVars, stopVars, pipeEnds
<1>5. ASSUME NEW o \in outs, Transfer(o) PROVE MainInv'
  BY <1>2, <1>5 DEF Transfer, mainVars, combineVars, stopVars, pipeEnds
<1>6. ASSUME CallsStay, NEW c \in Users, Calls(c) PROVE MainInv'
  <2>1. UNCHANGED <<pc, blocked, errTaken>>
    BY <1>6, CallsFrame DEF CallsStay
  <2>2. CASE c = "runner" /\ CombineRun(c)
    <3>1. runner'["main"] = runner["main"] /\ UNCHANGED <<stopPc, errSent>>
      BY <1>1, <2>2, RunnerFrame
         DEF CombineTypeOK, CombineRun, CombineRefused, CombineStarts, CombineStopped, stopVars,
             pipeEnds
    <3>2. QED
      BY <2>1, <3>1 DEF MainInv
  <2>3. CASE CombineStop(c)
    <3>1. UNCHANGED runner
      BY <2>3, StopFrame DEF combineVars
    <3>2. errSent => errSent'
      BY <2>3 DEF CombineStop, StopGoesOn, StopCalled, CloseSkipped, CloseWriters, CloseWait,
                  CloseReaders, StopStream, pipeEnds
    <3>3. stopPc["main"] = "returned" => stopPc'["main"] = "returned"
      BY <1>1, <2>3 DEF CombineTypeOK, CombineStop, StopGoesOn, StopCalled, CloseSkipped,
                        CloseWriters, CloseWait, CloseReaders, StopStream
    <3>4. stopPc["main"] = "none" /\ pc \in {"start", "wait"} => stopPc'["main"] = "none"
      BY <1>1, <1>6 DEF CombineTypeOK, Calls, CombineRun, CombineRefused, CombineStarts,
                        CombineStopped, StopGoesOn, StopCalled, CloseSkipped, CloseWriters,
                        CloseWait, CloseReaders, StopStream, stopVars
    <3>5. QED
      BY <2>1, <3>1, <3>2, <3>3, <3>4 DEF MainInv
  <2>4. QED
    BY <1>6, <2>2, <2>3 DEF Calls, CombineStop
<1>7. ASSUME UNCHANGED cmdVars, NEW o \in outs, StreamStepOf(o) PROVE MainInv'
  BY <1>2, <1>7, StreamStepFrame DEF cmdVars, mainVars, stopVars, pipeEnds
<1>8. CASE (CancelCtx /\ UNCHANGED cmdVars) \/ UNCHANGED vars
  BY <1>2, <1>8 DEF CancelCtx, vars, allVars, combineVars, stopVars, pipeEnds, cmdVars, mainVars
<1>9. QED
  BY <1>3, <1>4, <1>5, <1>6, <1>7, <1>8, CmdSteps

-----------------------------------------------------------------------------
LEMMA CopyInit == Init => CopyInv
<1> SUFFICES ASSUME Init PROVE CopyInv
  OBVIOUS
<1>1. \A o \in outs : o \in Streams
  BY DEF Init, CombineInit
<1>2. QED
  BY <1>1 DEF Init, CombineInit, ContractInit, CopyInv, InHand

LEMMA CopyStep == CombineInv /\ ProgInv /\ CopyInv /\ [Next]_vars => CopyInv'
<1> SUFFICES ASSUME CombineInv, ProgInv, CopyInv, [Next]_vars PROVE CopyInv'
  OBVIOUS
<1>1. TypeInv /\ MainTypeOK /\ ProgTypeOK /\ StreamsTypeOK /\ outs \subseteq Streams
  BY DEF CombineInv, TypeInv, CombineTypeOK, ProgInv
<1>2. \A o \in outs : /\ o \in Streams /\ o # 0 /\ fetched[o] \in Nat /\ osPipe[o] \in Nat
                      /\ written[o] \in Nat
  BY <1>1, CombineAssumption, CmdAssumption DEF ProgTypeOK, StreamsTypeOK
<1>3. UNCHANGED <<outs, pc, progVars>> /\ (\A o \in outs : fetched'[o] = fetched[o]) => CopyInv'
  BY DEF CopyInv, InHand, progVars
<1>4. CASE OwnStep
  <2>1. UNCHANGED <<outs, fetched>>
    BY <1>4, OwnFrame DEF allVars, contractVars
  <2> USE <1>1, <1>2, <2>1 DEF CopyInv, InHand
  <2>2. CASE CmdStarts
    BY <2>2 DEF CmdStarts, ProgTypeOK
  <2>3. CASE CmdStartFails \/ CmdWaited \/ GetResults
    BY <2>3 DEF CmdStartFails, CmdWaited, GetResults, progVars, ProgTypeOK, MainTypeOK
  <2>4. CASE ProcExits
    BY <2>4 DEF ProcExits, mainVars
  <2>5. ASSUME NEW o \in outs, ProcBegins(o) \/ ProcBroken(o) PROVE CopyInv'
    BY <2>5 DEF ProcBegins, ProcBroken, mainVars
  <2>6. ASSUME NEW o \in outs, ProcWrites(o) PROVE CopyInv'
    <3>1. /\ osPipe' = [osPipe EXCEPT ![o] = @ + 1] /\ osPipe'[o] = osPipe[o] + 1
          /\ written' = [written EXCEPT ![o] = @ + 1] /\ written'[o] = written[o] + 1
      BY <2>6 DEF ProcWrites, ProgTypeOK
    <3>2. dest' = 0 /\ proc = "runs" /\ copy[o] # "ended" /\ UNCHANGED <<proc, copy, pc>>
      BY <2>6 DEF ProcWrites, mainVars, ProgTypeOK, MainTypeOK
    <3>3. \A q \in outs \ {o} : osPipe'[q] = osPipe[q] /\ written'[q] = written[q]
      BY <3>1 DEF ProgTypeOK
    <3>4. QED
      BY <3>1, <3>2, <3>3
  <2>7. ASSUME NEW o \in outs, CopyReads(o) PROVE CopyInv'
    BY <2>7 DEF CopyReads, mainVars, ProgTypeOK
  <2>8. ASSUME NEW o \in outs, CopyEnds(o) \/ CopyFails(o) PROVE CopyInv'
    BY <2>8 DEF CopyEnds, CopyFails, mainVars, ProgTypeOK
  <2>9. QED
    BY <1>4, <2>2, <2>3, <2>4, <2>5, <2>6, <2>7, <2>8 DEF OwnStep, Program
<1>5. CASE GetError
  BY <1>1, <1>5 DEF GetError, CopyInv, InHand, contractVars, progVars
<1>6. ASSUME NEW o \in outs, Transfer(o) PROVE CopyInv'
  <2>1. /\ copy[o] = "write" /\ copy'[o] = "read" /\ fetched'[o] = fetched[o] + 1
        /\ UNCHANGED <<proc, dest, osPipe, written, pc, outs>>
    BY <1>1, <1>6 DEF Transfer, Fetch, mainVars, ProgTypeOK, StreamsTypeOK
  <2>2. \A q \in outs \ {o} : fetched'[q] = fetched[q] /\ copy'[q] = copy[q]
    BY <1>1, <1>6 DEF Transfer, Fetch, ProgTypeOK, StreamsTypeOK
  <2>3. QED
    BY <1>1, <1>2, <2>1, <2>2 DEF CopyInv, InHand
<1>7. ASSUME CallsStay, NEW c \in Users, Calls(c) PROVE CopyInv'
  BY <1>3, <1>7, CallsFrame DEF CallsStay
<1>8. ASSUME UNCHANGED cmdVars, NEW o \in outs, StreamStepOf(o) PROVE CopyInv'
  BY <1>1, <1>3, <1>8, StreamStepFrame DEF cmdVars, mainVars
<1>9. CASE (CancelCtx /\ UNCHANGED cmdVars) \/ UNCHANGED vars
  BY <1>3, <1>9 DEF CancelCtx, vars, allVars, contractVars, readOnly, cmdVars, mainVars
<1>10. QED
  BY <1>4, <1>5, <1>6, <1>7, <1>8, <1>9, CmdSteps

-----------------------------------------------------------------------------
LEMMA HeldInit == Init => HeldInv /\ DeliveredInv
<1> SUFFICES ASSUME Init PROVE HeldInv /\ DeliveredInv
  OBVIOUS
<1>1. (\A o \in outs : o \in Streams) /\ "runner" \in Users
  BY CmdAssumption DEF Init, CombineInit
<1>2. QED
  BY <1>1 DEF Init, CombineInit, ContractInit, HeldInv, DeliveredInv, Closing, Calm

(* The context and the consumers do not come back.                         *)
LEMMA HeldWas ==
  ASSUME TypeInv, [CombineNext]_allVars, NEW o \in outs, Held(o)'
  PROVE  Held(o) /\ ~ctxEnded[o]
<1>1. StreamsTypeOK /\ outs \subseteq Streams
  BY DEF TypeInv, CombineTypeOK
<1>2. ~CtxDone
  <2>1. UNCHANGED ctxEnded \/ CancelCtx
    BY CombineSteps, StreamFrame, UserFrame, RunnerFrame, CallFrame, StopFrame
       DEF contractVars, allVars
  <2>2. QED
    BY <1>1, <2>1 DEF Held, CtxDone, CancelCtx
<1>3. alone[o] => alone'[o]
  <2>1. ASSUME NEW q \in outs, StreamOnly(q) PROVE alone[o] => alone'[o]
    BY <1>1, <2>1
       DEF StreamOnly, StreamGoesOn, SeesCtx, ConsumersLeave, PipeGives, ReadEnd, Fetch,
           LeaveOnStop, LeaveOnEnd, SendDone, LeaveAlone, SetFlag, Finish, Signal, Deliver, Poll,
           Drop, LeaveOnCtx, Leave, AllRefuse, stopOnly, readOnly, runOnly, StreamsTypeOK
  <2>2. QED
    BY <2>1, CombineSteps, UserFrame, RunnerFrame, CallFrame, StopFrame
       DEF contractVars, allVars, CancelCtx, runOnly
<1>4. QED
  BY <1>1, <1>2, <1>3 DEF Held, CtxDone

LEMMA HeldStep ==
  CombineInv /\ ProgInv /\ MainInv /\ CopyInv /\ HeldInv /\ [Next]_vars => HeldInv'
<1> DEFINE Undisturbed(o) ==
      /\ copy[o] # "failed"
      /\ combined => pc \notin {"start", "wait"}
      /\ ~combined => Calm(o) /\ answer["runner"][o] \in {"none", "mine"}
<1> SUFFICES ASSUME CombineInv, ProgInv, MainInv, CopyInv, HeldInv, [Next]_vars,
                    NEW o \in outs, Held(o)'
             PROVE  Undisturbed(o)'
  BY Simulation, CombineOuts DEF HeldInv
<1>1. /\ CombineTypeOK /\ StreamsTypeOK /\ ProgTypeOK /\ o \in Streams /\ TypeInv /\ StopperInv
      /\ "runner" \in Users
  BY CmdAssumption DEF CombineInv, TypeInv, CombineTypeOK, ProgInv
<1>2. Held(o) /\ ~ctxEnded[o] /\ Undisturbed(o)
  BY <1>1, HeldWas, Simulation DEF HeldInv
<1>3. UNCHANGED <<copy, pc, combined, answer, contractVars>> => Undisturbed(o)'
  BY <1>2 DEF Calm, contractVars
<1>4. CASE OwnStep
  <2>1. UNCHANGED <<combined, answer, contractVars>>
    BY <1>4, OwnFrame DEF allVars, combineVars, stopVars
  <2>2. pc' \in {"start", "wait"} => pc \in {"start", "wait"}
    BY <1>4 DEF OwnStep, CmdStarts, CmdStartFails, CmdWaited, GetResults, Program, ProcExits,
                ProcWrites, ProcBroken, ProcBegins, CopyReads, CopyEnds, CopyFails, mainVars
  <2>3. ASSUME NEW q \in outs, CopyFails(q) PROVE copy'[o] # "failed"
    <3>1. combined => copy[o] \in {"none", "ended"}
      BY <1>2 DEF CopyInv
    <3>2. combined
      BY <1>1, <2>3 DEF CopyFails, StopperInv, CombineTypeOK
    <3>3. QED
      BY <1>1, <2>3, <3>1, <3>2 DEF CopyFails, ProgTypeOK
  <2>4. copy'[o] # "failed"
    BY <1>1, <1>2, <1>4, <2>3
       DEF OwnStep, CmdStarts, CmdStartFails, CmdWaited, GetResults, Program, ProcExits,
           ProcWrites, ProcBroken, ProcBegins, CopyReads, CopyEnds, progVars, ProgTypeOK
  <2>5. QED
    BY <1>2, <2>1, <2>2, <2>4 DEF Calm, contractVars
<1>5. CASE GetError
  BY <1>2, <1>5 DEF GetError, Calm, contractVars, stopVars, combineVars, progVars
<1>6. ASSUME NEW q \in outs, Transfer(q) PROVE Undisturbed(o)'
  <2>1. UNCHANGED <<pc, combined, answer, flagged, signalled, run>> /\ copy'[o] \in {copy[o], "read"}
    BY <1>1, <1>6 DEF Transfer, Fetch, ProgTypeOK, mainVars, stopVars, combineVars, runOnly, stopOnly
  <2>2. reader'[o] \in {reader[o], "part"} /\ lastErr'[o] \in {lastErr[o], "nil"}
    BY <1>1, <1>6 DEF Transfer, Fetch, StreamsTypeOK
  <2>3. QED
    BY <1>2, <2>1, <2>2 DEF Calm
<1>7. ASSUME CallsStay, NEW c \in Users, Calls(c) PROVE Undisturbed(o)'
  <2>1. UNCHANGED <<pc, copy, answer, run, signalled, reader, lastErr>>
    BY <1>7, CallsFrame DEF CallsStay, progVars
  <2>2. CASE c = "runner" /\ CombineRun(c)
    BY <1>3, <2>1, <2>2, RunnerFrame DEF stopVars
  <2>3. CASE StopGoesOn(c)
    <3>1. combined /\ combined'
      BY <1>1, <2>3 DEF StopGoesOn, CloseSkipped, CloseWriters, CloseWait, CloseReaders,
                        StopStream, StopperInv
    <3>2. QED
      BY <1>2, <2>1, <3>1
  <2>4. CASE StopCalled(c) /\ c = "main" /\ pc \in {"stop", "stopAfterFail"}
    BY <1>2, <2>1, <2>4 DEF StopCalled
  <2>5. CASE StopCalled(c) /\ AllReturned(c)
    <3>1. c = "runner"
      BY <2>5, CmdAssumption DEF AllReturned, MainInv
    <3>2. Returned("runner", o)
      BY <2>5, <3>1 DEF AllReturned
    <3>3. combined
      BY <1>2, <3>2 DEF Returned, Calm
    <3>4. combined'
      BY <2>5 DEF StopCalled
    <3>5. QED
      BY <1>2, <2>1, <3>3, <3>4
  <2>6. QED
    BY <1>7, <2>2, <2>3, <2>4, <2>5 DEF Calls
<1>8. ASSUME UNCHANGED cmdVars, NEW q \in outs, StreamStepOf(q) PROVE Undisturbed(o)'
  <2>1. UNCHANGED <<pc, copy, combined>>
    BY <1>8, StreamStepFrame DEF cmdVars, mainVars, progVars, stopVars
  <2>2. CASE StreamOnly(q)
    BY <1>1, <1>2, <2>1, <2>2, CalmStep, StreamFrame DEF combineVars, Held
  <2>3. ASSUME NEW r \in Users, CallsRun(r, q) PROVE Undisturbed(o)'
    <3>1. UNCHANGED <<flagged, signalled, lastErr>>
      BY <2>3, CallFrame
    <3>2. run'[o] \in {run[o], "loop"} /\ reader'[o] \in {reader[o], "read"}
      BY <1>1, <2>3 DEF CallsRun, Start, contractVars, StreamsTypeOK
    <3>3. r = "runner"
      BY <2>3, CmdAssumption DEF CallsRun, MainInv
    <3>4. q # o => answer'["runner"][o] = answer["runner"][o]
      BY <1>1, <2>3 DEF CallsRun, CombineTypeOK
    <3>5. q = o /\ ~combined => answer'["runner"][o] = "mine"
      <4> SUFFICES ASSUME q = o, ~combined PROVE answer'["runner"][o] = "mine"
        OBVIOUS
      <4>1. ~flagged[o] /\ answer["runner"][o] = "none"
        BY <1>2, <2>3, <3>3 DEF Calm, CallsRun
      <4>2. \A u \in Users : answer[u][o] # "mine"
        BY <4>1, CmdAssumption DEF MainInv, CombineInv, RunInv
      <4>3. run[o] = "idle"
        BY <4>2 DEF CombineInv, RunInv
      <4>4. QED
        BY <1>1, <2>3, <3>3, <4>1, <4>3 DEF CallsRun, CombineTypeOK
    <3>6. QED
      BY <1>2, <2>1, <3>1, <3>2, <3>4, <3>5 DEF Calm
  <2>4. QED
    BY <1>8, <2>2, <2>3, StreamStepFrame
<1>9. CASE (CancelCtx /\ UNCHANGED cmdVars) \/ UNCHANGED vars
  <2>1. CASE CancelCtx /\ UNCHANGED cmdVars
    BY <1>2, <2>1 DEF CancelCtx, Calm, cmdVars, mainVars, progVars, stopVars, combineVars,
                      runOnly, readOnly
  <2>2. CASE UNCHANGED vars
    BY <1>3, <2>2 DEF vars, allVars, cmdVars, mainVars, progVars, stopVars, combineVars
  <2>3. QED
    BY <1>9, <2>1, <2>2
<1>10. QED
  BY <1>4, <1>5, <1>6, <1>7, <1>8, <1>9, CmdSteps

-----------------------------------------------------------------------------
(* All an output needs to be drained before its stream is stopped.         *)
Drained(o) ==
  /\ run[o] = "idle" => reader[o] = "none"
  /\ signalled[o] => flagged[o]
  /\ /\ Held(o) /\ ~cutShort
     /\ reader[o] # "part" \/ run[o] = "leaving" \/ flagged[o] \/ Closing
     => got[o] = fetched[o]

(* A step of the streams, as output o sees it.                             *)
LEMMA DrainedStreams ==
  ASSUME TypeInv, NEW o \in outs, NEW q \in outs, StreamStepOf(q), Drained(o),
         Held(o)' => Held(o) /\ ~ctxEnded[o], Closing' = Closing, cutShort' = cutShort
  PROVE  Drained(o)'
<1>1. StreamsTypeOK /\ o \in Streams /\ q \in Streams
  BY DEF TypeInv, CombineTypeOK
<1>2. fetched'[o] = fetched[o]
  BY <1>1, StreamStepFrame
<1> USE <1>1, <1>2 DEF Drained, StreamsTypeOK, stopOnly, readOnly, runOnly
<1>3. CASE LeaveOnStop(q) \/ LeaveOnEnd(q)
  BY <1>3 DEF LeaveOnStop, LeaveOnEnd, Leave
<1>4. CASE LeaveOnCtx(q)
  BY <1>4 DEF LeaveOnCtx, Leave
<1>5. CASE LeaveAlone(q)
  BY <1>5 DEF LeaveAlone, Held
<1>6. CASE SendDone(q) \/ Finish(q) \/ AllRefuse(q)
  BY <1>6 DEF SendDone, Finish, AllRefuse
<1>7. CASE (run[q] = "leaving" /\ SetFlag(q)) \/ Signal(q)
  BY <1>7 DEF SetFlag, Signal
<1>8. CASE Deliver(q)
  BY <1>8 DEF Deliver
<1>9. CASE Poll(q) \/ Drop(q)
  BY <1>9 DEF Poll, Drop
<1>10. CASE ReadEnd(q)
  <2>1. UNCHANGED <<run, signalled, flagged, got>>
    BY <1>10 DEF ReadEnd, Fetch
  <2>2. \/ reader'[o] = reader[o]
        \/ reader[o] = "read" /\ reader'[o] = "part"
    BY <1>10 DEF ReadEnd, Fetch
  <2>3. QED
    BY <2>1, <2>2
<1>11. ASSUME NEW r \in Users, CallsRun(r, q) PROVE Drained(o)'
  <2>1. UNCHANGED <<flagged, signalled, got>>
    BY <1>11, CallFrame
  <2>2. \/ run'[o] = run[o] /\ reader'[o] = reader[o]
        \/ run[o] = "idle" /\ run'[o] = "loop" /\ reader'[o] = "read"
    BY <1>11 DEF CallsRun, Start, contractVars
  <2>3. QED
    BY <2>1, <2>2
<1>12. QED
  BY <1>3, <1>4, <1>5, <1>6, <1>7, <1>8, <1>9, <1>10, <1>11
     DEF StreamStepOf, StreamGoesOn, SeesCtx, ConsumersLeave

LEMMA DeliveredStep == CmdInv /\ [Next]_vars => DeliveredInv'
<1> SUFFICES ASSUME CmdInv, [Next]_vars, NEW o \in outs PROVE Drained(o)'
  BY Simulation, CombineOuts DEF CmdInv, DeliveredInv, Drained
<1>1. /\ CombineTypeOK /\ StreamsTypeOK /\ o \in Streams /\ TypeInv /\ StopperInv /\ MainInv
      /\ HeldInv /\ CopyInv
  BY DEF CmdInv, CombineInv, TypeInv, CombineTypeOK
<1>2. Drained(o) /\ (Held(o)' => Held(o) /\ ~ctxEnded[o])
  BY <1>1, HeldWas, Simulation DEF CmdInv, DeliveredInv, Drained
<1>3. UNCHANGED <<contractVars, stopPc, errSent, cutShort>> => Drained(o)'
  BY <1>2 DEF Drained, Closing, contractVars
<1>4. CASE OwnStep \/ GetError \/ UNCHANGED vars
  <2>1. cutShort' = cutShort
    BY <1>4 DEF OwnStep, CmdStarts, CmdStartFails, CmdWaited, GetResults, GetError, Program,
                ProcExits, ProcWrites, ProcBroken, ProcBegins, CopyReads, CopyEnds, CopyFails,
                mainVars, vars, cmdVars
  <2>2. QED
    BY <1>3, <1>4, <2>1, OwnFrame DEF GetError, vars, allVars, stopVars, pipeEnds
<1>5. ASSUME NEW c \in Users, Calls(c), CallsStay PROVE Drained(o)'
  <2>1. UNCHANGED <<run, signalled, alone, ctxEnded, reader, fetched, got>>
    BY <1>5, CallsFrame
  <2>2. CASE CombineRun(c)
    <3>1. UNCHANGED <<stopPc, contractVars, errSent>>
      BY <2>2, RunnerFrame DEF stopVars, pipeEnds
    <3>2. cutShort => cutShort'
      BY <1>5 DEF CallsStay, SleepOver
    <3>3. QED
      BY <1>2, <3>1, <3>2 DEF Drained, Closing, Held, CtxDone, contractVars
  <2>3. CASE CombineStop(c)
    <3>1. ASSUME NEW q \in outs, StopStream(c, q) PROVE Closing
      BY <1>1, <3>1 DEF StopStream, StopperInv, Cleaned, MainInv, Closing
    <3>2. flagged'[o] => flagged[o] \/ Closing
      BY <2>3, <3>1 DEF CombineStop, StopGoesOn, StopCalled, CloseSkipped, CloseWriters,
                        CloseWait, CloseReaders, contractVars
    <3>3. flagged[o] => flagged'[o]
      BY <1>1, <2>3, FlagSet
         DEF CombineStop, StopGoesOn, StopCalled, CloseSkipped, CloseWriters, CloseWait,
             CloseReaders, StopStream, contractVars
    <3>4. Closing' /\ ~cutShort' => ~cutShort /\ (Closing \/ reader[o] # "part")
      <4> USE <1>1, <1>5 DEF CombineTypeOK, Closing, pipeEnds, CallsStay, SleepOver
      <4>1. CASE StopCalled(c) \/ CloseSkipped(c) \/ CloseWriters(c)
        BY <4>1 DEF StopCalled, CloseSkipped, CloseWriters
      <4>2. CASE CloseWait(c)
        BY <4>2 DEF CloseWait
      <4>3. CASE CloseReaders(c)
        BY <4>3 DEF CloseReaders
      <4>4. QED
        BY <2>3, <3>1, <4>1, <4>2, <4>3 DEF CombineStop, StopGoesOn
    <3>5. cutShort => cutShort'
      BY <1>5 DEF CallsStay, SleepOver
    <3>6. QED
      BY <1>2, <2>1, <3>2, <3>3, <3>4, <3>5 DEF Drained
  <2>4. QED
    BY <1>5, <2>2, <2>3, CallsFrame
<1>6. ASSUME NEW q \in outs, Transfer(q) PROVE Drained(o)'
  <2>1. UNCHANGED <<run, signalled, flagged, alone, got, stopPc, errSent, cutShort>>
    BY <1>6 DEF Transfer, Fetch, runOnly, stopOnly, stopVars, pipeEnds, mainVars
  <2>2. Closing' = Closing
    BY <2>1 DEF Closing
  <2>3. CASE q # o
    <3>1. UNCHANGED <<reader[o], fetched[o]>>
      BY <1>1, <1>6, <2>3 DEF Transfer, Fetch, StreamsTypeOK
    <3>2. QED
      BY <1>2, <2>1, <2>2, <3>1 DEF Drained
  <2>4. CASE q = o
    <3>1. reader[o] = "read" /\ reader'[o] = "part" /\ copy[o] = "write"
      BY <1>1, <1>6, <2>4 DEF Transfer, Fetch, StreamsTypeOK
    <3>2. Held(o) => ~combined
      BY <1>1, <3>1 DEF HeldInv, CopyInv
    <3>3. Closing => combined
      BY <1>1 DEF Closing, StopperInv
    <3>4. Held(o) => run[o] # "leaving" /\ ~flagged[o]
      BY <1>1, <3>2 DEF HeldInv, Calm
    <3>5. QED
      BY <1>2, <2>1, <2>2, <3>1, <3>2, <3>3, <3>4 DEF Drained
  <2>5. QED
    BY <2>3, <2>4
<1>7. ASSUME NEW q \in outs, StreamStepOf(q), UNCHANGED cmdVars PROVE Drained(o)'
  <2>1. Closing' = Closing /\ cutShort' = cutShort
    BY <1>7, StreamStepFrame DEF Closing, stopVars, pipeEnds, cmdVars, mainVars
  <2>2. QED
    BY <1>1, <1>2, <1>7, <2>1, DrainedStreams
<1>8. CASE CancelCtx
  <2>1. ~Held(o)'
    BY <1>1, <1>8 DEF CancelCtx, Held, CtxDone
  <2>2. QED
    BY <1>2, <1>8, <2>1 DEF CancelCtx, runOnly, readOnly, Drained
<1>9. QED
  BY <1>4, <1>5, <1>6, <1>7, <1>8, CmdSteps

-----------------------------------------------------------------------------
(* The inductive invariant of RunCmd.                                      *)
THEOREM CmdInvariant == Spec => []CmdInv
<1>1. Init => CmdInv
  BY CombineTypeInit, StopperInit, RunInit, QuietInit, ProgInit, MainInit, CopyInit, HeldInit
     DEF CmdInv, CombineInv, Init
<1>2. CmdInv /\ [Next]_vars => CmdInv'
  BY Simulation, CombineStep, ProgStep, MainStep, CopyStep, HeldStep, DeliveredStep DEF CmdInv
<1>3. QED
  BY <1>1, <1>2, PTL DEF Spec

(* RunCmd uses its CombineStream as one of the goroutines of CombineSpec   *)
(* may, the one it starts for Run as another, and its program gives each   *)
(* io.Pipe no more than it wrote: what holds of CombineStream for all      *)
(* callers holds in RunCmd.                                                *)
THEOREM UsesCombineStream == Spec => CombineSpec
<1>1. Init => CombineInit
  BY DEF Init
<1>2. CmdInv /\ [Next]_vars => [CombineNext]_allVars
  BY Simulation DEF CmdInv
<1>3. QED
  BY <1>1, <1>2, CmdInvariant, PTL DEF Spec, CombineSpec

(* Every variable of RunCmd and of its streams stays in its type, and no   *)
(* OS pipe holds more than its capacity.                                   *)
THEOREM CmdTypes == Spec => []CmdTypeOK
<1>1. CmdInv => CmdTypeOK
  BY DEF CmdInv, CombineInv, TypeInv, ProgInv, CmdTypeOK
<1>2. QED
  BY <1>1, CmdInvariant, PTL

(* RunCmd returns with both sides of every pipe closed.                    *)
THEOREM AllClosed == Spec => []AllClosedOnReturn
<1>1. CmdInv => AllClosedOnReturn
  BY DEF CmdInv, CombineInv, MainInv, StopperInv, AllClosedOnReturn
<1>2. QED
  BY <1>1, CmdInvariant, PTL

(* No copy fails unless the context ended or consumers left.               *)
THEOREM CutForCause == Spec => []CutOnlyForCause
<1>1. CmdInv => CutOnlyForCause
  BY DEF CmdInv, HeldInv, Held, SomeLeft, CutOnlyForCause
<1>2. QED
  BY <1>1, CmdInvariant, PTL

(* An output that has consumers to the end was given to them whole, with a *)
(* close wait that is long enough, whatever the other output did.          *)
THEOREM Complete == Spec => []OutputComplete
<1>1. CmdInv => OutputComplete
  <2> SUFFICES ASSUME CmdInv, pc = "done", proc = "exited", ~cutShort, ~CtxDone,
                      NEW o \in outs, ~alone[o]
               PROVE  got[o] = written[o]
    BY DEF OutputComplete
  <2>1. Held(o) /\ Closing
    BY DEF CmdInv, MainInv, Held, Closing
  <2>2. got[o] = fetched[o]
    BY <2>1 DEF CmdInv, DeliveredInv
  <2>3. copy[o] = "ended"
    BY <2>1 DEF CmdInv, HeldInv, CopyInv
  <2>4. fetched[o] \in Nat /\ written[o] \in Nat
    BY DEF CmdInv, CombineInv, TypeInv, CombineTypeOK, ProgInv, ProgTypeOK, StreamsTypeOK
  <2>5. fetched[o] = written[o]
    BY <2>3, <2>4 DEF CmdInv, CopyInv, InHand
  <2>6. QED
    BY <2>2, <2>5
<1>2. QED
  BY <1>1, CmdInvariant, PTL

-----------------------------------------------------------------------------
(***************************************************************************)
(* After RunCmd.                                                           *)
(***************************************************************************)

(* RunCmd returns behind the goroutine of Run, or nothing ran.             *)
ReturnInv ==
  /\ pc \in {"start", "stopAfterFail"} => proc = "none"
  /\ pc = "getError" => runner["runner"] = "done"
  /\ pc = "done" => runner["runner"] = "done" \/ proc = "none"
  /\ proc = "none" => \A o \in outs : fetched[o] = 0 /\ got[o] = 0

(* Each step keeps it.                                                     *)
LEMMA ReturnStep == CmdInv /\ ReturnInv /\ [Next]_vars => ReturnInv'
<1> SUFFICES ASSUME CmdInv, ReturnInv, [Next]_vars PROVE ReturnInv'
  OBVIOUS
<1> USE DEF ReturnInv
<1>1. CombineTypeOK /\ StreamsTypeOK /\ outs' = outs /\ outs \subseteq Streams
      /\ "runner" \in Users /\ proc \in {"none", "runs", "exited"}
  BY CombineOuts, Simulation, CmdAssumption
     DEF CmdInv, CombineInv, TypeInv, CombineTypeOK, ProgInv, ProgTypeOK
<1>2. CASE OwnStep
  <2>1. UNCHANGED allVars
    BY <1>2, OwnFrame
  <2>2. UNCHANGED <<runner, fetched, got>>
    BY <2>1 DEF allVars, combineVars, contractVars
  <2>3. CASE CmdStarts \/ CmdStartFails \/ CmdWaited \/ GetResults
    BY <1>1, <2>2, <2>3 DEF CmdStarts, CmdStartFails, CmdWaited, GetResults, progVars
  <2>4. CASE Program \/ \E o \in outs : ProcBegins(o) \/ CopyReads(o) \/ CopyEnds(o) \/ CopyFails(o)
    <3>1. pc' = pc /\ (proc' = proc \/ (proc' = "exited" /\ (proc = "runs" \/ dest # 0)))
      BY <1>1, <2>4, CombineAssumption DEF Program, ProcExits, ProcWrites, ProcBroken, ProcBegins, CopyReads, CopyEnds,
                  CopyFails, mainVars
    <3>2. dest # 0 => proc = "runs"
      BY DEF CmdInv, CopyInv
    <3>3. pc \in {"start", "stopAfterFail"} => proc' = proc
      BY <1>1, <3>1, <3>2
    <3>4. QED
      BY <1>1, <2>2, <3>1, <3>2, <3>3
  <2>5. QED
    BY <1>2, <2>3, <2>4 DEF OwnStep
<1>3. CASE GetError
  <2>1. pc \in {"getError", "stopAfterFail"} /\ pc' = "done"
        /\ UNCHANGED <<runner, fetched, got, proc>>
    BY <1>3 DEF GetError, combineVars, contractVars, progVars
  <2>2. QED
    BY <1>1, <2>1
<1>4. ASSUME NEW c \in Users, Calls(c), CallsStay PROVE ReturnInv'
  <2>1. UNCHANGED <<pc, proc, fetched, got>>
    BY <1>4, CallsFrame DEF CallsStay, progVars
  <2>2. ASSUME runner["runner"] = "done" PROVE runner'["runner"] = "done"
    <3>1. CASE CombineStop(c)
      BY <2>2, <3>1, StopFrame DEF combineVars
    <3>2. CASE CombineRun(c)
      BY <1>1, <2>2, <3>2 DEF CombineRun, CombineRefused, CombineStarts, CombineStopped,
                              CombineTypeOK
    <3>3. QED
      BY <1>4, <3>1, <3>2, CallsFrame
  <2>3. QED
    BY <1>1, <2>1, <2>2
<1>5. ASSUME NEW o \in outs, Transfer(o) PROVE ReturnInv'
  <2>1. proc # "none"
    BY <1>5 DEF Transfer, CmdInv, CopyInv
  <2>2. QED
    BY <1>5, <2>1 DEF Transfer, combineVars, mainVars
<1>6. ASSUME NEW o \in outs, StreamStepOf(o), UNCHANGED cmdVars PROVE ReturnInv'
  <2>1. fetched'[o] = fetched[o] /\ \A q \in Streams \ {o} : fetched'[q] = fetched[q]
    BY <1>6, StreamStepFrame DEF CmdInv, CombineInv
  <2>2. UNCHANGED <<runner, pc, proc>>
    BY <1>6, StreamStepFrame DEF cmdVars, mainVars, progVars
  <2>3. got' = got \/ got' = [got EXCEPT ![o] = fetched[o]]
    BY <1>6, CallFrame
       DEF StreamStepOf, StreamGoesOn, SeesCtx, ConsumersLeave, ReadEnd, Fetch, LeaveOnStop,
           LeaveOnEnd, SendDone, LeaveAlone, SetFlag, Finish, Signal, Deliver, Poll, Drop,
           LeaveOnCtx, Leave, AllRefuse, readOnly
  <2>4. ASSUME NEW q \in outs, proc = "none" PROVE fetched'[q] = 0 /\ got'[q] = 0
    BY <1>1, <2>1, <2>3, <2>4 DEF StreamsTypeOK
  <2>5. QED
    BY <1>1, <2>2, <2>4
<1>7. CASE CancelCtx /\ UNCHANGED cmdVars
  BY <1>1, <1>7 DEF CancelCtx, combineVars, readOnly, cmdVars, mainVars, progVars
<1>8. CASE UNCHANGED vars
  BY <1>1, <1>8 DEF vars, allVars, cmdVars, combineVars, contractVars, mainVars, progVars
<1>9. QED
  BY <1>2, <1>3, <1>4, <1>5, <1>6, <1>7, <1>8, CmdSteps

(* RunCmd's end is the end of what its consumers get (exec.go), whether the*)
(* program ran or its Start failed.                                        *)
THEOREM QuietAfterRunCmd == Spec => NothingAfterReturn
<1>1. Init => ReturnInv
  <2> SUFFICES ASSUME Init PROVE ReturnInv
    OBVIOUS
  <2>1. outs \subseteq Streams
    BY Zenon DEF Init, CombineInit
  <2>2. QED
    BY <2>1 DEF Init, CombineInit, ContractInit, ReturnInv
<1>2. CmdInv /\ ReturnInv /\ [Next]_vars => [pc = "done" => UNCHANGED got]_vars
  <2> SUFFICES ASSUME CmdInv, ReturnInv, [Next]_vars, pc = "done" PROVE UNCHANGED got
    OBVIOUS
  <2>1. CASE runner["runner"] = "done"
    <3>1. \A r \in Users : runner[r] # "wait"
      BY <2>1, CmdAssumption DEF CmdInv, MainInv
    <3>2. CombineInv /\ [CombineNext]_allVars
      BY Simulation DEF CmdInv
    <3>3. QED
      BY <3>1, <3>2, NoRunNoStream
  <2>2. CASE proc = "none"
    <3>1. got \in [Streams -> Nat] /\ outs \subseteq Streams
      BY DEF CmdInv, CombineInv, TypeInv, CombineTypeOK, StreamsTypeOK
    <3>2. ASSUME NEW o \in outs, StreamStepOf(o) PROVE UNCHANGED got
      <4>1. got' = got \/ got' = [got EXCEPT ![o] = fetched[o]]
        BY <3>2, CallFrame
           DEF StreamStepOf, StreamGoesOn, SeesCtx, ConsumersLeave, ReadEnd, Fetch, LeaveOnStop,
               LeaveOnEnd, SendDone, LeaveAlone, SetFlag, Finish, Signal, Deliver, Poll, Drop,
               LeaveOnCtx, Leave, AllRefuse, readOnly
      <4>2. got[o] = fetched[o]
        BY <2>2 DEF ReturnInv
      <4>3. QED
        BY <3>1, <4>1, <4>2
    <3>3. ASSUME NEW o \in outs PROVE ~Transfer(o)
      BY <2>2 DEF Transfer, CmdInv, CopyInv
    <3>4. ASSUME OwnStep PROVE UNCHANGED got
      BY <3>4, OwnFrame DEF allVars, contractVars
    <3>5. ASSUME NEW c \in Users, Calls(c) PROVE UNCHANGED got
      BY <3>5, CallsFrame
    <3>6. ASSUME GetError \/ CancelCtx \/ UNCHANGED vars PROVE UNCHANGED got
      BY <3>6 DEF GetError, CancelCtx, readOnly, vars, allVars, contractVars
    <3>7. QED
      BY <3>2, <3>3, <3>4, <3>5, <3>6, CmdSteps
  <2>3. QED
    BY <2>1, <2>2 DEF ReturnInv
<1>3. CmdInv /\ ReturnInv /\ [Next]_vars => ReturnInv'
  BY ReturnStep
<1>4. QED
  BY <1>1, <1>2, <1>3, CmdInvariant, PTL DEF Spec, NothingAfterReturn

=============================================================================
