------------------------------ MODULE TeeStream ------------------------------
(***************************************************************************)
(* TeeStream (pkg/tee/stream/stream_tee.go with stream_base.go): the       *)
(* goroutine of Run, the reader goroutine it starts (startRead), callers   *)
(* of Stop and a cancelled context, over one Pipe per consumer.            *)
(*                                                                         *)
(* Run and the reader meet on outCh and errCh, which are unbuffered: a     *)
(* hand-over is one step of both.  The reader's exit closes outCh, stopCh  *)
(* and errCh; it is one step, with the stop signal it may have put in      *)
(* stopCh, because Run does the same on each of those (break OuterLoop).   *)
(***************************************************************************)
EXTENDS Pipe, FiniteSets

CONSTANTS
  Users,            \* goroutines that may call Stop
  InputErrs,        \* errors the input may return: "end" (EOF or
                    \* ErrClosedPipe), "fail" (any other)
  MaxEmptyReads,    \* TeeStream.maxEmptyReads
  StopClosesInput   \* a BeforeStop function that closes the input is set

ASSUME StreamAssumption ==
  /\ Pipes \subseteq Nat /\ Pipes # {} /\ IsFiniteSet(Pipes)
  /\ InputErrs \subseteq {"end", "fail"} /\ InputErrs # {}
  /\ MaxEmptyReads \in Nat \ {0}
  /\ StopClosesInput \in BOOLEAN
  /\ "run" \notin Users

Callers == Users \union {"run"}

VARIABLES
  rpc,         \* where Run is
  todo,        \* pipes the current round of sendToAll or drain has left
  current,     \* currentPipesForSend
  remove,      \* pipesForRemove
  buf,         \* the chunk Run received from outCh
  readErr,     \* Results.ReadErr
  consErrs,    \* Results.ConsumersErrs
  kpc,         \* where the reader is
  part,        \* toSend of the reader
  partErr,     \* the error of the Read that gave part
  sendErr,     \* the error the reader sends to errCh
  emptyReads,  \* local of startRead
  nread,       \* history: bytes the input gave
  emptySeen,   \* history: empty reads without error in a row
  isStopped,   \* baseStream.stopped
  stopPc,      \* stopPc[c]: where c's call of Stop is
  innerClosed, \* innerStopCh was closed
  inputClosed, \* a BeforeStop function closed the input
  ctxDone      \* the context of Run is done

runVars == <<rpc, todo, current, remove, buf, readErr, consErrs>>
readVars == <<kpc, part, partErr, sendErr, emptyReads, nread, emptySeen>>
flagVars == <<isStopped, stopPc, innerClosed, inputClosed, ctxDone>>
vars == <<pipeVars, runVars, readVars, flagVars>>

Init ==
  /\ PipeInit
  /\ rpc = "idle" /\ todo = {} /\ current = Pipes /\ remove = {}
  /\ buf = NoChunk /\ readErr = "nil" /\ consErrs = [p \in Pipes |-> {}]
  /\ kpc = "none" /\ part = NoChunk /\ partErr = "nil" /\ sendErr = "nil"
  /\ emptyReads = 0 /\ nread = 0 /\ emptySeen = 0
  /\ isStopped = FALSE /\ stopPc = [c \in Callers |-> "none"]
  /\ innerClosed = FALSE /\ inputClosed = FALSE /\ ctxDone = FALSE

-----------------------------------------------------------------------------
(***************************************************************************)
(* Run, up to its loop.  Stop may come between the test of the flag and    *)
(* the start of the goroutines.                                            *)
(***************************************************************************)
RunRefused ==
  /\ rpc = "idle" /\ isStopped
  /\ rpc' = "done" /\ readErr' = "stopped"
  /\ UNCHANGED <<pipeVars, readVars, flagVars, todo, current, remove, buf, consErrs>>

RunCheck ==
  /\ rpc = "idle" /\ ~isStopped
  /\ rpc' = "start"
  /\ UNCHANGED <<pipeVars, readVars, flagVars, todo, current, remove, buf,
                 readErr, consErrs>>

RunStart ==
  /\ rpc = "start"
  /\ rpc' = "select" /\ kpc' = "read"
  /\ UNCHANGED <<pipeVars, flagVars, todo, current, remove, buf, readErr,
                 consErrs, part, partErr, sendErr, emptyReads, nread, emptySeen>>

-----------------------------------------------------------------------------
(***************************************************************************)
(* The select loop of Run.  Leaving it starts the round that stops the     *)
(* pipes, in the order of the consumers.                                   *)
(***************************************************************************)
LeaveLoop == rpc' = "drain" /\ todo' = Pipes

(* Variant: the context's end leaves without stopping the pipes.           *)
SeesCtxReturns ==
  /\ rpc = "select" /\ ctxDone
  /\ rpc' = "finalStop" /\ readErr' = "ctx"
  /\ UNCHANGED <<pipeVars, readVars, flagVars, todo, current, remove, buf, consErrs>>

SeesCtx ==
  /\ rpc = "select" /\ ctxDone
  /\ rpc' = "ctxStop" /\ readErr' = "ctx"
  /\ UNCHANGED <<pipeVars, readVars, flagVars, todo, current, remove, buf, consErrs>>

(* Variant: the error is received and not kept.                            *)
SeesReadErrForgets ==
  /\ rpc = "select" /\ kpc = "err"
  /\ kpc' = "exit"
  /\ LeaveLoop
  /\ UNCHANGED <<pipeVars, flagVars, current, remove, buf, readErr, consErrs,
                 part, partErr, sendErr, emptyReads, nread, emptySeen>>

(* Variant: the reader reads on after it has handed its error over.        *)
SeesReadErrReadsOn ==
  /\ rpc = "select" /\ kpc = "err"
  /\ readErr' = sendErr /\ kpc' = "read"
  /\ LeaveLoop
  /\ UNCHANGED <<pipeVars, flagVars, current, remove, buf, consErrs,
                 part, partErr, sendErr, emptyReads, nread, emptySeen>>

(* errCh: the reader hands its error over and goes on to its exit.         *)
SeesReadErr ==
  /\ rpc = "select" /\ kpc = "err"
  /\ readErr' = sendErr /\ kpc' = "exit"
  /\ LeaveLoop
  /\ UNCHANGED <<pipeVars, flagVars, current, remove, buf, consErrs,
                 part, partErr, sendErr, emptyReads, nread, emptySeen>>

(* Variant: the end of the input is not signalled.                         *)
SeesReaderEndNotEof ==
  /\ rpc = "select" /\ kpc = "ended" /\ partErr # "end"
  /\ LeaveLoop
  /\ UNCHANGED <<pipeVars, readVars, flagVars, current, remove, buf, readErr, consErrs>>

(* stopCh, or one of the channels the reader's exit closed.                *)
SeesReaderEnd ==
  /\ rpc = "select" /\ kpc = "ended"
  /\ LeaveLoop
  /\ UNCHANGED <<pipeVars, readVars, flagVars, current, remove, buf, readErr, consErrs>>

(* Variant: only the reader listens to innerStopCh.                        *)
SeesInnerStopLate ==
  /\ rpc = "select" /\ innerClosed /\ kpc = "ended"
  /\ LeaveLoop
  /\ UNCHANGED <<pipeVars, readVars, flagVars, current, remove, buf, readErr, consErrs>>

SeesInnerStop ==
  /\ rpc = "select" /\ innerClosed
  /\ LeaveLoop
  /\ UNCHANGED <<pipeVars, readVars, flagVars, current, remove, buf, readErr, consErrs>>

(* Variant: the end of the input is handed over as an error.               *)
AfterPartRawErr ==
  /\ kpc' = IF partErr = "nil" THEN "poll" ELSE "err"
  /\ sendErr' = IF partErr = "nil" THEN sendErr ELSE partErr

(* What the reader does once its part is out: the switch on the Read error.*)
AfterPart ==
  /\ kpc' = CASE partErr = "nil" -> "poll"
              [] partErr = "end" -> "exit"
              [] partErr = "fail" -> "err"
  /\ sendErr' = IF partErr = "fail" THEN "read" ELSE sendErr

(* outCh: Run takes the part and begins a round of sendToAll.              *)
HandOver ==
  /\ rpc = "select" /\ kpc = "part"
  /\ rpc' = "send" /\ buf' = part /\ todo' = current /\ remove' = {}
  /\ AfterPart
  /\ UNCHANGED <<pipeVars, flagVars, current, readErr, consErrs, part, partErr,
                 emptyReads, nread, emptySeen>>

-----------------------------------------------------------------------------
(***************************************************************************)
(* Calls of Run on its pipes, one pipe after the other.                    *)
(***************************************************************************)
Turn(p) == p \in todo /\ \A q \in todo : p <= q

(* A step inside a call that does not return yet.                          *)
CallGoesOn(p) ==
  /\ Turn(p) /\ rpc \in {"send", "drain"}
  /\ \/ rpc = "send" /\ (WriteSeesError(p) \/ WriteEnter(p))
     \/ rpc = "drain" /\ StopEnter(p)
     \/ StopCheck(p) \/ StopWait(p) \/ StopClose(p) \/ PushSeesEnd(p)
  /\ UNCHANGED <<runVars, readVars, flagVars>>

(* WriteToPipe returns: the chunk is in the channel.                       *)
WriteDone(p) ==
  /\ Turn(p) /\ rpc = "send"
  /\ Push(p, buf)
  /\ todo' = todo \ {p}
  /\ UNCHANGED <<readVars, flagVars, rpc, current, remove, buf, readErr, consErrs>>

(* WriteToPipe returns from the Stop it called: stopped or an error.       *)
WriteStopped(p) ==
  /\ Turn(p) /\ rpc = "send"
  /\ StopReturn(p)
  /\ todo' = todo \ {p} /\ remove' = remove \union {p}
  /\ UNCHANGED <<readVars, flagVars, rpc, current, buf, readErr, consErrs>>

(* sendToAll returns: the removed pipes go, none left ends the loop.       *)
EndRound ==
  /\ rpc = "send" /\ todo = {}
  /\ current' = current \ remove
  /\ IF current' = {} THEN LeaveLoop ELSE rpc' = "select" /\ todo' = {}
  /\ UNCHANGED <<pipeVars, readVars, flagVars, remove, buf, readErr, consErrs>>

(* Variant: the error of a pipe that was stopped before is not asked for.  *)
PipeStoppedFirst(p) ==
  /\ Turn(p) /\ rpc = "drain"
  /\ \/ StopReturn(p) /\ consErrs' = [consErrs EXCEPT ![p] = resultErr'[p]]
     \/ StopAgain(p) /\ UNCHANGED consErrs
  /\ todo' = todo \ {p}
  /\ UNCHANGED <<readVars, flagVars, rpc, current, remove, buf, readErr>>

(* Stop returns in the last round; its error goes into the results.        *)
PipeStopped(p) ==
  /\ Turn(p) /\ rpc = "drain"
  /\ StopReturn(p) \/ StopAgain(p)
  /\ todo' = todo \ {p}
  /\ consErrs' = [consErrs EXCEPT ![p] = resultErr'[p]]
  /\ UNCHANGED <<readVars, flagVars, rpc, current, remove, buf, readErr>>

EndDrain ==
  /\ rpc = "drain" /\ todo = {}
  /\ rpc' = "finalStop"
  /\ UNCHANGED <<pipeVars, readVars, flagVars, todo, current, remove, buf,
                 readErr, consErrs>>

(* A call of s.Stop has come back: go on after it.                         *)
RunAfterStop ==
  /\ stopPc["run"] = "returned"
  /\ \/ rpc = "ctxStop" /\ LeaveLoop
     \/ rpc = "finalStop" /\ rpc' = "done" /\ todo' = todo
  /\ stopPc' = [stopPc EXCEPT !["run"] = "none"]
  /\ UNCHANGED <<pipeVars, readVars, isStopped, innerClosed, inputClosed, ctxDone,
                 current, remove, buf, readErr, consErrs>>

-----------------------------------------------------------------------------
(* Variant: the flag is set and not tested.                                *)
StopCalledUnchecked(c) ==
  /\ stopPc[c] = "none"
  /\ c = "run" => rpc \in {"ctxStop", "finalStop"}
  /\ isStopped' = TRUE
  /\ stopPc' = [stopPc EXCEPT ![c] = "before"]
  /\ UNCHANGED <<pipeVars, runVars, readVars, innerClosed, inputClosed, ctxDone>>

(***************************************************************************)
(* Stop, called by users (once each: a later call finds the flag set and   *)
(* does nothing) and by Run.                                               *)
(***************************************************************************)
StopCalled(c) ==
  /\ stopPc[c] = "none"
  /\ c = "run" => rpc \in {"ctxStop", "finalStop"}
  /\ isStopped' = TRUE
  /\ stopPc' = [stopPc EXCEPT ![c] = IF isStopped THEN "returned" ELSE "before"]
  /\ UNCHANGED <<pipeVars, runVars, readVars, innerClosed, inputClosed, ctxDone>>

RunBeforeStop(c) ==
  /\ stopPc[c] = "before"
  /\ inputClosed' = (inputClosed \/ StopClosesInput)
  /\ stopPc' = [stopPc EXCEPT ![c] = "close"]
  /\ UNCHANGED <<pipeVars, runVars, readVars, isStopped, innerClosed, ctxDone>>

CloseInner(c) ==
  /\ stopPc[c] = "close"
  /\ innerClosed' = TRUE
  /\ stopPc' = [stopPc EXCEPT ![c] = "returned"]
  /\ UNCHANGED <<pipeVars, runVars, readVars, isStopped, inputClosed, ctxDone>>

(* The context of Run is cancelled or reaches its deadline.                *)
CancelCtx ==
  /\ ~ctxDone /\ rpc # "done"
  /\ ctxDone' = TRUE
  /\ UNCHANGED <<pipeVars, runVars, readVars, isStopped, stopPc, innerClosed, inputClosed>>

-----------------------------------------------------------------------------
(***************************************************************************)
(* The reader.                                                             *)
(***************************************************************************)

(* Variant: the bytes that come with an error are not sent.                *)
ReadReturnsErrFirst(n, err) ==
  /\ kpc = "read"
  /\ nread' = nread + n
  /\ part' = [from |-> nread + 1, to |-> nread + n]
  /\ partErr' = err
  /\ CASE err = "nil" -> kpc' = "part" /\ UNCHANGED sendErr
       [] err = "end" -> kpc' = "exit" /\ UNCHANGED sendErr
       [] err = "fail" -> kpc' = "err" /\ sendErr' = "read"
  /\ UNCHANGED <<pipeVars, runVars, flagVars, emptyReads, emptySeen>>

(* Variant: the whole read buffer is sent, not the n bytes of it that      *)
(* were read.                                                              *)
ReadReturnsWholeBuf(n, err) ==
  /\ kpc = "read"
  /\ nread' = nread + n
  /\ emptySeen' = 0 /\ emptyReads' = 0
  /\ part' = [from |-> nread + 1, to |-> nread + BufSize]
  /\ partErr' = err
  /\ kpc' = "part"
  /\ UNCHANGED <<pipeVars, runVars, flagVars, sendErr>>

(* Read returned n bytes and err; sendPart up to its select.  emptyReads   *)
(* is reset after it was counted, as in the code.                          *)
ReadReturns(n, err) ==
  /\ kpc = "read"
  /\ nread' = nread + n
  /\ emptySeen' = IF n > 0 \/ err # "nil" THEN 0
                  ELSE IF emptySeen < MaxEmptyReads THEN emptySeen + 1 ELSE emptySeen
  /\ part' = [from |-> nread + 1, to |-> nread + n]
  /\ partErr' = err
  /\ IF n = 0 /\ emptyReads + 1 >= MaxEmptyReads
     THEN /\ emptyReads' = emptyReads + 1
          /\ sendErr' = "noProgress" /\ kpc' = "err"
     ELSE /\ emptyReads' = 0
          /\ kpc' = "part" /\ UNCHANGED sendErr
  /\ UNCHANGED <<pipeVars, runVars, flagVars>>

(* The input is open: any number of bytes, with or without an error.       *)
ReadInput ==
  /\ ~inputClosed
  /\ \E n \in 0..BufSize, err \in {"nil"} \union InputErrs :
       nread + n <= MaxBytes /\ ReadReturns(n, err)

ReadClosedInput == inputClosed /\ \E err \in InputErrs : ReadReturns(0, err)

(* Variant: the reader goes on after it dropped a part.                    *)
DropPartGoesOn ==
  /\ kpc = "part" /\ innerClosed
  /\ kpc' = "read"
  /\ UNCHANGED <<pipeVars, runVars, flagVars, part, partErr, sendErr, emptyReads,
                 nread, emptySeen>>

(* Variant: the reader is released only while Run still listens.           *)
DropPartIfHeard ==
  /\ kpc = "part" /\ innerClosed /\ rpc = "select"
  /\ kpc' = "exit"
  /\ UNCHANGED <<pipeVars, runVars, flagVars, part, partErr, sendErr, emptyReads,
                 nread, emptySeen>>

(* The other case of sendPart's select: the part is dropped.               *)
DropPart ==
  /\ kpc = "part" /\ innerClosed
  /\ kpc' = "exit"
  /\ UNCHANGED <<pipeVars, runVars, flagVars, part, partErr, sendErr, emptyReads,
                 nread, emptySeen>>

(* isReceiveStop, after a part that came without an error.                 *)
PollStop ==
  /\ kpc = "poll"
  /\ kpc' = IF innerClosed THEN "exit" ELSE "read"
  /\ UNCHANGED <<pipeVars, runVars, flagVars, part, partErr, sendErr, emptyReads,
                 nread, emptySeen>>

(* sendStop, if it is still to do, and the deferred closes.                *)
ReaderExit ==
  /\ kpc = "exit"
  /\ kpc' = "ended"
  /\ UNCHANGED <<pipeVars, runVars, flagVars, part, partErr, sendErr, emptyReads,
                 nread, emptySeen>>

-----------------------------------------------------------------------------
ConsumerSide(p) == Cycle(p) /\ UNCHANGED <<runVars, readVars, flagVars>>

Terminated == rpc = "done" /\ kpc \in {"none", "ended"} /\ UNCHANGED vars

OnPipe(p) == CallGoesOn(p) \/ WriteDone(p) \/ WriteStopped(p) \/ PipeStopped(p)
Run == RunRefused \/ RunCheck \/ RunStart \/ SeesCtx \/ SeesReadErr \/ SeesReaderEnd
         \/ SeesInnerStop \/ HandOver \/ EndRound \/ EndDrain \/ RunAfterStop
         \/ \E p \in Pipes : OnPipe(p)
StopGoesOn(c) == RunBeforeStop(c) \/ CloseInner(c)
Stop(c) == StopCalled(c) \/ StopGoesOn(c)
ReaderOnly == ReadClosedInput \/ DropPart \/ PollStop \/ ReaderExit

Next ==
  \/ Run
  \/ \E c \in Callers : Stop(c)
  \/ CancelCtx
  \/ ReadInput
  \/ ReaderOnly
  \/ \E p \in Pipes : ConsumerSide(p)
  \/ Terminated

Spec == Init /\ [][Next]_vars

(* A goroutine that can step does; a consumer's Write returns in the end; a*)
(* Read of a closed input returns, one of an open input need not.  Go's    *)
(* select draws among the ready cases at random, so a case that is ready   *)
(* again and again is taken: strong fairness of the context case.          *)
Fairness ==
  /\ WF_vars(Run /\ rpc # "idle")
  /\ SF_vars(SeesCtx)
  /\ WF_vars(Stop("run"))
  /\ \A c \in Users : WF_vars(StopGoesOn(c))
  /\ WF_vars(ReaderOnly)
  /\ \A p \in Pipes : WF_vars(ConsumerSide(p))

FairSpec == Spec /\ Fairness

(* What an input adds that always answers in the end.                     *)
InputAnswers == WF_vars(ReadInput)

-----------------------------------------------------------------------------
(***************************************************************************)
(* What of this state the user of a Stream sees: StreamContract, with one  *)
(* stream.  A reader that has only its deferred closes to do has ended.    *)
(***************************************************************************)
One == {0}

RunPhase ==
  CASE rpc \in {"idle", "start"} -> "idle"
    [] rpc = "select" -> "loop"
    [] rpc \in {"ctxStop", "drain", "finalStop"} -> "leaving"
    [] OTHER -> rpc

ReaderPhase == IF kpc = "exit" THEN "ended" ELSE kpc
Reason == IF readErr = "noProgress" THEN "read" ELSE readErr
AllGone == \A p \in Pipes : outcome[p] # "ok"

Contract == INSTANCE StreamContract WITH
  Streams <- One, MaxChunk <- BufSize,
  run <- [s \in One |-> RunPhase],
  result <- [s \in One |-> Reason],
  alone <- [s \in One |-> AllGone],
  flagged <- [s \in One |-> isStopped],
  signalled <- [s \in One |-> innerClosed],
  ctxEnded <- [s \in One |-> ctxDone],
  reader <- [s \in One |-> ReaderPhase],
  lastErr <- [s \in One |-> partErr],
  fetched <- [s \in One |-> nread],
  got <- [s \in One |-> buf.to]

(* TeeStream is a Stream: whatever its consumers, callers of Stop and input*)
(* do, its user sees a behaviour of StreamContract.  Run leaves its loop   *)
(* for a reason, receives what was read in order and all of it, returns    *)
(* only as a stopped stream, and the reader ends only after a stop, an     *)
(* error or the end of the input.                                          *)
KeepsContract == Contract!ContractSpec

-----------------------------------------------------------------------------
(* Every variable of the stream stays in its type.                         *)
StreamTypeOK ==
  /\ rpc \in {"idle", "start", "select", "ctxStop", "send", "drain", "finalStop", "done"}
  /\ todo \subseteq Pipes /\ current \subseteq Pipes /\ remove \subseteq Pipes
  /\ buf \in Chunk /\ part \in Chunk
  /\ readErr \in {"nil", "stopped", "ctx", "read", "noProgress"}
  /\ consErrs \in [Pipes -> SUBSET {"write", "close"}]
  /\ kpc \in {"none", "read", "part", "poll", "err", "exit", "ended"}
  /\ partErr \in {"nil"} \union InputErrs
  /\ sendErr \in {"nil", "read", "noProgress"}
  /\ emptyReads \in 0..MaxEmptyReads /\ emptySeen \in 0..MaxEmptyReads
  /\ nread \in 0..MaxBytes
  /\ isStopped \in BOOLEAN /\ innerClosed \in BOOLEAN
  /\ inputClosed \in BOOLEAN /\ ctxDone \in BOOLEAN
  /\ stopPc \in [Callers -> {"none", "before", "close", "returned"}]

UserStops == \E c \in Users : stopPc[c] # "none"

(* When Run returns and neither a Stop nor the context cut it short, every *)
(* consumer that never refused a byte has taken every byte the input gave, *)
(* also the bytes a failing Read returned together with its error, and     *)
(* although other consumers left on the way.                               *)
DeliveredToTheEnd ==
  rpc = "done" /\ readErr \notin {"stopped", "ctx"} /\ ~UserStops =>
    \A p \in Pipes : outcome[p] = "ok" => accepted[p] = nread

(* When Run returns, ConsumersErrs names exactly the consumers that failed *)
(* to write or to close, whether their pipe was stopped inside a round or  *)
(* by the last one; a consumer that answered ErrClosed is not among them.  *)
ConsumerErrsExact ==
  rpc = "done" /\ readErr # "stopped" =>
    \A p \in Pipes :
      /\ ("write" \in consErrs[p]) <=> (outcome[p] = "failed")
      /\ ("close" \in consErrs[p]) <=> (closeErr[p] # {})

(* When Run returns, an error the reader met is in the results unless Run  *)
(* had a reason of its own to leave the loop: a Stop, the context or no    *)
(* consumer left to feed.                                                  *)
ReadErrReported ==
  rpc = "done" /\ sendErr # "nil" =>
    readErr = sendErr \/ UserStops \/ ctxDone \/ current = {}

(* When Run returns it has left nothing open: every consumer was closed,   *)
(* every pipe's channel too, and no write cycle is inside a consumer.      *)
ReleasedOnReturn ==
  rpc = "done" /\ readErr # "stopped" =>
    /\ isStopped
    /\ \A p \in Pipes : consClosed[p] /\ writeClosed[p] /\ cycle[p] \in {"end", "done"}

(* Once Run has returned its results stay as they are and no consumer is   *)
(* called any more: what a consumer collected may be read without a lock.  *)
NothingAfterReturn ==
  [][rpc = "done" => UNCHANGED <<readErr, consErrs, resultErr, accepted, outcome,
                                 consClosed>>]_vars

(* sendToAll never calls a pipe that was stopped: such a pipe leaves the   *)
(* list before the next round (rules * and ** of pipe.go:106-112).         *)
OnlyLivePipes == rpc = "send" => \A p \in todo : stopped[p] => call[p] # "none"

(* Of all callers of Stop, Run among them, one runs the BeforeStop         *)
(* functions and closes innerStopCh; a second close would panic.           *)
StoppedOnce ==
  \A c \in Callers : stopPc[c] \in {"before", "close"} =>
    ~innerClosed /\ \A d \in Callers \ {c} : stopPc[d] \notin {"before", "close"}

(* The input is read ahead of a live consumer by at most the buffered      *)
(* writes and three chunks: one being written, one in Run's hands, one in  *)
(* the reader's.                                                           *)
ReadAheadBounded ==
  \A p \in current : outcome[p] = "ok" => nread - accepted[p] <= BufSize * (Cap + 3)

(* Empty reads in a row end the reader when MaxEmptyReads is reached       *)
(* (base.go:21-25: "Stream will stop with io.ErrNoProgress error").        *)
EmptyReadsBounded == emptySeen >= MaxEmptyReads => kpc \in {"err", "exit", "ended"}

(* A user's Stop, or the end of the context, makes a started Run return.   *)
StopEndsRun ==
  (rpc \notin {"idle", "done"} /\ (ctxDone \/ \E c \in Users : stopPc[c] = "returned"))
    ~> (rpc = "done")

(* Once Run has returned the reader ends too, so that WaitReadEnd returns  *)
(* (stream_tee.go:241: "call stop here to prevent leak read gourutine"), if*)
(* the input answers.                                                      *)
ReaderEnds == InputAnswers => ((rpc = "done" /\ kpc # "none") ~> (kpc = "ended"))

(* Nobody need stop a Run: it returns when the reader has ended, and, if   *)
(* the input answers, when all consumers have left, by ErrClosed or by     *)
(* errors: it finds out by the writes it goes on trying.                   *)
RunEnds ==
  /\ (kpc = "ended") ~> (rpc = "done")
  /\ InputAnswers => ((rpc # "idle" /\ \A p \in Pipes : cycle[p] = "done") ~> (rpc = "done"))

(***************************************************************************)
(* The safety half of the last three: what Run can do in its state.        *)
(***************************************************************************)

(* In a round: its end, the next call, or a step of the call or of the     *)
(* write cycle that the call waits for.                                    *)
RoundReady ==
  \/ todo = {}
  \/ \E p \in Pipes :
       /\ Turn(p)
       /\ IF call[p] = "none" THEN rpc = "send" => ~stopped[p]
          ELSE /\ rpc = "drain" => call[p] # "push"
               /\ CallReady(p) \/ CycleReady(p)

(* In its select: the context, a stop, or a reader that has something.     *)
SelectReady == ctxDone \/ innerClosed \/ kpc \in {"part", "err", "ended"}

(* A started Run is never in a deadlock with its pipes, whatever consumers *)
(* answer and whoever stops it: outside its select it, or the write cycle  *)
(* it waits for, has a step, and in its select it waits for nothing but a  *)
(* reader that is at work or in a Read of the input.                       *)
RunNeverStuck ==
  /\ rpc \in {"send", "drain"} => RoundReady
  /\ rpc = "select" => SelectReady \/ kpc \in {"read", "poll", "exit"}
  /\ \A p \in Pipes : call[p] # "none" => rpc \in {"send", "drain"} /\ Turn(p)

-----------------------------------------------------------------------------
(***************************************************************************)
(* The inductive invariant behind the theorems, in named parts.            *)
(***************************************************************************)

(* What the reader holds follows what Run received last.                   *)
ReaderInv ==
  /\ nread \in 0..MaxBytes /\ buf \in Chunk /\ part \in Chunk /\ sendErr # "stopped"
  /\ partErr \in {"nil"} \union InputErrs
  /\ rpc \in {"idle", "start"} => kpc = "none"
  /\ kpc \in {"none", "read", "poll"} => buf.to = nread
  /\ kpc = "part" => /\ part.from = buf.to + 1 /\ part.to = nread
                     /\ Length(part) \in 0..BufSize

(* Which pipes have the chunk of this round; none of the list is stopped   *)
(* outside the call that will take it off the list.                        *)
RoundInv ==
  /\ sent \in [Pipes -> 0..MaxBytes] /\ todo \subseteq Pipes /\ current \subseteq Pipes
  /\ rpc \in {"idle", "start", "select"} => \A p \in current : sent[p] = buf.to /\ ~stopped[p]
  /\ rpc = "send" =>
       /\ todo \subseteq current /\ Length(buf) \in 0..BufSize
       /\ \A p \in todo : sent[p] = buf.from - 1 /\ (stopped[p] => call[p] # "none")
       /\ \A p \in (current \ todo) \ remove : sent[p] = buf.to /\ ~stopped[p]

(* Pipes behind the last round are stopped and their errors kept.          *)
DrainInv ==
  /\ consErrs \in [Pipes -> SUBSET {"write", "close"}]
  /\ readErr = "stopped" => rpc = "done"
  /\ rpc \in {"drain", "finalStop", "done"} /\ readErr # "stopped" =>
       \A p \in (IF rpc = "drain" THEN Pipes \ todo ELSE Pipes) :
         stopped[p] /\ call[p] = "none" /\ consErrs[p] = resultErr[p]

(* A caller of Stop past the flag has set it; the first one alone goes on. *)
StopInv ==
  /\ stopPc \in [Callers -> {"none", "before", "close", "returned"}]
  /\ \A c \in Callers : stopPc[c] # "none" => isStopped
  /\ innerClosed => isStopped
  /\ rpc = "done" => isStopped
  /\ StoppedOnce

(* Run is in a call on a pipe in its rounds only, on the pipe whose turn it*)
(* is, and on none for a write once the last round has begun.              *)
CallsInv ==
  /\ \A p \in Pipes : call[p] # "none" => rpc \in {"send", "drain"} /\ Turn(p)
  /\ rpc = "drain" => \A p \in Pipes : call[p] # "push"
  /\ rpc \in {"select", "send"} =>
       kpc \in {"read", "part", "poll", "err", "exit", "ended"}

StreamInv == ReaderInv /\ RoundInv /\ DrainInv /\ StopInv

=============================================================================
