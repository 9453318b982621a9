-------------------------------- MODULE Pipe --------------------------------
(***************************************************************************)
(* The internal pipe of a TeeStream (pkg/tee/stream/pipe.go): one buffered *)
(* Go channel, writeCh, from the goroutine that runs TeeStream.Run (the    *)
(* provider) to the goroutine that runs pipe.Start (the write cycle), which*)
(* hands every chunk to one consumer.                                      *)
(*                                                                         *)
(* The provider calls WriteToPipe and Stop, one call at a time: call[p] is *)
(* where that call is.  cycle[p] is where the write cycle is.  A chunk is  *)
(* an interval of byte positions of the input, so that "every byte, once,  *)
(* in order" is a statement about numbers; an empty chunk has to = from-1. *)
(* An error is a set of causes, nil is {}, and errors.Join is union.       *)
(***************************************************************************)
EXTENDS Integers, Sequences

CONSTANTS
  Pipes,        \* the pipes of a stream, one per consumer
  WritesCount,  \* baseStream.writesCount: the capacity asked for writeCh
  BufSize,      \* baseStream.bufSize: the longest chunk one Read gives
  MaxBytes      \* bound: the number of bytes the input may give

ASSUME PipeAssumption ==
  /\ WritesCount \in Int
  /\ BufSize \in Nat \ {0}
  /\ MaxBytes \in Nat

VARIABLES
  writeCh,      \* writeCh[p]: the chunks buffered in the channel
  writeClosed,  \* writeClosed[p]: writeCh was closed
  endClosed,    \* endClosed[p]: endCh was closed
  writeErr,     \* writeErr[p]: the error the write cycle left
  stopped,      \* stopped[p]: the CAS flag of pipe.Stop
  resultErr,    \* resultErr[p]: what Stop returns
  call,         \* call[p]: where the provider's call on p is
  closeErr,     \* closeErr[p]: local of Stop, the error of consumer.Close
  cycle,        \* cycle[p]: where the write cycle is
  data,         \* data[p]: what is left of the chunk being written
  accepted,     \* accepted[p]: bytes the consumer has taken
  outcome,      \* outcome[p]: how the consumer's last Write ended
  consClosed,   \* consClosed[p]: consumer.Close was called
  sent          \* sent[p]: history, last byte put in writeCh

pipeVars == <<writeCh, writeClosed, endClosed, writeErr, stopped, resultErr,
              call, closeErr, cycle, data, accepted, outcome, consClosed, sent>>
chanVars == <<writeCh, writeClosed, endClosed, sent>>
stopVars == <<stopped, resultErr, closeErr, consClosed>>
consVars == <<data, accepted, outcome>>

Chunk == [from: 1..(MaxBytes + 1), to: 0..MaxBytes]
IsEmpty(chunk) == chunk.to < chunk.from
Length(chunk) == chunk.to - chunk.from + 1
NoChunk == [from |-> 1, to |-> 0]

(* newPipe: a count that is not positive gives an unbuffered channel.      *)
Cap == IF WritesCount > 0 THEN WritesCount ELSE 0

PipeInit ==
  /\ writeCh = [p \in Pipes |-> <<>>]
  /\ writeClosed = [p \in Pipes |-> FALSE]
  /\ endClosed = [p \in Pipes |-> FALSE]
  /\ writeErr = [p \in Pipes |-> {}]
  /\ stopped = [p \in Pipes |-> FALSE]
  /\ resultErr = [p \in Pipes |-> {}]
  /\ call = [p \in Pipes |-> "none"]
  /\ closeErr = [p \in Pipes |-> {}]
  /\ cycle = [p \in Pipes |-> "recv"]
  /\ data = [p \in Pipes |-> NoChunk]
  /\ accepted = [p \in Pipes |-> 0]
  /\ outcome = [p \in Pipes |-> "ok"]
  /\ consClosed = [p \in Pipes |-> FALSE]
  /\ sent = [p \in Pipes |-> 0]

-----------------------------------------------------------------------------
(***************************************************************************)
(* Stop, called by the provider.  stopMu is never contended, because both  *)
(* calls come from the one goroutine of Run, so it is not modelled.        *)
(***************************************************************************)

(* SetClosed wins and writeCh is closed: the first part of Stop.           *)
BeginStop(p) ==
  /\ stopped' = [stopped EXCEPT ![p] = TRUE]
  /\ writeClosed' = [writeClosed EXCEPT ![p] = TRUE]
  /\ call' = [call EXCEPT ![p] = "check"]

StopEnter(p) ==
  /\ call[p] = "none"
  /\ ~stopped[p]
  /\ BeginStop(p)
  /\ UNCHANGED <<writeCh, endClosed, sent, writeErr, resultErr, closeErr,
                 consClosed, cycle, consVars>>

(* SetClosed loses: Stop returns resultErr and changes nothing.            *)
StopAgain(p) ==
  /\ call[p] = "none"
  /\ stopped[p]
  /\ UNCHANGED pipeVars

(* Variant: Stop never waits for the write cycle.                          *)
StopCheckNoWait(p) ==
  /\ call[p] = "check"
  /\ call' = [call EXCEPT ![p] = "close"]
  /\ UNCHANGED <<chanVars, stopVars, writeErr, cycle, consVars>>

(* Wait for endCh only when no write error is known.                       *)
StopCheck(p) ==
  /\ call[p] = "check"
  /\ call' = [call EXCEPT ![p] = IF writeErr[p] = {} THEN "wait" ELSE "close"]
  /\ UNCHANGED <<chanVars, stopVars, writeErr, cycle, consVars>>

StopWait(p) ==
  /\ call[p] = "wait"
  /\ endClosed[p]
  /\ call' = [call EXCEPT ![p] = "close"]
  /\ UNCHANGED <<chanVars, stopVars, writeErr, cycle, consVars>>

(* consumer.Close, which may report an error of its own.                   *)
StopClose(p) ==
  /\ call[p] = "close"
  /\ consClosed' = [consClosed EXCEPT ![p] = TRUE]
  /\ \E e \in {{}, {"close"}} : closeErr' = [closeErr EXCEPT ![p] = e]
  /\ call' = [call EXCEPT ![p] = "result"]
  /\ UNCHANGED <<chanVars, stopped, resultErr, writeErr, cycle, consVars>>

(* Variant: the write error is not read again after the wait.              *)
StopReturnOneRead(p) ==
  /\ call[p] = "result"
  /\ resultErr' = [resultErr EXCEPT ![p] = @ \union closeErr[p]]
  /\ call' = [call EXCEPT ![p] = "none"]
  /\ UNCHANGED <<chanVars, stopped, closeErr, consClosed, writeErr, cycle, consVars>>

(* The write error is read a second time and joined with the close error.  *)
StopReturn(p) ==
  /\ call[p] = "result"
  /\ resultErr' = [resultErr EXCEPT ![p] = @ \union writeErr[p] \union closeErr[p]]
  /\ call' = [call EXCEPT ![p] = "none"]
  /\ UNCHANGED <<chanVars, stopped, closeErr, consClosed, writeErr, cycle, consVars>>

-----------------------------------------------------------------------------
(***************************************************************************)
(* WriteToPipe, called by the provider.                                    *)
(***************************************************************************)

(* The pipe was stopped before: nothing is sent.                           *)
WriteRefused(p) ==
  /\ call[p] = "none"
  /\ stopped[p]
  /\ UNCHANGED pipeVars

(* The write cycle has left an error: the call stops the pipe itself.      *)
WriteSeesError(p) ==
  /\ call[p] = "none"
  /\ ~stopped[p]
  /\ writeErr[p] # {}
  /\ BeginStop(p)
  /\ UNCHANGED <<writeCh, endClosed, sent, writeErr, resultErr, closeErr,
                 consClosed, cycle, consVars>>

(* Variant: the stopped flag is not tested.                                *)
WriteEnterUnchecked(p) ==
  /\ call[p] = "none"
  /\ writeErr[p] = {}
  /\ call' = [call EXCEPT ![p] = "push"]
  /\ UNCHANGED <<chanVars, stopVars, writeErr, cycle, consVars>>

(* Neither: go on to the select over writeCh and endCh.                    *)
WriteEnter(p) ==
  /\ call[p] = "none"
  /\ ~stopped[p]
  /\ writeErr[p] = {}
  /\ call' = [call EXCEPT ![p] = "push"]
  /\ UNCHANGED <<chanVars, stopVars, writeErr, cycle, consVars>>

(* What the write cycle does next with a chunk it has in hand.             *)
AfterTaking(chunk) == IF IsEmpty(chunk) THEN "recv" ELSE "write"

(* Variant: one chunk more than the channel holds.                         *)
PushBufferedOver(p, chunk) ==
  /\ call[p] = "push"
  /\ Len(writeCh[p]) <= Cap
  /\ writeCh' = [writeCh EXCEPT ![p] = Append(@, chunk)]
  /\ sent' = [sent EXCEPT ![p] = chunk.to]
  /\ call' = [call EXCEPT ![p] = "none"]
  /\ UNCHANGED <<writeClosed, endClosed, stopVars, writeErr, cycle, consVars>>

(* The send case on a buffered channel with room.                          *)
PushBuffered(p, chunk) ==
  /\ call[p] = "push"
  /\ Len(writeCh[p]) < Cap
  /\ writeCh' = [writeCh EXCEPT ![p] = Append(@, chunk)]
  /\ sent' = [sent EXCEPT ![p] = chunk.to]
  /\ call' = [call EXCEPT ![p] = "none"]
  /\ UNCHANGED <<writeClosed, endClosed, stopVars, writeErr, cycle, consVars>>

(* The send case on an unbuffered channel: a hand-over to the receiver.    *)
PushDirect(p, chunk) ==
  /\ call[p] = "push"
  /\ Cap = 0
  /\ cycle[p] = "recv"
  /\ data' = [data EXCEPT ![p] = chunk]
  /\ cycle' = [cycle EXCEPT ![p] = AfterTaking(chunk)]
  /\ sent' = [sent EXCEPT ![p] = chunk.to]
  /\ call' = [call EXCEPT ![p] = "none"]
  /\ UNCHANGED <<writeCh, writeClosed, endClosed, stopVars, writeErr,
                 accepted, outcome>>

Push(p, chunk) == PushBuffered(p, chunk) \/ PushDirect(p, chunk)

(* The endCh case: the write cycle is over, the call stops the pipe.       *)
PushSeesEnd(p) ==
  /\ call[p] = "push"
  /\ endClosed[p]
  /\ BeginStop(p)
  /\ UNCHANGED <<writeCh, endClosed, sent, writeErr, resultErr, closeErr,
                 consClosed, cycle, consVars>>

-----------------------------------------------------------------------------
(***************************************************************************)
(* Start, the goroutine of the write cycle, and the consumer it drives.    *)
(***************************************************************************)

Receive(p) ==
  /\ cycle[p] = "recv"
  /\ writeCh[p] # <<>>
  /\ data' = [data EXCEPT ![p] = Head(writeCh[p])]
  /\ writeCh' = [writeCh EXCEPT ![p] = Tail(@)]
  /\ cycle' = [cycle EXCEPT ![p] = AfterTaking(Head(writeCh[p]))]
  /\ UNCHANGED <<writeClosed, endClosed, sent, stopVars, writeErr, call,
                 accepted, outcome>>

(* Variant: a closed channel ends the cycle with chunks still in it.       *)
ReceiveClosedEarly(p) ==
  /\ cycle[p] = "recv"
  /\ writeClosed[p]
  /\ cycle' = [cycle EXCEPT ![p] = "end"]
  /\ UNCHANGED <<chanVars, stopVars, writeErr, call, consVars>>

(* range ends: the channel is closed and drained.                          *)
ReceiveClosed(p) ==
  /\ cycle[p] = "recv"
  /\ writeCh[p] = <<>>
  /\ writeClosed[p]
  /\ cycle' = [cycle EXCEPT ![p] = "end"]
  /\ UNCHANGED <<chanVars, stopVars, writeErr, call, consVars>>

(* Variant: after a short write the same data is offered again.            *)
ConsumerTakesAgain(p) ==
  /\ cycle[p] = "write"
  /\ \E n \in 1..Length(data[p]) :
       /\ accepted' = [accepted EXCEPT ![p] = @ + n]
       /\ cycle' = [cycle EXCEPT ![p] =
                      IF n = Length(data[p]) THEN "recv" ELSE "write"]
  /\ UNCHANGED <<chanVars, stopVars, writeErr, call, outcome, data>>

(* Variant: the consumer may claim a byte more than it was given.          *)
ConsumerTakesMore(p) ==
  /\ cycle[p] = "write"
  /\ \E n \in 1..(Length(data[p]) + 1) :
       /\ accepted' = [accepted EXCEPT ![p] = @ + n]
       /\ data' = [data EXCEPT ![p].from = @ + n]
       /\ cycle' = [cycle EXCEPT ![p] =
                      IF n = Length(data[p]) THEN "recv" ELSE "write"]
  /\ UNCHANGED <<chanVars, stopVars, writeErr, call, outcome>>

(* consumer.Write takes n bytes and no error; data = data[n:].             *)
ConsumerTakes(p) ==
  /\ cycle[p] = "write"
  /\ \E n \in 1..Length(data[p]) :
       /\ accepted' = [accepted EXCEPT ![p] = @ + n]
       /\ data' = [data EXCEPT ![p].from = @ + n]
       /\ cycle' = [cycle EXCEPT ![p] =
                      IF n = Length(data[p]) THEN "recv" ELSE "write"]
  /\ UNCHANGED <<chanVars, stopVars, writeErr, call, outcome>>

(* consumer.Write returns ErrClosed: the cycle ends without an error.      *)
ConsumerDone(p) ==
  /\ cycle[p] = "write"
  /\ outcome' = [outcome EXCEPT ![p] = "closed"]
  /\ cycle' = [cycle EXCEPT ![p] = "end"]
  /\ UNCHANGED <<chanVars, stopVars, writeErr, call, data, accepted>>

(* consumer.Write fails: sendError is set and the deferred calls run.      *)
ConsumerFails(p) ==
  /\ cycle[p] = "write"
  /\ outcome' = [outcome EXCEPT ![p] = "failed"]
  /\ cycle' = [cycle EXCEPT ![p] = "fail"]
  /\ UNCHANGED <<chanVars, stopVars, writeErr, call, data, accepted>>

(* Variant: a failed cycle returns without closing endCh.                  *)
SetWriteErrNoEnd(p) ==
  /\ cycle[p] = "fail"
  /\ writeErr' = [writeErr EXCEPT ![p] = @ \union {"write"}]
  /\ cycle' = [cycle EXCEPT ![p] = "done"]
  /\ UNCHANGED <<chanVars, stopVars, call, consVars>>

(* The outer deferred function: setWriteErr.                               *)
SetWriteErr(p) ==
  /\ cycle[p] = "fail"
  /\ writeErr' = [writeErr EXCEPT ![p] = @ \union {"write"}]
  /\ cycle' = [cycle EXCEPT ![p] = "end"]
  /\ UNCHANGED <<chanVars, stopVars, call, consVars>>

(* The inner deferred function, last of all: close endCh.                  *)
CloseEnd(p) ==
  /\ cycle[p] = "end"
  /\ endClosed' = [endClosed EXCEPT ![p] = TRUE]
  /\ cycle' = [cycle EXCEPT ![p] = "done"]
  /\ UNCHANGED <<writeCh, writeClosed, sent, stopVars, writeErr, call, consVars>>

-----------------------------------------------------------------------------
(***************************************************************************)
(* The pipe with any single-threaded provider that offers the bytes of the *)
(* input in order, a chunk at a time.                                      *)
(***************************************************************************)

Offers(p) == {c \in Chunk : c.from = sent[p] + 1 /\ Length(c) \in 0..BufSize}

Begin(p) == StopEnter(p) \/ StopAgain(p) \/ WriteRefused(p)
              \/ WriteSeesError(p) \/ WriteEnter(p)
Finish(p) == StopCheck(p) \/ StopWait(p) \/ StopClose(p) \/ StopReturn(p)
               \/ PushSeesEnd(p) \/ \E c \in Offers(p) : Push(p, c)
Consume(p) == ConsumerTakes(p) \/ ConsumerDone(p) \/ ConsumerFails(p)
Cycle(p) == Receive(p) \/ ReceiveClosed(p) \/ Consume(p) \/ SetWriteErr(p)
              \/ CloseEnd(p)

PipeNext == \E p \in Pipes : Begin(p) \/ Finish(p) \/ Cycle(p)

PipeSpec == PipeInit /\ [][PipeNext]_pipeVars

(* A goroutine that can run is run, and consumer.Write returns in the end. *)
PipeFairness == \A p \in Pipes : WF_pipeVars(Finish(p)) /\ WF_pipeVars(Cycle(p))

FairPipeSpec == PipeSpec /\ PipeFairness

-----------------------------------------------------------------------------
(***************************************************************************)
(* What a consumer sees of its pipe: ConsumerContract.                     *)
(***************************************************************************)
Driven == INSTANCE ConsumerContract WITH
  Consumers <- Pipes,
  next <- [p \in Pipes |-> IF cycle[p] = "write" THEN data[p].from ELSE accepted[p] + 1],
  offered <- [p \in Pipes |-> data[p].to],
  busy <- [p \in Pipes |-> cycle[p] = "write"],
  answer <- outcome,
  shut <- consClosed

(* A pipe calls its consumer as the Consumer interface wants it, whatever  *)
(* the provider does and the consumer answers: no Write after a refusal or *)
(* after Close, no Close while a Write runs, and each Write has the bytes  *)
(* behind those that were taken.                                           *)
DrivesConsumers == Driven!ConsumerSpec

-----------------------------------------------------------------------------
(* The values the variables take.                                          *)
PipeVarsOK ==
  /\ writeCh \in [Pipes -> Seq(Chunk)]
  /\ writeClosed \in [Pipes -> BOOLEAN]
  /\ endClosed \in [Pipes -> BOOLEAN]
  /\ writeErr \in [Pipes -> {{}, {"write"}}]
  /\ stopped \in [Pipes -> BOOLEAN]
  /\ resultErr \in [Pipes -> SUBSET {"write", "close"}]
  /\ call \in [Pipes -> {"none", "push", "check", "wait", "close", "result"}]
  /\ closeErr \in [Pipes -> {{}, {"close"}}]
  /\ cycle \in [Pipes -> {"recv", "write", "fail", "end", "done"}]
  /\ data \in [Pipes -> Chunk]
  /\ accepted \in [Pipes -> 0..MaxBytes]
  /\ outcome \in [Pipes -> {"ok", "closed", "failed"}]
  /\ consClosed \in [Pipes -> BOOLEAN]
  /\ sent \in [Pipes -> 0..MaxBytes]

(* Every variable stays in its type, and every channel in its capacity.    *)
PipeTypeOK == PipeVarsOK /\ \A p \in Pipes : Len(writeCh[p]) <= Cap

(* No goroutine sends on or closes a closed channel, which would panic: a  *)
(* call that is in WriteToPipe's select has writeCh open, Stop's close of  *)
(* writeCh and the cycle's close of endCh come once (the reasoning of the  *)
(* comment in Start, pipe.go:96-151).                                      *)
NoChannelPanic ==
  \A p \in Pipes :
    /\ call[p] = "push" => ~writeClosed[p]
    /\ ~stopped[p] => ~writeClosed[p]
    /\ cycle[p] # "done" => ~endClosed[p]

(* consumer.Close never runs while consumer.Write runs, and Write is never *)
(* called after it: Stop closes the consumer only when the write cycle has *)
(* left its loop.  Consumers such as SplitConsumer have no lock.           *)
CloseAfterWrites ==
  \A p \in Pipes :
    consClosed[p] \/ call[p] = "close" => cycle[p] \in {"end", "done"}

(* The bytes handed to a consumer are the bytes after the ones it took: no *)
(* gap, no repetition and no reordering, also after short writes.          *)
InOrder ==
  \A p \in Pipes : cycle[p] = "write" => data[p].from = accepted[p] + 1

(* A consumer that never refused a byte has, when it is closed, every byte *)
(* that was put into its channel: Stop drains the buffer first.            *)
DrainedBeforeClose ==
  \A p \in Pipes : consClosed[p] /\ outcome[p] = "ok" => accepted[p] = sent[p]

(* Once Stop has returned, its result has the write error exactly when the *)
(* consumer failed, in whatever order failure, WriteToPipe and Stop came,  *)
(* and ErrClosed is never an error.                                        *)
FailureReported ==
  \A p \in Pipes :
    stopped[p] /\ call[p] = "none" =>
      /\ ("write" \in resultErr[p]) <=> (outcome[p] = "failed")
      /\ ("close" \in resultErr[p]) <=> (closeErr[p] # {})

(* A call of WriteToPipe or Stop returns, whatever the consumer answers:   *)
(* no send into a channel that nobody reads, no wait for an endCh that     *)
(* nobody closes (situation "Eight" of the comment, pipe.go:302-313).      *)
CallsReturn == \A p \in Pipes : (call[p] # "none") ~> (call[p] = "none")

(***************************************************************************)
(* The safety half of CallsReturn: there is always a goroutine of the pipe *)
(* that has something to do for a call, and it cannot go on for ever.      *)
(***************************************************************************)

(* What the call, and what the write cycle, need for their next step.      *)
CallReady(p) ==
  \/ call[p] \in {"check", "close", "result"}
  \/ call[p] = "wait" /\ endClosed[p]
  \/ call[p] = "push" /\ \/ endClosed[p] \/ Len(writeCh[p]) < Cap
                         \/ Cap = 0 /\ cycle[p] = "recv"
CycleReady(p) ==
  \/ cycle[p] \in {"write", "fail", "end"}
  \/ cycle[p] = "recv" /\ (writeCh[p] # <<>> \/ writeClosed[p])

(* The steps that are left at most before the call returns: the parts of   *)
(* the call, the ends of the cycle, a receive for each chunk that is       *)
(* buffered and a write for each byte of them.                             *)
CallSteps(p) ==
  CASE call[p] = "none" -> 0 [] call[p] = "result" -> 1 [] call[p] = "close" -> 2
    [] call[p] = "wait" -> 3 [] call[p] = "check" -> 4 [] call[p] = "push" -> 5
CycleSteps(p) ==
  CASE cycle[p] = "done" -> 0 [] cycle[p] = "end" -> 1 [] cycle[p] = "fail" -> 2
    [] cycle[p] \in {"recv", "write"} -> 3 + Len(writeCh[p]) + (sent[p] - accepted[p])
StepsLeft(p) == CallSteps(p) + CycleSteps(p)

(* Nobody waits on everybody: while a call waits for room or for endCh the *)
(* write cycle is not at its receive with nothing to come, nor over with   *)
(* endCh open (situation "Eight", and Stop's wait, pipe.go:389).           *)
NeverStuck == \A p \in Pipes : call[p] # "none" => CallReady(p) \/ CycleReady(p)

(* A call that does not return by a step of its pipe comes nearer to it:   *)
(* neither goroutine goes round in circles.                                *)
CallsComeNearer ==
  [][\A p \in Pipes :
       call[p] # "none" /\ (Finish(p) \/ Cycle(p)) =>
         call'[p] = "none" \/ StepsLeft(p)' < StepsLeft(p)]_pipeVars

-----------------------------------------------------------------------------
(***************************************************************************)
(* The inductive invariant behind the safety properties, in named parts.   *)
(***************************************************************************)

(* Up to where the write cycle has the input, in its hand included.        *)
Taken(p) == IF cycle[p] = "write" THEN data[p].to ELSE accepted[p]

(* The flags and channels close together with what they stand for.         *)
FlagsInv(p) ==
  /\ writeClosed[p] <=> stopped[p]
  /\ endClosed[p] <=> (cycle[p] = "done")
  /\ call[p] = "push" => ~stopped[p]
  /\ call[p] \in {"check", "wait", "close", "result"} => stopped[p]

(* Who is done when: the consumer is closed from Stop's last part on, and  *)
(* then the write cycle has left its loop.                                 *)
PhaseInv(p) ==
  /\ consClosed[p] <=> (stopped[p] /\ call[p] \in {"result", "none"})
  /\ consClosed[p] \/ call[p] = "close" => cycle[p] \in {"end", "done"}

(* The write error is there exactly after a failure was recorded.          *)
OutcomeInv(p) ==
  /\ cycle[p] \in {"recv", "write"} => outcome[p] = "ok" /\ writeErr[p] = {}
  /\ cycle[p] = "fail" => outcome[p] = "failed" /\ writeErr[p] = {}
  /\ cycle[p] \in {"end", "done"} => (writeErr[p] # {} <=> outcome[p] = "failed")

(* The chunks are adjoining intervals, from what was taken to what was sent*)
ChainInv(p) ==
  /\ Len(writeCh[p]) <= Cap
  /\ cycle[p] \in {"recv", "write"} =>
       /\ cycle[p] = "write" => data[p].from = accepted[p] + 1 /\ ~IsEmpty(data[p])
       /\ writeCh[p] = <<>> => sent[p] = Taken(p)
       /\ writeCh[p] # <<>> => /\ writeCh[p][1].from = Taken(p) + 1
                               /\ writeCh[p][Len(writeCh[p])].to = sent[p]
       /\ \A i \in 1..Len(writeCh[p]) : writeCh[p][i].to >= writeCh[p][i].from - 1
       /\ \A i \in 1..(Len(writeCh[p]) - 1) :
            writeCh[p][i + 1].from = writeCh[p][i].to + 1
  /\ cycle[p] \in {"end", "done"} /\ outcome[p] = "ok" =>
       stopped[p] /\ accepted[p] = sent[p]

(* The result of Stop is set once, at its return.                          *)
ResultInv(p) ==
  /\ ~consClosed[p] => closeErr[p] = {}
  /\ resultErr[p] = IF stopped[p] /\ call[p] = "none"
                    THEN writeErr[p] \union closeErr[p] ELSE {}

PipeInv ==
  /\ PipeVarsOK
  /\ \A p \in Pipes : FlagsInv(p) /\ PhaseInv(p) /\ OutcomeInv(p)
                        /\ ChainInv(p) /\ ResultInv(p)

=============================================================================
