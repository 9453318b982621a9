---------------------------- MODULE CombineStream ----------------------------
(***************************************************************************)
(* CombineStream (pkg/tee/stream/stream_combine.go) and the cleaner        *)
(* (pkg/tee/cleaner/cleaner.go) as NewStreamForCmd joins them: streams of  *)
(* StreamContract over io.Pipes, run, stopped and waited for together, and *)
(* a BeforeStop function that closes the pipes.                            *)
(*                                                                         *)
(* Any number of goroutines calls Run, Stop, WaitReadEnd and the cleaner's *)
(* GetError, in any order.  CmdStream is the one use of it in RunCmd.      *)
(***************************************************************************)
EXTENDS StreamContract, FiniteSets

CONSTANTS
  Users,        \* goroutines that call Run, Stop, WaitReadEnd or GetError
  Waiters,      \* those of them that call WaitReadEnd and GetError
  MaxWrites     \* bound: MaxWrites[o], writes into the io.Pipe of o

ASSUME CombineAssumption ==
  /\ Streams \subseteq Nat \ {0}    \* 1 is stdout, 2 is stderr
  /\ MaxWrites \in [Streams -> Nat] /\ MaxChunk >= 1 /\ Waiters \subseteq Users

VARIABLES
  outs,       \* the streams combined: those with consumers (never changes)
  runner,     \* runner[r]: where r's call of CombineStream.Run is (one each)
  answer,     \* answer[r][o]: what the Run of stream o is to r: "mine",
              \* or turned away as "started" or "stopped"
  results,    \* results[r]: the read errors in the Results r returns
  combined,   \* CombineStream's stopped flag
  stopPc,     \* stopPc[c]: where c's call of CombineStream.Stop is
  stopTodo,   \* streams that call has still to stop
  writerEnd,  \* writerEnd[o]: the writer of the io.Pipe was closed
  readerEnd,  \* readerEnd[o]: its reader was closed
  errSent,    \* Close has put its error in errCh
  errTaken,   \* the cleaner's closed flag: a GetError has returned
  blocked     \* blocked[u]: what u waits for: the readers' "end" in a call
              \* of WaitReadEnd, the "error" in one of GetError, or nothing

combineVars == <<runner, answer, results>>
pipeEnds == <<writerEnd, readerEnd, errSent>>
stopVars == <<combined, stopPc, stopTodo, pipeEnds>>
allVars == <<contractVars, outs, combineVars, stopVars, errTaken, blocked>>

CombineInit ==
  /\ ContractInit
  /\ outs \in (SUBSET Streams) \ {{}}
  /\ runner = [r \in Users |-> "idle"] /\ results = [r \in Users |-> {}]
  /\ answer = [r \in Users |-> [o \in Streams |-> "none"]]
  /\ combined = FALSE /\ stopPc = [c \in Users |-> "none"] /\ stopTodo = {}
  /\ writerEnd = [o \in Streams |-> FALSE] /\ readerEnd = [o \in Streams |-> FALSE]
  /\ errSent = FALSE /\ errTaken = FALSE
  /\ blocked = [u \in Users |-> "no"]

(* A goroutine makes one call after the other.                             *)
Free(u) == runner[u] # "wait" /\ stopPc[u] \in {"none", "returned"} /\ blocked[u] = "no"

-----------------------------------------------------------------------------
(***************************************************************************)
(* CombineStream.Run.  There is no started flag: a second call goes on to  *)
(* the streams, which turn it away.                                        *)
(***************************************************************************)
CombineRefused(r) ==
  /\ Free(r) /\ runner[r] = "idle" /\ combined
  /\ runner' = [runner EXCEPT ![r] = "done"]
  /\ results' = [results EXCEPT ![r] = {"stopped"}]
  /\ UNCHANGED <<contractVars, outs, answer, stopVars, errTaken, blocked>>

(* A goroutine per stream is started, which calls the stream's Run.        *)
CombineStarts(r) ==
  /\ Free(r) /\ runner[r] = "idle" /\ ~combined
  /\ runner' = [runner EXCEPT ![r] = "wait"]
  /\ UNCHANGED <<contractVars, outs, answer, results, stopVars, errTaken, blocked>>

(* A stream runs once.  A call may find the flag set, but the flag may also*)
(* have been set since the call tested it.                                 *)
CallsRun(r, o) ==
  /\ runner[r] = "wait" /\ answer[r][o] = "none"
  /\ \/ Start(o) /\ answer' = [answer EXCEPT ![r][o] = "mine"]
     \/ /\ flagged[o] /\ UNCHANGED contractVars
        /\ answer' = [answer EXCEPT ![r][o] = "stopped"]
     \/ /\ run[o] # "idle" /\ UNCHANGED contractVars
        /\ answer' = [answer EXCEPT ![r][o] = "started"]
  /\ UNCHANGED <<outs, runner, results, stopVars, errTaken, blocked>>

Returned(r, o) ==
  answer[r][o] \in {"started", "stopped"} \/ (answer[r][o] = "mine" /\ run[o] = "done")

(* Variant: the wait group counts one stream.                              *)
OneReturned(r) == runner[r] = "wait" /\ \E o \in outs : Returned(r, o)

(* The wait group is through: Run calls Stop.                              *)
AllReturned(r) == runner[r] = "wait" /\ \A o \in outs : Returned(r, o)

(* Variant: a stream without an error is listed too.                       *)
ReadErrsAll(r) ==
  {result[o] : o \in {q \in outs : answer[r][q] = "mine"}}
    \union {answer[r][o] : o \in {q \in outs : answer[r][q] # "mine"}}

(* Variant: a stream's error takes the place of those before it.           *)
ReadErrsLast(r) ==
  LET o == CHOOSE q \in outs : \A p \in outs : p <= q
  IN  (IF answer[r][o] = "mine" THEN {result[o]} ELSE {answer[r][o]}) \ {"nil"}

(* The errors a call found, of the streams it ran and of those that turned *)
(* it away.                                                                *)
ReadErrs(r) ==
  ({result[o] : o \in {q \in outs : answer[r][q] = "mine"}}
     \union {answer[r][o] : o \in {q \in outs : answer[r][q] # "mine"}}) \ {"nil"}

CombineStopped(r) ==
  /\ runner[r] = "wait" /\ stopPc[r] = "returned"
  /\ runner' = [runner EXCEPT ![r] = "done"]
  /\ results' = [results EXCEPT ![r] = ReadErrs(r)]
  /\ UNCHANGED <<contractVars, outs, answer, stopVars, errTaken, blocked>>

CombineRun(r) == CombineRefused(r) \/ CombineStarts(r) \/ CombineStopped(r)

-----------------------------------------------------------------------------
(* Variant: the flag is set and not tested.                                *)
StopCalledUnchecked(c) ==
  /\ stopPc[c] = "none" /\ (Free(c) \/ AllReturned(c))
  /\ combined' = TRUE
  /\ stopPc' = [stopPc EXCEPT ![c] = "writers"]
  /\ UNCHANGED <<contractVars, outs, combineVars, stopTodo, pipeEnds, errTaken, blocked>>

(***************************************************************************)
(* CombineStream.Stop.  BeforeStop is the cleaner's Close, which closes the*)
(* writers, waits, closes the readers and sends its error; then each stream*)
(* is stopped, one after the other.                                        *)
(***************************************************************************)
StopCalled(c) ==
  /\ stopPc[c] = "none" /\ (Free(c) \/ AllReturned(c))
  /\ combined' = TRUE
  /\ stopPc' = [stopPc EXCEPT ![c] = IF combined THEN "returned" ELSE "writers"]
  /\ UNCHANGED <<contractVars, outs, combineVars, stopTodo, pipeEnds, errTaken, blocked>>

(* Close of a cleaner whose flag is set does nothing.                      *)
CloseSkipped(c) ==
  /\ stopPc[c] = "writers" /\ errTaken
  /\ stopPc' = [stopPc EXCEPT ![c] = "streams"] /\ stopTodo' = outs
  /\ UNCHANGED <<contractVars, outs, combineVars, combined, pipeEnds, errTaken, blocked>>

(* Variant: there is no wait before the readers.                           *)
CloseWritersNoWait(c) ==
  /\ stopPc[c] = "writers" /\ ~errTaken
  /\ writerEnd' = [o \in Streams |-> o \in outs]
  /\ stopPc' = [stopPc EXCEPT ![c] = "readers"]
  /\ UNCHANGED <<contractVars, outs, combineVars, combined, stopTodo, readerEnd, errSent,
                 errTaken, blocked>>

(* The pipes' writers, in the order of a Go map: here all at once.         *)
CloseWriters(c) ==
  /\ stopPc[c] = "writers" /\ ~errTaken
  /\ writerEnd' = [o \in Streams |-> o \in outs]
  /\ stopPc' = [stopPc EXCEPT ![c] = "sleep"]
  /\ UNCHANGED <<contractVars, outs, combineVars, combined, stopTodo, readerEnd, errSent,
                 errTaken, blocked>>

(* The close wait is a sleep: it ends whether the readers are through or   *)
(* not.                                                                    *)
CloseWait(c) ==
  /\ stopPc[c] = "sleep"
  /\ stopPc' = [stopPc EXCEPT ![c] = "readers"]
  /\ UNCHANGED <<contractVars, outs, combineVars, combined, stopTodo, pipeEnds, errTaken,
                 blocked>>

(* Variant: errCh has no room, its sender waits for a GetError.            *)
CloseReadersUnbuffered(c) ==
  /\ stopPc[c] = "readers" /\ \E u \in Users : blocked[u] = "error"
  /\ readerEnd' = [o \in Streams |-> o \in outs] /\ errSent' = TRUE
  /\ stopPc' = [stopPc EXCEPT ![c] = "streams"] /\ stopTodo' = outs
  /\ UNCHANGED <<contractVars, outs, combineVars, combined, writerEnd, errTaken, blocked>>

(* The readers, and the error in errCh, which has room for it.             *)
CloseReaders(c) ==
  /\ stopPc[c] = "readers"
  /\ readerEnd' = [o \in Streams |-> o \in outs] /\ errSent' = TRUE
  /\ stopPc' = [stopPc EXCEPT ![c] = "streams"] /\ stopTodo' = outs
  /\ UNCHANGED <<contractVars, outs, combineVars, combined, writerEnd, errTaken, blocked>>

(* Variant: a stream that was stopped already ends the loop.               *)
StopStreamEnds(c, o) ==
  /\ stopPc[c] = "streams"
  /\ o \in stopTodo /\ \A q \in stopTodo : o <= q
  /\ SetFlag(o) \/ (flagged[o] /\ UNCHANGED contractVars)
  /\ stopTodo' = stopTodo \ {o}
  /\ stopPc' = [stopPc EXCEPT ![c] = IF flagged[o] \/ stopTodo' = {} THEN "returned" ELSE "streams"]
  /\ UNCHANGED <<outs, combineVars, combined, pipeEnds, errTaken, blocked>>

StopStream(c, o) ==
  /\ stopPc[c] = "streams"
  /\ o \in stopTodo /\ \A q \in stopTodo : o <= q
  /\ SetFlag(o) \/ (flagged[o] /\ UNCHANGED contractVars)
  /\ stopTodo' = stopTodo \ {o}
  /\ stopPc' = [stopPc EXCEPT ![c] = IF stopTodo' = {} THEN "returned" ELSE "streams"]
  /\ UNCHANGED <<outs, combineVars, combined, pipeEnds, errTaken, blocked>>

StopGoesOn(c) ==
  \/ CloseSkipped(c) \/ CloseWriters(c) \/ CloseWait(c) \/ CloseReaders(c)
  \/ \E o \in outs : StopStream(c, o)

CombineStop(c) == StopCalled(c) \/ StopGoesOn(c)

-----------------------------------------------------------------------------
(***************************************************************************)
(* GetError of the cleaner, called again after it returned as often as one *)
(* likes.  With noWait it takes the error if it is there; it sets the flag *)
(* in any case.                                                            *)
(***************************************************************************)
TakeError == errSent /\ errTaken' = TRUE

PollError(u) ==
  /\ Free(u)
  /\ errTaken' = TRUE
  /\ UNCHANGED <<contractVars, outs, combineVars, stopVars, blocked>>

AskError(u) ==
  /\ Free(u) /\ ~errTaken
  /\ blocked' = [blocked EXCEPT ![u] = "error"]
  /\ UNCHANGED <<contractVars, outs, combineVars, stopVars, errTaken>>

ErrorComes(u) ==
  /\ blocked[u] = "error" /\ TakeError
  /\ blocked' = [blocked EXCEPT ![u] = "no"]
  /\ UNCHANGED <<contractVars, outs, combineVars, stopVars>>

CallsGetError(u) == PollError(u) \/ AskError(u) \/ ErrorComes(u)

-----------------------------------------------------------------------------
(***************************************************************************)
(* WaitReadEnd asks each stream in a goroutine of its own and may be called*)
(* again.  The context it is called with may end at any moment.            *)
(***************************************************************************)
WaitCalled(u) ==
  /\ Free(u)
  /\ blocked' = [blocked EXCEPT ![u] = "end"]
  /\ UNCHANGED <<contractVars, outs, combineVars, stopVars, errTaken>>

WaitDone(u) ==
  /\ blocked[u] = "end" /\ \A o \in outs : reader[o] = "ended"
  /\ blocked' = [blocked EXCEPT ![u] = "no"]
  /\ UNCHANGED <<contractVars, outs, combineVars, stopVars, errTaken>>

WaitCut(u) ==
  /\ blocked[u] = "end"
  /\ blocked' = [blocked EXCEPT ![u] = "no"]
  /\ UNCHANGED <<contractVars, outs, combineVars, stopVars, errTaken>>

WaitReadEnd(u) == WaitCalled(u) \/ WaitDone(u) \/ WaitCut(u)

-----------------------------------------------------------------------------
(***************************************************************************)
(* The streams.  Their own call of Stop, at the end of Run, is SetFlag and *)
(* Signal; Signal is also the end of the CombineStream's call.             *)
(***************************************************************************)
StreamGoesOn(o) ==
  /\ \/ LeaveOnStop(o) \/ LeaveOnEnd(o) \/ SendDone(o) \/ LeaveAlone(o)
     \/ run[o] = "leaving" /\ SetFlag(o)
     \/ Finish(o) \/ Signal(o) \/ Deliver(o) \/ Poll(o) \/ Drop(o)
  /\ UNCHANGED <<outs, combineVars, stopVars, errTaken, blocked>>

StreamRuns(o) == StreamGoesOn(o) \/ \E r \in Users : CallsRun(r, o)

SeesCtx(o) ==
  LeaveOnCtx(o) /\ UNCHANGED <<outs, combineVars, stopVars, errTaken, blocked>>

(* The consumers of a stream have all refused their data, at any time after*)
(* its start, as its contract has it: in the code they do when they are    *)
(* given some, and the round of the stream that finds out is LeaveAlone.   *)
ConsumersLeave(o) ==
  AllRefuse(o) /\ UNCHANGED <<outs, combineVars, stopVars, errTaken, blocked>>

(* The context of Run ends, for all streams and calls at once.             *)
CancelCtx ==
  /\ \A o \in Streams : ~ctxEnded[o]
  /\ ctxEnded' = [o \in Streams |-> TRUE]
  /\ UNCHANGED <<runOnly, flagged, signalled, readOnly, outs, combineVars, stopVars,
                 errTaken, blocked>>

(* io.Pipe: a Write of the other side and the stream's Read meet.          *)
PipeGives(o) ==
  /\ ~writerEnd[o] /\ ~readerEnd[o] /\ fetched[o] < MaxWrites[o]
  /\ Fetch(o, 1, "nil")
  /\ UNCHANGED <<outs, combineVars, stopVars, errTaken, blocked>>

(* io.Pipe: a Read is EOF or io.ErrClosedPipe, and ends the stream.        *)
ReadEnd(o) ==
  /\ writerEnd[o] \/ readerEnd[o]
  /\ Fetch(o, 0, "end")
  /\ UNCHANGED <<outs, combineVars, stopVars, errTaken, blocked>>

CombineNext ==
  \/ \E u \in Users : CombineRun(u) \/ CombineStop(u)
  \/ \E u \in Waiters : CallsGetError(u) \/ WaitReadEnd(u)
  \/ \E o \in outs : StreamRuns(o) \/ SeesCtx(o) \/ ConsumersLeave(o) \/ PipeGives(o)
                       \/ ReadEnd(o)
  \/ CancelCtx

CombineSpec == CombineInit /\ [][CombineNext]_allVars

(* Calls are made if the user likes, and go on once made; a stream's       *)
(* goroutines step when they can; nobody need write into the pipes.  As    *)
(* none of these steps comes again for ever, it is enough that while one   *)
(* can be taken one is.                                                    *)
CombineFairness ==
  WF_allVars(
    \/ \E u \in Users : \/ CombineStopped(u) \/ (AllReturned(u) /\ StopCalled(u))
                        \/ StopGoesOn(u) \/ ErrorComes(u)
    \/ \E o \in outs : StreamRuns(o) \/ ReadEnd(o))

FairCombineSpec == CombineSpec /\ CombineFairness

-----------------------------------------------------------------------------
(* Every variable stays in its type.                                       *)
CombineTypeOK ==
  /\ outs \subseteq Streams
  /\ runner \in [Users -> {"idle", "wait", "done"}]
  /\ answer \in [Users -> [Streams -> {"none", "mine", "started", "stopped"}]]
  /\ results \in [Users -> SUBSET {"started", "stopped", "ctx"}]
  /\ combined \in BOOLEAN
  /\ stopPc \in [Users -> {"none", "writers", "sleep", "readers", "streams", "returned"}]
  /\ stopTodo \subseteq outs
  /\ writerEnd \in [Streams -> BOOLEAN] /\ readerEnd \in [Streams -> BOOLEAN]
  /\ errSent \in BOOLEAN /\ errTaken \in BOOLEAN
  /\ blocked \in [Users -> {"no", "end", "error"}]

CtxDone == \E o \in Streams : ctxEnded[o]

(* The cleaner's flag was set by a GetError that did not wait, and Close   *)
(* has not run: it will do nothing.                                        *)
Polled == errTaken /\ ~errSent

(* The cleaner's Close, which is not safe to call twice, runs once, however*)
(* many goroutines call Stop and end a Run: its send to errCh has room, and*)
(* errCh is closed once.                                                   *)
CleanerClosesOnce ==
  \A c \in Users : stopPc[c] \in {"writers", "sleep", "readers"} =>
    ~errSent /\ \A d \in Users \ {c} : stopPc[d] \in {"none", "returned"}

(* Once no call of Stop is under way, a CombineStream that was stopped has *)
(* stopped all its streams and closed both sides of their pipes, unless the*)
(* cleaner was asked for its error before (cleaner.go:50 and 97).          *)
StopClosesAll ==
  combined /\ (\A c \in Users : stopPc[c] \in {"none", "returned"}) =>
    \A o \in outs : flagged[o] /\ ((writerEnd[o] /\ readerEnd[o]) \/ Polled)

Answered(r) == \E o \in outs : answer[r][o] # "none"
TurnedAway == \E r \in Users, o \in outs : answer[r][o] \in {"started", "stopped"}
StopAsked == \E u \in Users : stopPc[u] # "none" /\ runner[u] # "wait" /\ ~Answered(u)

(* Run returns when all consumers have left all streams (base.go:82; their *)
(* inputs do not end by themselves); before, it does so only for a Stop,   *)
(* the context, or another Run, which the streams turn away and which then *)
(* stops them all.                                                         *)
RunWaits ==
  (\E r \in Users : runner[r] = "done") =>
    (\A o \in outs : alone[o]) \/ CtxDone \/ TurnedAway \/ StopAsked

(* When several calls of Run share the streams, the error of a stream is in*)
(* the Results of the one that ran it, and a call that was turned away says*)
(* so in its own.                                                          *)
ErrorsTold ==
  (\A r \in Users : runner[r] # "wait") =>
    /\ \A o \in outs : run[o] = "done" /\ result[o] # "nil" =>
         \E r \in Users : result[o] \in results[r]
    /\ \A r \in Users, o \in outs :
         answer[r][o] \in {"started", "stopped"} => answer[r][o] \in results[r]

(* While no call of Run is under way, the streams give nothing to their    *)
(* consumers and the read errors they end with stay: a Run that returned   *)
(* alone has left no stream at work behind it (stream_combine.go:67).      *)
NothingBetweenRuns ==
  [][(\A r \in Users : runner[r] # "wait") => UNCHANGED <<got, result>>]_allVars

(* "CmdCleaner ... added to OnBeforeStop functions for avoid forever block *)
(* on read after stop programm" (exec.go:135-136): after a Stop no reader  *)
(* is left in its Read.                                                    *)
StopEndsReads == combined ~> \A o \in outs : reader[o] \in {"none", "ended"}

(* All who wait are free: calls of Stop and Run have returned, the readers *)
(* are at their end, and GetError has its error, unless the cleaner was    *)
(* polled before it ran.                                                   *)
AllFree ==
  /\ \A u \in Users : stopPc[u] \in {"none", "returned"} /\ runner[u] # "wait"
  /\ \/ Polled
     \/ /\ \A o \in outs : reader[o] \in {"none", "ended"}
        /\ \A u \in Users : blocked[u] # "error"

(* A Stop frees those who wait in Run, Stop, GetError or a Read: combined  *)
(* stays set, and from then on they are free again and again.              *)
StopFreesAll == []<>(combined => AllFree)

(***************************************************************************)
(* The safety half of StopFreesAll: until all are free someone has a step  *)
(* that it needs no one else for, and each such step is one of a number    *)
(* that falls.                                                             *)
(***************************************************************************)

(* A goroutine of stream o can step; its Read meets the end of the pipe.   *)
StreamReady(o) ==
  \/ run[o] \in {"send", "leaving"}
  \/ run[o] = "loop" /\ (signalled[o] \/ reader[o] \in {"part", "ended"})
  \/ flagged[o] /\ ~signalled[o]
  \/ reader[o] = "poll" \/ (reader[o] = "part" /\ signalled[o])
  \/ reader[o] = "read" /\ (writerEnd[o] \/ readerEnd[o])

(* A call of Stop, Run or GetError can step.                               *)
UserReady(u) ==
  \/ stopPc[u] \in {"writers", "sleep", "readers"}
  \/ stopPc[u] = "streams" /\ \E o \in stopTodo : \A q \in stopTodo : o <= q
  \/ runner[u] = "wait" /\ \E o \in outs : answer[u][o] = "none"
  \/ AllReturned(u) /\ stopPc[u] \in {"none", "returned"}
  \/ blocked[u] = "error" /\ errSent

(* Nobody waits in a circle: not the readers for the pipes that Close ends,*)
(* nor Run for its streams, nor Stop for a stream, nor GetError for Close. *)
StopNeverStuck ==
  combined => AllFree \/ (\E u \in Users : UserReady(u)) \/ \E o \in outs : StreamReady(o)

(* The steps that are left to the reader of stream o at most: three for a  *)
(* write of the other side, and its end.                                   *)
ReaderSteps(o) ==
  3 * (MaxWrites[o] - fetched[o])
    + (CASE reader[o] = "part" -> IF lastErr[o] = "nil" THEN 5 ELSE 1
         [] reader[o] \in {"none", "poll"} -> 4
         [] reader[o] = "read" -> 3
         [] OTHER -> 0)

(* To stream o: Run may go one step back when it takes what was read.      *)
StreamSteps(o) ==
  2 * ReaderSteps(o)
    + (CASE run[o] = "idle" -> 4 [] run[o] = "send" -> 3 [] run[o] = "loop" -> 2
         [] run[o] = "leaving" -> 1 [] OTHER -> 0)
    + (IF flagged[o] THEN 0 ELSE 1) + (IF signalled[o] THEN 0 ELSE 1)
    + (IF alone[o] THEN 0 ELSE 1) + (IF ctxEnded[o] THEN 0 ELSE 1)

(* The steps that are left to the calls of Run and Stop of u at most, but  *)
(* for those that have to do with one stream.                              *)
CallSteps(u) ==
  (CASE runner[u] = "idle" -> 2 [] runner[u] = "wait" -> 1 [] OTHER -> 0)
    + (CASE stopPc[u] = "none" -> 5 [] stopPc[u] = "writers" -> 4 [] stopPc[u] = "sleep" -> 3
         [] stopPc[u] = "readers" -> 2 [] stopPc[u] = "streams" -> 1 [] OTHER -> 0)

(* A step that is left is taken away, for good, and none added to another's*)
(* count: a call goes on, or a stream does, or a call has its answer from a*)
(* stream or has stopped one.                                              *)
Nearer ==
  \/ UNCHANGED <<contractVars, combineVars, stopVars>>
  \/ /\ \A o \in Streams : StreamSteps(o)' <= StreamSteps(o)
     /\ \A u \in Users : CallSteps(u)' <= CallSteps(u)
     /\ \A u \in Users, o \in Streams : answer[u][o] # "none" => answer'[u][o] # "none"
     /\ \/ \E u \in Users : CallSteps(u)' < CallSteps(u)
        \/ /\ stopTodo' \subseteq stopTodo
           /\ \/ \E o \in Streams : StreamSteps(o)' < StreamSteps(o)
              \/ \E u \in Users, o \in outs : answer[u][o] = "none" /\ answer'[u][o] # "none"
              \/ stopTodo' # stopTodo

(* Each step of Run, Stop and the streams is one of them; calls of         *)
(* WaitReadEnd and GetError take none away and add none.                   *)
StopComesNearer == [][Nearer]_allVars

=============================================================================
