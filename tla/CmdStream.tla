------------------------------ MODULE CmdStream ------------------------------
(***************************************************************************)
(* RunCmd (pkg/tee/cmd/exec.go): a program whose stdout and stderr go, each*)
(* through an io.Pipe, to a TeeStream of their own; the two streams under  *)
(* one CombineStream, and the cleaner that closes the pipes when it is     *)
(* stopped.  RunCmd is one goroutine that uses the CombineStream, the one  *)
(* that it starts for Run is the other.                                    *)
(*                                                                         *)
(* The rest is os/exec and io, modelled from how RunCmd uses them: per     *)
(* output an OS pipe the program writes to, a goroutine that copies from it*)
(* to the io.Pipe, and Cmd.Wait, which waits for the program and the       *)
(* copies.  An io.Pipe has no buffer: a write ends when it was read or a   *)
(* side closed.                                                            *)
(***************************************************************************)
EXTENDS CombineStream

CONSTANTS
  OsCapacity    \* writes the OS pipe of an output holds

ASSUME CmdAssumption ==
  Users = {"main", "runner"} /\ Waiters = Users /\ OsCapacity \in Nat \ {0}

VARIABLES
  pc,         \* where RunCmd is
  leavers,    \* the outputs whose consumers may all refuse data
  waitErr,    \* cmd.Wait returned the error of a copy
  cutShort,   \* history: the cleaner's close wait was over before the
              \* readers had come to the end of what was written
  proc,       \* the program: none, runs or exited
  dest,       \* the output the program is writing to, or 0
  osPipe,     \* osPipe[o]: writes in the OS pipe
  written,    \* written[o]: history, the program's writes
  copy        \* copy[o]: where the copy goroutine is

mainVars == <<leavers, pc, waitErr, cutShort>>
progVars == <<proc, dest, osPipe, written, copy>>
cmdVars == <<mainVars, progVars>>
vars == <<allVars, cmdVars>>

Init ==
  /\ CombineInit
  /\ leavers \in SUBSET {o \in outs : MaxWrites[o] > 0}
  /\ pc = "start" /\ waitErr = FALSE /\ cutShort = FALSE
  /\ proc = "none" /\ dest = 0 /\ osPipe = [o \in Streams |-> 0]
  /\ written = [o \in Streams |-> 0] /\ copy = [o \in Streams |-> "none"]

(* What a step of the cleaner's caller tells about the close wait.         *)
SleepOver ==
  cutShort' = \/ cutShort
              \/ /\ \E c \in Users : stopPc[c] = "sleep" /\ stopPc'[c] # "sleep"
                 /\ \E o \in outs : reader[o] \notin {"none", "ended"}

-----------------------------------------------------------------------------
(* Variant: resCh has no room, its sender waits for RunCmd.                *)
CombineUnbuffered ==
  /\ CombineRun("runner") \/ (AllReturned("runner") /\ StopCalled("runner"))
       \/ StopGoesOn("runner")
  /\ runner'["runner"] = "done" => pc = "stop" /\ stopPc["main"] = "returned"
  /\ SleepOver /\ UNCHANGED <<leavers, pc, waitErr, progVars>>

(***************************************************************************)
(* The goroutine of CombineStream.Run.  It puts the results in resCh, which*)
(* has room for them: it ends without RunCmd.                              *)
(***************************************************************************)
Combine ==
  /\ CombineRun("runner") \/ (AllReturned("runner") /\ StopCalled("runner"))
       \/ StopGoesOn("runner")
  /\ SleepOver /\ UNCHANGED <<leavers, pc, waitErr, progVars>>

-----------------------------------------------------------------------------
(***************************************************************************)
(* RunCmd.                                                                 *)
(***************************************************************************)
CmdStarts ==
  /\ pc = "start"
  /\ pc' = "wait" /\ proc' = "runs"
  /\ copy' = [o \in Streams |-> IF o \in outs THEN "read" ELSE "none"]
  /\ UNCHANGED <<allVars, leavers, waitErr, cutShort, dest, osPipe, written>>

CmdStartFails ==
  /\ pc = "start"
  /\ pc' = "stopAfterFail"
  /\ UNCHANGED <<allVars, leavers, waitErr, cutShort, progVars>>

(* Variant: the stream is stopped before the program has ended.            *)
CmdWaitedNot ==
  /\ pc = "wait"
  /\ waitErr' = FALSE
  /\ pc' = "stop"
  /\ UNCHANGED <<allVars, leavers, cutShort, progVars>>

CmdWaited ==
  /\ pc = "wait" /\ proc = "exited"
  /\ \A o \in outs : copy[o] \in {"ended", "failed"}
  /\ waitErr' = \E o \in outs : copy[o] = "failed"
  /\ pc' = "stop"
  /\ UNCHANGED <<allVars, leavers, cutShort, progVars>>

(* Stop has returned: the results come from resCh.                         *)
GetResults ==
  /\ pc = "stop" /\ stopPc["main"] = "returned" /\ runner["runner"] = "done"
  /\ pc' = "getError"
  /\ UNCHANGED <<allVars, leavers, waitErr, cutShort, progVars>>

(* Variant: Stop runs in a goroutine of its own and is not waited for.     *)
GetErrorInStop ==
  /\ pc \in {"getError", "stopAfterFail"}
  /\ TakeError /\ pc' = "done"
  /\ UNCHANGED <<contractVars, outs, combineVars, stopVars, blocked, leavers, waitErr,
                 cutShort, progVars>>

(* Variant: GetError does not wait.                                        *)
GetErrorNoWait ==
  /\ pc = "getError" \/ (pc = "stopAfterFail" /\ stopPc["main"] = "returned")
  /\ errTaken' = TRUE /\ pc' = "done"
  /\ UNCHANGED <<contractVars, outs, combineVars, stopVars, blocked, leavers, waitErr,
                 cutShort, progVars>>

(* cleaner.GetError waits for the error of Close.                          *)
GetError ==
  /\ pc = "getError" \/ (pc = "stopAfterFail" /\ stopPc["main"] = "returned")
  /\ TakeError /\ pc' = "done"
  /\ UNCHANGED <<contractVars, outs, combineVars, stopVars, blocked, leavers, waitErr,
                 cutShort, progVars>>

CmdStops ==
  /\ (pc \in {"stop", "stopAfterFail"} /\ StopCalled("main")) \/ StopGoesOn("main")
  /\ SleepOver /\ UNCHANGED <<leavers, pc, waitErr, progVars>>

RunCmd == CmdStarts \/ CmdStartFails \/ CmdWaited \/ CmdStops \/ GetResults \/ GetError

-----------------------------------------------------------------------------
(***************************************************************************)
(* The program and the copies of its outputs.                              *)
(***************************************************************************)
ProcBegins(o) ==
  /\ proc = "runs" /\ dest = 0 /\ written[o] < MaxWrites[o]
  /\ dest' = o
  /\ UNCHANGED <<allVars, mainVars, proc, osPipe, written, copy>>

ProcWrites(o) ==
  /\ dest = o /\ osPipe[o] < OsCapacity /\ copy[o] # "failed"
  /\ dest' = 0
  /\ osPipe' = [osPipe EXCEPT ![o] = @ + 1]
  /\ written' = [written EXCEPT ![o] = @ + 1]
  /\ UNCHANGED <<allVars, mainVars, proc, copy>>

(* A copy that ends closes its side of the OS pipe: SIGPIPE.               *)
ProcBroken(o) ==
  /\ dest = o /\ copy[o] = "failed"
  /\ proc' = "exited" /\ dest' = 0
  /\ UNCHANGED <<allVars, mainVars, osPipe, written, copy>>

ProcExits ==
  /\ proc = "runs" /\ dest = 0
  /\ proc' = "exited"
  /\ UNCHANGED <<allVars, mainVars, dest, osPipe, written, copy>>

CopyReads(o) ==
  /\ copy[o] = "read" /\ osPipe[o] > 0
  /\ osPipe' = [osPipe EXCEPT ![o] = @ - 1]
  /\ copy' = [copy EXCEPT ![o] = "write"]
  /\ UNCHANGED <<allVars, mainVars, proc, dest, written>>

CopyEnds(o) ==
  /\ copy[o] = "read" /\ osPipe[o] = 0 /\ proc = "exited"
  /\ copy' = [copy EXCEPT ![o] = "ended"]
  /\ UNCHANGED <<allVars, mainVars, proc, dest, osPipe, written>>

(* io.Pipe: the copy's Write and the stream's Read meet.                   *)
Transfer(o) ==
  /\ copy[o] = "write" /\ ~writerEnd[o] /\ ~readerEnd[o]
  /\ Fetch(o, 1, "nil")
  /\ copy' = [copy EXCEPT ![o] = "read"]
  /\ UNCHANGED <<outs, combineVars, stopVars, errTaken, blocked, mainVars, proc, dest, osPipe,
                 written>>

(* io.Pipe: a Write on a pipe with a closed side is io.ErrClosedPipe.      *)
CopyFails(o) ==
  /\ copy[o] = "write" /\ (writerEnd[o] \/ readerEnd[o])
  /\ copy' = [copy EXCEPT ![o] = "failed"]
  /\ UNCHANGED <<allVars, mainVars, proc, dest, osPipe, written>>

Program == ProcExits \/ \E o \in outs : ProcWrites(o) \/ ProcBroken(o)
Output(o) == CopyReads(o) \/ CopyEnds(o) \/ Transfer(o) \/ CopyFails(o)

(* What goes on in the streams and their pipes without RunCmd.             *)
StreamsRun(o) == StreamRuns(o) /\ UNCHANGED cmdVars
ReadsEnd(o) == ReadEnd(o) /\ UNCHANGED cmdVars
SeesCancel(o) == SeesCtx(o) /\ UNCHANGED cmdVars
Cancel == CancelCtx /\ UNCHANGED cmdVars
Refuses(o) == o \in leavers /\ ConsumersLeave(o) /\ UNCHANGED cmdVars

Terminated == pc = "done" /\ runner["runner"] = "done" /\ UNCHANGED vars

Next ==
  \/ RunCmd
  \/ Combine
  \/ Program
  \/ \E o \in outs : ProcBegins(o) \/ Output(o) \/ StreamsRun(o) \/ ReadsEnd(o)
                       \/ SeesCancel(o) \/ Refuses(o)
  \/ Cancel
  \/ Terminated

Spec == Init /\ [][Next]_vars

(* While a goroutine can step, or the program, one of them does: it ends   *)
(* unless it is blocked in a write, and a select whose context case is     *)
(* ready takes it in the end.  None of these goes round for ever, so this  *)
(* is no more than that each of them gets its turn.                        *)
Fairness ==
  WF_vars(\/ RunCmd \/ Combine \/ Program
          \/ \E o \in outs : Output(o) \/ StreamsRun(o) \/ ReadsEnd(o) \/ SeesCancel(o))

FairSpec == Spec /\ Fairness

-----------------------------------------------------------------------------
MainTypeOK ==
  /\ pc \in {"start", "wait", "stop", "stopAfterFail", "getError", "done"}
  /\ leavers \subseteq outs /\ waitErr \in BOOLEAN /\ cutShort \in BOOLEAN

ProgTypeOK ==
  /\ proc \in {"none", "runs", "exited"} /\ dest \in {0} \union outs
  /\ osPipe \in [Streams -> 0..OsCapacity]
  /\ written \in [Streams -> Nat] /\ \A o \in Streams : written[o] <= MaxWrites[o]
  /\ copy \in [Streams -> {"none", "read", "write", "ended", "failed"}]

(* Every variable stays in its type, and the OS pipes in their capacity.   *)
CmdTypeOK == CombineTypeOK /\ MainTypeOK /\ ProgTypeOK

SomeLeft == \E o \in outs : alone[o]

(* When RunCmd returns for a program that ran, each output that still has  *)
(* consumers was given to them whole, if the context held and the close    *)
(* wait was long enough for them (exec.go:109-115).                        *)
OutputComplete ==
  pc = "done" /\ proc = "exited" /\ ~cutShort /\ ~CtxDone =>
    \A o \in outs : alone[o] \/ got[o] = written[o]

(* The pipes are not closed under a program that still writes, unless the  *)
(* context ended or consumers left: then only does a copy fail, and        *)
(* RunCmd return ErrRunCmd for it.                                         *)
CutOnlyForCause == (\E o \in outs : copy[o] = "failed") => CtxDone \/ SomeLeft

(* When RunCmd returns both sides of every pipe are closed, whoever of     *)
(* RunCmd and CombineStream.Run did it, and also when Start failed.        *)
AllClosedOnReturn ==
  pc = "done" => \A o \in outs : writerEnd[o] /\ readerEnd[o]

(* When RunCmd has returned, no consumer gets a byte any more: what it     *)
(* collected may be read, also when Start failed and the goroutine of Run  *)
(* is still on its way (exec.go:285 and 305).                              *)
NothingAfterReturn == [][pc = "done" => UNCHANGED got]_vars

(* RunCmd returns: with one output, with consumers that stay, or when the  *)
(* context ends (each of them stays so).                                   *)
RunCmdReturns ==
  []<>(Cardinality(outs) = 1 \/ leavers = {} \/ CtxDone => pc = "done")

(* RunCmd leaves no goroutine behind, also when Start failed: the          *)
(* CombineStream's, the readers and the copies end some time after it has  *)
(* returned.                                                               *)
NothingLeft ==
  []<>(pc = "done" =>
         /\ runner["runner"] = "done"
         /\ \A o \in outs : /\ reader[o] \in {"none", "ended"}
                            /\ copy[o] \in {"none", "ended", "failed"})

(* "After programm was exit, Stream run CmdCleaner for close internal pipes*)
(* for stop Stream (avoid forever block on read)" (exec.go:112-113).       *)
ExitRunsCleaner == (proc = "exited") ~> errSent

(* A run that nobody stops, with consumers that take all, has no read error*)
(* in its results ("if not receive read error and all consumers not have   *)
(* errors returns nil Results", stream_combine.go:41).                     *)
NoStoppedResult ==
  pc = "done" /\ proc = "exited" /\ ~CtxDone /\ leavers = {} => results["runner"] = {}

=============================================================================
