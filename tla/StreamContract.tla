---------------------------- MODULE StreamContract ----------------------------
(***************************************************************************)
(* What a tee.Stream promises to the code that runs it (the Stream         *)
(* interface, pkg/tee/base.go, as TeeStream implements it): Run, Stop, the *)
(* internal reader and the context, without the consumers and their pipes. *)
(* TeeStream implements it, with one stream; CmdStream is built on it.     *)
(***************************************************************************)
EXTENDS Integers

CONSTANTS
  Streams,      \* the streams
  MaxChunk      \* the longest read, in bytes

ASSUME ContractAssumption == MaxChunk \in Nat

VARIABLES
  run,      \* run[s]: Run is "idle", in its "loop", handing a part
            \* on ("send"), "leaving" or "done"
  result,   \* result[s]: the cause of the read error Run returns
  alone,    \* alone[s]: all consumers have refused data
  flagged,  \* flagged[s]: the stopped flag is set
  signalled,\* signalled[s]: the stop signal is out (innerStopCh closed)
  ctxEnded, \* ctxEnded[s]: the context of Run is done
  reader,   \* reader[s]: where the reader goroutine is
  lastErr,  \* lastErr[s]: the error of the reader's last Read
  fetched,  \* fetched[s]: bytes read from the input
  got       \* got[s]: bytes Run has received for the consumers

contractVars == <<run, result, alone, flagged, signalled, ctxEnded, reader, lastErr,
                  fetched, got>>
runOnly == <<run, result, alone>>
stopOnly == <<flagged, signalled, ctxEnded>>
readOnly == <<reader, lastErr, fetched, got>>

ContractInit ==
  /\ run = [s \in Streams |-> "idle"] /\ result = [s \in Streams |-> "nil"]
  /\ alone = [s \in Streams |-> FALSE]
  /\ flagged = [s \in Streams |-> FALSE] /\ signalled = [s \in Streams |-> FALSE]
  /\ ctxEnded = [s \in Streams |-> FALSE]
  /\ reader = [s \in Streams |-> "none"] /\ lastErr = [s \in Streams |-> "nil"]
  /\ fetched = [s \in Streams |-> 0] /\ got = [s \in Streams |-> 0]

-----------------------------------------------------------------------------
(* Run of a stream that was stopped before.                                *)
Refuse(s) ==
  /\ run[s] = "idle" /\ flagged[s]
  /\ run' = [run EXCEPT ![s] = "done"]
  /\ result' = [result EXCEPT ![s] = "stopped"]
  /\ UNCHANGED <<alone, stopOnly, readOnly>>

(* The flag may have been set since Run tested it.                         *)
Start(s) ==
  /\ run[s] = "idle"
  /\ run' = [run EXCEPT ![s] = "loop"]
  /\ reader' = [reader EXCEPT ![s] = "read"]
  /\ UNCHANGED <<result, alone, stopOnly, lastErr, fetched, got>>

Leave(s, cause) ==
  /\ run[s] = "loop"
  /\ run' = [run EXCEPT ![s] = "leaving"]
  /\ result' = [result EXCEPT ![s] = cause]
  /\ UNCHANGED <<alone, stopOnly>>

(* Run leaves its loop: the context, a stop, the end or an error of the    *)
(* reader.                                                                 *)
LeaveOnCtx(s) == ctxEnded[s] /\ Leave(s, "ctx") /\ UNCHANGED readOnly
LeaveOnStop(s) == signalled[s] /\ Leave(s, "nil") /\ UNCHANGED readOnly
LeaveOnEnd(s) == reader[s] = "ended" /\ Leave(s, "nil") /\ UNCHANGED readOnly
LeaveOnErr(s) ==
  /\ reader[s] = "err"
  /\ Leave(s, "read")
  /\ reader' = [reader EXCEPT ![s] = "ended"]
  /\ UNCHANGED <<lastErr, fetched, got>>

(* The round that hands a part to the consumers is over.                   *)
SendDone(s) ==
  /\ run[s] = "send"
  /\ run' = [run EXCEPT ![s] = "loop"]
  /\ UNCHANGED <<result, alone, stopOnly, readOnly>>

(* The last consumer refuses its data; a later round finds that out.       *)
AllRefuse(s) ==
  /\ run[s] # "idle" /\ ~alone[s]
  /\ alone' = [alone EXCEPT ![s] = TRUE]
  /\ UNCHANGED <<run, result, stopOnly, readOnly>>

LeaveAlone(s) ==
  /\ run[s] = "send" /\ alone[s]
  /\ run' = [run EXCEPT ![s] = "leaving"]
  /\ UNCHANGED <<result, alone, stopOnly, readOnly>>

(* Run calls Stop itself before it returns.                                *)
Finish(s) ==
  /\ run[s] = "leaving" /\ flagged[s]
  /\ run' = [run EXCEPT ![s] = "done"]
  /\ UNCHANGED <<result, alone, stopOnly, readOnly>>

SetFlag(s) ==
  /\ ~flagged[s]
  /\ flagged' = [flagged EXCEPT ![s] = TRUE]
  /\ UNCHANGED <<runOnly, signalled, ctxEnded, readOnly>>

Signal(s) ==
  /\ flagged[s] /\ ~signalled[s]
  /\ signalled' = [signalled EXCEPT ![s] = TRUE]
  /\ UNCHANGED <<runOnly, flagged, ctxEnded, readOnly>>

EndCtx(s) ==
  /\ ~ctxEnded[s]
  /\ ctxEnded' = [ctxEnded EXCEPT ![s] = TRUE]
  /\ UNCHANGED <<runOnly, flagged, signalled, readOnly>>

-----------------------------------------------------------------------------
(* A Read returns n bytes and err; too many empty ones are an error.       *)
Fetch(s, n, err) ==
  /\ reader[s] = "read"
  /\ fetched' = [fetched EXCEPT ![s] = @ + n]
  /\ lastErr' = [lastErr EXCEPT ![s] = err]
  /\ reader' = [reader EXCEPT ![s] = "part"]
  /\ UNCHANGED <<runOnly, stopOnly, got>>

FetchNothing(s, err) ==
  /\ reader[s] = "read"
  /\ lastErr' = [lastErr EXCEPT ![s] = err]
  /\ reader' = [reader EXCEPT ![s] = "err"]
  /\ UNCHANGED <<runOnly, stopOnly, fetched, got>>

(* Run receives all the reader has; an error comes after its bytes.        *)
Deliver(s) ==
  /\ run[s] = "loop" /\ reader[s] = "part"
  /\ run' = [run EXCEPT ![s] = "send"]
  /\ got' = [got EXCEPT ![s] = fetched[s]]
  /\ reader' = [reader EXCEPT ![s] = CASE lastErr[s] = "nil" -> "poll"
                                       [] lastErr[s] = "end" -> "ended"
                                       [] lastErr[s] = "fail" -> "err"]
  /\ UNCHANGED <<result, alone, stopOnly, lastErr, fetched>>

Poll(s) ==
  /\ reader[s] = "poll"
  /\ reader' = [reader EXCEPT ![s] = IF signalled[s] THEN "ended" ELSE "read"]
  /\ UNCHANGED <<runOnly, stopOnly, lastErr, fetched, got>>

Drop(s) ==
  /\ reader[s] = "part" /\ signalled[s]
  /\ reader' = [reader EXCEPT ![s] = "ended"]
  /\ UNCHANGED <<runOnly, stopOnly, lastErr, fetched, got>>

-----------------------------------------------------------------------------
StreamStep(s) ==
  \/ Refuse(s) \/ Start(s) \/ LeaveOnCtx(s) \/ LeaveOnStop(s) \/ LeaveOnEnd(s)
  \/ LeaveOnErr(s) \/ SendDone(s) \/ AllRefuse(s) \/ LeaveAlone(s)
  \/ Finish(s) \/ SetFlag(s) \/ Signal(s) \/ EndCtx(s) \/ Deliver(s) \/ Poll(s) \/ Drop(s)
  \/ \E err \in {"nil", "end", "fail"} :
       FetchNothing(s, err) \/ \E n \in 0..MaxChunk : Fetch(s, n, err)

ContractSpec == ContractInit /\ [][\E s \in Streams : StreamStep(s)]_contractVars

=============================================================================
