---------------------------- MODULE SplitConsumer ----------------------------
(***************************************************************************)
(* SplitConsumer (pkg/tee/consumer/split.go with base.go): a consumer that *)
(* hands the tokens of a scanner to a PartsHandler and, once, what the     *)
(* scanner has left in its buffer.  A line consumer is one whose handler   *)
(* looks at the bytes only.                                                *)
(*                                                                         *)
(* It is called as a pipe calls its consumer (module Pipe): Write with the *)
(* chunks of the input in order, until one answers with an error, then     *)
(* Close, never both at once.                                              *)
(***************************************************************************)
EXTENDS Scanner

VARIABLES
  parts,       \* history: the calls of PartsHandler.Handle
  handlerErr,  \* scannerHandler.err: "nil", "closed" (ErrClosed) or "failed"
  flushed,     \* SplitConsumer.flushed
  closed,      \* BaseConsumer.closed
  writeRes     \* what the last Write returned that was let in: "ok", "closed"
               \* (ErrClosed) or "err"

consumerVars == <<parts, handlerErr, flushed, closed, writeRes>>
vars == <<scanVars, consumerVars>>

Init ==
  /\ ScannerInit
  /\ parts = <<>> /\ handlerErr = "nil"
  /\ flushed = FALSE /\ closed = FALSE /\ writeRes = "ok"

Errors == {"nil", "closed", "failed"}

(* PartsHandler.Handle, which may fail.                                    *)
Handle(bytes, unhandled, last, scanErr, ok) ==
  parts' = Append(parts, [from |-> bytes.from, to |-> bytes.to, unhandled |-> unhandled,
                          last |-> last, scanErr |-> scanErr, ok |-> ok])

(* Variant: the tokens behind a failure are handed on, too.                *)
NewTokenGoesOn(bytes, isLast) ==
  /\ \E err \in Errors : /\ Handle(bytes, FALSE, isLast, FALSE, err = "nil")
                         /\ handlerErr' = IF handlerErr = "nil" THEN err ELSE handlerErr
  /\ UNCHANGED <<flushed, closed, writeRes>>

(* scannerHandler.NewToken: after a failure the tokens are dropped.        *)
NewToken(bytes, isLast) ==
  /\ IF handlerErr # "nil" THEN UNCHANGED <<parts, handlerErr>>
     ELSE \E err \in Errors : /\ Handle(bytes, FALSE, isLast, FALSE, err = "nil")
                              /\ handlerErr' = err
  /\ UNCHANGED <<flushed, closed, writeRes>>

(* flush: the bytes in the scanner's buffer go to the handler, once.       *)
Flush(last, scanErr) ==
  /\ flushed' = TRUE
  /\ IF flushed \/ Size(Unhandled) = 0 THEN UNCHANGED parts
     ELSE \E ok \in BOOLEAN : Handle(Unhandled, TRUE, last, scanErr, ok)

-----------------------------------------------------------------------------
(***************************************************************************)
(* Write.                                                                  *)
(***************************************************************************)
Write ==
  /\ ~closed /\ writeRes = "ok"
  /\ \E n \in 1..MaxInput : ScanCalled(n)
  /\ UNCHANGED consumerVars

(* Write on a closed consumer is ErrClosed, before anything else.          *)
WriteRefused == closed /\ UNCHANGED vars

FillsBuffer == (Fill \/ FillShifted \/ FillGrown) /\ UNCHANGED consumerVars
ScanFails ==
  /\ TooLong \/ \E i \in Window, n \in 0..(end - start) : SplitFails(i, n)
  /\ UNCHANGED consumerVars
ScanLoops == (NoToken \/ WindowDone) /\ UNCHANGED consumerVars
HandsLine == \E i \in Window : CutLine(i) /\ NewToken(Line(i), FALSE)
HandsLast ==
  \E i \in Window : \E n \in 0..i : CutLast(i, n) /\ NewToken(LastToken(n), TRUE)

Scans == FillsBuffer \/ ScanFails \/ ScanLoops \/ HandsLine \/ HandsLast

BackFromScan == spc = "return" /\ spc' = "idle"

(* The handler failed: its error is returned whatever else the scan met.   *)
(* ErrClosed from the handler says that it wants no more; Write does not   *)
(* close the consumer for it.                                              *)
WriteHandlerErr ==
  /\ BackFromScan /\ handlerErr # "nil"
  /\ writeRes' = IF handlerErr = "closed" THEN "closed" ELSE "err"
  /\ UNCHANGED <<input, bufVars, empties, scanRes, parts, handlerErr, flushed, closed>>

WriteOk ==
  /\ BackFromScan /\ handlerErr = "nil" /\ scanRes = "ok"
  /\ UNCHANGED <<input, bufVars, empties, scanRes, consumerVars>>

(* The last token or an error of the scan: flush and close.  The error is  *)
(* joined with ErrClosed, which is what the pipe will look for.            *)
WriteEnds ==
  /\ BackFromScan /\ handlerErr = "nil" /\ scanRes # "ok"
  /\ Flush(TRUE, scanRes = "last")
  /\ closed' = TRUE /\ writeRes' = "closed"
  /\ UNCHANGED <<input, bufVars, empties, scanRes, handlerErr>>

(* Variant: Close does not look at what the scanner has left.              *)
CloseNoFlush ==
  /\ spc = "idle"
  /\ closed' = TRUE
  /\ UNCHANGED <<scanVars, parts, flushed, handlerErr, writeRes>>

(* Close, as often as one likes.                                           *)
Close ==
  /\ spc = "idle"
  /\ closed' = TRUE
  /\ IF closed THEN UNCHANGED <<parts, flushed>> ELSE Flush(FALSE, FALSE)
  /\ UNCHANGED <<scanVars, handlerErr, writeRes>>

Next == Write \/ WriteRefused \/ Scans \/ WriteHandlerErr \/ WriteOk \/ WriteEnds \/ Close

Spec == Init /\ [][Next]_vars

(* Scan runs on: nothing in it waits.                                      *)
FairSpec == Spec /\ WF_vars(Scans \/ WriteHandlerErr \/ WriteOk \/ WriteEnds)

-----------------------------------------------------------------------------
(***************************************************************************)
(* What a pipe sees of this consumer: ConsumerContract, with one consumer. *)
(* A byte is taken when it is copied into the buffer.                      *)
(***************************************************************************)
One == {0}

Served == INSTANCE ConsumerContract WITH
  Consumers <- One, MaxBytes <- MaxInput,
  next <- [c \in One |-> toWrite.from],
  offered <- [c \in One |-> toWrite.to],
  busy <- [c \in One |-> spc # "idle"],
  answer <- [c \in One |-> IF writeRes = "err" THEN "failed" ELSE writeRes],
  shut <- [c \in One |-> closed]

(* It is a Consumer as a pipe wants it: a Write that is answered without an*)
(* error has taken all it was given, one that is refused is the last, and  *)
(* the consumer closes itself only when it answers ErrClosed.              *)
IsConsumer == Served!ConsumerSpec

-----------------------------------------------------------------------------
Part == [from: 1..(MaxInput + 1), to: 0..MaxInput, unhandled: BOOLEAN, last: BOOLEAN,
         scanErr: BOOLEAN, ok: BOOLEAN]

(* Types, with the indices of the buffer in it and the buffer in its limit.*)
SplitTypeOK ==
  /\ input \in [1..MaxInput -> Kinds]
  /\ buf \in Seq(Slots) /\ Len(buf) <= MaxTokenSize
  /\ start \in 0..end /\ end \in 0..Len(buf)
  /\ empties \in 0..(MaxEmpties + 1)
  /\ toWrite.from \in 1..(MaxInput + 1) /\ toWrite.to \in 0..MaxInput
  /\ spc \in {"idle", "fill", "split", "return"}
  /\ scanRes \in {"ok", "last", "bad", "tooLong", "noProgress"}
  /\ parts \in Seq(Part)
  /\ handlerErr \in Errors /\ flushed \in BOOLEAN /\ closed \in BOOLEAN
  /\ writeRes \in {"ok", "closed", "err"}

(* However the buffer was shifted, grown and filled, the window of the     *)
(* split function is the input in order, up to the byte that is copied     *)
(* next.                                                                   *)
BufferInOrder ==
  \A i \in Window : InWindow(i) = toWrite.from - 1 - (end - start) + i

(* The tokens are the lines of the input, and depend on nothing else: each *)
(* begins at the start of a line, ends where the line ends, the last one   *)
(* before or with its last byte, whatever the chunks and the buffer were.  *)
TokensAreLines ==
  \A k \in 1..Len(parts) : ~parts[k].unhandled =>
    /\ parts[k].from = 1 \/ input[parts[k].from - 1] = "newline"
    /\ \A b \in parts[k].from..(parts[k].to - 1) : input[b] = "char"
    /\ parts[k].to >= parts[k].from =>
         input[parts[k].to] \in IF parts[k].last THEN {"char", "last"} ELSE {"char"}
    /\ ~parts[k].last => input[parts[k].to + 1] = "newline"

(* No byte is handed over twice, not by the flush that follows the last    *)
(* token or an error either.                                               *)
NoByteTwice ==
  \A k, l \in 1..Len(parts) : k < l => parts[k].to < parts[l].from

(* When a Write has been taken, each complete line of what was written has *)
(* been handed over: none waits in the buffer for a chunk that may not     *)
(* come.                                                                   *)
LinesComplete ==
  spc = "idle" /\ scanRes = "ok" /\ handlerErr = "nil" =>
    \A b \in 1..toWrite.to : input[b] = "newline" =>
      \E k \in 1..Len(parts) : parts[k].to + 1 = b

(* The lines that end within the first n bytes of the input.               *)
Lines(n) ==
  {line \in [from: 1..(MaxInput + 1), to: 0..MaxInput] :
    /\ line.from <= line.to + 1 /\ line.to < n
    /\ line.from = 1 \/ input[line.from - 1] = "newline"
    /\ \A b \in line.from..line.to : input[b] # "newline"
    /\ input[line.to + 1] = "newline"}

Tokens == {[from |-> parts[k].from, to |-> parts[k].to] :
             k \in {j \in 1..Len(parts) : ~parts[j].unhandled}}

(* When a Write has been taken, and as long as the handler fails on none,  *)
(* the tokens it was given are exactly the lines of what was written: the  *)
(* empty ones too, none cut in two, none joined with the next, none waiting*)
(* in the buffer for a chunk that may not come.                            *)
LinesExact ==
  spc = "idle" /\ scanRes = "ok" /\ handlerErr = "nil" => Tokens = Lines(toWrite.to)

(* After Close, unless the handler or the scan failed or the last token    *)
(* ended the scan, every byte but the newlines has been handed over.       *)
NothingLost ==
  closed /\ scanRes = "ok" /\ handlerErr = "nil" =>
    \A b \in 1..toWrite.to : input[b] = "newline" \/
      \E k \in 1..Len(parts) : b \in parts[k].from..parts[k].to

(* A scan gives up only on a line that is too long: with ErrTooLong when it*)
(* fills a buffer of maxTokenSize, with ErrNoProgress when it has more     *)
(* bytes than scans without a token are allowed.                           *)
GivesUpOnlyIfLong ==
  scanRes \in {"tooLong", "noProgress"} =>
    /\ end - start >= IF scanRes = "tooLong" THEN MaxTokenSize ELSE MaxEmpties + 1
    /\ \A i \in Window : input[InWindow(i)] = "char"

(* When the handler has failed it is given no further token, only the rest *)
(* that Close flushes, and the failure is what Write returns: ErrClosed,   *)
(* by which the handler ends its consumer without an error, is not lost.   *)
FailureStopsTokens ==
  /\ \A k, l \in 1..Len(parts) : k < l /\ ~parts[k].ok => parts[l].unhandled
  /\ spc = "idle" => /\ handlerErr = "failed" <=> writeRes = "err"
                     /\ handlerErr = "closed" => writeRes = "closed"

(* A Write returns.                                                        *)
WriteReturns == (spc # "idle") ~> (spc = "idle")

(***************************************************************************)
(* The safety half of WriteReturns: Scan has always something to do, and   *)
(* its two loops and the refilling of the buffer come to an end.           *)
(***************************************************************************)

(* prepareBuffer has a way to go on, or to give up, and the split function *)
(* finds the end of a token, or chars only.                                *)
ScanNeverStuck ==
  /\ spc = "fill" => ShouldShift \/ end < Len(buf) \/ Full
  /\ spc = "split" =>
       \/ start = end
       \/ \A i \in Window : input[InWindow(i)] = "char"
       \/ \E i \in Window, kind \in Kinds \ {"char"} : Finds(i, kind)

(* The steps that are left at most in this call: a byte of the chunk is    *)
(* copied, cut and its window looked at once more.                         *)
ScanSteps ==
  3 * Size(toWrite) + (end - start)
    + (CASE spc = "split" -> 2 [] spc = "fill" -> 1 [] OTHER -> 0)

(* Each step of Scan comes nearer to its return, whatever the bytes and the*)
(* sizes: a shift or a growth finds room, a token is cut off, a scan       *)
(* without one needs bytes of the chunk for another (scanner.go:97-148).   *)
ScanComesNearer ==
  [][spc # "idle" /\ spc' # "idle" => ScanSteps' < ScanSteps]_vars

(* "scanErr - if scan returns error" (split.go:22): of the bytes that Write*)
(* flushes before it closes the consumer.                                  *)
ScanErrTold ==
  \A k \in 1..Len(parts) :
    parts[k].unhandled /\ parts[k].last => (parts[k].scanErr <=> scanRes # "last")

=============================================================================
