------------------------------- MODULE Scanner -------------------------------
(***************************************************************************)
(* NonBlockScanner (pkg/scan/scanner.go): one call of Scan at a time cuts a*)
(* chunk, behind what earlier calls have left in the buffer, into tokens.  *)
(*                                                                         *)
(* A byte is its position in the input, so that a slot of the buffer that  *)
(* was shifted, grown or filled wrongly shows.  What the split function    *)
(* tells bytes apart by is their kind: bufio.ScanLines ends a token at a   *)
(* "newline"; at a "last" byte the function answers ErrFinalToken and a    *)
(* token of the bytes up to it, or less, at a "bad" byte an error.         *)
(***************************************************************************)
EXTENDS Integers, Sequences

CONSTANTS
  MaxInput,       \* bound: the length of the input
  StartBufSize,   \* startBufSize
  MaxTokenSize,   \* NonBlockScanner.maxTokenSize
  MaxEmpties      \* maxConsecutiveEmptyReads

ASSUME ScannerAssumption ==
  /\ MaxInput \in Nat /\ MaxEmpties \in Nat
  /\ StartBufSize \in Nat \ {0} /\ MaxTokenSize \in Nat \ {0}

Kinds == {"char", "newline", "last", "bad"}
Slots == 0..MaxInput

VARIABLES
  input,     \* input[b]: the kind of byte b (never changes)
  buf,       \* the buffer, of bytes; 0 in a slot that was never written
  start,     \* the bytes before start are in tokens that were cut
  end,       \* the bytes behind end are not in use
  empties,   \* scans without a token
  toWrite,   \* bytes of the chunk that are not in the buffer yet
  spc,       \* where the call of Scan is
  scanRes    \* what Scan returns: "ok", "last" for true, or its error

scanVars == <<input, buf, start, end, empties, toWrite, spc, scanRes>>
bufVars == <<buf, start, end, toWrite>>

ScannerInit ==
  /\ input \in [1..MaxInput -> Kinds]
  /\ buf = <<>> /\ start = 0 /\ end = 0 /\ empties = 0
  /\ toWrite = [from |-> 1, to |-> 0]
  /\ spc = "idle" /\ scanRes = "ok"

Size(bytes) == bytes.to - bytes.from + 1
MinOf(m, n) == IF m < n THEN m ELSE n

(* Byte i of what the split function is given, and Unhandled.              *)
InWindow(i) == buf[start + i]
Window == 1..(end - start)
Unhandled == [from |-> toWrite.from - (end - start), to |-> toWrite.from - 1]

-----------------------------------------------------------------------------
(***************************************************************************)
(* Scan is called with the next n bytes of the input.  Its loop goes on    *)
(* while the chunk has bytes left.                                         *)
(***************************************************************************)
ScanCalled(n) ==
  /\ spc = "idle"
  /\ n \in 1..(MaxInput - toWrite.to)
  /\ toWrite' = [from |-> toWrite.from, to |-> toWrite.to + n]
  /\ spc' = "fill"
  /\ UNCHANGED <<input, buf, start, end, empties, scanRes>>

Return(res) == spc' = "return" /\ scanRes' = res

(* copyRemain, into a buffer b that is in use up to e.                     *)
CopyRemain(b, e) ==
  LET n == MinOf(Len(b) - e, Size(toWrite)) IN
  /\ buf' = [i \in 1..Len(b) |-> IF i \in (e + 1)..(e + n)
                                 THEN toWrite.from + (i - e) - 1 ELSE b[i]]
  /\ end' = e + n
  /\ toWrite' = [toWrite EXCEPT !.from = @ + n]
  /\ spc' = "split"
  /\ UNCHANGED <<input, empties, scanRes>>

(* Variant: the bytes stay in place, only the indices move.                *)
ShiftedNot == buf

(* prepareBuffer.  The bytes in use go to the beginning of the buffer, if  *)
(* they have no room behind them or much before them.                      *)
Shifted == [i \in 1..Len(buf) |-> IF i <= end - start THEN buf[start + i] ELSE buf[i]]
ShouldShift == start > 0 /\ (end = Len(buf) \/ start > Len(buf) \div 2)

Fill ==
  /\ spc = "fill" /\ ~ShouldShift /\ end < Len(buf)
  /\ CopyRemain(buf, end) /\ UNCHANGED start

FillShifted ==
  /\ spc = "fill" /\ ShouldShift
  /\ CopyRemain(Shifted, end - start) /\ start' = 0

(* Variant: it doubles without a limit.                                    *)
NewSizeUnlimited == IF buf = <<>> THEN StartBufSize ELSE 2 * Len(buf)

(* A full buffer doubles, up to the maximal size of a token.               *)
NewSize == MinOf(IF buf = <<>> THEN StartBufSize ELSE 2 * Len(buf), MaxTokenSize)
Grown == [i \in 1..NewSize |-> IF i <= end - start THEN buf[start + i] ELSE 0]

(* Variant: full means that the end is at the end, shifted or not.         *)
FullUnshifted == spc = "fill" /\ end = Len(buf)
Full == spc = "fill" /\ ~ShouldShift /\ end = Len(buf)

FillGrown ==
  /\ Full /\ Len(buf) < MaxTokenSize
  /\ CopyRemain(Grown, end - start) /\ start' = 0

TooLong ==
  /\ Full /\ Len(buf) >= MaxTokenSize
  /\ Return("tooLong")
  /\ UNCHANGED <<input, bufVars, empties>>

-----------------------------------------------------------------------------
(***************************************************************************)
(* The inner loop: one call of the split function per step.                *)
(***************************************************************************)

(* The split function finds byte i, of that kind, and chars before it.     *)
Finds(i, kind) ==
  /\ spc = "split"
  /\ input[InWindow(i)] = kind
  /\ \A j \in 1..(i - 1) : input[InWindow(j)] = "char"

(* Variant: the outer loop does not end with the chunk.                    *)
LoopEndsNever == spc' = "fill" /\ UNCHANGED scanRes

(* Variant: the outer loop is gone, one filling of the buffer per call.    *)
LoopEndsAtOnce == Return("ok")

(* The inner loop is over: more of the chunk, or the end of the call.      *)
LoopEnds ==
  IF Size(toWrite) > 0 THEN spc' = "fill" /\ UNCHANGED scanRes ELSE Return("ok")

(* A token of i - 1 bytes, empty when the window begins with a newline.    *)
Line(i) == [from |-> InWindow(1), to |-> InWindow(1) + i - 2]

(* Variant: the newline stays in the buffer.                               *)
CutLineOnly(i) ==
  /\ Finds(i, "newline")
  /\ start' = start + i - 1 /\ empties' = 0
  /\ UNCHANGED <<input, buf, end, toWrite, spc, scanRes>>

(* Variant: one token per filling of the buffer.                           *)
CutLineOnce(i) ==
  /\ Finds(i, "newline")
  /\ start' = start + i /\ empties' = 0
  /\ LoopEnds
  /\ UNCHANGED <<input, buf, end, toWrite>>

CutLine(i) ==
  /\ Finds(i, "newline")
  /\ start' = start + i /\ empties' = 0
  /\ UNCHANGED <<input, buf, end, toWrite, spc, scanRes>>

(* The final token, which may be empty: n bytes of the window, and Scan    *)
(* moves behind these and not where the function says.                     *)
LastToken(n) == [from |-> InWindow(1), to |-> InWindow(1) + n - 1]

(* Variant: Scan does not move.                                            *)
CutLastInPlace(i, n) ==
  /\ Finds(i, "last") /\ n \in 0..i
  /\ Return("last")
  /\ UNCHANGED <<input, bufVars, empties>>

CutLast(i, n) ==
  /\ Finds(i, "last") /\ n \in 0..i
  /\ start' = start + n
  /\ Return("last")
  /\ UNCHANGED <<input, buf, end, toWrite, empties>>

(* The function may tell how far to go with its error, too; an advance that*)
(* is too far, or negative, moves nothing and is an error with it.         *)
SplitFails(i, n) ==
  /\ Finds(i, "bad") /\ n \in 0..(end - start)
  /\ start' = start + n
  /\ Return("bad")
  /\ UNCHANGED <<input, buf, end, toWrite, empties>>

(* No token in the window: back to the outer loop, or too many of these.   *)
NoToken ==
  /\ spc = "split" /\ start < end
  /\ \A j \in Window : input[InWindow(j)] = "char"
  /\ empties' = empties + 1
  /\ IF empties' > MaxEmpties THEN Return("noProgress")
     ELSE LoopEnds
  /\ UNCHANGED <<input, bufVars>>

(* The window is empty.                                                    *)
WindowDone ==
  /\ spc = "split" /\ start = end
  /\ LoopEnds
  /\ UNCHANGED <<input, bufVars, empties>>

=============================================================================
