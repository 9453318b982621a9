----------------------------- MODULE SplitProofs -----------------------------
(***************************************************************************)
(* The scanner's buffer and the tokens of a SplitConsumer, for every input,*)
(* every way to cut it into chunks and every size of the buffer.           *)
(***************************************************************************)
EXTENDS SplitConsumer, TLAPS

(* The indices, and what of the chunk is still to be copied.               *)
IndexInv ==
  /\ input \in [1..MaxInput -> Kinds]
  /\ buf \in Seq(Slots) /\ Len(buf) <= MaxTokenSize
  /\ start \in Nat /\ end \in Nat /\ start <= end /\ end <= Len(buf)
  /\ toWrite \in [from: 1..(MaxInput + 1), to: 0..MaxInput]
  /\ toWrite.from <= toWrite.to + 1
  /\ end - start < toWrite.from
  /\ spc \in {"idle", "fill", "split", "return"}
  /\ spc = "fill" => toWrite.from <= toWrite.to

ScanInv == IndexInv /\ BufferInOrder

(* Where the results of Scan and Write stand; a closed consumer is at rest.*)
ResultInv ==
  /\ scanRes \in {"ok", "last", "bad", "tooLong", "noProgress"}
  /\ spc \in {"fill", "split"} \/ (spc = "idle" /\ writeRes = "ok") => scanRes = "ok"
  /\ spc # "idle" => writeRes = "ok"
  /\ closed => spc = "idle"
  /\ flushed => closed
  /\ handlerErr \in Errors

(* What is in the buffer is behind all that was handed over, and begins    *)
(* where a line begins.                                                    *)
FrontInv ==
  /\ ~closed => \A k \in 1..Len(parts) : parts[k].to < Unhandled.from
  /\ scanRes \notin {"last", "bad"} =>
       Unhandled.from = 1 \/ input[Unhandled.from - 1] = "newline"

PartsInv ==
  /\ parts \in Seq(Part)
  /\ TokensAreLines /\ NoByteTwice

SplitInv == ScanInv /\ ResultInv /\ FrontInv /\ PartsInv

-----------------------------------------------------------------------------
(* A function on 1..n is a sequence of that length.                        *)
LEMMA AsSequence ==
  ASSUME NEW S, NEW n \in Nat, NEW f \in [1..n -> S]
  PROVE  f \in Seq(S) /\ Len(f) = n
OBVIOUS

(* The bytes of b from s to e are the ones before the next to be copied.   *)
Ordered(b, s, e) == \A i \in 1..(e - s) : b[s + i] = toWrite.from - 1 - (e - s) + i

(* How much is copied, in a buffer in use up to e of length l.             *)
LEMMA CopySize ==
  ASSUME NEW l \in Nat, NEW e \in Nat, e <= l, NEW f \in Nat, NEW t \in Nat, f <= t
  PROVE  LET n == MinOf(l - e, t - f + 1) IN
           n \in Nat /\ e + n <= l /\ f + n <= t + 1
BY DEF MinOf

(* copyRemain keeps the order: into a buffer b in use up to e, of which the*)
(* bytes behind s are the window.                                          *)
LEMMA CopyKeepsOrder ==
  ASSUME IndexInv, spc = "fill",
         NEW b \in Seq(Slots), NEW e \in Nat, NEW s \in Nat,
         Len(b) <= MaxTokenSize, s <= e, e <= Len(b), e - s < toWrite.from,
         Ordered(b, s, e), CopyRemain(b, e), start' = s
  PROVE  ScanInv' /\ end' - start' >= e - s /\ Unhandled'.from = toWrite.from - (e - s)
<1> DEFINE f == toWrite.from
           t == toWrite.to
           n == MinOf(Len(b) - e, t - f + 1)
<1>0. /\ f \in Nat \ {0} /\ f <= MaxInput + 1 /\ t \in Nat /\ t <= MaxInput
      /\ MaxInput \in Nat /\ MaxTokenSize \in Nat /\ Len(b) \in Nat
      /\ f <= t
  BY ScannerAssumption DEF IndexInv
<1>1. n \in Nat /\ e + n <= Len(b) /\ f + n <= t + 1
  BY <1>0, CopySize
<1>2. /\ buf' = [i \in 1..Len(b) |-> IF i \in (e + 1)..(e + n)
                                     THEN f + (i - e) - 1 ELSE b[i]]
      /\ end' = e + n /\ toWrite' = [toWrite EXCEPT !.from = @ + n]
      /\ spc' = "split" /\ input' = input
  BY DEF CopyRemain, Size
<1>3. /\ toWrite' \in [from: 1..(MaxInput + 1), to: 0..MaxInput]
      /\ toWrite'.from = f + n /\ toWrite'.to = t
  <2>1. toWrite \in [from: 1..(MaxInput + 1), to: 0..MaxInput]
    BY DEF IndexInv
  <2>2. f + n \in 1..(MaxInput + 1)
    <3> HIDE DEF n, f, t
    <3> QED  BY <1>0, <1>1
  <2>3. toWrite' = [toWrite EXCEPT !.from = f + n]
    BY <1>2
  <2> HIDE DEF n
  <2> QED  BY <2>1, <2>2, <2>3
<1> HIDE DEF n, f, t
<1>e. end' = e + n /\ start' = s /\ toWrite'.from = f + n
  BY <1>2, <1>3
<1>4. ASSUME NEW i \in 1..Len(b)
      PROVE  /\ buf'[i] = IF i \in (e + 1)..(e + n) THEN f + (i - e) - 1 ELSE b[i]
             /\ buf'[i] \in Slots
  <2>1. buf'[i] = IF i \in (e + 1)..(e + n) THEN f + (i - e) - 1 ELSE b[i]
    BY <1>2
  <2>2. b[i] \in Slots
    OBVIOUS
  <2>3. i \in (e + 1)..(e + n) => f + (i - e) - 1 \in Slots
    BY <1>0, <1>1 DEF Slots
  <2>4. QED
    BY <2>1, <2>2, <2>3
<1>5. buf' \in Seq(Slots) /\ Len(buf') = Len(b)
  <2>1. buf' \in [1..Len(b) -> Slots]
    BY <1>2, <1>4
  <2>2. QED
    BY <1>0, <2>1, AsSequence
<1>6. IndexInv'
  <2>1. input' \in [1..MaxInput -> Kinds] /\ spc' = "split"
    BY <1>2 DEF IndexInv
  <2>2. buf' \in Seq(Slots) /\ Len(buf') <= MaxTokenSize
    BY <1>5
  <2>3. toWrite' \in [from: 1..(MaxInput + 1), to: 0..MaxInput]
    BY <1>3
  <2>4. /\ start' \in Nat /\ end' \in Nat /\ start' <= end'
        /\ end' - start' < f + n /\ end' <= Len(b)
    <3>1. f = toWrite.from
      BY DEF f
    <3>2. QED
      BY <1>0, <1>1, <1>e, <3>1
  <2>5. toWrite'.from = f + n /\ toWrite'.to = t /\ Len(buf') = Len(b)
    BY <1>3, <1>5
  <2>6. toWrite'.from <= toWrite'.to + 1
    BY <1>0, <1>1, <2>5
  <2>7. end' <= Len(buf') /\ end' - start' < toWrite'.from
    BY <1>0, <1>1, <1>e, <2>4, <2>5
  <2>8. spc' \in {"idle", "fill", "split", "return"} /\ spc' # "fill"
    BY <2>1
  <2> HIDE DEF f, t, n
  <2>9. QED
    BY ONLY <2>1, <2>2, <2>3, <2>4, <2>6, <2>7, <2>8 DEF IndexInv
<1>7. BufferInOrder'
  <2> SUFFICES ASSUME NEW i \in 1..(end' - start')
               PROVE  buf'[start' + i] = toWrite'.from - 1 - (end' - start') + i
    BY DEF BufferInOrder, Window, InWindow
  <2>0. i \in 1..(e + n - s)
    BY <1>1, <1>e
  <2> SUFFICES buf'[s + i] = f + n - 1 - (e + n - s) + i
    BY <1>0, <1>1, <1>e, <2>0
  <2>1. s + i \in 1..Len(b)
    BY <1>0, <1>1, <2>0
  <2>2. CASE i <= e - s
    <3>1. s + i \notin (e + 1)..(e + n) /\ i \in 1..(e - s)
      BY <1>0, <1>1, <2>0, <2>2
    <3>2. buf'[s + i] = b[s + i]
      BY <1>4, <2>1, <3>1
    <3>3. b[s + i] = f - 1 - (e - s) + i
      BY <3>1 DEF Ordered, f
    <3>4. QED
      BY <1>0, <1>1, <2>0, <3>2, <3>3
  <2>3. CASE i > e - s
    <3>1. s + i \in (e + 1)..(e + n)
      BY <1>0, <1>1, <2>0, <2>3
    <3>2. buf'[s + i] = f + (s + i - e) - 1
      BY <1>4, <2>1, <3>1
    <3>3. QED
      BY <1>0, <1>1, <2>0, <3>2
  <2>4. QED
    BY <2>0, <2>2, <2>3, <1>0, <1>1
<1>8. f = toWrite.from
  BY DEF f
<1>9. QED
  <2>1. end' - start' >= e - s
    BY <1>0, <1>1, <1>2
  <2>2. Unhandled'.from = f + n - (e + n - s)
    BY <1>0, <1>1, <1>3, <1>e DEF Unhandled
  <2>3. QED
    BY <1>0, <1>1, <1>6, <1>7, <1>8, <2>1, <2>2 DEF ScanInv

(* What prepareBuffer did before: nothing, a shift, a larger buffer.       *)
LEMMA FillKeepsOrder ==
  ASSUME ScanInv, Fill \/ FillShifted \/ FillGrown
  PROVE  /\ ScanInv' /\ end' - start' >= end - start
         /\ Unhandled'.from = Unhandled.from
<1>0. /\ start \in Nat /\ end \in Nat /\ start <= end /\ end <= Len(buf) /\ Len(buf) \in Nat
      /\ Len(buf) <= MaxTokenSize /\ MaxInput \in Nat /\ MaxTokenSize \in Nat \ {0}
      /\ buf \in Seq(Slots) /\ end - start < toWrite.from
  BY ScannerAssumption DEF IndexInv, ScanInv
<1>o. Ordered(buf, start, end)
  BY DEF Ordered, ScanInv, BufferInOrder, Window, InWindow
<1>i. IndexInv
  BY DEF ScanInv
<1>1. CASE Fill
  BY <1>0, <1>o, <1>i, <1>1, CopyKeepsOrder DEF Fill, Unhandled
<1>2. CASE FillShifted
  <2>1. Shifted \in Seq(Slots) /\ Len(Shifted) = Len(buf)
    <3>1. Shifted \in [1..Len(buf) -> Slots]
      <4>1. ASSUME NEW i \in 1..Len(buf), i <= end - start
            PROVE  buf[start + i] \in Slots
        <5>1. start + i \in 1..Len(buf)
          BY <1>0, <4>1
        <5>2. QED
          BY <1>0, <5>1
      <4>2. \A i \in 1..Len(buf) : buf[i] \in Slots
        BY <1>0
      <4>3. QED
        BY <4>1, <4>2 DEF Shifted
    <3>2. QED
      BY <1>0, <3>1, AsSequence
  <2>2. Ordered(Shifted, 0, end - start)
    BY <1>0, <1>o DEF Shifted, Ordered
  <2>3. QED
    BY <1>0, <1>i, <1>2, <2>1, <2>2, CopyKeepsOrder DEF FillShifted, Unhandled
<1>3. CASE FillGrown
  <2>1. NewSize \in Nat /\ NewSize <= MaxTokenSize /\ Len(buf) <= NewSize
    BY <1>0, <1>3, ScannerAssumption DEF FillGrown, NewSize, MinOf
  <2>2. Grown \in Seq(Slots) /\ Len(Grown) = NewSize
    <3>1. Grown \in [1..NewSize -> Slots]
      <4>1. 0 \in Slots
        BY <1>0 DEF Slots
      <4>2. ASSUME NEW i \in 1..NewSize, i <= end - start
            PROVE  buf[start + i] \in Slots
        <5>1. start + i \in 1..Len(buf)
          BY <1>0, <2>1, <4>2
        <5>2. QED
          BY <1>0, <5>1
      <4>3. QED
        BY <4>1, <4>2 DEF Grown
    <3>2. QED
      BY <2>1, <3>1, AsSequence
  <2>3. Ordered(Grown, 0, end - start)
    BY <1>0, <1>o, <2>1 DEF Grown, Ordered
  <2>4. QED
    BY <1>0, <1>i, <1>3, <2>1, <2>2, <2>3, CopyKeepsOrder DEF FillGrown, Full, Unhandled
<1>4. QED
  BY <1>1, <1>2, <1>3

-----------------------------------------------------------------------------
(* A step that leaves the buffer as it is.                                 *)
LEMMA SameBuffer ==
  ASSUME ScanInv, UNCHANGED <<input, bufVars>>,
         spc' \in {"idle", "fill", "split", "return"},
         spc' = "fill" => toWrite.from <= toWrite.to
  PROVE  ScanInv' /\ Unhandled' = Unhandled
<1>1. /\ input' = input /\ buf' = buf /\ start' = start /\ end' = end
      /\ toWrite' = toWrite
  BY DEF bufVars
<1>2. IndexInv'
  BY <1>1 DEF ScanInv, IndexInv
<1>3. BufferInOrder' /\ Unhandled' = Unhandled
  BY <1>1 DEF ScanInv, BufferInOrder, Window, InWindow, Unhandled
<1>4. QED
  BY <1>2, <1>3 DEF ScanInv

(* The indices as numbers.                                                 *)
LEMMA Numbers ==
  ASSUME IndexInv
  PROVE  /\ start \in Nat /\ end \in Nat /\ start <= end
         /\ toWrite.from \in Nat \ {0} /\ toWrite.from <= MaxInput + 1
         /\ toWrite.to \in Nat /\ toWrite.to <= MaxInput
         /\ end - start \in Nat /\ end - start < toWrite.from
         /\ MaxInput \in Nat /\ MaxTokenSize \in Nat /\ Len(buf) \in Nat
         /\ Unhandled.from = toWrite.from - (end - start)
         /\ Unhandled.from \in Nat \ {0} /\ Unhandled.from <= MaxInput + 1
<1>1. /\ start \in Nat /\ end \in Nat /\ start <= end
      /\ toWrite.from \in Nat \ {0} /\ toWrite.from <= MaxInput + 1
      /\ toWrite.to \in Nat /\ toWrite.to <= MaxInput
      /\ end - start < toWrite.from
      /\ MaxInput \in Nat /\ MaxTokenSize \in Nat /\ Len(buf) \in Nat
  BY ScannerAssumption DEF IndexInv
<1>2. Unhandled.from = toWrite.from - (end - start)
  BY DEF Unhandled
<1>3. QED
  BY <1>1, <1>2

(* Byte i of the window, as a position in the input.                       *)
LEMMA WindowIsInput ==
  ASSUME ScanInv, NEW i \in Window
  PROVE  /\ i \in Nat \ {0} /\ i <= end - start
         /\ InWindow(i) = Unhandled.from + i - 1
         /\ Unhandled.from + i - 1 \in 1..MaxInput /\ Unhandled.from + i <= toWrite.from
<1> DEFINE f == toWrite.from
           u == Unhandled.from
           d == end - start
<1>0. IndexInv
  BY DEF ScanInv
<1>1. /\ f \in Nat \ {0} /\ d \in Nat /\ u = f - d /\ u \in Nat \ {0} /\ f <= MaxInput + 1
      /\ MaxInput \in Nat
  BY <1>0, Numbers
<1>2. i \in 1..d /\ InWindow(i) = f - 1 - d + i
  BY DEF ScanInv, BufferInOrder, Window
<1> HIDE DEF f, u, d
<1>3. i \in Nat \ {0} /\ i <= d /\ InWindow(i) = u + i - 1 /\ u + i - 1 \in 1..MaxInput /\ u + i <= f
  BY <1>1, <1>2
<1>4. QED
  BY <1>3 DEF f, u, d

(* Some bytes are cut off the window.                                      *)
LEMMA CutKeepsOrder ==
  ASSUME ScanInv, NEW i \in 0..(end - start), start' = start + i,
         UNCHANGED <<input, buf, end, toWrite>>, spc' \in {"split", "return"}
  PROVE  ScanInv' /\ Unhandled'.from = Unhandled.from + i
<1> DEFINE f == toWrite.from
           u == Unhandled.from
<1>0. IndexInv
  BY DEF ScanInv
<1>1. /\ f \in Nat \ {0} /\ start \in Nat /\ end \in Nat /\ u = f - (end - start)
      /\ i \in Nat /\ i <= end - start /\ end - start < f
  BY <1>0, Numbers
<1>2. /\ input' = input /\ buf' = buf /\ end' = end /\ toWrite' = toWrite
      /\ start' = start + i
  OBVIOUS
<1>3. IndexInv'
  <2>1. start + i \in Nat /\ start + i <= end /\ end - (start + i) < f
    BY <1>1
  <2>2. QED
    BY <1>0, <1>2, <2>1 DEF IndexInv
<1>4. Unhandled'.from = f - (end - (start + i))
  BY <1>2 DEF Unhandled
<1>5. BufferInOrder'
  <2> SUFFICES ASSUME NEW j \in 1..(end - (start + i))
               PROVE  buf[start + i + j] = f - 1 - (end - (start + i)) + j
    BY <1>2 DEF BufferInOrder, Window, InWindow
  <2>1. i + j \in Window /\ start + i + j = start + (i + j)
    BY <1>1 DEF Window
  <2>2. buf[start + (i + j)] = f - 1 - (end - start) + (i + j)
    BY <2>1 DEF ScanInv, BufferInOrder, InWindow
  <2> HIDE DEF f, u
  <2>3. QED
    BY <1>1, <2>1, <2>2
<1>6. f - (end - (start + i)) = u + i
  <2> HIDE DEF f, u
  <2> QED  BY <1>1
<1>7. QED
  BY <1>3, <1>4, <1>5, <1>6 DEF ScanInv

(* A place in the window is not behind it.                                 *)
LEMMA InIt ==
  ASSUME IndexInv, NEW i \in Window
  PROVE  i \in 0..(end - start) /\ \A n \in 0..i : n \in 0..(end - start)
<1>1. end - start \in Nat
  BY Numbers
<1>2. QED
  BY <1>1 DEF Window

(* LoopEnds goes on with "fill" only if the chunk has bytes left.          *)
LEMMA LoopEndsRight ==
  ASSUME IndexInv, LoopEnds, UNCHANGED toWrite
  PROVE  /\ spc' \in {"fill", "return"}
         /\ spc' = "fill" => toWrite.from <= toWrite.to
         /\ scanRes' \in {scanRes, "ok"}
<1>1. toWrite.from \in Nat /\ toWrite.to \in Nat
  BY Numbers
<1>2. QED
  BY <1>1 DEF LoopEnds, Size, Return

-----------------------------------------------------------------------------
(* Every step keeps the window in order.                                   *)
LEMMA ScanStep ==
  ASSUME ScanInv, [Next]_vars
  PROVE  ScanInv'
<1>0. IndexInv
  BY DEF ScanInv
<1>1. CASE Write
  <2>1. PICK n \in 1..MaxInput : ScanCalled(n)
    BY <1>1 DEF Write
  <2>2. /\ input' = input /\ buf' = buf /\ start' = start /\ end' = end /\ spc' = "fill"
        /\ n \in Nat \ {0} /\ n <= MaxInput - toWrite.to
        /\ toWrite' = [from |-> toWrite.from, to |-> toWrite.to + n]
    <3>1. MaxInput - toWrite.to \in Int /\ n \in Int
      BY <1>0, Numbers
    <3>2. QED
      BY <2>1, <3>1 DEF ScanCalled
  <2>3. /\ toWrite' \in [from: 1..(MaxInput + 1), to: 0..MaxInput]
        /\ toWrite'.from = toWrite.from /\ toWrite'.from <= toWrite'.to
    <3>1. toWrite.from \in 1..(MaxInput + 1) /\ toWrite.from <= toWrite.to + 1
      BY <1>0 DEF IndexInv
    <3>2. n \in Nat \ {0} /\ n <= MaxInput - toWrite.to
      BY <2>2
    <3>3. toWrite.to \in Nat /\ MaxInput \in Nat /\ toWrite.from \in Nat
      BY <1>0, Numbers
    <3>4. toWrite.to + n \in 0..MaxInput /\ toWrite.from <= toWrite.to + n
      BY ONLY <3>1, <3>2, <3>3
    <3>5. QED
      BY <2>2, <3>1, <3>4
  <2>4. IndexInv'
    <3>1. toWrite'.from <= toWrite'.to + 1
      BY <2>3
    <3>2. QED
      BY <1>0, <2>2, <2>3, <3>1 DEF IndexInv
  <2>5. BufferInOrder'
    BY <2>2, <2>3 DEF ScanInv, BufferInOrder, Window, InWindow
  <2>6. QED
    BY <2>4, <2>5 DEF ScanInv
<1>2. CASE FillsBuffer
  BY <1>2, FillKeepsOrder DEF FillsBuffer
<1>3. CASE ScanFails
  <2>1. CASE TooLong
    BY <2>1, SameBuffer DEF TooLong, Return
  <2>2. ASSUME NEW i \in Window, NEW n \in 0..(end - start), SplitFails(i, n) PROVE ScanInv'
    BY <2>2, CutKeepsOrder DEF SplitFails, Return
  <2>3. QED
    BY <1>3, <2>1, <2>2 DEF ScanFails
<1>4. CASE ScanLoops
  <2>1. UNCHANGED <<input, bufVars>>
    BY <1>4 DEF ScanLoops, NoToken, WindowDone
  <2>2. LoopEnds \/ spc' = "return"
    BY <1>4 DEF ScanLoops, NoToken, WindowDone, Return
  <2>3. QED
    BY <1>0, <2>1, <2>2, LoopEndsRight, SameBuffer DEF bufVars
<1>5. CASE HandsLine
  <2>1. PICK i \in Window : CutLine(i)
    BY <1>5 DEF HandsLine
  <2>2. spc' = "split"
    BY <2>1 DEF CutLine, Finds
  <2>3. QED
    BY <1>0, <2>1, <2>2, InIt, CutKeepsOrder DEF CutLine
<1>6. CASE HandsLast
  <2>1. PICK i \in Window : \E n \in 0..i : CutLast(i, n)
    BY <1>6 DEF HandsLast
  <2>2. PICK n \in 0..i : CutLast(i, n)
    BY <2>1
  <2>3. n \in 0..(end - start)
    BY <1>0, InIt
  <2>4. QED
    BY <2>2, <2>3, CutKeepsOrder DEF CutLast, Return
<1>7. CASE WriteHandlerErr \/ WriteOk \/ WriteEnds
  BY <1>7, SameBuffer DEF WriteHandlerErr, WriteOk, WriteEnds, BackFromScan
<1>8. CASE Close
  BY <1>0, <1>8, SameBuffer DEF Close, scanVars, bufVars, IndexInv
<1>9. CASE WriteRefused \/ UNCHANGED vars
  BY <1>0, <1>9, SameBuffer DEF WriteRefused, vars, scanVars, bufVars, IndexInv
<1>10. QED
  BY <1>1, <1>2, <1>3, <1>4, <1>5, <1>6, <1>7, <1>8, <1>9 DEF Next, Scans

(* Every step keeps the results apart.                                     *)
LEMMA ResultStep ==
  ASSUME ResultInv, IndexInv, [Next]_vars
  PROVE  ResultInv'
<1>1. CASE Write
  BY <1>1 DEF Write, ScanCalled, consumerVars, ResultInv
<1>2. CASE FillsBuffer
  BY <1>2 DEF FillsBuffer, Fill, FillShifted, FillGrown, Full, CopyRemain, consumerVars, ResultInv
<1>3. CASE ScanFails
  <2>1. /\ spc \in {"fill", "split"} /\ spc' = "return"
        /\ scanRes' \in {"tooLong", "bad"} /\ UNCHANGED consumerVars
    BY <1>3 DEF ScanFails, TooLong, SplitFails, Full, Finds, Return
  <2>2. QED
    BY <2>1 DEF consumerVars, ResultInv
<1>4. CASE ScanLoops
  <2>1. /\ spc = "split" /\ UNCHANGED consumerVars
        /\ \/ spc' = "fill" /\ scanRes' = scanRes
           \/ spc' = "return" /\ scanRes' \in {"ok", "noProgress"}
    BY <1>4 DEF ScanLoops, NoToken, WindowDone, Return, LoopEnds
  <2>2. QED
    BY <2>1 DEF consumerVars, ResultInv
<1>5. CASE HandsLine \/ HandsLast
  <2>1. /\ spc = "split" /\ UNCHANGED <<flushed, closed, writeRes>>
        /\ \/ spc' = "split" /\ scanRes' = scanRes
           \/ spc' = "return" /\ scanRes' = "last"
    BY <1>5 DEF HandsLine, HandsLast, CutLine, CutLast, NewToken, Finds, Return
  <2>2. handlerErr \in Errors => handlerErr' \in Errors
    BY <1>5 DEF HandsLine, HandsLast, NewToken
  <2>3. QED
    BY <2>1, <2>2 DEF ResultInv
<1>6. CASE WriteHandlerErr
  BY <1>6 DEF WriteHandlerErr, BackFromScan, ResultInv
<1>7. CASE WriteOk
  BY <1>7 DEF WriteOk, BackFromScan, consumerVars, ResultInv
<1>8. CASE WriteEnds
  BY <1>8 DEF WriteEnds, BackFromScan, Flush, ResultInv
<1>9. CASE Close
  BY <1>9 DEF Close, Flush, scanVars, ResultInv
<1>10. CASE WriteRefused \/ UNCHANGED vars
  BY <1>10 DEF WriteRefused, vars, scanVars, consumerVars, ResultInv
<1>11. QED
  BY <1>1, <1>2, <1>3, <1>4, <1>5, <1>6, <1>7, <1>8, <1>9, <1>10 DEF Next, Scans

-----------------------------------------------------------------------------
TokenIsLine(p) ==
  /\ p.from = 1 \/ input[p.from - 1] = "newline"
  /\ \A b \in p.from..(p.to - 1) : input[b] = "char"
  /\ p.to >= p.from => input[p.to] \in IF p.last THEN {"char", "last"} ELSE {"char"}
  /\ ~p.last => input[p.to + 1] = "newline"

(* One more part behind all the others.                                    *)
LEMMA PartAdded ==
  ASSUME PartsInv, IndexInv, \A k \in 1..Len(parts) : parts[k].to < Unhandled.from,
         NEW p \in Part, p.from = Unhandled.from, p.unhandled \/ TokenIsLine(p),
         parts' = Append(parts, p), input' = input
  PROVE  /\ PartsInv'
         /\ \A u \in Nat : Unhandled.from <= u /\ p.to < u =>
              \A k \in 1..Len(parts') : parts'[k].to < u
<1>0. parts \in Seq(Part) /\ Len(parts) \in Nat
  BY DEF PartsInv
<1>1. parts' \in Seq(Part) /\ Len(parts') = Len(parts) + 1
  BY <1>0
<1>2. ASSUME NEW k \in 1..Len(parts')
      PROVE  \/ k \in 1..Len(parts) /\ parts'[k] = parts[k]
             \/ k = Len(parts) + 1 /\ parts'[k] = p
  BY <1>0, <1>1
<1>3. TokensAreLines'
  <2> SUFFICES ASSUME NEW k \in 1..Len(parts'), ~parts'[k].unhandled
               PROVE  TokenIsLine(parts'[k])
    BY DEF TokensAreLines, TokenIsLine
  <2>1. CASE k \in 1..Len(parts) /\ parts'[k] = parts[k]
    BY <2>1 DEF PartsInv, TokensAreLines, TokenIsLine
  <2>2. CASE parts'[k] = p
    BY <2>2
  <2>3. QED
    BY <1>2, <2>1, <2>2
<1>4. NoByteTwice'
  <2> SUFFICES ASSUME NEW k \in 1..Len(parts'), NEW l \in 1..Len(parts'), k < l
               PROVE  parts'[k].to < parts'[l].from
    BY DEF NoByteTwice
  <2>1. k \in 1..Len(parts) /\ parts'[k] = parts[k]
    BY <1>0, <1>1, <1>2
  <2>2. CASE l \in 1..Len(parts) /\ parts'[l] = parts[l]
    BY <2>1, <2>2 DEF PartsInv, NoByteTwice
  <2>3. CASE parts'[l] = p
    BY <2>1, <2>3
  <2>4. QED
    BY <1>2, <2>2, <2>3
<1>5. ASSUME NEW u \in Nat, Unhandled.from <= u, p.to < u, NEW k \in 1..Len(parts')
      PROVE  parts'[k].to < u
  <2>1. CASE k \in 1..Len(parts) /\ parts'[k] = parts[k]
    <3>1. parts[k].to \in Nat /\ parts[k].to < Unhandled.from
      <4>1. MaxInput \in Nat /\ parts[k] \in Part
        BY <1>0, <2>1, ScannerAssumption
      <4>2. QED
        BY <2>1, <4>1 DEF Part
    <3>2. Unhandled.from \in Nat
      BY Numbers
    <3>3. QED
      BY <1>5, <2>1, <3>1, <3>2
  <2>2. CASE parts'[k] = p
    BY <1>5, <2>2
  <2>3. QED
    BY <1>2, <2>1, <2>2
<1>6. QED
  BY <1>1, <1>3, <1>4, <1>5 DEF PartsInv

(* A step that hands nothing over and cuts nothing.                        *)
LEMMA NothingHanded ==
  ASSUME FrontInv, PartsInv, parts' = parts, input' = input,
         Unhandled'.from = Unhandled.from, closed => closed',
         scanRes \in {"last", "bad"} => scanRes' = scanRes
  PROVE  FrontInv' /\ PartsInv'
BY DEF FrontInv, PartsInv, TokensAreLines, NoByteTwice

(* The chars before a byte of another kind are the token.                  *)
LEMMA Found ==
  ASSUME ScanInv, NEW i \in Window, NEW kind, Finds(i, kind)
  PROVE  /\ InWindow(1) = Unhandled.from
         /\ input[Unhandled.from + i - 1] = kind
         /\ \A b \in Nat : Unhandled.from <= b /\ b < Unhandled.from + i - 1 =>
              input[b] = "char"
<1>0. IndexInv
  BY DEF ScanInv
<1>1. Unhandled.from \in Nat \ {0} /\ end - start \in Nat
  BY <1>0, Numbers
<1>2. i \in Nat \ {0} /\ i <= end - start /\ InWindow(i) = Unhandled.from + i - 1
  BY WindowIsInput
<1>3. 1 \in Window
  BY <1>1, <1>2 DEF Window
<1>4. InWindow(1) = Unhandled.from + 1 - 1
  BY <1>3, WindowIsInput
<1>5. ASSUME NEW b \in Nat, Unhandled.from <= b, b < Unhandled.from + i - 1
      PROVE  input[b] = "char"
  <2> DEFINE j == b - Unhandled.from + 1
  <2>1. j \in 1..(i - 1) /\ j \in 1..(end - start) /\ Unhandled.from + j - 1 = b
    BY <1>1, <1>2, <1>5
  <2> HIDE DEF j
  <2>2. InWindow(j) = b
    BY <2>1, WindowIsInput DEF Window
  <2>3. QED
    BY <2>1, <2>2 DEF Finds
<1>6. QED
  BY <1>1, <1>2, <1>4, <1>5 DEF Finds

(* A token that is cut: handed over, or dropped after a failure.           *)
LEMMA TokenHanded ==
  ASSUME SplitInv, NEW i \in 0..(end - start), NEW bytes, NEW isLast \in BOOLEAN,
         bytes.from = Unhandled.from, bytes.to \in 0..MaxInput,
         bytes.to < Unhandled.from + i, ~closed,
         \A p \in Part : p.from = bytes.from /\ p.to = bytes.to /\ p.last = isLast => TokenIsLine(p),
         NewToken(bytes, isLast), input' = input, closed' = closed,
         Unhandled'.from = Unhandled.from + i,
         scanRes' \notin {"last", "bad"} => input[Unhandled'.from - 1] = "newline"
  PROVE  FrontInv' /\ PartsInv'
<1> DEFINE u == Unhandled.from
<1>0. IndexInv
  BY DEF SplitInv, ScanInv
<1>1. u \in Nat \ {0} /\ u \in 1..(MaxInput + 1) /\ i \in Nat
  <2>1. i \in Nat
    BY <1>0, Numbers
  <2>2. u \in Nat \ {0} /\ u <= MaxInput + 1 /\ MaxInput \in Nat
    BY <1>0, Numbers
  <2> HIDE DEF u
  <2>3. QED
    BY <2>1, <2>2
<1>2. \A k \in 1..Len(parts) : parts[k].to < u
  BY DEF SplitInv, FrontInv
<1>3. PartsInv' /\ \A k \in 1..Len(parts') : parts'[k].to < u + i
  <2>1. CASE parts' = parts
    <3>1. ASSUME NEW k \in 1..Len(parts)
          PROVE  parts[k].to < u + i
      <4>1. parts[k].to \in Nat /\ parts[k].to < u
        <5>1. MaxInput \in Nat /\ parts[k] \in Part
          BY ScannerAssumption DEF SplitInv, PartsInv
        <5>2. QED
          BY <1>2, <5>1 DEF Part
      <4> HIDE DEF u
      <4>2. QED
        BY <1>1, <4>1
    <3>2. PartsInv'
      BY <2>1 DEF SplitInv, PartsInv, TokensAreLines, NoByteTwice
    <3>3. QED
      BY <2>1, <3>1, <3>2
  <2>2. CASE \E ok \in BOOLEAN : Handle(bytes, FALSE, isLast, FALSE, ok)
    <3>1. PICK ok \in BOOLEAN : Handle(bytes, FALSE, isLast, FALSE, ok)
      BY <2>2
    <3> DEFINE p == [from |-> bytes.from, to |-> bytes.to, unhandled |-> FALSE,
                     last |-> isLast, scanErr |-> FALSE, ok |-> ok]
    <3>2. p \in Part /\ p.from = u /\ p.to = bytes.to /\ p.last = isLast
      BY <1>1 DEF Part
    <3>3. parts' = Append(parts, p)
      BY <3>1 DEF Handle
    <3>4. TokenIsLine(p)
      BY <3>2
    <3>5. u + i \in Nat /\ u <= u + i /\ p.to < u + i
      <4>1. p.to < u + i
        BY <3>2
      <4> HIDE DEF u, p
      <4>2. QED
        BY <1>1, <4>1
    <3> HIDE DEF p
    <3>6. QED
      BY <1>0, <1>2, <3>2, <3>3, <3>4, <3>5, PartAdded DEF SplitInv
  <2>3. QED
    BY <2>1, <2>2 DEF NewToken
<1>4. FrontInv'
  <2>1. Unhandled'.from = u + i
    OBVIOUS
  <2>2. QED
    BY <1>3, <2>1 DEF FrontInv
<1>5. QED
  BY <1>3, <1>4

(* What is left in the buffer, handed over by a consumer that closes.      *)
LEMMA Flushed ==
  ASSUME SplitInv, NEW last \in BOOLEAN, NEW scanErr \in BOOLEAN, Flush(last, scanErr),
         ~closed, closed', UNCHANGED <<input, bufVars, scanRes>>
  PROVE  FrontInv' /\ PartsInv'
<1>0. IndexInv /\ input' = input /\ Unhandled' = Unhandled
  BY DEF SplitInv, ScanInv, bufVars, Unhandled
<1>1. FrontInv'
  BY <1>0 DEF FrontInv, SplitInv
<1>2. PartsInv'
  <2>1. CASE parts' = parts
    BY <1>0, <2>1 DEF SplitInv, PartsInv, TokensAreLines, NoByteTwice
  <2>2. CASE \E ok \in BOOLEAN : Handle(Unhandled, TRUE, last, scanErr, ok)
    <3>1. PICK ok \in BOOLEAN : Handle(Unhandled, TRUE, last, scanErr, ok)
      BY <2>2
    <3> DEFINE p == [from |-> Unhandled.from, to |-> Unhandled.to, unhandled |-> TRUE,
                     last |-> last, scanErr |-> scanErr, ok |-> ok]
    <3>2. Unhandled.from \in 1..(MaxInput + 1) /\ Unhandled.to \in 0..MaxInput
      <4>1. Unhandled.to = toWrite.from - 1
        BY DEF Unhandled
      <4>2. /\ toWrite.from \in Nat \ {0} /\ toWrite.from <= MaxInput + 1 /\ MaxInput \in Nat
            /\ Unhandled.from \in Nat \ {0} /\ Unhandled.from <= MaxInput + 1
        BY <1>0, Numbers
      <4>3. QED
        BY ONLY <4>1, <4>2
    <3>3. p \in Part /\ p.from = Unhandled.from /\ p.unhandled
      BY <3>2 DEF Part
    <3>4. parts' = Append(parts, p)
      BY <3>1 DEF Handle
    <3>5. \A k \in 1..Len(parts) : parts[k].to < Unhandled.from
      BY DEF SplitInv, FrontInv
    <3> HIDE DEF p
    <3>6. QED
      BY <1>0, <3>3, <3>4, <3>5, PartAdded DEF SplitInv
  <2>3. QED
    BY <2>1, <2>2 DEF Flush
<1>3. QED
  BY <1>1, <1>2

(* Every step hands over lines, each behind the ones before.               *)
LEMMA PartsStep ==
  ASSUME SplitInv, ScanInv', [Next]_vars
  PROVE  FrontInv' /\ PartsInv'
<1>0. ScanInv /\ IndexInv /\ ResultInv /\ FrontInv /\ PartsInv
  BY DEF SplitInv, ScanInv
<1>1. CASE Write
  <2>1. PICK n \in 1..MaxInput : ScanCalled(n)
    BY <1>1 DEF Write
  <2>2. /\ input' = input /\ start' = start /\ end' = end /\ scanRes' = scanRes
        /\ toWrite'.from = toWrite.from /\ parts' = parts /\ closed' = closed
    BY <1>1, <2>1 DEF Write, ScanCalled, consumerVars
  <2>3. Unhandled'.from = Unhandled.from
    BY <2>2 DEF Unhandled
  <2>4. QED
    BY <1>0, <2>2, <2>3, NothingHanded
<1>2. CASE FillsBuffer
  <2>1. /\ input' = input /\ scanRes' = scanRes /\ parts' = parts /\ closed' = closed
    BY <1>2 DEF FillsBuffer, Fill, FillShifted, FillGrown, CopyRemain, consumerVars
  <2>2. Unhandled'.from = Unhandled.from
    BY <1>0, <1>2, FillKeepsOrder DEF FillsBuffer
  <2>3. QED
    BY <1>0, <2>1, <2>2, NothingHanded
<1>3. CASE ScanFails \/ ScanLoops
  <2>1. /\ input' = input /\ parts' = parts /\ closed' = closed /\ spc \in {"fill", "split"}
    BY <1>3 DEF ScanFails, TooLong, Full, SplitFails, Finds, ScanLoops, NoToken, WindowDone,
                bufVars, consumerVars
  <2>2. scanRes = "ok"
    BY <1>0, <2>1 DEF ResultInv
  <2>3. CASE TooLong \/ ScanLoops
    <3>1. start' = start /\ end' = end /\ toWrite' = toWrite
      BY <2>3 DEF TooLong, ScanLoops, NoToken, WindowDone, bufVars
    <3>2. Unhandled'.from = Unhandled.from
      BY <3>1 DEF Unhandled
    <3>3. QED
      BY <1>0, <2>1, <2>2, <3>2, NothingHanded
  <2>4. ASSUME NEW i \in Window, NEW n \in 0..(end - start), SplitFails(i, n)
        PROVE  FrontInv' /\ PartsInv'
    <3>1. Unhandled'.from = Unhandled.from + n /\ scanRes' = "bad"
      BY <1>0, <2>4, CutKeepsOrder DEF SplitFails, Return
    <3>2. ASSUME NEW k \in 1..Len(parts), ~closed PROVE parts[k].to < Unhandled'.from
      <4>1. parts[k] \in Part /\ parts[k].to < Unhandled.from
        BY <1>0, <3>2 DEF FrontInv, PartsInv
      <4>2. parts[k].to \in Nat /\ Unhandled.from \in Nat /\ n \in Nat
        BY <1>0, <4>1, Numbers DEF Part
      <4>3. QED
        BY <3>1, <4>1, <4>2
    <3>3. FrontInv'
      BY <2>1, <3>1, <3>2 DEF FrontInv
    <3>4. PartsInv'
      BY <1>0, <2>1 DEF PartsInv, TokensAreLines, NoByteTwice
    <3>5. QED
      BY <3>3, <3>4
  <2>5. QED
    BY <1>3, <2>3, <2>4 DEF ScanFails
<1>4. CASE HandsLine \/ HandsLast
  <2> DEFINE u == Unhandled.from
  <2>1. /\ spc = "split" /\ input' = input /\ closed' = closed
    BY <1>4 DEF HandsLine, HandsLast, CutLine, CutLast, Finds, NewToken
  <2>2. ~closed /\ scanRes = "ok" /\ u \in Nat \ {0}
    BY <1>0, <2>1, Numbers DEF ResultInv
  <2>3. u = 1 \/ input[u - 1] = "newline"
    BY <1>0, <2>2 DEF FrontInv
  <2>4. CASE HandsLine
    <3>1. PICK i \in Window : CutLine(i) /\ NewToken(Line(i), FALSE)
      BY <2>4 DEF HandsLine
    <3>2. Finds(i, "newline") /\ spc' = "split"
      BY <3>1 DEF CutLine, Finds
    <3>3. /\ i \in Nat \ {0} /\ u + i - 1 \in 1..MaxInput /\ MaxInput \in Nat
      BY <1>0, WindowIsInput, ScannerAssumption
    <3>4. /\ InWindow(1) = u /\ input[u + i - 1] = "newline"
          /\ \A b \in Nat : u <= b /\ b < u + i - 1 => input[b] = "char"
      BY <1>0, <3>2, Found
    <3>5. Unhandled'.from = u + i
      BY <1>0, <3>1, <3>2, InIt, CutKeepsOrder DEF CutLine
    <3>6. Line(i).from = u /\ Line(i).to = u + i - 2
      BY <3>4 DEF Line
    <3> HIDE DEF u
    <3>7. u + i - 2 \in 0..MaxInput /\ u + i - 2 < u + i
      BY <2>2, <3>3
    <3>8. ASSUME NEW p \in Part, p.from = u, p.to = u + i - 2, p.last = FALSE
          PROVE  TokenIsLine(p)
      <4>1. \A b \in p.from..(p.to - 1) : input[b] = "char"
        BY <2>2, <3>3, <3>4, <3>8
      <4>2. u + i - 2 + 1 = u + i - 1
        BY <2>2, <3>3
      <4>3. p.to >= p.from => input[p.to] = "char"
        <5>1. u + i - 2 \in Int /\ u + i - 2 < u + i - 1
          BY <2>2, <3>3
        <5>2. u + i - 2 >= u => u + i - 2 \in Nat /\ u <= u + i - 2
          BY <2>2, <3>3
        <5>3. QED
          BY <3>4, <3>8, <5>1, <5>2
      <4>4. input[p.to + 1] = "newline"
        BY <3>4, <3>8, <4>2
      <4>5. p.from = 1 \/ input[p.from - 1] = "newline"
        BY <2>3, <3>8
      <4>6. p.last = FALSE
        BY <3>8
      <4>7. QED
        BY <4>1, <4>3, <4>4, <4>5, <4>6 DEF TokenIsLine
    <3>9. u + i - 1 = Unhandled'.from - 1
      BY <2>2, <3>3, <3>5
    <3> USE DEF u
    <3>10. QED
      BY <1>0, <2>1, <2>2, <3>1, <3>4, <3>5, <3>6, <3>7, <3>8, <3>9, InIt, TokenHanded
  <2>5. CASE HandsLast
    <3>0. PICK i \in Window : \E n \in 0..i : CutLast(i, n) /\ NewToken(LastToken(n), TRUE)
      BY <2>5 DEF HandsLast
    <3>1. PICK n \in 0..i : CutLast(i, n) /\ NewToken(LastToken(n), TRUE)
      BY <3>0
    <3>2. Finds(i, "last") /\ spc' = "return" /\ scanRes' = "last"
      BY <3>1 DEF CutLast, Return
    <3>3. /\ i \in Nat \ {0} /\ u + i - 1 \in 1..MaxInput /\ MaxInput \in Nat
          /\ n \in Nat /\ n <= i /\ n \in 0..(end - start)
      BY <1>0, WindowIsInput, InIt, ScannerAssumption
    <3>4. /\ InWindow(1) = u /\ input[u + i - 1] = "last"
          /\ \A b \in Nat : u <= b /\ b < u + i - 1 => input[b] = "char"
      BY <1>0, <3>2, Found
    <3>5. Unhandled'.from = u + n
      BY <1>0, <3>1, <3>2, <3>3, CutKeepsOrder DEF CutLast
    <3>6. LastToken(n).from = u /\ LastToken(n).to = u + n - 1
      BY <3>4 DEF LastToken
    <3> HIDE DEF u
    <3>7. u + n - 1 \in 0..MaxInput /\ u + n - 1 < u + n
      BY <2>2, <3>3
    <3>8. ASSUME NEW p \in Part, p.from = u, p.to = u + n - 1, p.last = TRUE
          PROVE  TokenIsLine(p)
      <4>1. \A b \in p.from..p.to : b \in Nat /\ u <= b /\ b <= u + i - 1
        BY <2>2, <3>3, <3>8
      <4>2. \A b \in p.from..(p.to - 1) : b \in Nat /\ u <= b /\ b < u + i - 1
        BY <2>2, <3>3, <3>8
      <4>3. \A b \in p.from..p.to : b < u + i - 1 \/ b = u + i - 1
        BY <2>2, <3>3, <4>1
      <4>4. p.from = 1 \/ input[p.from - 1] = "newline"
        BY <2>3, <3>8
      <4>5. p.to >= p.from => p.to \in p.from..p.to
        BY <2>2, <3>3, <3>8
      <4>6. QED
        BY <3>4, <3>8, <4>1, <4>2, <4>3, <4>4, <4>5 DEF TokenIsLine
    <3> USE DEF u
    <3>9. QED
      BY <2>1, <2>2, <3>1, <3>2, <3>3, <3>5, <3>6, <3>7, <3>8, TokenHanded
  <2>6. QED
    BY <1>4, <2>4, <2>5
<1>5. CASE WriteHandlerErr \/ WriteOk
  <2>1. /\ input' = input /\ start' = start /\ end' = end /\ toWrite' = toWrite
        /\ parts' = parts /\ closed' = closed /\ scanRes' = scanRes
    BY <1>5 DEF WriteHandlerErr, WriteOk, bufVars, consumerVars
  <2>2. Unhandled'.from = Unhandled.from
    BY <2>1 DEF Unhandled
  <2>3. QED
    BY <1>0, <2>1, <2>2, NothingHanded
<1>6. CASE WriteEnds
  <2>1. ~closed
    BY <1>0, <1>6 DEF WriteEnds, BackFromScan, ResultInv
  <2>2. (scanRes = "last") \in BOOLEAN
    OBVIOUS
  <2>3. QED
    BY <1>6, <2>1, <2>2, Flushed DEF WriteEnds
<1>7. CASE Close
  <2>1. CASE closed
    <3>1. /\ input' = input /\ start' = start /\ end' = end /\ toWrite' = toWrite
          /\ parts' = parts /\ closed' /\ scanRes' = scanRes
      BY <1>7, <2>1 DEF Close, scanVars
    <3>2. Unhandled'.from = Unhandled.from
      BY <3>1 DEF Unhandled
    <3>3. QED
      BY <1>0, <3>1, <3>2, NothingHanded
  <2>2. CASE ~closed
    BY <1>7, <2>2, Flushed DEF Close, scanVars, bufVars
  <2>3. QED
    BY <2>1, <2>2
<1>8. CASE WriteRefused \/ UNCHANGED vars
  <2>1. /\ input' = input /\ start' = start /\ end' = end /\ toWrite' = toWrite
        /\ parts' = parts /\ closed' = closed /\ scanRes' = scanRes
    BY <1>8 DEF WriteRefused, vars, scanVars, consumerVars
  <2>2. Unhandled'.from = Unhandled.from
    BY <2>1 DEF Unhandled
  <2>3. QED
    BY <1>0, <2>1, <2>2, NothingHanded
<1>9. QED
  BY <1>1, <1>2, <1>3, <1>4, <1>5, <1>6, <1>7, <1>8 DEF Next, Scans

-----------------------------------------------------------------------------
(* It holds at the start.                                                  *)
LEMMA SplitInit == Init => SplitInv
<1> SUFFICES ASSUME Init
             PROVE  SplitInv
  OBVIOUS
<1>1. /\ input \in [1..MaxInput -> Kinds] /\ buf = <<>> /\ start = 0 /\ end = 0
      /\ toWrite = [from |-> 1, to |-> 0] /\ spc = "idle" /\ scanRes = "ok"
      /\ parts = <<>> /\ handlerErr = "nil" /\ flushed = FALSE /\ closed = FALSE
      /\ writeRes = "ok"
  BY DEF Init, ScannerInit
<1>2. toWrite \in [from: 1..(MaxInput + 1), to: 0..MaxInput]
  BY <1>1, ScannerAssumption
<1>3. IndexInv
  BY <1>1, <1>2, ScannerAssumption DEF IndexInv
<1>4. BufferInOrder /\ Unhandled.from = 1
  BY <1>1 DEF BufferInOrder, Window, Unhandled
<1>5. ResultInv
  BY <1>1 DEF ResultInv, Errors
<1>6. FrontInv /\ PartsInv
  BY <1>1, <1>4 DEF FrontInv, PartsInv, TokensAreLines, NoByteTwice
<1>7. QED
  BY <1>3, <1>4, <1>5, <1>6 DEF SplitInv, ScanInv

(* The inductive invariant: the window is the input in order, what was     *)
(* handed over is behind it, a closed consumer does nothing more.          *)
THEOREM SplitInvariant == Spec => []SplitInv
<1>1. Init => SplitInv
  BY SplitInit
<1>2. SplitInv /\ [Next]_vars => SplitInv'
  BY ScanStep, ResultStep, PartsStep DEF SplitInv, ScanInv
<1>3. QED
  BY <1>1, <1>2, PTL DEF Spec

(* However the buffer is shifted, grown and filled (prepareBuffer and      *)
(* copyRemain), the split function is given the input in order.            *)
THEOREM BufferRight == Spec => []BufferInOrder
<1>1. SplitInv => BufferInOrder
  BY DEF SplitInv, ScanInv
<1>2. QED
  BY <1>1, SplitInvariant, PTL

(* The handler's tokens are the lines of the input, whatever the chunks,   *)
(* the sizes of the buffer and of a token are.                             *)
THEOREM TokensRight == Spec => []TokensAreLines
<1>1. SplitInv => TokensAreLines
  BY DEF SplitInv, PartsInv
<1>2. QED
  BY <1>1, SplitInvariant, PTL

(* No byte is handed over twice: not by flush after the last token or an   *)
(* error of the scan, not by Close after Write has closed the consumer.    *)
THEOREM HandedOnce == Spec => []NoByteTwice
<1>1. SplitInv => NoByteTwice
  BY DEF SplitInv, PartsInv
<1>2. QED
  BY <1>1, SplitInvariant, PTL

=============================================================================
