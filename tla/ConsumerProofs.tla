--------------------------- MODULE ConsumerProofs ---------------------------
(***************************************************************************)
(* What a SplitConsumer hands over, when it gives up and what a failure of *)
(* its handler stops, for every input, every way to cut it into chunks and *)
(* every size: SplitTypeOK, LinesComplete, NothingLost, GivesUpOnlyIfLong  *)
(* and FailureStopsTokens.                                                 *)
(***************************************************************************)
EXTENDS SplitProofs, WellFoundedInduction

(* What the last Write answered is the handler's error.                    *)
ErrTold ==
  /\ handlerErr = "failed" <=> writeRes = "err"
  /\ handlerErr = "closed" => writeRes = "closed"

(* The handler's failure: no token has failed before it and none follows.  *)
FailInv ==
  /\ \A k \in 1..Len(parts) : ~parts[k].unhandled /\ handlerErr = "nil" => parts[k].ok
  /\ ~closed => \A k \in 1..Len(parts) : ~parts[k].unhandled
  /\ \A k, l \in 1..Len(parts) : k < l /\ ~parts[k].ok => parts[l].unhandled
  /\ spc = "idle" => ErrTold
  /\ writeRes \in {"ok", "closed", "err"}
  /\ flushed \in BOOLEAN /\ closed \in BOOLEAN

(* At rest: the chunk is used up, or the scan has ended with its line in   *)
(* the window.                                                             *)
AtRest(results) == spc \in {"idle", "return"} /\ scanRes \in results

(* Each scan without a token since the last one has found a byte more.     *)
EmptyInv ==
  /\ empties \in Nat
  /\ IF scanRes = "noProgress" THEN empties = MaxEmpties + 1 ELSE empties <= MaxEmpties
  /\ spc = "split" => empties = 0 \/ empties < end - start
  /\ spc = "fill" \/ AtRest({"ok", "noProgress"}) => empties <= end - start
  /\ scanRes = "tooLong" => end - start >= MaxTokenSize

(* Between two fillings there is no end of a line in the window.           *)
CharsInv ==
  spc = "fill" \/ AtRest({"ok", "noProgress", "tooLong"}) =>
    \A b \in Unhandled.from..Unhandled.to : input[b] = "char"

Covered(b) == \E k \in 1..Len(parts) : b \in parts[k].from..parts[k].to
Ended(b) == \E k \in 1..Len(parts) : parts[k].to + 1 = b

(* Before the window each line has been handed over, unless the split      *)
(* function failed, a closed consumer has handed over the window, too, and *)
(* a scan that is over has used its chunk.                                 *)
HandedInv ==
  /\ handlerErr = "nil" /\ scanRes # "bad" => \A b \in 1..(Unhandled.from - 1) :
       IF input[b] = "newline" THEN Ended(b) ELSE Covered(b)
  /\ closed => \A b \in Unhandled.from..Unhandled.to : Covered(b)
  /\ AtRest({"ok"}) => toWrite.from = toWrite.to + 1

(* The rest is handed over by a close only, and a token of a scan that goes*)
(* on is a line, with its newline before the window.                       *)
LineInv ==
  \A k \in 1..Len(parts) :
    IF parts[k].unhandled THEN closed /\ parts[k].to = Unhandled.to
    ELSE scanRes = "ok" => /\ ~parts[k].last /\ parts[k].from <= parts[k].to + 1
                           /\ parts[k].to + 1 < Unhandled.from

-----------------------------------------------------------------------------
(* A part behind the others.                                               *)
LEMMA OneMore ==
  ASSUME parts \in Seq(Part), NEW p, parts' = Append(parts, p)
  PROVE  /\ Len(parts) \in Nat /\ Len(parts') = Len(parts) + 1
         /\ parts'[Len(parts) + 1] = p
         /\ \A k \in 1..Len(parts) : parts'[k] = parts[k]
         /\ \A k \in 1..Len(parts') : k \in 1..Len(parts) \/ k = Len(parts) + 1
OBVIOUS

(* Each step keeps what is known of the handler's failure.                 *)
LEMMA FailStep ==
  ASSUME SplitInv, FailInv, [Next]_vars
  PROVE  FailInv'
<1>0. ResultInv /\ parts \in Seq(Part)
  BY DEF SplitInv, PartsInv
<1>1. CASE UNCHANGED consumerVars /\ spc' # "idle"
  BY <1>1 DEF consumerVars, FailInv
<1>2. CASE Write \/ FillsBuffer \/ ScanFails \/ ScanLoops
  <2>1. UNCHANGED consumerVars /\ spc' \in {"fill", "split", "return"}
    BY <1>2 DEF Write, ScanCalled, FillsBuffer, Fill, FillShifted, FillGrown, CopyRemain, Full,
                ScanFails, TooLong, SplitFails, ScanLoops, NoToken, WindowDone, LoopEnds, Return
  <2>2. QED
    BY <1>1, <2>1
<1>3. CASE HandsLine \/ HandsLast
  <2>1. /\ spc = "split" /\ spc' # "idle" /\ UNCHANGED <<flushed, closed, writeRes>>
    BY <1>3 DEF HandsLine, HandsLast, CutLine, CutLast, NewToken, Finds, Return
  <2>2. ~closed
    BY <1>0, <2>1 DEF ResultInv
  <2>3. PICK bytes, isLast : NewToken(bytes, isLast)
    BY <1>3 DEF HandsLine, HandsLast
  <2>4. CASE handlerErr # "nil"
    BY <2>1, <2>3, <2>4 DEF NewToken, FailInv
  <2>5. CASE handlerErr = "nil"
    <3> DEFINE ok == handlerErr' = "nil"
    <3>1. Handle(bytes, FALSE, isLast, FALSE, ok)
      BY <2>3, <2>5 DEF NewToken
    <3> DEFINE p == [from |-> bytes.from, to |-> bytes.to, unhandled |-> FALSE,
                     last |-> isLast, scanErr |-> FALSE, ok |-> ok]
    <3>2. parts' = Append(parts, p) /\ ~p.unhandled /\ p.ok = ok
      BY <3>1 DEF Handle
    <3> HIDE DEF p, ok
    <3>3. \A k \in 1..Len(parts) : parts[k].ok /\ ~parts[k].unhandled
      BY <2>2, <2>5 DEF FailInv
    <3>4. \A k \in 1..Len(parts') : (k \in 1..Len(parts) /\ parts'[k] = parts[k])
                                      \/ (k = Len(parts) + 1 /\ parts'[k] = p)
      BY <1>0, <3>2, OneMore
    <3>5. \A k \in 1..Len(parts') : ~parts'[k].unhandled /\ (handlerErr' = "nil" => parts'[k].ok)
      BY <3>2, <3>3, <3>4 DEF ok
    <3>6. \A k, l \in 1..Len(parts') : k < l => parts'[k].ok
      <4> TAKE k, l \in 1..Len(parts')
      <4>1. Len(parts) \in Nat /\ Len(parts') = Len(parts) + 1
        BY <1>0, <3>2, OneMore
      <4>2. k < l => k \in 1..Len(parts)
        BY <4>1
      <4>3. QED
        BY <1>0, <3>2, <3>3, <4>2, OneMore
    <3>7. QED
      BY <2>1, <3>5, <3>6 DEF FailInv
  <2>6. QED
    BY <2>4, <2>5
<1>4. ASSUME NEW last \in BOOLEAN, NEW scanErr \in BOOLEAN, Flush(last, scanErr), closed',
             UNCHANGED handlerErr, writeRes' \in {"ok", "closed", "err"},
             spc' = "idle" => ErrTold', closed' \in BOOLEAN
      PROVE  FailInv'
  <2>1. flushed' \in BOOLEAN
    BY <1>4 DEF Flush
  <2>2. CASE parts' = parts
    BY <1>4, <2>1, <2>2 DEF FailInv
  <2>3. CASE \E ok \in BOOLEAN : Handle(Unhandled, TRUE, last, scanErr, ok)
    <3>1. PICK ok \in BOOLEAN : Handle(Unhandled, TRUE, last, scanErr, ok)
      BY <2>3
    <3> DEFINE p == [from |-> Unhandled.from, to |-> Unhandled.to, unhandled |-> TRUE,
                     last |-> last, scanErr |-> scanErr, ok |-> ok]
    <3>2. parts' = Append(parts, p) /\ p.unhandled
      BY <3>1 DEF Handle
    <3> HIDE DEF p
    <3>3. \A k \in 1..Len(parts') : (k \in 1..Len(parts) /\ parts'[k] = parts[k])
                                      \/ (k = Len(parts) + 1 /\ parts'[k] = p)
      BY <1>0, <3>2, OneMore
    <3>4. \A k \in 1..Len(parts') : ~parts'[k].unhandled /\ handlerErr' = "nil" => parts'[k].ok
      BY <1>4, <3>2, <3>3 DEF FailInv
    <3>5. \A k, l \in 1..Len(parts') : k < l /\ ~parts'[k].ok => parts'[l].unhandled
      <4> TAKE k, l \in 1..Len(parts')
      <4> HAVE k < l /\ ~parts'[k].ok
      <4>1. CASE parts'[l] = p
        BY <3>2, <4>1
      <4>2. CASE l \in 1..Len(parts) /\ parts'[l] = parts[l]
        <5>1. k \in 1..Len(parts) /\ parts'[k] = parts[k]
          <6>1. Len(parts) \in Nat
            BY <1>0
          <6>2. k \in 1..Len(parts)
            BY <4>2, <6>1
          <6>3. QED
            BY <1>0, <3>2, <6>2, OneMore
        <5>2. QED
          BY <4>2, <5>1 DEF FailInv
      <4>3. QED
        BY <3>3, <4>1, <4>2
    <3>6. QED
      BY <1>4, <2>1, <3>4, <3>5 DEF FailInv
  <2>4. QED
    BY <1>4, <2>2, <2>3 DEF Flush
<1>5. CASE WriteHandlerErr
  <2>1. /\ handlerErr \in {"closed", "failed"} /\ UNCHANGED <<parts, handlerErr, flushed, closed>>
        /\ writeRes' = IF handlerErr = "closed" THEN "closed" ELSE "err"
    BY <1>0, <1>5 DEF WriteHandlerErr, ResultInv, Errors
  <2>2. writeRes' \in {"ok", "closed", "err"} /\ ErrTold'
    BY <2>1 DEF ErrTold
  <2>3. QED
    BY <2>1, <2>2 DEF FailInv
<1>6. CASE WriteOk
  BY <1>0, <1>6 DEF WriteOk, BackFromScan, consumerVars, FailInv, ResultInv, ErrTold
<1>7. CASE WriteEnds
  <2>1. (scanRes = "last") \in BOOLEAN
    OBVIOUS
  <2>2. QED
    BY <1>4, <1>7, <2>1 DEF WriteEnds, ErrTold
<1>8. CASE Close
  <2>1. spc' = spc /\ spc = "idle" /\ closed' = TRUE /\ UNCHANGED <<handlerErr, writeRes>>
    BY <1>8 DEF Close, scanVars
  <2>2. CASE closed
    BY <1>8, <2>1, <2>2 DEF Close, FailInv, ErrTold
  <2>3. CASE ~closed
    <3>1. Flush(FALSE, FALSE)
      BY <1>8, <2>3 DEF Close
    <3>2. QED
      BY <1>4, <2>1, <3>1 DEF FailInv, ErrTold
  <2>4. QED
    BY <2>2, <2>3
<1>9. CASE WriteRefused \/ UNCHANGED vars
  BY <1>9 DEF WriteRefused, vars, scanVars, consumerVars, FailInv, ErrTold
<1>10. QED
  BY <1>2, <1>3, <1>5, <1>6, <1>7, <1>8, <1>9 DEF Next, Scans

-----------------------------------------------------------------------------
(* A filling finds room: the window has more bytes behind it.              *)
LEMMA FillAdds ==
  ASSUME ScanInv, Fill \/ FillShifted \/ FillGrown
  PROVE  end' - start' > end - start
<1>0. IndexInv
  BY DEF ScanInv
<1>1. /\ start \in Nat /\ end \in Nat /\ start <= end /\ end <= Len(buf) /\ Len(buf) \in Nat
      /\ MaxTokenSize \in Nat \ {0} /\ StartBufSize \in Nat \ {0}
      /\ toWrite.from \in Nat /\ toWrite.to \in Nat
  BY <1>0, Numbers, ScannerAssumption DEF IndexInv
<1>2. ASSUME NEW b, NEW e \in Nat, NEW s \in Nat, Len(b) \in Nat, e < Len(b), s <= e,
             CopyRemain(b, e), start' = s, spc = "fill"
      PROVE  end' - start' > e - s
  <2>1. Size(toWrite) \in Nat \ {0}
    BY <1>0, <1>1, <1>2 DEF Size, IndexInv
  <2>2. MinOf(Len(b) - e, Size(toWrite)) \in Nat \ {0}
    BY <1>2, <2>1 DEF MinOf
  <2>3. end' = e + MinOf(Len(b) - e, Size(toWrite))
    BY <1>2 DEF CopyRemain
  <2>4. QED
    BY <1>2, <2>2, <2>3
<1>3. CASE Fill
  BY <1>1, <1>2, <1>3 DEF Fill
<1>4. CASE FillShifted
  <2>1. Len(Shifted) = Len(buf) /\ end - start \in Nat /\ end - start < Len(buf)
    BY <1>1, <1>4 DEF FillShifted, ShouldShift, Shifted
  <2>2. end' - start' > (end - start) - 0
    BY <1>1, <1>2, <1>4, <2>1 DEF FillShifted
  <2>3. QED
    BY <1>1, <2>2
<1>5. CASE FillGrown
  <2>1. start = 0 /\ end = Len(buf)
    BY <1>1, <1>5 DEF FillGrown, Full, ShouldShift
  <2>2. NewSize \in Nat /\ NewSize > Len(buf)
    <3>1. buf = <<>> => Len(buf) = 0
      OBVIOUS
    <3>2. buf # <<>> => Len(buf) > 0
      <4>1. buf \in Seq(Slots)
        BY <1>0 DEF IndexInv
      <4>2. QED
        BY <4>1
    <3>3. QED
      BY <1>1, <1>5, <3>1, <3>2 DEF FillGrown, NewSize, MinOf
  <2>3. Len(Grown) = NewSize
    BY <2>2 DEF Grown
  <2>4. QED
    BY <1>1, <1>2, <1>5, <2>1, <2>2, <2>3 DEF FillGrown, Full
<1>6. QED
  BY <1>3, <1>4, <1>5

(* Each step counts one scan without a token at most per byte.             *)
LEMMA EmptyStep ==
  ASSUME SplitInv, EmptyInv, [Next]_vars
  PROVE  EmptyInv'
<1>0. /\ ScanInv /\ IndexInv /\ ResultInv
      /\ start \in Nat /\ end \in Nat /\ start <= end /\ MaxEmpties \in Nat
  BY ScannerAssumption DEF SplitInv, ScanInv, IndexInv
<1> USE DEF EmptyInv, AtRest
<1>1. ASSUME UNCHANGED <<start, end, empties, scanRes>>, spc' = spc \/ spc' = "idle",
             spc' = "idle" => spc \in {"idle", "return"}
      PROVE  EmptyInv'
  BY <1>1
<1>2. CASE Write
  BY <1>0, <1>2 DEF Write, ScanCalled, ResultInv
<1>3. CASE FillsBuffer
  <2>1. end' - start' > end - start
    BY <1>0, <1>3, FillAdds DEF FillsBuffer
  <2>2. spc = "fill" /\ spc' = "split" /\ empties' = empties /\ scanRes' = scanRes
    BY <1>3 DEF FillsBuffer, Fill, FillShifted, FillGrown, Full, CopyRemain
  <2>3. end' \in Nat /\ start' \in Nat
    BY <1>0, ScanStep DEF ScanInv, IndexInv
  <2>4. scanRes = "ok"
    BY <1>0, <2>2 DEF ResultInv
  <2>5. empties \in Nat /\ empties <= MaxEmpties /\ empties <= end - start
    BY <2>2, <2>4
  <2>6. empties < end' - start'
    <3>1. end - start \in Nat /\ end' - start' \in Int
      BY ONLY <1>0, <2>3
    <3>2. empties < (end - start) + 1
      BY ONLY <2>5, <3>1
    <3>3. (end - start) + 1 <= end' - start'
      BY ONLY <2>1, <3>1
    <3>4. QED
      BY ONLY <2>5, <3>1, <3>2, <3>3
  <2>7. QED
    BY <2>2, <2>4, <2>5, <2>6
<1>4. CASE ScanFails
  <2>1. CASE TooLong
    <3>1. start = 0 /\ end >= MaxTokenSize /\ spc = "fill"
      BY <1>0, <2>1 DEF TooLong, Full, ShouldShift
    <3>2. UNCHANGED <<start, end, empties>> /\ spc' = "return" /\ scanRes' = "tooLong"
      BY <2>1 DEF TooLong, Return, bufVars
    <3>3. scanRes = "ok"
      BY <1>0, <3>1 DEF ResultInv
    <3>4. QED
      BY <1>0, <3>1, <3>2, <3>3
  <2>2. CASE \E i \in Window, n \in 0..(end - start) : SplitFails(i, n)
    <3>1. empties' = empties /\ spc' = "return" /\ scanRes' = "bad" /\ spc = "split"
      BY <2>2 DEF SplitFails, Finds, Return
    <3>2. QED
      BY <1>0, <3>1 DEF ResultInv
  <2>3. QED
    BY <1>4, <2>1, <2>2 DEF ScanFails
<1>5. CASE ScanLoops
  <2>1. spc = "split" /\ scanRes = "ok" /\ UNCHANGED <<start, end>>
    BY <1>0, <1>5 DEF ScanLoops, NoToken, WindowDone, ResultInv, bufVars
  <2>2. CASE NoToken
    <3>1. /\ empties' = empties + 1 /\ empties + 1 <= end - start
          /\ IF empties' > MaxEmpties THEN Return("noProgress") ELSE LoopEnds
      BY <1>0, <2>1, <2>2 DEF NoToken
    <3>2. QED
      BY <1>0, <2>1, <3>1 DEF LoopEnds, Return
  <2>3. CASE WindowDone
    BY <1>0, <2>1, <2>3 DEF WindowDone, LoopEnds, Return
  <2>4. QED
    BY <1>5, <2>2, <2>3 DEF ScanLoops
<1>6. CASE HandsLine
  BY <1>0, <1>6 DEF HandsLine, CutLine, Finds, ResultInv
<1>7. CASE HandsLast
  BY <1>0, <1>7 DEF HandsLast, CutLast, Finds, Return, ResultInv
<1>8. CASE WriteHandlerErr \/ WriteOk \/ WriteEnds
  BY <1>1, <1>8 DEF WriteHandlerErr, WriteOk, WriteEnds, BackFromScan, bufVars
<1>9. CASE Close
  BY <1>1, <1>9 DEF Close, scanVars
<1>10. CASE WriteRefused \/ UNCHANGED vars
  BY <1>1, <1>10 DEF WriteRefused, vars, scanVars
<1>11. QED
  BY <1>2, <1>3, <1>4, <1>5, <1>6, <1>7, <1>8, <1>9, <1>10 DEF Next, Scans

(* Each step that fills or ends a scan leaves chars only in the window.    *)
LEMMA CharsStep ==
  ASSUME SplitInv, CharsInv, [Next]_vars
  PROVE  CharsInv'
<1>0. ScanInv /\ IndexInv /\ ResultInv
  BY DEF SplitInv, ScanInv
<1> USE DEF CharsInv, AtRest
<1>1. ASSUME UNCHANGED <<input, start, end>>, toWrite'.from = toWrite.from
      PROVE  Unhandled' = Unhandled
  BY <1>1 DEF Unhandled
<1>2. CASE Write
  <2>1. /\ UNCHANGED <<input, start, end>> /\ toWrite'.from = toWrite.from
        /\ spc = "idle" /\ scanRes = "ok"
    BY <1>0, <1>2 DEF Write, ScanCalled, ResultInv
  <2>2. Unhandled' = Unhandled /\ input' = input
    BY <1>1, <2>1
  <2>3. QED
    BY <2>1, <2>2
<1>3. CASE FillsBuffer \/ HandsLine
  <2>1. spc' = "split"
    BY <1>3 DEF FillsBuffer, Fill, FillShifted, FillGrown, CopyRemain, HandsLine, CutLine, Finds
  <2>2. QED
    BY <2>1
<1>4. CASE HandsLast
  <2>1. spc' = "return" /\ scanRes' = "last"
    BY <1>4 DEF HandsLast, CutLast, Return
  <2>2. QED
    BY <2>1
<1>5. CASE ScanFails
  <2>1. CASE TooLong
    <3>1. UNCHANGED <<input, start, end, toWrite>> /\ spc = "fill"
      BY <2>1 DEF TooLong, Full, bufVars
    <3>2. Unhandled' = Unhandled /\ input' = input
      BY <1>1, <3>1
    <3>3. QED
      BY <3>1, <3>2
  <2>2. CASE \E i \in Window, n \in 0..(end - start) : SplitFails(i, n)
    BY <2>2 DEF SplitFails, Return
  <2>3. QED
    BY <1>5, <2>1, <2>2 DEF ScanFails
<1>6. CASE ScanLoops
  <2>1. UNCHANGED <<input, start, end, toWrite>>
    BY <1>6 DEF ScanLoops, NoToken, WindowDone, bufVars
  <2>2. Unhandled' = Unhandled /\ input' = input
    BY <1>1, <2>1
  <2> SUFFICES ASSUME NEW b \in Unhandled.from..Unhandled.to PROVE input[b] = "char"
    BY <2>2
  <2>3. Unhandled.from = toWrite.from - (end - start) /\ Unhandled.to = toWrite.from - 1
        /\ toWrite.from \in Nat /\ end \in Nat /\ start \in Nat
    BY <1>0, Numbers DEF Unhandled
  <2> DEFINE i == b - Unhandled.from + 1
  <2>4. i \in 1..(end - start) /\ Unhandled.from + i - 1 = b
    BY <2>3
  <2> HIDE DEF i
  <2>5. InWindow(i) = b /\ i \in Window
    BY <1>0, <2>4, WindowIsInput DEF Window
  <2>6. start # end
    BY <2>3, <2>4
  <2>7. NoToken
    BY <1>6, <2>6 DEF ScanLoops, WindowDone
  <2>8. QED
    BY <2>5, <2>7 DEF NoToken
<1>7. CASE WriteHandlerErr \/ WriteOk \/ WriteEnds \/ Close \/ WriteRefused \/ UNCHANGED vars
  <2>1. /\ UNCHANGED <<input, start, end, toWrite, scanRes>>
        /\ spc' = spc \/ (spc = "return" /\ spc' = "idle")
    BY <1>7 DEF WriteRefused, WriteHandlerErr, WriteOk, WriteEnds, Close, BackFromScan, bufVars, scanVars, vars
  <2>2. Unhandled' = Unhandled /\ input' = input
    BY <1>1, <2>1
  <2>3. QED
    BY <2>1, <2>2
<1>8. QED
  BY <1>2, <1>3, <1>4, <1>5, <1>6, <1>7 DEF Next, Scans

-----------------------------------------------------------------------------
(* What has been handed over stays so.                                     *)
LEMMA PartsStay ==
  ASSUME parts \in Seq(Part), NEW p, parts' = parts \/ parts' = Append(parts, p), NEW b
  PROVE  (Ended(b) => Ended(b)') /\ (Covered(b) => Covered(b)')
<1>1. \A k \in 1..Len(parts) : k \in 1..Len(parts') /\ parts'[k] = parts[k]
  <2>1. CASE parts' = parts
    BY <2>1
  <2>2. CASE parts' = Append(parts, p)
    <3>1. /\ Len(parts) \in Nat /\ Len(parts') = Len(parts) + 1
          /\ \A k \in 1..Len(parts) : parts'[k] = parts[k]
      BY <2>2, OneMore
    <3>2. QED
      BY <3>1
  <2>3. QED
    BY <2>1, <2>2
<1>2. Ended(b) => Ended(b)'
  BY <1>1 DEF Ended
<1>3. Covered(b) => Covered(b)'
  BY <1>1 DEF Covered
<1>4. QED
  BY <1>2, <1>3

(* The new part covers its bytes.                                          *)
LEMMA PartCovers ==
  ASSUME parts \in Seq(Part), NEW p, parts' = Append(parts, p)
  PROVE  /\ \A b : b = p.to + 1 => Ended(b)'
         /\ \A b : b \in p.from..p.to => Covered(b)'
<1>1. Len(parts) + 1 \in 1..Len(parts') /\ parts'[Len(parts) + 1] = p
  <2>1. Len(parts) \in Nat /\ Len(parts') = Len(parts) + 1 /\ parts'[Len(parts) + 1] = p
    BY OneMore
  <2>2. QED
    BY <2>1
<1>2. QED
  BY <1>1 DEF Ended, Covered

(* A step that moves neither the front of the window nor the parts.        *)
LEMMA FrontStays ==
  ASSUME HandedInv, Unhandled'.from = Unhandled.from, UNCHANGED <<input, parts, handlerErr>>,
         closed' => closed /\ Unhandled' = Unhandled, scanRes = "bad" => scanRes' = "bad",
         AtRest({"ok"})' => toWrite'.from = toWrite'.to + 1
  PROVE  HandedInv'
<1>1. \A b : (Ended(b)' <=> Ended(b)) /\ (Covered(b)' <=> Covered(b))
  BY DEF Ended, Covered
<1>2. QED
  BY <1>1 DEF HandedInv

(* A token that is cut: its bytes and its newline have been handed over.   *)
LEMMA TokenCovers ==
  ASSUME SplitInv, HandedInv, NEW i \in 0..(end - start), NEW bytes, NEW isLast,
         NewToken(bytes, isLast), bytes.from = Unhandled.from, scanRes # "bad",
         \/ bytes.to = Unhandled.from + i - 2 /\ input[Unhandled.from + i - 1] = "newline"
         \/ /\ bytes.to = Unhandled.from + i - 1
            /\ i # 0 => input[Unhandled.from + i - 1] # "newline",
         \A b \in Nat : Unhandled.from <= b /\ b < Unhandled.from + i - 1 => input[b] = "char",
         Unhandled'.from = Unhandled.from + i, input' = input, ~closed',
         ~AtRest({"ok"})'
  PROVE  HandedInv'
<1> DEFINE u == Unhandled.from
<1>0. u \in Nat \ {0} /\ i \in Nat /\ parts \in Seq(Part)
  BY Numbers DEF SplitInv, ScanInv, PartsInv
<1> SUFFICES ASSUME handlerErr' = "nil", NEW b \in 1..(u + i - 1)
             PROVE  IF input[b] = "newline" THEN Ended(b)' ELSE Covered(b)'
  <2>1. Unhandled'.from - 1 = u + i - 1
    BY <1>0
  <2>2. ~closed' /\ ~AtRest({"ok"})' /\ input' = input
    OBVIOUS
  <2> HIDE DEF u
  <2>3. QED
    BY <2>1, <2>2 DEF HandedInv
<1> DEFINE ok == handlerErr' = "nil"
<1>1. Handle(bytes, FALSE, isLast, FALSE, ok) /\ handlerErr = "nil"
  BY DEF NewToken
<1> DEFINE p == [from |-> bytes.from, to |-> bytes.to, unhandled |-> FALSE,
                 last |-> isLast, scanErr |-> FALSE, ok |-> ok]
<1>2. parts' = Append(parts, p) /\ p.from = u /\ p.to = bytes.to
  BY <1>1 DEF Handle
<1> HIDE DEF p, ok
<1>3. CASE b < u
  <2>1. b \in 1..(u - 1)
    BY <1>0, <1>3
  <2>2. IF input[b] = "newline" THEN Ended(b) ELSE Covered(b)
    BY <1>1, <2>1 DEF HandedInv
  <2>3. QED
    BY <1>0, <1>2, <2>2, PartsStay
<1>4. CASE b >= u /\ b < u + i - 1
  <2>1. input[b] = "char"
    BY <1>0, <1>4
  <2>2. b \in p.from..p.to
    BY <1>0, <1>2, <1>4
  <2>3. QED
    BY <1>0, <1>2, <2>1, <2>2, PartCovers
<1>5. CASE b = u + i - 1 /\ i # 0
  <2>1. CASE input[b] = "newline"
    <3>1. b = p.to + 1
      BY <1>0, <1>2, <1>5, <2>1
    <3>2. QED
      BY <1>0, <1>2, <2>1, <3>1, PartCovers
  <2>2. CASE input[b] # "newline"
    <3>1. b \in p.from..p.to
      BY <1>0, <1>2, <1>5, <2>2
    <3>2. QED
      BY <1>0, <1>2, <2>2, <3>1, PartCovers
  <2>3. QED
    BY <2>1, <2>2
<1>6. QED
  BY <1>0, <1>3, <1>4, <1>5

(* A consumer that closes hands over the window.                           *)
LEMMA FlushCovers ==
  ASSUME SplitInv, HandedInv, NEW last, NEW scanErr, Flush(last, scanErr), ~closed,
         UNCHANGED <<input, bufVars, handlerErr, scanRes>>,
         AtRest({"ok"})' => AtRest({"ok"})
  PROVE  HandedInv'
<1>0. /\ parts \in Seq(Part) /\ ~flushed /\ Unhandled' = Unhandled /\ toWrite' = toWrite
      /\ Unhandled.from \in Nat /\ Unhandled.to \in Int
  BY Numbers DEF SplitInv, ScanInv, PartsInv, ResultInv, bufVars, Unhandled
<1>1. CASE Size(Unhandled) = 0
  <2>1. parts' = parts
    BY <1>1 DEF Flush
  <2>2. \A b : (Ended(b)' <=> Ended(b)) /\ (Covered(b)' <=> Covered(b))
    BY <2>1 DEF Ended, Covered
  <2>3. Unhandled.from..Unhandled.to = {}
    BY <1>0, <1>1 DEF Size
  <2>4. QED
    BY <1>0, <2>2, <2>3 DEF HandedInv
<1>2. CASE Size(Unhandled) # 0
  <2>1. PICK ok \in BOOLEAN : Handle(Unhandled, TRUE, last, scanErr, ok)
    BY <1>0, <1>2 DEF Flush
  <2> DEFINE p == [from |-> Unhandled.from, to |-> Unhandled.to, unhandled |-> TRUE,
                   last |-> last, scanErr |-> scanErr, ok |-> ok]
  <2>2. parts' = Append(parts, p) /\ p.from = Unhandled.from /\ p.to = Unhandled.to
    BY <2>1 DEF Handle
  <2> HIDE DEF p
  <2>3. \A b : (Ended(b) => Ended(b)') /\ (Covered(b) => Covered(b)')
    BY <1>0, <2>2, PartsStay
  <2>4. \A b \in Unhandled.from..Unhandled.to : Covered(b)'
    BY <1>0, <2>2, PartCovers
  <2>5. QED
    BY <1>0, <2>3, <2>4 DEF HandedInv
<1>3. QED
  BY <1>1, <1>2

(* Each step hands over what it takes off the window.                      *)
LEMMA HandedStep ==
  ASSUME SplitInv, HandedInv, [Next]_vars
  PROVE  HandedInv'
<1>0. ScanInv /\ IndexInv /\ ResultInv
  BY DEF SplitInv, ScanInv
<1>1. CASE Write
  <2>1. /\ UNCHANGED <<input, start, end, parts, handlerErr, scanRes>> /\ ~closed' /\ spc' = "fill"
        /\ toWrite'.from = toWrite.from
    BY <1>1 DEF Write, ScanCalled, consumerVars
  <2>2. Unhandled'.from = Unhandled.from
    BY <2>1 DEF Unhandled
  <2>3. QED
    BY <2>1, <2>2, FrontStays DEF AtRest
<1>2. CASE FillsBuffer
  <2>1. /\ UNCHANGED <<input, parts, handlerErr, closed, scanRes>> /\ spc = "fill" /\ spc' = "split"
    BY <1>2 DEF FillsBuffer, Fill, FillShifted, FillGrown, Full, CopyRemain, consumerVars
  <2>2. Unhandled'.from = Unhandled.from
    BY <1>0, <1>2, FillKeepsOrder DEF FillsBuffer
  <2>3. QED
    BY <1>0, <2>1, <2>2, FrontStays DEF AtRest, ResultInv
<1>3. CASE (TooLong /\ UNCHANGED consumerVars) \/ ScanLoops
  <2>1. /\ UNCHANGED <<input, start, end, toWrite, parts, handlerErr, closed>>
        /\ spc \in {"fill", "split"} /\ scanRes = "ok"
    BY <1>0, <1>3 DEF TooLong, Full, ScanLoops, NoToken, WindowDone, bufVars, consumerVars,
                      ResultInv
  <2>2. Unhandled' = Unhandled
    BY <2>1 DEF Unhandled
  <2>3. CASE LoopEnds
    <3>1. toWrite.from \in Nat /\ toWrite.to \in Nat /\ toWrite.from <= toWrite.to + 1
      BY <1>0, Numbers DEF IndexInv
    <3>2. spc' = "return" => toWrite.from = toWrite.to + 1
      BY <2>3, <3>1 DEF LoopEnds, Size
    <3>3. spc' \in {"fill", "return"}
      BY <2>3 DEF LoopEnds, Return
    <3>4. QED
      BY <2>1, <2>2, <3>2, <3>3, FrontStays DEF AtRest
  <2>4. CASE ~LoopEnds
    <3>1. scanRes' \in {"tooLong", "bad", "noProgress"}
      BY <1>3, <2>4 DEF TooLong, ScanLoops, NoToken, WindowDone, Return
    <3>2. QED
      BY <2>1, <2>2, <3>1, FrontStays DEF AtRest
  <2>5. QED
    BY <2>3, <2>4
<1>12. CASE ScanFails /\ ~TooLong
  <2>1. PICK i \in Window : \E n \in 0..(end - start) : SplitFails(i, n)
    BY <1>12 DEF ScanFails
  <2>2. spc = "split" /\ scanRes' = "bad" /\ closed' = closed
    BY <1>12, <2>1 DEF ScanFails, SplitFails, Finds, Return, consumerVars
  <2>3. QED
    BY <1>0, <2>2 DEF HandedInv, ResultInv, AtRest
<1>4. CASE HandsLine
  <2>1. PICK i \in Window : CutLine(i) /\ NewToken(Line(i), FALSE)
    BY <1>4 DEF HandsLine
  <2>2. /\ Finds(i, "newline") /\ spc' = "split" /\ spc = "split" /\ input' = input
        /\ i \in 0..(end - start)
    BY <1>0, <2>1, InIt DEF CutLine, Finds
  <2>3. /\ InWindow(1) = Unhandled.from /\ input[Unhandled.from + i - 1] = "newline"
        /\ \A b \in Nat : Unhandled.from <= b /\ b < Unhandled.from + i - 1 => input[b] = "char"
    BY <1>0, <2>2, Found
  <2>4. Unhandled'.from = Unhandled.from + i
    BY <1>0, <2>1, <2>2, CutKeepsOrder DEF CutLine
  <2>5. Line(i).from = Unhandled.from /\ Line(i).to = Unhandled.from + i - 2
    BY <2>3 DEF Line
  <2>6. ~closed' /\ scanRes # "bad"
    BY <1>0, <2>1, <2>2 DEF NewToken, ResultInv
  <2>7. QED
    BY <2>1, <2>2, <2>3, <2>4, <2>5, <2>6, TokenCovers DEF AtRest
<1>5. CASE HandsLast
  <2>1. PICK i \in Window : \E n \in 0..i : CutLast(i, n) /\ NewToken(LastToken(n), TRUE)
    BY <1>5 DEF HandsLast
  <2>10. PICK n \in 0..i : CutLast(i, n) /\ NewToken(LastToken(n), TRUE)
    BY <2>1
  <2>2. /\ Finds(i, "last") /\ spc' = "return" /\ scanRes' = "last" /\ spc = "split"
        /\ input' = input /\ n \in 0..(end - start)
    BY <1>0, <2>10, InIt DEF CutLast, Finds, Return
  <2>3. /\ InWindow(1) = Unhandled.from /\ input[Unhandled.from + i - 1] = "last"
        /\ \A b \in Nat : Unhandled.from <= b /\ b < Unhandled.from + i - 1 => input[b] = "char"
    BY <1>0, <2>2, Found
  <2>4. Unhandled'.from = Unhandled.from + n
    BY <1>0, <2>10, <2>2, CutKeepsOrder DEF CutLast
  <2>5. LastToken(n).from = Unhandled.from /\ LastToken(n).to = Unhandled.from + n - 1
    BY <2>3 DEF LastToken
  <2>6. ~closed' /\ scanRes # "bad"
    BY <1>0, <2>10, <2>2 DEF NewToken, ResultInv
  <2>8. /\ n # 0 => input[Unhandled.from + n - 1] # "newline"
        /\ \A b \in Nat : Unhandled.from <= b /\ b < Unhandled.from + n - 1 => input[b] = "char"
    <3>1. Unhandled.from \in Nat \ {0} /\ i \in Nat \ {0} /\ n \in Nat /\ n <= i
      BY <1>0, Numbers, WindowIsInput
    <3>2. n = i \/ Unhandled.from + n - 1 < Unhandled.from + i - 1
      BY <3>1
    <3>3. n # 0 => Unhandled.from + n - 1 \in Nat /\ Unhandled.from <= Unhandled.from + n - 1
      BY <3>1
    <3>4. \A b \in Nat : b < Unhandled.from + n - 1 => b < Unhandled.from + i - 1
      BY <3>1
    <3>5. QED
      BY <2>3, <3>2, <3>3, <3>4
  <2>7. QED
    BY <2>10, <2>2, <2>4, <2>5, <2>6, <2>8, TokenCovers DEF AtRest
<1>6. ASSUME UNCHANGED <<input, bufVars, parts, handlerErr, closed, scanRes>>,
             AtRest({"ok"})' => AtRest({"ok"})
      PROVE  HandedInv'
  <2>1. Unhandled' = Unhandled /\ toWrite' = toWrite
    BY <1>6 DEF bufVars, Unhandled
  <2>2. QED
    BY <1>6, <2>1, FrontStays DEF HandedInv
<1>7. CASE WriteHandlerErr \/ WriteOk
  BY <1>6, <1>7 DEF WriteHandlerErr, WriteOk, BackFromScan, consumerVars, AtRest
<1>8. CASE WriteEnds
  <2>1. ~closed
    BY <1>0, <1>8 DEF WriteEnds, BackFromScan, ResultInv
  <2>2. QED
    BY <1>8, <2>1, FlushCovers DEF WriteEnds, BackFromScan, AtRest
<1>9. CASE Close
  <2>1. UNCHANGED <<input, bufVars, handlerErr, spc, scanRes>>
    BY <1>9 DEF Close, scanVars, bufVars
  <2>2. CASE closed
    BY <1>6, <1>9, <2>1, <2>2 DEF Close, AtRest
  <2>3. CASE ~closed
    BY <1>9, <2>1, <2>3, FlushCovers DEF Close, AtRest
  <2>4. QED
    BY <2>2, <2>3
<1>10. CASE WriteRefused \/ UNCHANGED vars
  BY <1>6, <1>10 DEF WriteRefused, vars, scanVars, bufVars, consumerVars, AtRest
<1>11. QED
  BY <1>1, <1>2, <1>3, <1>4, <1>5, <1>7, <1>8, <1>9, <1>10, <1>12 DEF Next, Scans, ScanFails

-----------------------------------------------------------------------------
(* A step that hands nothing over and leaves the front of the window.      *)
LEMMA LinesStay ==
  ASSUME LineInv, parts' = parts, Unhandled'.from = Unhandled.from,
         closed => closed' /\ Unhandled' = Unhandled, scanRes' = "ok" => scanRes = "ok"
  PROVE  LineInv'
BY DEF LineInv

(* A token that is cut.                                                    *)
LEMMA TokenLine ==
  ASSUME SplitInv, LineInv, NEW i \in 0..(end - start), NEW bytes, NEW isLast,
         NewToken(bytes, isLast), ~closed, Unhandled'.from = Unhandled.from + i, scanRes = "ok",
         scanRes' = "ok" => /\ ~isLast /\ bytes.from = Unhandled.from /\ i # 0
                            /\ bytes.to = Unhandled.from + i - 2
  PROVE  LineInv'
<1> DEFINE u == Unhandled.from
<1>0. u \in Nat /\ i \in Nat /\ parts \in Seq(Part)
  BY Numbers DEF SplitInv, ScanInv, PartsInv
<1>1. \A k \in 1..Len(parts) : /\ ~parts[k].unhandled /\ ~parts[k].last
                               /\ parts[k].from <= parts[k].to + 1
                               /\ parts[k].to + 1 < Unhandled'.from
  <2> TAKE k \in 1..Len(parts)
  <2>1. /\ ~parts[k].unhandled /\ ~parts[k].last /\ parts[k].from <= parts[k].to + 1
        /\ parts[k].to + 1 < u
    BY DEF LineInv
  <2>2. parts[k].to \in Nat
    <3>1. parts[k] \in Part
      BY <1>0
    <3>2. QED
      BY <3>1 DEF Part
  <2>3. QED
    BY <1>0, <2>1, <2>2
<1>2. CASE handlerErr # "nil"
  BY <1>1, <1>2 DEF NewToken, LineInv
<1>3. CASE handlerErr = "nil"
  <2>1. PICK ok \in BOOLEAN : Handle(bytes, FALSE, isLast, FALSE, ok)
    BY <1>3 DEF NewToken
  <2> DEFINE p == [from |-> bytes.from, to |-> bytes.to, unhandled |-> FALSE,
                   last |-> isLast, scanErr |-> FALSE, ok |-> ok]
  <2>2. /\ parts' = Append(parts, p) /\ ~p.unhandled
        /\ p.last = isLast /\ p.from = bytes.from /\ p.to = bytes.to
    BY <2>1 DEF Handle
  <2> HIDE DEF p
  <2>3. \A k \in 1..Len(parts') : (k \in 1..Len(parts) /\ parts'[k] = parts[k])
                                    \/ parts'[k] = p
    BY <1>0, <2>2, OneMore
  <2>4. scanRes' = "ok" => /\ ~p.last /\ p.from <= p.to + 1 /\ p.to + 1 < Unhandled'.from
    BY <1>0, <2>2
  <2>5. QED
    BY <1>1, <2>2, <2>3, <2>4 DEF LineInv
<1>4. QED
  BY <1>2, <1>3

(* A consumer that closes.                                                 *)
LEMMA FlushLine ==
  ASSUME SplitInv, LineInv, NEW last, NEW scanErr, Flush(last, scanErr), ~closed, closed',
         UNCHANGED <<input, bufVars>>, scanRes' = scanRes
  PROVE  LineInv'
<1>0. parts \in Seq(Part) /\ Unhandled' = Unhandled
  BY DEF SplitInv, PartsInv, bufVars, Unhandled
<1>1. CASE parts' = parts
  BY <1>0, <1>1, LinesStay
<1>2. CASE \E ok \in BOOLEAN : Handle(Unhandled, TRUE, last, scanErr, ok)
  <2>1. PICK ok \in BOOLEAN : Handle(Unhandled, TRUE, last, scanErr, ok)
    BY <1>2
  <2> DEFINE p == [from |-> Unhandled.from, to |-> Unhandled.to, unhandled |-> TRUE,
                   last |-> last, scanErr |-> scanErr, ok |-> ok]
  <2>2. parts' = Append(parts, p) /\ p.unhandled /\ p.to = Unhandled.to
    BY <2>1 DEF Handle
  <2> HIDE DEF p
  <2>3. \A k \in 1..Len(parts') : (k \in 1..Len(parts) /\ parts'[k] = parts[k])
                                    \/ parts'[k] = p
    BY <1>0, <2>2, OneMore
  <2>4. QED
    BY <1>0, <2>2, <2>3 DEF LineInv
<1>3. QED
  BY <1>1, <1>2 DEF Flush

(* Each step hands over a line, the rest, or nothing.                      *)
LEMMA LineStep ==
  ASSUME SplitInv, LineInv, [Next]_vars
  PROVE  LineInv'
<1>0. ScanInv /\ IndexInv /\ ResultInv
  BY DEF SplitInv, ScanInv
<1>1. CASE Write
  <2>1. /\ UNCHANGED <<start, end, parts, scanRes>> /\ ~closed
        /\ toWrite'.from = toWrite.from
    BY <1>1 DEF Write, ScanCalled, consumerVars
  <2>2. Unhandled'.from = Unhandled.from
    BY <2>1 DEF Unhandled
  <2>3. QED
    BY <2>1, <2>2, LinesStay
<1>2. CASE FillsBuffer
  <2>1. /\ UNCHANGED <<parts, scanRes>> /\ spc = "fill"
    BY <1>2 DEF FillsBuffer, Fill, FillShifted, FillGrown, Full, CopyRemain, consumerVars
  <2>2. Unhandled'.from = Unhandled.from
    BY <1>0, <1>2, FillKeepsOrder DEF FillsBuffer
  <2>3. QED
    BY <1>0, <2>1, <2>2, LinesStay DEF ResultInv
<1>3. CASE (TooLong /\ UNCHANGED consumerVars) \/ ScanLoops
  <2>1. /\ UNCHANGED <<start, end, toWrite, parts, closed>> /\ spc \in {"fill", "split"}
    BY <1>3 DEF TooLong, Full, ScanLoops, NoToken, WindowDone, bufVars, consumerVars
  <2>2. Unhandled' = Unhandled
    BY <2>1 DEF Unhandled
  <2>3. QED
    BY <1>0, <2>1, <2>2, LinesStay DEF ResultInv
<1>12. CASE ScanFails /\ ~TooLong
  <2>1. PICK i \in Window : \E n \in 0..(end - start) : SplitFails(i, n)
    BY <1>12 DEF ScanFails
  <2>2. spc = "split" /\ scanRes' = "bad" /\ parts' = parts
    BY <1>12, <2>1 DEF ScanFails, SplitFails, Finds, Return, consumerVars
  <2>3. QED
    BY <1>0, <2>2 DEF LineInv, ResultInv
<1>4. CASE HandsLine
  <2>1. PICK i \in Window : CutLine(i) /\ NewToken(Line(i), FALSE)
    BY <1>4 DEF HandsLine
  <2>2. /\ Finds(i, "newline") /\ spc' = "split" /\ spc = "split"
        /\ i \in 0..(end - start) /\ i # 0
    BY <1>0, <2>1, InIt, WindowIsInput DEF CutLine, Finds
  <2>3. InWindow(1) = Unhandled.from
    BY <1>0, <2>2, Found
  <2>4. Unhandled'.from = Unhandled.from + i
    BY <1>0, <2>1, <2>2, CutKeepsOrder DEF CutLine
  <2>5. Line(i).from = Unhandled.from /\ Line(i).to = Unhandled.from + i - 2
    BY <2>3 DEF Line
  <2>6. QED
    BY <1>0, <2>1, <2>2, <2>4, <2>5, TokenLine DEF ResultInv
<1>5. CASE HandsLast
  <2>1. PICK i \in Window : \E n \in 0..i : CutLast(i, n) /\ NewToken(LastToken(n), TRUE)
    BY <1>5 DEF HandsLast
  <2>5. PICK n \in 0..i : CutLast(i, n) /\ NewToken(LastToken(n), TRUE)
    BY <2>1
  <2>2. /\ spc' = "return" /\ scanRes' = "last" /\ spc = "split"
        /\ n \in 0..(end - start)
    BY <1>0, <2>5, InIt DEF CutLast, Finds, Return
  <2>3. Unhandled'.from = Unhandled.from + n
    BY <1>0, <2>5, <2>2, CutKeepsOrder DEF CutLast
  <2>4. QED
    BY <1>0, <2>5, <2>2, <2>3, TokenLine DEF ResultInv
<1>6. ASSUME UNCHANGED <<bufVars, parts, closed, scanRes>>
      PROVE  LineInv'
  <2>1. Unhandled' = Unhandled
    BY <1>6 DEF bufVars, Unhandled
  <2>2. QED
    BY <1>6, <2>1, LinesStay
<1>7. CASE WriteHandlerErr \/ WriteOk
  BY <1>6, <1>7 DEF WriteHandlerErr, WriteOk, consumerVars
<1>8. CASE WriteEnds
  <2>1. ~closed
    BY <1>0, <1>8 DEF WriteEnds, BackFromScan, ResultInv
  <2>2. QED
    BY <1>8, <2>1, FlushLine DEF WriteEnds
<1>9. CASE Close
  <2>1. UNCHANGED <<input, bufVars, scanRes>> /\ closed'
    BY <1>9 DEF Close, scanVars, bufVars
  <2>2. CASE closed
    BY <1>6, <1>9, <2>1, <2>2 DEF Close
  <2>3. CASE ~closed
    BY <1>9, <2>1, <2>3, FlushLine DEF Close
  <2>4. QED
    BY <2>2, <2>3
<1>10. CASE WriteRefused \/ UNCHANGED vars
  BY <1>6, <1>10 DEF WriteRefused, vars, scanVars, bufVars, consumerVars
<1>11. QED
  BY <1>1, <1>2, <1>3, <1>4, <1>5, <1>7, <1>8, <1>9, <1>10, <1>12 DEF Next, Scans, ScanFails

-----------------------------------------------------------------------------
ConsumerInv == SplitInv /\ FailInv /\ EmptyInv /\ CharsInv /\ HandedInv /\ LineInv

(* The inductive invariant, in every state.                                *)
THEOREM ConsumerInvariant == Spec => []ConsumerInv
<1>1. Init => FailInv /\ EmptyInv /\ CharsInv /\ HandedInv /\ LineInv
  <2> SUFFICES ASSUME Init
               PROVE  FailInv /\ EmptyInv /\ CharsInv /\ HandedInv /\ LineInv
    OBVIOUS
  <2>1. /\ start = 0 /\ end = 0 /\ empties = 0 /\ toWrite = [from |-> 1, to |-> 0]
        /\ spc = "idle" /\ scanRes = "ok" /\ parts = <<>> /\ handlerErr = "nil"
        /\ flushed = FALSE /\ closed = FALSE /\ writeRes = "ok"
    BY DEF Init, ScannerInit
  <2>2. Unhandled.from = 1 /\ Unhandled.to = 0
    BY <2>1 DEF Unhandled
  <2>3. FailInv
    <3>1. 1..Len(parts) = {}
      BY <2>1
    <3>2. QED
      BY <2>1, <3>1 DEF FailInv, ErrTold
  <2>4. EmptyInv
    BY <2>1, ScannerAssumption DEF EmptyInv, AtRest
  <2>5. CharsInv /\ HandedInv /\ LineInv
    BY <2>1, <2>2 DEF CharsInv, HandedInv, LineInv
  <2>6. QED
    BY <2>3, <2>4, <2>5
<1>2. Init => SplitInv
  BY SplitInit
<1>3. ConsumerInv /\ [Next]_vars => ConsumerInv'
  BY ScanStep, ResultStep, PartsStep, FailStep, EmptyStep, CharsStep,
     HandedStep, LineStep
     DEF ConsumerInv, SplitInv, ScanInv
<1>4. QED
  BY <1>1, <1>2, <1>3, PTL DEF Spec, ConsumerInv

(* The buffer stays within maxTokenSize, its indices within the buffer and *)
(* the count of empty scans within its limit (scanner.go, split.go).       *)
THEOREM SplitTypes == Spec => []SplitTypeOK
<1>1. ConsumerInv => SplitTypeOK
  <2> SUFFICES ASSUME ConsumerInv PROVE SplitTypeOK
    OBVIOUS
  <2>1. IndexInv /\ ResultInv /\ PartsInv /\ EmptyInv /\ FailInv
    BY DEF ConsumerInv, SplitInv, ScanInv
  <2>2. start \in 0..end /\ end \in 0..Len(buf)
    BY <2>1, Numbers DEF IndexInv
  <2>3. empties \in 0..(MaxEmpties + 1)
    BY <2>1, ScannerAssumption DEF EmptyInv
  <2>4. toWrite.from \in 1..(MaxInput + 1) /\ toWrite.to \in 0..MaxInput
    BY <2>1 DEF IndexInv
  <2>5. /\ input \in [1..MaxInput -> Kinds] /\ buf \in Seq(Slots) /\ Len(buf) <= MaxTokenSize
        /\ spc \in {"idle", "fill", "split", "return"}
    BY <2>1 DEF IndexInv
  <2>6. /\ scanRes \in {"ok", "last", "bad", "tooLong", "noProgress"}
        /\ handlerErr \in Errors /\ flushed \in BOOLEAN /\ closed \in BOOLEAN
        /\ writeRes \in {"ok", "closed", "err"} /\ parts \in Seq(Part)
    BY <2>1 DEF ResultInv, FailInv, PartsInv
  <2>7. QED
    BY <2>2, <2>3, <2>4, <2>5, <2>6 DEF SplitTypeOK
<1>2. QED
  BY <1>1, ConsumerInvariant, PTL

(* A Write that has been taken leaves no complete line in the buffer (the  *)
(* loops of Scan, scanner.go).                                             *)
THEOREM LinesHanded == Spec => []LinesComplete
<1>1. ConsumerInv => LinesComplete
  <2> SUFFICES ASSUME ConsumerInv, spc = "idle", scanRes = "ok", handlerErr = "nil",
                      NEW b \in 1..toWrite.to, input[b] = "newline"
               PROVE  Ended(b)
    BY DEF LinesComplete, Ended
  <2>1. /\ toWrite.from = toWrite.to + 1 /\ Unhandled.from \in Nat /\ toWrite.to \in Nat
        /\ Unhandled.to = toWrite.from - 1
    BY Numbers DEF ConsumerInv, SplitInv, ScanInv, HandedInv, AtRest, Unhandled
  <2>2. b \notin Unhandled.from..Unhandled.to
    BY DEF ConsumerInv, CharsInv, AtRest
  <2>3. b \in 1..(Unhandled.from - 1)
    BY <2>1, <2>2
  <2>4. QED
    BY <2>3 DEF ConsumerInv, HandedInv
<1>2. QED
  BY <1>1, ConsumerInvariant, PTL

(* A token and a line that end at one byte are the same.                   *)
LEMMA OneLine ==
  ASSUME ConsumerInv, scanRes = "ok", NEW line \in Lines(toWrite.to),
         NEW k \in 1..Len(parts), ~parts[k].unhandled, parts[k].to = line.to
  PROVE  parts[k].from = line.from
<1> DEFINE f == parts[k].from
           g == line.from
<1>1. /\ g \in Nat \ {0} /\ line.to \in Nat /\ g <= line.to + 1
      /\ g = 1 \/ input[g - 1] = "newline"
      /\ \A b \in g..line.to : input[b] # "newline"
  BY ScannerAssumption DEF Lines
<1>2. /\ parts[k] \in Part /\ ~parts[k].last /\ f <= line.to + 1 /\ TokensAreLines
  BY DEF ConsumerInv, SplitInv, PartsInv, LineInv
<1>3. f \in Nat \ {0}
  BY <1>2, ScannerAssumption DEF Part
<1>4. /\ f = 1 \/ input[f - 1] = "newline"
      /\ \A b \in f..line.to : input[b] # "newline"
  <2>1. /\ f = 1 \/ input[f - 1] = "newline"
        /\ \A b \in f..(line.to - 1) : input[b] = "char"
        /\ line.to >= f => input[line.to] = "char"
    BY <1>2 DEF TokensAreLines
  <2>2. \A b \in f..line.to : b \in f..(line.to - 1) \/ (b = line.to /\ line.to >= f)
    BY <1>1, <1>3
  <2>3. QED
    BY <2>1, <2>2
<1>5. f < g => g - 1 \in f..line.to /\ g # 1
  BY <1>1, <1>3
<1>6. g < f => f - 1 \in g..line.to /\ f # 1
  BY <1>1, <1>2, <1>3
<1>7. ~(f < g) /\ ~(g < f)
  BY <1>1, <1>4, <1>5, <1>6
<1>8. QED
  BY <1>1, <1>3, <1>7

(* What was handed over as tokens is exactly the lines of what was written *)
(* (Scan, scanner.go, and scannerHandler.NewToken, split.go).              *)
THEOREM LinesExactly == Spec => []LinesExact
<1>1. ConsumerInv /\ LinesComplete => LinesExact
  <2> SUFFICES ASSUME ConsumerInv, LinesComplete, spc = "idle", scanRes = "ok", handlerErr = "nil"
               PROVE  Tokens = Lines(toWrite.to)
    BY DEF LinesExact
  <2>1. /\ toWrite.from = toWrite.to + 1 /\ toWrite.to \in Nat /\ toWrite.to <= MaxInput
        /\ Unhandled.from \in Nat /\ Unhandled.from <= toWrite.from
        /\ Unhandled.to = toWrite.to /\ MaxInput \in Nat
    <3>1. /\ toWrite.to \in Nat /\ toWrite.to <= MaxInput /\ MaxInput \in Nat
          /\ Unhandled.from = toWrite.from - (end - start) /\ Unhandled.from \in Nat
          /\ end - start \in Nat
      BY Numbers DEF ConsumerInv, SplitInv, ScanInv
    <3>2. toWrite.from = toWrite.to + 1
      BY DEF ConsumerInv, HandedInv, AtRest
    <3>3. Unhandled.to = toWrite.from - 1
      BY DEF Unhandled
    <3>4. QED
      BY <3>1, <3>2, <3>3
  <2>2. ASSUME NEW k \in 1..Len(parts), ~parts[k].unhandled
        PROVE  [from |-> parts[k].from, to |-> parts[k].to] \in Lines(toWrite.to)
    <3> DEFINE f == parts[k].from
               t == parts[k].to
    <3>1. parts[k] \in Part /\ ~parts[k].last /\ f <= t + 1 /\ t + 1 < Unhandled.from
      BY <2>2 DEF ConsumerInv, SplitInv, PartsInv, LineInv
    <3>2. /\ f = 1 \/ input[f - 1] = "newline"
          /\ \A b \in f..(t - 1) : input[b] = "char"
          /\ input[t + 1] = "newline" /\ (t >= f => input[t] = "char")
      BY <2>2, <3>1 DEF ConsumerInv, SplitInv, PartsInv, TokensAreLines
    <3>3. f \in 1..(MaxInput + 1) /\ t \in 0..MaxInput
      BY <3>1 DEF Part
    <3> HIDE DEF f, t
    <3>4. t < toWrite.to
      BY <2>1, <3>1, <3>3
    <3>5. \A b \in f..t : b \in f..(t - 1) \/ (b = t /\ t >= f)
      BY <2>1, <3>3
    <3>6. \A b \in f..t : input[b] # "newline"
      BY <3>2, <3>5
    <3>7. QED
      BY <3>1, <3>2, <3>3, <3>4, <3>6 DEF Lines, f, t
  <2>3. ASSUME NEW line \in Lines(toWrite.to)
        PROVE  \E k \in 1..Len(parts) : /\ ~parts[k].unhandled
                                        /\ line = [from |-> parts[k].from, to |-> parts[k].to]
    <3>1. /\ line \in [from: 1..(MaxInput + 1), to: 0..MaxInput]
          /\ line.to < toWrite.to /\ input[line.to + 1] = "newline"
      BY DEF Lines
    <3>2. line.to + 1 \in 1..toWrite.to
      BY <2>1, <3>1
    <3>3. PICK k \in 1..Len(parts) : parts[k].to + 1 = line.to + 1
      BY <3>1, <3>2 DEF LinesComplete
    <3>4. parts[k] \in Part
      BY DEF ConsumerInv, SplitInv, PartsInv
    <3>5. parts[k].to = line.to
      <4>1. parts[k].to \in Nat /\ line.to \in Nat
        BY <2>1, <3>1, <3>4 DEF Part
      <4>2. QED
        BY <3>3, <4>1
    <3>6. ~parts[k].unhandled
      BY <2>1, <3>1, <3>5 DEF ConsumerInv, LineInv
    <3>7. parts[k].from = line.from
      BY <3>5, <3>6, OneLine
    <3>8. line = [from |-> line.from, to |-> line.to]
      BY <3>1
    <3>9. QED
      BY <3>5, <3>6, <3>7, <3>8
  <2>4. QED
    BY <2>2, <2>3 DEF Tokens
<1>2. QED
  BY <1>1, ConsumerInvariant, LinesHanded, PTL

(* Close leaves no byte behind: what was cut was handed over as a token,   *)
(* the rest by flush (scannerHandler.NewToken and flush, split.go).        *)
THEOREM AllHanded == Spec => []NothingLost
<1>1. ConsumerInv => NothingLost
  <2> SUFFICES ASSUME ConsumerInv, closed, scanRes = "ok", handlerErr = "nil",
                      NEW b \in 1..toWrite.to, input[b] # "newline"
               PROVE  Covered(b)
    BY DEF NothingLost, Covered
  <2>1. /\ toWrite.from = toWrite.to + 1 /\ Unhandled.from \in Nat /\ toWrite.to \in Nat
        /\ Unhandled.to = toWrite.from - 1
    BY Numbers DEF ConsumerInv, SplitInv, ScanInv, HandedInv, AtRest, Unhandled, ResultInv
  <2>2. b \in 1..(Unhandled.from - 1) \/ b \in Unhandled.from..Unhandled.to
    BY <2>1
  <2>3. QED
    BY <2>2 DEF ConsumerInv, HandedInv
<1>2. QED
  BY <1>1, ConsumerInvariant, PTL

(* ErrTooLong and ErrNoProgress come for a long line only (prepareBuffer   *)
(* and the count of empty scans, scanner.go).                              *)
THEOREM GivesUpRight == Spec => []GivesUpOnlyIfLong
<1>1. ConsumerInv => GivesUpOnlyIfLong
  <2> SUFFICES ASSUME ConsumerInv, scanRes \in {"tooLong", "noProgress"}
               PROVE  /\ end - start >= IF scanRes = "tooLong" THEN MaxTokenSize
                                        ELSE MaxEmpties + 1
                      /\ \A i \in Window : input[InWindow(i)] = "char"
    BY DEF GivesUpOnlyIfLong
  <2>1. ScanInv /\ ResultInv /\ EmptyInv /\ CharsInv /\ IndexInv
    BY DEF ConsumerInv, SplitInv, ScanInv
  <2>2. spc \in {"idle", "return"}
    BY <2>1 DEF ResultInv, IndexInv
  <2>3. end - start >= IF scanRes = "tooLong" THEN MaxTokenSize ELSE MaxEmpties + 1
    <3>1. CASE scanRes = "tooLong"
      BY <2>1, <3>1 DEF EmptyInv
    <3>2. CASE scanRes = "noProgress"
      BY <2>1, <2>2, <3>2 DEF EmptyInv, AtRest
    <3>3. QED
      BY <3>1, <3>2
  <2>4. ASSUME NEW i \in Window PROVE input[InWindow(i)] = "char"
    <3>1. InWindow(i) = Unhandled.from + i - 1 /\ i \in Nat \ {0}
          /\ Unhandled.from + i <= toWrite.from /\ toWrite.from \in Nat
          /\ Unhandled.from \in Nat /\ Unhandled.to = toWrite.from - 1
      BY <2>1, WindowIsInput, Numbers DEF Unhandled
    <3>2. InWindow(i) \in Unhandled.from..Unhandled.to
      BY <3>1
    <3>3. QED
      BY <2>1, <2>2, <3>2 DEF CharsInv, AtRest
  <2>5. QED
    BY <2>3, <2>4
<1>2. QED
  BY <1>1, ConsumerInvariant, PTL

(* A handler that failed is given no further token, and Write answers with *)
(* its failure (scannerHandler.NewToken and Write, split.go).              *)
THEOREM FailureStops == Spec => []FailureStopsTokens
<1>1. ConsumerInv => FailureStopsTokens
  BY DEF ConsumerInv, FailInv, ErrTold, FailureStopsTokens
<1>2. QED
  BY <1>1, ConsumerInvariant, PTL

-----------------------------------------------------------------------------
(***************************************************************************)
(* Scan comes to an end.                                                   *)
(***************************************************************************)

(* Of the positions of some bytes in the window one is the first.          *)
LEMMA FirstPosition ==
  ASSUME NEW T \in SUBSET Nat, T # {}
  PROVE  \E i \in T : \A j \in T : ~(j < i)
<1> DEFINE R == {ss \in Nat \X Nat : ss[1] < ss[2]}
<1>1. IsWellFoundedOn(R, Nat)
  BY NatLessThanWellFounded DEF OpToRel
<1>2. \E i \in T : \A j \in T : ~(<<j, i>> \in R)
  <2> HIDE DEF R
  <2> QED
    BY <1>1, WFMin
<1>3. PICK i \in T : \A j \in T : ~(<<j, i>> \in R)
  BY <1>2
<1>4. ASSUME NEW j \in T PROVE ~(j < i)
  <2>1. i \in Nat /\ j \in Nat /\ ~(<<j, i>> \in R)
    BY <1>3
  <2>2. QED
    BY <2>1
<1>5. QED
  BY <1>4

(* Deadlock freedom: the buffer has room, can be shifted or is full, and   *)
(* one of the split function's answers is the case (prepareBuffer and Scan,*)
(* scanner.go).                                                            *)
THEOREM ScanGoesOn == Spec => []ScanNeverStuck
<1>1. SplitInv => ScanNeverStuck
  <2> SUFFICES ASSUME SplitInv PROVE ScanNeverStuck
    OBVIOUS
  <2>0. ScanInv /\ IndexInv
    BY DEF SplitInv, ScanInv
  <2>1. ASSUME spc = "fill" PROVE ShouldShift \/ end < Len(buf) \/ Full
    <3>1. end \in Nat /\ Len(buf) \in Nat /\ end <= Len(buf)
      BY <2>0, Numbers DEF IndexInv
    <3>2. ~(end < Len(buf)) => end = Len(buf)
      BY <3>1
    <3>3. QED
      BY <2>1, <3>2 DEF Full
  <2>2. ASSUME spc = "split", NEW i0 \in Window, input[InWindow(i0)] # "char"
        PROVE  \E i \in Window, kind \in Kinds \ {"char"} : Finds(i, kind)
    <3> DEFINE T == {i \in Window : input[InWindow(i)] # "char"}
    <3>1. Window \subseteq Nat
      BY <2>0, Numbers DEF Window
    <3>2. T \in SUBSET Nat /\ T # {}
      BY <2>2, <3>1
    <3>3. PICK i \in T : \A j \in T : ~(j < i)
      <4> HIDE DEF T
      <4> QED
        BY <3>2, FirstPosition
    <3>4. i \in Window /\ input[InWindow(i)] # "char"
      OBVIOUS
    <3>5. input[InWindow(i)] \in Kinds
      <4>1. InWindow(i) \in 1..MaxInput
        BY <2>0, <3>4, WindowIsInput
      <4>2. QED
        BY <2>0, <4>1 DEF IndexInv
    <3>6. ASSUME NEW j \in 1..(i - 1) PROVE input[InWindow(j)] = "char"
      <4>1. j \in Window /\ j < i
        <5>1. i \in Nat /\ i <= end - start /\ end - start \in Nat
          BY <2>0, <3>4, Numbers DEF Window
        <5>2. QED
          BY <5>1 DEF Window
      <4>2. j \notin T
        BY <3>3, <4>1
      <4>3. QED
        BY <4>1, <4>2
    <3>7. Finds(i, input[InWindow(i)])
      BY <2>2, <3>6 DEF Finds
    <3>8. QED
      BY <3>4, <3>5, <3>7
  <2>3. QED
    BY <2>1, <2>2 DEF ScanNeverStuck
<1>2. QED
  BY <1>1, SplitInvariant, PTL

(* The phase of Scan.                                                      *)
Phase == CASE spc = "split" -> 2 [] spc = "fill" -> 1 [] OTHER -> 0

(* A step of Scan lowers the count.                                        *)
LEMMA ScanNearer ==
  ASSUME SplitInv, [Next]_vars, spc # "idle", spc' # "idle", vars' # vars
  PROVE  ScanSteps' < ScanSteps
<1> DEFINE f == toWrite.from
           t == toWrite.to
           w == end - start
<1>0. ScanInv /\ IndexInv /\ ScanInv' /\ IndexInv'
  BY ScanStep DEF SplitInv, ScanInv
<1>1. f \in Int /\ t \in Int /\ w \in Int /\ start \in Int /\ end \in Int
  BY <1>0, Numbers
<1>2. f' \in Int /\ t' \in Int /\ w' \in Int /\ Unhandled'.from = f' - w'
  <2>1. start' \in Nat /\ end' \in Nat /\ toWrite'.from \in Nat /\ toWrite'.to \in Nat
    BY <1>0, ScannerAssumption, SMTT(30) DEF IndexInv
  <2>2. Unhandled'.from = toWrite'.from - (end' - start')
    BY DEF Unhandled
  <2>3. QED
    BY <2>1, <2>2
<1>3. ScanSteps = 3 * (t - f + 1) + w + Phase
  BY DEF ScanSteps, Size, Phase
<1>4. ScanSteps' = 3 * (t' - f' + 1) + w' + Phase'
  BY DEF ScanSteps, Size, Phase
<1>5. CASE FillsBuffer
  <2>1. spc = "fill" /\ spc' = "split" /\ t' = t
    <3>1. toWrite \in [from: 1..(MaxInput + 1), to: 0..MaxInput]
      BY <1>0 DEF IndexInv
    <3>2. QED
      BY <1>5, <3>1 DEF FillsBuffer, Fill, FillShifted, FillGrown, Full, CopyRemain
  <2>2. Phase = 1 /\ Phase' = 2
    BY <2>1 DEF Phase
  <2>3. w' > w
    BY <1>0, <1>5, FillAdds DEF FillsBuffer
  <2>4. f' - w' = f - w
    <3>1. Unhandled'.from = Unhandled.from /\ Unhandled.from = f - w
      BY <1>0, <1>5, FillKeepsOrder, Numbers DEF FillsBuffer
    <3>2. QED
      BY <1>2, <3>1
  <2>5. QED
    BY ONLY <1>1, <1>2, <1>3, <1>4, <2>1, <2>2, <2>3, <2>4
<1>6. CASE TooLong \/ ScanLoops
  <2>1. UNCHANGED <<start, end, toWrite>>
    BY <1>6 DEF TooLong, ScanLoops, NoToken, WindowDone, bufVars
  <2>2. \/ spc = "split" /\ spc' \in {"fill", "return"}
        \/ spc = "fill" /\ spc' = "return"
    BY <1>6 DEF TooLong, Full, ScanLoops, NoToken, WindowDone, LoopEnds, Return
  <2>3. Phase \in Int /\ Phase' \in Int /\ Phase' < Phase
    BY <2>2 DEF Phase
  <2>4. w' = w /\ t' = t /\ f' = f
    BY <2>1
  <2>5. QED
    BY ONLY <1>1, <1>3, <1>4, <2>3, <2>4
<1>7. ASSUME NEW n \in Nat, start' = start + n, UNCHANGED <<end, toWrite>>,
             spc = "split", spc' = "return" \/ (spc' = "split" /\ n # 0)
      PROVE  ScanSteps' < ScanSteps
  <2>1. Phase = 2 /\ Phase' \in {0, 2} /\ (n = 0 => Phase' = 0)
    BY <1>7 DEF Phase
  <2>2. w' = w - n /\ t' = t /\ f' = f
    BY <1>1, <1>7
  <2>3. QED
    BY ONLY <1>1, <1>3, <1>4, <2>1, <2>2, n \in Nat
<1>8. CASE HandsLine
  <2>1. PICK i \in Window : CutLine(i)
    BY <1>8 DEF HandsLine
  <2>2. i \in Nat /\ i # 0
    BY <1>0, WindowIsInput
  <2>3. QED
    BY <1>7, <2>1, <2>2 DEF CutLine, Finds
<1>9. CASE HandsLast
  <2>1. PICK i \in Window : \E n \in 0..i : CutLast(i, n)
    BY <1>9 DEF HandsLast
  <2>2. PICK n \in 0..i : CutLast(i, n)
    BY <2>1
  <2>3. n \in Nat
    BY <1>0, WindowIsInput
  <2>4. QED
    BY <1>7, <2>2, <2>3 DEF CutLast, Finds, Return
<1>10. CASE ScanFails /\ ~TooLong
  <2>1. PICK i \in Window : \E n \in 0..(end - start) : SplitFails(i, n)
    BY <1>10 DEF ScanFails
  <2>2. PICK n \in 0..(end - start) : SplitFails(i, n)
    BY <2>1
  <2>3. n \in Nat
    BY <1>1
  <2>4. QED
    BY <1>7, <2>2, <2>3 DEF SplitFails, Finds, Return
<1>11. CASE Write \/ WriteRefused \/ WriteHandlerErr \/ WriteOk \/ WriteEnds \/ Close
  BY <1>11 DEF Write, WriteRefused, ScanCalled, WriteHandlerErr, WriteOk, WriteEnds,
               BackFromScan, Close
<1>12. QED
  BY <1>5, <1>6, <1>8, <1>9, <1>10, <1>11 DEF Next, Scans, ScanFails

(* Scan's loops end, for every input, chunks and sizes: the count is at    *)
(* most linear in what was written and each step lowers it.                *)
THEOREM ScanEnds ==
  Spec => [](ScanSteps \in 0..(3 * MaxInput + MaxTokenSize + 2)) /\ ScanComesNearer
<1>1. SplitInv => ScanSteps \in 0..(3 * MaxInput + MaxTokenSize + 2)
  <2> SUFFICES ASSUME SplitInv
               PROVE  ScanSteps \in 0..(3 * MaxInput + MaxTokenSize + 2)
    OBVIOUS
  <2> DEFINE r == Size(toWrite)
             w == end - start
  <2>0. IndexInv
    BY DEF SplitInv, ScanInv
  <2>1. /\ toWrite.from \in Nat \ {0} /\ toWrite.to \in Nat /\ toWrite.to <= MaxInput
        /\ toWrite.from <= toWrite.to + 1 /\ MaxInput \in Nat /\ MaxTokenSize \in Nat
        /\ start \in Nat /\ end \in Nat /\ start <= end /\ Len(buf) \in Nat
        /\ end <= Len(buf) /\ Len(buf) <= MaxTokenSize
    BY <2>0, Numbers DEF IndexInv
  <2>2. r \in 0..MaxInput
    BY <2>1 DEF Size
  <2>3. w \in 0..MaxTokenSize
    BY <2>1
  <2>4. ScanSteps = 3 * r + w + Phase /\ Phase \in 0..2
    BY DEF ScanSteps, Phase
  <2> HIDE DEF r, w
  <2>5. QED
    BY <2>1, <2>2, <2>3, <2>4
<1>2. SplitInv /\ [Next]_vars => [spc # "idle" /\ spc' # "idle" => ScanSteps' < ScanSteps]_vars
  BY ScanNearer
<1>3. QED
  BY <1>1, <1>2, SplitInvariant, PTL DEF Spec, ScanComesNearer

-----------------------------------------------------------------------------
(***************************************************************************)
(* A SplitConsumer answers as ConsumerContract wants.                      *)
(***************************************************************************)

(* Functions of one consumer are their values.                             *)
LEMMA OneValue ==
  ASSUME NEW e, NEW x
  PROVE  /\ [c \in One |-> e][0] = e
         /\ [[c \in One |-> e] EXCEPT ![0] = x] = [c \in One |-> x]
BY DEF One

Answer == IF writeRes = "err" THEN "failed" ELSE writeRes

(* The contract's actions, of this consumer.                               *)
LEMMA ServedOffer ==
  ASSUME NEW n \in 1..MaxInput, spc = "idle", spc' # "idle", writeRes = "ok", ~closed,
         toWrite.from = toWrite.to + 1, toWrite'.to = toWrite.to + n,
         toWrite'.from = toWrite.from, UNCHANGED <<writeRes, closed>>
  PROVE  Served!Offer(0, n)
<1>1. (spc # "idle") = FALSE /\ (spc' # "idle") = TRUE
  OBVIOUS
<1>2. /\ [c \in One |-> toWrite'.to] = [[c \in One |-> toWrite.to] EXCEPT ![0] = @ + n]
      /\ [c \in One |-> spc' # "idle"] = [[c \in One |-> spc # "idle"] EXCEPT ![0] = TRUE]
  BY <1>1 DEF One
<1>3. QED
  BY <1>1, <1>2, OneValue DEF Served!Offer, One

LEMMA ServedTake ==
  ASSUME NEW n \in Nat, spc # "idle", n <= toWrite.to - toWrite.from + 1,
         toWrite'.from = toWrite.from + n, toWrite'.to = toWrite.to,
         toWrite.from \in Nat, toWrite.to \in Nat,
         spc' # "idle" \/ toWrite'.from = toWrite.to + 1, UNCHANGED <<writeRes, closed>>
  PROVE  Served!ConsumerStep(0)
<1>1. /\ [c \in One |-> toWrite'.from] = [[c \in One |-> toWrite.from] EXCEPT ![0] = @ + n]
      /\ [c \in One |-> spc' # "idle"]
           = [[c \in One |-> spc # "idle"] EXCEPT ![0] = (spc' # "idle")]
  BY DEF One
<1>2. (spc # "idle") = TRUE
  OBVIOUS
<1>3. (spc' # "idle") = TRUE => Served!Take(0, n, TRUE)
  BY <1>1, <1>2 DEF Served!Take, One
<1>4. (spc' # "idle") = FALSE => Served!Take(0, n, FALSE)
  BY <1>1, <1>2 DEF Served!Take, One
<1>5. n \in 0..([c \in One |-> toWrite.to][0] - [c \in One |-> toWrite.from][0] + 1)
  BY DEF One
<1>6. QED
  BY <1>3, <1>4, <1>5 DEF Served!ConsumerStep

LEMMA ServedRefuse ==
  ASSUME NEW err \in {"closed", "failed"}, spc # "idle", spc' = "idle", toWrite' = toWrite,
         Answer' = err, closed' = closed \/ (err = "closed" /\ closed' = TRUE)
  PROVE  Served!ConsumerStep(0)
<1>1. (spc # "idle") = TRUE /\ (spc' # "idle") = FALSE
  OBVIOUS
<1>2. [c \in One |-> spc' # "idle"] = [[c \in One |-> spc # "idle"] EXCEPT ![0] = FALSE]
  BY <1>1 DEF One
<1>5. [c \in One |-> Answer'] = [[c \in One |-> Answer] EXCEPT ![0] = err]
  BY OneValue, ZenonT(40)
<1>3. \/ [c \in One |-> closed'] = [c \in One |-> closed]
      \/ /\ err = "closed"
         /\ [c \in One |-> closed'] = [[c \in One |-> closed] EXCEPT ![0] = TRUE]
  BY DEF One
<1>4. Served!Refuse(0, err)
  BY <1>1, <1>2, <1>3, <1>5 DEF Served!Refuse, One, Answer
<1>6. QED
  BY <1>4 DEF Served!ConsumerStep

LEMMA ServedClose ==
  ASSUME spc = "idle", spc' = "idle", toWrite' = toWrite, writeRes' = writeRes, closed' = TRUE
  PROVE  Served!ConsumerStep(0)
<1>1. (spc # "idle") = FALSE /\ (spc' # "idle") = FALSE
  OBVIOUS
<1>2. [c \in One |-> closed'] = [[c \in One |-> closed] EXCEPT ![0] = TRUE]
  BY DEF One
<1>3. [c \in One |-> spc' # "idle"] = [c \in One |-> spc # "idle"]
  BY <1>1
<1>4. Served!Close(0)
  BY <1>1, <1>2, <1>3 DEF Served!Close, One
<1>5. QED
  BY <1>4 DEF Served!ConsumerStep

(* Each step of this consumer is one of the contract or shows nothing.     *)
LEMMA ServedStep ==
  ASSUME ConsumerInv, [Next]_vars
  PROVE  [Served!ConsumerStep(0)]_(Served!consumerState)
<1>1. /\ toWrite \in [from: 1..(MaxInput + 1), to: 0..MaxInput] /\ MaxInput \in Nat
      /\ toWrite.from \in Nat /\ toWrite.to \in Nat /\ toWrite.from <= toWrite.to + 1
      /\ AtRest({"ok"}) => toWrite.from = toWrite.to + 1
      /\ ResultInv /\ IndexInv
  BY ScannerAssumption DEF ConsumerInv, SplitInv, ScanInv, IndexInv, HandedInv
<1>2. ASSUME toWrite' = toWrite, spc' = spc, UNCHANGED <<writeRes, closed>>
      PROVE  UNCHANGED Served!consumerState
  BY <1>2 DEF Served!consumerState
<1>3. ASSUME spc # "idle", spc' # "idle", toWrite' = toWrite, UNCHANGED <<writeRes, closed>>
      PROVE  Served!ConsumerStep(0)
  BY <1>1, <1>3, ServedTake
<1>4. CASE Write
  <2>1. PICK n \in 1..MaxInput : ScanCalled(n)
    BY <1>4 DEF Write
  <2>2. /\ spc = "idle" /\ spc' # "idle" /\ writeRes = "ok" /\ ~closed
        /\ toWrite'.to = toWrite.to + n /\ toWrite'.from = toWrite.from
        /\ UNCHANGED <<writeRes, closed>>
    BY <1>4, <2>1 DEF Write, ScanCalled, consumerVars
  <2>3. toWrite.from = toWrite.to + 1
    BY <1>1, <2>2 DEF ResultInv, AtRest
  <2>4. Served!Offer(0, n)
    BY <2>2, <2>3, ServedOffer
  <2>5. QED
    BY <2>4 DEF Served!ConsumerStep
<1>5. CASE FillsBuffer
  <2> DEFINE n == (end' - start') - (end - start)
  <2>1. /\ Unhandled'.from = Unhandled.from /\ end' - start' > end - start
        /\ toWrite'.from <= toWrite'.to + 1 /\ toWrite'.from \in Nat
        /\ start' \in Nat /\ end' \in Nat /\ start \in Nat /\ end \in Nat
    <3>1. ScanInv /\ IndexInv
      BY DEF ConsumerInv, SplitInv, ScanInv
    <3>2. ScanInv' /\ Unhandled'.from = Unhandled.from /\ end' - start' > end - start
      BY <1>5, <3>1, FillKeepsOrder, FillAdds DEF FillsBuffer
    <3>3. IndexInv'
      BY <3>2 DEF ScanInv
    <3>4. toWrite'.from \in Nat
      BY <3>3, ScannerAssumption DEF IndexInv
    <3>5. QED
      BY <3>1, <3>2, <3>3, <3>4 DEF IndexInv
  <2>2. /\ spc # "idle" /\ spc' # "idle" /\ toWrite'.to = toWrite.to
        /\ UNCHANGED <<writeRes, closed>>
    <3>1. spc = "fill" /\ spc' = "split" /\ \E k : toWrite' = [toWrite EXCEPT !.from = k]
      BY <1>5 DEF FillsBuffer, Fill, FillShifted, FillGrown, Full, CopyRemain
    <3>2. QED
      BY <1>1, <1>5, <3>1 DEF FillsBuffer, consumerVars
  <2>3. toWrite'.from - (end' - start') = toWrite.from - (end - start)
    BY <2>1 DEF Unhandled
  <2>4. toWrite'.from = toWrite.from + n /\ n \in Nat /\ n <= toWrite.to - toWrite.from + 1
    BY <1>1, <2>1, <2>2, <2>3
  <2> HIDE DEF n
  <2>5. QED
    BY <1>1, <2>2, <2>4, ServedTake
<1>6. CASE ScanFails \/ ScanLoops \/ HandsLine \/ HandsLast
  <2>1. spc # "idle" /\ spc' # "idle" /\ toWrite' = toWrite
    BY <1>6 DEF ScanFails, TooLong, Full, SplitFails, Finds, Return, ScanLoops, NoToken,
                WindowDone, LoopEnds, HandsLine, CutLine, HandsLast, CutLast, bufVars
  <2>2. UNCHANGED <<writeRes, closed>>
    BY <1>6 DEF ScanFails, ScanLoops, HandsLine, HandsLast, NewToken, consumerVars
  <2>3. QED
    BY <1>3, <2>1, <2>2
<1>7. CASE WriteHandlerErr
  <2>1. /\ spc # "idle" /\ spc' = "idle" /\ toWrite' = toWrite /\ closed' = closed
        /\ writeRes' = IF handlerErr = "closed" THEN "closed" ELSE "err"
    BY <1>7 DEF WriteHandlerErr, BackFromScan, bufVars
  <2>2. \/ handlerErr = "closed" /\ writeRes' = "closed" /\ Answer' = "closed"
        \/ handlerErr # "closed" /\ writeRes' = "err" /\ Answer' = "failed"
    BY <2>1 DEF Answer
  <2>3. QED
    BY <2>1, <2>2, ServedRefuse
<1>8. CASE WriteOk
  <2>1. /\ spc = "return" /\ spc' = "idle" /\ toWrite' = toWrite /\ scanRes = "ok"
        /\ UNCHANGED <<writeRes, closed>>
    BY <1>8 DEF WriteOk, BackFromScan, bufVars, consumerVars
  <2>2. toWrite.from = toWrite.to + 1
    BY <1>1, <2>1 DEF AtRest
  <2>3. QED
    BY <1>1, <2>1, <2>2, ServedTake
<1>9. CASE WriteEnds
  <2>1. /\ spc # "idle" /\ spc' = "idle" /\ toWrite' = toWrite /\ closed' = TRUE
        /\ writeRes' = "closed"
    BY <1>9 DEF WriteEnds, BackFromScan, bufVars
  <2>2. QED
    BY <2>1, ServedRefuse DEF Answer
<1>10. CASE Close
  <2>1. spc = "idle" /\ closed' = TRUE /\ UNCHANGED <<spc, toWrite, writeRes>>
    BY <1>10 DEF Close, scanVars
  <2>2. QED
    BY <2>1, ServedClose
<1>11. CASE WriteRefused \/ UNCHANGED vars
  BY <1>2, <1>11 DEF WriteRefused, vars, scanVars, consumerVars
<1>12. QED
  BY <1>4, <1>5, <1>6, <1>7, <1>8, <1>9, <1>10, <1>11 DEF Next, Scans

(* A SplitConsumer is a Consumer as a pipe wants it: a Write that answers  *)
(* nil has taken all its bytes, one that is refused is the last, and Close *)
(* or ErrClosed shut it for good (Write, split.go; BaseConsumer, base.go). *)
THEOREM SplitIsConsumer == Spec => IsConsumer
<1>1. Init => Served!ConsumerInit
  <2> SUFFICES ASSUME Init PROVE Served!ConsumerInit
    OBVIOUS
  <2>1. toWrite = [from |-> 1, to |-> 0] /\ spc = "idle" /\ closed = FALSE /\ writeRes = "ok"
    BY DEF Init, ScannerInit
  <2>2. QED
    BY <2>1 DEF Served!ConsumerInit
<1>2. ConsumerInv /\ [Next]_vars
        => [\E c \in One : Served!ConsumerStep(c)]_(Served!consumerState)
  BY ServedStep DEF One
<1>3. QED
  BY <1>1, <1>2, ConsumerInvariant, PTL DEF Spec, IsConsumer, Served!ConsumerSpec

=============================================================================
