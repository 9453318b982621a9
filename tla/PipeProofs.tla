----------------------------- MODULE PipeProofs -----------------------------
(***************************************************************************)
(* Proofs about Pipe, for any number of pipes, any capacity of the channel,*)
(* any chunk size and any length of the input: PipeInv is inductive, and   *)
(* the safety properties of the pipe follow from it.                       *)
(***************************************************************************)
EXTENDS Pipe, TLAPS

(* A step of pipe p, whoever makes it.                                     *)
Step(p) == Begin(p) \/ Finish(p) \/ Cycle(p)

PartsInv(p) ==
  FlagsInv(p) /\ PhaseInv(p) /\ OutcomeInv(p) /\ ChainInv(p) /\ ResultInv(p)

(* Nothing of pipe p changes.                                              *)
Same(p) ==
  /\ writeCh'[p] = writeCh[p] /\ writeClosed'[p] = writeClosed[p]
  /\ endClosed'[p] = endClosed[p] /\ writeErr'[p] = writeErr[p]
  /\ stopped'[p] = stopped[p] /\ resultErr'[p] = resultErr[p]
  /\ call'[p] = call[p] /\ closeErr'[p] = closeErr[p]
  /\ cycle'[p] = cycle[p] /\ data'[p] = data[p]
  /\ accepted'[p] = accepted[p] /\ outcome'[p] = outcome[p]
  /\ consClosed'[p] = consClosed[p] /\ sent'[p] = sent[p]

(* The parts of the invariant of a pipe depend on that pipe alone.         *)
LEMMA SameParts ==
  ASSUME NEW p \in Pipes, Same(p), PartsInv(p)
  PROVE  PartsInv(p)'
<1>1. Taken(p)' = Taken(p)
  BY DEF Same, Taken
<1>2. FlagsInv(p)' /\ PhaseInv(p)'
  BY DEF Same, PartsInv, FlagsInv, PhaseInv
<1>3. OutcomeInv(p)' /\ ResultInv(p)'
  BY DEF Same, PartsInv, OutcomeInv, ResultInv
<1>4. ChainInv(p)'
  BY <1>1 DEF Same, PartsInv, ChainInv, IsEmpty
<1>5. QED
  BY <1>2, <1>3, <1>4 DEF PartsInv

(* The initial states satisfy the invariant.                               *)
LEMMA InitInv == PipeInit => PipeInv
<1> SUFFICES ASSUME PipeInit PROVE PipeInv
  OBVIOUS
<1> USE PipeAssumption
<1>1. PipeVarsOK
  <2>1. NoChunk \in Chunk
    BY DEF NoChunk, Chunk
  <2>2. QED
    BY <2>1 DEF PipeInit, PipeVarsOK
<1>2. ASSUME NEW p \in Pipes PROVE PartsInv(p)
  <2>1. FlagsInv(p) /\ PhaseInv(p) /\ OutcomeInv(p) /\ ResultInv(p)
    BY DEF PipeInit, FlagsInv, PhaseInv, OutcomeInv, ResultInv
  <2>2. ChainInv(p)
    BY DEF PipeInit, ChainInv, Taken, Cap
  <2>3. QED
    BY <2>1, <2>2 DEF PartsInv
<1>3. QED
  BY <1>1, <1>2 DEF PipeInv, PartsInv

-----------------------------------------------------------------------------
(***************************************************************************)
(* One step of pipe p keeps each part of p's invariant.                    *)
(***************************************************************************)

(* What is known in the state a step leaves from.                          *)
LEMMA PartsOf ==
  ASSUME PipeInv, NEW p \in Pipes
  PROVE  FlagsInv(p) /\ PhaseInv(p) /\ OutcomeInv(p) /\ ChainInv(p) /\ ResultInv(p)
BY DEF PipeInv

LEMMA FlagsStep ==
  ASSUME PipeInv, NEW p \in Pipes, Step(p)
  PROVE  FlagsInv(p)'
<1> USE PartsOf DEF PipeInv, PipeVarsOK, chanVars, stopVars, consVars, pipeVars,
        FlagsInv
<1>1. CASE Begin(p)
  BY <1>1 DEF Begin, StopEnter, StopAgain, WriteRefused, WriteSeesError, WriteEnter,
              BeginStop
<1>2. CASE Finish(p)
  <2>1. CASE StopCheck(p)
    BY <2>1 DEF StopCheck
  <2>2. CASE StopWait(p) \/ StopClose(p) \/ StopReturn(p)
    BY <2>2 DEF StopWait, StopClose, StopReturn, PhaseInv
  <2>3. CASE PushSeesEnd(p)
    BY <2>3 DEF PushSeesEnd, BeginStop
  <2>4. ASSUME NEW c \in Offers(p), Push(p, c) PROVE FlagsInv(p)'
    BY <2>4 DEF Push, PushBuffered, PushDirect, AfterTaking
  <2>5. QED
    BY <1>2, <2>1, <2>2, <2>3, <2>4 DEF Finish
<1>3. CASE Cycle(p)
  <2>1. CASE Receive(p)
    <3>1. AfterTaking(Head(writeCh[p])) \in {"recv", "write"}
      BY DEF AfterTaking
    <3>2. QED
      BY <2>1, <3>1 DEF Receive
  <2>2. CASE ReceiveClosed(p) \/ SetWriteErr(p) \/ CloseEnd(p)
    BY <2>2 DEF ReceiveClosed, SetWriteErr, CloseEnd
  <2>3. CASE Consume(p)
    BY <2>3 DEF Consume, ConsumerTakes, ConsumerDone, ConsumerFails
  <2>4. QED
    BY <1>3, <2>1, <2>2, <2>3 DEF Cycle
<1>4. QED
  BY <1>1, <1>2, <1>3 DEF Step

LEMMA PhaseStep ==
  ASSUME PipeInv, NEW p \in Pipes, Step(p)
  PROVE  PhaseInv(p)'
<1> USE PartsOf DEF PipeInv, PipeVarsOK, chanVars, stopVars, consVars, pipeVars,
        PhaseInv, FlagsInv
<1>1. CASE Begin(p)
  BY <1>1 DEF Begin, StopEnter, StopAgain, WriteRefused, WriteSeesError, WriteEnter,
              BeginStop
<1>2. CASE Finish(p)
  <2>1. CASE StopCheck(p)
    <3>1. writeErr[p] # {} => cycle[p] \in {"end", "done"}
      BY DEF OutcomeInv
    <3>2. QED
      BY <2>1, <3>1 DEF StopCheck
  <2>2. CASE StopWait(p) \/ StopClose(p) \/ StopReturn(p)
    BY <2>2 DEF StopWait, StopClose, StopReturn
  <2>3. CASE PushSeesEnd(p)
    BY <2>3 DEF PushSeesEnd, BeginStop
  <2>4. ASSUME NEW c \in Offers(p), Push(p, c) PROVE PhaseInv(p)'
    BY <2>4 DEF Push, PushBuffered, PushDirect, AfterTaking
  <2>5. QED
    BY <1>2, <2>1, <2>2, <2>3, <2>4 DEF Finish
<1>3. CASE Cycle(p)
  <2>1. cycle[p] \notin {"end", "done"} => ~consClosed[p] /\ call[p] # "close"
    OBVIOUS
  <2>2. CASE Receive(p) \/ ReceiveClosed(p)
    BY <2>1, <2>2 DEF Receive, ReceiveClosed
  <2>3. CASE SetWriteErr(p) \/ CloseEnd(p)
    BY <2>3 DEF SetWriteErr, CloseEnd
  <2>4. CASE Consume(p)
    BY <2>1, <2>4 DEF Consume, ConsumerTakes, ConsumerDone, ConsumerFails
  <2>5. QED
    BY <1>3, <2>2, <2>3, <2>4 DEF Cycle
<1>4. QED
  BY <1>1, <1>2, <1>3 DEF Step

LEMMA OutcomeStep ==
  ASSUME PipeInv, NEW p \in Pipes, Step(p)
  PROVE  OutcomeInv(p)'
<1> USE PartsOf DEF PipeInv, PipeVarsOK, chanVars, stopVars, consVars, pipeVars,
        OutcomeInv
<1>1. CASE Begin(p)
  BY <1>1 DEF Begin, StopEnter, StopAgain, WriteRefused, WriteSeesError, WriteEnter
<1>2. CASE Finish(p)
  <2>1. CASE StopCheck(p) \/ StopWait(p) \/ StopClose(p) \/ StopReturn(p) \/ PushSeesEnd(p)
    BY <2>1 DEF StopCheck, StopWait, StopClose, StopReturn, PushSeesEnd
  <2>2. ASSUME NEW c \in Offers(p), Push(p, c) PROVE OutcomeInv(p)'
    BY <2>2 DEF Push, PushBuffered, PushDirect, AfterTaking
  <2>3. QED
    BY <1>2, <2>1, <2>2 DEF Finish
<1>3. CASE Cycle(p)
  <2>1. CASE Receive(p)
    <3>1. AfterTaking(Head(writeCh[p])) \in {"recv", "write"}
      BY DEF AfterTaking
    <3>2. QED
      BY <2>1, <3>1 DEF Receive
  <2>2. CASE ReceiveClosed(p) \/ CloseEnd(p)
    BY <2>2 DEF ReceiveClosed, CloseEnd
  <2>3. CASE SetWriteErr(p)
    <3>1. outcome[p] = "failed" /\ writeErr'[p] = {"write"}
      BY <2>3 DEF SetWriteErr
    <3>2. QED
      BY <2>3, <3>1 DEF SetWriteErr
  <2>4. CASE Consume(p)
    BY <2>4 DEF Consume, ConsumerTakes, ConsumerDone, ConsumerFails
  <2>5. QED
    BY <1>3, <2>1, <2>2, <2>3, <2>4 DEF Cycle
<1>4. QED
  BY <1>1, <1>2, <1>3 DEF Step

LEMMA ResultFrame ==
  ASSUME NEW p \in Pipes, ResultInv(p),
         UNCHANGED <<writeErr, stopped, resultErr, call, closeErr, consClosed>>
  PROVE  ResultInv(p)'
BY DEF ResultInv

LEMMA ResultStep ==
  ASSUME PipeInv, NEW p \in Pipes, Step(p)
  PROVE  ResultInv(p)'
<1> USE PartsOf DEF PipeInv, PipeVarsOK, chanVars, stopVars, consVars, pipeVars,
        ResultInv, FlagsInv, PhaseInv
<1>1. CASE Begin(p)
  BY <1>1, ZenonT(40) DEF Begin, StopEnter, StopAgain, WriteRefused, WriteSeesError, WriteEnter,
              BeginStop
<1>2. CASE Finish(p)
  <2>1. CASE StopCheck(p) \/ StopWait(p) \/ StopClose(p)
    BY <2>1, ZenonT(40) DEF StopCheck, StopWait, StopClose
  <2>2. CASE StopReturn(p)
    <3>1. resultErr[p] = {} /\ stopped[p] /\ consClosed[p]
      BY <2>2 DEF StopReturn
    <3>2. resultErr'[p] = writeErr[p] \union closeErr[p]
      BY <2>2, <3>1 DEF StopReturn
    <3>3. stopped'[p] /\ call'[p] = "none" /\ consClosed'[p]
      BY <2>2, <3>1 DEF StopReturn
    <3>4. writeErr' = writeErr /\ closeErr' = closeErr
      BY <2>2 DEF StopReturn
    <3>5. QED
      BY <3>2, <3>3, <3>4
  <2>3. CASE PushSeesEnd(p)
    BY <2>3 DEF PushSeesEnd, BeginStop
  <2>4. ASSUME NEW c \in Offers(p), Push(p, c) PROVE ResultInv(p)'
    <3>1. ~stopped[p] /\ UNCHANGED <<stopped, resultErr, closeErr, consClosed>>
      BY <2>4 DEF Push, PushBuffered, PushDirect
    <3>2. resultErr'[p] = {} /\ ~stopped'[p]
      BY <3>1
    <3>3. ~consClosed'[p] => closeErr'[p] = {}
      BY <3>1
    <3>4. QED
      BY <3>2, <3>3
  <2>5. QED
    BY <1>2, <2>1, <2>2, <2>3, <2>4 DEF Finish
<1>3. CASE Cycle(p)
  <2>1. CASE SetWriteErr(p)
    <3>1. ~consClosed[p]
      BY <2>1 DEF SetWriteErr
    <3>2. resultErr'[p] = {} /\ closeErr'[p] = {}
      BY <2>1, <3>1 DEF SetWriteErr
    <3>3. ~(stopped'[p] /\ call'[p] = "none")
      BY <2>1, <3>1 DEF SetWriteErr
    <3>4. QED
      BY <3>2, <3>3
  <2>2. CASE Receive(p) \/ ReceiveClosed(p) \/ CloseEnd(p)
    <3>1. UNCHANGED <<writeErr, stopped, resultErr, call, closeErr, consClosed>>
      BY <2>2 DEF Receive, ReceiveClosed, CloseEnd
    <3>2. QED
      BY <3>1, ResultFrame
  <2>3. CASE Consume(p)
    <3>1. UNCHANGED <<writeErr, stopped, resultErr, call, closeErr, consClosed>>
      BY <2>3 DEF Consume, ConsumerTakes, ConsumerDone, ConsumerFails
    <3>2. QED
      BY <3>1, ResultFrame
  <2>4. QED
    BY <1>3, <2>1, <2>2, <2>3 DEF Cycle
<1>4. QED
  BY <1>1, <1>2, <1>3 DEF Step

-----------------------------------------------------------------------------
(* The chain of chunks, the part that takes arithmetic.  First what the    *)
(* channel's operations do to it.                                          *)

LEMMA ChainFrame ==
  ASSUME NEW p \in Pipes, ChainInv(p),
         UNCHANGED <<cycle, data, accepted, writeCh, sent, outcome, stopped>>
  PROVE  ChainInv(p)'
BY DEF ChainInv, Taken, IsEmpty

(* The empty sequence is the one of length zero.                           *)
LEMMA EmptySeq ==
  ASSUME NEW S, NEW s \in Seq(S)
  PROVE  s = <<>> <=> Len(s) = 0
OBVIOUS

(* A chunk that begins after the last byte sent extends the chain.         *)
LEMMA PushKeepsChain ==
  ASSUME NEW p \in Pipes, NEW c \in Chunk, ChainInv(p),
         writeCh[p] \in Seq(Chunk), Len(writeCh[p]) < Cap, ~stopped[p],
         c.from = sent[p] + 1, c.to >= c.from - 1,
         writeCh'[p] = Append(writeCh[p], c), sent'[p] = c.to,
         UNCHANGED <<cycle, data, accepted, outcome>>
  PROVE  ChainInv(p)'
<1> DEFINE ch == writeCh[p]
<1>1. Len(ch') = Len(ch) + 1 /\ ch'[Len(ch) + 1] = c
      /\ \A i \in 1..Len(ch) : ch'[i] = ch[i]
  OBVIOUS
<1>2. Len(ch) \in Nat /\ (ch = <<>> <=> Len(ch) = 0) /\ ch' # <<>>
  BY <1>1
<1>3. Taken(p)' = Taken(p)
  BY DEF Taken
<1>4. Len(ch') <= Cap
  BY <1>1, <1>2, PipeAssumption DEF Cap
<1>5. cycle'[p] \in {"end", "done"} => outcome'[p] # "ok"
  BY DEF ChainInv
<1>6. CASE cycle[p] \in {"recv", "write"}
  <2>1. cycle'[p] = "write" => data'[p].from = accepted'[p] + 1 /\ ~IsEmpty(data[p])'
    BY DEF ChainInv, IsEmpty
  <2>2. ch'[1].from = Taken(p)' + 1 /\ ch'[Len(ch')].to = sent'[p]
    BY <1>1, <1>2, <1>3, <1>6 DEF ChainInv
  <2>3. \A i \in 1..Len(ch') : ch'[i].to >= ch'[i].from - 1
    BY <1>1, <1>2, <1>6 DEF ChainInv
  <2>4. ASSUME NEW i \in 1..(Len(ch') - 1) PROVE ch'[i + 1].from = ch'[i].to + 1
    <3>1. CASE i < Len(ch)
      BY <1>1, <1>2, <1>6, <3>1 DEF ChainInv
    <3>2. CASE i = Len(ch)
      BY <1>1, <1>2, <1>6, <3>2 DEF ChainInv
    <3>3. QED
      BY <1>1, <1>2, <3>1, <3>2
  <2>5. QED
    BY <1>2, <1>4, <1>5, <1>6, <2>1, <2>2, <2>3, <2>4 DEF ChainInv
<1>7. CASE cycle[p] \notin {"recv", "write"}
  BY <1>4, <1>5, <1>7 DEF ChainInv
<1>8. QED
  BY <1>6, <1>7

(* Taking the first chunk keeps the chain; an empty chunk is done with.    *)
LEMMA ReceiveKeepsChain ==
  ASSUME NEW p \in Pipes, ChainInv(p), writeCh[p] \in Seq(Chunk), accepted[p] \in Nat,
         cycle[p] = "recv", writeCh[p] # <<>>, writeCh'[p] = Tail(writeCh[p]),
         data'[p] = writeCh[p][1], accepted' = accepted, sent' = sent,
         cycle'[p] = IF IsEmpty(writeCh[p][1]) THEN "recv" ELSE "write"
  PROVE  ChainInv(p)'
<1> DEFINE ch == writeCh[p]
<1>1. Len(ch) \in Nat /\ Len(ch) > 0 /\ ch[1] \in Chunk
  OBVIOUS
<1>2. Len(ch') = Len(ch) - 1 /\ \A i \in 1..Len(ch') : ch'[i] = ch[i + 1]
  BY <1>1
<1>3. ch' = <<>> <=> Len(ch) = 1
  <2>1. ch' \in Seq(Chunk)
    OBVIOUS
  <2>2. ch' = <<>> <=> Len(ch') = 0
    BY <2>1, EmptySeq
  <2>3. QED
    BY <1>1, <1>2, <2>2
<1>4. ch[1].from = accepted[p] + 1 /\ ch[1].to >= ch[1].from - 1
  BY <1>1 DEF ChainInv, Taken
<1>5. Taken(p)' = ch[1].to
  BY <1>1, <1>4 DEF Taken, IsEmpty, Chunk
<1>6. Cap \in Nat
  BY PipeAssumption DEF Cap
<1>7. Len(ch') <= Cap
  BY <1>1, <1>2, <1>6 DEF ChainInv
<1>8. cycle'[p] = "write" => data'[p].from = accepted'[p] + 1 /\ ~IsEmpty(data[p])'
  BY <1>4 DEF IsEmpty
<1>9. ch' = <<>> => sent'[p] = Taken(p)'
  BY <1>3, <1>5 DEF ChainInv
<1>10. ch' # <<>> => ch'[1].from = Taken(p)' + 1 /\ ch'[Len(ch')].to = sent'[p]
  BY <1>1, <1>2, <1>3, <1>5 DEF ChainInv
<1>11. \A i \in 1..Len(ch') : ch'[i].to >= ch'[i].from - 1
  BY <1>1, <1>2 DEF ChainInv
<1>12. \A i \in 1..(Len(ch') - 1) : ch'[i + 1].from = ch'[i].to + 1
  BY <1>1, <1>2 DEF ChainInv
<1>13. QED
  BY <1>7, <1>8, <1>9, <1>10, <1>11, <1>12 DEF ChainInv

LEMMA ChainStep ==
  ASSUME PipeInv, NEW p \in Pipes, Step(p)
  PROVE  ChainInv(p)'
<1> USE PartsOf DEF PipeInv, PipeVarsOK, chanVars, stopVars, consVars, pipeVars
<1>0. ChainInv(p)
  OBVIOUS
<1>1. CASE Begin(p)
  <2>1. CASE StopEnter(p) \/ WriteSeesError(p)
    <3>1. UNCHANGED <<cycle, data, accepted, writeCh, sent, outcome>> /\ stopped'[p]
      BY <2>1 DEF StopEnter, WriteSeesError, BeginStop
    <3>2. QED
      BY <1>0, <3>1 DEF ChainInv, Taken, IsEmpty
  <2>2. CASE StopAgain(p) \/ WriteRefused(p) \/ WriteEnter(p)
    BY <1>0, <2>2, ChainFrame DEF StopAgain, WriteRefused, WriteEnter
  <2>3. QED
    BY <1>1, <2>1, <2>2 DEF Begin
<1>2. CASE Finish(p)
  <2>1. CASE StopCheck(p) \/ StopWait(p) \/ StopClose(p) \/ StopReturn(p)
    BY <1>0, <2>1, ChainFrame DEF StopCheck, StopWait, StopClose, StopReturn
  <2>2. CASE PushSeesEnd(p)
    <3>1. UNCHANGED <<cycle, data, accepted, writeCh, sent, outcome>> /\ stopped'[p]
      BY <2>2 DEF PushSeesEnd, BeginStop
    <3>2. QED
      BY <1>0, <3>1 DEF ChainInv, Taken, IsEmpty
  <2>3. ASSUME NEW c \in Offers(p), PushBuffered(p, c) PROVE ChainInv(p)'
    <3>1. cycle' = cycle /\ data' = data /\ accepted' = accepted /\ outcome' = outcome
          /\ sent'[p] = c.to /\ writeCh'[p] = Append(writeCh[p], c)
          /\ Len(writeCh[p]) < Cap
      BY <2>3 DEF PushBuffered
    <3>2. c.from = sent[p] + 1 /\ c.to >= c.from - 1 /\ c \in Chunk
      BY DEF Offers, Length, Chunk
    <3>3. ~stopped[p]
      BY <2>3 DEF PushBuffered, FlagsInv
    <3>4. writeCh[p] \in Seq(Chunk)
      OBVIOUS
    <3>5. QED
      BY <1>0, <3>1, <3>2, <3>3, <3>4, PushKeepsChain
  <2>4. ASSUME NEW c \in Offers(p), PushDirect(p, c) PROVE ChainInv(p)'
    <3>1. writeCh[p] = <<>>
      BY <1>0, <2>4 DEF PushDirect, ChainInv
    <3>2. sent[p] = accepted[p]
      BY <1>0, <2>4, <3>1 DEF PushDirect, ChainInv, Taken
    <3>3. c.from = sent[p] + 1 /\ c.to >= c.from - 1 /\ c \in Chunk
      BY DEF Offers, Length, Chunk
    <3>4. data'[p] = c /\ sent'[p] = c.to /\ accepted' = accepted /\ writeCh' = writeCh
          /\ cycle'[p] = (IF IsEmpty(c) THEN "recv" ELSE "write")
      BY <2>4 DEF PushDirect, AfterTaking
    <3>5. Taken(p)' = c.to
      BY <3>2, <3>3, <3>4 DEF Taken, IsEmpty, Chunk
    <3>6. QED
      BY <1>0, <3>1, <3>2, <3>3, <3>4, <3>5 DEF ChainInv
  <2>5. QED
    BY <1>2, <2>1, <2>2, <2>3, <2>4 DEF Finish, Push
<1>3. CASE Cycle(p)
  <2>1. CASE Receive(p)
    <3>1. cycle[p] = "recv" /\ writeCh[p] # <<>> /\ writeCh'[p] = Tail(writeCh[p])
          /\ data'[p] = writeCh[p][1] /\ accepted' = accepted /\ sent' = sent
          /\ cycle'[p] = (IF IsEmpty(writeCh[p][1]) THEN "recv" ELSE "write")
      BY <2>1 DEF Receive, AfterTaking
    <3>2. writeCh[p] \in Seq(Chunk) /\ accepted[p] \in Nat
      OBVIOUS
    <3>3. QED
      BY <1>0, <3>1, <3>2, ReceiveKeepsChain
  <2>2. CASE ReceiveClosed(p)
    <3>1. writeCh[p] = <<>> /\ cycle[p] = "recv" /\ stopped[p]
      BY <2>2 DEF ReceiveClosed, FlagsInv
    <3>2. sent[p] = accepted[p]
      BY <1>0, <3>1 DEF ChainInv, Taken
    <3>3. cycle'[p] = "end" /\ UNCHANGED <<writeCh, sent, accepted, stopped>>
      BY <2>2 DEF ReceiveClosed
    <3>4. QED
      BY <1>0, <3>1, <3>2, <3>3 DEF ChainInv
  <2>3. CASE ConsumerTakes(p)
    <3>1. PICK n \in 1..Length(data[p]) :
            /\ accepted'[p] = accepted[p] + n
            /\ data'[p] = [data[p] EXCEPT !.from = @ + n]
            /\ cycle'[p] = (IF n = Length(data[p]) THEN "recv" ELSE "write")
      BY <2>3 DEF ConsumerTakes
    <3>2. data[p] \in Chunk /\ accepted[p] \in Nat /\ cycle[p] = "write"
      BY <2>3 DEF ConsumerTakes
    <3>3. data[p].from = accepted[p] + 1 /\ ~IsEmpty(data[p])
      BY <1>0, <3>2 DEF ChainInv
    <3>4. data'[p].from = data[p].from + n /\ data'[p].to = data[p].to
      BY <3>1, <3>2 DEF Chunk
    <3>5. Taken(p)' = Taken(p)
      BY <3>1, <3>2, <3>3, <3>4 DEF Taken, Length, IsEmpty, Chunk
    <3>6. cycle'[p] = "write" => data'[p].from = accepted'[p] + 1 /\ ~IsEmpty(data[p])'
      <4>1. data[p].from \in Int /\ data[p].to \in Int /\ n \in Int
        BY <3>2 DEF Length, Chunk
      <4>2. data'[p].from = accepted'[p] + 1
        BY <3>1, <3>2, <3>3, <3>4, <4>1
      <4>3. ASSUME cycle'[p] = "write" PROVE n < Length(data[p])
        BY <3>1, <4>1, <4>3, SMTT(30) DEF Length
      <4>4. n < Length(data[p]) => ~(data'[p].to < data'[p].from)
        BY <3>4, <4>1 DEF Length
      <4>5. QED
        BY <4>2, <4>3, <4>4 DEF IsEmpty
    <3>7. UNCHANGED <<writeCh, sent, outcome, stopped>>
      BY <2>3 DEF ConsumerTakes
    <3>8. QED
      BY <1>0, <3>1, <3>2, <3>5, <3>6, <3>7 DEF ChainInv
  <2>4. CASE ConsumerDone(p) \/ ConsumerFails(p)
    BY <1>0, <2>4 DEF ConsumerDone, ConsumerFails, ChainInv
  <2>5. CASE SetWriteErr(p) \/ CloseEnd(p)
    BY <1>0, <2>5 DEF SetWriteErr, CloseEnd, ChainInv, OutcomeInv
  <2>6. QED
    BY <1>3, <2>1, <2>2, <2>3, <2>4, <2>5 DEF Cycle, Consume
<1>4. QED
  BY <1>1, <1>2, <1>3 DEF Step

-----------------------------------------------------------------------------
(* Types.  Two of them need the chain: a short write stays inside its      *)
(* chunk, so that no position runs past MaxBytes.                          *)
LEMMA TypeStep ==
  ASSUME PipeInv, NEW p \in Pipes, Step(p)
  PROVE  PipeVarsOK'
<1> USE PartsOf, PipeAssumption DEF PipeInv, PipeVarsOK, chanVars, stopVars, consVars, pipeVars
<1>1. CASE Begin(p)
  BY <1>1 DEF Begin, StopEnter, StopAgain, WriteRefused, WriteSeesError, WriteEnter,
              BeginStop
<1>2. CASE Finish(p)
  <2>1. CASE StopCheck(p) \/ StopWait(p) \/ PushSeesEnd(p)
    BY <2>1 DEF StopCheck, StopWait, PushSeesEnd, BeginStop
  <2>2. CASE StopClose(p)
    BY <2>2 DEF StopClose
  <2>3. CASE StopReturn(p)
    <3>1. resultErr[p] \union writeErr[p] \union closeErr[p] \in SUBSET {"write", "close"}
      <4>1. resultErr[p] \in SUBSET {"write", "close"} /\ writeErr[p] \in {{}, {"write"}}
            /\ closeErr[p] \in {{}, {"close"}}
        OBVIOUS
      <4>2. QED
        BY ONLY <4>1
    <3>2. resultErr' \in [Pipes -> SUBSET {"write", "close"}]
      BY <2>3, <3>1 DEF StopReturn
    <3>3. call' \in [Pipes -> {"none", "push", "check", "wait", "close", "result"}]
      BY <2>3 DEF StopReturn
    <3>4. QED
      BY <2>3, <3>2, <3>3 DEF StopReturn
  <2>4. ASSUME NEW c \in Offers(p), Push(p, c) PROVE PipeVarsOK'
    <3>1. c \in Chunk /\ c.to \in 0..MaxBytes
      BY DEF Offers, Chunk
    <3>2. CASE PushBuffered(p, c)
      <4>1. Append(writeCh[p], c) \in Seq(Chunk)
        BY <3>1
      <4>2. writeCh' \in [Pipes -> Seq(Chunk)]
        BY <3>2, <4>1 DEF PushBuffered
      <4>3. QED
        BY <3>1, <3>2, <4>2 DEF PushBuffered
    <3>3. CASE PushDirect(p, c)
      BY <3>1, <3>3 DEF PushDirect, AfterTaking
    <3>4. QED
      BY <2>4, <3>2, <3>3 DEF Push
  <2>5. QED
    BY <1>2, <2>1, <2>2, <2>3, <2>4 DEF Finish
<1>3. CASE Cycle(p)
  <2>1. CASE Receive(p)
    <3>1. Tail(writeCh[p]) \in Seq(Chunk) /\ Head(writeCh[p]) \in Chunk
      BY <2>1 DEF Receive
    <3>2. writeCh' \in [Pipes -> Seq(Chunk)] /\ data' \in [Pipes -> Chunk]
      BY <2>1, <3>1 DEF Receive
    <3>3. QED
      BY <2>1, <3>2 DEF Receive, AfterTaking
  <2>2. CASE ConsumerTakes(p)
    <3>1. PICK n \in 1..Length(data[p]) :
            /\ accepted' = [accepted EXCEPT ![p] = @ + n]
            /\ data' = [data EXCEPT ![p].from = @ + n]
            /\ cycle' = [cycle EXCEPT ![p] = IF n = Length(data[p]) THEN "recv" ELSE "write"]
      BY <2>2 DEF ConsumerTakes
    <3>2. data[p] \in Chunk /\ accepted[p] \in Nat /\ data[p].from = accepted[p] + 1
      BY <2>2 DEF ConsumerTakes, ChainInv
    <3>3. data[p].from \in 1..(MaxBytes + 1) /\ data[p].to \in 0..MaxBytes /\ n \in Nat
          /\ data[p].from + n <= data[p].to + 1
      BY <3>2 DEF Chunk, Length
    <3>4. accepted[p] + n \in 0..MaxBytes /\ data[p].from + n \in 1..(MaxBytes + 1)
      BY <3>2, <3>3, SMTT(30)
    <3>5. accepted' \in [Pipes -> 0..MaxBytes]
      BY <3>1, <3>4
    <3>6. [data[p] EXCEPT !.from = @ + n] \in Chunk
      BY <3>2, <3>4 DEF Chunk
    <3>7. data' \in [Pipes -> Chunk]
      BY <3>1, <3>6
    <3>8. cycle' \in [Pipes -> {"recv", "write", "fail", "end", "done"}]
      BY <3>1
    <3>9. QED
      BY <2>2, <3>5, <3>7, <3>8 DEF ConsumerTakes
  <2>3. CASE ReceiveClosed(p) \/ ConsumerDone(p) \/ ConsumerFails(p) \/ CloseEnd(p)
    BY <2>3 DEF ReceiveClosed, ConsumerDone, ConsumerFails, CloseEnd
  <2>4. CASE SetWriteErr(p)
    BY <2>4 DEF SetWriteErr
  <2>5. QED
    BY <1>3, <2>1, <2>2, <2>3, <2>4 DEF Cycle, Consume
<1>4. QED
  BY <1>1, <1>2, <1>3 DEF Step

(* A step of one pipe leaves the others as they are.                       *)
LEMMA OthersSame ==
  ASSUME PipeInv, NEW p \in Pipes, Step(p), NEW q \in Pipes, q # p
  PROVE  Same(q)
<1> USE DEF PipeInv, PipeVarsOK, chanVars, stopVars, consVars, pipeVars, Same
<1>1. CASE Begin(p)
  BY <1>1 DEF Begin, StopEnter, StopAgain, WriteRefused, WriteSeesError, WriteEnter,
              BeginStop
<1>2. CASE Finish(p)
  BY <1>2 DEF Finish, StopCheck, StopWait, StopClose, StopReturn, PushSeesEnd, BeginStop,
              Push, PushBuffered, PushDirect
<1>3. CASE Cycle(p)
  BY <1>3 DEF Cycle, Consume, Receive, ReceiveClosed, ConsumerTakes, ConsumerDone,
              ConsumerFails, SetWriteErr, CloseEnd
<1>4. QED
  BY <1>1, <1>2, <1>3 DEF Step

(* PipeInv is inductive.                                                   *)
LEMMA NextInv == PipeInv /\ [PipeNext]_pipeVars => PipeInv'
<1> SUFFICES ASSUME PipeInv, [PipeNext]_pipeVars PROVE PipeInv'
  OBVIOUS
<1>1. ASSUME NEW p \in Pipes, Step(p) PROVE PipeInv'
  <2>1. PartsInv(p)'
    BY <1>1, FlagsStep, PhaseStep, OutcomeStep, ChainStep, ResultStep DEF PartsInv
  <2>2. ASSUME NEW q \in Pipes, q # p PROVE PartsInv(q)'
    BY <1>1, <2>2, OthersSame, SameParts, PartsOf DEF PartsInv
  <2>3. PipeVarsOK'
    BY <1>1, TypeStep
  <2>4. QED
    BY <2>1, <2>2, <2>3 DEF PipeInv, PartsInv
<1>2. CASE UNCHANGED pipeVars
  <2>1. ASSUME NEW q \in Pipes PROVE PartsInv(q)'
    BY <1>2, SameParts, PartsOf DEF PartsInv, Same, pipeVars
  <2>2. PipeVarsOK'
    BY <1>2 DEF PipeInv, PipeVarsOK, pipeVars
  <2>3. QED
    BY <2>1, <2>2 DEF PipeInv, PartsInv
<1>3. QED
  BY <1>1, <1>2 DEF PipeNext, Step

(* The invariant holds in every reachable state of any provider and cycle. *)
THEOREM PipeInvariant == PipeSpec => []PipeInv
<1>1. PipeInit => PipeInv
  BY InitInv
<1>2. PipeInv /\ [PipeNext]_pipeVars => PipeInv'
  BY NextInv
<1>3. QED
  BY <1>1, <1>2, PTL DEF PipeSpec

(* Every variable of the pipe stays in its type, and no channel holds more *)
(* than its capacity (newPipe, WriteToPipe, Start and Stop of pipe.go).    *)
THEOREM PipeTypes == PipeSpec => []PipeTypeOK
<1>1. PipeInv => PipeTypeOK
  BY DEF PipeInv, PipeTypeOK, ChainInv
<1>2. QED
  BY <1>1, PipeInvariant, PTL

(* No send on and no second close of writeCh or endCh, the panics that the *)
(* comment in Start argues away (pipe.go:96-151).                          *)
THEOREM NoPanic == PipeSpec => []NoChannelPanic
<1>1. PipeInv => NoChannelPanic
  BY DEF PipeInv, NoChannelPanic, FlagsInv
<1>2. QED
  BY <1>1, PipeInvariant, PTL

(* consumer.Close runs only after the last consumer.Write.                 *)
THEOREM ClosedAfterWrites == PipeSpec => []CloseAfterWrites
<1>1. PipeInv => CloseAfterWrites
  BY DEF PipeInv, CloseAfterWrites, PhaseInv
<1>2. QED
  BY <1>1, PipeInvariant, PTL

(* The consumer gets the bytes of the input in order, once and without     *)
(* gaps, whatever short writes it answers with.                            *)
THEOREM BytesInOrder == PipeSpec => []InOrder
<1>1. PipeInv => InOrder
  BY DEF PipeInv, InOrder, ChainInv
<1>2. QED
  BY <1>1, PipeInvariant, PTL

(* Stop drains the channel before it closes a healthy consumer.            *)
THEOREM DrainedAtClose == PipeSpec => []DrainedBeforeClose
<1>1. PipeInv => DrainedBeforeClose
  BY DEF PipeInv, DrainedBeforeClose, PhaseInv, ChainInv
<1>2. QED
  BY <1>1, PipeInvariant, PTL

(* The result of Stop has the consumer's failure exactly when it failed.   *)
THEOREM FailuresReported == PipeSpec => []FailureReported
<1>1. ASSUME PipeInv, NEW p \in Pipes, stopped[p], call[p] = "none"
      PROVE  /\ ("write" \in resultErr[p]) <=> (outcome[p] = "failed")
             /\ ("close" \in resultErr[p]) <=> (closeErr[p] # {})
  <2>1. resultErr[p] = writeErr[p] \union closeErr[p]
    BY <1>1 DEF PipeInv, ResultInv
  <2>2. writeErr[p] \in {{}, {"write"}} /\ closeErr[p] \in {{}, {"close"}}
    BY <1>1 DEF PipeInv, PipeVarsOK
  <2>3. writeErr[p] # {} <=> outcome[p] = "failed"
    BY <1>1 DEF PipeInv, PhaseInv, OutcomeInv
  <2>4. QED
    BY <2>1, <2>2, <2>3
<1>2. PipeInv => FailureReported
  BY <1>1 DEF FailureReported
<1>3. QED
  BY <1>2, PipeInvariant, PTL

-----------------------------------------------------------------------------
(***************************************************************************)
(* Progress, as far as safety goes: no deadlock of call and cycle, and a   *)
(* count of steps that every step makes smaller.                           *)
(***************************************************************************)

(* A call in the select finds room, a receiver, the end, or a write cycle  *)
(* with work; Stop's wait finds the end or such a cycle (pipe.go:66, 389). *)
THEOREM PipeNeverStuck == PipeSpec => []NeverStuck
<1>1. ASSUME PipeInv, NEW p \in Pipes, call[p] # "none"
      PROVE  CallReady(p) \/ CycleReady(p)
  <2>1. /\ cycle[p] \in {"recv", "write", "fail", "end", "done"}
        /\ call[p] \in {"push", "check", "wait", "close", "result"}
        /\ writeCh[p] \in Seq(Chunk) /\ FlagsInv(p) /\ Len(writeCh[p]) <= Cap
    BY <1>1 DEF PipeInv, PipeVarsOK, ChainInv
  <2>2. Cap \in Nat /\ Len(writeCh[p]) \in Nat /\ (writeCh[p] = <<>> <=> Len(writeCh[p]) = 0)
    BY <2>1, EmptySeq, PipeAssumption DEF Cap
  <2>3. CASE cycle[p] \in {"write", "fail", "end"}
    BY <2>3 DEF CycleReady
  <2>4. CASE cycle[p] = "done"
    BY <2>1, <2>4 DEF CallReady, FlagsInv
  <2>5. CASE cycle[p] = "recv"
    <3>1. CASE call[p] = "push"
      <4>1. Cap = 0 \/ Len(writeCh[p]) < Cap \/ Len(writeCh[p]) # 0
        BY <2>1, <2>2
      <4>2. QED
        BY <2>2, <2>5, <3>1, <4>1 DEF CallReady, CycleReady
    <3>2. CASE call[p] = "wait"
      BY <2>1, <2>5, <3>2 DEF CycleReady, FlagsInv
    <3>3. QED
      BY <2>1, <3>1, <3>2 DEF CallReady
  <2>6. QED
    BY <2>1, <2>3, <2>4, <2>5
<1>2. PipeInv => NeverStuck
  BY <1>1 DEF NeverStuck
<1>3. QED
  BY <1>2, PipeInvariant, PTL

(* What a receive, of either kind, finds: the bytes behind those taken.    *)
LEMMA NextChunk ==
  ASSUME PipeInv, NEW p \in Pipes, cycle[p] = "recv"
  PROVE  /\ writeCh[p] # <<>> => /\ Head(writeCh[p]) \in Chunk
                                 /\ Head(writeCh[p]).from = accepted[p] + 1
                                 /\ Head(writeCh[p]).to >= accepted[p]
         /\ Cap = 0 => sent[p] = accepted[p]
<1>1. writeCh[p] \in Seq(Chunk) /\ ChainInv(p) /\ Cap \in Nat
  BY PipeAssumption DEF PipeInv, PipeVarsOK, Cap
<1>2. accepted[p] \in 0..MaxBytes
  BY DEF PipeInv, PipeVarsOK
<1>3. writeCh[p] # <<>> => Len(writeCh[p]) > 0 /\ Head(writeCh[p]) = writeCh[p][1]
  BY <1>1
<1>4. writeCh[p] # <<>> => writeCh[p][1].from = accepted[p] + 1
                           /\ writeCh[p][1].to >= writeCh[p][1].from - 1
  BY <1>1, <1>3 DEF ChainInv, Taken
<1>5. Cap = 0 => writeCh[p] = <<>>
  BY <1>1, <1>3 DEF ChainInv
<1>6. ASSUME writeCh[p] # <<>>
      PROVE  /\ Head(writeCh[p]) \in Chunk
             /\ Head(writeCh[p]).from = accepted[p] + 1
             /\ Head(writeCh[p]).to >= accepted[p]
  <2>1. writeCh[p][1] \in Chunk
    BY <1>1, <1>3, <1>6
  <2>2. writeCh[p][1].to \in 0..MaxBytes
    BY <2>1 DEF Chunk
  <2>3. writeCh[p][1].to >= accepted[p]
    BY ONLY <1>2, <1>4, <1>6, <2>2, PipeAssumption
  <2>4. QED
    BY <1>3, <1>4, <1>6, <2>1, <2>3
<1>7. Cap = 0 => sent[p] = accepted[p]
  BY <1>1, <1>5 DEF ChainInv, Taken
<1>8. QED
  BY <1>6, <1>7

(* What is buffered or in hand was sent.                                   *)
SentInv(p) ==
  cycle[p] \in {"recv", "write"} =>
    Taken(p) <= sent[p] /\ \A i \in 1..Len(writeCh[p]) : writeCh[p][i].to <= sent[p]
Sents == \A p \in Pipes : SentInv(p)

(* A step of a pipe keeps it.                                              *)
LEMMA SentStep ==
  ASSUME PipeInv, NEW p \in Pipes, SentInv(p), Step(p)
  PROVE  SentInv(p)'
<1>0. /\ data \in [Pipes -> Chunk] /\ accepted \in [Pipes -> 0..MaxBytes]
      /\ sent \in [Pipes -> 0..MaxBytes] /\ writeCh \in [Pipes -> Seq(Chunk)]
      /\ cycle \in [Pipes -> {"recv", "write", "fail", "end", "done"}]
      /\ ChainInv(p)
  BY DEF PipeInv, PipeVarsOK
<1>i. /\ accepted[p] \in Int /\ sent[p] \in Int /\ writeCh[p] \in Seq(Chunk)
      /\ data[p] \in Chunk
  BY <1>0, PipeAssumption
<1>d. data[p].to \in Int
  BY <1>i, PipeAssumption DEF Chunk
<1>2. ASSUME UNCHANGED <<writeCh, sent, cycle, data, accepted>> PROVE SentInv(p)'
  BY <1>2 DEF SentInv, Taken
<1>3. ASSUME cycle'[p] \notin {"recv", "write"} PROVE SentInv(p)'
  BY <1>3 DEF SentInv
<1>4. CASE Begin(p)
  BY <1>2, <1>4 DEF Begin, StopEnter, StopAgain, WriteRefused, WriteSeesError, WriteEnter,
    BeginStop, pipeVars, consVars, chanVars
<1>5. CASE StopCheck(p) \/ StopWait(p) \/ StopClose(p) \/ StopReturn(p) \/ PushSeesEnd(p)
  BY <1>2, <1>5 DEF StopCheck, StopWait, StopClose, StopReturn, PushSeesEnd, BeginStop,
    consVars, chanVars
<1>6. ASSUME NEW c \in Offers(p) PROVE c \in Chunk /\ c.from = sent[p] + 1 /\ c.to >= sent[p] /\ c.to \in Int
  BY <1>0, <1>i, <1>d, PipeAssumption DEF Offers, Length, Chunk
<1>7. ASSUME NEW c \in Offers(p), PushBuffered(p, c) PROVE SentInv(p)'
  <2>1. /\ writeCh'[p] = Append(writeCh[p], c) /\ sent'[p] = c.to
        /\ UNCHANGED <<cycle, data, accepted>>
    BY <1>0, <1>i, <1>d, <1>7 DEF PushBuffered, consVars
  <2>2. Taken(p)' = Taken(p) /\ Taken(p) \in Int
    BY <1>0, <1>i, <1>d, <2>1 DEF Taken
  <2>3. \A i \in 1..Len(writeCh'[p]) :
          writeCh'[p][i] = c \/ (i \in 1..Len(writeCh[p]) /\ writeCh'[p][i] = writeCh[p][i])
    <3>1. /\ Len(Append(writeCh[p], c)) = Len(writeCh[p]) + 1 /\ Len(writeCh[p]) \in Nat
          /\ Append(writeCh[p], c)[Len(writeCh[p]) + 1] = c
          /\ \A i \in 1..Len(writeCh[p]) : Append(writeCh[p], c)[i] = writeCh[p][i]
      BY <1>i, <1>6
    <3> DEFINE old == writeCh[p]
               new == Append(writeCh[p], c)
    <3> HIDE DEF old, new
    <3>2. \A i \in 1..Len(new) : new[i] = c \/ (i \in 1..Len(old) /\ new[i] = old[i])
      <4>1. /\ Len(new) = Len(old) + 1 /\ Len(old) \in Nat /\ new[Len(old) + 1] = c
            /\ \A i \in 1..Len(old) : new[i] = old[i]
        BY <3>1 DEF old, new
      <4>2. ASSUME NEW i \in 1..Len(new) PROVE new[i] = c \/ (i \in 1..Len(old) /\ new[i] = old[i])
        <5>1. i = Len(old) + 1 \/ i \in 1..Len(old)
          BY ONLY <4>1, <4>2
        <5>2. CASE i = Len(old) + 1
          BY <4>1, <5>2
        <5>3. CASE i \in 1..Len(old)
          BY <4>1, <5>3
        <5>4. QED
          BY <5>1, <5>2, <5>3
      <4>3. QED
        BY <4>2
    <3>3. QED
      BY <2>1, <3>2 DEF old, new
  <2>4. ASSUME NEW i \in 1..Len(writeCh[p]) PROVE writeCh[p][i].to \in Int
    <3>1. writeCh[p][i] \in Chunk
      BY <1>i
    <3>2. QED
      BY <3>1, PipeAssumption DEF Chunk
  <2>5. QED
    BY <1>0, <1>i, <1>d, <1>6, <2>1, <2>2, <2>3, <2>4 DEF SentInv
<1>8. ASSUME NEW c \in Offers(p), PushDirect(p, c) PROVE SentInv(p)'
  <2>1. /\ sent'[p] = c.to /\ data'[p] = c /\ cycle'[p] = AfterTaking(c)
        /\ UNCHANGED <<writeCh, accepted>> /\ Cap = 0 /\ cycle[p] = "recv"
    BY <1>0, <1>i, <1>d, <1>8 DEF PushDirect
  <2>2. sent[p] = accepted[p] /\ Len(writeCh[p]) = 0
    BY <1>0, <1>i, <1>d, <2>1, NextChunk DEF ChainInv
  <2>3. Taken(p)' <= sent'[p]
    BY <1>0, <1>i, <1>d, <1>6, <2>1, <2>2 DEF Taken
  <2>4. QED
    BY <2>1, <2>2, <2>3 DEF SentInv
<1>9. CASE Receive(p)
  <2>1. /\ cycle[p] = "recv" /\ writeCh[p] # <<>> /\ data'[p] = Head(writeCh[p])
        /\ writeCh'[p] = Tail(writeCh[p]) /\ UNCHANGED <<sent, accepted>>
    BY <1>0, <1>i, <1>d, <1>9 DEF Receive
  <2>2. Head(writeCh[p]) = writeCh[p][1] /\ 1 \in 1..Len(writeCh[p])
    BY <1>0, <1>i, <1>d, <2>1
  <2>3. Taken(p)' <= sent'[p]
    BY <1>0, <1>i, <1>d, <2>1, <2>2 DEF SentInv, Taken
  <2>4. \A i \in 1..Len(writeCh'[p]) :
          i + 1 \in 1..Len(writeCh[p]) /\ writeCh'[p][i] = writeCh[p][i + 1]
    BY <1>0, <1>i, <1>d, <2>1
  <2>5. QED
    BY <2>1, <2>3, <2>4 DEF SentInv
<1>10. CASE ReceiveClosed(p) \/ ConsumerDone(p) \/ ConsumerFails(p) \/ SetWriteErr(p) \/ CloseEnd(p)
  BY <1>0, <1>i, <1>d, <1>3, <1>10 DEF ReceiveClosed, ConsumerDone, ConsumerFails, SetWriteErr, CloseEnd
<1>11. CASE ConsumerTakes(p)
  <2>1. PICK n \in 1..Length(data[p]) :
          /\ accepted' = [accepted EXCEPT ![p] = @ + n]
          /\ data' = [data EXCEPT ![p].from = @ + n]
          /\ cycle' = [cycle EXCEPT ![p] = IF n = Length(data[p]) THEN "recv" ELSE "write"]
    BY <1>11 DEF ConsumerTakes
  <2>2. cycle[p] = "write" /\ UNCHANGED <<writeCh, sent>>
    BY <1>11 DEF ConsumerTakes, chanVars
  <2>3. data[p].from = accepted[p] + 1
    BY <1>0, <1>i, <1>d, <2>2 DEF ChainInv
  <2>4. Length(data[p]) = data[p].to - accepted[p]
    BY <1>i, <1>d, <2>3 DEF Length
  <2>5. data'[p].to = data[p].to /\ accepted'[p] = accepted[p] + n
    BY <1>0, <1>i, <1>d, <2>1 DEF Chunk
  <2>6. n = Length(data[p]) => accepted'[p] = data[p].to
    BY <1>i, <1>d, <2>4, <2>5
  <2>7. Taken(p)' = data[p].to
    BY <1>0, <2>1, <2>5, <2>6 DEF Taken
  <2>8. QED
    BY <2>2, <2>7 DEF SentInv, Taken
<1>12. QED
  BY <1>4, <1>5, <1>7, <1>8, <1>9, <1>10, <1>11 DEF Step, Finish, Push, Cycle, Consume

(* It holds from the start, and so in every state.                         *)
LEMMA SentsHold == PipeSpec => []Sents
<1>1. PipeInit => Sents
  BY DEF PipeInit, Sents, SentInv, Taken
<1>2. PipeInv /\ Sents /\ [PipeNext]_pipeVars => Sents'
  <2> SUFFICES ASSUME PipeInv, Sents, [PipeNext]_pipeVars, NEW q \in Pipes
               PROVE  SentInv(q)'
    BY DEF Sents
  <2>1. SentInv(q)
    BY DEF Sents
  <2>2. ASSUME Same(q) PROVE SentInv(q)'
    BY <2>1, <2>2 DEF SentInv, Taken, Same
  <2>3. ASSUME NEW p \in Pipes, Step(p) PROVE SentInv(q)'
    BY <2>1, <2>2, <2>3, OthersSame, SentStep
  <2>4. CASE UNCHANGED pipeVars
    BY <2>2, <2>4 DEF Same, pipeVars
  <2>5. QED
    BY <2>3, <2>4 DEF PipeNext, Step
<1>3. QED
  BY <1>1, <1>2, PipeInvariant, PTL DEF PipeSpec

(* What a consumer took was sent.                                          *)
LEMMA AcceptedWasSent ==
  ASSUME PipeInv, NEW p \in Pipes, SentInv(p), cycle[p] \in {"recv", "write"}
  PROVE  accepted[p] <= sent[p]
<1>1. /\ accepted[p] \in 0..MaxBytes /\ sent[p] \in 0..MaxBytes /\ MaxBytes \in Nat
      /\ data[p] \in Chunk /\ ChainInv(p)
  BY PipeAssumption DEF PipeInv, PipeVarsOK
<1>2. CASE cycle[p] = "recv"
  BY <1>1, <1>2 DEF Taken, SentInv
<1>3. CASE cycle[p] = "write"
  <2>1. data[p].to \in 0..MaxBytes /\ data[p].from = accepted[p] + 1
        /\ ~(data[p].to < data[p].from)
    BY <1>1, <1>3 DEF ChainInv, Chunk, IsEmpty
  <2>2. QED
    BY <1>1, <1>3, <2>1 DEF Taken, SentInv
<1>4. QED
  BY <1>2, <1>3

(* The count of steps is a number, and no larger than the call, the cycle, *)
(* the buffer and the input are long.                                      *)
LEMMA StepsAreNumbers ==
  ASSUME PipeInv, NEW p \in Pipes, SentInv(p)
  PROVE  CallSteps(p) \in 0..5 /\ CycleSteps(p) \in 0..(3 + Cap + MaxBytes)
<1>1. /\ accepted[p] \in 0..MaxBytes /\ sent[p] \in 0..MaxBytes /\ MaxBytes \in Nat
      /\ call[p] \in {"none", "push", "check", "wait", "close", "result"}
      /\ cycle[p] \in {"recv", "write", "fail", "end", "done"}
      /\ data[p] \in Chunk /\ writeCh[p] \in Seq(Chunk) /\ ChainInv(p)
  BY PipeAssumption DEF PipeInv, PipeVarsOK
<1>2. Len(writeCh[p]) \in Nat /\ Len(writeCh[p]) <= Cap /\ Cap \in Nat
  BY <1>1, PipeAssumption DEF ChainInv, Cap
<1>3. CASE cycle[p] \in {"recv", "write"}
  <2>1. accepted[p] <= sent[p]
    BY <1>3, AcceptedWasSent
  <2>2. CycleSteps(p) = 3 + Len(writeCh[p]) + (sent[p] - accepted[p])
    BY <1>3 DEF CycleSteps
  <2>3. sent[p] - accepted[p] \in 0..MaxBytes
    BY <1>1, <2>1
  <2>4. CycleSteps(p) \in 0..(3 + Cap + MaxBytes)
    BY <1>1, <1>2, <2>2, <2>3
  <2>5. QED
    BY <1>1, <2>4 DEF CallSteps
<1>4. CASE cycle[p] \in {"fail", "end", "done"}
  BY <1>1, <1>2, <1>4 DEF CallSteps, CycleSteps
<1>5. QED
  BY <1>1, <1>3, <1>4

(* A cycle in its loop has its three ends before it.                       *)
LEMMA AtLeastThree ==
  ASSUME PipeInv, NEW p \in Pipes, SentInv(p), cycle[p] \in {"recv", "write"}
  PROVE  CycleSteps(p) >= 3
<1>1. /\ accepted[p] \in Int /\ sent[p] \in Int /\ Len(writeCh[p]) \in Nat
      /\ CycleSteps(p) = 3 + Len(writeCh[p]) + (sent[p] - accepted[p])
  BY PipeAssumption DEF PipeInv, PipeVarsOK, CycleSteps
<1>2. accepted[p] <= sent[p]
  BY AcceptedWasSent
<1>3. QED
  BY <1>1, <1>2

(* While a call goes on, every step of it and of the write cycle leaves    *)
(* fewer to take (Stop, WriteToPipe and Start, pipe.go): no more than 8,   *)
(* one for each chunk of the buffer and one for each byte of the input.    *)
THEOREM PipeComesNearer == PipeSpec => [](\A p \in Pipes : StepsLeft(p) \in 0..(8 + Cap + MaxBytes))
                                       /\ CallsComeNearer
<1>1. ASSUME PipeInv, Sents, NEW p \in Pipes
      PROVE  StepsLeft(p) \in 0..(8 + Cap + MaxBytes)
  <2>1. CallSteps(p) \in 0..5 /\ CycleSteps(p) \in 0..(3 + Cap + MaxBytes)
    BY <1>1, StepsAreNumbers DEF Sents
  <2>2. Cap \in Nat /\ MaxBytes \in Nat
    BY PipeAssumption DEF Cap
  <2>3. QED
    BY <2>1, <2>2 DEF StepsLeft
<1>2. ASSUME PipeInv, Sents, NEW p \in Pipes, call[p] # "none", Finish(p) \/ Cycle(p),
             call'[p] # "none"
      PROVE  StepsLeft(p)' < StepsLeft(p)
  <2>0. /\ CallSteps(p) \in Int /\ CycleSteps(p) \in Int
        /\ call \in [Pipes -> {"none", "push", "check", "wait", "close", "result"}]
        /\ cycle \in [Pipes -> {"recv", "write", "fail", "end", "done"}]
        /\ writeCh \in [Pipes -> Seq(Chunk)] /\ accepted \in [Pipes -> 0..MaxBytes]
        /\ accepted[p] \in 0..MaxBytes /\ sent[p] \in 0..MaxBytes /\ writeCh[p] \in Seq(Chunk)
    <3>1. CallSteps(p) \in 0..5 /\ CycleSteps(p) \in 0..(3 + Cap + MaxBytes)
      BY <1>2, StepsAreNumbers DEF Sents
    <3>2. Cap \in Nat /\ MaxBytes \in Nat
      BY PipeAssumption DEF Cap
    <3>3. CallSteps(p) \in Int /\ CycleSteps(p) \in Int
      BY <3>1, <3>2
    <3>4. QED
      BY <1>2, <3>3 DEF PipeInv, PipeVarsOK
  <2>1. ASSUME CallSteps(p)' < CallSteps(p), CallSteps(p)' \in Int,
               UNCHANGED <<cycle, writeCh, sent, accepted>>
        PROVE  StepsLeft(p)' < StepsLeft(p)
    <3>1. CycleSteps(p)' = CycleSteps(p)
      BY <2>1 DEF CycleSteps
    <3>2. QED
      BY <2>0, <2>1, <3>1 DEF StepsLeft
  <2>2. ASSUME CycleSteps(p)' < CycleSteps(p), CycleSteps(p)' \in Int, UNCHANGED call
        PROVE  StepsLeft(p)' < StepsLeft(p)
    <3>1. CallSteps(p)' = CallSteps(p)
      BY <2>2 DEF CallSteps
    <3>2. QED
      BY <2>0, <2>2, <3>1 DEF StepsLeft
  <2>3. CASE StopCheck(p)
    <3>1. call[p] = "check" /\ call'[p] \in {"wait", "close"} /\ UNCHANGED <<cycle, writeCh, sent, accepted>>
      BY <2>0, <2>3 DEF StopCheck, chanVars, consVars
    <3>2. QED
      BY <2>1, <3>1 DEF CallSteps
  <2>4. CASE StopWait(p)
    <3>1. call[p] = "wait" /\ call'[p] = "close" /\ UNCHANGED <<cycle, writeCh, sent, accepted>>
      BY <2>0, <2>4 DEF StopWait, chanVars, consVars
    <3>2. QED
      BY <2>1, <3>1 DEF CallSteps
  <2>5. CASE StopClose(p)
    <3>1. call[p] = "close" /\ call'[p] = "result" /\ UNCHANGED <<cycle, writeCh, sent, accepted>>
      BY <2>0, <2>5 DEF StopClose, chanVars, consVars
    <3>2. QED
      BY <2>1, <3>1 DEF CallSteps
  <2>6. CASE PushSeesEnd(p)
    <3>1. call[p] = "push" /\ call'[p] = "check" /\ UNCHANGED <<cycle, writeCh, sent, accepted>>
      BY <2>0, <2>6 DEF PushSeesEnd, BeginStop, consVars
    <3>2. QED
      BY <2>1, <3>1 DEF CallSteps
  <2>7. ~StopReturn(p) /\ \A c \in Offers(p) : ~Push(p, c)
    BY <1>2, <2>0 DEF StopReturn, Push, PushBuffered, PushDirect
  <2>8. CASE Receive(p)
    <3>1. /\ cycle[p] = "recv" /\ cycle'[p] \in {"recv", "write"}
          /\ writeCh[p] # <<>> /\ writeCh'[p] = Tail(writeCh[p])
          /\ UNCHANGED <<sent, accepted, call>>
      BY <2>0, <2>8 DEF Receive, AfterTaking
    <3>2. Len(Tail(writeCh[p])) = Len(writeCh[p]) - 1 /\ Len(writeCh[p]) \in Nat
      BY <2>0, <3>1
    <3>3. /\ CycleSteps(p) = 3 + Len(writeCh[p]) + (sent[p] - accepted[p])
          /\ CycleSteps(p)' = 3 + Len(Tail(writeCh[p])) + (sent[p] - accepted[p])
      BY <3>1 DEF CycleSteps
    <3>4. sent[p] - accepted[p] \in Int
      BY <2>0, PipeAssumption
    <3>5. CycleSteps(p)' < CycleSteps(p) /\ CycleSteps(p)' \in Int
      BY <3>2, <3>3, <3>4
    <3>6. QED
      BY <2>2, <3>1, <3>5
  <2>9. CASE ReceiveClosed(p) \/ ConsumerDone(p) \/ ConsumerFails(p)
    <3>1. cycle[p] \in {"recv", "write"} /\ cycle'[p] \in {"fail", "end"} /\ UNCHANGED call
      BY <2>0, <2>9 DEF ReceiveClosed, ConsumerDone, ConsumerFails
    <3>2. CycleSteps(p) >= 3
      BY <1>2, <3>1, AtLeastThree DEF Sents
    <3>3. CycleSteps(p)' \in {1, 2}
      BY <3>1 DEF CycleSteps
    <3>4. QED
      BY <2>0, <2>2, <3>1, <3>2, <3>3
  <2>10. CASE SetWriteErr(p) \/ CloseEnd(p)
    BY <2>0, <2>2, <2>10 DEF SetWriteErr, CloseEnd, CycleSteps
  <2>11. CASE ConsumerTakes(p)
    <3>1. PICK n \in 1..Length(data[p]) :
            /\ accepted' = [accepted EXCEPT ![p] = @ + n]
            /\ cycle' = [cycle EXCEPT ![p] = IF n = Length(data[p]) THEN "recv" ELSE "write"]
      BY <2>11 DEF ConsumerTakes
    <3>2. /\ cycle[p] = "write" /\ cycle'[p] \in {"recv", "write"}
          /\ accepted'[p] = accepted[p] + n /\ UNCHANGED <<sent, writeCh, call>>
      BY <2>0, <2>11, <3>1 DEF ConsumerTakes, chanVars
    <3>3. n \in Int /\ n > 0
      <4>1. Length(data[p]) \in Int
        BY <1>2, PipeAssumption DEF PipeInv, PipeVarsOK, Chunk, Length
      <4>2. QED
        BY <4>1
    <3>4. /\ CycleSteps(p) = 3 + Len(writeCh[p]) + (sent[p] - accepted[p])
          /\ CycleSteps(p)' = 3 + Len(writeCh[p]) + (sent[p] - (accepted[p] + n))
      BY <3>2 DEF CycleSteps
    <3>5. Len(writeCh[p]) \in Int /\ sent[p] \in Int /\ accepted[p] \in Int
      BY <2>0, PipeAssumption
    <3>6. CycleSteps(p)' < CycleSteps(p) /\ CycleSteps(p)' \in Int
      BY <3>3, <3>4, <3>5
    <3>7. QED
      BY <2>2, <3>2, <3>6
  <2>12. QED
    BY <1>2, <2>3, <2>4, <2>5, <2>6, <2>7, <2>8, <2>9, <2>10, <2>11
       DEF Finish, Cycle, Consume
<1>3. PipeInv /\ Sents => \A p \in Pipes : StepsLeft(p) \in 0..(8 + Cap + MaxBytes)
  BY <1>1
<1>4. PipeInv /\ Sents /\ [PipeNext]_pipeVars
        => [\A p \in Pipes : call[p] # "none" /\ (Finish(p) \/ Cycle(p)) =>
              call'[p] = "none" \/ StepsLeft(p)' < StepsLeft(p)]_pipeVars
  BY <1>2
<1>5. QED
  BY <1>3, <1>4, PipeInvariant, SentsHold, PTL DEF PipeSpec, CallsComeNearer

-----------------------------------------------------------------------------
(***************************************************************************)
(* A pipe drives its consumer as ConsumerContract allows.                  *)
(***************************************************************************)

(* Between two calls of Write the consumer has all it was offered.         *)
HandInv(p) == cycle[p] # "write" /\ outcome[p] = "ok" => data[p].to = accepted[p]
Hands == \A p \in Pipes : HandInv(p)

(* For the consumer, a step of its pipe is one of the contract or nothing. *)
(* Hands is kept on the way.                                               *)
SeenQuiet(p) ==
  /\ accepted'[p] = accepted[p] /\ data'[p].to = data[p].to
  /\ (cycle'[p] = "write" <=> cycle[p] = "write")
  /\ outcome'[p] = outcome[p] /\ consClosed'[p] = consClosed[p]
SeenOffer(p, n) ==
  /\ cycle[p] # "write" /\ outcome[p] = "ok" /\ ~consClosed[p]
  /\ accepted[p] = data[p].to /\ data'[p].to = data[p].to + n /\ cycle'[p] = "write"
  /\ accepted'[p] = accepted[p] /\ outcome'[p] = outcome[p]
  /\ consClosed'[p] = consClosed[p]
SeenTake(p, n) ==
  /\ cycle[p] = "write" /\ accepted'[p] = accepted[p] + n
  /\ cycle'[p] = "write" \/ accepted'[p] = data[p].to
  /\ data'[p].to = data[p].to /\ outcome'[p] = outcome[p]
  /\ consClosed'[p] = consClosed[p]
SeenRefuse(p) ==
  /\ cycle[p] = "write" /\ cycle'[p] # "write"
  /\ outcome'[p] \in {"closed", "failed"}
  /\ data'[p].to = data[p].to /\ accepted'[p] = accepted[p]
  /\ consClosed'[p] = consClosed[p]
SeenClose(p) ==
  /\ cycle[p] # "write" /\ cycle'[p] # "write" /\ consClosed'[p]
  /\ data'[p].to = data[p].to /\ accepted'[p] = accepted[p]
  /\ outcome'[p] = outcome[p]
SeenBy(p) ==
  \/ SeenQuiet(p) \/ SeenRefuse(p) \/ SeenClose(p)
  \/ \E n \in 1..MaxBytes : SeenOffer(p, n)
  \/ \E n \in 0..(data[p].to - accepted[p]) : SeenTake(p, n)

LEMMA SeenStep ==
  ASSUME PipeInv, Hands, NEW p \in Pipes, Step(p)
  PROVE  SeenBy(p)
<1>1. /\ data \in [Pipes -> Chunk] /\ data[p].to \in 0..MaxBytes
      /\ data[p].from \in 1..(MaxBytes + 1)
      /\ accepted \in [Pipes -> 0..MaxBytes] /\ accepted[p] \in 0..MaxBytes
      /\ cycle \in [Pipes -> {"recv", "write", "fail", "end", "done"}]
      /\ outcome \in [Pipes -> {"ok", "closed", "failed"}]
      /\ consClosed \in [Pipes -> BOOLEAN] /\ MaxBytes \in Nat
  BY PipeAssumption DEF PipeInv, PipeVarsOK, Chunk
<1>2. FlagsInv(p) /\ PhaseInv(p) /\ OutcomeInv(p) /\ ChainInv(p) /\ HandInv(p)
  BY DEF PipeInv, Hands
<1>3. ASSUME UNCHANGED <<cycle, consVars, consClosed>> PROVE SeenBy(p)
  BY <1>3 DEF SeenBy, SeenQuiet, consVars
<1>4. ASSUME NEW c \in Chunk, cycle[p] = "recv", c.from = accepted[p] + 1, c.to >= accepted[p],
             data'[p] = c, cycle'[p] = AfterTaking(c),
             UNCHANGED <<accepted, outcome, consClosed>>
      PROVE  SeenBy(p)
  <2>1. c.to \in 0..MaxBytes /\ outcome[p] = "ok" /\ ~consClosed[p]
    BY <1>2, <1>4 DEF Chunk, OutcomeInv, PhaseInv
  <2>2. data[p].to = accepted[p]
    BY <1>2, <1>4, <2>1 DEF HandInv
  <2>3. CASE c.to = accepted[p]
    <3>1. cycle'[p] = "recv"
      BY <1>1, <1>4, <2>3 DEF AfterTaking, IsEmpty
    <3>2. QED
      BY <1>4, <2>2, <2>3, <3>1 DEF SeenBy, SeenQuiet
  <2>4. CASE c.to # accepted[p]
    <3>1. cycle'[p] = "write"
      BY <1>1, <1>4, <2>1, <2>4 DEF AfterTaking, IsEmpty
    <3>2. c.to - accepted[p] \in 1..MaxBytes /\ c.to = data[p].to + (c.to - accepted[p])
      BY <1>1, <1>4, <2>1, <2>2, <2>4
    <3>3. QED
      BY <1>4, <2>1, <2>2, <3>1, <3>2 DEF SeenBy, SeenOffer
  <2>5. QED
    BY <2>3, <2>4
<1>5. CASE Begin(p)
  BY <1>3, <1>5 DEF Begin, StopEnter, StopAgain, WriteRefused, WriteSeesError, WriteEnter,
    BeginStop, pipeVars, consVars, stopVars
<1>6. CASE Finish(p)
  <2>1. CASE StopCheck(p) \/ StopWait(p) \/ StopReturn(p) \/ PushSeesEnd(p)
    BY <1>3, <2>1 DEF StopCheck, StopWait, StopReturn, PushSeesEnd, stopVars
  <2>2. CASE StopClose(p)
    <3>1. cycle[p] # "write" /\ consClosed'[p] /\ UNCHANGED <<cycle, data, accepted, outcome>>
      BY <1>1, <1>2, <2>2 DEF StopClose, PhaseInv, consVars
    <3>2. QED
      BY <3>1 DEF SeenBy, SeenClose
  <2>3. ASSUME NEW c \in Offers(p), PushBuffered(p, c) PROVE SeenBy(p)
    BY <1>3, <2>3 DEF PushBuffered, stopVars
  <2>4. ASSUME NEW c \in Offers(p), PushDirect(p, c) PROVE SeenBy(p)
    <3>1. /\ Cap = 0 /\ cycle[p] = "recv" /\ data'[p] = c /\ cycle'[p] = AfterTaking(c)
          /\ UNCHANGED <<accepted, outcome, consClosed>>
      BY <1>1, <2>4 DEF PushDirect, stopVars
    <3>2. c \in Chunk /\ c.from = accepted[p] + 1
      BY <3>1, NextChunk DEF Offers
    <3>3. c.to >= accepted[p]
      BY <1>1, <3>2, PipeAssumption DEF Offers, Length, Chunk
    <3>4. QED
      BY <1>4, <3>1, <3>2, <3>3
  <2>5. QED
    BY <1>6, <2>1, <2>2, <2>3, <2>4 DEF Finish, Push
<1>7. CASE Cycle(p)
  <2>1. CASE Receive(p)
    BY <1>1, <1>4, <2>1, NextChunk DEF Receive, stopVars
  <2>2. CASE ReceiveClosed(p) \/ SetWriteErr(p) \/ CloseEnd(p)
    <3>1. cycle[p] # "write" /\ cycle'[p] # "write" /\ UNCHANGED <<consVars, consClosed>>
      BY <1>1, <2>2 DEF ReceiveClosed, SetWriteErr, CloseEnd, stopVars
    <3>2. QED
      BY <3>1 DEF SeenBy, SeenQuiet, consVars
  <2>3. CASE ConsumerTakes(p)
    <3>1. PICK n \in 1..Length(data[p]) :
            /\ accepted' = [accepted EXCEPT ![p] = @ + n]
            /\ data' = [data EXCEPT ![p].from = @ + n]
            /\ cycle' = [cycle EXCEPT ![p] = IF n = Length(data[p]) THEN "recv" ELSE "write"]
      BY <2>3 DEF ConsumerTakes
    <3>2. cycle[p] = "write" /\ UNCHANGED <<outcome, consClosed>>
      BY <2>3 DEF ConsumerTakes, stopVars
    <3>3. data[p].from = accepted[p] + 1
      BY <1>2, <3>2 DEF ChainInv
    <3>4. Length(data[p]) = data[p].to - accepted[p]
      BY <1>1, <3>3 DEF Length
    <3>5. accepted'[p] = accepted[p] + n /\ data'[p].to = data[p].to
      BY <1>1, <3>1 DEF Chunk
    <3>6. n \in 0..(data[p].to - accepted[p])
      BY <1>1, <3>1, <3>4
    <3>7. cycle'[p] = "write" \/ accepted'[p] = data[p].to
      BY <1>1, <3>1, <3>4, <3>5, <3>6
    <3>8. QED
      BY <3>2, <3>5, <3>6, <3>7 DEF SeenBy, SeenTake
  <2>4. CASE ConsumerDone(p) \/ ConsumerFails(p)
    <3>1. /\ cycle[p] = "write" /\ cycle'[p] # "write" /\ outcome'[p] \in {"closed", "failed"}
          /\ UNCHANGED <<data, accepted, consClosed>>
      BY <1>1, <2>4 DEF ConsumerDone, ConsumerFails, stopVars
    <3>2. QED
      BY <3>1 DEF SeenBy, SeenRefuse
  <2>5. QED
    BY <1>7, <2>1, <2>2, <2>3, <2>4 DEF Cycle, Consume
<1>8. QED
  BY <1>5, <1>6, <1>7 DEF Step

(* The next byte for the consumer of q.                                    *)
NextByte(q) == IF cycle[q] = "write" THEN data[q].from ELSE accepted[q] + 1

(* What the consumers see, as functions: each changes at p at most.        *)
LEMMA SeenFunctions ==
  ASSUME PipeInv, NEW p \in Pipes, Step(p)
  PROVE  /\ [q \in Pipes |-> NextByte(q)]'
              = [[q \in Pipes |-> NextByte(q)] EXCEPT ![p] = accepted'[p] + 1]
         /\ [q \in Pipes |-> data[q].to]'
              = [[q \in Pipes |-> data[q].to] EXCEPT ![p] = data'[p].to]
         /\ [q \in Pipes |-> cycle[q] = "write"]'
              = [[q \in Pipes |-> cycle[q] = "write"] EXCEPT ![p] = (cycle'[p] = "write")]
         /\ outcome' = [outcome EXCEPT ![p] = outcome'[p]]
         /\ consClosed' = [consClosed EXCEPT ![p] = consClosed'[p]]
         /\ outcome'[p] = outcome[p] => outcome' = outcome
         /\ consClosed'[p] = consClosed[p] => consClosed' = consClosed
<1>1. \A q \in Pipes : q # p => Same(q)
  BY OthersSame
<1>2. PipeVarsOK'
  BY TypeStep
<1>3. /\ \A q \in Pipes : q # p => accepted'[q] = accepted[q]
      /\ \A q \in Pipes : q # p => data'[q] = data[q]
      /\ \A q \in Pipes : q # p => cycle'[q] = cycle[q]
      /\ \A q \in Pipes : q # p => outcome'[q] = outcome[q]
      /\ \A q \in Pipes : q # p => consClosed'[q] = consClosed[q]
  BY <1>1 DEF Same
<1>4. [q \in Pipes |-> NextByte(q)]'
        = [[q \in Pipes |-> NextByte(q)] EXCEPT ![p] = accepted'[p] + 1]
  <2>1. ChainInv(p)'
    BY ChainStep
  <2>2. NextByte(p)' = accepted'[p] + 1
    BY <2>1 DEF NextByte, ChainInv
  <2>3. \A q \in Pipes : q # p => NextByte(q)' = NextByte(q)
    BY <1>3 DEF NextByte
  <2>4. QED
    BY <2>2, <2>3
<1>5. [q \in Pipes |-> data[q].to]'
        = [[q \in Pipes |-> data[q].to] EXCEPT ![p] = data'[p].to]
  BY <1>3
<1>6. [q \in Pipes |-> cycle[q] = "write"]'
        = [[q \in Pipes |-> cycle[q] = "write"] EXCEPT ![p] = (cycle'[p] = "write")]
  BY <1>3
<1>7. outcome' = [outcome EXCEPT ![p] = outcome'[p]]
  BY <1>2, <1>3 DEF PipeInv, PipeVarsOK
<1>8. consClosed' = [consClosed EXCEPT ![p] = consClosed'[p]]
  BY <1>2, <1>3 DEF PipeInv, PipeVarsOK
<1>9. outcome'[p] = outcome[p] => outcome' = outcome
  BY <1>2, <1>3 DEF PipeInv, PipeVarsOK
<1>10. consClosed'[p] = consClosed[p] => consClosed' = consClosed
  BY <1>2, <1>3 DEF PipeInv, PipeVarsOK
<1>11. QED
  BY <1>4, <1>5, <1>6, <1>7, <1>8, <1>9, <1>10

(* A change to the value that is there is none.                            *)
LEMMA NoChange ==
  ASSUME NEW S, NEW T, NEW f \in [S -> T], NEW p \in S, NEW x, NEW g,
         g = [f EXCEPT ![p] = x], x = f[p]
  PROVE  g = f
OBVIOUS

(* A step that a consumer sees so is one of its contract.                  *)
LEMMA SeenIsContract ==
  ASSUME PipeInv, NEW p \in Pipes, Step(p), SeenBy(p)
  PROVE  [Driven!ConsumerStep(p)]_(Driven!consumerState)
<1> DEFINE next   == [q \in Pipes |-> NextByte(q)]
           offer  == [q \in Pipes |-> data[q].to]
           active == [q \in Pipes |-> cycle[q] = "write"]
<1>1. /\ next' = [next EXCEPT ![p] = accepted'[p] + 1]
      /\ offer' = [offer EXCEPT ![p] = data'[p].to]
      /\ active' = [active EXCEPT ![p] = (cycle'[p] = "write")]
      /\ outcome' = [outcome EXCEPT ![p] = outcome'[p]]
      /\ consClosed' = [consClosed EXCEPT ![p] = consClosed'[p]]
  BY SeenFunctions
<1>2. /\ next[p] = accepted[p] + 1 /\ offer[p] = data[p].to
      /\ active[p] = (cycle[p] = "write")
      /\ next \in [Pipes -> Int] /\ offer \in [Pipes -> Int] /\ active \in [Pipes -> BOOLEAN]
      /\ outcome \in [Pipes -> {"ok", "closed", "failed"}]
      /\ consClosed \in [Pipes -> BOOLEAN]
      /\ accepted[p] \in Int /\ data[p].to \in Int
  BY PipeAssumption DEF PipeInv, PipeVarsOK, Chunk, NextByte, ChainInv
<1>3. /\ accepted'[p] = accepted[p] => next' = next
      /\ data'[p].to = data[p].to => offer' = offer
      /\ (cycle'[p] = "write" <=> cycle[p] = "write") => active' = active
      /\ outcome'[p] = outcome[p] => outcome' = outcome
      /\ consClosed'[p] = consClosed[p] => consClosed' = consClosed
  <2> HIDE DEF next, offer, active
  <2>1. accepted'[p] = accepted[p] => next' = next
    BY <1>1, <1>2, NoChange
  <2>2. data'[p].to = data[p].to => offer' = offer
    BY <1>1, <1>2, NoChange
  <2>3. (cycle'[p] = "write" <=> cycle[p] = "write") => active' = active
    BY <1>1, <1>2, NoChange
  <2>4. QED
    BY <2>1, <2>2, <2>3, SeenFunctions
<1>4. CASE SeenQuiet(p)
  BY <1>3, <1>4 DEF SeenQuiet, NextByte, Driven!consumerState
<1>5. ASSUME NEW n \in 1..MaxBytes, SeenOffer(p, n)
      PROVE  Driven!ConsumerStep(p)
  <2> HIDE DEF next, offer, active
  <2>1. ~active[p] /\ next[p] = offer[p] + 1
    BY <1>2, <1>5 DEF SeenOffer
  <2>2. offer[p] + n = data'[p].to /\ active' = [active EXCEPT ![p] = TRUE]
    BY <1>1, <1>2, <1>5 DEF SeenOffer
  <2>3. offer' = [offer EXCEPT ![p] = @ + n]
    BY <1>1, <1>2, <2>2
  <2>4. UNCHANGED <<next, outcome, consClosed>>
    BY <1>3, <1>5 DEF SeenOffer
  <2>5. Driven!Offer(p, n)
    BY <1>5, <2>1, <2>2, <2>3, <2>4 DEF SeenOffer, Driven!Offer, next, NextByte, offer, active
  <2>6. QED
    BY <2>5 DEF Driven!ConsumerStep
<1>6. ASSUME NEW n \in 0..(data[p].to - accepted[p]), SeenTake(p, n)
      PROVE  Driven!ConsumerStep(p)
  <2> DEFINE more == cycle'[p] = "write"
  <2> HIDE DEF next, offer, active, more
  <2>1. active[p] /\ UNCHANGED <<offer, outcome, consClosed>>
    BY <1>2, <1>3, <1>6 DEF SeenTake
  <2>2. next' = [next EXCEPT ![p] = @ + n]
    <3>1. next[p] + n = accepted'[p] + 1
      BY <1>2, <1>6 DEF SeenTake
    <3>2. QED
      BY <1>1, <1>2, <3>1
  <2>3. active' = [active EXCEPT ![p] = more]
    BY <1>1 DEF more
  <2>4. more \/ next'[p] = offer[p] + 1
    <3>1. next'[p] = accepted'[p] + 1
      BY <1>1, <1>2
    <3>2. QED
      BY <1>2, <1>6, <3>1 DEF SeenTake, more
  <2>5. (more => Driven!Take(p, n, TRUE)) /\ (~more => Driven!Take(p, n, FALSE))
    <3>1. more = TRUE \/ more = FALSE
      BY DEF more
    <3>2. QED
      BY <2>1, <2>2, <2>3, <2>4, <3>1 DEF Driven!Take, next, NextByte, offer, active
  <2>6. n \in 0..(offer[p] - next[p] + 1)
    BY <1>2
  <2>7. \E k \in 0..(offer[p] - next[p] + 1), m \in BOOLEAN : Driven!Take(p, k, m)
    BY <2>5, <2>6
  <2>8. QED
    BY <2>7 DEF Driven!ConsumerStep, next, NextByte, offer
<1>7. CASE SeenRefuse(p)
  <2> HIDE DEF next, offer, active
  <2>1. active[p] /\ active' = [active EXCEPT ![p] = FALSE]
    BY <1>1, <1>2, <1>7 DEF SeenRefuse
  <2>2. UNCHANGED <<next, offer, consClosed>>
    BY <1>3, <1>7 DEF SeenRefuse
  <2>3. /\ outcome'[p] = "closed" => Driven!Refuse(p, "closed")
        /\ outcome'[p] = "failed" => Driven!Refuse(p, "failed")
    BY <1>1, <2>1, <2>2 DEF Driven!Refuse, next, NextByte, offer, active
  <2>4. outcome'[p] = "closed" \/ outcome'[p] = "failed"
    BY <1>7 DEF SeenRefuse
  <2>5. QED
    BY <2>3, <2>4 DEF Driven!ConsumerStep
<1>8. CASE SeenClose(p)
  <2> HIDE DEF next, offer, active
  <2>1. ~active[p] /\ UNCHANGED <<next, offer, active, outcome>>
    BY <1>2, <1>3, <1>8 DEF SeenClose
  <2>2. consClosed' = [consClosed EXCEPT ![p] = TRUE]
    BY <1>1, <1>2, <1>8 DEF SeenClose
  <2>3. Driven!Close(p)
    BY <2>1, <2>2 DEF Driven!Close, next, NextByte, offer, active
  <2>4. QED
    BY <2>3 DEF Driven!ConsumerStep
<1>9. QED
  BY <1>4, <1>5, <1>6, <1>7, <1>8 DEF SeenBy

(* Hands holds at first and is kept by every step.                         *)
LEMMA HandsInit == PipeInit => Hands
BY DEF PipeInit, Hands, HandInv, NoChunk

LEMMA HandsNext == PipeInv /\ Hands /\ [PipeNext]_pipeVars => Hands'
<1> SUFFICES ASSUME PipeInv, Hands, [PipeNext]_pipeVars, NEW q \in Pipes PROVE HandInv(q)'
  BY DEF Hands
<1>1. HandInv(q) /\ data[q].to \in Int /\ accepted[q] \in Int
  BY PipeAssumption DEF Hands, PipeInv, PipeVarsOK, Chunk
<1>2. ASSUME NEW p \in Pipes, Step(p), q # p PROVE HandInv(q)'
  BY <1>1, <1>2, OthersSame DEF HandInv, Same
<1>3. ASSUME Step(q) PROVE HandInv(q)'
  <2>1. SeenBy(q)
    BY <1>3, SeenStep
  <2>2. QED
    BY <1>1, <2>1 DEF HandInv, SeenBy, SeenQuiet, SeenOffer, SeenTake, SeenRefuse,
      SeenClose
<1>4. CASE UNCHANGED pipeVars
  BY <1>1, <1>4 DEF HandInv, pipeVars
<1>5. QED
  BY <1>2, <1>3, <1>4 DEF PipeNext, Step

(* Whatever the provider does, and whatever the consumer answers, a pipe   *)
(* calls its consumer as the Consumer interface wants it: Write with the   *)
(* bytes behind those taken, one call at a time and none after a refusal   *)
(* or Close, and Close never while a Write runs (writeAllToConsumer, Start *)
(* and Stop of pipe.go).                                                   *)
THEOREM PipeDrivesConsumers == PipeSpec => DrivesConsumers
<1>1. PipeInit => Driven!ConsumerInit
  <2> SUFFICES ASSUME PipeInit PROVE Driven!ConsumerInit
    OBVIOUS
  <2>1. \A p \in Pipes : accepted[p] = 0 /\ data[p].to = 0 /\ cycle[p] = "recv"
    BY DEF PipeInit, NoChunk
  <2>2. /\ [p \in Pipes |-> IF cycle[p] = "write" THEN data[p].from ELSE accepted[p] + 1]
              = [p \in Pipes |-> 1]
        /\ [p \in Pipes |-> data[p].to] = [p \in Pipes |-> 0]
    BY <2>1
  <2>3. [p \in Pipes |-> cycle[p] = "write"] = [p \in Pipes |-> FALSE]
    BY <2>1
  <2>4. QED
    BY <2>2, <2>3 DEF PipeInit, Driven!ConsumerInit
<1>2. PipeInv /\ Hands /\ [PipeNext]_pipeVars
        => [\E c \in Pipes : Driven!ConsumerStep(c)]_(Driven!consumerState)
  <2> SUFFICES ASSUME PipeInv, Hands, [PipeNext]_pipeVars
               PROVE  [\E c \in Pipes : Driven!ConsumerStep(c)]_(Driven!consumerState)
    OBVIOUS
  <2>1. ASSUME NEW p \in Pipes, Step(p)
        PROVE  [Driven!ConsumerStep(p)]_(Driven!consumerState)
    BY <2>1, SeenStep, SeenIsContract
  <2>2. CASE UNCHANGED pipeVars
    BY <2>2 DEF pipeVars, Driven!consumerState
  <2>3. QED
    BY <2>1, <2>2 DEF PipeNext, Step
<1>3. PipeSpec => []Hands
  BY HandsInit, HandsNext, PipeInvariant, PTL DEF PipeSpec
<1>4. QED
  BY <1>1, <1>2, <1>3, PipeInvariant, PTL DEF PipeSpec, DrivesConsumers, Driven!ConsumerSpec

=============================================================================
