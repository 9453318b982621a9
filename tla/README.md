# TLA+ models of gotee

gotee reads one input and hands every byte of it to several consumers; `RunCmd`
does so for the stdout and stderr of a program.  The library is small, but it
is goroutines, channels and flags throughout, and most of what can go wrong is
an order of steps.  This directory holds the models of that core (TLA+), their
TLC instances, and proofs checked by TLAPS.  `PROJECT.json` maps each
definition to the lines it translates and lists the runs, the hazards and the
theorems.

## 1. Inventory of the system

| component | source (`src/pkg/...`) | state | operations | modelled in |
|---|---|---|---|---|
| pipe | `tee/stream/pipe.go` | `writeCh`, `endCh`, `writeErr`, `resultErr`, the stopped flag | `WriteToPipe`, `Start` (write cycle), `Stop` | `Pipe` |
| TeeStream | `tee/stream/stream_tee.go`, `stream_base.go`, `results.go`, `tee/closed.go` | `stopped`, `innerStopCh`, `readEndCh`; locals of `Run` and `startRead` | `Run`, `Stop`, `startRead`/`sendPart`, `WaitReadEnd` | `TeeStream` |
| Stream interface | `tee/base.go` | none of its own | `Run`, `Stop`, `WaitReadEnd` | `StreamContract` |
| CombineStream | `tee/stream/stream_combine.go` | `stopped`, the streams, the Results of each | `Run`, `Stop`, `WaitReadEnd` | `CombineStream` |
| cleaner | `tee/cleaner/cleaner.go` | `errCh`, closed flag, readers, writers | `Append`, `Close`, `GetError` | `CombineStream` |
| RunCmd | `tee/cmd/exec.go` | options; locals of `RunCmd` | `NewStreamForCmd`, `RunCmd` | `CmdStream` |
| scanner | `scan/scanner.go` | buffer, start/end, empties | `Scan`, `Unhandled`; setters | `Scanner` (all but the setters) |
| split consumer | `tee/consumer/split.go`, `base.go` | a scanner, closed and flushed flags, the handler's error | `Write`, `Close` | `SplitConsumer` |
| line consumers | `tee/consumer/line.go` | a split consumer; lines of `StringsSliceLineHandler` | `Handle` | as a handler of `SplitConsumer` |
| writer, func and buffer consumers | `tee/consumer/*.go` | the wrapped value | `Write`, `Close` | as the consumer of `Pipe` |
| ClosableReaderBuffer, helpers | `tee/buffer.go`, `tee/utils.go`, `internal/*.go` | a closed flag | `Read`, `Close`; error joining, names, logs | as an input of `TeeStream`; not modelled |

How they interact.  `TeeStream.Run` owns the call side of every pipe: it calls
`WriteToPipe` on each in turn, removes those that answer "stopped" or an error,
and calls `Stop` on all of them at the end.  One write cycle per pipe runs the
consumer.  A reader goroutine reads the input and meets `Run` on unbuffered
channels (`outCh`, `errCh`) and on channel closes.  `Stop` may be called from any
goroutine and speaks to `Run` and the reader through `innerStopCh` only.
`CombineStream` runs several streams and stops them together, first calling
its BeforeStop functions, of which the cleaner's `Close` is one.  `RunCmd`
starts the CombineStream, then the program; os/exec copies each output into
an `io.Pipe` whose other side is the input of a TeeStream.

What is hard here, and what should hold:

- **pipe**: Stop races the write cycle over `writeErr`, `endCh` and the channel.
  No send on a closed channel or second close; `consumer.Close` never overlaps a
  `Write`; bytes in order, none lost before the close; a failure always shows in
  Stop's result; every call returns.
- **TeeStream**: five cases of a select may be ready at once; consumers leave
  in the middle of a round; Stop comes from several goroutines at any moment.
  Live consumers get every byte that was read, `Results` names exactly the failed
  ones, everything is released at return, the read-ahead is bounded, Run ends
  after a stop, and the reader does not leak.
- **CombineStream, cleaner, RunCmd**: who runs the cleaner when several goroutines
  call Stop, what a Run returns when another one shares its streams; who is freed
  by a Stop; waiting on each other (`cmd.Wait` on the copies, the copies on the
  streams, the streams' ends on the close of the pipes, the close on `cmd.Wait`).
  Output is complete, pipes are closed once and always, nothing is left behind.
- **scanner and split consumer**: sequential and numeric: the buffer's indices
  under every mixture of chunk and token sizes, the count of empty scans that is
  kept across calls, what happens to the rest when a scan ends or the handler
  fails.  Tokens are the lines of the input however it was cut; a complete line
  does not wait for another chunk; no byte is handed over twice, and none is lost
  at a close.

## 2. Modules

| module | role |
|---|---|
| `Pipe` | a set of pipes, each with its write cycle and consumer; the caller is any goroutine that makes one call at a time |
| `TeeStream` | extends `Pipe`: `Run`, the reader, callers of `Stop`, the context |
| `StreamContract` | the abstract stream: what the user of `Run`, `Stop` and a context may see, without consumers and pipes |
| `ConsumerContract` | what a pipe and its consumer owe each other: Write in order until one is refused, then Close |
| `CombineStream` | extends `StreamContract`: several streams under one CombineStream and its cleaner, and any number of goroutines that call Run, Stop, WaitReadEnd and GetError |
| `CmdStream` | extends `CombineStream`: RunCmd as its user, and os/exec and io.Pipe as the environment |
| `Scanner` | one call of `Scan` at a time over a buffer of bounded size |
| `SplitConsumer` | extends `Scanner`: the consumer that a pipe writes to and closes, and its handler |
| `MCPipe`, `MCTeeStream`, `MCCombineStream`, `MCCmdStream`, `MCSplitConsumer` | the instances for TLC |
| `PipeProofs`, `TeeStreamProofs`, `ContractProofs`, `DeliveryProofs`, `CombineProofs`, `CmdStreamProofs`, `SplitProofs`, `ConsumerProofs` | the theorems |

Refinements hold the layers together.  `TeeStream` implements `PipeSpec`, the
specification of its pipes under *any* caller, so each theorem about the pipe is a
theorem about the stream.  `TeeStream` implements `StreamContract` (`KeepsContract`,
an `INSTANCE` with a refinement mapping), and `CombineStream` is built on streams
of that contract: its actions conjoin the contract's own, so what it shows needs no
more of the streams than the contract, and holds of TeeStreams by `StreamKeepsContract`.
It narrows them in one way only, by their input: a `Read` of an io.Pipe gives bytes
without an error or the end, and never fails.  `CmdStream` implements `CombineSpec`:
RunCmd is one of the users that `CombineStream` allows, so that module's theorems
hold in it.
`SplitConsumer` stands below: it is one of the consumers that `Pipe` describes by
their answers.  `ConsumerContract` is what the two have in common: `Pipe` implements it
as the one who calls (`DrivesConsumers`), `SplitConsumer` as the one who answers (`IsConsumer`).

### ConsumerContract
One side's promise and the other's are both in the guards: a Write is offered only
while none is unanswered, refused or after Close, with the bytes behind those
taken (`Offer`, `Close`: the pipe's part); an answer without an error has taken all of
it in the end, and a consumer closes itself only when it answers `ErrClosed` (`Take`,
`Refuse`: the consumer's).  `next`, `offered` and `busy` are seen in a pipe as its chunk in
hand and in a split consumer as the bytes not yet copied into the buffer.

### Pipe
`call[p]` is where the provider's call is, `cycle[p]` where the write cycle is.
A chunk is an interval of byte positions; "each byte once, in order" is then
arithmetic.  An error is a set of causes and `errors.Join` a union.  One action
per statement that another goroutine can observe: `StopEnter` (CAS and close of
`writeCh`), `StopCheck` (first look at `writeErr`), `StopWait` (`endCh`), `StopClose`,
`StopReturn` (second look), `WriteSeesError`/`WriteEnter`/`Push...`, and for the cycle
`Receive`, the consumer's answers, `SetWriteErr`, `CloseEnd`.  `stopMu` is not
modelled: both callers of Stop are the one goroutine of Run.  The consumer takes at
least one byte or answers with an error, as `io.Writer` demands.

### TeeStream
`rpc` and `kpc` are the program counters of `Run` and the reader.  A hand-over on
an unbuffered channel is one step of both.  The reader's exit (sendStop and the
deferred closes) is one step: Run answers each of those signals by leaving its
loop.  `nread` and `emptySeen` are history.  Inputs: `ReadInput` gives any number
of bytes up to the buffer with or without an error, `ReadClosedInput` what a closed
input gives.  `Users` call Stop once each, before Run as well; a second call of
one user would only find the flag.  A second `Run` returns before it changes
anything and is left out.

### StreamContract
Coarser than TeeStream on purpose: `Signal` is not tied to one caller, so Stop may
be seen to return before the stop signal is out; any consumer set is reduced
to `alone` (all have refused).  Over-approximation makes the runs and proofs of
`CombineStream` and `CmdStream` stronger, never weaker.

### CombineStream
`runner[u]`, `stopPc[u]` and `blocked[u]` say where user u is in a call of Run, of Stop, or
of one that waits (`WaitReadEnd`, `GetError`); `Free` makes it one call at a time.
`answer[u][o]` is what the Run of stream o was to u's call: its own, or turned away as
already started or stopped.  A second `CombineStream.Run` is not refused by a flag of
its own: it goes on to the streams, is turned away by each, and its Stop then stops
the first one (`TurnedAway` in `RunWaits`).  `errSent` is the one place of `errCh`,
`errTaken` the cleaner's closed flag, which `GetError` sets and `Close` tests.  The
inputs are io.Pipes, which end only when a side is closed (`PipeGives`, `ReadEnd`).
Both writers (or readers) of the pipes are closed in one step because no one can
see between them; the code goes through a Go map.  The close wait is a sleep: `CloseWait`
always ends, whether the readers are through or not.  That the consumers of a
stream have all refused (`ConsumersLeave`) is the contract's `AllRefuse`: it may come
at any time after the start.  In the code they refuse in a round of the stream, when
they are given a chunk, so in a trace the refusal may stand before the round that
finds it out (`LeaveAlone`); nobody looks at `alone` in between.  `Waiters` are the users that call `WaitReadEnd`
and `GetError`.

### CmdStream
`outs` is the choice of outputs with consumers, `leavers` those whose consumers
may all refuse; both are chosen once.  `cutShort` is history: a close wait was over
before the readers were at their end, which is the one way but the context and the consumers
to lose output (`OutputComplete`).  `pc` is RunCmd, which calls Stop and GetError
as the user "main"; the goroutine it starts for `Run` is the user "runner".  External,
and modelled from how RunCmd uses it: a program that writes, is killed by SIGPIPE or
exits; an OS pipe with a capacity; per output the copy goroutine of os/exec; the
rendezvous of `io.Pipe`.

### Scanner and SplitConsumer
A byte is its position in the input, so a slot that was shifted or filled wrongly
is seen; `input` gives each byte the kind that the split function tells it by: a
char, a newline, the end of the last token (`ErrFinalToken`), or one it fails at.
`toWrite` is the rest of the chunk and a token an interval.  `Fill`, `FillShifted`
and `FillGrown` are the outcomes of `prepareBuffer`, each with its `copyRemain`;
`CutLine`, `CutLast`, `SplitFails` and `NoToken` are the outcomes of one call of the
split function.  The final token of `CutLast` is any prefix of the window up to that
byte, the empty one (or none) included, and `Scan` moves behind the token and not
where the function says; `SplitFails` may move by any advance within the window, and one outside it
moves nothing.  The handler may fail at any call, with an error of its own or with
`ErrClosed`: `Write` returns either, the pipe takes the second for a clean end, and the consumer
itself stays open until the pipe closes it.  A `Write` on a closed consumer is `ErrClosed`
and changes nothing (`WriteRefused`).  `Write` runs through all of
this and back (`WriteHandlerErr`, `WriteOk`, `WriteEnds`); after an error the pipe
writes no more, but it closes.  Left out: that `ScanLines` drops a carriage return
at the end of a line, a `Scan` of no bytes (nothing writes one), and split functions
that advance without a token.

## 3. Runs

The properties are stated, with the code they are about, where they are defined.

| run | what it asks | bounds, and why they suffice |
|---|---|---|
| `pipe` | all safety of one pipe, its consumer's contract, and `CallsReturn` | capacity 2, chunks of up to 2 bytes, 4 bytes: empty, partial and full channel, a short write that splits a chunk, a call that blocks on a full channel. Pipes do not share state, so one is enough |
| `stream` | delivery, results, release, read-ahead, `PipeSpec` and `KeepsContract`, with an input that ends or fails | two consumers are the least with which one leaves and one stays; 4 bytes in one-byte reads are one more than the read-ahead bound of the unbuffered pipes. Buffered channels are the matter of `pipe`, users of Stop that of `stream_live`, and both that of the theorems, which hold for every capacity and set of users |
| `stream_live` | Run ends by Stop or context though Read never returns; with an input that answers, at its end and when all consumers have left; the reader ends; one caller of Stop works | two consumers, one byte; a user and Run are two racing callers of Stop (`StoppedOnce` is proved for any set of them); input with EOF only (see `stream_leak`), which nobody closes |
| `combine` | one cleaner, nothing left open or running after a Stop, Results of two calls of Run, and that a Stop frees those who wait in Run, Stop, GetError or a Read (a `WaitReadEnd` of streams that never ran waits for its context) | two users: two calls of Run, two of Stop, or one that waits (one of them may, `Waiters`) while the other stops; two streams that nobody writes to, which have to be freed, or one that is written to twice (`MCInit`): errors and refusals of streams do not depend on each other, the order of stops and Results does |
| `cmd` | completeness, no cut without cause, a Run that does not return early, everything closed, use of the CombineStream; RunCmd returns and leaves nothing behind | two writes on stdout and none on stderr with OS pipes of one: a copy in each of its states, a program blocked in a write, a stream whose reader waits for ever.  `RunWaits` is asked here, where consumers leave, a context ends and a Start fails; two calls of Run are the matter of its proof |
| `split` | tokens and bytes of a split consumer, its contract, and that Write returns | six bytes of four kinds, buffer 2, which may grow to 3 (less than double), limit of 2 empty scans: a shift for want of room and one past the middle, a growth, `ErrTooLong` with and without a token before it, `ErrNoProgress` by small chunks |
| `stream_leak`, `stream_empty`, `combine_polled`, `cmd_exit`, `cmd_stopped`, `split_flags` | statements of the docs and tests that the code does not keep | as small as shows it; `cmd_exit` needs three writes: one that is delivered, one refused, one nobody reads |

Deadlock is checked in `pipe` and `split`.  In the others the system may really stop: a
reader stays in its error send (`stream`, `stream_leak`), its input never answers
(`stream_live`), users make no more calls and nobody writes (`combine`), or the
wait described under `cmd_exit` has begun (`cmd`).  That the calls end where they
should is what the liveness properties say.

Each property of a passing run has a mutant: a variant of an action (marked
"Variant" in the modules) that is a plausible slip in that code, under which TLC
finds the property violated.

### Disagreements met on the way
1. `stream_leak`: a Read that returned bytes with an error, or an error alone, first
   hands its part to Run, then sends the error on the unbuffered `errCh`
   (`stream_tee.go:336`).  Run took the part in its loop and may leave it by another
   case that is ready (the context, a Stop) or because all consumers have left; then
   nobody receives the error and the reader stays in its send for ever.  A Read that
   returns only after Run has left is no such case: `sendPart` hears `innerStopCh`
   (`stream_tee.go:325-330`).
2. `stream_empty`: the count of empty reads is reset by every empty read, so a limit
   above one is never reached (`stream_tee.go:318`).
3. `cmd_exit`: when one of two outputs has lost its consumers, RunCmd can hang
   after the program has exited, with nothing closed (`exec.go:294`).
4. `cmd_stopped`: a program that ends quickly makes RunCmd report `ErrStreamStopped`.
5. `combine_polled`: a `GetError(true)` before the Stop makes the cleaner's `Close` do
   nothing (`cleaner.go:97`): the pipes stay open and a reader waits for ever.
6. `split_flags`: the bytes flushed by Write carry `scanErr` exactly when the scan did
   not fail (`split.go:81`).

Observed and not given a run: with `WithMaxEmptyReads(1)` the `(0, EOF)` of a clean
end becomes `io.ErrNoProgress` (`stream_tee.go:310`); and a line that comes in more
than a hundred small chunks ends in `io.ErrNoProgress`, which
`gotee_test/scaner_test.go` asserts, so `GivesUpOnlyIfLong` states just that; the error
of a scan is returned joined with `ErrClosed` (`split.go:88`), so the pipe takes it for a
clean end and no Results has it; and a second
`CombineStream.Run` stops the first (`stream_combine.go:42`), about which no doc says
anything: `ErrorsTold` and the proof of `RunWaits` say what holds then.

## 4. Fairness

- Each goroutine gets weak fairness of *all* its steps together, not of each one:
  the Go scheduler runs a goroutine that can run.  Starting Run and calling Stop are
  choices of the user and get none; a call of Stop once begun goes on.
- A `Write` of a consumer returns in the end (fairness of `ConsumerSide`).  A slow
  consumer is allowed, one that hangs for ever is not: Run waits for it by design.
- A `Read` of a closed input returns.  An open one need not: the properties that
  need its answers say so (`InputAnswers => ...`).
- The context case of Run's select gets strong fairness: it may be disabled
  while Run is in a round and Go's `select` draws at random among ready cases, so it
  cannot be passed over for ever.
- In `CombineStream` no user need call anything and nobody need write into a pipe; a
  call of Run or Stop once begun goes on, a call that waits ends when what it waits
  for is there, and each stream steps when it can.  This is one weak fairness of
  all those steps together.  It asks less than one per goroutine does and is enough:
  each of them is taken finitely often (`StopEnds` proves it), so while one is left
  one is taken, until none is.  `StopFreesAll`, `RunCmdReturns` and `NothingLeft` say `[]<>`:
  what they ask for is the case again and again.
- In `CmdStream` the program ends unless it is blocked in a write.  It gets no
  signals but SIGPIPE: a program that is killed from outside while it is blocked in
  a write is not modelled.  In the counterexample of `cmd_exit` the program has
  exited by itself.
- In `SplitConsumer` a call of `Write` runs on to its return; nothing in it waits.

## 5. Proofs

Each theorem holds for every value of the constants that satisfies the modules'
named assumptions: `PipeAssumption` (any integer capacity, a positive buffer, any
length of input), `StreamAssumption` (a finite nonempty set of pipes, numbered in
the order of the consumers; any set of users of Stop; any limit of empty reads),
`ContractAssumption`, `CombineAssumption` (any set of streams and of users, any number
of writes per stream), `CmdAssumption` (the two goroutines of RunCmd, any positive
OS capacity), `ScannerAssumption` (any length of input, any
limit of empty scans, any positive sizes).  No assumption speaks of behaviour.

**`PipeProofs`** - `PipeInv` is inductive.  Besides types (`PipeVarsOK`; `PipeTypeOK` adds the
channel within its capacity, which follows from `PipeInv`) it says how the two
goroutines' flags hang together (who has closed what, and where the other one then
can be), what each place of the write cycle says of outcome and error, and
`Chain`: accepted bytes, the chunk in hand and the channel's chunks are adjacent
intervals that end at `sent`.  `InOrder` alone is not inductive: a receive hands on
whatever is in the channel, so the invariant must know what is there.
From it: `NoPanic`, `ClosedAfterWrites`, `BytesInOrder`, `DrainedAtClose`,
`FailuresReported`.  `PipeDrivesConsumers` is the refinement of `ConsumerContract`, for any
provider; it needs one invariant more (`Hands`: outside a Write the chunk in hand has been
accepted or refused).

`PipeNeverStuck` and `PipeComesNearer` are the half of `CallsReturn` that is safety: while a
call waits, one of the two goroutines has a step, and each of their steps for it
lowers a count of steps that is at most `8 + Cap + MaxBytes`.  What is left to TLC is that
weak fairness then gets the call to its end.

**`TeeStreamProofs`** - `StreamInv` = `ReaderInv` (what the reader holds continues what
Run received), `RoundInv` (which pipes of a round have its chunk, and that the list
has no stopped pipe), `DrainInv` (stopped pipes and their errors in the results),
`StopInv` (one worker among the callers of Stop).  `StreamImplementsPipe` shows that
each step is a step of `PipeNext` or leaves the pipes alone, the hand-over of the
next bytes being the only case that needs the invariant; from it and `StreamInv`
follow `OneStops`, `LivePipesOnly`, `AllReleased`, `ErrsExact`, and for the pipes as Run uses
them `StreamPipesSafe` and `StreamDrivesConsumers`.  `RunGoesOn` is deadlock freedom of Run:
in a round and in the drain Run, or the write cycle its call waits for, has a step, and its select
waits for a reader at work and for nothing else (with `CallsInv`: Run is in a call on the
pipe whose turn it is only).  A round's next pipe is the least of those that are left:
`FirstTurn` takes it from the well-foundedness of the numbers, the only induction the
proofs need (here, for the first of the streams to stop and for the first end in a window).

**`ContractProofs`** - `StreamKeepsContract`: the refinement, step by step, with two
more invariants: `ReadErrInv` (Run has no read error while it is in its loop, so
leaving sets it) and `GoneInv` (a pipe off the list belongs to a consumer that
refused; before Run nothing moves).  The second is what makes "no pipe left" imply
`alone`.

**`DeliveryProofs`** - what the stream promises its user, which needs all of the
above and `DeliveryInv`: `LocalsInv` (types); `CauseInv` (who may have set the stopped
flag); `EndInv` (a reader that is through has handed over all it read, or was
stopped); `LeftInv` (out of its loop, Run was stopped, or no consumer is left, or it
has everything); `BufInv` and `AheadInv` (the reader is a part ahead of Run, and what
lies behind the i-th of n chunks in a channel is at most n - i buffers, which a
receive and a send both keep).  From it: `StreamTypeOK`, `DeliveredToTheEnd`,
`ReadErrReported`, `ReadAheadBounded`, and the action property `NothingAfterReturn`: when Run
has returned its results stay and no consumer is called any more, whatever the
reader, late callers of Stop and write cycles still do (`RefusedInv` for a Run that was
turned away).

**`CombineProofs`** - `CombineInv` = types; `StopperInv` (one call of Stop is at work, and what
is closed and flagged follows from where it is); `RunInv` (each stream was started by
the one call that has it as its own, and a finished call has told all it found);
`QuietInv` (while no Stop, context or second Run interferes, only a Run whose
consumers have all left sets the flag).  From it: `CleanerClosesOnce`,
`StopClosesAll`, `RunWaits`, `ErrorsTold`, and the action property `NothingBetweenRuns`.  `StopNotStuck` and `StopEnds` are the safety half of
`StopFreesAll`: with `ProgressInv` (a stream has a reader from its start and is flagged when its Run
is through; a Stop at its streams has one left) nobody waits in a circle, Close for
the readers, a Read for its pipe, Run for its streams; and every step lowers
`StreamSteps` or `CallSteps`, bounded counts that no step raises, or is one of finitely
many answers and stops of streams.

**`CmdStreamProofs`** - `UsesCombineStream` is the refinement `Spec => CombineSpec`, step by
step; the new users' choices are states of the old ones.  `CmdInv` adds to
`CombineInv` the program and RunCmd (`ProgInv`, `MainInv`); `CopyInv` (writes = OS pipe + the
one in the copy's hands + bytes the stream has read, until the copy fails);
`HeldInv` (while neither the context ended nor the consumers of an output left, its
stream is not stopped before `cmd.Wait` has returned) and `DeliveredInv` (and when it
is, it has delivered all it read).  `CutOnlyForCause` and `OutputComplete` are far from
inductive: they speak of the end of a chain of waits that only `HeldInv` records.
`QuietAfterRunCmd` is the action property `NothingAfterReturn` of RunCmd: no byte for a consumer
after it has returned, also when Start failed and the goroutine of Run is still on its
way (that one finds every reader ended).

**`SplitProofs`** - `SplitInv`: the indices (`IndexInv`), the window in order
(`BufferInOrder`, inductive with them), where results and flags stand (`ResultInv`: a
closed consumer is at rest, a scan goes on only while its result is open), and
`FrontInv`: all that was handed over is behind the window, and the window begins
where a line begins.  `FrontInv` is what `TokensAreLines` and `NoByteTwice` need
to be inductive: they speak of the parts, a step of the buffer.  The lemma
`CopyKeepsOrder` is stated for any buffer in order, so the three outcomes of
`prepareBuffer` need only show that theirs is.  From it: `BufferRight`, `TokensRight`,
`HandedOnce`.

**`ConsumerProofs`** - five more invariants over `SplitInv`.  `CharsInv`: between two fillings
the window holds no end of a line.  `HandedInv`: each line before the window has been
handed over, and a closed consumer has handed over the window; with `CharsInv` that
is `LinesComplete` and `NothingLost`.  `EmptyInv`: each scan without a token has found
at least one byte more than the one before (`FillAdds`: a filling always finds
room), so the count of empty scans is never above the length of the window;
with `CharsInv` that is `GivesUpOnlyIfLong`, with the limit it is `SplitTypeOK`.
`FailInv` is the order of the handler's answers, for `FailureStopsTokens`.  `LineInv` has the
newline of each token before the window and the rest in a close only; with
`TokensAreLines` (a token is a line) and `LinesComplete` (each line has a token that ends with
it) it gives `LinesExact`: the tokens are the set of lines, defined from the input
alone.  `ScanGoesOn` and `ScanEnds` are the safety half of `WriteReturns`: while a Write is at
work it has a step, and each step lowers `ScanSteps`, three for a byte of the chunk that
is still to be copied and one for a byte of the window.
`SplitIsConsumer` is the refinement of `ConsumerContract` from the consumer's side.

Every invariant of the passing runs is proved, and every refinement; the action
properties `NothingAfterReturn` and `NothingBetweenRuns` and the safety halves of progress
(`...NeverStuck`, `...ComesNearer`, and `CallsComeNearer`) are proved and belong to no run.  Only
model-checked are the liveness properties, which TLAPS cannot prove under fairness:
`CallsReturn`, `StopEndsRun`, `RunEnds`, `ReaderEnds`, `StopFreesAll`, `RunCmdReturns`, `NothingLeft`,
`WriteReturns`.

## 6. Not modelled, and why

- Formatting and wrapping of errors, names, logging: no property
  depends on them.  An error is its cause.
- Setters (`With...`) run before Run: their values are constants.
- A second `Run` of one `TeeStream`: it returns `ErrStreamAlreadyStarted` and changes
  nothing.  `CombineStream` models it as an answer.
- `cleaner.Append`, which `NewStreamForCmd` calls before anything runs; that `Close` of
  one of several pipes may fail: the error is one of several in `errCh`.
- The race of `pipe.writeErr` needs no model: it is guarded by a mutex.
- Writer, func and buffer consumers: one Write each, whose answers `Pipe` has all.
- `consumer_gorutine.go` is commented out from its first line to its last.
- `Results` and its methods format what `result` and `outcome` hold.
- A consumer that answers `(0, nil)` for ever breaks `io.Writer` and hangs Run.

## 7. Plan

Order: what everything else rests on first.

1. (done) `Pipe`, its proofs; `TeeStream`, its refinement of `PipeSpec`, its proofs.
2. (done) `StreamContract` and the refinement; `CmdStream` on top of it, its proofs.
3. (done) `Scanner` and `SplitConsumer`, their first proofs.
4. (done) `CombineStream` and the cleaner for several callers of Run, Stop, WaitReadEnd
   and GetError, as a module `CmdStream` takes its actions from; their proofs.
5. (done) `DeliveryProofs` and `ConsumerProofs`: the invariants that were model-checked only.
6. (done) `ConsumerContract` and its two refinements, the lines of the input as the reference
   for the tokens (`LinesExact`), the
   safety half of progress for pipes, Run, `SplitConsumer` and `CombineStream`, and what holds
   after a return.
7. Left: the safety half of progress for `RunCmd`; split functions that advance without a
   token.
