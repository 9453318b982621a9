--------------------------- MODULE ConsumerContract ---------------------------
(***************************************************************************)
(* What a pipe and a tee.Consumer owe each other (the Consumer interface,  *)
(* pkg/tee/base.go, as writeAllToConsumer calls it and BaseConsumer serves *)
(* it): Write with the bytes of the input in order, one call at a time,    *)
(* until one is refused; then Close, never while a Write runs; no Write    *)
(* after it.                                                               *)
(*                                                                         *)
(* Pipe makes its calls as this allows, SplitConsumer answers them so.     *)
(***************************************************************************)
EXTENDS Integers

CONSTANTS
  Consumers,    \* the consumers
  MaxBytes      \* bound: the number of bytes of the input

VARIABLES
  next,     \* next[c]: the first byte that c has not taken
  offered,  \* offered[c]: the last byte of the last chunk offered to it
  busy,     \* busy[c]: it has not answered for all of that chunk yet
  answer,   \* answer[c]: "ok" until it refuses, with ErrClosed ("closed")
            \* or with another error ("failed")
  shut      \* shut[c]: it is closed, by Close or by itself

consumerState == <<next, offered, busy, answer, shut>>

ConsumerInit ==
  /\ next = [c \in Consumers |-> 1] /\ offered = [c \in Consumers |-> 0]
  /\ busy = [c \in Consumers |-> FALSE]
  /\ answer = [c \in Consumers |-> "ok"] /\ shut = [c \in Consumers |-> FALSE]

(* Write is called with the n bytes behind those that it took.             *)
Offer(c, n) ==
  /\ ~busy[c] /\ answer[c] = "ok" /\ ~shut[c] /\ next[c] = offered[c] + 1
  /\ offered' = [offered EXCEPT ![c] = @ + n]
  /\ busy' = [busy EXCEPT ![c] = TRUE]
  /\ UNCHANGED <<next, answer, shut>>

(* It takes n bytes more; until it has them all it is called with the rest.*)
Take(c, n, more) ==
  /\ busy[c]
  /\ next' = [next EXCEPT ![c] = @ + n]
  /\ busy' = [busy EXCEPT ![c] = more]
  /\ more \/ next'[c] = offered[c] + 1
  /\ UNCHANGED <<offered, answer, shut>>

(* It refuses; a consumer that wants no more data may close itself.        *)
Refuse(c, err) ==
  /\ busy[c]
  /\ busy' = [busy EXCEPT ![c] = FALSE]
  /\ answer' = [answer EXCEPT ![c] = err]
  /\ shut' = shut \/ (err = "closed" /\ shut' = [shut EXCEPT ![c] = TRUE])
  /\ UNCHANGED <<next, offered>>

Close(c) ==
  /\ ~busy[c]
  /\ shut' = [shut EXCEPT ![c] = TRUE]
  /\ UNCHANGED <<next, offered, busy, answer>>

ConsumerStep(c) ==
  \/ \E n \in 1..MaxBytes : Offer(c, n)
  \/ \E n \in 0..(offered[c] - next[c] + 1), more \in BOOLEAN : Take(c, n, more)
  \/ \E err \in {"closed", "failed"} : Refuse(c, err)
  \/ Close(c)

ConsumerSpec == ConsumerInit /\ [][\E c \in Consumers : ConsumerStep(c)]_consumerState

=============================================================================
