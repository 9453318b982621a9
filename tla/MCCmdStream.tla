----------------------------- MODULE MCCmdStream -----------------------------
(* Small instances of CmdStream for TLC: how often the program writes to   *)
(* stdout (1) and to stderr (2).                                           *)
EXTENDS CmdStream

OneAndNone == [o \in {1, 2} |-> IF o = 1 THEN 1 ELSE 0]
TwoAndNone == [o \in {1, 2} |-> IF o = 1 THEN 2 ELSE 0]
ThreeAndNone == [o \in {1, 2} |-> IF o = 1 THEN 3 ELSE 0]

=============================================================================
