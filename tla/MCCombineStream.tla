--------------------------- MODULE MCCombineStream ---------------------------
(* Small instances of CombineStream for TLC.  Two streams are combined that*)
(* are not written to, or the third alone, which is.                       *)
EXTENDS CombineStream

OnlyThird == [o \in Streams |-> IF o = 3 THEN 2 ELSE 0]
Never == [o \in Streams |-> 0]

MCInit == outs \in {{1, 2}, {3}} /\ CombineInit
MCSpec == MCInit /\ [][CombineNext]_allVars /\ CombineFairness

=============================================================================
