--------------------------- MODULE MCSplitConsumer ---------------------------
(* Small instances of SplitConsumer for TLC.                               *)
EXTENDS SplitConsumer

=============================================================================
