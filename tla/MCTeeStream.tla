----------------------------- MODULE MCTeeStream -----------------------------
(* Small instances of TeeStream for TLC.                                   *)
EXTENDS TeeStream

=============================================================================
