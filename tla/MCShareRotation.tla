-------------------------- MODULE MCShareRotation --------------------------
(* Small instances of ShareRotation for TLC. *)
EXTENDS ShareRotation, TLC

\* As many names as NamesAssumption asks for two devices; of those, the model
\* takes the least that is free.
MCKeys == 1..14
MCSplitIds == 1..9

=============================================================================
