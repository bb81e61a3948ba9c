-------------------------- MODULE MCClientStream --------------------------
(* Small instances of ClientStream for TLC. *)
EXTENDS ClientStream, TLC

=============================================================================
