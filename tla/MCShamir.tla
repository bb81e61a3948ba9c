------------------------------ MODULE MCShamir ------------------------------
(* An instance of Shamir for TLC: every key of one byte, every coefficient for *)
(* it; and some keys of two bytes.                                             *)
EXTENDS Shamir

MCPems == {<<a>> : a \in Byte} \cup {<<a, b>> : a, b \in {0, 83, 255}}

MCRedraws == {0, 202}

MCDraws == <<Byte, MCRedraws \cup {1, 128}>>

=============================================================================
