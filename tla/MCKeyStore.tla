----------------------------- MODULE MCKeyStore -----------------------------
(* Small instances of KeyStore for TLC. *)
EXTENDS KeyStore, TLC

CONSTANTS c1, c2, c3, v1, v2

\* A client with a choice of two keys; Share1s of three clients, so that a torn
\* line hits its own client and the next one and leaves one alone, and a second
\* share to replace one with; the other server at work as well.
MCRequests ==
    {<<"key", c1, v1>>, <<"key", c1, v2>>,
     <<"share1", c1, v1>>, <<"share1", c1, v2>>, <<"share1", c2, v1>>, <<"share1", c3, v1>>,
     <<"share2", c1, v1>>}

=============================================================================
