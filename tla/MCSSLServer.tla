---------------------------- MODULE MCSSLServer ----------------------------
(* SSLServer for TLC: the connections are interchangeable.                 *)
EXTENDS SSLServer, TLC

Symmetry == Permutations(Clients)
=============================================================================
