--------------------------- MODULE MCGeminiServer ---------------------------
(* GeminiServer for TLC: what the peer sends.                              *)
EXTENDS GeminiServer, TLC

(* A peer that waits for the response once its request line is out.  One   *)
(* read may deliver nothing, a record, or several at once.                 *)
WaitingPeer ==
    {<<>>, <<"hello">>, <<"part">>, <<"line">>, <<"notify">>, <<"bad">>,
     <<"hello", "line">>, <<"part", "line">>, <<"long">>, <<"long", "part">>}

(* A peer that may send more after its request line.                       *)
TalkativePeer ==
    WaitingPeer \cup {<<"line", "part">>, <<"line", "notify">>}

Symmetry == Permutations(Clients) \cup Permutations(Contexts)
=============================================================================
