------------------------------ MODULE MCParts ------------------------------
EXTENDS Parts

(***************************************************************************)
(* Requests: all headers of up to four characters of an authority, all     *)
(* ports of up to three characters of a number, and all paths of up to     *)
(* five; a lone handler, two of which one is for a host, and one whose     *)
(* base and folder are unusual.                                            *)
(***************************************************************************)
Texts(chars, n) == UNION {[1..k -> chars] : k \in 0..n}

MCHeaders ==
    {<<>>} \cup {s \o e : s \in Texts({":", "/", "?", "h", "7"}, 4),
                         e \in {<<"\r", "\n">>, <<"\n">>}}
           \cup {<<"h", ":">> \o s \o <<"/", "\n">> : s \in Texts({" ", "+", "-", "0", "9", "a"}, 3)}
           \cup {<<"h">> \o s \o <<"\r", "\n">> : s \in Texts({"/", "\\", ".", "a"}, 5)}

Settings(host, base, folder) == [host |-> host, base |-> base, folder |-> folder]

MCHandlerLists ==
    {<<Settings(<<>>, <<>>, <<"/", "f">>)>>,
     <<Settings(<<"h">>, <<"/", "a">>, <<"f", "/", ".", ".", "/", "f">>),
       Settings(<<>>, <<"/", "a", "/", "a">>, <<"/", "g", "/">>)>>,
     <<Settings(<<>>, <<"a">>, <<"/">>)>>}

MCDir == <<"/", "c">>

=============================================================================
