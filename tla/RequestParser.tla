--------------------------- MODULE RequestParser ---------------------------
(***************************************************************************)
(* parseHost, parsePort, parsePath and parseQuery of                       *)
(* src/sources/manager.cpp.  A header is the sequence of characters behind *)
(* its first "://", <<>> where it has none; on_read has cut it behind its  *)
(* newline.                                                                *)
(***************************************************************************)
EXTENDS SequencesExt, Integers

CONSTANT MaxPort        \* 65535

Digits == ("0" :> 0) @@ ("1" :> 1) @@ ("2" :> 2) @@ ("3" :> 3) @@ ("4" :> 4)
       @@ ("5" :> 5) @@ ("6" :> 6) @@ ("7" :> 7) @@ ("8" :> 8) @@ ("9" :> 9)
Blanks == {" ", "\t", "\r", "\n"}

(* find(ch, i), 0 for npos; substr from i to before j.                     *)
Find(h, ch, i) == SelectInSubSeq(h, i, Len(h), LAMBDA x : x = ch)
Text(h, i, j) == SubSeq(h, i, j - 1)

LineEnd(h, i) == IF Find(h, "\r", i) # 0 THEN Find(h, "\r", i) ELSE Find(h, "\n", i)

ParseQuery(h, i) == Text(h, i, LineEnd(h, i))

PathThrough(h, i) ==    \* slip: the path goes on through the query
    [end |-> i, path |-> Text(h, i, LineEnd(h, i)), query |-> <<>>]

ParsePath(h, i) ==
    LET q == Find(h, "?", i)
    IN  [end |-> i,
         path |-> Text(h, i, IF q # 0 THEN q ELSE LineEnd(h, i)),
         query |-> IF q # 0 THEN ParseQuery(h, q) ELSE <<>>]

(* What follows the host, or the colon of the port, at or behind i: end is *)
(* where it begins.  The slash is looked for in the whole rest, a query    *)
(* too.                                                                    *)
ParseRest(h, i) ==
    LET slash == Find(h, "/", i)
        mark == Find(h, "?", i)
    IN  IF slash # 0 THEN ParsePath(h, slash)
        ELSE IF mark # 0 THEN [end |-> mark, path |-> <<>>, query |-> ParseQuery(h, mark)]
        ELSE [end |-> LineEnd(h, i), path |-> <<>>, query |-> <<>>]

(* How many of chars the text has from i on, before anything else.         *)
Run(s, i, chars) ==
    LET other == SelectInSubSeq(s, i, Len(s), LAMBDA ch : ch \notin chars)
    IN  (IF other = 0 THEN Len(s) + 1 ELSE other) - i

(* atoi: blanks, a sign and digits; numbers that an int holds.             *)
Atoi(s) ==
    LET sign == 1 + Run(s, 1, Blanks)
        first == IF sign <= Len(s) /\ s[sign] \in {"+", "-"} THEN sign + 1 ELSE sign
        digits == SubSeq(s, first, first + Run(s, first, DOMAIN Digits) - 1)
        number == FoldLeft(LAMBDA n, ch : 10 * n + Digits[ch], 0, digits)
    IN  IF first > sign /\ s[sign] = "-" THEN 0 - number ELSE number

Refused == [ok |-> FALSE, host |-> <<>>, port |-> 0, path |-> <<>>, query |-> <<>>]

Result(host, port, rest) ==
    [ok |-> TRUE, host |-> host, port |-> port, path |-> rest.path,
     query |-> rest.query]

(* The colon, too, is looked for in the whole header.                      *)
ParseHost(h) ==
    LET colon == Find(h, ":", 1)
        rest == ParseRest(h, colon + 1)
        port == IF colon = 0 THEN 1965 ELSE Atoi(Text(h, colon + 1, rest.end))
    IN  IF h = <<>> \/ (colon # 0 /\ port \notin 1..MaxPort) THEN Refused
        ELSE Result(Text(h, 1, IF colon = 0 THEN rest.end ELSE colon), port, rest)

----------------------------------------------------------------------------
(* The reference: an authority up to the first "/", "?" or end of line; a  *)
(* port behind its first colon; a path up to the first "?"; a query.       *)
Stop(h, marks) == SelectInSeq(h, LAMBDA ch : ch \in marks \cup {"\r", "\n"})

UrlParts(h) ==
    LET authority == Text(h, 1, Stop(h, {"/", "?"}))
        colon == Find(authority, ":", 1)
        port == IF colon = 0 THEN 1965
                ELSE Atoi(Text(authority, colon + 1, Len(authority) + 1))
    IN  IF h = <<>> \/ (colon # 0 /\ port \notin 1..MaxPort) THEN Refused
        ELSE Result(IF colon = 0 THEN authority ELSE Text(authority, 1, colon), port,
                    [path |-> Text(h, Len(authority) + 1, Stop(h, {"?"})),
                     query |-> Text(h, Stop(h, {"?"}), Stop(h, {}))])

(* No colon behind the authority, and no slash in a query without a path.  *)
Ordinary(h) ==
    LET stop == Stop(h, {"/", "?"})
    IN  h # <<>> =>
          /\ \A i \in stop..Len(h) : h[i] # ":"
          /\ h[stop] = "?" => \A i \in stop..Len(h) : h[i] # "/"

=============================================================================
