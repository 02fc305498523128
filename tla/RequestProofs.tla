--------------------------- MODULE RequestProofs ---------------------------
(***************************************************************************)
(* Theorems about the way from a request to a file, for any text of any    *)
(* length: a URL is taken apart as a URL is, the file looked up lies in    *)
(* the folder of its handler, and a redirect settles.                      *)
(***************************************************************************)
EXTENDS Parts, WellFoundedInduction, TLAPS

(* Any strings.  The backends do not know that a string is a member of     *)
(* STRING: the two the model writes itself are named.                      *)
Characters == STRING \cup {"/", "."}

Paths == Seq(Characters)

LEMMA Least ==
    ASSUME NEW S, S \subseteq Nat, S # {}
    PROVE  \E m \in S : \A k \in S : m <= k
<1>1. PICK m \in S : \A k \in S : ~(<<k, m>> \in OpToRel(<, Nat))
  BY NatLessThanWellFounded, WFMin
<1>2. \A k \in S : ~(k < m)
  BY <1>1 DEF OpToRel
<1> QED BY <1>2

----------------------------------------------------------------------------
(***************************************************************************)
(* The parser: the path, the query and the port are where they are looked  *)
(* for.                                                                    *)
(***************************************************************************)
(* The first place of s, from the i-th on, with a character of marks.      *)
IsFirst(k, s, i, marks) ==
    /\ k \in i..Len(s) /\ s[k] \in marks
    /\ \A j \in i..(k - 1) : s[j] \notin marks

LEMMA FirstInSub ==
    ASSUME NEW s \in Paths, NEW i \in Nat \ {0}, NEW ch
    PROVE  /\ (\A j \in i..Len(s) : s[j] # ch) => Requests!Find(s, ch, i) = 0
           /\ \A k : IsFirst(k, s, i, {ch}) => Requests!Find(s, ch, i) = k
<1> DEFINE I == {j \in i..Len(s) : s[j] = ch}
<1>1. Requests!Find(s, ch, i) = IF I # {} THEN Requests!Min(I) ELSE 0
  BY DEF Requests!Find, Requests!SelectInSubSeq
<1>2. ASSUME NEW k, IsFirst(k, s, i, {ch}) PROVE Requests!Find(s, ch, i) = k
  <2>1. k \in I /\ \A j \in I : k <= j
    BY <1>2 DEF IsFirst
  <2>2. \A m \in I : (\A j \in I : m <= j) => m = k
    BY <2>1
  <2> HIDE DEF I
  <2> QED BY <1>1, <2>1, <2>2 DEF Requests!Min
<1> QED BY <1>1, <1>2

LEMMA FirstInSeq ==
    ASSUME NEW s \in Paths, NEW marks, NEW k, IsFirst(k, s, 1, marks \cup {"\r", "\n"})
    PROVE  Requests!Stop(s, marks) = k
<1> DEFINE I == {j \in 1..Len(s) : s[j] \in marks \cup {"\r", "\n"}}
<1>1. Requests!Stop(s, marks) = IF I # {} THEN Requests!Min(I) ELSE 0
  BY DEF Requests!Stop, Requests!SelectInSeq
<1>2. k \in I /\ \A j \in I : k <= j
  BY DEF IsFirst
<1>3. \A m \in I : (\A j \in I : m <= j) => m = k
  BY <1>2
<1> HIDE DEF I
<1> QED BY <1>1, <1>2, <1>3 DEF Requests!Min

LEMMA FirstExists ==
    ASSUME NEW s \in Paths, NEW i \in Nat \ {0}, NEW marks,
           NEW n \in i..Len(s), s[n] \in marks
    PROVE  \E k \in i..n : IsFirst(k, s, i, marks)
<1> DEFINE S == {j \in i..Len(s) : s[j] \in marks}
<1>1. n \in S /\ S \subseteq Nat
  OBVIOUS
<1>2. PICK k \in S : \A j \in S : k <= j
  <2> HIDE DEF S
  <2> QED BY <1>1, Least
<1> QED BY <1>1, <1>2 DEF IsFirst

(* A header as on_read cuts it: the newline at its end is its only one;    *)
(* and a carriage return belongs to that line end.                         *)
IsLine(h) ==
    /\ h \in Paths
    /\ h # <<>>
    /\ \A i \in 1..Len(h) : h[i] = "\n" <=> i = Len(h)
    /\ \A i \in 1..Len(h) : h[i] = "\r" => i = Len(h) - 1

(* Where the text of a line ends.                                          *)
IsEnd(h, e) == IsFirst(e, h, 1, {"\r", "\n"})

LEMMA EndExists == ASSUME NEW h, IsLine(h) PROVE \E e \in 1..Len(h) : IsEnd(h, e)
<1>1. /\ h \in Paths /\ 1 \in Nat \ {0}
      /\ Len(h) \in 1..Len(h) /\ h[Len(h)] \in {"\r", "\n"}
  BY DEF IsLine
<1>2. \E e \in 1..Len(h) : IsFirst(e, h, 1, {"\r", "\n"})
  BY <1>1, FirstExists
<1> QED BY <1>2 DEF IsEnd

(* Nothing but the line end follows.                                       *)
LEMMA EndIsLast ==
    ASSUME NEW h, IsLine(h), NEW e, IsEnd(h, e)
    PROVE  \A j \in e..Len(h) : h[j] \in {"\r", "\n"}
  BY DEF IsLine, IsEnd, IsFirst

(* From wherever one looks, the text of a line ends where it ends.         *)
LEMMA LineEndIs ==
    ASSUME NEW h, IsLine(h), NEW e, IsEnd(h, e), NEW i \in 1..e
    PROVE  Requests!LineEnd(h, i) = e
<1>1. h \in Paths /\ e \in 1..Len(h) /\ i \in Nat \ {0}
  BY DEF IsLine, IsEnd, IsFirst
<1>2. CASE h[e] = "\r"
  <2>1. IsFirst(e, h, i, {"\r"})
    BY <1>1, <1>2 DEF IsEnd, IsFirst
  <2> QED BY <1>1, <2>1, FirstInSub DEF Requests!LineEnd
<1>3. CASE h[e] = "\n"
  <2>1. IsFirst(e, h, i, {"\n"}) /\ e = Len(h)
    BY <1>1, <1>3 DEF IsEnd, IsFirst, IsLine
  <2>2. \A j \in i..Len(h) : h[j] # "\r"
    BY <1>1, <1>3, <2>1 DEF IsEnd, IsFirst
  <2> QED BY <1>1, <2>1, <2>2, FirstInSub DEF Requests!LineEnd
<1> QED BY <1>2, <1>3 DEF IsEnd, IsFirst

(* Where an authority ends.                                                *)
IsStop(h, s) == IsFirst(s, h, 1, {"/", "?"} \cup {"\r", "\n"})

(* The text of a line of which nothing is left.                            *)
LEMMA NoText == ASSUME NEW h, NEW i \in Nat PROVE Requests!Text(h, i, i) = <<>>
  BY DEF Requests!Text

(* What ParseRest finds after the authority, from wherever it starts.      *)
LEMMA RestIs ==
    ASSUME NEW h, IsLine(h), Requests!Ordinary(h),
           NEW e, IsEnd(h, e), NEW s, IsStop(h, s), NEW i \in 1..s
    PROVE  /\ Requests!ParseRest(h, i).end = s
           /\ Requests!ParseRest(h, i).path = Requests!Text(h, s, Requests!Stop(h, {"?"}))
           /\ Requests!ParseRest(h, i).query =
                 Requests!Text(h, Requests!Stop(h, {"?"}), Requests!Stop(h, {}))
<1>1. /\ h \in Paths /\ e \in 1..Len(h) /\ s \in 1..Len(h) /\ i \in Nat \ {0}
      /\ s <= e
  BY DEF IsLine, IsEnd, IsStop, IsFirst
<1>2. Requests!Stop(h, {}) = e
  <2>1. IsFirst(e, h, 1, {} \cup {"\r", "\n"})
    BY DEF IsEnd
  <2> QED BY <1>1, <2>1, FirstInSeq
<1>3. Requests!Stop(h, {"/", "?"}) = s
  BY <1>1, FirstInSeq DEF IsStop
<1>4. \A j \in e..Len(h) : h[j] \in {"\r", "\n"}
  BY EndIsLast
<1>5. \A j \in i..(s - 1) : h[j] \notin {"/", "?", "\r", "\n"}
  BY DEF IsStop, IsFirst
<1>6. CASE h[s] = "/"
  <2>1. Requests!Find(h, "/", i) = s
    <3>1. IsFirst(s, h, i, {"/"})
      BY <1>1, <1>5, <1>6 DEF IsFirst
    <3> QED BY <1>1, <3>1, FirstInSub
  <2>2. Requests!ParseRest(h, i) = Requests!ParsePath(h, s)
    BY <1>1, <2>1 DEF Requests!ParseRest
  <2>3. CASE \E n \in s..e : h[n] = "?"
    <3>1. PICK q \in s..Len(h) : IsFirst(q, h, s, {"?"}) /\ q <= e
      <4>1. PICK n \in s..e : h[n] = "?"
        BY <2>3
      <4>2. n \in s..Len(h) /\ h[n] \in {"?"} /\ s \in Nat \ {0}
        BY <1>1, <4>1
      <4>3. \E q \in s..n : IsFirst(q, h, s, {"?"})
        BY <1>1, <4>2, FirstExists
      <4> QED BY <1>1, <4>2, <4>3
    <3>2. Requests!Find(h, "?", s) = q /\ q # 0
      BY <1>1, <3>1, FirstInSub
    <3>3. IsFirst(q, h, 1, {"?"} \cup {"\r", "\n"})
      BY <1>1, <3>1 DEF IsFirst, IsStop, IsEnd
    <3>4. Requests!Stop(h, {"?"}) = q
      BY <1>1, <3>3, FirstInSeq
    <3>5. Requests!LineEnd(h, q) = e
      BY <1>1, <3>1, LineEndIs
    <3> QED BY <1>2, <2>2, <3>2, <3>4, <3>5 DEF Requests!ParsePath, Requests!ParseQuery
  <2>4. CASE \A n \in s..e : h[n] # "?"
    <3>1. Requests!Find(h, "?", s) = 0
      <4>1. s \in Nat \ {0} /\ \A n \in s..Len(h) : h[n] # "?"
        BY <1>1, <1>4, <2>4
      <4> QED BY <1>1, <4>1, FirstInSub
    <3>2. IsFirst(e, h, 1, {"?"} \cup {"\r", "\n"})
      BY <1>1, <2>4 DEF IsFirst, IsStop, IsEnd
    <3>3. Requests!Stop(h, {"?"}) = e
      BY <1>1, <3>2, FirstInSeq
    <3>4. Requests!LineEnd(h, s) = e
      BY <1>1, LineEndIs
    <3>5. Requests!Text(h, e, e) = <<>>
      BY <1>1, NoText
    <3> QED BY <1>2, <2>2, <3>1, <3>3, <3>4, <3>5 DEF Requests!ParsePath
  <2> QED BY <2>3, <2>4
<1>7. CASE h[s] = "?"
  <2>1. Requests!Find(h, "/", i) = 0
    <3>1. \A j \in s..Len(h) : h[j] # "/"
      BY <1>1, <1>3, <1>7 DEF Requests!Ordinary
    <3>2. \A j \in i..Len(h) : h[j] # "/"
      BY <1>1, <1>5, <3>1
    <3> QED BY <1>1, <3>2, FirstInSub
  <2>2. Requests!Find(h, "?", i) = s
    <3>1. IsFirst(s, h, i, {"?"})
      BY <1>1, <1>5, <1>7 DEF IsFirst
    <3> QED BY <1>1, <3>1, FirstInSub
  <2>3. Requests!Stop(h, {"?"}) = s
    <3>1. IsFirst(s, h, 1, {"?"} \cup {"\r", "\n"})
      BY <1>1, <1>7 DEF IsFirst, IsStop
    <3> QED BY <1>1, <3>1, FirstInSeq
  <2>4. Requests!LineEnd(h, s) = e /\ Requests!Text(h, s, s) = <<>> /\ s # 0
    BY <1>1, LineEndIs, NoText
  <2> QED BY <1>2, <2>1, <2>2, <2>3, <2>4 DEF Requests!ParseRest, Requests!ParseQuery
<1>8. CASE h[s] \in {"\r", "\n"}
  <2>1. s = e
    BY <1>1, <1>8 DEF IsEnd, IsFirst
  <2>2. \A j \in i..Len(h) : h[j] \notin {"/", "?"}
    BY <1>1, <1>4, <1>5, <2>1
  <2>3. Requests!Find(h, "/", i) = 0 /\ Requests!Find(h, "?", i) = 0
    BY <1>1, <2>2, FirstInSub
  <2>4. Requests!Stop(h, {"?"}) = e
    <3>1. IsFirst(e, h, 1, {"?"} \cup {"\r", "\n"})
      BY <1>1, <1>8, <2>1 DEF IsFirst, IsStop
    <3> QED BY <1>1, <3>1, FirstInSeq
  <2>5. Requests!LineEnd(h, i) = e /\ Requests!Text(h, e, e) = <<>>
    BY <1>1, <2>1, LineEndIs, NoText
  <2> QED BY <1>2, <2>1, <2>3, <2>4, <2>5 DEF Requests!ParseRest
<1> QED BY <1>6, <1>7, <1>8 DEF IsStop, IsFirst

(* The parser takes an ordinary line apart as its definition does.         *)
LEMMA ParsedRight ==
    ASSUME NEW h, h = <<>> \/ IsLine(h), Requests!Ordinary(h)
    PROVE  Requests!ParseHost(h) = Requests!UrlParts(h)
<1>1. CASE h = <<>>
  BY <1>1 DEF Requests!ParseHost, Requests!UrlParts
<1>2. CASE IsLine(h)
  <2>1. h \in Paths /\ h # <<>>
    BY <1>2 DEF IsLine
  <2>2. PICK e \in 1..Len(h) : IsEnd(h, e)
    BY <1>2, EndExists
  <2>3. PICK s \in 1..e : IsStop(h, s)
    <3>1. h[e] \in {"/", "?"} \cup {"\r", "\n"} /\ 1 \in Nat \ {0}
      BY <2>2 DEF IsEnd, IsFirst
    <3>2. \E s \in 1..e : IsFirst(s, h, 1, {"/", "?"} \cup {"\r", "\n"})
      BY <2>1, <2>2, <3>1, FirstExists
    <3> QED BY <3>2 DEF IsStop
  <2>4. Requests!Stop(h, {"/", "?"}) = s /\ s \in 1..Len(h)
    BY <2>1, <2>3, FirstInSeq DEF IsStop, IsFirst
  <2> DEFINE authority == Requests!Text(h, 1, s)
  <2> DEFINE colon == Requests!Find(authority, ":", 1)
  <2>5. /\ authority \in Paths /\ Len(authority) = s - 1
        /\ \A j \in 1..(s - 1) : authority[j] = h[j]
    BY <2>1, <2>4 DEF Requests!Text, Paths
  <2>6. \A j \in s..Len(h) : h[j] # ":"
    BY <2>1, <2>4 DEF Requests!Ordinary
  <2>7. /\ colon \in 0..(s - 1)
        /\ Requests!Find(h, ":", 1) = colon
    <3>0. 1 \in Nat \ {0}
      OBVIOUS
    <3>1. CASE \E n \in 1..(s - 1) : h[n] = ":"
      <4>1. PICK n \in 1..(s - 1) : h[n] = ":"
        BY <3>1
      <4>2. n \in 1..Len(h) /\ h[n] \in {":"}
        BY <2>4, <4>1
      <4>3. PICK k \in 1..n : IsFirst(k, h, 1, {":"})
        BY <2>1, <3>0, <4>2, FirstExists
      <4>4. IsFirst(k, authority, 1, {":"})
        BY <2>1, <2>4, <2>5, <4>1, <4>3 DEF IsFirst
      <4>5. colon = k
        BY <2>5, <3>0, <4>4, FirstInSub
      <4>6. Requests!Find(h, ":", 1) = k
        BY <2>1, <3>0, <4>3, FirstInSub
      <4> QED BY <2>4, <4>1, <4>5, <4>6
    <3>2. CASE \A n \in 1..(s - 1) : h[n] # ":"
      <4>1. \A n \in 1..Len(h) : h[n] # ":"
        BY <2>4, <2>6, <3>2
      <4>2. \A n \in 1..Len(authority) : authority[n] # ":"
        BY <2>5, <3>2
      <4> HIDE DEF authority
      <4>3. colon = 0 /\ Requests!Find(h, ":", 1) = 0
        BY <2>1, <2>5, <3>0, <4>1, <4>2, FirstInSub
      <4> QED BY <2>4, <4>3
    <3> QED BY <3>1, <3>2
  <2> DEFINE rest == Requests!ParseRest(h, colon + 1)
  <2> DEFINE path == Requests!Text(h, s, Requests!Stop(h, {"?"}))
  <2> DEFINE query == Requests!Text(h, Requests!Stop(h, {"?"}), Requests!Stop(h, {}))
  <2>8. rest.end = s /\ rest.path = path /\ rest.query = query
    <3>1. colon + 1 \in 1..s
      BY <2>4, <2>7
    <3> HIDE DEF colon
    <3> QED BY <1>2, <2>2, <2>3, <3>1, RestIs
  <2>9. colon # 0 => /\ Requests!Text(authority, colon + 1, s) = Requests!Text(h, colon + 1, s)
                     /\ Requests!Text(authority, 1, colon) = Requests!Text(h, 1, colon)
    <3> HIDE DEF colon
    <3> QED BY <2>1, <2>4, <2>5, <2>7 DEF Requests!Text
  <2> DEFINE port == IF colon = 0 THEN 1965 ELSE Requests!Atoi(Requests!Text(h, colon + 1, s))
  <2> DEFINE result ==
        IF colon # 0 /\ port \notin 1..MaxPort THEN Requests!Refused
        ELSE Requests!Result(IF colon = 0 THEN authority ELSE Requests!Text(h, 1, colon), port,
                             [path |-> path, query |-> query])
  <2> HIDE DEF colon
  <2>10. Requests!ParseHost(h) = result
    <3> DEFINE HostOf(i, r) ==
          LET number == IF i = 0 THEN 1965 ELSE Requests!Atoi(Requests!Text(h, i + 1, r.end))
          IN  IF h = <<>> \/ (i # 0 /\ number \notin 1..MaxPort) THEN Requests!Refused
              ELSE Requests!Result(Requests!Text(h, 1, IF i = 0 THEN r.end ELSE i), number, r)
    <3> DEFINE first == Requests!Find(h, ":", 1)
    <3>1. Requests!ParseHost(h) = HostOf(first, Requests!ParseRest(h, first + 1))
      BY DEF Requests!ParseHost
    <3>2. first = colon
      BY <2>7
    <3>3. Requests!ParseHost(h) = HostOf(colon, rest)
      <4> HIDE DEF HostOf
      <4> QED BY <3>1, <3>2
    <3>4. Requests!Result(Requests!Text(h, 1, IF colon = 0 THEN s ELSE colon), port, rest)
            = Requests!Result(Requests!Text(h, 1, IF colon = 0 THEN s ELSE colon), port,
                              [path |-> path, query |-> query])
      <4> HIDE DEF rest, path, query, port
      <4> QED BY <2>8 DEF Requests!Result
    <3> HIDE DEF rest, path, query
    <3> QED BY <2>1, <2>8, <3>3, <3>4
  <2>11. Requests!UrlParts(h) = result
    <3>1. Len(authority) + 1 = s
      BY <2>4, <2>5
    <3> DEFINE UrlOf(text, n) ==
          LET i == Requests!Find(text, ":", 1)
              number == IF i = 0 THEN 1965 ELSE Requests!Atoi(Requests!Text(text, i + 1, n))
          IN  IF h = <<>> \/ (i # 0 /\ number \notin 1..MaxPort) THEN Requests!Refused
              ELSE Requests!Result(IF i = 0 THEN text ELSE Requests!Text(text, 1, i), number,
                                   [path |-> Requests!Text(h, n, Requests!Stop(h, {"?"})),
                                    query |-> query])
    <3> DEFINE text == Requests!Text(h, 1, Requests!Stop(h, {"/", "?"}))
    <3>2. Requests!UrlParts(h) = UrlOf(text, Len(text) + 1)
      BY DEF Requests!UrlParts
    <3>3. text = authority
      BY <2>4
    <3>4. Requests!UrlParts(h) = UrlOf(authority, s)
      <4> HIDE DEF UrlOf
      <4> QED BY <3>1, <3>2, <3>3
    <3>5. CASE colon = 0
      BY <2>1, <3>4, <3>5 DEF colon
    <3>6. CASE colon # 0
      <4>1. Requests!Find(authority, ":", 1) = colon
        BY DEF colon
      <4> HIDE DEF authority, query
      <4> QED BY <2>1, <2>9, <3>4, <3>6, <4>1
    <3> QED BY <3>5, <3>6
  <2> QED BY <2>10, <2>11
<1> QED BY <1>1, <1>2

(* The request is what the parser made of the header.                      *)
RequestInv ==
    /\ part # "request" => RequestRests
    /\ part = "request" => /\ header \in Headers
                           /\ stage \in {"parsed", "crashed"} =>
                                 request = Requests!ParseHost(header)

LEMMA RequestInductive == PartsSpec => []RequestInv
<1>1. PartsInit => RequestInv
  BY DEF PartsInit, RequestInv, Requests!Init
<1>2. RequestInv /\ [PartsNext]_<<part, vars, pool, child, startup, capsule, mime>>
        => RequestInv'
  <2>1. RequestInv /\ UNCHANGED <<part, capsule>> => RequestInv'
    BY DEF RequestInv, capsule, RequestRests
  <2> SUFFICES ASSUME RequestInv, part = "request", UNCHANGED part, Requests!Next
               PROVE  RequestInv'
    BY <2>1 DEF PartsNext
  <2>2. CASE Requests!Parse
    BY <2>2 DEF Requests!Parse, RequestInv
  <2>3. CASE \/ Requests!Unhandled \/ Requests!RedirectReduced \/ Requests!Locate
             \/ Requests!DoesNotExist \/ Requests!Directory \/ Requests!RegularFile
    BY <2>3 DEF Requests!Unhandled, Requests!RedirectReduced, Requests!Locate,
       Requests!DoesNotExist, Requests!Directory, Requests!RegularFile, Requests!RedirectTo,
       RequestInv
  <2> QED BY <2>2, <2>3 DEF Requests!Next
<1> QED BY <1>1, <1>2, PTL DEF PartsSpec

(* If on_read hands over whole lines, every ordinary URL is taken apart as *)
(* a URL is, of any length and in any characters (manager.cpp:190-298).    *)
THEOREM UrlsAreParsed ==
    ASSUME \A h \in Headers : h = <<>> \/ IsLine(h)
    PROVE  PartsSpec => []ParsedAsUrl
<1>1. RequestInv => ParsedAsUrl
  <2> SUFFICES ASSUME RequestInv, stage \in {"parsed", "crashed"}, Requests!Ordinary(header)
               PROVE  request = Requests!UrlParts(header)
    BY DEF ParsedAsUrl, Requests!ParsedAsUrl
  <2>1. header \in Headers /\ request = Requests!ParseHost(header)
    BY DEF RequestInv, RequestRests
  <2> QED BY <2>1, ParsedRight
<1> QED BY <1>1, RequestInductive, PTL

----------------------------------------------------------------------------
(***************************************************************************)
(* Folds.  The operators on paths are FoldLeft: of a sequence of any       *)
(* length, each is a fold by a function, of which induction speaks.        *)
(***************************************************************************)
(* Induction with a set for the predicate.                                 *)
LEMMA Induction ==
    ASSUME NEW G, 0 \in G, \A n \in Nat : n \in G => n + 1 \in G
    PROVE  \A n \in Nat : n \in G
<1> DEFINE D == {n \in Nat : n \notin G}
<1> SUFFICES ASSUME D # {} PROVE FALSE
  OBVIOUS
<1>1. D \subseteq Nat
  OBVIOUS
<1>2. PICK m \in D : \A k \in D : m <= k
  <2> HIDE DEF D
  <2> QED BY <1>1, Least
<1>3. m # 0 /\ m - 1 \in Nat /\ m - 1 \notin D
  BY <1>2
<1>4. m - 1 \in G
  BY <1>3
<1> QED BY <1>2, <1>3, <1>4

(* Induction over the sequences of elements of E.                          *)
LEMMA SequenceInduction ==
    ASSUME NEW E, NEW G, <<>> \in G,
           \A s \in Seq(E) : \A e \in E : s \in G => Append(s, e) \in G
    PROVE  \A s \in Seq(E) : s \in G
<1> DEFINE H == {n \in Nat : \A s \in Seq(E) : Len(s) = n => s \in G}
<1>1. 0 \in H
  OBVIOUS
<1>2. ASSUME NEW n \in Nat, n \in H PROVE n + 1 \in H
  <2> SUFFICES ASSUME NEW s \in Seq(E), Len(s) = n + 1 PROVE s \in G
    OBVIOUS
  <2> DEFINE t == SubSeq(s, 1, n)
  <2>1. t \in Seq(E) /\ Len(t) = n /\ s[n + 1] \in E
    OBVIOUS
  <2>2. s = Append(t, s[n + 1])
    OBVIOUS
  <2>3. t \in G
    BY <1>2, <2>1
  <2> HIDE DEF t
  <2> QED BY <2>1, <2>2, <2>3
<1>3. \A n \in Nat : n \in H
  <2> HIDE DEF H
  <2> QED BY <1>1, <1>2, Induction
<1> QED BY <1>3

(* A fold from the left of the sequence s, by a function.                  *)
LastOf(T) == CHOOSE i \in T : \A j \in T : i >= j

IsStep(step, A, E) == step \in [A \X E -> A]

FoldsTo(g, n, s, a, step) ==
    /\ g[{}] = a
    /\ \A T \in SUBSET (1..n) :
          T # {} => g[T] = step[<<g[T \ {LastOf(T)}], s[LastOf(T)]>>]

LEMMA LastOfIs ==
    ASSUME NEW T, T \subseteq Nat, NEW n \in T, \A j \in T : j <= n
    PROVE  LastOf(T) = n
<1>1. \A i \in T : (\A j \in T : i >= j) => i = n
  OBVIOUS
<1> QED BY <1>1 DEF LastOf

LEMMA LastIn ==
    ASSUME NEW n \in Nat, NEW T \in SUBSET (1..n), T # {}
    PROVE  LastOf(T) \in T
<1> DEFINE S == {n - k : k \in T}
<1>1. S \subseteq Nat /\ S # {}
  OBVIOUS
<1>2. PICK m \in S : \A l \in S : m <= l
  <2> HIDE DEF S
  <2> QED BY <1>1, Least
<1>3. PICK i \in T : m = n - i
  OBVIOUS
<1>4. ASSUME NEW j \in T PROVE j <= i
  <2>1. n - j \in S
    OBVIOUS
  <2> HIDE DEF S
  <2>2. n - i <= n - j
    BY <1>2, <1>3, <2>1
  <2> QED BY <2>2
<1>5. T \subseteq Nat
  OBVIOUS
<1> HIDE DEF S
<1> QED BY <1>3, <1>4, <1>5, LastOfIs

(* The last one of the first n numbers, and what it leaves.                *)
LEMMA LastOfFirst ==
    ASSUME NEW n \in Nat, n # 0
    PROVE  1..n # {} /\ LastOf(1..n) = n /\ (1..n) \ {n} = 1..(n - 1)
<1>1. 1..n \subseteq Nat /\ n \in 1..n /\ \A j \in 1..n : j <= n
  OBVIOUS
<1>2. LastOf(1..n) = n
  BY <1>1, LastOfIs
<1>3. \A j : j \in (1..n) \ {n} <=> j \in 1..(n - 1)
  OBVIOUS
<1> QED BY <1>1, <1>2, <1>3

LEMMA FoldExists ==
    ASSUME NEW A, NEW E, NEW a \in A, NEW s \in Seq(E), NEW step, IsStep(step, A, E)
    PROVE  \E g \in [SUBSET (1..Len(s)) -> A] : FoldsTo(g, Len(s), s, a, step)
<1> USE DEF IsStep
<1> DEFINE IsFold(g, n) == g \in [SUBSET (1..n) -> A] /\ FoldsTo(g, n, s, a, step)
<1> DEFINE G == {n \in Nat : n <= Len(s) => \E g : IsFold(g, n)}
<1>0. \A n \in Nat : n \in G <=> (n <= Len(s) => \E g : IsFold(g, n))
  <2> HIDE DEF IsFold
  <2> QED OBVIOUS
<1> HIDE DEF G
<1>1. 0 \in G
  <2> DEFINE g == [T \in SUBSET (1..0) |-> a]
  <2>1. \A T \in SUBSET (1..0) : T = {}
    OBVIOUS
  <2>2. IsFold(g, 0)
    BY <2>1 DEF FoldsTo
  <2> HIDE DEF IsFold
  <2> QED BY <1>0, <2>2
<1>2. ASSUME NEW n \in Nat, n \in G PROVE n + 1 \in G
  <2> SUFFICES ASSUME n + 1 <= Len(s) PROVE \E g : IsFold(g, n + 1)
    <3> HIDE DEF IsFold
    <3> QED BY <1>0
  <2>1. PICK f : IsFold(f, n)
    <3> HIDE DEF IsFold
    <3> QED BY <1>0, <1>2
  <2> DEFINE g == [T \in SUBSET (1..(n + 1)) |->
                     IF n + 1 \in T THEN step[<<f[T \ {n + 1}], s[n + 1]>>] ELSE f[T]]
  <2>2. \A T \in SUBSET (1..(n + 1)) :
          /\ n + 1 \in T => T \ {n + 1} \in SUBSET (1..n)
          /\ n + 1 \notin T => T \in SUBSET (1..n)
    OBVIOUS
  <2>3. s[n + 1] \in E
    OBVIOUS
  <2>4. g \in [SUBSET (1..(n + 1)) -> A]
    BY <2>1, <2>2, <2>3
  <2>5. ASSUME NEW T \in SUBSET (1..(n + 1)), T # {}
        PROVE  g[T] = step[<<g[T \ {LastOf(T)}], s[LastOf(T)]>>]
    <3>1. CASE n + 1 \in T
      <4>1. LastOf(T) = n + 1
        <5>1. T \subseteq Nat /\ \A j \in T : j <= n + 1
          OBVIOUS
        <5> QED BY <3>1, <5>1, LastOfIs
      <4>2. g[T \ {n + 1}] = f[T \ {n + 1}]
        BY <2>2, <3>1
      <4> QED BY <3>1, <4>1, <4>2
    <3>2. CASE n + 1 \notin T
      <4>1. T \in SUBSET (1..n) /\ T \ {LastOf(T)} \in SUBSET (1..n)
        BY <2>2, <3>2
      <4>2. g[T] = f[T] /\ g[T \ {LastOf(T)}] = f[T \ {LastOf(T)}]
        BY <2>2, <3>2, <4>1
      <4>3. f[T] = step[<<f[T \ {LastOf(T)}], s[LastOf(T)]>>]
        BY <2>1, <2>5, <4>1 DEF FoldsTo
      <4> QED BY <4>2, <4>3
    <3> QED BY <3>1, <3>2
  <2>6. g[{}] = a
    BY <2>1 DEF FoldsTo
  <2> HIDE DEF g
  <2>7. IsFold(g, n + 1)
    BY <2>4, <2>5, <2>6 DEF FoldsTo
  <2> HIDE DEF IsFold
  <2> QED BY <2>7
<1>3. Len(s) \in G
  BY <1>1, <1>2, Induction
<1>4. \E g : IsFold(g, Len(s))
  <2> HIDE DEF IsFold
  <2> QED BY <1>0, <1>3
<1> QED BY <1>4

(* Its values on the beginnings of s, and the last of them.                *)
IsTrace(r, s, a, step) ==
    /\ r[0] = a
    /\ \A i \in 1..Len(s) : r[i] = step[<<r[i - 1], s[i]>>]

FoldOf(A, s, a, step) ==
    (CHOOSE r \in [0..Len(s) -> A] : IsTrace(r, s, a, step))[Len(s)]

(* The values on a common beginning are the same.                          *)
LEMMA TracesAgree ==
    ASSUME NEW s, NEW t, NEW n \in Nat, n <= Len(s), n <= Len(t),
           Len(s) \in Nat, Len(t) \in Nat,
           \A i \in 1..n : s[i] = t[i],
           NEW a, NEW step, NEW r, IsTrace(r, s, a, step), NEW q, IsTrace(q, t, a, step)
    PROVE  r[n] = q[n]
<1> DEFINE G == {i \in Nat : i <= n => r[i] = q[i]}
<1>1. 0 \in G
  BY DEF IsTrace
<1>2. ASSUME NEW i \in Nat, i \in G PROVE i + 1 \in G
  <2> SUFFICES ASSUME i + 1 <= n PROVE r[i + 1] = q[i + 1]
    OBVIOUS
  <2>1. i + 1 \in 1..n /\ i + 1 \in 1..Len(s) /\ i + 1 \in 1..Len(t) /\ (i + 1) - 1 = i
    OBVIOUS
  <2>2. r[i] = q[i] /\ s[i + 1] = t[i + 1]
    BY <1>2, <2>1
  <2> QED BY <2>1, <2>2 DEF IsTrace
<1>3. n \in G
  <2> HIDE DEF G
  <2> QED BY <1>1, <1>2, Induction
<1> QED BY <1>3

LEMMA FoldOfTrace ==
    ASSUME NEW A, NEW E, NEW s \in Seq(E), NEW a, NEW step,
           NEW r \in [0..Len(s) -> A], IsTrace(r, s, a, step)
    PROVE  FoldOf(A, s, a, step) = r[Len(s)]
<1> DEFINE q == CHOOSE q \in [0..Len(s) -> A] : IsTrace(q, s, a, step)
<1>1. IsTrace(q, s, a, step)
  OBVIOUS
<1>2. FoldOf(A, s, a, step) = q[Len(s)]
  BY DEF FoldOf
<1>3. Len(s) \in Nat /\ Len(s) <= Len(s)
  OBVIOUS
<1> HIDE DEF q
<1> QED BY <1>1, <1>2, <1>3, TracesAgree

(* What walks through the beginnings of s as step does is the fold.        *)
Walks(iter, A, s, a, step) ==
    /\ iter[{}] = a
    /\ \A i \in 1..Len(s) : iter[1..(i - 1)] \in A =>
          iter[1..i] = step[<<iter[1..(i - 1)], s[i]>>]

(* There is only one such value.                                           *)
LEMMA FoldIs ==
    ASSUME NEW A, NEW E, NEW a \in A, NEW s \in Seq(E), NEW step, IsStep(step, A, E),
           NEW iter, Walks(iter, A, s, a, step)
    PROVE  iter[1..Len(s)] = FoldOf(A, s, a, step)
<1> USE DEF IsStep
<1>0. /\ iter[{}] = a
      /\ \A i \in 1..Len(s) : iter[1..(i - 1)] \in A =>
            iter[1..i] = step[<<iter[1..(i - 1)], s[i]>>]
  BY DEF Walks
<1> DEFINE G == {i \in Nat : i <= Len(s) => iter[1..i] \in A}
<1>1. 0 \in G
  <2>1. 1..0 = {}
    OBVIOUS
  <2> QED BY <1>0, <2>1
<1>2. ASSUME NEW i \in Nat, i \in G PROVE i + 1 \in G
  <2> SUFFICES ASSUME i + 1 <= Len(s) PROVE iter[1..(i + 1)] \in A
    OBVIOUS
  <2>1. i + 1 \in 1..Len(s) /\ (i + 1) - 1 = i /\ s[i + 1] \in E
    OBVIOUS
  <2>2. iter[1..i] \in A
    BY <1>2, <2>1
  <2>3. iter[1..(i + 1)] = step[<<iter[1..i], s[i + 1]>>]
    BY <1>0, <2>1, <2>2
  <2> QED BY <2>1, <2>2, <2>3
<1>3. \A i \in Nat : i \in G
  <2> HIDE DEF G
  <2> QED BY <1>1, <1>2, Induction
<1> DEFINE r == [i \in 0..Len(s) |-> iter[1..i]]
<1>4. r \in [0..Len(s) -> A]
  BY <1>3
<1>5. IsTrace(r, s, a, step)
  <2>1. r[0] = a
    <3>1. 1..0 = {} /\ 0 \in 0..Len(s)
      OBVIOUS
    <3> QED BY <1>0, <3>1
  <2>2. ASSUME NEW i \in 1..Len(s) PROVE r[i] = step[<<r[i - 1], s[i]>>]
    <3>1. i \in 0..Len(s) /\ i - 1 \in 0..Len(s)
      OBVIOUS
    <3>2. iter[1..(i - 1)] \in A
      BY <1>3, <3>1
    <3> QED BY <1>0, <3>1, <3>2
  <2> HIDE DEF r
  <2> QED BY <2>1, <2>2 DEF IsTrace
<1>6. r[Len(s)] = iter[1..Len(s)]
  OBVIOUS
<1> HIDE DEF r
<1> QED BY <1>4, <1>5, <1>6, FoldOfTrace

LEMMA TraceExists ==
    ASSUME NEW A, NEW E, NEW a \in A, NEW s \in Seq(E), NEW step, IsStep(step, A, E)
    PROVE  \E r \in [0..Len(s) -> A] : IsTrace(r, s, a, step)
<1>1. PICK g \in [SUBSET (1..Len(s)) -> A] : FoldsTo(g, Len(s), s, a, step)
  BY FoldExists
<1> DEFINE r == [i \in 0..Len(s) |-> g[1..i]]
<1>2. r \in [0..Len(s) -> A]
  OBVIOUS
<1>3. r[0] = a
  <2>1. 1..0 = {} /\ 0 \in 0..Len(s)
    OBVIOUS
  <2> QED BY <1>1, <2>1 DEF FoldsTo
<1>4. ASSUME NEW i \in 1..Len(s) PROVE r[i] = step[<<r[i - 1], s[i]>>]
  <2>1. i \in 0..Len(s) /\ i - 1 \in 0..Len(s)
    OBVIOUS
  <2>2. 1..i \in SUBSET (1..Len(s)) /\ i \in Nat /\ i # 0
    OBVIOUS
  <2>3. 1..i # {} /\ LastOf(1..i) = i /\ (1..i) \ {i} = 1..(i - 1)
    BY <2>2, LastOfFirst
  <2>4. g[1..i] = step[<<g[1..(i - 1)], s[i]>>]
    BY <1>1, <2>2, <2>3 DEF FoldsTo
  <2> QED BY <2>1, <2>4
<1> HIDE DEF r
<1>5. IsTrace(r, s, a, step)
  BY <1>3, <1>4 DEF IsTrace
<1> QED BY <1>2, <1>5

(* The fold, one element at a time.                                        *)
LEMMA FoldOfStep ==
    ASSUME NEW A, NEW E, NEW a \in A, NEW step, IsStep(step, A, E)
    PROVE  /\ FoldOf(A, <<>>, a, step) = a
           /\ \A s \in Seq(E) : FoldOf(A, s, a, step) \in A
           /\ \A s \in Seq(E), e \in E :
                 FoldOf(A, Append(s, e), a, step) = step[<<FoldOf(A, s, a, step), e>>]
<1>1. ASSUME NEW s \in Seq(E) PROVE FoldOf(A, s, a, step) \in A
  <2>1. PICK r \in [0..Len(s) -> A] : IsTrace(r, s, a, step)
    BY TraceExists
  <2> QED BY <2>1, FoldOfTrace
<1>2. FoldOf(A, <<>>, a, step) = a
  <2>1. ASSUME NEW s \in Seq(E), s = <<>> PROVE FoldOf(A, s, a, step) = a
    <3>1. PICK r \in [0..Len(s) -> A] : IsTrace(r, s, a, step)
      BY TraceExists
    <3>2. FoldOf(A, s, a, step) = r[Len(s)]
      BY <3>1, FoldOfTrace
    <3> QED BY <2>1, <3>1, <3>2 DEF IsTrace
  <2>2. <<>> \in Seq(E)
    OBVIOUS
  <2> QED BY <2>1, <2>2, Zenon
<1>3. ASSUME NEW s \in Seq(E), NEW e \in E
      PROVE  FoldOf(A, Append(s, e), a, step) = step[<<FoldOf(A, s, a, step), e>>]
  <2> DEFINE t == Append(s, e)
  <2>1. /\ t \in Seq(E) /\ Len(t) = Len(s) + 1 /\ t[Len(t)] = e
        /\ Len(s) \in Nat /\ Len(s) <= Len(s) /\ Len(s) <= Len(t) /\ Len(t) \in Nat
        /\ \A i \in 1..Len(s) : s[i] = t[i]
    OBVIOUS
  <2> HIDE DEF t
  <2>2. PICK r \in [0..Len(s) -> A] : IsTrace(r, s, a, step)
    BY TraceExists
  <2>3. PICK q \in [0..Len(t) -> A] : IsTrace(q, t, a, step)
    BY <2>1, TraceExists
  <2>4. r[Len(s)] = q[Len(s)]
    <3>1. \A i \in 1..Len(s) : s[i] = t[i]
      BY <2>1
    <3>2. IsTrace(r, s, a, step) /\ IsTrace(q, t, a, step)
      BY <2>2, <2>3
    <3>3. Len(s) \in Nat /\ Len(s) <= Len(s) /\ Len(s) <= Len(t) /\ Len(t) \in Nat
      BY <2>1
    <3> QED BY <3>1, <3>2, <3>3, TracesAgree
  <2>5. q[Len(t)] = step[<<q[Len(s)], e>>]
    <3>1. Len(t) \in 1..Len(t) /\ Len(t) - 1 = Len(s)
      BY <2>1
    <3>2. q[Len(t)] = step[<<q[Len(t) - 1], t[Len(t)]>>]
      BY <2>3, <3>1 DEF IsTrace
    <3> QED BY <2>1, <3>1, <3>2
  <2>6. FoldOf(A, s, a, step) = r[Len(s)]
    BY <2>2, FoldOfTrace
  <2>7. FoldOf(A, t, a, step) = q[Len(t)]
    BY <2>1, <2>3, FoldOfTrace
  <2> QED BY <2>4, <2>5, <2>6, <2>7 DEF t
<1> QED BY <1>1, <1>2, <1>3


(* The function FoldLeft defines, and what any such function computes.     *)
Unfolds(g, A, E, s, a, step) ==
    /\ g \in [SUBSET (DOMAIN s) -> A]
    /\ g[{}] = a
    /\ \A T \in SUBSET (DOMAIN s) : T # {} =>
          /\ s[LastOf(T)] \in E
          /\ T \ {LastOf(T)} \in SUBSET (DOMAIN s)
          /\ g[T] = step[<<g[T \ {LastOf(T)}], s[LastOf(T)]>>]

LEMMA FoldDefined ==
    ASSUME NEW A, NEW E, NEW a \in A, NEW s \in Seq(E), NEW step, IsStep(step, A, E)
    PROVE  \E g : Unfolds(g, A, E, s, a, step)
<1>1. DOMAIN s = 1..Len(s) /\ Len(s) \in Nat
  OBVIOUS
<1>2. PICK g \in [SUBSET (1..Len(s)) -> A] : FoldsTo(g, Len(s), s, a, step)
  BY FoldExists
<1>3. ASSUME NEW T \in SUBSET (1..Len(s)), T # {} PROVE LastOf(T) \in 1..Len(s)
  BY <1>1, <1>3, LastIn
<1>4. \A i \in 1..Len(s) : s[i] \in E
  OBVIOUS
<1>5. Unfolds(g, A, E, s, a, step)
  BY <1>1, <1>2, <1>3, <1>4 DEF FoldsTo, Unfolds
<1> QED BY <1>5

Folds(iter, A, s, a, step) ==
    /\ iter[{}] = a
    /\ \A T \in SUBSET (DOMAIN s) : T # {} /\ iter[T \ {LastOf(T)}] \in A =>
          iter[T] = step[<<iter[T \ {LastOf(T)}], s[LastOf(T)]>>]

LEMMA FoldComputes ==
    ASSUME NEW A, NEW E, NEW a \in A, NEW s \in Seq(E), NEW step, IsStep(step, A, E),
           NEW iter, Folds(iter, A, s, a, step)
    PROVE  iter[DOMAIN s] = FoldOf(A, s, a, step)
<1>1. DOMAIN s = 1..Len(s)
  OBVIOUS
<1>2. ASSUME NEW i \in 1..Len(s), iter[1..(i - 1)] \in A
      PROVE  iter[1..i] = step[<<iter[1..(i - 1)], s[i]>>]
  <2>1. 1..i \in SUBSET (DOMAIN s) /\ i \in Nat /\ i # 0
    BY <1>1
  <2>2. 1..i # {} /\ LastOf(1..i) = i /\ (1..i) \ {i} = 1..(i - 1)
    BY <2>1, LastOfFirst
  <2> QED BY <1>2, <2>1, <2>2 DEF Folds
<1>3. Walks(iter, A, s, a, step)
  BY <1>2 DEF Walks, Folds
<1>4. iter[1..Len(s)] = FoldOf(A, s, a, step)
  BY <1>3, FoldIs
<1> QED BY <1>1, <1>4

----------------------------------------------------------------------------
(***************************************************************************)
(* Cutting, joining and reducing, as folds over typed lists.               *)
(***************************************************************************)
Plain == {ch \in Characters : ~Requests!IsSeparator(ch)}
PathParts == Seq(Plain)
PartLists == Seq(PathParts)

Cuts == [parts : Seq(PathParts), last : PathParts]
NothingCut == [parts |-> <<>>, last |-> <<>>]

(* The three folds of PathUtils, as folds by functions.                    *)
CutStep == [z \in Cuts \X Characters |-> Requests!CutAt(z[1], z[2])]
JoinStep == [z \in Paths \X Paths |-> z[1] \o <<"/">> \o z[2]]
ReduceStep == [z \in PartLists \X PathParts |-> Requests!Reduce(z[1], z[2])]

LEMMA SlashIsText == "/" \in Characters /\ "." \in Characters
  BY DEF Characters

LEMMA PartTyped ==
    /\ <<>> \in PathParts
    /\ \A q \in PathParts : q \in Paths
    /\ \A q \in PathParts, ch \in Characters :
          ~Requests!IsSeparator(ch) => Append(q, ch) \in PathParts
<1>1. Plain \subseteq Characters
  BY DEF Plain
<1>2. \A q \in PathParts : q \in Paths
  BY <1>1 DEF PathParts, Paths
<1>3. ASSUME NEW q \in PathParts, NEW ch \in Characters, ~Requests!IsSeparator(ch)
      PROVE  Append(q, ch) \in PathParts
  <2>1. ch \in Plain
    BY <1>3 DEF Plain
  <2> QED BY <2>1 DEF PathParts
<1> QED BY <1>2, <1>3 DEF PathParts

LEMMA CutStepTyped ==
    /\ NothingCut \in Cuts
    /\ \A c \in Cuts, ch \in Characters : CutStep[<<c, ch>>] = Requests!CutAt(c, ch)
    /\ IsStep(CutStep, Cuts, Characters)
<1>1. NothingCut \in Cuts
  BY PartTyped DEF NothingCut, Cuts
<1>2. ASSUME NEW c \in Cuts, NEW ch \in Characters PROVE Requests!CutAt(c, ch) \in Cuts
  <2>1. CASE Requests!IsSeparator(ch)
    <3>1. Append(c.parts, c.last) \in Seq(PathParts)
      BY DEF Cuts
    <3> QED BY PartTyped, <2>1, <3>1 DEF Requests!CutAt, Cuts
  <2>2. CASE ~Requests!IsSeparator(ch)
    <3>1. Append(c.last, ch) \in PathParts
      BY <2>2, PartTyped DEF Cuts
    <3> QED BY <2>2, <3>1 DEF Requests!CutAt, Cuts
  <2> QED BY <2>1, <2>2
<1>3. \A z \in Cuts \X Characters : Requests!CutAt(z[1], z[2]) \in Cuts
  BY <1>2
<1>4. CutStep \in [Cuts \X Characters -> Cuts]
  BY <1>3 DEF CutStep
<1> QED BY <1>1, <1>4 DEF CutStep, IsStep

LEMMA JoinStepTyped ==
    /\ \A p, q \in Paths : p \o <<"/">> \o q \in Paths
    /\ \A p, q \in Paths : JoinStep[<<p, q>>] = p \o <<"/">> \o q
    /\ IsStep(JoinStep, Paths, Paths)
<1>1. \A p, q \in Paths : p \o <<"/">> \o q \in Paths
  BY SlashIsText DEF Paths
<1> QED BY <1>1 DEF JoinStep, IsStep

LEMMA ReduceStepTyped ==
    /\ \A ps \in PartLists, p \in PathParts :
          /\ ReduceStep[<<ps, p>>] = Requests!Reduce(ps, p)
          /\ Requests!Reduce(ps, p) \in PartLists
    /\ IsStep(ReduceStep, PartLists, PathParts)
<1>1. ASSUME NEW ps \in PartLists, NEW p \in PathParts
      PROVE  Requests!Reduce(ps, p) \in PartLists
  <2>1. ps # <<>> => Requests!Front(ps) \in PartLists
    BY DEF Requests!Front, PartLists
  <2>2. Append(ps, p) \in PartLists /\ <<>> \in PartLists
    BY DEF PartLists
  <2> QED BY <2>1, <2>2 DEF Requests!Reduce
<1>2. \A z \in PartLists \X PathParts : Requests!Reduce(z[1], z[2]) \in PartLists
  BY <1>1
<1> QED BY <1>1, <1>2 DEF ReduceStep, IsStep

(* What FoldLeft computes, for each of the three.                          *)
LEMMA CutIsFold ==
    ASSUME NEW p \in Paths
    PROVE  Requests!Cut(p) = FoldOf(Cuts, p, NothingCut, CutStep)
<1>0. p \in Seq(Characters)
  BY DEF Paths
<1> DEFINE IsIter(g) ==
      g = [T \in SUBSET (DOMAIN p) |->
             IF T = {} THEN NothingCut ELSE Requests!CutAt(g[T \ {LastOf(T)}], p[LastOf(T)])]
<1>1. Requests!Cut(p) = (CHOOSE g : IsIter(g))[DOMAIN p]
  BY DEF Requests!Cut, Requests!FoldLeft, Requests!MapThenFoldSet, Requests!Max,
     LastOf, NothingCut
<1>2. \E g : IsIter(g)
  <2>1. PICK g : Unfolds(g, Cuts, Characters, p, NothingCut, CutStep)
    BY <1>0, FoldDefined, CutStepTyped
  <2>2. \A T \in SUBSET (DOMAIN p) : T # {} =>
           g[T] = Requests!CutAt(g[T \ {LastOf(T)}], p[LastOf(T)])
    BY <2>1, CutStepTyped DEF Unfolds
  <2>3. IsIter(g)
    BY <2>1, <2>2 DEF Unfolds
  <2> HIDE DEF IsIter
  <2> QED BY <2>3
<1> DEFINE iter == CHOOSE g : IsIter(g)
<1>3. IsIter(iter)
  <2> HIDE DEF IsIter
  <2> QED BY <1>2
<1> HIDE DEF iter
<1>4. iter[{}] = NothingCut
  BY <1>3
<1>5. ASSUME NEW T \in SUBSET (DOMAIN p), T # {}, iter[T \ {LastOf(T)}] \in Cuts
      PROVE  iter[T] = CutStep[<<iter[T \ {LastOf(T)}], p[LastOf(T)]>>]
  <2>1. iter[T] = Requests!CutAt(iter[T \ {LastOf(T)}], p[LastOf(T)])
    BY <1>3, <1>5
  <2>2. p[LastOf(T)] \in Characters
    <3>1. PICK g : Unfolds(g, Cuts, Characters, p, NothingCut, CutStep)
      BY <1>0, FoldDefined, CutStepTyped
    <3> QED BY <1>5, <3>1 DEF Unfolds
  <2> QED BY <1>5, <2>1, <2>2, CutStepTyped
<1> HIDE DEF IsIter
<1>6. iter[DOMAIN p] = FoldOf(Cuts, p, NothingCut, CutStep)
  <2>1. NothingCut \in Cuts /\ IsStep(CutStep, Cuts, Characters)
    BY <1>0, CutStepTyped
  <2>2. Folds(iter, Cuts, p, NothingCut, CutStep)
    BY <1>4, <1>5 DEF Folds
  <2> QED BY <1>0, <2>1, <2>2, FoldComputes
<1> QED BY <1>1, <1>6 DEF iter

LEMMA JoinIsFold ==
    ASSUME NEW a \in Paths, NEW ps \in Seq(Paths)
    PROVE  Requests!FoldLeft(LAMBDA p, q : p \o <<"/">> \o q, a, ps)
             = FoldOf(Paths, ps, a, JoinStep)
<1>0. a \in Paths /\ ps \in Seq(Paths)
  OBVIOUS
<1> DEFINE IsIter(g) ==
      g = [T \in SUBSET (DOMAIN ps) |->
             IF T = {} THEN a ELSE g[T \ {LastOf(T)}] \o <<"/">> \o ps[LastOf(T)]]
<1>1. Requests!FoldLeft(LAMBDA p, q : p \o <<"/">> \o q, a, ps)
       = (CHOOSE g : IsIter(g))[DOMAIN ps]
  BY DEF Requests!FoldLeft, Requests!MapThenFoldSet, Requests!Max, LastOf
<1>2. \E g : IsIter(g)
  <2>1. PICK g : Unfolds(g, Paths, Paths, ps, a, JoinStep)
    BY <1>0, FoldDefined, JoinStepTyped
  <2>2. \A T \in SUBSET (DOMAIN ps) : T # {} =>
           g[T] = g[T \ {LastOf(T)}] \o <<"/">> \o ps[LastOf(T)]
    BY <2>1, JoinStepTyped DEF Unfolds
  <2>3. IsIter(g)
    BY <2>1, <2>2 DEF Unfolds
  <2> HIDE DEF IsIter
  <2> QED BY <2>3
<1> DEFINE iter == CHOOSE g : IsIter(g)
<1>3. IsIter(iter)
  <2> HIDE DEF IsIter
  <2> QED BY <1>2
<1> HIDE DEF iter
<1>4. iter[{}] = a
  BY <1>3
<1>5. ASSUME NEW T \in SUBSET (DOMAIN ps), T # {}, iter[T \ {LastOf(T)}] \in Paths
      PROVE  iter[T] = JoinStep[<<iter[T \ {LastOf(T)}], ps[LastOf(T)]>>]
  <2>1. iter[T] = iter[T \ {LastOf(T)}] \o <<"/">> \o ps[LastOf(T)]
    BY <1>3, <1>5
  <2>2. ps[LastOf(T)] \in Paths
    <3>1. PICK g : Unfolds(g, Paths, Paths, ps, a, JoinStep)
      BY <1>0, FoldDefined, JoinStepTyped
    <3> QED BY <1>5, <3>1 DEF Unfolds
  <2> QED BY <1>5, <2>1, <2>2, JoinStepTyped
<1> HIDE DEF IsIter
<1>6. iter[DOMAIN ps] = FoldOf(Paths, ps, a, JoinStep)
  <2>1. a \in Paths /\ IsStep(JoinStep, Paths, Paths)
    BY <1>0, JoinStepTyped
  <2>2. Folds(iter, Paths, ps, a, JoinStep)
    BY <1>4, <1>5 DEF Folds
  <2> QED BY <1>0, <2>1, <2>2, FoldComputes
<1> QED BY <1>1, <1>6 DEF iter

LEMMA ReduceIsFold ==
    ASSUME NEW ps \in PartLists
    PROVE  Requests!FoldLeft(Requests!Reduce, <<>>, ps)
             = FoldOf(PartLists, ps, <<>>, ReduceStep)
<1>0. ps \in Seq(PathParts) /\ <<>> \in PartLists
  BY DEF PartLists
<1> DEFINE IsIter(g) ==
      g = [T \in SUBSET (DOMAIN ps) |->
             IF T = {} THEN <<>> ELSE Requests!Reduce(g[T \ {LastOf(T)}], ps[LastOf(T)])]
<1>1. Requests!FoldLeft(Requests!Reduce, <<>>, ps) = (CHOOSE g : IsIter(g))[DOMAIN ps]
  BY DEF Requests!FoldLeft, Requests!MapThenFoldSet, Requests!Max, LastOf
<1>2. \E g : IsIter(g)
  <2>1. PICK g : Unfolds(g, PartLists, PathParts, ps, <<>>, ReduceStep)
    BY <1>0, FoldDefined, ReduceStepTyped
  <2>2. \A T \in SUBSET (DOMAIN ps) : T # {} =>
           g[T] = Requests!Reduce(g[T \ {LastOf(T)}], ps[LastOf(T)])
    BY <2>1, ReduceStepTyped DEF Unfolds
  <2>3. IsIter(g)
    BY <2>1, <2>2 DEF Unfolds
  <2> HIDE DEF IsIter
  <2> QED BY <2>3
<1> DEFINE iter == CHOOSE g : IsIter(g)
<1>3. IsIter(iter)
  <2> HIDE DEF IsIter
  <2> QED BY <1>2
<1> HIDE DEF iter
<1>4. iter[{}] = <<>>
  BY <1>3
<1>5. ASSUME NEW T \in SUBSET (DOMAIN ps), T # {}, iter[T \ {LastOf(T)}] \in PartLists
      PROVE  iter[T] = ReduceStep[<<iter[T \ {LastOf(T)}], ps[LastOf(T)]>>]
  <2>1. iter[T] = Requests!Reduce(iter[T \ {LastOf(T)}], ps[LastOf(T)])
    BY <1>3, <1>5
  <2>2. ps[LastOf(T)] \in PathParts
    <3>1. PICK g : Unfolds(g, PartLists, PathParts, ps, <<>>, ReduceStep)
      BY <1>0, FoldDefined, ReduceStepTyped
    <3> QED BY <1>5, <3>1 DEF Unfolds
  <2> QED BY <1>5, <2>1, <2>2, ReduceStepTyped
<1> HIDE DEF IsIter
<1>6. iter[DOMAIN ps] = FoldOf(PartLists, ps, <<>>, ReduceStep)
  <2>1. <<>> \in PartLists /\ IsStep(ReduceStep, PartLists, PathParts)
    BY <1>0, ReduceStepTyped
  <2>2. Folds(iter, PartLists, ps, <<>>, ReduceStep)
    BY <1>4, <1>5 DEF Folds
  <2> QED BY <1>0, <2>1, <2>2, FoldComputes
<1> QED BY <1>1, <1>6 DEF iter

(* Cutting character by character, joining and reducing part by part.      *)
Reduced(ps) == FoldOf(PartLists, ps, <<>>, ReduceStep)

(* Cut reads one character after the other.                                *)
LEMMA CutBy ==
    /\ Requests!Cut(<<>>) = NothingCut
    /\ \A p \in Paths : Requests!Cut(p) \in Cuts
    /\ \A p \in Paths, ch \in Characters :
          Requests!Cut(Append(p, ch)) = Requests!CutAt(Requests!Cut(p), ch)
<1>1. /\ FoldOf(Cuts, <<>>, NothingCut, CutStep) = NothingCut
      /\ \A p \in Seq(Characters) : FoldOf(Cuts, p, NothingCut, CutStep) \in Cuts
      /\ \A p \in Seq(Characters), ch \in Characters :
            FoldOf(Cuts, Append(p, ch), NothingCut, CutStep)
              = CutStep[<<FoldOf(Cuts, p, NothingCut, CutStep), ch>>]
  BY CutStepTyped, FoldOfStep
<1>2. <<>> \in Paths /\ \A p \in Paths, ch \in Characters : Append(p, ch) \in Paths
  BY DEF Paths
<1>3. /\ Requests!Cut(<<>>) = NothingCut
      /\ \A p \in Paths : Requests!Cut(p) \in Cuts
  BY <1>1, <1>2, CutIsFold DEF Paths
<1>4. ASSUME NEW p \in Paths, NEW ch \in Characters
      PROVE  Requests!Cut(Append(p, ch)) = Requests!CutAt(Requests!Cut(p), ch)
  <2>1. Requests!Cut(Append(p, ch)) = CutStep[<<Requests!Cut(p), ch>>]
    <3>1. p \in Seq(Characters)
      BY DEF Paths
    <3> QED BY <1>1, <1>2, <3>1, CutIsFold
  <2> QED BY <1>3, <2>1, CutStepTyped
<1> QED BY <1>3, <1>4

(* JoinAll adds a separator and a part.                                    *)
LEMMA JoinBy ==
    /\ Requests!JoinAll(<<>>) = <<>>
    /\ \A ps \in Seq(Paths) : Requests!JoinAll(ps) \in Paths
    /\ \A q \in Paths : Requests!JoinAll(<<q>>) = q
    /\ \A ps \in Seq(Paths), q \in Paths : ps # <<>> =>
          Requests!JoinAll(Append(ps, q)) = Requests!JoinAll(ps) \o <<"/">> \o q
<1> DEFINE F(a, ps) == FoldOf(Paths, ps, a, JoinStep)
<1>1. ASSUME NEW a \in Paths
      PROVE  /\ F(a, <<>>) = a
             /\ \A ps \in Seq(Paths) : F(a, ps) \in Paths
             /\ \A ps \in Seq(Paths), q \in Paths : F(a, Append(ps, q)) = JoinStep[<<F(a, ps), q>>]
  BY JoinStepTyped, FoldOfStep
<1> HIDE DEF F
<1>2. ASSUME NEW ps \in Seq(Paths), ps # <<>>
      PROVE  Requests!JoinAll(ps) = F(Head(ps), Tail(ps))
  <2>1. Head(ps) \in Paths /\ Tail(ps) \in Seq(Paths)
    BY <1>2
  <2> QED BY <1>2, <2>1, JoinIsFold DEF Requests!JoinAll, F
<1>3. Requests!JoinAll(<<>>) = <<>> /\ <<>> \in Paths
  <2>1. Requests!JoinAll(<<>>) = <<>>
    BY DEF Requests!JoinAll, Requests!FoldLeft, Requests!MapThenFoldSet, Requests!Max
  <2> QED BY <2>1 DEF Paths
<1>4. \A ps \in Seq(Paths) : Requests!JoinAll(ps) \in Paths
  <2> SUFFICES ASSUME NEW ps \in Seq(Paths), ps # <<>> PROVE Requests!JoinAll(ps) \in Paths
    BY <1>3
  <2>1. Head(ps) \in Paths /\ Tail(ps) \in Seq(Paths)
    OBVIOUS
  <2> QED BY <1>1, <1>2, <2>1
<1>5. ASSUME NEW q \in Paths PROVE Requests!JoinAll(<<q>>) = q
  <2>1. <<q>> \in Seq(Paths) /\ <<q>> # <<>> /\ Head(<<q>>) = q /\ Tail(<<q>>) = <<>>
    OBVIOUS
  <2> QED BY <1>1, <1>2, <2>1
<1>6. ASSUME NEW ps \in Seq(Paths), NEW q \in Paths, ps # <<>>
      PROVE  Requests!JoinAll(Append(ps, q)) = Requests!JoinAll(ps) \o <<"/">> \o q
  <2>1. /\ Append(ps, q) \in Seq(Paths) /\ Append(ps, q) # <<>>
        /\ Head(Append(ps, q)) = Head(ps) /\ Tail(Append(ps, q)) = Append(Tail(ps), q)
        /\ Head(ps) \in Paths /\ Tail(ps) \in Seq(Paths)
    BY <1>6
  <2>2. Requests!JoinAll(Append(ps, q)) = JoinStep[<<F(Head(ps), Tail(ps)), q>>]
    <3>1. Requests!JoinAll(Append(ps, q)) = F(Head(ps), Append(Tail(ps), q))
      BY <1>2, <2>1
    <3>2. F(Head(ps), Append(Tail(ps), q)) = JoinStep[<<F(Head(ps), Tail(ps)), q>>]
      <4>1. Head(ps) \in Paths /\ Tail(ps) \in Seq(Paths)
        BY <2>1
      <4> QED BY <1>1, <4>1
    <3> QED BY <3>1, <3>2
  <2>3. Requests!JoinAll(ps) = F(Head(ps), Tail(ps)) /\ Requests!JoinAll(ps) \in Paths
    BY <1>2, <1>4, <1>6
  <2> QED BY <2>2, <2>3, JoinStepTyped
<1> QED BY <1>3, <1>4, <1>5, <1>6

(* DelUps reduces the list part by part.                                   *)
LEMMA ReducedBy ==
    /\ Reduced(<<>>) = <<>>
    /\ \A ps \in PartLists : Reduced(ps) \in PartLists
    /\ \A ps \in PartLists, p \in PathParts :
          Reduced(Append(ps, p)) = Requests!Reduce(Reduced(ps), p)
<1>1. <<>> \in PartLists /\ IsStep(ReduceStep, PartLists, PathParts)
  BY ReduceStepTyped DEF PartLists
<1>2. /\ FoldOf(PartLists, <<>>, <<>>, ReduceStep) = <<>>
      /\ \A ps \in Seq(PathParts) : FoldOf(PartLists, ps, <<>>, ReduceStep) \in PartLists
      /\ \A ps \in Seq(PathParts), p \in PathParts :
            FoldOf(PartLists, Append(ps, p), <<>>, ReduceStep)
              = ReduceStep[<<FoldOf(PartLists, ps, <<>>, ReduceStep), p>>]
  BY <1>1, FoldOfStep
<1> QED BY <1>2, ReduceStepTyped DEF Reduced, PartLists

LEMMA DelUpsIs ==
    ASSUME NEW p \in Paths
    PROVE  /\ Requests!Split(p) \in PartLists
           /\ Requests!DelUps(p) = Requests!JoinAll(Reduced(Requests!Split(p)))
<1>1. Requests!Split(p) \in PartLists
  BY CutBy DEF Requests!Split, Cuts, PartLists
<1> QED BY <1>1, ReduceIsFold DEF Requests!DelUps, Reduced, PartLists

----------------------------------------------------------------------------
(***************************************************************************)
(* Cutting takes apart what joining put together.                          *)
(***************************************************************************)
LEMMA ListTyped ==
    /\ <<>> \in PartLists
    /\ \A ps \in PartLists : ps \in Seq(Paths) /\ ps \in Seq(PathParts)
    /\ \A ps \in PartLists, q \in PathParts : Append(ps, q) \in PartLists
<1>1. PathParts \subseteq Paths
  BY PartTyped
<1> QED BY <1>1 DEF PartLists

LEMMA Concatenation ==
    ASSUME NEW E, NEW s \in Seq(E), NEW t \in Seq(E)
    PROVE  /\ s \o t \in Seq(E) /\ s \o <<>> = s /\ <<>> \o s = s
           /\ \A e \in E : s \o Append(t, e) = Append(s \o t, e) /\ s \o <<e>> = Append(s, e)
           /\ \A u \in Seq(E) : s \o (t \o u) = (s \o t) \o u
<1>1. s \o t \in Seq(E) /\ s \o <<>> = s /\ <<>> \o s = s
  OBVIOUS
<1>2. \A e \in E : s \o Append(t, e) = Append(s \o t, e) /\ s \o <<e>> = Append(s, e)
  OBVIOUS
<1>3. \A u \in Seq(E) : s \o (t \o u) = (s \o t) \o u
  OBVIOUS
<1> QED BY <1>1, <1>2, <1>3

LEMMA Regrouped ==
    ASSUME NEW p \in Paths, NEW q \in Paths, NEW r \in Paths
    PROVE  (p \o q) \o r = p \o (q \o r)
BY DEF Paths

(* The parts a path is cut into, and what follows its last separator.      *)
CutsTo(p, ps, last) == Requests!Cut(p).parts = ps /\ Requests!Cut(p).last = last

(* Characters that are no separators only lengthen the last part.          *)
LEMMA CutPart ==
    ASSUME NEW p \in Paths, NEW ps, NEW l \in PathParts, CutsTo(p, ps, l), NEW q \in PathParts
    PROVE  CutsTo(p \o q, ps, l \o q)
<1> DEFINE G == {r \in PathParts : CutsTo(p \o r, ps, l \o r)}
<1>0. p \in Seq(Characters) /\ l \in Seq(Plain)
  BY DEF Paths, PathParts
<1>1. <<>> \in G
  BY <1>0, PartTyped, Concatenation
<1>2. ASSUME NEW r \in Seq(Plain), NEW ch \in Plain, r \in G PROVE Append(r, ch) \in G
  <2>1. ch \in Characters /\ ~Requests!IsSeparator(ch)
    BY DEF Plain
  <2>2. r \in Seq(Characters) /\ Append(r, ch) \in PathParts
    BY <2>1, PartTyped DEF PathParts, Paths
  <2>3. p \o Append(r, ch) = Append(p \o r, ch) /\ p \o r \in Paths
    BY <1>0, <2>1, <2>2, Concatenation DEF Paths
  <2>4. l \o Append(r, ch) = Append(l \o r, ch)
    BY <1>0, Concatenation
  <2> DEFINE d == Requests!Cut(p \o r)
  <2>5. d \in Cuts /\ d.parts = ps /\ d.last = l \o r
    BY <1>2, <2>3, CutBy DEF CutsTo
  <2>6. Requests!Cut(p \o Append(r, ch)) = Requests!CutAt(d, ch)
    BY <2>1, <2>3, CutBy
  <2> HIDE DEF d
  <2>7. Requests!CutAt(d, ch).parts = ps /\ Requests!CutAt(d, ch).last = Append(l \o r, ch)
    BY <2>1, <2>5 DEF Requests!CutAt, Cuts
  <2>8. CutsTo(p \o Append(r, ch), ps, l \o Append(r, ch))
    BY <2>4, <2>6, <2>7 DEF CutsTo
  <2> QED BY <2>2, <2>8
<1>3. \A r \in Seq(Plain) : r \in G
  <2> HIDE DEF G
  <2> QED BY <1>1, <1>2, SequenceInduction
<1> QED BY <1>3 DEF PathParts

(* A separator ends it.                                                    *)
LEMMA CutSlash ==
    ASSUME NEW p \in Paths, NEW ps, NEW l, CutsTo(p, ps, l)
    PROVE  /\ p \o <<"/">> \in Paths
           /\ Append(p, "/") = p \o <<"/">>
           /\ CutsTo(p \o <<"/">>, Append(ps, l), <<>>)
<1>1. Append(p, "/") = p \o <<"/">> /\ p \o <<"/">> \in Paths
  BY SlashIsText DEF Paths
<1>2. Requests!IsSeparator("/")
  BY DEF Requests!IsSeparator, Requests!Separators
<1>3. Requests!Cut(Append(p, "/")) = Requests!CutAt(Requests!Cut(p), "/")
  BY SlashIsText, CutBy
<1>4. \A c : /\ Requests!CutAt(c, "/").parts = Append(c.parts, c.last)
             /\ Requests!CutAt(c, "/").last = <<>>
  BY <1>2 DEF Requests!CutAt
<1> QED BY <1>1, <1>3, <1>4 DEF CutsTo

LEMMA CutSlashPart ==
    ASSUME NEW p \in Paths, NEW ps, NEW l, CutsTo(p, ps, l), NEW q \in PathParts
    PROVE  CutsTo((p \o <<"/">>) \o q, Append(ps, l), q)
<1> DEFINE k == p \o <<"/">>
<1>1. k \in Paths /\ CutsTo(k, Append(ps, l), <<>>)
  BY CutSlash
<1> HIDE DEF k
<1>2. CutsTo(k \o q, Append(ps, l), <<>> \o q)
  BY <1>1, PartTyped, CutPart
<1>3. <<>> \o q = q
  BY Concatenation DEF PathParts
<1> QED BY <1>2, <1>3 DEF k

(* Of a list joined behind a separator, cutting gives the list back.       *)
LEMMA CutJoined ==
    ASSUME NEW p \in Paths, NEW ps \in PartLists, CutsTo(p, ps, <<>>),
           NEW qs \in PartLists, NEW q \in PathParts
    PROVE  CutsTo(p \o Requests!JoinAll(Append(qs, q)), ps \o qs, q)
<1> DEFINE Is(rs) == \A r \in PathParts :
                        CutsTo(p \o Requests!JoinAll(Append(rs, r)), ps \o rs, r)
<1> DEFINE G == {rs \in PartLists : Is(rs)}
<1>1. <<>> \in G
  <2> SUFFICES ASSUME NEW r \in PathParts
               PROVE  CutsTo(p \o Requests!JoinAll(Append(<<>>, r)), ps \o <<>>, r)
    BY ListTyped
  <2>1. Append(<<>>, r) = <<r>> /\ r \in Paths
    BY PartTyped
  <2>2. Requests!JoinAll(<<r>>) = r
    BY <2>1, JoinBy
  <2>3. ps \o <<>> = ps /\ <<>> \o r = r
    BY Concatenation DEF PartLists, PathParts
  <2>4. CutsTo(p \o r, ps, <<>> \o r)
    BY PartTyped, CutPart
  <2> QED BY <2>1, <2>2, <2>3, <2>4
<1>2. ASSUME NEW rs \in Seq(PathParts), NEW t \in PathParts, rs \in G PROVE Append(rs, t) \in G
  <2> DEFINE ts == Append(rs, t)
  <2>1. ts \in PartLists /\ ts \in Seq(Paths) /\ ts # <<>>
    <3>1. rs \in PartLists /\ ts # <<>>
      BY DEF PartLists
    <3>2. ts \in PartLists
      BY <3>1, ListTyped
    <3> HIDE DEF ts
    <3> QED BY <3>1, <3>2, ListTyped
  <2>2. ASSUME NEW r \in PathParts
        PROVE  CutsTo(p \o Requests!JoinAll(Append(ts, r)), ps \o ts, r)
    <3> DEFINE J == Requests!JoinAll(ts)
               K == p \o J
    <3>1. r \in Paths /\ J \in Paths
      BY <2>1, PartTyped, JoinBy
    <3>2. Requests!JoinAll(Append(ts, r)) = (J \o <<"/">>) \o r
      BY <2>1, <3>1, JoinBy, SlashIsText, Concatenation DEF Paths
    <3>3. CutsTo(K, ps \o rs, t)
      BY <1>2
    <3>4. p \o ((J \o <<"/">>) \o r) = (K \o <<"/">>) \o r /\ K \in Paths
      <4>1. <<"/">> \in Paths /\ J \o <<"/">> \in Paths /\ K \in Paths
        BY <3>1, SlashIsText DEF Paths
      <4>2. p \o ((J \o <<"/">>) \o r) = (p \o (J \o <<"/">>)) \o r
        BY <3>1, <4>1, Regrouped
      <4>3. p \o (J \o <<"/">>) = K \o <<"/">>
        BY <3>1, <4>1, Regrouped
      <4> QED BY <4>1, <4>2, <4>3
    <3>5. Append(ps \o rs, t) = ps \o ts
      <4>1. ps \in Seq(PathParts) /\ rs \in Seq(PathParts) /\ t \in PathParts
        BY <1>2 DEF PartLists
      <4> QED BY <4>1, Concatenation
    <3> HIDE DEF ts, J, K
    <3>6. CutsTo((K \o <<"/">>) \o r, Append(ps \o rs, t), r)
      BY <3>3, <3>4, CutSlashPart
    <3> QED BY <3>2, <3>4, <3>5, <3>6
  <2> HIDE DEF ts
  <2>3. Is(ts)
    BY <2>2
  <2> QED BY <2>1, <2>3 DEF ts
<1>3. \A rs \in Seq(PathParts) : rs \in G
  <2> HIDE DEF G
  <2> QED BY <1>1, <1>2, SequenceInduction
<1> QED BY <1>3 DEF PartLists

----------------------------------------------------------------------------
(***************************************************************************)
(* What delUps leaves: lists that need no reducing.                        *)
(***************************************************************************)
(* The lists delUps leaves: no part is "." or "..", only the first is      *)
(* empty.                                                                  *)
Dots == {<<".">>, <<".", ".">>}
Clean(ps) == \A i \in 1..Len(ps) : ps[i] \notin Dots /\ (ps[i] = <<>> => i = 1)
CleanLists == {ps \in PartLists : Clean(ps)}

LEMMA CleanAppend ==
    ASSUME NEW ps \in PartLists, NEW q \in PathParts
    PROVE  Clean(Append(ps, q)) <=> /\ Clean(ps)
                                    /\ q \notin Dots
                                    /\ q = <<>> => ps = <<>>
<1> DEFINE ts == Append(ps, q)
<1>1. /\ Len(ts) = Len(ps) + 1 /\ Len(ps) \in Nat
      /\ \A i \in 1..Len(ps) : ts[i] = ps[i]
      /\ ts[Len(ps) + 1] = q
      /\ ps = <<>> <=> Len(ps) = 0
  BY DEF PartLists
<1> HIDE DEF ts
<1>2. ASSUME Clean(ts) PROVE Clean(ps) /\ q \notin Dots /\ (q = <<>> => ps = <<>>)
  <2>1. Len(ps) + 1 \in 1..Len(ts) /\ \A i \in 1..Len(ps) : i \in 1..Len(ts)
    BY <1>1
  <2>2. q \notin Dots /\ (q = <<>> => Len(ps) + 1 = 1)
    BY <1>1, <1>2, <2>1 DEF Clean
  <2>3. Clean(ps)
    BY <1>1, <1>2, <2>1 DEF Clean
  <2> QED BY <1>1, <2>2, <2>3
<1>3. ASSUME Clean(ps), q \notin Dots, q = <<>> => ps = <<>> PROVE Clean(ts)
  <2> SUFFICES ASSUME NEW i \in 1..Len(ts) PROVE ts[i] \notin Dots /\ (ts[i] = <<>> => i = 1)
    BY DEF Clean
  <2>1. CASE i \in 1..Len(ps)
    BY <1>1, <1>3, <2>1 DEF Clean
  <2>2. CASE i = Len(ps) + 1
    BY <1>1, <1>3, <2>2
  <2> QED BY <1>1, <2>1, <2>2
<1> QED BY <1>2, <1>3 DEF ts

LEMMA AppendForm ==
    ASSUME NEW ps \in PartLists, ps # <<>>
    PROVE  \E qs \in PartLists, q \in PathParts : ps = Append(qs, q) /\ Requests!Front(ps) = qs
<1> DEFINE n == Len(ps)
<1>1. ps \in Seq(PathParts) /\ n \in Nat \ {0} /\ ps[n] \in PathParts
  BY DEF PartLists
<1>2. SubSeq(ps, 1, n - 1) \in PartLists
  BY <1>1 DEF PartLists
<1>3. ps = Append(SubSeq(ps, 1, n - 1), ps[n])
  BY <1>1
<1>4. Requests!Front(ps) = SubSeq(ps, 1, n - 1)
  BY DEF Requests!Front
<1> QED BY <1>1, <1>2, <1>3, <1>4

(* Whatever list is reduced, a clean one is left.                          *)
LEMMA ReducedIsClean ==
    ASSUME NEW ps \in PartLists PROVE Reduced(ps) \in CleanLists
<1> DEFINE G == {rs \in PartLists : Reduced(rs) \in CleanLists}
<1>1. <<>> \in G
  BY ReducedBy, ListTyped DEF CleanLists, Clean
<1>2. ASSUME NEW rs \in Seq(PathParts), NEW t \in PathParts, rs \in G PROVE Append(rs, t) \in G
  <2> DEFINE qs == Reduced(rs)
  <2>1. rs \in PartLists /\ Append(rs, t) \in PartLists /\ qs \in PartLists /\ Clean(qs)
    BY <1>2, ListTyped DEF CleanLists
  <2>2. Reduced(Append(rs, t)) = Requests!Reduce(qs, t)
    BY <2>1, ReducedBy
  <2> HIDE DEF qs
  <2>3. qs # <<>> => Requests!Front(qs) \in CleanLists
    <3> SUFFICES ASSUME qs # <<>> PROVE Requests!Front(qs) \in CleanLists
      OBVIOUS
    <3>1. PICK us \in PartLists, q \in PathParts : qs = Append(us, q) /\ Requests!Front(qs) = us
      BY <2>1, AppendForm
    <3> QED BY <2>1, <3>1, CleanAppend DEF CleanLists
  <2>4. t \notin Dots /\ ~(t = <<>> /\ qs # <<>>) => Append(qs, t) \in CleanLists
    BY <2>1, ListTyped, CleanAppend DEF CleanLists
  <2>5. <<>> \in CleanLists /\ qs \in CleanLists
    BY <2>1, ListTyped DEF CleanLists, Clean
  <2>6. Requests!Reduce(qs, t) \in CleanLists
    BY <2>3, <2>4, <2>5 DEF Requests!Reduce, Dots
  <2> QED BY <2>1, <2>2, <2>6
<1>3. \A rs \in Seq(PathParts) : rs \in G
  <2> HIDE DEF G
  <2> QED BY <1>1, <1>2, SequenceInduction
<1> QED BY <1>3 DEF PartLists

(* A clean one is left alone: reducing twice is reducing once.             *)
LEMMA CleanIsReduced ==
    ASSUME NEW ps \in CleanLists PROVE Reduced(ps) = ps
<1> DEFINE G == {rs \in PartLists : Clean(rs) => Reduced(rs) = rs}
<1>1. <<>> \in G
  BY ReducedBy, ListTyped
<1>2. ASSUME NEW rs \in Seq(PathParts), NEW t \in PathParts, rs \in G PROVE Append(rs, t) \in G
  <2>1. rs \in PartLists
    BY DEF PartLists
  <2>2. Append(rs, t) \in PartLists
    BY <2>1, ListTyped
  <2>3. ASSUME Clean(Append(rs, t)) PROVE Reduced(Append(rs, t)) = Append(rs, t)
    <3>1. Clean(rs) /\ t \notin Dots /\ (t = <<>> => rs = <<>>)
      BY <2>1, <2>3, CleanAppend
    <3>2. Reduced(Append(rs, t)) = Requests!Reduce(rs, t)
      BY <1>2, <2>1, <3>1, ReducedBy
    <3> QED BY <3>1, <3>2 DEF Requests!Reduce, Dots
  <2> QED BY <2>2, <2>3
<1>3. \A rs \in Seq(PathParts) : rs \in G
  <2> HIDE DEF G
  <2> QED BY <1>1, <1>2, SequenceInduction
<1> QED BY <1>3 DEF PartLists, CleanLists

LEMMA EndsInSeparator ==
    ASSUME NEW p \in Paths, Requests!EndsWithSeparator(p)
    PROVE  Requests!Cut(p).last = <<>>
<1> DEFINE n == Len(p)
           q == SubSeq(p, 1, n - 1)
<1>1. p \in Seq(Characters) /\ n \in Nat \ {0} /\ p[n] \in Characters
  BY DEF Requests!EndsWithSeparator, Paths
<1>2. q \in Paths /\ p = Append(q, p[n])
  BY <1>1 DEF Paths
<1> HIDE DEF q
<1>3. Requests!Cut(p) = Requests!CutAt(Requests!Cut(q), p[n])
  BY <1>1, <1>2, CutBy
<1>4. Requests!IsSeparator(p[n])
  BY DEF Requests!EndsWithSeparator
<1>5. \A c : Requests!CutAt(c, p[n]).last = <<>>
  BY <1>4 DEF Requests!CutAt
<1> QED BY <1>3, <1>5

LEMMA SplitIs ==
    ASSUME NEW p, NEW ps, NEW l, CutsTo(p, ps, l)
    PROVE  Requests!Split(p) = IF l = <<>> THEN ps ELSE Append(ps, l)
BY DEF CutsTo, Requests!Split

LEMMA NothingCuts == <<>> \in Paths /\ CutsTo(<<>>, <<>>, <<>>)
BY CutBy DEF CutsTo, NothingCut, Paths

(* A path made of a clean list, and its parts, which are the list but for  *)
(* the list that is empty.                                                 *)
CleanPaths == {Requests!JoinAll(ps) : ps \in CleanLists}

IsPartsOf(es, d) ==
    /\ es \in CleanLists /\ es # <<>>
    /\ Requests!JoinAll(es) = d
    /\ CutsTo(d \o <<"/">>, es, <<>>)
    /\ Requests!Split(d) = IF d = <<>> THEN <<>> ELSE es
    /\ d = <<>> => es = <<<<>>>>

LEMMA CleanPath ==
    ASSUME NEW d \in CleanPaths
    PROVE  /\ d \in Paths
           /\ ~Requests!EndsWithSeparator(d)
           /\ \E es : IsPartsOf(es, d)
<1>0. PICK ps \in CleanLists : d = Requests!JoinAll(ps)
  BY DEF CleanPaths
<1>1. ps \in PartLists /\ ps \in Seq(Paths) /\ Clean(ps)
  BY <1>0, ListTyped DEF CleanLists
<1>2. d \in Paths
  BY <1>0, <1>1, JoinBy
<1>3. CASE d = <<>>
  <2>1. <<<<>>>> \in CleanLists
    <3>1. <<<<>>>> = Append(<<>>, <<>>) /\ Clean(<<>>)
      BY DEF Clean
    <3>2. Append(<<>>, <<>>) \in PartLists
      BY ListTyped, PartTyped
    <3>3. <<>> \notin Dots
      BY DEF Dots
    <3>4. Clean(Append(<<>>, <<>>))
      BY <3>1, <3>3, ListTyped, PartTyped, CleanAppend
    <3> QED BY <3>1, <3>2, <3>4 DEF CleanLists
  <2>2. Requests!JoinAll(<<<<>>>>) = <<>>
    BY NothingCuts, JoinBy
  <2>3. CutsTo(<<>> \o <<"/">>, <<<<>>>>, <<>>)
    <3>1. Append(<<>>, <<>>) = <<<<>>>>
      OBVIOUS
    <3> QED BY <3>1, NothingCuts, CutSlash
  <2>4. Requests!Split(<<>>) = <<>>
    BY NothingCuts, SplitIs
  <2>5. IsPartsOf(<<<<>>>>, d)
    BY <1>3, <2>1, <2>2, <2>3, <2>4 DEF IsPartsOf
  <2>6. ~Requests!EndsWithSeparator(d)
    BY <1>3 DEF Requests!EndsWithSeparator
  <2> QED BY <1>2, <2>5, <2>6
<1>4. CASE d # <<>>
  <2>1. ps # <<>>
    BY <1>0, <1>4, JoinBy
  <2>2. PICK qs \in PartLists, q \in PathParts : ps = Append(qs, q)
    BY <1>1, <2>1, AppendForm
  <2>3. q # <<>>
    <3> SUFFICES ASSUME q = <<>> PROVE FALSE
      OBVIOUS
    <3>1. qs = <<>>
      BY <1>1, <2>2, CleanAppend
    <3>2. ps = <<<<>>>>
      BY <2>2, <3>1
    <3> QED BY <1>0, <1>4, <3>2, NothingCuts, JoinBy
  <2>4. CutsTo(d, qs, q)
    <3>1. CutsTo(<<>> \o d, <<>> \o qs, q)
      BY <1>0, <2>2, NothingCuts, ListTyped, CutJoined
    <3>2. <<>> \o d = d /\ <<>> \o qs = qs
      BY <1>2, Concatenation DEF Paths, PartLists
    <3> QED BY <3>1, <3>2
  <2>5. CutsTo(d \o <<"/">>, ps, <<>>)
    BY <1>2, <2>2, <2>4, CutSlash
  <2>6. Requests!Split(d) = ps
    BY <2>2, <2>3, <2>4, SplitIs
  <2>7. IsPartsOf(ps, d)
    BY <1>0, <1>4, <2>1, <2>5, <2>6 DEF IsPartsOf
  <2>8. ~Requests!EndsWithSeparator(d)
    BY <1>2, <2>3, <2>4, EndsInSeparator DEF CutsTo
  <2> QED BY <1>2, <2>7, <2>8
<1> QED BY <1>3, <1>4

(* delUps gives such a path, and leaves one alone, with a separator or     *)
(* without.                                                                *)
LEMMA DelUpsCleans ==
    ASSUME NEW p \in Paths PROVE Requests!DelUps(p) \in CleanPaths
BY DelUpsIs, ReducedIsClean DEF CleanPaths

LEMMA DelUpsKeeps ==
    ASSUME NEW d \in CleanPaths
    PROVE  Requests!DelUps(d) = d /\ Requests!DelUps(d \o <<"/">>) = d
<1>1. PICK es : IsPartsOf(es, d)
  BY CleanPath
<1>2. es \in CleanLists /\ Reduced(es) = es /\ Requests!JoinAll(es) = d
  BY <1>1, CleanIsReduced DEF IsPartsOf
<1>3. d \in Paths /\ d \o <<"/">> \in Paths
  BY CleanPath, SlashIsText DEF Paths
<1>4. Requests!Split(d \o <<"/">>) = es
  BY <1>1, SplitIs DEF IsPartsOf
<1>5. Requests!DelUps(d \o <<"/">>) = d
  BY <1>2, <1>3, <1>4, DelUpsIs
<1>6. Requests!DelUps(d) = d
  <2>1. CASE d = <<>>
    BY <1>1, <1>3, <2>1, DelUpsIs, ReducedBy, JoinBy DEF IsPartsOf
  <2>2. CASE d # <<>>
    BY <1>1, <1>2, <1>3, <2>2, DelUpsIs DEF IsPartsOf
  <2> QED BY <2>1, <2>2
<1> QED BY <1>5, <1>6

----------------------------------------------------------------------------
(***************************************************************************)
(* What join puts below a folder stays there.                              *)
(***************************************************************************)
(* A list may be joined from its front.                                    *)
LEMMA JoinFirst ==
    ASSUME NEW a \in Paths, NEW qs \in Seq(Paths), qs # <<>>
    PROVE  Requests!JoinAll(<<a>> \o qs) = (a \o <<"/">>) \o Requests!JoinAll(qs)
<1> DEFINE Is(rs) == Requests!JoinAll(<<a>> \o rs) = (a \o <<"/">>) \o Requests!JoinAll(rs)
<1> DEFINE G == {rs \in Seq(Paths) : rs # <<>> => Is(rs)}
<1>1. <<>> \in G
  OBVIOUS
<1>2. ASSUME NEW rs \in Seq(Paths), NEW t \in Paths, rs \in G PROVE Append(rs, t) \in G
  <2>1. <<a>> \in Seq(Paths) /\ <<a>> # <<>> /\ Requests!JoinAll(<<a>>) = a
    BY JoinBy
  <2>2. CASE rs = <<>>
    <3>1. <<a>> \o Append(rs, t) = Append(<<a>>, t) /\ Append(rs, t) = <<t>>
      BY <2>2
    <3>2. Is(Append(rs, t))
      <4>1. Requests!JoinAll(Append(<<a>>, t)) = (a \o <<"/">>) \o t
        BY <2>1, JoinBy
      <4>2. Requests!JoinAll(<<t>>) = t
        BY JoinBy
      <4> QED BY <3>1, <4>1, <4>2
    <3> QED BY <3>2
  <2>3. CASE rs # <<>>
    <3> DEFINE J == Requests!JoinAll(rs)
    <3>1. <<a>> \o Append(rs, t) = Append(<<a>> \o rs, t) /\ <<a>> \o rs \in Seq(Paths)
      BY <2>1, Concatenation
    <3>2. <<a>> \o rs # <<>> /\ J \in Paths
      BY <2>1, JoinBy
    <3>3. Requests!JoinAll(Append(<<a>> \o rs, t))
            = (Requests!JoinAll(<<a>> \o rs) \o <<"/">>) \o t
      BY <3>1, <3>2, JoinBy
    <3>4. Requests!JoinAll(Append(rs, t)) = (J \o <<"/">>) \o t
      BY <2>3, JoinBy
    <3>5. Requests!JoinAll(<<a>> \o rs) = (a \o <<"/">>) \o J
      BY <1>2, <2>3
    <3> HIDE DEF J
    <3>6. (((a \o <<"/">>) \o J) \o <<"/">>) \o t = (a \o <<"/">>) \o ((J \o <<"/">>) \o t)
      <4>1. a \o <<"/">> \in Paths /\ J \o <<"/">> \in Paths /\ <<"/">> \in Paths
        BY <3>2, SlashIsText DEF Paths
      <4>2. (((a \o <<"/">>) \o J) \o <<"/">>) = (a \o <<"/">>) \o (J \o <<"/">>)
        <5>1. a \o <<"/">> \in Paths /\ J \in Paths /\ <<"/">> \in Paths
          BY <3>2, <4>1
        <5> QED BY <5>1, Regrouped
      <4> DEFINE A == a \o <<"/">>
                 B == J \o <<"/">>
      <4>3. A \in Paths /\ B \in Paths
        BY <4>1
      <4> HIDE DEF A, B
      <4>4. (A \o B) \o t = A \o (B \o t)
        BY <4>3, Regrouped
      <4> QED BY <4>2, <4>4 DEF A, B
    <3>7. Is(Append(rs, t))
      BY <3>1, <3>3, <3>4, <3>5, <3>6
    <3> QED BY <3>7
  <2> QED BY <2>2, <2>3
<1>3. \A rs \in Seq(Paths) : rs \in G
  <2> HIDE DEF G
  <2> QED BY <1>1, <1>2, SequenceInduction
<1> QED BY <1>3

(* Lists without an empty part: they make a path that begins with no       *)
(* separator.                                                              *)
SolidLists == {ps \in PartLists : \A i \in 1..Len(ps) : ps[i] \notin Dots /\ ps[i] # <<>>}

LEMMA FirstForm ==
    ASSUME NEW ps \in PartLists, ps # <<>>
    PROVE  /\ ps[1] \in PathParts /\ Tail(ps) \in PartLists
           /\ ps = <<ps[1]>> \o Tail(ps)
           /\ Len(Tail(ps)) = Len(ps) - 1
           /\ \A i \in 1..Len(Tail(ps)) : Tail(ps)[i] = ps[i + 1]
           /\ Len(ps) \in Nat \ {0}
<1>1. ps \in Seq(PathParts)
  BY DEF PartLists
<1>2. ps[1] \in PathParts /\ Tail(ps) \in Seq(PathParts)
  BY <1>1
<1>3. /\ Len(Tail(ps)) = Len(ps) - 1
      /\ \A i \in 1..Len(Tail(ps)) : Tail(ps)[i] = ps[i + 1]
      /\ Len(ps) \in Nat \ {0}
  BY <1>1
<1>4. ps = <<ps[1]>> \o Tail(ps)
  BY <1>1
<1> QED BY <1>2, <1>3, <1>4 DEF PartLists

(* A joined list begins with a separator only for an empty first part.     *)
LEMMA JoinBegins ==
    ASSUME NEW ps \in PartLists, ps # <<>>
    PROVE  /\ ps[1] # <<>> => ~Requests!BeginsWithSeparator(Requests!JoinAll(ps))
           /\ ps[1] = <<>> => Requests!JoinAll(ps) = IF Tail(ps) = <<>> THEN <<>>
                                 ELSE <<"/">> \o Requests!JoinAll(Tail(ps))
<1> DEFINE a == ps[1]
           qs == Tail(ps)
           J == Requests!JoinAll(qs)
<1>1. /\ a \in PathParts /\ qs \in PartLists /\ ps = <<a>> \o qs
      /\ a \in Paths /\ qs \in Seq(Paths) /\ J \in Paths
  BY FirstForm, PartTyped, ListTyped, JoinBy
<1>2. Requests!JoinAll(ps) = IF qs = <<>> THEN a ELSE (a \o <<"/">>) \o J
  <2>1. qs = <<>> => ps = <<a>>
    BY <1>1
  <2>2. qs = <<>> => Requests!JoinAll(ps) = a
    <3>1. Requests!JoinAll(<<a>>) = a
      BY <1>1, JoinBy
    <3> QED BY <2>1, <3>1
  <2>3. qs # <<>> => Requests!JoinAll(<<a>> \o qs) = (a \o <<"/">>) \o J
    <3> HIDE DEF a, qs
    <3> QED BY <1>1, JoinFirst
  <2> QED BY <1>1, <2>2, <2>3
<1> HIDE DEF a, qs, J
<1>3. ASSUME a # <<>> PROVE ~Requests!BeginsWithSeparator(Requests!JoinAll(ps))
  <2>1. a \in Seq(Plain) /\ a[1] \in Plain
    BY <1>1, <1>3 DEF PathParts
  <2>2. Head(a) = a[1] /\ Head((a \o <<"/">>) \o J) = a[1]
    BY <1>1, <1>3, SlashIsText DEF Paths
  <2>3. ~Requests!IsSeparator(a[1])
    BY <2>1 DEF Plain
  <2> QED BY <1>2, <2>2, <2>3 DEF Requests!BeginsWithSeparator
<1>4. ASSUME a = <<>> PROVE (a \o <<"/">>) \o J = <<"/">> \o J
  <2>1. a \o <<"/">> = <<"/">>
    BY <1>4
  <2> QED BY <2>1
<1> QED BY <1>2, <1>3, <1>4 DEF a, qs, J

LEMMA SolidBegins ==
    ASSUME NEW ps \in SolidLists
    PROVE  ~Requests!BeginsWithSeparator(Requests!JoinAll(ps))
<1>1. CASE ps = <<>>
  BY <1>1, JoinBy DEF Requests!BeginsWithSeparator
<1>2. CASE ps # <<>>
  <2>1. ps \in PartLists /\ 1 \in 1..Len(ps)
    BY <1>2, FirstForm DEF SolidLists
  <2>2. ps[1] # <<>>
    BY <2>1 DEF SolidLists
  <2> QED BY <1>2, <2>1, <2>2, JoinBegins
<1> QED BY <1>1, <1>2

(* What join makes of the folder and the path below it.                    *)
LEMMA JoinedPath ==
    ASSUME NEW d \in CleanPaths, NEW e \in CleanPaths
    PROVE  \E ps \in SolidLists : Requests!Join(d, e) = (d \o <<"/">>) \o Requests!JoinAll(ps)
<1> DEFINE rest == IF Requests!BeginsWithSeparator(e) THEN Tail(e) ELSE e
<1>1. PICK es \in CleanLists : e = Requests!JoinAll(es)
  BY DEF CleanPaths
<1>2. es \in PartLists /\ Clean(es)
  BY DEF CleanLists
<1>3. \E ps \in SolidLists : rest = Requests!JoinAll(ps)
  <2>0. <<>> \in SolidLists
    BY ListTyped DEF SolidLists
  <2>1. CASE es = <<>>
    BY <1>1, <2>0, <2>1, JoinBy DEF Requests!BeginsWithSeparator
  <2>2. CASE es # <<>> /\ es[1] # <<>>
    <3>1. es \in SolidLists
      BY <1>2, <2>2 DEF SolidLists, Clean
    <3> QED BY <1>1, <3>1, SolidBegins
  <2>3. CASE es # <<>> /\ es[1] = <<>>
    <3> DEFINE ts == Tail(es)
    <3>1. /\ ts \in PartLists /\ Len(ts) = Len(es) - 1 /\ Len(es) \in Nat
          /\ \A i \in 1..Len(ts) : ts[i] = es[i + 1]
      BY <1>2, <2>3, FirstForm
    <3>2. e = IF ts = <<>> THEN <<>> ELSE <<"/">> \o Requests!JoinAll(ts)
      BY <1>1, <1>2, <2>3, JoinBegins
    <3> HIDE DEF ts
    <3>3. ts \in SolidLists
      BY <1>2, <3>1 DEF SolidLists, Clean
    <3>4. CASE ts = <<>>
      BY <3>2, <3>3, <3>4, JoinBy DEF Requests!BeginsWithSeparator
    <3>5. CASE ts # <<>>
      <4> DEFINE J == Requests!JoinAll(ts)
      <4>1. J \in Seq(Characters)
        BY <3>1, ListTyped, JoinBy DEF Paths
      <4> HIDE DEF J
      <4>2. <<"/">> \o J # <<>> /\ Head(<<"/">> \o J) = "/" /\ Tail(<<"/">> \o J) = J
        BY <4>1, SlashIsText
      <4>3. Requests!IsSeparator("/")
        BY DEF Requests!IsSeparator, Requests!Separators
      <4>4. rest = J
        BY <3>2, <3>5, <4>2, <4>3 DEF Requests!BeginsWithSeparator, J
      <4> QED BY <3>3, <4>4 DEF J
    <3> QED BY <3>4, <3>5
  <2> QED BY <2>1, <2>2, <2>3
<1>4. ~Requests!EndsWithSeparator(d)
  BY CleanPath
<1>5. Requests!Join(d, e) = d \o <<"/">> \o rest
  BY <1>4 DEF Requests!Join
<1> HIDE DEF rest
<1> QED BY <1>3, <1>5

LEMMA ListAppend ==
    ASSUME NEW ps \in PartLists, NEW qs \in PartLists, NEW q \in PathParts
    PROVE  ps \o Append(qs, q) = Append(ps \o qs, q)
BY Concatenation DEF PartLists

(* Split finds the folder's parts and, behind them, the joined ones.       *)
LEMMA SplitJoined ==
    ASSUME NEW d \in CleanPaths, NEW es, IsPartsOf(es, d), NEW ps \in SolidLists
    PROVE  Requests!Split((d \o <<"/">>) \o Requests!JoinAll(ps)) = es \o ps
<1> DEFINE p == d \o <<"/">>
<1>1. p \in Paths /\ es \in PartLists /\ CutsTo(p, es, <<>>) /\ ps \in PartLists
  BY CleanPath, SlashIsText DEF Paths, IsPartsOf, CleanLists, SolidLists
<1> HIDE DEF p
<1>2. CASE ps = <<>>
  <2>1. p \o <<>> = p /\ es \o <<>> = es
    BY <1>1 DEF Paths, PartLists
  <2> QED BY <1>1, <1>2, <2>1, JoinBy, SplitIs DEF p
<1>3. CASE ps # <<>>
  <2>1. PICK qs \in PartLists, q \in PathParts : ps = Append(qs, q)
    BY <1>1, <1>3, AppendForm
  <2>2. q # <<>>
    <3>1. Len(ps) \in 1..Len(ps) /\ ps[Len(ps)] = q
      BY <2>1 DEF PartLists
    <3> QED BY <3>1 DEF SolidLists
  <2>3. CutsTo(p \o Requests!JoinAll(ps), es \o qs, q)
    BY <1>1, <2>1, CutJoined
  <2>4. Append(es \o qs, q) = es \o ps
    BY <1>1, <2>1, ListAppend
  <2> QED BY <2>2, <2>3, <2>4, SplitIs DEF p
<1> QED BY <1>2, <1>3

(* A file joined from clean paths lies in the folder, and Relpath finds the*)
(* way back.                                                               *)
LEMMA FileInFolder ==
    ASSUME NEW d \in CleanPaths, NEW e \in CleanPaths
    PROVE  LET f == Requests!Join(d, e)
           IN  /\ Requests!IsPrefix(Append(d, "/"), f)
               /\ \A i \in DOMAIN Requests!Split(f) : Requests!Split(f)[i] \notin Dots
               /\ Requests!Join(d, Requests!Relpath(f, d)) = f
<1> DEFINE f == Requests!Join(d, e)
<1>1. PICK ps \in SolidLists : f = (d \o <<"/">>) \o Requests!JoinAll(ps)
  BY JoinedPath
<1>2. PICK es : IsPartsOf(es, d)
  BY CleanPath
<1> DEFINE J == Requests!JoinAll(ps)
<1>3. /\ d \in Seq(Characters) /\ J \in Seq(Characters)
      /\ es \in Seq(PathParts) /\ Clean(es) /\ es \in PartLists
      /\ ps \in Seq(PathParts) /\ ps \in PartLists
  BY <1>2, CleanPath, ListTyped, JoinBy DEF Paths, IsPartsOf, CleanLists, SolidLists
<1>4. Requests!Split(f) = es \o ps
  BY <1>1, <1>2, SplitJoined
<1>5. Requests!IsPrefix(Append(d, "/"), f)
  <2> HIDE DEF f, J
  <2>1. Append(d, "/") = d \o <<"/">> /\ d \o <<"/">> \in Seq(Characters)
    BY <1>3, SlashIsText
  <2>2. f = (d \o <<"/">>) \o J
    BY <1>1 DEF J
  <2> QED BY <1>3, <2>1, <2>2 DEF Requests!IsPrefix
<1>6. \A i \in DOMAIN Requests!Split(f) : Requests!Split(f)[i] \notin Dots
  <2>1. \A i \in DOMAIN (es \o ps) :
           \/ i \in 1..Len(es) /\ (es \o ps)[i] = es[i]
           \/ i - Len(es) \in 1..Len(ps) /\ (es \o ps)[i] = ps[i - Len(es)]
    BY <1>3
  <2> HIDE DEF f
  <2> QED BY <1>3, <1>4, <2>1 DEF Clean, SolidLists
<1>7. Requests!Join(d, Requests!Relpath(f, d)) = f
  <2> DEFINE ds == Requests!Split(d)
             n == Len(es \o ps)
  <2> HIDE DEF f, J
  <2>0. f = (d \o <<"/">>) \o J /\ ~Requests!EndsWithSeparator(d)
    BY <1>1, CleanPath DEF J
  <2>1. Requests!IsSubpath(f, d)
    <3>1. ds = <<>> \/ ds = es
      BY <1>2 DEF IsPartsOf
    <3>2. \A i \in DOMAIN (es \o ps) \cap DOMAIN ds : (es \o ps)[i] = ds[i]
      BY <1>3, <3>1
    <3> QED BY <1>4, <3>2 DEF Requests!IsSubpath
  <2>2. Requests!Relpath(f, d) = Requests!JoinAll(SubSeq(es \o ps, Len(ds) + 1, n))
    BY <1>4, <2>1 DEF Requests!Relpath
  <2>3. CASE d # <<>>
    <3>1. ds = es
      BY <1>2, <2>3 DEF IsPartsOf
    <3>2. SubSeq(es \o ps, Len(es) + 1, n) = ps
      BY <1>3
    <3>3. Requests!Relpath(f, d) = J /\ ~Requests!BeginsWithSeparator(J)
      BY <2>2, <3>1, <3>2, SolidBegins DEF J
    <3> QED BY <2>0, <3>3 DEF Requests!Join
  <2>4. CASE d = <<>>
    <3>1. ds = <<>> /\ es = <<<<>>>>
      BY <1>2, <2>4 DEF IsPartsOf
    <3>2. SubSeq(es \o ps, 0 + 1, n) = <<<<>>>> \o ps
      BY <1>3, <3>1
    <3>3. f = <<"/">> \o J
      <4>1. <<>> \o <<"/">> = <<"/">>
        OBVIOUS
      <4> QED BY <2>0, <2>4, <4>1
    <3>4. Requests!Relpath(f, d) = IF ps = <<>> THEN <<>> ELSE f
      <4>1. Requests!Relpath(f, d) = Requests!JoinAll(<<<<>>>> \o ps)
        BY <2>2, <3>1, <3>2
      <4>2. CASE ps = <<>>
        <5>1. <<<<>>>> \o ps = <<<<>>>>
          BY <4>2
        <5> QED BY <4>1, <4>2, <5>1, JoinBy, NothingCuts
      <4>3. CASE ps # <<>>
        <5>1. Requests!JoinAll(<<<<>>>> \o ps) = (<<>> \o <<"/">>) \o J
          BY <1>3, <4>3, ListTyped, NothingCuts, JoinFirst DEF J
        <5> QED BY <2>0, <2>4, <4>1, <4>3, <5>1
      <4> QED BY <4>2, <4>3
    <3>5. Requests!BeginsWithSeparator(f) /\ Tail(f) = J
      <4>1. f # <<>> /\ Head(f) = "/" /\ Tail(f) = J
        BY <1>3, <3>3, SlashIsText
      <4> QED BY <4>1 DEF Requests!BeginsWithSeparator, Requests!IsSeparator,
              Requests!Separators
    <3>6. CASE ps = <<>>
      <4>1. Requests!Relpath(f, d) = <<>> /\ J = <<>>
        BY <3>4, <3>6, JoinBy DEF J
      <4>2. ~Requests!BeginsWithSeparator(<<>>)
        BY DEF Requests!BeginsWithSeparator
      <4> QED BY <2>0, <4>1, <4>2 DEF Requests!Join
    <3>7. CASE ps # <<>>
      <4>1. Requests!Relpath(f, d) = f
        BY <3>4, <3>7
      <4> QED BY <2>0, <3>5, <4>1 DEF Requests!Join
    <3> QED BY <3>6, <3>7
  <2> QED BY <2>3, <2>4
<1> QED BY <1>5, <1>6, <1>7

----------------------------------------------------------------------------
(***************************************************************************)
(* The separator at the end of a path.                                     *)
(***************************************************************************)
LEMMA EndsWithSlashOf ==
    ASSUME NEW d \in CleanPaths
    PROVE  /\ d \in Paths /\ d \o <<"/">> \in Paths
           /\ ~Requests!EndsWithSlash(d)
           /\ Requests!EndsWithSlash(d \o <<"/">>)
<1>1. d \in Seq(Characters) /\ d \in Paths /\ d \o <<"/">> \in Paths
  BY CleanPath, SlashIsText DEF Paths
<1>2. ~Requests!EndsWithSlash(d)
  BY CleanPath DEF Requests!EndsWithSlash, Requests!EndsWithSeparator, Requests!IsSeparator,
     Requests!Separators
<1>3. Requests!EndsWithSlash(d \o <<"/">>)
  BY <1>1, SlashIsText DEF Requests!EndsWithSlash
<1> QED BY <1>1, <1>2, <1>3

(* The path a request should have had is clean, with its separator or      *)
(* without.                                                                *)
LEMMA WantedIs ==
    ASSUME NEW p \in Paths
    PROVE  \E d \in CleanPaths :
              Requests!Wanted(p) = IF Requests!EndsWithSlash(p) THEN d \o <<"/">> ELSE d
<1>1. Requests!DelUps(p) \in CleanPaths
  BY DelUpsCleans
<1>2. Requests!DelUps(p) \o <<>> = Requests!DelUps(p)
  BY <1>1, CleanPath DEF Paths
<1> QED BY <1>1, <1>2 DEF Requests!Wanted

(* Who asks for such a path asks for the one he should.                    *)
LEMMA WantedKeeps ==
    ASSUME NEW d \in CleanPaths
    PROVE  Requests!Wanted(d) = d /\ Requests!Wanted(d \o <<"/">>) = d \o <<"/">>
<1>1. d \o <<>> = d
  BY CleanPath DEF Paths
<1> QED BY <1>1, EndsWithSlashOf, DelUpsKeeps DEF Requests!Wanted

(* With or without a separator behind it, a path names one file.           *)
LEMMA SameFile ==
    ASSUME NEW d \in CleanPaths, NEW handler, handler.base \in Paths
    PROVE  Requests!FileOf(handler, d \o <<"/">>) = Requests!FileOf(handler, d)
<1> DEFINE b == handler.base
           p == d \o <<"/">>
           bs == Requests!Split(b)
<1>1. PICK es : IsPartsOf(es, d)
  BY CleanPath
<1>2. Requests!Split(p) = es /\ p \in Paths /\ d \in Paths
  BY <1>1, SplitIs, EndsWithSlashOf DEF IsPartsOf
<1>3. Requests!DelUps(p) = Requests!DelUps(d)
  BY DelUpsKeeps
<1> SUFFICES ASSUME b # <<>>
             PROVE  Requests!DelUps(Requests!Relpath(p, b))
                      = Requests!DelUps(Requests!Relpath(d, b))
  BY <1>3 DEF Requests!FileOf
<1> HIDE DEF p
<1>4. CASE d # <<>>
  <2>1. Requests!Split(d) = es
    BY <1>1, <1>4 DEF IsPartsOf
  <2> QED BY <1>2, <1>3, <2>1 DEF Requests!Relpath, Requests!IsSubpath
<1>5. CASE d = <<>>
  <2>1. es = <<<<>>>> /\ Requests!Split(d) = <<>>
    BY <1>1, <1>5 DEF IsPartsOf
  <2>2. Len(bs) \in Nat
    <3>1. bs \in PartLists
      BY DelUpsIs
    <3> HIDE DEF bs
    <3> QED BY <3>1 DEF PartLists
  <2> HIDE DEF bs
  <2>3. Requests!Relpath(d, b) = <<>>
    <3>1. Requests!IsSubpath(d, b)
      BY <2>1 DEF Requests!IsSubpath
    <3>2. SubSeq(<<>>, Len(bs) + 1, 0) = <<>>
      BY <2>2
    <3>3. Requests!Relpath(d, b) = Requests!JoinAll(SubSeq(<<>>, Len(bs) + 1, Len(<<>>)))
      BY <2>1, <3>1 DEF Requests!Relpath, bs
    <3> QED BY <3>2, <3>3, JoinBy
  <2>4. Requests!Relpath(p, b) \in {<<>>, p}
    <3>1. SubSeq(<<<<>>>>, Len(bs) + 1, 1) = IF Len(bs) = 0 THEN <<<<>>>> ELSE <<>>
      <4> DEFINE n == Len(bs)
      <4>1. n = 0 => SubSeq(<<<<>>>>, n + 1, 1) = <<<<>>>>
        <5>1. es \in Seq(PathParts) /\ Len(es) = 1
          BY <1>1, <2>1 DEF IsPartsOf, CleanLists, PartLists
        <5>2. SubSeq(es, 1, 1) = es
          BY <5>1
        <5> HIDE DEF n
        <5> QED BY <2>1, <5>2
      <4>2. n # 0 => SubSeq(<<<<>>>>, n + 1, 1) = <<>>
        <5> HIDE DEF n
        <5> QED BY <2>2 DEF n
      <4> QED BY <4>1, <4>2
    <3>2. Requests!JoinAll(SubSeq(<<<<>>>>, Len(bs) + 1, 1)) = <<>>
      BY <3>1, JoinBy, NothingCuts
    <3>3. Requests!IsSubpath(p, b) =>
             Requests!Relpath(p, b) = Requests!JoinAll(SubSeq(<<<<>>>>, Len(bs) + 1, 1))
      BY <1>2, <2>1 DEF Requests!Relpath, bs
    <3>4. ~Requests!IsSubpath(p, b) => Requests!Relpath(p, b) = p
      BY DEF Requests!Relpath
    <3> QED BY <3>2, <3>3, <3>4
  <2> QED BY <1>3, <1>5, <2>3, <2>4
<1> QED BY <1>4, <1>5

----------------------------------------------------------------------------
(***************************************************************************)
(* Requests: the path is text, the folders are clean, and a file looked up *)
(* or a redirect sent belongs to the path.                                 *)
(***************************************************************************)
LEMMA CutSlashed ==
    ASSUME NEW d \in Paths
    PROVE  Append(d, "/") = d \o <<"/">> /\ Requests!Front(d \o <<"/">>) = d
<1>1. d \in Seq(Characters)
  BY DEF Paths
<1> QED BY <1>1, SlashIsText DEF Requests!Front

(* What Find finds is a place of the text.                                 *)
LEMMA FindRange ==
    ASSUME NEW h \in Paths, NEW i \in Nat \ {0}, NEW ch
    PROVE  /\ Requests!Find(h, ch, i) \in 0..Len(h)
           /\ Requests!Find(h, ch, i) # 0 => Requests!Find(h, ch, i) >= i
<1> DEFINE I == {j \in i..Len(h) : h[j] = ch}
<1>0. Len(h) \in Nat
  BY DEF Paths
<1>1. Requests!Find(h, ch, i) = IF I # {} THEN Requests!Min(I) ELSE 0
  BY DEF Requests!Find, Requests!SelectInSubSeq
<1>2. CASE I = {}
  BY <1>0, <1>1, <1>2
<1>3. CASE I # {}
  <2>1. I \subseteq Nat
    BY <1>0
  <2>2. PICK k \in I : \A j \in I : k <= j
    <3> HIDE DEF I
    <3> QED BY <1>3, <2>1, Least
  <2>3. Requests!Min(I) \in I
    <3> HIDE DEF I
    <3> QED BY <2>2 DEF Requests!Min
  <2> QED BY <1>0, <1>1, <1>3, <2>3
<1> QED BY <1>2, <1>3

LEMMA TextTyped ==
    ASSUME NEW h \in Paths, NEW i \in Nat \ {0}, NEW j \in 0..Len(h)
    PROVE  Requests!Text(h, i, j) \in Paths
<1>1. h \in Seq(Characters) /\ j - 1 \in Int /\ j - 1 <= Len(h)
  BY DEF Paths
<1> QED BY <1>1 DEF Paths, Requests!Text

(* The path of any parsed header is text.                                  *)
LEMMA PathTyped ==
    ASSUME NEW h \in Paths PROVE Requests!ParseHost(h).path \in Paths
<1>0. <<>> \in Paths /\ Len(h) \in Nat
  BY DEF Paths
<1>1. ASSUME NEW i \in Nat \ {0} PROVE Requests!ParseRest(h, i).path \in Paths
  <2> DEFINE slash == Requests!Find(h, "/", i)
  <2>1. slash \in 0..Len(h)
    BY FindRange
  <2>2. CASE slash # 0
    <3>1. slash \in Nat \ {0}
      BY <1>0, <2>1, <2>2
    <3> HIDE DEF slash
    <3>2. Requests!Find(h, "?", slash) \in 0..Len(h) /\ Requests!LineEnd(h, slash) \in 0..Len(h)
      BY <3>1, FindRange DEF Requests!LineEnd
    <3>3. Requests!ParsePath(h, slash).path \in Paths
      BY <3>1, <3>2, TextTyped DEF Requests!ParsePath
    <3> QED BY <2>2, <3>3 DEF Requests!ParseRest, slash
  <2>3. CASE slash = 0
    BY <1>0, <2>3 DEF Requests!ParseRest
  <2> QED BY <2>2, <2>3
<1>2. Requests!Find(h, ":", 1) + 1 \in Nat \ {0}
  BY <1>0, FindRange
<1>3. Requests!ParseRest(h, Requests!Find(h, ":", 1) + 1).path \in Paths
  BY <1>1, <1>2
<1> QED BY <1>0, <1>3 DEF Requests!ParseHost, Requests!Refused, Requests!Result

(* Both what delUps and what relpath make of a path is clean.              *)
LEMMA DelUpsTyped ==
    ASSUME NEW p \in Paths, NEW b \in Paths
    PROVE  /\ Requests!DelUps(p) \in CleanPaths
           /\ Requests!DelUps(Requests!Relpath(p, b)) \in CleanPaths
<1> DEFINE ps == Requests!Split(p)
           m == Len(Requests!Split(b)) + 1
<1>1. ps \in PartLists /\ m \in Nat \ {0}
  <2>1. ps \in PartLists /\ Requests!Split(b) \in PartLists
    BY DelUpsIs
  <2> QED BY <2>1 DEF PartLists
<1> HIDE DEF m
<1>2. SubSeq(ps, m, Len(ps)) \in PartLists
  <2> HIDE DEF ps
  <2> QED BY <1>1 DEF PartLists
<1>3. Requests!JoinAll(SubSeq(ps, m, Len(ps))) \in Paths
  BY <1>2, ListTyped, JoinBy
<1>4. Requests!Relpath(p, b) \in Paths
  BY <1>3 DEF Requests!Relpath, m
<1> QED BY <1>4, DelUpsCleans

(* What the settings and the requests hold is text.                        *)
Settings == [host : Paths, base : Paths, folder : Paths]

TextOnly ==
    /\ Headers \subseteq Paths
    /\ Dir \in Paths
    /\ HandlerLists \subseteq Seq(Settings)

(* A handler as createHandler makes it: its folder went through delUps.    *)
Handlers == [host : Paths, base : Paths, folder : CleanPaths]

(* The handler chosen is one of the list.                                  *)
LEMMA ChosenIsThere ==
    ASSUME handlers \in Seq(Handlers), Requests!Chosen # 0
    PROVE  handlers[Requests!Chosen] \in Handlers
<1> DEFINE I == {i \in 1..Len(handlers) : Requests!ShouldHandle(handlers[i])}
<1>1. Requests!Chosen = IF I # {} THEN Requests!Min(I) ELSE 0
  BY DEF Requests!Chosen, Requests!SelectInSeq
<1>2. I # {}
  BY <1>1
<1>3. I \subseteq Nat
  OBVIOUS
<1>4. PICK k \in I : \A j \in I : k <= j
  <2> HIDE DEF I
  <2> QED BY <1>2, <1>3, Least
<1>5. Requests!Min(I) \in I
  <2> HIDE DEF I
  <2> QED BY <1>4 DEF Requests!Min
<1>6. Requests!Chosen \in 1..Len(handlers)
  BY <1>1, <1>2, <1>5
<1> QED BY <1>6

(* What was looked up is the chosen handler's file for the path.           *)
Located ==
    /\ Requests!Chosen # 0
    /\ file = Requests!FileOf(handlers[Requests!Chosen], request.path)

(* Where delUps would change the path, the request was redirected before a *)
(* file was looked up: a redirect names a path delUps leaves alone, and    *)
(* one sent after a look names the same file.                              *)
PathInv ==
    /\ part # "request" => RequestRests
    /\ part = "request" =>
          /\ header \in Paths
          /\ handlers \in Seq(Handlers)
          /\ request.path \in Paths
          /\ stage \in {"received", "parsed"} => file = <<>>
          /\ file # <<>> => Located
          /\ stage = "stat" => Located /\ Requests!Wanted(request.path) = request.path
          /\ stage = "redirected" =>
                /\ Requests!Wanted(target) = target
                /\ file # <<>> => file = Requests!FileOf(handlers[Requests!Chosen], target)

LEMMA JoinTyped ==
    ASSUME NEW p \in Paths, NEW q \in Paths PROVE Requests!Join(p, q) \in Paths
<1> DEFINE rest == IF Requests!BeginsWithSeparator(q) THEN Tail(q) ELSE q
<1>1. rest \in Paths
  BY DEF Paths, Requests!BeginsWithSeparator
<1> HIDE DEF rest
<1>2. p \o rest \in Paths /\ p \o <<"/">> \o rest \in Paths
  BY <1>1, SlashIsText DEF Paths
<1> QED BY <1>2 DEF Requests!Join, rest

LEMMA PathInitInv == ASSUME TextOnly PROVE PartsInit => PathInv
<1> SUFFICES ASSUME PartsInit, part = "request" PROVE PathInv
  BY DEF PartsInit, PathInv
<1>1. Requests!Init
  BY DEF PartsInit
<1>2. PICK list \in HandlerLists :
         handlers = [i \in DOMAIN list |-> Requests!Created(list[i])]
  BY <1>1 DEF Requests!Init
<1>3. list \in Seq(Settings)
  BY DEF TextOnly
<1>4. ASSUME NEW s \in Settings
      PROVE  Requests!Created(s) \in Handlers
  <2>1. Requests!Folder(s.folder) \in CleanPaths
    BY JoinTyped, DelUpsCleans DEF Requests!Folder, TextOnly, Settings
  <2> QED BY <2>1 DEF Requests!Created, Handlers, Settings
<1>5. handlers \in Seq(Handlers)
  <2> DEFINE n == Len(list)
  <2>1. n \in Nat /\ DOMAIN list = 1..n
    BY <1>3
  <2>2. \A i \in 1..n : Requests!Created(list[i]) \in Handlers
    <3>1. \A i \in 1..n : list[i] \in Settings
      BY <1>3
    <3> HIDE DEF n
    <3> QED BY <1>4, <3>1
  <2> HIDE DEF n
  <2>3. handlers \in [1..n -> Handlers]
    BY <1>2, <2>1, <2>2
  <2> QED BY <2>1, <2>3
<1>6. header \in Paths /\ request.path \in Paths
  BY <1>1 DEF Requests!Init, Requests!Refused, TextOnly, Paths
<1> QED BY <1>1, <1>5, <1>6 DEF Requests!Init, PathInv

LEMMA ChosenStays == UNCHANGED <<handlers, request>> => Requests!Chosen' = Requests!Chosen
BY DEF Requests!Chosen, Requests!SelectInSeq, Requests!ShouldHandle

LEMMA PathStepInv == PathInv /\ part = "request" /\ UNCHANGED part /\ Requests!Next => PathInv'
<1> SUFFICES ASSUME PathInv, part = "request", UNCHANGED part, Requests!Next PROVE PathInv'
  OBVIOUS
<1> USE DEF PathInv
<1>1. CASE Requests!Parse
  <2>1. request'.path \in Paths
    BY <1>1, PathTyped DEF Requests!Parse
  <2> QED BY <1>1, <2>1 DEF Requests!Parse
<1>2. CASE Requests!Unhandled
  BY <1>2, ChosenStays DEF Requests!Unhandled, Located
<1>3. CASE Requests!RedirectReduced
  <2>1. PICK d \in CleanPaths :
           Requests!Wanted(request.path)
             = IF Requests!EndsWithSlash(request.path) THEN d \o <<"/">> ELSE d
    BY WantedIs
  <2>2. Requests!Wanted(target') = target'
    BY <1>3, <2>1, WantedKeeps DEF Requests!RedirectReduced, Requests!RedirectTo
  <2> QED BY <1>3, <2>2 DEF Requests!RedirectReduced, Requests!RedirectTo
<1>4. CASE Requests!Locate
  <2>1. Requests!Chosen' = Requests!Chosen
    BY <1>4, ChosenStays DEF Requests!Locate
  <2> QED BY <1>4, <2>1 DEF Requests!Locate, Located
<1>5. CASE Requests!DoesNotExist
  BY <1>5, ChosenStays DEF Requests!DoesNotExist, Located
<1>6. ASSUME stage = "stat" PROVE
         /\ handlers[Requests!Chosen].base \in Paths
         /\ \E d \in CleanPaths : request.path = IF Requests!EndsWithSlash(request.path)
                                                   THEN d \o <<"/">> ELSE d
  BY <1>6, ChosenIsThere, WantedIs DEF Located, Handlers
<1>7. CASE Requests!Directory
  <2>0. stage = "stat" /\ Requests!Chosen' = Requests!Chosen
    BY <1>7, ChosenStays DEF Requests!Directory, Requests!RedirectTo
  <2>1. CASE Requests!AsFolder(request.path)
    BY <1>7, <2>0, <2>1 DEF Requests!Directory, Located
  <2>2. CASE ~Requests!AsFolder(request.path)
    <3>1. PICK d \in CleanPaths : request.path = d
      BY <1>6, <2>0, <2>2 DEF Requests!AsFolder
    <3>2. target' = d \o <<"/">> /\ stage' = "redirected"
      BY <1>7, <2>2, <3>1, CleanPath, CutSlashed DEF Requests!Directory, Requests!RedirectTo
    <3>3. Requests!Wanted(target') = target'
      BY <3>2, WantedKeeps
    <3>4. file = Requests!FileOf(handlers[Requests!Chosen], target')
      BY <1>6, <2>0, <3>1, <3>2, SameFile DEF Located
    <3> QED BY <1>7, <2>0, <2>2, <3>2, <3>3, <3>4
       DEF Requests!Directory, Requests!RedirectTo, Located
  <2> QED BY <2>1, <2>2
<1>8. CASE Requests!RegularFile
  <2>0. stage = "stat" /\ Requests!Chosen' = Requests!Chosen
    BY <1>8, ChosenStays DEF Requests!RegularFile, Requests!RedirectTo
  <2>1. CASE ~Requests!EndsWithSlash(request.path)
    BY <1>8, <2>0, <2>1 DEF Requests!RegularFile, Located
  <2>2. CASE Requests!EndsWithSlash(request.path)
    <3>1. PICK d \in CleanPaths : request.path = d \o <<"/">>
      BY <1>6, <2>0, <2>2
    <3>2. target' = d /\ stage' = "redirected"
      BY <1>8, <2>2, <3>1, CleanPath, CutSlashed DEF Requests!RegularFile, Requests!RedirectTo
    <3>3. Requests!Wanted(target') = target'
      BY <3>2, WantedKeeps
    <3>4. file = Requests!FileOf(handlers[Requests!Chosen], target')
      BY <1>6, <2>0, <3>1, <3>2, SameFile DEF Located
    <3> QED BY <1>8, <2>0, <2>2, <3>2, <3>3, <3>4
       DEF Requests!RegularFile, Requests!RedirectTo, Located
  <2> QED BY <2>1, <2>2
<1> QED BY <1>1, <1>2, <1>3, <1>4, <1>5, <1>7, <1>8 DEF Requests!Next

LEMMA PathInductive == ASSUME TextOnly PROVE PartsSpec => []PathInv
<1>1. PartsInit => PathInv
  BY PathInitInv
<1>2. PathInv /\ [PartsNext]_<<part, vars, pool, child, startup, capsule, mime>> => PathInv'
  <2>1. PathInv /\ UNCHANGED <<part, capsule>> => PathInv'
    BY ChosenStays DEF PathInv, capsule, RequestRests, Located
  <2> QED BY <2>1, PathStepInv DEF PartsNext
<1> QED BY <1>1, <1>2, PTL DEF PartsSpec

(* Whatever is asked, and whatever folders, hosts and bases the settings   *)
(* name, the file looked up lies in the folder of the handler that was     *)
(* chosen, has no ".." in it, and is reached from that folder by the path  *)
(* a script is told (filehandler.cpp:78, 136-157, 571-574).                *)
THEOREM FilesAreServed == ASSUME TextOnly PROVE PartsSpec => []ServedFromFolder
<1>1. PathInv => ServedFromFolder
  <2> SUFFICES ASSUME PathInv, file # <<>>
               PROVE  LET folder == handlers[Requests!Chosen].folder
                      IN  /\ Requests!IsPrefix(Append(folder, "/"), file)
                          /\ \A i \in DOMAIN Requests!Split(file) :
                                Requests!Split(file)[i] \notin {<<".">>, <<".", ".">>}
                          /\ Requests!Join(folder, Requests!Relpath(file, folder)) = file
    BY DEF ServedFromFolder, Requests!ServedFromFolder
  <2> DEFINE handler == handlers[Requests!Chosen]
  <2>1. Located /\ request.path \in Paths /\ handler \in Handlers
    BY ChosenIsThere DEF PathInv, RequestRests, Located
  <2>2. handler.folder \in CleanPaths /\ handler.base \in Paths
    BY <2>1 DEF Handlers
  <2> HIDE DEF handler
  <2>3. PICK e \in CleanPaths : file = Requests!Join(handler.folder, e)
    BY <2>1, <2>2, DelUpsTyped DEF Located, Requests!FileOf, handler
  <2> QED BY <2>2, <2>3, FileInFolder DEF Dots, handler
<1> QED BY <1>1, PathInductive, PTL

(* The target of any redirect is one the same test lets through, and leads *)
(* to the file the redirected request had found (filehandler.cpp:139-149,  *)
(* 184-210).                                                               *)
THEOREM RedirectsSettle == ASSUME TextOnly PROVE PartsSpec => []RedirectSettles
<1>1. PathInv => RedirectSettles
  BY DEF PathInv, RedirectSettles, Requests!RedirectSettles, RequestRests
<1> QED BY <1>1, PathInductive, PTL

=============================================================================
