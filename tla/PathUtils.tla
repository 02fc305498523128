----------------------------- MODULE PathUtils -----------------------------
(***************************************************************************)
(* The functions of src/sources/pathutils.cpp, but basename, which nobody  *)
(* calls, and dirname, which only makes text.  A path is a sequence of     *)
(* characters.                                                             *)
(***************************************************************************)
EXTENDS SequencesExt, Naturals

Separators == {"/", "\\"}

IsSeparator(ch) == ch \in Separators

BeginsWithSeparator(p) == p # <<>> /\ IsSeparator(Head(p))
EndsWithSeparator(p) == p # <<>> /\ IsSeparator(p[Len(p)])

(* join of two paths.                                                      *)
JoinBare(root, p) == root \o p          \* slip: no separator
Join(root, p) ==
    LET rest == IF BeginsWithSeparator(p) THEN Tail(p) ELSE p
    IN  IF EndsWithSeparator(root) THEN root \o rest ELSE root \o <<"/">> \o rest

(* join of a vector.                                                       *)
JoinAll(parts) ==
    IF parts = <<>> THEN <<>>
    ELSE FoldLeft(LAMBDA p, q : p \o <<"/">> \o q, Head(parts), Tail(parts))

(* split: a leading separator gives an empty first part, a last one none.  *)
CutAt(cut, ch) ==
    IF IsSeparator(ch) THEN [parts |-> Append(cut.parts, cut.last), last |-> <<>>]
                       ELSE [cut EXCEPT !.last = Append(@, ch)]

Cut(p) == FoldLeft(CutAt, [parts |-> <<>>, last |-> <<>>], p)

Split(p) ==
    IF Cut(p).last = <<>> THEN Cut(p).parts ELSE Append(Cut(p).parts, Cut(p).last)

(* One is a prefix of the other, part by part; which one is left open.     *)
IsSubpath(p, q) ==
    LET ps == Split(p)
        qs == Split(q)
    IN  \A i \in DOMAIN ps \cap DOMAIN qs : ps[i] = qs[i]

Relpath(p, rel) ==
    IF IsSubpath(p, rel)
      THEN JoinAll(SubSeq(Split(p), Len(Split(rel)) + 1, Len(Split(p))))
      ELSE p

(* One part of the loop in delUps; parts.pop_back() of nothing is tested.  *)
Reduce(parts, part) ==
    CASE part = <<".">> -> parts
      [] part = <<".", ".">> -> IF parts = <<>> THEN <<>> ELSE Front(parts)
      [] part = <<>> /\ parts # <<>> -> parts
      [] OTHER -> Append(parts, part)

DelUps(p) == JoinAll(FoldLeft(Reduce, <<>>, Split(p)))

(* front() of an empty path is undefined; here, as in the libraries the    *)
(* code is built with, it is no separator.                                 *)
IsRel(p) == ~BeginsWithSeparator(p)

=============================================================================
