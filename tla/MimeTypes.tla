----------------------------- MODULE MimeTypes -----------------------------
(***************************************************************************)
(* MimeTypes::getType (src/sources/MimeTypes.cpp): binary search in the    *)
(* table of extensions.  An extension is its rank in the order of strcmpi: *)
(* the listed ones have the ranks 2, 4, .. 2 * Entries, the others fall in *)
(* between.                                                                *)
(***************************************************************************)
EXTENDS Integers

CONSTANTS
    Entries,            \* 349
    Swapped             \* places whose entry belongs behind the next one:
                        \* 75 (geojson, gemini) and 80 (gml, gmi)

types ==
    [i \in 1..Entries |-> IF i \in Swapped THEN 2 * (i + 1)
                          ELSE IF i - 1 \in Swapped THEN 2 * (i - 1)
                          ELSE 2 * i]

VARIABLES
    extension,
    min, max,           \* the code's, from 0
    found               \* Searching while the loop runs, then the place of
                        \* the entry returned or Null

vars == <<extension, min, max, found>>

Searching == -1
Null == 0

Init ==
    /\ extension \in 1..(2 * Entries + 1)
    /\ min = 0
    /\ max = Entries - 1
    /\ found = Searching

Middle == (max + min) \div 2
Order == extension - types[Middle + 1]

UpFar == min' = Middle + 2 /\ UNCHANGED <<max, found>>  \* slip: off by one

Equal == found' = Middle + 1 /\ UNCHANGED <<min, max>>
Up == min' = Middle + 1 /\ UNCHANGED <<max, found>>
Down == max' = Middle - 1 /\ UNCHANGED <<min, found>>

Round ==
    /\ found = Searching /\ min <= max
    /\ UNCHANGED extension
    /\ \/ Order = 0 /\ Equal
       \/ Order > 0 /\ Up
       \/ Order < 0 /\ Down

Exhausted ==
    /\ found = Searching /\ min > max
    /\ found' = Null
    /\ UNCHANGED <<extension, min, max>>

Next == Round \/ Exhausted

----------------------------------------------------------------------------
(* The search finds an extension exactly if the table lists it, except for *)
(* the entries that come too early, which it misses (MimeTypes.cpp:13-28,  *)
(* 145, 150).                                                              *)
Missed == {types[i] : i \in Swapped}

FindsWhatIsListed ==
    found # Searching =>
        found = IF extension % 2 = 0 /\ extension \notin Missed
                  THEN CHOOSE i \in 1..Entries : types[i] = extension
                  ELSE Null

=============================================================================
