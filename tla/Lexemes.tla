------------------------------ MODULE Lexemes ------------------------------
(***************************************************************************)
(* Texts, and the operations on str the crate takes from the standard      *)
(* library.  A text is a sequence of lexemes: single octets where a parser *)
(* looks at them (separators, blanks, digits, the octets of names), and    *)
(* whole words where it only compares (tag names, algorithms, addresses).  *)
(***************************************************************************)
EXTENDS Sequences, Naturals, FiniteSets

SP     == " "
HTAB   == "\t"
Blanks == {SP, HTAB}

LexemesOf(s) == {s[i] : i \in DOMAIN s}

\* The n-th of some places, counted from 0.
Nth(places, n) == CHOOSE i \in places : Cardinality({j \in places : j < i}) = n

\* What stands at some places, in its order.
Picked(s, places) == [n \in 1..Cardinality(places) |-> s[Nth(places, n - 1)]]

\* str::split on one octet: n separators give n + 1 pieces, empty ones included.
\* The cuts are the separators and the two ends.
Split(s, sep) ==
  LET cuts == {0, Len(s) + 1} \union {i \in DOMAIN s : s[i] = sep}
  IN  [n \in 1..(Cardinality(cuts) - 1) |-> SubSeq(s, Nth(cuts, n - 1) + 1, Nth(cuts, n) - 1)]

\* The pieces that are not empty, in their order.
Filled(pieces) == {i \in DOMAIN pieces : pieces[i] # <<>>}
NonEmpty(pieces) == Picked(pieces, Filled(pieces))

\* str::split_once: what is before and after the first occurrence of an octet;
\* all of the text and nothing when there is none.
FirstPlace(s, sep) ==
  CHOOSE i \in 1..(Len(s) + 1) :
    /\ \A j \in 1..(i - 1) : s[j] # sep
    /\ i <= Len(s) => s[i] = sep

Before(s, sep) == SubSeq(s, 1, FirstPlace(s, sep) - 1)
After(s, sep)  == SubSeq(s, FirstPlace(s, sep) + 1, Len(s))

\* str::trim, on texts whose only white space is SP and HTAB.
InkedPlaces(s) == {i \in DOMAIN s : s[i] \notin Blanks}
Trim(s) ==
  LET inked == InkedPlaces(s)
  IN  IF inked = {} THEN <<>>
      ELSE SubSeq(s, Nth(inked, 0), Nth(inked, Cardinality(inked) - 1))
=============================================================================
