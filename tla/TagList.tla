------------------------------- MODULE TagList -------------------------------
(***************************************************************************)
(* The tag list of a record, parse_tags of src/record.rs.                  *)
(***************************************************************************)
EXTENDS Lexemes, Reason

CONSTANT Printable  \* lexemes of octets in 0x20..0x7e

ASSUME PrintableAssumption == {SP, ";", "="} \subseteq Printable

\* The octet gate: printable ASCII, and HTAB.
PassesOctetGate(txt) == LexemesOf(txt) \subseteq Printable \union {HTAB}

Segments(txt) ==
  LET pieces == Split(txt, ";") IN [i \in DOMAIN pieces |-> Trim(pieces[i])]

Tag(name, value) == [name |-> name, value |-> value]

\* Mutation of TagOf: the value ends at a second "=".
TagOfAllSplit(segment) ==
  Tag(Trim(Before(segment, "=")), Trim(Before(After(segment, "="), "=")))

\* Mutation of TagOf: only the segment is trimmed.
TagOfUntrimmed(segment) == Tag(Before(segment, "="), After(segment, "="))

TagOf(segment) == Tag(Trim(Before(segment, "=")), Trim(After(segment, "=")))

\* name=value, with a name and without a blank inside the value; a blank inside
\* the name passes.
IsTag(segment) ==
  /\ "=" \in LexemesOf(segment)
  /\ TagOf(segment).name # <<>>
  /\ LexemesOf(TagOf(segment).value) \intersect Blanks = {}

VersionTag == Tag(<<"v">>, <<"SWORN1">>)

Repeats(tags, name) == \E i \in DOMAIN tags : tags[i].name = name

-----------------------------------------------------------------------------
(* What the loop computes: the tags, and the first fault. *)

Written(txt) == NonEmpty(Segments(txt))

Tags(txt) == LET written == Written(txt) IN [i \in DOMAIN written |-> TagOf(written[i])]

\* The fault of the i-th written segment, with those before it pushed.
FaultAt(written, i) ==
  Check(IsTag(written[i]), "malformed_tag")
  ?? Check(\A j \in 1..(i - 1) : TagOf(written[j]).name # TagOf(written[i]).name,
           "duplicate_tag")

TagsFault(txt) ==
  LET written == Written(txt)
      faulty  == {i \in DOMAIN written : FaultAt(written, i) # Pass}
  IN  Check(PassesOctetGate(txt), "malformed_tag")
      ?? (IF faulty = {} THEN Pass
          ELSE FaultAt(written, CHOOSE i \in faulty : \A j \in faulty : i <= j))
      ?? Check(written # <<>> /\ TagOf(written[1]) = VersionTag, "not_sworn")

\* get: the value of a tag, of a list without repetitions.
HasTag(tags, name) == Repeats(tags, <<name>>)
TagValue(tags, name) == tags[CHOOSE i \in DOMAIN tags : tags[i].name = <<name>>].value
=============================================================================
