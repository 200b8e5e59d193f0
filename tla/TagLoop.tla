------------------------------ MODULE TagLoop ------------------------------
(***************************************************************************)
(* parse_tags of src/record.rs as the loop it is: the octet gate, then one *)
(* segment after the other, then the test of the first tag.                *)
(***************************************************************************)
EXTENDS TagList

CONSTANT Texts  \* the records to be parsed

ASSUME TextsAssumption == \A t \in Texts : t \in Seq(STRING)

VARIABLES
  text,      \* the record
  segments,  \* what the loop runs over, once the octet gate is passed
  next,      \* the segment at which it stands; 0 before the octet gate
  tags,      \* the tags pushed so far
  result     \* "running", Pass or the RecordError

loopVars == <<text, segments, next, tags, result>>

LoopInit ==
  /\ text \in Texts
  /\ segments = <<>> /\ next = 0 /\ tags = <<>> /\ result = "running"

Running == result = "running"
Segment == segments[next]
InLoop  == Running /\ next \in DOMAIN segments

Refuse(fault) == result' = fault /\ UNCHANGED <<text, segments, next, tags>>

OctetGate ==
  /\ Running /\ next = 0
  /\ \/ ~PassesOctetGate(text) /\ Refuse("malformed_tag")
     \/ /\ PassesOctetGate(text)
        /\ segments' = Segments(text) /\ next' = 1
        /\ UNCHANGED <<text, tags, result>>

SkipBlank ==
  /\ InLoop /\ Segment = <<>>
  /\ next' = next + 1
  /\ UNCHANGED <<text, segments, tags, result>>

RefuseSegment ==
  /\ InLoop /\ Segment # <<>>
  /\ \/ ~IsTag(Segment) /\ Refuse("malformed_tag")
     \/ IsTag(Segment) /\ Repeats(tags, TagOf(Segment).name) /\ Refuse("duplicate_tag")

\* Mutation of PushTag: only the last tag is compared with the new one.
PushTagComparedToLast ==
  /\ InLoop /\ Segment # <<>> /\ IsTag(Segment)
  /\ tags # <<>> => tags[Len(tags)].name # TagOf(Segment).name
  /\ tags' = Append(tags, TagOf(Segment))
  /\ next' = next + 1
  /\ UNCHANGED <<text, segments, result>>

PushTag ==
  /\ InLoop /\ Segment # <<>> /\ IsTag(Segment)
  /\ ~Repeats(tags, TagOf(Segment).name)
  /\ tags' = Append(tags, TagOf(Segment))
  /\ next' = next + 1
  /\ UNCHANGED <<text, segments, result>>

\* Mutation of Finish: v=SWORN1 is looked for anywhere.
FinishVersionAnywhere ==
  /\ Running /\ next = Len(segments) + 1
  /\ result' = Check(\E i \in DOMAIN tags : tags[i] = VersionTag, "not_sworn")
  /\ UNCHANGED <<text, segments, next, tags>>

Finish ==
  /\ Running /\ next = Len(segments) + 1
  /\ result' = Check(tags # <<>> /\ tags[1] = VersionTag, "not_sworn")
  /\ UNCHANGED <<text, segments, next, tags>>

LoopNext == OctetGate \/ SkipBlank \/ RefuseSegment \/ PushTag \/ Finish

LoopSpec == LoopInit /\ [][LoopNext]_loopVars

-----------------------------------------------------------------------------

\* An accepted record is what its author wrote, whatever the way it was split:
\* every segment is blank or one of the tags, every tag is a segment, no name is
\* said twice and what comes first, blanks aside, is v=SWORN1.  Stated on the
\* segments alone; the loop sees them one by one and keeps a list.
AcceptedAsWritten ==
  result = Pass =>
    /\ PassesOctetGate(text)
    /\ LexemesOf(tags) = {TagOf(segment) : segment \in LexemesOf(Segments(text)) \ {<<>>}}
    /\ \A i, j \in DOMAIN tags : tags[i].name = tags[j].name => i = j
    /\ \E i \in DOMAIN Segments(text) :
         /\ TagOf(Segments(text)[i]) = VersionTag
         /\ \A j \in 1..(i - 1) : Segments(text)[j] = <<>>

\* A refusal has a cause in the text, and it is the one reported: the later
\* stages of the loop never turn one error into another, and a record with both a
\* malformed segment and a repeated name is blamed for the earlier of the two.
LoopComputesTags ==
  ~Running => /\ result = TagsFault(text)
              /\ result = Pass => tags = Tags(text)

\* Nothing of a record is dropped: with the blanks left out, an accepted text is
\* its tags name=value in their order, between any number of semicolons.  A
\* reader who splits it by other rules finds no octet this one has not seen.
Inked(s) == Picked(s, InkedPlaces(s))
Rendered(tag) == tag.name \o <<"=">> \o tag.value
NothingDropped ==
  result = Pass =>
    NonEmpty(Split(Inked(text), ";")) = [i \in DOMAIN tags |-> Inked(Rendered(tags[i]))]
=============================================================================
