---------------------------- MODULE RecordProofs ----------------------------
(***************************************************************************)
(* What is proved of the records, for texts of any length over any         *)
(* lexemes: the loop of parse_tags computes the list of tags and the first *)
(* fault that TagList defines, an accepted record is what its author       *)
(* wrote with nothing of it dropped, an accepted policy is one a verifier  *)
(* can act on, and layout, sloppy lists, unknown tags and flags and the    *)
(* order of the tags change no reading.                                    *)
(***************************************************************************)
EXTENDS TagLoop, RecordEdits, RecordLemmas

-----------------------------------------------------------------------------
(* Pieces of a text. *)

IsList(s) == \E n \in Nat : DOMAIN s = 1..n

LEMMA SplitIsList ==
  ASSUME NEW S, NEW s \in Seq(S), NEW sep
  PROVE  IsList(Split(s, sep))
<1> DEFINE seps == {i \in DOMAIN s : s[i] = sep}
           cuts == {0, Len(s) + 1} \union seps
<1>1. IsFiniteSet(DOMAIN s)
  <2>1. DOMAIN s = 1..Len(s) /\ Len(s) \in Nat
    OBVIOUS
  <2>2. QED
    BY <2>1, FS_Interval
<1>2. IsFiniteSet(seps)
  <2>1. seps \in SUBSET DOMAIN s
    OBVIOUS
  <2>2. QED
    BY <1>1, <2>1, FS_Subset
<1>3. IsFiniteSet(seps \union {0}) /\ IsFiniteSet((seps \union {0}) \union {Len(s) + 1})
  BY <1>2, FS_AddElement
<1>4. (seps \union {0}) \union {Len(s) + 1} = cuts
  OBVIOUS
<1>5. IsFiniteSet(cuts)
  BY <1>3, <1>4
<1>6. Cardinality(cuts) \in Nat
  BY <1>5, FS_CardinalityType
<1>7. Cardinality(cuts) # 0
  BY <1>5, FS_EmptySet
<1>8. Cardinality(cuts) - 1 \in Nat
  BY <1>6, <1>7
<1>9. DOMAIN Split(s, sep) = 1..(Cardinality(cuts) - 1)
  BY DEF Split
<1>10. QED
  BY <1>8, <1>9 DEF IsList

LEMMA SegmentsIsList ==
  ASSUME NEW S, NEW s \in Seq(S)
  PROVE  IsList(Segments(s))
<1>1. IsList(Split(s, ";"))
  BY SplitIsList
<1>2. DOMAIN Segments(s) = DOMAIN Split(s, ";")
  BY DEF Segments
<1>3. QED
  BY <1>1, <1>2 DEF IsList

LEMMA FilledType ==
  ASSUME NEW pieces, IsList(pieces)
  PROVE  /\ Filled(pieces) \subseteq Int /\ IsFiniteSet(Filled(pieces))
         /\ Cardinality(Filled(pieces)) \in Nat
         /\ DOMAIN NonEmpty(pieces) = 1..Cardinality(Filled(pieces))
<1>1. PICK n \in Nat : DOMAIN pieces = 1..n
  BY DEF IsList
<1>2. IsFiniteSet(DOMAIN pieces)
  BY <1>1, FS_Interval
<1>3. Filled(pieces) \in SUBSET DOMAIN pieces
  BY DEF Filled
<1>4. IsFiniteSet(Filled(pieces))
  BY <1>2, <1>3, FS_Subset
<1>5. Cardinality(Filled(pieces)) \in Nat
  BY <1>4, FS_CardinalityType
<1>6. QED
  BY <1>1, <1>3, <1>4, <1>5 DEF NonEmpty, Picked

\* Where a piece that is not empty stands among those that are not.
LEMMA NonEmptyAt ==
  ASSUME NEW pieces, IsList(pieces), NEW i \in Filled(pieces)
  PROVE  LET n == Count(Filled(pieces), i) + 1
         IN  n \in DOMAIN NonEmpty(pieces) /\ NonEmpty(pieces)[n] = pieces[i]
<1> DEFINE filled == Filled(pieces)
           n == Count(filled, i) + 1
<1>1. /\ filled \subseteq Int /\ IsFiniteSet(filled) /\ Cardinality(filled) \in Nat
      /\ DOMAIN NonEmpty(pieces) = 1..Cardinality(filled)
  BY FilledType
<1>2. Count(filled, i) \in Nat /\ Count(filled, i) < Cardinality(filled)
  <2>1. i \in Int
    BY <1>1
  <2>2. QED
    BY <1>1, <2>1, CountType
<1>3. n \in 1..Cardinality(filled) /\ n - 1 = Count(filled, i)
  BY <1>1, <1>2
<1>4. Nth(filled, Count(filled, i)) = i
  BY <1>1, NthOfCount
<1>5. NonEmpty(pieces)[n] = pieces[Nth(filled, n - 1)]
  BY <1>3 DEF NonEmpty, Picked
<1>6. QED
  BY <1>1, <1>3, <1>4, <1>5

\* Each of them is one of the pieces, with so many before it.
LEMMA NonEmptyFrom ==
  ASSUME NEW pieces, IsList(pieces), NEW n \in DOMAIN NonEmpty(pieces)
  PROVE  \E i \in Filled(pieces) :
           Count(Filled(pieces), i) = n - 1 /\ NonEmpty(pieces)[n] = pieces[i]
<1> DEFINE filled == Filled(pieces)
<1>1. /\ filled \subseteq Int /\ IsFiniteSet(filled) /\ Cardinality(filled) \in Nat
      /\ DOMAIN NonEmpty(pieces) = 1..Cardinality(filled)
  BY FilledType
<1>2. n \in 1..Cardinality(filled) /\ n - 1 \in 0..(Cardinality(filled) - 1)
  BY <1>1
<1>3. Nth(filled, n - 1) \in filled /\ Count(filled, Nth(filled, n - 1)) = n - 1
  BY <1>1, <1>2, NthIsPlace
<1>4. NonEmpty(pieces)[n] = pieces[Nth(filled, n - 1)]
  BY <1>2 DEF NonEmpty, Picked
<1>5. QED
  BY <1>3, <1>4

-----------------------------------------------------------------------------
(* The loop, as a function of the text and of the segment it has reached. *)

\* How many tags it has pushed when it stands at segment k, and which.
Pushed(s, k)   == Count(Filled(Segments(s)), k)
TagsUpTo(s, k) == [n \in 1..Pushed(s, k) |-> TagOf(Written(s)[n])]

Faultless(s, k) == \A n \in 1..Pushed(s, k) : FaultAt(Written(s), n) = Pass

LEMMA WrittenPlaces ==
  ASSUME NEW S, NEW s \in Seq(S)
  PROVE  /\ IsList(Segments(s))
         /\ Filled(Segments(s)) \subseteq Int /\ IsFiniteSet(Filled(Segments(s)))
         /\ Cardinality(Filled(Segments(s))) \in Nat
         /\ DOMAIN Written(s) = 1..Cardinality(Filled(Segments(s)))
<1>1. IsList(Segments(s))
  BY SegmentsIsList
<1>2. QED
  BY <1>1, FilledType DEF Written

LEMMA PushedType ==
  ASSUME NEW S, NEW s \in Seq(S), NEW k \in Int
  PROVE  /\ Pushed(s, k) \in Nat
         /\ 1..Pushed(s, k) \subseteq DOMAIN Written(s)
<1>1. Pushed(s, k) \in Nat /\ Pushed(s, k) <= Cardinality(Filled(Segments(s)))
  BY WrittenPlaces, CountType DEF Pushed
<1>2. QED
  BY <1>1, WrittenPlaces

LEMMA PushedAtStart ==
  ASSUME NEW S, NEW s \in Seq(S)
  PROVE  Pushed(s, 1) = 0
<1>1. PICK n \in Nat : DOMAIN Segments(s) = 1..n
  BY WrittenPlaces DEF IsList
<1>2. {j \in Filled(Segments(s)) : j < 1} = {}
  BY <1>1 DEF Filled
<1>3. QED
  BY <1>2, FS_EmptySet DEF Pushed, Count

LEMMA PushedAtBlank ==
  ASSUME NEW S, NEW s \in Seq(S), NEW k \in DOMAIN Segments(s), Segments(s)[k] = <<>>
  PROVE  Pushed(s, k + 1) = Pushed(s, k)
<1>1. PICK n \in Nat : DOMAIN Segments(s) = 1..n
  BY WrittenPlaces DEF IsList
<1>2. k \notin Filled(Segments(s))
  BY DEF Filled
<1>3. \A j \in Filled(Segments(s)) : j < k + 1 <=> j < k
  BY <1>1, <1>2 DEF Filled
<1>4. {j \in Filled(Segments(s)) : j < k + 1} = {j \in Filled(Segments(s)) : j < k}
  BY <1>3
<1>5. QED
  BY <1>4 DEF Pushed, Count

LEMMA PushedAtTag ==
  ASSUME NEW S, NEW s \in Seq(S), NEW k \in DOMAIN Segments(s), Segments(s)[k] # <<>>
  PROVE  /\ Pushed(s, k + 1) = Pushed(s, k) + 1
         /\ Pushed(s, k) + 1 \in DOMAIN Written(s)
         /\ Written(s)[Pushed(s, k) + 1] = Segments(s)[k]
<1> DEFINE filled == Filled(Segments(s))
<1>1. PICK n \in Nat : DOMAIN Segments(s) = 1..n
  BY WrittenPlaces DEF IsList
<1>2. k \in filled
  BY DEF Filled
<1>3. \A j \in filled : j < k + 1 <=> j < k \/ j = k
  BY <1>1 DEF Filled
<1>4. {j \in filled : j < k + 1} = {j \in filled : j < k} \union {k}
  BY <1>2, <1>3
<1>5. IsFiniteSet({j \in filled : j < k})
  <2>1. filled \subseteq Int /\ IsFiniteSet(filled) /\ k \in Int
    BY <1>1, WrittenPlaces
  <2>2. QED
    BY ONLY <2>1, CountType
<1>6. k \notin {j \in filled : j < k}
  BY <1>1
<1>7. Cardinality({j \in filled : j < k + 1}) = Cardinality({j \in filled : j < k}) + 1
  BY <1>4, <1>5, <1>6, FS_AddElement
<1>8. Pushed(s, k + 1) = Pushed(s, k) + 1
  BY <1>7 DEF Pushed, Count
<1>9. /\ Pushed(s, k) + 1 \in DOMAIN Written(s)
      /\ Written(s)[Pushed(s, k) + 1] = Segments(s)[k]
  BY <1>2, WrittenPlaces, NonEmptyAt DEF Pushed, Written
<1>10. QED
  BY <1>8, <1>9

LEMMA PushedAtEnd ==
  ASSUME NEW S, NEW s \in Seq(S), NEW n \in Nat, DOMAIN Segments(s) = 1..n
  PROVE  DOMAIN Written(s) = 1..Pushed(s, n + 1)
<1>1. {j \in Filled(Segments(s)) : j < n + 1} = Filled(Segments(s))
  BY DEF Filled
<1>2. QED
  BY <1>1, WrittenPlaces DEF Pushed, Count

-----------------------------------------------------------------------------
(* What TagList says of a text, from what the loop has seen of it. *)

\* The first fault is the one the loop stops at.
LEMMA FirstFault ==
  ASSUME NEW S, NEW s \in Seq(S), NEW k \in Int, PassesOctetGate(s), Faultless(s, k),
         Pushed(s, k) + 1 \in DOMAIN Written(s),
         FaultAt(Written(s), Pushed(s, k) + 1) # Pass
  PROVE  TagsFault(s) = FaultAt(Written(s), Pushed(s, k) + 1)
<1> DEFINE n == Pushed(s, k) + 1
           faulty == {i \in DOMAIN Written(s) : FaultAt(Written(s), i) # Pass}
           first == CHOOSE i \in faulty : \A j \in faulty : i <= j
<1>1. n \in faulty
  OBVIOUS
<1>2. \A j \in faulty : j \in Int /\ n <= j
  <2>1. Pushed(s, k) \in Nat
    BY PushedType
  <2>2. \A j \in DOMAIN Written(s) : j \in Int /\ 1 <= j
    BY WrittenPlaces
  <2>3. \A j \in 1..Pushed(s, k) : FaultAt(Written(s), j) = Pass
    BY DEF Faultless
  <2>4. QED
    BY <2>1, <2>2, <2>3
<1>3. \A i \in faulty : (\A j \in faulty : i <= j) => i = n
  BY <1>1, <1>2
<1>4. first = n
  BY <1>1, <1>2, <1>3
<1>5. TagsFault(s) = Pass ?? FaultAt(Written(s), n) ?? Check(Written(s) # <<>> /\ TagOf(Written(s)[1]) = VersionTag, "not_sworn")
  BY <1>1, <1>4 DEF TagsFault, Check
<1>6. QED
  BY <1>5 DEF ??

\* Without a fault in a segment, the first tag decides.
LEMMA LastFault ==
  ASSUME NEW S, NEW s \in Seq(S), NEW n \in Nat, DOMAIN Segments(s) = 1..n,
         PassesOctetGate(s), Faultless(s, n + 1)
  PROVE  /\ Tags(s) = TagsUpTo(s, n + 1)
         /\ TagsFault(s) =
              Check(TagsUpTo(s, n + 1) # <<>> /\ TagsUpTo(s, n + 1)[1] = VersionTag, "not_sworn")
<1>1. DOMAIN Written(s) = 1..Pushed(s, n + 1) /\ Pushed(s, n + 1) \in Nat
  BY PushedAtEnd, PushedType
<1>2. Tags(s) = TagsUpTo(s, n + 1)
  BY <1>1 DEF Tags, TagsUpTo
<1>3. {i \in DOMAIN Written(s) : FaultAt(Written(s), i) # Pass} = {}
  BY <1>1 DEF Faultless
<1>4. TagsFault(s) = Check(Written(s) # <<>> /\ TagOf(Written(s)[1]) = VersionTag, "not_sworn")
  BY <1>3 DEF TagsFault, Check, ??
<1>5. CASE Pushed(s, n + 1) = 0
  <2>1. DOMAIN Written(s) = {} /\ DOMAIN TagsUpTo(s, n + 1) = {}
    BY <1>1, <1>5 DEF TagsUpTo
  <2>2. Written(s) = <<>> /\ TagsUpTo(s, n + 1) = <<>>
    BY <2>1 DEF Written, NonEmpty, Picked, TagsUpTo
  <2>3. QED
    BY <1>2, <1>4, <2>2
<1>6. CASE Pushed(s, n + 1) # 0
  <2>1. 1 \in DOMAIN Written(s) /\ 1 \in DOMAIN TagsUpTo(s, n + 1)
    BY <1>1, <1>6 DEF TagsUpTo
  <2>2. Written(s) # <<>> /\ TagsUpTo(s, n + 1) # <<>>
    BY <2>1
  <2>3. TagsUpTo(s, n + 1)[1] = TagOf(Written(s)[1])
    BY <1>1, <2>1 DEF TagsUpTo
  <2>4. QED
    BY <1>2, <1>4, <2>2, <2>3
<1>7. QED
  BY <1>5, <1>6

\* The test of the loop against the tags it has pushed is the one of TagList.
LEMMA FaultOfSegment ==
  ASSUME NEW S, NEW s \in Seq(S), NEW k \in DOMAIN Segments(s), Segments(s)[k] # <<>>
  PROVE  FaultAt(Written(s), Pushed(s, k) + 1) =
           Check(IsTag(Segments(s)[k]), "malformed_tag")
           ?? Check(~Repeats(TagsUpTo(s, k), TagOf(Segments(s)[k]).name), "duplicate_tag")
<1>1. Written(s)[Pushed(s, k) + 1] = Segments(s)[k]
  BY PushedAtTag
<1>2. k \in Int
  BY WrittenPlaces DEF IsList
<1>3. Pushed(s, k) \in Nat
  BY <1>2, PushedType
<1>4. 1..(Pushed(s, k) + 1 - 1) = 1..Pushed(s, k)
  BY <1>3
<1>5. (\A j \in 1..Pushed(s, k) : TagOf(Written(s)[j]).name # TagOf(Segments(s)[k]).name)
        <=> ~Repeats(TagsUpTo(s, k), TagOf(Segments(s)[k]).name)
  BY DEF Repeats, TagsUpTo
<1> DEFINE w == Written(s)
           n == Pushed(s, k) + 1
           fresh == \A j \in 1..(n - 1) : TagOf(w[j]).name # TagOf(w[n]).name
           new == ~Repeats(TagsUpTo(s, k), TagOf(Segments(s)[k]).name)
<1>6. FaultAt(w, n) = Check(IsTag(w[n]), "malformed_tag") ?? Check(fresh, "duplicate_tag")
  BY DEF FaultAt
<1>7. fresh <=> new
  <2> DEFINE name == TagOf(Segments(s)[k]).name
  <2>1. TagOf(w[n]).name = name
    BY <1>1
  <2>2. fresh <=> \A j \in 1..Pushed(s, k) : TagOf(w[j]).name # TagOf(w[n]).name
    <3> DEFINE other(j) == TagOf(w[j]).name # TagOf(w[n]).name
    <3>1. n - 1 = Pushed(s, k)
      BY <1>3
    <3> HIDE DEF other, n
    <3>2. (\A j \in 1..(n - 1) : other(j)) <=> (\A j \in 1..Pushed(s, k) : other(j))
      BY <3>1
    <3>3. QED
      BY <3>2 DEF other
  <2>3. fresh <=> \A j \in 1..Pushed(s, k) : TagOf(w[j]).name # name
    BY <2>1, <2>2
  <2>4. QED
    BY <1>5, <2>3
<1>8. Check(fresh, "duplicate_tag") = Check(new, "duplicate_tag")
  <2> HIDE DEF fresh, new
  <2>1. QED
    BY <1>7 DEF Check
<1>9. QED
  BY <1>1, <1>6, <1>8

-----------------------------------------------------------------------------
(* The invariant of the loop. *)

LoopInv ==
  /\ text \in Seq(STRING)
  /\ next \in Nat
  /\ next = 0 =>
       /\ segments = <<>> /\ tags = <<>>
       /\ ~Running => result = TagsFault(text) /\ result # Pass
  /\ next # 0 =>
       /\ PassesOctetGate(text)
       /\ segments = Segments(text)
       /\ next - 1 = 0 \/ next - 1 \in DOMAIN segments
       /\ tags = TagsUpTo(text, next) /\ Faultless(text, next)
       /\ ~Running => /\ result = TagsFault(text)
                      /\ result = Pass => tags = Tags(text)

LEMMA LoopInvInit == LoopInit => LoopInv
BY TextsAssumption DEF LoopInit, LoopInv, Running

LEMMA OctetGateKeepsInv ==
  ASSUME LoopInv, OctetGate
  PROVE  LoopInv'
<1>1. text' = text /\ text \in Seq(STRING) /\ next = 0 /\ tags = <<>> /\ segments = <<>>
  BY DEF OctetGate, Refuse, LoopInv
<1>2. CASE ~PassesOctetGate(text) /\ Refuse("malformed_tag")
  <2>1. TagsFault(text) = "malformed_tag"
    BY <1>2 DEF TagsFault, Check, Pass, ??
  <2>2. QED
    BY <1>1, <1>2, <2>1 DEF Refuse, LoopInv, Running, Pass
<1>3. CASE /\ PassesOctetGate(text)
           /\ segments' = Segments(text) /\ next' = 1
           /\ UNCHANGED <<text, tags, result>>
  <2>1. Pushed(text, 1) = 0
    BY <1>1, PushedAtStart
  <2>2. TagsUpTo(text, 1) = <<>> /\ Faultless(text, 1)
    BY <2>1 DEF TagsUpTo, Faultless
  <2>3. result' = "running"
    BY <1>3 DEF OctetGate, Running
  <2>4. QED
    BY <1>1, <1>3, <2>2, <2>3 DEF LoopInv, Running
<1>4. QED
  BY <1>2, <1>3 DEF OctetGate

LEMMA SkipBlankKeepsInv ==
  ASSUME LoopInv, SkipBlank
  PROVE  LoopInv'
<1>1. /\ text' = text /\ segments' = segments /\ tags' = tags /\ next' = next + 1
      /\ result' = "running" /\ next \in DOMAIN segments /\ segments[next] = <<>>
  BY DEF SkipBlank, InLoop, Running, Segment
<1>2. next # 0
  BY <1>1 DEF LoopInv
<1>3. /\ text \in Seq(STRING) /\ segments = Segments(text) /\ next \in Nat
      /\ tags = TagsUpTo(text, next) /\ Faultless(text, next) /\ PassesOctetGate(text)
  BY <1>2 DEF LoopInv
<1>4. Pushed(text, next + 1) = Pushed(text, next)
  BY <1>1, <1>3, PushedAtBlank
<1>5. tags = TagsUpTo(text, next + 1) /\ Faultless(text, next + 1)
  BY <1>3, <1>4 DEF TagsUpTo, Faultless
<1>6. next + 1 \in Nat /\ next + 1 # 0 /\ (next + 1) - 1 = next
  BY <1>3
<1>7. QED
  BY <1>1, <1>3, <1>5, <1>6 DEF LoopInv, Running

LEMMA RefuseSegmentKeepsInv ==
  ASSUME LoopInv, RefuseSegment
  PROVE  LoopInv'
<1> DEFINE n == Pushed(text, next) + 1
<1>1. /\ UNCHANGED <<text, segments, next, tags>>
      /\ next \in DOMAIN segments /\ segments[next] # <<>>
  BY DEF RefuseSegment, Refuse, InLoop, Segment
<1>2. next # 0
  BY <1>1 DEF LoopInv
<1>3. /\ text \in Seq(STRING) /\ segments = Segments(text) /\ next \in Nat
      /\ tags = TagsUpTo(text, next) /\ Faultless(text, next) /\ PassesOctetGate(text)
  BY <1>2 DEF LoopInv
<1>4. FaultAt(Written(text), n) =
        Check(IsTag(Segment), "malformed_tag")
        ?? Check(~Repeats(tags, TagOf(Segment).name), "duplicate_tag")
  BY <1>1, <1>3, FaultOfSegment DEF Segment
<1>5. result' = FaultAt(Written(text), n) /\ result' # Pass
  BY <1>4 DEF RefuseSegment, Refuse, Check, Pass, ??
<1>6. n \in DOMAIN Written(text)
  BY <1>1, <1>3, PushedAtTag
<1>7. TagsFault(text) = FaultAt(Written(text), n)
  BY <1>3, <1>5, <1>6, FirstFault
<1>8. QED
  BY <1>1, <1>2, <1>5, <1>7 DEF LoopInv, Running

LEMMA PushTagKeepsInv ==
  ASSUME LoopInv, PushTag
  PROVE  LoopInv'
<1> DEFINE n == Pushed(text, next) + 1
           T == {TagOf(Written(text)[i]) : i \in DOMAIN Written(text)}
<1>1. /\ text' = text /\ segments' = segments /\ next' = next + 1 /\ result' = "running"
      /\ tags' = Append(tags, TagOf(Segment))
      /\ IsTag(Segment) /\ ~Repeats(tags, TagOf(Segment).name)
      /\ next \in DOMAIN segments /\ segments[next] # <<>>
  BY DEF PushTag, InLoop, Running, Segment
<1>2. next # 0
  BY <1>1 DEF LoopInv
<1>3. /\ text \in Seq(STRING) /\ segments = Segments(text) /\ next \in Nat
      /\ tags = TagsUpTo(text, next) /\ Faultless(text, next) /\ PassesOctetGate(text)
  BY <1>2 DEF LoopInv
<1>4. /\ Pushed(text, next + 1) = n
      /\ n \in DOMAIN Written(text) /\ Written(text)[n] = Segment
  BY <1>1, <1>3, PushedAtTag DEF Segment
<1>5. Pushed(text, next) \in Nat /\ 1..Pushed(text, next) \subseteq DOMAIN Written(text)
  BY <1>3, PushedType
<1>6. FaultAt(Written(text), n) = Pass
  <2>1. FaultAt(Written(text), n) =
          Check(IsTag(Segment), "malformed_tag")
          ?? Check(~Repeats(tags, TagOf(Segment).name), "duplicate_tag")
    BY <1>1, <1>3, FaultOfSegment DEF Segment
  <2>2. QED
    BY <1>1, <2>1 DEF Check, ??
<1>7. Faultless(text, next + 1)
  BY <1>3, <1>4, <1>5, <1>6 DEF Faultless
<1>8. Append(tags, TagOf(Segment)) = TagsUpTo(text, next + 1)
  <2>1. tags \in Seq(T) /\ Len(tags) = Pushed(text, next)
    BY <1>3, <1>5 DEF TagsUpTo
  <2>2. /\ DOMAIN Append(tags, TagOf(Segment)) = 1..n
        /\ \A i \in 1..n : Append(tags, TagOf(Segment))[i] = TagOf(Written(text)[i])
    BY <1>3, <1>4, <1>5, <2>1 DEF TagsUpTo
  <2>3. Append(tags, TagOf(Segment)) \in Seq(T)
    <3>1. TagOf(Segment) \in T
      BY <1>4
    <3>2. QED
      BY <2>1, <3>1
  <2>4. TagsUpTo(text, next + 1) = [i \in 1..n |-> TagOf(Written(text)[i])]
    BY <1>4 DEF TagsUpTo
  <2>5. TagsUpTo(text, next + 1) \in Seq(T) /\ Len(TagsUpTo(text, next + 1)) = n
    <3>1. n \in Nat /\ \A i \in 1..n : TagOf(Written(text)[i]) \in T
      BY <1>4, <1>5
    <3> HIDE DEF n, T
    <3>2. QED
      BY <2>4, <3>1
  <2>6. Len(Append(tags, TagOf(Segment))) = n
    BY <1>5, <2>1
  <2>7. QED
    BY <2>2, <2>3, <2>4, <2>5, <2>6, SeqEqual
<1>9. next + 1 \in Nat /\ next + 1 # 0 /\ (next + 1) - 1 = next
  BY <1>3
<1>10. QED
  BY <1>1, <1>3, <1>7, <1>8, <1>9 DEF LoopInv, Running

LEMMA FinishKeepsInv ==
  ASSUME LoopInv, Finish
  PROVE  LoopInv'
<1>1. /\ UNCHANGED <<text, segments, next, tags>>
      /\ next = Len(segments) + 1
      /\ result' = Check(tags # <<>> /\ tags[1] = VersionTag, "not_sworn")
  BY DEF Finish
<1>2. next # 0
  <2>1. next = 0 => segments = <<>>
    BY DEF LoopInv
  <2>2. Len(<<>>) = 0
    OBVIOUS
  <2>3. QED
    BY <1>1, <2>1, <2>2
<1>3. /\ text \in Seq(STRING) /\ segments = Segments(text)
      /\ tags = TagsUpTo(text, next) /\ Faultless(text, next) /\ PassesOctetGate(text)
  BY <1>2 DEF LoopInv
<1>4. PICK n \in Nat : DOMAIN Segments(text) = 1..n
  BY <1>3, WrittenPlaces DEF IsList
<1>5. Len(segments) = n
  <2> DEFINE piece(i) == Trim(Split(text, ";")[i])
             P == {piece(i) : i \in 1..n}
  <2>1. segments = [i \in 1..n |-> piece(i)]
    BY <1>3, <1>4 DEF Segments
  <2>2. \A i \in 1..n : piece(i) \in P
    OBVIOUS
  <2>3. [i \in 1..n |-> piece(i)] \in Seq(P)
    <3> HIDE DEF piece, P
    <3>1. QED
      BY <2>2
  <2>4. segments \in Seq(P) /\ DOMAIN segments = 1..n
    BY <2>1, <2>3
  <2>5. QED
    <3> HIDE DEF P
    <3>1. QED
      BY <2>4
<1>6. Tags(text) = tags /\ TagsFault(text) = result'
  BY <1>1, <1>3, <1>4, <1>5, LastFault
<1>7. QED
  BY <1>1, <1>2, <1>6 DEF LoopInv, Running

LEMMA LoopInvStep ==
  ASSUME LoopInv, [LoopNext]_loopVars
  PROVE  LoopInv'
<1>1. CASE UNCHANGED loopVars
  BY <1>1 DEF LoopInv, loopVars, Running
<1>2. QED
  BY <1>1, OctetGateKeepsInv, SkipBlankKeepsInv, RefuseSegmentKeepsInv, PushTagKeepsInv,
     FinishKeepsInv DEF LoopNext

LEMMA LoopInvHolds == LoopSpec => []LoopInv
BY LoopInvInit, LoopInvStep, PTL DEF LoopSpec

\* The loop and the list: whatever the text, parse_tags ends with the fault that
\* comes first in the text, or with all its tags.
THEOREM LoopComputesTheTags == LoopSpec => []LoopComputesTags
<1>1. LoopInv => LoopComputesTags
  BY DEF LoopInv, LoopComputesTags
<1>2. QED
  BY <1>1, LoopInvHolds, PTL

-----------------------------------------------------------------------------
(* What a record without a fault is made of. *)

\* The tags are the segments that are not blank, as a set.
LEMMA TagsAreSegments ==
  ASSUME NEW S, NEW s \in Seq(S)
  PROVE  LexemesOf(Tags(s)) = {TagOf(segment) : segment \in LexemesOf(Segments(s)) \ {<<>>}}
<1>1. ASSUME NEW n \in DOMAIN Written(s)
      PROVE  \E segment \in LexemesOf(Segments(s)) \ {<<>>} : Tags(s)[n] = TagOf(segment)
  <2>1. PICK i \in Filled(Segments(s)) : Written(s)[n] = Segments(s)[i]
    BY WrittenPlaces, NonEmptyFrom DEF Written
  <2>2. Segments(s)[i] \in LexemesOf(Segments(s)) \ {<<>>}
    BY DEF Filled, LexemesOf
  <2>3. QED
    BY <2>1, <2>2 DEF Tags
<1>2. ASSUME NEW i \in DOMAIN Segments(s), Segments(s)[i] # <<>>
      PROVE  \E n \in DOMAIN Written(s) : Tags(s)[n] = TagOf(Segments(s)[i])
  <2>1. i \in Filled(Segments(s))
    BY <1>2 DEF Filled
  <2>2. PICK n \in DOMAIN Written(s) : Written(s)[n] = Segments(s)[i]
    BY <2>1, WrittenPlaces, NonEmptyAt DEF Written
  <2>3. QED
    BY <2>2 DEF Tags
<1>3. DOMAIN Tags(s) = DOMAIN Written(s)
  BY DEF Tags
<1>4. QED
  BY <1>1, <1>2, <1>3 DEF LexemesOf

\* What stands first is the first segment that is not blank.
LEMMA FirstIsFirstSegment ==
  ASSUME NEW S, NEW s \in Seq(S), Written(s) # <<>>
  PROVE  \E i \in DOMAIN Segments(s) :
           Written(s)[1] = Segments(s)[i] /\ \A j \in 1..(i - 1) : Segments(s)[j] = <<>>
<1> DEFINE filled == Filled(Segments(s))
<1>1. 1 \in DOMAIN Written(s)
  <2>1. DOMAIN Written(s) = 1..Cardinality(filled) /\ Cardinality(filled) \in Nat
    BY WrittenPlaces
  <2>2. Cardinality(filled) = 0 => Written(s) = <<>>
    BY <2>1 DEF Written, NonEmpty, Picked
  <2>3. QED
    BY <2>1, <2>2
<1>2. PICK i \in filled : Count(filled, i) = 1 - 1 /\ Written(s)[1] = Segments(s)[i]
  BY <1>1, WrittenPlaces, NonEmptyFrom DEF Written
<1>3. PICK n \in Nat : DOMAIN Segments(s) = 1..n
  BY WrittenPlaces DEF IsList
<1>4. i \in 1..n
  BY <1>3 DEF Filled
<1>5. {j \in filled : j < i} = {}
  <2>1. filled \subseteq Int /\ IsFiniteSet(filled) /\ i \in Int
    BY <1>4, WrittenPlaces
  <2>2. IsFiniteSet({j \in filled : j < i})
    BY ONLY <2>1, CountType
  <2>3. Cardinality({j \in filled : j < i}) = 0
    BY <1>2 DEF Count
  <2>4. QED
    BY ONLY <2>2, <2>3, FS_EmptySet
<1>6. \A j \in 1..(i - 1) : Segments(s)[j] = <<>>
  <2> TAKE j \in 1..(i - 1)
  <2>1. j \in DOMAIN Segments(s) /\ j < i
    BY <1>3, <1>4
  <2>2. QED
    BY <1>5, <2>1 DEF Filled
<1>7. QED
  BY <1>2, <1>3, <1>4, <1>6

\* An accepted record is what its author wrote, whatever its length: the loop
\* drops no segment, takes no name twice, and starts at v=SWORN1.
THEOREM AcceptedIsAsWritten == LoopSpec => []AcceptedAsWritten
<1>1. LoopInv => AcceptedAsWritten
  <2> SUFFICES ASSUME LoopInv, result = Pass PROVE AcceptedAsWritten!2
    BY DEF AcceptedAsWritten
  <2>1. next # 0 /\ TagsFault(text) = Pass /\ tags = Tags(text) /\ text \in Seq(STRING)
    BY DEF LoopInv, Running, Pass
  <2>2. /\ PassesOctetGate(text)
        /\ Written(text) # <<>> /\ TagOf(Written(text)[1]) = VersionTag
        /\ \A i, j \in DOMAIN tags : tags[i].name = tags[j].name => i = j
    BY <2>1, TagsOfSoundRecord
  <2>3. LexemesOf(tags) = {TagOf(segment) : segment \in LexemesOf(Segments(text)) \ {<<>>}}
    BY <2>1, TagsAreSegments
  <2>4. \E i \in DOMAIN Segments(text) :
          /\ TagOf(Segments(text)[i]) = VersionTag
          /\ \A j \in 1..(i - 1) : Segments(text)[j] = <<>>
    BY <2>1, <2>2, FirstIsFirstSegment
  <2>5. QED
    BY <2>2, <2>3, <2>4
<1>2. QED
  BY <1>1, LoopInvHolds, PTL

-----------------------------------------------------------------------------
(* The records of RecordEdits. *)

EditInv == txt \in Seq(STRING) /\ reading = ReadingOf(txt)

IsSemicolon(sep) == sep = ";"

\* The pieces that three cuts of the record leave, and the record with two of them
\* exchanged.
LEMMA FourPieces ==
  ASSUME NEW S, txt \in Seq(S), NEW sep, IsSemicolon(sep),
         NEW i \in Breaks, NEW j \in Breaks, NEW k \in Breaks, i < j, j < k,
         NEW a, a = SubSeq(txt, 1, i - 1), NEW b, b = SubSeq(txt, i, j - 1),
         NEW c, c = SubSeq(txt, j, k - 1), NEW d, d = SubSeq(txt, k, Len(txt))
  PROVE  /\ a \in Seq(S) /\ b \in Seq(S) /\ c \in Seq(S) /\ d \in Seq(S)
         /\ FourLists(txt, a, b, c, d) /\ FourLists(Exchanged(i, j, k), a, c, b, d)
         /\ Opens(b, sep) /\ Opens(c, sep) /\ Opens(d, sep)
<1>1. PICK s, l : s = txt /\ l = Len(s) /\ s \in Seq(S) /\ l \in Nat
  OBVIOUS
<1>2. \A p \in Breaks : p = l + 1 \/ (p \in DOMAIN s /\ s[p] = sep)
  BY <1>1 DEF Breaks, IsSemicolon
<1>3. DOMAIN s = 1..l
  BY ONLY <1>1
<1>4. /\ i = l + 1 \/ (i \in 1..l /\ s[i] = sep)
      /\ j = l + 1 \/ (j \in 1..l /\ s[j] = sep)
      /\ k = l + 1 \/ (k \in 1..l /\ s[k] = sep)
  BY ONLY i \in Breaks, j \in Breaks, k \in Breaks, <1>2, <1>3
<1>5. /\ i \in 1..l /\ j \in 1..l /\ k \in 1..(l + 1)
      /\ s[i] = sep /\ s[j] = sep /\ (k # l + 1 => s[k] = sep)
  BY ONLY i < j, j < k, <1>1, <1>4
<1>6. CutsInFour(S, s, i, j, k, a, b, c, d)
  <2>1. /\ a = SubSeq(s, 1, i - 1) /\ b = SubSeq(s, i, j - 1)
        /\ c = SubSeq(s, j, k - 1) /\ d = SubSeq(s, k, l)
    BY ONLY a = SubSeq(txt, 1, i - 1), b = SubSeq(txt, i, j - 1), c = SubSeq(txt, j, k - 1),
            d = SubSeq(txt, k, Len(txt)), <1>1
  <2>2. /\ s \in Seq(S) /\ l \in Nat /\ l = Len(s)
        /\ i \in 1..l /\ j \in 1..l /\ k \in 1..(l + 1)
    BY <1>1, <1>5
  <2>3. QED
    BY ONLY i < j, j < k, <2>1, <2>2, CutInFour
<1>7. FourLists(Exchanged(i, j, k), a, c, b, d)
  BY ONLY a = SubSeq(txt, 1, i - 1), b = SubSeq(txt, i, j - 1), c = SubSeq(txt, j, k - 1),
          d = SubSeq(txt, k, Len(txt)) DEF FourLists, Exchanged
<1>8. Opens(b, sep) /\ Opens(c, sep) /\ Opens(d, sep)
  BY ONLY <1>1, <1>5, <1>6 DEF Opens, CutsInFour
<1>9. QED
  BY ONLY <1>1, <1>6, <1>7, <1>8 DEF CutsInFour

LEMMA EditInvHolds == Spec => []EditInv
<1>1. Init => EditInv
  BY RecordEditsAssumption DEF Init, EditInv
<1>2. EditInv /\ [Next]_vars => EditInv'
  <2> SUFFICES ASSUME EditInv, [Next]_vars PROVE EditInv'
    OBVIOUS
  <2>1. ASSUME NEW i \in 1..(Len(txt) + 1), NEW piece \in Pieces, Insert(i, piece)
        PROVE  EditInv'
    <3>1. piece \in Seq(STRING)
      BY RecordEditsAssumption
    <3>2. SubSeq(txt, 1, i - 1) \in Seq(STRING) /\ SubSeq(txt, i, Len(txt)) \in Seq(STRING)
      BY DEF EditInv
    <3>3. Inserted(i, piece) \in Seq(STRING)
      BY <3>1, <3>2 DEF Inserted
    <3>4. QED
      BY <2>1, <3>3 DEF Insert, EditInv
  <2>2. ASSUME NEW i \in Breaks, NEW j \in Breaks, NEW k \in Breaks, Exchange(i, j, k)
        PROVE  EditInv'
    <3>1. PICK A, sep : A = STRING /\ IsSemicolon(sep)
      BY DEF IsSemicolon
    <3>2. txt \in Seq(A) /\ i < j /\ j < k
      BY <2>2, <3>1 DEF EditInv, Exchange
    <3>3. PICK a, b, c, d : /\ a = SubSeq(txt, 1, i - 1) /\ b = SubSeq(txt, i, j - 1)
                            /\ c = SubSeq(txt, j, k - 1) /\ d = SubSeq(txt, k, Len(txt))
      OBVIOUS
    <3>4. a \in Seq(A) /\ b \in Seq(A) /\ c \in Seq(A) /\ d \in Seq(A)
      BY <3>1, <3>2, <3>3, FourPieces
    <3>5. Exchanged(i, j, k) = a \o c \o b \o d
      BY ONLY <3>3 DEF Exchanged
    <3>6. Exchanged(i, j, k) \in Seq(A)
      BY ONLY <3>4, <3>5
    <3>7. QED
      BY <2>2, <3>1, <3>6 DEF Exchange, EditInv
  <2>3. CASE UNCHANGED vars
    BY <2>3 DEF EditInv, vars
  <2>4. QED
    BY <2>1, <2>2, <2>3 DEF Next
<1>3. QED
  BY <1>1, <1>2, PTL DEF Spec

\* Every accepted policy, of any number of entries over any addresses, is one a
\* verifier can act on.
THEOREM AcceptedPolicyIsSound == Spec => []PolicyIsSound
<1>1. ASSUME NEW s, PolicyFault(s) = Pass
      PROVE  /\ DOMAIN PrefixesOf(Tags(s)) \subseteq 1..MaxPolicyPrefixes
             /\ UnitOf(Tags(s)) \in 1..MaxPrefixLen
             /\ \A p \in LexemesOf(PrefixesOf(Tags(s))) :
                  IsAttestable(p) /\ UnitOf(Tags(s)) >= p.len
  <2> DEFINE kept == KeptEntries(Tags(s))
             read == \A entry \in LexemesOf(kept) :
                       IsPrefixText(entry) /\ IsAttestable(PrefixFrom(entry))
             held == \A p \in LexemesOf(PrefixesOf(Tags(s))) : UnitOf(Tags(s)) >= p.len
             inRange == UnitOf(Tags(s)) \in 1..MaxPrefixLen
  <2>1. read /\ inRange /\ held
    <3>1. PolicyFault(s) =
            TagsFault(s) ?? Check(read, "bad_p")
            ?? Check(HasTag(Tags(s), "u") => IsDecimal(TagValue(Tags(s), "u")), "bad_u")
            ?? Check(inRange, "bad_u")
            ?? Check(HasTag(Tags(s), "rua") => IsRua(TagValue(Tags(s), "rua")), "bad_rua")
            ?? Check(held, "bad_u")
      BY DEF PolicyFault
    <3> HIDE DEF read, held, inRange
    <3>2. QED
      BY <1>1, <3>1 DEF Check, Pass, ??
  <2>2. DOMAIN PrefixesOf(Tags(s)) = DOMAIN kept
    BY DEF PrefixesOf
  <2>3. DOMAIN kept \subseteq 1..MaxPolicyPrefixes
    BY DEF KeptEntries
  <2>4. ASSUME NEW i \in DOMAIN kept PROVE IsAttestable(PrefixesOf(Tags(s))[i])
    <3>1. kept[i] \in LexemesOf(kept)
      BY DEF LexemesOf
    <3>2. PrefixesOf(Tags(s))[i] = PrefixFrom(kept[i])
      BY DEF PrefixesOf
    <3>3. QED
      BY <2>1, <3>1, <3>2
  <2>5. \A p \in LexemesOf(PrefixesOf(Tags(s))) : IsAttestable(p)
    BY <2>2, <2>4 DEF LexemesOf
  <2>6. QED
    BY <2>1, <2>2, <2>3, <2>5
<1>2. EditInv => PolicyIsSound
  <2> SUFFICES ASSUME EditInv, reading.policy.fault = Pass PROVE PolicyIsSound!2
    BY DEF PolicyIsSound
  <2>1. PolicyFault(txt) = Pass /\ reading.policy.record = PolicyOf(txt)
    BY DEF EditInv, ReadingOf, PolicyReading
  <2>2. /\ PolicyOf(txt).prefixes = PrefixesOf(Tags(txt))
        /\ PolicyOf(txt).unit = UnitOf(Tags(txt))
    BY DEF PolicyOf
  <2>3. QED
    BY <1>1, <2>1, <2>2
<1>3. QED
  BY <1>2, EditInvHolds, PTL

\* A key of another algorithm is told apart from a bad record, whatever else the
\* record holds.
THEOREM FutureKeysAreTold == Spec => []FutureAlgorithmIsTold
<1>1. ASSUME NEW s \in Seq(STRING), TagsFault(s) = Pass
      PROVE  KeyFault(s) = "unknown_algorithm" <=>
               \E tag \in LexemesOf(Tags(s)) : tag.name = <<"k">> /\ tag.value # <<"ed25519">>
  <2> DEFINE list == Tags(s)
             at   == CHOOSE i \in DOMAIN list : list[i].name = <<"k">>
  <2>1. KeyFault(s) = "unknown_algorithm" <=>
          HasTag(list, "k") /\ TagValue(list, "k") # <<"ed25519">>
    BY <1>1 DEF KeyFault, Check, Pass, ??
  <2>2. \A i, j \in DOMAIN list : list[i].name = list[j].name => i = j
    BY <1>1, TagsOfSoundRecord
  <2>3. HasTag(list, "k") <=> \E i \in DOMAIN list : list[i].name = <<"k">>
    BY DEF HasTag, Repeats
  <2>4. TagValue(list, "k") = list[at].value
    BY DEF TagValue
  <2>5. \A i \in DOMAIN list : list[i].name = <<"k">> => i = at
    BY <2>2
  <2>6. QED
    BY <2>1, <2>3, <2>4, <2>5 DEF LexemesOf
<1>2. ASSUME NEW s \in Seq(STRING), TagsFault(s) # Pass
      PROVE  KeyFault(s) # "unknown_algorithm"
  <2>1. KeyFault(s) = TagsFault(s)
    BY <1>2 DEF KeyFault, ??
  <2>2. QED
    BY <2>1, TagsFaultType DEF Pass
<1>3. EditInv => FutureAlgorithmIsTold
  <2> SUFFICES ASSUME EditInv PROVE FutureAlgorithmIsTold
    OBVIOUS
  <2>1. /\ txt \in Seq(STRING) /\ reading.key.fault = KeyFault(txt)
        /\ reading.tags = IF TagsFault(txt) = Pass THEN LexemesOf(Tags(txt)) ELSE {}
    BY DEF EditInv, ReadingOf, KeyReading
  <2>2. QED
    BY <1>1, <1>2, <2>1 DEF FutureAlgorithmIsTold
<1>4. QED
  BY <1>3, EditInvHolds, PTL

-----------------------------------------------------------------------------
(* Layout. *)

\* Next to a separator, an edit falls at an end of its segment, or next to the
\* first "=" of it.
LEMMA SeparatorPieces ==
  ASSUME NEW S, NEW s, s = txt, NEW l, l = Len(s), l \in Nat, NEW i, i \in 1..(l + 1),
         AtSeparator(i), NEW sep, NEW eq, AreSeparators(sep, eq),
         NEW e, NEW f, SegmentAt(S, s, sep, i, e, f)
  PROVE  AtAnEdge(S, eq, e, f)
<1>1. e \in Seq(S) /\ \A k \in 1..Len(e) : e[k] # sep
  BY DEF SegmentAt
<1>2. f \in Seq(S) /\ \A k \in 1..Len(f) : f[k] # sep
  BY DEF SegmentAt
<1>3. PICK a, b : a = Len(e) /\ b = Len(f)
  OBVIOUS
<1>4. a \in Nat /\ b \in Nat
  BY <1>1, <1>2, <1>3
<1>5. PICK n \in 0..(i - 1) :
        /\ i - 1 = n + a /\ \A k \in 1..a : e[k] = s[n + k]
        /\ n = 0 \/ s[n] = sep
  <2>1. \E n \in 0..(i - 1) :
          /\ i - 1 = n + Len(e) /\ \A k \in 1..Len(e) : e[k] = s[n + k]
          /\ n = 0 \/ s[n] = sep
    BY DEF SegmentAt
  <2>2. QED
    BY <1>3, <2>1
<1>6. \A k \in 1..a : e[k] = s[n + k]
  BY <1>5
<1>7. n = 0 \/ s[n] = sep
  BY <1>5
<1>8. /\ b <= l - (i - 1) /\ \A k \in 1..b : f[k] = s[(i - 1) + k]
      /\ b = l - (i - 1) \/ s[(i - 1) + b + 1] = sep
  BY <1>3 DEF SegmentAt
<1>9. 1 \in 1..b => f[1] = s[i]
  BY <1>8
<1>10. e = <<>> <=> a = 0
  BY <1>1, <1>3
<1>11. f = <<>> <=> b = 0
  BY <1>2, <1>3
<1>12. CASE i = 1
  BY <1>4, <1>5, <1>10, <1>12 DEF AtAnEdge
<1>13. CASE i = l + 1
  BY <1>4, <1>8, <1>11, <1>13 DEF AtAnEdge
<1>14. CASE i > 1 /\ s[i - 1] = sep
  <2>1. a = 0 \/ (a \in 1..a /\ n + a = i - 1)
    BY <1>4, <1>5
  <2>2. a = 0
    BY <1>1, <1>3, <1>6, <1>14, <2>1
  <2>3. QED
    BY <1>10, <2>2 DEF AtAnEdge
<1>15. CASE i <= l /\ s[i] = sep
  <2>1. b = 0 \/ 1 \in 1..b
    BY <1>4
  <2>2. b = 0
    BY <1>2, <1>3, <1>8, <1>9, <1>15, <2>1
  <2>3. QED
    BY <1>11, <2>2 DEF AtAnEdge
<1>16. CASE i > 1 /\ SeparatesAt(i - 1)
  <2>1. s[i - 1] = eq /\ \A j \in 1..((i - 1) - 1) : s[j] = eq => \E k \in j..(i - 1) : s[k] = sep
    BY <1>16 DEF SeparatesAt, AreSeparators
  <2>2. a # 0
    <3>1. a = 0 => n = i - 1 /\ n # 0
      BY <1>4, <1>5, <1>16
    <3>2. eq # sep
      BY DEF AreSeparators
    <3>3. QED
      BY <1>7, <2>1, <3>1, <3>2
  <2>3. PICK g : g = SubSeq(e, 1, a - 1)
    OBVIOUS
  <2>4. g \in Seq(S) /\ Len(g) = a - 1 /\ \A j \in 1..(a - 1) : g[j] = e[j]
    BY ONLY <1>1, <1>3, <1>4, <2>2, <2>3
  <2>5. e[a] = eq
    <3>1. a \in 1..a /\ n + a = i - 1
      BY <1>4, <1>5, <2>2
    <3>2. QED
      BY <1>6, <2>1, <3>1
  <2>7. e = g \o <<eq>>
    BY ONLY <1>1, <1>3, <1>4, <2>2, <2>3, <2>5
  <2>8. ASSUME NEW j \in 1..(a - 1), g[j] = eq PROVE FALSE
    <3>1. j \in 1..a /\ n + j \in 1..((i - 1) - 1)
      BY <1>4, <1>5
    <3>2. s[n + j] = eq
      BY <1>6, <2>4, <2>8, <3>1
    <3>3. PICK k \in (n + j)..(i - 1) : s[k] = sep
      BY <2>1, <3>1, <3>2
    <3>4. k - n \in 1..a /\ n + (k - n) = k
      BY <1>4, <1>5, <3>1
    <3>5. QED
      BY <1>1, <1>3, <1>6, <3>3, <3>4
  <2>9. eq \notin LexemesOf(g)
    BY <2>4, <2>8 DEF LexemesOf
  <2>10. QED
    BY <2>4, <2>7, <2>9 DEF AtAnEdge
<1>17. CASE i <= l /\ SeparatesAt(i)
  <2>1. s[i] = eq /\ \A j \in 1..(i - 1) : s[j] = eq => \E k \in j..i : s[k] = sep
    BY <1>17 DEF SeparatesAt, AreSeparators
  <2>2. eq # sep
    BY DEF AreSeparators
  <2>3. b # 0
    <3>1. b = 0 => b # l - (i - 1) /\ b + 1 = 1
      BY <1>4, <1>17
    <3>2. QED
      BY <1>8, <1>9, <1>17, <2>1, <2>2, <3>1
  <2>4. f[1] = eq
    <3>1. 1 \in 1..b
      BY <1>4, <2>3
    <3>2. QED
      BY <1>8, <1>9, <1>17, <2>1, <3>1
  <2>5. PICK h : h = SubSeq(f, 2, b)
    OBVIOUS
  <2>6. f = <<eq>> \o h /\ h \in Seq(S)
    BY ONLY <1>2, <1>3, <1>4, <2>3, <2>4, <2>5
  <2>7. ASSUME NEW j \in 1..a, e[j] = eq PROVE FALSE
    <3>1. n + j \in 1..(i - 1)
      BY <1>4, <1>5
    <3>2. s[n + j] = eq
      BY <1>6, <2>7
    <3>3. PICK k \in (n + j)..i : s[k] = sep
      BY <2>1, <3>1, <3>2
    <3>4. k # i
      BY <2>1, <2>2, <3>3
    <3>5. k - n \in 1..a /\ n + (k - n) = k
      BY <1>4, <1>5, <3>4
    <3>6. QED
      BY <1>1, <1>3, <1>6, <3>3, <3>5
  <2>8. eq \notin LexemesOf(e)
    BY <1>1, <1>3, <2>7 DEF LexemesOf
  <2>9. QED
    BY <2>6, <2>8 DEF AtAnEdge
<1>18. QED
  <2>1. \/ i = 1 \/ i = Len(txt) + 1
        \/ i > 1 /\ (txt[i - 1] = sep \/ SeparatesAt(i - 1))
        \/ i <= Len(txt) /\ (txt[i] = sep \/ SeparatesAt(i))
    BY DEF AtSeparator, AreSeparators
  <2>2. QED
    BY <1>3, <1>12, <1>13, <1>14, <1>15, <1>16, <1>17, <2>1

\* What an edit makes of the text.
LEMMA InsertedAt ==
  ASSUME NEW S, NEW s \in Seq(S), NEW i \in 1..(Len(s) + 1), s = txt, NEW w \in Seq(S)
  PROVE  \E u, v \in Seq(S) :
           /\ CutBefore(s, i, u, v) /\ s = u \o v
           /\ Placed(s, u, <<>>, v) /\ Placed(Inserted(i, w), u, w, v)
<1>1. PICK u, v \in Seq(S) : /\ CutBefore(s, i, u, v) /\ s = u \o v
                             /\ u = SubSeq(s, 1, i - 1) /\ v = SubSeq(s, i, Len(s))
  BY CutInTwo
<1>2. Placed(s, u, <<>>, v)
  <2>1. u \o <<>> = u
    BY EmptyConcat
  <2>2. QED
    BY <1>1, <2>1 DEF Placed
<1>3. Placed(Inserted(i, w), u, w, v)
  BY <1>1 DEF Placed, Inserted
<1>4. QED
  BY <1>1, <1>2, <1>3

LEMMA BlankIsIdle ==
  ASSUME NEW S, txt \in Seq(S), NEW sep \in S, NEW eq, AreSeparators(sep, eq),
         NEW i \in 1..(Len(txt) + 1), AtSeparator(i), NEW b \in S, b \in Blanks
  PROVE  /\ Tags(txt) = Tags(Inserted(i, <<b>>))
         /\ TagsFault(txt) = TagsFault(Inserted(i, <<b>>))
<1>1. PICK s, t, w : s = txt /\ t = Inserted(i, <<b>>) /\ w = <<b>>
  OBVIOUS
<1>2. s \in Seq(S) /\ w \in Seq(S)
  BY <1>1
<1>3. PICK u, v \in Seq(S) : CutBefore(s, i, u, v) /\ Placed(s, u, <<>>, v) /\ Placed(t, u, w, v)
  BY <1>1, <1>2, InsertedAt
<1>4. PICK P, e : LeftPiece(S, u, sep, P, e)
  BY LeftPieceExists
<1>5. PICK Q, f : RightPiece(S, v, sep, Q, f)
  BY RightPieceExists
<1>6. SegmentAt(S, s, sep, i, e, f)
  BY <1>3, <1>4, <1>5, SegmentOfPieces
<1>7. e \in Seq(S) /\ f \in Seq(S)
  BY <1>6 DEF SegmentAt
<1>8. PICK l : l = Len(s) /\ l \in Nat /\ i \in 1..(l + 1)
  BY <1>1, <1>2
<1>9. AtAnEdge(S, eq, e, f)
  BY <1>1, <1>6, <1>8, SeparatorPieces
<1>10. PICK x, y : x = e \o <<>> \o f /\ y = e \o w \o f
  OBVIOUS
<1>11. Placed(x, e, <<>>, f) /\ Placed(y, e, w, f)
  BY <1>10 DEF Placed
<1>12. eq = "=" /\ sep = ";"
  BY DEF AreSeparators
<1>13. AlikePieces(x, y)
  BY <1>1, <1>7, <1>9, <1>11, <1>12, AlikeWithBlank
<1>14. sep \notin LexemesOf(<<>>) /\ sep \notin LexemesOf(w) /\ <<>> \in Seq(S)
  <2>1. b # sep
    BY <1>12 DEF Blanks, SP, HTAB
  <2>2. QED
    BY <1>1, <2>1 DEF LexemesOf
<1>15. PassesOctetGate(w)
  <2>1. b \in Printable \union {HTAB}
    BY PrintableAssumption DEF Blanks
  <2>2. QED
    BY <1>1, <2>1 DEF PassesOctetGate, LexemesOf
<1>16. PassesOctetGate(s) <=> PassesOctetGate(t)
  BY <1>2, <1>3, <1>15, GateOfInserted
<1>17. Tags(s) = Tags(t) /\ TagsFault(s) = TagsFault(t)
  <2>1. PICK z : z = <<>>
    OBVIOUS
  <2>3. z \in Seq(S) /\ sep \notin LexemesOf(z) /\ sep \notin LexemesOf(w)
    BY <1>14, <2>1
  <2>4. Placed(s, u, z, v) /\ Placed(t, u, w, v) /\ Placed(x, e, z, f) /\ Placed(y, e, w, f)
    BY <1>3, <1>11, <2>1
  <2>5. SameParse(s, t)
    BY <1>2, <1>4, <1>5, <1>13, <1>16, <2>3, <2>4, EditInSegment
  <2>6. QED
    BY <2>5 DEF SameParse
<1>18. QED
  BY <1>1, <1>17

LEMMA SemicolonIsIdle ==
  ASSUME NEW S, txt \in Seq(S), NEW sep \in S, NEW eq, AreSeparators(sep, eq),
         NEW i \in 1..(Len(txt) + 1), i \in {1, Len(txt) + 1} \/ txt[i] = sep
  PROVE  SameParse(txt, Inserted(i, <<sep>>))
<1>1. PICK s, t, w : s = txt /\ t = Inserted(i, <<sep>>) /\ w = <<sep>>
  OBVIOUS
<1>2. s \in Seq(S) /\ w \in Seq(S)
  BY <1>1
<1>3. PICK u, v \in Seq(S) : CutBefore(s, i, u, v) /\ Placed(s, u, <<>>, v) /\ Placed(t, u, w, v)
  BY <1>1, <1>2, InsertedAt
<1>4. JoinedBy(t, u, sep, v)
  BY <1>1, <1>3 DEF Placed, JoinedBy
<1>5. Written(t) = Written(u) \o Written(v)
  BY <1>4, WrittenJoined
<1>6. PICK T : T = Seq(S)
  OBVIOUS
<1>7. PICK a, b : a = Written(u) /\ b = Written(v) /\ a \in Seq(T) /\ b \in Seq(T)
  BY <1>6, WrittenType
<1>8. s = u \o v
  <2>1. s = u \o <<>> \o v
    BY <1>3 DEF Placed
  <2>2. u \o <<>> = u
    BY EmptyConcat
  <2>3. QED
    BY <2>1, <2>2
<1>9. PICK l : l = Len(s) /\ l \in Nat /\ i \in 1..(l + 1)
  BY <1>1, <1>2
<1>10. Len(u) = i - 1 /\ Len(v) = l - (i - 1) /\ \A k \in 1..(l - (i - 1)) : v[k] = s[(i - 1) + k]
  BY <1>3, <1>9 DEF CutBefore
<1>11. Written(s) = a \o b
  <2>1. CASE i = 1
    <3>1. u = <<>>
      BY <1>10, <2>1
    <3>2. s = v
      BY <1>8, <3>1, EmptyConcat
    <3>3. a = <<>>
      BY <1>7, <3>1, NothingWritten
    <3>4. QED
      BY <1>7, <3>2, <3>3, EmptyConcat
  <2>2. CASE i # 1
    <3>1. Opens(v, sep)
      <4> SUFFICES ASSUME v # <<>> PROVE v[1] = sep
        BY DEF Opens
      <4>1. 1 \in 1..(l - (i - 1))
        BY <1>9, <1>10
      <4>2. i # l + 1 /\ (i - 1) + 1 = i
        BY <1>9, <4>1
      <4>3. s[i] = sep
        BY <1>1, <1>9, <2>2, <4>2
      <4>4. v[1] = s[(i - 1) + 1]
        BY <1>10, <4>1
      <4>5. QED
        BY <4>2, <4>3, <4>4
    <3>2. Written(u \o v) = Written(u) \o Written(v)
      BY <3>1, WrittenOpening
    <3>3. QED
      BY <1>7, <1>8, <3>2
  <2>3. QED
    BY <2>1, <2>2
<1>12. Written(s) = Written(t)
  BY <1>5, <1>7, <1>11
<1>13. Written(s) \in Seq(T)
  BY <1>2, <1>6, WrittenType
<1>14. PassesOctetGate(s) <=> PassesOctetGate(t)
  <2>1. sep \in Printable
    BY PrintableAssumption DEF AreSeparators
  <2>2. PassesOctetGate(w)
    BY <1>1, <2>1 DEF PassesOctetGate, LexemesOf
  <2>3. QED
    BY <1>2, <1>3, <2>2, GateOfInserted
<1>15. AlikeLists(Written(s), Written(t))
  BY <1>12, AlikeItself
<1>16. Tags(s) = Tags(t) /\ TagsFault(s) = TagsFault(t)
  BY <1>12, <1>13, <1>14, <1>15, SameTags
<1>17. QED
  BY <1>1, <1>16 DEF SameParse

\* The readings rest on the tags and their fault.
LEMMA ReadingsRestOnTags ==
  ASSUME NEW s, NEW t, Tags(s) = Tags(t), TagsFault(s) = TagsFault(t)
  PROVE  PolicyReading(s) = PolicyReading(t) /\ KeyReading(s) = KeyReading(t)
<1>1. PolicyFault(s) = PolicyFault(t) /\ KeyFault(s) = KeyFault(t)
  BY DEF PolicyFault, KeyFault
<1>2. PolicyOf(s) = PolicyOf(t) /\ KeyOf(s) = KeyOf(t)
  BY DEF PolicyOf, KeyOf
<1>3. QED
  BY <1>1, <1>2 DEF PolicyReading, KeyReading

LEMMA SameParseIsIdle ==
  ASSUME EditInv, EditInv', SameParse(txt, txt')
  PROVE  Idle
<1>1. PICK s, t : s = txt /\ t = txt'
  OBVIOUS
<1>2. PolicyReading(s) = PolicyReading(t) /\ KeyReading(s) = KeyReading(t)
  BY <1>1, ReadingsRestOnTags DEF SameParse
<1>3. reading = ReadingOf(s) /\ reading' = ReadingOf(t)
  BY <1>1 DEF EditInv
<1>4. QED
  BY <1>2, <1>3 DEF Idle, ReadingOf

LayoutEdit ==
  \E i \in 1..(Len(txt) + 1) :
    \/ AtSeparator(i) /\ txt' \in {Inserted(i, <<SP>>), Inserted(i, <<HTAB>>)}
    \/ /\ i \in {1, Len(txt) + 1} \/ txt[i] = ";"
       /\ txt' = Inserted(i, <<";">>)

LEMMA LayoutEditIsIdle ==
  ASSUME EditInv, EditInv', LayoutEdit
  PROVE  Idle
<1>1. PICK sep, eq, S : AreSeparators(sep, eq) /\ S = STRING \union {sep, SP, HTAB}
  BY DEF AreSeparators
<1>2. txt \in Seq(S) /\ sep \in S /\ SP \in S /\ HTAB \in S
  <2>1. STRING \subseteq S /\ sep \in S /\ SP \in S /\ HTAB \in S
    BY <1>1
  <2>2. PICK A : A = STRING
    OBVIOUS
  <2>3. txt \in Seq(A) /\ \A x \in A : x \in S
    BY <2>1, <2>2 DEF EditInv
  <2>4. txt \in Seq(S)
    BY <2>3, WiderSeq
  <2>5. QED
    BY <2>1, <2>4
<1>3. sep = ";"
  BY <1>1 DEF AreSeparators
<1>4. PICK i \in 1..(Len(txt) + 1) :
        \/ AtSeparator(i) /\ txt' \in {Inserted(i, <<SP>>), Inserted(i, <<HTAB>>)}
        \/ /\ i \in {1, Len(txt) + 1} \/ txt[i] = sep
           /\ txt' = Inserted(i, <<sep>>)
  BY <1>3 DEF LayoutEdit
<1>5. SameParse(txt, txt')
  <2>1. ASSUME NEW b \in {SP, HTAB}, AtSeparator(i), txt' = Inserted(i, <<b>>)
        PROVE  SameParse(txt, txt')
    <3>1. b \in S /\ b \in Blanks
      BY <1>2 DEF Blanks
    <3>2. /\ Tags(txt) = Tags(Inserted(i, <<b>>))
          /\ TagsFault(txt) = TagsFault(Inserted(i, <<b>>))
      BY <1>1, <1>2, <2>1, <3>1, BlankIsIdle
    <3>3. QED
      BY <2>1, <3>2 DEF SameParse
  <2>2. CASE /\ i \in {1, Len(txt) + 1} \/ txt[i] = sep
             /\ txt' = Inserted(i, <<sep>>)
    BY <1>1, <1>2, <2>2, SemicolonIsIdle
  <2>3. QED
    BY <1>4, <2>1, <2>2
<1>6. QED
  BY <1>5, SameParseIsIdle

\* Layout means nothing to either parser (LayoutIsIdle), at any place of any record.
THEOREM LayoutIsIdleInRecords == Spec => LayoutIsIdle
<1>1. EditInv /\ EditInv' /\ [Next]_vars =>
        [\A i \in 1..(Len(txt) + 1) :
           \/ AtSeparator(i) /\ txt' \in {Inserted(i, <<SP>>), Inserted(i, <<HTAB>>)}
           \/ /\ i \in {1, Len(txt) + 1} \/ txt[i] = ";"
              /\ txt' = Inserted(i, <<";">>)
           => Idle]_vars
  BY LayoutEditIsIdle DEF LayoutEdit
<1>2. QED
  BY <1>1, EditInvHolds, PTL DEF Spec, LayoutIsIdle
-----------------------------------------------------------------------------
(* Sloppy lists. *)

IsComma(sep) == sep = ","

AtElement(s, i, sep) == i = 1 \/ i = Len(s) + 1 \/ s[i] = sep \/ s[i - 1] = sep

LEMMA JointAddsNothing ==
  ASSUME NEW s, NEW i, NEW u, NEW v, CutBefore(s, i, u, v), NEW S, u \in Seq(S), v \in Seq(S),
         NEW sep, AtElement(s, i, sep)
  PROVE  AddsNothing(u, v, sep)
<1>1. CASE i = 1
  <2>1. Len(u) = 0
    BY <1>1 DEF CutBefore
  <2>2. u = <<>>
    BY <2>1
  <2>3. QED
    BY <2>2 DEF AddsNothing
<1>2. CASE i = Len(s) + 1
  <2>1. Len(v) = 0
    BY <1>2 DEF CutBefore
  <2>2. v = <<>>
    BY <2>1
  <2>3. QED
    BY <2>2 DEF AddsNothing
<1>3. CASE i # Len(s) + 1 /\ s[i] = sep
  <2>1. Len(v) >= 1 /\ v[1] = s[(i - 1) + 1] /\ (i - 1) + 1 = i
    BY <1>3 DEF CutBefore
  <2>2. v # <<>>
    BY <2>1
  <2>3. QED
    BY <1>3, <2>1, <2>2 DEF AddsNothing, Starts
<1>4. CASE i # 1 /\ s[i - 1] = sep
  <2>1. Len(u) = i - 1 /\ Len(u) >= 1 /\ u[i - 1] = s[i - 1]
    BY <1>4 DEF CutBefore
  <2>2. u # <<>>
    BY <2>1
  <2>3. QED
    BY <1>4, <2>1, <2>2 DEF AddsNothing, Ends
<1>5. QED
  BY <1>1, <1>2, <1>3, <1>4 DEF AtElement

LEMMA EmptyElementKeeps ==
  ASSUME NEW S, NEW sep \in S, IsComma(sep), NEW old \in Seq(S), NEW new,
         EmptyElementAdded(old, new)
  PROVE  EntryList(new, sep) = EntryList(old, sep)
<1>1. PICK i \in 1..(Len(old) + 1) :
        /\ Placed(new, SubSeq(old, 1, i - 1), <<sep>>, SubSeq(old, i, Len(old)))
        /\ AtElement(old, i, sep)
  BY DEF EmptyElementAdded, Placed, AtElement, IsComma
<1>2. PICK u \in Seq(S), v \in Seq(S) :
        /\ CutBefore(old, i, u, v) /\ old = u \o v
        /\ u = SubSeq(old, 1, i - 1) /\ v = SubSeq(old, i, Len(old))
  BY CutInTwo
<1>3. Halves(old, u, v) /\ CutBefore(old, i, u, v)
  BY <1>2 DEF Halves
<1>4. JoinedBy(new, u, sep, v)
  BY <1>1, <1>2 DEF JoinedBy, Placed
<1>5. AddsNothing(u, v, sep)
  BY <1>1, <1>3, JointAddsNothing
<1>6. QED
  BY <1>3, <1>4, <1>5, EmptyEntryAside

SameTo(s, t, n, sep) ==
  /\ n \in DOMAIN s \intersect DOMAIN t
  /\ s[n] = sep /\ SubSeq(t, 1, n) = SubSeq(s, 1, n)

SharedStart(S, s, t, n, sep, x, y, z) ==
  /\ x \in Seq(S) /\ y \in Seq(S) /\ z \in Seq(S)
  /\ JoinedBy(s, x, sep, y) /\ JoinedBy(t, x, sep, z)
  /\ SubSeq(s, 1, n) = x \o <<sep>>

LEMMA SameToAt ==
  ASSUME NEW S, NEW s \in Seq(S), NEW t \in Seq(S), NEW n, NEW sep, SameTo(s, t, n, sep)
  PROVE  \E x, y, z : SharedStart(S, s, t, n, sep, x, y, z)
<1>1. n \in 1..Len(s) /\ n \in 1..Len(t) /\ s[n] = sep /\ SubSeq(t, 1, n) = SubSeq(s, 1, n)
  BY DEF SameTo
<1>2. PICK x, y, z : /\ x = SubSeq(s, 1, n - 1) /\ y = SubSeq(s, n + 1, Len(s))
                     /\ z = SubSeq(t, n + 1, Len(t))
  OBVIOUS
<1>3. x \in Seq(S) /\ y \in Seq(S) /\ z \in Seq(S)
  <2>1. x \in Seq(S)
    BY ONLY <1>1, <1>2, s \in Seq(S)
  <2>2. y \in Seq(S)
    BY ONLY <1>1, <1>2, s \in Seq(S)
  <2>3. z \in Seq(S)
    BY ONLY <1>1, <1>2, t \in Seq(S)
  <2>4. QED
    BY <2>1, <2>2, <2>3
<1>4. PICK p : p = SubSeq(s, 1, n)
  OBVIOUS
<1>5. x = SubSeq(p, 1, n - 1) /\ p[n] = s[n]
  BY ONLY <1>1, <1>2, <1>4, s \in Seq(S)
<1>6. SubSeq(t, 1, n - 1) = SubSeq(p, 1, n - 1) /\ p[n] = t[n]
  BY ONLY <1>1, <1>4, t \in Seq(S)
<1>7. s = SubSeq(s, 1, n - 1) \o <<s[n]>> \o SubSeq(s, n + 1, Len(s))
  BY <1>1, CutAt
<1>8. t = SubSeq(t, 1, n - 1) \o <<t[n]>> \o SubSeq(t, n + 1, Len(t))
  BY <1>1, CutAt
<1>9. JoinedBy(s, x, sep, y) /\ JoinedBy(t, x, sep, z)
  BY <1>1, <1>2, <1>5, <1>6, <1>7, <1>8 DEF JoinedBy
<1>10. p = x \o <<sep>>
  BY ONLY <1>1, <1>2, <1>4, s \in Seq(S)
<1>11. QED
  BY <1>3, <1>4, <1>9, <1>10 DEF SharedStart

LEMMA FullListKeeps ==
  ASSUME NEW S, NEW sep \in S, IsComma(sep), NEW old \in Seq(S), NEW new \in Seq(S),
         ChangedPastTheCap(old, new)
  PROVE  Kept(EntryList(new, sep)) = Kept(EntryList(old, sep))
<1>1. PICK n :
        /\ SameTo(old, new, n, sep)
        /\ Cardinality(Filled(Split(SubSeq(old, 1, n), sep))) >= MaxPolicyPrefixes
  BY DEF ChangedPastTheCap, FullAt, Filled, SameTo, IsComma
<1>2. PICK x, y, z : SharedStart(S, old, new, n, sep, x, y, z)
  <2>1. SameTo(old, new, n, sep)
    BY <1>1
  <2>2. QED
    BY <2>1, SameToAt
<1>3. /\ x \in Seq(S) /\ y \in Seq(S) /\ z \in Seq(S)
      /\ JoinedBy(old, x, sep, y) /\ JoinedBy(new, x, sep, z)
  BY <1>2 DEF SharedStart
<1>7. MaxPolicyPrefixes <= Len(EntryList(x, sep))
  <2>1. PICK p : p = SubSeq(old, 1, n)
    OBVIOUS
  <2>3. PICK e : Nothing(e)
    BY DEF Nothing
  <2>4. e \in Seq(S) /\ EntryList(e, sep) = e
    BY <2>3, NoEntries
  <2>12. e \in Seq(S)
    BY <2>4
  <2>2. p \in Seq(S) /\ x \o <<sep>> \o <<>> = p
    <3>1. x \o <<sep>> \in Seq(S) /\ x \o <<sep>> \o <<>> = x \o <<sep>>
      BY ONLY <1>3, sep \in S
    <3>2. QED
      BY <1>2, <2>1, <3>1 DEF SharedStart
  <2>13. p \in Seq(S)
    BY <2>2
  <2>15. x \in Seq(S)
    BY <1>3
  <2>5. JoinedBy(p, x, sep, e)
    BY <2>2, <2>3 DEF JoinedBy, Nothing
  <2>6. EntryList(p, sep) = EntryList(x, sep) \o EntryList(e, sep)
    BY <2>5, <2>12, <2>15, EntryListJoined
  <2>14. PICK T : T = Seq(S)
    OBVIOUS
  <2>7. EntryList(x, sep) \in Seq(T)
    BY <2>14, <2>15, EntryListType
  <2>8. EntryList(p, sep) = EntryList(x, sep)
    BY <2>3, <2>4, <2>6, <2>7, ConcatNothing
  <2>9. Len(EntryList(p, sep)) = Cardinality(Filled(Split(p, sep)))
    BY <2>13, EntriesCounted
  <2>10. Len(EntryList(x, sep)) \in Nat
    BY <2>7
  <2>11. QED
    BY <1>1, <2>1, <2>8, <2>9, <2>10, RecordsAssumption
<1>8. QED
  BY <1>3, <1>7, KeptOfFullList

LEMMA KeptOfValue ==
  ASSUME NEW list, HasTag(list, "p"), NEW sep, IsComma(sep)
  PROVE  KeptEntries(list) = Kept(EntryList(TagValue(list, "p"), sep))
BY DEF KeptEntries, EntriesOf, Kept, EntryList, IsComma

LEMMA ChangeIsRead ==
  ASSUME EditInv, EditInv', NEW old \in reading.tags, NEW new \in reading'.tags, NEW name,
         ChangesValue(<<name>>, old, new)
  PROVE  /\ txt \in Seq(STRING) /\ txt' \in Seq(STRING)
         /\ Changed(txt, txt', name, old, new)
<1>1. TagsFault(txt) = Pass /\ reading.tags = LexemesOf(Tags(txt)) /\ txt \in Seq(STRING)
  BY DEF EditInv, ReadingOf
<1>2. TagsFault(txt') = Pass /\ reading'.tags = LexemesOf(Tags(txt')) /\ txt' \in Seq(STRING)
  BY DEF EditInv, ReadingOf
<1>3. QED
  BY <1>1, <1>2 DEF ChangesValue, Changed

LEMMA AgreeingIsIdle ==
  ASSUME EditInv, EditInv', NEW s, s = txt, NEW t, t = txt',
         TagsFault(s) = TagsFault(t), KeptEntries(Tags(s)) = KeptEntries(Tags(t)),
         Agree(Tags(s), Tags(t), "k"), Agree(Tags(s), Tags(t), "pk"),
         Agree(Tags(s), Tags(t), "u"), Agree(Tags(s), Tags(t), "rua"),
         TestingOf(Tags(s)) = TestingOf(Tags(t))
  PROVE  Idle
<1>1. KeyFault(s) = KeyFault(t) /\ (KeyFault(s) = Pass => KeyOf(s) = KeyOf(t))
  BY KeyRestsOn
<1>2. PolicyFault(s) = PolicyFault(t) /\ PolicyOf(s) = PolicyOf(t)
  <2>1. /\ PolicyFault(s) = PolicyFault(t)
        /\ PolicyOf(t) = [PolicyOf(s) EXCEPT !.testing = TestingOf(Tags(t))]
    BY PolicyRestsOn
  <2>2. QED
    BY <2>1 DEF PolicyOf
<1>3. PolicyReading(s) = PolicyReading(t) /\ KeyReading(s) = KeyReading(t)
  BY <1>1, <1>2 DEF PolicyReading, KeyReading
<1>4. reading = ReadingOf(s) /\ reading' = ReadingOf(t)
  BY DEF EditInv
<1>5. QED
  BY <1>3, <1>4 DEF Idle, ReadingOf

LEMMA SloppyEditIsIdle ==
  ASSUME EditInv, EditInv', NEW old \in reading.tags, NEW new \in reading'.tags,
         ChangesValue(<<"p">>, old, new),
         EmptyElementAdded(old.value, new.value) \/ ChangedPastTheCap(old.value, new.value)
  PROVE  Idle
<1>1. PICK sep, S : IsComma(sep) /\ S = STRING \union {sep}
  BY DEF IsComma
<1>2. PICK s, t : s = txt /\ t = txt'
  OBVIOUS
<1>3. s \in Seq(S) /\ t \in Seq(S) /\ Changed(s, t, "p", old, new)
  <2>1. Changed(s, t, "p", old, new) /\ s \in Seq(STRING) /\ t \in Seq(STRING)
    BY <1>2, ChangeIsRead
  <2>2. PICK A : A = STRING /\ \A x \in A : x \in S
    BY <1>1
  <2>3. s \in Seq(S) /\ t \in Seq(S)
    BY <2>1, <2>2, WiderSeq
  <2>4. QED
    BY <2>1, <2>3
<1>4. /\ HasTag(Tags(s), "p") /\ TagValue(Tags(s), "p") = old.value
      /\ HasTag(Tags(t), "p") /\ TagValue(Tags(t), "p") = new.value
      /\ old.value \in Seq(S) /\ new.value \in Seq(S)
  BY <1>3, ChangedValues
<1>5. Kept(EntryList(old.value, sep)) = Kept(EntryList(new.value, sep))
  <2>1. sep \in S
    BY <1>1
  <2>2. CASE EmptyElementAdded(old.value, new.value)
    BY <1>1, <1>4, <2>1, <2>2, EmptyElementKeeps
  <2>3. CASE ChangedPastTheCap(old.value, new.value)
    BY <1>1, <1>4, <2>1, <2>3, FullListKeeps
  <2>4. QED
    BY <2>2, <2>3
<1>6. KeptEntries(Tags(s)) = KeptEntries(Tags(t))
  BY <1>1, <1>4, <1>5, KeptOfValue
<1>7. \A other \in {"k", "pk", "u", "rua", "t"} : Agree(Tags(s), Tags(t), other)
  <2> SUFFICES ASSUME NEW other \in {"k", "pk", "u", "rua", "t"}
               PROVE  Agree(Tags(s), Tags(t), other)
    OBVIOUS
  <2>1. other # "p"
    OBVIOUS
  <2>2. QED
    BY <1>3, <2>1, OthersAgree
<1>8. TestingOf(Tags(s)) = TestingOf(Tags(t))
  BY <1>7 DEF Agree, TestingOf
<1>9. TagsFault(s) = TagsFault(t)
  BY <1>3 DEF Changed
<1>10. /\ Agree(Tags(s), Tags(t), "k") /\ Agree(Tags(s), Tags(t), "pk")
       /\ Agree(Tags(s), Tags(t), "u") /\ Agree(Tags(s), Tags(t), "rua")
  BY <1>7
<1>11. QED
  BY <1>2, <1>6, <1>8, <1>9, <1>10, AgreeingIsIdle

\* An empty element of p=, or anything behind the last entry under the cap,
\* means nothing (SloppyListsAreIdle), in lists of any length.
THEOREM SloppyListsMeanNothing == Spec => SloppyListsAreIdle
<1>1. EditInv /\ EditInv' /\ [Next]_vars =>
        [\A old \in reading.tags, new \in reading'.tags :
           /\ ChangesValue(<<"p">>, old, new)
           /\ EmptyElementAdded(old.value, new.value) \/ ChangedPastTheCap(old.value, new.value)
           => Idle]_vars
  BY SloppyEditIsIdle
<1>2. QED
  BY <1>1, EditInvHolds, PTL DEF Spec, SloppyListsAreIdle

-----------------------------------------------------------------------------
(* Extensions. *)

LEMMA NewTagIsIdle ==
  ASSUME EditInv, EditInv', NEW tag \in reading'.tags, tag.name \notin KnownTags,
         reading.tags # {}, reading'.tags = reading.tags \union {tag}
  PROVE  Idle
<1>1. PICK s, t : s = txt /\ t = txt'
  OBVIOUS
<1>2. /\ TagsFault(s) = Pass /\ reading.tags = LexemesOf(Tags(s)) /\ s \in Seq(STRING)
      /\ TagsFault(t) = Pass /\ reading'.tags = LexemesOf(Tags(t)) /\ t \in Seq(STRING)
  BY <1>1 DEF EditInv, ReadingOf
<1>3. UniqueNames(Tags(s)) /\ UniqueNames(Tags(t))
  BY <1>2, SoundNames
<1>4. \A name \in {"k", "pk", "p", "u", "rua", "t"} : Agree(Tags(s), Tags(t), name)
  <2> SUFFICES ASSUME NEW name \in {"k", "pk", "p", "u", "rua", "t"}
               PROVE  Agree(Tags(s), Tags(t), name)
    OBVIOUS
  <2>1. tag.name # <<name>>
    BY DEF KnownTags
  <2>2. \A other : other.name = <<name>> =>
          (other \in LexemesOf(Tags(s)) <=> other \in LexemesOf(Tags(t)))
    BY <1>2, <2>1
  <2>3. QED
    BY <1>3, <2>2, AgreeBySet
<1>5. KeptEntries(Tags(s)) = KeptEntries(Tags(t))
  BY <1>4 DEF Agree, KeptEntries, EntriesOf
<1>6. TestingOf(Tags(s)) = TestingOf(Tags(t))
  BY <1>4 DEF Agree, TestingOf
<1>7. /\ Agree(Tags(s), Tags(t), "k") /\ Agree(Tags(s), Tags(t), "pk")
      /\ Agree(Tags(s), Tags(t), "u") /\ Agree(Tags(s), Tags(t), "rua")
  BY <1>4
<1>8. TagsFault(s) = TagsFault(t)
  BY <1>2
<1>9. QED
  BY <1>1, <1>5, <1>6, <1>7, <1>8, AgreeingIsIdle

\* A sound record whose tags have the same elements in another order.
LEMMA SameTagsAreIdle ==
  ASSUME EditInv, EditInv', TagsFault(txt) = Pass, TagsFault(txt') = Pass,
         LexemesOf(Tags(txt')) = LexemesOf(Tags(txt))
  PROVE  Idle
<1>1. PICK s, t : s = txt /\ t = txt'
  OBVIOUS
<1>2. /\ TagsFault(s) = Pass /\ s \in Seq(STRING)
      /\ TagsFault(t) = Pass /\ t \in Seq(STRING)
      /\ LexemesOf(Tags(t)) = LexemesOf(Tags(s))
  BY <1>1 DEF EditInv
<1>3. UniqueNames(Tags(s)) /\ UniqueNames(Tags(t))
  BY <1>2, SoundNames
<1>4. \A name : Agree(Tags(s), Tags(t), name)
  BY <1>2, <1>3, AgreeBySet
<1>5. KeptEntries(Tags(s)) = KeptEntries(Tags(t))
  BY <1>4 DEF Agree, KeptEntries, EntriesOf
<1>6. TestingOf(Tags(s)) = TestingOf(Tags(t))
  BY <1>4 DEF Agree, TestingOf
<1>7. QED
  BY <1>1, <1>2, <1>4, <1>5, <1>6, AgreeingIsIdle

OrderEdit ==
  \E i, j, k \in Breaks :
    /\ i < j /\ j < k /\ txt' = Exchanged(i, j, k)
    /\ reading.tags # {} /\ Written(SubSeq(txt, 1, i - 1)) # <<>>

LEMMA OrderEditIsIdle ==
  ASSUME EditInv, EditInv', OrderEdit
  PROVE  Idle
<1>1. PICK sep, eq, S : AreSeparators(sep, eq) /\ S = STRING \union {sep}
  BY DEF AreSeparators
<1>2. txt \in Seq(S) /\ sep \in S
  <2>1. PICK A : A = STRING /\ \A x \in A : x \in S
    BY <1>1
  <2>2. txt \in Seq(A)
    BY <2>1 DEF EditInv
  <2>3. txt \in Seq(S)
    BY <2>1, <2>2, WiderSeq
  <2>4. QED
    BY <1>1, <2>3
<1>3. PICK i \in Breaks, j \in Breaks, k \in Breaks :
        /\ i < j /\ j < k /\ txt' = Exchanged(i, j, k)
        /\ reading.tags # {} /\ Written(SubSeq(txt, 1, i - 1)) # <<>>
  BY DEF OrderEdit
<1>4. PICK a, b, c, d : /\ a = SubSeq(txt, 1, i - 1) /\ b = SubSeq(txt, i, j - 1)
                        /\ c = SubSeq(txt, j, k - 1) /\ d = SubSeq(txt, k, Len(txt))
  OBVIOUS
<1>5. PICK s, t : s = txt /\ t = txt'
  OBVIOUS
<1>6. /\ a \in Seq(S) /\ b \in Seq(S) /\ c \in Seq(S) /\ d \in Seq(S)
      /\ FourLists(s, a, b, c, d) /\ FourLists(t, a, c, b, d)
      /\ Opens(b, sep) /\ Opens(c, sep) /\ Opens(d, sep)
  <2>1. IsSemicolon(sep)
    BY <1>1 DEF IsSemicolon, AreSeparators
  <2>2. txt \in Seq(S) /\ i < j /\ j < k
    BY <1>2, <1>3
  <2>3. /\ a \in Seq(S) /\ b \in Seq(S) /\ c \in Seq(S) /\ d \in Seq(S)
        /\ FourLists(txt, a, b, c, d) /\ FourLists(Exchanged(i, j, k), a, c, b, d)
        /\ Opens(b, sep) /\ Opens(c, sep) /\ Opens(d, sep)
    BY ONLY i \in Breaks, j \in Breaks, k \in Breaks, <1>4, <2>1, <2>2, FourPieces
  <2>4. s = txt /\ t = Exchanged(i, j, k)
    BY <1>3, <1>5
  <2>5. QED
    BY ONLY <2>3, <2>4
<1>7. TagsFault(s) = Pass
  BY <1>3, <1>5 DEF EditInv, ReadingOf
<1>8. Written(a) # <<>>
  BY <1>3, <1>4
<1>9. TagsFault(t) = Pass /\ LexemesOf(Tags(t)) = LexemesOf(Tags(s))
  <2>1. sep \in S /\ AreSeparators(sep, eq)
    BY <1>1, <1>2
  <2>2. QED
    BY ONLY <2>1, <1>6, <1>7, <1>8, ExchangedText
<1>10. QED
  BY <1>5, <1>7, <1>9, SameTagsAreIdle

\* The order of the tags behind the first means nothing (OrderIsIdle), in records of
\* any number of tags and for pieces of any length.
THEOREM OrderMeansNothing == Spec => OrderIsIdle
<1>1. EditInv /\ EditInv' /\ [Next]_vars =>
        [\A i, j, k \in Breaks :
           /\ i < j /\ j < k /\ txt' = Exchanged(i, j, k)
           /\ reading.tags # {} /\ Written(SubSeq(txt, 1, i - 1)) # <<>>
           => Idle]_vars
  BY OrderEditIsIdle DEF OrderEdit
<1>2. QED
  BY <1>1, EditInvHolds, PTL DEF Spec, OrderIsIdle

FlagAdded(old, new) == new \in {old \o <<":", "z">>, old \o <<":">>}
IsColon(sep) == sep = ":"

\* The flag "y" is one of t= or is not, with another flag behind it.
LEMMA FlagsKept ==
  ASSUME NEW S, NEW sep, IsColon(sep), sep \in S, NEW z, z = "z", z \in S,
         NEW old \in Seq(S), NEW new, FlagAdded(old, new)
  PROVE  <<"y">> \in LexemesOf(Split(new, sep)) <=> <<"y">> \in LexemesOf(Split(old, sep))
<1>1. PICK y : y = <<"y">>
  OBVIOUS
<1>2. CASE new = old \o <<sep, z>>
  <2>1. PICK x : x = <<z>>
    OBVIOUS
  <2>2. x \in Seq(S) /\ JoinedBy(new, old, sep, x)
    <3>1. x \in Seq(S)
      BY <2>1
    <3>2. old \o <<sep, z>> = old \o <<sep>> \o <<z>>
      BY ONLY old \in Seq(S), sep \in S, z \in S
    <3>3. QED
      BY <1>2, <2>1, <3>1, <3>2 DEF JoinedBy
  <2>3. sep \notin LexemesOf(x)
    BY <2>1 DEF LexemesOf, IsColon
  <2>4. y # x
    BY <1>1, <2>1
  <2>5. y \in LexemesOf(Split(new, sep)) <=> y \in LexemesOf(Split(old, sep))
    BY <2>2, <2>3, <2>4, FurtherElement
  <2>6. QED
    BY <1>1, <2>5
<1>3. CASE new = old \o <<sep>>
  <2>1. PICK x : x = <<>>
    OBVIOUS
  <2>2. x \in Seq(S) /\ JoinedBy(new, old, sep, x)
    <3>1. x \in Seq(S)
      BY <2>1
    <3>2. old \o <<sep>> = old \o <<sep>> \o <<>>
      BY ONLY old \in Seq(S), sep \in S
    <3>3. QED
      BY <1>3, <2>1, <3>1, <3>2 DEF JoinedBy
  <2>3. sep \notin LexemesOf(x)
    BY <2>1 DEF LexemesOf
  <2>4. y # x
    BY <1>1, <2>1
  <2>5. y \in LexemesOf(Split(new, sep)) <=> y \in LexemesOf(Split(old, sep))
    BY <2>2, <2>3, <2>4, FurtherElement
  <2>6. QED
    BY <1>1, <2>5
<1>4. QED
  BY <1>2, <1>3 DEF FlagAdded, IsColon

LEMMA NewFlagIsIdle ==
  ASSUME EditInv, EditInv', NEW old \in reading.tags, NEW new \in reading'.tags,
         ChangesValue(<<"t">>, old, new), FlagAdded(old.value, new.value)
  PROVE  Idle
<1>1. PICK sep, z, S : IsColon(sep) /\ z = "z" /\ S = STRING \union {sep, z}
  BY DEF IsColon
<1>2. PICK s, t : s = txt /\ t = txt'
  OBVIOUS
<1>3. s \in Seq(S) /\ t \in Seq(S) /\ Changed(s, t, "t", old, new)
  <2>1. Changed(s, t, "t", old, new) /\ s \in Seq(STRING) /\ t \in Seq(STRING)
    BY <1>2, ChangeIsRead
  <2>2. PICK A : A = STRING /\ \A x \in A : x \in S
    BY <1>1
  <2>3. s \in Seq(S) /\ t \in Seq(S)
    BY <2>1, <2>2, WiderSeq
  <2>4. QED
    BY <2>1, <2>3
<1>4. /\ HasTag(Tags(s), "t") /\ TagValue(Tags(s), "t") = old.value
      /\ HasTag(Tags(t), "t") /\ TagValue(Tags(t), "t") = new.value
      /\ old.value \in Seq(S) /\ new.value \in Seq(S)
  BY <1>3, ChangedValues
<1>5. <<"y">> \in LexemesOf(Split(new.value, sep)) <=> <<"y">> \in LexemesOf(Split(old.value, sep))
  BY <1>1, <1>4, FlagsKept
<1>6. TestingOf(Tags(s)) = TestingOf(Tags(t))
  BY <1>1, <1>4, <1>5 DEF TestingOf, IsColon
<1>7. \A other \in {"k", "pk", "u", "rua", "p"} : Agree(Tags(s), Tags(t), other)
  <2> SUFFICES ASSUME NEW other \in {"k", "pk", "u", "rua", "p"}
               PROVE  Agree(Tags(s), Tags(t), other)
    OBVIOUS
  <2>1. other # "t"
    OBVIOUS
  <2>2. QED
    BY <1>3, <2>1, OthersAgree
<1>8. KeptEntries(Tags(s)) = KeptEntries(Tags(t))
  BY <1>7 DEF Agree, KeptEntries, EntriesOf
<1>9. TagsFault(s) = TagsFault(t)
  BY <1>3 DEF Changed
<1>10. /\ Agree(Tags(s), Tags(t), "k") /\ Agree(Tags(s), Tags(t), "pk")
       /\ Agree(Tags(s), Tags(t), "u") /\ Agree(Tags(s), Tags(t), "rua")
  BY <1>7
<1>11. QED
  BY <1>2, <1>6, <1>8, <1>9, <1>10, AgreeingIsIdle

\* A tag of an unknown name and another flag in t= mean nothing
\* (ExtensionsAreIdle), in records of any length.
THEOREM ExtensionsMeanNothing == Spec => ExtensionsAreIdle
<1>1. EditInv /\ EditInv' /\ [Next]_vars =>
        [/\ \A tag \in reading'.tags :
              /\ tag.name \notin KnownTags
              /\ reading.tags # {} /\ reading'.tags = reading.tags \union {tag}
              => Idle
         /\ \A old \in reading.tags, new \in reading'.tags :
              /\ ChangesValue(<<"t">>, old, new)
              /\ new.value \in {old.value \o <<":", "z">>, old.value \o <<":">>}
              => Idle]_vars
  BY NewTagIsIdle, NewFlagIsIdle DEF FlagAdded
<1>2. QED
  BY <1>1, EditInvHolds, PTL DEF Spec, ExtensionsAreIdle

-----------------------------------------------------------------------------
(* Nothing is dropped.  The loop invariant goes through the text: what has *)
(* been seen of it is what has been pushed.                                *)

LEMMA InkedType ==
  ASSUME NEW S, NEW s \in Seq(S)
  PROVE  Inked(s) \in Seq(S) /\ LexemesOf(Inked(s)) \subseteq LexemesOf(s)
<1>1. InkedPlaces(s) \subseteq DOMAIN s
  BY DEF InkedPlaces
<1>2. PICK p, r : p = InkedPlaces(s) /\ r = Picked(s, p)
  OBVIOUS
<1>3. r \in Seq(S) /\ \A k \in DOMAIN r : \E i \in p : r[k] = s[i]
  BY <1>1, <1>2, PickedType
<1>4. LexemesOf(r) \subseteq LexemesOf(s)
  BY <1>1, <1>2, <1>3 DEF LexemesOf
<1>5. QED
  BY <1>2, <1>3, <1>4 DEF Inked

LEMMA InkedSingle ==
  ASSUME NEW x, x \notin Blanks
  PROVE  Inked(<<x>>) = <<x>>
<1>1. PICK p : p = <<x>>
  OBVIOUS
<1>2. p \in Seq({x}) /\ DOMAIN p = {1} /\ p[1] = x
  BY <1>1
<1>3. PICK f : f = InkedPlaces(p) /\ f = {1}
  BY <1>2 DEF InkedPlaces
<1>4. Cardinality(f) = 1
  BY <1>3, FS_Singleton
<1>5. f \subseteq DOMAIN p
  BY <1>2, <1>3
<1>6. PICK r : r = Picked(p, f)
  OBVIOUS
<1>7. /\ r \in Seq({x}) /\ Len(r) = Cardinality(f)
      /\ \A k \in DOMAIN r : \E i \in f : r[k] = p[i]
  BY <1>2, <1>5, <1>6, PickedType
<1>8. Len(r) = 1 /\ r[1] = x
  BY <1>2, <1>3, <1>4, <1>7
<1>9. r = <<x>>
  BY <1>7, <1>8
<1>10. QED
  BY <1>1, <1>3, <1>6, <1>9 DEF Inked

LEMMA InkedJoined ==
  ASSUME NEW S, NEW u \in Seq(S), NEW v \in Seq(S), NEW sep \in S, sep \notin Blanks,
         NEW t, JoinedBy(t, u, sep, v)
  PROVE  JoinedBy(Inked(t), Inked(u), sep, Inked(v))
<1>1. PICK o : o = <<sep>>
  OBVIOUS
<1>2. o \in Seq(S) /\ Inked(o) = o
  BY <1>1, InkedSingle
<1>3. PICK w : w = u \o o
  OBVIOUS
<1>4. w \in Seq(S) /\ t = w \o v
  BY <1>1, <1>2, <1>3 DEF JoinedBy
<1>5. Inked(w) = Inked(u) \o Inked(o)
  BY <1>2, <1>3, InkedConcat DEF Inked
<1>6. Inked(t) = Inked(w) \o Inked(v)
  BY <1>4, InkedConcat DEF Inked
<1>7. QED
  BY <1>1, <1>2, <1>5, <1>6 DEF JoinedBy

\* A segment that is a tag is the tag, blanks left out.
LEMMA InkedTag ==
  ASSUME NEW S, NEW s \in Seq(S), "=" \in LexemesOf(s)
  PROVE  Inked(s) = Inked(Rendered(TagOf(s))) /\ Inked(s) # <<>>
<1>1. PICK eq, b, a : eq = "=" /\ b = Before(s, eq) /\ a = After(s, eq)
  OBVIOUS
<1>2. b \in Seq(S) /\ a \in Seq(S) /\ eq \in S /\ JoinedBy(s, b, eq, a)
  <2>1. eq \in LexemesOf(s)
    BY <1>1
  <2>2. /\ Before(s, eq) \in Seq(S) /\ After(s, eq) \in Seq(S) /\ eq \in S
        /\ s = Before(s, eq) \o <<eq>> \o After(s, eq)
    BY <2>1, SplitOnce
  <2>3. QED
    BY <1>1, <2>2 DEF JoinedBy
<1>3. PICK tb, ta : tb = Trim(b) /\ ta = Trim(a)
  OBVIOUS
<1>4. tb \in Seq(S) /\ ta \in Seq(S)
  BY <1>2, <1>3, TrimParts
<1>5. Inked(tb) = Inked(b) /\ Inked(ta) = Inked(a)
  BY <1>2, <1>3, InkOfTrimmed DEF Inked
<1>6. PICK t : t = Rendered(TagOf(s))
  OBVIOUS
<1>7. JoinedBy(t, tb, eq, ta)
  BY <1>1, <1>3, <1>6 DEF Rendered, TagOf, Tag, JoinedBy
<1>8. eq \notin Blanks
  BY <1>1 DEF Blanks, SP, HTAB
<1>9. JoinedBy(Inked(s), Inked(b), eq, Inked(a)) /\ JoinedBy(Inked(t), Inked(tb), eq, Inked(ta))
  <2>1. JoinedBy(Inked(s), Inked(b), eq, Inked(a))
    BY <1>2, <1>8, InkedJoined
  <2>2. JoinedBy(Inked(t), Inked(tb), eq, Inked(ta))
    BY <1>2, <1>4, <1>7, <1>8, InkedJoined
  <2>3. QED
    BY <2>1, <2>2
<1>10. Inked(s) = Inked(t)
  BY <1>5, <1>9 DEF JoinedBy
<1>11. Inked(b) \in Seq(S) /\ Inked(a) \in Seq(S)
  BY <1>2, InkedType
<1>12. Inked(s) # <<>>
  <2>1. PICK x, y : x = Inked(b) /\ y = Inked(a)
    OBVIOUS
  <2>2. x \o <<eq>> \o y # <<>>
    BY ONLY <1>2, <1>11, <2>1
  <2>3. QED
    BY <1>9, <2>1, <2>2 DEF JoinedBy
<1>13. QED
  BY <1>6, <1>10, <1>12

LEMMA SemicolonInked ==
  ASSUME NEW sep, IsSemicolon(sep)
  PROVE  sep \notin Blanks
BY DEF IsSemicolon, Blanks, SP, HTAB

\* What a piece of the text adds to the elements seen.
LEMMA ElementOfPiece ==
  ASSUME NEW S, NEW s \in Seq(S), NEW sep, sep \notin LexemesOf(s)
  PROVE  /\ Trim(s) = <<>> => EntryList(Inked(s), sep) = <<>>
         /\ "=" \in LexemesOf(Trim(s)) =>
              EntryList(Inked(s), sep) = <<Inked(Rendered(TagOf(Trim(s))))>>
<1>1. PICK m : m = Trim(s) /\ m \in Seq(S)
  BY TrimParts
<1>2. Inked(m) = Inked(s)
  BY <1>1, InkOfTrimmed DEF Inked
<1>3. PICK i : i = Inked(s)
  OBVIOUS
<1>4. i \in Seq(S) /\ sep \notin LexemesOf(i)
  BY <1>3, InkedType
<1>5. Split(i, sep) = <<i>>
  BY <1>4, SplitWhole
<1>6. (i = <<>> => EntryList(i, sep) = <<>>) /\ (i # <<>> => EntryList(i, sep) = <<i>>)
  BY <1>5, NonEmptySingle DEF EntryList
<1>7. CASE m = <<>>
  <2>1. m = <<>> /\ IsBlank(m)
    BY <1>7 DEF IsBlank, LexemesOf
  <2>2. Inked(m) = <<>>
    BY <1>1, <2>1, InkOfBlank DEF Inked
  <2>3. "=" \notin LexemesOf(m)
    BY <1>7 DEF LexemesOf
  <2>4. QED
    BY <1>1, <1>2, <1>3, <1>6, <2>2, <2>3
<1>8. ASSUME "=" \in LexemesOf(m)
      PROVE  EntryList(Inked(s), sep) = <<Inked(Rendered(TagOf(m)))>>
  <2>1. Inked(m) = Inked(Rendered(TagOf(m))) /\ Inked(m) # <<>>
    BY <1>1, <1>8, InkedTag
  <2>2. QED
    BY <1>2, <1>3, <1>6, <2>1
<1>9. QED
  BY <1>1, <1>7, <1>8, <1>3, <1>6, <1>2

LEMMA NothingIsBlank ==
  ASSUME NEW S, NEW z, Nothing(z)
  PROVE  z \in Seq(S) /\ IsBlank(z)
<1>1. z = <<>>
  BY DEF Nothing
<1>2. z \in Seq(S)
  BY <1>1
<1>3. LexemesOf(z) = {}
  BY <1>1 DEF LexemesOf
<1>4. QED
  BY <1>2, <1>3 DEF IsBlank

\* The elements seen, one piece further.
LEMMA SeenElements ==
  ASSUME NEW S, NEW s \in Seq(S), NEW sep \in S, IsSemicolon(sep), NEW k \in DOMAIN Split(s, sep)
  PROVE  /\ EntryList(Inked(Seen(s, sep, k)), sep)
              = EntryList(Inked(Seen(s, sep, k - 1)), sep) \o EntryList(Inked(Split(s, sep)[k]), sep)
         /\ EntryList(Inked(Seen(s, sep, k - 1)), sep) \in Seq(Seq(S))
         /\ Split(s, sep)[k] \in Seq(S) /\ sep \notin LexemesOf(Split(s, sep)[k])
<1>1. PICK p : p = Split(s, sep)[k]
  OBVIOUS
<1>2. p \in Seq(S) /\ sep \notin LexemesOf(p)
  BY <1>1, SplitType
<1>3. sep \notin Blanks
  BY SemicolonInked
<1>4. PICK i : i = Inked(p) /\ i \in Seq(S)
  BY <1>2, InkedType
<1>5. PICK T : T = Seq(S)
  OBVIOUS
<1>6. EntryList(i, sep) \in Seq(T)
  BY <1>4, <1>5, EntryListType
<1>7. CASE k = 1
  <2>1. PICK z : Nothing(z) /\ z = Seen(s, sep, 0)
    BY SeenAtFirst DEF Nothing
  <2>2. Seen(s, sep, 1) = p
    BY <1>1, <1>7, SeenAtFirst
  <2>3. z \in Seq(S) /\ IsBlank(z)
    BY <2>1, NothingIsBlank
  <2>4. Inked(z) = <<>>
    BY <2>3, InkOfBlank DEF Inked
  <2>5. PICK y : y = Inked(z) /\ Nothing(y)
    BY <2>4 DEF Nothing
  <2>6. EntryList(y, sep) = y /\ Nothing(EntryList(y, sep))
    BY <2>5, NoEntries DEF Nothing
  <2>7. EntryList(y, sep) \o EntryList(i, sep) = EntryList(i, sep)
    BY <1>6, <2>6, ConcatNothing
  <2>8. EntryList(y, sep) \in Seq(T)
    BY <2>6 DEF Nothing
  <2>9. k - 1 = 0
    BY <1>7
  <2>10. Seen(s, sep, k - 1) = z /\ Seen(s, sep, k) = p
    BY <1>7, <2>1, <2>2, <2>9
  <2>11. QED
    BY <1>1, <1>2, <1>4, <1>5, <2>5, <2>7, <2>8, <2>10
<1>8. CASE k # 1
  <2>1. PICK u, t : u = Seen(s, sep, k - 1) /\ t = Seen(s, sep, k)
    OBVIOUS
  <2>2. JoinedBy(t, u, sep, p) /\ u \in Seq(S)
    BY <1>1, <1>8, <2>1, SeenStep
  <2>3. JoinedBy(Inked(t), Inked(u), sep, Inked(p))
    BY <1>2, <1>3, <2>2, InkedJoined
  <2>4. PICK x, y : x = Inked(t) /\ y = Inked(u)
    OBVIOUS
  <2>5. y \in Seq(S) /\ JoinedBy(x, y, sep, i)
    BY <1>4, <2>2, <2>3, <2>4, InkedType
  <2>6. EntryList(x, sep) = EntryList(y, sep) \o EntryList(i, sep)
    <3>1. i \in Seq(S)
      BY <1>4
    <3>2. QED
      BY <2>5, <3>1, EntryListJoined
  <2>7. EntryList(y, sep) \in Seq(T)
    BY <1>5, <2>5, EntryListType
  <2>8. QED
    BY <1>1, <1>2, <1>4, <1>5, <2>1, <2>4, <2>6, <2>7
<1>9. QED
  BY <1>7, <1>8

RenderedTags(list) == [i \in DOMAIN list |-> Inked(Rendered(list[i]))]

LEMMA RenderedAppend ==
  ASSUME NEW n \in Nat, NEW list, list = [i \in 1..n |-> list[i]], NEW tag
  PROVE  RenderedTags(Append(list, tag)) = RenderedTags(list) \o <<Inked(Rendered(tag))>>
<1>1. PICK A : A = {list[i] : i \in 1..n} \union {tag}
  OBVIOUS
<1>2. list \in Seq(A) /\ Len(list) = n /\ tag \in A
  <2>1. list \in [1..n -> A]
    BY <1>1
  <2>2. QED
    BY <1>1, <2>1, ListType
<1>3. PICK F : F = [x \in A |-> Inked(Rendered(x))]
  OBVIOUS
<1>4. PICK B : B = {F[x] : x \in A}
  OBVIOUS
<1>5. PICK f : f = [i \in 1..n |-> F[list[i]]]
  OBVIOUS
<1>6. \A i \in 1..n : list[i] \in A
  BY <1>1
<1>7. f \in [1..n -> B]
  BY <1>4, <1>5, <1>6
<1>8. f \in Seq(B) /\ Len(f) = n
  BY <1>7, ListType
<1>9. RenderedTags(list) = f
  BY <1>2, <1>3, <1>5, <1>6 DEF RenderedTags
<1>10. PICK g : g = Append(list, tag)
  OBVIOUS
<1>11. DOMAIN g = 1..(n + 1) /\ g[n + 1] = tag /\ \A i \in 1..n : g[i] = list[i]
  BY ONLY <1>2, <1>10, n \in Nat
<1>12. PICK b : b = F[tag] /\ b \in B /\ b = Inked(Rendered(tag))
  BY <1>2, <1>3, <1>4
<1>13. PICK h : h = f \o <<b>>
  OBVIOUS
<1>14. /\ DOMAIN h = 1..(n + 1) /\ h[n + 1] = b /\ \A i \in 1..n : h[i] = f[i]
       /\ h \in Seq(B)
  BY ONLY <1>8, <1>12, <1>13, n \in Nat
<1>15. RenderedTags(g) = h
  <2>1. \A i \in 1..(n + 1) : Inked(Rendered(g[i])) = h[i]
    <3> TAKE i \in 1..(n + 1)
    <3>1. CASE i = n + 1
      BY <1>11, <1>12, <1>14, <3>1
    <3>2. CASE i \in 1..n
      BY <1>3, <1>5, <1>6, <1>11, <1>14, <3>2
    <3>3. QED
      BY <3>1, <3>2
  <2>2. h = [i \in 1..(n + 1) |-> h[i]]
    BY ONLY <1>14
  <2>3. QED
    BY <1>11, <2>1, <2>2 DEF RenderedTags
<1>16. QED
  BY <1>9, <1>10, <1>12, <1>13, <1>15

\* The elements of the text seen are the tags pushed.
SeenIsPushed ==
  next # 0 => EntryList(Inked(Seen(text, ";", next - 1)), ";") = RenderedTags(tags)

DropInv ==
  /\ LoopInv
  /\ SeenIsPushed
  /\ result = Pass => next # 0 /\ next = Len(segments) + 1

LEMMA NothingPushed == RenderedTags(<<>>) = <<>>
BY DEF RenderedTags

LEMMA PieceOfSegment ==
  ASSUME NEW S, NEW s \in Seq(S), NEW sep, IsSemicolon(sep), NEW k \in DOMAIN Segments(s)
  PROVE  k \in DOMAIN Split(s, sep) /\ Segments(s)[k] = Trim(Split(s, sep)[k])
<1>1. Segments(s) = Trims(Split(s, sep))
  BY SegmentsAreTrims DEF IsSemicolon
<1>2. QED
  BY <1>1 DEF Trims

LEMMA SeenNextPiece ==
  ASSUME LoopInv, SeenIsPushed, InLoop
  PROVE  /\ Segment = <<>> =>
              EntryList(Inked(Seen(text, ";", next)), ";") = RenderedTags(tags)
         /\ IsTag(Segment) =>
              EntryList(Inked(Seen(text, ";", next)), ";")
                = RenderedTags(tags) \o <<Inked(Rendered(TagOf(Segment)))>>
<1>1. PICK sep, S : IsSemicolon(sep) /\ S = STRING \union {sep}
  BY DEF IsSemicolon
<1>2. PICK s, k : s = text /\ k = next
  OBVIOUS
<1>3. next # 0 /\ segments = Segments(text) /\ next \in DOMAIN segments
  <2>1. next # 0
    <3>1. CASE next = 0
      BY <3>1 DEF LoopInv, InLoop
    <3>2. QED
      BY <3>1
  <2>2. QED
    BY <2>1 DEF LoopInv, InLoop
<1>4. s \in Seq(S) /\ sep \in S
  <2>1. PICK A : A = STRING /\ \A x \in A : x \in S
    BY <1>1
  <2>2. s \in Seq(A)
    BY <1>2, <2>1 DEF LoopInv
  <2>3. s \in Seq(S)
    BY <2>1, <2>2, WiderSeq
  <2>4. QED
    BY <1>1, <2>3
<1>5. k \in DOMAIN Split(s, sep) /\ Segment = Trim(Split(s, sep)[k])
  <2>1. k \in DOMAIN Segments(s) /\ Segment = Segments(s)[k]
    BY <1>2, <1>3 DEF Segment
  <2>2. QED
    BY <1>1, <1>4, <2>1, PieceOfSegment
<1>6. PICK p : p = Split(s, sep)[k]
  OBVIOUS
<1>7. k \in DOMAIN Split(s, sep)
  BY <1>5
<1>8. /\ EntryList(Inked(Seen(s, sep, k)), sep)
           = EntryList(Inked(Seen(s, sep, k - 1)), sep) \o EntryList(Inked(Split(s, sep)[k]), sep)
      /\ EntryList(Inked(Seen(s, sep, k - 1)), sep) \in Seq(Seq(S))
      /\ Split(s, sep)[k] \in Seq(S) /\ sep \notin LexemesOf(Split(s, sep)[k])
  <2>1. IsSemicolon(sep)
    BY <1>1
  <2>2. QED
    BY <1>4, <1>7, <2>1, SeenElements
<1>9. p \in Seq(S) /\ sep \notin LexemesOf(p)
  BY <1>6, <1>8
<1>10. /\ Trim(p) = <<>> => EntryList(Inked(p), sep) = <<>>
       /\ "=" \in LexemesOf(Trim(p)) =>
            EntryList(Inked(p), sep) = <<Inked(Rendered(TagOf(Trim(p))))>>
  BY <1>9, ElementOfPiece
<1>11. PICK r : r = EntryList(Inked(Seen(s, sep, k - 1)), sep) /\ r = RenderedTags(tags)
  BY <1>1, <1>2, <1>3 DEF SeenIsPushed, IsSemicolon
<1>12. r \o <<>> = r
  <2>1. PICK T : T = Seq(S)
    OBVIOUS
  <2>2. r \in Seq(T)
    BY <1>8, <1>11, <2>1
  <2>3. QED
    BY <2>2, EmptyConcat
<1>13. EntryList(Inked(Seen(s, sep, k)), sep) = r \o EntryList(Inked(p), sep)
  BY <1>6, <1>8, <1>11
<1>14. Segment = Trim(p)
  BY <1>5, <1>6
<1>15. EntryList(Inked(Seen(text, ";", next)), ";") = EntryList(Inked(Seen(s, sep, k)), sep)
  BY <1>1, <1>2 DEF IsSemicolon
<1>16. IsTag(Segment) => "=" \in LexemesOf(Segment)
  BY DEF IsTag
<1>17. QED
  BY <1>10, <1>11, <1>12, <1>13, <1>14, <1>15, <1>16

LEMMA TagsAreList ==
  ASSUME LoopInv, next # 0
  PROVE  \E n \in Nat : tags = [i \in 1..n |-> tags[i]]
<1>1. tags = TagsUpTo(text, next) /\ text \in Seq(STRING) /\ next \in Int
  BY DEF LoopInv
<1>2. PICK A, s, k : A = STRING /\ s = text /\ k = next /\ s \in Seq(A) /\ k \in Int
  BY <1>1
<1>3. Pushed(s, k) \in Nat
  BY <1>2, PushedType
<1>4. QED
  BY <1>1, <1>2, <1>3 DEF TagsUpTo

LEMMA DropInvInit == LoopInit => DropInv
BY LoopInvInit DEF LoopInit, DropInv, SeenIsPushed, Pass

LEMMA DropInvStep ==
  ASSUME DropInv, [LoopNext]_loopVars
  PROVE  DropInv'
<1>1. LoopInv /\ SeenIsPushed
  BY DEF DropInv
<1>2. LoopInv'
  BY <1>1, LoopInvStep
<1>3. CASE OctetGate
  <2>1. CASE UNCHANGED <<text, segments, next, tags>> /\ result' = "malformed_tag"
    BY <1>1, <1>2, <2>1 DEF DropInv, SeenIsPushed, Pass
  <2>2. CASE next = 0 /\ next' = 1 /\ Running /\ UNCHANGED <<text, tags, result>>
    <3>1. tags' = <<>>
      BY <1>1, <2>2 DEF LoopInv
    <3>2. PICK A, s : A = STRING /\ s = text /\ s \in Seq(A)
      BY <1>1 DEF LoopInv
    <3>3. Seen(s, ";", 0) = <<>>
      BY <3>2, SeenAtFirst
    <3>4. PICK z : Nothing(z) /\ z = Seen(s, ";", 0)
      BY <3>3 DEF Nothing
    <3>5. z \in Seq(A) /\ IsBlank(z)
      BY <3>4, NothingIsBlank
    <3>6. Inked(z) = <<>>
      BY <3>5, InkOfBlank DEF Inked
    <3>7. PICK y : y = Inked(z) /\ Nothing(y)
      BY <3>6 DEF Nothing
    <3>8. EntryList(y, ";") = <<>>
      BY <3>7, NoEntries DEF Nothing
    <3>9. text' = s /\ next' - 1 = 0
      BY <2>2, <3>2
    <3>10. SeenIsPushed'
      BY <3>1, <3>4, <3>7, <3>8, <3>9, NothingPushed DEF SeenIsPushed
    <3>11. result' # Pass
      BY <2>2 DEF Running, Pass
    <3>12. QED
      BY <1>2, <3>10, <3>11 DEF DropInv
  <2>3. QED
    BY <1>3, <2>1, <2>2 DEF OctetGate, Refuse
<1>4. CASE SkipBlank
  <2>1. /\ InLoop /\ Segment = <<>> /\ next' = next + 1 /\ UNCHANGED <<text, segments, tags, result>>
    BY <1>4 DEF SkipBlank
  <2>2. EntryList(Inked(Seen(text, ";", next)), ";") = RenderedTags(tags)
    BY <1>1, <2>1, SeenNextPiece
  <2>3. next' - 1 = next
    BY <1>1, <2>1 DEF LoopInv
  <2>4. SeenIsPushed'
    BY <2>1, <2>2, <2>3 DEF SeenIsPushed
  <2>5. result' # Pass
    BY <2>1 DEF InLoop, Running, Pass
  <2>6. QED
    BY <1>2, <2>4, <2>5 DEF DropInv
<1>5. CASE RefuseSegment
  <2>1. /\ UNCHANGED <<text, segments, next, tags>> /\ result' \in {"malformed_tag", "duplicate_tag"}
    BY <1>5 DEF RefuseSegment, Refuse
  <2>2. SeenIsPushed'
    BY <1>1, <2>1 DEF SeenIsPushed
  <2>3. QED
    BY <1>2, <2>1, <2>2 DEF DropInv, Pass
<1>6. CASE PushTag
  <2>1. /\ InLoop /\ IsTag(Segment) /\ tags' = Append(tags, TagOf(Segment))
        /\ next' = next + 1 /\ UNCHANGED <<text, segments, result>>
    BY <1>6 DEF PushTag
  <2>2. EntryList(Inked(Seen(text, ";", next)), ";")
          = RenderedTags(tags) \o <<Inked(Rendered(TagOf(Segment)))>>
    BY <1>1, <2>1, SeenNextPiece
  <2>3. next # 0
    <3>1. CASE next = 0
      BY <1>1, <2>1, <3>1 DEF LoopInv, InLoop
    <3>2. QED
      BY <3>1
  <2>4. RenderedTags(tags') = RenderedTags(tags) \o <<Inked(Rendered(TagOf(Segment)))>>
    <3>1. PICK n \in Nat : tags = [i \in 1..n |-> tags[i]]
      BY <1>1, <2>3, TagsAreList
    <3>2. PICK list, tag : list = tags /\ tag = TagOf(Segment)
      OBVIOUS
    <3>3. list = [i \in 1..n |-> list[i]]
      BY <3>1, <3>2
    <3>4. RenderedTags(Append(list, tag)) = RenderedTags(list) \o <<Inked(Rendered(tag))>>
      BY <3>3, RenderedAppend
    <3>5. QED
      BY <2>1, <3>2, <3>4
  <2>5. next' - 1 = next
    BY <1>1, <2>1 DEF LoopInv
  <2>6. SeenIsPushed'
    BY <2>1, <2>2, <2>4, <2>5 DEF SeenIsPushed
  <2>7. result' # Pass
    BY <2>1 DEF InLoop, Running, Pass
  <2>8. QED
    BY <1>2, <2>6, <2>7 DEF DropInv
<1>7. CASE Finish
  <2>1. /\ Running /\ next = Len(segments) + 1 /\ UNCHANGED <<text, segments, next, tags>>
    BY <1>7 DEF Finish
  <2>2. SeenIsPushed'
    BY <1>1, <2>1 DEF SeenIsPushed
  <2>3. next # 0
    <3>1. CASE next = 0
      <4>1. segments = <<>>
        BY <1>1, <3>1 DEF LoopInv
      <4>2. Len(segments) = 0
        BY <4>1
      <4>3. QED
        BY <2>1, <3>1, <4>2
    <3>2. QED
      BY <3>1
  <2>4. QED
    BY <1>2, <2>1, <2>2, <2>3 DEF DropInv
<1>8. CASE UNCHANGED loopVars
  BY <1>1, <1>2, <1>8 DEF DropInv, SeenIsPushed, loopVars
<1>9. QED
  BY <1>3, <1>4, <1>5, <1>6, <1>7, <1>8 DEF LoopNext

\* Nothing of an accepted record is dropped (NothingDropped), whatever its
\* length and its lexemes.
THEOREM NothingOfTheRecordIsDropped == LoopSpec => []NothingDropped
<1>1. DropInv => NothingDropped
  <2> SUFFICES ASSUME DropInv, result = Pass
               PROVE  NonEmpty(Split(Inked(text), ";")) = RenderedTags(tags)
    BY DEF NothingDropped, RenderedTags
  <2>1. next # 0 /\ next = Len(segments) + 1 /\ LoopInv /\ SeenIsPushed
    BY DEF DropInv
  <2>2. PICK A, s : A = STRING /\ s = text /\ s \in Seq(A)
    BY <2>1 DEF LoopInv
  <2>3. segments = Segments(s)
    BY <2>1, <2>2 DEF LoopInv
  <2>4. Len(segments) = Len(Split(s, ";"))
    <3>1. PICK T, p : T = Seq(A) /\ p = Split(s, ";") /\ p \in Seq(T)
      BY <2>2, SplitType
    <3>2. p \in Seq(Seq(A))
      BY <3>1
    <3>3. Len(Trims(p)) = Len(p)
      BY <3>2, TrimsType
    <3>4. QED
      BY <2>3, <3>1, <3>3, SegmentsAreTrims
  <2>5. Seen(s, ";", Len(Split(s, ";"))) = s
    BY <2>2, SeenAtLast
  <2>6. next - 1 = Len(segments)
    BY <2>1 DEF LoopInv
  <2>7. EntryList(Inked(Seen(text, ";", next - 1)), ";") = RenderedTags(tags)
    BY <2>1 DEF SeenIsPushed
  <2>8. QED
    BY <2>2, <2>4, <2>5, <2>6, <2>7 DEF EntryList
<1>2. QED
  BY <1>1, DropInvInit, DropInvStep, PTL DEF LoopSpec

=============================================================================
