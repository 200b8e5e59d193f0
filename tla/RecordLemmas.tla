---------------------------- MODULE RecordLemmas ----------------------------
(***************************************************************************)
(* Lemmas about the tags of a record and what the two parsers take from    *)
(* them, for texts of any length over any lexemes.                         *)
(***************************************************************************)
EXTENDS Records, TextLemmas

-----------------------------------------------------------------------------
(* Tag lists. *)

Trims(pieces) == [i \in DOMAIN pieces |-> Trim(pieces[i])]

LEMMA SegmentsAreTrims ==
  ASSUME NEW s
  PROVE  /\ Segments(s) = Trims(Split(s, ";"))
         /\ Written(s) = NonEmpty(Trims(Split(s, ";")))
BY DEF Segments, Trims, Written

LEMMA TrimsType ==
  ASSUME NEW S, NEW p \in Seq(Seq(S))
  PROVE  /\ Trims(p) \in Seq(Seq(S)) /\ Len(Trims(p)) = Len(p)
         /\ \A i \in 1..Len(p) : Trims(p)[i] = Trim(p[i])
<1>1. PICK T : T = Seq(S)
  OBVIOUS
<1>2. PICK n \in Nat : n = Len(p) /\ DOMAIN p = 1..n
  OBVIOUS
<1>3. \A i \in 1..n : p[i] \in Seq(S)
  BY <1>2
<1>4. \A i \in 1..n : Trim(p[i]) \in T
  BY <1>1, <1>3, TrimParts
<1>5. PICK r : r = Trims(p)
  OBVIOUS
<1>6. r = [i \in 1..n |-> Trim(p[i])]
  BY <1>2, <1>5 DEF Trims
<1>7. r \in [1..n -> T]
  BY <1>4, <1>6
<1>8. r \in Seq(T) /\ Len(r) = n
  BY <1>7, ListType
<1>9. QED
  BY <1>1, <1>2, <1>5, <1>6, <1>8

LEMMA TrimsConcat ==
  ASSUME NEW S, NEW p \in Seq(Seq(S)), NEW q \in Seq(Seq(S))
  PROVE  Trims(p \o q) = Trims(p) \o Trims(q)
<1>1. PICK T : T = Seq(S)
  OBVIOUS
<1>2. PICK a, b, m : a = Len(p) /\ b = Len(q) /\ m = a + b
  OBVIOUS
<1>3. PICK u : u = p \o q
  OBVIOUS
<1>4. /\ u \in Seq(T) /\ Len(u) = m
      /\ \A k \in 1..a : u[k] = p[k]
      /\ \A k \in 1..b : u[a + k] = q[k]
  <2>1. p \in Seq(T) /\ q \in Seq(T)
    BY <1>1
  <2>2. QED
    BY <1>2, <1>3, <2>1, ConcatAt
<1>5. PICK x : x = Trims(p) /\ x \in Seq(T) /\ Len(x) = a /\ \A k \in 1..a : x[k] = Trim(p[k])
  BY <1>1, <1>2, TrimsType
<1>6. PICK y : y = Trims(q) /\ y \in Seq(T) /\ Len(y) = b /\ \A k \in 1..b : y[k] = Trim(q[k])
  BY <1>1, <1>2, TrimsType
<1>7. PICK z : z = Trims(u) /\ z \in Seq(T) /\ Len(z) = m /\ \A k \in 1..m : z[k] = Trim(u[k])
  BY <1>1, <1>4, TrimsType
<1>8. PICK v : v = x \o y
  OBVIOUS
<1>9. /\ v \in Seq(T) /\ Len(v) = m
      /\ \A k \in 1..a : v[k] = x[k]
      /\ \A k \in 1..b : v[a + k] = y[k]
  <2>1. x \in Seq(T) /\ y \in Seq(T) /\ Len(x) = a /\ Len(y) = b
    BY <1>5, <1>6
  <2>2. /\ x \o y \in Seq(T) /\ Len(x \o y) = Len(x) + Len(y)
        /\ \A k \in 1..Len(x) : (x \o y)[k] = x[k]
        /\ \A k \in 1..Len(y) : (x \o y)[Len(x) + k] = y[k]
    BY <2>1, ConcatAt
  <2>3. QED
    BY <1>2, <1>8, <2>1, <2>2
<1>10. a \in Nat /\ b \in Nat /\ m \in Nat
  BY <1>2
<1>11. ASSUME NEW k \in 1..m PROVE z[k] = v[k]
  <2>1. CASE k \in 1..a
    BY <1>4, <1>5, <1>7, <1>9, <2>1
  <2>2. ASSUME NEW j \in 1..b, k = a + j PROVE z[k] = v[k]
    BY <1>4, <1>6, <1>7, <1>9, <2>2
  <2>3. k \in 1..a \/ (k - a \in 1..b /\ k = a + (k - a))
    BY <1>2, <1>10
  <2>4. QED
    BY <2>1, <2>2, <2>3
<1>12. z = v
  BY <1>7, <1>9, <1>11, SeqEqual
<1>13. QED
  BY <1>3, <1>5, <1>6, <1>7, <1>8, <1>12

\* A list of pieces is written as its parts are.
LEMMA WrittenParts ==
  ASSUME NEW S, NEW p \in Seq(Seq(S)), NEW q \in Seq(Seq(S))
  PROVE  /\ NonEmpty(Trims(p \o q)) = NonEmpty(Trims(p)) \o NonEmpty(Trims(q))
         /\ NonEmpty(Trims(p)) \in Seq(Seq(S))
<1>1. Trims(p) \in Seq(Seq(S)) /\ Trims(q) \in Seq(Seq(S))
  BY TrimsType
<1>2. PICK T : T = Seq(S)
  OBVIOUS
<1>3. PICK x, y : x = Trims(p) /\ y = Trims(q)
  OBVIOUS
<1>4. x \in Seq(T) /\ y \in Seq(T)
  BY <1>1, <1>2, <1>3
<1>5. NonEmpty(x \o y) = NonEmpty(x) \o NonEmpty(y) /\ NonEmpty(x) \in Seq(T)
  BY <1>4, NonEmptyConcat
<1>6. Trims(p \o q) = x \o y
  BY <1>3, TrimsConcat
<1>7. QED
  BY <1>2, <1>3, <1>5, <1>6

LEMMA WrittenType ==
  ASSUME NEW S, NEW s \in Seq(S)
  PROVE  /\ Written(s) \in Seq(Seq(S)) /\ Segments(s) \in Seq(Seq(S))
         /\ \A i \in DOMAIN Written(s) : Written(s)[i] # <<>>
         /\ \A i \in DOMAIN Written(s) : \E j \in DOMAIN Split(s, ";") :
              Written(s)[i] = Trim(Split(s, ";")[j])
<1>1. PICK p : p = Split(s, ";") /\ p \in Seq(Seq(S))
  BY SplitType
<1>2. PICK r : r = Trims(p)
  OBVIOUS
<1>3. r \in Seq(Seq(S)) /\ DOMAIN r = DOMAIN p /\ \A i \in DOMAIN p : r[i] = Trim(p[i])
  <2>1. /\ r \in Seq(Seq(S)) /\ Len(r) = Len(p)
        /\ \A i \in 1..Len(p) : r[i] = Trim(p[i])
    BY <1>1, <1>2, TrimsType
  <2>2. PICK T : T = Seq(S)
    OBVIOUS
  <2>3. p \in Seq(T) /\ r \in Seq(T) /\ Len(r) = Len(p)
    BY <1>1, <2>1, <2>2
  <2>4. DOMAIN p = 1..Len(p) /\ DOMAIN r = 1..Len(p)
    BY <2>3
  <2>5. QED
    BY <2>1, <2>4
<1>4. Segments(s) = r /\ Written(s) = Picked(r, Filled(r))
  BY <1>1, <1>2, SegmentsAreTrims DEF NonEmpty
<1>5. PICK f : f = Filled(r)
  OBVIOUS
<1>6. f \subseteq DOMAIN r /\ \A i \in f : r[i] # <<>>
  BY <1>5 DEF Filled
<1>7. PICK T : T = Seq(S)
  OBVIOUS
<1>8. PICK w : w = Picked(r, f)
  OBVIOUS
<1>9. w \in Seq(T) /\ \A k \in DOMAIN w : \E i \in f : w[k] = r[i]
  <2>1. r \in Seq(T)
    BY <1>3, <1>7
  <2>2. QED
    BY <1>6, <1>8, <2>1, PickedType
<1>10. Written(s) = w /\ Segments(s) = r
  BY <1>4, <1>5, <1>8
<1>11. \A i \in DOMAIN w : w[i] # <<>> /\ \E j \in DOMAIN p : w[i] = Trim(p[j])
  <2> TAKE i \in DOMAIN w
  <2>1. PICK j \in f : w[i] = r[j]
    BY <1>9
  <2>2. QED
    BY <1>3, <1>6, <2>1
<1>12. w \in Seq(Seq(S)) /\ r \in Seq(Seq(S))
  BY <1>3, <1>7, <1>9
<1>13. QED
  BY <1>1, <1>10, <1>11, <1>12


-----------------------------------------------------------------------------
(* The first fault of a tag list. *)

FaultyPlaces(s) == {i \in DOMAIN Written(s) : FaultAt(Written(s), i) # Pass}
FirstFaulty(s)  == CHOOSE i \in FaultyPlaces(s) : \A j \in FaultyPlaces(s) : i <= j

FirstTagFault(s) ==
  IF FaultyPlaces(s) = {} THEN Pass ELSE FaultAt(Written(s), FirstFaulty(s))

LEMMA TagsFaultStages ==
  ASSUME NEW s
  PROVE  TagsFault(s) = (Check(PassesOctetGate(s), "malformed_tag")
                         ?? FirstTagFault(s)
                         ?? Check(Written(s) # <<>> /\ TagOf(Written(s)[1]) = VersionTag,
                                  "not_sworn"))
BY DEF TagsFault, FirstTagFault, FirstFaulty, FaultyPlaces

LEMMA FirstFaultyIsFaulty ==
  ASSUME NEW S, NEW s \in Seq(S), FaultyPlaces(s) # {}
  PROVE  FirstFaulty(s) \in FaultyPlaces(s)
<1>1. PICK T, w : w = Written(s) /\ T = Seq(S) /\ w \in Seq(T)
  BY WrittenType
<1>2. FaultyPlaces(s) \subseteq DOMAIN w
  BY <1>1 DEF FaultyPlaces
<1>3. IsPlaces(FaultyPlaces(s))
  BY <1>1, <1>2, PlacesInText
<1>4. \E i \in FaultyPlaces(s) : \A j \in FaultyPlaces(s) : i <= j
  BY <1>3, FirstOfPlaces
<1>5. QED
  BY <1>4 DEF FirstFaulty

\* The errors of parse_tags.
LEMMA TagsFaultType ==
  ASSUME NEW S, NEW s \in Seq(S)
  PROVE  TagsFault(s) \in {Pass, "malformed_tag", "duplicate_tag", "not_sworn"}
<1>1. \A i : FaultAt(Written(s), i) \in {Pass, "malformed_tag", "duplicate_tag"}
  BY DEF FaultAt, Check, Pass, ??
<1>2. QED
  BY <1>1 DEF TagsFault, Check, Pass, ??

LEMMA WrittenDomain ==
  ASSUME NEW S, NEW s \in Seq(S)
  PROVE  \E n \in Nat : DOMAIN Written(s) = 1..n
<1>1. PICK T, w : w = Written(s) /\ T = Seq(S) /\ w \in Seq(T)
  BY WrittenType
<1>2. QED
  BY <1>1

\* Without a fault the record is of this version, every segment that is not
\* blank is a tag, and no name is said twice.
LEMMA TagsOfSoundRecord ==
  ASSUME NEW S, NEW s \in Seq(S), TagsFault(s) = Pass
  PROVE  /\ PassesOctetGate(s)
         /\ Written(s) # <<>> /\ TagOf(Written(s)[1]) = VersionTag
         /\ \A i, j \in DOMAIN Tags(s) : Tags(s)[i].name = Tags(s)[j].name => i = j
<1> DEFINE last == Check(Written(s) # <<>> /\ TagOf(Written(s)[1]) = VersionTag, "not_sworn")
           body == IF FaultyPlaces(s) = {} THEN Pass
                   ELSE FaultAt(Written(s), FirstFaulty(s))
<1>1. TagsFault(s) = Check(PassesOctetGate(s), "malformed_tag") ?? body ?? last
  BY DEF TagsFault, FaultyPlaces, FirstFaulty
<1>2. PassesOctetGate(s) /\ body = Pass /\ last = Pass
  <2> HIDE DEF body, last
  <2>1. QED
    BY <1>1 DEF Check, Pass, ??
<1>3. Written(s) # <<>> /\ TagOf(Written(s)[1]) = VersionTag
  BY <1>2 DEF Check, Pass
<1>4. FaultyPlaces(s) = {}
  <2> SUFFICES ASSUME FaultyPlaces(s) # {} PROVE FALSE
    OBVIOUS
  <2>1. FirstFaulty(s) \in FaultyPlaces(s)
    BY FirstFaultyIsFaulty
  <2>2. QED
    BY <1>2, <2>1 DEF FaultyPlaces
<1>5. \A i \in DOMAIN Written(s), j \in DOMAIN Written(s) :
        j < i => TagOf(Written(s)[j]).name # TagOf(Written(s)[i]).name
  <2> SUFFICES ASSUME NEW i \in DOMAIN Written(s), NEW j \in DOMAIN Written(s), j < i
               PROVE  TagOf(Written(s)[j]).name # TagOf(Written(s)[i]).name
    OBVIOUS
  <2>1. FaultAt(Written(s), i) = Pass
    BY <1>4 DEF FaultyPlaces
  <2>2. \A k \in 1..(i - 1) : TagOf(Written(s)[k]).name # TagOf(Written(s)[i]).name
    BY <2>1 DEF FaultAt, Check, Pass, ??
  <2>3. j \in 1..(i - 1)
    BY WrittenDomain
  <2>4. QED
    BY <2>2, <2>3
<1>6. ASSUME NEW i \in DOMAIN Tags(s), NEW j \in DOMAIN Tags(s),
             Tags(s)[i].name = Tags(s)[j].name
      PROVE  i = j
  <2>1. i \in DOMAIN Written(s) /\ j \in DOMAIN Written(s)
    BY DEF Tags
  <2>2. Tags(s)[i] = TagOf(Written(s)[i]) /\ Tags(s)[j] = TagOf(Written(s)[j])
    BY <2>1 DEF Tags
  <2>3. i \in Int /\ j \in Int
    BY <2>1, WrittenDomain
  <2>4. QED
    BY <1>5, <1>6, <2>1, <2>2, <2>3
<1>7. QED
  BY <1>2, <1>3, <1>6

-----------------------------------------------------------------------------
(* Lists of segments that say the same. *)

AlikeLists(p, q) ==
  /\ Len(p) = Len(q)
  /\ \A i \in 1..Len(p) : TagOf(p[i]) = TagOf(q[i]) /\ (IsTag(p[i]) <=> IsTag(q[i]))

LEMMA AlikeConcat ==
  ASSUME NEW T, NEW p \in Seq(T), NEW p1 \in Seq(T), NEW q \in Seq(T), NEW q1 \in Seq(T),
         AlikeLists(p, p1), AlikeLists(q, q1)
  PROVE  AlikeLists(p \o q, p1 \o q1)
<1>1. PICK a, b, m : a = Len(p) /\ b = Len(q) /\ m = a + b
  OBVIOUS
<1>2. a \in Nat /\ b \in Nat /\ a = Len(p1) /\ b = Len(q1)
  BY <1>1 DEF AlikeLists
<1>3. PICK u, u1 : u = p \o q /\ u1 = p1 \o q1
  OBVIOUS
<1>4. Len(u) = m /\ (\A k \in 1..a : u[k] = p[k]) /\ (\A k \in 1..b : u[a + k] = q[k])
  BY <1>1, <1>3, ConcatAt
<1>5. Len(u1) = m /\ (\A k \in 1..a : u1[k] = p1[k]) /\ (\A k \in 1..b : u1[a + k] = q1[k])
  BY <1>1, <1>2, <1>3, ConcatAt
<1>6. \A k \in 1..a : TagOf(p[k]) = TagOf(p1[k]) /\ (IsTag(p[k]) <=> IsTag(p1[k]))
  BY <1>1 DEF AlikeLists
<1>7. \A k \in 1..b : TagOf(q[k]) = TagOf(q1[k]) /\ (IsTag(q[k]) <=> IsTag(q1[k]))
  BY <1>1 DEF AlikeLists
<1>8. ASSUME NEW k \in 1..m
      PROVE  TagOf(u[k]) = TagOf(u1[k]) /\ (IsTag(u[k]) <=> IsTag(u1[k]))
  <2>1. CASE k \in 1..a
    BY <1>4, <1>5, <1>6, <2>1
  <2>2. ASSUME NEW j \in 1..b, k = a + j
        PROVE  TagOf(u[k]) = TagOf(u1[k]) /\ (IsTag(u[k]) <=> IsTag(u1[k]))
    BY <1>4, <1>5, <1>7, <2>2
  <2>3. k \in 1..a \/ (k - a \in 1..b /\ k = a + (k - a))
    BY <1>1, <1>2
  <2>4. QED
    BY <2>1, <2>2, <2>3
<1>9. QED
  BY <1>3, <1>4, <1>5, <1>8 DEF AlikeLists

LEMMA AlikeItself ==
  ASSUME NEW p
  PROVE  AlikeLists(p, p)
BY DEF AlikeLists

SameParse(s, t) == Tags(s) = Tags(t) /\ TagsFault(s) = TagsFault(t)

\* Of two texts whose segments say the same, the tags and the fault are the same.
LEMMA SameTags ==
  ASSUME NEW T, NEW s, NEW t, Written(s) \in Seq(T), Written(t) \in Seq(T),
         AlikeLists(Written(s), Written(t)), PassesOctetGate(s) <=> PassesOctetGate(t)
  PROVE  Tags(s) = Tags(t) /\ TagsFault(s) = TagsFault(t)
<1>1. PICK p, q : p = Written(s) /\ q = Written(t)
  OBVIOUS
<1>2. PICK n : n = Len(p)
  OBVIOUS
<1>3. n \in Nat /\ DOMAIN p = 1..n /\ DOMAIN q = 1..n
  BY <1>1, <1>2 DEF AlikeLists
<1>4. \A i \in 1..n : TagOf(p[i]) = TagOf(q[i]) /\ (IsTag(p[i]) <=> IsTag(q[i]))
  BY <1>1, <1>2 DEF AlikeLists
<1>5. Tags(s) = [i \in 1..n |-> TagOf(p[i])] /\ Tags(t) = [i \in 1..n |-> TagOf(q[i])]
  BY <1>1, <1>3 DEF Tags
<1>6. \A i \in 1..n : FaultAt(p, i) = FaultAt(q, i)
  <2> TAKE i \in 1..n
  <2>1. \A j \in 1..(i - 1) : j \in 1..n
    BY <1>3
  <2>2. (\A j \in 1..(i - 1) : TagOf(p[j]).name # TagOf(p[i]).name)
          <=> (\A j \in 1..(i - 1) : TagOf(q[j]).name # TagOf(q[i]).name)
    BY <1>4, <2>1
  <2>3. QED
    BY <1>4, <2>2 DEF FaultAt, Check
<1>7. FaultyPlaces(s) = FaultyPlaces(t) /\ FirstFaulty(s) = FirstFaulty(t)
  <2>1. FaultyPlaces(s) = FaultyPlaces(t)
    BY <1>1, <1>3, <1>6 DEF FaultyPlaces
  <2>2. QED
    BY <2>1 DEF FirstFaulty
<1>8. ASSUME FaultyPlaces(s) # {} PROVE FirstFaulty(s) \in 1..n
  <2>1. p \in Seq(T) /\ FaultyPlaces(s) \subseteq DOMAIN p
    BY <1>1 DEF FaultyPlaces
  <2>2. IsPlaces(FaultyPlaces(s))
    BY <2>1, PlacesInText
  <2>3. \E i \in FaultyPlaces(s) : \A j \in FaultyPlaces(s) : i <= j
    BY <1>8, <2>2, FirstOfPlaces
  <2>4. FirstFaulty(s) \in FaultyPlaces(s)
    BY <2>3 DEF FirstFaulty
  <2>5. QED
    BY <1>3, <2>1, <2>4
<1>9. FirstTagFault(s) = FirstTagFault(t)
  BY <1>1, <1>6, <1>7, <1>8 DEF FirstTagFault
<1>10. (p # <<>> /\ TagOf(p[1]) = VersionTag) <=> (q # <<>> /\ TagOf(q[1]) = VersionTag)
  <2>1. p # <<>> <=> 1 \in 1..n
    BY <1>1, <1>3
  <2>2. q # <<>> <=> 1 \in 1..n
    BY <1>1, <1>3
  <2>3. QED
    BY <1>4, <2>1, <2>2
<1>11. Check(PassesOctetGate(s), "malformed_tag") = Check(PassesOctetGate(t), "malformed_tag")
  BY DEF Check
<1>12. Check(p # <<>> /\ TagOf(p[1]) = VersionTag, "not_sworn")
         = Check(q # <<>> /\ TagOf(q[1]) = VersionTag, "not_sworn")
  BY <1>10 DEF Check
<1>13. TagsFault(s) = TagsFault(t)
  BY <1>1, <1>9, <1>11, <1>12, TagsFaultStages
<1>14. QED
  BY <1>4, <1>5, <1>13

\* Blanks around a segment are not seen when it is taken apart.
LEMMA TagOfTrimmed ==
  ASSUME NEW S, NEW s \in Seq(S)
  PROVE  TagOf(Trim(s)) = TagOf(s) /\ (IsTag(Trim(s)) <=> IsTag(s))
<1>1. "=" \notin Blanks
  BY DEF Blanks, SP, HTAB
<1>2. /\ "=" \in LexemesOf(Trim(s)) <=> "=" \in LexemesOf(s)
      /\ Trim(Before(Trim(s), "=")) = Trim(Before(s, "="))
      /\ Trim(After(Trim(s), "=")) = Trim(After(s, "="))
  BY <1>1, TrimAroundSeparator
<1>3. TagOf(Trim(s)) = TagOf(s)
  BY <1>2 DEF TagOf
<1>4. QED
  BY <1>2, <1>3 DEF IsTag

AlikePieces(x, y) ==
  (Trim(x) = <<>> <=> Trim(y) = <<>>) /\ TagOf(x) = TagOf(y) /\ (IsTag(x) <=> IsTag(y))

LEMMA AlikeWritten ==
  ASSUME NEW S, NEW x \in Seq(S), NEW y \in Seq(S), AlikePieces(x, y)
  PROVE  AlikeLists(NonEmpty(Trims(<<x>>)), NonEmpty(Trims(<<y>>)))
<1>1. Trims(<<x>>) = <<Trim(x)>> /\ Trims(<<y>>) = <<Trim(y)>>
  BY DEF Trims
<1>2. PICK a, b : a = Trim(x) /\ b = Trim(y)
  OBVIOUS
<1>3. (a = <<>> <=> b = <<>>) /\ TagOf(a) = TagOf(b) /\ (IsTag(a) <=> IsTag(b))
  <2>1. TagOf(a) = TagOf(x) /\ (IsTag(a) <=> IsTag(x))
    BY <1>2, TagOfTrimmed
  <2>2. TagOf(b) = TagOf(y) /\ (IsTag(b) <=> IsTag(y))
    BY <1>2, TagOfTrimmed
  <2>3. QED
    BY <1>2, <2>1, <2>2 DEF AlikePieces
<1>4. CASE a = <<>>
  BY <1>1, <1>2, <1>3, <1>4, NonEmptySingle, AlikeItself
<1>5. CASE a # <<>>
  <2>1. NonEmpty(<<a>>) = <<a>> /\ NonEmpty(<<b>>) = <<b>>
    BY <1>3, <1>5, NonEmptySingle
  <2>2. AlikeLists(<<a>>, <<b>>)
    <3>1. Len(<<a>>) = 1 /\ Len(<<b>>) = 1 /\ <<a>>[1] = a /\ <<b>>[1] = b
      OBVIOUS
    <3>2. QED
      BY <1>3, <3>1 DEF AlikeLists
  <2>3. QED
    BY <1>1, <1>2, <2>1, <2>2
<1>6. QED
  BY <1>4, <1>5

AreSeparators(sep, eq) == sep = ";" /\ eq = "="

\* What is written in a text, by the piece in which an edit falls.
LEMMA WrittenAround ==
  ASSUME NEW S, NEW u \in Seq(S), NEW v \in Seq(S), NEW w \in Seq(S), ";" \notin LexemesOf(w),
         NEW P, NEW e, LeftPiece(S, u, ";", P, e), NEW Q, NEW f, RightPiece(S, v, ";", Q, f),
         NEW t, Placed(t, u, w, v), NEW x, Placed(x, e, w, f)
  PROVE  /\ Placed(Written(t), NonEmpty(Trims(P)), NonEmpty(Trims(<<x>>)), NonEmpty(Trims(Q)))
         /\ NonEmpty(Trims(P)) \in Seq(Seq(S)) /\ NonEmpty(Trims(Q)) \in Seq(Seq(S))
         /\ NonEmpty(Trims(<<x>>)) \in Seq(Seq(S)) /\ x \in Seq(S) /\ Written(t) \in Seq(Seq(S))
<1>1. Placed(Split(t, ";"), P, <<x>>, Q)
  BY PieceAround
<1>2. P \in Seq(Seq(S)) /\ Q \in Seq(Seq(S)) /\ e \in Seq(S) /\ f \in Seq(S)
  BY DEF LeftPiece, RightPiece
<1>3. x \in Seq(S)
  BY <1>2, PlacedType
<1>4. PICK X : X = <<x>>
  OBVIOUS
<1>5. X \in Seq(Seq(S))
  BY ONLY <1>3, <1>4
<1>6. PICK Y : Y = P \o X
  OBVIOUS
<1>7. PICK T : T = Seq(S)
  OBVIOUS
<1>8. Y \in Seq(T)
  <2>1. P \in Seq(T) /\ X \in Seq(T)
    BY <1>2, <1>5, <1>7
  <2>2. QED
    BY ONLY <1>6, <2>1
<1>9. NonEmpty(Trims(Y)) = NonEmpty(Trims(P)) \o NonEmpty(Trims(X))
  BY <1>2, <1>5, <1>6, WrittenParts
<1>10. NonEmpty(Trims(Y \o Q)) = NonEmpty(Trims(Y)) \o NonEmpty(Trims(Q))
  BY <1>2, <1>7, <1>8, WrittenParts
<1>11. Written(t) = NonEmpty(Trims(Y \o Q))
  <2>1. Split(t, ";") = Y \o Q
    BY <1>1, <1>4, <1>6 DEF Placed
  <2>2. QED
    BY <2>1, SegmentsAreTrims
<1>12. t \in Seq(S)
  BY PlacedType
<1>13. Written(t) \in Seq(Seq(S))
  BY <1>12, WrittenType
<1>14. /\ NonEmpty(Trims(P)) \in Seq(Seq(S)) /\ NonEmpty(Trims(Q)) \in Seq(Seq(S))
       /\ NonEmpty(Trims(X)) \in Seq(Seq(S))
  BY <1>2, <1>5, WrittenParts
<1>15. Placed(Written(t), NonEmpty(Trims(P)), NonEmpty(Trims(X)), NonEmpty(Trims(Q)))
  BY <1>9, <1>10, <1>11 DEF Placed
<1>16. QED
  BY <1>3, <1>4, <1>13, <1>14, <1>15

\* An edit inside a segment that leaves what it says leaves the tags.
LEMMA EditInSegment ==
  ASSUME NEW S, NEW sep, NEW eq, AreSeparators(sep, eq),
         NEW u \in Seq(S), NEW v \in Seq(S),
         NEW w \in Seq(S), sep \notin LexemesOf(w), NEW w1 \in Seq(S), sep \notin LexemesOf(w1),
         NEW P, NEW e, LeftPiece(S, u, sep, P, e), NEW Q, NEW f, RightPiece(S, v, sep, Q, f),
         NEW t, Placed(t, u, w, v), NEW t1, Placed(t1, u, w1, v),
         NEW x, Placed(x, e, w, f), NEW x1, Placed(x1, e, w1, f), AlikePieces(x, x1),
         PassesOctetGate(t) <=> PassesOctetGate(t1)
  PROVE  SameParse(t, t1)
<1>0. sep = ";"
  BY DEF AreSeparators
<1>3. PICK A, B, C : A = NonEmpty(Trims(P)) /\ B = NonEmpty(Trims(<<x>>)) /\ C = NonEmpty(Trims(Q))
  OBVIOUS
<1>4. PICK B1 : B1 = NonEmpty(Trims(<<x1>>))
  OBVIOUS
<1>5. PICK T : T = Seq(S)
  OBVIOUS
<1>6. /\ Placed(Written(t), A, B, C) /\ A \in Seq(T) /\ B \in Seq(T) /\ C \in Seq(T)
      /\ x \in Seq(S) /\ Written(t) \in Seq(T)
  <2>1. /\ Placed(Written(t), NonEmpty(Trims(P)), NonEmpty(Trims(<<x>>)), NonEmpty(Trims(Q)))
        /\ NonEmpty(Trims(P)) \in Seq(Seq(S)) /\ NonEmpty(Trims(Q)) \in Seq(Seq(S))
        /\ NonEmpty(Trims(<<x>>)) \in Seq(Seq(S)) /\ x \in Seq(S) /\ Written(t) \in Seq(Seq(S))
    BY <1>0, WrittenAround
  <2>2. QED
    BY <1>3, <1>5, <2>1
<1>7. /\ Placed(Written(t1), A, B1, C) /\ B1 \in Seq(T) /\ x1 \in Seq(S) /\ Written(t1) \in Seq(T)
  BY <1>0, <1>3, <1>4, <1>5, WrittenAround
<1>8. AlikeLists(B, B1)
  BY <1>3, <1>4, <1>6, <1>7, AlikeWritten
<1>9. AlikeLists(A, A) /\ AlikeLists(C, C)
  BY AlikeItself
<1>10. PICK D, D1 : D = A \o B /\ D1 = A \o B1
  OBVIOUS
<1>11. AlikeLists(D, D1) /\ D \in Seq(T) /\ D1 \in Seq(T)
  <2>1. A \in Seq(T) /\ B \in Seq(T) /\ B1 \in Seq(T)
    BY <1>6, <1>7
  <2>2. D \in Seq(T) /\ D1 \in Seq(T)
    BY ONLY <1>10, <2>1
  <2>3. AlikeLists(A \o B, A \o B1)
    BY <1>6, <1>7, <1>8, <1>9, AlikeConcat
  <2>4. QED
    BY <1>10, <2>2, <2>3
<1>12. AlikeLists(D \o C, D1 \o C)
  BY <1>6, <1>9, <1>11, AlikeConcat
<1>13. AlikeLists(Written(t), Written(t1))
  BY <1>6, <1>7, <1>10, <1>12 DEF Placed
<1>14. QED
  BY <1>6, <1>7, <1>13, SameTags DEF SameParse

LEMMA AlikeByTrim ==
  ASSUME NEW S, NEW x \in Seq(S), NEW y \in Seq(S), Trim(x) = Trim(y)
  PROVE  AlikePieces(x, y)
<1>1. TagOf(x) = TagOf(y) /\ (IsTag(x) <=> IsTag(y))
  <2>1. TagOf(Trim(x)) = TagOf(x) /\ (IsTag(Trim(x)) <=> IsTag(x))
    BY TagOfTrimmed
  <2>2. TagOf(Trim(y)) = TagOf(y) /\ (IsTag(Trim(y)) <=> IsTag(y))
    BY TagOfTrimmed
  <2>3. QED
    BY <2>1, <2>2
<1>2. QED
  BY <1>1 DEF AlikePieces

\* A piece that is cut at its first "=".
LEMMA TagOfJoined ==
  ASSUME NEW S, NEW g \in Seq(S), NEW h \in Seq(S), "=" \in S, "=" \notin LexemesOf(g),
         NEW x, JoinedBy(x, g, "=", h)
  PROVE  /\ x \in Seq(S) /\ "=" \in LexemesOf(x) /\ Trim(x) # <<>>
         /\ TagOf(x) = Tag(Trim(g), Trim(h))
<1>1. x = g \o <<"=">> \o h
  BY DEF JoinedBy
<1>2. PICK c : c = "="
  OBVIOUS
<1>3. x \in Seq(S) /\ c \in LexemesOf(x)
  <2>1. x \in Seq(S) /\ Len(g) + 1 \in DOMAIN x /\ x[Len(g) + 1] = c
    <3>1. x = g \o <<c>> \o h /\ c \in S
      BY <1>1, <1>2
    <3>2. QED
      BY <3>1
  <2>2. QED
    BY <2>1 DEF LexemesOf
<1>4. Before(x, "=") = g /\ After(x, "=") = h
  BY <1>1, BeforeAfter
<1>5. "=" \notin Blanks
  BY DEF Blanks, SP, HTAB
<1>6. "=" \in LexemesOf(Trim(x))
  BY <1>2, <1>3, <1>5, TrimAroundSeparator
<1>7. Trim(x) # <<>>
  BY <1>6 DEF LexemesOf
<1>8. QED
  BY <1>2, <1>3, <1>4, <1>7 DEF TagOf

LEMMA AlikeAtEquals ==
  ASSUME NEW S, NEW g \in Seq(S), NEW h \in Seq(S), NEW g1 \in Seq(S), NEW h1 \in Seq(S),
         "=" \in S, "=" \notin LexemesOf(g), "=" \notin LexemesOf(g1),
         Trim(g) = Trim(g1), Trim(h) = Trim(h1),
         NEW x, JoinedBy(x, g, "=", h), NEW y, JoinedBy(y, g1, "=", h1)
  PROVE  AlikePieces(x, y)
<1>1. "=" \in LexemesOf(x) /\ Trim(x) # <<>> /\ TagOf(x) = Tag(Trim(g), Trim(h))
  BY TagOfJoined
<1>2. "=" \in LexemesOf(y) /\ Trim(y) # <<>> /\ TagOf(y) = Tag(Trim(g1), Trim(h1))
  BY TagOfJoined
<1>3. IsTag(x) <=> IsTag(y)
  BY <1>1, <1>2 DEF IsTag
<1>4. QED
  BY <1>1, <1>2, <1>3 DEF AlikePieces

\* Between e and f is the start or the end of a piece, or its first "=" is next.
AtAnEdge(S, eq, e, f) ==
  \/ e = <<>> \/ f = <<>>
  \/ \E g \in Seq(S) : e = g \o <<eq>> /\ eq \notin LexemesOf(g)
  \/ eq \notin LexemesOf(e) /\ \E h \in Seq(S) : f = <<eq>> \o h

\* A blank between two parts of a piece, at its start, at its end, behind its
\* first "=" or before it.
LEMMA AlikeWithBlank ==
  ASSUME NEW S, NEW e \in Seq(S), NEW f \in Seq(S), NEW b \in S, b \in Blanks,
         NEW x, Placed(x, e, <<>>, f), NEW y, Placed(y, e, <<b>>, f), AtAnEdge(S, "=", e, f)
  PROVE  AlikePieces(x, y)
<1>0. \/ e = <<>> \/ f = <<>>
      \/ \E g \in Seq(S) : e = g \o <<"=">> /\ "=" \notin LexemesOf(g)
      \/ "=" \notin LexemesOf(e) /\ \E h \in Seq(S) : f = <<"=">> \o h
  BY DEF AtAnEdge
<1>1. PICK t : t = <<b>>
  OBVIOUS
<1>2. t \in Seq(S) /\ IsBlank(t)
  BY <1>1 DEF IsBlank, LexemesOf
<1>3. x = e \o f /\ y = e \o t \o f
  <2>1. x = e \o <<>> \o f /\ y = e \o t \o f
    BY <1>1 DEF Placed
  <2>2. e \o <<>> = e
    BY EmptyConcat
  <2>3. QED
    BY <2>1, <2>2
<1>4. x \in Seq(S) /\ y \in Seq(S) /\ y = e \o (t \o f) /\ e \o t \in Seq(S) /\ t \o f \in Seq(S)
  BY ONLY <1>2, <1>3, e \in Seq(S), f \in Seq(S), ConcatAssoc
<1>5. CASE e = <<>>
  <2>1. x = f /\ y = t \o f
    BY <1>3, <1>4, <1>5, EmptyConcat
  <2>2. Trim(t \o f) = Trim(f)
    BY <1>2, TrimBlanks
  <2>3. QED
    BY <1>4, <2>1, <2>2, AlikeByTrim
<1>6. CASE f = <<>>
  <2>1. x = e /\ y = e \o t
    BY <1>3, <1>4, <1>6, EmptyConcat
  <2>2. Trim(e \o t) = Trim(e)
    BY <1>2, TrimBlanks
  <2>3. QED
    BY <1>4, <2>1, <2>2, AlikeByTrim
<1>7. ASSUME NEW g \in Seq(S), e = g \o <<"=">>, "=" \notin LexemesOf(g)
      PROVE  AlikePieces(x, y)
  <2>1. PICK k : k = t \o f
    OBVIOUS
  <2>2. k \in Seq(S) /\ Trim(k) = Trim(f)
    BY <1>2, <1>4, <2>1, TrimBlanks
  <2>3. x = g \o <<"=">> \o f /\ y = g \o <<"=">> \o k
    BY <1>3, <1>4, <1>7, <2>1
  <2>4. JoinedBy(x, g, "=", f) /\ JoinedBy(y, g, "=", k)
    BY <2>3 DEF JoinedBy
  <2>5. "=" \in S
    <3>1. PICK c : c = "="
      OBVIOUS
    <3>2. e \in Seq(S) /\ e = g \o <<c>> /\ g \in Seq(S)
      BY <1>7, <3>1
    <3>3. e[Len(e)] = c /\ Len(e) \in DOMAIN e
      BY ONLY <3>2
    <3>4. QED
      BY <3>1, <3>2, <3>3
  <2>6. QED
    BY <1>7, <2>2, <2>4, <2>5, AlikeAtEquals
<1>8. ASSUME NEW h \in Seq(S), f = <<"=">> \o h, "=" \notin LexemesOf(e)
      PROVE  AlikePieces(x, y)
  <2>1. PICK k, c : k = e \o t /\ c = "="
    OBVIOUS
  <2>2. k \in Seq(S) /\ Trim(k) = Trim(e)
    BY <1>2, <1>4, <2>1, TrimBlanks
  <2>3. c \notin LexemesOf(k)
    <3>1. c \notin LexemesOf(t)
      <4>1. b # c
        BY <2>1 DEF Blanks, SP, HTAB
      <4>2. QED
        BY <1>1, <4>1 DEF LexemesOf
    <3>2. QED
      BY <1>2, <1>8, <2>1, <3>1, LexemesConcat
  <2>4. c \in S /\ <<c>> \in Seq(S)
    <3>1. f[1] = c /\ 1 \in DOMAIN f
      <4>1. f = <<c>> \o h
        BY <1>8, <2>1
      <4>2. QED
        BY <4>1
    <3>2. QED
      BY <3>1
  <2>5. x = e \o <<c>> \o h /\ y = k \o <<c>> \o h
    <3>1. f = <<c>> \o h /\ x = e \o f /\ y = k \o f
      BY <1>3, <1>8, <2>1
    <3>2. e \o (<<c>> \o h) = e \o <<c>> \o h
      BY <2>4, ConcatAssoc
    <3>3. k \o (<<c>> \o h) = k \o <<c>> \o h
      BY <2>2, <2>4, ConcatAssoc
    <3>4. QED
      BY <3>1, <3>2, <3>3
  <2>6. JoinedBy(x, e, "=", h) /\ JoinedBy(y, k, "=", h)
    BY <2>1, <2>5 DEF JoinedBy
  <2>7. QED
    BY <1>8, <2>1, <2>2, <2>3, <2>4, <2>6, AlikeAtEquals
<1>9. QED
  BY <1>0, <1>5, <1>6, <1>7, <1>8

\* Printable octets that are put into a text do not change whether it passes.
LEMMA GateOfInserted ==
  ASSUME NEW S, NEW u \in Seq(S), NEW w \in Seq(S), NEW v \in Seq(S),
         NEW s, Placed(s, u, <<>>, v), NEW t, Placed(t, u, w, v), PassesOctetGate(w)
  PROVE  PassesOctetGate(s) <=> PassesOctetGate(t)
<1>1. <<>> \in Seq(S) /\ LexemesOf(<<>>) = {}
  BY EmptyConcat
<1>2. \A x : x \in LexemesOf(s) <=> x \in LexemesOf(u) \/ x \in LexemesOf(v)
  <2>1. PICK z : z = <<>>
    OBVIOUS
  <2>2. z \in Seq(S) /\ Placed(s, u, z, v) /\ LexemesOf(z) = {}
    BY <1>1, <2>1
  <2>3. \A x : x \in LexemesOf(s) <=> x \in LexemesOf(u) \/ x \in LexemesOf(z) \/ x \in LexemesOf(v)
    BY <2>2, PlacedLexemes
  <2>4. QED
    BY <2>2, <2>3
<1>3. \A x : x \in LexemesOf(t) <=> x \in LexemesOf(u) \/ x \in LexemesOf(w) \/ x \in LexemesOf(v)
  BY PlacedLexemes
<1>4. QED
  BY <1>2, <1>3 DEF PassesOctetGate

LEMMA WrittenJoined ==
  ASSUME NEW S, NEW u \in Seq(S), NEW v \in Seq(S), NEW sep \in S, NEW eq, AreSeparators(sep, eq),
         NEW t, JoinedBy(t, u, sep, v)
  PROVE  Written(t) = Written(u) \o Written(v)
<1>1. PICK p, q : p = Split(u, sep) /\ q = Split(v, sep)
  OBVIOUS
<1>2. p \in Seq(Seq(S)) /\ q \in Seq(Seq(S))
  BY <1>1, SplitType
<1>3. Split(t, sep) = p \o q
  <2>1. Split(t, sep) = Split(u, sep) \o Split(v, sep)
    BY SplitConcat
  <2>2. QED
    BY ONLY <1>1, <2>1
<1>4. NonEmpty(Trims(p \o q)) = NonEmpty(Trims(p)) \o NonEmpty(Trims(q))
  BY <1>2, WrittenParts
<1>5. sep = ";"
  BY DEF AreSeparators
<1>6. /\ Written(t) = NonEmpty(Trims(p \o q))
      /\ Written(u) = NonEmpty(Trims(p)) /\ Written(v) = NonEmpty(Trims(q))
  BY <1>1, <1>3, <1>5, SegmentsAreTrims
<1>7. QED
  BY <1>4, <1>6

LEMMA NothingWritten == Written(<<>>) = <<>>
<1>1. PICK x : x = <<>>
  OBVIOUS
<1>2. x \in Seq({}) /\ ";" \notin LexemesOf(x)
  BY <1>1 DEF LexemesOf
<1>3. Split(x, ";") = <<x>>
  BY <1>2, SplitWhole
<1>4. Trims(<<x>>) = <<Trim(x)>>
  BY DEF Trims
<1>5. Trim(x) = <<>>
  BY <1>1 DEF Trim, InkedPlaces
<1>6. NonEmpty(<<Trim(x)>>) = <<>>
  BY <1>5, NonEmptySingle
<1>7. QED
  BY <1>1, <1>3, <1>4, <1>6, SegmentsAreTrims

\* A text that is nothing, or that begins with the separator.
Opens(v, sep) == v # <<>> => v[1] = sep

\* What is written in two texts is written in both together, when the second
\* opens with a separator.
LEMMA WrittenOpening ==
  ASSUME NEW S, NEW u \in Seq(S), NEW v \in Seq(S), NEW sep \in S, NEW eq, AreSeparators(sep, eq),
         Opens(v, sep)
  PROVE  Written(u \o v) = Written(u) \o Written(v)
<1>1. PICK T : T = Seq(S)
  OBVIOUS
<1>2. PICK a, b : a = Written(u) /\ b = Written(v) /\ a \in Seq(T) /\ b \in Seq(T)
  BY <1>1, WrittenType
<1>3. CASE v = <<>>
  <2>1. u \o v = u
    BY <1>3, EmptyConcat
  <2>2. b = <<>>
    BY <1>2, <1>3, NothingWritten
  <2>3. QED
    BY <1>2, <2>1, <2>2, EmptyConcat
<1>4. CASE v # <<>>
  <2>1. 1 \in 1..Len(v) /\ v[1] = sep
    BY <1>4 DEF Opens
  <2>2. PICK w : w = SubSeq(v, 2, Len(v))
    OBVIOUS
  <2>3. w \in Seq(S) /\ v = <<sep>> \o w
    BY ONLY v \in Seq(S), <2>1, <2>2
  <2>4. PICK c : c = Written(w) /\ c \in Seq(T)
    BY <1>1, <2>3, WrittenType
  <2>5. b = c
    <3>1. PICK z : z = <<>>
      OBVIOUS
    <3>2. z \o <<sep>> = <<sep>> /\ z \in Seq(S)
      BY <3>1
    <3>3. JoinedBy(v, z, sep, w)
      BY <2>3, <3>2 DEF JoinedBy
    <3>4. Written(v) = Written(z) \o Written(w)
      BY <2>3, <3>2, <3>3, WrittenJoined
    <3>5. Written(z) = <<>>
      BY <3>1, NothingWritten
    <3>6. QED
      BY <1>2, <2>4, <3>4, <3>5, EmptyConcat
  <2>6. JoinedBy(u \o v, u, sep, w)
    <3>1. PICK z : z = <<sep>>
      OBVIOUS
    <3>2. u \in Seq(S) /\ z \in Seq(S) /\ w \in Seq(S)
      BY <2>3, <3>1
    <3>3. Associate(u, z, w)
      BY ONLY <3>2, TextsAssociate
    <3>4. QED
      BY <2>3, <3>1, <3>3 DEF JoinedBy, Associate
  <2>7. Written(u \o v) = Written(u) \o Written(w)
    BY <2>3, <2>6, WrittenJoined
  <2>8. QED
    BY <1>2, <2>4, <2>5, <2>7
<1>5. QED
  BY <1>3, <1>4

-----------------------------------------------------------------------------
(* What the parsers take from the tags. *)

UniqueNames(tags) == \A i, j \in DOMAIN tags : tags[i].name = tags[j].name => i = j

LEMMA ValueInSet ==
  ASSUME NEW tags, UniqueNames(tags), NEW tag \in LexemesOf(tags), NEW name, tag.name = <<name>>
  PROVE  HasTag(tags, name) /\ TagValue(tags, name) = tag.value
<1>1. PICK i \in DOMAIN tags : tag = tags[i]
  BY DEF LexemesOf
<1>2. HasTag(tags, name)
  BY <1>1 DEF HasTag, Repeats
<1>3. PICK c : c = CHOOSE j \in DOMAIN tags : tags[j].name = <<name>>
  OBVIOUS
<1>4. c \in DOMAIN tags /\ tags[c].name = <<name>>
  BY <1>1, <1>3
<1>5. c = i
  BY <1>1, <1>4 DEF UniqueNames
<1>6. QED
  BY <1>1, <1>2, <1>3, <1>5 DEF TagValue

LEMMA HasTagInSet ==
  ASSUME NEW tags, NEW name
  PROVE  HasTag(tags, name) <=> \E tag \in LexemesOf(tags) : tag.name = <<name>>
BY DEF HasTag, Repeats, LexemesOf

Agree(tags, others, name) ==
  /\ HasTag(tags, name) <=> HasTag(others, name)
  /\ HasTag(tags, name) => TagValue(tags, name) = TagValue(others, name)

LEMMA AgreeBySet ==
  ASSUME NEW tags, NEW others, UniqueNames(tags), UniqueNames(others), NEW name,
         \A tag : tag.name = <<name>> => (tag \in LexemesOf(tags) <=> tag \in LexemesOf(others))
  PROVE  Agree(tags, others, name)
<1>1. HasTag(tags, name) <=> HasTag(others, name)
  BY HasTagInSet
<1>2. ASSUME HasTag(tags, name) PROVE TagValue(tags, name) = TagValue(others, name)
  <2>1. PICK tag \in LexemesOf(tags) : tag.name = <<name>>
    BY <1>2, HasTagInSet
  <2>2. tag \in LexemesOf(others)
    BY <2>1
  <2>3. TagValue(tags, name) = tag.value
    BY <2>1, ValueInSet
  <2>4. TagValue(others, name) = tag.value
    BY <2>1, <2>2, ValueInSet
  <2>5. QED
    BY <2>3, <2>4
<1>3. QED
  BY <1>1, <1>2 DEF Agree

LEMMA KeyRestsOn ==
  ASSUME NEW s, NEW t, TagsFault(s) = TagsFault(t),
         Agree(Tags(s), Tags(t), "k"), Agree(Tags(s), Tags(t), "pk")
  PROVE  /\ KeyFault(s) = KeyFault(t)
         /\ KeyFault(s) = Pass => KeyOf(s) = KeyOf(t)
<1>1. KeyFault(s) = KeyFault(t)
  <2>1. CASE HasTag(Tags(s), "k") /\ HasTag(Tags(s), "pk")
    BY <2>1 DEF Agree, KeyFault
  <2>2. CASE HasTag(Tags(s), "k") /\ ~HasTag(Tags(s), "pk")
    BY <2>2 DEF Agree, KeyFault, Check, ??, Pass
  <2>3. CASE ~HasTag(Tags(s), "k")
    BY <2>3 DEF Agree, KeyFault, Check, ??, Pass
  <2>4. QED
    BY <2>1, <2>2, <2>3
<1>2. ASSUME KeyFault(s) = Pass PROVE KeyOf(s) = KeyOf(t)
  <2>1. HasTag(Tags(s), "pk")
    BY <1>2 DEF KeyFault, Check, ??, Pass
  <2>2. QED
    BY <2>1 DEF Agree, KeyOf
<1>3. QED
  BY <1>1, <1>2

LEMMA PolicyRestsOn ==
  ASSUME NEW s, NEW t, TagsFault(s) = TagsFault(t), KeptEntries(Tags(s)) = KeptEntries(Tags(t)),
         Agree(Tags(s), Tags(t), "u"), Agree(Tags(s), Tags(t), "rua")
  PROVE  /\ PolicyFault(s) = PolicyFault(t)
         /\ PolicyOf(t) = [PolicyOf(s) EXCEPT !.testing = TestingOf(Tags(t))]
<1>1. UnitOf(Tags(s)) = UnitOf(Tags(t)) /\ RuaOf(Tags(s)) = RuaOf(Tags(t))
  BY DEF Agree, UnitOf, RuaOf
<1>2. PrefixesOf(Tags(s)) = PrefixesOf(Tags(t))
  BY DEF PrefixesOf
<1>3. Check(HasTag(Tags(s), "u") => IsDecimal(TagValue(Tags(s), "u")), "bad_u")
        = Check(HasTag(Tags(t), "u") => IsDecimal(TagValue(Tags(t), "u")), "bad_u")
  BY DEF Agree, Check
<1>4. Check(HasTag(Tags(s), "rua") => IsRua(TagValue(Tags(s), "rua")), "bad_rua")
        = Check(HasTag(Tags(t), "rua") => IsRua(TagValue(Tags(t), "rua")), "bad_rua")
  BY DEF Agree, Check
<1>5. PolicyFault(s) = PolicyFault(t)
  BY <1>1, <1>2, <1>3, <1>4 DEF PolicyFault
<1>6. PolicyOf(t) = [PolicyOf(s) EXCEPT !.testing = TestingOf(Tags(t))]
  BY <1>1, <1>2 DEF PolicyOf
<1>7. QED
  BY <1>5, <1>6
-----------------------------------------------------------------------------
(* A record in which one tag has another value. *)

LEMMA PartsType ==
  ASSUME NEW S, NEW s \in Seq(S), NEW sep
  PROVE  Before(s, sep) \in Seq(S) /\ After(s, sep) \in Seq(S)
<1>1. CASE sep \in LexemesOf(s)
  BY <1>1, SplitOnce
<1>2. CASE sep \notin LexemesOf(s)
  <2>1. Before(s, sep) = s /\ After(s, sep) = <<>>
    BY <1>2, BeforeWhole
  <2>2. QED
    BY <2>1
<1>3. QED
  BY <1>1, <1>2

LEMMA ValuesAreTexts ==
  ASSUME NEW S, NEW s \in Seq(S), NEW tag \in LexemesOf(Tags(s))
  PROVE  tag.name \in Seq(S) /\ tag.value \in Seq(S)
<1>1. PICK T, w : w = Written(s) /\ T = Seq(S) /\ w \in Seq(T)
  BY WrittenType
<1>2. PICK i \in DOMAIN w : tag = TagOf(w[i])
  BY <1>1 DEF LexemesOf, Tags
<1>3. w[i] \in Seq(S)
  BY <1>1
<1>4. Before(w[i], "=") \in Seq(S) /\ After(w[i], "=") \in Seq(S)
  BY <1>3, PartsType
<1>5. Trim(Before(w[i], "=")) \in Seq(S) /\ Trim(After(w[i], "=")) \in Seq(S)
  BY <1>4, TrimParts
<1>6. QED
  BY <1>2, <1>5 DEF TagOf, Tag

LEMMA SoundNames ==
  ASSUME NEW S, NEW s \in Seq(S), TagsFault(s) = Pass
  PROVE  UniqueNames(Tags(s))
BY TagsOfSoundRecord DEF UniqueNames

Changed(s, t, name, old, new) ==
  /\ TagsFault(s) = Pass /\ TagsFault(t) = Pass
  /\ old \in LexemesOf(Tags(s)) /\ new \in LexemesOf(Tags(t))
  /\ old.name = <<name>> /\ new.name = <<name>>
  /\ LexemesOf(Tags(s)) \ {old} = LexemesOf(Tags(t)) \ {new}

LEMMA OthersAgree ==
  ASSUME NEW S, NEW s \in Seq(S), NEW t \in Seq(S), NEW name, NEW old, NEW new,
         Changed(s, t, name, old, new), NEW other, other # name
  PROVE  Agree(Tags(s), Tags(t), other)
<1>1. UniqueNames(Tags(s)) /\ UniqueNames(Tags(t))
  BY SoundNames DEF Changed
<1>2. <<other>> # <<name>>
  BY ONLY other # name
<1>3. ASSUME NEW tag, tag.name = <<other>>
      PROVE  tag \in LexemesOf(Tags(s)) <=> tag \in LexemesOf(Tags(t))
  BY <1>2, <1>3 DEF Changed
<1>4. QED
  BY <1>1, <1>3, AgreeBySet

LEMMA ChangedValues ==
  ASSUME NEW S, NEW s \in Seq(S), NEW t \in Seq(S), NEW name, NEW old, NEW new,
         Changed(s, t, name, old, new)
  PROVE  /\ HasTag(Tags(s), name) /\ TagValue(Tags(s), name) = old.value
         /\ HasTag(Tags(t), name) /\ TagValue(Tags(t), name) = new.value
         /\ old.value \in Seq(S) /\ new.value \in Seq(S)
<1>1. UniqueNames(Tags(s)) /\ UniqueNames(Tags(t))
  BY SoundNames DEF Changed
<1>2. QED
  BY <1>1, ValueInSet, ValuesAreTexts DEF Changed

\* What the policy keeps of its entries.
Kept(entries) == [i \in {j \in 1..MaxPolicyPrefixes : j \in DOMAIN entries} |-> entries[i]]

LEMMA KeptFull ==
  ASSUME NEW T, NEW a \in Seq(T), NEW b \in Seq(T), NEW c \in Seq(T), MaxPolicyPrefixes <= Len(a)
  PROVE  Kept(a \o b) = Kept(a \o c)
<1>1. \A i \in 1..MaxPolicyPrefixes :
        /\ i \in DOMAIN (a \o b) /\ i \in DOMAIN (a \o c)
        /\ (a \o b)[i] = (a \o c)[i]
  BY RecordsAssumption
<1>2. QED
  BY <1>1 DEF Kept

\* The entries behind a full list are not looked at.
LEMMA KeptOfFullList ==
  ASSUME NEW S, NEW sep \in S, NEW x \in Seq(S), NEW y \in Seq(S), NEW z \in Seq(S),
         NEW s, JoinedBy(s, x, sep, y), NEW t, JoinedBy(t, x, sep, z),
         MaxPolicyPrefixes <= Len(EntryList(x, sep))
  PROVE  Kept(EntryList(s, sep)) = Kept(EntryList(t, sep))
<1>1. PICK T, a, b, c : /\ T = Seq(S)
                        /\ a = EntryList(x, sep) /\ b = EntryList(y, sep) /\ c = EntryList(z, sep)
  OBVIOUS
<1>2. a \in Seq(T) /\ b \in Seq(T) /\ c \in Seq(T)
  BY <1>1, EntryListType
<1>3. EntryList(s, sep) = a \o b /\ EntryList(t, sep) = a \o c
  <2>1. EntryList(s, sep) = EntryList(x, sep) \o EntryList(y, sep)
    BY EntryListJoined
  <2>2. EntryList(t, sep) = EntryList(x, sep) \o EntryList(z, sep)
    BY EntryListJoined
  <2>3. QED
    BY <1>1, <2>1, <2>2
<1>4. MaxPolicyPrefixes <= Len(a)
  BY <1>1
<1>5. Kept(a \o b) = Kept(a \o c)
  BY <1>2, <1>4, KeptFull
<1>6. QED
  BY <1>3, <1>5

LEMMA EntriesCounted ==
  ASSUME NEW S, NEW s \in Seq(S), NEW sep
  PROVE  Len(EntryList(s, sep)) = Cardinality(Filled(Split(s, sep)))
<1>1. PICK T, p : T = Seq(S) /\ p = Split(s, sep) /\ p \in Seq(T)
  BY SplitType
<1>2. Filled(p) \subseteq DOMAIN p
  BY DEF Filled
<1>3. Len(Picked(p, Filled(p))) = Cardinality(Filled(p))
  BY <1>1, <1>2, PickedType
<1>4. QED
  BY <1>1, <1>3 DEF EntryList, NonEmpty

\* One more element at the end of a list.
LEMMA FurtherElement ==
  ASSUME NEW S, NEW s \in Seq(S), NEW x \in Seq(S), NEW sep \in S, sep \notin LexemesOf(x),
         NEW t, JoinedBy(t, s, sep, x), NEW y, y # x
  PROVE  y \in LexemesOf(Split(t, sep)) <=> y \in LexemesOf(Split(s, sep))
<1>1. PICK T, p, q : T = Seq(S) /\ p = Split(s, sep) /\ q = Split(x, sep)
  OBVIOUS
<1>2. p \in Seq(T) /\ q \in Seq(T)
  BY <1>1, SplitType
<1>3. Split(t, sep) = Split(s, sep) \o Split(x, sep)
  BY SplitConcat
<1>4. Split(x, sep) = <<x>>
  BY SplitWhole
<1>5. y \in LexemesOf(p \o q) <=> y \in LexemesOf(p) \/ y \in LexemesOf(q)
  BY <1>2, LexemesConcat
<1>6. y \notin LexemesOf(q)
  BY <1>1, <1>4 DEF LexemesOf
<1>7. QED
  BY <1>1, <1>3, <1>5, <1>6

-----------------------------------------------------------------------------
(* A record with one more tag. *)

\* A record with one more written segment, a tag of another name: the faults stay
\* as they are, and the tag stands beside the others.
WrittenBehind(t, s, x) ==
  Written(t) = Written(s) \o <<x>> /\ (PassesOctetGate(s) <=> PassesOctetGate(t))
IsNewTag(x, s) ==
  /\ IsTag(x) /\ TagOf(x) # VersionTag
  /\ \A i \in DOMAIN Written(s) : TagOf(Written(s)[i]).name # TagOf(x).name

LEMMA TagAdded ==
  ASSUME NEW S, NEW s \in Seq(S), NEW t \in Seq(S), NEW x \in Seq(S),
         WrittenBehind(t, s, x), IsNewTag(x, s)
  PROVE  /\ TagsFault(t) = TagsFault(s)
         /\ LexemesOf(Tags(t)) = LexemesOf(Tags(s)) \union {TagOf(x)}
<1> USE DEF WrittenBehind, IsNewTag
<1>1. PICK T, p, q : T = Seq(S) /\ p = Written(s) /\ q = Written(t) /\ p \in Seq(T) /\ x \in T
  BY WrittenType
<1>2. PICK n : n = Len(p)
  OBVIOUS
<1>3. /\ n \in Nat /\ DOMAIN p = 1..n /\ DOMAIN q = 1..(n + 1)
      /\ \A i \in 1..n : q[i] = p[i]
      /\ q[n + 1] = x
  <2>1. q = p \o <<x>> /\ p \in Seq(T) /\ x \in T /\ n = Len(p)
    BY <1>1, <1>2
  <2>2. QED
    BY ONLY <2>1
<1>4. \A i \in 1..n : FaultAt(q, i) = FaultAt(p, i)
  <2> TAKE i \in 1..n
  <2>1. \A j \in 1..(i - 1) : j \in 1..n
    BY <1>3
  <2>2. QED
    BY <1>3, <2>1 DEF FaultAt, Check
<1>5. FaultAt(q, n + 1) = Pass
  <2>1. \A j \in 1..((n + 1) - 1) : j \in 1..n /\ q[j] = p[j]
    BY <1>3
  <2>2. \A j \in 1..((n + 1) - 1) : TagOf(q[j]).name # TagOf(q[n + 1]).name
    BY <1>1, <1>3, <2>1
  <2>3. QED
    BY <1>3, <2>2 DEF FaultAt, Check, Pass, ??
<1>6. FaultyPlaces(t) = FaultyPlaces(s)
  <2>1. /\ FaultyPlaces(s) = {i \in 1..n : FaultAt(p, i) # Pass}
        /\ FaultyPlaces(t) = {i \in 1..(n + 1) : FaultAt(q, i) # Pass}
    BY <1>1, <1>3 DEF FaultyPlaces
  <2>2. \A i : i \in 1..(n + 1) <=> i \in 1..n \/ i = n + 1
    BY <1>3
  <2>3. QED
    BY <1>4, <1>5, <2>1, <2>2
<1>7. FirstFaulty(t) = FirstFaulty(s)
  BY <1>6 DEF FirstFaulty
<1>8. FirstTagFault(t) = FirstTagFault(s)
  <2>1. CASE FaultyPlaces(s) = {}
    BY <1>6, <2>1 DEF FirstTagFault
  <2>2. CASE FaultyPlaces(s) # {}
    <3>1. FirstFaulty(s) \in FaultyPlaces(s)
      BY <2>2, FirstFaultyIsFaulty
    <3>2. FirstFaulty(s) \in 1..n
      BY <1>1, <1>3, <3>1 DEF FaultyPlaces
    <3>3. QED
      BY <1>1, <1>4, <1>6, <1>7, <2>2, <3>2 DEF FirstTagFault
  <2>3. QED
    BY <2>1, <2>2
<1>9. (q # <<>> /\ TagOf(q[1]) = VersionTag) <=> (p # <<>> /\ TagOf(p[1]) = VersionTag)
  <2>1. q # <<>>
    BY <1>3
  <2>2. CASE n = 0
    <3>1. p = <<>> /\ q[1] = x
      BY <1>1, <1>2, <1>3, <2>2
    <3>2. QED
      BY <3>1
  <2>3. CASE n # 0
    <3>1. p # <<>> /\ q[1] = p[1]
      BY <1>3, <2>3
    <3>2. QED
      BY <2>1, <3>1
  <2>4. QED
    BY <2>2, <2>3
<1>10. Check(PassesOctetGate(s), "malformed_tag") = Check(PassesOctetGate(t), "malformed_tag")
  BY DEF Check
<1>11. Check(p # <<>> /\ TagOf(p[1]) = VersionTag, "not_sworn")
         = Check(q # <<>> /\ TagOf(q[1]) = VersionTag, "not_sworn")
  BY <1>9 DEF Check
<1>12. TagsFault(t) = TagsFault(s)
  BY <1>1, <1>8, <1>10, <1>11, TagsFaultStages
<1>13. /\ LexemesOf(Tags(s)) = {TagOf(p[i]) : i \in 1..n}
       /\ LexemesOf(Tags(t)) = {TagOf(q[i]) : i \in 1..(n + 1)}
  BY <1>1, <1>3 DEF LexemesOf, Tags
<1>14. {TagOf(q[i]) : i \in 1..(n + 1)} = {TagOf(p[i]) : i \in 1..n} \union {TagOf(x)}
  <2>1. \A i \in 1..(n + 1) : i \in 1..n \/ i = n + 1
    BY <1>3
  <2>2. \A i \in 1..n : i \in 1..(n + 1)
    BY <1>3
  <2>3. n + 1 \in 1..(n + 1)
    BY <1>3
  <2>4. QED
    BY <1>3, <2>1, <2>2, <2>3
<1>15. QED
  BY <1>12, <1>13, <1>14

TestingTag == <<"t", "=", "y">>

\* The text of the tag that asks for testing, as a segment.
LEMMA TestingTagIsTag ==
  /\ TestingTag \in Seq({"t", "=", "y"}) /\ ";" \notin LexemesOf(TestingTag)
  /\ IsTag(TestingTag) /\ TagOf(TestingTag) = Tag(<<"t">>, <<"y">>)
  /\ Written(TestingTag) = <<TestingTag>>
<1>1. PICK S, x, g, h : S = {"t", "=", "y"} /\ x = TestingTag /\ g = <<"t">> /\ h = <<"y">>
  OBVIOUS
<1>2. /\ x \in Seq(S) /\ g \in Seq(S) /\ h \in Seq(S)
      /\ LexemesOf(x) = S /\ LexemesOf(g) = {"t"} /\ LexemesOf(h) = {"y"}
  <2>1. x \in Seq(S) /\ g \in Seq(S) /\ h \in Seq(S)
    BY <1>1 DEF TestingTag
  <2>2. LexemesOf(x) = S
    BY <1>1 DEF TestingTag, LexemesOf
  <2>3. LexemesOf(g) = {"t"} /\ LexemesOf(h) = {"y"}
    BY <1>1 DEF LexemesOf
  <2>4. QED
    BY <2>1, <2>2, <2>3
<1>3. "=" \notin LexemesOf(g) /\ ";" \notin LexemesOf(x) /\ "=" \in S /\ "=" \in LexemesOf(x)
  BY <1>1, <1>2
<1>4. JoinedBy(x, g, "=", h)
  BY <1>1 DEF JoinedBy, TestingTag
<1>5. \A z \in Seq(S) : IsTrimmed(z) => Trim(z) = z
  <2> TAKE z \in Seq(S)
  <2> HAVE IsTrimmed(z)
  <2>1. PICK e : e \in Seq(S) /\ e = <<>>
    BY EmptyConcat
  <2>2. e \in Seq(S) /\ IsBlank(e)
    BY <2>1, EmptyConcat
  <2>3. Trim(e \o z \o e) = z
    BY <2>2, TrimBy
  <2>4. e \o z \o e = z
    BY <2>1
  <2>5. QED
    BY <2>3, <2>4
<1>6. IsTrimmed(x) /\ IsTrimmed(g) /\ IsTrimmed(h)
  BY <1>1 DEF TestingTag, IsTrimmed, Blanks, SP, HTAB
<1>7. Trim(x) = x /\ Trim(g) = g /\ Trim(h) = h
  BY <1>2, <1>5, <1>6
<1>8. TagOf(x) = Tag(g, h)
  <2>1. g \in Seq(S) /\ h \in Seq(S)
    BY <1>2
  <2>2. "=" \in S /\ "=" \notin LexemesOf(g)
    BY <1>3
  <2>3. TagOf(x) = Tag(Trim(g), Trim(h))
    BY <1>4, <2>1, <2>2, TagOfJoined
  <2>4. QED
    BY <1>7, <2>3
<1>9. IsTag(x)
  <2>1. TagOf(x).name = g /\ TagOf(x).value = h
    BY <1>8 DEF Tag
  <2>2. g # <<>>
    BY <1>1
  <2>3. LexemesOf(h) \intersect Blanks = {}
    BY <1>2 DEF Blanks, SP, HTAB
  <2>4. QED
    BY <1>3, <2>1, <2>2, <2>3 DEF IsTag
<1>10. Written(x) = <<x>>
  <2>1. Split(x, ";") = <<x>>
    BY <1>2, <1>3, SplitWhole
  <2>2. Trims(<<x>>) = <<Trim(x)>>
    BY DEF Trims
  <2>3. x # <<>>
    BY <1>1 DEF TestingTag
  <2>4. NonEmpty(<<x>>) = <<x>>
    BY <2>3, NonEmptySingle
  <2>5. QED
    BY <1>7, <2>1, <2>2, <2>4, SegmentsAreTrims
<1>11. QED
  BY <1>1, <1>2, <1>3, <1>8, <1>9, <1>10

Untested(s) == ~HasTag(Tags(s), "t")
Tested(q, p) == p.testing = FALSE /\ q = [p EXCEPT !.testing = TRUE]
HostsTesting(S, sep) == {sep, "t", "=", "y"} \subseteq S
PrintsTesting == {"t", "y"} \subseteq Printable
AsksTesting(t, s, sep) == t = s \o <<sep, "t", "=", "y">>

LEMMA TestingJoined ==
  ASSUME NEW S, NEW s \in Seq(S), NEW sep, NEW eq, AreSeparators(sep, eq), NEW t, AsksTesting(t, s, sep),
         HostsTesting(S, sep)
  PROVE  /\ t \in Seq(S) /\ TestingTag \in Seq(S)
         /\ JoinedBy(t, s, sep, TestingTag)
         /\ \A x : x \in LexemesOf(t) <=> x \in LexemesOf(s) \/ x \in {sep, "t", "=", "y"}
<1>1. PICK a, b, c, d : a = sep /\ b = "t" /\ c = "=" /\ d = "y"
  OBVIOUS
<1>2. a \in S /\ b \in S /\ c \in S /\ d \in S
  BY <1>1 DEF HostsTesting
<1>3. t = s \o <<a, b, c, d>> /\ TestingTag = <<b, c, d>>
  BY <1>1 DEF AsksTesting, TestingTag
<1>4. <<a, b, c, d>> \in Seq(S) /\ <<b, c, d>> \in Seq(S)
  BY <1>2
<1>5. s \o <<a, b, c, d>> = s \o <<a>> \o <<b, c, d>>
  BY <1>2
<1>6. \A x : x \in LexemesOf(<<a, b, c, d>>) <=> x \in {a, b, c, d}
  BY DEF LexemesOf
<1>7. \A x : x \in LexemesOf(s \o <<a, b, c, d>>)
                <=> x \in LexemesOf(s) \/ x \in LexemesOf(<<a, b, c, d>>)
  BY <1>4, LexemesConcat
<1>8. t \in Seq(S)
  BY <1>3, <1>4
<1>9. QED
  BY <1>1, <1>3, <1>4, <1>5, <1>6, <1>7, <1>8 DEF JoinedBy

\* The policy with the tag t=y, of one without a tag t.
LEMMA TestingAsked ==
  ASSUME NEW S, NEW s \in Seq(S), NEW sep, NEW eq, AreSeparators(sep, eq), NEW t,
         AsksTesting(t, s, sep), HostsTesting(S, sep), PrintsTesting, Untested(s)
  PROVE  /\ PolicyFault(t) = PolicyFault(s)
         /\ PolicyFault(s) = Pass => Tested(PolicyOf(t), PolicyOf(s))
<1>1. /\ t \in Seq(S) /\ TestingTag \in Seq(S) /\ JoinedBy(t, s, sep, TestingTag)
      /\ \A x : x \in LexemesOf(t) <=> x \in LexemesOf(s) \/ x \in {sep, "t", "=", "y"}
  BY TestingJoined
<1>2. PassesOctetGate(s) <=> PassesOctetGate(t)
  <2>1. {sep, "t", "=", "y"} \subseteq Printable
    BY PrintableAssumption DEF AreSeparators, PrintsTesting
  <2>2. QED
    BY <1>1, <2>1 DEF PassesOctetGate
<1>3. sep \in S
  BY DEF HostsTesting
<1>4. Written(t) = Written(s) \o <<TestingTag>>
  <2>1. TestingTag \in Seq(S) /\ JoinedBy(t, s, sep, TestingTag)
    BY <1>1
  <2>2. Written(t) = Written(s) \o Written(TestingTag)
    BY <1>3, <2>1, WrittenJoined
  <2>3. QED
    BY <2>2, TestingTagIsTag
<1>5. PICK new : new = Tag(<<"t">>, <<"y">>)
  OBVIOUS
<1>6. new.name = <<"t">> /\ new.value = <<"y">> /\ new # VersionTag
  BY <1>5 DEF Tag, VersionTag
<1>7. IsTag(TestingTag) /\ TagOf(TestingTag) = new
  BY <1>5, TestingTagIsTag
<1>8. \A i \in DOMAIN Written(s) : TagOf(Written(s)[i]).name # TagOf(TestingTag).name
  BY <1>6, <1>7 DEF HasTag, Repeats, Tags, Untested
<1>9. TagsFault(t) = TagsFault(s) /\ LexemesOf(Tags(t)) = LexemesOf(Tags(s)) \union {new}
  <2>1. PICK x : x = TestingTag
    OBVIOUS
  <2>2. s \in Seq(S) /\ t \in Seq(S) /\ x \in Seq(S)
    BY <1>1, <2>1
  <2>3. IsTag(x) /\ TagOf(x) # VersionTag /\ TagOf(x) = new
    BY <1>6, <1>7, <2>1
  <2>4. WrittenBehind(t, s, x)
    BY <1>2, <1>4, <2>1 DEF WrittenBehind
  <2>5. IsNewTag(x, s)
    BY <1>8, <2>1, <2>3 DEF IsNewTag
  <2>6. TagsFault(t) = TagsFault(s) /\ LexemesOf(Tags(t)) = LexemesOf(Tags(s)) \union {TagOf(x)}
    BY ONLY <2>2, <2>4, <2>5, TagAdded
  <2>7. QED
    BY <2>3, <2>6
<1>10. CASE TagsFault(s) # Pass
  BY <1>9, <1>10 DEF PolicyFault, ??
<1>11. CASE TagsFault(s) = Pass
  <2>1. UniqueNames(Tags(s)) /\ UniqueNames(Tags(t))
    BY <1>1, <1>9, <1>11, SoundNames
  <2>2. ASSUME NEW name, name # "t" PROVE Agree(Tags(s), Tags(t), name)
    <3>1. \A tag : tag.name = <<name>> => (tag \in LexemesOf(Tags(s)) <=> tag \in LexemesOf(Tags(t)))
      BY <1>6, <1>9, <2>2
    <3>2. QED
      BY <2>1, <3>1, AgreeBySet
  <2>3. /\ Agree(Tags(s), Tags(t), "p") /\ Agree(Tags(s), Tags(t), "u")
        /\ Agree(Tags(s), Tags(t), "rua")
    BY <2>2
  <2>4. KeptEntries(Tags(s)) = KeptEntries(Tags(t))
    BY <2>3 DEF KeptEntries, EntriesOf, Agree
  <2>5. /\ PolicyFault(s) = PolicyFault(t)
        /\ PolicyOf(t) = [PolicyOf(s) EXCEPT !.testing = TestingOf(Tags(t))]
    BY <1>9, <2>3, <2>4, PolicyRestsOn
  <2>6. TestingOf(Tags(s)) = FALSE
    BY DEF TestingOf, Untested
  <2>7. TestingOf(Tags(t)) = TRUE
    <3>1. new \in LexemesOf(Tags(t))
      BY <1>9
    <3>2. HasTag(Tags(t), "t") /\ TagValue(Tags(t), "t") = new.value
      BY <1>6, <2>1, <3>1, ValueInSet
    <3>3. Split(<<"y">>, ":") = <<<<"y">>>>
      <4>1. ":" \notin LexemesOf(<<"y">>)
        BY DEF LexemesOf
      <4>2. <<"y">> \in Seq({"y"})
        OBVIOUS
      <4>3. QED
        BY <4>1, <4>2, SplitWhole
    <3>4. <<"y">> \in LexemesOf(<<<<"y">>>>)
      BY DEF LexemesOf
    <3>5. QED
      BY <1>6, <3>2, <3>3, <3>4 DEF TestingOf
  <2>8. QED
    BY <2>5, <2>6, <2>7 DEF PolicyOf, Tested
<1>12. QED
  BY <1>10, <1>11

-----------------------------------------------------------------------------
(* Texts that differ in their blanks only, as a text with a tab for a space. *)

\* (A predicate of its own for the provers, like those of TextLemmas.)
Blankly(s, t) ==
  /\ Len(s) = Len(t)
  /\ \A i \in 1..Len(s) : s[i] = t[i] \/ (s[i] \in Blanks /\ t[i] \in Blanks)

LEMMA BlanklyPart ==
  ASSUME NEW S, NEW s \in Seq(S), NEW t \in Seq(S), Blankly(s, t),
         NEW a \in Int, NEW b \in Int, 1 <= a, b <= Len(s)
  PROVE  Blankly(SubSeq(s, a, b), SubSeq(t, a, b))
<1>1. Len(s) = Len(t) /\ Len(s) \in Nat
  BY DEF Blankly
<1>2. /\ a <= b + 1 => Len(SubSeq(s, a, b)) = (b - a) + 1
      /\ b < a => SubSeq(s, a, b) = <<>>
      /\ \A k \in 1..((b - a) + 1) : SubSeq(s, a, b)[k] = s[(a + k) - 1]
  BY SubSeqAt
<1>3. /\ a <= b + 1 => Len(SubSeq(t, a, b)) = (b - a) + 1
      /\ b < a => SubSeq(t, a, b) = <<>>
      /\ \A k \in 1..((b - a) + 1) : SubSeq(t, a, b)[k] = t[(a + k) - 1]
  BY <1>1, SubSeqAt
<1>4. CASE b < a
  <2>1. SubSeq(s, a, b) = <<>> /\ SubSeq(t, a, b) = <<>>
    BY <1>2, <1>3, <1>4
  <2>2. QED
    BY <2>1 DEF Blankly
<1>5. CASE a <= b
  <2>1. Len(SubSeq(s, a, b)) = (b - a) + 1 /\ Len(SubSeq(t, a, b)) = (b - a) + 1
    BY <1>2, <1>3, <1>5
  <2>2. ASSUME NEW k \in 1..((b - a) + 1)
        PROVE  \/ SubSeq(s, a, b)[k] = SubSeq(t, a, b)[k]
               \/ SubSeq(s, a, b)[k] \in Blanks /\ SubSeq(t, a, b)[k] \in Blanks
    <3>1. (a + k) - 1 \in 1..Len(s)
      BY <1>1, <1>5
    <3>2. s[(a + k) - 1] = t[(a + k) - 1] \/ (s[(a + k) - 1] \in Blanks /\ t[(a + k) - 1] \in Blanks)
      BY <3>1 DEF Blankly
    <3>3. QED
      BY <1>2, <1>3, <3>2
  <2>3. QED
    BY <2>1, <2>2 DEF Blankly
<1>6. QED
  BY <1>4, <1>5

\* What is no blank stands at the same places.
LEMMA BlanklyPlaces ==
  ASSUME NEW S, NEW s \in Seq(S), NEW t \in Seq(S), Blankly(s, t)
  PROVE  /\ DOMAIN s = 1..Len(s) /\ DOMAIN t = 1..Len(s) /\ Len(t) = Len(s) /\ Len(s) \in Nat
         /\ InkedPlaces(s) = InkedPlaces(t)
         /\ \A i \in 1..Len(s) : \A x : x \notin Blanks => (s[i] = x <=> t[i] = x)
         /\ \A x : x \notin Blanks => (x \in LexemesOf(s) <=> x \in LexemesOf(t))
<1>1. DOMAIN s = 1..Len(s) /\ DOMAIN t = 1..Len(s) /\ Len(t) = Len(s) /\ Len(s) \in Nat
  BY DEF Blankly
<1>2. InkedPlaces(s) = InkedPlaces(t)
  BY <1>1 DEF Blankly, InkedPlaces
<1>3. \A i \in 1..Len(s) : \A x : x \notin Blanks => (s[i] = x <=> t[i] = x)
  BY <1>1 DEF Blankly
<1>4. \A x : x \notin Blanks => (x \in LexemesOf(s) <=> x \in LexemesOf(t))
  BY <1>1, <1>3 DEF LexemesOf
<1>5. QED
  BY <1>1, <1>2, <1>3, <1>4

LEMMA BlanklyTrim ==
  ASSUME NEW S, NEW s \in Seq(S), NEW t \in Seq(S), Blankly(s, t)
  PROVE  Blankly(Trim(s), Trim(t))
<1>1. PICK inked : inked = InkedPlaces(s)
  OBVIOUS
<1>2. InkedPlaces(s) = inked /\ InkedPlaces(t) = inked
  BY <1>1, BlanklyPlaces
<1>3. CASE inked = {}
  <2>1. Trim(s) = <<>> /\ Trim(t) = <<>>
    BY <1>2, <1>3 DEF Trim
  <2>2. QED
    BY <2>1 DEF Blankly
<1>4. CASE inked # {}
  <2>1. inked \subseteq DOMAIN s
    BY <1>1 DEF InkedPlaces
  <2>2. IsPlaces(inked) /\ inked \subseteq 1..Len(s) /\ Len(s) \in Nat
    BY <2>1, PlacesInText
  <2>3. PICK a, b : a = Nth(inked, 0) /\ b = Nth(inked, Cardinality(inked) - 1)
    OBVIOUS
  <2>4. a \in inked
    BY <1>4, <2>2, <2>3, FirstOfPlaces
  <2>5. b \in inked
    BY <1>4, <2>2, <2>3, LastOfPlaces
  <2>6. a \in Int /\ b \in Int /\ 1 <= a /\ b <= Len(s)
    BY <2>2, <2>4, <2>5
  <2>7. Trim(s) = SubSeq(s, a, b) /\ Trim(t) = SubSeq(t, a, b)
    BY <1>2, <1>4, <2>3 DEF Trim
  <2>8. QED
    BY <2>6, <2>7, BlanklyPart
<1>5. QED
  BY <1>3, <1>4

\* Two lists of texts, place by place.
BlanklyAll(p, q) == Len(p) = Len(q) /\ \A i \in 1..Len(p) : Blankly(p[i], q[i])

LEMMA BlanklySplit ==
  ASSUME NEW S, NEW s \in Seq(S), NEW t \in Seq(S), Blankly(s, t), NEW sep, sep \notin Blanks
  PROVE  BlanklyAll(Split(s, sep), Split(t, sep))
<1>1. PICK n, c : Cutting(c, n, s, sep)
  BY CuttingExists
<1>2. /\ DOMAIN s = 1..Len(s) /\ DOMAIN t = 1..Len(s) /\ Len(t) = Len(s) /\ Len(s) \in Nat
      /\ \A i \in 1..Len(s) : s[i] = sep <=> t[i] = sep
  BY BlanklyPlaces
<1>3. Cutting(c, n, t, sep)
  BY <1>1, <1>2 DEF Cutting
<1>4. /\ \A k \in 1..n : Split(s, sep)[k] = SubSeq(s, c[k - 1] + 1, c[k] - 1)
      /\ Len(Split(s, sep)) = n
  BY <1>1, SplitBy
<1>5. /\ \A k \in 1..n : Split(t, sep)[k] = SubSeq(t, c[k - 1] + 1, c[k] - 1)
      /\ Len(Split(t, sep)) = n
  BY <1>3, SplitBy
<1>6. ASSUME NEW k \in 1..n
      PROVE  Blankly(Split(s, sep)[k], Split(t, sep)[k])
  <2>1. n \in Nat /\ k \in 0..n /\ k - 1 \in 0..n
    BY <1>1 DEF Cutting
  <2>2. c[k - 1] \in Int /\ c[k] \in Int /\ 0 <= c[k - 1] /\ c[k] <= Len(s) + 1
    BY <1>1, <2>1 DEF Cutting
  <2>3. PICK a \in Int, b \in Int : a = c[k - 1] + 1 /\ b = c[k] - 1
    BY <2>2
  <2>4. 1 <= a /\ b <= Len(s)
    BY <1>2, <2>2, <2>3
  <2>5. Blankly(SubSeq(s, a, b), SubSeq(t, a, b))
    BY <2>4, BlanklyPart
  <2>6. QED
    BY <1>4, <1>5, <2>3, <2>5
<1>7. QED
  BY <1>4, <1>5, <1>6 DEF BlanklyAll

LEMMA BlanklyTrims ==
  ASSUME NEW S, NEW p \in Seq(Seq(S)), NEW q \in Seq(Seq(S)), BlanklyAll(p, q)
  PROVE  BlanklyAll(Trims(p), Trims(q))
<1>1. Len(p) = Len(q) /\ \A i \in 1..Len(p) : Blankly(p[i], q[i])
  BY DEF BlanklyAll
<1>2. /\ Len(Trims(p)) = Len(p) /\ \A i \in 1..Len(p) : Trims(p)[i] = Trim(p[i])
      /\ Len(Trims(q)) = Len(q) /\ \A i \in 1..Len(q) : Trims(q)[i] = Trim(q[i])
  BY TrimsType
<1>3. ASSUME NEW i \in 1..Len(p) PROVE Blankly(Trim(p[i]), Trim(q[i]))
  <2>1. p[i] \in Seq(S) /\ q[i] \in Seq(S)
    BY <1>1
  <2>2. QED
    BY <1>1, <2>1, BlanklyTrim
<1>4. QED
  BY <1>1, <1>2, <1>3 DEF BlanklyAll

LEMMA BlanklyNonEmpty ==
  ASSUME NEW S, NEW p \in Seq(Seq(S)), NEW q \in Seq(Seq(S)), BlanklyAll(p, q)
  PROVE  BlanklyAll(NonEmpty(p), NonEmpty(q))
<1>1. /\ Len(p) = Len(q) /\ \A i \in 1..Len(p) : Blankly(p[i], q[i])
      /\ DOMAIN p = 1..Len(p) /\ DOMAIN q = 1..Len(p)
      /\ \A i \in 1..Len(p) : p[i] \in Seq(S) /\ q[i] \in Seq(S)
  BY DEF BlanklyAll
<1>2. \A i \in 1..Len(p) : p[i] = <<>> <=> q[i] = <<>>
  <2> TAKE i \in 1..Len(p)
  <2>1. p[i] \in Seq(S) /\ q[i] \in Seq(S) /\ Len(p[i]) = Len(q[i])
    BY <1>1 DEF Blankly
  <2>2. QED
    BY <2>1
<1>3. Filled(p) = Filled(q)
  BY <1>1, <1>2 DEF Filled
<1>4. Filled(p) \subseteq DOMAIN p
  BY DEF Filled
<1>5. IsPlaces(Filled(p))
  BY <1>4, PlacesInText
<1>6. PICK n, f : Lists(f, n, Filled(p))
  BY <1>5, PlacesAreListed
<1>7. /\ DOMAIN NonEmpty(p) = 1..n
      /\ \A k \in 1..n : NonEmpty(p)[k] = p[f[k]] /\ f[k] \in Filled(p)
  BY <1>6, PickedBy DEF NonEmpty
<1>8. /\ DOMAIN NonEmpty(q) = 1..n
      /\ \A k \in 1..n : NonEmpty(q)[k] = q[f[k]]
  BY <1>3, <1>6, PickedBy DEF NonEmpty
<1>9. n \in Nat
  BY <1>6 DEF Lists
<1>10. Len(NonEmpty(p)) = n /\ Len(NonEmpty(q)) = n
  <2>1. NonEmpty(p) \in Seq(Seq(S)) /\ NonEmpty(q) \in Seq(Seq(S))
    BY NonEmptyConcat
  <2>2. QED
    BY <1>7, <1>8, <1>9, <2>1
<1>11. \A k \in 1..n : Blankly(NonEmpty(p)[k], NonEmpty(q)[k])
  BY <1>1, <1>4, <1>7, <1>8
<1>12. QED
  BY <1>10, <1>11 DEF BlanklyAll

LEMMA BlanklyWritten ==
  ASSUME NEW S, NEW s \in Seq(S), NEW t \in Seq(S), Blankly(s, t)
  PROVE  BlanklyAll(Written(s), Written(t))
<1>1. PICK p, q : p = Split(s, ";") /\ q = Split(t, ";")
  OBVIOUS
<1>2. p \in Seq(Seq(S)) /\ q \in Seq(Seq(S))
  BY <1>1, SplitType
<1>3. BlanklyAll(p, q)
  <2>1. ";" \notin Blanks
    BY DEF Blanks, SP, HTAB
  <2>2. QED
    BY <1>1, <2>1, BlanklySplit
<1>4. BlanklyAll(Trims(p), Trims(q))
  BY <1>2, <1>3, BlanklyTrims
<1>5. Trims(p) \in Seq(Seq(S)) /\ Trims(q) \in Seq(Seq(S))
  BY <1>2, TrimsType
<1>6. BlanklyAll(NonEmpty(Trims(p)), NonEmpty(Trims(q)))
  BY <1>4, <1>5, BlanklyNonEmpty
<1>7. Written(s) = NonEmpty(Trims(p)) /\ Written(t) = NonEmpty(Trims(q))
  BY <1>1, SegmentsAreTrims
<1>8. QED
  BY <1>6, <1>7

LEMMA BlanklyParts ==
  ASSUME NEW S, NEW s \in Seq(S), NEW t \in Seq(S), Blankly(s, t), NEW sep, sep \notin Blanks
  PROVE  Blankly(Before(s, sep), Before(t, sep)) /\ Blankly(After(s, sep), After(t, sep))
<1>1. /\ DOMAIN s = 1..Len(s) /\ DOMAIN t = 1..Len(s) /\ Len(t) = Len(s) /\ Len(s) \in Nat
      /\ \A i \in 1..Len(s) : s[i] = sep <=> t[i] = sep
      /\ sep \in LexemesOf(s) <=> sep \in LexemesOf(t)
  BY BlanklyPlaces
<1>2. CASE sep \notin LexemesOf(s)
  <2>1. Before(s, sep) = s /\ After(s, sep) = <<>>
    BY <1>2, BeforeWhole
  <2>2. Before(t, sep) = t /\ After(t, sep) = <<>>
    BY <1>1, <1>2, BeforeWhole
  <2>3. Blankly(<<>>, <<>>)
    BY DEF Blankly
  <2>4. QED
    BY <2>1, <2>2, <2>3
<1>3. CASE sep \in LexemesOf(s)
  <2>0. PICK g, h : g = Before(s, sep) /\ h = After(s, sep)
    OBVIOUS
  <2>1. /\ g \in Seq(S) /\ h \in Seq(S) /\ sep \in S
        /\ s = g \o <<sep>> \o h /\ sep \notin LexemesOf(g)
    <3>1. /\ Before(s, sep) \in Seq(S) /\ After(s, sep) \in Seq(S) /\ sep \in S
          /\ s = Before(s, sep) \o <<sep>> \o After(s, sep)
          /\ sep \notin LexemesOf(Before(s, sep))
      BY <1>3, SplitOnce
    <3>2. QED
      BY <2>0, <3>1
  <2>2. PICK i : i = Len(g) + 1
    OBVIOUS
  <2>3. /\ i \in 1..Len(s) /\ s[i] = sep
        /\ g = SubSeq(s, 1, i - 1) /\ h = SubSeq(s, i + 1, Len(s))
    <3>1. g \in Seq(S) /\ h \in Seq(S) /\ sep \in S /\ s = g \o <<sep>> \o h /\ i = Len(g) + 1
      BY <2>1, <2>2
    <3>2. QED
      BY ONLY <3>1
  <2>4. /\ Blankly(SubSeq(s, 1, i - 1), SubSeq(t, 1, i - 1))
        /\ Blankly(SubSeq(s, i + 1, Len(s)), SubSeq(t, i + 1, Len(s)))
    <3>1. PICK a, b, l : a = i - 1 /\ b = i + 1 /\ l = Len(s)
      OBVIOUS
    <3>2. a \in Int /\ b \in Int /\ l \in Int /\ 1 <= b /\ a <= Len(s) /\ l <= Len(s)
      BY <1>1, <2>3, <3>1
    <3>3. Blankly(SubSeq(s, 1, a), SubSeq(t, 1, a))
      BY <3>2, BlanklyPart
    <3>4. Blankly(SubSeq(s, b, l), SubSeq(t, b, l))
      BY <3>2, BlanklyPart
    <3>5. QED
      BY <3>1, <3>3, <3>4
  <2>5. PICK g1, h1 : g1 = SubSeq(t, 1, i - 1) /\ h1 = SubSeq(t, i + 1, Len(t))
    OBVIOUS
  <2>6. g1 \in Seq(S) /\ h1 \in Seq(S) /\ t = g1 \o <<sep>> \o h1
    <3>1. t[i] = sep /\ i \in 1..Len(t)
      BY <1>1, <2>3
    <3>2. t = SubSeq(t, 1, i - 1) \o <<t[i]>> \o SubSeq(t, i + 1, Len(t))
      BY <3>1, CutAt
    <3>3. g1 \in Seq(S) /\ h1 \in Seq(S)
      <4>1. i \in 1..Len(t) /\ Len(t) \in Nat
        BY <3>1
      <4>2. QED
        BY ONLY <4>1, <2>5, t \in Seq(S)
    <3>4. QED
      BY <2>5, <3>1, <3>2, <3>3
  <2>7. Blankly(g, g1) /\ Blankly(h, h1)
    BY <1>1, <2>3, <2>4, <2>5
  <2>8. g \in Seq(S) /\ g1 \in Seq(S) /\ sep \notin LexemesOf(g)
    BY <2>1, <2>6
  <2>9. sep \notin LexemesOf(g1)
    BY <2>7, <2>8, BlanklyPlaces
  <2>10. Before(t, sep) = g1 /\ After(t, sep) = h1
    <3>1. g1 \in Seq(S) /\ h1 \in Seq(S) /\ sep \in S
      BY <2>1, <2>6
    <3>2. Before(g1 \o <<sep>> \o h1, sep) = g1 /\ After(g1 \o <<sep>> \o h1, sep) = h1
      BY <2>9, <3>1, BeforeAfter
    <3>3. QED
      BY <2>6, <3>2
  <2>11. QED
    BY <2>0, <2>7, <2>10
<1>4. QED
  BY <1>2, <1>3

LEMMA BlanklyEqual ==
  ASSUME NEW S, NEW s \in Seq(S), NEW t \in Seq(S), Blankly(s, t)
  PROVE  /\ LexemesOf(s) \intersect Blanks = {} => s = t
         /\ HTAB \notin LexemesOf(s) /\ HTAB \notin LexemesOf(t) => s = t
<1>1. Len(s) = Len(t)
  BY DEF Blankly
<1>2. ASSUME LexemesOf(s) \intersect Blanks = {} PROVE s = t
  <2>1. \A i \in 1..Len(s) : s[i] = t[i]
    BY <1>2 DEF Blankly, LexemesOf
  <2>2. QED
    BY <1>1, <2>1, SeqEqual
<1>3. ASSUME HTAB \notin LexemesOf(s), HTAB \notin LexemesOf(t) PROVE s = t
  <2>1. \A i \in 1..Len(s) : s[i] = t[i]
    <3>1. PICK sp, tab : sp = SP /\ tab = HTAB /\ Blanks = {sp, tab}
      BY DEF Blanks
    <3>2. \A i \in 1..Len(s) : s[i] # tab /\ t[i] # tab
      BY <1>1, <1>3, <3>1 DEF LexemesOf
    <3>3. QED
      BY <3>1, <3>2 DEF Blankly
  <2>2. QED
    BY <1>1, <2>1, SeqEqual
<1>4. QED
  BY <1>2, <1>3

\* Lists of segments with the same names, the same faults and, where a segment is
\* a tag, the same tag.
SoundAlike(p, q) ==
  /\ Len(p) = Len(q)
  /\ \A i \in 1..Len(p) :
       /\ TagOf(p[i]).name = TagOf(q[i]).name /\ (IsTag(p[i]) <=> IsTag(q[i]))
       /\ IsTag(p[i]) => TagOf(p[i]) = TagOf(q[i])

LEMMA SameSoundTags ==
  ASSUME NEW T, NEW s, NEW t, Written(s) \in Seq(T), Written(t) \in Seq(T),
         SoundAlike(Written(s), Written(t)), PassesOctetGate(s) <=> PassesOctetGate(t)
  PROVE  /\ TagsFault(s) = TagsFault(t)
         /\ TagsFault(s) = Pass => Tags(s) = Tags(t)
<1>1. PICK p, q : p = Written(s) /\ q = Written(t)
  OBVIOUS
<1>2. PICK n : n = Len(p)
  OBVIOUS
<1>3. n \in Nat /\ DOMAIN p = 1..n /\ DOMAIN q = 1..n
  BY <1>1, <1>2 DEF SoundAlike
<1>4. \A i \in 1..n : /\ TagOf(p[i]).name = TagOf(q[i]).name /\ (IsTag(p[i]) <=> IsTag(q[i]))
                      /\ IsTag(p[i]) => TagOf(p[i]) = TagOf(q[i])
  BY <1>1, <1>2 DEF SoundAlike
<1>5. Tags(s) = [i \in 1..n |-> TagOf(p[i])] /\ Tags(t) = [i \in 1..n |-> TagOf(q[i])]
  BY <1>1, <1>3 DEF Tags
<1>6. \A i \in 1..n : FaultAt(p, i) = FaultAt(q, i)
  <2> TAKE i \in 1..n
  <2>1. \A j \in 1..(i - 1) : j \in 1..n
    BY <1>3
  <2>2. (\A j \in 1..(i - 1) : TagOf(p[j]).name # TagOf(p[i]).name)
          <=> (\A j \in 1..(i - 1) : TagOf(q[j]).name # TagOf(q[i]).name)
    BY <1>4, <2>1
  <2>3. QED
    BY <1>4, <2>2 DEF FaultAt, Check
<1>7. FaultyPlaces(s) = FaultyPlaces(t) /\ FirstFaulty(s) = FirstFaulty(t)
  <2>1. FaultyPlaces(s) = FaultyPlaces(t)
    BY <1>1, <1>3, <1>6 DEF FaultyPlaces
  <2>2. QED
    BY <2>1 DEF FirstFaulty
<1>8. ASSUME FaultyPlaces(s) # {} PROVE FirstFaulty(s) \in FaultyPlaces(s)
  <2>1. p \in Seq(T) /\ FaultyPlaces(s) \subseteq DOMAIN p
    BY <1>1 DEF FaultyPlaces
  <2>2. IsPlaces(FaultyPlaces(s))
    BY <2>1, PlacesInText
  <2>3. \E i \in FaultyPlaces(s) : \A j \in FaultyPlaces(s) : i <= j
    BY <1>8, <2>2, FirstOfPlaces
  <2>4. QED
    BY <2>3 DEF FirstFaulty
<1>9. Check(PassesOctetGate(s), "malformed_tag") = Check(PassesOctetGate(t), "malformed_tag")
  BY DEF Check
<1>10. CASE FaultyPlaces(s) # {}
  <2>1. FirstFaulty(s) \in 1..n /\ FaultAt(p, FirstFaulty(s)) # Pass
    BY <1>1, <1>3, <1>8, <1>10 DEF FaultyPlaces
  <2>2. FirstTagFault(s) = FirstTagFault(t) /\ FirstTagFault(s) # Pass
    BY <1>1, <1>6, <1>7, <1>10, <2>1 DEF FirstTagFault
  <2>3. QED
    BY <1>9, <2>2, TagsFaultStages DEF ??
<1>11. CASE FaultyPlaces(s) = {}
  <2>1. \A i \in 1..n : TagOf(p[i]) = TagOf(q[i])
    <3>1. \A i \in 1..n : FaultAt(p, i) = Pass
      BY <1>1, <1>3, <1>11 DEF FaultyPlaces
    <3>2. \A i \in 1..n : IsTag(p[i])
      BY <3>1 DEF FaultAt, Check, Pass, ??
    <3>3. QED
      BY <1>4, <3>2
  <2>2. (p # <<>> /\ TagOf(p[1]) = VersionTag) <=> (q # <<>> /\ TagOf(q[1]) = VersionTag)
    <3>1. p # <<>> <=> 1 \in 1..n
      BY <1>1, <1>3
    <3>2. q # <<>> <=> 1 \in 1..n
      BY <1>1, <1>3
    <3>3. QED
      BY <2>1, <3>1, <3>2
  <2>3. Check(p # <<>> /\ TagOf(p[1]) = VersionTag, "not_sworn")
          = Check(q # <<>> /\ TagOf(q[1]) = VersionTag, "not_sworn")
    BY <2>2 DEF Check
  <2>4. FirstTagFault(s) = FirstTagFault(t)
    BY <1>7, <1>11 DEF FirstTagFault
  <2>5. TagsFault(s) = TagsFault(t)
    BY <1>1, <1>9, <2>3, <2>4, TagsFaultStages
  <2>6. Tags(s) = Tags(t)
    BY <1>5, <2>1
  <2>7. QED
    BY <2>5, <2>6
<1>12. QED
  BY <1>10, <1>11

\* Segments that differ in their blanks only, without a tab in their names.
LEMMA BlanklySegment ==
  ASSUME NEW S, NEW x \in Seq(S), NEW y \in Seq(S), Blankly(x, y),
         HTAB \notin LexemesOf(TagOf(x).name), HTAB \notin LexemesOf(TagOf(y).name)
  PROVE  /\ TagOf(x).name = TagOf(y).name /\ (IsTag(x) <=> IsTag(y))
         /\ IsTag(x) => TagOf(x) = TagOf(y)
<1>1. "=" \notin Blanks
  BY DEF Blanks, SP, HTAB
<1>2. "=" \in LexemesOf(x) <=> "=" \in LexemesOf(y)
  BY <1>1, BlanklyPlaces
<1>3. PICK n, m, v, w : /\ n = Trim(Before(x, "=")) /\ m = Trim(Before(y, "="))
                        /\ v = Trim(After(x, "=")) /\ w = Trim(After(y, "="))
  OBVIOUS
<1>4. TagOf(x) = Tag(n, v) /\ TagOf(y) = Tag(m, w)
  BY <1>3 DEF TagOf
<1>5. /\ n \in Seq(S) /\ m \in Seq(S) /\ v \in Seq(S) /\ w \in Seq(S)
      /\ Blankly(n, m) /\ Blankly(v, w)
  <2>1. PICK a, b, c, d : /\ a = Before(x, "=") /\ b = Before(y, "=")
                          /\ c = After(x, "=") /\ d = After(y, "=")
    OBVIOUS
  <2>2. a \in Seq(S) /\ b \in Seq(S) /\ c \in Seq(S) /\ d \in Seq(S)
    BY <2>1, PartsType
  <2>3. Blankly(a, b) /\ Blankly(c, d)
    BY <1>1, <2>1, BlanklyParts
  <2>4. /\ Trim(a) \in Seq(S) /\ Trim(b) \in Seq(S) /\ Trim(c) \in Seq(S) /\ Trim(d) \in Seq(S)
        /\ Blankly(Trim(a), Trim(b)) /\ Blankly(Trim(c), Trim(d))
    BY <2>2, <2>3, TrimParts, BlanklyTrim
  <2>5. QED
    BY <1>3, <2>1, <2>4
<1>6. n = m
  <2>1. HTAB \notin LexemesOf(n) /\ HTAB \notin LexemesOf(m)
    BY <1>4 DEF Tag
  <2>2. QED
    BY <1>5, <2>1, BlanklyEqual
<1>7. LexemesOf(v) \intersect Blanks = {} <=> LexemesOf(w) \intersect Blanks = {}
  <2>1. Blankly(w, v)
    BY <1>5 DEF Blankly
  <2>2. /\ LexemesOf(v) \intersect Blanks = {} => v = w
        /\ LexemesOf(w) \intersect Blanks = {} => w = v
    BY <1>5, <2>1, BlanklyEqual
  <2>3. QED
    BY <2>2
<1>8. LexemesOf(v) \intersect Blanks = {} => v = w
  BY <1>5, BlanklyEqual
<1>9. TagOf(x).name = n /\ TagOf(y).name = m /\ TagOf(x).value = v /\ TagOf(y).value = w
  BY <1>4 DEF Tag
<1>10. IsTag(x) <=> IsTag(y)
  BY <1>2, <1>6, <1>7, <1>9 DEF IsTag
<1>11. ASSUME IsTag(x) PROVE TagOf(x) = TagOf(y)
  <2>1. LexemesOf(v) \intersect Blanks = {}
    BY <1>9, <1>11 DEF IsTag
  <2>2. QED
    BY <1>4, <1>6, <1>8, <2>1
<1>12. QED
  BY <1>6, <1>9, <1>10, <1>11

NamesTabless(s) == \A i \in DOMAIN Written(s) : HTAB \notin LexemesOf(TagOf(Written(s)[i]).name)

\* Records that differ in their blanks only are read alike.
LEMMA BlanklyRecords ==
  ASSUME NEW S, NEW s \in Seq(S), NEW t \in Seq(S), Blankly(s, t),
         NamesTabless(s), NamesTabless(t)
  PROVE  /\ TagsFault(s) = TagsFault(t)
         /\ TagsFault(s) = Pass => Tags(s) = Tags(t)
<1>1. PICK T, p, q : T = Seq(S) /\ p = Written(s) /\ q = Written(t) /\ p \in Seq(T) /\ q \in Seq(T)
  BY WrittenType
<1>2. BlanklyAll(p, q)
  BY <1>1, BlanklyWritten
<1>3. Len(p) = Len(q) /\ \A i \in 1..Len(p) : Blankly(p[i], q[i])
  BY <1>2 DEF BlanklyAll
<1>4. DOMAIN p = 1..Len(p) /\ DOMAIN q = 1..Len(p)
  BY <1>1, <1>3
<1>5. ASSUME NEW i \in 1..Len(p)
      PROVE  /\ TagOf(p[i]).name = TagOf(q[i]).name /\ (IsTag(p[i]) <=> IsTag(q[i]))
             /\ IsTag(p[i]) => TagOf(p[i]) = TagOf(q[i])
  <2>1. p[i] \in Seq(S) /\ q[i] \in Seq(S)
    BY <1>1, <1>4
  <2>2. HTAB \notin LexemesOf(TagOf(p[i]).name) /\ HTAB \notin LexemesOf(TagOf(q[i]).name)
    BY <1>1, <1>4 DEF NamesTabless
  <2>3. Blankly(p[i], q[i])
    BY <1>3
  <2>4. QED
    BY <2>1, <2>2, <2>3, BlanklySegment
<1>6. SoundAlike(p, q)
  BY <1>3, <1>5 DEF SoundAlike
<1>7. PassesOctetGate(s) <=> PassesOctetGate(t)
  <2>1. \A x : x \notin Blanks => (x \in LexemesOf(s) <=> x \in LexemesOf(t))
    BY BlanklyPlaces
  <2>2. \A x : x \in Blanks => x \in Printable \union {HTAB}
    BY PrintableAssumption DEF Blanks
  <2>3. QED
    BY <2>1, <2>2 DEF PassesOctetGate
<1>8. SoundAlike(Written(s), Written(t))
  BY <1>1, <1>6
<1>9. Written(s) \in Seq(T) /\ Written(t) \in Seq(T)
  BY <1>1
<1>10. QED
  BY ONLY <1>7, <1>8, <1>9, SameSoundTags

LEMMA BlanklyPolicies ==
  ASSUME NEW S, NEW s \in Seq(S), NEW t \in Seq(S), Blankly(s, t),
         NamesTabless(s), NamesTabless(t)
  PROVE  /\ PolicyFault(s) = PolicyFault(t)
         /\ PolicyFault(s) = Pass => PolicyOf(s) = PolicyOf(t)
<1>1. TagsFault(s) = TagsFault(t) /\ (TagsFault(s) = Pass => Tags(s) = Tags(t))
  BY BlanklyRecords
<1>2. CASE TagsFault(s) = Pass
  BY <1>1, <1>2 DEF PolicyFault, PolicyOf
<1>3. CASE TagsFault(s) # Pass
  BY <1>1, <1>3 DEF PolicyFault, ??
<1>4. QED
  BY <1>2, <1>3

-----------------------------------------------------------------------------
(* What a record says is written in it. *)

\* What may stand around an entry of a list, and before a segment.
SegmentLeft == {";"} \union Blanks
EntryLeft   == {"=", ","} \union Blanks
EntryRight  == {",", ";"} \union Blanks

LEMMA Marks ==
  /\ ";" \in SegmentLeft /\ ";" \in EntryRight
  /\ "=" \in EntryLeft /\ "," \in EntryLeft /\ "," \in EntryRight
  /\ Blanks \subseteq SegmentLeft /\ Blanks \subseteq EntryLeft /\ Blanks \subseteq EntryRight
BY DEF SegmentLeft, EntryLeft, EntryRight

\* The segments of a record without a fault are tags.
LEMMA SegmentsAreTags ==
  ASSUME NEW S, NEW s \in Seq(S), TagsFault(s) = Pass, NEW i \in DOMAIN Written(s)
  PROVE  IsTag(Written(s)[i])
<1>1. FirstTagFault(s) = Pass
  <2>1. (Check(PassesOctetGate(s), "malformed_tag")
         ?? FirstTagFault(s)
         ?? Check(Written(s) # <<>> /\ TagOf(Written(s)[1]) = VersionTag, "not_sworn")) = Pass
    BY TagsFaultStages
  <2>2. QED
    BY <2>1 DEF ??
<1>2. FaultyPlaces(s) = {}
  <2> SUFFICES ASSUME FaultyPlaces(s) # {} PROVE FALSE
    OBVIOUS
  <2>1. FirstFaulty(s) \in FaultyPlaces(s)
    BY FirstFaultyIsFaulty
  <2>2. QED
    BY <1>1, <2>1 DEF FaultyPlaces, FirstTagFault
<1>3. FaultAt(Written(s), i) = Pass
  BY <1>2 DEF FaultyPlaces
<1>4. QED
  BY <1>3 DEF FaultAt, Check, Pass, ??

\* The value of a tag is written in the record, behind an equals sign.
LEMMA ValueFollows ==
  ASSUME NEW S, NEW s \in Seq(S), TagsFault(s) = Pass, NEW tag \in LexemesOf(Tags(s))
  PROVE  Follows(S, s, tag.value, EntryLeft, EntryRight) /\ tag.value \in Seq(S)
<1>1. PICK i \in DOMAIN Written(s) : tag = TagOf(Written(s)[i])
  BY DEF LexemesOf, Tags
<1>2. PICK segment : segment = Written(s)[i]
  OBVIOUS
<1>3. IsTag(segment)
  BY <1>2, SegmentsAreTags
<1>4. PICK j \in DOMAIN Split(s, ";") : segment = Trim(Split(s, ";")[j])
  <2>1. \E j \in DOMAIN Split(s, ";") : Written(s)[i] = Trim(Split(s, ";")[j])
    BY WrittenType
  <2>2. QED
    BY <1>2, <2>1
<1>5. PICK piece : piece = Split(s, ";")[j]
  OBVIOUS
<1>6. Within(S, s, piece, SegmentLeft, EntryRight) /\ piece \in Seq(S)
  <2>1. ";" \in SegmentLeft /\ ";" \in EntryRight
    BY Marks
  <2>2. Within(S, s, Split(s, ";")[j], SegmentLeft, EntryRight) /\ Split(s, ";")[j] \in Seq(S)
    BY <2>1, PieceWithin
  <2>3. QED
    BY <1>5, <2>2
<1>7. Within(S, piece, segment, SegmentLeft, EntryRight) /\ segment \in Seq(S)
  <2>1. Blanks \subseteq SegmentLeft /\ Blanks \subseteq EntryRight
    BY Marks
  <2>2. Within(S, piece, Trim(piece), SegmentLeft, EntryRight) /\ Trim(piece) \in Seq(S)
    BY <1>6, <2>1, TrimWithin
  <2>3. QED
    BY <1>4, <1>5, <2>2
<1>8. PICK text : text = After(segment, "=")
  OBVIOUS
<1>9. Follows(S, segment, text, EntryLeft, EntryRight) /\ text \in Seq(S)
  <2>1. "=" \in EntryLeft /\ "=" \in LexemesOf(segment)
    BY <1>3, Marks DEF IsTag
  <2>2. /\ Follows(S, segment, After(segment, "="), EntryLeft, EntryRight)
        /\ After(segment, "=") \in Seq(S)
    BY <1>7, <2>1, AfterFollows
  <2>3. QED
    BY <1>8, <2>2
<1>10. Within(S, text, Trim(text), EntryLeft, EntryRight) /\ Trim(text) \in Seq(S)
  <2>1. Blanks \subseteq EntryLeft /\ Blanks \subseteq EntryRight
    BY Marks
  <2>2. QED
    BY <1>9, <2>1, TrimWithin
<1>11. tag.value = Trim(text)
  BY <1>1, <1>2, <1>8 DEF TagOf, Tag
<1>12. Within(S, s, segment, SegmentLeft, EntryRight)
  BY <1>6, <1>7, WithinTwice
<1>13. Follows(S, s, text, EntryLeft, EntryRight)
  BY <1>9, <1>12, FollowsWithin
<1>14. Follows(S, s, Trim(text), EntryLeft, EntryRight)
  BY <1>10, <1>13, WithinFollows
<1>15. QED
  BY <1>10, <1>11, <1>14

\* Every entry a policy enumerates is written in it.
WrittenEntry(S, s, entry, prefix) ==
  /\ entry \in Seq(S) /\ entry # <<>>
  /\ Follows(S, s, entry, EntryLeft, EntryRight)
  /\ IsPrefixText(entry) /\ PrefixFrom(entry) = prefix

LEMMA EntriesAreWritten ==
  ASSUME NEW S, NEW s \in Seq(S), PolicyFault(s) = Pass, NEW i \in DOMAIN PolicyOf(s).prefixes
  PROVE  \E entry : WrittenEntry(S, s, entry, PolicyOf(s).prefixes[i])
<1>1. PICK kept, entries : kept = KeptEntries(Tags(s)) /\ entries = EntriesOf(Tags(s))
  OBVIOUS
<1>2. TagsFault(s) = Pass
      /\ Check(\A entry \in LexemesOf(KeptEntries(Tags(s))) :
                 IsPrefixText(entry) /\ IsAttestable(PrefixFrom(entry)), "bad_p") = Pass
  BY DEF PolicyFault, ??
<1>3. \A entry \in LexemesOf(kept) : IsPrefixText(entry)
  BY <1>1, <1>2 DEF Check, Pass
<1>4. i \in DOMAIN kept /\ PolicyOf(s).prefixes[i] = PrefixFrom(kept[i])
  BY <1>1 DEF PolicyOf, PrefixesOf
<1>5. i \in DOMAIN entries /\ kept[i] = entries[i]
  BY <1>1, <1>4 DEF KeptEntries
<1>6. PICK entry : entry = entries[i]
  OBVIOUS
<1>7. IsPrefixText(entry) /\ PrefixFrom(entry) = PolicyOf(s).prefixes[i]
  BY <1>3, <1>4, <1>5, <1>6 DEF LexemesOf
<1>8. HasTag(Tags(s), "p")
  <2>1. ASSUME entries = <<>> PROVE FALSE
    BY <1>5, <2>1
  <2>2. QED
    BY <1>1, <2>1 DEF EntriesOf
<1>9. PICK value : value = TagValue(Tags(s), "p")
  OBVIOUS
<1>10. \E tag \in LexemesOf(Tags(s)) : value = tag.value
  <2>1. \E m \in DOMAIN Tags(s) : Tags(s)[m].name = <<"p">>
    BY <1>8 DEF HasTag, Repeats
  <2>2. PICK m \in DOMAIN Tags(s) : value = Tags(s)[m].value
    BY <1>9, <2>1 DEF TagValue
  <2>3. QED
    BY <2>2 DEF LexemesOf
<1>11. Follows(S, s, value, EntryLeft, EntryRight) /\ value \in Seq(S)
  BY <1>2, <1>10, ValueFollows
<1>12. \E j \in DOMAIN Split(value, ",") : entry = Split(value, ",")[j] /\ entry # <<>>
  <2>1. PICK T, pieces : T = Seq(S) /\ pieces = Split(value, ",") /\ pieces \in Seq(T)
    BY <1>11, SplitType
  <2>2. entries = Picked(pieces, Filled(pieces))
    BY <1>1, <1>8, <1>9, <2>1 DEF EntriesOf, NonEmpty
  <2>3. Filled(pieces) \subseteq DOMAIN pieces
    BY DEF Filled
  <2>4. \A k \in DOMAIN Picked(pieces, Filled(pieces)) :
          \E j \in Filled(pieces) : Picked(pieces, Filled(pieces))[k] = pieces[j]
    <3>1. pieces \in Seq(T)
      BY <2>1
    <3>2. QED
      BY ONLY <2>3, <3>1, PickedType
  <2>5. \E j \in Filled(pieces) : entry = pieces[j]
    BY <1>5, <1>6, <2>2, <2>4
  <2>6. QED
    BY <2>1, <2>5 DEF Filled
<1>13. PICK j \in DOMAIN Split(value, ",") : entry = Split(value, ",")[j] /\ entry # <<>>
  BY <1>12
<1>14. Within(S, value, entry, EntryLeft, EntryRight) /\ entry \in Seq(S)
  <2>1. "," \in EntryLeft /\ "," \in EntryRight
    BY Marks
  <2>2. /\ Within(S, value, Split(value, ",")[j], EntryLeft, EntryRight)
        /\ Split(value, ",")[j] \in Seq(S)
    BY <1>11, <2>1, PieceWithin
  <2>3. QED
    BY <1>13, <2>2
<1>15. Follows(S, s, entry, EntryLeft, EntryRight)
  BY <1>11, <1>14, WithinFollows
<1>16. QED
  BY <1>7, <1>13, <1>14, <1>15 DEF WrittenEntry

-----------------------------------------------------------------------------
(* The order of the tags. *)

\* A record is sound when every segment is a tag, their names differ, and the
\* first is the version.
LEMMA SoundByParts ==
  ASSUME NEW s, PassesOctetGate(s), Written(s) # <<>>, TagOf(Written(s)[1]) = VersionTag,
         NEW n \in Nat, DOMAIN Written(s) = 1..n,
         \A i \in 1..n : IsTag(Written(s)[i]),
         \A i \in 1..n, j \in 1..n :
           TagOf(Written(s)[i]).name = TagOf(Written(s)[j]).name => i = j
  PROVE  TagsFault(s) = Pass
<1>1. ASSUME NEW i \in 1..n PROVE FaultAt(Written(s), i) = Pass
  <2>1. ASSUME NEW j \in 1..(i - 1)
        PROVE  TagOf(Written(s)[j]).name # TagOf(Written(s)[i]).name
    <3>1. j \in 1..n /\ j # i
      OBVIOUS
    <3>2. QED
      BY <3>1
  <2>2. QED
    BY <2>1 DEF FaultAt, Check, ??
<1>2. FirstTagFault(s) = Pass
  BY <1>1 DEF FirstTagFault, FaultyPlaces
<1>3. /\ Check(PassesOctetGate(s), "malformed_tag") = Pass
      /\ Check(Written(s) # <<>> /\ TagOf(Written(s)[1]) = VersionTag, "not_sworn") = Pass
  BY DEF Check
<1>4. QED
  BY <1>2, <1>3, TagsFaultStages DEF ??

\* q says what p says, in another order behind the first element.
Reordered(q, p) ==
  \E n \in Nat \ {0} : \E pi \in [1..n -> 1..n] :
    /\ DOMAIN p = 1..n /\ DOMAIN q = 1..n
    /\ \A i \in 1..n : q[i] = p[pi[i]]
    /\ \A i, j \in 1..n : pi[i] = pi[j] => i = j
    /\ pi[1] = 1

\* One list behind another: where its elements are.
ListBehind(T, w, x, a, y, b) ==
  /\ w \in Seq(T) /\ Len(w) = a + b
  /\ \A i \in 1..a : w[i] = x[i]
  /\ \A i \in 1..b : w[a + i] = y[i]

LEMMA ListsConcat ==
  ASSUME NEW T, NEW x \in Seq(T), NEW y \in Seq(T), NEW a, a = Len(x), NEW b, b = Len(y)
  PROVE  \E w : w = x \o y /\ ListBehind(T, w, x, a, y, b)
<1>1. PICK m : m = a + b
  OBVIOUS
<1>2. /\ x \o y \in Seq(T) /\ Len(x \o y) = m
      /\ \A i \in 1..a : (x \o y)[i] = x[i]
      /\ \A i \in 1..b : (x \o y)[a + i] = y[i]
  BY ONLY x \in Seq(T), y \in Seq(T), a = Len(x), b = Len(y), <1>1, ConcatAt
<1>3. QED
  BY <1>1, <1>2 DEF ListBehind

\* Four lists one behind another.
FourLists(t, a, b, c, d) == t = a \o b \o c \o d

LEMMA FourListsAt ==
  ASSUME NEW T, NEW a \in Seq(T), NEW b \in Seq(T), NEW c \in Seq(T), NEW d \in Seq(T),
         NEW t, FourLists(t, a, b, c, d)
  PROVE  /\ t \in Seq(T) /\ Len(t) = Len(a) + Len(b) + Len(c) + Len(d)
         /\ \A i \in 1..Len(a) : t[i] = a[i]
         /\ \A i \in 1..Len(b) : t[Len(a) + i] = b[i]
         /\ \A i \in 1..Len(c) : t[Len(a) + Len(b) + i] = c[i]
         /\ \A i \in 1..Len(d) : t[Len(a) + Len(b) + Len(c) + i] = d[i]
<1>1. PICK l, m, n, o : l = Len(a) /\ m = Len(b) /\ n = Len(c) /\ o = Len(d)
  OBVIOUS
<1>2. l \in Nat /\ m \in Nat /\ n \in Nat /\ o \in Nat
  BY <1>1
<1>3. PICK ab : ab = a \o b /\ ListBehind(T, ab, a, l, b, m)
  BY ONLY a \in Seq(T), b \in Seq(T), <1>1, ListsConcat
<1>4. /\ ab = a \o b /\ ab \in Seq(T) /\ Len(ab) = l + m
      /\ \A i \in 1..l : ab[i] = a[i]
      /\ \A i \in 1..m : ab[l + i] = b[i]
  BY ONLY <1>3 DEF ListBehind
<1>5. PICK abc : abc = ab \o c /\ ListBehind(T, abc, ab, l + m, c, n)
  BY ONLY <1>4, c \in Seq(T), <1>1, ListsConcat
<1>6. /\ abc = ab \o c /\ abc \in Seq(T) /\ Len(abc) = l + m + n
      /\ \A i \in 1..(l + m) : abc[i] = ab[i]
      /\ \A i \in 1..n : abc[l + m + i] = c[i]
  BY ONLY <1>5 DEF ListBehind
<1>7. /\ t \in Seq(T) /\ Len(t) = l + m + n + o
      /\ \A i \in 1..(l + m + n) : t[i] = abc[i]
      /\ \A i \in 1..o : t[l + m + n + i] = d[i]
  <2>1. t = abc \o d
    BY <1>4, <1>6 DEF FourLists
  <2>2. PICK w : w = abc \o d /\ ListBehind(T, w, abc, l + m + n, d, o)
    BY ONLY <1>6, d \in Seq(T), <1>1, ListsConcat
  <2>3. ListBehind(T, t, abc, l + m + n, d, o)
    BY ONLY <2>1, <2>2
  <2>4. QED
    BY ONLY <2>3 DEF ListBehind
<1>8. ASSUME NEW i \in 1..(l + m) PROVE t[i] = ab[i]
  <2>1. i \in 1..(l + m + n)
    BY <1>2
  <2>2. QED
    BY <1>6, <1>7, <2>1
<1>9. \A i \in 1..l : t[i] = a[i]
  <2> TAKE i \in 1..l
  <2>1. i \in 1..(l + m)
    BY <1>2
  <2>2. QED
    BY <1>4, <1>8, <2>1
<1>10. \A i \in 1..m : t[l + i] = b[i]
  <2> TAKE i \in 1..m
  <2>1. l + i \in 1..(l + m)
    BY <1>2
  <2>2. QED
    BY <1>4, <1>8, <2>1
<1>11. \A i \in 1..n : t[l + m + i] = c[i]
  <2> TAKE i \in 1..n
  <2>1. l + m + i \in 1..(l + m + n)
    BY <1>2
  <2>2. QED
    BY <1>6, <1>7, <2>1
<1>12. QED
  BY <1>1, <1>7, <1>9, <1>10, <1>11

\* Where the element at place i of the exchanged lists is in the first ones.
Origin(i, l, m, n) ==
  IF i <= l THEN i ELSE IF i <= l + n THEN i + m ELSE IF i <= l + n + m THEN i - n ELSE i

LEMMA OriginIsPlace ==
  ASSUME NEW l \in Nat, NEW m \in Nat, NEW n \in Nat, NEW o \in Nat, NEW i \in 1..(l + m + n + o)
  PROVE  /\ Origin(i, l, m, n) \in 1..(l + m + n + o)
         /\ \A j \in 1..(l + m + n + o) : Origin(i, l, m, n) = Origin(j, l, m, n) => i = j
BY DEF Origin

\* Two lists in the middle of four are exchanged.
LEMMA ExchangedLists ==
  ASSUME NEW T, NEW a \in Seq(T), NEW b \in Seq(T), NEW c \in Seq(T), NEW d \in Seq(T), a # <<>>,
         NEW p, FourLists(p, a, b, c, d), NEW q, FourLists(q, a, c, b, d)
  PROVE  Reordered(q, p)
<1>1. PICK l, m, n, o : l = Len(a) /\ m = Len(b) /\ n = Len(c) /\ o = Len(d)
  OBVIOUS
<1>2. l \in Nat /\ m \in Nat /\ n \in Nat /\ o \in Nat /\ l # 0
  BY <1>1
<1>3. PICK k : k = l + m + n + o
  OBVIOUS
<1>4. /\ p \in Seq(T) /\ Len(p) = k
      /\ \A i \in 1..l : p[i] = a[i]
      /\ \A i \in 1..m : p[l + i] = b[i]
      /\ \A i \in 1..n : p[l + m + i] = c[i]
      /\ \A i \in 1..o : p[l + m + n + i] = d[i]
  BY <1>1, <1>3, FourListsAt
<1>5. /\ q \in Seq(T) /\ Len(q) = l + n + m + o
      /\ \A i \in 1..l : q[i] = a[i]
      /\ \A i \in 1..n : q[l + i] = c[i]
      /\ \A i \in 1..m : q[l + n + i] = b[i]
      /\ \A i \in 1..o : q[l + n + m + i] = d[i]
  BY <1>1, FourListsAt
<1>6. k \in Nat /\ k # 0 /\ l + n + m + o = k
  BY <1>2, <1>3
<1>7. PICK pi : pi = [i \in 1..k |-> Origin(i, l, m, n)]
  OBVIOUS
<1>8. ASSUME NEW i \in 1..k PROVE q[i] = p[pi[i]]
  <2>1. CASE i <= l
    <3>1. i \in 1..l /\ pi[i] = i
      BY <1>2, <1>7, <2>1 DEF Origin
    <3>2. QED
      BY <1>4, <1>5, <3>1
  <2>2. CASE l < i /\ i <= l + n
    <3>1. PICK j : j = i - l
      OBVIOUS
    <3>2. j \in 1..n /\ i = l + j /\ pi[i] = l + m + j
      BY <1>2, <1>6, <1>7, <2>2, <3>1 DEF Origin
    <3>3. QED
      BY <1>4, <1>5, <3>2
  <2>3. CASE l + n < i /\ i <= l + n + m
    <3>1. PICK j : j = i - (l + n)
      OBVIOUS
    <3>2. j \in 1..m /\ i = l + n + j /\ pi[i] = l + j
      BY <1>2, <1>6, <1>7, <2>3, <3>1 DEF Origin
    <3>3. QED
      BY <1>4, <1>5, <3>2
  <2>4. CASE l + n + m < i
    <3>1. PICK j : j = i - (l + n + m)
      OBVIOUS
    <3>2. j \in 1..o /\ i = l + n + m + j /\ pi[i] = l + m + n + j
      BY <1>2, <1>6, <1>7, <2>4, <3>1 DEF Origin
    <3>3. QED
      BY <1>4, <1>5, <3>2
  <2>5. i \in Int /\ l \in Int /\ n \in Int /\ m \in Int
    BY <1>2, <1>6
  <2>6. i <= l \/ (l < i /\ i <= l + n) \/ (l + n < i /\ i <= l + n + m) \/ l + n + m < i
    BY ONLY <2>5
  <2>7. QED
    BY ONLY <2>1, <2>2, <2>3, <2>4, <2>6
<1>9. /\ \A i \in 1..k : pi[i] = Origin(i, l, m, n)
      /\ \A i \in 1..k : /\ Origin(i, l, m, n) \in 1..k
                         /\ \A j \in 1..k : Origin(i, l, m, n) = Origin(j, l, m, n) => i = j
  <2>1. \A i \in 1..k : pi[i] = Origin(i, l, m, n)
    BY ONLY <1>7
  <2>2. \A i \in 1..k : /\ Origin(i, l, m, n) \in 1..k
                        /\ \A j \in 1..k : Origin(i, l, m, n) = Origin(j, l, m, n) => i = j
    <3> TAKE i \in 1..k
    <3>1. i \in 1..(l + m + n + o) /\ l \in Nat /\ m \in Nat /\ n \in Nat /\ o \in Nat
      BY <1>2, <1>3
    <3>2. /\ Origin(i, l, m, n) \in 1..(l + m + n + o)
          /\ \A j \in 1..(l + m + n + o) : Origin(i, l, m, n) = Origin(j, l, m, n) => i = j
      BY ONLY <3>1, OriginIsPlace
    <3>3. QED
      BY ONLY <1>3, <3>2
  <2>3. QED
    BY ONLY <2>1, <2>2
<1>10. \A i \in 1..k : pi[i] \in 1..k
  BY ONLY <1>9
<1>11. \A i, j \in 1..k : pi[i] = pi[j] => i = j
  BY ONLY <1>9
<1>12. pi[1] = 1
  BY <1>2, <1>6, <1>7 DEF Origin
<1>13. DOMAIN p = 1..k /\ DOMAIN q = 1..k
  BY <1>4, <1>5, <1>6
<1>14. k \in Nat \ {0} /\ pi \in [1..k -> 1..k]
  BY <1>6, <1>7, <1>10
<1>15. QED
  BY <1>8, <1>11, <1>12, <1>13, <1>14 DEF Reordered

Elements(w, x, y) == \A z : z \in LexemesOf(w) <=> z \in LexemesOf(x) \/ z \in LexemesOf(y)

LEMMA ElementsConcat ==
  ASSUME NEW T, NEW x \in Seq(T), NEW y \in Seq(T)
  PROVE  x \o y \in Seq(T) /\ Elements(x \o y, x, y)
<1>1. \A z : z \in LexemesOf(x \o y) <=> z \in LexemesOf(x) \/ z \in LexemesOf(y)
  BY ONLY x \in Seq(T), y \in Seq(T), LexemesConcat
<1>2. QED
  BY <1>1 DEF Elements

\* They have the same elements.
LEMMA ExchangedElements ==
  ASSUME NEW T, NEW a \in Seq(T), NEW b \in Seq(T), NEW c \in Seq(T), NEW d \in Seq(T),
         NEW p, FourLists(p, a, b, c, d), NEW q, FourLists(q, a, c, b, d)
  PROVE  LexemesOf(q) = LexemesOf(p)
<1>1. /\ a \o b \in Seq(T) /\ Elements(a \o b, a, b)
      /\ a \o c \in Seq(T) /\ Elements(a \o c, a, c)
  BY ElementsConcat
<1>2. /\ a \o b \o c \in Seq(T) /\ Elements(a \o b \o c, a \o b, c)
      /\ a \o c \o b \in Seq(T) /\ Elements(a \o c \o b, a \o c, b)
  BY <1>1, ElementsConcat
<1>3. Elements(p, a \o b \o c, d) /\ Elements(q, a \o c \o b, d)
  BY <1>2, ElementsConcat DEF FourLists
<1>4. \A z : z \in LexemesOf(q) <=> z \in LexemesOf(p)
  BY <1>1, <1>2, <1>3 DEF Elements
<1>5. QED
  BY <1>4

\* A sound record in another order is sound, and says the same.
LEMMA OrderOfTags ==
  ASSUME NEW S, NEW s \in Seq(S), NEW t, TagsFault(s) = Pass, PassesOctetGate(t),
         Reordered(Written(t), Written(s)), LexemesOf(Written(t)) = LexemesOf(Written(s))
  PROVE  TagsFault(t) = Pass /\ LexemesOf(Tags(t)) = LexemesOf(Tags(s))
<1>1. PICK p, q : p = Written(s) /\ q = Written(t)
  OBVIOUS
<1>2. PICK n \in Nat \ {0} : \E pi \in [1..n -> 1..n] :
             /\ DOMAIN p = 1..n /\ DOMAIN q = 1..n
             /\ \A i \in 1..n : q[i] = p[pi[i]]
             /\ \A i, j \in 1..n : pi[i] = pi[j] => i = j
             /\ pi[1] = 1
  BY <1>1 DEF Reordered
<1>3. PICK pi \in [1..n -> 1..n] :
             /\ DOMAIN p = 1..n /\ DOMAIN q = 1..n
             /\ \A i \in 1..n : q[i] = p[pi[i]]
             /\ \A i, j \in 1..n : pi[i] = pi[j] => i = j
             /\ pi[1] = 1
  BY <1>2
<1>4. /\ TagOf(p[1]) = VersionTag
      /\ \A i, j \in 1..n : TagOf(p[i]).name = TagOf(p[j]).name => i = j
  BY <1>1, <1>3, TagsOfSoundRecord DEF Tags
<1>5. \A i \in 1..n : IsTag(p[i])
  BY <1>1, <1>3, SegmentsAreTags
<1>6. 1 \in 1..n /\ q # <<>>
  BY <1>3
<1>7. TagsFault(t) = Pass
  <2>1. TagOf(q[1]) = VersionTag /\ \A i \in 1..n : IsTag(q[i])
    BY <1>4, <1>5, <1>6, <1>3
  <2>2. \A i \in 1..n, j \in 1..n : TagOf(q[i]).name = TagOf(q[j]).name => i = j
    <3> TAKE i \in 1..n, j \in 1..n
    <3>1. pi[i] \in 1..n /\ pi[j] \in 1..n
      OBVIOUS
    <3>2. q[i] = p[pi[i]] /\ q[j] = p[pi[j]]
      BY <1>3
    <3>3. TagOf(p[pi[i]]).name = TagOf(p[pi[j]]).name => pi[i] = pi[j]
      BY <1>4, <3>1
    <3>4. pi[i] = pi[j] => i = j
      BY <1>3
    <3>5. QED
      BY <3>2, <3>3, <3>4
  <2>3. QED
    BY <1>1, <1>6, <1>3, <2>1, <2>2, SoundByParts
<1>8. LexemesOf(Tags(s)) = {TagOf(z) : z \in LexemesOf(p)}
  BY <1>1 DEF Tags, LexemesOf
<1>9. LexemesOf(Tags(t)) = {TagOf(z) : z \in LexemesOf(q)}
  BY <1>1 DEF Tags, LexemesOf
<1>10. QED
  BY <1>1, <1>7, <1>8, <1>9

\* The four pieces that three cuts leave, and what the last three begin with.
CutsInFour(S, s, i, j, k, a, b, c, d) ==
  /\ a \in Seq(S) /\ b \in Seq(S) /\ c \in Seq(S) /\ d \in Seq(S)
  /\ FourLists(s, a, b, c, d)
  /\ b # <<>> => b[1] = s[i]
  /\ c # <<>> => c[1] = s[j]
  /\ d # <<>> => d[1] = s[k] /\ k # Len(s) + 1

LEMMA CutInFour ==
  ASSUME NEW S, NEW s \in Seq(S), NEW l \in Nat, l = Len(s),
         NEW i \in 1..l, NEW j \in 1..l, NEW k \in 1..(l + 1), i < j, j < k,
         NEW a, a = SubSeq(s, 1, i - 1), NEW b, b = SubSeq(s, i, j - 1),
         NEW c, c = SubSeq(s, j, k - 1), NEW d, d = SubSeq(s, k, l)
  PROVE  CutsInFour(S, s, i, j, k, a, b, c, d)
<1>1. PICK m, n : m = j - 1 /\ n = k - 1
  OBVIOUS
<1>2. m \in 0..Len(s) /\ n \in 0..Len(s) /\ l \in 0..Len(s)
  BY <1>1
<1>3. i \in 1..(m + 1) /\ j \in 1..(n + 1) /\ k \in 1..(l + 1)
  BY <1>1
<1>4. PICK ab, abc : ab = SubSeq(s, 1, m) /\ abc = SubSeq(s, 1, n)
  OBVIOUS
<1>5. s = SubSeq(s, 1, l)
  OBVIOUS
<1>6. b = SubSeq(s, i, m) /\ c = SubSeq(s, j, n) /\ ab = SubSeq(s, 1, j - 1) /\ abc = SubSeq(s, 1, k - 1)
  BY <1>1, <1>4
<1>7. CutOff(S, s, k, s, abc, d)
  BY ONLY s \in Seq(S), d = SubSeq(s, k, l), <1>2, <1>3, <1>5, <1>6, CutWithin
<1>8. CutOff(S, s, j, abc, ab, c)
  BY ONLY s \in Seq(S), <1>2, <1>3, <1>4, <1>6, CutWithin
<1>9. CutOff(S, s, i, ab, a, b)
  BY ONLY s \in Seq(S), a = SubSeq(s, 1, i - 1), <1>2, <1>3, <1>4, <1>6, CutWithin
<1>10. d # <<>> => k # Len(s) + 1
  OBVIOUS
<1>11. QED
  BY ONLY <1>7, <1>8, <1>9, <1>10 DEF CutsInFour, CutOff, FourLists

\* Four texts that a separator opens are written one behind another.
LEMMA FourTextsWritten ==
  ASSUME NEW S, NEW a \in Seq(S), NEW b \in Seq(S), NEW c \in Seq(S), NEW d \in Seq(S),
         NEW sep \in S, NEW eq, AreSeparators(sep, eq),
         Opens(b, sep), Opens(c, sep), Opens(d, sep), NEW t, FourLists(t, a, b, c, d)
  PROVE  /\ t \in Seq(S)
         /\ FourLists(Written(t), Written(a), Written(b), Written(c), Written(d))
<1>1. PICK ab : ab = a \o b /\ ab \in Seq(S)
  BY ConcatAt
<1>2. PICK abc : abc = ab \o c /\ abc \in Seq(S)
  BY <1>1, ConcatAt
<1>3. t = abc \o d /\ t \in Seq(S)
  BY <1>1, <1>2 DEF FourLists
<1>4. Written(ab) = Written(a) \o Written(b)
  BY <1>1, WrittenOpening
<1>5. Written(abc) = Written(ab) \o Written(c)
  BY <1>1, <1>2, WrittenOpening
<1>6. Written(t) = Written(abc) \o Written(d)
  BY <1>2, <1>3, WrittenOpening
<1>7. QED
  BY <1>3, <1>4, <1>5, <1>6 DEF FourLists

\* A sound record with two pieces of it exchanged behind its first tag.
LEMMA ExchangedText ==
  ASSUME NEW S, NEW a \in Seq(S), NEW b \in Seq(S), NEW c \in Seq(S), NEW d \in Seq(S),
         NEW sep \in S, NEW eq, AreSeparators(sep, eq),
         Opens(b, sep), Opens(c, sep), Opens(d, sep), Written(a) # <<>>,
         NEW s, FourLists(s, a, b, c, d), TagsFault(s) = Pass,
         NEW t, FourLists(t, a, c, b, d)
  PROVE  TagsFault(t) = Pass /\ LexemesOf(Tags(t)) = LexemesOf(Tags(s))
<1>1. PICK T : T = Seq(S)
  OBVIOUS
<1>2. PICK wa, wb, wc, wd : wa = Written(a) /\ wb = Written(b) /\ wc = Written(c) /\ wd = Written(d)
  OBVIOUS
<1>3. wa \in Seq(T) /\ wb \in Seq(T) /\ wc \in Seq(T) /\ wd \in Seq(T) /\ wa # <<>>
  BY <1>1, <1>2, WrittenType
<1>4. s \in Seq(S) /\ FourLists(Written(s), wa, wb, wc, wd)
  BY <1>2, FourTextsWritten
<1>5. t \in Seq(S) /\ FourLists(Written(t), wa, wc, wb, wd)
  BY <1>2, FourTextsWritten
<1>6. Reordered(Written(t), Written(s))
  BY ONLY <1>3, <1>4, <1>5, ExchangedLists
<1>7. LexemesOf(Written(t)) = LexemesOf(Written(s))
  BY ONLY <1>3, <1>4, <1>5, ExchangedElements
<1>8. LexemesOf(t) = LexemesOf(s)
  BY ExchangedElements
<1>9. PassesOctetGate(t)
  BY <1>4, <1>8, TagsOfSoundRecord DEF PassesOctetGate
<1>10. QED
  BY <1>4, <1>6, <1>7, <1>9, OrderOfTags
=============================================================================
