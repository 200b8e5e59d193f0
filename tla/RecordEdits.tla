---------------------------- MODULE RecordEdits ----------------------------
(***************************************************************************)
(* An operator edits a record in its zone file, inserting a piece or       *)
(* moving some tags behind others at a time, and the crate reads it as a   *)
(* policy and as a key record.                                             *)
(***************************************************************************)
EXTENDS Records

CONSTANTS
  BaseTexts,  \* the records before the edits
  Pieces,     \* what an edit inserts
  MaxEdits,   \* how often (bound of the model)
  NotParsed

ASSUME RecordEditsAssumption == \A s \in BaseTexts \union Pieces : s \in Seq(STRING)

VARIABLES
  txt,      \* the record
  reading,  \* what the parsers make of it
  edits     \* edits so far

vars == <<txt, reading, edits>>

\* A parser is its fault and, when there is none, the record it returns.
PolicyReading(s) ==
  LET fault == PolicyFault(s)
  IN  [fault |-> fault, record |-> IF fault = Pass THEN PolicyOf(s) ELSE NotParsed]
KeyReading(s) ==
  LET fault == KeyFault(s)
  IN  [fault |-> fault, record |-> IF fault = Pass THEN KeyOf(s) ELSE NotParsed]
ReadingOf(s) ==
  [tags   |-> IF TagsFault(s) = Pass THEN LexemesOf(Tags(s)) ELSE {},
   policy |-> PolicyReading(s),
   key    |-> KeyReading(s)]

Init == txt \in BaseTexts /\ reading = ReadingOf(txt) /\ edits = 0

Inserted(i, piece) == SubSeq(txt, 1, i - 1) \o piece \o SubSeq(txt, i, Len(txt))

Insert(i, piece) ==
  /\ edits < MaxEdits
  /\ txt' = Inserted(i, piece)
  /\ reading' = ReadingOf(Inserted(i, piece))
  /\ edits' = edits + 1

\* The cuts between tags, and the record with what is from i to j and from j to k
\* the other way round.
Breaks == {i \in DOMAIN txt : txt[i] = ";"} \union {Len(txt) + 1}

Exchanged(i, j, k) ==
  SubSeq(txt, 1, i - 1) \o SubSeq(txt, j, k - 1) \o SubSeq(txt, i, j - 1) \o SubSeq(txt, k, Len(txt))

Exchange(i, j, k) ==
  /\ edits < MaxEdits
  /\ i < j /\ j < k
  /\ txt' = Exchanged(i, j, k)
  /\ reading' = ReadingOf(Exchanged(i, j, k))
  /\ edits' = edits + 1

Next ==
  \/ \E i \in 1..(Len(txt) + 1), piece \in Pieces : Insert(i, piece)
  \/ \E i, j, k \in Breaks : Exchange(i, j, k)

Spec == Init /\ [][Next]_vars

-----------------------------------------------------------------------------

Idle == reading'.policy = reading.policy /\ reading'.key = reading.key

\* The "=" at i separates a name from a value: it is the first of its segment.
SeparatesAt(i) ==
  /\ txt[i] = "="
  /\ \A j \in 1..(i - 1) : txt[j] = "=" => \E k \in j..i : txt[k] = ";"

AtSeparator(i) ==
  \/ i \in {1, Len(txt) + 1}
  \/ i > 1 /\ (txt[i - 1] = ";" \/ SeparatesAt(i - 1))
  \/ i <= Len(txt) /\ (txt[i] = ";" \/ SeparatesAt(i))

\* Layout means nothing: blanks next to a separator, and semicolons between two
\* tags or at the ends, leave both readings as they are, the fault reported for a
\* bad record included.  (A semicolon next to a "=" would split a tag.)
LayoutIsIdle ==
  [][\A i \in 1..(Len(txt) + 1) :
       \/ AtSeparator(i) /\ txt' \in {Inserted(i, <<SP>>), Inserted(i, <<HTAB>>)}
       \/ /\ i \in {1, Len(txt) + 1} \/ txt[i] = ";"
          /\ txt' = Inserted(i, <<";">>)
       => Idle]_vars

\* The version comes first and the other tags in any order: a well-formed record
\* whose tags are put in another order behind a first one is read as it was, by
\* either parser and to the same fault.
OrderIsIdle ==
  [][\A i, j, k \in Breaks :
       /\ i < j /\ j < k /\ txt' = Exchanged(i, j, k)
       /\ reading.tags # {} /\ Written(SubSeq(txt, 1, i - 1)) # <<>>
       => Idle]_vars

\* The edit has left a well-formed record and changed the value of one tag.
ChangesValue(name, old, new) ==
  /\ old.name = name /\ new.name = name
  /\ reading.tags \ {old} = reading'.tags \ {new}

\* The first n lexemes of a list of prefixes hold all that a verifier looks at.
FullAt(list, n) ==
  /\ list[n] = ","
  /\ LET entries == Split(SubSeq(list, 1, n), ",")
     IN  Cardinality({k \in DOMAIN entries : entries[k] # <<>>}) >= MaxPolicyPrefixes

EmptyElementAdded(old, new) ==
  \E i \in 1..(Len(old) + 1) :
    /\ new = SubSeq(old, 1, i - 1) \o <<",">> \o SubSeq(old, i, Len(old))
    /\ \/ i = 1 \/ i = Len(old) + 1
       \/ old[i] = "," \/ old[i - 1] = ","

ChangedPastTheCap(old, new) ==
  \E n \in DOMAIN old \intersect DOMAIN new :
    FullAt(old, n) /\ SubSeq(new, 1, n) = SubSeq(old, 1, n)

\* The list of prefixes may be sloppy or too long: an empty element anywhere, or
\* anything at all behind the last entry under the cap, neither refuses the
\* record nor changes what it authorizes, nor is it held against the unit.
SloppyListsAreIdle ==
  [][\A old \in reading.tags, new \in reading'.tags :
       /\ ChangesValue(<<"p">>, old, new)
       /\ EmptyElementAdded(old.value, new.value) \/ ChangedPastTheCap(old.value, new.value)
       => Idle]_vars

KnownTags == {<<"v">>, <<"k">>, <<"pk">>, <<"p">>, <<"u">>, <<"t">>, <<"rua">>}

\* A later version may add tags and flags: a new tag of an unknown name, or
\* another flag in t=, changes neither reading of a record that is well formed.
ExtensionsAreIdle ==
  [][/\ \A tag \in reading'.tags :
          /\ tag.name \notin KnownTags
          /\ reading.tags # {} /\ reading'.tags = reading.tags \union {tag}
          => Idle
     /\ \A old \in reading.tags, new \in reading'.tags :
          /\ ChangesValue(<<"t">>, old, new)
          /\ new.value \in {old.value \o <<":", "z">>, old.value \o <<":">>}
          => Idle]_vars

\* A policy that is accepted is one a verifier can act on: at most the cap of
\* prefixes, all attestable, and none of them longer than the unit, so that an
\* authorized claim is never scored in a unit wider than the entry that
\* authorizes it.
PolicyIsSound ==
  reading.policy.fault = Pass =>
    LET policy == reading.policy.record
    IN  /\ DOMAIN policy.prefixes \subseteq 1..MaxPolicyPrefixes
        /\ policy.unit \in 1..MaxPrefixLen
        /\ \A p \in LexemesOf(policy.prefixes) : IsAttestable(p) /\ policy.unit >= p.len

\* A key of an algorithm to come is never held against its operator: whatever
\* pk= holds, a well-formed record with another k= is told apart from a bad one,
\* and it is the only one that is.
FutureAlgorithmIsTold ==
  reading.key.fault = "unknown_algorithm" <=>
    \E tag \in reading.tags : tag.name = <<"k">> /\ tag.value # <<"ed25519">>

\* The README of the crate: a policy with a u= coarser than any prefix in the same
\* record is malformed.  (The prefixes past the cap are in the record, too.)
UnitCoversEveryPrefix ==
  reading.policy.fault = Pass =>
    \A entry \in LexemesOf(EntriesOf(Tags(txt))) :
      IsPrefixText(entry) => reading.policy.record.unit >= PrefixFrom(entry).len
=============================================================================
