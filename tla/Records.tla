------------------------------ MODULE Records ------------------------------
(***************************************************************************)
(* The two records of an operator as texts: KeyRecord::parse,              *)
(* PolicyRecord::parse and valid_rua of src/record.rs, from_bytes of       *)
(* src/key.rs.  A parser is its first fault and the record it returns when *)
(* there is none.                                                          *)
(***************************************************************************)
EXTENDS TagList, Names, PrefixText, ReputationUnit

CONSTANTS
  MaxPolicyPrefixes,  \* MAX_POLICY_PREFIXES
  OctetsOf,           \* base64 decoding, a function on the values it accepts
  KeyLen,             \* Ed25519PublicKey::LEN
  NoPoint,            \* in the octets of a key: not a curve point
  AtomPunctuation,    \* the other octets of an atom in an address of rua=
  NoRua               \* no report destination

ASSUME RecordsAssumption == MaxPolicyPrefixes \in Nat

\* KeyRecord::parse.  Octets are [size, point].
FromBytesFails(octets) == octets.size # KeyLen \/ octets.point = NoPoint

\* Mutation of KeyFault: the key is decoded before the algorithm is looked at.
KeyFaultKeyFirst(txt) ==
  LET tags == Tags(txt)
  IN  TagsFault(txt)
      ?? Check(HasTag(tags, "pk"), "missing_pk")
      ?? Check(TagValue(tags, "pk") \in DOMAIN OctetsOf, "bad_pk")
      ?? Check(~FromBytesFails(OctetsOf[TagValue(tags, "pk")]), "bad_pk")
      ?? Check(HasTag(tags, "k"), "missing_k")
      ?? Check(TagValue(tags, "k") = <<"ed25519">>, "unknown_algorithm")

KeyFault(txt) ==
  LET tags == Tags(txt)
  IN  TagsFault(txt)
      ?? Check(HasTag(tags, "k"), "missing_k")
      ?? Check(TagValue(tags, "k") = <<"ed25519">>, "unknown_algorithm")
      ?? Check(HasTag(tags, "pk"), "missing_pk")
      ?? Check(TagValue(tags, "pk") \in DOMAIN OctetsOf, "bad_pk")
      ?? Check(~FromBytesFails(OctetsOf[TagValue(tags, "pk")]), "bad_pk")

KeyOf(txt) == OctetsOf[TagValue(Tags(txt), "pk")].point

-----------------------------------------------------------------------------
(* PolicyRecord::parse. *)

\* The entries of p=, empty ones aside; an absent p= has none.
EntriesOf(tags) ==
  IF HasTag(tags, "p")
    THEN NonEmpty(Split(TagValue(tags, "p"), ","))
    ELSE <<>>

\* Mutation of KeptEntries: empty entries count against the cap.
KeptEntriesCountingEmpty(tags) ==
  LET all == IF HasTag(tags, "p") THEN Split(TagValue(tags, "p"), ",") ELSE <<>>
  IN  NonEmpty([i \in {j \in 1..MaxPolicyPrefixes : j \in DOMAIN all} |-> all[i]])

\* Those the verifier looks at; what is past the cap is not validated.
KeptEntries(tags) ==
  LET entries == EntriesOf(tags)
  IN  [i \in {j \in 1..MaxPolicyPrefixes : j \in DOMAIN entries} |-> entries[i]]

PrefixesOf(tags) ==
  LET kept == KeptEntries(tags) IN [i \in DOMAIN kept |-> PrefixFrom(kept[i])]

\* Mutation of UnitOf: the unit is looked for behind the prefixes only.
UnitOfBehindPrefixes(tags) ==
  IF \E i \in DOMAIN tags : /\ tags[i].name = <<"u">>
                            /\ \A j \in DOMAIN tags : tags[j].name = <<"p">> => j < i
    THEN DecimalValue(TagValue(tags, "u")) ELSE DefaultUnit

UnitOf(tags) == IF HasTag(tags, "u") THEN DecimalValue(TagValue(tags, "u")) ELSE DefaultUnit

\* Mutation of TestingOf: t= holds one flag.
TestingOfWholeValue(tags) == HasTag(tags, "t") /\ TagValue(tags, "t") = <<"y">>

TestingOf(tags) ==
  HasTag(tags, "t") /\ <<"y">> \in LexemesOf(Split(TagValue(tags, "t"), ":"))

RuaOf(tags) == IF HasTag(tags, "rua") THEN TagValue(tags, "rua") ELSE NoRua

\* valid_rua: mailto:<dot-atom>@<domain>.
IsRua(value) ==
  LET address == Tail(value)
  IN  /\ value # <<>> /\ value[1] = "mailto:"
      /\ Cardinality({i \in DOMAIN address : address[i] = "@"}) = 1
      /\ \A atom \in LexemesOf(Split(Before(address, "@"), ".")) :
           atom # <<>> /\ LexemesOf(atom) \subseteq Alphanumerics \union AtomPunctuation
      /\ IsOperatorDomain(After(address, "@"))

\* Mutation of PolicyFault: the unit is not held against the prefixes.
PolicyFaultAnyUnit(txt) ==
  LET tags == Tags(txt)
  IN  TagsFault(txt)
      ?? Check(\A entry \in LexemesOf(KeptEntries(tags)) :
                 IsPrefixText(entry) /\ IsAttestable(PrefixFrom(entry)), "bad_p")
      ?? Check(HasTag(tags, "u") => IsDecimal(TagValue(tags, "u")), "bad_u")
      ?? Check(UnitOf(tags) \in 1..MaxPrefixLen, "bad_u")
      ?? Check(HasTag(tags, "rua") => IsRua(TagValue(tags, "rua")), "bad_rua")

PolicyFault(txt) ==
  LET tags == Tags(txt)
  IN  TagsFault(txt)
      ?? Check(\A entry \in LexemesOf(KeptEntries(tags)) :
                 IsPrefixText(entry) /\ IsAttestable(PrefixFrom(entry)), "bad_p")
      ?? Check(HasTag(tags, "u") => IsDecimal(TagValue(tags, "u")), "bad_u")
      ?? Check(UnitOf(tags) \in 1..MaxPrefixLen, "bad_u")
      ?? Check(HasTag(tags, "rua") => IsRua(TagValue(tags, "rua")), "bad_rua")
      ?? Check(\A p \in LexemesOf(PrefixesOf(tags)) : UnitOf(tags) >= p.len, "bad_u")

PolicyOf(txt) ==
  LET tags == Tags(txt)
  IN  [prefixes |-> PrefixesOf(tags), unit |-> UnitOf(tags),
       testing |-> TestingOf(tags), rua |-> RuaOf(tags)]
=============================================================================
