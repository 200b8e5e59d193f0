------------------------- MODULE ReceiverProperties -------------------------
(***************************************************************************)
(* What the staged verification promises.  The properties read the claim   *)
(* from the items on the wire, in whole numbers and bit by bit; they do    *)
(* not use the decoders, the masks and the checks they are about.          *)
(***************************************************************************)
EXTENDS Receiver, FiniteSets

\* Lookups of a connection.
Asked(c) == answers[c] # <<>>
AskedForKey(c) == Len(answers[c]) = 2

Policy(c) == answers[c][1].answer
Key(c)    == answers[c][2].answer

Accepted(c) == stage[c] = "done" /\ outcome[c].reason = Pass

\* The payload on the wire: its entries, and the values under a key.
Entries(c)   == PayloadItem(Decode[call[c].token]).v
ValuesIn(entries, k) == {entries[i].val : i \in Occurrences(entries, k)}
Values(c, k) == ValuesIn(Entries(c), k)
TheOnly(c, k) == CHOOSE val \in Values(c, k) : TRUE

\* No reader can take another claim from a token than the one that is verified:
\* every key the draft defines is in the payload at most once, untagged, as an
\* integer key, whichever of two decoders (BTreeMap, from_value) reads it, and
\* the algorithm, the content type and the selector are said once, in the bucket
\* that is signed, whichever bucket a reader of COSE headers prefers, and neither
\* asks such a reader for an extension (crit) this one would have ignored.
ClaimsAreUnambiguous ==
  \A c \in Conns : Asked(c) =>
    /\ \A k \in RequiredKeys : Cardinality(Occurrences(Entries(c), k)) = 1
    /\ Cardinality(Occurrences(Entries(c), KeyUnit)) <= 1
    /\ \A k \in DefinedKeys : \A val \in Values(c, k) : val.kind \in {"int", "text", "bytes"}
    /\ \A label \in {LabelAlg, LabelContentType, LabelKid} :
         /\ Cardinality(Occurrences(Protected(Decode[call[c].token]), label)) = 1
         /\ Occurrences(Unprotected(Decode[call[c].token]), label) = {}
    /\ \A headers \in {Protected(Decode[call[c].token]), Unprotected(Decode[call[c].token])} :
         Occurrences(headers, LabelCrit) = {}

\* A token that fails a local check costs no DNS query (the comment on parse):
\* when one is made, the claim holds of this connection at the time of the call,
\* in whole numbers, with no regard to the widths and the masks of the code.
QueriesFollowLocalChecks ==
  \A c \in Conns : Asked(c) =>
    LET source == call[c].source
        prefix == TheOnly(c, KeyPrefix).v
        iat    == TheOnly(c, KeyIat).v
        exp    == TheOnly(c, KeyExp).v
    IN  /\ Decode[call[c].token].size <= MaxTokenLen
        /\ exp - iat \in 1..MaxLifetimeSecs
        /\ call[c].at \in (iat - SkewSecs)..(exp + SkewSecs)
        /\ prefix.len \in MinPrefixLen..MaxPrefixLen
        /\ source \in Block(prefix)
        /\ \A range \in Ineligible \union IneligibleSourceRanges :
             source \notin Block(range)
        /\ \A unit \in Values(c, KeyUnit) : unit.v \in prefix.len..MaxPrefixLen

\* The key is fetched only for a token the policy authorizes: the answer the
\* operator gave before has an entry that encloses the whole claim, and asks for
\* the unit that is signed (the default when the claim has none).
KeyQueriesFollowAuthorization ==
  \A c \in Conns : AskedForKey(c) =>
    LET claim == TheOnly(c, KeyPrefix).v
    IN  /\ answers[c][1].name.operator = answers[c][2].name.operator
        /\ \E i \in DOMAIN Policy(c).prefixes :
             LET entry == Policy(c).prefixes[i]
             IN  entry.len <= claim.len /\ claim.addr \in Block(entry)
        /\ \A unit \in Values(c, KeyUnit) : Policy(c).unit = unit.v
        /\ Values(c, KeyUnit) = {} => Policy(c).unit = DefaultUnit

\* A pass names an operator who answers for this connection: its policy, not in
\* test mode, encloses the connecting address itself, and the key it publishes
\* under the selector of the token signed exactly the protected headers and the
\* payload that were presented, under a signature that is good for nothing else.
PassIsAccountable ==
  \A c \in Conns : stage[c] = "done" /\ outcome[c].result = "pass" =>
    LET token     == Decode[call[c].token]
        signature == Part(token, 4).v
        operator  == Lowercase[TheOnly(c, KeyOperator).v]
    IN  /\ AskedForKey(c)
        /\ answers[c][1].name.operator = operator
        /\ answers[c][2].name.operator = operator
        /\ outcome[c].verified.operator = operator
        /\ ~Policy(c).testing
        /\ \E i \in DOMAIN Policy(c).prefixes :
             call[c].source \in Block(Policy(c).prefixes[i])
        /\ signature.key = Key(c) /\ Key(c) \notin SmallOrderKeys
        /\ signature.over = <<Part(token, 1).v, Part(token, 3).v>>

\* An operator in test mode stakes nothing: no connection it answered with t=y
\* passes, and one accepted without t=y is never held back as observe-only.
TestingStakesNothing ==
  \A c \in Conns : stage[c] = "done" /\ Asked(c) /\ Policy(c) # Unusable =>
    /\ Policy(c).testing => outcome[c].result # "pass"
    /\ Accepted(c) =>
         /\ outcome[c].result = (IF Policy(c).testing THEN "none" ELSE "pass")
         /\ outcome[c].verified.testing = Policy(c).testing
         /\ outcome[c].verified.rua = Policy(c).rua

\* The reputation key of an accepted connection depends on its source alone:
\* two connections share it exactly when their sources agree on the first
\* OBSERVED_UNIT_LEN bits, whatever units they claimed, and it lies inside the
\* unit asked for, which lies inside the attested prefix.
ObservedUnitIgnoresClaims ==
  \A c \in {d \in Conns : Accepted(d)} :
    LET verified == outcome[c].verified
    IN  /\ call[c].source \in Block(verified.observed_unit)
        /\ Block(verified.observed_unit) \subseteq Block(verified.unit)
        /\ Block(verified.unit) \subseteq Block(verified.prefix)
        /\ \A d \in {e \in Conns : Accepted(e)} :
             verified.observed_unit = outcome[d].verified.observed_unit
               <=> \A i \in 1..ObservedUnitLen : call[c].source[i] = call[d].source[i]

\* A captured token cannot be presented for long: two calls that get past the
\* local checks with the same octets are at most the longest lifetime and twice
\* the tolerance apart, however the clock and the records move between them.
ReplayWindowBounded ==
  \A c, d \in Conns :
    Asked(c) /\ Asked(d) /\ call[c].token = call[d].token =>
      call[c].at - call[d].at <= MaxLifetimeSecs + 2 * SkewSecs

\* "fail" blames the connection or the signature, never the form of a token or
\* of a record: it is reported exactly when a well-formed token came from an
\* eligible source and was early, late or off its prefix, or when an authorized
\* token is not signed by the key that was fetched.
FailBlamesTheConnection ==
  \A c \in Conns : stage[c] = "done" =>
    LET token  == Decode[call[c].token]
        source == call[c].source
    IN  outcome[c].result = "fail" <=>
          \/ /\ token.size <= MaxTokenLen
             /\ EnvelopeFault(token) = Pass
             /\ HeaderFault(Protected(token), Unprotected(token)) = Pass
             /\ RejectTaggedFields(PayloadItem(token)) = Pass
             /\ PayloadFault(PayloadItem(token)) = Pass
             /\ \A range \in Ineligible \union IneligibleSourceRanges :
                  source \notin Block(range)
             /\ source \in Block(GlobalUnicast)
             /\ \/ call[c].at + SkewSecs < TheOnly(c, KeyIat).v
                \/ call[c].at > TheOnly(c, KeyExp).v + SkewSecs
                \/ source \notin Block(TheOnly(c, KeyPrefix).v)
          \/ /\ AskedForKey(c) /\ Key(c) \notin {Unusable, UnknownAlgorithm}
             /\ ~Verifies(Key(c), ToBeSigned(token), Part(token, 4).v)

\* "none" is what an operator declares, never what a failing token gets: it is
\* reported exactly of an authorized token whose key record names an algorithm of
\* the future, and of a verified one under a policy with t=y.  A record that
\* cannot be used is a "permerror" at either lookup, and so is a policy that does
\* not authorize; a usable key ends no flow with one.
NoneIsDeclared ==
  \A c \in Conns : stage[c] = "done" =>
    LET token == Decode[call[c].token]
    IN  /\ outcome[c].result = "none" <=>
             /\ AskedForKey(c)
             /\ \/ Key(c) = UnknownAlgorithm
                \/ /\ Key(c) # Unusable /\ Policy(c).testing
                   /\ Verifies(Key(c), ToBeSigned(token), Part(token, 4).v)
        /\ Asked(c) => (outcome[c].result = "permerror" <=> ~AskedForKey(c) \/ Key(c) = Unusable)

\* The staged flow and the one-shot verify() reach the same reason on the same
\* records, in whatever state the flow ended, except for what verify() cannot
\* know: the receiver's own ineligible prefixes.  Until a record is fetched the
\* reason may not depend on it.
OneShotAgrees ==
  \A c \in Conns : stage[c] = "done" /\ outcome[c].reason \in Reasons \union {Pass} =>
    LET policiesRead == IF Asked(c) THEN {Policy(c)} ELSE PolicyAnswers \ {Unusable}
        keysRead     == IF AskedForKey(c) THEN {Key(c)}
                                          ELSE KeyAnswers \ {Unusable, UnknownAlgorithm}
    IN  \/ /\ outcome[c].reason = "ineligible_source"
           /\ \E range \in Ineligible : call[c].source \in Block(range)
        \/ \A policy \in policiesRead : \A key \in keysRead :
             VerifyFault(Decode[call[c].token], key, policy, call[c].source, call[c].at)
               = outcome[c].reason

\* A token as an honest operator writes it: a short one, whose protected headers
\* say what the draft asks for, with nothing in the other bucket, and whose payload
\* says each key once, with an untagged value of its type.  The entries may be in
\* any order and beside others.
Says(headers, label, kind, values) ==
  \E i \in DOMAIN headers : /\ headers[i].key.kind = "int" /\ headers[i].key.v = label
                           /\ headers[i].val.kind = kind /\ headers[i].val.v \in values

PlainHeaders(headers) ==
  /\ \A i \in DOMAIN headers :
       /\ headers[i].key.kind \in {"int", "text"}
       /\ headers[i].key.kind = "int" => headers[i].key.v # LabelCrit
  /\ Says(headers, LabelAlg, "int", {AlgEdDSA, AlgEd25519})
  /\ Says(headers, LabelContentType, "text", {ContentType})
  /\ Says(headers, LabelKid, "bytes", SelectorLabels)

PlainEnvelope(token) ==
  /\ token.size <= MaxTokenLen /\ EnvelopeFault(token) = Pass
  /\ Unprotected(token) = <<>> /\ PlainHeaders(Protected(token))

DistinctIntKeys(entries) ==
  /\ \A i \in DOMAIN entries : entries[i].key.kind = "int"
  /\ \A i, j \in DOMAIN entries : entries[i].key.v = entries[j].key.v => i = j

PlainEntries(c) ==
  /\ PayloadItem(Decode[call[c].token]).kind = "map"
  /\ \A k \in RequiredKeys : Values(c, k) # {}
  /\ \A k \in {KeyOperator, KeyRole} : TheOnly(c, k).kind = "text"
  /\ \A k \in {KeyIat, KeyExp} : TheOnly(c, k).kind = "int"
  /\ \A unit \in Values(c, KeyUnit) : unit.kind = "int"
  /\ TheOnly(c, KeyPrefix).kind = "bytes" /\ TheOnly(c, KeyPrefix).v.octets = 17

SignedUnit(c) == IF Values(c, KeyUnit) = {} THEN DefaultUnit ELSE TheOnly(c, KeyUnit).v

\* Its claim holds of the connection, in whole numbers and sets of addresses.
ClaimHolds(c) ==
  LET prefix == TheOnly(c, KeyPrefix).v
      iat    == TheOnly(c, KeyIat).v
      exp    == TheOnly(c, KeyExp).v
      role   == TheOnly(c, KeyRole).v
  IN  /\ {iat, exp} \subseteq 0..U64Max /\ exp - iat \in 1..MaxLifetimeSecs
      /\ call[c].at \in (iat - SkewSecs)..(exp + SkewSecs)
      /\ prefix.addr \in Ipv6Addr /\ prefix.len \in MinPrefixLen..MaxPrefixLen
      /\ call[c].source \in Block(prefix)
      /\ \A range \in Ineligible : call[c].source \notin Block(range)
      /\ TheOnly(c, KeyOperator).v \in OperatorDomains /\ role \in Roles
      /\ \A i \in (prefix.len + 1)..Width : prefix.addr[i] = 0
      /\ SignedUnit(c) \in prefix.len..MaxPrefixLen
      /\ role = "esp-tenant" => SignedUnit(c) = prefix.len
      /\ Block(prefix) \subseteq Block(GlobalUnicast)
      /\ \A range \in {Teredo, SixToFour} : Block(prefix) \intersect Block(range) = {}

Conforms(c) ==
  /\ PlainEnvelope(Decode[call[c].token]) /\ PlainEntries(c) /\ ClaimHolds(c)
  /\ DistinctIntKeys(Entries(c))

\* No honest operator is turned away: such a token reaches the policy; when an
\* entry there encloses the claim and the unit is the signed one, it reaches the
\* key; and when that key signed it, it is accepted.  No check refuses at its
\* boundary what the draft allows, and no source of an attestable prefix is
\* ineligible unless the receiver says so.
HonestOperatorsPass ==
  \A c \in Conns : stage[c] = "done" /\ Conforms(c) =>
    LET token     == Decode[call[c].token]
        signature == Part(token, 4).v
    IN  /\ Asked(c)
        /\ /\ Policy(c) # Unusable /\ Policy(c).unit = SignedUnit(c)
           /\ \E i \in DOMAIN Policy(c).prefixes :
                LET entry == Policy(c).prefixes[i]
                IN  IsAttestable(entry) /\ Block(TheOnly(c, KeyPrefix).v) \subseteq Block(entry)
           => /\ AskedForKey(c)
              /\ /\ Key(c) \notin {Unusable, UnknownAlgorithm} \union SmallOrderKeys
                 /\ signature.key = Key(c) /\ signature.strict
                 /\ signature.over = <<Part(token, 1).v, Part(token, 3).v>>
                 => Accepted(c)

\* The doc comment on Unverified: a token that has passed every check except the
\* signature.  (It has not passed the policy check.)
UnverifiedFailsOnlyOnSignature ==
  \A c \in Conns :
    stage[c] = "done" /\ Asked(c) /\ outcome[c].reason \in Reasons
      => outcome[c].reason = "bad_signature"

\* Every call that was made is answered.
EveryCallReturns == \A c \in Conns : stage[c] = "parsed" ~> stage[c] = "done"
=============================================================================
