# Verification of the swornmail crate

TLA+ models of the SwornMail verifier in `src/`, the TLC runs that check them on
small instances and the TLAPS proofs that hold for every instance. The crate
verifies *Mode-2 connection tokens*: a mail client that connects over IPv6
presents a tagged `COSE_Sign1` object in which an operator, a domain, claims a
prefix; the verifier decides whether the connection comes from inside a prefix
for which that operator answers.

## 1. The system

### Components

| component | source | state | operations |
|---|---|---|---|
| address arithmetic and rules | `src/src/address.rs` | none | `mask`, `contains`, `overlaps`, `is_canonical`, `is_attestable`, `is_eligible_source` |
| reason codes | `src/src/reason.rs` | none | `as_str`, `auth_result` |
| payload decoding | `src/src/payload.rs` | loop locals: the options and the list of keys seen | `reject_tagged_fields`, `Payload::from_value` |
| COSE envelope, headers | `src/src/token.rs` 402-538 | the two buckets in wire order | `CoseSign1::parse`, `check_headers`, `to_be_signed` |
| staged verification | `src/src/token.rs` 90-400, `src/src/lib.rs` 20-45 | `Unverified`, `Authorized`, `Outcome`, consumed stage by stage | `parse`, `parse_excluding`, `authorize`, `verify_signature`; one-shot `verify`, `verify_authorized` |
| policy authorization | `src/src/record.rs` 158-168 | none | `PolicyRecord::authorizes` |
| record parsing | `src/src/record.rs` 60-156, 171-245 | the tag list | `parse_tags`, `KeyRecord::parse`, `PolicyRecord::parse`, `valid_rua` |
| operator keys | `src/src/key.rs` | none | `from_bytes`, `verify` (strict Ed25519) |
| name syntax | `payload.rs` 241-260, `token.rs` 523-538 | none | `is_operator_domain`, `selector_from_kid` |
| prefix presentation form | `address.rs` 110-154 | none | `from_str`, `parse_decimal`, `Display` |
| signature-only path | `token.rs` 182-189, 345-360 | none | `verify_signature_only` |
| differential-test evaluator | `src/src/bin/difftest.rs` | none | one line in, one line out |
| vector tests | `src/tests/vectors.rs` | none | test harness |

### How they interact

The crate does no I/O and keeps no state between calls; the caller, a receiving
mail server, runs the stages and makes the DNS queries between them
(`lib.rs`, "Verifying a token"):

    parse -> TXT _prefixes._sworn.<operator> -> authorize
          -> TXT <selector>._sworn.<operator> -> verify_signature

Each stage consumes the value of the one before, so the state of a connection is
which of these values it holds and what the lookups answered. Everything else
moves on its own: other connections, the clock, and the operators, who
republish their policies and rotate their keys at any moment.

Both answers are texts. The caller hands them to `PolicyRecord::parse` and
`KeyRecord::parse`, which share `parse_tags`; a policy calls `Ipv6Prefix::from_str`
for its entries and `parse_decimal` for its unit, and `valid_rua` calls the rule for
operator domains. The names of the two queries are built from the operator claim
and the `kid` of the token. The evaluator is the one program in the crate in which
all of this happens in a row, the text of a policy beside the octets of a token.

### What is hard

* **Interleaving and stale state.** A verdict combines a clock sample taken at
  `parse`, a policy fetched then, a key fetched later. Policies and keys change
  between those moments. The flow has to decide on the answers it was given,
  each for the right operator and selector.
* **Order.** Queries are made only after the checks that must precede them; the
  reason that is reported is that of the first check that fails, and it decides
  whether the result is `fail` or `permerror`.
* **Two readers of one input.** The payload is decoded twice, by decoders that
  treat repeated keys, tags and bignums differently; headers come in two buckets.
* **Numbers.** A u64 subtraction, a u64 narrowed to u8, a shift by the word
  width, a window compared across i64 and u64.
* **Two rule sets for addresses** that are written separately and must agree.
* **Several entry points** that must agree: the staged flow, `verify`, and
  `verify_signature_only`, which has no policy between its checks.
* **Texts.** Records are written by hand and read by three implementations (this
  crate, one in Go, one in Lua). What counts as a blank, which error comes first,
  where a value ends, whether a list may end with a comma and what an entry past
  the cap of 64 does are all places where two readers of one record part.
* **Numbers in texts.** A length is a `u8` with one spelling: no sign, no leading
  zero, no wrap at 256.
* **Rules written twice.** The syntax of labels for selectors and for domains.

What is not there: nothing is persisted and nothing is retried by the crate, so
there is no crash recovery; it has no threads, locks or queues of its own.

The hazards, one by one and at their lines, are in `PROJECT.json`, with the
properties that would catch each of them.

## 2. Modules

Reading order. The first group models the code, the second states and checks,
the third proves.

| module | models | remarks |
|---|---|---|
| `Reason` | `reason.rs`, the `?` operator | `first ?? second` is the early return: the first reason wins |
| `Cbor` | what ciborium hands to the code (external) | items with their tags; `AsValue` is what `Value` shows (a bignum becomes an integer), `IsTagged` what `Captured` shows |
| `Ipv6Prefix` | `address.rs` | an address is a function from `1..Width` to bits; `KeptBits` is the shift and its branch |
| `Payload` | `payload.rs` | one `...Fault` operator per check, in the order of the source; `PayloadFault` is `from_value`, `PayloadOf` its result |
| `PolicyRecord` | `record.rs`, `authorizes` | a record as parsed: prefixes, unit, testing, rua |
| `Token` | `token.rs`, the checks of every stage, `key.rs` `verify` | `ParseFault` is `parse_excluding`, `Unverified` its result; `VerifyFault` is the one-shot `verify` |
| `Receiver` | the staged flow and its environment | one action per stage, per republication and for the clock |
| `Lexemes` | `split`, `split_once`, `trim` of str (external) | a text is a sequence of lexemes, see below |
| `TagList` | `record.rs` 183-218, `parse_tags` | the declarative reading: `Tags` is the list, `TagsFault` the first fault |
| `TagLoop` | the same, as the loop it is | one action per branch of the loop |
| `Names` | `is_operator_domain`, `selector_from_kid`, the two query names | octet by octet, with the length limits |
| `PrefixText` | `from_str`, `parse_decimal`, `Display` of `address.rs` | the address itself is read by std: the functions `AddressOf` and `TextOf` |
| `ReputationUnit` | `DEFAULT_UNIT` | a constant the token and the policy share |
| `Records` | `KeyRecord::parse`, `PolicyRecord::parse`, `valid_rua`, `from_bytes` | `KeyFault` and `PolicyFault` are the chains of checks, `KeyOf` and `PolicyOf` the results |
| `RecordEdits` | - | an operator who edits a record, and what the parsers make of it |
| `PrefixWriting` | - | prefixes shown by `Display` or typed by hand |
| `QueryNames` | - | a client that chooses the octets of `kid` and operator claim |
| `Evaluator` | `bin/difftest.rs`, `verify_signature_only` | composes `Token` and `Records`: one action per way a line is answered |
| `PrefixAlgebra` | the pairs of prefixes a verifier compares | carries the address properties |
| `ReceiverProperties` | - | the properties of the flow |
| `Verdict` | - | what a caller may rely on, an abstract specification: one decision per call |
| `ReceiverRefinement` | the decision of `lib.rs` 30-40 | the flow with two history variables, and the mapping to `Verdict` |
| `MCCorpus` | the vectors of `tests/testdata/v1.json` | the tokens of the instances, each fault applied to a valid one |
| `MCPrefixAlgebra`, `MCReceiver`, `MCReceiverRefinement`, `MCTagLoop`, `MCRecordEdits`, `MCPrefixWriting`, `MCQueryNames`, `MCEvaluator` | - | instances for TLC: layouts, records, texts |
| `TokenLemmas`, `TextLemmas`, `RecordLemmas` | - | what the operators do: in bits and whole numbers, to texts that are put together, to the list of tags |
| `PrefixAndNameProofs`, `ReceiverProofs`, `ReceiverRefinementProofs`, `RecordProofs`, `EvaluatorProofs` | - | the theorems |

### Receiver, state and actions

| variable | in the program |
|---|---|
| `stage[c]` | which of the stage values connection `c` holds (`idle`, `parsed`, `policy_known`, `authorized`, `key_known`, `done`) |
| `call[c]` | the arguments of its `parse_excluding`: token, source, time |
| `held[c]` | its `Unverified` or `Authorized` |
| `answers[c]` | the lookups it made, name and answer, in order |
| `outcome[c]` | what it reports: the `Authentication-Results` value, the reason, the `Verified` |
| `now`, `policies`, `keys` | the clock and the records in force |
| `changes` | republications so far, a bound of the model |

`Parse` is all of `parse_excluding`, with a fault ending the flow; `LookupPolicy`
and `LookupKey` are the query together with the record parser's verdict on the
answer (`Unusable` is any text the parser refuses, `UnknownAlgorithm` the one
refusal that reports as `none`, `record.rs` 18-21); `Authorize` and
`VerifySignature` are the two consuming calls. `PublishPolicy`, `PublishKey` and
`Tick` are the environment and external to the crate. They are enabled at any
time, so every interleaving of two connections with the operators is explored.

Octets are abstracted to what they mean to their reader. A token is a size and
an item; a byte string is what its reader makes of it (a header map, a payload,
a selector, a prefix, a signature); a signature is good for exactly one key and
one pair of protected octets and payload octets. The exact octets of a
`Sig_structure` are injective in that pair, the context string and the empty
external data being the same for all tokens, so they are the pair.

### Texts

A text is a sequence of *lexemes*. A lexeme is one octet where the code looks at
octets (separators, blanks, digits, the octets of names) and a word where it only
compares (`SWORN1`, `ed25519`, the name of a tag, an address, a base64 body): no
parser of the crate looks inside these, so cutting a text in the middle of one
gives nothing the alphabets do not have as another lexeme. `Split`, `Before`,
`After` and `Trim` are std's functions on such sequences. A parser is two
operators, the first fault in the order of the source and the value when there
is none. The entries of `p=` are one check and not a loop: every entry has the same
fault, `bad_p`, so their order cannot be seen.

### TagLoop, state and actions

`text` is the argument, `segments` what `split(';')` yields, `next` the iteration,
`tags` the vector that is pushed to, `result` the return value. `OctetGate` is the
test before the loop; `SkipBlank`, `RefuseSegment` and `PushTag` are the ways through
its body (`continue`, the error returns, the push); `Finish` is the test of the first
tag behind it.

### RecordEdits, state and actions

`txt` is a record, `reading` what both parsers make of it, `edits` a bound of the
model. `Insert` puts a piece anywhere into the text, `Exchange` puts one run of tags
behind the next, and both read the result anew; this is how properties can compare
the readings of a text and of an edited one.

### Evaluator, state and actions

| variable | in the program |
|---|---|
| `stage` | before the first line, in the loop, or panicked in an `expect` |
| `key` | the shared public key |
| `left` | lines still to come, that of the key included, a bound of the model |
| `asked`, `out` | the non-empty lines so far, and the lines written for them |

The first line has four `expect`s: `NoKey` is the one of an empty input, `ReadKey` has the
other three (the line cannot be read, is not hexadecimal, is no key). A line of the loop is a
`NoText` (the iterator fails on octets that are not UTF-8), `SkipEmpty`, `BadToken`,
`BadSource`, `SignatureOnly`, `BadPolicy` or `Complete`, which are the ways through
the loop's body. `CaseOf` is `splitn(5, '\t')`, `NowOf` the parse of the time with its
`unwrap_or(0)`.

## 3. Properties and runs

All runs use the real order of checks, key numbers and labels; the sizes are
small.

| run | instance | properties | states |
|---|---|---|---|
| `prefix_algebra` | 5-bit addresses, every pair of prefixes, all lengths 0 to 5 | `ContainsIsMembership`, `OverlapIsSharedAddress`, `CoverIsInclusion`, `AttestableIsEligible` | 37 thousand |
| `calls` | 8-bit addresses, single calls under fairness: the whole corpus from eleven sources in the window and from three at twelve times, ten tokens on every pair of eight policy and five key answers | `TypeOK`, `ClaimsAreUnambiguous`, `QueriesFollowLocalChecks`, `FailBlamesTheConnection`, `NoneIsDeclared`, `KeyQueriesFollowAuthorization`, `OneShotAgrees`, `HonestOperatorsPass`, `EveryCallReturns` | 6 thousand |
| `races` | two connections, two operators, two republications | `PassIsAccountable`, `TestingStakesNothing` | 119 thousand |
| `window` | two connections, three sources in one prefix, two tokens that claim different units, one republication that changes the unit of the policy, a clock running from before to after the window | `ObservedUnitIgnoresClaims`, `ReplayWindowBounded` | 484 thousand |
| `refinement` | two connections, one operator, three key and two policy answers, two republications, a clock that passes the end of the window | `ImplementsVerdict` | 111 thousand |
| `tag_loop` | every text of up to three octets behind five beginnings | `AcceptedAsWritten`, `LoopComputesTags`, `NothingDropped` | 11 thousand |
| `record_edits` | thirteen records, two edits, each with one of twelve pieces at any place or with two runs of tags exchanged, 5-bit addresses, a cap of two prefixes | `PolicyIsSound`, `FutureAlgorithmIsTold`, `LayoutIsIdle`, `SloppyListsAreIdle`, `ExtensionsAreIdle`, `OrderIsIdle` | 188 thousand |
| `prefix_writing` | 128-bit addresses: every length shown, every text of up to five of nine lexemes typed | `OneSpelling`, `ShownIsRead` | 67 thousand |
| `query_names` | every kid of up to three and every claim of up to four of six octets, labels of up to two | `NamesAreUnambiguous`, `LabelRulesAgree` | 403 thousand |
| `evaluator` | two lines of about 175 cases: five tokens, two sources, three times, fourteen policies, and broken lines | `TypeOK`, `PolicyOnlyNarrows`, `TestingOnlyObserves`, `TabsAreSpaces`, `PassRestsOnText`, `TimeOnlyMovesThroughWindow`, `LostTimesPassNothing` | 30 thousand |
| `doc_unverified` | ten tokens that reach the records, on every pair of answers | `UnverifiedFailsOnlyOnSignature`, expected to fail | - |
| `doc_unit` | as `record_edits`, one edit | `UnitCoversEveryPrefix`, expected to fail | - |

What the properties say:

* `ContainsIsMembership`, `OverlapIsSharedAddress`, `CoverIsInclusion`: the mask
  operations are the set operations they stand for. Lengths 0 and `Width` are
  included; at the latter the shift in `mask` alone would wrap.
* `AttestableIsEligible`: every address of a prefix that may be attested may
  send, although `is_attestable` tests two transition ranges for overlap and
  `is_eligible_source` six for containment.
* `ClaimsAreUnambiguous`: a token that costs a query says every claim once, for
  any of the decoders and in any of the header buckets, and asks in neither bucket for an
  extension (`crit`).
* `QueriesFollowLocalChecks`: "a token that fails here costs no DNS query", with
  the claim read off the wire and compared in whole numbers and sets of
  addresses: neither the widths nor the masks of the code are used.
* `KeyQueriesFollowAuthorization`: the key is queried at the operator whose policy
  encloses the claim and asks for the signed unit.
* `PassIsAccountable`: a `pass` rests on this operator's policy, on the key it
  published under this selector and on a signature over what was presented,
  both as this flow was given them.
* `TestingStakesNothing`: the decision between `pass` and `none` is that of the
  policy that authorized the token.
* `ObservedUnitIgnoresClaims`: two accepted connections share a reputation key
  exactly when their sources share the first `OBSERVED_UNIT_LEN` bits.
* `ReplayWindowBounded`: the same octets get past the local checks for at most
  the lifetime cap plus twice the tolerance.
* `FailBlamesTheConnection`: which of the two error results is reported is a
  property of the connection, stated without the order of the checks.
* `NoneIsDeclared`: `none` is what an operator declares, by a key of an algorithm this
  verifier does not know or by `t=y`, and then only for a token it authorizes and signs.
  Behind the local checks a `permerror` is exactly a record that cannot be used or a
  policy that does not authorize.
* `OneShotAgrees`: the staged flow and `verify` reach the same reason, and until
  a record is fetched the reason does not depend on it.
* `HonestOperatorsPass`: the converse of the properties above. A token whose payload says
  each key once, untagged, with an admissible claim that holds of the connection, is never
  refused locally; if the policy read encloses the claim and the key read signed it, it is
  accepted. All bounds are in whole numbers and sets of addresses, and the protocol's
  ineligible ranges are not mentioned: that no address of an attestable prefix is among
  them is part of what is shown. Tokens with bignums or with further headers may pass
  too; the property says nothing of them.
* `ImplementsVerdict`: the flow implements `Verdict` (see below).
* `EveryCallReturns`: every parsed token gets an answer.
* `LoopComputesTags`: the loop returns the declarative list, or the first fault of
  the text. This is what lets the other modules use `Tags` and `TagsFault`.
* `AcceptedAsWritten`, `NothingDropped`: an accepted record is its tags and nothing
  else; the first is stated on segments, the second on octets.
* `LayoutIsIdle`: blanks at separators and further semicolons change neither
  reading of a record, the fault of a bad one included.
* `SloppyListsAreIdle`: empty entries of `p=`, and anything behind the last one under
  the cap, do not count.
* `ExtensionsAreIdle`: unknown tags and flags do not count.
* `OrderIsIdle`: behind the first tag, the order of tags does not count. The tag that
  is first stays so, since the version must be.
* `PolicyIsSound`: what is accepted is attestable, under the cap and no finer than
  its unit.
* `FutureAlgorithmIsTold`: "unknown algorithm", the refusal that reports as `none`, is
  given to a well-formed record with another `k=` whatever else it holds, and to
  no other.
* `OneSpelling`, `ShownIsRead`: the text of a length is the one `Display` gives it, and
  `from_str` reads what `Display` shows, at every length from 0 to 128.
* `NamesAreUnambiguous`: no two tokens share a query name unless they agree on
  selector and operator, and no key is looked up at the name of a policy.
* `LabelRulesAgree`: the two rules for labels are one rule.
* `PolicyOnlyNarrows`: of two cases that differ in their policy only, one empty, the
  complete path passes no token and attributes none that the signature-only path
  does not; it reports the same local faults, save where the policy is unusable.
* `TestingOnlyObserves`: adding `t=y` to a policy without a tag `t` changes the result of a
  pass and nothing else.
* `TabsAreSpaces`: a policy with tabs arrives whole, although cases are split at tabs. The
  name of a tag may hold a blank (`record.rs` 201-206 trims it and refuses only the empty
  one), and there a tab and a space make two names: of `t<TAB>p=; t<SP>p=` the parser
  accepts both, of `t<SP>p=; t<SP>p=` it refuses the second. Two of the policies show
  this, and the property leaves such names out.
* `PassRestsOnText`: a pass goes back to an entry somewhere in the text of the policy
  that encloses the claim, found without the parser of records.
* `TimeOnlyMovesThroughWindow`: of two cases that differ in their time only, one
  attributed, the other is attributed alike or refused for the side of the window it is
  on. So the times at which a token is accepted have no gap, and no policy and no key
  makes one.
* `LostTimesPassNothing`: a time that is missing or cannot be read counts as 0
  (`difftest.rs` 76), so a damaged line is evaluated at the epoch; it attributes only a
  token whose signed window reaches back to there.
* `TypeOK` of the evaluator: the lines written line up with the cases.

### The verdict as one decision

The stages of a flow are spread over time, and the records may change twice in
between; still a caller may reason about a verdict as if it were one decision.
`Verdict` has this as its only way to answer: there are two zones published since
the call, the first no later than the second, such that the verdict is `Report`
of the call, the policy in the first and the key in the second. A token that is
refused on its own is answered in the step of the call. `Decision` is the chain
of checks with the stages forgotten.

The mapping forgets what is held and what was answered: `status` is a function of
`stage`, `verdict` is `outcome`. It needs to know what was published and since when a
connection waits, which the flow does not keep; `zones` and `since` are history
variables that record them and are read by no action. `ImplementsVerdict` is not
true of one zone instead of two: a flow may end with a policy and a key that were
never in force together. It fails when a stage reads a record a second time, because
a key that is withdrawn between the lookup and `verify_signature` then gives
`bad_signature`, which no pair of published records gives.

### Disagreements with the documentation

`doc_unverified`: the doc comment on `Unverified`
(`token.rs` 123) calls it a token that has passed every check except the
signature. It has not passed the policy check, which the next method,
`authorize`, can fail.

`doc_unit`: the README of the crate (`src/README.md` 38) calls a policy malformed whose
`u=` is coarser than any prefix in the same record. Entries past the cap are dropped
before they are looked at (`record.rs` 107-110), so a longer prefix there is accepted.

Two more places are worded more strictly than the code and have no run: the same
README (39-40) excludes every octet outside printable US-ASCII, while a tab next to
a separator passes the gate, on purpose (`record.rs` 186-188; `TabsAreSpaces` and
`LayoutIsIdle` are about such tabs), and the head comment of the evaluator
(`difftest.rs` 17-18) puts the local checks first, while an unusable policy is
reported before them (`PolicyOnlyNarrows` makes the exception explicit).

### Bounds and why they are enough

* Widths. Addresses have 5 or 8 bits, laid out as in `address.rs`: a global
  half, two transition ranges inside it, embedded-IPv4 ranges outside, attestable
  lengths strictly inside the width. Every comparison in the code is between two
  lengths or between bits at equal positions, and each ordering of the lengths
  involved occurs. The theorems have no such bound.
* `U64Max` is 1023 and i64 therefore ends at 511; the corpus has windows next to
  zero, across the end of i64 and at the end of u64, and the clock of the `calls` run
  reaches the first two. `AsU8` narrows by 256 as the
  code does.
* Times. The lifetime cap is 4 or 6, the tolerance 1 or 2; the `calls` run uses
  the two edges of the window, their neighbours and points in and far outside.
* `MaxChanges`: two republications let one change the policy and one the key,
  or one of them twice, between any two steps. In `window` one is enough: the two units a
  policy of one operator may ask for are both in force then, one after the other, and a
  connection is accepted under each; a second one would return to the first. `Conns`: no step of one connection
  reads another's variables; the properties relate at most two.
* `calls` combines every source with every token in the window only, and every time and
  every pair of records with a source inside the prefix, one off it and a translated
  one (`CallsSpec`). A token refused for itself meets sound records only:
  `QueriesFollowLocalChecks` shows that it gets no answer at all.
* Texts. `MaxLen` is 3 behind each of five beginnings: none, the version, the version
  behind blanks and an empty segment, a second tag, and the version in second place.
  Three octets hold a name, its `=` and a value, or two separators around one octet,
  which repeat, break or extend the list at its end. `MaxEdits` is 2, so an edit can
  repair or break what another has done; the records together hold every tag, and
  each fault is reached by one of them or by an edit.
* `MaxPolicyPrefixes` is 2 instead of 64: records with fewer, as many and more entries
  occur. Prefixes in `record_edits` have 5 bits, in `prefix_writing` 128 bits and
  numbers of the real size; `MaxTyped` is 5, an address, the slash and three digits.
* `MaxLabelLen` is 2 and `MaxDomainLen` 5 in `query_names`, a kid has up to 3 octets, a
  claim up to 4 and both with a dot 8: every limit is met, passed by one, and met
  by a text of several labels.
* `MaxLines` is 2 in `evaluator`: its properties relate at most two cases, and the program
  keeps nothing from one case to the next.
* The corpus has the faults of the repository's vectors (`tests/testdata/v1.json`)
  and the boundaries next to them, each applied to an otherwise valid token.
  `Tokens`, `Sources` and the answers are restricted per run to those its
  properties can tell apart.

`CHECK_DEADLOCK FALSE` in all runs but `prefix_algebra`: a receiver whose connections
are all done, with the clock and the operators at their bounds, has stopped; so has
a parser that returned, an operator or a client that wrote all the model lets it
write, and an evaluator at the end of its input or after a panic.

### Fairness

`EveryCallReturns` assumes `WF_vars(Step(c))` for each connection: the crate's
functions are total and return, and a resolver answers or gives up, which counts
as an unusable record. Nothing is assumed of the clients (`Parse`), the operators
or the clock.

## 4. Proofs

`tlapm` checks every proof. The theorems hold for all values of the constants
that satisfy the assumptions of their modules. Those of the flow are
`PrefixAssumption`, `PayloadAssumption`, `TokenAssumption` and `ReceiverAssumption`: the layout of the ranges, the sizes of the lengths, that
sources and ineligible prefixes are of their types and that a decoded map has
its entries at numbered places. Any set of tokens, with any `Decode`, is allowed.
Those of the texts are `TextsAssumption` and `RecordEditsAssumption` (texts are
sequences of lexemes), `PrintableAssumption` (the space and the separators `;` and `=` are
printable), `RecordsAssumption` and `TypedAssumption` (the cap and the bounds are numbers),
`NameAssumption` (an alphabet), `AddressAssumption` (a length is a `u8`; an address has no
slash, and one that std shows is read back) and `EvaluatorAssumption` (a line is a text,
every octet string decodes to something, a map to a list of entries, and no domain
prints as an empty column). Any set of texts, pieces, lines and octets is allowed, of
any length.

* **Addresses** (`TokenLemmas`, `PrefixAndNameProofs`). `KeptBitsExact` shows that the two
  branches of `mask` keep exactly the first `len` bits; `MaskAgreement` turns every
  comparison of masks into agreement bit by bit. Containment, overlap, cover and
  the agreement of the two rule sets follow. That a longer entry does not cover a
  shorter claim needs an address that escapes (`ShorterEscapes`): flip the first
  bit that only the entry fixes.
* **Tokens** (`TokenLemmas`). What it means that a chain of checks passes: in
  whole numbers for times and units, in addresses for prefixes, for the entries of
  a map that every key occurs once and the last value is the only one.
* **The flow** (`ReceiverProofs`, `Invariant`). The properties are not inductive:
  that a policy authorized the token says nothing of the next step unless the
  value held is known to be the one parsed from this call and the answer recorded
  the one it was authorized with. `IInv` therefore says for each stage which
  checks have passed, on the arguments of the call and on the answers *as given*,
  and that the value held is the one they were made on. `Frame` shows that it
  does not depend on the environment or on other connections; there is one lemma
  per action, and `EnvironmentStep` for the other three.
* **The properties** (the last part of `ReceiverProofs`): `TypeOK` and every other invariant of the
  runs are consequences of `IInv` and the token lemmas.
* **The converse** (the end of `ReceiverProofs`). `HonestOperatorsPass` goes the other way,
  from the claim on the wire to the checks. `PlainValues` and `PlainFields` show that both
  decoders keep the value every reader finds; `AttestableByBlocks` and `CoversByBlocks` turn
  inclusion of sets of addresses into the comparisons of masks and lengths;
  `ConformingIsParsed` and `GrantedIsAuthorized` are the two stages, and `IInv` leaves no
  other way to end. A unit that is admissible has to be a `u64` too, hence
  `MaxPrefixLen <= U64Max` in `PayloadAssumption`.
* **The refinement** (`ReceiverRefinementProofs`). `HSpecIsSpec` shows that the
  history variables do not restrict the flow, so `IInv` holds of it too. `HInv` adds
  where the answers came from: each was in force in some zone since the call, in
  that order, and the last zone is the one in force. `EndedReports` turns "how a flow
  may have ended" of `IInv` into a `Report` on these two zones; a lookup or an
  authorization that does not end the flow maps to a stutter, the step that ends it
  to `Answer`. It assumes `AnswersAssumption`, that an unusable record is not one of
  an unknown algorithm, as does `NoneCorrect`.

* **Texts** (`TextLemmas`). `Split`, `NonEmpty` and `Trim` number places by counting
  those before them. `NthIsPlace` shows that every number below the count belongs to
  exactly one place (a strictly increasing count that starts at 0 leaves no gap), and
  `Enumeration` turns any list of places in their order into what `Nth` gives; nothing
  here is proved by induction. From this follow the laws of std's functions that the
  rest needs: the split of two joined texts is the split of the one and then of the
  other (`SplitConcat`), the same of the pieces that are not empty and of the octets
  that are not blank, a text is its trimmed middle between two blank margins
  (`TrimParts`, `TrimBy`), and a piece put anywhere into a text changes exactly one piece
  of its split (`PieceAround`). `Within` and `Follows` say that a piece stands somewhere
  in a text between octets of given kinds, and are kept by every split and trim.
* **Records** (`RecordLemmas`). What the list of tags does when one segment of the text
  changes: `SoundAlike` (segments that read alike give the same fault and tags),
  `TagAdded` (a new segment, one more tag), and which parts of the list each of the two
  parsers looks at (`KeyRestsOn`, `PolicyRestsOn`).
* **The loop** (`RecordProofs`). `LoopInv` says that the list pushed so far is the
  declarative list up to the segment reached, and that no segment before it has a
  fault; `PushedAtBlank` and `PushedAtTag` are the two ways it grows, `FirstFault` and
  `LastFault` relate the fault met by the loop to the first one of the text.
  `AcceptedAsWritten` then follows from what `Tags` is. `NothingDropped` needs more than
  `LoopInv`, which says nothing of octets: `DropInv` adds that what the tags pushed
  spell, with the separators put back, is the inked part of the text up to the cut
  that was reached (`SeenIsPushed`), and that a result `Pass` is given at the end of the
  text only.
* **The edits** (`RecordProofs`). `EditInv` is that `reading` is the reading of `txt`;
  `PolicyIsSound` and `FutureAlgorithmIsTold` go through the chains of checks of
  `PolicyFault` and `KeyFault`. `LayoutIsIdle` takes the inserted octet to the one segment
  it falls into and shows that the segment reads alike, or that it adds a blank one.
  `SloppyListsAreIdle` follows the entries: an empty element adds none, and a value that
  agrees with another up to the last entry under the cap keeps the same ones.
  `ExtensionsAreIdle` follows the tags and the flags the parsers look for. For
  `OrderIsIdle` three cuts leave four pieces, all but the first opened by a separator,
  so what the text spells is what the pieces spell, one behind another
  (`FourTextsWritten`). Exchanging two of them permutes the list of tags and moves
  nothing up to the first one (`ExchangedLists`, `Reordered`); a sound list in another
  order is sound, with the same tags (`OrderOfTags`), and the parsers look each tag up by
  its name.
* **The evaluator** (`EvaluatorProofs`). `Inv` says that every line written is `Answer` of
  its case, a function of the line and the key: this is where it is shown that
  nothing is carried from one case to the next, and every property becomes one of two
  lines. `AnswersNarrow` compares the two paths on one token, check by check.
  `TabsAreSpaces` shows that the first four tabs, and no others, cut the line, and that
  blanks are worth the same wherever the parser of records looks, names of tags
  apart. `TestingOnlyObserves` says that a further segment `t=y` adds one tag and sets the
  flag. `PassRestsOnText` takes the entry that authorized the claim back to the text:
  it is a piece of a trimmed value behind the first `=` of a segment of the policy,
  and `Within` and `Follows` carry the octets around it through the four steps.
  For the times, `ParseAtOtherTime` shows that of all the local checks of a token that
  passes them only the two of the window can fail at another time, in whole numbers;
  what comes behind them is not told the time.
* **Prefixes as texts** (`PrefixAndNameProofs`). `DigitsOfDecimals` and `DecimalsOfDigits`:
  the numbers from 0 to 255 and the texts `parse_decimal` accepts are in bijection, by
  one, two and three digits. `WritingInv` is that what was shown is the text.
* **Names** (`PrefixAndNameProofs`). A selector has no dot, so the first dot of a query
  name ends it (`PartsOfQueries`), and the name of a policy is that of a key under
  `_prefixes`, which is no selector (`PolicyIsKeyOf`). The labels of two domains joined by
  a dot are those of both (`JoinedDomains`, by `SplitConcat`).

| property | theorem |
|---|---|
| `ContainsIsMembership`, `OverlapIsSharedAddress`, `CoverIsInclusion`, `AttestableIsEligible` | `ContainsCorrect`, `OverlapCorrect`, `CoverCorrect`, `AttestableSourcesCorrect` |
| `OneSpelling`, `ShownIsRead` | `LengthsHaveOneSpelling`, `ShownPrefixesAreRead` |
| `NamesAreUnambiguous`, `LabelRulesAgree` | `QueriesAreUnambiguous`, `LabelsHaveOneRule` |
| `TypeOK` | `TypeCorrect` |
| `ClaimsAreUnambiguous` | `ClaimsCorrect` |
| `QueriesFollowLocalChecks` | `LocalChecksFirst` |
| `ReplayWindowBounded` | `ReplayBounded` |
| `KeyQueriesFollowAuthorization` | `KeyAfterPolicy` |
| `PassIsAccountable` | `PassAccountable` |
| `TestingStakesNothing` | `TestingNeverPasses` |
| `ObservedUnitIgnoresClaims` | `ObservedUnitCorrect` |
| `OneShotAgrees` | `StagedIsOneShot` |
| `HonestOperatorsPass` | `HonestOperatorsAccepted` |
| `FailBlamesTheConnection` | `FailCorrect` |
| `NoneIsDeclared` | `NoneCorrect` |
| `ImplementsVerdict` | `FlowImplementsVerdict` |
| `LoopComputesTags`, `AcceptedAsWritten`, `NothingDropped` | `LoopComputesTheTags`, `AcceptedIsAsWritten`, `NothingOfTheRecordIsDropped` |
| `PolicyIsSound`, `FutureAlgorithmIsTold` | `AcceptedPolicyIsSound`, `FutureKeysAreTold` |
| `LayoutIsIdle`, `SloppyListsAreIdle`, `ExtensionsAreIdle`, `OrderIsIdle` | `LayoutIsIdleInRecords`, `SloppyListsMeanNothing`, `ExtensionsMeanNothing`, `OrderMeansNothing` |
| `PolicyOnlyNarrows`, `TypeOK` of the evaluator | `PoliciesOnlyNarrow`, `AnswersLineUp` |
| `TimeOnlyMovesThroughWindow`, `LostTimesPassNothing` | `TimesMoveThroughWindow`, `LostTimesAreHarmless` |
| `TestingOnlyObserves`, `TabsAreSpaces`, `PassRestsOnText` | `TestingChangesTheStake`, `TabsAreWorthSpaces`, `PassesRestOnText` |

Only model-checked is `EveryCallReturns`: liveness under fairness
is out of the prover's reach. Every other property of a run that is expected to pass
is a theorem.

## 5. Not modelled

* The octets: CBOR decoding is ciborium's, base64 and the curve are other crates', the
  text of an address and the parse of an `i64` are std's. `Decode`, `Verifies`,
  `OctetsOf`, `AddressOf`, `TextOf` and `TimeOf` stand for them.
* The loop of `Payload::from_value` as a step machine. Every entry it refuses is
  refused as `malformed`, so the order in which it meets them cannot be seen;
  `EntriesFault` is its whole body.
* `Receiver` takes records as parsed. Texts meet tokens in `Evaluator`, where nothing
  interleaves; interleaving does not depend on the text, since parsing an answer is
  a function of the answer alone.
* The test harness `tests/vectors.rs`, apart from its vectors. It is not program code.
* Wording, the accessors, `Display` of everything but prefixes.

## 6. Plan

Done: the address layer, the token layer, the staged flow and the verdict it
implements, records as texts, the presentation form of prefixes, names, the
signature-only path and the evaluator; proofs of every safety property.

Left: a length of 253 octets makes a query name that no resolver accepts (see the
hazards), which would need the limits of a DNS name in `Names` and a statement of the
documentation to hold them against; and an abstract specification of the evaluator
as a function from cases to lines, which `Inv` already is in the proofs.
