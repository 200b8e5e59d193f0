-------------------------------- MODULE Token --------------------------------
(***************************************************************************)
(* Mode-2 connection tokens, src/token.rs: the checks of each stage of a   *)
(* verification and the value the stage returns.                           *)
(*                                                                         *)
(* A token is [size, item]: its octet count and the CBOR item of Cbor.tla  *)
(* it encodes.  The octets of the first part of the COSE array mean a      *)
(* header map, those of the third the payload, those of the fourth a       *)
(* signature: [key, over, strict], made with key over some octets, strict  *)
(* when its R has full order and its S is canonical.                       *)
(***************************************************************************)
EXTENDS Payload, PolicyRecord

CONSTANTS
  MaxTokenLen,      \* MAX_TOKEN_LEN
  ObservedUnitLen,  \* OBSERVED_UNIT_LEN
  SkewSecs,         \* SKEW_SECS
  SelectorLabels,   \* the octet strings selector_from_kid accepts
  SmallOrderKeys    \* curve points of small order among the keys

CoseSign1Tag == 18
AlgEdDSA     == -8
AlgEd25519   == -19
ContentType  == "application/sworn-token+cbor"

LabelAlg         == 1
LabelCrit        == 2
LabelContentType == 3
LabelKid         == 4

-----------------------------------------------------------------------------
(* The COSE envelope. *)

\* What Headers::from_value accepts.
IsHeaderMap(item) ==
  /\ item.kind = "map"
  /\ \A i \in DOMAIN item.v : AsValue(item.v[i].key).kind \in {"int", "text"}
  /\ ~RepeatsLabel(item.v)

Part(token, i) == token.item.v.v[i]

\* CoseSign1::parse; its faults are all the same reason.
EnvelopeFault(token) ==
  Check(/\ token.item.kind = "tag" /\ token.item.tag = CoseSign1Tag
        /\ token.item.v.kind = "array" /\ Len(token.item.v.v) = 4
        /\ \A i \in {1, 3, 4} : Part(token, i).kind = "bytes"
        /\ IsHeaderMap(Part(token, 2))
        /\ Part(token, 1).v.kind = "empty" \/ IsHeaderMap(Part(token, 1).v),
        "malformed")

\* The two header buckets; no octets stand for an empty protected map.
Protected(token) ==
  IF Part(token, 1).v.kind = "empty" THEN <<>> ELSE Part(token, 1).v.v
Unprotected(token) == Part(token, 2).v

Has(headers, label) == Occurrences(headers, label) # {}

Get(headers, label) ==
  AsValue(headers[CHOOSE i \in Occurrences(headers, label) : TRUE].val)

HasText(headers, label, text) ==
  /\ Has(headers, label)
  /\ Get(headers, label).kind = "text" /\ Get(headers, label).v = text

\* CoseSign1::check_headers: bucket confusion before any missing value.
HeaderFault(protected, unprotected) ==
  Check(/\ ~Has(protected, LabelCrit) /\ ~Has(unprotected, LabelCrit)
        /\ \A label \in {LabelAlg, LabelContentType, LabelKid} : ~Has(unprotected, label)
        /\ \A i \in DOMAIN unprotected : \A j \in DOMAIN protected :
             ~SameLabel(unprotected[i].key, protected[j].key)
        /\ Has(protected, LabelAlg)
        /\ IsInt(Get(protected, LabelAlg), AlgEdDSA)
             \/ IsInt(Get(protected, LabelAlg), AlgEd25519),
        "header_confusion")
  ?? Check(HasText(protected, LabelContentType, ContentType), "bad_content_type")
  ?? Check(/\ Has(protected, LabelKid)
           /\ Get(protected, LabelKid).kind = "bytes"
           /\ Get(protected, LabelKid).v \in SelectorLabels,
           "bad_kid")

-----------------------------------------------------------------------------
(* parse and parse_excluding. *)

PayloadItem(token) == Part(token, 3).v

\* Mutation of ConnectionFault: membership is decided before eligibility.
ConnectionFaultMembershipFirst(payload, source, now, ineligible) ==
  Check(Contains(payload.prefix, source), "off_prefix")
  ?? Check(/\ IsEligibleSource(source)
           /\ \A p \in ineligible : ~Contains(p, source), "ineligible_source")
  ?? Check(now >= payload.iat - SkewSecs, "not_yet_valid")
  ?? Check(now <= payload.exp + SkewSecs, "expired")

\* Mutation of ConnectionFault: only the expiry is tested.
ConnectionFaultNoStart(payload, source, now, ineligible) ==
  Check(/\ IsEligibleSource(source)
        /\ \A p \in ineligible : ~Contains(p, source), "ineligible_source")
  ?? Check(now <= payload.exp + SkewSecs, "expired")
  ?? Check(Contains(payload.prefix, source), "off_prefix")

\* Mutation of ConnectionFault: one reason for both ends of the window.
ConnectionFaultOutside(payload, source, now, ineligible) ==
  Check(/\ IsEligibleSource(source)
        /\ \A p \in ineligible : ~Contains(p, source), "ineligible_source")
  ?? Check(/\ now >= payload.iat - SkewSecs
           /\ now <= payload.exp + SkewSecs, "expired")
  ?? Check(Contains(payload.prefix, source), "off_prefix")

\* The checks that relate a decoded payload to the connection, in order.
ConnectionFault(payload, source, now, ineligible) ==
  Check(/\ IsEligibleSource(source)
        /\ \A p \in ineligible : ~Contains(p, source), "ineligible_source")
  ?? Check(now >= payload.iat - SkewSecs, "not_yet_valid")
  ?? Check(now <= payload.exp + SkewSecs, "expired")
  ?? Check(Contains(payload.prefix, source), "off_prefix")

ParseFault(token, source, now, ineligible) ==
  Check(token.size <= MaxTokenLen, "malformed")
  ?? EnvelopeFault(token)
  ?? HeaderFault(Protected(token), Unprotected(token))
  ?? RejectTaggedFields(PayloadItem(token))
  ?? PayloadFault(PayloadItem(token))
  ?? ConnectionFault(PayloadOf(PayloadItem(token)), source, now, ineligible)

PrefixOf(source, len) == [addr |-> Mask(source, len), len |-> len]

\* The octets under the signature: the context string and the empty external
\* data of the Sig_structure are the same for every token.
ToBeSigned(token) == <<Part(token, 1).v, PayloadItem(token)>>

\* Mutation of Unverified: the observed unit has the length of the unit claimed.
UnverifiedWithClaimedLength(token, source) ==
  LET payload == PayloadOf(PayloadItem(token))
  IN  [payload       |-> payload,
       selector      |-> Lowercase[Get(Protected(token), LabelKid).v],
       unit          |-> PrefixOf(source, payload.unit),
       observed_unit |-> [addr |-> Mask(source, ObservedUnitLen), len |-> payload.unit],
       to_be_signed  |-> ToBeSigned(token),
       signature     |-> Part(token, 4).v]

\* What parse returns of a token without a fault.
Unverified(token, source) ==
  LET payload == PayloadOf(PayloadItem(token))
  IN  [payload       |-> payload,
       selector      |-> Lowercase[Get(Protected(token), LabelKid).v],
       unit          |-> PrefixOf(source, payload.unit),
       observed_unit |-> PrefixOf(source, ObservedUnitLen),
       to_be_signed  |-> ToBeSigned(token),
       signature     |-> Part(token, 4).v]

-----------------------------------------------------------------------------
(* authorize, verify_signature and the verdict. *)

AuthorizeFault(unverified, policy) ==
  Check(Authorizes(policy, unverified.payload.prefix), "unauthorized_prefix")
  ?? Check(policy.unit = unverified.payload.unit, "policy_unit_mismatch")

Authorized(unverified, policy) ==
  [token |-> unverified, testing |-> policy.testing, rua |-> policy.rua]

\* Ed25519PublicKey::verify is strict.
Verifies(key, message, signature) ==
  /\ key \notin SmallOrderKeys /\ signature.strict
  /\ signature.key = key /\ signature.over = message

SignatureFault(unverified, key) ==
  Check(Verifies(key, unverified.to_be_signed, unverified.signature), "bad_signature")

Verified(authorized) ==
  LET token == authorized.token
  IN  [operator |-> token.payload.operator, unit |-> token.unit,
       observed_unit |-> token.observed_unit, prefix |-> token.payload.prefix,
       selector |-> token.selector, role |-> token.payload.role,
       testing |-> authorized.testing, rua |-> authorized.rua]

\* Outcome::auth_result of the variant verify_signature builds.
OutcomeResult(authorized) == IF authorized.testing THEN "none" ELSE "pass"

\* Mutation of VerifyFault: the signature is checked before the policy.
VerifyFaultKeyFirst(token, key, policy, source, now) ==
  ParseFault(token, source, now, {})
  ?? SignatureFault(Unverified(token, source), key)
  ?? AuthorizeFault(Unverified(token, source), policy)

\* The one-shot verify(): the protocol's ineligible ranges only.
VerifyFault(token, key, policy, source, now) ==
  ParseFault(token, source, now, {})
  ?? AuthorizeFault(Unverified(token, source), policy)
  ?? SignatureFault(Unverified(token, source), key)

ASSUME TokenAssumption ==
  /\ MaxTokenLen \in Nat /\ SkewSecs \in Nat
  /\ ObservedUnitLen \in MaxPrefixLen..Width
  /\ DefaultUnit \in 1..MaxPrefixLen
  /\ MaxPrefixLen < 256
  /\ SelectorLabels \subseteq DOMAIN Lowercase
=============================================================================
