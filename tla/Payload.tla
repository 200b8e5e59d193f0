------------------------------ MODULE Payload ------------------------------
(***************************************************************************)
(* The signed claim of a token, src/payload.rs.                            *)
(*                                                                         *)
(* A prefix on the wire is a byte string: [octets, addr, len], of which    *)
(* addr and len mean something when there are 17 octets.                   *)
(***************************************************************************)
EXTENDS Cbor, Reason, Ipv6Prefix, ReputationUnit

CONSTANTS
  MaxLifetimeSecs,   \* MAX_LIFETIME_SECS
  OperatorDomains,   \* the strings is_operator_domain accepts
  Lowercase          \* to_ascii_lowercase on names, a function

KeyOperator == 1
KeyPrefix   == 2
KeyUnit     == 3
KeyIat      == 4
KeyExp      == 5
KeyRole     == 6

DefinedKeys  == {KeyOperator, KeyPrefix, KeyUnit, KeyIat, KeyExp, KeyRole}
RequiredKeys == DefinedKeys \ {KeyUnit}

Roles == {"mta", "esp-tenant", "forwarder"}

HasIntegerKeys(item) ==
  /\ item.kind = "map"
  /\ \A i \in DOMAIN item.v : AsValue(item.v[i].key).kind = "int"

\* Both readers of the payload keep the last value of a repeated key: the
\* BTreeMap of reject_tagged_fields and the options of from_value are
\* overwritten entry by entry.
LastValue(item, k) ==
  LET occurrences == Occurrences(item.v, k)
  IN  item.v[CHOOSE i \in occurrences : \A j \in occurrences : j <= i].val

RejectTaggedFields(item) ==
  Check(/\ HasIntegerKeys(item)
        /\ \A k \in DefinedKeys :
             Occurrences(item.v, k) # {} => ~IsTagged(LastValue(item, k)),
        "malformed")

\* text(), bytes() and uint() on the value of key k.
ReadsAsDefined(k, val) ==
  LET value == AsValue(val)
  IN  CASE k \in {KeyOperator, KeyRole}      -> value.kind = "text"
        [] k = KeyPrefix                     -> value.kind = "bytes"
        [] k \in {KeyUnit, KeyIat, KeyExp}   -> value.kind = "int" /\ value.v \in 0..U64Max

\* Mutation of EntriesFault: the last of two values of a key wins.
EntriesFaultLastWins(item) ==
  Check(/\ HasIntegerKeys(item)
        /\ \A k \in DefinedKeys : \A i \in Occurrences(item.v, k) :
             ReadsAsDefined(k, item.v[i].val)
        /\ \A k \in RequiredKeys : Occurrences(item.v, k) # {},
        "malformed")

\* The loop over the entries and the match on the REQUIRED keys; whichever entry
\* stops the loop, the reason is the same.
EntriesFault(item) ==
  Check(/\ HasIntegerKeys(item)
        /\ ~RepeatsLabel(item.v)
        /\ \A k \in DefinedKeys : \A i \in Occurrences(item.v, k) :
             ReadsAsDefined(k, item.v[i].val)
        /\ \A k \in RequiredKeys : Occurrences(item.v, k) # {},
        "malformed")

Field(item, k) == AsValue(LastValue(item, k)).v

\* The unit as read, before it is narrowed to an octet.
WideUnit(item) ==
  IF Occurrences(item.v, KeyUnit) = {} THEN DefaultUnit ELSE Field(item, KeyUnit)

AsU8(n) == n % 256

\* exp - iat on u64.
WrappingSub(a, b) == IF a >= b THEN a - b ELSE a - b + U64Max + 1

DecodePrefix(wire) == [addr |-> wire.addr, len |-> wire.len]

PrefixFault(wire) ==
  Check(wire.octets = 17, "malformed")
  ?? Check(wire.len <= Width, "bad_prefix")
  ?? Check(IsAttestable(DecodePrefix(wire)), "bad_prefix")

\* Mutation of ValidityFault: the longest lifetime is refused.
ValidityFaultBelowCap(iat, exp) ==
  Check(exp > iat, "bad_validity")
  ?? Check(WrappingSub(exp, iat) < MaxLifetimeSecs, "lifetime_too_long")

ValidityFault(iat, exp) ==
  Check(exp > iat, "bad_validity")
  ?? Check(WrappingSub(exp, iat) <= MaxLifetimeSecs, "lifetime_too_long")

\* Mutation of UnitFault: the unit is narrowed before it is compared.
UnitFaultNarrowedFirst(wideUnit, prefixLen, role) ==
  Check(AsU8(wideUnit) <= MaxPrefixLen /\ AsU8(wideUnit) >= prefixLen, "bad_unit")
  ?? Check(role = "esp-tenant" => AsU8(wideUnit) = prefixLen, "bad_unit")

UnitFault(wideUnit, prefixLen, role) ==
  Check(wideUnit <= MaxPrefixLen /\ wideUnit >= prefixLen, "bad_unit")
  ?? Check(role = "esp-tenant" => AsU8(wideUnit) = prefixLen, "bad_unit")

\* Payload::from_value: the first fault, or Pass.
PayloadFault(item) ==
  EntriesFault(item)
  ?? Check(Field(item, KeyOperator) \in OperatorDomains, "malformed")
  ?? Check(Field(item, KeyRole) \in Roles, "bad_role")
  ?? PrefixFault(Field(item, KeyPrefix))
  ?? ValidityFault(Field(item, KeyIat), Field(item, KeyExp))
  ?? UnitFault(WideUnit(item), Field(item, KeyPrefix).len, Field(item, KeyRole))

\* The payload from_value returns when there is no fault.
PayloadOf(item) ==
  [operator |-> Lowercase[Field(item, KeyOperator)],
   prefix   |-> DecodePrefix(Field(item, KeyPrefix)),
   unit     |-> AsU8(WideUnit(item)),
   iat      |-> Field(item, KeyIat),
   exp      |-> Field(item, KeyExp),
   role     |-> Field(item, KeyRole)]

ASSUME PayloadAssumption ==
  /\ U64Max \in Nat /\ MaxPrefixLen <= U64Max /\ MaxLifetimeSecs \in Nat
  /\ DefaultUnit \in Nat
  /\ OperatorDomains \subseteq DOMAIN Lowercase
=============================================================================
