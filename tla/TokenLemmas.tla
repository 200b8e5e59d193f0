----------------------------- MODULE TokenLemmas -----------------------------
(***************************************************************************)
(* What mask(), contains(), overlaps() and the two address rules do, for   *)
(* every width and every layout of the ranges; and what it means that a    *)
(* chain of checks of src/token.rs and src/payload.rs ends without a       *)
(* fault.                                                                  *)
(***************************************************************************)
EXTENDS Token, FiniteSets, FiniteSetTheorems, TLAPS

\* For a prefix length the code can store, mask() keeps exactly the first len
\* bits: the shift of mask() never wraps.
LEMMA KeptBitsExact ==
  ASSUME NEW n \in 0..Width
  PROVE  KeptBits(n) = 1..n
<1>1. CASE n = Width
  BY <1>1, PrefixAssumption DEF KeptBits
<1>2. CASE n # Width
  <2>1. n < Width /\ n \in Nat
    BY <1>2, PrefixAssumption
  <2>2. n % Width = n
    BY <2>1, PrefixAssumption
  <2>3. QED
    BY <2>1, <2>2, PrefixAssumption DEF KeptBits
<1>3. QED
  BY <1>1, <1>2

\* Two masks are equal exactly when the addresses agree on the kept bits.
LEMMA MaskAgreement ==
  ASSUME NEW n \in 0..Width, NEW a, NEW b
  PROVE  Mask(a, n) = Mask(b, n) <=> \A i \in 1..n : a[i] = b[i]
<1>1. KeptBits(n) = 1..n /\ 1..n \subseteq 1..Width
  BY KeptBitsExact, PrefixAssumption
<1>2. ASSUME Mask(a, n) = Mask(b, n), NEW i \in 1..n
      PROVE  a[i] = b[i]
  <2>1. Mask(a, n)[i] = a[i] /\ Mask(b, n)[i] = b[i]
    BY <1>1 DEF Mask
  <2>2. QED
    BY <1>2, <2>1
<1>3. ASSUME \A i \in 1..n : a[i] = b[i]
      PROVE  Mask(a, n) = Mask(b, n)
  BY <1>1, <1>3 DEF Mask
<1>4. QED
  BY <1>2, <1>3

\* contains() is agreement on the bits of the prefix.
LEMMA ContainsAgreement ==
  ASSUME NEW p, p.len \in 0..Width, NEW a
  PROVE  Contains(p, a) <=> \A i \in 1..p.len : a[i] = p.addr[i]
BY MaskAgreement DEF Contains

\* A prefix at least as specific as another, whose base lies in it, lies in it
\* as a whole.
LEMMA ContainsTransitive ==
  ASSUME NEW outer, outer.len \in 0..Width,
         NEW inner, inner.len \in 0..Width,
         inner.len >= outer.len,
         Contains(outer, inner.addr),
         NEW a, Contains(inner, a)
  PROVE  Contains(outer, a)
<1>1. \A i \in 1..inner.len : a[i] = inner.addr[i]
  BY ContainsAgreement
<1>2. \A i \in 1..outer.len : inner.addr[i] = outer.addr[i]
  BY ContainsAgreement
<1>3. 1..outer.len \subseteq 1..inner.len
  BY PrefixAssumption
<1>4. QED
  BY <1>1, <1>2, <1>3, ContainsAgreement

\* overlaps() is agreement on the bits of the shorter prefix, and the address of
\* the longer one is then a witness.
LEMMA OverlapsSharedAddress ==
  ASSUME NEW p \in Prefixes, NEW q \in Prefixes
  PROVE  Overlaps(p, q) <=> \E a \in Ipv6Addr : Contains(p, a) /\ Contains(q, a)
<1> DEFINE shorter == IF p.len <= q.len THEN p.len ELSE q.len
<1>1. /\ p.len \in 0..Width /\ q.len \in 0..Width /\ shorter \in 0..Width
      /\ p.addr \in Ipv6Addr /\ q.addr \in Ipv6Addr
  BY DEF Prefixes
<1>2. Overlaps(p, q) <=> \A i \in 1..shorter : p.addr[i] = q.addr[i]
  <2>1. Overlaps(p, q) <=> Mask(p.addr, shorter) = Mask(q.addr, shorter)
    BY DEF Overlaps
  <2>2. QED
    BY <1>1, <2>1, MaskAgreement
<1>3. ASSUME Overlaps(p, q)
      PROVE  \E a \in Ipv6Addr : Contains(p, a) /\ Contains(q, a)
  <2>1. CASE p.len <= q.len
    <3>1. Contains(p, q.addr) /\ Contains(q, q.addr)
      BY <1>1, <1>2, <1>3, <2>1, ContainsAgreement
    <3>2. QED
      BY <1>1, <3>1
  <2>2. CASE ~(p.len <= q.len)
    <3>1. Contains(p, p.addr) /\ Contains(q, p.addr)
      BY <1>1, <1>2, <1>3, <2>2, ContainsAgreement
    <3>2. QED
      BY <1>1, <3>1
  <2>3. QED
    BY <2>1, <2>2
<1>4. ASSUME NEW a \in Ipv6Addr, Contains(p, a), Contains(q, a)
      PROVE  Overlaps(p, q)
  <2>1. /\ \A i \in 1..p.len : a[i] = p.addr[i]
        /\ \A i \in 1..q.len : a[i] = q.addr[i]
    BY <1>1, <1>4, ContainsAgreement
  <2>2. 1..shorter \subseteq 1..p.len /\ 1..shorter \subseteq 1..q.len
    BY <1>1, PrefixAssumption
  <2>3. QED
    BY <1>2, <2>1, <2>2
<1>5. QED
  BY <1>3, <1>4

\* An address of an attestable prefix passes the source rule.
LEMMA AttestableEligible ==
  ASSUME NEW p \in Prefixes, IsAttestable(p), NEW a \in Ipv6Addr, Contains(p, a)
  PROVE  IsEligibleSource(a)
<1>1. /\ GlobalUnicast \in Prefixes /\ Teredo \in Prefixes /\ SixToFour \in Prefixes
      /\ EmbeddedRanges \subseteq Prefixes
      /\ GlobalUnicast.len \in 0..Width /\ GlobalUnicast.len <= MinPrefixLen
      /\ p.len \in 0..Width /\ p.len >= MinPrefixLen
  BY PrefixAssumption DEF Prefixes, IsAttestable
<1>2. Contains(GlobalUnicast, a)
  <2>1. Contains(GlobalUnicast, p.addr)
    BY DEF IsAttestable
  <2>2. p.len >= GlobalUnicast.len
    BY <1>1, PrefixAssumption
  <2>3. QED
    BY <1>1, <2>1, <2>2, ContainsTransitive
<1>3. ~Contains(Teredo, a) /\ ~Contains(SixToFour, a)
  BY <1>1, OverlapsSharedAddress DEF IsAttestable
<1>4. ASSUME NEW range \in EmbeddedRanges
      PROVE  ~Contains(range, a)
  <2>1. range \in Prefixes /\ ~Overlaps(range, GlobalUnicast)
    BY <1>1, PrefixAssumption
  <2>2. QED
    BY <1>1, <1>2, <2>1, OverlapsSharedAddress
<1>5. QED
  BY <1>2, <1>3, <1>4 DEF IsEligibleSource, IneligibleSourceRanges

\* The block of a prefix is what contains() accepts.
LEMMA BlockIsContained ==
  ASSUME NEW p \in Prefixes
  PROVE  Block(p) = {a \in Ipv6Addr : Contains(p, a)}
<1>1. p.len \in 0..Width
  BY DEF Prefixes
<1>2. \A a \in Ipv6Addr : Contains(p, a) <=> \A i \in 1..p.len : a[i] = p.addr[i]
  BY <1>1, ContainsAgreement
<1>3. QED
  BY <1>2 DEF Block

\* A claim shorter than the policy entry has an address outside the entry: flip
\* the first bit that only the entry fixes.
LEMMA ShorterEscapes ==
  ASSUME NEW p \in Prefixes, NEW q \in Prefixes, p.len < q.len
  PROVE  ~(Block(p) \subseteq Block(q))
<1> DEFINE n == p.len + 1
           flipped == [i \in 1..Width |-> IF i = n THEN 1 - q.addr[i] ELSE p.addr[i]]
<1>1. /\ p.len \in 0..Width /\ q.len \in 0..Width /\ n \in 1..q.len /\ n \in 1..Width
      /\ p.addr \in [1..Width -> {0, 1}] /\ q.addr \in [1..Width -> {0, 1}]
  BY PrefixAssumption DEF Prefixes, Ipv6Addr
<1>2. flipped \in Ipv6Addr
  <2>1. \A i \in 1..Width : p.addr[i] \in {0, 1} /\ q.addr[i] \in {0, 1}
    BY <1>1
  <2>2. \A i \in 1..Width : 1 - q.addr[i] \in {0, 1}
    BY <2>1
  <2>3. QED
    BY <2>1, <2>2 DEF Ipv6Addr
<1>3. flipped \in Block(p)
  <2>1. \A i \in 1..p.len : i \in 1..Width /\ i # n
    BY <1>1, PrefixAssumption
  <2>2. \A i \in 1..p.len : flipped[i] = p.addr[i]
    BY <2>1
  <2>3. QED
    BY <1>2, <2>2, Zenon DEF Block
<1>4. flipped \notin Block(q)
  <2>1. flipped[n] = 1 - q.addr[n] /\ q.addr[n] \in {0, 1}
    BY <1>1
  <2>2. flipped[n] # q.addr[n]
    BY <2>1
  <2>3. QED
    BY <1>1, <2>2, Zenon DEF Block
<1>5. QED
  BY <1>3, <1>4
-----------------------------------------------------------------------------
(* Chains of checks. *)

\* A check passes when its condition holds: no reason is the pass string.
LEMMA CheckPasses ==
  ASSUME NEW condition, NEW reason \in Reasons
  PROVE  (Check(condition, reason) = Pass) <=> condition
BY DEF Check, Pass, Reasons

\* A chain passes when both its parts do.
LEMMA ChainPasses ==
  ASSUME NEW first, NEW second
  PROVE  (first ?? second = Pass) <=> (first = Pass /\ second = Pass)
BY DEF ??

\* A chain of reasons is a reason or the pass string.
LEMMA ChainReason ==
  ASSUME NEW first \in Reasons \union {Pass}, NEW second \in Reasons \union {Pass}
  PROVE  first ?? second \in Reasons \union {Pass}
BY DEF ??

\* One check yields its own reason or the pass string.
LEMMA CheckReason ==
  ASSUME NEW condition, NEW reason \in Reasons
  PROVE  Check(condition, reason) \in Reasons \union {Pass}
BY DEF Check

\* Every fault of parse is a reason of src/reason.rs.
LEMMA ParseReason ==
  ASSUME NEW token, NEW source, NEW now, NEW ineligible
  PROVE  ParseFault(token, source, now, ineligible) \in Reasons \union {Pass}
<1>1. \A c : /\ Check(c, "malformed") \in Reasons \union {Pass}
             /\ Check(c, "header_confusion") \in Reasons \union {Pass}
             /\ Check(c, "bad_content_type") \in Reasons \union {Pass}
             /\ Check(c, "bad_kid") \in Reasons \union {Pass}
             /\ Check(c, "bad_role") \in Reasons \union {Pass}
             /\ Check(c, "bad_prefix") \in Reasons \union {Pass}
             /\ Check(c, "bad_validity") \in Reasons \union {Pass}
             /\ Check(c, "lifetime_too_long") \in Reasons \union {Pass}
             /\ Check(c, "bad_unit") \in Reasons \union {Pass}
             /\ Check(c, "ineligible_source") \in Reasons \union {Pass}
             /\ Check(c, "not_yet_valid") \in Reasons \union {Pass}
             /\ Check(c, "expired") \in Reasons \union {Pass}
             /\ Check(c, "off_prefix") \in Reasons \union {Pass}
  BY CheckReason DEF Reasons
<1>2. EnvelopeFault(token) \in Reasons \union {Pass}
  BY <1>1 DEF EnvelopeFault
<1>3. \A p, u : HeaderFault(p, u) \in Reasons \union {Pass}
  BY <1>1, ChainReason DEF HeaderFault
<1>4. \A item : RejectTaggedFields(item) \in Reasons \union {Pass}
  BY <1>1 DEF RejectTaggedFields
<1>5. \A item : PayloadFault(item) \in Reasons \union {Pass}
  <2>1. \A w : PrefixFault(w) \in Reasons \union {Pass}
    BY <1>1, ChainReason DEF PrefixFault
  <2>2. \A i, e : ValidityFault(i, e) \in Reasons \union {Pass}
    BY <1>1, ChainReason DEF ValidityFault
  <2>3. \A u, l, r : UnitFault(u, l, r) \in Reasons \union {Pass}
    BY <1>1, ChainReason DEF UnitFault
  <2>4. \A item : EntriesFault(item) \in Reasons \union {Pass}
    BY <1>1 DEF EntriesFault
  <2>5. QED
    BY <1>1, <2>1, <2>2, <2>3, <2>4, ChainReason DEF PayloadFault
<1>6. \A p : ConnectionFault(p, source, now, ineligible) \in Reasons \union {Pass}
  BY <1>1, ChainReason DEF ConnectionFault
<1>7. QED
  BY <1>1, <1>2, <1>3, <1>4, <1>5, <1>6, ChainReason DEF ParseFault

\* A token that parse accepts passes every part of it.
LEMMA ParsePasses ==
  ASSUME NEW token, NEW source, NEW now, NEW ineligible,
         ParseFault(token, source, now, ineligible) = Pass
  PROVE  /\ token.size <= MaxTokenLen
         /\ EnvelopeFault(token) = Pass
         /\ HeaderFault(Protected(token), Unprotected(token)) = Pass
         /\ RejectTaggedFields(PayloadItem(token)) = Pass
         /\ PayloadFault(PayloadItem(token)) = Pass
         /\ ConnectionFault(PayloadOf(PayloadItem(token)), source, now, ineligible) = Pass
<1>1. /\ Check(token.size <= MaxTokenLen, "malformed") = Pass
      /\ EnvelopeFault(token) = Pass
      /\ HeaderFault(Protected(token), Unprotected(token)) = Pass
      /\ RejectTaggedFields(PayloadItem(token)) = Pass
      /\ PayloadFault(PayloadItem(token)) = Pass
      /\ ConnectionFault(PayloadOf(PayloadItem(token)), source, now, ineligible) = Pass
  BY ChainPasses DEF ParseFault
<1>2. token.size <= MaxTokenLen
  BY <1>1 DEF Check, Pass
<1>3. QED
  BY <1>1, <1>2

\* At another time the same token from the same source fails by the time alone.
LEMMA ParseAtOtherTime ==
  ASSUME NEW token, NEW source, NEW past, NEW now, NEW ineligible,
         ParseFault(token, source, past, ineligible) = Pass
  PROVE  LET claim == PayloadOf(PayloadItem(token))
         IN  ParseFault(token, source, now, ineligible) =
               Check(now >= claim.iat - SkewSecs, "not_yet_valid")
               ?? Check(now <= claim.exp + SkewSecs, "expired")
<1>1. PICK claim : claim = PayloadOf(PayloadItem(token))
  OBVIOUS
<1>2. PICK eligible, inside, early, late :
        /\ eligible = Check(/\ IsEligibleSource(source)
                            /\ \A p \in ineligible : ~Contains(p, source), "ineligible_source")
        /\ inside = Check(Contains(claim.prefix, source), "off_prefix")
        /\ early = Check(now >= claim.iat - SkewSecs, "not_yet_valid")
        /\ late = Check(now <= claim.exp + SkewSecs, "expired")
  OBVIOUS
<1>3. /\ token.size <= MaxTokenLen
      /\ EnvelopeFault(token) = Pass
      /\ HeaderFault(Protected(token), Unprotected(token)) = Pass
      /\ RejectTaggedFields(PayloadItem(token)) = Pass
      /\ PayloadFault(PayloadItem(token)) = Pass
      /\ ConnectionFault(claim, source, past, ineligible) = Pass
  BY <1>1, ParsePasses
<1>4. eligible = Pass /\ inside = Pass
  <2>1. PICK from, to : /\ from = Check(past >= claim.iat - SkewSecs, "not_yet_valid")
                        /\ to = Check(past <= claim.exp + SkewSecs, "expired")
    OBVIOUS
  <2>2. ConnectionFault(claim, source, past, ineligible) = eligible ?? from ?? to ?? inside
    BY <1>2, <2>1 DEF ConnectionFault
  <2>3. QED
    BY <1>3, <2>2, ChainPasses
<1>5. \A fault : (Pass ?? fault) = fault /\ (fault ?? Pass) = fault
  BY DEF ??
<1>6. ConnectionFault(claim, source, now, ineligible) = early ?? late
  <2>1. ConnectionFault(claim, source, now, ineligible) = eligible ?? early ?? late ?? inside
    BY <1>2 DEF ConnectionFault
  <2>2. QED
    BY <1>4, <1>5, <2>1
<1>7. ParseFault(token, source, now, ineligible) = ConnectionFault(claim, source, now, ineligible)
  <2>1. Check(token.size <= MaxTokenLen, "malformed") = Pass
    BY <1>3 DEF Check
  <2>2. QED
    BY <1>1, <1>3, <1>5, <2>1 DEF ParseFault
<1>8. QED
  BY <1>1, <1>2, <1>6, <1>7

\* The two decoders of the payload agree that every defined key is there at most
\* once, a REQUIRED one exactly once, with a value of its type and no tag.
LEMMA PayloadEntries ==
  ASSUME NEW item,
         item.kind = "map" => DOMAIN item.v \subseteq Nat,
         RejectTaggedFields(item) = Pass, EntriesFault(item) = Pass
  PROVE  /\ item.kind = "map"
         /\ \A k \in DefinedKeys : \A i, j \in Occurrences(item.v, k) : i = j
         /\ \A k \in RequiredKeys : Occurrences(item.v, k) # {}
         /\ \A k \in DefinedKeys : \A i \in Occurrences(item.v, k) :
              /\ LastValue(item, k) = item.v[i].val
              /\ ReadsAsDefined(k, item.v[i].val)
              /\ ~IsTagged(item.v[i].val)
<1>1. "malformed" \in Reasons
  BY DEF Reasons
<1>2. /\ HasIntegerKeys(item) /\ ~RepeatsLabel(item.v)
      /\ \A k \in DefinedKeys : \A i \in Occurrences(item.v, k) :
           ReadsAsDefined(k, item.v[i].val)
      /\ \A k \in RequiredKeys : Occurrences(item.v, k) # {}
  BY <1>1, CheckPasses DEF EntriesFault
<1>3. \A k \in DefinedKeys :
        Occurrences(item.v, k) # {} => ~IsTagged(LastValue(item, k))
  BY <1>1, CheckPasses DEF RejectTaggedFields
<1>4. item.kind = "map" /\ DOMAIN item.v \subseteq Nat
  BY <1>2 DEF HasIntegerKeys
<1>5. ASSUME NEW k, NEW i \in Occurrences(item.v, k), NEW j \in Occurrences(item.v, k)
      PROVE  i = j
  <2>1. SameLabel(item.v[i].key, item.v[j].key)
    BY DEF Occurrences, IsInt, SameLabel
  <2>2. i \in DOMAIN item.v /\ j \in DOMAIN item.v
    BY DEF Occurrences
  <2>3. QED
    BY <1>2, <2>1, <2>2 DEF RepeatsLabel
<1>6. ASSUME NEW k \in DefinedKeys, NEW i \in Occurrences(item.v, k)
      PROVE  LastValue(item, k) = item.v[i].val
  <2>1. i \in Nat
    BY <1>4 DEF Occurrences
  <2>2. \A j \in Occurrences(item.v, k) : j <= i
    BY <1>5, <2>1
  <2>3. (CHOOSE m \in Occurrences(item.v, k) : \A j \in Occurrences(item.v, k) : j <= m) = i
    BY <1>5, <2>2
  <2>4. QED
    BY <2>3 DEF LastValue
<1>7. QED
  BY <1>2, <1>3, <1>4, <1>5, <1>6

\* What is true of a payload that from_value accepts, in whole numbers: no
\* subtraction has wrapped and no narrowing has lost a bit.
LEMMA PayloadBounds ==
  ASSUME NEW item,
         item.kind = "map" => DOMAIN item.v \subseteq Nat,
         RejectTaggedFields(item) = Pass, PayloadFault(item) = Pass
  PROVE  /\ EntriesFault(item) = Pass
         /\ Field(item, KeyOperator) \in OperatorDomains
         /\ IsAttestable(DecodePrefix(Field(item, KeyPrefix)))
         /\ Field(item, KeyIat) \in 0..U64Max /\ Field(item, KeyExp) \in 0..U64Max
         /\ Field(item, KeyExp) - Field(item, KeyIat) \in 1..MaxLifetimeSecs
         /\ WideUnit(item) \in Field(item, KeyPrefix).len..MaxPrefixLen
         /\ PayloadOf(item).unit = WideUnit(item)
<1> DEFINE prefix == Field(item, KeyPrefix)
           iat    == Field(item, KeyIat)
           exp    == Field(item, KeyExp)
           unit   == WideUnit(item)
<1>1. /\ EntriesFault(item) = Pass
      /\ Check(Field(item, KeyOperator) \in OperatorDomains, "malformed") = Pass
      /\ PrefixFault(prefix) = Pass
      /\ ValidityFault(iat, exp) = Pass
      /\ UnitFault(unit, prefix.len, Field(item, KeyRole)) = Pass
  BY ChainPasses DEF PayloadFault
<1>2. Field(item, KeyOperator) \in OperatorDomains
  BY <1>1 DEF Check, Pass
<1>3. IsAttestable(DecodePrefix(prefix))
  <2>1. Check(IsAttestable(DecodePrefix(prefix)), "bad_prefix") = Pass
    BY <1>1, ChainPasses DEF PrefixFault
  <2>2. QED
    BY <2>1 DEF Check, Pass
<1>4. iat \in 0..U64Max /\ exp \in 0..U64Max
  <2>1. ASSUME NEW k \in {KeyIat, KeyExp}
        PROVE  Field(item, k) \in 0..U64Max
    <3>1. k \in DefinedKeys /\ k \in RequiredKeys
      BY DEF DefinedKeys, RequiredKeys, KeyIat, KeyExp, KeyUnit
    <3>2. PICK i \in Occurrences(item.v, k) : TRUE
      BY <1>1, <3>1, PayloadEntries
    <3>3. LastValue(item, k) = item.v[i].val /\ ReadsAsDefined(k, item.v[i].val)
      BY <1>1, <3>1, <3>2, PayloadEntries
    <3>4. k \notin {KeyOperator, KeyRole} /\ k # KeyPrefix
      BY DEF KeyOperator, KeyRole, KeyPrefix, KeyIat, KeyExp
    <3>5. AsValue(item.v[i].val).v \in 0..U64Max
      BY <3>3, <3>4 DEF ReadsAsDefined
    <3>6. QED
      BY <3>3, <3>5 DEF Field
  <2>2. QED
    BY <2>1
<1>5. exp - iat \in 1..MaxLifetimeSecs
  <2>1. exp > iat
    <3>1. Check(exp > iat, "bad_validity") = Pass
      BY <1>1, ChainPasses DEF ValidityFault
    <3>2. QED
      BY <3>1 DEF Check, Pass
  <2>2. WrappingSub(exp, iat) <= MaxLifetimeSecs
    <3>1. Check(WrappingSub(exp, iat) <= MaxLifetimeSecs, "lifetime_too_long") = Pass
      BY <1>1, ChainPasses DEF ValidityFault
    <3>2. QED
      BY <3>1 DEF Check, Pass
  <2>3. WrappingSub(exp, iat) = exp - iat
    BY <1>4, <2>1, PayloadAssumption DEF WrappingSub
  <2>4. QED
    BY <1>4, <2>1, <2>2, <2>3, PayloadAssumption
<1>6. unit <= MaxPrefixLen /\ unit >= prefix.len
  <2>1. Check(unit <= MaxPrefixLen /\ unit >= prefix.len, "bad_unit") = Pass
    BY <1>1, ChainPasses DEF UnitFault
  <2>2. QED
    BY <2>1 DEF Check, Pass
<1>7. unit \in Nat
  <2>1. CASE Occurrences(item.v, KeyUnit) = {}
    BY <2>1, PayloadAssumption DEF WideUnit
  <2>2. CASE Occurrences(item.v, KeyUnit) # {}
    <3>1. PICK i \in Occurrences(item.v, KeyUnit) : TRUE
      BY <2>2
    <3>2. KeyUnit \in DefinedKeys /\ KeyUnit \notin {KeyOperator, KeyRole, KeyPrefix}
      BY DEF DefinedKeys, KeyUnit, KeyOperator, KeyRole, KeyPrefix
    <3>3. LastValue(item, KeyUnit) = item.v[i].val /\ ReadsAsDefined(KeyUnit, item.v[i].val)
      BY <1>1, <3>1, <3>2, PayloadEntries
    <3>4. AsValue(item.v[i].val).v \in 0..U64Max
      BY <3>2, <3>3 DEF ReadsAsDefined
    <3>5. QED
      BY <2>2, <3>3, <3>4, PayloadAssumption DEF WideUnit, Field
  <2>3. QED
    BY <2>1, <2>2
<1>8. prefix.len \in MinPrefixLen..MaxPrefixLen
  BY <1>3 DEF IsAttestable, DecodePrefix
<1>9. unit \in prefix.len..MaxPrefixLen
  BY <1>6, <1>7, <1>8, PrefixAssumption
<1>10. PayloadOf(item).unit = unit
  <2>1. unit < 256
    BY <1>6, <1>7, PrefixAssumption, TokenAssumption
  <2>2. AsU8(unit) = unit
    BY <1>7, <2>1 DEF AsU8
  <2>3. QED
    BY <2>2 DEF PayloadOf
<1>11. QED
  BY <1>1, <1>2, <1>3, <1>4, <1>5, <1>9, <1>10

\* contains() is membership in the block of a prefix.
LEMMA ContainsBlock ==
  ASSUME NEW p, p.len \in 0..Width, NEW a \in Ipv6Addr
  PROVE  Contains(p, a) <=> a \in Block(p)
BY ContainsAgreement DEF Block

\* What is true of a connection that passes the checks against its payload.
LEMMA ConnectionBounds ==
  ASSUME NEW payload, NEW source \in Ipv6Addr, NEW now \in Int,
         NEW ineligible \in SUBSET Prefixes,
         IsAttestable(payload.prefix), payload.iat \in Nat, payload.exp \in Nat,
         ConnectionFault(payload, source, now, ineligible) = Pass
  PROVE  /\ now \in (payload.iat - SkewSecs)..(payload.exp + SkewSecs)
         /\ source \in Block(payload.prefix)
         /\ \A range \in ineligible \union IneligibleSourceRanges : source \notin Block(range)
<1>1. /\ Check(/\ IsEligibleSource(source)
               /\ \A p \in ineligible : ~Contains(p, source), "ineligible_source") = Pass
      /\ Check(now >= payload.iat - SkewSecs, "not_yet_valid") = Pass
      /\ Check(now <= payload.exp + SkewSecs, "expired") = Pass
      /\ Check(Contains(payload.prefix, source), "off_prefix") = Pass
  BY DEF ConnectionFault, ??
<1>2. now \in (payload.iat - SkewSecs)..(payload.exp + SkewSecs)
  <2>1. now >= payload.iat - SkewSecs
    BY <1>1 DEF Check, Pass
  <2>2. now <= payload.exp + SkewSecs
    BY <1>1 DEF Check, Pass
  <2>3. QED
    BY <2>1, <2>2, TokenAssumption
<1>3. source \in Block(payload.prefix)
  <2>1. Contains(payload.prefix, source)
    BY <1>1 DEF Check, Pass
  <2>2. payload.prefix.len \in 0..Width
    BY PrefixAssumption DEF IsAttestable
  <2>3. QED
    BY <2>1, <2>2, ContainsBlock
<1>4. ASSUME NEW range \in ineligible \union IneligibleSourceRanges
      PROVE  source \notin Block(range)
  <2>1. ~Contains(range, source)
    BY <1>1 DEF Check, Pass, IsEligibleSource
  <2>2. range \in Prefixes
    BY PrefixAssumption DEF IneligibleSourceRanges
  <2>3. range.len \in 0..Width
    BY <2>2 DEF Prefixes
  <2>4. QED
    BY <2>1, <2>3, ContainsBlock
<1>5. QED
  BY <1>2, <1>3, <1>4

\* The selector of a token with conforming headers is one label.
LEMMA SelectorConforms ==
  ASSUME NEW protected, NEW unprotected, HeaderFault(protected, unprotected) = Pass
  PROVE  Get(protected, LabelKid).v \in SelectorLabels
<1>1. Check(/\ Has(protected, LabelKid)
            /\ Get(protected, LabelKid).kind = "bytes"
            /\ Get(protected, LabelKid).v \in SelectorLabels, "bad_kid") = Pass
  BY DEF HeaderFault, ??
<1>2. QED
  BY <1>1 DEF Check, Pass

\* What check_headers establishes of the two buckets.
LEMMA HeadersConform ==
  ASSUME NEW protected, NEW unprotected, HeaderFault(protected, unprotected) = Pass
  PROVE  /\ \A label \in {LabelAlg, LabelContentType, LabelKid} : ~Has(unprotected, label)
         /\ Has(protected, LabelAlg) /\ Has(protected, LabelContentType)
         /\ Has(protected, LabelKid)
<1> DEFINE separate ==
             /\ ~Has(protected, LabelCrit) /\ ~Has(unprotected, LabelCrit)
             /\ \A label \in {LabelAlg, LabelContentType, LabelKid} : ~Has(unprotected, label)
             /\ \A i \in DOMAIN unprotected : \A j \in DOMAIN protected :
                  ~SameLabel(unprotected[i].key, protected[j].key)
             /\ Has(protected, LabelAlg)
             /\ IsInt(Get(protected, LabelAlg), AlgEdDSA)
                  \/ IsInt(Get(protected, LabelAlg), AlgEd25519)
<1>1. /\ Check(separate, "header_confusion") = Pass
      /\ Check(HasText(protected, LabelContentType, ContentType), "bad_content_type") = Pass
      /\ Check(/\ Has(protected, LabelKid)
               /\ Get(protected, LabelKid).kind = "bytes"
               /\ Get(protected, LabelKid).v \in SelectorLabels, "bad_kid") = Pass
  BY DEF HeaderFault, ??
<1>2. separate
  BY <1>1 DEF Check, Pass
<1>3. HasText(protected, LabelContentType, ContentType) /\ Has(protected, LabelKid)
  BY <1>1 DEF Check, Pass
<1>4. QED
  BY <1>2, <1>3 DEF HasText

\* A canonical prefix that contains an address has an address for its base.
LEMMA BaseIsAddress ==
  ASSUME NEW p, p.len \in 0..Width, IsCanonical(p), NEW a \in Block(p)
  PROVE  p.addr \in Ipv6Addr
<1>1. KeptBits(p.len) = 1..p.len
  BY KeptBitsExact
<1>2. /\ a \in Ipv6Addr /\ \A i \in 1..p.len : a[i] = p.addr[i]
  BY DEF Block
<1>3. \A i \in 1..Width : (IF i \in 1..p.len THEN p.addr[i] ELSE 0) \in {0, 1}
  BY <1>2 DEF Ipv6Addr
<1>4. p.addr = [i \in 1..Width |-> IF i \in 1..p.len THEN p.addr[i] ELSE 0]
  BY <1>1 DEF IsCanonical, Mask
<1>5. QED
  BY <1>3, <1>4 DEF Ipv6Addr

\* The entry that authorizes a claim encloses it.
LEMMA AuthorizingEntry ==
  ASSUME NEW policy, NEW p, Authorizes(policy, p), NEW a \in Block(p)
  PROVE  \E i \in DOMAIN policy.prefixes :
           LET entry == policy.prefixes[i]
           IN  entry.len <= p.len /\ p.addr \in Block(entry) /\ a \in Block(entry)
<1>1. PICK i \in DOMAIN policy.prefixes : Covers(policy.prefixes[i], p)
  BY DEF Authorizes
<1> DEFINE entry == policy.prefixes[i]
<1>2. /\ IsAttestable(entry) /\ IsAttestable(p)
      /\ p.len >= entry.len /\ Contains(entry, p.addr)
  BY <1>1 DEF Covers, Authorizes
<1>3. p.len \in 0..Width /\ entry.len \in 0..Width /\ IsCanonical(p)
  BY <1>2, PrefixAssumption DEF IsAttestable
<1>4. a \in Ipv6Addr /\ p.addr \in Ipv6Addr
  BY <1>3, BaseIsAddress DEF Block
<1>5. Contains(p, a)
  BY <1>3, <1>4, ContainsBlock
<1>6. Contains(entry, a)
  BY <1>2, <1>3, <1>5, ContainsTransitive
<1>7. p.addr \in Block(entry) /\ a \in Block(entry)
  BY <1>2, <1>3, <1>4, <1>6, ContainsBlock
<1>8. entry.len <= p.len
  BY <1>2, <1>3
<1>9. QED
  BY <1>7, <1>8
=============================================================================
