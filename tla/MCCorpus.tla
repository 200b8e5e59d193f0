------------------------------ MODULE MCCorpus ------------------------------
(***************************************************************************)
(* Tokens on eight-bit addresses.  The layout is the real one in small:    *)
(* the global half holds the two transition ranges and the attestable      *)
(* prefixes of 3 to 6 bits, the embedded-IPv4 ranges are in the other      *)
(* half.  The corpus has the faults of the repository's token vectors      *)
(* (tests/testdata/v1.json) and the boundaries next to them.               *)
(***************************************************************************)
EXTENDS Token, TLC

CONSTANTS KeyA, KeyB, WeakKey

Range8(bits, len) == [addr |-> bits, len |-> len]

MCGlobalUnicast  == Range8(<<1, 0, 0, 0, 0, 0, 0, 0>>, 1)
MCTeredo         == Range8(<<1, 0, 0, 0, 0, 0, 0, 0>>, 5)
MCSixToFour      == Range8(<<1, 0, 0, 1, 0, 0, 0, 0>>, 4)
MCEmbeddedRanges == {Range8(<<0, 0, 0, 0, 0, 0, 0, 0>>, 6), Range8(<<0, 1, 0, 0, 0, 0, 0, 0>>, 4)}

Claimed == Range8(<<1, 1, 0, 0, 0, 0, 0, 0>>, 4)

Inside    == <<1, 1, 0, 0, 0, 1, 0, 0>>
Neighbour == <<1, 1, 0, 0, 0, 1, 1, 1>>  \* the same observed unit
Sibling   == <<1, 1, 0, 0, 0, 0, 1, 1>>  \* the same unit asked for, another observed one
LastIn    == <<1, 1, 0, 0, 1, 0, 1, 1>>
Adjacent  == <<1, 1, 0, 1, 0, 0, 0, 0>>  \* just off the prefix
Translated == <<1, 1, 0, 0, 1, 1, 0, 1>>
Elsewhere  == <<1, 1, 1, 1, 0, 1, 0, 0>>  \* in the prefix of another claim

-----------------------------------------------------------------------------
(* Items *)

Int_(n)    == [kind |-> "int", v |-> n]
Text(s)    == [kind |-> "text", v |-> s]
Bytes(x)   == [kind |-> "bytes", v |-> x]
Bignum(n)  == [kind |-> "bignum", v |-> n]
Tagged(t, item) == [kind |-> "tag", tag |-> t, v |-> item]
Array(s)   == [kind |-> "array", v |-> s]
Map(s)     == [kind |-> "map", v |-> s]
Garbage    == [kind |-> "undecodable"]
Nothing    == [kind |-> "empty"]

At(key, val) == [key |-> key, val |-> val]
Wire(prefix, octets) == Bytes([octets |-> octets, addr |-> prefix.addr, len |-> prefix.len])

\* Entries of a well-formed payload; key k is at place k.
BasePayload == <<At(Int_(1), Text("ex.net")), At(Int_(2), Wire(Claimed, 17)),
                 At(Int_(3), Int_(5)), At(Int_(4), Int_(10)), At(Int_(5), Int_(14)),
                 At(Int_(6), Text("mta"))>>

\* Places 1, 2 and 3 of the protected header.
BaseProtected == <<At(Int_(1), Int_(-8)), At(Int_(3), Text("application/sworn-token+cbor")),
                   At(Int_(4), Bytes("s1"))>>

With(entries, k, val) == [entries EXCEPT ![k].val = val]
Without(entries, k) == SubSeq(entries, 1, k - 1) \o SubSeq(entries, k + 1, Len(entries))
Span(iat, exp) == With(With(BasePayload, 4, Int_(iat)), 5, Int_(exp))
Unit(n) == With(BasePayload, 3, Int_(n))
Prefix(bits, len) == With(BasePayload, 2, Wire(Range8(bits, len), 17))

Envelope(protected, unprotected, payload, signature) ==
  Array(<<Bytes(protected), unprotected, Bytes(payload), signature>>)

Signature(protected, payload, key) ==
  Bytes([key |-> key, over |-> <<protected, payload>>, strict |-> TRUE])

Signed(protected, unprotected, payload, key) ==
  [size |-> 200,
   item |-> Tagged(18, Envelope(Map(protected), Map(unprotected), payload,
                                Signature(Map(protected), payload, key)))]

Claim(entries)   == Signed(BaseProtected, <<>>, Map(entries), KeyA)
Header(entries)  == Signed(entries, <<>>, Map(BasePayload), KeyA)
Bare(entries)    == Signed(BaseProtected, entries, Map(BasePayload), KeyA)
Outer(item)      == [size |-> 200, item |-> item]

Valid == Claim(BasePayload)
ValidEnvelope == Valid.item.v

-----------------------------------------------------------------------------
(* The corpus *)

OtherBits == <<1, 1, 1, 1, 0, 0, 0, 0>>

Corpus == [
  valid            |-> Valid,
  mixed_case       |-> Signed(With(BaseProtected, 3, Bytes("S1")), <<>>,
                              Map(With(BasePayload, 1, Text("Ex.NET"))), KeyA),
  alg_ed25519      |-> Header(With(BaseProtected, 1, Int_(-19))),
  alg_bignum       |-> Header(With(BaseProtected, 1, Bignum(-8))),
  unit_absent      |-> Claim(Without(BasePayload, 3)),
  unit_coarse      |-> Claim(Unit(4)),
  esp_tenant       |-> Claim(With(Unit(4), 6, Text("esp-tenant"))),
  unknown_key      |-> Claim(BasePayload \o <<At(Int_(9), Tagged(0, Text("x")))>>),
  key_bignum       |-> Claim(<<At(Bignum(1), Text("ex.net"))>> \o Tail(BasePayload)),
  lifetime_exact   |-> Claim(Span(10, 16)),
  signed_by_b      |-> Signed(BaseProtected, <<>>, Map(BasePayload), KeyB),
  signed_weak      |-> Signed(BaseProtected, <<>>, Map(BasePayload), WeakKey),
  lax_signature    |-> Outer(Tagged(18, Envelope(Map(BaseProtected), Map(<<>>), Map(BasePayload),
                         Bytes([key |-> KeyA, over |-> <<Map(BaseProtected), Map(BasePayload)>>,
                                strict |-> FALSE])))),
  moved_signature  |-> Outer(Tagged(18, Envelope(Map(BaseProtected), Map(<<>>), Map(Unit(4)),
                         Signature(Map(BaseProtected), Map(BasePayload), KeyA)))),
  by_b             |-> Signed(BaseProtected, <<>>, Map(With(BasePayload, 1, Text("b.net"))), KeyB),
  \* the envelope
  garbage          |-> Outer(Garbage),
  untagged         |-> Outer(ValidEnvelope),
  tag_98           |-> Outer(Tagged(98, ValidEnvelope)),
  five_parts       |-> Outer(Tagged(18, Array(ValidEnvelope.v \o <<Map(<<>>)>>))),
  signature_text   |-> Outer(Tagged(18, Envelope(Map(BaseProtected), Map(<<>>), Map(BasePayload),
                                                 Text("sig")))),
  unprotected_int  |-> Outer(Tagged(18, Envelope(Map(BaseProtected), Int_(0), Map(BasePayload),
                                     Signature(Map(BaseProtected), Map(BasePayload), KeyA)))),
  payload_garbage  |-> Signed(BaseProtected, <<>>, Garbage, KeyA),
  at_size_cap      |-> [Valid EXCEPT !.size = MaxTokenLen],
  over_size_cap    |-> [Valid EXCEPT !.size = MaxTokenLen + 1],
  \* the headers
  no_headers       |-> Outer(Tagged(18, Envelope(Nothing, Map(<<>>), Map(BasePayload),
                                     Signature(Nothing, Map(BasePayload), KeyA)))),
  crit             |-> Header(BaseProtected \o <<At(Int_(2), Array(<<Int_(1)>>))>>),
  crit_bare        |-> Bare(<<At(Int_(2), Array(<<Int_(1)>>))>>),
  kid_bare_only    |-> Signed(Without(BaseProtected, 3), <<At(Int_(4), Bytes("s1"))>>,
                              Map(BasePayload), KeyA),
  kid_twice        |-> Header(BaseProtected \o <<At(Int_(4), Bytes("s2"))>>),
  shared_label     |-> Signed(BaseProtected \o <<At(Text("x"), Int_(1))>>, <<At(Text("x"), Int_(2))>>,
                              Map(BasePayload), KeyA),
  extra_bare       |-> Bare(<<At(Int_(7), Int_(1)), At(Text("x"), Int_(2))>>),
  alg_es256        |-> Header(With(BaseProtected, 1, Int_(-7))),
  no_alg           |-> Header(Without(BaseProtected, 1)),
  no_cty           |-> Header(Without(BaseProtected, 2)),
  wrong_cty        |-> Header(With(BaseProtected, 2, Text("text/plain"))),
  cty_as_int       |-> Header(With(BaseProtected, 2, Int_(60))),
  no_kid           |-> Header(Without(BaseProtected, 3)),
  empty_kid        |-> Header(With(BaseProtected, 3, Bytes(""))),
  kid_text         |-> Header(With(BaseProtected, 3, Text("s1"))),
  label_bytes      |-> Bare(<<At(Bytes("x"), Int_(2))>>),
  \* the payload
  payload_array    |-> Signed(BaseProtected, <<>>, Array(<<>>), KeyA),
  text_key         |-> Claim(BasePayload \o <<At(Text("x"), Int_(1))>>),
  second_prefix    |-> Claim(BasePayload \o <<At(Int_(2), Wire(Range8(OtherBits, 4), 17))>>),
  second_by_bignum |-> Claim(BasePayload \o <<At(Bignum(2), Wire(Range8(OtherBits, 4), 17))>>),
  unknown_twice    |-> Claim(BasePayload \o <<At(Int_(9), Int_(1)), At(Int_(9), Int_(2))>>),
  tagged_then_not  |-> Claim(<<At(Int_(1), Tagged(32, Text("ex.net")))>> \o BasePayload),
  operator_tagged  |-> Claim(With(BasePayload, 1, Tagged(32, Text("ex.net")))),
  operator_crlf    |-> Claim(With(BasePayload, 1, Text("ex.net<CRLF>QUIT"))),
  no_operator      |-> Claim(Without(BasePayload, 1)),
  no_role          |-> Claim(Without(BasePayload, 6)),
  unknown_role     |-> Claim(With(BasePayload, 6, Text("relay"))),
  prefix_short     |-> Claim(With(BasePayload, 2, Wire(Claimed, 16))),
  prefix_len_over  |-> Claim(Prefix(Claimed.addr, Width + 1)),
  prefix_host_bits |-> Claim(Prefix(Inside, 4)),
  prefix_too_wide  |-> Claim(Prefix(<<1, 1, 0, 0, 0, 0, 0, 0>>, 2)),
  prefix_too_long  |-> Claim(With(Prefix(Inside, 7), 3, Int_(7))),
  prefix_around    |-> Claim(Prefix(<<1, 0, 0, 0, 0, 0, 0, 0>>, 3)),
  prefix_6to4      |-> Claim(Prefix(<<1, 0, 0, 1, 0, 0, 0, 0>>, 4)),
  prefix_local     |-> Claim(Prefix(<<0, 0, 1, 0, 0, 0, 0, 0>>, 3)),
  prefix_other     |-> Claim(Prefix(OtherBits, 4)),
  unit_below       |-> Claim(Unit(3)),
  unit_over        |-> Claim(Unit(7)),
  unit_wraps       |-> Claim(Unit(256 + 5)),
  unit_bignum      |-> Claim(With(BasePayload, 3, Bignum(5))),
  unit_negative    |-> Claim(Unit(-5)),
  esp_unit         |-> Claim(With(BasePayload, 6, Text("esp-tenant"))),
  iat_bignum       |-> Claim(With(BasePayload, 4, Bignum(10))),
  iat_over_u64     |-> Claim(With(BasePayload, 4, Bignum(U64Max + 11))),
  exp_at_iat       |-> Claim(Span(10, 10)),
  exp_before_iat   |-> Claim(Span(14, 10)),
  lifetime_over    |-> Claim(Span(10, 17)),
  iat_beyond_i64   |-> Claim(Span(U64Max - 3, U64Max)),
  straddles_i64    |-> Claim(Span(511, 514)),
  from_zero        |-> Claim(Span(0, 4))]

MCLowercase  == [n \in {"ex.net", "Ex.NET", "b.net", "s1", "S1"} |->
                   CASE n = "Ex.NET" -> "ex.net" [] n = "S1" -> "s1" [] OTHER -> n]

WeakKeys == {WeakKey}
=============================================================================
