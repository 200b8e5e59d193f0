---------------------------- MODULE MCEvaluator ----------------------------
(***************************************************************************)
(* Corpora of tokens of MCCorpus beside policies for them.                 *)
(***************************************************************************)
EXTENDS Evaluator, MCCorpus

KeyOctet == 10

\* 0a in either case, of some length with spaces; 0b is no key, 00 too short.
MCKeyLines == {<<>>, <<"0", "a">>, <<SP, "0", "A", SP>>, <<"0", "b">>, <<"0", "0">>, <<"a">>, <<"0", "x">>, <<NotUtf8>>}
MCKeyOctets == [octets \in {<<10>>, <<11>>, <<0>>, <<>>} |->
                  [size  |-> IF octets \in {<<0>>, <<>>} THEN KeyLen - 1 ELSE KeyLen,
                   point |-> IF octets = <<10>> THEN KeyA ELSE NoPoint]]

MCDecode == [octets \in {<<>>, <<1>>, <<2>>, <<3>>, <<4>>, <<31>>} |->
               CASE octets = <<>>   -> Outer(Garbage)
                 [] octets = <<1>>  -> Corpus.valid
                 [] octets = <<2>>  -> Corpus.signed_by_b
                 [] octets = <<3>>  -> Corpus.unit_absent
                 [] octets = <<4>>  -> Corpus.from_zero
                 [] octets = <<31>> -> Corpus.kid_text]

MCTimeOf == [s \in {<<"1", "2">>, <<"1", "7">>} |-> IF s = <<"1", "2">> THEN 12 ELSE 17]

Texts == ("C::" :> Claimed.addr) @@ ("I::" :> Inside) @@ ("A::" :> Adjacent)

MCAddressOf == [s \in {<<t>> : t \in DOMAIN Texts} |-> Texts[s[1]]]
MCTextOf == [a \in {Texts[t] : t \in DOMAIN Texts} |-> <<CHOOSE t \in DOMAIN Texts : Texts[t] = a>>]

MCLowerOf  == [x \in Alphanumerics |-> x]
MCOctetsOf == [s \in {} |-> s]

MCPrintable == {"v", "SWORN1", "p", "u", "t", "y", "C::", "I::", "A::", ";", "=", ",", "/", SP} \union Digits

-----------------------------------------------------------------------------

Version == <<"v", "=", "SWORN1", ";">>
Entry(len) == <<"p", "=", "C::", "/", len>>

Policies == {
  <<>>,
  Version \o Entry("4") \o <<";", "u", "=", "5">>,
  Version \o Entry("4") \o <<";", "u", "=", "5", ";", "t", "=", "y">>,
  Version \o <<HTAB>> \o Entry("4") \o <<";", "u", "=", "5">>,
  Version \o <<SP>> \o Entry("4") \o <<";", "u", "=", "5">>,
  Version \o <<"t", HTAB, "p", "=", ";", "t", SP, "p", "=">>,
  Version \o <<"t", SP, "p", "=", ";", "t", SP, "p", "=">>,
  Version \o Entry("4") \o <<";", "u", "=", "5", ";", "t", SP, "=", "y", ";", "t", "=", "y">>,
  Version \o Entry("4") \o <<";", "u", "=", "5", ";", "t", SP, "=", "y">>,
  Version \o <<"p", "=", "C::", HTAB, "/", "4">>,
  Version \o <<"p", "=", "C::", SP, "/", "4">>,
  Version \o Entry("4") \o <<";", "t", "=", "y">>,
  Version \o Entry("4"),
  Version \o Entry("5") \o <<";", "u", "=", "5">>}

Line(token, source, time, policy) ==
  token \o <<HTAB>> \o token \o <<HTAB, source, HTAB>> \o time \o <<HTAB>> \o policy

\* A missing time is the time of a token from zero on.
MCCaseLines ==
  {Line(token, source, <<"1", "2">>, policy) :
     token \in {<<"0", "1">>, <<"0", "2">>, <<"0", "3">>, <<"1", "F">>},
     source \in {"I::", "A::"}, policy \in Policies}
  \union {Line(token, "I::", time, policy) :
     token \in {<<"0", "1">>, <<"0", "4">>}, time \in {<<"1", "7">>, <<>>}, policy \in Policies}
  \union {Line(<<"1">>, "I::", <<"1", "2">>, <<>>), Line(<<"0", "1">>, "x", <<"1", "2">>, <<>>),
          <<>>, <<HTAB>>, <<"0", "1">>, <<"0", "1", HTAB, "0", "1", HTAB, "I::">>, <<NotUtf8>>}
=============================================================================
