---------------------------- MODULE MCRecordEdits ----------------------------
(***************************************************************************)
(* Records of an operator on five-bit addresses, with at most two prefixes *)
(* to a policy.                                                            *)
(***************************************************************************)
EXTENDS RecordEdits

CONSTANTS KeyA

Range5(bits, len) == [addr |-> bits, len |-> len]

MCGlobalUnicast  == Range5(<<1, 0, 0, 0, 0>>, 1)
MCTeredo         == Range5(<<1, 0, 0, 0, 0>>, 3)
MCSixToFour      == Range5(<<1, 1, 1, 0, 0>>, 3)
MCEmbeddedRanges == {Range5(<<0, 0, 0, 0, 0>>, 4), Range5(<<0, 1, 0, 0, 1>>, 5)}

\* A::/2 is too short, A::/3 and A::/4 are attestable, T:: is Teredo.
A_ == <<1, 0, 1, 0, 0>>
MCAddressOf == [s \in {<<"A::">>, <<"T::">>} |-> IF s = <<"A::">> THEN A_ ELSE <<1, 0, 0, 0, 0>>]
MCTextOf    == [a \in {A_} |-> <<"A::">>]

MCLowerOf  == [x \in Alphanumerics |-> x]
MCOctetsOf == [s \in {<<"K">>, <<"W", "=">>, <<"S">>} |->
                 CASE s = <<"K">>      -> [size |-> KeyLen, point |-> KeyA]
                   [] s = <<"W", "=">> -> [size |-> KeyLen, point |-> NoPoint]
                   [] s = <<"S">>      -> [size |-> KeyLen - 1, point |-> NoPoint]]

MCPrintable == {";", "=", SP, ",", ":", "/", "@", ".", "-", "+", "v", "SWORN1", "k", "pk", "p", "u",
                "t", "y", "z", "rua", "mailto:", "a", "b", "ed25519", "fn-dsa", "K", "W", "S",
                "A::", "T::", "x"} \union Digits

Version == <<"v", "=", "SWORN1">>

PolicyTexts == {
  Version \o <<";", "p", "=", "A::", "/", "3", ",", "A::", "/", "4", ",", ";", "u", "=", "4">>,
  Version \o <<";", "t", "=", "y", ";", "p", "=", "A::", "/", "4", ",">>,
  Version \o <<";", "p", "=", "A::", "/", "3", ",", "A::", "/", "3", ";", "u", "=", "3", ";", "t", "=", "z">>,
  Version \o <<";", "p", "=", "A::", "/", "3", ",", "T::", "/", "4">>,
  Version \o <<";", "u", "=", "0">>,
  Version \o <<SP, ";", "rua", "=", "mailto:", "a", "@", "b">>,
  <<"p", "=", "A::", "/", "3", ";", "v", "=", "SWORN1">>}

KeyTexts == {
  Version \o <<";", "k", "=", "ed25519", ";", "pk", "=", "K">>,
  Version \o <<";", "k", "=", "ed25519", ";", "pk", "=", "W", "=">>,
  Version \o <<";", "k", "=", "ed25519", ";", "pk", "=", "S">>,
  Version \o <<";", "k", "=", "fn-dsa", ";", "pk", "=", "z">>,
  Version \o <<";", "k", "=", "fn-dsa">>,
  Version \o <<";", "pk", "=", "K">>}

MCBaseTexts == PolicyTexts \union KeyTexts

MCPieces == {<<SP>>, <<HTAB>>, <<";">>, <<",">>, <<"\n">>, <<",", "A::", "/", "4">>, <<",", "x">>,
             <<":", "z">>, <<":">>, <<";", "x", "=", "y">>, <<"=">>, <<".", "b">>}
=============================================================================
