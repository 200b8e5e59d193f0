--------------------------- MODULE MCPrefixWriting ---------------------------
(***************************************************************************)
(* Addresses of 128 bits, lengths and numbers of the real size.  Of the    *)
(* addresses only their texts matter here: two, one with two spellings.    *)
(***************************************************************************)
EXTENDS PrefixWriting

Starting(bits) == [i \in 1..Width |-> IF i <= Len(bits) THEN bits[i] ELSE 0]

Zero      == Starting(<<>>)                 \* ::
DocPrefix == Starting(<<0, 0, 1>>)          \* 2000::

MCGlobalUnicast  == [addr |-> DocPrefix, len |-> 3]
MCTeredo         == [addr |-> [DocPrefix EXCEPT ![16] = 1], len |-> 32]
MCSixToFour      == [addr |-> [DocPrefix EXCEPT ![15] = 1], len |-> 16]
MCEmbeddedRanges == {[addr |-> Zero, len |-> 96]}

MCAddressOf == [s \in {<<"::">>, <<"0", "::">>, <<"2000::">>} |->
                  IF s = <<"2000::">> THEN DocPrefix ELSE Zero]
MCTextOf    == [a \in {Zero, DocPrefix} |-> IF a = Zero THEN <<"::">> ELSE <<"2000::">>]
=============================================================================
