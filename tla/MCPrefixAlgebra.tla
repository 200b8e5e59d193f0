--------------------------- MODULE MCPrefixAlgebra ---------------------------
(***************************************************************************)
(* PrefixAlgebra on five-bit addresses, laid out like the real space: the  *)
(* global half, two transition ranges inside it of the shortest attestable *)
(* length, and embedded-IPv4 ranges outside it.                            *)
(***************************************************************************)
EXTENDS PrefixAlgebra

Range5(bits, len) == [addr |-> bits, len |-> len]

MCGlobalUnicast  == Range5(<<1, 0, 0, 0, 0>>, 1)
MCTeredo         == Range5(<<1, 0, 0, 0, 0>>, 3)
MCSixToFour      == Range5(<<1, 1, 1, 0, 0>>, 3)
MCEmbeddedRanges == {Range5(<<0, 0, 0, 0, 0>>, 4), Range5(<<0, 1, 0, 0, 1>>, 5)}
=============================================================================
