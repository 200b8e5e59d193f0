----------------------------- MODULE MCTagLoop -----------------------------
(***************************************************************************)
(* All short texts over the octets parse_tags tells apart, alone and after *)
(* each of a few beginnings that reach the later stages of the loop.       *)
(***************************************************************************)
EXTENDS TagLoop

CONSTANT MaxLen  \* of the free part of a text

LF == "\n"
MCPrintable == {";", "=", SP, "v", "SWORN1", "x"}

Beginnings == {
  <<>>,
  <<"v", "=", "SWORN1">>,
  <<HTAB, ";", SP, "v", SP, "=", "SWORN1", ";">>,
  <<"v", "=", "SWORN1", ";", "x", "=", ";">>,
  <<"x", "=", ";", "v", "=", "SWORN1", ";">>}

FreeParts == UNION {[1..n -> MCPrintable \union {HTAB, LF}] : n \in 0..MaxLen}

MCTexts == {beginning \o part : beginning \in Beginnings, part \in FreeParts}
=============================================================================
