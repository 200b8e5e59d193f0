---------------------------- MODULE PrefixWriting ----------------------------
(***************************************************************************)
(* Prefixes on their way through a zone file: shown by one program, or     *)
(* typed octet by octet, and read by the crate.                            *)
(***************************************************************************)
EXTENDS PrefixText

CONSTANTS
  TypedLexemes,  \* what may be typed
  MaxTyped,      \* how much of it (bound of the model)
  NotShown

VARIABLES
  written,  \* the text
  shown     \* the prefix that was displayed as this text

writingVars == <<written, shown>>

WritingInit == written = <<>> /\ shown = NotShown

Type ==
  /\ shown = NotShown /\ Len(written) < MaxTyped
  /\ \E x \in TypedLexemes : written' = Append(written, x)
  /\ UNCHANGED shown

Show ==
  /\ written = <<>>
  /\ \E addr \in DOMAIN TextOf, len \in 0..Width :
       /\ shown' = [addr |-> addr, len |-> len]
       /\ written' = Display(shown')

WritingNext == Type \/ Show

WritingSpec == WritingInit /\ [][WritingNext]_writingVars

-----------------------------------------------------------------------------

\* A text that is read has one spelling: a number is accepted only as Display
\* writes it, without sign, leading zero or wrap at 256, which other parsers of
\* the same record refuse or read as another number.  (The address has the many
\* spellings of RFC 4291.)
OneSpelling ==
  IsPrefixText(written) =>
    LET prefix == PrefixFrom(written)
    IN  /\ prefix \in Prefixes
        /\ written = Before(written, "/") \o <<"/">> \o DecimalText(prefix.len)

\* What Display shows, from_str reads as the same prefix, at every length.
ShownIsRead ==
  shown # NotShown => IsPrefixText(written) /\ PrefixFrom(written) = shown
=============================================================================
