----------------------------- MODULE MCReceiver -----------------------------
(***************************************************************************)
(* Instances of the staged flow on the tokens of MCCorpus.                 *)
(***************************************************************************)
EXTENDS ReceiverProperties, MCCorpus

CONSTANTS Rua, OtherRua

\* The receiver's translation prefix, inside the attested one.
MCIneligible == {Range8(<<1, 1, 0, 0, 1, 1, 0, 0>>, 6)}

AllSources == {Inside, Neighbour, Sibling, LastIn, Adjacent, Translated, Elsewhere,
               <<1, 0, 0, 0, 0, 1, 0, 0>>, <<1, 0, 0, 1, 0, 1, 0, 0>>,
               <<0, 0, 0, 0, 0, 0, 0, 1>>, <<0, 0, 1, 0, 0, 0, 0, 0>>}
InSources == {Inside, Neighbour, Sibling}
OneSource == {Inside}

ConnsSymmetry == Permutations(Conns)

AllTokens == DOMAIN Corpus

\* Some that reach the records, some that do not.
RecordTokens == {"valid", "mixed_case", "unit_absent", "unit_coarse", "signed_by_b", "signed_weak",
                 "lax_signature", "moved_signature", "prefix_other", "unit_over"}

RefinementTokens == {"valid", "signed_by_b"}
RaceTokens   == {"valid", "signed_by_b", "by_b"}
WindowTokens == {"valid", "unit_coarse"}

-----------------------------------------------------------------------------
(* Names and records *)

OneOperator  == {"ex.net", "Ex.NET"}
TwoOperators == {"ex.net", "b.net"}
OneSelector  == {"s1", "S1"}
Record(prefixes, unit, testing) ==
  [prefixes |-> prefixes, unit |-> unit, testing |-> testing, rua |-> Rua]

Exact     == Record(<<Claimed>>, 5, FALSE)
Broader   == Record(<<Range8(OtherBits, 4), Range8(<<1, 1, 0, 0, 0, 0, 0, 0>>, 3)>>, 5, FALSE)
Narrower  == Record(<<Range8(<<1, 1, 0, 0, 0, 0, 0, 0>>, 5)>>, 5, FALSE)
Coarser   == Record(<<Claimed>>, 4, FALSE)
Default   == Record(<<Claimed>>, DefaultUnit, FALSE)
Observing == [Record(<<Claimed>>, 5, TRUE) EXCEPT !.rua = OtherRua]
Bare_     == Record(<<>>, DefaultUnit, FALSE)

OnePolicy   == {Exact}
AllPolicies == {Exact, Broader, Narrower, Coarser, Default, Observing, Bare_, Unusable}
RacePolicies == {Exact, Observing, Unusable}
RefinementPolicies == {Exact, Unusable}
UnitPolicies == {Exact, Coarser}

OneKey   == {KeyA}
AllKeys  == {KeyA, KeyB, WeakKey, UnknownAlgorithm, Unusable}
RaceKeys == {KeyA, KeyB, UnknownAlgorithm}
RefinementKeys == {KeyA, UnknownAlgorithm, Unusable}

\* Around the windows of the corpus; 511 is the last second of an i64.
InputTimes == {0, 4, 7, 8, 12, 16, 17, 18, 19, 508, 509, 511}

-----------------------------------------------------------------------------
(* Single calls; records and clock stand still.  Every source is tried in   *)
(* the window, one of each kind (inside, off the prefix, translated) at     *)
(* every time and, with the tokens that reach them, on all records.         *)

SoundRecords ==
  /\ \A name \in PolicyNames : policies[name] = Exact
  /\ \A name \in KeyNames : keys[name] = KeyA

CallsInit == Init /\ (now = 12 \/ SoundRecords)

CallTokens  == IF SoundRecords THEN Tokens ELSE RecordTokens
CallSources == IF SoundRecords /\ now = 12 THEN Sources ELSE {Inside, Adjacent, Translated}

CallsNext ==
  \/ \E c \in Conns : \E token \in CallTokens, source \in CallSources : Parse(c, token, source)
  \/ \E c \in Conns : Step(c)

CallsSpec == CallsInit /\ [][CallsNext]_vars /\ Fairness
=============================================================================
