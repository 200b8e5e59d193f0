------------------------------- MODULE Names -------------------------------
(***************************************************************************)
(* The names a token brings into a query: the operator domain              *)
(* (is_operator_domain of src/payload.rs), the selector (selector_from_kid *)
(* of src/token.rs), and the names of the two records.  A lexeme of a name *)
(* is one octet, except that a label with an underscore may be one lexeme. *)
(***************************************************************************)
EXTENDS Lexemes

CONSTANTS
  Alphanumerics,  \* ASCII letters and digits
  LowerOf,        \* to_ascii_lowercase of each of them
  MaxLabelLen,    \* 63
  MaxDomainLen    \* 253

LdhOctets == Alphanumerics \union {"-"}

\* Mutation of IsOperatorDomain: a label may end with a hyphen.
IsOperatorDomainHyphenEnd(s) ==
  /\ Len(s) \in 1..MaxDomainLen
  /\ \A label \in LexemesOf(Split(s, ".")) :
       /\ Len(label) \in 1..MaxLabelLen
       /\ label[1] # "-"
       /\ LexemesOf(label) \subseteq LdhOctets

IsOperatorDomain(s) ==
  /\ Len(s) \in 1..MaxDomainLen
  /\ \A label \in LexemesOf(Split(s, ".")) :
       /\ Len(label) \in 1..MaxLabelLen
       /\ label[1] # "-" /\ label[Len(label)] # "-"
       /\ LexemesOf(label) \subseteq LdhOctets

\* Mutation of IsSelector: underscores pass, as in other TXT schemes.
IsSelectorUnderscored(kid) ==
  /\ Len(kid) \in 1..MaxLabelLen
  /\ kid[1] # "-" /\ kid[Len(kid)] # "-"
  /\ LexemesOf(kid) \subseteq LdhOctets \union {"_prefixes", "_sworn"}

\* selector_from_kid gives a selector, which is then Lowered.
IsSelector(kid) ==
  /\ Len(kid) \in 1..MaxLabelLen
  /\ kid[1] # "-" /\ kid[Len(kid)] # "-"
  /\ LexemesOf(kid) \subseteq LdhOctets

Lowered(name) ==
  [i \in DOMAIN name |-> IF name[i] \in Alphanumerics THEN LowerOf[name[i]] ELSE name[i]]

PolicyQuery(operator) == <<"_prefixes", ".", "_sworn", ".">> \o operator
KeyQuery(selector, operator) == selector \o <<".", "_sworn", ".">> \o operator

ASSUME NameAssumption ==
  /\ MaxLabelLen \in Nat /\ MaxDomainLen \in Nat /\ MaxLabelLen <= MaxDomainLen
  /\ {".", "-", "_prefixes", "_sworn"} \intersect Alphanumerics = {}
  /\ LowerOf \in [Alphanumerics -> Alphanumerics]
=============================================================================
