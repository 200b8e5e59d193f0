----------------------------- MODULE QueryNames -----------------------------
(***************************************************************************)
(* The names a verifier asks for, when the client is free to choose the    *)
(* octets of the kid and of the operator claim.                            *)
(***************************************************************************)
EXTENDS Names

CONSTANTS
  Octets,        \* what a kid and a claim are made of
  MaxKidTyped,   \* how long they get (bounds of the model)
  MaxClaimTyped

VARIABLES
  kid,   \* the kid of a token
  claim  \* its operator claim

namesVars == <<kid, claim>>

NamesInit == kid = <<>> /\ claim = <<>>

ExtendKid ==
  /\ Len(kid) < MaxKidTyped
  /\ \E x \in Octets : kid' = Append(kid, x)
  /\ UNCHANGED claim

ExtendClaim ==
  /\ Len(claim) < MaxClaimTyped
  /\ \E x \in Octets : claim' = Append(claim, x)
  /\ UNCHANGED kid

NamesNext == ExtendKid \/ ExtendClaim

NamesSpec == NamesInit /\ [][NamesNext]_namesVars

ASSUME TypedAssumption == MaxKidTyped \in Nat /\ MaxClaimTyped \in Nat

TextsUpTo(n) == UNION {[1..m -> Octets] : m \in 0..n}

\* The names other tokens lead to.
Operators == {Lowered(s) : s \in {t \in TextsUpTo(MaxClaimTyped) : IsOperatorDomain(t)}}
Selectors == {Lowered(s) : s \in {t \in TextsUpTo(MaxKidTyped) : IsSelector(t)}}

-----------------------------------------------------------------------------

\* No token can make its key lookup land on another record: two tokens ask for
\* one name only when they agree on selector and operator, letter case aside,
\* and a key is never looked up where an operator publishes its policy, however
\* the client divides the octets between the kid and the claim.
NamesAreUnambiguous ==
  IsSelector(kid) /\ IsOperatorDomain(claim) =>
    LET asked == KeyQuery(Lowered(kid), Lowered(claim))
    IN  \A operator \in Operators :
          /\ asked # PolicyQuery(operator)
          /\ \A selector \in Selectors :
               asked = KeyQuery(selector, operator) =>
                 selector = Lowered(kid) /\ operator = Lowered(claim)

\* The rule for labels is written twice, over octets for the kid and over a str
\* for the domain, and has to stay the same: selectors are the operator domains of
\* one label, and what a dot joins is a domain exactly when both sides are, so a
\* key name never holds a label that only one of the two rules lets through.
LabelRulesAgree ==
  /\ IsSelector(kid) <=> IsOperatorDomain(kid) /\ "." \notin LexemesOf(kid)
  /\ IsOperatorDomain(kid \o <<".">> \o claim) <=>
       /\ IsOperatorDomain(kid) /\ IsOperatorDomain(claim)
       /\ Len(kid) + 1 + Len(claim) <= MaxDomainLen
=============================================================================
