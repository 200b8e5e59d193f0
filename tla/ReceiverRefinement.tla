------------------------- MODULE ReceiverRefinement -------------------------
(***************************************************************************)
(* The staged flow implements Verdict.  Two history variables record what  *)
(* the flow forgets: every zone that was published, and the one in force   *)
(* when a call was made.                                                   *)
(***************************************************************************)
EXTENDS Receiver

VARIABLES
  zones,  \* the records in force, after every republication
  since   \* by connection, the number of the zone at its parse

hvars == <<vars, zones, since>>

Zones == [policies : [PolicyNames -> PolicyAnswers], keys : [KeyNames -> KeyAnswers]]

Zone == [policies |-> policies, keys |-> keys]

HInit ==
  /\ Init
  /\ zones = <<Zone>>
  /\ since = [c \in Conns |-> 1]

HNext ==
  \/ /\ \E c \in Conns : \E token \in Tokens, source \in Sources :
          Parse(c, token, source) /\ since' = [since EXCEPT ![c] = Len(zones)]
     /\ UNCHANGED zones
  \/ /\ \E c \in Conns : Step(c)
     /\ UNCHANGED <<zones, since>>
  \/ /\ \/ \E name \in PolicyNames, answer \in PolicyAnswers : PublishPolicy(name, answer)
        \/ \E name \in KeyNames, answer \in KeyAnswers : PublishKey(name, answer)
     /\ zones' = Append(zones, Zone')
     /\ UNCHANGED since
  \/ Tick /\ UNCHANGED <<zones, since>>

HSpec == HInit /\ [][HNext]_hvars

-----------------------------------------------------------------------------
(* The decision, with the stages forgotten. *)

LocalFaultOf(this) ==
  ParseFault(Decode[this.token], this.source, this.at, Ineligible)

Proceeds(this) == LocalFaultOf(this) = Pass

Refusal(this) == Failed(AuthResult(LocalFaultOf(this)), LocalFaultOf(this))

\* What is reported on a token that proceeds, given both answers.
Decision(token, policy, key) ==
  LET accepted == Authorized(token, policy)
      fault == Check(policy # Unusable, "policy_record")
               ?? AuthorizeFault(token, policy)
               ?? Check(key \notin {Unusable, UnknownAlgorithm}, "key_record")
               ?? SignatureFault(token, key)
  IN  IF fault = Pass
        THEN [result |-> OutcomeResult(accepted), reason |-> Pass, verified |-> Verified(accepted)]
      ELSE IF fault = "key_record" /\ key = UnknownAlgorithm
        THEN Failed("none", fault)
        ELSE Failed(AuthResult(fault), fault)

\* The policy is read from one zone, the key from another.
Report(this, first, second) ==
  LET token    == Unverified(Decode[this.token], this.source)
      operator == token.payload.operator
  IN  Decision(token, first.policies[[operator |-> operator]],
               second.keys[[selector |-> token.selector, operator |-> operator]])

Status(s) == IF s = "idle" THEN "new" ELSE IF s = "done" THEN "answered" ELSE "pending"

V == INSTANCE Verdict WITH
       Times <- StartTimes, Zones <- Zones, Proceeds <- Proceeds, Refusal <- Refusal,
       Report <- Report, status <- [c \in Conns |-> Status(stage[c])], verdict <- outcome

\* However the operators republish between the stages of a flow and whatever the
\* other connections do, each verdict is that of one decision: on the call, a
\* policy and a key that this operator had in force at some moment of the flow,
\* the policy no later than the key.  A token refused by parse is refused
\* whatever is published.
ImplementsVerdict == V!Spec

=============================================================================
