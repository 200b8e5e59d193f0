---------------------- MODULE ReceiverRefinementProofs ----------------------
(***************************************************************************)
(* The staged flow implements Verdict, for any number of connections,      *)
(* tokens and republications.  What ReceiverProofs does not know is where  *)
(* an answer came from: HInv adds that each was in force in some zone      *)
(* since the call, the policy in one no later than the key.                *)
(***************************************************************************)
EXTENDS ReceiverProofs, ReceiverRefinement

ReadFrom(c) ==
  \E i \in since[c]..Len(zones) : \E j \in i..Len(zones) :
    /\ Asked(c) => zones[i].policies[answers[c][1].name] = Policy(c)
    /\ AskedForKey(c) => zones[j].keys[answers[c][2].name] = Key(c)

HInv ==
  /\ zones \in Seq(Zones) /\ Len(zones) \in Nat \ {0}
  /\ zones[Len(zones)] = Zone
  /\ since \in [Conns -> Nat \ {0}]
  /\ \A c \in Conns : ReadFrom(c)

-----------------------------------------------------------------------------
(* The decision *)

\* An authorization fails for one of two reasons, a signature for one.
LEMMA DecisionReasons ==
  ASSUME NEW token, NEW policy, NEW key
  PROVE  /\ AuthorizeFault(token, policy) \in
              {Pass, "unauthorized_prefix", "policy_unit_mismatch"}
         /\ SignatureFault(token, key) \in {Pass, "bad_signature"}
BY DEF AuthorizeFault, SignatureFault, Check, ??, Pass

\* The first answer that does not do decides; with none, the token is accepted.
LEMMA DecisionCases ==
  ASSUME NEW token, NEW policy, NEW key
  PROVE  LET authorizing == AuthorizeFault(token, policy)
             signing     == SignatureFault(token, key)
             decision    == Decision(token, policy, key)
         IN  /\ policy = Unusable => decision = Failed("permerror", "policy_record")
             /\ policy # Unusable /\ authorizing # Pass =>
                  decision = Failed(AuthResult(authorizing), authorizing)
             /\ policy # Unusable /\ authorizing = Pass =>
                  /\ key = Unusable => decision = Failed("permerror", "key_record")
                  /\ key = UnknownAlgorithm => decision = Failed("none", "key_record")
                  /\ key \notin {Unusable, UnknownAlgorithm} =>
                       /\ signing # Pass => decision = Failed(AuthResult(signing), signing)
                       /\ signing = Pass =>
                            decision = [result   |-> OutcomeResult(Authorized(token, policy)),
                                        reason   |-> Pass,
                                        verified |-> Verified(Authorized(token, policy))]
BY DecisionReasons, AnswersAssumption DEF Decision, Check, ??, Pass, AuthResult

Reported(c) ==
  \E i \in since[c]..Len(zones) : \E j \in i..Len(zones) :
    outcome[c] = Report(call[c], zones[i], zones[j])

EndsReported == \A c \in Conns : ReadFrom(c) /\ Ended(c) /\ Asked(c) => Reported(c)

\* A flow that ended after a lookup reports the decision on two zones.
LEMMA EndedReports == EndsReported
<1> SUFFICES ASSUME NEW c \in Conns, ReadFrom(c), Ended(c), Asked(c)
             PROVE  \E i \in since[c]..Len(zones) : \E j \in i..Len(zones) :
                      outcome[c] = Report(call[c], zones[i], zones[j])
  BY DEF EndsReported, Reported
<1>0. PICK i \in since[c]..Len(zones) : \E j \in i..Len(zones) :
        /\ zones[i].policies[answers[c][1].name] = Policy(c)
        /\ AskedForKey(c) => zones[j].keys[answers[c][2].name] = Key(c)
  BY DEF ReadFrom
<1>1. PICK j \in i..Len(zones) :
        /\ zones[i].policies[answers[c][1].name] = Policy(c)
        /\ AskedForKey(c) => zones[j].keys[answers[c][2].name] = Key(c)
  BY <1>0
<1> DEFINE key == zones[j].keys[[selector |-> Pending(c).selector,
                                  operator |-> Pending(c).payload.operator]]
<1>2. PolicyRead(c) => zones[i].policies[[operator |-> Pending(c).payload.operator]] = Policy(c)
  BY <1>1 DEF PolicyRead, PolicyQuery
<1>3. KeyRead(c) =>
        /\ zones[i].policies[[operator |-> Pending(c).payload.operator]] = Policy(c)
        /\ key = Key(c)
  BY <1>1 DEF KeyRead, PolicyQuery, KeyQuery, AskedForKey
<1>4. Report(call[c], zones[i], zones[j]) =
        Decision(Pending(c), zones[i].policies[[operator |-> Pending(c).payload.operator]], key)
  BY DEF Report, Pending, Presented
<1>5. \/ PolicyRead(c) /\ Policy(c) = Unusable /\ outcome[c] = Failed("permerror", "policy_record")
      \/ PolicyRead(c) /\ Policy(c) # Unusable /\ Reports(c, AuthorizeFault(Pending(c), Policy(c)))
      \/ KeyRead(c) /\ Key(c) = Unusable /\ outcome[c] = Failed("permerror", "key_record")
      \/ KeyRead(c) /\ Key(c) = UnknownAlgorithm /\ outcome[c] = Failed("none", "key_record")
      \/ /\ KeyRead(c) /\ Key(c) \notin {Unusable, UnknownAlgorithm}
         /\ Reports(c, SignatureFault(Pending(c), Key(c)))
      \/ /\ KeyRead(c) /\ Key(c) \notin {Unusable, UnknownAlgorithm}
         /\ SignatureFault(Pending(c), Key(c)) = Pass
         /\ outcome[c] = [result |-> OutcomeResult(Authorized(Pending(c), Policy(c))), reason |-> Pass,
                          verified |-> Verified(Authorized(Pending(c), Policy(c)))]
  BY DEF Ended, Asked
<1>6. KeyRead(c) => Policy(c) # Unusable /\ AuthorizeFault(Pending(c), Policy(c)) = Pass
  BY DEF KeyRead, IsAuthorized
<1>7. CASE PolicyRead(c)
  <2>1. outcome[c] = Report(call[c], zones[i], zones[j])
    BY <1>2, <1>4, <1>5, <1>7, DecisionCases DEF Reports, PolicyRead, KeyRead
  <2>2. QED
    BY <2>1
<1>8. CASE KeyRead(c)
  <2>1. outcome[c] = Decision(Pending(c), Policy(c), Key(c))
    BY <1>5, <1>6, <1>8, DecisionCases DEF Reports, PolicyRead, KeyRead
  <2>2. QED
    BY <1>3, <1>4, <1>8, <2>1
<1>9. QED
  BY <1>5, <1>7, <1>8

\* The same of the state after a step.
LEMMA EndedReportsNext == EndsReported'
BY EndedReports, PTL

-----------------------------------------------------------------------------
(* Where the answers came from *)

\* A connection none of whose answers change keeps the zones they came from,
\* whatever is published after them.
LEMMA ReadFromFrame ==
  ASSUME HInv, NEW c \in Conns, answers'[c] = answers[c], since'[c] = since[c],
         \/ zones' = zones
         \/ zones' = Append(zones, Zone') /\ Zone' \in Zones
  PROVE  ReadFrom(c)'
<1>0. PICK i \in since[c]..Len(zones) : \E j \in i..Len(zones) :
        /\ Asked(c) => zones[i].policies[answers[c][1].name] = Policy(c)
        /\ AskedForKey(c) => zones[j].keys[answers[c][2].name] = Key(c)
  BY DEF HInv, ReadFrom
<1>1. PICK j \in i..Len(zones) :
        /\ Asked(c) => zones[i].policies[answers[c][1].name] = Policy(c)
        /\ AskedForKey(c) => zones[j].keys[answers[c][2].name] = Key(c)
  BY <1>0
<1>2. since[c] \in Nat /\ Len(zones) \in Nat
  BY DEF HInv
<1>3. /\ i \in since'[c]..Len(zones') /\ j \in i..Len(zones')
      /\ zones'[i] = zones[i] /\ zones'[j] = zones[j]
  <2>1. CASE zones' = zones
    BY <1>2, <2>1
  <2>2. CASE zones' = Append(zones, Zone') /\ Zone' \in Zones
    <3>1. zones \in Seq(Zones)
      BY DEF HInv
    <3>2. Len(zones') = Len(zones) + 1 /\ \A k \in 1..Len(zones) : zones'[k] = zones[k]
      BY <2>2, <3>1, AppendProperties
    <3>3. i \in 1..Len(zones) /\ j \in 1..Len(zones)
      BY <1>2 DEF HInv
    <3>4. QED
      BY <1>2, <3>2, <3>3
  <2>3. QED
    BY <2>1, <2>2
<1>4. /\ Asked(c)' = Asked(c) /\ AskedForKey(c)' = AskedForKey(c)
      /\ Policy(c)' = Policy(c) /\ Key(c)' = Key(c)
  BY DEF Asked, AskedForKey, Policy, Key
<1>5. QED
  BY <1>1, <1>3, <1>4 DEF ReadFrom

\* Before the first call only the initial zone is known, and nothing was asked.
LEMMA HInitInvariant == HInit => HInv
<1> SUFFICES ASSUME HInit PROVE HInv
  OBVIOUS
<1>1. Zone \in Zones
  BY DEF HInit, Init, Zone, Zones
<1>2. zones \in Seq(Zones) /\ Len(zones) = 1 /\ zones[1] = Zone
  BY <1>1 DEF HInit
<1>3. ASSUME NEW c \in Conns
      PROVE  ReadFrom(c)
  <2>1. since[c] = 1 /\ ~Asked(c) /\ ~AskedForKey(c)
    BY DEF HInit, Init, Asked, AskedForKey
  <2>2. QED
    BY <1>2, <2>1 DEF ReadFrom
<1>4. QED
  BY <1>2, <1>3 DEF HInv, HInit

\* A call of parse starts at the zone in force.
LEMMA ParseReads ==
  ASSUME IInv, HInv, NEW c \in Conns, NEW token \in Tokens, NEW source \in Sources,
         Parse(c, token, source), since' = [since EXCEPT ![c] = Len(zones)],
         zones' = zones
  PROVE  \A d \in Conns : ReadFrom(d)'
<1>1. answers' = answers /\ answers[c] = <<>>
  BY DEF Parse, IInv, FlowInv
<1>2. ReadFrom(c)'
  <2>1. since'[c] = Len(zones) /\ Len(zones) \in Nat
    BY DEF HInv
  <2>2. ~Asked(c)' /\ ~AskedForKey(c)'
    BY <1>1 DEF Asked, AskedForKey
  <2>3. QED
    BY <2>1, <2>2 DEF ReadFrom
<1>3. ASSUME NEW d \in Conns, d # c
      PROVE  ReadFrom(d)'
  <2>1. since'[d] = since[d] /\ answers'[d] = answers[d]
    BY <1>1, <1>3 DEF HInv
  <2>2. QED
    BY <2>1, ReadFromFrame
<1>4. QED
  BY <1>2, <1>3

\* A step of one connection: what is left to show is where its answers are from.
LEMMA ReadsOfOne ==
  ASSUME IInv, HInv, NEW c \in Conns, NEW a, answers' = [answers EXCEPT ![c] = a],
         UNCHANGED <<zones, since>>, ReadFrom(c)'
  PROVE  \A d \in Conns : ReadFrom(d)'
<1>1. ASSUME NEW d \in Conns, d # c
      PROVE  ReadFrom(d)'
  <2>1. since'[d] = since[d] /\ answers'[d] = answers[d]
    BY <1>1 DEF IInv, PerConnection
  <2>2. QED
    BY <2>1, ReadFromFrame
<1>2. QED
  BY <1>1

\* The policy is read from the last zone.
LEMMA LookupPolicyReads ==
  ASSUME IInv, HInv, NEW c \in Conns, LookupPolicy(c), UNCHANGED <<zones, since>>
  PROVE  \A d \in Conns : ReadFrom(d)'
<1> DEFINE name  == [operator |-> held[c].payload.operator]
           asked == <<[name |-> name, answer |-> policies[name]]>>
<1>1. answers[c] = <<>>
  BY DEF LookupPolicy, IInv, FlowInv
<1>2. answers' = [answers EXCEPT ![c] = asked]
  BY <1>1 DEF LookupPolicy, Lookup
<1>3. answers'[c] = asked
  BY <1>2, Unchanged
<1>4. Policy(c)' = policies[name] /\ answers'[c][1].name = name /\ ~AskedForKey(c)'
  BY <1>3 DEF Policy, AskedForKey
<1>5. since[c] \in Nat /\ Len(zones) \in since[c]..Len(zones)
  BY DEF HInv, ReadFrom
<1>6. zones'[Len(zones)].policies[name] = policies[name]
  BY DEF HInv, Zone
<1>7. ReadFrom(c)'
  <2>1. Len(zones) \in since'[c]..Len(zones') /\ Len(zones) \in Len(zones)..Len(zones')
    BY <1>5
  <2>2. QED
    BY <1>4, <1>6, <2>1 DEF ReadFrom
<1>8. QED
  BY <1>2, <1>7, ReadsOfOne

\* So is the key, and the policy was read no later.
LEMMA LookupKeyReads ==
  ASSUME IInv, HInv, NEW c \in Conns, LookupKey(c), UNCHANGED <<zones, since>>
  PROVE  \A d \in Conns : ReadFrom(d)'
<1> DEFINE token == held[c].token
           name  == [selector |-> token.selector, operator |-> token.payload.operator]
           query == [name |-> name, answer |-> keys[name]]
           asked == <<PolicyQuery(c), query>>
<1>1. answers[c] = <<PolicyQuery(c)>>
  BY DEF LookupKey, IInv, FlowInv, PolicyRead
<1>2. answers' = [answers EXCEPT ![c] = asked]
  <2>1. answers' = [answers EXCEPT ![c] = Append(answers[c], query)]
    BY DEF LookupKey, Lookup
  <2>2. QED
    BY <1>1, <2>1, AppendToOne
<1>3. answers'[c] = asked
  BY <1>2, Unchanged
<1>4. /\ answers'[c][1].name = answers[c][1].name /\ Policy(c)' = Policy(c)
      /\ answers'[c][2].name = name /\ Key(c)' = keys[name] /\ Asked(c)
  BY <1>1, <1>3 DEF Policy, Key, Asked
<1>5. PICK i \in since[c]..Len(zones) :
        zones[i].policies[answers[c][1].name] = Policy(c)
  BY <1>4 DEF HInv, ReadFrom
<1>6. zones'[Len(zones)].keys[name] = keys[name]
  BY DEF HInv, Zone
<1>7. ReadFrom(c)'
  <2>1. i \in since'[c]..Len(zones') /\ Len(zones) \in i..Len(zones')
    BY <1>5 DEF HInv
  <2>2. QED
    BY <1>4, <1>5, <1>6, <2>1 DEF ReadFrom
<1>8. QED
  BY <1>2, <1>7, ReadsOfOne

\* The other two stages read nothing.
LEMMA StepReads ==
  ASSUME IInv, HInv, NEW c \in Conns, Step(c), UNCHANGED <<zones, since>>
  PROVE  \A d \in Conns : ReadFrom(d)'
<1>1. CASE Authorize(c) \/ VerifySignature(c)
  <2>1. answers' = answers
    BY <1>1 DEF Authorize, VerifySignature
  <2>2. QED
    BY <2>1, ReadFromFrame
<1>2. QED
  BY <1>1, LookupPolicyReads, LookupKeyReads DEF Step

\* HInv in every step.
LEMMA HStep ==
  ASSUME IInv, IInv', HInv, [HNext]_hvars
  PROVE  HInv'
<1>1. CASE \E c \in Conns : \E token \in Tokens, source \in Sources :
             Parse(c, token, source) /\ since' = [since EXCEPT ![c] = Len(zones)]
                                     /\ zones' = zones
  <2>1. PICK c \in Conns, token \in Tokens, source \in Sources :
          Parse(c, token, source) /\ since' = [since EXCEPT ![c] = Len(zones)]
                                  /\ zones' = zones
    BY <1>1
  <2>2. Zone' = Zone
    BY <2>1 DEF Parse, environment, Zone
  <2>3. \A d \in Conns : ReadFrom(d)'
    BY <2>1, ParseReads
  <2>4. QED
    BY <2>1, <2>2, <2>3 DEF HInv
<1>2. CASE (\E c \in Conns : Step(c)) /\ UNCHANGED <<zones, since>>
  <2>1. Zone' = Zone
    BY <1>2 DEF Step, LookupPolicy, Authorize, LookupKey, VerifySignature, environment, Zone
  <2>2. \A d \in Conns : ReadFrom(d)'
    BY <1>2, StepReads
  <2>3. QED
    BY <1>2, <2>1, <2>2 DEF HInv
<1>3. CASE /\ \/ \E name \in PolicyNames, answer \in PolicyAnswers : PublishPolicy(name, answer)
              \/ \E name \in KeyNames, answer \in KeyAnswers : PublishKey(name, answer)
           /\ zones' = Append(zones, Zone') /\ since' = since
  <2>1. answers' = answers
    BY <1>3 DEF PublishPolicy, PublishKey
  <2>2. Zone' \in Zones
    BY DEF IInv, EnvironmentInv, Zone, Zones
  <2>3. \A d \in Conns : ReadFrom(d)'
    BY <1>3, <2>1, <2>2, ReadFromFrame
  <2>4. /\ zones' \in Seq(Zones) /\ Len(zones') = Len(zones) + 1
        /\ zones'[Len(zones) + 1] = Zone'
    BY <1>3, <2>2, AppendProperties DEF HInv
  <2>5. QED
    BY <1>3, <2>3, <2>4 DEF HInv
<1>4. CASE (Tick \/ UNCHANGED vars) /\ UNCHANGED <<zones, since>>
  <2>1. answers' = answers /\ Zone' = Zone
    BY <1>4 DEF Tick, vars, Zone
  <2>2. \A d \in Conns : ReadFrom(d)'
    BY <1>4, <2>1, ReadFromFrame
  <2>3. QED
    BY <1>4, <2>1, <2>2 DEF HInv
<1>5. QED
  BY <1>1, <1>2, <1>3, <1>4 DEF HNext, hvars

\* The history variables observe the flow and do not change it.
LEMMA HSpecIsSpec == HSpec => Spec
<1>1. HInit => Init
  BY DEF HInit
<1>2. [HNext]_hvars => [Next]_vars
  BY DEF HNext, Next, hvars
<1>3. QED
  BY <1>1, <1>2, PTL DEF HSpec, Spec

\* Every answer was in force at a moment of the flow that asked for it, the policy
\* no later than the key.
LEMMA HInvariant == HSpec => []HInv
<1>1. HSpec => []IInv
  BY HSpecIsSpec, Invariant, PTL
<1>2. HInit => HInv
  BY HInitInvariant
<1>3. IInv /\ IInv' /\ HInv /\ [HNext]_hvars => HInv'
  BY HStep
<1>4. QED
  BY <1>1, <1>2, <1>3, PTL DEF HSpec

-----------------------------------------------------------------------------
(* The steps of the flow are steps of Verdict. *)

\* A step of a flow that is under way neither starts nor answers a call.
LEMMA UnderWay ==
  ASSUME IInv, NEW c \in Conns, NEW s, stage[c] \notin {"idle", "done"},
         s \notin {"idle", "done"}, stage' = [stage EXCEPT ![c] = s],
         UNCHANGED <<now, call, outcome, zones, since>>
  PROVE  UNCHANGED V!vars
<1>1. \A d \in Conns : Status(stage'[d]) = Status(stage[d])
  BY DEF IInv, Status
<1>2. [d \in Conns |-> Status(stage'[d])] = [d \in Conns |-> Status(stage[d])]
  BY <1>1
<1>3. QED
  BY <1>2 DEF V!vars

\* parse is the call, and the answer when it refuses.
LEMMA ParsePresents ==
  ASSUME IInv, NEW c \in Conns, NEW token \in Tokens, NEW source \in Sources,
         Parse(c, token, source), since' = [since EXCEPT ![c] = Len(zones)],
         zones' = zones
  PROVE  V!Present(c, token, source)
<1> DEFINE this == [token |-> token, source |-> source, at |-> now]
           fault == LocalFaultOf(this)
           status == [d \in Conns |-> Status(stage[d])]
<1>1. fault = ParseFault(Decode[token], source, now, Ineligible)
  BY DEF LocalFaultOf
<1>2. /\ status[c] = "new" /\ call' = [call EXCEPT ![c] = this]
      /\ since' = [since EXCEPT ![c] = Len(zones)] /\ UNCHANGED <<now, zones>>
  BY DEF Parse, Status, environment
<1>3. \A s : stage' = [stage EXCEPT ![c] = s] =>
               [d \in Conns |-> Status(stage'[d])] = [status EXCEPT ![c] = Status(s)]
  BY DEF IInv
<1>4. CASE fault = Pass /\ Keep(c, "parsed", Unverified(Decode[token], source))
  <2>1. [d \in Conns |-> Status(stage'[d])] = [status EXCEPT ![c] = "pending"]
    <3>1. stage' = [stage EXCEPT ![c] = "parsed"] /\ Status("parsed") = "pending"
      BY <1>4 DEF Keep, Goto, Status
    <3>2. QED
      BY <1>3, <3>1
  <2>2. Proceeds(this) /\ outcome' = outcome
    BY <1>4 DEF Proceeds, Keep
  <2>3. QED
    BY <1>2, <2>1, <2>2 DEF V!Present
<1>5. CASE fault # Pass /\ Finish(c, Failed(AuthResult(fault), fault))
  <2>1. [d \in Conns |-> Status(stage'[d])] = [status EXCEPT ![c] = "answered"]
    <3>1. stage' = [stage EXCEPT ![c] = "done"] /\ Status("done") = "answered"
      BY <1>5 DEF Finish, Goto, Status
    <3>2. QED
      BY <1>3, <3>1
  <2>2. ~Proceeds(this) /\ outcome' = [outcome EXCEPT ![c] = Refusal(this)]
    BY <1>5 DEF Proceeds, Finish, Refusal
  <2>3. QED
    BY <1>2, <2>1, <2>2 DEF V!Present
<1>6. QED
  BY <1>1, <1>4, <1>5 DEF Parse

\* A stage that ends a flow is the answer to its call.
LEMMA FinishAnswers ==
  ASSUME IInv, IInv', HInv', NEW c \in Conns, NEW report,
         stage[c] \notin {"idle", "done"}, Finish(c, report), Asked(c)',
         UNCHANGED <<now, call, zones, since>>
  PROVE  V!Answer(c)
<1> DEFINE status == [d \in Conns |-> Status(stage[d])]
<1>1. stage'[c] = "done" /\ outcome'[c] = report /\ outcome' = [outcome EXCEPT ![c] = report]
  BY Unchanged DEF Finish, Goto
<1>2. /\ status[c] = "pending"
      /\ [d \in Conns |-> Status(stage'[d])] = [status EXCEPT ![c] = "answered"]
  BY DEF IInv, Finish, Goto, Status
<1>3. Ended(c)'
  BY <1>1 DEF IInv, FlowInv
<1>4. \E i \in since'[c]..Len(zones') : \E j \in i..Len(zones') :
        outcome'[c] = Report(call'[c], zones'[i], zones'[j])
  <2>1. ReadFrom(c)'
    BY DEF HInv
  <2>2. Reported(c)'
    BY <1>3, <2>1, EndedReportsNext DEF EndsReported
  <2>3. QED
    BY <2>2 DEF Reported
<1>5. \E i \in since[c]..Len(zones) : \E j \in i..Len(zones) :
        outcome' = [outcome EXCEPT ![c] = Report(call[c], zones[i], zones[j])]
  <2>1. PICK i \in since[c]..Len(zones) : \E j \in i..Len(zones) :
          outcome'[c] = Report(call[c], zones[i], zones[j])
    BY <1>4
  <2>2. PICK j \in i..Len(zones) : outcome'[c] = Report(call[c], zones[i], zones[j])
    BY <2>1
  <2>3. outcome' = [outcome EXCEPT ![c] = Report(call[c], zones[i], zones[j])]
    BY <1>1, <2>2
  <2>4. QED
    BY <2>3
<1>6. QED
  BY <1>2, <1>5 DEF V!Answer

\* Every other step of a flow that is under way is none of Verdict.
LEMMA KeepIsSilent ==
  ASSUME IInv, NEW c \in Conns, NEW s, NEW value, stage[c] \notin {"idle", "done"},
         s \notin {"idle", "done"}, Keep(c, s, value),
         UNCHANGED <<now, call, zones, since>>
  PROVE  UNCHANGED V!vars
BY UnderWay DEF Keep, Goto

\* The stages after parse.
LEMMA StageAnswers ==
  ASSUME IInv, IInv', HInv', NEW c \in Conns, Step(c), UNCHANGED <<zones, since>>
  PROVE  V!Answer(c) \/ UNCHANGED V!vars
<1>1. /\ stage[c] \in {"parsed", "policy_known", "authorized", "key_known"}
      /\ UNCHANGED <<now, call>>
  BY DEF Step, LookupPolicy, Authorize, LookupKey, VerifySignature, environment
<1>2. Asked(c)'
  <2>1. CASE LookupPolicy(c)
    <3>1. answers[c] = <<>>
      BY <2>1 DEF LookupPolicy, IInv, FlowInv
    <3>2. PICK query : answers' = [answers EXCEPT ![c] = Append(answers[c], query)]
      BY <2>1 DEF LookupPolicy, Lookup
    <3>3. answers'[c] = Append(answers[c], query)
      BY <3>2, Unchanged
    <3>4. QED
      BY <3>1, <3>3 DEF Asked
  <2>2. CASE Authorize(c) \/ VerifySignature(c)
    <3>1. answers' = answers /\ (PolicyRead(c) \/ KeyRead(c))
      BY <2>2 DEF Authorize, VerifySignature, IInv, FlowInv
    <3>2. \/ answers[c] = <<PolicyQuery(c)>>
          \/ answers[c] = <<PolicyQuery(c), KeyQuery(c)>>
      BY <3>1 DEF PolicyRead, KeyRead
    <3>3. QED
      BY <3>1, <3>2 DEF Asked
  <2>3. CASE LookupKey(c)
    <3>1. answers[c] = <<PolicyQuery(c)>>
      BY <2>3 DEF LookupKey, IInv, FlowInv, PolicyRead
    <3>2. PICK query : answers' = [answers EXCEPT ![c] = Append(answers[c], query)]
      BY <2>3 DEF LookupKey, Lookup
    <3>3. answers'[c] = <<PolicyQuery(c), query>>
      BY <3>1, <3>2, Unchanged, AppendToOne
    <3>4. QED
      BY <3>3 DEF Asked
  <2>4. QED
    BY <2>1, <2>2, <2>3 DEF Step
<1>3. \/ \E report : Finish(c, report)
      \/ \E s \in {"policy_known", "authorized", "key_known"} : \E value : Keep(c, s, value)
  BY DEF Step, LookupPolicy, Authorize, LookupKey, VerifySignature
<1>4. ASSUME NEW report, Finish(c, report)
      PROVE  V!Answer(c)
  BY <1>1, <1>2, <1>4, FinishAnswers
<1>5. ASSUME NEW s \in {"policy_known", "authorized", "key_known"}, NEW value, Keep(c, s, value)
      PROVE  UNCHANGED V!vars
  BY <1>1, <1>5, KeepIsSilent
<1>6. QED
  BY <1>3, <1>4, <1>5

\* An operator publishes, or time passes, in both.
LEMMA EnvironmentMoves ==
  ASSUME IInv, IInv'
  PROVE  /\ /\ \/ \E name \in PolicyNames, answer \in PolicyAnswers : PublishPolicy(name, answer)
               \/ \E name \in KeyNames, answer \in KeyAnswers : PublishKey(name, answer)
            /\ zones' = Append(zones, Zone') /\ since' = since
            => V!Publish
         /\ Tick /\ UNCHANGED <<zones, since>> => V!Tick
<1>1. Zone' \in Zones
  BY DEF IInv, EnvironmentInv, Zone, Zones
<1>2. stage' = stage => [c \in Conns |-> Status(stage'[c])] = [c \in Conns |-> Status(stage[c])]
  OBVIOUS
<1>3. QED
  BY <1>1, <1>2 DEF PublishPolicy, PublishKey, Tick, V!Publish, V!Tick

\* The initial states of the flow are initial states of Verdict.
LEMMA StartsAsVerdict == HInit => V!Init
<1> SUFFICES ASSUME HInit PROVE V!Init
  OBVIOUS
<1>1. Zone \in Zones
  BY DEF HInit, Init, Zone, Zones
<1>2. [c \in Conns |-> Status(stage[c])] = [c \in Conns |-> "new"]
  BY DEF HInit, Init, Status
<1>3. QED
  BY <1>1, <1>2 DEF HInit, Init, V!Init

\* Each verdict is that of one decision on records that were in force during the
\* flow, however the stages, the other connections and the operators interleave.
THEOREM FlowImplementsVerdict == HSpec => ImplementsVerdict
<1>1. HInit => V!Init
  BY StartsAsVerdict
<1>2. ASSUME IInv, IInv', HInv, HInv', [HNext]_hvars
      PROVE  [V!Next]_(V!vars)
  <2>1. CASE \E c \in Conns : \E token \in Tokens, source \in Sources :
               Parse(c, token, source) /\ since' = [since EXCEPT ![c] = Len(zones)]
                                       /\ zones' = zones
    BY <1>2, <2>1, ParsePresents DEF V!Next
  <2>2. CASE (\E c \in Conns : Step(c)) /\ UNCHANGED <<zones, since>>
    BY <1>2, <2>2, StageAnswers DEF V!Next
  <2>3. CASE /\ \/ \E name \in PolicyNames, answer \in PolicyAnswers : PublishPolicy(name, answer)
                \/ \E name \in KeyNames, answer \in KeyAnswers : PublishKey(name, answer)
             /\ zones' = Append(zones, Zone') /\ since' = since
    BY <1>2, <2>3, EnvironmentMoves DEF V!Next
  <2>4. CASE Tick /\ UNCHANGED <<zones, since>>
    BY <1>2, <2>4, EnvironmentMoves DEF V!Next
  <2>5. CASE UNCHANGED hvars
    BY <2>5 DEF hvars, vars, V!vars
  <2>6. QED
    BY <1>2, <2>1, <2>2, <2>3, <2>4, <2>5 DEF HNext
<1>3. HSpec => []IInv /\ []HInv
  BY HSpecIsSpec, Invariant, HInvariant, PTL
<1>4. QED
  BY <1>1, <1>2, <1>3, PTL DEF HSpec, ImplementsVerdict, V!Spec
=============================================================================
