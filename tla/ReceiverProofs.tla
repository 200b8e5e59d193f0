--------------------------- MODULE ReceiverProofs ---------------------------
(***************************************************************************)
(* The safety properties of the staged flow, for any number of             *)
(* connections, any tokens and sources, any width of addresses and any     *)
(* sequence of clock ticks and republished records.                        *)
(*                                                                         *)
(* The invariant says what each stage knows: FlowInv(c) is, stage by stage,*)
(* which checks of src/token.rs have passed on the arguments of the call   *)
(* and on the answers as they were given, and that the value held is the   *)
(* one those checks were made on.                                          *)
(***************************************************************************)
EXTENDS ReceiverProperties, TokenLemmas, SequenceTheorems

\* The token and the fault of the local checks, from the call alone.
Presented(c) == Decode[call[c].token]
LocalFault(c) == ParseFault(Presented(c), call[c].source, call[c].at, Ineligible)
Pending(c) == Unverified(Presented(c), call[c].source)

PolicyQuery(c) == [name |-> [operator |-> Pending(c).payload.operator], answer |-> Policy(c)]
KeyQuery(c) ==
  [name |-> [selector |-> Pending(c).selector, operator |-> Pending(c).payload.operator],
   answer |-> Key(c)]

Called(c) == call[c] \in [token : Tokens, source : Sources, at : Int]

Parsed(c) == Called(c) /\ LocalFault(c) = Pass

\* The policy was asked, and what it answered.
PolicyRead(c) == Parsed(c) /\ answers[c] = <<PolicyQuery(c)>> /\ Policy(c) \in PolicyAnswers

\* The policy authorizes the token; then the key was asked.
IsAuthorized(c) == Policy(c) # Unusable /\ AuthorizeFault(Pending(c), Policy(c)) = Pass

KeyRead(c) ==
  /\ Parsed(c) /\ answers[c] = <<PolicyQuery(c), KeyQuery(c)>>
  /\ Policy(c) \in PolicyAnswers /\ IsAuthorized(c) /\ Key(c) \in KeyAnswers

HoldsAuthorized(c) == held[c] = Authorized(Pending(c), Policy(c))

Reports(c, fault) == fault # Pass /\ outcome[c] = Failed(AuthResult(fault), fault)

\* How a connection may have ended.
Ended(c) ==
  \/ Called(c) /\ answers[c] = <<>> /\ Reports(c, LocalFault(c))
  \/ PolicyRead(c) /\ Policy(c) = Unusable /\ outcome[c] = Failed("permerror", "policy_record")
  \/ PolicyRead(c) /\ Policy(c) # Unusable /\ Reports(c, AuthorizeFault(Pending(c), Policy(c)))
  \/ KeyRead(c) /\ Key(c) = Unusable /\ outcome[c] = Failed("permerror", "key_record")
  \/ KeyRead(c) /\ Key(c) = UnknownAlgorithm /\ outcome[c] = Failed("none", "key_record")
  \/ /\ KeyRead(c) /\ Key(c) \notin {Unusable, UnknownAlgorithm}
     /\ Reports(c, SignatureFault(Pending(c), Key(c)))
  \/ /\ KeyRead(c) /\ Key(c) \notin {Unusable, UnknownAlgorithm}
     /\ SignatureFault(Pending(c), Key(c)) = Pass
     /\ outcome[c] = [result |-> OutcomeResult(Authorized(Pending(c), Policy(c))), reason |-> Pass,
                      verified |-> Verified(Authorized(Pending(c), Policy(c)))]

FlowInv(c) ==
  \/ stage[c] = "idle" /\ answers[c] = <<>>
  \/ stage[c] = "parsed" /\ Parsed(c) /\ answers[c] = <<>> /\ held[c] = Pending(c)
  \/ /\ stage[c] = "policy_known" /\ PolicyRead(c) /\ Policy(c) # Unusable
     /\ held[c] = Pending(c)
  \/ stage[c] = "authorized" /\ PolicyRead(c) /\ IsAuthorized(c) /\ HoldsAuthorized(c)
  \/ /\ stage[c] = "key_known" /\ KeyRead(c) /\ Key(c) \notin {Unusable, UnknownAlgorithm}
     /\ HoldsAuthorized(c)
  \/ stage[c] = "done" /\ Ended(c)

EnvironmentInv ==
  /\ now \in StartTimes \union 0..MaxTime
  /\ policies \in [PolicyNames -> PolicyAnswers] /\ keys \in [KeyNames -> KeyAnswers]
  /\ changes \in 0..MaxChanges

PerConnection(f) == f = [c \in Conns |-> f[c]]

IInv ==
  /\ EnvironmentInv
  /\ stage \in [Conns -> Stages] /\ PerConnection(call) /\ PerConnection(held)
  /\ PerConnection(answers) /\ PerConnection(outcome)
  /\ \A c \in Conns : FlowInv(c)

-----------------------------------------------------------------------------

\* Before the first call every connection knows nothing.
THEOREM InitInvariant == Init => IInv
<1> SUFFICES ASSUME Init PROVE IInv
  OBVIOUS
<1>1. EnvironmentInv
  BY ReceiverAssumption DEF Init, EnvironmentInv
<1>2. stage \in [Conns -> Stages]
  BY DEF Init, Stages
<1>3. /\ PerConnection(call) /\ PerConnection(held)
      /\ PerConnection(answers) /\ PerConnection(outcome)
  BY DEF Init, PerConnection
<1>4. \A c \in Conns : FlowInv(c)
  BY DEF Init, FlowInv
<1>5. QED
  BY <1>1, <1>2, <1>3, <1>4 DEF IInv

\* A connection whose variables a step leaves alone keeps its invariant.
LEMMA Frame ==
  ASSUME NEW c \in Conns, FlowInv(c),
         stage'[c] = stage[c], call'[c] = call[c], held'[c] = held[c],
         answers'[c] = answers[c], outcome'[c] = outcome[c]
  PROVE  FlowInv(c)'
<1>1. /\ Presented(c)' = Presented(c) /\ LocalFault(c)' = LocalFault(c)
      /\ Pending(c)' = Pending(c) /\ Policy(c)' = Policy(c) /\ Key(c)' = Key(c)
  BY DEF Presented, LocalFault, Pending, Policy, Key
<1>2. PolicyQuery(c)' = PolicyQuery(c) /\ KeyQuery(c)' = KeyQuery(c)
  BY <1>1 DEF PolicyQuery, KeyQuery
<1>3. /\ Called(c)' = Called(c) /\ Parsed(c)' = Parsed(c)
      /\ PolicyRead(c)' = PolicyRead(c) /\ KeyRead(c)' = KeyRead(c)
      /\ IsAuthorized(c)' = IsAuthorized(c) /\ HoldsAuthorized(c)' = HoldsAuthorized(c)
  BY <1>1, <1>2 DEF Called, Parsed, PolicyRead, KeyRead, IsAuthorized, HoldsAuthorized
<1>4. Ended(c)' = Ended(c)
  BY <1>1, <1>3 DEF Ended, Reports
<1>5. QED
  BY <1>1, <1>3, <1>4 DEF FlowInv

\* A step of one connection: what is left to show is its own invariant.
LEMMA StepOfOne ==
  ASSUME IInv, NEW c \in Conns, NEW s \in Stages, NEW k, NEW h, NEW a, NEW o,
         UNCHANGED environment,
         stage' = [stage EXCEPT ![c] = s], call' = [call EXCEPT ![c] = k],
         held' = [held EXCEPT ![c] = h], answers' = [answers EXCEPT ![c] = a],
         outcome' = [outcome EXCEPT ![c] = o],
         FlowInv(c)'
  PROVE  IInv'
<1>1. EnvironmentInv'
  BY DEF IInv, EnvironmentInv, environment
<1>2. stage' \in [Conns -> Stages]
  BY DEF IInv
<1>3. /\ PerConnection(call)' /\ PerConnection(held)'
      /\ PerConnection(answers)' /\ PerConnection(outcome)'
  BY DEF IInv, PerConnection
<1>4. ASSUME NEW d \in Conns, d # c
      PROVE  FlowInv(d)'
  <2>1. /\ stage'[d] = stage[d] /\ call'[d] = call[d] /\ held'[d] = held[d]
        /\ answers'[d] = answers[d] /\ outcome'[d] = outcome[d]
    BY <1>4 DEF IInv, PerConnection
  <2>2. QED
    BY <2>1, Frame DEF IInv
<1>5. QED
  BY <1>1, <1>2, <1>3, <1>4 DEF IInv

\* The same, for a step that leaves the call and maybe the answers alone.
LEMMA Unchanged ==
  ASSUME IInv, NEW c \in Conns
  PROVE  /\ call = [call EXCEPT ![c] = call[c]]
         /\ answers = [answers EXCEPT ![c] = answers[c]]
         /\ outcome = [outcome EXCEPT ![c] = outcome[c]]
         /\ \A x : /\ [stage EXCEPT ![c] = x][c] = x
                   /\ [call EXCEPT ![c] = x][c] = x
                   /\ [held EXCEPT ![c] = x][c] = x
                   /\ [answers EXCEPT ![c] = x][c] = x
                   /\ [outcome EXCEPT ![c] = x][c] = x
BY DEF IInv, PerConnection

\* parse leaves a connection with a fault, or with what its checks established.
LEMMA ParseStep ==
  ASSUME IInv, NEW c \in Conns, NEW token \in Tokens, NEW source \in Sources,
         Parse(c, token, source)
  PROVE  IInv'
<1> DEFINE request == [token |-> token, source |-> source, at |-> now]
           fault   == ParseFault(Decode[token], source, now, Ineligible)
<1>1. /\ stage[c] = "idle" /\ answers[c] = <<>>
      /\ call' = [call EXCEPT ![c] = request] /\ UNCHANGED <<environment, answers>>
  BY DEF Parse, IInv, FlowInv
<1>2. now \in Int
  BY ReceiverAssumption DEF IInv, EnvironmentInv
<1>3. /\ call'[c] = request /\ answers'[c] = <<>>
      /\ answers' = [answers EXCEPT ![c] = <<>>]
  BY <1>1, Unchanged
<1>4. Called(c)' /\ LocalFault(c)' = fault /\ Pending(c)' = Unverified(Decode[token], source)
  BY <1>2, <1>3 DEF Called, LocalFault, Pending, Presented
<1>5. CASE fault = Pass /\ Keep(c, "parsed", Unverified(Decode[token], source))
  <2>1. /\ stage' = [stage EXCEPT ![c] = "parsed"]
        /\ held' = [held EXCEPT ![c] = Unverified(Decode[token], source)]
        /\ outcome' = [outcome EXCEPT ![c] = outcome[c]]
    BY <1>5, Unchanged DEF Keep, Goto
  <2>2. stage'[c] = "parsed" /\ held'[c] = Pending(c)'
    BY <1>4, <2>1, Unchanged
  <2>3. FlowInv(c)'
    BY <1>3, <1>4, <1>5, <2>2 DEF FlowInv, Parsed
  <2>4. QED
    BY <1>1, <1>3, <2>1, <2>3, StepOfOne DEF Stages
<1>6. CASE fault # Pass /\ Finish(c, Failed(AuthResult(fault), fault))
  <2>1. /\ stage' = [stage EXCEPT ![c] = "done"]
        /\ held' = [held EXCEPT ![c] = None]
        /\ outcome' = [outcome EXCEPT ![c] = Failed(AuthResult(fault), fault)]
    BY <1>6 DEF Finish, Goto
  <2>2. stage'[c] = "done" /\ outcome'[c] = Failed(AuthResult(fault), fault)
    BY <2>1, Unchanged
  <2>3. FlowInv(c)'
    BY <1>3, <1>4, <1>6, <2>2 DEF FlowInv, Ended, Reports
  <2>4. QED
    BY <1>1, <1>3, <2>1, <2>3, StepOfOne DEF Stages
<1>7. QED
  BY <1>5, <1>6 DEF Parse

\* The names a parsed token leads to are conforming names.
LEMMA NamesConform ==
  ASSUME NEW c, Parsed(c)
  PROVE  /\ [operator |-> Pending(c).payload.operator] \in PolicyNames
         /\ [selector |-> Pending(c).selector, operator |-> Pending(c).payload.operator]
              \in KeyNames
<1> DEFINE item == PayloadItem(Presented(c))
<1>1. /\ EnvelopeFault(Presented(c)) = Pass
      /\ HeaderFault(Protected(Presented(c)), Unprotected(Presented(c))) = Pass
      /\ RejectTaggedFields(item) = Pass /\ PayloadFault(item) = Pass
  BY ParsePasses DEF Parsed, LocalFault
<1>2. item.kind = "map" => DOMAIN item.v \subseteq Nat
  BY <1>1, ReceiverAssumption DEF Parsed, Called, Presented
<1>3. Field(item, KeyOperator) \in OperatorDomains
  BY <1>1, <1>2, PayloadBounds
<1>4. Pending(c).payload.operator = Lowercase[Field(item, KeyOperator)]
  BY DEF Pending, Unverified, PayloadOf
<1>5. Pending(c).selector = Lowercase[Get(Protected(Presented(c)), LabelKid).v]
  BY DEF Pending, Unverified
<1>6. Get(Protected(Presented(c)), LabelKid).v \in SelectorLabels
  BY <1>1, SelectorConforms
<1>7. QED
  BY <1>3, <1>4, <1>5, <1>6 DEF PolicyNames, KeyNames, Operators, Selectors

\* The policy lookup records its answer and keeps the token that was parsed.
LEMMA LookupPolicyStep ==
  ASSUME IInv, NEW c \in Conns, LookupPolicy(c)
  PROVE  IInv'
<1> DEFINE name   == [operator |-> held[c].payload.operator]
           answer == policies[name]
           asked  == <<[name |-> name, answer |-> answer]>>
<1>1. /\ stage[c] = "parsed" /\ Parsed(c) /\ answers[c] = <<>> /\ held[c] = Pending(c)
      /\ UNCHANGED <<environment, call>>
  BY DEF LookupPolicy, IInv, FlowInv
<1>2. answers' = [answers EXCEPT ![c] = asked]
  BY <1>1 DEF LookupPolicy, Lookup
<1>3. answer \in PolicyAnswers
  BY <1>1, NamesConform DEF IInv, EnvironmentInv
<1>4. answers'[c] = asked /\ call' = [call EXCEPT ![c] = call[c]]
  BY <1>1, <1>2, Unchanged
<1>5. Pending(c)' = Pending(c) /\ Parsed(c)'
  BY <1>1 DEF Pending, Presented, Parsed, Called, LocalFault
<1>6. Policy(c)' = answer
  BY <1>4 DEF Policy
<1>7. PolicyRead(c)'
  BY <1>1, <1>3, <1>4, <1>5, <1>6 DEF PolicyRead, PolicyQuery
<1>8. CASE answer # Unusable /\ Keep(c, "policy_known", held[c])
  <2>1. /\ stage' = [stage EXCEPT ![c] = "policy_known"]
        /\ held' = [held EXCEPT ![c] = held[c]]
        /\ outcome' = [outcome EXCEPT ![c] = outcome[c]]
    BY <1>8, Unchanged DEF Keep, Goto
  <2>2. stage'[c] = "policy_known" /\ held'[c] = Pending(c)'
    BY <1>1, <1>5, <2>1, Unchanged
  <2>3. FlowInv(c)'
    BY <1>6, <1>7, <1>8, <2>2 DEF FlowInv
  <2>4. QED
    BY <1>1, <1>2, <1>4, <2>1, <2>3, StepOfOne, ZenonT(60) DEF Stages
<1>9. CASE answer = Unusable /\ Finish(c, Failed("permerror", "policy_record"))
  <2>1. /\ stage' = [stage EXCEPT ![c] = "done"]
        /\ held' = [held EXCEPT ![c] = None]
        /\ outcome' = [outcome EXCEPT ![c] = Failed("permerror", "policy_record")]
    BY <1>9 DEF Finish, Goto
  <2>2. stage'[c] = "done" /\ outcome'[c] = Failed("permerror", "policy_record")
    BY <2>1, Unchanged
  <2>3. Failed("permerror", "policy_record")' = Failed("permerror", "policy_record")
    BY DEF Failed
  <2>4. FlowInv(c)'
    BY <1>6, <1>7, <1>9, <2>2, <2>3 DEF FlowInv, Ended
  <2>5. QED
    BY <1>1, <1>2, <1>4, <2>1, <2>4, StepOfOne DEF Stages
<1>10. QED
  BY <1>8, <1>9 DEF LookupPolicy

\* authorize decides on the answer that was recorded, not on the one in force.
LEMMA AuthorizeStep ==
  ASSUME IInv, NEW c \in Conns, Authorize(c)
  PROVE  IInv'
<1> DEFINE fault == AuthorizeFault(held[c], Policy(c))
<1>1. /\ PolicyRead(c) /\ Policy(c) # Unusable /\ held[c] = Pending(c)
      /\ UNCHANGED <<environment, call, answers>>
  BY DEF Authorize, IInv, FlowInv
<1>2. call' = [call EXCEPT ![c] = call[c]] /\ answers' = [answers EXCEPT ![c] = answers[c]]
  BY <1>1, Unchanged
<1>3. PolicyRead(c)' /\ Pending(c)' = Pending(c) /\ Policy(c)' = Policy(c)
  BY <1>1 DEF PolicyRead, PolicyQuery, Parsed, Called, LocalFault, Pending, Presented, Policy
<1>4. CASE fault = Pass /\ Keep(c, "authorized", Authorized(held[c], Policy(c)))
  <2>1. /\ stage' = [stage EXCEPT ![c] = "authorized"]
        /\ held' = [held EXCEPT ![c] = Authorized(held[c], Policy(c))]
        /\ outcome' = [outcome EXCEPT ![c] = outcome[c]]
    BY <1>4, Unchanged DEF Keep, Goto
  <2>2. stage'[c] = "authorized" /\ held'[c] = Authorized(held[c], Policy(c))
    BY <2>1, Unchanged
  <2>3. FlowInv(c)'
    BY <1>1, <1>3, <1>4, <2>2 DEF FlowInv, IsAuthorized, HoldsAuthorized
  <2>4. QED
    BY <1>1, <1>2, <2>1, <2>3, StepOfOne DEF Stages
<1>5. CASE fault # Pass /\ Finish(c, Failed(AuthResult(fault), fault))
  <2>1. /\ stage' = [stage EXCEPT ![c] = "done"]
        /\ held' = [held EXCEPT ![c] = None]
        /\ outcome' = [outcome EXCEPT ![c] = Failed(AuthResult(fault), fault)]
    BY <1>5 DEF Finish, Goto
  <2>2. stage'[c] = "done" /\ outcome'[c] = Failed(AuthResult(fault), fault)
    BY <2>1, Unchanged
  <2>3. FlowInv(c)'
    BY <1>1, <1>3, <1>5, <2>2 DEF FlowInv, Ended, Reports
  <2>4. QED
    BY <1>1, <1>2, <2>1, <2>3, StepOfOne, ZenonT(60) DEF Stages
<1>6. QED
  BY <1>4, <1>5 DEF Authorize, Policy

\* Recording an answer: the connection has one more, the others have theirs.
LEMMA AppendToOne ==
  ASSUME NEW x, NEW y
  PROVE  Append(<<x>>, y) = <<x, y>>
<1> DEFINE s == Append(<<x>>, y)
<1>1. <<x>> \in Seq({x, y}) /\ Len(<<x>>) = 1
  OBVIOUS
<1>2. s \in Seq({x, y}) /\ Len(s) = 2 /\ s[1] = x /\ s[2] = y
  BY <1>1, AppendProperties
<1>3. <<x, y>> \in Seq({x, y}) /\ Len(<<x, y>>) = 2
  OBVIOUS
<1>4. \A i \in 1..2 : s[i] = <<x, y>>[i]
  BY <1>2
<1>5. QED
  BY <1>2, <1>3, <1>4, SeqEqual

\* The key lookup records its answer and keeps the authorized token.
LEMMA LookupKeyStep ==
  ASSUME IInv, NEW c \in Conns, LookupKey(c)
  PROVE  IInv'
<1> DEFINE token  == held[c].token
           name   == [selector |-> token.selector, operator |-> token.payload.operator]
           answer == keys[name]
           query  == [name |-> name, answer |-> answer]
           asked  == <<PolicyQuery(c), query>>
           Refused(result) == \/ answer = Unusable /\ result = "permerror"
                              \/ answer = UnknownAlgorithm /\ result = "none"
<1>1. /\ PolicyRead(c) /\ IsAuthorized(c) /\ HoldsAuthorized(c)
      /\ UNCHANGED <<environment, call>>
  BY DEF LookupKey, IInv, FlowInv
<1>2. token = Pending(c)
  BY <1>1 DEF HoldsAuthorized, Authorized
<1>3. answers' = [answers EXCEPT ![c] = asked]
  <2>1. answers' = [answers EXCEPT ![c] = Append(answers[c], query)]
    BY DEF LookupKey, Lookup
  <2>2. Append(answers[c], query) = asked
    BY <1>1, AppendToOne DEF PolicyRead
  <2>3. QED
    BY <2>1, <2>2
<1>4. answer \in KeyAnswers
  BY <1>1, <1>2, NamesConform DEF IInv, EnvironmentInv, PolicyRead
<1>5. answers'[c] = asked /\ call' = [call EXCEPT ![c] = call[c]]
  BY <1>1, <1>3, Unchanged
<1>6. Pending(c)' = Pending(c) /\ Parsed(c)'
  BY <1>1 DEF Pending, Presented, Parsed, Called, LocalFault, PolicyRead
<1>7. Policy(c)' = Policy(c) /\ Key(c)' = answer
  BY <1>5 DEF Policy, Key, PolicyQuery
<1>8. KeyRead(c)'
  <2>1. answers'[c] = <<PolicyQuery(c)', KeyQuery(c)'>>
    BY <1>2, <1>5, <1>6, <1>7 DEF PolicyQuery, KeyQuery
  <2>2. Policy(c)' \in PolicyAnswers /\ IsAuthorized(c)'
    BY <1>1, <1>6, <1>7, SMTT(40) DEF PolicyRead, IsAuthorized
  <2>3. QED
    BY <1>4, <1>6, <1>7, <2>1, <2>2 DEF KeyRead
<1>9. CASE answer \notin {Unusable, UnknownAlgorithm} /\ Keep(c, "key_known", held[c])
  <2>1. /\ stage' = [stage EXCEPT ![c] = "key_known"]
        /\ held' = [held EXCEPT ![c] = held[c]]
        /\ outcome' = [outcome EXCEPT ![c] = outcome[c]]
    BY <1>9, Unchanged DEF Keep, Goto
  <2>2. stage'[c] = "key_known" /\ held'[c] = held[c]
    BY <2>1, Unchanged
  <2>3. HoldsAuthorized(c)'
    BY <1>1, <1>6, <1>7, <2>2 DEF HoldsAuthorized
  <2>4. FlowInv(c)'
    BY <1>7, <1>8, <1>9, <2>2, <2>3, SMTT(40) DEF FlowInv
  <2>5. QED
    BY <1>1, <1>3, <1>5, <2>1, <2>4, StepOfOne DEF Stages
<1>10. ASSUME NEW result, Finish(c, Failed(result, "key_record")),
              Refused(result)
       PROVE  IInv'
  <2>1. /\ stage' = [stage EXCEPT ![c] = "done"]
        /\ held' = [held EXCEPT ![c] = None]
        /\ outcome' = [outcome EXCEPT ![c] = Failed(result, "key_record")]
    BY <1>10 DEF Finish, Goto
  <2>2. stage'[c] = "done" /\ outcome'[c] = Failed(result, "key_record")
    BY <2>1, Unchanged
  <2>3. FlowInv(c)'
    BY <1>7, <1>8, <1>10, <2>2 DEF FlowInv, Ended, Failed
  <2>4. QED
    BY <1>1, <1>3, <1>5, <2>1, <2>3, StepOfOne DEF Stages
<1>11. CASE answer = Unusable /\ Finish(c, Failed("permerror", "key_record"))
  <2>1. Refused("permerror")
    BY <1>11
  <2>2. QED
    BY <1>10, <1>11, <2>1
<1>12. CASE answer = UnknownAlgorithm /\ Finish(c, Failed("none", "key_record"))
  <2>1. Refused("none")
    BY <1>12
  <2>2. QED
    BY <1>10, <1>12, <2>1
<1>13. QED
  BY <1>9, <1>11, <1>12 DEF LookupKey

\* verify_signature decides on the key that was recorded, and ends the flow.
LEMMA VerifySignatureStep ==
  ASSUME IInv, NEW c \in Conns, VerifySignature(c)
  PROVE  IInv'
<1> DEFINE fault  == SignatureFault(Pending(c), Key(c))
           accept == [result |-> OutcomeResult(held[c]), reason |-> Pass,
                      verified |-> Verified(held[c])]
           reject == Failed(AuthResult(fault), fault)
<1>1. /\ KeyRead(c) /\ Key(c) \notin {Unusable, UnknownAlgorithm} /\ HoldsAuthorized(c)
      /\ UNCHANGED <<environment, call, answers>>
  BY DEF VerifySignature, IInv, FlowInv
<1>2. held[c].token = Pending(c)
  BY <1>1 DEF HoldsAuthorized, Authorized
<1>3. call' = [call EXCEPT ![c] = call[c]] /\ answers' = [answers EXCEPT ![c] = answers[c]]
  BY <1>1, Unchanged
<1>4. /\ KeyRead(c)' /\ Pending(c)' = Pending(c)
      /\ Policy(c)' = Policy(c) /\ Key(c)' = Key(c)
  BY <1>1 DEF KeyRead, PolicyQuery, KeyQuery, IsAuthorized, Parsed, Called, LocalFault,
              Pending, Presented, Policy, Key
<1>5. PICK report : /\ Finish(c, report)
                    /\ \/ fault = Pass /\ report = accept
                       \/ fault # Pass /\ report = reject
  <2>1. SignatureFault(held[c].token, answers[c][2].answer) = fault
    BY <1>2 DEF Key
  <2>2. \/ fault = Pass /\ Finish(c, accept)
        \/ fault # Pass /\ Finish(c, reject)
    BY <2>1 DEF VerifySignature
  <2>3. QED
    BY <2>2
<1>6. /\ stage' = [stage EXCEPT ![c] = "done"]
      /\ held' = [held EXCEPT ![c] = None]
      /\ outcome' = [outcome EXCEPT ![c] = report]
  BY <1>5 DEF Finish, Goto
<1>7. stage'[c] = "done" /\ outcome'[c] = report
  BY <1>6, Unchanged
<1>8. FlowInv(c)'
  <2>1. CASE fault = Pass /\ report = accept
    BY <1>1, <1>4, <1>7, <2>1 DEF FlowInv, Ended, HoldsAuthorized
  <2>2. CASE fault # Pass /\ report = reject
    BY <1>1, <1>4, <1>7, <2>2 DEF FlowInv, Ended, Reports
  <2>3. QED
    BY <1>5, <2>1, <2>2
<1>9. QED
  BY <1>1, <1>3, <1>6, <1>8, StepOfOne DEF Stages

\* A step of the environment, or none.
LEMMA EnvironmentStep ==
  ASSUME IInv,
         \/ \E name \in PolicyNames, answer \in PolicyAnswers : PublishPolicy(name, answer)
         \/ \E name \in KeyNames, answer \in KeyAnswers : PublishKey(name, answer)
         \/ Tick
         \/ UNCHANGED vars
  PROVE  IInv'
<1>1. UNCHANGED <<stage, call, held, answers, outcome>>
  BY DEF PublishPolicy, PublishKey, Tick, vars
<1>2. \A c \in Conns : FlowInv(c)'
  BY <1>1, Frame DEF IInv
<1>3. EnvironmentInv'
  <2>1. CASE \E name \in PolicyNames, answer \in PolicyAnswers : PublishPolicy(name, answer)
    BY <2>1, ReceiverAssumption DEF IInv, EnvironmentInv, PublishPolicy
  <2>2. CASE \E name \in KeyNames, answer \in KeyAnswers : PublishKey(name, answer)
    BY <2>2, ReceiverAssumption DEF IInv, EnvironmentInv, PublishKey
  <2>3. CASE Tick
    <3>1. now \in Int /\ now' = now + 1 /\ now < MaxTime
      BY <2>3, ReceiverAssumption DEF IInv, EnvironmentInv, Tick
    <3>2. QED
      BY <2>3, <3>1, ReceiverAssumption DEF IInv, EnvironmentInv, Tick
  <2>4. CASE UNCHANGED vars
    BY <2>4 DEF IInv, EnvironmentInv, vars
  <2>5. QED
    BY <2>1, <2>2, <2>3, <2>4
<1>4. QED
  BY <1>1, <1>2, <1>3 DEF IInv, PerConnection

\* What each stage knows holds of every connection in every reachable state.
THEOREM Invariant == Spec => []IInv
<1>1. IInv /\ [Next]_vars => IInv'
  BY ParseStep, LookupPolicyStep, AuthorizeStep, LookupKeyStep, VerifySignatureStep,
     EnvironmentStep DEF Next, Step
<1>2. QED
  BY InitInvariant, <1>1, PTL DEF Spec

-----------------------------------------------------------------------------
(* The theorems: each follows from the invariant and from what it means, in *)
(* whole numbers and bits, that the checks of a token pass (TokenLemmas).   *)

\* What asked records say of a connection.
LEMMA AskedMeansParsed ==
  ASSUME NEW c \in Conns, IInv
  PROVE  /\ Asked(c) => /\ Parsed(c) /\ answers[c][1] = PolicyQuery(c)
                        /\ Policy(c) \in PolicyAnswers
         /\ AskedForKey(c) => KeyRead(c) /\ answers[c][2] = KeyQuery(c)
<1>1. FlowInv(c)
  BY DEF IInv
<1>2. answers[c] = <<>> \/ PolicyRead(c) \/ KeyRead(c)
  BY <1>1 DEF FlowInv, Ended
<1>3. CASE answers[c] = <<>>
  BY <1>3 DEF Asked, AskedForKey
<1>4. CASE PolicyRead(c)
  BY <1>4 DEF PolicyRead, Asked, AskedForKey
<1>5. CASE KeyRead(c)
  BY <1>5 DEF KeyRead, Asked, AskedForKey
<1>6. QED
  BY <1>2, <1>3, <1>4, <1>5

\* The wire of a sound payload: the decoded fields are the values every reader of
\* the payload finds.
LEMMA WireOfPayload ==
  ASSUME NEW c, Called(c), EnvelopeFault(Presented(c)) = Pass,
         RejectTaggedFields(PayloadItem(Presented(c))) = Pass,
         PayloadFault(PayloadItem(Presented(c))) = Pass
  PROVE  LET item == PayloadItem(Presented(c))
         IN  /\ \A k \in RequiredKeys : Cardinality(Occurrences(Entries(c), k)) = 1
             /\ Cardinality(Occurrences(Entries(c), KeyUnit)) <= 1
             /\ \A k \in DefinedKeys : \A val \in Values(c, k) :
                  val.kind \in {"int", "text", "bytes"} /\ val.v = Field(item, k)
             /\ \A k \in RequiredKeys : TheOnly(c, k).v = Field(item, k)
<1> DEFINE item == PayloadItem(Presented(c))
<1>1. /\ EnvelopeFault(Presented(c)) = Pass
      /\ RejectTaggedFields(item) = Pass /\ PayloadFault(item) = Pass
  OBVIOUS
<1>2. item.kind = "map" => DOMAIN item.v \subseteq Nat
  BY <1>1, ReceiverAssumption DEF Called, Presented
<1>3. EntriesFault(item) = Pass
  BY <1>1, <1>2, PayloadBounds
<1>4. Entries(c) = item.v
  BY DEF Entries, Presented
<1>5. /\ \A k \in DefinedKeys : \A i, j \in Occurrences(item.v, k) : i = j
      /\ \A k \in RequiredKeys : Occurrences(item.v, k) # {}
      /\ \A k \in DefinedKeys : \A i \in Occurrences(item.v, k) :
           /\ LastValue(item, k) = item.v[i].val
           /\ ReadsAsDefined(k, item.v[i].val)
           /\ ~IsTagged(item.v[i].val)
  BY <1>1, <1>2, <1>3, PayloadEntries
<1>6. KeyUnit \in DefinedKeys /\ RequiredKeys \subseteq DefinedKeys
  BY DEF DefinedKeys, RequiredKeys
<1>7. ASSUME NEW k \in RequiredKeys
      PROVE  Cardinality(Occurrences(item.v, k)) = 1
  <2>1. PICK i \in Occurrences(item.v, k) : TRUE
    BY <1>5
  <2>2. Occurrences(item.v, k) = {i}
    BY <1>5, <1>6, <2>1
  <2>3. QED
    BY <2>2, FS_Singleton
<1>8. Cardinality(Occurrences(item.v, KeyUnit)) <= 1
  <2>1. CASE Occurrences(item.v, KeyUnit) = {}
    BY <2>1, FS_EmptySet
  <2>2. CASE Occurrences(item.v, KeyUnit) # {}
    <3>1. PICK i \in Occurrences(item.v, KeyUnit) : TRUE
      BY <2>2
    <3>2. Occurrences(item.v, KeyUnit) = {i}
      BY <1>5, <1>6, <3>1
    <3>3. QED
      BY <3>2, FS_Singleton
  <2>3. QED
    BY <2>1, <2>2
<1>9. ASSUME NEW k \in DefinedKeys, NEW val \in Values(c, k)
      PROVE  val.kind \in {"int", "text", "bytes"} /\ val.v = Field(item, k)
  <2>1. PICK i \in Occurrences(item.v, k) : val = item.v[i].val
    BY <1>4 DEF Values, ValuesIn
  <2>2. AsValue(val) = val
    BY <1>5, <2>1 DEF AsValue, IsTagged
  <2>3. val.v = Field(item, k)
    BY <1>5, <2>1, <2>2 DEF Field
  <2>4. k \in {KeyOperator, KeyRole, KeyPrefix, KeyUnit, KeyIat, KeyExp}
    BY DEF DefinedKeys
  <2>5. ReadsAsDefined(k, val)
    BY <1>5, <2>1
  <2>6. AsValue(val).kind \in {"int", "text", "bytes"}
    <3>1. CASE k \in {KeyOperator, KeyRole}
      BY <2>5, <3>1
         DEF ReadsAsDefined, KeyOperator, KeyRole, KeyPrefix, KeyUnit, KeyIat, KeyExp
    <3>2. CASE k = KeyPrefix
      BY <2>5, <3>2
         DEF ReadsAsDefined, KeyOperator, KeyRole, KeyPrefix, KeyUnit, KeyIat, KeyExp
    <3>3. CASE k \in {KeyUnit, KeyIat, KeyExp}
      BY <2>5, <3>3
         DEF ReadsAsDefined, KeyOperator, KeyRole, KeyPrefix, KeyUnit, KeyIat, KeyExp
    <3>4. QED
      BY <2>4, <3>1, <3>2, <3>3
  <2>7. QED
    BY <2>2, <2>3, <2>6
<1>10. ASSUME NEW k \in RequiredKeys
       PROVE  TheOnly(c, k).v = Field(item, k)
  <2>1. Values(c, k) # {}
    <3>1. PICK i \in Occurrences(item.v, k) : TRUE
      BY <1>5
    <3>2. QED
      BY <1>4, <3>1 DEF Values, ValuesIn
  <2>2. TheOnly(c, k) \in Values(c, k)
    BY <2>1 DEF TheOnly
  <2>3. QED
    BY <1>6, <1>9, <2>2
<1>11. QED
  BY <1>4, <1>7, <1>8, <1>9, <1>10

\* A parsed token has a sound payload.
LEMMA WireOfParsed ==
  ASSUME NEW c, Parsed(c)
  PROVE  LET item == PayloadItem(Presented(c))
         IN  /\ \A k \in RequiredKeys : Cardinality(Occurrences(Entries(c), k)) = 1
             /\ Cardinality(Occurrences(Entries(c), KeyUnit)) <= 1
             /\ \A k \in DefinedKeys : \A val \in Values(c, k) :
                  val.kind \in {"int", "text", "bytes"} /\ val.v = Field(item, k)
             /\ \A k \in RequiredKeys : TheOnly(c, k).v = Field(item, k)
<1>1. /\ Called(c) /\ EnvelopeFault(Presented(c)) = Pass
      /\ RejectTaggedFields(PayloadItem(Presented(c))) = Pass
      /\ PayloadFault(PayloadItem(Presented(c))) = Pass
  BY ParsePasses DEF Parsed, LocalFault
<1>2. QED
  BY <1>1, WireOfPayload

\* The headers of a parsed token: one value of each label, in the signed bucket.
LEMMA HeadersOfParsed ==
  ASSUME NEW c, Parsed(c), NEW label \in {LabelAlg, LabelContentType, LabelKid}
  PROVE  /\ Cardinality(Occurrences(Protected(Presented(c)), label)) = 1
         /\ Occurrences(Unprotected(Presented(c)), label) = {}
<1> DEFINE token       == Presented(c)
           protected   == Protected(token)
           unprotected == Unprotected(token)
<1>1. EnvelopeFault(token) = Pass /\ HeaderFault(protected, unprotected) = Pass
  BY ParsePasses DEF Parsed, LocalFault
<1>2. Part(token, 1).v.kind = "empty" \/ IsHeaderMap(Part(token, 1).v)
  BY <1>1 DEF EnvelopeFault, Check, Pass
<1>3. \A i, j \in DOMAIN protected : SameLabel(protected[i].key, protected[j].key) => i = j
  <2>1. CASE Part(token, 1).v.kind = "empty"
    BY <2>1 DEF Protected
  <2>2. CASE Part(token, 1).v.kind # "empty"
    BY <1>2, <2>2 DEF Protected, IsHeaderMap, RepeatsLabel
  <2>3. QED
    BY <2>1, <2>2
<1>4. /\ \A l \in {LabelAlg, LabelContentType, LabelKid} : ~Has(unprotected, l)
      /\ Has(protected, LabelAlg) /\ Has(protected, LabelContentType) /\ Has(protected, LabelKid)
  BY <1>1, HeadersConform
<1>5. \A i, j \in Occurrences(protected, label) : i = j
  BY <1>3 DEF Occurrences, IsInt, SameLabel
<1>6. PICK i \in Occurrences(protected, label) : TRUE
  BY <1>4 DEF Has
<1>7. Occurrences(protected, label) = {i}
  BY <1>5, <1>6
<1>8. Cardinality(Occurrences(protected, label)) = 1
  BY <1>7, FS_Singleton
<1>9. QED
  BY <1>4, <1>8 DEF Has

\* Neither bucket of a parsed token has crit.
LEMMA NoCritOfParsed ==
  ASSUME NEW c, Parsed(c)
  PROVE  \A headers \in {Protected(Presented(c)), Unprotected(Presented(c))} :
           Occurrences(headers, LabelCrit) = {}
<1> DEFINE protected   == Protected(Presented(c))
           unprotected == Unprotected(Presented(c))
<1>1. HeaderFault(protected, unprotected) = Pass
  BY ParsePasses DEF Parsed, LocalFault
<1>2. ~Has(protected, LabelCrit) /\ ~Has(unprotected, LabelCrit)
  BY <1>1 DEF HeaderFault, Check, Pass, ??
<1>3. QED
  BY <1>2 DEF Has

\* What the local checks mean for a parsed token.
LEMMA BoundsOfParsed ==
  ASSUME NEW c, Parsed(c)
  PROVE  LET item   == PayloadItem(Presented(c))
             prefix == Field(item, KeyPrefix)
             iat    == Field(item, KeyIat)
             exp    == Field(item, KeyExp)
         IN  /\ Presented(c).size <= MaxTokenLen
             /\ iat \in Nat /\ exp \in Nat /\ exp - iat \in 1..MaxLifetimeSecs
             /\ call[c].at \in (iat - SkewSecs)..(exp + SkewSecs)
             /\ prefix.len \in MinPrefixLen..MaxPrefixLen
             /\ call[c].source \in Block(prefix)
             /\ \A range \in Ineligible \union IneligibleSourceRanges :
                  call[c].source \notin Block(range)
             /\ WideUnit(item) \in prefix.len..MaxPrefixLen
             /\ Pending(c).payload.unit = WideUnit(item)
             /\ Pending(c).payload.prefix = DecodePrefix(prefix)
             /\ IsAttestable(DecodePrefix(prefix))
<1> DEFINE item   == PayloadItem(Presented(c))
           prefix == Field(item, KeyPrefix)
           iat    == Field(item, KeyIat)
           exp    == Field(item, KeyExp)
           source == call[c].source
<1>1. /\ Presented(c).size <= MaxTokenLen
      /\ EnvelopeFault(Presented(c)) = Pass
      /\ RejectTaggedFields(item) = Pass /\ PayloadFault(item) = Pass
      /\ ConnectionFault(PayloadOf(item), source, call[c].at, Ineligible) = Pass
  BY ParsePasses DEF Parsed, LocalFault
<1>2. item.kind = "map" => DOMAIN item.v \subseteq Nat
  BY <1>1, ReceiverAssumption DEF Parsed, Called, Presented
<1>3. /\ IsAttestable(DecodePrefix(prefix))
      /\ iat \in 0..U64Max /\ exp \in 0..U64Max /\ exp - iat \in 1..MaxLifetimeSecs
      /\ WideUnit(item) \in prefix.len..MaxPrefixLen
      /\ PayloadOf(item).unit = WideUnit(item)
  BY <1>1, <1>2, PayloadBounds
<1>4. iat \in Nat /\ exp \in Nat
  BY <1>3, PayloadAssumption
<1>5. /\ PayloadOf(item).prefix = DecodePrefix(prefix)
      /\ PayloadOf(item).iat = iat /\ PayloadOf(item).exp = exp
  BY DEF PayloadOf
<1>6. source \in Ipv6Addr /\ call[c].at \in Int /\ Ineligible \in SUBSET Prefixes
  BY ReceiverAssumption DEF Parsed, Called
<1>7. /\ call[c].at \in (iat - SkewSecs)..(exp + SkewSecs)
      /\ source \in Block(DecodePrefix(prefix))
      /\ \A range \in Ineligible \union IneligibleSourceRanges : source \notin Block(range)
  BY <1>1, <1>3, <1>4, <1>5, <1>6, ConnectionBounds
<1>8. prefix.len \in MinPrefixLen..MaxPrefixLen
  BY <1>3 DEF IsAttestable, DecodePrefix
<1>9. source \in Block(prefix)
  BY <1>7 DEF Block, DecodePrefix
<1>10. Pending(c).payload = PayloadOf(item)
  BY DEF Pending, Unverified
<1>11. QED
  BY <1>1, <1>3, <1>4, <1>5, <1>7, <1>8, <1>9, <1>10

-----------------------------------------------------------------------------

\* Every variable has its type, in particular no reason leaves the vocabulary.
THEOREM TypeCorrect == Spec => []TypeOK
<1>1. ASSUME IInv, NEW c \in Conns
      PROVE  /\ stage[c] # "idle" => call[c] \in [token : Tokens, source : Sources, at : Int]
             /\ stage[c] \in {"idle", "parsed"} => answers[c] = <<>>
             /\ stage[c] \in {"policy_known", "authorized", "key_known"} =>
                  answers[c][1].answer \in PolicyAnswers \ {Unusable}
             /\ stage[c] = "key_known" =>
                  answers[c][2].answer \in KeyAnswers \ {Unusable, UnknownAlgorithm}
             /\ stage[c] = "done" =>
                  outcome[c].reason \in Reasons \union {Pass, "policy_record", "key_record"}
  <2>1. FlowInv(c)
    BY <1>1 DEF IInv
  <2>2. stage[c] # "idle" => call[c] \in [token : Tokens, source : Sources, at : Int]
    BY <2>1 DEF FlowInv, Ended, Parsed, PolicyRead, KeyRead, Called
  <2>3. stage[c] \in {"idle", "parsed"} => answers[c] = <<>>
    BY <2>1 DEF FlowInv
  <2>4. stage[c] \in {"policy_known", "authorized", "key_known"} =>
          Policy(c) \in PolicyAnswers \ {Unusable}
    BY <2>1 DEF FlowInv, PolicyRead, KeyRead, IsAuthorized
  <2>5. stage[c] = "key_known" => Key(c) \in KeyAnswers \ {Unusable, UnknownAlgorithm}
    BY <2>1 DEF FlowInv, KeyRead
  <2>6. ASSUME stage[c] = "done"
        PROVE  outcome[c].reason \in Reasons \union {Pass, "policy_record", "key_record"}
    <3>1. LocalFault(c) \in Reasons \union {Pass}
      BY ParseReason DEF LocalFault
    <3>2. AuthorizeFault(Pending(c), Policy(c)) \in Reasons \union {Pass}
      BY CheckReason, ChainReason DEF AuthorizeFault, Reasons
    <3>3. SignatureFault(Pending(c), Key(c)) \in Reasons \union {Pass}
      BY CheckReason DEF SignatureFault, Reasons
    <3>4. Ended(c)
      BY <2>1, <2>6 DEF FlowInv
    <3>5. QED
      BY <3>1, <3>2, <3>3, <3>4 DEF Ended, Reports, Failed
  <2>7. QED
    BY <2>2, <2>3, <2>4, <2>5, <2>6 DEF Policy, Key
<1>2. IInv => TypeOK
  BY <1>1 DEF IInv, EnvironmentInv, TypeOK
<1>3. QED
  BY <1>2, Invariant, PTL

\* No reader of a token that costs a query can take another claim from it.
THEOREM ClaimsCorrect == Spec => []ClaimsAreUnambiguous
<1>1. ASSUME IInv, NEW c \in Conns, Asked(c)
      PROVE  /\ \A k \in RequiredKeys : Cardinality(Occurrences(Entries(c), k)) = 1
             /\ Cardinality(Occurrences(Entries(c), KeyUnit)) <= 1
             /\ \A k \in DefinedKeys : \A val \in Values(c, k) :
                  val.kind \in {"int", "text", "bytes"}
             /\ \A label \in {LabelAlg, LabelContentType, LabelKid} :
                  /\ Cardinality(Occurrences(Protected(Decode[call[c].token]), label)) = 1
                  /\ Occurrences(Unprotected(Decode[call[c].token]), label) = {}
             /\ \A headers \in {Protected(Decode[call[c].token]),
                               Unprotected(Decode[call[c].token])} :
                  Occurrences(headers, LabelCrit) = {}
  <2>1. Parsed(c)
    BY <1>1, AskedMeansParsed
  <2>2. QED
    BY <2>1, WireOfParsed, HeadersOfParsed, NoCritOfParsed DEF Presented
<1>2. IInv => ClaimsAreUnambiguous
  BY <1>1 DEF ClaimsAreUnambiguous
<1>3. QED
  BY <1>2, Invariant, PTL

\* A token that fails a local check costs no query.
THEOREM LocalChecksFirst == Spec => []QueriesFollowLocalChecks
<1>1. ASSUME IInv, NEW c \in Conns, Asked(c)
      PROVE  LET source == call[c].source
                 prefix == TheOnly(c, KeyPrefix).v
                 iat    == TheOnly(c, KeyIat).v
                 exp    == TheOnly(c, KeyExp).v
             IN  /\ Decode[call[c].token].size <= MaxTokenLen
                 /\ exp - iat \in 1..MaxLifetimeSecs
                 /\ call[c].at \in (iat - SkewSecs)..(exp + SkewSecs)
                 /\ prefix.len \in MinPrefixLen..MaxPrefixLen
                 /\ source \in Block(prefix)
                 /\ \A range \in Ineligible \union IneligibleSourceRanges :
                      source \notin Block(range)
                 /\ \A unit \in Values(c, KeyUnit) : unit.v \in prefix.len..MaxPrefixLen
  <2> DEFINE item == PayloadItem(Presented(c))
  <2>1. Parsed(c)
    BY <1>1, AskedMeansParsed
  <2>2. {KeyPrefix, KeyIat, KeyExp} \subseteq RequiredKeys /\ KeyUnit \in DefinedKeys
    BY DEF RequiredKeys, DefinedKeys, KeyOperator, KeyRole, KeyPrefix, KeyUnit, KeyIat, KeyExp
  <2>3. /\ TheOnly(c, KeyPrefix).v = Field(item, KeyPrefix)
        /\ TheOnly(c, KeyIat).v = Field(item, KeyIat)
        /\ TheOnly(c, KeyExp).v = Field(item, KeyExp)
    BY <2>1, <2>2, WireOfParsed
  <2>4. \A unit \in Values(c, KeyUnit) : unit.v = WideUnit(item)
    <3>1. \A unit \in Values(c, KeyUnit) : unit.v = Field(item, KeyUnit)
      BY <2>1, <2>2, WireOfParsed
    <3>2. Values(c, KeyUnit) # {} => Occurrences(item.v, KeyUnit) # {}
      BY DEF Values, ValuesIn, Entries, Presented
    <3>3. QED
      BY <3>1, <3>2 DEF WideUnit
  <2>5. QED
    BY <2>1, <2>3, <2>4, BoundsOfParsed DEF Presented
<1>2. IInv => QueriesFollowLocalChecks
  BY <1>1 DEF QueriesFollowLocalChecks
<1>3. QED
  BY <1>2, Invariant, PTL

\* The same octets get past the local checks during a bounded time only.
THEOREM ReplayBounded == Spec => []ReplayWindowBounded
<1>1. ASSUME IInv, NEW c \in Conns, NEW d \in Conns, Asked(c), Asked(d),
             call[c].token = call[d].token
      PROVE  call[c].at - call[d].at <= MaxLifetimeSecs + 2 * SkewSecs
  <2> DEFINE iat == Field(PayloadItem(Presented(c)), KeyIat)
             exp == Field(PayloadItem(Presented(c)), KeyExp)
  <2>1. Parsed(c) /\ Parsed(d) /\ Presented(c) = Presented(d)
    BY <1>1, AskedMeansParsed DEF Presented
  <2>2. /\ iat \in Nat /\ exp \in Nat /\ exp - iat \in 1..MaxLifetimeSecs
        /\ call[c].at \in (iat - SkewSecs)..(exp + SkewSecs)
        /\ call[d].at \in (iat - SkewSecs)..(exp + SkewSecs)
    BY <2>1, BoundsOfParsed
  <2>3. QED
    BY <2>2, PayloadAssumption, TokenAssumption
<1>2. IInv => ReplayWindowBounded
  BY <1>1 DEF ReplayWindowBounded
<1>3. QED
  BY <1>2, Invariant, PTL

-----------------------------------------------------------------------------

\* What asking for the key means: the policy that was read authorizes the claim.
LEMMA KeyAskedMeansAuthorized ==
  ASSUME NEW c \in Conns, IInv, AskedForKey(c)
  PROVE  /\ KeyRead(c) /\ Parsed(c) /\ Policy(c) \in PolicyAnswers \ {Unusable}
         /\ answers[c][1] = PolicyQuery(c) /\ answers[c][2] = KeyQuery(c)
         /\ Authorizes(Policy(c), Pending(c).payload.prefix)
         /\ Policy(c).unit = Pending(c).payload.unit
<1>1. KeyRead(c) /\ answers[c][2] = KeyQuery(c)
  BY AskedMeansParsed
<1>2. /\ Parsed(c) /\ answers[c] = <<PolicyQuery(c), KeyQuery(c)>>
      /\ Policy(c) \in PolicyAnswers /\ IsAuthorized(c)
  BY <1>1 DEF KeyRead
<1>3. AuthorizeFault(Pending(c), Policy(c)) = Pass /\ Policy(c) # Unusable
  BY <1>2 DEF IsAuthorized
<1>4. /\ Check(Authorizes(Policy(c), Pending(c).payload.prefix), "unauthorized_prefix") = Pass
      /\ Check(Policy(c).unit = Pending(c).payload.unit, "policy_unit_mismatch") = Pass
  BY <1>3 DEF AuthorizeFault, ??
<1>5. QED
  BY <1>1, <1>2, <1>3, <1>4 DEF Check, Pass

\* The key is asked for a claim that an entry of the policy encloses, with the
\* unit it publishes.
THEOREM KeyAfterPolicy == Spec => []KeyQueriesFollowAuthorization
<1>1. ASSUME IInv, NEW c \in Conns, AskedForKey(c)
      PROVE  LET claim == TheOnly(c, KeyPrefix).v
             IN  /\ answers[c][1].name.operator = answers[c][2].name.operator
                 /\ \E i \in DOMAIN Policy(c).prefixes :
                      LET entry == Policy(c).prefixes[i]
                      IN  entry.len <= claim.len /\ claim.addr \in Block(entry)
                 /\ \A unit \in Values(c, KeyUnit) : Policy(c).unit = unit.v
                 /\ Values(c, KeyUnit) = {} => Policy(c).unit = DefaultUnit
  <2> DEFINE item  == PayloadItem(Presented(c))
             claim == Field(item, KeyPrefix)
  <2>1. /\ Parsed(c) /\ Authorizes(Policy(c), Pending(c).payload.prefix)
        /\ Policy(c).unit = Pending(c).payload.unit
        /\ answers[c][1] = PolicyQuery(c) /\ answers[c][2] = KeyQuery(c)
    BY <1>1, KeyAskedMeansAuthorized
  <2>2. KeyPrefix \in RequiredKeys /\ KeyUnit \in DefinedKeys
    BY DEF RequiredKeys, DefinedKeys, KeyOperator, KeyRole, KeyPrefix, KeyUnit, KeyIat, KeyExp
  <2>3. TheOnly(c, KeyPrefix).v = claim
    BY <2>1, <2>2, WireOfParsed
  <2>4. /\ call[c].source \in Block(claim) /\ Pending(c).payload.unit = WideUnit(item)
        /\ Pending(c).payload.prefix = DecodePrefix(claim)
    BY <2>1, BoundsOfParsed
  <2>5. /\ DecodePrefix(claim).addr = claim.addr /\ DecodePrefix(claim).len = claim.len
        /\ Block(DecodePrefix(claim)) = Block(claim)
    BY DEF DecodePrefix, Block
  <2>6. \E i \in DOMAIN Policy(c).prefixes :
          LET entry == Policy(c).prefixes[i]
          IN  entry.len <= claim.len /\ claim.addr \in Block(entry)
    BY <2>1, <2>4, <2>5, AuthorizingEntry
  <2>7. answers[c][1].name.operator = answers[c][2].name.operator
    BY <2>1 DEF PolicyQuery, KeyQuery
  <2>8. /\ \A unit \in Values(c, KeyUnit) : unit.v = Field(item, KeyUnit)
        /\ Values(c, KeyUnit) = {} <=> Occurrences(item.v, KeyUnit) = {}
    <3>1. \A unit \in Values(c, KeyUnit) : unit.v = Field(item, KeyUnit)
      BY <2>1, <2>2, WireOfParsed
    <3>2. QED
      BY <3>1 DEF Values, ValuesIn, Entries, Presented
  <2>9. /\ \A unit \in Values(c, KeyUnit) : Policy(c).unit = unit.v
        /\ Values(c, KeyUnit) = {} => Policy(c).unit = DefaultUnit
    BY <2>1, <2>4, <2>8 DEF WideUnit
  <2>10. QED
    BY <2>3, <2>6, <2>7, <2>9
<1>2. IInv => KeyQueriesFollowAuthorization
  BY <1>1 DEF KeyQueriesFollowAuthorization
<1>3. QED
  BY <1>2, Invariant, PTL

-----------------------------------------------------------------------------

\* What the end of a flow means: acceptance comes after every check on the
\* answers as they were given, and anything else reports no pass.
LEMMA DoneMeans ==
  ASSUME NEW c \in Conns, IInv, stage[c] = "done"
  PROVE  \/ /\ outcome[c].reason # Pass /\ outcome[c].result # "pass"
            /\ answers[c] # <<>> => PolicyRead(c) \/ KeyRead(c)
         \/ /\ KeyRead(c) /\ Key(c) \notin {Unusable, UnknownAlgorithm}
            /\ SignatureFault(Pending(c), Key(c)) = Pass
            /\ outcome[c] = [result |-> OutcomeResult(Authorized(Pending(c), Policy(c))),
                             reason |-> Pass,
                             verified |-> Verified(Authorized(Pending(c), Policy(c)))]
<1>1. Ended(c)
  BY DEF IInv, FlowInv
<1>2. \A fault : AuthResult(fault) # "pass"
  BY DEF AuthResult
<1>3. ASSUME NEW fault, Reports(c, fault)
      PROVE  outcome[c].reason # Pass /\ outcome[c].result # "pass"
  BY <1>2, <1>3 DEF Reports, Failed
<1>4. CASE Called(c) /\ answers[c] = <<>> /\ Reports(c, LocalFault(c))
  BY <1>3, <1>4
<1>5. CASE PolicyRead(c) /\ Policy(c) = Unusable /\ outcome[c] = Failed("permerror", "policy_record")
  BY <1>5 DEF Failed, Pass
<1>6. CASE /\ PolicyRead(c) /\ Policy(c) # Unusable
           /\ Reports(c, AuthorizeFault(Pending(c), Policy(c)))
  BY <1>3, <1>6
<1>7. CASE KeyRead(c) /\ Key(c) = Unusable /\ outcome[c] = Failed("permerror", "key_record")
  BY <1>7 DEF Failed, Pass
<1>8. CASE KeyRead(c) /\ Key(c) = UnknownAlgorithm /\ outcome[c] = Failed("none", "key_record")
  BY <1>8 DEF Failed, Pass
<1>9. CASE /\ KeyRead(c) /\ Key(c) \notin {Unusable, UnknownAlgorithm}
           /\ Reports(c, SignatureFault(Pending(c), Key(c)))
  BY <1>3, <1>9
<1>10. CASE /\ KeyRead(c) /\ Key(c) \notin {Unusable, UnknownAlgorithm}
            /\ SignatureFault(Pending(c), Key(c)) = Pass
            /\ outcome[c] = [result |-> OutcomeResult(Authorized(Pending(c), Policy(c))),
                             reason |-> Pass,
                             verified |-> Verified(Authorized(Pending(c), Policy(c)))]
  BY <1>10
<1>11. QED
  BY <1>1, <1>4, <1>5, <1>6, <1>7, <1>8, <1>9, <1>10 DEF Ended

\* A pass names an operator whose policy and key answer for this connection.
THEOREM PassAccountable == Spec => []PassIsAccountable
<1>1. ASSUME IInv, NEW c \in Conns, stage[c] = "done", outcome[c].result = "pass"
      PROVE  LET token     == Decode[call[c].token]
                 signature == Part(token, 4).v
                 operator  == Lowercase[TheOnly(c, KeyOperator).v]
             IN  /\ AskedForKey(c)
                 /\ answers[c][1].name.operator = operator
                 /\ answers[c][2].name.operator = operator
                 /\ outcome[c].verified.operator = operator
                 /\ ~Policy(c).testing
                 /\ \E i \in DOMAIN Policy(c).prefixes :
                      call[c].source \in Block(Policy(c).prefixes[i])
                 /\ signature.key = Key(c) /\ Key(c) \notin SmallOrderKeys
                 /\ signature.over = <<Part(token, 1).v, Part(token, 3).v>>
  <2> DEFINE item     == PayloadItem(Presented(c))
             operator == Lowercase[TheOnly(c, KeyOperator).v]
  <2>1. /\ KeyRead(c) /\ SignatureFault(Pending(c), Key(c)) = Pass
        /\ outcome[c] = [result |-> OutcomeResult(Authorized(Pending(c), Policy(c))),
                         reason |-> Pass,
                         verified |-> Verified(Authorized(Pending(c), Policy(c)))]
    BY <1>1, DoneMeans
  <2>2. AskedForKey(c)
    BY <2>1 DEF KeyRead, AskedForKey
  <2>3. /\ Parsed(c) /\ answers[c][1] = PolicyQuery(c) /\ answers[c][2] = KeyQuery(c)
        /\ Authorizes(Policy(c), Pending(c).payload.prefix)
    BY <1>1, <2>2, KeyAskedMeansAuthorized
  <2>4. KeyOperator \in RequiredKeys
    BY DEF RequiredKeys, DefinedKeys, KeyOperator, KeyUnit
  <2>5. Pending(c).payload.operator = operator
    BY <2>3, <2>4, WireOfParsed DEF Pending, Unverified, PayloadOf
  <2>6. /\ answers[c][1].name.operator = operator /\ answers[c][2].name.operator = operator
        /\ outcome[c].verified.operator = operator
    BY <2>1, <2>3, <2>5 DEF PolicyQuery, KeyQuery, Verified, Authorized
  <2>7. ~Policy(c).testing
    BY <1>1, <2>1 DEF OutcomeResult, Authorized
  <2>8. /\ call[c].source \in Block(Field(item, KeyPrefix))
        /\ Pending(c).payload.prefix = DecodePrefix(Field(item, KeyPrefix))
    BY <2>3, BoundsOfParsed
  <2>9. call[c].source \in Block(Pending(c).payload.prefix)
    BY <2>8 DEF Block, DecodePrefix
  <2>10. \E i \in DOMAIN Policy(c).prefixes :
           call[c].source \in Block(Policy(c).prefixes[i])
    BY <2>3, <2>9, AuthorizingEntry
  <2>11. Verifies(Key(c), ToBeSigned(Presented(c)), Part(Presented(c), 4).v)
    BY <2>1 DEF SignatureFault, Check, Pass, Pending, Unverified
  <2>12. /\ Part(Presented(c), 4).v.key = Key(c) /\ Key(c) \notin SmallOrderKeys
         /\ Part(Presented(c), 4).v.over = <<Part(Presented(c), 1).v, Part(Presented(c), 3).v>>
    BY <2>11 DEF Verifies, ToBeSigned, PayloadItem
  <2>13. QED
    BY <2>2, <2>6, <2>7, <2>10, <2>12 DEF Presented
<1>2. IInv => PassIsAccountable
  BY <1>1 DEF PassIsAccountable
<1>3. QED
  BY <1>2, Invariant, PTL

\* An operator in test mode never has a pass, one out of it is never held back.
THEOREM TestingNeverPasses == Spec => []TestingStakesNothing
<1>1. ASSUME IInv, NEW c \in Conns, stage[c] = "done", Asked(c)
      PROVE  /\ Policy(c).testing => outcome[c].result # "pass"
             /\ Accepted(c) =>
                  /\ outcome[c].result = (IF Policy(c).testing THEN "none" ELSE "pass")
                  /\ outcome[c].verified.testing = Policy(c).testing
                  /\ outcome[c].verified.rua = Policy(c).rua
  <2>1. CASE outcome[c].reason # Pass /\ outcome[c].result # "pass"
    BY <2>1 DEF Accepted
  <2>2. CASE outcome[c] = [result |-> OutcomeResult(Authorized(Pending(c), Policy(c))),
                           reason |-> Pass,
                           verified |-> Verified(Authorized(Pending(c), Policy(c)))]
    BY <2>2 DEF OutcomeResult, Authorized, Verified
  <2>3. QED
    BY <1>1, <2>1, <2>2, DoneMeans
<1>2. IInv => TestingStakesNothing
  BY <1>1 DEF TestingStakesNothing
<1>3. QED
  BY <1>2, Invariant, PTL

-----------------------------------------------------------------------------

\* The unit cut out of a source holds the addresses that share its first bits.
LEMMA UnitBlock ==
  ASSUME NEW source \in Ipv6Addr, NEW n \in 0..Width
  PROVE  /\ PrefixOf(source, n).len = n
         /\ Block(PrefixOf(source, n)) =
              {a \in Ipv6Addr : \A i \in 1..n : a[i] = source[i]}
<1>1. KeptBits(n) = 1..n /\ 1..n \subseteq 1..Width
  BY KeptBitsExact, PrefixAssumption
<1>2. \A i \in 1..n : Mask(source, n)[i] = source[i]
  BY <1>1 DEF Mask
<1>3. PrefixOf(source, n).len = n /\ PrefixOf(source, n).addr = Mask(source, n)
  BY DEF PrefixOf
<1> DEFINE agrees(a) == \A i \in 1..n : a[i] = source[i]
           masked(a) == \A i \in 1..n : a[i] = Mask(source, n)[i]
<1>4. Block(PrefixOf(source, n)) = {a \in Ipv6Addr : masked(a)}
  BY <1>3 DEF Block
<1>5. \A a \in Ipv6Addr : masked(a) <=> agrees(a)
  BY <1>2
<1>6. Block(PrefixOf(source, n)) = {a \in Ipv6Addr : agrees(a)}
  <2> HIDE DEF agrees, masked
  <2>1. QED
    BY <1>4, <1>5
<1>7. QED
  BY <1>3, <1>6

\* What an accepted connection reports.
LEMMA AcceptedMeans ==
  ASSUME NEW c \in Conns, IInv, Accepted(c)
  PROVE  LET prefix   == Field(PayloadItem(Presented(c)), KeyPrefix)
             verified == outcome[c].verified
         IN  /\ call[c].source \in Block(prefix) /\ verified.prefix = DecodePrefix(prefix)
             /\ prefix.len \in MinPrefixLen..MaxPrefixLen
             /\ verified.observed_unit = PrefixOf(call[c].source, ObservedUnitLen)
             /\ \E unit \in prefix.len..MaxPrefixLen :
                  verified.unit = PrefixOf(call[c].source, unit)
<1>1. /\ KeyRead(c)
      /\ outcome[c].verified = Verified(Authorized(Pending(c), Policy(c)))
  <2>1. stage[c] = "done" /\ outcome[c].reason = Pass
    BY DEF Accepted
  <2>2. /\ KeyRead(c)
        /\ outcome[c] = [result |-> OutcomeResult(Authorized(Pending(c), Policy(c))),
                         reason |-> Pass,
                         verified |-> Verified(Authorized(Pending(c), Policy(c)))]
    BY <2>1, DoneMeans
  <2>3. QED
    BY <2>2
<1>2. Parsed(c)
  BY <1>1 DEF KeyRead
<1>3. /\ outcome[c].verified.prefix = Pending(c).payload.prefix
      /\ outcome[c].verified.observed_unit = PrefixOf(call[c].source, ObservedUnitLen)
      /\ outcome[c].verified.unit = PrefixOf(call[c].source, Pending(c).payload.unit)
  BY <1>1 DEF Verified, Authorized, Pending, Unverified
<1>4. QED
  BY <1>2, <1>3, BoundsOfParsed

\* Two addresses have the same observed unit when they agree on its bits.
LEMMA ObservedMasks ==
  \A a, b : Mask(a, ObservedUnitLen) = Mask(b, ObservedUnitLen)
              <=> \A i \in 1..ObservedUnitLen : a[i] = b[i]
<1>1. ObservedUnitLen \in 0..Width
  BY PrefixAssumption, TokenAssumption
<1>2. QED
  BY <1>1, MaskAgreement

\* The reputation key depends on the source alone and lies inside the units asked
\* for and attested.
THEOREM ObservedUnitCorrect == Spec => []ObservedUnitIgnoresClaims
<1> USE PrefixAssumption, TokenAssumption
<1>1. ASSUME IInv, NEW c \in Conns, Accepted(c)
      PROVE  LET verified == outcome[c].verified
             IN  /\ call[c].source \in Block(verified.observed_unit)
                 /\ Block(verified.observed_unit) \subseteq Block(verified.unit)
                 /\ Block(verified.unit) \subseteq Block(verified.prefix)
                 /\ \A d \in {e \in Conns : Accepted(e)} :
                      verified.observed_unit = outcome[d].verified.observed_unit
                        <=> \A i \in 1..ObservedUnitLen : call[c].source[i] = call[d].source[i]
  <2> DEFINE prefix   == Field(PayloadItem(Presented(c)), KeyPrefix)
             verified == outcome[c].verified
             source   == call[c].source
             n        == ObservedUnitLen
  <2>1. PICK unit \in prefix.len..MaxPrefixLen : verified.unit = PrefixOf(source, unit)
    BY <1>1, AcceptedMeans
  <2>2. /\ source \in Block(prefix) /\ verified.prefix = DecodePrefix(prefix)
        /\ prefix.len \in MinPrefixLen..MaxPrefixLen
        /\ verified.observed_unit = PrefixOf(source, n)
    BY <1>1, AcceptedMeans
  <2>3. /\ source \in Ipv6Addr /\ n \in 0..Width /\ unit \in 0..Width
        /\ 1..unit \subseteq 1..n /\ 1..prefix.len \subseteq 1..unit
    BY <2>1, <2>2 DEF Block
  <2>4. /\ Block(verified.observed_unit) = {a \in Ipv6Addr : \A i \in 1..n : a[i] = source[i]}
        /\ Block(verified.unit) = {a \in Ipv6Addr : \A i \in 1..unit : a[i] = source[i]}
    <3>1. Block(PrefixOf(source, n)) = {a \in Ipv6Addr : \A i \in 1..n : a[i] = source[i]}
      BY ONLY <2>3, UnitBlock
    <3>2. Block(PrefixOf(source, unit)) = {a \in Ipv6Addr : \A i \in 1..unit : a[i] = source[i]}
      BY ONLY <2>3, UnitBlock
    <3>3. QED
      BY ONLY <2>1, <2>2, <3>1, <3>2
  <2>5. /\ \A i \in 1..prefix.len : source[i] = prefix.addr[i]
        /\ Block(verified.prefix) =
             {a \in Ipv6Addr : \A i \in 1..prefix.len : a[i] = prefix.addr[i]}
    BY <2>2 DEF Block, DecodePrefix
  <2>6. /\ source \in Block(verified.observed_unit)
        /\ Block(verified.observed_unit) \subseteq Block(verified.unit)
    BY <2>3, <2>4
  <2>7. Block(verified.unit) \subseteq Block(verified.prefix)
    <3>1. ASSUME NEW a \in Block(verified.unit), NEW i \in 1..prefix.len
          PROVE  a[i] = prefix.addr[i]
      BY <2>3, <2>4, <2>5, <3>1
    <3>2. QED
      BY <2>4, <2>5, <3>1
  <2>8. ASSUME NEW d \in Conns, Accepted(d)
        PROVE  verified.observed_unit = outcome[d].verified.observed_unit
                 <=> \A i \in 1..n : source[i] = call[d].source[i]
    <3>1. outcome[d].verified.observed_unit = PrefixOf(call[d].source, n)
      BY <1>1, <2>8, AcceptedMeans
    <3>2. Mask(source, n) = Mask(call[d].source, n)
            <=> \A i \in 1..n : source[i] = call[d].source[i]
      BY ObservedMasks
    <3>3. QED
      BY <2>2, <3>1, <3>2 DEF PrefixOf
  <2>9. QED
    BY <2>6, <2>7, <2>8
<1>2. IInv => ObservedUnitIgnoresClaims
  BY <1>1 DEF ObservedUnitIgnoresClaims
<1>3. QED
  BY <1>2, Invariant, PTL

-----------------------------------------------------------------------------

\* The ineligible list changes the result of the local checks only by its own
\* refusal.
LEMMA IneligibleOnly ==
  ASSUME NEW c, Called(c)
  PROVE  \/ LocalFault(c) = ParseFault(Presented(c), call[c].source, call[c].at, {})
         \/ /\ LocalFault(c) = "ineligible_source"
            /\ \E range \in Ineligible : call[c].source \in Block(range)
<1> DEFINE token   == Presented(c)
           source  == call[c].source
           payload == PayloadOf(PayloadItem(token))
           earlier == Check(token.size <= MaxTokenLen, "malformed")
                      ?? EnvelopeFault(token)
                      ?? HeaderFault(Protected(token), Unprotected(token))
                      ?? RejectTaggedFields(PayloadItem(token))
                      ?? PayloadFault(PayloadItem(token))
           own(list) == \A p \in list : ~Contains(p, source)
           rest == Check(call[c].at >= payload.iat - SkewSecs, "not_yet_valid")
           last == Check(call[c].at <= payload.exp + SkewSecs, "expired")
           off  == Check(Contains(payload.prefix, source), "off_prefix")
<1>1. \A list : ParseFault(token, source, call[c].at, list) =
                  earlier ?? ConnectionFault(payload, source, call[c].at, list)
  BY DEF ParseFault
<1>2. \A list : ConnectionFault(payload, source, call[c].at, list) =
                  Check(IsEligibleSource(source) /\ own(list), "ineligible_source")
                    ?? rest ?? last ?? off
  BY DEF ConnectionFault
<1>3. own({})
  OBVIOUS
<1>4. CASE own(Ineligible)
  <2>1. (IsEligibleSource(source) /\ own(Ineligible)) <=> (IsEligibleSource(source) /\ own({}))
    BY <1>3, <1>4
  <2>2. Check(IsEligibleSource(source) /\ own(Ineligible), "ineligible_source") =
          Check(IsEligibleSource(source) /\ own({}), "ineligible_source")
    BY <2>1 DEF Check
  <2>3. ConnectionFault(payload, source, call[c].at, Ineligible) =
          ConnectionFault(payload, source, call[c].at, {})
    BY <1>2, <2>2
  <2>4. QED
    BY <1>1, <2>3 DEF LocalFault
<1>5. CASE ~own(Ineligible)
  <2>1. PICK range \in Ineligible : Contains(range, source)
    BY <1>5
  <2>2. range.len \in 0..Width /\ source \in Ipv6Addr
    BY <2>1, ReceiverAssumption DEF Called, Prefixes
  <2>3. source \in Block(range)
    BY <2>1, <2>2, ContainsBlock
  <2>4. Check(IsEligibleSource(source) /\ own(Ineligible), "ineligible_source")
          = "ineligible_source"
    BY <1>5 DEF Check
  <2>5. ConnectionFault(payload, source, call[c].at, Ineligible) = "ineligible_source"
    BY <1>2, <2>4 DEF ??, Pass
  <2>6. CASE earlier = Pass
    BY <1>1, <2>1, <2>3, <2>5, <2>6 DEF LocalFault, ??
  <2>7. CASE earlier # Pass
    <3>1. \A fault : earlier ?? fault = earlier
      BY <2>7 DEF ??
    <3>2. QED
      BY <1>1, <3>1 DEF LocalFault
  <2>8. QED
    BY <2>6, <2>7
<1>6. QED
  BY <1>4, <1>5

\* The staged flow ends with the reason of the one-shot verify() on the records
\* it read.
THEOREM StagedIsOneShot == Spec => []OneShotAgrees
<1>1. ASSUME IInv, NEW c \in Conns, stage[c] = "done",
             outcome[c].reason \in Reasons \union {Pass}
      PROVE  LET policiesRead == IF Asked(c) THEN {Policy(c)} ELSE PolicyAnswers \ {Unusable}
                 keysRead     == IF AskedForKey(c) THEN {Key(c)}
                                   ELSE KeyAnswers \ {Unusable, UnknownAlgorithm}
             IN  \/ /\ outcome[c].reason = "ineligible_source"
                    /\ \E range \in Ineligible : call[c].source \in Block(range)
                 \/ \A policy \in policiesRead : \A key \in keysRead :
                      VerifyFault(Decode[call[c].token], key, policy, call[c].source, call[c].at)
                        = outcome[c].reason
  <2> DEFINE reason == outcome[c].reason
             local  == ParseFault(Presented(c), call[c].source, call[c].at, {})
             oneShot(policy, key) ==
               VerifyFault(Decode[call[c].token], key, policy, call[c].source, call[c].at)
             own == /\ LocalFault(c) = "ineligible_source"
                    /\ \E range \in Ineligible : call[c].source \in Block(range)
  <2>1. \A policy, key : oneShot(policy, key) =
          local ?? AuthorizeFault(Pending(c), policy) ?? SignatureFault(Pending(c), key)
    BY DEF VerifyFault, Presented, Pending
  <2>2. "policy_record" \notin Reasons \union {Pass} /\ "key_record" \notin Reasons \union {Pass}
    BY DEF Reasons, Pass
  <2>3. Ended(c)
    BY <1>1 DEF IInv, FlowInv
  <2>4. Called(c) => LocalFault(c) = local \/ own
    BY IneligibleOnly
  <2>5. own => LocalFault(c) # Pass
    BY DEF Pass
  <2>6. CASE Called(c) /\ answers[c] = <<>> /\ Reports(c, LocalFault(c))
    <3>1. reason = LocalFault(c) /\ reason # Pass
      BY <2>6 DEF Reports, Failed
    <3>2. CASE LocalFault(c) = local
      <4>1. \A policy, key : oneShot(policy, key) = reason
        BY <2>1, <3>1, <3>2 DEF ??
      <4>2. QED
        BY <4>1
    <3>3. CASE own
      BY <3>1, <3>3
    <3>4. QED
      BY <2>4, <2>6, <3>2, <3>3
  <2>7. CASE PolicyRead(c) /\ Policy(c) # Unusable /\ Reports(c, AuthorizeFault(Pending(c), Policy(c)))
    <3>1. reason = AuthorizeFault(Pending(c), Policy(c)) /\ reason # Pass
      BY <2>7 DEF Reports, Failed
    <3>2. Called(c) /\ LocalFault(c) = Pass /\ Asked(c)
      BY <2>7 DEF PolicyRead, Parsed, Asked
    <3>3. local = Pass
      BY <2>4, <2>5, <3>2
    <3>4. \A key : oneShot(Policy(c), key) = reason
      BY <2>1, <3>1, <3>3 DEF ??
    <3>5. QED
      BY <3>2, <3>4
  <2>8. CASE KeyRead(c) /\ reason = SignatureFault(Pending(c), Key(c))
    <3>1. /\ Called(c) /\ LocalFault(c) = Pass /\ Asked(c) /\ AskedForKey(c)
          /\ AuthorizeFault(Pending(c), Policy(c)) = Pass
      BY <2>8 DEF KeyRead, Parsed, IsAuthorized, Asked, AskedForKey
    <3>2. local = Pass
      BY <2>4, <2>5, <3>1
    <3>3. oneShot(Policy(c), Key(c)) = reason
      BY <2>1, <2>8, <3>1, <3>2 DEF ??
    <3>4. QED
      BY <3>1, <3>3
  <2>9. \/ Called(c) /\ answers[c] = <<>> /\ Reports(c, LocalFault(c))
        \/ PolicyRead(c) /\ Policy(c) # Unusable /\ Reports(c, AuthorizeFault(Pending(c), Policy(c)))
        \/ KeyRead(c) /\ reason = SignatureFault(Pending(c), Key(c))
    BY <1>1, <2>2, <2>3 DEF Ended, Failed, Reports
  <2>10. QED
    BY <2>6, <2>7, <2>8, <2>9
<1>2. IInv => OneShotAgrees
  BY <1>1 DEF OneShotAgrees
<1>3. QED
  BY <1>2, Invariant, PTL

-----------------------------------------------------------------------------

\* The form of a token, as the code and as the property name it.
FormSound(token) ==
  /\ token.size <= MaxTokenLen
  /\ EnvelopeFault(token) = Pass
  /\ HeaderFault(Protected(token), Unprotected(token)) = Pass
  /\ RejectTaggedFields(PayloadItem(token)) = Pass
  /\ PayloadFault(PayloadItem(token)) = Pass

FormFault(token) ==
  Check(token.size <= MaxTokenLen, "malformed")
  ?? EnvelopeFault(token)
  ?? HeaderFault(Protected(token), Unprotected(token))
  ?? RejectTaggedFields(PayloadItem(token))
  ?? PayloadFault(PayloadItem(token))

Blamed == {"bad_signature", "off_prefix", "expired", "not_yet_valid"}

\* No fault of the form of a token is among the four that are authentication
\* failures.
LEMMA FormIsNotBlamed ==
  ASSUME NEW token
  PROVE  /\ FormFault(token) \notin Blamed
         /\ FormFault(token) = Pass <=> FormSound(token)
<1>1. \A x, y : x \notin Blamed /\ y \notin Blamed => x ?? y \notin Blamed
  BY DEF ??
<1>2. \A x, y : (x ?? y = Pass) <=> (x = Pass /\ y = Pass)
  BY DEF ??
<1>3. \A p : /\ Check(p, "malformed") \notin Blamed
             /\ Check(p, "header_confusion") \notin Blamed
             /\ Check(p, "bad_content_type") \notin Blamed
             /\ Check(p, "bad_kid") \notin Blamed
             /\ Check(p, "bad_role") \notin Blamed
             /\ Check(p, "bad_prefix") \notin Blamed
             /\ Check(p, "bad_validity") \notin Blamed
             /\ Check(p, "lifetime_too_long") \notin Blamed
             /\ Check(p, "bad_unit") \notin Blamed
  BY DEF Check, Pass, Blamed
<1>4. EnvelopeFault(token) \notin Blamed
  BY <1>3 DEF EnvelopeFault
<1>5. HeaderFault(Protected(token), Unprotected(token)) \notin Blamed
  BY <1>1, <1>3 DEF HeaderFault
<1>6. \A item : /\ RejectTaggedFields(item) \notin Blamed
                /\ EntriesFault(item) \notin Blamed
  BY <1>3 DEF RejectTaggedFields, EntriesFault
<1>7. \A wire : PrefixFault(wire) \notin Blamed
  BY <1>1, <1>3 DEF PrefixFault
<1>8. \A iat, exp : ValidityFault(iat, exp) \notin Blamed
  BY <1>1, <1>3 DEF ValidityFault
<1>9. \A unit, len, role : UnitFault(unit, len, role) \notin Blamed
  BY <1>1, <1>3 DEF UnitFault
<1>10. PayloadFault(PayloadItem(token)) \notin Blamed
  BY <1>1, <1>3, <1>6, <1>7, <1>8, <1>9 DEF PayloadFault
<1>11. FormFault(token) \notin Blamed
  BY <1>1, <1>3, <1>4, <1>5, <1>6, <1>10 DEF FormFault
<1>12. (Check(token.size <= MaxTokenLen, "malformed") = Pass) <=> (token.size <= MaxTokenLen)
  BY DEF Check, Pass
<1>13. FormFault(token) = Pass <=> FormSound(token)
  BY <1>2, <1>12 DEF FormFault, FormSound
<1>14. QED
  BY <1>11, <1>13

\* An ordinary source that is early, late or off the prefix of a sound token.
ConnectionBlamed(c) ==
  /\ FormSound(Presented(c))
  /\ \A range \in Ineligible \union IneligibleSourceRanges :
       call[c].source \notin Block(range)
  /\ call[c].source \in Block(GlobalUnicast)
  /\ \/ call[c].at + SkewSecs < TheOnly(c, KeyIat).v
     \/ call[c].at > TheOnly(c, KeyExp).v + SkewSecs
     \/ call[c].source \notin Block(TheOnly(c, KeyPrefix).v)

\* The local checks end in an authentication failure exactly then.
LEMMA LocalBlame ==
  ASSUME NEW c, Called(c)
  PROVE  LocalFault(c) \in Blamed <=> ConnectionBlamed(c)
<1> DEFINE token   == Presented(c)
           item    == PayloadItem(token)
           payload == PayloadOf(item)
           source  == call[c].source
           at      == call[c].at
           ordinary == IsEligibleSource(source) /\ \A p \in Ineligible : ~Contains(p, source)
           rest == Check(at >= payload.iat - SkewSecs, "not_yet_valid")
                   ?? Check(at <= payload.exp + SkewSecs, "expired")
                   ?? Check(Contains(payload.prefix, source), "off_prefix")
           off == \/ ~(at >= payload.iat - SkewSecs) \/ ~(at <= payload.exp + SkewSecs)
                  \/ ~Contains(payload.prefix, source)
           connection == ConnectionFault(payload, source, at, Ineligible)
<1>1. LocalFault(c) = FormFault(token) ?? connection
  BY DEF LocalFault, ParseFault, FormFault
<1>2. CASE FormFault(token) # Pass
  <2>1. LocalFault(c) = FormFault(token)
    BY <1>1, <1>2 DEF ??
  <2>2. LocalFault(c) \notin Blamed /\ ~FormSound(token)
    BY <1>2, <2>1, FormIsNotBlamed
  <2>3. QED
    BY <2>2 DEF ConnectionBlamed
<1>3. CASE FormFault(token) = Pass
  <2>1. LocalFault(c) = connection
    BY <1>1, <1>3 DEF ??
  <2>2. FormSound(token)
    BY <1>3, FormIsNotBlamed
  <2>3. CASE ~ordinary
    <3>1. connection = "ineligible_source"
      BY <2>3 DEF ConnectionFault, Check, ??, Pass
    <3>2. connection \notin Blamed
      BY <3>1 DEF Blamed
    <3>3. source \in Ipv6Addr /\ GlobalUnicast.len \in 0..Width
      BY ReceiverAssumption, PrefixAssumption DEF Called, Prefixes
    <3>4. \A range \in Ineligible \union IneligibleSourceRanges : range.len \in 0..Width
      BY ReceiverAssumption, PrefixAssumption DEF IneligibleSourceRanges, Prefixes
    <3>5. ~(/\ \A range \in Ineligible \union IneligibleSourceRanges : source \notin Block(range)
            /\ source \in Block(GlobalUnicast))
      BY <2>3, <3>3, <3>4, ContainsBlock DEF IsEligibleSource
    <3>6. QED
      BY <2>1, <3>2, <3>5 DEF ConnectionBlamed
  <2>4. CASE ordinary
    <3>1. connection \in Blamed <=> off
      <4>1. connection = rest
        BY <2>4 DEF ConnectionFault, Check, ??, Pass
      <4>2. rest \in Blamed <=> off
        BY DEF Check, ??, Pass, Blamed
      <4>3. QED
        BY <4>1, <4>2
    <3>2. /\ source \in Ipv6Addr /\ at \in Int /\ GlobalUnicast.len \in 0..Width
          /\ \A range \in Ineligible \union IneligibleSourceRanges : range.len \in 0..Width
      BY ReceiverAssumption, PrefixAssumption
         DEF Called, Prefixes, IneligibleSourceRanges
    <3>3. /\ \A range \in Ineligible \union IneligibleSourceRanges : source \notin Block(range)
          /\ source \in Block(GlobalUnicast)
      BY <2>4, <3>2, ContainsBlock DEF IsEligibleSource
    <3>4. item.kind = "map" => DOMAIN item.v \subseteq Nat
      BY <2>2, ReceiverAssumption DEF Called, Presented, FormSound
    <3>5. /\ IsAttestable(DecodePrefix(Field(item, KeyPrefix)))
          /\ Field(item, KeyIat) \in Nat /\ Field(item, KeyExp) \in Nat
      <4>1. /\ IsAttestable(DecodePrefix(Field(item, KeyPrefix)))
            /\ Field(item, KeyIat) \in 0..U64Max /\ Field(item, KeyExp) \in 0..U64Max
        BY <2>2, <3>4, PayloadBounds DEF FormSound
      <4>2. QED
        BY <4>1, PayloadAssumption
    <3>6. /\ TheOnly(c, KeyPrefix).v = Field(item, KeyPrefix)
          /\ TheOnly(c, KeyIat).v = Field(item, KeyIat)
          /\ TheOnly(c, KeyExp).v = Field(item, KeyExp)
      <4>1. {KeyPrefix, KeyIat, KeyExp} \subseteq RequiredKeys
        BY DEF RequiredKeys, DefinedKeys, KeyOperator, KeyRole, KeyPrefix, KeyUnit, KeyIat, KeyExp
      <4>2. \A k \in RequiredKeys : TheOnly(c, k).v = Field(item, k)
        BY <2>2, WireOfPayload DEF FormSound
      <4>3. QED
        BY <4>1, <4>2
    <3>7. Contains(payload.prefix, source) <=> source \in Block(Field(item, KeyPrefix))
      <4>1. payload.prefix = DecodePrefix(Field(item, KeyPrefix))
        BY DEF PayloadOf
      <4>2. payload.prefix.len \in 0..Width
        BY <3>5, <4>1, PrefixAssumption DEF IsAttestable
      <4>3. Contains(payload.prefix, source) <=> source \in Block(payload.prefix)
        BY <3>2, <4>2, ContainsBlock
      <4>4. QED
        BY <4>1, <4>3 DEF Block, DecodePrefix
    <3>8. off <=> \/ at + SkewSecs < TheOnly(c, KeyIat).v
                  \/ at > TheOnly(c, KeyExp).v + SkewSecs
                  \/ source \notin Block(TheOnly(c, KeyPrefix).v)
      <4>1. payload.iat = Field(item, KeyIat) /\ payload.exp = Field(item, KeyExp)
        BY DEF PayloadOf
      <4>2. /\ ~(at >= payload.iat - SkewSecs) <=> at + SkewSecs < TheOnly(c, KeyIat).v
            /\ ~(at <= payload.exp + SkewSecs) <=> at > TheOnly(c, KeyExp).v + SkewSecs
        BY <3>2, <3>5, <3>6, <4>1, TokenAssumption
      <4>3. QED
        BY <3>6, <3>7, <4>2
    <3>9. QED
      BY <2>1, <2>2, <3>1, <3>3, <3>8 DEF ConnectionBlamed
  <2>5. QED
    BY <2>3, <2>4
<1>4. QED
  BY <1>2, <1>3

\* "fail" is reported exactly of an ordinary source that is early, late or off its
\* prefix and of an authorized token that is not signed by the key fetched.
THEOREM FailCorrect == Spec => []FailBlamesTheConnection
<1>1. ASSUME IInv, NEW c \in Conns, stage[c] = "done"
      PROVE  outcome[c].result = "fail" <=>
               \/ ConnectionBlamed(c)
               \/ /\ AskedForKey(c) /\ Key(c) \notin {Unusable, UnknownAlgorithm}
                  /\ ~Verifies(Key(c), ToBeSigned(Presented(c)), Part(Presented(c), 4).v)
  <2> DEFINE unsigned == ~Verifies(Key(c), ToBeSigned(Presented(c)), Part(Presented(c), 4).v)
             usable   == Key(c) \notin {Unusable, UnknownAlgorithm}
             failed   == outcome[c].result = "fail"
             goal     == failed <=> ConnectionBlamed(c) \/ (AskedForKey(c) /\ usable /\ unsigned)
  <2>1. Ended(c)
    BY <1>1 DEF IInv, FlowInv
  <2>2. \A fault : AuthResult(fault) = "fail" <=> fault \in Blamed
    BY DEF AuthResult, Blamed
  <2>3. \A fault : Reports(c, fault) => (failed <=> fault \in Blamed)
    BY <2>2 DEF Reports, Failed
  <2>4. Pass \notin Blamed
    BY DEF Pass, Blamed
  <2>5. Parsed(c) => ~ConnectionBlamed(c)
    BY <2>4, LocalBlame DEF Parsed
  <2>6. PolicyRead(c) => ~AskedForKey(c) /\ ~ConnectionBlamed(c)
    BY <2>5 DEF PolicyRead, AskedForKey
  <2>7. KeyRead(c) => AskedForKey(c) /\ ~ConnectionBlamed(c)
    BY <2>5 DEF KeyRead, AskedForKey
  <2>8. /\ unsigned => SignatureFault(Pending(c), Key(c)) = "bad_signature"
        /\ ~unsigned => SignatureFault(Pending(c), Key(c)) = Pass
    BY DEF SignatureFault, Check, Pending, Unverified
  <2>9. CASE Called(c) /\ answers[c] = <<>> /\ Reports(c, LocalFault(c))
    <3>1. failed <=> ConnectionBlamed(c)
      BY <2>3, <2>9, LocalBlame
    <3>2. ~AskedForKey(c)
      BY <2>9 DEF AskedForKey
    <3>3. QED
      BY <3>1, <3>2
  <2>10. CASE /\ PolicyRead(c) /\ Policy(c) = Unusable
              /\ outcome[c] = Failed("permerror", "policy_record")
    <3>1. ~failed
      BY <2>10 DEF Failed
    <3>2. QED
      BY <2>6, <2>10, <3>1
  <2>11. CASE /\ PolicyRead(c) /\ Policy(c) # Unusable
              /\ Reports(c, AuthorizeFault(Pending(c), Policy(c)))
    <3>1. AuthorizeFault(Pending(c), Policy(c)) \notin Blamed
      BY <2>4 DEF AuthorizeFault, Check, ??, Blamed, Pass
    <3>2. ~failed
      BY <2>3, <2>11, <3>1
    <3>3. QED
      BY <2>6, <2>11, <3>2
  <2>12. CASE KeyRead(c) /\ Key(c) = Unusable /\ outcome[c] = Failed("permerror", "key_record")
    <3>1. ~failed
      BY <2>12 DEF Failed
    <3>2. QED
      BY <2>7, <2>12, <3>1
  <2>13. CASE KeyRead(c) /\ Key(c) = UnknownAlgorithm /\ outcome[c] = Failed("none", "key_record")
    <3>1. ~failed
      BY <2>13 DEF Failed
    <3>2. QED
      BY <2>7, <2>13, <3>1
  <2>14. CASE KeyRead(c) /\ usable /\ Reports(c, SignatureFault(Pending(c), Key(c)))
    <3>1. unsigned /\ SignatureFault(Pending(c), Key(c)) = "bad_signature"
      BY <2>8, <2>14 DEF Reports
    <3>2. failed
      BY <2>3, <2>14, <3>1 DEF Blamed
    <3>3. QED
      BY <2>7, <2>14, <3>1, <3>2
  <2>15. CASE /\ KeyRead(c) /\ usable /\ SignatureFault(Pending(c), Key(c)) = Pass
              /\ outcome[c] = [result |-> OutcomeResult(Authorized(Pending(c), Policy(c))),
                               reason |-> Pass,
                               verified |-> Verified(Authorized(Pending(c), Policy(c)))]
    <3>1. ~unsigned
      BY <2>8, <2>15 DEF Pass
    <3>2. ~failed
      BY <2>15 DEF OutcomeResult
    <3>3. QED
      BY <2>7, <2>15, <3>1, <3>2
  <2>16. goal
    BY <2>1, <2>9, <2>10, <2>11, <2>12, <2>13, <2>14, <2>15 DEF Ended
  <2>17. QED
    BY <2>16
<1>2. IInv => FailBlamesTheConnection
  BY <1>1 DEF FailBlamesTheConnection, ConnectionBlamed, FormSound, Presented
<1>3. QED
  BY <1>2, Invariant, PTL

\* "none" is reported exactly where an operator declares it: in the policy this
\* flow read, by t=y, or in its key record, by another algorithm (NoneIsDeclared).
THEOREM NoneCorrect == Spec => []NoneIsDeclared
<1>1. ASSUME IInv, NEW c \in Conns, stage[c] = "done"
      PROVE  /\ outcome[c].result = "none" <=>
                  /\ AskedForKey(c)
                  /\ \/ Key(c) = UnknownAlgorithm
                     \/ /\ Key(c) # Unusable /\ Policy(c).testing
                        /\ Verifies(Key(c), ToBeSigned(Presented(c)), Part(Presented(c), 4).v)
             /\ Asked(c) => (outcome[c].result = "permerror"
                               <=> ~AskedForKey(c) \/ Key(c) = Unusable)
  <2> DEFINE signed   == Verifies(Key(c), ToBeSigned(Presented(c)), Part(Presented(c), 4).v)
             result   == outcome[c].result
             declared == /\ AskedForKey(c)
                         /\ \/ Key(c) = UnknownAlgorithm
                            \/ Key(c) # Unusable /\ Policy(c).testing /\ signed
             spoiled  == ~AskedForKey(c) \/ Key(c) = Unusable
             goal     == /\ result = "none" <=> declared
                         /\ Asked(c) => (result = "permerror" <=> spoiled)
  <2>1. Ended(c)
    BY <1>1 DEF IInv, FlowInv
  <2>2. \A fault : Reports(c, fault) => result = AuthResult(fault) /\ result # "none"
    BY DEF Reports, Failed, AuthResult
  <2>3. /\ signed <=> SignatureFault(Pending(c), Key(c)) = Pass
        /\ ~signed <=> SignatureFault(Pending(c), Key(c)) = "bad_signature"
    BY DEF SignatureFault, Check, Pending, Unverified, Pass
  <2>4. PolicyRead(c) => Asked(c) /\ ~AskedForKey(c)
    BY DEF PolicyRead, Asked, AskedForKey
  <2>5. KeyRead(c) => Asked(c) /\ AskedForKey(c)
    BY DEF KeyRead, Asked, AskedForKey
  <2>6. CASE Called(c) /\ answers[c] = <<>> /\ Reports(c, LocalFault(c))
    <3>1. ~Asked(c) /\ ~AskedForKey(c)
      BY <2>6 DEF Asked, AskedForKey
    <3>2. QED
      BY <2>2, <2>6, <3>1
  <2>7. CASE PolicyRead(c) /\ Policy(c) = Unusable /\ outcome[c] = Failed("permerror", "policy_record")
    BY <2>4, <2>7 DEF Failed
  <2>8. CASE /\ PolicyRead(c) /\ Policy(c) # Unusable
             /\ Reports(c, AuthorizeFault(Pending(c), Policy(c)))
    <3>1. AuthorizeFault(Pending(c), Policy(c)) # Pass =>
            AuthResult(AuthorizeFault(Pending(c), Policy(c))) = "permerror"
      BY DEF AuthorizeFault, Check, ??, AuthResult
    <3>2. result = "permerror"
      BY <2>2, <2>8, <3>1 DEF Reports
    <3>3. QED
      BY <2>4, <2>8, <3>2
  <2>9. CASE KeyRead(c) /\ Key(c) = Unusable /\ outcome[c] = Failed("permerror", "key_record")
    BY <2>5, <2>9, AnswersAssumption DEF Failed
  <2>10. CASE KeyRead(c) /\ Key(c) = UnknownAlgorithm /\ outcome[c] = Failed("none", "key_record")
    BY <2>5, <2>10, AnswersAssumption DEF Failed
  <2>11. CASE /\ KeyRead(c) /\ Key(c) \notin {Unusable, UnknownAlgorithm}
              /\ Reports(c, SignatureFault(Pending(c), Key(c)))
    <3>1. ~signed /\ result = AuthResult("bad_signature")
      BY <2>2, <2>3, <2>11 DEF Reports
    <3>2. result = "fail"
      BY <3>1 DEF AuthResult
    <3>3. QED
      BY <2>5, <2>11, <3>1, <3>2
  <2>12. CASE /\ KeyRead(c) /\ Key(c) \notin {Unusable, UnknownAlgorithm}
              /\ SignatureFault(Pending(c), Key(c)) = Pass
              /\ outcome[c] = [result |-> OutcomeResult(Authorized(Pending(c), Policy(c))),
                               reason |-> Pass,
                               verified |-> Verified(Authorized(Pending(c), Policy(c)))]
    <3>1. signed
      BY <2>3, <2>12
    <3>2. result = (IF Policy(c).testing THEN "none" ELSE "pass")
      BY <2>12 DEF OutcomeResult, Authorized
    <3>3. QED
      BY <2>5, <2>12, <3>1, <3>2
  <2>13. goal
    BY <2>1, <2>6, <2>7, <2>8, <2>9, <2>10, <2>11, <2>12 DEF Ended
  <2>14. QED
    BY <2>13
<1>2. IInv => NoneIsDeclared
  BY <1>1 DEF NoneIsDeclared, Presented
<1>3. QED
  BY <1>2, Invariant, PTL

-----------------------------------------------------------------------------
(* The converse: a token an honest operator wrote meets no fault.  Here the  *)
(* checks are shown to pass, from the claim on the wire alone.               *)

\* A base without bits behind the length is its own mask.
LEMMA ZeroTailIsCanonical ==
  ASSUME NEW p, p.len \in 0..Width, p.addr \in Ipv6Addr,
         \A i \in (p.len + 1)..Width : p.addr[i] = 0
  PROVE  IsCanonical(p)
<1>1. KeptBits(p.len) = 1..p.len
  BY KeptBitsExact
<1>2. \A i \in 1..Width : (IF i \in 1..p.len THEN p.addr[i] ELSE 0) = p.addr[i]
  BY PrefixAssumption
<1>3. p.addr = [i \in 1..Width |-> p.addr[i]]
  BY DEF Ipv6Addr
<1>4. QED
  BY <1>1, <1>2, <1>3 DEF IsCanonical, Mask

\* What may be attested, in sets of addresses.
LEMMA AttestableByBlocks ==
  ASSUME NEW p \in Prefixes, p.len \in MinPrefixLen..MaxPrefixLen,
         \A i \in (p.len + 1)..Width : p.addr[i] = 0,
         Block(p) \subseteq Block(GlobalUnicast),
         \A range \in {Teredo, SixToFour} : Block(p) \intersect Block(range) = {}
  PROVE  IsAttestable(p)
<1>1. /\ p.len \in 0..Width /\ p.addr \in Ipv6Addr
      /\ GlobalUnicast \in Prefixes /\ Teredo \in Prefixes /\ SixToFour \in Prefixes
  BY PrefixAssumption DEF Prefixes
<1>2. IsCanonical(p)
  BY <1>1, ZeroTailIsCanonical
<1>3. p.addr \in Block(p)
  BY <1>1 DEF Block
<1>4. Contains(GlobalUnicast, p.addr)
  BY <1>1, <1>3, BlockIsContained
<1>5. ASSUME NEW range \in {Teredo, SixToFour}
      PROVE  ~Overlaps(p, range)
  <2>1. range \in Prefixes /\ Block(p) \intersect Block(range) = {}
    BY <1>1
  <2>2. QED
    BY <2>1, BlockIsContained, OverlapsSharedAddress
<1>6. QED
  BY <1>2, <1>4, <1>5 DEF IsAttestable

\* An attestable entry covers what it includes.
LEMMA CoversByBlocks ==
  ASSUME NEW p \in Prefixes, NEW entry, IsAttestable(entry), Block(p) \subseteq Block(entry)
  PROVE  Covers(entry, p)
<1>1. p.addr \in Ipv6Addr /\ p.len \in 0..Width
  BY DEF Prefixes
<1>2. p.addr \in Block(entry)
  BY <1>1 DEF Block
<1>3. entry.len \in 0..Width /\ IsCanonical(entry)
  BY PrefixAssumption DEF IsAttestable
<1>4. entry.addr \in Ipv6Addr
  BY <1>2, <1>3, BaseIsAddress
<1>5. Contains(entry, p.addr)
  BY <1>1, <1>2, <1>3, ContainsBlock
<1>6. ~(p.len < entry.len)
  <2> DEFINE q == [addr |-> entry.addr, len |-> entry.len]
  <2>1. q \in Prefixes
    BY <1>3, <1>4 DEF Prefixes
  <2>2. Block(q) = Block(entry)
    BY DEF Block
  <2>3. QED
    BY <2>1, <2>2, ShorterEscapes
<1>7. p.len >= entry.len
  BY <1>1, <1>3, <1>6
<1>8. QED
  BY <1>5, <1>7 DEF Covers

\* What the protected headers say is what get() finds.
LEMMA SaidIsGot ==
  ASSUME NEW c, PlainEnvelope(Presented(c)), NEW label, NEW kind, kind # "bignum", NEW values,
         Says(Protected(Presented(c)), label, kind, values)
  PROVE  LET protected == Protected(Presented(c))
         IN  /\ Has(protected, label)
             /\ Get(protected, label).kind = kind /\ Get(protected, label).v \in values
<1> DEFINE token     == Presented(c)
           protected == Protected(token)
<1>1. PICK i \in DOMAIN protected :
        /\ protected[i].key.kind = "int" /\ protected[i].key.v = label
        /\ protected[i].val.kind = kind /\ protected[i].val.v \in values
  BY DEF Says
<1>2. EnvelopeFault(token) = Pass
  BY DEF PlainEnvelope
<1>3. Part(token, 1).v.kind = "empty" \/ IsHeaderMap(Part(token, 1).v)
  BY <1>2 DEF EnvelopeFault, Check, Pass
<1>4. \A j, k \in DOMAIN protected : SameLabel(protected[j].key, protected[k].key) => j = k
  <2>1. CASE Part(token, 1).v.kind = "empty"
    BY <2>1 DEF Protected
  <2>2. CASE Part(token, 1).v.kind # "empty"
    BY <1>3, <2>2 DEF Protected, IsHeaderMap, RepeatsLabel
  <2>3. QED
    BY <2>1, <2>2
<1>5. i \in Occurrences(protected, label)
  BY <1>1 DEF Occurrences, IsInt, AsValue
<1>6. \A j \in Occurrences(protected, label) : j = i
  BY <1>4, <1>5 DEF Occurrences, IsInt, SameLabel
<1>7. (CHOOSE j \in Occurrences(protected, label) : TRUE) = i
  BY <1>5, <1>6
<1>8. Get(protected, label) = protected[i].val
  BY <1>1, <1>7 DEF Get, AsValue
<1>9. QED
  BY <1>1, <1>5, <1>8 DEF Has

\* Headers as the draft has them pass check_headers.
LEMMA PlainHeadersPass ==
  ASSUME NEW c, PlainEnvelope(Presented(c))
  PROVE  HeaderFault(Protected(Presented(c)), Unprotected(Presented(c))) = Pass
<1> DEFINE protected   == Protected(Presented(c))
           unprotected == Unprotected(Presented(c))
<1>1. /\ unprotected = <<>>
      /\ \A i \in DOMAIN protected :
           /\ protected[i].key.kind \in {"int", "text"}
           /\ protected[i].key.kind = "int" => protected[i].key.v # LabelCrit
  BY DEF PlainEnvelope, PlainHeaders
<1>2. ~Has(protected, LabelCrit)
  BY <1>1 DEF Has, Occurrences, IsInt, AsValue
<1>3. \A label : ~Has(unprotected, label)
  BY <1>1 DEF Has, Occurrences
<1>4. \A i \in DOMAIN unprotected : FALSE
  BY <1>1
<1>5. /\ Has(protected, LabelAlg)
      /\ Get(protected, LabelAlg).kind = "int"
      /\ Get(protected, LabelAlg).v \in {AlgEdDSA, AlgEd25519}
  BY SaidIsGot DEF PlainEnvelope, PlainHeaders
<1>6. IsInt(Get(protected, LabelAlg), AlgEdDSA) \/ IsInt(Get(protected, LabelAlg), AlgEd25519)
  BY <1>5 DEF IsInt, AsValue
<1>7. HasText(protected, LabelContentType, ContentType)
  <2>1. /\ Has(protected, LabelContentType)
        /\ Get(protected, LabelContentType).kind = "text"
        /\ Get(protected, LabelContentType).v \in {ContentType}
    BY SaidIsGot DEF PlainEnvelope, PlainHeaders
  <2>2. QED
    BY <2>1 DEF HasText
<1>8. /\ Has(protected, LabelKid)
      /\ Get(protected, LabelKid).kind = "bytes"
      /\ Get(protected, LabelKid).v \in SelectorLabels
  BY SaidIsGot DEF PlainEnvelope, PlainHeaders
<1>9. QED
  BY <1>2, <1>3, <1>4, <1>5, <1>6, <1>7, <1>8 DEF HeaderFault, Check, ??

\* Of plain entries both decoders keep the value every reader finds.
LEMMA PlainValues ==
  ASSUME NEW c, Called(c), PlainEnvelope(Presented(c)), PlainEntries(c),
         DistinctIntKeys(Entries(c))
  PROVE  LET item == PayloadItem(Presented(c))
         IN  /\ HasIntegerKeys(item) /\ ~RepeatsLabel(item.v)
             /\ \A k : Values(c, k) = {} <=> Occurrences(item.v, k) = {}
             /\ \A k : \A i \in Occurrences(item.v, k) :
                  item.v[i].val = TheOnly(c, k) /\ LastValue(item, k) = TheOnly(c, k)
<1> DEFINE item == PayloadItem(Presented(c))
<1>1. Entries(c) = item.v
  BY DEF Entries, Presented
<1>2. /\ item.kind = "map"
      /\ \A i \in DOMAIN item.v : item.v[i].key.kind = "int"
      /\ \A i, j \in DOMAIN item.v : item.v[i].key.v = item.v[j].key.v => i = j
  BY <1>1 DEF DistinctIntKeys, PlainEntries, Presented
<1>3. DOMAIN item.v \subseteq Nat
  BY <1>2, ReceiverAssumption DEF PlainEnvelope, Called, Presented
<1>4. \A i \in DOMAIN item.v : AsValue(item.v[i].key) = item.v[i].key
  BY <1>2 DEF AsValue
<1>5. HasIntegerKeys(item) /\ ~RepeatsLabel(item.v)
  BY <1>2, <1>4 DEF HasIntegerKeys, RepeatsLabel, SameLabel
<1>6. ASSUME NEW k
      PROVE  Values(c, k) = {} <=> Occurrences(item.v, k) = {}
  BY <1>1 DEF Values, ValuesIn
<1>7. ASSUME NEW k, NEW i \in Occurrences(item.v, k)
      PROVE  item.v[i].val = TheOnly(c, k) /\ LastValue(item, k) = TheOnly(c, k)
  <2>1. \A j \in Occurrences(item.v, k) : j = i
    BY <1>2, <1>4 DEF Occurrences, IsInt
  <2>2. Values(c, k) = {item.v[i].val}
    BY <1>1, <2>1 DEF Values, ValuesIn
  <2>3. TheOnly(c, k) = item.v[i].val
    BY <2>2 DEF TheOnly
  <2>4. i \in Nat
    BY <1>3 DEF Occurrences
  <2>5. \A j \in Occurrences(item.v, k) : j <= i
    BY <2>1, <2>4
  <2>6. (CHOOSE m \in Occurrences(item.v, k) : \A j \in Occurrences(item.v, k) : j <= m) = i
    BY <2>1, <2>5
  <2>7. LastValue(item, k) = item.v[i].val
    BY <2>6 DEF LastValue
  <2>8. QED
    BY <2>3, <2>7
<1>8. QED
  BY <1>5, <1>6, <1>7

\* An untagged value of its type reads as defined.
LEMMA PlainReads ==
  ASSUME NEW k \in DefinedKeys, NEW val,
         k \in {KeyOperator, KeyRole} => val.kind = "text",
         k = KeyPrefix => val.kind = "bytes",
         k \in {KeyUnit, KeyIat, KeyExp} => val.kind = "int" /\ val.v \in 0..U64Max
  PROVE  ReadsAsDefined(k, val) /\ AsValue(val) = val /\ ~IsTagged(val)
<1>1. \/ k \in {KeyOperator, KeyRole} \/ k = KeyPrefix \/ k \in {KeyUnit, KeyIat, KeyExp}
  BY DEF DefinedKeys
<1>2. val.kind \in {"int", "text", "bytes"}
  BY <1>1
<1>3. AsValue(val) = val /\ ~IsTagged(val)
  BY <1>2 DEF AsValue, IsTagged
<1>4. CASE k \in {KeyOperator, KeyRole}
  <2>1. (k \in {KeyOperator, KeyRole}) /\ AsValue(val).kind = "text"
    BY <1>3, <1>4
  <2>2. k # KeyPrefix /\ k \notin {KeyUnit, KeyIat, KeyExp}
    BY <1>4 DEF KeyOperator, KeyRole, KeyPrefix, KeyUnit, KeyIat, KeyExp
  <2>3. ReadsAsDefined(k, val)
    BY <2>1, <2>2 DEF ReadsAsDefined
  <2>4. QED
    BY <1>3, <2>3
<1>5. CASE k = KeyPrefix
  <2>1. AsValue(val).kind = "bytes"
    BY <1>3, <1>5
  <2>2. k \notin {KeyOperator, KeyRole} /\ k \notin {KeyUnit, KeyIat, KeyExp}
    BY <1>5 DEF KeyOperator, KeyRole, KeyPrefix, KeyUnit, KeyIat, KeyExp
  <2>3. ReadsAsDefined(k, val)
    BY <1>5, <2>1, <2>2 DEF ReadsAsDefined
  <2>4. QED
    BY <1>3, <2>3
<1>6. CASE k \in {KeyUnit, KeyIat, KeyExp}
  <2>1. AsValue(val).kind = "int" /\ AsValue(val).v \in 0..U64Max
    BY <1>3, <1>6
  <2>2. k \notin {KeyOperator, KeyRole} /\ k # KeyPrefix
    BY <1>6 DEF KeyOperator, KeyRole, KeyPrefix, KeyUnit, KeyIat, KeyExp
  <2>3. ReadsAsDefined(k, val)
    BY <1>6, <2>1, <2>2 DEF ReadsAsDefined
  <2>4. QED
    BY <1>3, <2>3
<1>7. QED
  BY <1>1, <1>4, <1>5, <1>6

\* What the claim has under each key, as the decoders read it.
LEMMA PlainFields ==
  ASSUME NEW c, Called(c), Conforms(c)
  PROVE  LET item == PayloadItem(Presented(c))
         IN  /\ \A k \in RequiredKeys : Occurrences(item.v, k) # {}
             /\ \A k \in RequiredKeys : Field(item, k) = TheOnly(c, k).v
             /\ \A k \in DefinedKeys : \A i \in Occurrences(item.v, k) :
                  /\ ReadsAsDefined(k, item.v[i].val) /\ ~IsTagged(item.v[i].val)
                  /\ LastValue(item, k) = item.v[i].val
             /\ WideUnit(item) = SignedUnit(c)
<1> DEFINE item == PayloadItem(Presented(c))
<1>1. /\ \A k : Values(c, k) = {} <=> Occurrences(item.v, k) = {}
      /\ \A k : \A i \in Occurrences(item.v, k) :
           item.v[i].val = TheOnly(c, k) /\ LastValue(item, k) = TheOnly(c, k)
  BY PlainValues DEF Conforms, Presented
<1>2. \A k \in RequiredKeys : Occurrences(item.v, k) # {}
  BY <1>1 DEF Conforms, PlainEntries
<1>3. Values(c, KeyUnit) # {} => TheOnly(c, KeyUnit).kind = "int"
  BY DEF Conforms, TheOnly, PlainEntries
<1>4. /\ \A k \in {KeyOperator, KeyRole} : TheOnly(c, k).kind = "text"
      /\ TheOnly(c, KeyPrefix).kind = "bytes"
      /\ \A k \in {KeyIat, KeyExp} : TheOnly(c, k).kind = "int" /\ TheOnly(c, k).v \in 0..U64Max
  BY DEF Conforms, PlainEntries, ClaimHolds
<1>5. Values(c, KeyUnit) # {} => TheOnly(c, KeyUnit).v \in 0..U64Max
  <2>1. /\ SignedUnit(c) \in TheOnly(c, KeyPrefix).v.len..MaxPrefixLen
        /\ TheOnly(c, KeyPrefix).v.len \in MinPrefixLen..MaxPrefixLen
    BY DEF Conforms, ClaimHolds
  <2>2. SignedUnit(c) \in 0..U64Max
    BY <2>1, PrefixAssumption, PayloadAssumption
  <2>3. QED
    BY <2>2 DEF SignedUnit
<1>6. ASSUME NEW k \in DefinedKeys, NEW i \in Occurrences(item.v, k)
      PROVE  /\ ReadsAsDefined(k, TheOnly(c, k)) /\ AsValue(TheOnly(c, k)) = TheOnly(c, k)
             /\ ~IsTagged(TheOnly(c, k))
  <2>1. k = KeyUnit => Values(c, KeyUnit) # {}
    BY <1>1
  <2>2. PICK val : val = TheOnly(c, k)
    OBVIOUS
  <2>3. /\ k \in {KeyOperator, KeyRole} => val.kind = "text"
        /\ k = KeyPrefix => val.kind = "bytes"
        /\ k \in {KeyUnit, KeyIat, KeyExp} => val.kind = "int" /\ val.v \in 0..U64Max
    BY <1>3, <1>4, <1>5, <2>1, <2>2
  <2>4. QED
    BY <2>2, <2>3, PlainReads
<1>7. ASSUME NEW k \in DefinedKeys, NEW i \in Occurrences(item.v, k)
      PROVE  /\ ReadsAsDefined(k, item.v[i].val) /\ ~IsTagged(item.v[i].val)
             /\ LastValue(item, k) = item.v[i].val
             /\ Field(item, k) = TheOnly(c, k).v
  <2>1. item.v[i].val = TheOnly(c, k) /\ LastValue(item, k) = TheOnly(c, k)
    BY <1>1
  <2>2. QED
    BY <1>6, <2>1 DEF Field
<1>8. RequiredKeys \subseteq DefinedKeys /\ KeyUnit \in DefinedKeys
  BY DEF RequiredKeys, DefinedKeys
<1>9. \A k \in RequiredKeys : Field(item, k) = TheOnly(c, k).v
  BY <1>2, <1>7, <1>8
<1>10. WideUnit(item) = SignedUnit(c)
  BY <1>1, <1>7, <1>8 DEF WideUnit, SignedUnit
<1>11. QED
  BY <1>2, <1>7, <1>9, <1>10

\* The payload of such a token is accepted, with the claim as it is written.
LEMMA PlainPayloadPasses ==
  ASSUME NEW c, Called(c), Conforms(c)
  PROVE  LET item   == PayloadItem(Presented(c))
             prefix == TheOnly(c, KeyPrefix).v
         IN  /\ RejectTaggedFields(item) = Pass /\ PayloadFault(item) = Pass
             /\ PayloadOf(item).prefix = [addr |-> prefix.addr, len |-> prefix.len]
             /\ PayloadOf(item).prefix \in Prefixes /\ IsAttestable(PayloadOf(item).prefix)
             /\ Block(PayloadOf(item).prefix) = Block(prefix)
             /\ PayloadOf(item).iat = TheOnly(c, KeyIat).v
             /\ PayloadOf(item).exp = TheOnly(c, KeyExp).v
             /\ PayloadOf(item).unit = SignedUnit(c)
<1> DEFINE item   == PayloadItem(Presented(c))
           wire   == TheOnly(c, KeyPrefix).v
           prefix == DecodePrefix(wire)
           iat    == TheOnly(c, KeyIat).v
           exp    == TheOnly(c, KeyExp).v
           role   == TheOnly(c, KeyRole).v
           unit   == SignedUnit(c)
<1>1. /\ \A k \in RequiredKeys : Occurrences(item.v, k) # {}
      /\ \A k \in RequiredKeys : Field(item, k) = TheOnly(c, k).v
      /\ \A k \in DefinedKeys : \A i \in Occurrences(item.v, k) :
           /\ ReadsAsDefined(k, item.v[i].val) /\ ~IsTagged(item.v[i].val)
           /\ LastValue(item, k) = item.v[i].val
      /\ WideUnit(item) = unit
  BY PlainFields
<1>2. HasIntegerKeys(item) /\ ~RepeatsLabel(item.v)
  BY PlainValues DEF Conforms, Presented
<1>3. RejectTaggedFields(item) = Pass
  BY <1>1, <1>2 DEF RejectTaggedFields, Check
<1>4. EntriesFault(item) = Pass
  BY <1>1, <1>2 DEF EntriesFault, Check
<1>5. /\ Field(item, KeyOperator) = TheOnly(c, KeyOperator).v /\ Field(item, KeyPrefix) = wire
      /\ Field(item, KeyIat) = iat /\ Field(item, KeyExp) = exp /\ Field(item, KeyRole) = role
  BY <1>1 DEF RequiredKeys, DefinedKeys, KeyOperator, KeyRole, KeyPrefix, KeyUnit, KeyIat, KeyExp
<1>6. /\ TheOnly(c, KeyOperator).v \in OperatorDomains /\ role \in Roles
      /\ wire.addr \in Ipv6Addr /\ wire.len \in MinPrefixLen..MaxPrefixLen
      /\ \A i \in (wire.len + 1)..Width : wire.addr[i] = 0
      /\ Block(wire) \subseteq Block(GlobalUnicast)
      /\ \A range \in {Teredo, SixToFour} : Block(wire) \intersect Block(range) = {}
      /\ iat \in 0..U64Max /\ exp \in 0..U64Max /\ exp - iat \in 1..MaxLifetimeSecs
      /\ unit \in wire.len..MaxPrefixLen
      /\ role = "esp-tenant" => unit = wire.len
  BY DEF Conforms, ClaimHolds
<1>7. prefix.addr = wire.addr /\ prefix.len = wire.len /\ Block(prefix) = Block(wire)
  BY DEF DecodePrefix, Block
<1>8. prefix \in Prefixes
  BY <1>6, PrefixAssumption DEF DecodePrefix, Prefixes
<1>9. IsAttestable(prefix)
  BY <1>6, <1>7, <1>8, AttestableByBlocks
<1>10. PrefixFault(wire) = Pass
  <2>1. wire.octets = 17
    BY DEF Conforms, PlainEntries
  <2>2. wire.len <= Width
    BY <1>6, PrefixAssumption
  <2>3. QED
    BY <1>9, <2>1, <2>2 DEF PrefixFault, Check, ??
<1>11. ValidityFault(iat, exp) = Pass
  <2>1. exp > iat /\ WrappingSub(exp, iat) = exp - iat /\ exp - iat <= MaxLifetimeSecs
    BY <1>6, PayloadAssumption DEF WrappingSub
  <2>2. QED
    BY <2>1 DEF ValidityFault, Check, ??
<1>12. AsU8(unit) = unit /\ unit <= MaxPrefixLen /\ unit >= wire.len
  <2>1. unit \in Nat /\ unit < 256 /\ unit <= MaxPrefixLen /\ unit >= wire.len
    BY <1>6, PrefixAssumption, TokenAssumption
  <2>2. QED
    BY <2>1 DEF AsU8
<1>13. UnitFault(unit, wire.len, role) = Pass
  BY <1>6, <1>12 DEF UnitFault, Check, ??
<1>14. PayloadFault(item) = Pass
  <2>1. /\ Check(Field(item, KeyOperator) \in OperatorDomains, "malformed") = Pass
        /\ Check(Field(item, KeyRole) \in Roles, "bad_role") = Pass
        /\ PrefixFault(Field(item, KeyPrefix)) = Pass
        /\ ValidityFault(Field(item, KeyIat), Field(item, KeyExp)) = Pass
        /\ UnitFault(WideUnit(item), Field(item, KeyPrefix).len, Field(item, KeyRole)) = Pass
    BY <1>1, <1>5, <1>6, <1>10, <1>11, <1>13 DEF Check
  <2>2. QED
    BY <1>4, <2>1, ChainPasses DEF PayloadFault
<1>15. /\ PayloadOf(item).prefix = prefix /\ PayloadOf(item).iat = iat
       /\ PayloadOf(item).exp = exp /\ PayloadOf(item).unit = unit
  BY <1>1, <1>5, <1>12 DEF PayloadOf
<1>16. QED
  BY <1>3, <1>7, <1>8, <1>9, <1>14, <1>15 DEF DecodePrefix

\* The connection passes as well: that its source is eligible follows from the
\* prefix being attestable.
LEMMA ConformingIsParsed ==
  ASSUME NEW c, Called(c), Conforms(c)
  PROVE  LocalFault(c) = Pass
<1> DEFINE token   == Presented(c)
           item    == PayloadItem(token)
           payload == PayloadOf(item)
           source  == call[c].source
<1>1. /\ RejectTaggedFields(item) = Pass /\ PayloadFault(item) = Pass
      /\ payload.prefix \in Prefixes /\ IsAttestable(payload.prefix)
      /\ Block(payload.prefix) = Block(TheOnly(c, KeyPrefix).v)
      /\ payload.iat = TheOnly(c, KeyIat).v /\ payload.exp = TheOnly(c, KeyExp).v
  BY PlainPayloadPasses
<1>2. /\ token.size <= MaxTokenLen /\ EnvelopeFault(token) = Pass
      /\ HeaderFault(Protected(token), Unprotected(token)) = Pass
  BY PlainHeadersPass DEF Conforms, PlainEnvelope, Presented
<1>3. FormFault(token) = Pass
  BY <1>1, <1>2, FormIsNotBlamed DEF FormSound
<1>4. /\ source \in Ipv6Addr /\ Ineligible \subseteq Prefixes
      /\ source \in Block(payload.prefix)
      /\ \A range \in Ineligible : source \notin Block(range)
      /\ call[c].at \in (payload.iat - SkewSecs)..(payload.exp + SkewSecs)
  BY <1>1, ReceiverAssumption DEF Conforms, Called, ClaimHolds
<1>5. Contains(payload.prefix, source)
  BY <1>1, <1>4, BlockIsContained
<1>6. IsEligibleSource(source)
  BY <1>1, <1>4, <1>5, AttestableEligible
<1>7. \A range \in Ineligible : ~Contains(range, source)
  BY <1>4, BlockIsContained
<1>8. call[c].at >= payload.iat - SkewSecs /\ call[c].at <= payload.exp + SkewSecs
  BY <1>4
<1>9. ConnectionFault(payload, source, call[c].at, Ineligible) = Pass
  BY <1>5, <1>6, <1>7, <1>8 DEF ConnectionFault, Check, ??
<1>10. LocalFault(c) = FormFault(token) ?? ConnectionFault(payload, source, call[c].at, Ineligible)
  BY DEF LocalFault, ParseFault, FormFault
<1>11. QED
  BY <1>3, <1>9, <1>10 DEF ??

\* The answers authorize the claim, in sets of addresses.
Grants(c) ==
  /\ Policy(c) # Unusable /\ Policy(c).unit = SignedUnit(c)
  /\ \E i \in DOMAIN Policy(c).prefixes :
       LET entry == Policy(c).prefixes[i]
       IN  IsAttestable(entry) /\ Block(TheOnly(c, KeyPrefix).v) \subseteq Block(entry)

LEMMA GrantedIsAuthorized ==
  ASSUME NEW c, Called(c), Conforms(c), Grants(c)
  PROVE  AuthorizeFault(Pending(c), Policy(c)) = Pass
<1> DEFINE payload == PayloadOf(PayloadItem(Presented(c)))
<1>1. /\ payload.prefix \in Prefixes /\ IsAttestable(payload.prefix)
      /\ Block(payload.prefix) = Block(TheOnly(c, KeyPrefix).v)
      /\ payload.unit = SignedUnit(c)
  BY PlainPayloadPasses
<1>2. PICK i \in DOMAIN Policy(c).prefixes :
        /\ IsAttestable(Policy(c).prefixes[i])
        /\ Block(TheOnly(c, KeyPrefix).v) \subseteq Block(Policy(c).prefixes[i])
  BY DEF Grants
<1>3. Covers(Policy(c).prefixes[i], payload.prefix)
  BY <1>1, <1>2, CoversByBlocks
<1>4. Authorizes(Policy(c), payload.prefix)
  BY <1>1, <1>3 DEF Authorizes
<1>5. Policy(c).unit = payload.unit
  BY <1>1 DEF Grants
<1>6. Pending(c).payload = payload
  BY DEF Pending, Unverified
<1>7. QED
  BY <1>4, <1>5, <1>6 DEF AuthorizeFault, Check, ??

\* No honest operator is turned away (HonestOperatorsPass), whatever else happens
\* between the steps of a flow.
THEOREM HonestOperatorsAccepted == Spec => []HonestOperatorsPass
<1>1. ASSUME IInv, NEW c \in Conns, stage[c] = "done", Conforms(c)
      PROVE  LET token     == Decode[call[c].token]
                 signature == Part(token, 4).v
             IN  /\ Asked(c)
                 /\ Grants(c) =>
                      /\ AskedForKey(c)
                      /\ /\ Key(c) \notin {Unusable, UnknownAlgorithm} \union SmallOrderKeys
                         /\ signature.key = Key(c) /\ signature.strict
                         /\ signature.over = <<Part(token, 1).v, Part(token, 3).v>>
                         => Accepted(c)
  <2> DEFINE token     == Decode[call[c].token]
             signature == Part(token, 4).v
             signed    == /\ Key(c) \notin {Unusable, UnknownAlgorithm} \union SmallOrderKeys
                          /\ signature.key = Key(c) /\ signature.strict
                          /\ signature.over = <<Part(token, 1).v, Part(token, 3).v>>
  <2>1. Ended(c)
    BY <1>1 DEF IInv, FlowInv
  <2>2. Called(c)
    BY <2>1 DEF Ended, PolicyRead, KeyRead, Parsed
  <2>3. \A fault : Reports(c, fault) => fault # Pass
    BY DEF Reports
  <2>4. LocalFault(c) = Pass
    BY <1>1, <2>2, ConformingIsParsed
  <2>5. Grants(c) => Policy(c) # Unusable /\ AuthorizeFault(Pending(c), Policy(c)) = Pass
    BY <1>1, <2>2, GrantedIsAuthorized DEF Grants
  <2>6. signed => /\ Key(c) \notin {Unusable, UnknownAlgorithm}
                  /\ SignatureFault(Pending(c), Key(c)) = Pass
    BY DEF SignatureFault, Verifies, Pending, Unverified, ToBeSigned, PayloadItem, Presented, Check
  <2>7. PolicyRead(c) \/ KeyRead(c)
    BY <2>1, <2>3, <2>4 DEF Ended
  <2>8. Asked(c)
    BY <2>7 DEF PolicyRead, KeyRead, Asked
  <2>9. ASSUME Grants(c)
        PROVE  KeyRead(c)
    BY <2>1, <2>3, <2>4, <2>5, <2>9 DEF Ended
  <2>10. KeyRead(c) => AskedForKey(c)
    BY DEF KeyRead, AskedForKey
  <2>11. ASSUME Grants(c), signed
         PROVE  Accepted(c)
    <3>1. outcome[c] = [result |-> OutcomeResult(Authorized(Pending(c), Policy(c))), reason |-> Pass,
                        verified |-> Verified(Authorized(Pending(c), Policy(c)))]
      BY <2>1, <2>3, <2>4, <2>5, <2>6, <2>11 DEF Ended
    <3>2. QED
      BY <1>1, <3>1 DEF Accepted
  <2>12. QED
    BY <2>8, <2>9, <2>10, <2>11
<1>2. IInv => HonestOperatorsPass
  BY <1>1 DEF HonestOperatorsPass, Grants
<1>3. QED
  BY <1>2, Invariant, PTL
=============================================================================
