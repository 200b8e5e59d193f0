------------------------------ MODULE Receiver ------------------------------
(***************************************************************************)
(* A receiving mail server that verifies tokens by the staged flow of      *)
(* src/token.rs, as the crate documentation (src/lib.rs) lays it out:      *)
(*                                                                         *)
(*   parse -> policy lookup -> authorize -> key lookup -> verify_signature *)
(*                                                                         *)
(* Every connection runs the flow on its own.  The crate does no I/O: the  *)
(* clock, the DNS and the operators who republish their records are the    *)
(* environment, and move between any two steps of a connection.            *)
(***************************************************************************)
EXTENDS Token

CONSTANTS
  Conns,          \* connections
  Tokens,         \* octet strings presented as tokens
  Decode,         \* what ciborium makes of each: the [size, item] of Token.tla
  Sources,        \* connecting addresses
  Ineligible,     \* the receiver's own prefixes for parse_excluding
  PolicyAnswers,  \* what a policy lookup can yield: Unusable or a PolicyRecord
  KeyAnswers,     \* what a key lookup can yield: Unusable, UnknownAlgorithm, a key
  Unusable,       \* a TXT content a record parser refuses
  UnknownAlgorithm, \* a key record with another k=
  StartTimes,     \* when the clock may start
  MaxTime,        \* where it stops (bound of the model)
  MaxChanges,     \* republications (bound of the model)
  None            \* no value

Operators == {Lowercase[d] : d \in OperatorDomains}
Selectors == {Lowercase[s] : s \in SelectorLabels}

\* Addresses and prefixes are of their types, and the entries of a decoded map
\* have a wire order.
ASSUME ReceiverAssumption ==
  /\ Sources \subseteq Ipv6Addr /\ Ineligible \subseteq Prefixes
  /\ StartTimes \subseteq Nat /\ MaxTime \in Nat /\ MaxChanges \in Nat
  /\ \A token \in Tokens :
       EnvelopeFault(Decode[token]) = Pass /\ PayloadItem(Decode[token]).kind = "map"
         => DOMAIN PayloadItem(Decode[token]).v \subseteq Nat

\* An unusable record and one of an unknown algorithm are different answers.
ASSUME AnswersAssumption == Unusable # UnknownAlgorithm

\* The names of the records: _prefixes._sworn.<operator> and
\* <selector>._sworn.<operator>.
PolicyNames == [operator : Operators]
KeyNames    == [selector : Selectors, operator : Operators]

VARIABLES
  now,      \* Unix time
  policies, \* the policy answer in force, by operator
  keys,     \* the key answer in force, by key name
  changes,  \* republications so far
  stage,    \* where each connection is
  call,     \* what it was given: token, source and time of the parse
  held,     \* the Unverified or Authorized it holds
  answers,  \* its lookups: [name, answer] in the order it made them
  outcome   \* what it reports: result, reason, and the Verified if there is one

environment == <<now, policies, keys, changes>>
vars == <<now, policies, keys, changes, stage, call, held, answers, outcome>>

Stages == {"idle", "parsed", "policy_known", "authorized", "key_known", "done"}

Init ==
  /\ now \in StartTimes
  /\ policies \in [PolicyNames -> PolicyAnswers]
  /\ keys \in [KeyNames -> KeyAnswers]
  /\ changes = 0
  /\ stage = [c \in Conns |-> "idle"]
  /\ call = [c \in Conns |-> None]
  /\ held = [c \in Conns |-> None]
  /\ answers = [c \in Conns |-> <<>>]
  /\ outcome = [c \in Conns |-> None]

-----------------------------------------------------------------------------

\* What a connection reports when a step ends the flow: of a failure, a reason
\* and no operator.
Failed(result, reason) == [result |-> result, reason |-> reason, verified |-> None]

Goto(c, s) == stage' = [stage EXCEPT ![c] = s]

Finish(c, report) ==
  /\ Goto(c, "done")
  /\ outcome' = [outcome EXCEPT ![c] = report]
  /\ held' = [held EXCEPT ![c] = None]

Keep(c, s, value) ==
  /\ Goto(c, s)
  /\ held' = [held EXCEPT ![c] = value]
  /\ UNCHANGED outcome

\* A client presents a token: parse_excluding on it, at the time of the call.
Parse(c, token, source) ==
  LET fault == ParseFault(Decode[token], source, now, Ineligible)
  IN  /\ stage[c] = "idle"
      /\ call' = [call EXCEPT ![c] = [token |-> token, source |-> source, at |-> now]]
      /\ \/ /\ fault = Pass
            /\ Keep(c, "parsed", Unverified(Decode[token], source))
         \/ /\ fault # Pass
            /\ Finish(c, Failed(AuthResult(fault), fault))
      /\ UNCHANGED <<environment, answers>>

\* The lookup answers with what is in force at that moment; an unusable record
\* ends the flow, one of an unknown algorithm with the result "none".
Lookup(c, name, answer) ==
  answers' = [answers EXCEPT ![c] = Append(@, [name |-> name, answer |-> answer])]

LookupPolicy(c) ==
  LET name   == [operator |-> held[c].payload.operator]
      answer == policies[name]
  IN  /\ stage[c] = "parsed"
      /\ Lookup(c, name, answer)
      /\ \/ /\ answer # Unusable
            /\ Keep(c, "policy_known", held[c])
         \/ /\ answer = Unusable
            /\ Finish(c, Failed("permerror", "policy_record"))
      /\ UNCHANGED <<environment, call>>

\* Mutation of Authorize: the policy is read again instead of being kept.
AuthorizeWithCurrentPolicy(c) ==
  LET policy == policies[answers[c][1].name]
      fault  == IF policy = Unusable THEN "malformed" ELSE AuthorizeFault(held[c], policy)
  IN  /\ stage[c] = "policy_known"
      /\ \/ /\ fault = Pass
            /\ Keep(c, "authorized", Authorized(held[c], policy))
         \/ /\ fault # Pass
            /\ Finish(c, Failed(AuthResult(fault), fault))
      /\ UNCHANGED <<environment, call, answers>>

\* Mutation of Authorize: a refusal is never reported.
AuthorizeOrWait(c) ==
  /\ stage[c] = "policy_known"
  /\ AuthorizeFault(held[c], answers[c][1].answer) = Pass
  /\ Keep(c, "authorized", Authorized(held[c], answers[c][1].answer))
  /\ UNCHANGED <<environment, call, answers>>

Authorize(c) ==
  LET policy == answers[c][1].answer
      fault  == AuthorizeFault(held[c], policy)
  IN  /\ stage[c] = "policy_known"
      /\ \/ /\ fault = Pass
            /\ Keep(c, "authorized", Authorized(held[c], policy))
         \/ /\ fault # Pass
            /\ Finish(c, Failed(AuthResult(fault), fault))
      /\ UNCHANGED <<environment, call, answers>>

\* Mutation of LookupKey: a key record is usable or it is not.
LookupKeyOneError(c) ==
  LET token  == held[c].token
      name   == [selector |-> token.selector, operator |-> token.payload.operator]
      answer == keys[name]
  IN  /\ stage[c] = "authorized"
      /\ Lookup(c, name, answer)
      /\ \/ /\ answer \notin {Unusable, UnknownAlgorithm}
            /\ Keep(c, "key_known", held[c])
         \/ /\ answer \in {Unusable, UnknownAlgorithm}
            /\ Finish(c, Failed("permerror", "key_record"))
      /\ UNCHANGED <<environment, call>>

\* Mutation of LookupKey: a key of another algorithm is not told apart.
LookupKeyAnyAlgorithm(c) ==
  LET token  == held[c].token
      name   == [selector |-> token.selector, operator |-> token.payload.operator]
      answer == keys[name]
  IN  /\ stage[c] = "authorized"
      /\ Lookup(c, name, answer)
      /\ \/ /\ answer # Unusable
            /\ Keep(c, "key_known", held[c])
         \/ /\ answer = Unusable
            /\ Finish(c, Failed("permerror", "key_record"))
      /\ UNCHANGED <<environment, call>>

LookupKey(c) ==
  LET token  == held[c].token
      name   == [selector |-> token.selector, operator |-> token.payload.operator]
      answer == keys[name]
  IN  /\ stage[c] = "authorized"
      /\ Lookup(c, name, answer)
      /\ \/ /\ answer \notin {Unusable, UnknownAlgorithm}
            /\ Keep(c, "key_known", held[c])
         \/ /\ answer = Unusable
            /\ Finish(c, Failed("permerror", "key_record"))
         \/ /\ answer = UnknownAlgorithm
            /\ Finish(c, Failed("none", "key_record"))
      /\ UNCHANGED <<environment, call>>

\* Mutation of VerifySignature: the key is read again instead of being kept.
VerifySignatureWithCurrentKey(c) ==
  LET fault == SignatureFault(held[c].token, keys[answers[c][2].name])
  IN  /\ stage[c] = "key_known"
      /\ \/ /\ fault = Pass
            /\ Finish(c, [result |-> OutcomeResult(held[c]), reason |-> Pass,
                          verified |-> Verified(held[c])])
         \/ /\ fault # Pass
            /\ Finish(c, Failed(AuthResult(fault), fault))
      /\ UNCHANGED <<environment, call, answers>>

VerifySignature(c) ==
  LET fault == SignatureFault(held[c].token, answers[c][2].answer)
  IN  /\ stage[c] = "key_known"
      /\ \/ /\ fault = Pass
            /\ Finish(c, [result |-> OutcomeResult(held[c]), reason |-> Pass,
                          verified |-> Verified(held[c])])
         \/ /\ fault # Pass
            /\ Finish(c, Failed(AuthResult(fault), fault))
      /\ UNCHANGED <<environment, call, answers>>

\* The environment.
PublishPolicy(name, answer) ==
  /\ changes < MaxChanges /\ answer # policies[name]
  /\ policies' = [policies EXCEPT ![name] = answer]
  /\ changes' = changes + 1
  /\ UNCHANGED <<now, keys, stage, call, held, answers, outcome>>

PublishKey(name, answer) ==
  /\ changes < MaxChanges /\ answer # keys[name]
  /\ keys' = [keys EXCEPT ![name] = answer]
  /\ changes' = changes + 1
  /\ UNCHANGED <<now, policies, stage, call, held, answers, outcome>>

Tick ==
  /\ now < MaxTime
  /\ now' = now + 1
  /\ UNCHANGED <<policies, keys, changes, stage, call, held, answers, outcome>>

Step(c) ==
  \/ LookupPolicy(c) \/ Authorize(c) \/ LookupKey(c) \/ VerifySignature(c)

Next ==
  \/ \E c \in Conns : \E token \in Tokens, source \in Sources : Parse(c, token, source)
  \/ \E c \in Conns : Step(c)
  \/ \E name \in PolicyNames, answer \in PolicyAnswers : PublishPolicy(name, answer)
  \/ \E name \in KeyNames, answer \in KeyAnswers : PublishKey(name, answer)
  \/ Tick

Spec == Init /\ [][Next]_vars

\* Each call of the crate returns, and a resolver answers or gives up: a
\* connection that can take its next step takes it.
Fairness == \A c \in Conns : WF_vars(Step(c))

-----------------------------------------------------------------------------

\* Types.  A stage determines which of the other variables have a value.
TypeOK ==
  /\ now \in StartTimes \union 0..MaxTime
  /\ policies \in [PolicyNames -> PolicyAnswers]
  /\ keys \in [KeyNames -> KeyAnswers]
  /\ changes \in 0..MaxChanges
  /\ stage \in [Conns -> Stages]
  /\ \A c \in Conns :
       /\ stage[c] # "idle" => call[c] \in [token : Tokens, source : Sources, at : Int]
       /\ stage[c] \in {"idle", "parsed"} => answers[c] = <<>>
       /\ stage[c] \in {"policy_known", "authorized", "key_known"} =>
            answers[c][1].answer \in PolicyAnswers \ {Unusable}
       /\ stage[c] = "key_known" =>
            answers[c][2].answer \in KeyAnswers \ {Unusable, UnknownAlgorithm}
       /\ stage[c] = "done" => outcome[c].reason \in Reasons \union {Pass, "policy_record", "key_record"}
=============================================================================
