-------------------------- MODULE EvaluatorProofs --------------------------
(***************************************************************************)
(* What is proved of the evaluator, for corpora of any length: the answers *)
(* line up with the cases, a policy only narrows what the signature alone  *)
(* would let pass, t=y in it changes only what is at stake, a tab in the   *)
(* fourth column is worth a space, a pass rests on the octets of the line, *)
(* and the time of a case only moves it through the window of its token.   *)
(* The argument is that an answer is a function of the line and of the     *)
(* key, and the key is read once.                                          *)
(***************************************************************************)
EXTENDS Evaluator, TokenLemmas, RecordLemmas, SequenceTheorems, TLAPS

Readably(line) == IsHex(CaseOf(line).token) /\ CaseOf(line).source \in DOMAIN AddressOf

\* The answer to a line.
Answer(line, public) ==
  CASE ~IsHex(CaseOf(line).token) ->
         Refusal(CaseOf(line), "permerror", "malformed")
    [] IsHex(CaseOf(line).token) /\ CaseOf(line).source \notin DOMAIN AddressOf ->
         Refusal(CaseOf(line), "permerror", "bad_source")
    [] Readably(line) /\ CaseOf(line).policy = <<>> ->
         SignatureOnlyAnswer(CaseOf(line), public)
    [] Readably(line) /\ CaseOf(line).policy # <<>> /\ PolicyFault(CaseOf(line).policy) # Pass ->
         Refusal(CaseOf(line), "permerror", "policy_record_invalid")
    [] Readably(line) /\ CaseOf(line).policy # <<>> /\ PolicyFault(CaseOf(line).policy) = Pass ->
         CompleteAnswer(CaseOf(line), public, PolicyOf(CaseOf(line).policy))

Inv ==
  /\ stage \in {"key", "cases", "panicked"} /\ left \in 0..(MaxLines + 1)
  /\ stage = "key" => asked = <<>>
  /\ asked \in Seq(CaseLines)
  /\ out = [i \in 1..Len(asked) |-> Answer(asked[i], key)]

\* A list of answers grows with the list of lines.
LEMMA AnswersGrow ==
  ASSUME NEW lines \in Seq(CaseLines), NEW line \in CaseLines, NEW answer(_)
  PROVE  Append([i \in 1..Len(lines) |-> answer(lines[i])], answer(line))
           = [i \in 1..Len(Append(lines, line)) |-> answer(Append(lines, line)[i])]
<1> DEFINE A == {answer(x) : x \in CaseLines}
           old == [i \in 1..Len(lines) |-> answer(lines[i])]
           more == Append(lines, line)
           new == [i \in 1..Len(more) |-> answer(more[i])]
<1>1. more \in Seq(CaseLines) /\ Len(more) = Len(lines) + 1 /\ Len(lines) \in Nat
  BY AppendProperties
<1>2. /\ \A i \in 1..Len(lines) : lines[i] \in CaseLines /\ more[i] = lines[i]
      /\ more[Len(lines) + 1] = line
  BY AppendProperties
<1>3. answer(line) \in A /\ \A i \in 1..Len(lines) : answer(lines[i]) \in A
  BY <1>2
<1>4. \A i \in 1..Len(more) : answer(more[i]) \in A
  BY <1>1
<1>5. old \in Seq(A) /\ Len(old) = Len(lines)
  <2> HIDE DEF A
  <2>1. QED
    BY <1>1, <1>3
<1>6. new \in Seq(A) /\ Len(new) = Len(more)
  <2> HIDE DEF A, more
  <2>1. QED
    BY <1>1, <1>4
<1>7. /\ Append(old, answer(line)) \in Seq(A)
      /\ Len(Append(old, answer(line))) = Len(lines) + 1
      /\ \A i \in 1..Len(lines) : Append(old, answer(line))[i] = old[i]
      /\ Append(old, answer(line))[Len(lines) + 1] = answer(line)
  <2> HIDE DEF A, old
  <2>1. QED
    BY <1>3, <1>5, AppendProperties
<1>8. \A i \in 1..Len(more) : Append(old, answer(line))[i] = new[i]
  <2> TAKE i \in 1..Len(more)
  <2>1. CASE i \in 1..Len(lines)
    BY <1>2, <1>7, <2>1
  <2>2. CASE i = Len(lines) + 1
    BY <1>2, <1>7, <2>2
  <2>3. QED
    BY <1>1, <2>1, <2>2
<1>9. QED
  <2> HIDE DEF A, old, new, more
  <2>1. Append(old, answer(line)) = new
    BY <1>1, <1>6, <1>7, <1>8, SeqEqual
  <2>2. QED
    BY <2>1 DEF old, new, more

\* A line that is written is the answer to the line that was read.
LEMMA WriteKeepsInv ==
  ASSUME Inv, stage = "cases", left > 0, NEW line \in CaseLines, Write(line, Answer(line, key))
  PROVE  Inv'
<1>1. asked' = Append(asked, line) /\ out' = Append(out, Answer(line, key)) /\ left' = left - 1
      /\ stage' = stage /\ key' = key
  BY DEF Write
<1>2. asked \in Seq(CaseLines) /\ out = [i \in 1..Len(asked) |-> Answer(asked[i], key)]
  BY DEF Inv
<1> DEFINE answer(x) == Answer(x, key)
<1>3. out' = [i \in 1..Len(Append(asked, line)) |-> Answer(Append(asked, line)[i], key)]
  <2>1. Append([i \in 1..Len(asked) |-> answer(asked[i])], answer(line))
          = [i \in 1..Len(Append(asked, line)) |-> answer(Append(asked, line)[i])]
    BY <1>2, AnswersGrow
  <2>2. QED
    BY <1>1, <1>2, <2>1
<1>4. asked' \in Seq(CaseLines)
  BY <1>1, <1>2, AppendProperties
<1>5. left' \in 0..(MaxLines + 1)
  BY <1>1, EvaluatorAssumption DEF Inv
<1>6. QED
  BY <1>1, <1>3, <1>4, <1>5 DEF Inv

LEMMA ReadKeyKeepsInv ==
  ASSUME Inv, NEW line \in KeyLines, ReadKey(line)
  PROVE  Inv'
<1>1. /\ asked = <<>> /\ out = [i \in 1..Len(asked) |-> Answer(asked[i], key)]
      /\ left \in 0..(MaxLines + 1)
  BY DEF Inv, ReadKey
<1>2. /\ UNCHANGED <<asked, out>> /\ stage' \in {"cases", "panicked"}
      /\ left' \in {left, left - 1} /\ (left' = left \/ left > 0)
  BY DEF ReadKey, Panic
<1>3. Len(asked) = 0 /\ asked \in Seq(CaseLines)
  BY <1>1
<1>4. out' = [i \in 1..Len(asked') |-> Answer(asked'[i], key')]
  BY <1>1, <1>2, <1>3
<1>5. left' \in 0..(MaxLines + 1)
  BY <1>1, <1>2, EvaluatorAssumption
<1>6. QED
  BY <1>1, <1>2, <1>3, <1>4, <1>5 DEF Inv

LEMMA CaseKeepsInv ==
  ASSUME Inv, NEW line \in CaseLines,
         \/ BadToken(line) \/ BadSource(line)
         \/ SignatureOnly(line) \/ BadPolicy(line) \/ Complete(line)
  PROVE  Inv'
<1>1. stage = "cases" /\ left > 0
  BY DEF BadToken, BadSource, SignatureOnly, BadPolicy, Complete, Readable, Comes
<1>2. Write(line, Answer(line, key))
  <2>1. CASE BadToken(line)
    BY <2>1 DEF BadToken, Answer, Readably
  <2>2. CASE BadSource(line)
    BY <2>2 DEF BadSource, Answer, Readably
  <2>3. CASE SignatureOnly(line)
    BY <2>3 DEF SignatureOnly, Readable, Answer, Readably
  <2>4. CASE BadPolicy(line)
    BY <2>4 DEF BadPolicy, Readable, Answer, Readably
  <2>5. CASE Complete(line)
    BY <2>5 DEF Complete, Readable, Answer, Readably
  <2>6. QED
    BY <2>1, <2>2, <2>3, <2>4, <2>5
<1>3. QED
  BY <1>1, <1>2, WriteKeepsInv

LEMMA InvHolds == Spec => []Inv
<1>1. Init => Inv
  <2> SUFFICES ASSUME Init PROVE Inv
    OBVIOUS
  <2>1. Len(asked) = 0 /\ asked \in Seq(CaseLines) /\ out = <<>>
    BY DEF Init
  <2>2. out = [i \in 1..Len(asked) |-> Answer(asked[i], key)]
    BY <2>1
  <2>3. QED
    BY <2>1, <2>2 DEF Init, Inv
<1>2. ASSUME Inv, [Next]_vars PROVE Inv'
  <2>1. ASSUME NEW line \in KeyLines, ReadKey(line) PROVE Inv'
    BY <1>2, <2>1, ReadKeyKeepsInv
  <2>2. ASSUME NEW line \in CaseLines, NoText(line) PROVE Inv'
    BY <1>2, <2>2 DEF NoText, Panic, Inv
  <2>3. ASSUME NEW line \in CaseLines, SkipEmpty(line) PROVE Inv'
    <3>1. left' \in 0..(MaxLines + 1)
      BY <1>2, <2>3, EvaluatorAssumption DEF SkipEmpty, Comes, Inv
    <3>2. QED
      BY <1>2, <2>3, <3>1 DEF SkipEmpty, Inv
  <2>4. CASE UNCHANGED vars
    BY <1>2, <2>4 DEF vars, Inv
  <2>5. CASE NoKey
    BY <1>2, <2>5 DEF NoKey, Panic, Inv
  <2>6. QED
    BY <1>2, <2>1, <2>2, <2>3, <2>4, <2>5, CaseKeepsInv DEF Next
<1>3. QED
  BY <1>1, <1>2, PTL DEF Spec

-----------------------------------------------------------------------------
(* The answers. *)

\* Reasons that only the later stages give, and what they report as.
LEMMA AuthorizeReason ==
  ASSUME NEW unverified, NEW policy
  PROVE  AuthorizeFault(unverified, policy) \in
           {Pass, "unauthorized_prefix", "policy_unit_mismatch"}
BY DEF AuthorizeFault, Check, Pass, ??

LEMMA SignatureReason ==
  ASSUME NEW unverified, NEW public
  PROVE  SignatureFault(unverified, public) \in {Pass, "bad_signature"}
BY DEF SignatureFault, Check

LEMMA ReasonReports ==
  ASSUME NEW reason
  PROVE  /\ AuthResult(reason) \in {"fail", "permerror"}
         /\ reason \in {"unauthorized_prefix", "policy_unit_mismatch"}
              => AuthResult(reason) = "permerror"
BY DEF AuthResult

\* With and without a policy, the same token from the same connection.
LEMMA AnswersNarrow ==
  ASSUME NEW bare, NEW full, NEW public,
         bare.token = full.token, bare.source = full.source, bare.now = full.now,
         NEW policy
  PROVE  LET a == SignatureOnlyAnswer(bare, public)
             b == CompleteAnswer(full, public, policy)
         IN  /\ b.auth_result \in {"pass", "none"} =>
                  /\ a.auth_result = "pass" /\ a.operator = b.operator
                  /\ a.unit = b.unit /\ a.observed_unit = b.observed_unit
             /\ a.reason \notin {Pass, "bad_signature"} => b.reason = a.reason
             /\ b.auth_result = "fail" => a.reason = b.reason
<1> DEFINE token == TokenOf(full)
           source == SourceOf(full)
           now == NowOf(full)
           unverified == Unverified(token, source)
           local == ParseFault(token, source, now, {})
           authorize == AuthorizeFault(unverified, policy)
           signature == SignatureFault(unverified, public)
           a == SignatureOnlyAnswer(bare, public)
           b == CompleteAnswer(full, public, policy)
<1>1. TokenOf(bare) = token /\ SourceOf(bare) = source /\ NowOf(bare) = now
  BY DEF TokenOf, SourceOf, NowOf
<1>2. SignatureOnlyFault(token, public, source, now) = local ?? signature
  BY DEF SignatureOnlyFault
<1>3. VerifyFault(token, public, policy, source, now) = local ?? authorize ?? signature
  BY DEF VerifyFault
<1>4. authorize \in {Pass, "unauthorized_prefix", "policy_unit_mismatch"}
  BY AuthorizeReason
<1>5. signature \in {Pass, "bad_signature"}
  BY SignatureReason
<1>6. CASE local # Pass
  <2>1. a = Refusal(bare, AuthResult(local), local) /\ b = Refusal(full, AuthResult(local), local)
    BY <1>1, <1>2, <1>3, <1>6 DEF SignatureOnlyAnswer, CompleteAnswer, ??
  <2>2. QED
    BY <2>1, ReasonReports DEF Refusal
<1>7. CASE local = Pass /\ authorize # Pass
  <2>1. b = Refusal(full, AuthResult(authorize), authorize)
    BY <1>3, <1>7 DEF CompleteAnswer, ??
  <2>2. b.auth_result = "permerror"
    BY <1>4, <1>7, <2>1, ReasonReports DEF Refusal
  <2>3. a.reason \in {Pass, "bad_signature"}
    BY <1>1, <1>2, <1>5, <1>7 DEF SignatureOnlyAnswer, Refusal, Attribution, ??
  <2>4. QED
    BY <2>2, <2>3
<1>8. CASE local = Pass /\ authorize = Pass /\ signature # Pass
  <2>1. a = Refusal(bare, AuthResult(signature), signature)
        /\ b = Refusal(full, AuthResult(signature), signature)
    BY <1>1, <1>2, <1>3, <1>8 DEF SignatureOnlyAnswer, CompleteAnswer, ??
  <2>2. QED
    BY <2>1, ReasonReports DEF Refusal
<1>9. CASE local = Pass /\ authorize = Pass /\ signature = Pass
  <2> DEFINE authorized == Authorized(unverified, policy)
  <2>1. a = Attribution(bare, "pass", Pass, SignatureOnlyVerified(token, source))
    BY <1>1, <1>2, <1>9 DEF SignatureOnlyAnswer, ??
  <2>2. b = Attribution(full, OutcomeResult(authorized),
                        IF policy.testing THEN "testing_mode" ELSE Pass, Verified(authorized))
    BY <1>3, <1>9 DEF CompleteAnswer, ??
  <2>3. /\ SignatureOnlyVerified(token, source).operator = Verified(authorized).operator
        /\ SignatureOnlyVerified(token, source).unit = Verified(authorized).unit
        /\ SignatureOnlyVerified(token, source).observed_unit = Verified(authorized).observed_unit
    BY DEF SignatureOnlyVerified, Verified, Authorized
  <2>4. b.auth_result \in {"pass", "none"}
    BY <2>2 DEF Attribution, OutcomeResult
  <2>5. QED
    BY <2>1, <2>2, <2>3, <2>4 DEF Attribution
<1>10. QED
  BY <1>6, <1>7, <1>8, <1>9

\* A policy only narrows, for every token, every policy text and every key.
THEOREM PoliciesOnlyNarrow == Spec => []PolicyOnlyNarrows
<1>1. Inv => PolicyOnlyNarrows
  <2> SUFFICES ASSUME Inv, NEW i \in DOMAIN asked, NEW j \in DOMAIN asked,
                      SameToken(i, j), Asked(i).policy = <<>>, Asked(j).policy # <<>>
               PROVE  /\ out[j].auth_result \in {"pass", "none"} =>
                           out[i].auth_result = "pass" /\ Columns(i) = Columns(j)
                      /\ out[i].reason \notin {Pass, "bad_signature"} =>
                           out[j].reason \in {out[i].reason, "policy_record_invalid"}
                      /\ out[j].auth_result = "fail" => out[i].reason = out[j].reason
    BY DEF PolicyOnlyNarrows
  <2> DEFINE a == CaseOf(asked[i])
             b == CaseOf(asked[j])
  <2>1. out[i] = Answer(asked[i], key) /\ out[j] = Answer(asked[j], key)
    BY DEF Inv
  <2>2. /\ a.token = b.token /\ a.source = b.source /\ a.now = b.now
        /\ a.policy = <<>> /\ b.policy # <<>>
    BY DEF SameToken, Asked
  <2>3. CASE ~IsHex(b.token)
    <3>1. /\ out[i] = Refusal(a, "permerror", "malformed")
          /\ out[j] = Refusal(b, "permerror", "malformed")
      BY <2>1, <2>2, <2>3 DEF Answer, Readably
    <3>2. QED
      BY <3>1 DEF Refusal
  <2>4. CASE IsHex(b.token) /\ b.source \notin DOMAIN AddressOf
    <3>1. /\ out[i] = Refusal(a, "permerror", "bad_source")
          /\ out[j] = Refusal(b, "permerror", "bad_source")
      BY <2>1, <2>2, <2>4 DEF Answer, Readably
    <3>2. QED
      BY <3>1 DEF Refusal
  <2>5. CASE Readably(asked[j]) /\ PolicyFault(b.policy) # Pass
    <3>1. out[j] = Refusal(b, "permerror", "policy_record_invalid")
      BY <2>1, <2>2, <2>5 DEF Answer, Readably
    <3>2. QED
      BY <3>1 DEF Refusal
  <2>6. CASE Readably(asked[j]) /\ PolicyFault(b.policy) = Pass
    <3>1. out[j] = CompleteAnswer(b, key, PolicyOf(b.policy))
      BY <2>1, <2>2, <2>6 DEF Answer, Readably
    <3>2. out[i] = SignatureOnlyAnswer(a, key)
      BY <2>1, <2>2, <2>6 DEF Answer, Readably
    <3>3. /\ out[j].auth_result \in {"pass", "none"} =>
               /\ out[i].auth_result = "pass" /\ out[i].operator = out[j].operator
               /\ out[i].unit = out[j].unit /\ out[i].observed_unit = out[j].observed_unit
          /\ out[i].reason \notin {Pass, "bad_signature"} => out[j].reason = out[i].reason
          /\ out[j].auth_result = "fail" => out[i].reason = out[j].reason
      BY <2>2, <3>1, <3>2, AnswersNarrow
    <3>4. QED
      BY <3>3 DEF Columns
  <2>7. QED
    BY <2>3, <2>4, <2>5, <2>6 DEF Readably
<1>2. QED
  BY <1>1, InvHolds, PTL

-----------------------------------------------------------------------------
(* Types. *)

\* What a case is answered with, once its token has been read.
LEMMA LocalReason ==
  ASSUME NEW token, NEW source, NEW now, NEW unverified, NEW policy, NEW public
  PROVE  /\ ParseFault(token, source, now, {}) ?? SignatureFault(unverified, public)
               \in Reasons \union {Pass}
         /\ ParseFault(token, source, now, {}) ?? AuthorizeFault(unverified, policy)
             ?? SignatureFault(unverified, public) \in Reasons \union {Pass}
<1>1. ParseFault(token, source, now, {}) \in Reasons \union {Pass}
  BY ParseReason
<1>2. AuthorizeFault(unverified, policy) \in Reasons \union {Pass}
  BY AuthorizeReason DEF Reasons
<1>3. SignatureFault(unverified, public) \in Reasons \union {Pass}
  BY SignatureReason DEF Reasons
<1>4. QED
  BY <1>1, <1>2, <1>3, ChainReason

\* An attribution names somebody.
LEMMA OperatorIsNamed ==
  ASSUME NEW octets \in DOMAIN Decode, NEW source, NEW now,
         ParseFault(Decode[octets], source, now, {}) = Pass
  PROVE  Unverified(Decode[octets], source).payload.operator # Nobody
<1> DEFINE token == Decode[octets]
           item == PayloadItem(token)
<1>1. /\ EnvelopeFault(token) = Pass /\ RejectTaggedFields(item) = Pass
      /\ PayloadFault(item) = Pass
  BY ParsePasses
<1>2. item.kind = "map" => DOMAIN item.v \subseteq Nat
  BY <1>1, EvaluatorAssumption
<1>3. Field(item, KeyOperator) \in OperatorDomains
  BY <1>1, <1>2, PayloadBounds
<1>4. Unverified(token, source).payload.operator = Lowercase[Field(item, KeyOperator)]
  BY DEF Unverified, PayloadOf
<1>5. QED
  BY <1>3, <1>4, EvaluatorAssumption

AnswerOK(line, answer) ==
  /\ answer.name = CaseOf(line).name
  /\ answer.auth_result \in {"pass", "none", "fail", "permerror"}
  /\ answer.operator # Nobody <=> answer.reason \in {Pass, "testing_mode"}

LEMMA RefusalOK ==
  ASSUME NEW line, NEW auth \in {"fail", "permerror"},
         NEW reason \in Reasons \union {"bad_source", "policy_record_invalid"}
  PROVE  AnswerOK(line, Refusal(CaseOf(line), auth, reason))
BY DEF AnswerOK, Refusal, Reasons, Pass

LEMMA AnswerIsOK ==
  ASSUME NEW line \in CaseLines, NEW public
  PROVE  AnswerOK(line, Answer(line, public))
<1> DEFINE c == CaseOf(line)
           token == TokenOf(c)
           source == SourceOf(c)
           now == NowOf(c)
           unverified == Unverified(token, source)
<1>1. CASE ~IsHex(c.token)
  <2>1. Answer(line, public) = Refusal(c, "permerror", "malformed")
    BY <1>1 DEF Answer, Readably
  <2>2. "malformed" \in Reasons
    BY DEF Reasons
  <2>3. QED
    BY <2>1, <2>2, RefusalOK
<1>2. CASE IsHex(c.token) /\ c.source \notin DOMAIN AddressOf
  <2>1. Answer(line, public) = Refusal(c, "permerror", "bad_source")
    BY <1>2 DEF Answer, Readably
  <2>2. QED
    BY <2>1, RefusalOK
<1>3. CASE Readably(line) /\ c.policy # <<>> /\ PolicyFault(c.policy) # Pass
  <2>1. Answer(line, public) = Refusal(c, "permerror", "policy_record_invalid")
    BY <1>3 DEF Answer, Readably
  <2>2. QED
    BY <2>1, RefusalOK
<1>4. ASSUME Readably(line), ParseFault(token, source, now, {}) = Pass
      PROVE  unverified.payload.operator # Nobody
  <2>1. HexOctets(c.token) \in DOMAIN Decode
    BY <1>4, EvaluatorAssumption DEF Readably
  <2>2. QED
    BY <1>4, <2>1, OperatorIsNamed DEF TokenOf
<1>5. CASE Readably(line) /\ c.policy = <<>>
  <2> DEFINE fault == SignatureOnlyFault(token, public, source, now)
             verified == SignatureOnlyVerified(token, source)
  <2>1. /\ Answer(line, public) = SignatureOnlyAnswer(c, public)
        /\ fault \in Reasons \union {Pass}
    BY <1>5, LocalReason DEF Answer, Readably, SignatureOnlyFault
  <2>2. CASE fault # Pass
    <3>1. Answer(line, public) = Refusal(c, AuthResult(fault), fault)
      BY <2>1, <2>2 DEF SignatureOnlyAnswer
    <3>2. QED
      BY <2>1, <2>2, <3>1, ReasonReports, RefusalOK
  <2>3. CASE fault = Pass
    <3>1. Answer(line, public) = Attribution(c, "pass", Pass, verified)
      BY <2>1, <2>3 DEF SignatureOnlyAnswer
    <3>2. ParseFault(token, source, now, {}) = Pass
      BY <2>3, ChainPasses DEF SignatureOnlyFault
    <3>3. verified.operator # Nobody
      BY <1>4, <1>5, <3>2 DEF SignatureOnlyVerified, Verified
    <3>4. QED
      BY <3>1, <3>3 DEF AnswerOK, Attribution
  <2>4. QED
    BY <2>2, <2>3
<1>6. CASE Readably(line) /\ c.policy # <<>> /\ PolicyFault(c.policy) = Pass
  <2> DEFINE policy == PolicyOf(c.policy)
             fault == VerifyFault(token, public, policy, source, now)
             authorized == Authorized(unverified, policy)
             reason == IF policy.testing THEN "testing_mode" ELSE Pass
  <2>1. /\ Answer(line, public) = CompleteAnswer(c, public, policy)
        /\ fault \in Reasons \union {Pass}
    BY <1>6, LocalReason DEF Answer, Readably, VerifyFault
  <2>2. CASE fault # Pass
    <3>1. Answer(line, public) = Refusal(c, AuthResult(fault), fault)
      BY <2>1, <2>2 DEF CompleteAnswer
    <3>2. QED
      BY <2>1, <2>2, <3>1, ReasonReports, RefusalOK
  <2>3. CASE fault = Pass
    <3>1. Answer(line, public) =
            Attribution(c, OutcomeResult(authorized), reason, Verified(authorized))
      BY <2>1, <2>3 DEF CompleteAnswer
    <3>2. ParseFault(token, source, now, {}) = Pass
      BY <2>3, ChainPasses DEF VerifyFault
    <3>3. Verified(authorized).operator # Nobody
      BY <1>4, <1>6, <3>2 DEF Authorized, Verified
    <3>4. OutcomeResult(authorized) \in {"pass", "none"} /\ reason \in {Pass, "testing_mode"}
      BY DEF OutcomeResult
    <3>5. QED
      BY <3>1, <3>3, <3>4 DEF AnswerOK, Attribution
  <2>4. QED
    BY <2>2, <2>3
<1>7. QED
  BY <1>1, <1>2, <1>3, <1>5, <1>6 DEF Readably

\* The answers line up with the cases, and an attribution stands exactly beside
\* what verified.
THEOREM AnswersLineUp == Spec => []TypeOK
<1>1. Inv => TypeOK
  <2> SUFFICES ASSUME Inv PROVE TypeOK
    OBVIOUS
  <2>1. DOMAIN asked = 1..Len(asked) /\ asked \in Seq(CaseLines) /\ DOMAIN out = DOMAIN asked
    BY DEF Inv
  <2>2. ASSUME NEW i \in DOMAIN asked PROVE AnswerOK(asked[i], out[i])
    <3>1. asked[i] \in CaseLines /\ out[i] = Answer(asked[i], key)
      BY <2>1 DEF Inv
    <3>2. QED
      BY <3>1, AnswerIsOK
  <2>3. QED
    BY <2>1, <2>2 DEF Inv, TypeOK, AnswerOK, Asked
<1>2. QED
  BY <1>1, InvHolds, PTL

-----------------------------------------------------------------------------
(* What an answer rests on. *)

\* An answer rests on the four fields and on what the policy says.
LEMMA AnswerRestsOn ==
  ASSUME NEW line, NEW other, NEW public,
         CaseOf(line).name = CaseOf(other).name, CaseOf(line).token = CaseOf(other).token,
         CaseOf(line).source = CaseOf(other).source, CaseOf(line).now = CaseOf(other).now,
         CaseOf(line).policy = <<>> <=> CaseOf(other).policy = <<>>,
         PolicyFault(CaseOf(line).policy) = PolicyFault(CaseOf(other).policy),
         PolicyFault(CaseOf(line).policy) = Pass =>
           PolicyOf(CaseOf(line).policy) = PolicyOf(CaseOf(other).policy)
  PROVE  Answer(line, public) = Answer(other, public)
<1> DEFINE a == CaseOf(line)
           b == CaseOf(other)
<1>1. /\ TokenOf(a) = TokenOf(b) /\ SourceOf(a) = SourceOf(b) /\ NowOf(a) = NowOf(b)
      /\ Readably(line) <=> Readably(other)
  BY DEF TokenOf, SourceOf, NowOf, Readably
<1>2. \A result, reason : Refusal(a, result, reason) = Refusal(b, result, reason)
  BY DEF Refusal
<1>3. \A result, reason, verified :
        Attribution(a, result, reason, verified) = Attribution(b, result, reason, verified)
  BY DEF Attribution
<1>4. CASE ~IsHex(a.token)
  <2>1. Answer(line, public) = Refusal(a, "permerror", "malformed")
    BY <1>4 DEF Answer, Readably
  <2>2. Answer(other, public) = Refusal(b, "permerror", "malformed")
    BY <1>4 DEF Answer, Readably
  <2>3. QED
    BY <1>2, <2>1, <2>2
<1>5. CASE IsHex(a.token) /\ a.source \notin DOMAIN AddressOf
  <2>1. Answer(line, public) = Refusal(a, "permerror", "bad_source")
    BY <1>5 DEF Answer, Readably
  <2>2. Answer(other, public) = Refusal(b, "permerror", "bad_source")
    BY <1>5 DEF Answer, Readably
  <2>3. QED
    BY <1>2, <2>1, <2>2
<1>6. CASE Readably(line) /\ a.policy = <<>>
  <2>1. Answer(line, public) = SignatureOnlyAnswer(a, public)
    BY <1>6 DEF Answer, Readably
  <2>2. Answer(other, public) = SignatureOnlyAnswer(b, public)
    BY <1>1, <1>6 DEF Answer, Readably
  <2>3. SignatureOnlyAnswer(a, public) = SignatureOnlyAnswer(b, public)
    BY <1>1, <1>2, <1>3 DEF SignatureOnlyAnswer
  <2>4. QED
    BY <2>1, <2>2, <2>3
<1>7. CASE Readably(line) /\ a.policy # <<>> /\ PolicyFault(a.policy) # Pass
  <2>1. Answer(line, public) = Refusal(a, "permerror", "policy_record_invalid")
    BY <1>7 DEF Answer, Readably
  <2>2. Answer(other, public) = Refusal(b, "permerror", "policy_record_invalid")
    BY <1>1, <1>7 DEF Answer, Readably
  <2>3. QED
    BY <1>2, <2>1, <2>2
<1>8. CASE Readably(line) /\ a.policy # <<>> /\ PolicyFault(a.policy) = Pass
  <2>1. Answer(line, public) = CompleteAnswer(a, public, PolicyOf(a.policy))
    BY <1>8 DEF Answer, Readably
  <2>2. Answer(other, public) = CompleteAnswer(b, public, PolicyOf(b.policy))
    BY <1>1, <1>8 DEF Answer, Readably
  <2>3. PolicyOf(a.policy) = PolicyOf(b.policy)
    BY <1>8
  <2>4. \A policy : CompleteAnswer(a, public, policy) = CompleteAnswer(b, public, policy)
    BY <1>1, <1>2, <1>3 DEF CompleteAnswer
  <2>5. QED
    BY <2>1, <2>2, <2>3, <2>4
<1>9. QED
  BY <1>4, <1>5, <1>6, <1>7, <1>8 DEF Readably

LEMMA FieldsType ==
  ASSUME NEW S, NEW line \in Seq(S)
  PROVE  CaseOf(line).policy \in Seq(S)
<1>1. PICK second : second = After(line, HTAB)
  OBVIOUS
<1>2. second \in Seq(S)
  BY <1>1, PartsType
<1>3. PICK third : third = After(second, HTAB)
  OBVIOUS
<1>4. third \in Seq(S)
  BY <1>2, <1>3, PartsType
<1>5. PICK fourth : fourth = After(third, HTAB)
  OBVIOUS
<1>6. fourth \in Seq(S)
  BY <1>4, <1>5, PartsType
<1>7. After(fourth, HTAB) \in Seq(S)
  BY <1>6, PartsType
<1>8. QED
  BY <1>1, <1>3, <1>5, <1>7 DEF CaseOf

-----------------------------------------------------------------------------
(* Lines that differ in blanks behind their fourth tab. *)

TabsBefore(s, i) == {j \in 1..(i - 1) : s[j] = HTAB}

SpacedAt(s, k, i) == IF s[i] = HTAB /\ Cardinality(TabsBefore(s, i)) >= k THEN SP ELSE s[i]

\* The same text when what is behind the k-th tab is spaced.
SpacedAlike(s, t, k) ==
  Len(s) = Len(t) /\ \A i \in 1..Len(s) : SpacedAt(s, k, i) = SpacedAt(t, k, i)

NoTabBefore(s, i) == \A j \in 1..(i - 1) : s[j] # HTAB

LEMMA TabsCounted ==
  ASSUME NEW S, NEW s \in Seq(S), NEW i \in Int, i <= Len(s) + 1
  PROVE  /\ IsPlaces(TabsBefore(s, i)) /\ Cardinality(TabsBefore(s, i)) \in Nat
         /\ NoTabBefore(s, i) => Cardinality(TabsBefore(s, i)) = 0
<1>1. TabsBefore(s, i) \subseteq DOMAIN s
  BY DEF TabsBefore
<1>2. IsPlaces(TabsBefore(s, i))
  BY <1>1, PlacesInText
<1>3. Cardinality(TabsBefore(s, i)) \in Nat
  BY <1>2, FS_CardinalityType DEF IsPlaces
<1>4. ASSUME NoTabBefore(s, i) PROVE Cardinality(TabsBefore(s, i)) = 0
  <2>1. TabsBefore(s, i) = {}
    BY <1>4 DEF TabsBefore, NoTabBefore
  <2>2. QED
    BY <2>1, FS_EmptySet
<1>5. QED
  BY <1>2, <1>3, <1>4

\* A first tab is not spaced, and stands at the same place of both texts.
LEMMA FirstTabStays ==
  ASSUME NEW S, NEW s \in Seq(S), NEW t \in Seq(S), NEW k \in Nat, k # 0, SpacedAlike(s, t, k),
         NEW i \in 1..Len(s), s[i] = HTAB, NoTabBefore(s, i)
  PROVE  t[i] = HTAB
<1>1. ~(Cardinality(TabsBefore(s, i)) >= k)
  BY TabsCounted
<1>2. SpacedAt(s, k, i) = HTAB
  BY <1>1 DEF SpacedAt
<1>3. SpacedAt(t, k, i) = HTAB
  BY <1>2 DEF SpacedAlike
<1>4. HTAB # SP
  BY DEF HTAB, SP
<1>5. QED
  BY <1>3, <1>4 DEF SpacedAt

LEMMA FirstTab ==
  ASSUME NEW S, NEW s \in Seq(S), NEW i \in 1..Len(s), s[i] = HTAB
  PROVE  \E m \in 1..i : s[m] = HTAB /\ NoTabBefore(s, m)
<1>1. PICK places : places = {j \in 1..i : s[j] = HTAB}
  OBVIOUS
<1>2. places \subseteq DOMAIN s /\ i \in places
  BY <1>1
<1>3. IsPlaces(places) /\ places # {}
  BY <1>2, PlacesInText
<1>4. PICK m \in places : \A j \in places : m <= j
  BY <1>3, FirstOfPlaces
<1>5. m \in 1..i /\ s[m] = HTAB
  BY <1>1, <1>4
<1>6. NoTabBefore(s, m)
  <2> SUFFICES ASSUME NEW j \in 1..(m - 1), s[j] = HTAB PROVE FALSE
    BY DEF NoTabBefore
  <2>1. j \in places
    BY <1>1, <1>5
  <2>2. QED
    BY <1>4, <1>5, <2>1
<1>7. QED
  BY <1>5, <1>6

\* Up to the first tab the texts are the same.
LEMMA SameToFirstTab ==
  ASSUME NEW S, NEW s \in Seq(S), NEW t \in Seq(S), NEW k \in Nat, k # 0, SpacedAlike(s, t, k),
         NEW i \in 1..(Len(s) + 1), NoTabBefore(s, i)
  PROVE  NoTabBefore(t, i) /\ \A j \in 1..(i - 1) : s[j] = t[j]
<1>1. Len(s) = Len(t) /\ Len(s) \in Nat
  BY DEF SpacedAlike
<1>2. NoTabBefore(t, i)
  <2> SUFFICES ASSUME NEW j \in 1..(i - 1), t[j] = HTAB PROVE FALSE
    BY DEF NoTabBefore
  <2>1. j \in 1..Len(t)
    BY <1>1
  <2>2. PICK m \in 1..j : t[m] = HTAB /\ NoTabBefore(t, m)
    BY <2>1, FirstTab
  <2>3. SpacedAlike(t, s, k) /\ m \in 1..Len(t)
    BY <1>1, <2>1 DEF SpacedAlike
  <2>4. s[m] = HTAB
    BY <2>2, <2>3, FirstTabStays
  <2>5. m \in 1..(i - 1)
    BY <2>1
  <2>6. QED
    BY <2>4, <2>5 DEF NoTabBefore
<1>3. ASSUME NEW j \in 1..(i - 1) PROVE s[j] = t[j]
  <2>1. j \in 1..Len(s)
    BY <1>1
  <2>2. SpacedAt(s, k, j) = SpacedAt(t, k, j)
    BY <2>1 DEF SpacedAlike
  <2>3. s[j] # HTAB /\ t[j] # HTAB
    BY <1>2 DEF NoTabBefore
  <2>4. QED
    BY <2>2, <2>3 DEF SpacedAt
<1>4. QED
  BY <1>2, <1>3

Behind(h, s, n) == h = SubSeq(s, n + 1, Len(s))

\* Behind the first tab the tabs are counted anew.
LEMMA TabsBehind ==
  ASSUME NEW S, NEW s \in Seq(S), NEW n \in 1..Len(s), s[n] = HTAB, NoTabBefore(s, n),
         NEW h \in Seq(S), Behind(h, s, n), NEW r \in 1..Len(h)
  PROVE  /\ n + r \in 1..Len(s) /\ h[r] = s[n + r]
         /\ Cardinality(TabsBefore(s, n + r)) = Cardinality(TabsBefore(h, r)) + 1
<1>1. /\ Len(s) \in Nat /\ Len(h) = Len(s) - n /\ \A j \in 1..Len(h) : h[j] = s[n + j]
  <2>1. h = SubSeq(s, n + 1, Len(s)) /\ s \in Seq(S) /\ h \in Seq(S) /\ n \in 1..Len(s)
    BY DEF Behind
  <2>2. QED
    BY ONLY <2>1
<1>2. n + r \in 1..Len(s) /\ h[r] = s[n + r]
  BY <1>1
<1>3. PICK B : B = TabsBefore(h, r)
  OBVIOUS
<1>4. B \subseteq Nat \ {0} /\ IsPlaces(B) /\ Cardinality(B) \in Nat
  <2>1. r <= Len(h) + 1
    BY <1>1
  <2>2. IsPlaces(TabsBefore(h, r)) /\ Cardinality(TabsBefore(h, r)) \in Nat
    <3>1. h \in Seq(S) /\ r \in Int
      OBVIOUS
    <3>2. QED
      BY ONLY <2>1, <3>1, TabsCounted
  <2>3. B \subseteq Nat \ {0}
    BY <1>1, <1>3 DEF TabsBefore
  <2>4. QED
    BY <1>3, <2>2, <2>3
<1>5. TabsBefore(s, n + r) = Joined(n, {n}, B)
  <2>1. ASSUME NEW j \in TabsBefore(s, n + r) PROVE j \in Joined(n, {n}, B)
    <3>1. j \in 1..((n + r) - 1) /\ s[j] = HTAB
      BY <2>1 DEF TabsBefore
    <3>2. j >= n
      BY <3>1 DEF NoTabBefore
    <3>3. CASE j = n
      BY <3>3 DEF Joined
    <3>4. CASE j # n
      <4>1. j - n \in 1..(r - 1) /\ n + (j - n) = j /\ j - n \in 1..Len(h)
        BY <1>1, <3>1, <3>2, <3>4
      <4>2. h[j - n] = HTAB
        BY <1>1, <3>1, <4>1
      <4>3. j - n \in B
        BY <1>3, <4>1, <4>2 DEF TabsBefore
      <4>4. j = (j - n) + n
        BY <4>1
      <4>5. QED
        BY <4>3, <4>4 DEF Joined
    <3>5. QED
      BY <3>3, <3>4
  <2>2. ASSUME NEW j \in Joined(n, {n}, B) PROVE j \in TabsBefore(s, n + r)
    <3>1. CASE j = n
      BY <1>1, <1>2, <3>1 DEF TabsBefore
    <3>2. CASE j # n
      <4>1. PICK b \in B : j = b + n
        BY <2>2, <3>2 DEF Joined
      <4>2. b \in 1..(r - 1) /\ h[b] = HTAB
        BY <1>3, <4>1 DEF TabsBefore
      <4>3. b \in 1..Len(h) /\ n + b = j /\ j \in 1..((n + r) - 1)
        BY <1>1, <4>1, <4>2
      <4>4. s[j] = HTAB
        BY <1>1, <4>2, <4>3
      <4>5. QED
        BY <4>3, <4>4 DEF TabsBefore
    <3>3. QED
      BY <3>1, <3>2
  <2>3. QED
    BY <2>1, <2>2
<1>6. IsPlaces(B)
  BY <1>4
<1>7. IsPlaces({n}) /\ Cardinality({n}) = 1
  <2>1. IsFiniteSet({n}) /\ Cardinality({n}) = 1
    BY FS_Singleton
  <2>2. QED
    BY <2>1 DEF IsPlaces
<1>8. Cardinality(Joined(n, {n}, B)) = 1 + Cardinality(B)
  <2>1. PICK A : A = {n}
    OBVIOUS
  <2>2. n \in Nat /\ A \subseteq 1..n /\ B \subseteq Nat \ {0} /\ IsPlaces(A) /\ IsPlaces(B)
    BY <1>1, <1>4, <1>6, <1>7, <2>1
  <2>3. Cardinality(Joined(n, A, B)) = Cardinality(A) + Cardinality(B)
    BY ONLY <2>2, JoinedCount
  <2>4. QED
    BY <1>7, <2>1, <2>3
<1>9. QED
  BY <1>2, <1>3, <1>4, <1>5, <1>8

LEMMA SpacedStep ==
  ASSUME NEW S, NEW s \in Seq(S), NEW t \in Seq(S), NEW k \in Nat, NEW l, l = k + 1,
         SpacedAlike(s, t, l)
  PROVE  Before(s, HTAB) = Before(t, HTAB) /\ SpacedAlike(After(s, HTAB), After(t, HTAB), k)
<1>1. Len(s) = Len(t) /\ Len(s) \in Nat /\ l \in Nat /\ l # 0
  BY DEF SpacedAlike
<1>2. CASE HTAB \notin LexemesOf(s)
  <2>1. Len(s) + 1 \in 1..(Len(s) + 1) /\ NoTabBefore(s, Len(s) + 1)
    BY <1>1, <1>2 DEF NoTabBefore, LexemesOf
  <2>2. NoTabBefore(t, Len(s) + 1) /\ \A j \in 1..((Len(s) + 1) - 1) : s[j] = t[j]
    BY <1>1, <2>1, SameToFirstTab
  <2>3. \A j \in 1..Len(s) : s[j] = t[j]
    BY <1>1, <2>2
  <2>4. s = t
    BY <1>1, <2>3, SeqEqual
  <2>5. Before(s, HTAB) = s /\ After(s, HTAB) = <<>>
    BY <1>2, BeforeWhole
  <2>6. QED
    BY <2>4 DEF SpacedAlike
<1>3. CASE HTAB \in LexemesOf(s)
  <2>1. PICK i0 \in 1..Len(s) : s[i0] = HTAB
    BY <1>3 DEF LexemesOf
  <2>2. PICK n \in 1..i0 : s[n] = HTAB /\ NoTabBefore(s, n)
    BY <2>1, FirstTab
  <2>3. n \in 1..Len(s) /\ n \in 1..(Len(s) + 1) /\ n \in 1..Len(t)
    BY <1>1, <2>1
  <2>4. t[n] = HTAB
    BY <1>1, <2>2, <2>3, FirstTabStays
  <2>5. NoTabBefore(t, n) /\ \A j \in 1..(n - 1) : s[j] = t[j]
    BY <1>1, <2>2, <2>3, SameToFirstTab
  <2>6. PICK g, h, g1, h1 : /\ g = SubSeq(s, 1, n - 1) /\ h = SubSeq(s, n + 1, Len(s))
                            /\ g1 = SubSeq(t, 1, n - 1) /\ h1 = SubSeq(t, n + 1, Len(t))
    OBVIOUS
  <2>7. /\ g \in Seq(S) /\ h \in Seq(S) /\ g1 \in Seq(S) /\ h1 \in Seq(S)
        /\ Len(h) = Len(h1) /\ Len(g) = n - 1 /\ Len(g1) = n - 1
        /\ \A j \in 1..(n - 1) : g[j] = s[j] /\ g1[j] = t[j]
    <3>1. n \in 1..Len(s) /\ n \in 1..Len(t) /\ s \in Seq(S) /\ t \in Seq(S) /\ Len(s) = Len(t)
      BY <1>1, <2>3
    <3>2. g \in Seq(S) /\ h \in Seq(S) /\ Len(h) = Len(s) - n /\ Len(g) = n - 1
      <4>1. g = SubSeq(s, 1, n - 1) /\ h = SubSeq(s, n + 1, Len(s))
        BY <2>6
      <4>2. QED
        BY ONLY <3>1, <4>1
    <3>3. g1 \in Seq(S) /\ h1 \in Seq(S) /\ Len(h1) = Len(t) - n /\ Len(g1) = n - 1
      <4>1. g1 = SubSeq(t, 1, n - 1) /\ h1 = SubSeq(t, n + 1, Len(t))
        BY <2>6
      <4>2. QED
        BY ONLY <3>1, <4>1
    <3>4. \A j \in 1..(n - 1) : g[j] = s[j] /\ g1[j] = t[j]
      BY ONLY <2>6, <3>1
    <3>5. QED
      BY ONLY <3>1, <3>2, <3>3, <3>4
  <2>8. g = g1
    <3>1. Len(g) = Len(g1) /\ \A j \in 1..Len(g) : g[j] = g1[j]
      BY <2>5, <2>7
    <3>2. QED
      BY <2>7, <3>1, SeqEqual
  <2>9. Before(s, HTAB) = g /\ After(s, HTAB) = h
    <3>1. s = g \o <<HTAB>> \o h
      BY <2>2, <2>3, <2>6, CutAt
    <3>2. HTAB \notin LexemesOf(g)
      <4>1. DOMAIN g = 1..(n - 1) /\ \A j \in 1..(n - 1) : s[j] # HTAB
        BY <2>2, <2>7 DEF NoTabBefore
      <4>2. QED
        BY <2>7, <4>1 DEF LexemesOf
    <3>3. g \in Seq(S) /\ h \in Seq(S) /\ HTAB \in S
      BY <2>2, <2>3, <2>7
    <3>4. Before(g \o <<HTAB>> \o h, HTAB) = g /\ After(g \o <<HTAB>> \o h, HTAB) = h
      BY <3>2, <3>3, BeforeAfter
    <3>5. QED
      BY <3>1, <3>4
  <2>10. Before(t, HTAB) = g1 /\ After(t, HTAB) = h1
    <3>1. t = g1 \o <<HTAB>> \o h1
      BY <2>3, <2>4, <2>6, CutAt
    <3>2. HTAB \notin LexemesOf(g1)
      BY <2>5, <2>7 DEF NoTabBefore, LexemesOf
    <3>3. g1 \in Seq(S) /\ h1 \in Seq(S) /\ HTAB \in S
      BY <2>3, <2>4, <2>7
    <3>4. Before(g1 \o <<HTAB>> \o h1, HTAB) = g1 /\ After(g1 \o <<HTAB>> \o h1, HTAB) = h1
      BY <3>2, <3>3, BeforeAfter
    <3>5. QED
      BY <3>1, <3>4
  <2>11. ASSUME NEW r \in 1..Len(h)
         PROVE  SpacedAt(h, k, r) = SpacedAt(h1, k, r)
    <3>0. Behind(h, s, n) /\ Behind(h1, t, n) /\ r \in 1..Len(h1)
      BY <2>6, <2>7 DEF Behind
    <3>1. /\ n + r \in 1..Len(s) /\ h[r] = s[n + r]
          /\ Cardinality(TabsBefore(s, n + r)) = Cardinality(TabsBefore(h, r)) + 1
      BY <2>2, <2>3, <2>7, <3>0, TabsBehind
    <3>2. /\ h1[r] = t[n + r]
          /\ Cardinality(TabsBefore(t, n + r)) = Cardinality(TabsBefore(h1, r)) + 1
      BY <2>3, <2>4, <2>5, <2>7, <3>0, TabsBehind
    <3>3. SpacedAt(s, l, n + r) = SpacedAt(t, l, n + r)
      BY <3>1 DEF SpacedAlike
    <3>4. Cardinality(TabsBefore(h, r)) \in Nat /\ Cardinality(TabsBefore(h1, r)) \in Nat
      <4>1. r \in Int /\ r <= Len(h) + 1 /\ r <= Len(h1) + 1
        BY <2>7
      <4>2. h \in Seq(S) /\ h1 \in Seq(S)
        BY <2>7
      <4>3. QED
        BY <4>1, <4>2, TabsCounted
    <3>5. /\ Cardinality(TabsBefore(s, n + r)) >= l <=> Cardinality(TabsBefore(h, r)) >= k
          /\ Cardinality(TabsBefore(t, n + r)) >= l <=> Cardinality(TabsBefore(h1, r)) >= k
      BY <3>1, <3>2, <3>4
    <3>6. QED
      BY <3>1, <3>2, <3>3, <3>5 DEF SpacedAt
  <2>12. SpacedAlike(h, h1, k)
    BY <2>7, <2>11 DEF SpacedAlike
  <2>13. QED
    BY <2>8, <2>9, <2>10, <2>12
<1>4. QED
  BY <1>2, <1>3

LEMMA SpacedToTheEnd ==
  ASSUME NEW S, NEW s \in Seq(S), NEW t \in Seq(S), SpacedAlike(s, t, 0)
  PROVE  Blankly(s, t)
<1>1. Len(s) = Len(t) /\ Len(s) \in Nat
  BY DEF SpacedAlike
<1>2. ASSUME NEW i \in 1..Len(s)
      PROVE  s[i] = t[i] \/ (s[i] \in Blanks /\ t[i] \in Blanks)
  <2>1. i \in Int /\ i <= Len(s) + 1 /\ i <= Len(t) + 1
    BY <1>1
  <2>2. Cardinality(TabsBefore(s, i)) \in Nat /\ Cardinality(TabsBefore(t, i)) \in Nat
    BY <2>1, TabsCounted
  <2>3. SpacedAt(s, 0, i) = SpacedAt(t, 0, i)
    BY DEF SpacedAlike
  <2>4. (IF s[i] = HTAB THEN SP ELSE s[i]) = (IF t[i] = HTAB THEN SP ELSE t[i])
    BY <2>2, <2>3 DEF SpacedAt
  <2>5. QED
    BY <2>4 DEF Blanks
<1>3. QED
  BY <1>1, <1>2 DEF Blankly

\* Lines with the same spaced form have the same fields, and policies that differ
\* in blanks only.
LEMMA SpacedFields ==
  ASSUME NEW S, NEW line \in Seq(S), NEW other \in Seq(S), Spaced(line) = Spaced(other)
  PROVE  /\ CaseOf(line).name = CaseOf(other).name /\ CaseOf(line).token = CaseOf(other).token
         /\ CaseOf(line).source = CaseOf(other).source /\ CaseOf(line).now = CaseOf(other).now
         /\ Blankly(CaseOf(line).policy, CaseOf(other).policy)
<1>1. PICK four, three, two, one, none :
        four = 4 /\ three = 3 /\ two = 2 /\ one = 1 /\ none = 0
  OBVIOUS
<1>2. SpacedAlike(line, other, four)
  <2>1. DOMAIN line = DOMAIN Spaced(line) /\ DOMAIN other = DOMAIN Spaced(other)
    BY DEF Spaced
  <2>2. Len(line) = Len(other) /\ DOMAIN line = 1..Len(line) /\ DOMAIN other = 1..Len(line)
    BY <2>1
  <2>3. ASSUME NEW i \in 1..Len(line) PROVE SpacedAt(line, 4, i) = SpacedAt(other, 4, i)
    <3>1. Spaced(line)[i] = SpacedAt(line, 4, i)
      BY <2>2 DEF Spaced, SpacedAt, TabsBefore
    <3>2. Spaced(other)[i] = SpacedAt(other, 4, i)
      BY <2>2 DEF Spaced, SpacedAt, TabsBefore
    <3>3. QED
      BY <3>1, <3>2
  <2>4. QED
    BY <1>1, <2>2, <2>3 DEF SpacedAlike
<1>3. /\ three \in Nat /\ four = three + 1 /\ two \in Nat /\ three = two + 1
      /\ one \in Nat /\ two = one + 1 /\ none \in Nat /\ one = none + 1
  BY <1>1
<1>4. PICK second, third, fourth : /\ second = After(line, HTAB) /\ third = After(second, HTAB)
                                   /\ fourth = After(third, HTAB)
  OBVIOUS
<1>5. PICK second1, third1, fourth1 : /\ second1 = After(other, HTAB) /\ third1 = After(second1, HTAB)
                                      /\ fourth1 = After(third1, HTAB)
  OBVIOUS
<1>6. second \in Seq(S) /\ second1 \in Seq(S)
  BY <1>4, <1>5, PartsType
<1>7. third \in Seq(S) /\ third1 \in Seq(S)
  BY <1>4, <1>5, <1>6, PartsType
<1>8. fourth \in Seq(S) /\ fourth1 \in Seq(S)
  BY <1>4, <1>5, <1>7, PartsType
<1>9. Before(line, HTAB) = Before(other, HTAB) /\ SpacedAlike(second, second1, three)
  <2>1. Before(line, HTAB) = Before(other, HTAB)
        /\ SpacedAlike(After(line, HTAB), After(other, HTAB), three)
    BY <1>2, <1>3, SpacedStep
  <2>2. QED
    BY <1>4, <1>5, <2>1
<1>10. Before(second, HTAB) = Before(second1, HTAB) /\ SpacedAlike(third, third1, two)
  <2>1. Before(second, HTAB) = Before(second1, HTAB)
        /\ SpacedAlike(After(second, HTAB), After(second1, HTAB), two)
    BY <1>3, <1>6, <1>9, SpacedStep
  <2>2. QED
    BY <1>4, <1>5, <2>1
<1>11. Before(third, HTAB) = Before(third1, HTAB) /\ SpacedAlike(fourth, fourth1, one)
  <2>1. Before(third, HTAB) = Before(third1, HTAB)
        /\ SpacedAlike(After(third, HTAB), After(third1, HTAB), one)
    BY <1>3, <1>7, <1>10, SpacedStep
  <2>2. QED
    BY <1>4, <1>5, <2>1
<1>12. /\ Before(fourth, HTAB) = Before(fourth1, HTAB)
       /\ SpacedAlike(After(fourth, HTAB), After(fourth1, HTAB), none)
  BY <1>3, <1>8, <1>11, SpacedStep
<1>13. Blankly(After(fourth, HTAB), After(fourth1, HTAB))
  <2>1. After(fourth, HTAB) \in Seq(S) /\ After(fourth1, HTAB) \in Seq(S)
    BY <1>8, PartsType
  <2>2. SpacedAlike(After(fourth, HTAB), After(fourth1, HTAB), 0)
    BY <1>1, <1>12
  <2>3. QED
    BY <2>1, <2>2, SpacedToTheEnd
<1>14. /\ CaseOf(line) = [name |-> Before(line, HTAB), token |-> Before(second, HTAB),
                          source |-> Before(third, HTAB), now |-> Before(fourth, HTAB),
                          policy |-> After(fourth, HTAB)]
       /\ CaseOf(other) = [name |-> Before(other, HTAB), token |-> Before(second1, HTAB),
                           source |-> Before(third1, HTAB), now |-> Before(fourth1, HTAB),
                           policy |-> After(fourth1, HTAB)]
  BY <1>4, <1>5 DEF CaseOf
<1>15. QED
  BY <1>9, <1>10, <1>11, <1>12, <1>13, <1>14

LEMMA NamesAreTabless ==
  ASSUME NEW s, NamesHaveNoTab(s)
  PROVE  NamesTabless(s)
BY DEF NamesHaveNoTab, NamesTabless, LexemesOf, Tags

\* A tab in a policy is worth a space, for every policy whose names hold none.
THEOREM TabsAreWorthSpaces == Spec => []TabsAreSpaces
<1>1. Inv => TabsAreSpaces
  <2> SUFFICES ASSUME Inv, NEW i \in DOMAIN asked, NEW j \in DOMAIN asked,
                      NamesHaveNoTab(Asked(i).policy), NamesHaveNoTab(Asked(j).policy),
                      Spaced(asked[i]) = Spaced(asked[j])
               PROVE  out[i] = out[j]
    BY DEF TabsAreSpaces
  <2>1. /\ asked[i] \in CaseLines /\ asked[j] \in CaseLines
        /\ out[i] = Answer(asked[i], key) /\ out[j] = Answer(asked[j], key)
    BY DEF Inv
  <2>2. PICK line, other : line = asked[i] /\ other = asked[j]
    OBVIOUS
  <2>3. line \in Seq(STRING) /\ other \in Seq(STRING)
    BY <2>1, <2>2, EvaluatorAssumption
  <2>4. Spaced(line) = Spaced(other)
    BY <2>2
  <2>5. /\ CaseOf(line).name = CaseOf(other).name /\ CaseOf(line).token = CaseOf(other).token
        /\ CaseOf(line).source = CaseOf(other).source /\ CaseOf(line).now = CaseOf(other).now
        /\ Blankly(CaseOf(line).policy, CaseOf(other).policy)
    BY <2>3, <2>4, SpacedFields
  <2>6. PICK s, t : s = CaseOf(line).policy /\ t = CaseOf(other).policy
    OBVIOUS
  <2>7. s \in Seq(STRING) /\ t \in Seq(STRING)
    BY <2>3, <2>6, FieldsType
  <2>8. Blankly(s, t)
    BY <2>5, <2>6
  <2>9. NamesTabless(s) /\ NamesTabless(t)
    <3>1. NamesHaveNoTab(s) /\ NamesHaveNoTab(t)
      BY <2>2, <2>6 DEF Asked
    <3>2. QED
      BY <3>1, NamesAreTabless
  <2>10. PolicyFault(s) = PolicyFault(t) /\ (PolicyFault(s) = Pass => PolicyOf(s) = PolicyOf(t))
    BY ONLY <2>7, <2>8, <2>9, BlanklyPolicies
  <2>11. s = <<>> <=> t = <<>>
    <3>1. Len(s) = Len(t)
      BY <2>8 DEF Blankly
    <3>2. QED
      BY <2>7, <3>1
  <2>12. Answer(line, key) = Answer(other, key)
    BY <2>5, <2>6, <2>10, <2>11, AnswerRestsOn
  <2>13. QED
    BY <2>1, <2>2, <2>12
<1>2. QED
  BY <1>1, InvHolds, PTL

-----------------------------------------------------------------------------

\* Answer b is answer a, but reports what a stakes.
ReportsAs(a, b) ==
  /\ a.operator = b.operator /\ a.unit = b.unit /\ a.observed_unit = b.observed_unit
  /\ a.auth_result = "pass" => b.auth_result = "none" /\ b.reason = "testing_mode"
  /\ a.auth_result # "pass" => b.auth_result = a.auth_result /\ b.reason = a.reason

\* A policy that says testing reports what another one stakes.
LEMMA TestingReports ==
  ASSUME NEW line, NEW other, NEW public,
         CaseOf(line).token = CaseOf(other).token,
         CaseOf(line).source = CaseOf(other).source, CaseOf(line).now = CaseOf(other).now,
         CaseOf(line).policy # <<>>, CaseOf(other).policy # <<>>,
         PolicyFault(CaseOf(other).policy) = PolicyFault(CaseOf(line).policy),
         PolicyFault(CaseOf(line).policy) = Pass =>
           Tested(PolicyOf(CaseOf(other).policy), PolicyOf(CaseOf(line).policy))
  PROVE  ReportsAs(Answer(line, public), Answer(other, public))
<1> USE DEF ReportsAs
<1> DEFINE a == CaseOf(line)
           b == CaseOf(other)
<1>1. /\ TokenOf(a) = TokenOf(b) /\ SourceOf(a) = SourceOf(b) /\ NowOf(a) = NowOf(b)
      /\ Readably(line) <=> Readably(other)
  BY DEF TokenOf, SourceOf, NowOf, Readably
<1>2. \A result, reason :
        LET x == Refusal(a, result, reason)
            y == Refusal(b, result, reason)
        IN  /\ x.operator = y.operator /\ x.unit = y.unit /\ x.observed_unit = y.observed_unit
            /\ x.auth_result = y.auth_result /\ x.reason = y.reason
  BY DEF Refusal
<1>3. \A result, reason : /\ result \in {"fail", "permerror"} => Refusal(a, result, reason).auth_result # "pass"
  BY DEF Refusal
<1>4. CASE ~IsHex(a.token)
  <2>1. Answer(line, public) = Refusal(a, "permerror", "malformed")
    BY <1>4 DEF Answer, Readably
  <2>2. Answer(other, public) = Refusal(b, "permerror", "malformed")
    BY <1>4 DEF Answer, Readably
  <2>3. QED
    BY <1>2, <1>3, <2>1, <2>2
<1>5. CASE IsHex(a.token) /\ a.source \notin DOMAIN AddressOf
  <2>1. Answer(line, public) = Refusal(a, "permerror", "bad_source")
    BY <1>5 DEF Answer, Readably
  <2>2. Answer(other, public) = Refusal(b, "permerror", "bad_source")
    BY <1>5 DEF Answer, Readably
  <2>3. QED
    BY <1>2, <1>3, <2>1, <2>2
<1>6. CASE Readably(line) /\ PolicyFault(a.policy) # Pass
  <2>1. Answer(line, public) = Refusal(a, "permerror", "policy_record_invalid")
    BY <1>6 DEF Answer, Readably
  <2>2. Answer(other, public) = Refusal(b, "permerror", "policy_record_invalid")
    BY <1>1, <1>6 DEF Answer, Readably
  <2>3. QED
    BY <1>2, <1>3, <2>1, <2>2
<1>7. CASE Readably(line) /\ PolicyFault(a.policy) = Pass
  <2> DEFINE token == TokenOf(b)
             source == SourceOf(b)
             now == NowOf(b)
             p == PolicyOf(a.policy)
             q == PolicyOf(b.policy)
             fault == VerifyFault(token, public, p, source, now)
             m == Authorized(Unverified(token, source), p)
             n == Authorized(Unverified(token, source), q)
  <2>1. Answer(line, public) = CompleteAnswer(a, public, p)
    BY <1>7 DEF Answer, Readably
  <2>2. Answer(other, public) = CompleteAnswer(b, public, q)
    BY <1>1, <1>7 DEF Answer, Readably
  <2>3. /\ p.testing = FALSE /\ q = [p EXCEPT !.testing = TRUE]
        /\ DOMAIN p = {"prefixes", "unit", "testing", "rua"}
    BY <1>7 DEF PolicyOf, Tested
  <2>4. q.prefixes = p.prefixes /\ q.unit = p.unit /\ q.testing = TRUE
    <3> HIDE DEF p, q
    <3>1. QED
      BY <2>3
  <2>5. VerifyFault(token, public, q, source, now) = fault
    <3> HIDE DEF p, q
    <3>1. \A u : AuthorizeFault(u, q) = AuthorizeFault(u, p)
      BY <2>4 DEF AuthorizeFault, Authorizes
    <3>2. QED
      BY <3>1 DEF VerifyFault
  <2>6. CASE fault # Pass
    <3>1. CompleteAnswer(a, public, p) = Refusal(a, AuthResult(fault), fault)
      BY <1>1, <2>6 DEF CompleteAnswer
    <3>2. CompleteAnswer(b, public, q) = Refusal(b, AuthResult(fault), fault)
      BY <2>5, <2>6 DEF CompleteAnswer
    <3>3. AuthResult(fault) \in {"fail", "permerror"}
      BY ReasonReports
    <3>4. QED
      <4> HIDE DEF p, q, fault
      <4>1. QED
        BY <1>2, <1>3, <2>1, <2>2, <3>1, <3>2, <3>3
  <2>7. CASE fault = Pass
    <3>1. CompleteAnswer(a, public, p) = Attribution(a, "pass", Pass, Verified(m))
      BY <1>1, <2>3, <2>7 DEF CompleteAnswer, OutcomeResult, Authorized
    <3>2. CompleteAnswer(b, public, q) = Attribution(b, "none", "testing_mode", Verified(n))
      <4> HIDE DEF p, q
      <4>1. OutcomeResult(n) = "none"
        BY <2>4 DEF OutcomeResult, Authorized
      <4>2. QED
        BY <2>4, <2>5, <2>7, <4>1 DEF CompleteAnswer
    <3>3. /\ Verified(m).operator = Verified(n).operator /\ Verified(m).unit = Verified(n).unit
          /\ Verified(m).observed_unit = Verified(n).observed_unit
      BY DEF Verified, Authorized
    <3>4. QED
      <4> HIDE DEF p, q, m, n
      <4>1. QED
        BY <2>1, <2>2, <3>1, <3>2, <3>3 DEF Attribution
  <2>8. QED
    BY <2>6, <2>7
<1>8. QED
  BY <1>4, <1>5, <1>6, <1>7 DEF Readably

\* Two cases that differ in the tag t=y of their policies.
OnlyTesting(i, j) ==
  /\ SameToken(i, j) /\ Asked(i).policy # <<>>
  /\ Untested(Asked(i).policy)
  /\ AsksTesting(Asked(j).policy, Asked(i).policy, ";")
Observed(i, j) ==
  /\ Columns(i) = Columns(j)
  /\ <<out[j].auth_result, out[j].reason>> =
       IF out[i].auth_result = "pass"
         THEN <<"none", "testing_mode">>
         ELSE <<out[i].auth_result, out[i].reason>>

\* What the parser makes of the two policies.
LEMMA TestedPolicies ==
  ASSUME PrintsTesting,
         NEW s \in Seq(STRING), NEW t, Untested(s), AsksTesting(t, s, ";")
  PROVE  /\ t # <<>>
         /\ PolicyFault(t) = PolicyFault(s)
         /\ PolicyFault(s) = Pass => Tested(PolicyOf(t), PolicyOf(s))
<1>1. PICK sep, eq, S : AreSeparators(sep, eq) /\ sep = ";" /\ S = STRING \union {sep, "t", "=", "y"}
  BY DEF AreSeparators
<1>2. s \in Seq(S)
  <2>1. PICK A : A = STRING /\ s \in Seq(A) /\ \A x \in A : x \in S
    BY ONLY <1>1, s \in Seq(STRING)
  <2>2. s \in Seq(A) /\ \A x \in A : x \in S
    BY ONLY <2>1
  <2>3. QED
    BY ONLY <2>2, WiderSeq
<1>3. /\ AreSeparators(sep, eq) /\ HostsTesting(S, sep) /\ AsksTesting(t, s, sep)
  BY <1>1 DEF HostsTesting
<1>5. /\ PolicyFault(t) = PolicyFault(s)
      /\ PolicyFault(s) = Pass => Tested(PolicyOf(t), PolicyOf(s))
  BY ONLY <1>2, <1>3, PrintsTesting, Untested(s), TestingAsked
<1>6. t # <<>>
  <2>1. t \in Seq(S) /\ TestingTag \in Seq(S) /\ JoinedBy(t, s, sep, TestingTag)
    BY ONLY <1>2, <1>3, TestingJoined
  <2>2. Len(t) > Len(s)
    BY ONLY <1>2, <2>1 DEF JoinedBy
  <2>3. QED
    BY ONLY <1>2, <2>2
<1>7. QED
  BY <1>5, <1>6

\* The testing flag changes what is staked and nothing else, for every policy.
THEOREM TestingChangesTheStake == Spec => []TestingOnlyObserves
<1>1. Inv => TestingOnlyObserves
  <2>1. SUFFICES ASSUME Inv, NEW i \in DOMAIN asked, NEW j \in DOMAIN asked, OnlyTesting(i, j)
                 PROVE  Observed(i, j)
    BY DEF TestingOnlyObserves, OnlyTesting, Observed, Untested, AsksTesting
  <2>2. /\ asked[i] \in CaseLines /\ asked[j] \in CaseLines
        /\ out[i] = Answer(asked[i], key) /\ out[j] = Answer(asked[j], key)
    BY <2>1 DEF Inv
  <2>3. PICK line, other : line = asked[i] /\ other = asked[j]
    OBVIOUS
  <2>4. PICK s, t : s = CaseOf(line).policy /\ t = CaseOf(other).policy
    OBVIOUS
  <2>5. s \in Seq(STRING)
    <3>1. line \in Seq(STRING)
      BY <2>2, <2>3, EvaluatorAssumption
    <3>2. QED
      BY <2>4, <3>1, FieldsType
  <2>6. Untested(s) /\ s # <<>> /\ AsksTesting(t, s, ";")
    BY <2>1, <2>3, <2>4 DEF Asked, OnlyTesting
  <2>7. /\ t # <<>>
        /\ PolicyFault(t) = PolicyFault(s)
        /\ PolicyFault(s) = Pass => Tested(PolicyOf(t), PolicyOf(s))
    <3>1. PrintsTesting
      BY EvaluatorAssumption DEF PrintsTesting
    <3>2. QED
      BY <2>5, <2>6, <3>1, TestedPolicies
  <2>8. /\ CaseOf(line).token = CaseOf(other).token /\ CaseOf(line).source = CaseOf(other).source
        /\ CaseOf(line).now = CaseOf(other).now
    BY <2>1, <2>3 DEF SameToken, Asked, OnlyTesting
  <2>9. PICK a, b : a = Answer(line, key) /\ b = Answer(other, key)
    OBVIOUS
  <2>10. /\ a.operator = b.operator /\ a.unit = b.unit /\ a.observed_unit = b.observed_unit
         /\ a.auth_result = "pass" => b.auth_result = "none" /\ b.reason = "testing_mode"
         /\ a.auth_result # "pass" => b.auth_result = a.auth_result /\ b.reason = a.reason
    <3>1. ReportsAs(Answer(line, key), Answer(other, key))
      <4>1. CaseOf(line).policy # <<>> /\ CaseOf(other).policy # <<>>
        BY <2>4, <2>6, <2>7
      <4>2. PolicyFault(CaseOf(other).policy) = PolicyFault(CaseOf(line).policy)
        BY <2>4, <2>7
      <4>3. PolicyFault(CaseOf(line).policy) = Pass =>
              Tested(PolicyOf(CaseOf(other).policy), PolicyOf(CaseOf(line).policy))
        BY <2>4, <2>7
      <4>4. QED
        BY ONLY <2>8, <4>1, <4>2, <4>3, TestingReports
    <3>2. QED
      BY <2>9, <3>1 DEF ReportsAs
  <2>11. out[i] = a /\ out[j] = b
    BY <2>2, <2>3, <2>9
  <2>12. QED
    BY <2>10, <2>11 DEF Columns, Observed
<1>2. QED
  BY <1>1, InvHolds, PTL

-----------------------------------------------------------------------------
(* What a pass rests on. *)

\* The places an entry is written at.
LEMMA EntryHasPlaces ==
  ASSUME NEW S, NEW s \in Seq(S), NEW entry, NEW prefix, WrittenEntry(S, s, entry, prefix)
  PROVE  \E a, b \in DOMAIN s : EntryAt(s, a, b) /\ PrefixFrom(SubSeq(s, a, b)) = prefix
<1>1. entry \in Seq(S) /\ entry # <<>> /\ IsPrefixText(entry) /\ PrefixFrom(entry) = prefix
  BY DEF WrittenEntry
<1>2. PICK x \in Seq(S), y \in Seq(S) : Framed(s, x, entry, y, EntryLeft, EntryRight) /\ x # <<>>
  BY DEF WrittenEntry, Follows
<1>3. PICK a, b : a = Len(x) + 1 /\ b = Len(x) + Len(entry)
  OBVIOUS
<1>4. /\ a \in DOMAIN s /\ b \in DOMAIN s /\ a > 1 /\ SubSeq(s, a, b) = entry
      /\ s[a - 1] = x[Len(x)]
      /\ b = Len(s) <=> y = <<>>
      /\ y # <<>> => s[b + 1] = y[1]
  <2>1. /\ SubSeq(s, a, b) = entry /\ Len(s) = b + Len(y)
        /\ \A m \in 1..Len(x) : s[m] = x[m]
        /\ \A m \in 1..Len(y) : s[b + m] = y[m]
    <3>1. /\ SubSeq(s, Len(x) + 1, Len(x) + Len(entry)) = entry
          /\ Len(s) = Len(x) + Len(entry) + Len(y)
          /\ \A m \in 1..Len(x) : s[m] = x[m]
          /\ \A m \in 1..Len(y) : s[Len(x) + Len(entry) + m] = y[m]
      <4>1. entry \in Seq(S) /\ Placed(s, x, entry, y)
        BY <1>1, <1>2 DEF Framed
      <4>2. QED
        BY ONLY <4>1, x \in Seq(S), y \in Seq(S), PlacedAt
    <3>2. QED
      BY <1>3, <3>1
  <2>2. Len(x) \in Nat \ {0} /\ Len(entry) \in Nat \ {0} /\ Len(y) \in Nat
        /\ (Len(y) = 0 <=> y = <<>>)
    BY ONLY <1>1, <1>2, y \in Seq(S), x \in Seq(S)
  <2>3. a - 1 = Len(x) /\ a > 1 /\ a \in 1..Len(s) /\ b \in 1..Len(s) /\ b \in Nat
    BY ONLY <1>3, <2>1, <2>2
  <2>4. s[a - 1] = x[Len(x)]
    BY ONLY <2>1, <2>2, <2>3
  <2>5. b = Len(s) <=> y = <<>>
    <3>1. Len(s) = b + Len(y) /\ Len(y) \in Nat /\ b \in Nat
      BY <2>1, <2>2, <2>3
    <3>2. b = Len(s) <=> Len(y) = 0
      BY ONLY <3>1
    <3>3. QED
      BY <2>2, <3>2
  <2>6. y # <<>> => s[b + 1] = y[1]
    BY ONLY <2>1, <2>2
  <2>7. QED
    BY ONLY <2>1, <2>3, <2>4, <2>5, <2>6, s \in Seq(S)
<1>5. s[a - 1] \in EntryLeft
  BY <1>2, <1>4 DEF Framed, EndsIn
<1>6. b = Len(s) \/ s[b + 1] \in EntryRight
  BY <1>2, <1>4 DEF Framed, StartsIn
<1>7. EntryAt(s, a, b)
  BY <1>1, <1>4, <1>5, <1>6 DEF EntryAt, EntryLeft, EntryRight
<1>8. QED
  BY <1>1, <1>4, <1>7

\* What stands behind a pass under a policy.
LEMMA PassMeans ==
  ASSUME NEW line, NEW public, CaseOf(line).policy # <<>>,
         Answer(line, public).auth_result = "pass"
  PROVE  LET c == CaseOf(line)
         IN  /\ Readably(line) /\ PolicyFault(c.policy) = Pass
             /\ ParseFault(TokenOf(c), SourceOf(c), NowOf(c), {}) = Pass
             /\ Authorizes(PolicyOf(c.policy), PayloadOf(PayloadItem(TokenOf(c))).prefix)
<1> DEFINE c == CaseOf(line)
           policy == PolicyOf(c.policy)
           fault == VerifyFault(TokenOf(c), public, policy, SourceOf(c), NowOf(c))
<1>1. \A auth, reason : auth \in {"fail", "permerror"} =>
        Refusal(c, auth, reason).auth_result # "pass"
  BY DEF Refusal
<1>2. IsHex(c.token)
  <2>1. ASSUME ~IsHex(c.token) PROVE Answer(line, public) = Refusal(c, "permerror", "malformed")
    BY <2>1 DEF Answer, Readably
  <2>2. QED
    BY <1>1, <2>1
<1>3. Readably(line)
  <2>1. ASSUME ~Readably(line) PROVE Answer(line, public) = Refusal(c, "permerror", "bad_source")
    BY <1>2, <2>1 DEF Answer, Readably
  <2>2. QED
    BY <1>1, <2>1
<1>4. PolicyFault(c.policy) = Pass
  <2>1. ASSUME PolicyFault(c.policy) # Pass
        PROVE  Answer(line, public) = Refusal(c, "permerror", "policy_record_invalid")
    BY <1>3, <2>1 DEF Answer, Readably
  <2>2. QED
    BY <1>1, <2>1
<1>5. Answer(line, public) = CompleteAnswer(c, public, policy)
  BY <1>3, <1>4 DEF Answer, Readably
<1>6. fault = Pass
  <2>1. ASSUME fault # Pass
        PROVE  Answer(line, public) = Refusal(c, AuthResult(fault), fault)
    BY <1>5, <2>1 DEF CompleteAnswer
  <2>2. AuthResult(fault) \in {"fail", "permerror"}
    BY ReasonReports
  <2>3. QED
    BY <1>1, <2>1, <2>2
<1>7. /\ ParseFault(TokenOf(c), SourceOf(c), NowOf(c), {}) = Pass
      /\ AuthorizeFault(Unverified(TokenOf(c), SourceOf(c)), policy) = Pass
  <2> HIDE DEF c, policy
  <2>1. QED
    BY <1>6, ChainPasses DEF VerifyFault
<1>8. Authorizes(policy, PayloadOf(PayloadItem(TokenOf(c))).prefix)
  <2> HIDE DEF c, policy
  <2>1. Check(Authorizes(policy, Unverified(TokenOf(c), SourceOf(c)).payload.prefix),
              "unauthorized_prefix") = Pass
    BY <1>7, ChainPasses DEF AuthorizeFault
  <2>2. Authorizes(policy, Unverified(TokenOf(c), SourceOf(c)).payload.prefix)
    BY <2>1 DEF Check, Pass
  <2>3. QED
    BY <2>2 DEF Unverified
<1>9. QED
  BY <1>3, <1>4, <1>7, <1>8

\* The claim of a token that parses holds of the connection.
LEMMA ClaimHolds ==
  ASSUME NEW octets \in DOMAIN Decode, NEW source \in Ipv6Addr, NEW now \in Int,
         ParseFault(Decode[octets], source, now, {}) = Pass
  PROVE  LET claim == PayloadOf(PayloadItem(Decode[octets]))
         IN  /\ source \in Block(claim.prefix)
             /\ now \in (claim.iat - SkewSecs)..(claim.exp + SkewSecs)
             /\ claim.iat \in Nat /\ claim.exp \in Nat
<1> DEFINE token == Decode[octets]
           item == PayloadItem(token)
           claim == PayloadOf(item)
<1>1. /\ EnvelopeFault(token) = Pass /\ RejectTaggedFields(item) = Pass
      /\ PayloadFault(item) = Pass
      /\ ConnectionFault(claim, source, now, {}) = Pass
  BY ParsePasses
<1>2. item.kind = "map" => DOMAIN item.v \subseteq Nat
  BY <1>1, EvaluatorAssumption
<1>3. /\ IsAttestable(DecodePrefix(Field(item, KeyPrefix)))
      /\ Field(item, KeyIat) \in 0..U64Max /\ Field(item, KeyExp) \in 0..U64Max
  BY <1>1, <1>2, PayloadBounds
<1>4. IsAttestable(claim.prefix) /\ claim.iat \in Nat /\ claim.exp \in Nat
  BY <1>3 DEF PayloadOf
<1>5. {} \in SUBSET Prefixes
  OBVIOUS
<1>6. QED
  BY <1>1, <1>4, <1>5, ConnectionBounds

\* A pass rests on what the policy says and on the connection, for every policy,
\* token and connection.
THEOREM PassesRestOnText == Spec => []PassRestsOnText
<1>1. Inv => PassRestsOnText
  <2> SUFFICES ASSUME Inv, NEW i \in DOMAIN asked,
                      out[i].auth_result = "pass", Asked(i).policy # <<>>
               PROVE  LET s     == Asked(i).policy
                          claim == PayloadOf(PayloadItem(TokenOf(Asked(i))))
                      IN  /\ \E a, b \in DOMAIN s :
                               /\ EntryAt(s, a, b)
                               /\ PrefixFrom(SubSeq(s, a, b)).len <= claim.prefix.len
                               /\ claim.prefix.addr \in Block(PrefixFrom(SubSeq(s, a, b)))
                          /\ SourceOf(Asked(i)) \in Block(claim.prefix)
                          /\ NowOf(Asked(i)) \in (claim.iat - SkewSecs)..(claim.exp + SkewSecs)
    BY DEF PassRestsOnText
  <2>1. asked[i] \in CaseLines /\ out[i] = Answer(asked[i], key)
    BY DEF Inv
  <2>2. PICK line, c : line = asked[i] /\ c = CaseOf(line)
    OBVIOUS
  <2>3. PICK s, claim : s = c.policy /\ claim = PayloadOf(PayloadItem(TokenOf(c)))
    OBVIOUS
  <2>4. Asked(i) = c
    BY <2>2 DEF Asked
  <2>5. /\ Readably(line) /\ PolicyFault(s) = Pass
        /\ ParseFault(TokenOf(c), SourceOf(c), NowOf(c), {}) = Pass
        /\ Authorizes(PolicyOf(s), claim.prefix)
    <3>1. CaseOf(line).policy # <<>> /\ Answer(line, key).auth_result = "pass"
      BY <2>1, <2>2, <2>4
    <3>2. /\ Readably(line) /\ PolicyFault(CaseOf(line).policy) = Pass
          /\ ParseFault(TokenOf(CaseOf(line)), SourceOf(CaseOf(line)), NowOf(CaseOf(line)), {})
               = Pass
          /\ Authorizes(PolicyOf(CaseOf(line).policy),
                        PayloadOf(PayloadItem(TokenOf(CaseOf(line)))).prefix)
      BY <3>1, PassMeans
    <3>3. QED
      BY <2>2, <2>3, <3>2
  <2>6. SourceOf(c) \in Ipv6Addr /\ NowOf(c) \in Int
    BY <2>2, <2>5, AddressAssumption, EvaluatorAssumption DEF Readably, SourceOf, NowOf
  <2>7. /\ SourceOf(c) \in Block(claim.prefix)
        /\ NowOf(c) \in (claim.iat - SkewSecs)..(claim.exp + SkewSecs)
    <3>1. HexOctets(c.token) \in DOMAIN Decode
      BY <2>1, <2>2, <2>5, EvaluatorAssumption DEF Readably
    <3>2. QED
      BY <2>3, <2>5, <2>6, <3>1, ClaimHolds DEF TokenOf
  <2>8. PICK m \in DOMAIN PolicyOf(s).prefixes :
          /\ PolicyOf(s).prefixes[m].len <= claim.prefix.len
          /\ claim.prefix.addr \in Block(PolicyOf(s).prefixes[m])
    BY <2>5, <2>7, AuthorizingEntry
  <2>9. s \in Seq(STRING)
    <3>1. line \in Seq(STRING)
      BY <2>1, <2>2, EvaluatorAssumption
    <3>2. QED
      BY <2>2, <2>3, <3>1, FieldsType
  <2>10. PICK entry : WrittenEntry(STRING, s, entry, PolicyOf(s).prefixes[m])
    BY <2>5, <2>9, EntriesAreWritten
  <2>11. PICK a \in DOMAIN s, b \in DOMAIN s :
           EntryAt(s, a, b) /\ PrefixFrom(SubSeq(s, a, b)) = PolicyOf(s).prefixes[m]
    BY <2>9, <2>10, EntryHasPlaces
  <2>12. QED
    BY <2>3, <2>4, <2>7, <2>8, <2>11
<1>2. QED
  BY <1>1, InvHolds, PTL

-----------------------------------------------------------------------------
(* The time of a case. *)

Usable(line) ==
  Readably(line) /\ (CaseOf(line).policy = <<>> \/ PolicyFault(CaseOf(line).policy) = Pass)

\* The fault of a case, and what is reported without one.
FaultOf(case, public) ==
  IF case.policy = <<>>
    THEN SignatureOnlyFault(TokenOf(case), public, SourceOf(case), NowOf(case))
    ELSE VerifyFault(TokenOf(case), public, PolicyOf(case.policy), SourceOf(case), NowOf(case))

Reported(case) ==
  LET policy     == PolicyOf(case.policy)
      authorized == Authorized(Unverified(TokenOf(case), SourceOf(case)), policy)
  IN  IF case.policy = <<>>
        THEN Attribution(case, "pass", Pass, SignatureOnlyVerified(TokenOf(case), SourceOf(case)))
        ELSE Attribution(case, OutcomeResult(authorized),
                         IF policy.testing THEN "testing_mode" ELSE Pass, Verified(authorized))

LEMMA AnswerOfUsable ==
  ASSUME NEW line, NEW public, Usable(line)
  PROVE  LET c == CaseOf(line)
         IN  Answer(line, public) =
               IF FaultOf(c, public) = Pass THEN Reported(c)
               ELSE Refusal(c, AuthResult(FaultOf(c, public)), FaultOf(c, public))
<1>1. PICK c : c = CaseOf(line)
  OBVIOUS
<1>2. Readably(line) /\ (c.policy = <<>> \/ PolicyFault(c.policy) = Pass)
  BY <1>1 DEF Usable
<1>3. CASE c.policy = <<>>
  <2>1. Answer(line, public) = SignatureOnlyAnswer(c, public)
    BY <1>1, <1>2, <1>3 DEF Answer, Readably
  <2>2. QED
    BY <1>1, <1>3, <2>1 DEF SignatureOnlyAnswer, FaultOf, Reported
<1>4. CASE c.policy # <<>>
  <2>1. Answer(line, public) = CompleteAnswer(c, public, PolicyOf(c.policy))
    BY <1>1, <1>2, <1>4 DEF Answer, Readably
  <2>2. QED
    BY <1>1, <1>4, <2>1 DEF CompleteAnswer, FaultOf, Reported
<1>5. QED
  BY <1>3, <1>4

\* Somebody is named only where there is no fault.
LEMMA AttributedMeans ==
  ASSUME NEW line, NEW public, Answer(line, public).operator # Nobody
  PROVE  Usable(line) /\ FaultOf(CaseOf(line), public) = Pass
<1>1. PICK c : c = CaseOf(line)
  OBVIOUS
<1>2. \A result, reason : Refusal(c, result, reason).operator = Nobody
  BY DEF Refusal
<1>3. Usable(line)
  <2> SUFFICES ASSUME ~Usable(line) PROVE FALSE
    OBVIOUS
  <2>1. CASE ~IsHex(c.token)
    <3>1. Answer(line, public) = Refusal(c, "permerror", "malformed")
      BY <1>1, <2>1 DEF Answer, Readably
    <3>2. QED
      BY <1>2, <3>1
  <2>2. CASE IsHex(c.token) /\ c.source \notin DOMAIN AddressOf
    <3>1. Answer(line, public) = Refusal(c, "permerror", "bad_source")
      BY <1>1, <2>2 DEF Answer, Readably
    <3>2. QED
      BY <1>2, <3>1
  <2>3. CASE Readably(line)
    <3>1. c.policy # <<>> /\ PolicyFault(c.policy) # Pass
      BY <1>1, <2>3 DEF Usable
    <3>2. Answer(line, public) = Refusal(c, "permerror", "policy_record_invalid")
      BY <1>1, <2>3, <3>1 DEF Answer, Readably
    <3>3. QED
      BY <1>2, <3>2
  <2>4. QED
    BY <1>1, <2>1, <2>2, <2>3 DEF Readably
<1>4. FaultOf(c, public) = Pass
  <2> SUFFICES ASSUME FaultOf(c, public) # Pass PROVE FALSE
    OBVIOUS
  <2>1. Answer(line, public) = Refusal(c, AuthResult(FaultOf(c, public)), FaultOf(c, public))
    BY <1>1, <1>3, AnswerOfUsable
  <2>2. QED
    BY <1>2, <2>1
<1>5. QED
  BY <1>1, <1>3, <1>4

\* The same case at another time.
OtherTime(case, other) ==
  /\ case.token = other.token /\ case.source = other.source /\ case.policy = other.policy

\* Only the checks of the time can fail then.
LEMMA FaultAtOtherTime ==
  ASSUME NEW case, NEW other, OtherTime(case, other), NEW public, FaultOf(case, public) = Pass
  PROVE  LET claim == PayloadOf(PayloadItem(TokenOf(other)))
         IN  /\ ParseFault(TokenOf(case), SourceOf(case), NowOf(case), {}) = Pass
             /\ FaultOf(other, public) =
                  Check(NowOf(other) >= claim.iat - SkewSecs, "not_yet_valid")
                  ?? Check(NowOf(other) <= claim.exp + SkewSecs, "expired")
<1>1. PICK token, source, policy :
        token = TokenOf(case) /\ source = SourceOf(case) /\ policy = case.policy
  OBVIOUS
<1>2. token = TokenOf(other) /\ source = SourceOf(other) /\ policy = other.policy
  BY <1>1 DEF OtherTime, TokenOf, SourceOf
<1>3. PICK past, now : past = NowOf(case) /\ now = NowOf(other)
  OBVIOUS
<1>4. PICK authorize, signature :
        /\ authorize = AuthorizeFault(Unverified(token, source), PolicyOf(policy))
        /\ signature = SignatureFault(Unverified(token, source), public)
  OBVIOUS
<1>5. /\ ParseFault(token, source, past, {}) = Pass /\ signature = Pass
      /\ policy # <<>> => authorize = Pass
  <2>1. CASE policy = <<>>
    <3>1. ParseFault(token, source, past, {}) ?? signature = Pass
      BY <1>1, <1>3, <1>4, <2>1 DEF FaultOf, SignatureOnlyFault
    <3>2. QED
      BY <2>1, <3>1, ChainPasses
  <2>2. CASE policy # <<>>
    <3>1. ParseFault(token, source, past, {}) ?? authorize ?? signature = Pass
      BY <1>1, <1>3, <1>4, <2>2 DEF FaultOf, VerifyFault
    <3>2. QED
      BY <3>1, ChainPasses
  <2>3. QED
    BY <2>1, <2>2
<1>6. FaultOf(other, public) = ParseFault(token, source, now, {})
  <2>1. \A fault : (fault ?? Pass) = fault
    BY DEF ??
  <2>2. CASE policy = <<>>
    <3>1. FaultOf(other, public) = ParseFault(token, source, now, {}) ?? signature
      BY <1>2, <1>3, <1>4, <2>2 DEF FaultOf, SignatureOnlyFault
    <3>2. QED
      BY <1>5, <2>1, <3>1
  <2>3. CASE policy # <<>>
    <3>1. FaultOf(other, public) = ParseFault(token, source, now, {}) ?? authorize ?? signature
      BY <1>2, <1>3, <1>4, <2>3 DEF FaultOf, VerifyFault
    <3>2. QED
      BY <1>5, <2>1, <2>3, <3>1
  <2>4. QED
    BY <2>2, <2>3
<1>7. LET claim == PayloadOf(PayloadItem(token))
      IN  ParseFault(token, source, now, {}) =
            Check(now >= claim.iat - SkewSecs, "not_yet_valid")
            ?? Check(now <= claim.exp + SkewSecs, "expired")
  BY <1>5, ParseAtOtherTime
<1>8. QED
  BY <1>1, <1>2, <1>3, <1>5, <1>6, <1>7

\* The window of a case that is attributed.
LEMMA InWindow ==
  ASSUME NEW line \in CaseLines, Usable(line),
         ParseFault(TokenOf(CaseOf(line)), SourceOf(CaseOf(line)), NowOf(CaseOf(line)), {}) = Pass
  PROVE  LET c     == CaseOf(line)
             claim == PayloadOf(PayloadItem(TokenOf(c)))
         IN  NowOf(c) \in (claim.iat - SkewSecs)..(claim.exp + SkewSecs)
             /\ claim.iat \in Nat /\ claim.exp \in Nat
<1>1. PICK c, octets : c = CaseOf(line) /\ octets = HexOctets(c.token)
  OBVIOUS
<1>2. octets \in DOMAIN Decode /\ TokenOf(c) = Decode[octets]
  BY <1>1, EvaluatorAssumption DEF Usable, Readably, TokenOf
<1>3. SourceOf(c) \in Ipv6Addr /\ NowOf(c) \in Int
  BY <1>1, AddressAssumption, EvaluatorAssumption DEF Usable, Readably, SourceOf, NowOf
<1>4. ParseFault(Decode[octets], SourceOf(c), NowOf(c), {}) = Pass
  BY <1>1, <1>2
<1>5. QED
  BY <1>1, <1>2, <1>3, <1>4, ClaimHolds

\* The answers at two times are the same, or the second says which side of the
\* window it is on.
LEMMA AnswersAtTimes ==
  ASSUME NEW line \in CaseLines, NEW other \in CaseLines, OtherTime(CaseOf(line), CaseOf(other)),
         NEW public, Answer(line, public).operator # Nobody
  PROVE  LET a == Answer(line, public)
             b == Answer(other, public)
         IN  \/ /\ b.operator = a.operator /\ b.unit = a.unit
                /\ b.observed_unit = a.observed_unit /\ b.auth_result = a.auth_result
             \/ b.reason = "not_yet_valid" /\ NowOf(CaseOf(other)) < NowOf(CaseOf(line))
             \/ b.reason = "expired" /\ NowOf(CaseOf(other)) > NowOf(CaseOf(line))
<1>1. PICK c, d : c = CaseOf(line) /\ d = CaseOf(other)
  OBVIOUS
<1>2. OtherTime(c, d) /\ Usable(line) /\ FaultOf(c, public) = Pass
  BY <1>1, AttributedMeans
<1>3. Usable(other)
  BY <1>1, <1>2 DEF Usable, Readably, OtherTime
<1>4. PICK claim : claim = PayloadOf(PayloadItem(TokenOf(d)))
  OBVIOUS
<1>5. /\ ParseFault(TokenOf(c), SourceOf(c), NowOf(c), {}) = Pass
      /\ FaultOf(d, public) =
           Check(NowOf(d) >= claim.iat - SkewSecs, "not_yet_valid")
           ?? Check(NowOf(d) <= claim.exp + SkewSecs, "expired")
  BY <1>2, <1>4, FaultAtOtherTime
<1>6. TokenOf(c) = TokenOf(d) /\ SourceOf(c) = SourceOf(d) /\ c.policy = d.policy
  BY <1>2 DEF OtherTime, TokenOf, SourceOf
<1>7. /\ NowOf(c) \in (claim.iat - SkewSecs)..(claim.exp + SkewSecs)
      /\ claim.iat \in Nat /\ claim.exp \in Nat
  BY <1>1, <1>2, <1>4, <1>5, <1>6, InWindow
<1>8. NowOf(d) \in Int /\ SkewSecs \in Nat
  BY EvaluatorAssumption, TokenAssumption DEF NowOf
<1>9. Answer(line, public) = Reported(c)
  BY <1>1, <1>2, AnswerOfUsable
<1>10. Answer(other, public) =
         IF FaultOf(d, public) = Pass THEN Reported(d)
         ELSE Refusal(d, AuthResult(FaultOf(d, public)), FaultOf(d, public))
  BY <1>1, <1>3, AnswerOfUsable
<1>11. CASE FaultOf(d, public) = Pass
  <2>1. Answer(other, public) = Reported(d)
    BY <1>10, <1>11
  <2>2. /\ Reported(d).operator = Reported(c).operator /\ Reported(d).unit = Reported(c).unit
        /\ Reported(d).observed_unit = Reported(c).observed_unit
        /\ Reported(d).auth_result = Reported(c).auth_result
    BY <1>6 DEF Reported, Attribution
  <2>3. QED
    BY <1>9, <2>1, <2>2
<1>12. CASE FaultOf(d, public) # Pass
  <2>1. Answer(other, public).reason = FaultOf(d, public)
    BY <1>10, <1>12 DEF Refusal
  <2>2. PICK now, then, from, to :
          now = NowOf(d) /\ then = NowOf(c) /\ from = claim.iat - SkewSecs /\ to = claim.exp + SkewSecs
    OBVIOUS
  <2>3. now \in Int /\ then \in Int /\ from \in Int /\ to \in Int /\ from <= then /\ then <= to
    BY <1>7, <1>8, <2>2
  <2>4. FaultOf(d, public) = Check(now >= from, "not_yet_valid") ?? Check(now <= to, "expired")
    BY <1>5, <2>2
  <2>5. CASE ~(now >= from)
    <3>1. FaultOf(d, public) = "not_yet_valid"
      BY <2>4, <2>5 DEF Check, ??, Pass
    <3>2. now < then
      BY <2>3, <2>5
    <3>3. QED
      BY <1>1, <2>1, <2>2, <3>1, <3>2
  <2>6. CASE now >= from
    <3>1. FaultOf(d, public) = Check(now <= to, "expired")
      BY <2>4, <2>6 DEF Check, ??
    <3>2. FaultOf(d, public) = "expired" /\ ~(now <= to)
      BY <1>12, <3>1 DEF Check
    <3>3. now > then
      BY <2>3, <3>2
    <3>4. QED
      BY <1>1, <2>1, <2>2, <3>2, <3>3
  <2>7. QED
    BY <2>5, <2>6
<1>13. QED
  BY <1>11, <1>12

\* The times at which a token is accepted have no gap (TimeOnlyMovesThroughWindow),
\* for every token, policy and key.
THEOREM TimesMoveThroughWindow == Spec => []TimeOnlyMovesThroughWindow
<1>1. Inv => TimeOnlyMovesThroughWindow
  <2> SUFFICES ASSUME Inv, NEW i \in DOMAIN asked, NEW j \in DOMAIN asked,
                      OtherTime(Asked(i), Asked(j)), out[i].operator # Nobody
               PROVE  \/ Columns(j) = Columns(i) /\ out[j].auth_result = out[i].auth_result
                      \/ out[j].reason = "not_yet_valid" /\ NowOf(Asked(j)) < NowOf(Asked(i))
                      \/ out[j].reason = "expired" /\ NowOf(Asked(j)) > NowOf(Asked(i))
    BY DEF TimeOnlyMovesThroughWindow, OtherTime
  <2>1. /\ asked[i] \in CaseLines /\ out[i] = Answer(asked[i], key)
        /\ asked[j] \in CaseLines /\ out[j] = Answer(asked[j], key)
    BY DEF Inv
  <2>2. QED
    BY <2>1, AnswersAtTimes DEF Asked, Columns
<1>2. QED
  BY <1>1, InvHolds, PTL

\* A lost time makes nothing pass but a token from the epoch (LostTimesPassNothing).
THEOREM LostTimesAreHarmless == Spec => []LostTimesPassNothing
<1>1. Inv => LostTimesPassNothing
  <2> SUFFICES ASSUME Inv, NEW i \in DOMAIN asked,
                      Asked(i).now \notin DOMAIN TimeOf, out[i].operator # Nobody
               PROVE  PayloadOf(PayloadItem(TokenOf(Asked(i)))).iat <= SkewSecs
    BY DEF LostTimesPassNothing
  <2>1. PICK line, c : line = asked[i] /\ c = CaseOf(line)
    OBVIOUS
  <2>2. line \in CaseLines /\ Answer(line, key).operator # Nobody /\ Asked(i) = c
    BY <2>1 DEF Inv, Asked
  <2>3. Usable(line) /\ FaultOf(c, key) = Pass
    BY <2>1, <2>2, AttributedMeans
  <2>4. ParseFault(TokenOf(c), SourceOf(c), NowOf(c), {}) = Pass
    BY <2>3, FaultAtOtherTime DEF OtherTime
  <2>5. PICK claim : claim = PayloadOf(PayloadItem(TokenOf(c)))
    OBVIOUS
  <2>6. NowOf(c) \in (claim.iat - SkewSecs)..(claim.exp + SkewSecs) /\ claim.iat \in Nat
    BY <2>1, <2>2, <2>3, <2>4, <2>5, InWindow
  <2>7. NowOf(c) = 0
    BY <2>2 DEF NowOf
  <2>8. claim.iat <= SkewSecs
    BY <2>6, <2>7, TokenAssumption
  <2>9. QED
    BY <2>2, <2>5, <2>8
<1>2. QED
  BY <1>1, InvHolds, PTL
=============================================================================
