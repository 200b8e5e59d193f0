----------------------------- MODULE Evaluator -----------------------------
(***************************************************************************)
(* The differential-test evaluator, src/bin/difftest.rs: a corpus comes    *)
(* line by line, a key and then cases of five fields between tabs, and     *)
(* every case is answered with one line.  It is the one place of the crate *)
(* where the text of a policy meets a token.                               *)
(***************************************************************************)
EXTENDS Token, Records

CONSTANTS
  KeyLines,   \* what the first line of a corpus may be
  CaseLines,  \* what the other lines may be
  MaxLines,   \* how many of these there are at most (bound of the model)
  KeyOctets,  \* octets of a key: [size, point]
  Decode,     \* what ciborium makes of octets: the [size, item] of Token.tla
  TimeOf,     \* std's i64::from_str, a function on the texts it accepts
  NotUtf8,    \* octets that are no UTF-8
  Nobody      \* an empty column

VARIABLES
  stage,  \* "key", "cases" or "panicked"
  key,    \* the shared public key
  left,   \* lines the corpus still has, that of the key included
  asked,  \* the lines of the cases so far
  out     \* the lines written

vars == <<stage, key, left, asked, out>>

Init ==
  /\ stage = "key" /\ key = Nobody
  /\ left \in 0..(MaxLines + 1)
  /\ asked = <<>> /\ out = <<>>

HexVal ==
  [c \in Digits \union {"a", "b", "c", "d", "e", "f", "A", "B", "C", "D", "E", "F"} |->
     CASE c \in Digits     -> DigitValue[c]
       [] c \in {"a", "A"} -> 10 [] c \in {"b", "B"} -> 11 [] c \in {"c", "C"} -> 12
       [] c \in {"d", "D"} -> 13 [] c \in {"e", "E"} -> 14 [] c \in {"f", "F"} -> 15]

\* hex_decode gives octets, which are then HexOctets.
IsHex(s) == Len(s) % 2 = 0 /\ LexemesOf(s) \subseteq DOMAIN HexVal
HexOctets(s) == [i \in 1..(Len(s) \div 2) |-> 16 * HexVal[s[2 * i - 1]] + HexVal[s[2 * i]]]

\* Mutation of CaseOf: the fifth field ends at a tab as well.
CaseOfAllSplit(line) ==
  LET second == After(line, HTAB)
      third  == After(second, HTAB)
      fourth == After(third, HTAB)
  IN  [name   |-> Before(line, HTAB),
       token  |-> Before(second, HTAB),
       source |-> Before(third, HTAB),
       now    |-> Before(fourth, HTAB),
       policy |-> Before(After(fourth, HTAB), HTAB)]

\* splitn(5, tab): the last field keeps its tabs; a missing one is empty.
CaseOf(line) ==
  LET second == After(line, HTAB)
      third  == After(second, HTAB)
      fourth == After(third, HTAB)
  IN  [name   |-> Before(line, HTAB),
       token  |-> Before(second, HTAB),
       source |-> Before(third, HTAB),
       now    |-> Before(fourth, HTAB),
       policy |-> After(fourth, HTAB)]

TokenOf(case)  == Decode[HexOctets(case.token)]
SourceOf(case) == AddressOf[case.source]

\* Mutation of NowOf: a case without a time is a case at the time of its token.
NowOfToken(case) ==
  IF case.now \in DOMAIN TimeOf THEN TimeOf[case.now]
  ELSE PayloadOf(PayloadItem(TokenOf(case))).iat

\* A time that is missing or is no number reads as 0.
NowOf(case) == IF case.now \in DOMAIN TimeOf THEN TimeOf[case.now] ELSE 0

-----------------------------------------------------------------------------
(* The verification without a policy: verify_signature_only of             *)
(* src/token.rs.                                                           *)

\* Mutation of SignatureOnlyFault: the connection is not looked at.
SignatureOnlyFaultOffline(token, public, source, now) ==
  ParseFault(token, PayloadOf(PayloadItem(token)).prefix.addr, PayloadOf(PayloadItem(token)).iat, {})
  ?? SignatureFault(Unverified(token, source), public)

SignatureOnlyFault(token, public, source, now) ==
  ParseFault(token, source, now, {})
  ?? SignatureFault(Unverified(token, source), public)

SignatureOnlyVerified(token, source) ==
  Verified([token |-> Unverified(token, source), testing |-> FALSE, rua |-> NoRua])

-----------------------------------------------------------------------------
(* The lines written. *)

Refusal(case, result, reason) ==
  [name |-> case.name, auth_result |-> result, reason |-> reason,
   operator |-> Nobody, unit |-> Nobody, observed_unit |-> Nobody]

Attribution(case, result, reason, verified) ==
  [name |-> case.name, auth_result |-> result, reason |-> reason,
   operator |-> verified.operator, unit |-> Display(verified.unit),
   observed_unit |-> Display(verified.observed_unit)]

SignatureOnlyAnswer(case, public) ==
  LET fault == SignatureOnlyFault(TokenOf(case), public, SourceOf(case), NowOf(case))
  IN  IF fault = Pass
        THEN Attribution(case, "pass", Pass, SignatureOnlyVerified(TokenOf(case), SourceOf(case)))
        ELSE Refusal(case, AuthResult(fault), fault)

\* Mutation of CompleteAnswer: the testing flag is not looked at.
CompleteAnswerAlwaysPass(case, public, policy) ==
  LET fault      == VerifyFault(TokenOf(case), public, policy, SourceOf(case), NowOf(case))
      authorized == Authorized(Unverified(TokenOf(case), SourceOf(case)), policy)
  IN  IF fault # Pass
        THEN Refusal(case, AuthResult(fault), fault)
        ELSE Attribution(case, "pass", Pass, Verified(authorized))

CompleteAnswer(case, public, policy) ==
  LET fault      == VerifyFault(TokenOf(case), public, policy, SourceOf(case), NowOf(case))
      authorized == Authorized(Unverified(TokenOf(case), SourceOf(case)), policy)
  IN  IF fault # Pass
        THEN Refusal(case, AuthResult(fault), fault)
        ELSE Attribution(case, OutcomeResult(authorized),
                         IF policy.testing THEN "testing_mode" ELSE Pass, Verified(authorized))

-----------------------------------------------------------------------------
(* The program. *)

Panic == stage' = "panicked" /\ UNCHANGED <<key, left, asked, out>>

\* The four expect()s on the first line: there is one, ...
NoKey == stage = "key" /\ left = 0 /\ Panic

\* ... it can be read, it is hexadecimal, and a key.
ReadKey(line) ==
  LET octets == HexOctets(Trim(line))
  IN  /\ stage = "key" /\ left > 0
      /\ \/ /\ IsHex(Trim(line)) /\ ~FromBytesFails(KeyOctets[octets])
            /\ stage' = "cases" /\ key' = KeyOctets[octets].point
            /\ left' = left - 1
            /\ UNCHANGED <<asked, out>>
         \/ /\ IsHex(Trim(line)) => FromBytesFails(KeyOctets[octets])
            /\ Panic

Comes(line) == stage = "cases" /\ left > 0 /\ NotUtf8 \notin LexemesOf(line)

NoText(line) ==
  /\ stage = "cases" /\ left > 0 /\ NotUtf8 \in LexemesOf(line)
  /\ Panic

SkipEmpty(line) ==
  /\ Comes(line) /\ line = <<>>
  /\ left' = left - 1
  /\ UNCHANGED <<stage, key, asked, out>>

Write(line, answer) ==
  /\ asked' = Append(asked, line)
  /\ out' = Append(out, answer)
  /\ left' = left - 1
  /\ UNCHANGED <<stage, key>>

BadToken(line) ==
  /\ Comes(line) /\ line # <<>>
  /\ ~IsHex(CaseOf(line).token)
  /\ Write(line, Refusal(CaseOf(line), "permerror", "malformed"))

\* Mutation of BadSource: the loop goes on without a line.
BadSourceSilently(line) ==
  /\ Comes(line) /\ line # <<>>
  /\ IsHex(CaseOf(line).token) /\ CaseOf(line).source \notin DOMAIN AddressOf
  /\ asked' = Append(asked, line) /\ left' = left - 1
  /\ UNCHANGED <<stage, key, out>>

BadSource(line) ==
  /\ Comes(line) /\ line # <<>>
  /\ IsHex(CaseOf(line).token) /\ CaseOf(line).source \notin DOMAIN AddressOf
  /\ Write(line, Refusal(CaseOf(line), "permerror", "bad_source"))

Readable(line) ==
  /\ Comes(line) /\ line # <<>>
  /\ IsHex(CaseOf(line).token) /\ CaseOf(line).source \in DOMAIN AddressOf

SignatureOnly(line) ==
  /\ Readable(line) /\ CaseOf(line).policy = <<>>
  /\ Write(line, SignatureOnlyAnswer(CaseOf(line), key))

BadPolicy(line) ==
  /\ Readable(line) /\ CaseOf(line).policy # <<>>
  /\ PolicyFault(CaseOf(line).policy) # Pass
  /\ Write(line, Refusal(CaseOf(line), "permerror", "policy_record_invalid"))

Complete(line) ==
  /\ Readable(line) /\ CaseOf(line).policy # <<>>
  /\ PolicyFault(CaseOf(line).policy) = Pass
  /\ Write(line, CompleteAnswer(CaseOf(line), key, PolicyOf(CaseOf(line).policy)))

Next ==
  \/ NoKey
  \/ \E line \in KeyLines : ReadKey(line)
  \/ \E line \in CaseLines :
       \/ NoText(line) \/ SkipEmpty(line)
       \/ BadToken(line) \/ BadSource(line)
       \/ SignatureOnly(line) \/ BadPolicy(line) \/ Complete(line)

Spec == Init /\ [][Next]_vars

\* A line is a text; octets decode to something, be it garbage, and a key to a
\* point or none; a map is a list of entries; a domain never prints as an empty
\* column.
ASSUME EvaluatorAssumption ==
  /\ MaxLines \in Nat
  /\ {"t", "y"} \subseteq Printable
  /\ \A line \in CaseLines : line \in Seq(STRING)
  /\ \A s \in DOMAIN TimeOf : TimeOf[s] \in Int
  /\ \A line \in KeyLines : IsHex(Trim(line)) => HexOctets(Trim(line)) \in DOMAIN KeyOctets
  /\ \A line \in CaseLines :
       IsHex(CaseOf(line).token) => HexOctets(CaseOf(line).token) \in DOMAIN Decode
  /\ \A octets \in DOMAIN Decode :
       EnvelopeFault(Decode[octets]) = Pass /\ PayloadItem(Decode[octets]).kind = "map"
         => DOMAIN PayloadItem(Decode[octets]).v \subseteq Nat
  /\ \A domain \in OperatorDomains : Lowercase[domain] # Nobody

-----------------------------------------------------------------------------

Asked(i) == CaseOf(asked[i])

\* Types.  The answers line up with the cases, which is what another
\* implementation's output is compared by.
TypeOK ==
  /\ stage \in {"key", "cases", "panicked"} /\ left \in 0..(MaxLines + 1)
  /\ DOMAIN out = DOMAIN asked
  /\ \A i \in DOMAIN asked :
       /\ out[i].name = Asked(i).name
       /\ out[i].auth_result \in {"pass", "none", "fail", "permerror"}
       /\ out[i].operator # Nobody <=> out[i].reason \in {Pass, "testing_mode"}

SameToken(i, j) ==
  /\ Asked(i).token = Asked(j).token /\ Asked(i).source = Asked(j).source
  /\ Asked(i).now = Asked(j).now

Columns(i) == <<out[i].operator, out[i].unit, out[i].observed_unit>>

\* A policy only narrows: it makes no token pass, nor attributes one to somebody
\* else, that the signature alone does not, it hides no local fault behind
\* another one, and it never brings out a "fail".  The two paths share their
\* checks; the signature-only one has no authorization between them.
PolicyOnlyNarrows ==
  \A i, j \in DOMAIN asked :
    SameToken(i, j) /\ Asked(i).policy = <<>> /\ Asked(j).policy # <<>> =>
      /\ out[j].auth_result \in {"pass", "none"} =>
           out[i].auth_result = "pass" /\ Columns(i) = Columns(j)
      /\ out[i].reason \notin {Pass, "bad_signature"} =>
           out[j].reason \in {out[i].reason, "policy_record_invalid"}
      /\ out[j].auth_result = "fail" => out[i].reason = out[j].reason

\* The testing flag changes what is staked and nothing else: with t=y added to a
\* policy without a tag t, a pass is reported as "none" of testing_mode, with the
\* same attribution, and every other answer is the same.
TestingOnlyObserves ==
  \A i, j \in DOMAIN asked :
    /\ SameToken(i, j) /\ Asked(i).policy # <<>>
    /\ ~HasTag(Tags(Asked(i).policy), "t")
    /\ Asked(j).policy = Asked(i).policy \o <<";", "t", "=", "y">>
    => /\ Columns(i) = Columns(j)
       /\ <<out[j].auth_result, out[j].reason>> =
            IF out[i].auth_result = "pass"
              THEN <<"none", "testing_mode">>
              ELSE <<out[i].auth_result, out[i].reason>>

\* A line with spaces for the tabs behind its fourth.
Spaced(line) ==
  [i \in DOMAIN line |->
     IF line[i] = HTAB /\ Cardinality({j \in 1..(i - 1) : line[j] = HTAB}) >= 4
       THEN SP ELSE line[i]]

NamesHaveNoTab(s) == \A tag \in LexemesOf(Tags(s)) : HTAB \notin LexemesOf(tag.name)

\* The tab that separates the fields of a case is also what a zone file may have
\* between two tags: a policy reaches the parser with its tabs, and they are
\* worth as much as spaces, except inside the name of a tag, which may hold
\* either and is then another name.
TabsAreSpaces ==
  \A i, j \in DOMAIN asked :
    /\ NamesHaveNoTab(Asked(i).policy) /\ NamesHaveNoTab(Asked(j).policy)
    /\ Spaced(asked[i]) = Spaced(asked[j])
    => out[i] = out[j]

\* The time only moves a case through the window: what is attributed at one time
\* is attributed alike at another, or refused there for the side of the window it
\* is on, and for nothing else.  So the times at which a token is accepted have
\* no gap, and no policy or key makes one.
TimeOnlyMovesThroughWindow ==
  \A i, j \in DOMAIN asked :
    /\ Asked(i).token = Asked(j).token /\ Asked(i).source = Asked(j).source
    /\ Asked(i).policy = Asked(j).policy /\ out[i].operator # Nobody
    => \/ Columns(j) = Columns(i) /\ out[j].auth_result = out[i].auth_result
       \/ out[j].reason = "not_yet_valid" /\ NowOf(Asked(j)) < NowOf(Asked(i))
       \/ out[j].reason = "expired" /\ NowOf(Asked(j)) > NowOf(Asked(i))

\* A time that got lost makes nothing pass: without a readable time only a token
\* is attributed whose signed window reaches back to the epoch.
LostTimesPassNothing ==
  \A i \in DOMAIN asked :
    Asked(i).now \notin DOMAIN TimeOf /\ out[i].operator # Nobody =>
      PayloadOf(PayloadItem(TokenOf(Asked(i)))).iat <= SkewSecs

\* An entry of a list, as it is written from place a to place b of a policy.
EntryAt(s, a, b) ==
  /\ a > 1 /\ s[a - 1] \in {"=", ","} \union Blanks
  /\ b = Len(s) \/ s[b + 1] \in {",", ";"} \union Blanks
  /\ IsPrefixText(SubSeq(s, a, b))

\* A pass under a policy rests on what the operator wrote and on the connection:
\* somewhere the text of the policy has an entry that encloses the claim, the
\* claim holds of the source, and the case is inside the signed window.
PassRestsOnText ==
  \A i \in DOMAIN asked :
    out[i].auth_result = "pass" /\ Asked(i).policy # <<>> =>
      LET s     == Asked(i).policy
          claim == PayloadOf(PayloadItem(TokenOf(Asked(i))))
      IN  /\ \E a, b \in DOMAIN s :
               /\ EntryAt(s, a, b)
               /\ PrefixFrom(SubSeq(s, a, b)).len <= claim.prefix.len
               /\ claim.prefix.addr \in Block(PrefixFrom(SubSeq(s, a, b)))
          /\ SourceOf(Asked(i)) \in Block(claim.prefix)
          /\ NowOf(Asked(i)) \in (claim.iat - SkewSecs)..(claim.exp + SkewSecs)
=============================================================================
