------------------------- MODULE PrefixAndNameProofs -------------------------
(***************************************************************************)
(* What is proved of the notations of the protocol: prefixes as sets of    *)
(* addresses (PrefixAlgebra), prefixes as texts (PrefixWriting) and the    *)
(* names of the queries (QueryNames), for every width, every layout of the *)
(* addresses and texts of any length.                                      *)
(***************************************************************************)
EXTENDS PrefixAlgebra, PrefixWriting, QueryNames, TokenLemmas, TextLemmas

-----------------------------------------------------------------------------
(* Prefixes as sets of addresses (PrefixAlgebra). *)

\* Only prefixes the code can build are visited.
THEOREM TypeCorrect == Spec => []TypeOK
<1>1. Init => TypeOK
  BY PrefixAssumption DEF Init, TypeOK
<1>2. TypeOK /\ [NextEntry]_vars => TypeOK'
  BY DEF TypeOK, NextEntry, vars
<1>3. QED
  BY <1>1, <1>2, PTL DEF Spec

\* contains() decides membership at every prefix length.
THEOREM ContainsCorrect == Spec => []ContainsIsMembership
<1>1. TypeOK => ContainsIsMembership
  BY BlockIsContained DEF TypeOK, ContainsIsMembership
<1>2. QED
  BY <1>1, TypeCorrect, PTL

\* overlaps() decides whether two prefixes share an address.
THEOREM OverlapCorrect == Spec => []OverlapIsSharedAddress
<1>1. TypeOK => OverlapIsSharedAddress
  BY BlockIsContained, OverlapsSharedAddress DEF TypeOK, OverlapIsSharedAddress
<1>2. QED
  BY <1>1, TypeCorrect, PTL

\* The entry test of authorizes() is inclusion of address blocks.
THEOREM CoverCorrect == Spec => []CoverIsInclusion
<1>1. ASSUME claimed \in Prefixes, allowed \in Prefixes,
             IsAttestable(claimed), IsAttestable(allowed)
      PROVE  Covers(allowed, claimed) <=> Block(claimed) \subseteq Block(allowed)
  <2>1. /\ claimed.len \in 0..Width /\ allowed.len \in 0..Width
        /\ claimed.addr \in Ipv6Addr
    BY <1>1 DEF Prefixes
  <2>2. ASSUME Covers(allowed, claimed)
        PROVE  Block(claimed) \subseteq Block(allowed)
    <3>1. claimed.len >= allowed.len /\ Contains(allowed, claimed.addr)
      BY <2>2 DEF Covers
    <3>2. \A a \in Ipv6Addr : Contains(claimed, a) => Contains(allowed, a)
      BY <2>1, <3>1, ContainsTransitive
    <3>3. QED
      BY <1>1, <3>2, BlockIsContained
  <2>3. ASSUME Block(claimed) \subseteq Block(allowed)
        PROVE  Covers(allowed, claimed)
    <3>1. claimed.len >= allowed.len
      BY <1>1, <2>1, <2>3, ShorterEscapes, PrefixAssumption
    <3>2. claimed.addr \in Block(claimed)
      BY <2>1 DEF Block
    <3>3. Contains(allowed, claimed.addr)
      BY <1>1, <2>3, <3>2, BlockIsContained
    <3>4. QED
      BY <1>1, <3>1, <3>3 DEF Covers
  <2>4. QED
    BY <2>2, <2>3
<1>2. TypeOK => CoverIsInclusion
  BY <1>1 DEF TypeOK, CoverIsInclusion
<1>3. QED
  BY <1>2, TypeCorrect, PTL

\* The rule for attested prefixes and the rule for sources agree.
THEOREM AttestableSourcesCorrect == Spec => []AttestableIsEligible
<1>1. TypeOK => AttestableIsEligible
  BY AttestableEligible, BlockIsContained DEF TypeOK, AttestableIsEligible
<1>2. QED
  BY <1>1, TypeCorrect, PTL

-----------------------------------------------------------------------------
(* Numbers and prefixes in a record. *)

\* What DecimalText writes, by the number of digits.
LEMMA TextOfDecimal ==
  ASSUME NEW n
  PROVE  /\ n \in 0..9 => DecimalText(n) = <<DigitFor(n)>>
         /\ n \in 10..99 => DecimalText(n) = <<DigitFor(n \div 10), DigitFor(n % 10)>>
         /\ n \in 100..255 =>
              DecimalText(n) = <<DigitFor(n \div 100), DigitFor((n \div 10) % 10), DigitFor(n % 10)>>
BY DEF DecimalText

LEMMA TwoDigits ==
  ASSUME NEW a \in Nat, NEW b \in 0..9
  PROVE  (10 * a + b) \div 10 = a /\ (10 * a + b) % 10 = b
OBVIOUS

LEMMA ThreeDigits ==
  ASSUME NEW a \in 0..9, NEW b \in 0..9, NEW c \in 0..9
  PROVE  LET n == 100 * a + 10 * b + c
         IN  n \div 100 = a /\ (n \div 10) % 10 = b /\ n % 10 = c
<1> DEFINE m == 10 * a + b
           n == 10 * m + c
<1>1. m \in Nat /\ n = 100 * a + 10 * b + c
  OBVIOUS
<1>2. m % 10 = b
  BY TwoDigits
<1>3. n \div 10 = m /\ n % 10 = c
  <2> HIDE DEF m
  <2>1. QED BY <1>1, TwoDigits
<1>4. (100 * a + 10 * b + c) \div 100 = a
  OBVIOUS
<1>5. QED
  BY <1>1, <1>2, <1>3, <1>4

\* A number is accepted only as DecimalText writes it.
LEMMA DigitsOfDecimals ==
  ASSUME NEW S, NEW s \in Seq(S), IsDecimal(s)
  PROVE  /\ DecimalValue(s) \in 0..255
         /\ DecimalText(DecimalValue(s)) = s
<1>1. /\ Len(s) \in 1..3 /\ DecimalValue(s) <= 255
      /\ \A i \in 1..Len(s) : s[i] \in Digits
      /\ Len(s) = 1 \/ s[1] # "0"
  BY DEF IsDecimal, IsWellFormed, LexemesOf, U8Max
<1>2. \A d \in Digits : \E k \in 0..9 : DigitValue[d] = k /\ DigitFor(k) = d /\ (k = 0 => d = "0")
  <2>1. \A d, e \in Digits : DigitValue[d] = DigitValue[e] => d = e
    BY DEF Digits, DigitValue
  <2>2. \A d \in Digits : DigitValue[d] \in 0..9
    BY DEF Digits, DigitValue
  <2>3. "0" \in Digits /\ DigitValue["0"] = 0
    BY DEF Digits, DigitValue
  <2>4. \A d \in Digits : DigitFor(DigitValue[d]) = d
    BY <2>1 DEF DigitFor
  <2>5. QED
    BY <2>1, <2>2, <2>3, <2>4
<1>3. CASE Len(s) = 1
  <2>1. PICK a \in 0..9 : DigitValue[s[1]] = a /\ DigitFor(a) = s[1]
    BY <1>1, <1>2, <1>3
  <2>2. DecimalValue(s) = a
    BY <1>3, <2>1 DEF DecimalValue
  <2>3. DecimalText(a) = <<DigitFor(a)>>
    BY TextOfDecimal
  <2>4. s = <<s[1]>>
    BY <1>3
  <2>5. QED
    BY <2>1, <2>2, <2>3, <2>4
<1>4. CASE Len(s) = 2
  <2>1. PICK a \in 0..9 : DigitValue[s[1]] = a /\ DigitFor(a) = s[1] /\ a # 0
    BY <1>1, <1>2, <1>4
  <2>2. PICK b \in 0..9 : DigitValue[s[2]] = b /\ DigitFor(b) = s[2]
    BY <1>1, <1>2, <1>4
  <2>3. DecimalValue(s) = 10 * a + b
    BY <1>4, <2>1, <2>2 DEF DecimalValue
  <2>4. 10 * a + b \in 10..99
    BY <2>1
  <2>5. (10 * a + b) \div 10 = a /\ (10 * a + b) % 10 = b
    BY TwoDigits
  <2>6. DecimalText(10 * a + b) = <<DigitFor(a), DigitFor(b)>>
    BY <2>4, <2>5, TextOfDecimal
  <2>7. s = <<s[1], s[2]>>
    BY <1>4
  <2>8. QED
    BY <2>1, <2>2, <2>3, <2>4, <2>6, <2>7
<1>5. CASE Len(s) = 3
  <2>1. PICK a \in 0..9 : DigitValue[s[1]] = a /\ DigitFor(a) = s[1] /\ a # 0
    BY <1>1, <1>2, <1>5
  <2>2. PICK b \in 0..9 : DigitValue[s[2]] = b /\ DigitFor(b) = s[2]
    BY <1>1, <1>2, <1>5
  <2>3. PICK c \in 0..9 : DigitValue[s[3]] = c /\ DigitFor(c) = s[3]
    BY <1>1, <1>2, <1>5
  <2>4. DecimalValue(s) = 100 * a + 10 * b + c
    BY <1>5, <2>1, <2>2, <2>3 DEF DecimalValue
  <2> DEFINE n == 100 * a + 10 * b + c
  <2>5. n \in 100..255
    BY <1>1, <2>1, <2>4
  <2>6. n \div 100 = a /\ (n \div 10) % 10 = b /\ n % 10 = c
    BY ThreeDigits
  <2>7. DecimalText(n) = <<DigitFor(a), DigitFor(b), DigitFor(c)>>
    <3> HIDE DEF n
    <3>1. QED BY <2>5, <2>6, TextOfDecimal
  <2>8. s = <<s[1], s[2], s[3]>>
    BY <1>5
  <2>9. DecimalText(n) = s
    <3> HIDE DEF n
    <3>1. QED BY <2>1, <2>2, <2>3, <2>7, <2>8
  <2>10. QED
    BY <2>4, <2>5, <2>9
<1>6. QED
  BY <1>1, <1>3, <1>4, <1>5

\* What it writes is accepted and read as the same number.
LEMMA DecimalsOfDigits ==
  ASSUME NEW n \in 0..255
  PROVE  /\ DecimalText(n) \in Seq(Digits)
         /\ IsDecimal(DecimalText(n)) /\ DecimalValue(DecimalText(n)) = n
<1>1. \A k \in 0..9 : /\ DigitFor(k) \in Digits /\ DigitValue[DigitFor(k)] = k
                      /\ k # 0 => DigitFor(k) # "0"
  <2>1. \A k \in 0..9 : \E d \in Digits : DigitValue[d] = k
    BY DEF Digits, DigitValue
  <2>2. DigitValue["0"] = 0
    BY DEF Digits, DigitValue
  <2>3. QED
    BY <2>1, <2>2 DEF DigitFor
<1>2. \A s \in Seq(Digits) :
        /\ Len(s) = 1 => IsWellFormed(s) /\ DecimalValue(s) = DigitValue[s[1]]
        /\ Len(s) = 2 /\ s[1] # "0" =>
             IsWellFormed(s) /\ DecimalValue(s) = 10 * DigitValue[s[1]] + DigitValue[s[2]]
        /\ Len(s) = 3 /\ s[1] # "0" =>
             /\ IsWellFormed(s)
             /\ DecimalValue(s) = 100 * DigitValue[s[1]] + 10 * DigitValue[s[2]] + DigitValue[s[3]]
  BY DEF IsWellFormed, LexemesOf, DecimalValue
<1>3. CASE n \in 0..9
  <2>1. DecimalText(n) = <<DigitFor(n)>>
    BY <1>3, TextOfDecimal
  <2>2. DigitFor(n) \in Digits /\ DigitValue[DigitFor(n)] = n
    BY <1>1, <1>3
  <2>3. /\ DecimalText(n) \in Seq(Digits) /\ Len(DecimalText(n)) = 1
        /\ DecimalText(n)[1] = DigitFor(n)
    BY <2>1, <2>2
  <2>4. IsWellFormed(DecimalText(n)) /\ DecimalValue(DecimalText(n)) = n
    BY <1>2, <2>2, <2>3
  <2>5. QED
    BY <2>3, <2>4 DEF IsDecimal, U8Max
<1>4. CASE n \in 10..99
  <2>1. PICK a \in 1..9, b \in 0..9 : a = n \div 10 /\ b = n % 10 /\ n = 10 * a + b
    BY <1>4
  <2>2. DecimalText(n) = <<DigitFor(a), DigitFor(b)>>
    BY <1>4, <2>1, TextOfDecimal
  <2>3. /\ DigitFor(a) \in Digits /\ DigitFor(b) \in Digits /\ DigitFor(a) # "0"
        /\ DigitValue[DigitFor(a)] = a /\ DigitValue[DigitFor(b)] = b
    BY <1>1
  <2>4. /\ DecimalText(n) \in Seq(Digits) /\ Len(DecimalText(n)) = 2
        /\ DecimalText(n)[1] = DigitFor(a) /\ DecimalText(n)[2] = DigitFor(b)
    BY <2>2, <2>3
  <2>5. /\ IsWellFormed(DecimalText(n))
        /\ DecimalValue(DecimalText(n)) = 10 * DigitValue[DigitFor(a)] + DigitValue[DigitFor(b)]
    BY <1>2, <2>3, <2>4
  <2>6. DecimalValue(DecimalText(n)) = n
    BY <2>1, <2>3, <2>5
  <2>7. QED
    BY ONLY <2>4, <2>5, <2>6, n \in 0..255 DEF IsDecimal, U8Max
<1>5. CASE n \in 100..255
  <2>1. PICK a \in 1..9, b \in 0..9, c \in 0..9 :
          a = n \div 100 /\ b = (n \div 10) % 10 /\ c = n % 10 /\ n = 100 * a + 10 * b + c
    BY <1>5
  <2>2. DecimalText(n) = <<DigitFor(a), DigitFor(b), DigitFor(c)>>
    BY <1>5, <2>1, TextOfDecimal
  <2>3. /\ DigitFor(a) \in Digits /\ DigitFor(b) \in Digits /\ DigitFor(c) \in Digits
        /\ DigitFor(a) # "0" /\ DigitValue[DigitFor(a)] = a
        /\ DigitValue[DigitFor(b)] = b /\ DigitValue[DigitFor(c)] = c
    BY <1>1
  <2>4. /\ DecimalText(n) \in Seq(Digits) /\ Len(DecimalText(n)) = 3
        /\ DecimalText(n)[1] = DigitFor(a) /\ DecimalText(n)[2] = DigitFor(b)
        /\ DecimalText(n)[3] = DigitFor(c)
    BY <2>2, <2>3
  <2>5. /\ IsWellFormed(DecimalText(n))
        /\ DecimalValue(DecimalText(n)) =
             100 * DigitValue[DigitFor(a)] + 10 * DigitValue[DigitFor(b)] + DigitValue[DigitFor(c)]
    BY <1>2, <2>3, <2>4
  <2>6. DecimalValue(DecimalText(n)) = n
    BY <2>1, <2>3, <2>5
  <2>7. IsDecimal(DecimalText(n))
    BY ONLY <2>5, <2>6, n \in 0..255 DEF IsDecimal, U8Max
  <2>8. QED
    BY <2>4, <2>6, <2>7
<1>6. QED
  BY <1>3, <1>4, <1>5

-----------------------------------------------------------------------------
(* Prefixes as texts (PrefixWriting). *)

Lexeme == STRING \union TypedLexemes \union Digits \union {"/"}

WritingInv ==
  /\ written \in Seq(Lexeme)
  /\ shown # NotShown =>
       \E addr \in DOMAIN TextOf, len \in 0..Width :
         shown = [addr |-> addr, len |-> len] /\ written = Display(shown)

\* What Display shows is a text, with one slash in it, and read as what was shown.
LEMMA DisplayIsRead ==
  ASSUME NEW addr \in DOMAIN TextOf, NEW len \in 0..Width,
         NEW p, p = [addr |-> addr, len |-> len]
  PROVE  /\ Display(p) \in Seq(Lexeme)
         /\ IsPrefixText(Display(p)) /\ PrefixFrom(Display(p)) = p
<1> DEFINE a == TextOf[addr]
           d == DecimalText(len)
           s == a \o <<"/">> \o d
<1>1. Display(p) = s
  BY DEF Display
<1>2. a \in DOMAIN AddressOf /\ AddressOf[a] = addr /\ "/" \notin LexemesOf(a)
  BY AddressAssumption
<1>3. len \in 0..255
  <2>1. Width \in Nat /\ Width <= 255
    BY AddressAssumption, PrefixAssumption DEF U8Max
  <2>2. QED
    BY <2>1
<1>4. d \in Seq(Digits) /\ IsDecimal(d) /\ DecimalValue(d) = len
  BY <1>3, DecimalsOfDigits
<1>5. PICK S : S = Lexeme /\ a \in Seq(S) /\ d \in Seq(S) /\ "/" \in S
  <2>1. a \in Seq(STRING)
    BY <1>2, AddressAssumption
  <2>2. a \in Seq(Lexeme)
    BY <2>1, WiderSeq DEF Lexeme
  <2>3. d \in Seq(Lexeme)
    BY <1>4, WiderSeq DEF Lexeme
  <2>4. "/" \in Lexeme
    BY DEF Lexeme
  <2>5. QED
    BY <2>2, <2>3, <2>4
<1> HIDE DEF a, d
<1>6. Before(s, "/") = a /\ After(s, "/") = d
  BY <1>2, <1>5, BeforeAfter
<1>7. s \in Seq(S) /\ "/" \in LexemesOf(s)
  <2>1. PICK l : l = Len(a) + 1
    OBVIOUS
  <2>2. s \in Seq(S) /\ Len(s) = l + Len(d) /\ s[l] = "/"
    BY <1>5, <2>1, With
  <2>3. l \in DOMAIN s
    BY <1>5, <2>1, <2>2
  <2>4. QED
    BY <2>2, <2>3 DEF LexemesOf
<1>8. IsPrefixText(s)
  BY <1>2, <1>4, <1>6, <1>7 DEF IsPrefixText
<1>9. PrefixFrom(s) = p
  BY <1>2, <1>4, <1>6 DEF PrefixFrom
<1>10. QED
  BY <1>1, <1>5, <1>7, <1>8, <1>9

LEMMA WritingInvHolds == WritingSpec => []WritingInv
<1>1. WritingInit => WritingInv
  BY DEF WritingInit, WritingInv
<1>2. WritingInv /\ [WritingNext]_writingVars => WritingInv'
  <2> SUFFICES ASSUME WritingInv, [WritingNext]_writingVars
               PROVE  WritingInv'
    OBVIOUS
  <2>1. CASE Type
    BY <2>1 DEF Type, WritingInv, Lexeme
  <2>2. CASE Show
    <3>1. PICK addr \in DOMAIN TextOf, len \in 0..Width :
            shown' = [addr |-> addr, len |-> len] /\ written' = Display(shown')
      BY <2>2 DEF Show
    <3>2. written' \in Seq(Lexeme)
      BY <3>1, DisplayIsRead
    <3>3. QED
      BY <3>1, <3>2 DEF WritingInv, Lexeme, Display
  <2>3. CASE UNCHANGED writingVars
    BY <2>3 DEF writingVars, WritingInv, Lexeme, Display
  <2>4. QED
    BY <2>1, <2>2, <2>3 DEF WritingNext
<1>3. QED
  BY <1>1, <1>2, PTL DEF WritingSpec

\* A length has one spelling, in texts of any length.
THEOREM LengthsHaveOneSpelling == WritingSpec => []OneSpelling
<1>1. WritingInv => OneSpelling
  <2> SUFFICES ASSUME WritingInv, IsPrefixText(written)
               PROVE  /\ PrefixFrom(written) \in Prefixes
                      /\ written = Before(written, "/") \o <<"/">>
                                     \o DecimalText(PrefixFrom(written).len)
    BY DEF OneSpelling
  <2> DEFINE a == Before(written, "/")
             d == After(written, "/")
  <2>1. /\ "/" \in LexemesOf(written) /\ a \in DOMAIN AddressOf
        /\ IsDecimal(d) /\ DecimalValue(d) <= Width
    BY DEF IsPrefixText
  <2>2. /\ d \in Seq(Lexeme) /\ written = a \o <<"/">> \o d
    BY <2>1, SplitOnce DEF WritingInv
  <2>3. DecimalValue(d) \in 0..255 /\ DecimalText(DecimalValue(d)) = d
    BY <2>1, <2>2, DigitsOfDecimals
  <2>4. PrefixFrom(written) = [addr |-> AddressOf[a], len |-> DecimalValue(d)]
    BY DEF PrefixFrom
  <2> HIDE DEF a, d
  <2>5. Width \in Nat
    BY PrefixAssumption
  <2>6. AddressOf[a] \in Ipv6Addr
    BY <2>1, AddressAssumption
  <2>7. DecimalValue(d) \in 0..Width
    BY <2>1, <2>3, <2>5
  <2>8. PrefixFrom(written) \in Prefixes /\ PrefixFrom(written).len = DecimalValue(d)
    BY <2>4, <2>6, <2>7 DEF Prefixes
  <2>9. QED
    BY <2>2, <2>3, <2>8 DEF a
<1>2. QED
  BY <1>1, WritingInvHolds, PTL

\* What is shown is read back, at every length of every address.
THEOREM ShownPrefixesAreRead == WritingSpec => []ShownIsRead
<1>1. WritingInv => ShownIsRead
  BY DisplayIsRead DEF WritingInv, ShownIsRead
<1>2. QED
  BY <1>1, WritingInvHolds, PTL

-----------------------------------------------------------------------------
(* Names (QueryNames). *)

NameOctet == Octets \union Alphanumerics \union {".", "-", "_sworn", "_prefixes"}

NamesInv == kid \in Seq(NameOctet) /\ claim \in Seq(NameOctet)

LEMMA NamesInvHolds == NamesSpec => []NamesInv
<1>1. NamesInit => NamesInv
  BY DEF NamesInit, NamesInv
<1>2. NamesInv /\ [NamesNext]_namesVars => NamesInv'
  <2>1. PICK S : S = NameOctet
    OBVIOUS
  <2>2. \A x \in Octets : x \in S
    BY <2>1 DEF NameOctet
  <2>3. ASSUME kid \in Seq(S), claim \in Seq(S), [NamesNext]_namesVars
        PROVE  kid' \in Seq(S) /\ claim' \in Seq(S)
    <3>1. CASE ExtendKid
      BY <2>2, <2>3, <3>1 DEF ExtendKid
    <3>2. CASE ExtendClaim
      BY <2>2, <2>3, <3>2 DEF ExtendClaim
    <3>3. QED
      BY <2>3, <3>1, <3>2 DEF NamesNext, namesVars
  <2>4. QED
    BY ONLY <2>1, <2>3 DEF NamesInv
<1>3. QED
  BY <1>1, <1>2, PTL DEF NamesSpec

IsLabel(label) ==
  /\ Len(label) \in 1..MaxLabelLen
  /\ label[1] # "-" /\ label[Len(label)] # "-"
  /\ LexemesOf(label) \subseteq LdhOctets

LEMMA SyntaxOfNames ==
  ASSUME NEW s
  PROVE  /\ IsSelector(s) <=> IsLabel(s)
         /\ IsOperatorDomain(s) <=>
              Len(s) \in 1..MaxDomainLen /\ \A label \in LexemesOf(Split(s, ".")) : IsLabel(label)
BY DEF IsSelector, IsOperatorDomain, IsLabel

\* The octets of a label are neither the dot nor a label of the protocol, and
\* stay octets of a label in lower case.
LEMMA OctetsOfLabels ==
  ASSUME NEW x \in LdhOctets
  PROVE  x # "." /\ x # "_prefixes"
BY NameAssumption DEF LdhOctets

LEMMA LoweredName ==
  ASSUME NEW s \in Seq(NameOctet)
  PROVE  /\ Lowered(s) \in Seq(NameOctet) /\ Len(Lowered(s)) = Len(s)
         /\ LexemesOf(s) \subseteq LdhOctets => LexemesOf(Lowered(s)) \subseteq LdhOctets
<1>1. PICK S : S = NameOctet
  OBVIOUS
<1>2. \A x \in Alphanumerics : LowerOf[x] \in S /\ LowerOf[x] \in LdhOctets
  BY <1>1, NameAssumption DEF NameOctet, LdhOctets
<1>3. s \in Seq(S) /\ DOMAIN s = 1..Len(s) /\ Len(s) \in Nat
  BY <1>1
<1>4. Lowered(s) \in [1..Len(s) -> S]
  BY <1>2, <1>3 DEF Lowered
<1>5. Lowered(s) \in Seq(S) /\ Len(Lowered(s)) = Len(s)
  BY <1>3, <1>4, ListType
<1>6. ASSUME LexemesOf(s) \subseteq LdhOctets
      PROVE  LexemesOf(Lowered(s)) \subseteq LdhOctets
  BY <1>2, <1>3, <1>6 DEF Lowered, LexemesOf
<1>7. QED
  BY <1>1, <1>5, <1>6

\* What a query says behind its first dot.
Answering(operator) == <<"_sworn", ".">> \o operator

LEMMA PartsOfQueries ==
  ASSUME NEW s \in Seq(NameOctet), NEW operator \in Seq(NameOctet), "." \notin LexemesOf(s)
  PROVE  /\ Before(KeyQuery(s, operator), ".") = s
         /\ After(KeyQuery(s, operator), ".") = Answering(operator)
<1>1. PICK S : S = NameOctet
  OBVIOUS
<1>2. "." \in S /\ "_sworn" \in S
  BY <1>1 DEF NameOctet
<1>3. PICK dot, sworn \in S : dot = "." /\ sworn = "_sworn"
  BY <1>2
<1>4. <<dot>> \in Seq(S) /\ <<sworn, dot>> \in Seq(S) /\ s \in Seq(S) /\ operator \in Seq(S)
  BY <1>1, <1>3
<1>5. <<dot, sworn, dot>> = <<dot>> \o <<sworn, dot>>
  OBVIOUS
<1>6. <<sworn, dot>> \o operator \in Seq(S)
  BY <1>4
<1>7. s \o (<<dot>> \o <<sworn, dot>>) \o operator = s \o <<dot>> \o (<<sworn, dot>> \o operator)
  <2>1. s \o (<<dot>> \o <<sworn, dot>>) = s \o <<dot>> \o <<sworn, dot>> /\ s \o <<dot>> \in Seq(S)
    BY <1>4, ConcatAssoc
  <2>2. s \o <<dot>> \o <<sworn, dot>> \o operator = s \o <<dot>> \o (<<sworn, dot>> \o operator)
    BY <1>4, <2>1, ConcatAssoc
  <2>3. QED
    BY <2>1, <2>2
<1>8. KeyQuery(s, operator) = s \o <<dot>> \o Answering(operator) /\ Answering(operator) \in Seq(S)
  BY <1>3, <1>5, <1>6, <1>7 DEF KeyQuery, Answering
<1>9. /\ Before(s \o <<dot>> \o Answering(operator), dot) = s
      /\ After(s \o <<dot>> \o Answering(operator), dot) = Answering(operator)
  BY <1>3, <1>4, <1>8, BeforeAfter
<1>10. QED
  BY <1>3, <1>8, <1>9

LEMMA AnsweringIsExact ==
  ASSUME NEW a \in Seq(NameOctet), NEW b \in Seq(NameOctet), Answering(a) = Answering(b)
  PROVE  a = b
<1>1. PICK p : p = <<"_sworn", ".">>
  OBVIOUS
<1>2. PICK S : S = NameOctet
  OBVIOUS
<1>3. a \in Seq(S) /\ b \in Seq(S) /\ p \in Seq(S)
  BY <1>1, <1>2 DEF NameOctet
<1>4. p \o a = p \o b
  BY <1>1 DEF Answering
<1>5. QED
  BY ONLY <1>3, <1>4, ConcatSimplifications

\* The name of a policy is that of a key whose selector no kid can hold.
LEMMA PolicyIsKeyOf ==
  ASSUME NEW operator \in Seq(NameOctet)
  PROVE  /\ PolicyQuery(operator) = KeyQuery(<<"_prefixes">>, operator)
         /\ <<"_prefixes">> \in Seq(NameOctet) /\ "." \notin LexemesOf(<<"_prefixes">>)
<1>1. <<"_prefixes">> \o <<".", "_sworn", ".">> = <<"_prefixes", ".", "_sworn", ".">>
  <2>1. ASSUME NEW x, NEW y, NEW z
        PROVE  <<x>> \o <<y, z, y>> = <<x, y, z, y>>
    <3> DEFINE l == <<x>> \o <<y, z, y>>
               r == <<x, y, z, y>>
    <3>1. PICK S : S = {x, y, z}
      OBVIOUS
    <3>2. /\ <<x>> \in Seq(S) /\ Len(<<x>>) = 1 /\ <<x>>[1] = x
          /\ <<y, z, y>> \in Seq(S) /\ Len(<<y, z, y>>) = 3
          /\ <<y, z, y>>[1] = y /\ <<y, z, y>>[2] = z /\ <<y, z, y>>[3] = y
      BY <3>1
    <3>3. r \in Seq(S) /\ Len(r) = 4 /\ r[1] = x /\ r[2] = y /\ r[3] = z /\ r[4] = y
      BY <3>1
    <3>4. /\ l \in Seq(S) /\ Len(l) = 4 /\ l[1] = x
          /\ \A k \in 1..3 : l[1 + k] = <<y, z, y>>[k]
      BY <3>2, ConcatAt
    <3>5. l[2] = y /\ l[3] = z /\ l[4] = y
      BY <3>2, <3>4
    <3> HIDE DEF l, r
    <3>6. \A k \in 1..4 : l[k] = r[k]
      BY <3>3, <3>4, <3>5
    <3>7. l = r
      BY <3>3, <3>4, <3>6, SeqEqual
    <3>8. QED
      BY <3>7 DEF l, r
  <2>2. QED
    BY <2>1
<1>2. <<"_prefixes">> \in Seq(NameOctet)
  BY DEF NameOctet
<1>3. "." \notin LexemesOf(<<"_prefixes">>)
  BY DEF LexemesOf
<1>4. QED
  BY <1>1, <1>2, <1>3 DEF PolicyQuery, KeyQuery

LEMMA TextsAreSequences ==
  ASSUME NEW n \in Nat, NEW s \in TextsUpTo(n)
  PROVE  s \in Seq(NameOctet)
<1>1. PICK S : S = NameOctet
  OBVIOUS
<1>2. \A x \in Octets : x \in S
  BY <1>1 DEF NameOctet
<1>3. PICK m \in 0..n : s \in [1..m -> Octets]
  BY DEF TextsUpTo
<1>4. s \in [1..m -> S] /\ m \in Nat
  BY <1>2, <1>3
<1>5. QED
  BY <1>1, <1>4, ListType

LEMMA SelectorOctets ==
  ASSUME NEW s \in Seq(NameOctet), IsSelector(s)
  PROVE  /\ Lowered(s) \in Seq(NameOctet) /\ "." \notin LexemesOf(Lowered(s))
         /\ Lowered(s) # <<"_prefixes">>
<1>1. LexemesOf(s) \subseteq LdhOctets /\ Len(s) >= 1
  BY DEF IsSelector
<1>2. /\ Lowered(s) \in Seq(NameOctet) /\ Len(Lowered(s)) = Len(s)
      /\ LexemesOf(Lowered(s)) \subseteq LdhOctets
  BY <1>1, LoweredName
<1>3. "." \notin LexemesOf(Lowered(s)) /\ "_prefixes" \notin LexemesOf(Lowered(s))
  BY <1>2, OctetsOfLabels
<1>4. "_prefixes" \in LexemesOf(<<"_prefixes">>)
  BY DEF LexemesOf
<1>5. QED
  BY <1>2, <1>3, <1>4

\* No two tokens ask for one name unless they agree on selector and operator, and
\* no token asks for the key where a policy is, for kids and claims of any length.
THEOREM QueriesAreUnambiguous == NamesSpec => []NamesAreUnambiguous
<1>1. NamesInv => NamesAreUnambiguous
  <2> SUFFICES ASSUME NamesInv, IsSelector(kid), IsOperatorDomain(claim),
                      NEW operator \in Operators
               PROVE  /\ KeyQuery(Lowered(kid), Lowered(claim)) # PolicyQuery(operator)
                      /\ \A selector \in Selectors :
                           KeyQuery(Lowered(kid), Lowered(claim)) = KeyQuery(selector, operator) =>
                             selector = Lowered(kid) /\ operator = Lowered(claim)
    BY DEF NamesAreUnambiguous
  <2> DEFINE sel == Lowered(kid)
             dom == Lowered(claim)
  <2>1. sel \in Seq(NameOctet) /\ "." \notin LexemesOf(sel) /\ sel # <<"_prefixes">>
    BY SelectorOctets DEF NamesInv
  <2>2. dom \in Seq(NameOctet)
    BY LoweredName DEF NamesInv
  <2>3. operator \in Seq(NameOctet)
    BY TextsAreSequences, LoweredName, TypedAssumption DEF Operators
  <2>4. \A selector \in Selectors : selector \in Seq(NameOctet) /\ "." \notin LexemesOf(selector)
    BY TextsAreSequences, SelectorOctets, TypedAssumption DEF Selectors
  <2> HIDE DEF sel, dom
  <2>5. Before(KeyQuery(sel, dom), ".") = sel /\ After(KeyQuery(sel, dom), ".") = Answering(dom)
    BY <2>1, <2>2, PartsOfQueries
  <2>6. KeyQuery(sel, dom) # PolicyQuery(operator)
    <3>1. PICK other : /\ other = <<"_prefixes">> /\ other \in Seq(NameOctet)
                       /\ "." \notin LexemesOf(other)
                       /\ PolicyQuery(operator) = KeyQuery(other, operator)
      BY <2>3, PolicyIsKeyOf
    <3>2. Before(KeyQuery(other, operator), ".") = other
      BY <2>3, <3>1, PartsOfQueries
    <3>3. QED
      BY <2>1, <2>5, <3>1, <3>2
  <2>7. ASSUME NEW selector \in Selectors, KeyQuery(sel, dom) = KeyQuery(selector, operator)
        PROVE  selector = sel /\ operator = dom
    <3>1. /\ Before(KeyQuery(selector, operator), ".") = selector
          /\ After(KeyQuery(selector, operator), ".") = Answering(operator)
      BY <2>3, <2>4, PartsOfQueries
    <3>2. selector = sel /\ Answering(operator) = Answering(dom)
      BY <2>5, <2>7, <3>1
    <3>3. QED
      BY <2>2, <2>3, <3>2, AnsweringIsExact
  <2>8. QED
    BY <2>6, <2>7 DEF sel, dom
<1>2. QED
  BY <1>1, NamesInvHolds, PTL

LEMMA DotlessDomain ==
  ASSUME NEW s \in Seq(NameOctet)
  PROVE  IsSelector(s) <=> IsOperatorDomain(s) /\ "." \notin LexemesOf(s)
<1>1. IsSelector(s) => "." \notin LexemesOf(s)
  BY OctetsOfLabels DEF IsSelector
<1>2. ASSUME "." \notin LexemesOf(s)
      PROVE  IsSelector(s) <=> IsOperatorDomain(s)
  <2>1. Split(s, ".") = <<s>>
    BY <1>2, SplitWhole
  <2>2. LexemesOf(<<s>>) = {s}
    BY DEF LexemesOf
  <2>3. IsLabel(s) => Len(s) \in 1..MaxDomainLen
    BY NameAssumption DEF IsLabel
  <2>4. QED
    BY <2>1, <2>2, <2>3, SyntaxOfNames
<1>3. QED
  BY <1>1, <1>2

LEMMA JoinedDomains ==
  ASSUME NEW s \in Seq(NameOctet), NEW t \in Seq(NameOctet)
  PROVE  IsOperatorDomain(s \o <<".">> \o t) <=>
           /\ IsOperatorDomain(s) /\ IsOperatorDomain(t)
           /\ Len(s) + 1 + Len(t) <= MaxDomainLen
<1>1. PICK S, dot, u : S = NameOctet /\ dot = "." /\ dot \in S /\ u = s \o <<dot>> \o t
  BY DEF NameOctet
<1>2. s \in Seq(S) /\ t \in Seq(S)
  BY <1>1
<1>3. Len(s) \in Nat /\ Len(t) \in Nat /\ Len(u) = Len(s) + 1 + Len(t)
  <2>1. Len(s) \in Nat /\ Len(t) \in Nat
    BY <1>2
  <2>2. Len(s \o <<dot>> \o t) = (Len(s) + 1) + Len(t)
    BY <1>1, <1>2, With
  <2>3. QED
    BY <1>1, <2>1, <2>2
<1>4. Split(u, dot) = Split(s, dot) \o Split(t, dot)
  <2>1. JoinedBy(u, s, dot, t)
    BY <1>1 DEF JoinedBy
  <2>2. dot \in S
    BY <1>1
  <2>3. QED
    BY ONLY <1>2, <2>1, <2>2, SplitConcat
<1>5. \A x : x \in LexemesOf(Split(u, dot)) <=>
              x \in LexemesOf(Split(s, dot)) \/ x \in LexemesOf(Split(t, dot))
  <2>1. PICK T : T = Seq(S)
    OBVIOUS
  <2>2. Split(s, dot) \in Seq(T) /\ Split(t, dot) \in Seq(T)
    BY <1>2, <2>1, SplitType
  <2>3. QED
    BY <1>4, <2>2, LexemesConcat
<1>6. \A v \in Seq(S) : (\A label \in LexemesOf(Split(v, dot)) : IsLabel(label)) => Len(v) >= 1
  <2> SUFFICES ASSUME NEW v \in Seq(S), \A label \in LexemesOf(Split(v, dot)) : IsLabel(label),
                      ~(Len(v) >= 1)
               PROVE  FALSE
    OBVIOUS
  <2>1. v = <<>> /\ dot \notin LexemesOf(v)
    BY DEF LexemesOf
  <2>2. Split(v, dot) = <<v>>
    BY <2>1, SplitWhole
  <2>3. v \in LexemesOf(Split(v, dot))
    BY <2>2 DEF LexemesOf
  <2>4. QED
    BY <2>3 DEF IsLabel
<1>7. \A v : IsOperatorDomain(v) <=>
        Len(v) \in 1..MaxDomainLen /\ \A label \in LexemesOf(Split(v, dot)) : IsLabel(label)
  BY <1>1, SyntaxOfNames
<1>8. MaxDomainLen \in Nat
  BY NameAssumption
<1>9. IsOperatorDomain(u) => IsOperatorDomain(s) /\ IsOperatorDomain(t) /\ Len(u) <= MaxDomainLen
  BY <1>2, <1>3, <1>5, <1>6, <1>7, <1>8
<1>10. IsOperatorDomain(s) /\ IsOperatorDomain(t) /\ Len(u) <= MaxDomainLen => IsOperatorDomain(u)
  BY <1>2, <1>3, <1>5, <1>7, <1>8
<1>11. QED
  BY <1>1, <1>3, <1>9, <1>10

\* The rule for labels of a kid and the one for labels of a domain are one rule.
THEOREM LabelsHaveOneRule == NamesSpec => []LabelRulesAgree
<1>1. NamesInv => LabelRulesAgree
  BY DotlessDomain, JoinedDomains DEF NamesInv, LabelRulesAgree
<1>2. QED
  BY <1>1, NamesInvHolds, PTL
=============================================================================
