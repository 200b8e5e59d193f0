----------------------------- MODULE PrefixText -----------------------------
(***************************************************************************)
(* The presentation form of numbers and prefixes in a record: from_str,    *)
(* parse_decimal and Display of src/address.rs.                            *)
(***************************************************************************)
EXTENDS Lexemes, Ipv6Prefix

CONSTANTS
  AddressOf,  \* std's Ipv6Addr::from_str, a function on the texts it accepts
  TextOf      \* std's Display of the addresses

Digits == {"0", "1", "2", "3", "4", "5", "6", "7", "8", "9"}

DigitValue ==
  [d \in Digits |-> CASE d = "0" -> 0 [] d = "1" -> 1 [] d = "2" -> 2 [] d = "3" -> 3
                      [] d = "4" -> 4 [] d = "5" -> 5 [] d = "6" -> 6 [] d = "7" -> 7
                      [] d = "8" -> 8 [] d = "9" -> 9]

DigitFor(n) == CHOOSE d \in Digits : DigitValue[d] = n

U8Max == 255

\* Mutation of IsWellFormed: leading zeros are read.
IsWellFormedPadded(s) == Len(s) \in 1..3 /\ LexemesOf(s) \subseteq Digits

IsWellFormed(s) ==
  /\ Len(s) \in 1..3
  /\ LexemesOf(s) \subseteq Digits
  /\ Len(s) = 1 \/ s[1] # "0"

DecimalValue(s) ==
  CASE Len(s) = 1 -> DigitValue[s[1]]
    [] Len(s) = 2 -> 10 * DigitValue[s[1]] + DigitValue[s[2]]
    [] Len(s) = 3 -> 100 * DigitValue[s[1]] + 10 * DigitValue[s[2]] + DigitValue[s[3]]

\* parse_decimal gives a number, which is then DecimalValue.
IsDecimal(s) == IsWellFormed(s) /\ DecimalValue(s) <= U8Max

DecimalText(n) ==
  CASE n \in 0..9     -> <<DigitFor(n)>>
    [] n \in 10..99   -> <<DigitFor(n \div 10), DigitFor(n % 10)>>
    [] n \in 100..255 -> <<DigitFor(n \div 100), DigitFor((n \div 10) % 10), DigitFor(n % 10)>>

\* Mutation of IsPrefixText: a prefix of the whole width is refused.
IsPrefixTextBelowWidth(s) ==
  /\ "/" \in LexemesOf(s)
  /\ Before(s, "/") \in DOMAIN AddressOf
  /\ IsDecimal(After(s, "/")) /\ DecimalValue(After(s, "/")) < Width

\* from_str gives a prefix, which is then PrefixFrom.
IsPrefixText(s) ==
  /\ "/" \in LexemesOf(s)
  /\ Before(s, "/") \in DOMAIN AddressOf
  /\ IsDecimal(After(s, "/")) /\ DecimalValue(After(s, "/")) <= Width

PrefixFrom(s) ==
  [addr |-> AddressOf[Before(s, "/")], len |-> DecimalValue(After(s, "/"))]

Display(p) == TextOf[p.addr] \o <<"/">> \o DecimalText(p.len)

\* A length is a u8.  What is said of std: no address has a slash, and it reads
\* an address it has shown.
ASSUME AddressAssumption ==
  /\ Width <= U8Max
  /\ \A s \in DOMAIN AddressOf :
       s \in Seq(STRING) /\ "/" \notin LexemesOf(s) /\ AddressOf[s] \in Ipv6Addr
  /\ \A a \in DOMAIN TextOf : TextOf[a] \in DOMAIN AddressOf /\ AddressOf[TextOf[a]] = a
=============================================================================
