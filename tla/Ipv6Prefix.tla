----------------------------- MODULE Ipv6Prefix -----------------------------
(***************************************************************************)
(* IPv6 prefix arithmetic and the address rules, src/address.rs.           *)
(*                                                                         *)
(* An address is a function from bit positions to bits, position 1 being   *)
(* the most significant one; the code keeps a u128.  Width is 128 in the   *)
(* code; every other number and range of the module is a constant too, so  *)
(* that small instances can be searched exhaustively and the theorems hold *)
(* for every layout that meets PrefixAssumption.                           *)
(***************************************************************************)
EXTENDS Naturals

CONSTANTS
  Width,          \* bits of an address
  MinPrefixLen,   \* shortest attested prefix
  MaxPrefixLen,   \* longest attested prefix
  GlobalUnicast,  \* 2000::/3
  Teredo,         \* 2001::/32
  SixToFour,      \* 2002::/16
  EmbeddedRanges  \* IPv4-mapped, IPv4-compatible and the two NAT64 ranges

Ipv6Addr == [1..Width -> {0, 1}]

Prefixes == [addr : Ipv6Addr, len : 0..Width]

\* The addresses a prefix stands for: the reference for the operations below.
Block(p) == {a \in Ipv6Addr : \A i \in 1..p.len : a[i] = p.addr[i]}

\* Mutation of KeptBits: the shift alone, without the branch for a whole word.
KeptBitsByShift(len) == 1..(len % Width)

\* The positions that !(u128::MAX >> len) leaves set.  A shift by a whole word
\* is not a shift to zero: the machine takes the amount modulo the word, hence
\* the explicit branch for len >= 128.
KeptBits(len) == IF len >= Width THEN 1..Width ELSE 1..(len % Width)

Mask(addr, len) == [i \in 1..Width |-> IF i \in KeptBits(len) THEN addr[i] ELSE 0]

IsCanonical(p) == Mask(p.addr, p.len) = p.addr

Contains(p, addr) == Mask(addr, p.len) = Mask(p.addr, p.len)

\* Mutation of Overlaps: compared at the longer of the two lengths.
OverlapsAtLonger(p, q) ==
  LET longer == IF p.len <= q.len THEN q.len ELSE p.len
  IN  Mask(p.addr, longer) = Mask(q.addr, longer)

Overlaps(p, q) ==
  LET shorter == IF p.len <= q.len THEN p.len ELSE q.len
  IN  Mask(p.addr, shorter) = Mask(q.addr, shorter)

\* Mutation of IsAttestable: one of the two transition ranges is not tested.
IsAttestableIn6to4(p) ==
  /\ IsCanonical(p)
  /\ p.len \in MinPrefixLen..MaxPrefixLen
  /\ Contains(GlobalUnicast, p.addr)
  /\ ~Overlaps(p, Teredo)

\* What may be attested: canonical, of a permitted length, inside the global
\* unicast space and clear of the two transition ranges inside that space.
IsAttestable(p) ==
  /\ IsCanonical(p)
  /\ p.len \in MinPrefixLen..MaxPrefixLen
  /\ Contains(GlobalUnicast, p.addr)
  /\ ~Overlaps(p, Teredo)
  /\ ~Overlaps(p, SixToFour)

IneligibleSourceRanges == EmbeddedRanges \union {Teredo, SixToFour}

IsEligibleSource(addr) ==
  /\ Contains(GlobalUnicast, addr)
  /\ \A range \in IneligibleSourceRanges : ~Contains(range, addr)

\* The layout of the address constants.  The last conjunct is what the comment
\* on INELIGIBLE_SOURCE_RANGES says of its first four members: they lie outside
\* the global unicast space.
ASSUME PrefixAssumption ==
  /\ Width \in Nat \ {0}
  /\ MinPrefixLen \in Nat /\ MaxPrefixLen \in Nat
  /\ MinPrefixLen <= MaxPrefixLen /\ MaxPrefixLen <= Width
  /\ {GlobalUnicast, Teredo, SixToFour} \union EmbeddedRanges \subseteq Prefixes
  /\ GlobalUnicast.len <= MinPrefixLen
  /\ \A range \in EmbeddedRanges : ~Overlaps(range, GlobalUnicast)
=============================================================================
