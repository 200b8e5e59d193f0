---------------------------- MODULE PrefixAlgebra ----------------------------
(***************************************************************************)
(* The prefix operations of src/address.rs and the entry test of           *)
(* src/record.rs against what they mean for sets of addresses.             *)
(*                                                                         *)
(* The state is one pair of prefixes: the prefix a token claims and an     *)
(* entry of a policy record.  A verifier meets every pair, so the behaviour*)
(* of the module simply visits them.                                       *)
(***************************************************************************)
EXTENDS PolicyRecord, Integers

VARIABLES
  claimed,  \* the prefix of a token
  allowed   \* the policy entry it is compared with

vars == <<claimed, allowed>>

Init == claimed \in Prefixes /\ allowed = GlobalUnicast

NextEntry == allowed' \in Prefixes /\ UNCHANGED claimed

Spec == Init /\ [][NextEntry]_vars

TypeOK == claimed \in Prefixes /\ allowed \in Prefixes

-----------------------------------------------------------------------------

\* A prefix contains exactly the addresses that agree with it on its first len
\* bits: the masks of contains() on both sides are right at every length, zero
\* and the full width (where the shift of mask() would wrap) included.
ContainsIsMembership ==
  \A a \in Ipv6Addr : Contains(allowed, a) <=> a \in Block(allowed)

\* overlaps() is true exactly of prefixes with a common address; is_attestable
\* relies on it to keep every address of a claim out of Teredo and 6to4, and
\* comparing at the longer of the two lengths would miss an enclosing claim.
OverlapIsSharedAddress ==
  Overlaps(claimed, allowed) <=> Block(claimed) \intersect Block(allowed) # {}

\* An authorized entry covers the whole claimed prefix and conversely: the
\* length test and the base-address test of authorizes() amount to inclusion, so
\* a narrow enumeration never authorizes its parent.
CoverIsInclusion ==
  IsAttestable(claimed) /\ IsAttestable(allowed)
    => (Covers(allowed, claimed) <=> Block(claimed) \subseteq Block(allowed))

\* Every address of an attestable prefix is an eligible source.  The two rule
\* sets are written separately in the code (is_attestable tests two ranges,
\* is_eligible_source six); an address that one admits and the other refuses
\* would make part of an attested prefix unable to send.
AttestableIsEligible ==
  IsAttestable(claimed) => \A a \in Block(claimed) : IsEligibleSource(a)
=============================================================================
