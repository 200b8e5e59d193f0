---------------------------- MODULE PolicyRecord ----------------------------
(***************************************************************************)
(* The operator policy record, src/record.rs: what it enumerates and which *)
(* signed prefixes it authorizes.                                          *)
(***************************************************************************)
EXTENDS Sequences, Ipv6Prefix

\* Mutation of Covers: the base address alone decides.
CoversByBase(allowed, tokenPrefix) ==
  IsAttestable(allowed) /\ Contains(allowed, tokenPrefix.addr)

\* One entry of p= against the signed prefix of a token: an entry covers the
\* prefixes at least as specific as itself, never its own parent.
Covers(allowed, tokenPrefix) ==
  /\ IsAttestable(allowed)
  /\ tokenPrefix.len >= allowed.len
  /\ Contains(allowed, tokenPrefix.addr)

Authorizes(policy, tokenPrefix) ==
  /\ IsAttestable(tokenPrefix)
  /\ \E i \in DOMAIN policy.prefixes : Covers(policy.prefixes[i], tokenPrefix)
=============================================================================
