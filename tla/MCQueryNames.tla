---------------------------- MODULE MCQueryNames ----------------------------
(***************************************************************************)
(* Labels of up to two and domains of up to five octets; the client may     *)
(* write the labels of the protocol itself.                                *)
(***************************************************************************)
EXTENDS QueryNames

MCLowerOf == [x \in Alphanumerics |-> "a"]
=============================================================================
