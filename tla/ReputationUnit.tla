--------------------------- MODULE ReputationUnit ---------------------------
(***************************************************************************)
(* The reputation unit that a token and a policy mean when they say none.  *)
(***************************************************************************)
CONSTANT DefaultUnit  \* DEFAULT_UNIT of src/payload.rs
=============================================================================
