------------------------ MODULE MCReceiverRefinement ------------------------
(***************************************************************************)
(* The refinement on the instance of MCReceiver.                           *)
(***************************************************************************)
EXTENDS MCReceiver, ReceiverRefinement
=============================================================================
