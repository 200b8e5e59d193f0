------------------------------- MODULE Reason -------------------------------
(***************************************************************************)
(* Reason codes, src/reason.rs, and the way a check propagates one.        *)
(***************************************************************************)

\* The reason string of a successful verification.
Pass == "pass"

Reasons == {"off_prefix", "ineligible_source", "expired", "not_yet_valid",
            "bad_signature", "lifetime_too_long", "bad_unit", "bad_prefix",
            "bad_validity", "unauthorized_prefix", "policy_unit_mismatch",
            "bad_content_type", "bad_kid", "header_confusion", "bad_role",
            "malformed"}

\* The Authentication-Results value a reason reports as.
AuthResult(reason) ==
  IF reason \in {"bad_signature", "off_prefix", "expired", "not_yet_valid"}
    THEN "fail" ELSE "permerror"

\* A check that returns early with a reason, and the ? operator of the source:
\* the first reason reached wins, later checks are not run.
Check(condition, reason) == IF condition THEN Pass ELSE reason

first ?? second == IF first # Pass THEN first ELSE second
=============================================================================
