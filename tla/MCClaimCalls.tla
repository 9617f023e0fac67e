---------------------------- MODULE MCClaimCalls ----------------------------
(* The claim rules over every row with two hashes and a short clock.       *)
EXTENDS ClaimCalls
=============================================================================
