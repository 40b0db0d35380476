---------------------------- MODULE MCAuthority ----------------------------
(* Four domains: delegation chains of length three over the fourth.  Either  *)
(* the domains make calls, and the loops of SweepLoop rest on the matrix     *)
(* each call leaves; or the loops run, on every delegation tree of one       *)
(* target with an edge removed, in every order relative to the order in      *)
(* which they visit the cells.                                               *)
EXTENDS Hypervisor, SweepLoop

AtRest == start = controls /\ matrix = start /\ cell = <<NumDomains, 0>> /\ changed = FALSE

AuthorityInit == HvInit /\ (AtRest \/ SweepInit)
AuthorityNext ==
    \/ /\ AtRest /\ HvNext
       /\ start' = controls' /\ matrix' = start' /\ UNCHANGED <<cell, changed>>
    \/ SweepNext /\ UNCHANGED vars
AuthoritySpec ==
    AuthorityInit /\ [][AuthorityNext]_<<vars, sweepVars>> /\ WF_sweepVars(SweepNext)
=============================================================================
