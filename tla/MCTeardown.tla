----------------------------- MODULE MCTeardown -----------------------------
(* Two domains that die and are born again, two frames, two devices and two  *)
(* streams, which the devices may share.                                     *)
EXTENDS Teardown
=============================================================================
