------------------------------- MODULE Frames -------------------------------
(* What the grant table and the page-type table share: the machine frames    *)
(* and the width of their reference counters.                                *)
EXTENDS Domains, FiniteSets

CONSTANTS NumFrames,    \* hypervisor.rs new(): num_frames
          MaxCount      \* the largest reference count: u32::MAX in the code

ASSUME FramesAssumption == NumFrames \in Nat /\ MaxCount \in Nat

Frame == 0..(NumFrames - 1)

\* 1 if the condition holds, 0 otherwise: a reference taken or not.
One(cond) == IF cond THEN 1 ELSE 0
=============================================================================
