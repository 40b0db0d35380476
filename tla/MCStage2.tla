------------------------------ MODULE MCStage2 ------------------------------
(* Stage-2 emission driven by the page tables of module P2m.  A table has    *)
(* four entries, so a block is four pages, an L1 entry sixteen and the       *)
(* address space sixty-four.  The layouts are the two builds of              *)
(* hv-metal/src/stage2.rs (the demo guest, and Linux, whose RAM starts inside *)
(* an L1 entry and may be written and executed), a device window, a data     *)
(* window backed at an odd page, and layouts that validate must refuse: each *)
(* one has a single defect.                                                  *)
EXTENDS Stage2

CONSTANT Budget         \* page-table operations under a good layout; one under a bad one

VARIABLE spent

demo == [image |-> 0, data_ipa |-> 16, data_pa |-> 16, sup_ipa |-> 32, sup_pa |-> 32,
         sup_frames |-> 1, device |-> 48, device_len |-> 0, frame_size |-> 1,
         wx_exempt |-> FALSE, nameable |-> TRUE, selftest |-> FALSE]
linux == [demo EXCEPT !.image = NoImage, !.sup_ipa = 36, !.sup_pa = 36, !.sup_frames = 2,
                      !.wx_exempt = TRUE]

GoodLayouts ==
    {[demo EXCEPT !.selftest = TRUE], demo, [linux EXCEPT !.selftest = TRUE],
     [demo EXCEPT !.data_pa = 17, !.sup_frames = 2], [demo EXCEPT !.device_len = 8, !.selftest = TRUE]}
BadLayouts ==
    {[demo EXCEPT !.image = 2], [demo EXCEPT !.data_ipa = 18], [demo EXCEPT !.sup_ipa = 34],
     [demo EXCEPT !.sup_pa = 38], [demo EXCEPT !.device = 50, !.device_len = 4],
     [demo EXCEPT !.device_len = 6], [demo EXCEPT !.frame_size = 2],
     [demo EXCEPT !.nameable = FALSE], [demo EXCEPT !.data_pa = 1],
     [demo EXCEPT !.data_pa = 32], [demo EXCEPT !.sup_ipa = 20],
     [demo EXCEPT !.data_ipa = 4, !.image = 0], [demo EXCEPT !.device_len = 20],
     [demo EXCEPT !.sup_ipa = 44, !.sup_frames = 2], [demo EXCEPT !.data_ipa = 64]}

MCLayouts == GoodLayouts \cup BadLayouts

\* Domain 0 has been given four frames: 0 in the super partition, 1 a frame to
\* map, 2 pinned as an L1 table, 3 pinned above that or to be mapped too.
MCInit ==
    /\ Stage2Init
    /\ frames \in {[f \in Frame |->
           IF f \in DOMAIN pins
           THEN [FreeFrame EXCEPT !.owner = 0, !.refs = 1, !.pagetable_refs = 1,
                                  !.pt_level = pins[f], !.pinned = TRUE]
           ELSE [FreeFrame EXCEPT !.owner = 0]] : pins \in UNION {[{2} -> {1}],
                                                   {[f \in {2, 3} |-> f - 1]}, {[f \in {2, 3} |-> 2 * f - 3]}}}
    /\ links = {}
    /\ spent = 0

RemapWithin ==
    /\ spent < IF layout \in GoodLayouts THEN Budget ELSE 1
    /\ spent' = spent + 1
    /\ Remap

MCSpec == MCInit /\ [][RemapWithin \/ (Publish /\ UNCHANGED spent)]_<<p2mVars, s2Vars, spent>>
=============================================================================
