----------------------------- MODULE SweepLoop -----------------------------
(* The two loops over the delegation matrix of hypervisor.rs, step by step:  *)
(* sweep_orphaned_control_edges, one cell at a time, and the upward walk of  *)
(* control_subtree_contains.  Authority uses what they compute (Swept and    *)
(* Subtree, as fixpoints, within one step); here the loops are compared with *)
(* that, on a matrix of their own.                                           *)
EXTENDS Authority

VARIABLES start,    \* the matrix when the sweep was entered
          matrix,   \* the matrix as the sweep has left it so far
          cell,     \* the cell (target, holder) the inner loops look at next
          changed   \* the flag of the while loop

sweepVars == <<start, matrix, cell, changed>>

\* What the sweep is given: the delegation tree of one target t, with the
\* edge of one holder r just removed by control_revoke or domain_destroy
\* (which sweeps every column, also those in which r held no edge).
SweepInit ==
    /\ \E t, r \in Dom, col \in [Dom -> Control] :
          LET tree == [e \in Edge |-> IF e[2] = t THEN col[e[1]] ELSE Absent]
          IN  /\ col[t] = Absent /\ Forest(tree)
              /\ start = [tree EXCEPT ![<<r, t>>] = Absent]
    /\ matrix = start
    /\ cell = <<0, 0>> /\ changed = FALSE

PassOver == cell[1] = NumDomains
NextCell == IF cell[2] + 1 < NumDomains THEN <<cell[1], cell[2] + 1>> ELSE <<cell[1] + 1, 0>>
Orphan(h, t) == matrix[<<h, t>>] \in Dom /\ matrix[<<matrix[<<h, t>>], t>>] = Absent

\* Mutant of SweepCell: the removal does not ask for another pass.
SweepCellQuietly ==
    LET t == cell[1]  h == cell[2]
    IN  /\ ~PassOver
        /\ matrix' = IF Orphan(h, t) THEN [matrix EXCEPT ![<<h, t>>] = Absent] ELSE matrix
        /\ cell' = NextCell
        /\ UNCHANGED <<start, changed>>

\* Mutant of SweepCell: asks for another pass at every delegated edge it meets.
SweepCellRestless ==
    LET t == cell[1]  h == cell[2]
    IN  /\ ~PassOver
        /\ matrix' = IF Orphan(h, t) THEN [matrix EXCEPT ![<<h, t>>] = Absent] ELSE matrix
        /\ changed' = (changed \/ matrix[<<h, t>>] \in Dom)
        /\ cell' = NextCell
        /\ UNCHANGED start

\* One turn of the inner loops.
SweepCell ==
    LET t == cell[1]  h == cell[2]
    IN  /\ ~PassOver
        /\ matrix' = IF Orphan(h, t) THEN [matrix EXCEPT ![<<h, t>>] = Absent] ELSE matrix
        /\ changed' = (changed \/ Orphan(h, t))
        /\ cell' = NextCell
        /\ UNCHANGED start

\* Another pass of the while loop.
SweepAgain ==
    /\ PassOver /\ changed
    /\ cell' = <<0, 0>> /\ changed' = FALSE
    /\ UNCHANGED <<start, matrix>>

SweepNext == SweepCell \/ SweepAgain
SweepSpec == SweepInit /\ [][SweepNext]_sweepVars /\ WF_sweepVars(SweepNext)

Returned == PassOver /\ ~changed

\* Mutant of WalkContains: one step of the walk too few reaches the root.
WalkContainsShort(ct, c, n, t) ==
    LET from[k \in 0..(NumDomains - 2)] ==
            IF k = 0 THEN n
            ELSE IF from[k - 1] \in Dom THEN ct[<<from[k - 1], t>>] ELSE Absent
    IN  \E k \in 0..(NumDomains - 3) : from[k] = c

\* control_subtree_contains: from[k] is the domain k steps up from n, or the
\* Root or Absent mark that ends the walk; c is met within the code's bound.
WalkContains(ct, c, n, t) ==
    LET from[k \in 0..NumDomains] ==
            IF k = 0 THEN n
            ELSE IF from[k - 1] \in Dom THEN ct[<<from[k - 1], t>>] ELSE Absent
    IN  \E k \in 0..NumDomains : from[k] = c

-----------------------------------------------------------------------------
(* When the sweep returns it has removed exactly the edges Swept removes:    *)
(* the whole subtree under the vanished edge and nothing else, whatever the  *)
(* order in which cells are visited relative to the delegation chain.        *)
SweepExact == Returned => matrix = Swept(start)

(* The bounded upward walk decides membership in the delegated subtree, on   *)
(* the trees the sweep leaves as well as on those it is in the middle of.    *)
WalkDecidesSubtree ==
    \A c, n, t \in Dom : matrix[<<c, t>>] # Absent =>
        (WalkContains(matrix, c, n, t) <=> n \in Subtree(matrix, c, t))

(* The while loop ends: every pass but the last removes an edge.             *)
SweepTerminates == <>Returned
=============================================================================
