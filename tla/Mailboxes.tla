---------------------------- MODULE Mailboxes ----------------------------
(***************************************************************************)
(* What a guest may expect of its virtual interrupts, whatever the number  *)
(* of list registers and however often the pCPU changes hands.  Each vCPU  *)
(* owns a mailbox.  Only a vCPU of the guest that is running may be posted *)
(* to, only the vCPU that is running takes, and what has been posted stays *)
(* until it is taken.  An interrupt posted twice before it is taken may be *)
(* taken once or twice.                                                    *)
(***************************************************************************)
EXTENDS Integers

CONSTANTS NumGuests, VcpusPerGuest, Intids

VARIABLES
    owed,       \* per vCPU, the interrupts posted and not taken
    serving,    \* per vCPU, the interrupts taken and not finished
    turn        \* the vCPU that has the pCPU

boxVars == <<owed, serving, turn>>

BoxVcpus == 0 .. NumGuests * VcpusPerGuest - 1
BoxGuest(v) == v \div VcpusPerGuest

BoxInit ==
    /\ owed = [v \in BoxVcpus |-> {}]
    /\ serving = [v \in BoxVcpus |-> {}]
    /\ turn \in BoxVcpus

\* An interrupt is put into mailboxes of the running guest; the pCPU may pass
\* on in the same step.
Post(i, to) ==
    /\ owed' = [v \in BoxVcpus |-> IF v \in to THEN owed[v] \union {i} ELSE owed[v]]
    /\ turn' \in BoxVcpus
    /\ UNCHANGED serving

Take(i) ==
    /\ i \in owed[turn]
    /\ owed' \in {owed, [owed EXCEPT ![turn] = @ \ {i}]}
    /\ serving' = [serving EXCEPT ![turn] = @ \union {i}]
    /\ UNCHANGED turn

Finish(i) ==
    /\ i \in serving[turn]
    /\ serving' \in {serving, [serving EXCEPT ![turn] = @ \ {i}]}
    /\ UNCHANGED <<owed, turn>>

PassOn ==
    /\ turn' \in BoxVcpus
    /\ UNCHANGED <<owed, serving>>

BoxNext ==
    \/ \E i \in Intids, to \in SUBSET {v \in BoxVcpus : BoxGuest(v) = BoxGuest(turn)} : Post(i, to)
    \/ \E i \in Intids : Take(i) \/ Finish(i)
    \/ PassOn

BoxSpec == BoxInit /\ [][BoxNext]_boxVars

=============================================================================
