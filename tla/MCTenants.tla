----------------------------- MODULE MCTenants -----------------------------
(* What the metal keeps for a domain that dies: its frames and its devices'  *)
(* streams (Teardown), and its slice of the disk (VirtioBlk).  The two share *)
(* no state, so each is explored with the other at rest.  Two domains and    *)
(* two tenants, each born again; two frames, two devices and two streams,    *)
(* which the devices may share; a one-sector disk, and ring indices that     *)
(* wrap at 4.                                                                *)
EXTENDS Teardown, VirtioBlk

VARIABLE half   \* the half that is explored: "frames" or "disk"

Served(typ, buf) == [chained |-> TRUE, typ |-> typ, sector |-> 0,
                     device_writes |-> typ = "IN", buf |-> buf]

\* A read and a write the back-end performs, and one request for each of its
\* reasons to refuse: a buffer not granted for writing, one not granted at
\* all, a broken chain, a sector off the disk, the wrong direction, another
\* type.
MCShapes ==
    {Served("IN", "io"), Served("OUT", "io"), Served("IN", "header"), Served("OUT", "ungranted"),
     [Served("OUT", "io") EXCEPT !.chained = FALSE],
     [Served("OUT", "io") EXCEPT !.sector = NumSectors],
     [Served("OUT", "io") EXCEPT !.device_writes = TRUE],
     Served("OTHER", "io")}

TenantsInit ==
    /\ half \in {"frames", "disk"} /\ TeardownInit /\ VirtioBlkInit
    /\ IF half = "disk" THEN stream = [v \in Device |-> 0] ELSE polite
TenantsNext ==
    \/ half = "frames" /\ (El2Next \/ SmmuNext) /\ UNCHANGED <<half, blkVars>>
    \/ half = "disk" /\ VirtioBlkNext /\ UNCHANGED <<half, teardownVars>>
TenantsSpec == TenantsInit /\ [][TenantsNext]_<<half, teardownVars, blkVars>>
=============================================================================
