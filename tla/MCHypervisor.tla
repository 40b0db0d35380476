---------------------------- MODULE MCHypervisor ----------------------------
(* The whole dispatch, on instances each of which keeps one seam at full     *)
(* size and gives the parts it does not involve a table of size zero.        *)
EXTENDS Noninterference

\* Bound of the memory instance: domain 0 alone creates domains.
OnlyDom0Creates == \A d \in Dom : may_create'[d] => d = 0

\* Bound of the three-domain instance: moreover permits are given to domain 0
\* alone, which uses them for page-table entries.
OnlyDom0Served ==
    /\ OnlyDom0Creates
    /\ \A g \in DOMAIN grants' : grants'[g].live => grants'[g].grantee = 0
    /\ maps' = {}

\* Bounds of the events instance.  Credit is used by domain 0 alone, in runs
\* where no other domain lives (no guard outside its account reads credit).  A
\* third domain lives, holds control and dies while nobody has a port, an
\* admitted vCPU or a device.
CreditOnlyAlone ==
    \A d \in Dom : credit'[d].granted > 0 => d = 0 /\ \A e \in Dom \ {0} : life'[e] = "Dead"
ThirdOnlyIdle ==
    (\E d \in Dom : d > 1 /\ life'[d] = "Live") =>
        /\ \A x \in PortId : ports'[x].state = Free
        /\ \A x \in VcpuId : runstate'[x] = Offline /\ affinity'[x] = FullMask
        /\ \A d \in Dev : holder'[d] = NoHolder
EventsBounded == CreditOnlyAlone /\ ThirdOnlyIdle
=============================================================================
