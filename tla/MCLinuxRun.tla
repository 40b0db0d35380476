--------------------------- MODULE MCLinuxRun ----------------------------
(***************************************************************************)
(* Two families of LinuxRun's behaviours.  In IrqSpec the guests make,     *)
(* route and enable interrupts, start vCPUs and sleep; in LifeSpec they    *)
(* start vCPUs, sleep, fault and stop.  The requests of the guests are     *)
(* bounded by Budget; what EL2 does with them, and what the guests do with *)
(* the interrupts they have, is not.                                       *)
(***************************************************************************)
EXTENDS LinuxRun

CONSTANT Budget         \* requests in one behaviour

VARIABLE spent          \* requests so far

mcVars == <<linuxVars, spent>>

\* Register writes and SGI requests that change nothing are left out.
Effective(a) == MmioWrite(gic[GuestOf(current)], a) # gic[GuestOf(current)]
MCRequests == {req \in SgiRequests : req.broadcast \/ req.list # {}}

IrqRequest ==
    \/ \E i \in Sgis, req \in MCRequests : SendSgi(i, req)
    \/ \E a \in GicAccesses : Cardinality(a.ids) = 1 /\ Effective(a) /\ GicWrite(a)
    \/ \E v \in VcpuIds : DeadlinePasses(v)
    \/ \E v \in VcpuIds : CpuOn(v)
    \/ Wfi

IrqResponse ==
    \/ SliceExpires
    \/ TimerIrq
    \/ MaintIrq
    \/ \E k \in LrIds : GuestTakes(k) \/ GuestEnds(k)
    \/ GuestRearms

LifeRequest ==
    \/ \E v \in VcpuIds : CpuOn(v)
    \/ PowerOff
    \/ Fault
    \/ \E a \in GicAccesses : Refused(a) /\ GicWrite(a)
    \/ \E g \in Guests : PeerFault(g)
    \/ GuestDropsHeader

LifeResponse == SliceExpires \/ Wfi

MCInit == LinuxInit /\ spent = 0

IrqNext ==
    \/ spent < Budget /\ spent' = spent + 1 /\ IrqRequest
    \/ IrqResponse /\ UNCHANGED spent

LifeNext ==
    \/ spent < Budget /\ spent' = spent + 1 /\ LifeRequest
    \/ LifeResponse /\ UNCHANGED spent

IrqSpec == MCInit /\ [][IrqNext]_mcVars
LifeSpec == MCInit /\ [][LifeNext]_mcVars /\ WF_mcVars(SliceExpires /\ UNCHANGED spent)

=============================================================================
