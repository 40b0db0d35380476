----------------------------- MODULE VirtGic -----------------------------
(***************************************************************************)
(* The interrupt controller a guest programs (hv-vdev gicv3.rs, one value  *)
(* of DeployedGic per guest in hv-metal) and the routing of an interrupt   *)
(* to vCPUs (sgi.rs, irouter.rs).  A register file is a record: which      *)
(* private interrupts each redistributor enables, which shared ones the    *)
(* distributor enables, and where each shared one is routed.  Groups,      *)
(* priorities, configuration, CTLR and WAKER are stored and read back but  *)
(* decide nothing, so a write to them changes nothing here.                *)
(***************************************************************************)
EXTENDS Integers, FiniteSets

CONSTANTS
    VcpusPerGuest,
    Ppis,           \* private interrupts (INTID < 32) the model tells apart
    Spis            \* shared interrupts (INTID >= 32)

ASSUME VirtGicAssumption ==
    /\ VcpusPerGuest \in Nat \ {0}
    /\ Ppis \subseteq 0 .. 31
    /\ Spis \subseteq Nat \ (0 .. 31)

Affinities == 0 .. VcpusPerGuest - 1

\* The route of an SPI: the affinity it names; any other value, the 1-of-N
\* form included, names no vCPU.
NoRoute == VcpusPerGuest

GicFile == [redist : [Affinities -> SUBSET Ppis], spis : SUBSET Spis,
            irouter : [Spis -> Affinities \union {NoRoute}]]

GicAtReset ==
    [redist |-> [n \in Affinities |-> {}], spis |-> {},
     irouter |-> [i \in Spis |-> 0]]

IsEnabled(gic, vcpu, intid) ==
    IF intid \in Ppis THEN intid \in gic.redist[vcpu] ELSE intid \in gic.spis

\* An access after decoding: the register file (Dist, or a redistributor's Sgi
\* or control frame Redist of vCPU n), the register in it, and the operand.
\* "Plain" is a register that is stored only or ignores writes, "Unmodelled"
\* one the device refuses.
GicAccesses ==
    [frame : {"Dist"}, reg : {"ISENABLER", "ICENABLER"}, n : {0}, ids : SUBSET (Ppis \union Spis)]
    \union [frame : {"Dist"}, reg : {"IROUTER"}, n : Affinities \union {NoRoute},
            ids : {{i} : i \in Spis}]
    \union [frame : {"Sgi"}, reg : {"ISENABLER", "ICENABLER"}, n : Affinities, ids : SUBSET Ppis]
    \union [frame : {"Dist", "Redist", "Sgi"}, reg : {"Plain", "Unmodelled"}, n : {0}, ids : {{}}]

\* The distributor's words for INTIDs below 32 are banked in the
\* redistributors: a write to them through GICD is ignored.
DistWrite(gic, a) ==
    CASE a.reg = "ISENABLER" -> [gic EXCEPT !.spis = @ \union (a.ids \ Ppis)]
      [] a.reg = "ICENABLER" -> [gic EXCEPT !.spis = @ \ a.ids]
      [] a.reg = "IROUTER" ->
            [gic EXCEPT !.irouter = [i \in Spis |-> IF i \in a.ids THEN a.n ELSE @[i]]]
      [] OTHER -> gic

SgiWrite(gic, a) ==
    CASE a.reg = "ISENABLER" -> [gic EXCEPT !.redist[a.n] = @ \union a.ids]
      [] a.reg = "ICENABLER" -> [gic EXCEPT !.redist[a.n] = @ \ a.ids]
      [] OTHER -> gic

MmioWrite(gic, a) ==
    CASE a.frame = "Dist" -> DistWrite(gic, a)
      [] a.frame = "Sgi" -> SgiWrite(gic, a)
      [] a.frame = "Redist" -> gic

Refused(a) == a.reg = "Unmodelled"

-----------------------------------------------------------------------------
\* A write of ICC_SGI1R: either to everyone but the sender, or to a list of
\* affinities.
SgiRequests ==
    [broadcast : {TRUE}, list : {{}}] \union [broadcast : {FALSE}, list : SUBSET Affinities]

SgiTargets(req, sender) ==
    IF req.broadcast THEN Affinities \ {sender} ELSE req.list

SpiTargets(gic, intid) == {gic.irouter[intid]} \cap Affinities

=============================================================================
