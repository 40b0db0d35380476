-------------------------- MODULE SubsystemProofs --------------------------
(* Four subsystems of hv-core, each on its own and for every value of its    *)
(* constants: the scheduler mechanism, the event channels, the grant tables  *)
(* and the authority matrix.  The proofs about the whole hypervisor, the     *)
(* scheduling policy and the sweep reuse these steps.                        *)
EXTENDS Sched, Evtchn, Grant, Authority, FiniteSetTheorems, TLAPS
-----------------------------------------------------------------------------
(* The scheduler.  Every number of domains, vCPUs and pCPUs, every mask      *)
(* width and every width of the tick counter.                                *)

(* What the transitions of sched.rs preserve together.  RunningOnAffinity is *)
(* not needed by the other two; Reciprocity is not inductive without the     *)
(* type of the occupancy table.                                              *)
SchedInv == SchedTypeOK /\ Reciprocity /\ RunningOnAffinity

(* The idle marker of the occupancy table names no vCPU, so an idle pCPU is  *)
(* never mistaken for an occupied one.                                       *)
LEMMA IdleIsNoVcpu == Idle \notin VcpuId
  BY DEF Idle, VcpuId, Dom, Vcpu

(* The four run states differ, and Running(p) remembers p.                   *)
LEMMA RunStateFacts ==
    /\ Offline \in RunState /\ Runnable \in RunState /\ Blocked \in RunState
    /\ \A p \in Pcpu : Running(p) \in RunState
    /\ \A p \in Pcpu : Running(p) # Offline /\ Running(p) # Runnable /\ Running(p) # Blocked
    /\ \A p, q \in Pcpu : Running(p) = Running(q) => p = q
    /\ \A s \in RunState : s.kind = "Running" <=> \E p \in Pcpu : s = Running(p)
    /\ \A p \in Pcpu : Running(p).pcpu = p
<1>1. Offline \in RunState /\ Runnable \in RunState /\ Blocked \in RunState
  BY DEF RunState
<1>2. \A p \in Pcpu : Running(p) \in RunState
  BY DEF RunState
<1>3. \A p \in Pcpu : /\ Running(p).kind = "Running" /\ Running(p).pcpu = p
                     /\ Offline.kind # "Running"
                     /\ Runnable.kind # "Running"
                     /\ Blocked.kind # "Running"
  BY DEF Offline, Runnable, Blocked, Running
<1>4. \A s \in RunState : s.kind = "Running" <=> \E p \in Pcpu : s = Running(p)
  <2>1. SUFFICES ASSUME NEW s \in RunState, s.kind = "Running"
                 PROVE  \E p \in Pcpu : s = Running(p)
    BY <1>3
  <2>2. s # Offline /\ s # Runnable /\ s # Blocked
    BY <2>1 DEF Offline, Runnable, Blocked
  <2> QED
    BY <2>2 DEF RunState
<1> QED
  BY <1>1, <1>2, <1>3, <1>4

(* Closing an interval saturates, so it stays a Ticks value and never lowers *)
(* the runtime, whatever the clock did since dispatch.                       *)
LEMMA AccountedFacts ==
    ASSUME SchedTypeOK, NEW x \in VcpuId, NEW now \in Ticks
    PROVE  Accounted(x, now) \in Ticks /\ Accounted(x, now) >= runtime[x]
  BY SchedAssumption DEF Accounted, SchedTypeOK, Ticks

(* new() establishes the invariants.                                         *)
LEMMA SchedInitInv == SchedInit => SchedInv
  BY IdleIsNoVcpu, RunStateFacts, SchedAssumption
     DEF SchedInit, SchedInv, SchedTypeOK, Reciprocity, RunningOnAffinity,
         IsRunning, FullMask, Ticks

(* One transition of sched.rs preserves the invariants.  The cases are the   *)
(* disjuncts of SchedNext; leaving a CPU is the same argument four times, so *)
(* it is stated once, for a vCPU that ends in any state other than Running.  *)
LEMMA LeaveCpuInv ==
    ASSUME SchedInv, NEW x \in VcpuId, NEW now \in Ticks, LeaveCpu(x, now),
           NEW s \in {Offline, Runnable, Blocked},
           runstate' = [runstate EXCEPT ![x] = s],
           \/ affinity' = affinity
           \/ affinity' = [affinity EXCEPT ![x] = FullMask],
           dispatched_at' = dispatched_at
    PROVE  SchedInv'
<1>1. SchedTypeOK'
  <2>1. runstate' \in [VcpuId -> RunState]
    BY RunStateFacts DEF SchedInv, SchedTypeOK
  <2>2. affinity' \in [VcpuId -> SUBSET FullMask]
    BY DEF SchedInv, SchedTypeOK
  <2>3. runtime' \in [VcpuId -> Ticks] /\ pcpus' \in [Pcpu -> VcpuId \cup {Idle}]
    BY AccountedFacts DEF SchedInv, SchedTypeOK, LeaveCpu
  <2> QED BY <2>1, <2>2, <2>3 DEF SchedInv, SchedTypeOK
<1>2. \A y \in VcpuId : y # x => runstate'[y] = runstate[y]
  BY DEF SchedInv, SchedTypeOK
<1>3. runstate'[x] = s /\ \A p \in Pcpu : runstate'[x] # Running(p)
  BY RunStateFacts DEF SchedInv, SchedTypeOK
<1>4. \A p \in Pcpu : pcpus'[p] = IF pcpus[p] = x THEN Idle ELSE pcpus[p]
  <2>1. CASE IsRunning(x)
    <3>1. PICK q \in Pcpu : runstate[x] = Running(q) /\ runstate[x].pcpu = q
      BY <2>1, RunStateFacts DEF SchedInv, SchedTypeOK, IsRunning
    <3>2. pcpus' = [pcpus EXCEPT ![q] = Idle]
      BY <2>1, <3>1 DEF LeaveCpu
    <3>3. \A p \in Pcpu : pcpus[p] = x <=> p = q
      BY <3>1, RunStateFacts DEF SchedInv, Reciprocity
    <3> QED BY <3>2, <3>3 DEF SchedInv, SchedTypeOK
  <2>2. CASE ~IsRunning(x)
    <3>1. \A p \in Pcpu : pcpus[p] # x
      BY <2>2, RunStateFacts DEF SchedInv, SchedTypeOK, Reciprocity, IsRunning
    <3> QED BY <2>2, <3>1 DEF LeaveCpu
  <2> QED BY <2>1, <2>2
<1>5. Reciprocity'
  <2> SUFFICES ASSUME NEW y \in VcpuId, NEW p \in Pcpu
               PROVE  runstate'[y] = Running(p) <=> pcpus'[p] = y
    BY DEF Reciprocity
  <2>1. CASE y = x
    BY <2>1, <1>3, <1>4, IdleIsNoVcpu
  <2>2. CASE y # x
    BY <2>2, <1>2, <1>4, IdleIsNoVcpu DEF SchedInv, Reciprocity
  <2> QED BY <2>1, <2>2
<1>6. RunningOnAffinity'
  <2> SUFFICES ASSUME NEW y \in VcpuId, IsRunning(y)'
               PROVE  runstate'[y].pcpu \in affinity'[y]
    BY DEF RunningOnAffinity
  <2>1. y # x
    BY <1>1, <1>3, RunStateFacts DEF IsRunning, SchedTypeOK
  <2> QED
    BY <2>1, <1>2 DEF SchedInv, SchedTypeOK, RunningOnAffinity, IsRunning
<1> QED BY <1>1, <1>5, <1>6 DEF SchedInv

(* The loop of offline_all over a whole domain preserves the invariants: the *)
(* pCPUs it frees are exactly the ones its vCPUs held.                       *)
LEMMA OfflineAllInv ==
    ASSUME SchedInv, NEW d \in Dom, NEW now \in Ticks, OfflineAll(d, now)
    PROVE  SchedInv'
<1> DEFINE online == {x \in VcpuId : x[1] = d /\ runstate[x] # Offline}
<1>1. SchedTypeOK'
  <2>1. runstate' \in [VcpuId -> RunState]
    BY RunStateFacts DEF SchedInv, SchedTypeOK, OfflineAll
  <2>2. affinity' \in [VcpuId -> SUBSET FullMask]
    BY DEF SchedInv, SchedTypeOK, OfflineAll
  <2>3. runtime' \in [VcpuId -> Ticks]
    BY AccountedFacts DEF SchedInv, SchedTypeOK, OfflineAll
  <2>4. pcpus' \in [Pcpu -> VcpuId \cup {Idle}]
    BY DEF SchedInv, SchedTypeOK, OfflineAll
  <2> QED BY <2>1, <2>2, <2>3, <2>4 DEF SchedInv, SchedTypeOK, OfflineAll
<1>2. \A y \in VcpuId : runstate'[y] = IF y \in online THEN Offline ELSE runstate[y]
  BY DEF OfflineAll
<1>3. \A p \in Pcpu : pcpus'[p] = IF \E x \in online : runstate[x] = Running(p)
                                  THEN Idle ELSE pcpus[p]
  BY DEF OfflineAll
<1>4. Reciprocity'
  <2> SUFFICES ASSUME NEW y \in VcpuId, NEW p \in Pcpu
               PROVE  runstate'[y] = Running(p) <=> pcpus'[p] = y
    BY DEF Reciprocity
  <2>1. CASE y \in online
    BY <2>1, <1>2, <1>3, IdleIsNoVcpu, RunStateFacts DEF SchedInv, Reciprocity
  <2>2. CASE y \notin online
    <3> HIDE DEF online
    <3>1. online \subseteq VcpuId
      BY DEF online
    <3> QED
      BY <2>2, <3>1, <1>2, <1>3, IdleIsNoVcpu, RunStateFacts DEF SchedInv, Reciprocity
  <2> QED BY <2>1, <2>2
<1>5. RunningOnAffinity'
  BY <1>2, RunStateFacts DEF SchedInv, SchedTypeOK, RunningOnAffinity, IsRunning, OfflineAll
<1> QED BY <1>1, <1>4, <1>5 DEF SchedInv

(* Every transition of the scheduler keeps its invariant. *)
LEMMA SchedStepInv ==
    ASSUME SchedInv, [SchedNext]_schedVars
    PROVE  SchedInv'
<1> USE DEF SchedInv
<1>1. ASSUME NEW x \in VcpuId, Admit(x) \/ Wake(x)
      PROVE  SchedInv'
  <2>1. \A y \in VcpuId, p \in Pcpu : runstate'[y] = Running(p) <=> runstate[y] = Running(p)
    BY <1>1, RunStateFacts DEF Admit, Wake, SchedTypeOK
  <2>2. SchedTypeOK'
    BY <1>1, RunStateFacts DEF Admit, Wake, SchedTypeOK
  <2>3. Reciprocity'
    BY <1>1, <2>1 DEF Admit, Wake, Reciprocity
  <2>4. RunningOnAffinity'
    BY <1>1, <2>1, <2>2, RunStateFacts
       DEF Admit, Wake, SchedTypeOK, RunningOnAffinity, IsRunning
  <2> QED BY <2>2, <2>3, <2>4
<1>2. ASSUME NEW x \in VcpuId, NEW p \in Pcpu, NEW now \in Ticks, Run(x, p, now)
      PROVE  SchedInv'
  <2>1. SchedTypeOK'
    BY <1>2, RunStateFacts DEF Run, SchedTypeOK
  <2>2. Reciprocity'
    <3> SUFFICES ASSUME NEW y \in VcpuId, NEW q \in Pcpu
                 PROVE  runstate'[y] = Running(q) <=> pcpus'[q] = y
      BY DEF Reciprocity
    <3>1. runstate[x] # Running(q)
      BY <1>2, RunStateFacts DEF Run
    <3>2. pcpus[q] # x
      BY <3>1 DEF Reciprocity
    <3>3. pcpus[p] # y
      BY <1>2, IdleIsNoVcpu DEF Run
    <3> QED
      BY <1>2, <3>1, <3>2, <3>3, RunStateFacts DEF Run, SchedTypeOK, Reciprocity
  <2>3. RunningOnAffinity'
    BY <1>2, RunStateFacts DEF Run, SchedTypeOK, RunningOnAffinity, IsRunning
  <2> QED BY <2>1, <2>2, <2>3
<1>3. ASSUME NEW x \in VcpuId, NEW now \in Ticks,
             Preempt(x, now) \/ Block(x, now) \/ TakeOffline(x, now)
      PROVE  SchedInv'
  BY <1>3, LeaveCpuInv DEF Preempt, Block, TakeOffline
<1>4. ASSUME NEW x \in VcpuId, NEW mask \in SUBSET (0..(MaskWidth - 1)), SetAffinity(x, mask)
      PROVE  SchedInv'
  BY <1>4 DEF SetAffinity, SchedTypeOK, Reciprocity, RunningOnAffinity, IsRunning
<1>5. ASSUME NEW d \in Dom, NEW now \in Ticks, OfflineAll(d, now)
      PROVE  SchedInv'
  BY <1>5, OfflineAllInv
<1>6. CASE UNCHANGED schedVars
  BY <1>6 DEF schedVars, SchedTypeOK, Reciprocity, RunningOnAffinity, IsRunning
<1> QED BY <1>1, <1>2, <1>3, <1>4, <1>5, <1>6 DEF SchedNext

(* The inductive invariant holds of every behaviour of the scheduler.        *)
LEMMA SchedInvariant == SchedSpec => []SchedInv
  BY SchedInitInv, SchedStepInv, PTL DEF SchedSpec

(* The scheduler's state keeps its type: a saturating clock and canonical    *)
(* masks, for every width of both.                                           *)
THEOREM SchedTypeCorrect == SchedSpec => []SchedTypeOK
  BY SchedInvariant, PTL DEF SchedInv

(* pCPU exclusivity: a vCPU is Running on a pCPU exactly when the occupancy  *)
(* table names it there, so no pCPU is ever shared and no vCPU runs twice.   *)
THEOREM PcpuExclusive == SchedSpec => []Reciprocity
  BY SchedInvariant, PTL DEF SchedInv

(* No vCPU is ever Running on a pCPU outside its hard affinity, however      *)
(* set_affinity calls interleave with dispatches.                            *)
THEOREM AffinityRespected == SchedSpec => []RunningOnAffinity
  BY SchedInvariant, PTL DEF SchedInv

(* The two together: who runs where is recorded consistently and permitted.  *)
THEOREM SchedulerSound == SchedSpec => []SchedSound
<1>1. SchedInv => SchedSound
  BY DEF SchedInv, SchedSound
<1> QED BY <1>1, SchedInvariant, PTL

(* Which steps can change a runtime, and how: only a vCPU that leaves its    *)
(* CPU, and then it becomes Accounted.                                       *)
LEMMA RuntimeStep ==
    ASSUME SchedInv, SchedNext, NEW x \in VcpuId
    PROVE  \/ runtime'[x] = runtime[x]
           \/ /\ IsRunning(x) /\ ~IsRunning(x)'
              /\ pcpus'[runstate[x].pcpu] = Idle
              /\ \E now \in Ticks : runtime'[x] = Accounted(x, now)
<1> USE DEF SchedInv
<1>1. ASSUME NEW y \in VcpuId, NEW now \in Ticks,
             Preempt(y, now) \/ Block(y, now) \/ TakeOffline(y, now), IsRunning(y), y = x
      PROVE  /\ ~IsRunning(x)' /\ pcpus'[runstate[x].pcpu] = Idle
             /\ runtime'[x] = Accounted(x, now)
  <2>1. PICK p \in Pcpu : runstate[x].pcpu = p
    BY <1>1, RunStateFacts DEF SchedTypeOK, IsRunning
  <2>2. runstate'[x] \in {Offline, Runnable, Blocked}
    BY <1>1 DEF Preempt, Block, TakeOffline, SchedTypeOK
  <2>3. ~IsRunning(x)'
    BY <2>2 DEF IsRunning, Offline, Runnable, Blocked
  <2> QED
    BY <1>1, <2>1, <2>3 DEF Preempt, Block, TakeOffline, LeaveCpu, SchedTypeOK
<1>2. ASSUME NEW y \in VcpuId, NEW now \in Ticks,
             Preempt(y, now) \/ Block(y, now) \/ TakeOffline(y, now),
             ~IsRunning(y) \/ y # x
      PROVE  runtime'[x] = runtime[x]
  BY <1>2 DEF Preempt, Block, TakeOffline, LeaveCpu, SchedTypeOK
<1>3. ASSUME NEW d \in Dom, NEW now \in Ticks, OfflineAll(d, now), runtime'[x] # runtime[x]
      PROVE  /\ IsRunning(x) /\ ~IsRunning(x)' /\ pcpus'[runstate[x].pcpu] = Idle
             /\ runtime'[x] = Accounted(x, now)
  <2>1. /\ IsRunning(x) /\ x[1] = d /\ runstate[x] # Offline
        /\ runtime'[x] = Accounted(x, now)
    BY <1>3 DEF OfflineAll
  <2>2. PICK p \in Pcpu : runstate[x] = Running(p) /\ runstate[x].pcpu = p
    BY <2>1, RunStateFacts DEF SchedTypeOK, IsRunning
  <2>3. runstate'[x] = Offline /\ pcpus'[p] = Idle
    BY <1>3, <2>1, <2>2 DEF OfflineAll
  <2> QED BY <2>1, <2>2, <2>3 DEF IsRunning, Offline
<1> QED
  BY <1>1, <1>2, <1>3 DEF SchedNext, Admit, Wake, Run, SetAffinity

(* Run time is conserved upwards: no transition, backwards clock or counter  *)
(* at its limit ever takes ticks away from a vCPU.                           *)
THEOREM RuntimeNeverDecreases == SchedSpec => RuntimeMonotonic
<1>1. ASSUME SchedInv, [SchedNext]_schedVars
      PROVE  [\A x \in VcpuId : runtime'[x] >= runtime[x]]_runtime
  <2> SUFFICES ASSUME NEW x \in VcpuId PROVE runtime'[x] >= runtime[x]
    OBVIOUS
  <2>1. runtime[x] \in Int
    BY <1>1, SchedAssumption DEF SchedInv, SchedTypeOK, Ticks
  <2>2. CASE UNCHANGED schedVars
    BY <2>1, <2>2 DEF schedVars
  <2>3. CASE SchedNext
    BY <1>1, <2>1, <2>3, RuntimeStep, AccountedFacts DEF SchedInv
  <2> QED BY <1>1, <2>2, <2>3
<1> QED BY <1>1, SchedInvariant, PTL DEF SchedSpec, RuntimeMonotonic

(* Run time accrues only to a vCPU that gives up the CPU it held, in the     *)
(* step that frees that CPU.                                                 *)
THEOREM RuntimeAccruesOnLeaving == SchedSpec => OnlyLeavingAccrues
<1>1. ASSUME SchedInv, [SchedNext]_schedVars
      PROVE  [\A x \in VcpuId : runtime'[x] # runtime[x] =>
                /\ IsRunning(x) /\ ~IsRunning(x)'
                /\ pcpus'[runstate[x].pcpu] = Idle]_schedVars
  BY <1>1, RuntimeStep
<1> QED BY <1>1, SchedInvariant, PTL DEF SchedSpec, OnlyLeavingAccrues

-----------------------------------------------------------------------------
(* The event channels.  Every number of domains, ports, vCPUs and VIRQs.     *)

(* The inductive invariant.  Reciprocity needs the type (a peer index is in  *)
(* range); the signal invariant needs reciprocity (send writes the peer, so  *)
(* the peer must be a bound port).                                           *)
EvtchnInv == EvtchnTypeOK /\ PeerReciprocity /\ VirqUnique /\ SilentUntilBound

(* The variants of PortState are pairwise different and keep their fields.   *)
LEMMA PortStateFacts ==
    /\ Free \in PortState /\ Free.kind = "Free"
    /\ \A r \in Dom : Unbound(r) \in PortState /\ Unbound(r).kind = "Unbound"
    /\ \A c \in PortId : /\ Interdomain(c) \in PortState
                         /\ IsInterdomain(Interdomain(c))
                         /\ PeerOf(Interdomain(c)) = c
                         /\ Interdomain(c).remote = c[1]
    /\ \A v \in Vcpu, q \in Virq : /\ VirqPort(v, q) \in PortState
                                   /\ VirqPort(v, q).kind = "Virq"
    /\ \A v \in Vcpu : IpiPort(v) \in PortState /\ IpiPort(v).kind = "Ipi"
<1>1. Free \in PortState /\ Free.kind = "Free"
  BY DEF Free, PortState
<1>2. \A r \in Dom : Unbound(r) \in PortState /\ Unbound(r).kind = "Unbound"
  <2>1. \A r \in Dom : Unbound(r) \in PortState
    BY DEF PortState
  <2>2. \A r \in Dom : Unbound(r).kind = "Unbound"
    BY DEF Unbound, Free
  <2> QED BY <2>1, <2>2
<1>3. \A c \in PortId : /\ Interdomain(c) \in PortState
                        /\ IsInterdomain(Interdomain(c))
                        /\ PeerOf(Interdomain(c)) = c
                        /\ Interdomain(c).remote = c[1]
  <2>1. \A c \in PortId : Interdomain(c) \in PortState
    BY DEF PortState
  <2>2. \A c \in PortId : IsInterdomain(Interdomain(c))
    BY DEF Interdomain, Free, IsInterdomain
  <2>3. \A c \in PortId : Interdomain(c).remote = c[1] /\ Interdomain(c).port = c[2]
    BY DEF Interdomain, Free
  <2>4. \A c \in PortId : PeerOf(Interdomain(c)) = c
    BY <2>3 DEF PeerOf, PortId
  <2> QED BY <2>1, <2>2, <2>3, <2>4
<1>4. \A v \in Vcpu, q \in Virq : VirqPort(v, q) \in PortState /\ VirqPort(v, q).kind = "Virq"
  <2>1. \A v \in Vcpu, q \in Virq : VirqPort(v, q) \in PortState
    BY DEF PortState
  <2>2. \A v \in Vcpu, q \in Virq : VirqPort(v, q).kind = "Virq"
    BY DEF VirqPort, Free
  <2> QED BY <2>1, <2>2
<1>5. \A v \in Vcpu : IpiPort(v) \in PortState /\ IpiPort(v).kind = "Ipi"
  <2>1. \A v \in Vcpu : IpiPort(v) \in PortState
    BY DEF PortState
  <2>2. \A v \in Vcpu : IpiPort(v).kind = "Ipi"
    BY DEF IpiPort, Free
  <2> QED BY <2>1, <2>2
<1> QED BY <1>1, <1>2, <1>3, <1>4, <1>5

(* An interdomain state of the declared type is Interdomain of its peer.     *)
LEMMA InterdomainPeer ==
    ASSUME NEW s \in PortState, IsInterdomain(s)
    PROVE  PeerOf(s) \in PortId /\ s = Interdomain(PeerOf(s))
<1>1. s.kind = "Interdomain"
  BY DEF IsInterdomain
<1>2. PICK c \in PortId : s = Interdomain(c)
  BY <1>1, PortStateFacts DEF PortState
<1> QED BY <1>2, PortStateFacts

(* A channel with clear bits has the type of a channel.                      *)
LEMMA QuietFacts ==
    ASSUME NEW s \in PortState
    PROVE  /\ Quiet(s) \in EventChannel /\ Quiet(s).state = s
           /\ ~Quiet(s).pending /\ ~Quiet(s).masked
  BY DEF Quiet, EventChannel

(* new(): every port starts Free and silent.                                 *)
LEMMA EvtchnInitInv == EvtchnInit => EvtchnInv
  BY PortStateFacts, QuietFacts
     DEF EvtchnInit, EvtchnInv, EvtchnTypeOK, PeerReciprocity, VirqUnique,
         SilentUntilBound, IsInterdomain

(* alloc_unbound, bind_virq and bind_ipi: a free port takes a state that has *)
(* no peer, and is silent because a Free port was.                           *)
LEMMA FreshPortInv ==
    ASSUME EvtchnInv, NEW c \in PortId, ports[c].state = Free,
           NEW s \in PortState, s.kind \in {"Unbound", "Virq", "Ipi"},
           s.kind = "Virq" => \A p \in Port : ports[<<c[1], p>>].state # s,
           ports' = [ports EXCEPT ![c].state = s]
    PROVE  EvtchnInv'
<1>1. /\ ports'[c] = [ports[c] EXCEPT !.state = s]
      /\ \A e \in PortId \ {c} : ports'[e] = ports[e]
  BY DEF EvtchnInv, EvtchnTypeOK
<1>2. /\ ports'[c].state = s
      /\ ports'[c].pending = FALSE /\ ports'[c].masked = FALSE
  BY <1>1, PortStateFacts, QuietFacts
     DEF EvtchnInv, EvtchnTypeOK, EventChannel, SilentUntilBound, Quiet
<1>3. EvtchnTypeOK'
  BY <1>1 DEF EvtchnInv, EvtchnTypeOK, EventChannel
<1>4. PeerReciprocity'
  BY <1>1, <1>2, PortStateFacts DEF EvtchnInv, PeerReciprocity, IsInterdomain
<1>5. \A e \in PortId : (e[1] = c[1] /\ s.kind = "Virq") => ports[e].state # s
  BY DEF PortId
<1>6. VirqUnique'
  BY <1>1, <1>2, <1>5 DEF EvtchnInv, VirqUnique
<1>7. SilentUntilBound'
  BY <1>1, <1>2, PortStateFacts DEF EvtchnInv, SilentUntilBound
<1> QED BY <1>3, <1>4, <1>6, <1>7 DEF EvtchnInv

(* send, raise_virq, mask, unmask and consume move signal bits of bound      *)
(* ports and leave every state alone.                                        *)
LEMMA SignalInv ==
    ASSUME EvtchnInv, NEW c \in PortId, ports[c].state # Free,
           NEW b \in BOOLEAN, NEW m \in BOOLEAN,
           b => ports[c].pending \/ ports[c].state.kind \in {"Interdomain", "Virq", "Ipi"},
           ports' = [ports EXCEPT ![c] = [@ EXCEPT !.pending = b, !.masked = m]]
    PROVE  EvtchnInv'
<1>1. /\ ports'[c].state = ports[c].state /\ ports'[c].pending = b
      /\ \A e \in PortId \ {c} : ports'[e] = ports[e]
  BY DEF EvtchnInv, EvtchnTypeOK, EventChannel
<1>2. EvtchnTypeOK'
  BY DEF EvtchnInv, EvtchnTypeOK, EventChannel
<1>3. \A e \in PortId : ports'[e].state = ports[e].state
  BY <1>1
<1>4. PeerReciprocity'
  BY <1>3 DEF EvtchnInv, PeerReciprocity
<1>5. VirqUnique'
  BY <1>3 DEF EvtchnInv, VirqUnique
<1>6. SilentUntilBound'
  BY <1>1 DEF EvtchnInv, SilentUntilBound
<1> QED BY <1>2, <1>4, <1>5, <1>6 DEF EvtchnInv

(* close, close_all and clear_unbound_into: the channels in gone are freed   *)
(* or made half-open, and no channel outside gone has its peer inside, which *)
(* is what reciprocity gives each of the three.                              *)
LEMMA DisconnectInv ==
    ASSUME EvtchnInv, NEW gone \in SUBSET PortId,
           ports' \in [PortId -> EventChannel],
           \A c \in PortId \ gone : ports'[c] = ports[c],
           \A c \in gone : \/ ports'[c] = Quiet(Free)
                           \/ \E r \in Dom : ports'[c] = Quiet(Unbound(r)),
           \A c \in PortId \ gone :
               IsInterdomain(ports[c].state) => PeerOf(ports[c].state) \notin gone
    PROVE  EvtchnInv'
<1>1. \A c \in gone : /\ ports'[c].state.kind \in {"Free", "Unbound"}
                      /\ ~ports'[c].pending
                      /\ ports'[c].state = Free => ports'[c] = Quiet(Free)
  BY PortStateFacts, QuietFacts
<1>2. EvtchnTypeOK'
  BY DEF EvtchnTypeOK
<1>3. PeerReciprocity'
  BY <1>1 DEF EvtchnInv, PeerReciprocity, IsInterdomain
<1>4. VirqUnique'
  BY <1>1 DEF EvtchnInv, VirqUnique
<1>5. SilentUntilBound'
  BY <1>1 DEF EvtchnInv, SilentUntilBound
<1> QED BY <1>2, <1>3, <1>4, <1>5 DEF EvtchnInv

(* bind_interdomain: both ends are written, each naming the other; no third  *)
(* port pointed at either, because neither was interdomain before.           *)
LEMMA BindInterdomainInv ==
    ASSUME EvtchnInv, NEW c \in PortId, NEW peer \in PortId, BindInterdomain(c, peer)
    PROVE  EvtchnInv'
<1>1. c[1] \in Dom
  BY DEF PortId
<1>2. /\ ports[peer].state = Unbound(c[1]) /\ ports[c].state = Free /\ c # peer
      /\ ports[peer].state.kind = "Unbound"
  BY <1>1, PortStateFacts DEF BindInterdomain, IsFirstFree
<1>3. /\ ports'[c] = Quiet(Interdomain(peer))
      /\ ports'[peer] = Quiet(Interdomain(c))
      /\ \A e \in PortId \ {c, peer} : ports'[e] = ports[e]
  BY <1>2 DEF BindInterdomain, EvtchnInv, EvtchnTypeOK
<1>4. /\ ports'[c].state = Interdomain(peer) /\ ports'[peer].state = Interdomain(c)
      /\ ~ports'[c].pending /\ ~ports'[peer].pending
  BY <1>3, PortStateFacts, QuietFacts
<1>5. EvtchnTypeOK'
  BY PortStateFacts, QuietFacts DEF BindInterdomain, EvtchnInv, EvtchnTypeOK
<1>6. \A e \in PortId : IsInterdomain(ports[e].state)
                            => PeerOf(ports[e].state) # c /\ PeerOf(ports[e].state) # peer
  BY <1>2, PortStateFacts DEF EvtchnInv, PeerReciprocity, IsInterdomain
<1>7. PeerReciprocity'
  BY <1>2, <1>3, <1>4, <1>6, PortStateFacts DEF EvtchnInv, PeerReciprocity
<1>8. VirqUnique'
  BY <1>3, <1>4, PortStateFacts DEF EvtchnInv, VirqUnique, IsInterdomain
<1>9. SilentUntilBound'
  BY <1>3, <1>4, PortStateFacts DEF EvtchnInv, SilentUntilBound, IsInterdomain
<1> QED BY <1>5, <1>7, <1>8, <1>9 DEF EvtchnInv

(* close: the port and, for a channel, its peer.                             *)
LEMMA CloseInv ==
    ASSUME EvtchnInv, NEW c \in PortId, Close(c)
    PROVE  EvtchnInv'
<1> DEFINE s == ports[c].state
           gone == {c} \cup (IF IsInterdomain(s) THEN {PeerOf(s)} ELSE {})
<1>1. c[1] \in Dom
  BY DEF PortId
<1>2. gone \in SUBSET PortId
  BY DEF EvtchnInv, PeerReciprocity
<1>3. ports' \in [PortId -> EventChannel]
  BY <1>1, PortStateFacts, QuietFacts DEF Close, EvtchnInv, EvtchnTypeOK
<1>4. \A e \in PortId \ gone : ports'[e] = ports[e]
  BY DEF Close
<1>5. \A e \in gone : \/ ports'[e] = Quiet(Free)
                      \/ \E r \in Dom : ports'[e] = Quiet(Unbound(r))
  BY <1>1, <1>2 DEF Close
<1>6. ASSUME NEW e \in PortId \ gone, IsInterdomain(ports[e].state)
      PROVE  PeerOf(ports[e].state) \notin gone
  <2>1. ports[PeerOf(ports[e].state)].state = Interdomain(e)
    BY <1>6 DEF EvtchnInv, PeerReciprocity
  <2>2. PeerOf(Interdomain(e)) = e /\ IsInterdomain(Interdomain(e))
    BY PortStateFacts
  <2>3. IsInterdomain(s) => ports[PeerOf(s)].state = Interdomain(c) /\ PeerOf(Interdomain(c)) = c
    BY PortStateFacts DEF EvtchnInv, PeerReciprocity
  <2> QED BY <2>1, <2>2, <2>3
<1> HIDE DEF gone
<1> QED BY <1>2, <1>3, <1>4, <1>5, <1>6, DisconnectInv

(* close_all reaches d's ports and every peer of one of them.               *)
Linked(d, c) == \E p \in Port : /\ IsInterdomain(ports[<<d, p>>].state)
                                /\ PeerOf(ports[<<d, p>>].state) = c
Reached(d) == {c \in PortId : c[1] = d \/ Linked(d, c)}

(* Reciprocity makes that set closed: no channel leads into it from outside. *)
LEMMA ReachedClosed ==
    ASSUME EvtchnInv, NEW d \in Dom,
           NEW e \in PortId \ Reached(d), IsInterdomain(ports[e].state)
    PROVE  PeerOf(ports[e].state) \notin Reached(d)
<1> DEFINE f == PeerOf(ports[e].state)
<1>1. \A p \in Port : <<d, p>> \in PortId
  BY DEF PortId
<1>2. f \in PortId /\ ports[f].state = Interdomain(e)
  BY DEF EvtchnInv, PeerReciprocity
<1>3. IsInterdomain(ports[f].state) /\ PeerOf(ports[f].state) = e
  BY <1>2, PortStateFacts
<1>4. f[1] # d
  <2>1. SUFFICES ASSUME f[1] = d PROVE FALSE
    OBVIOUS
  <2>2. PICK p \in Port : f = <<d, p>>
    BY <1>2, <2>1 DEF PortId
  <2> QED BY <1>3, <2>2 DEF Reached, Linked
<1>5. ~Linked(d, f)
  <2>1. SUFFICES ASSUME NEW p \in Port, IsInterdomain(ports[<<d, p>>].state),
                        PeerOf(ports[<<d, p>>].state) = f
                 PROVE  FALSE
    BY DEF Linked
  <2>2. ports[f].state = Interdomain(<<d, p>>)
    BY <1>1, <2>1 DEF EvtchnInv, PeerReciprocity
  <2>3. e = <<d, p>>
    BY <1>1, <1>2, <2>2, PortStateFacts
  <2> QED BY <2>3 DEF Reached
<1> QED BY <1>4, <1>5 DEF Reached

(* close_all preserves the invariant.                                        *)
LEMMA CloseAllInv ==
    ASSUME EvtchnInv, NEW d \in Dom, CloseAll(d)
    PROVE  EvtchnInv'
<1>1. \A c \in PortId : ports'[c] = IF c[1] = d THEN Quiet(Free)
                                    ELSE IF Linked(d, c) THEN Quiet(Unbound(d)) ELSE ports[c]
  BY DEF CloseAll, AfterCloseAll, Linked
<1>2. ports' \in [PortId -> EventChannel]
  BY PortStateFacts, QuietFacts DEF CloseAll, AfterCloseAll, EvtchnInv, EvtchnTypeOK
<1>3. /\ Reached(d) \in SUBSET PortId
      /\ \A c \in PortId \ Reached(d) : ports'[c] = ports[c]
      /\ \A c \in Reached(d) : \/ ports'[c] = Quiet(Free)
                               \/ \E r \in Dom : ports'[c] = Quiet(Unbound(r))
  BY <1>1 DEF Reached
<1>4. \A c \in PortId \ Reached(d) :
          IsInterdomain(ports[c].state) => PeerOf(ports[c].state) \notin Reached(d)
  BY ReachedClosed
<1> QED BY <1>2, <1>3, <1>4, DisconnectInv

(* clear_unbound_into: half-open ports have no peer to disturb.              *)
LEMMA ClearUnboundIntoInv ==
    ASSUME EvtchnInv, NEW d \in Dom, ClearUnboundInto(d)
    PROVE  EvtchnInv'
<1> DEFINE gone == {c \in PortId : ports[c].state = Unbound(d)}
<1>1. ports' \in [PortId -> EventChannel]
  BY PortStateFacts, QuietFacts
     DEF ClearUnboundInto, AfterClearUnboundInto, EvtchnInv, EvtchnTypeOK
<1>2. /\ gone \in SUBSET PortId
      /\ \A c \in PortId \ gone : ports'[c] = ports[c]
      /\ \A c \in gone : ports'[c] = Quiet(Free)
  BY DEF ClearUnboundInto, AfterClearUnboundInto
<1>3. \A c \in PortId \ gone :
          IsInterdomain(ports[c].state) => PeerOf(ports[c].state) \notin gone
  BY PortStateFacts DEF EvtchnInv, PeerReciprocity, IsInterdomain
<1> HIDE DEF gone
<1> QED BY <1>1, <1>2, <1>3, DisconnectInv

(* Every transition of evtchn.rs preserves the invariant.                    *)
LEMMA EvtchnStepInv ==
    ASSUME EvtchnInv, [EvtchnNext]_ports
    PROVE  EvtchnInv'
<1>1. ASSUME NEW c \in PortId, NEW remote \in Dom, AllocUnbound(c, remote)
      PROVE  EvtchnInv'
  BY <1>1, FreshPortInv, PortStateFacts DEF AllocUnbound, IsFirstFree
<1>2. ASSUME NEW c \in PortId, NEW vcpu \in Vcpu, NEW virq \in Virq, BindVirq(c, vcpu, virq)
      PROVE  EvtchnInv'
  BY <1>2, FreshPortInv, PortStateFacts DEF BindVirq, IsFirstFree
<1>3. ASSUME NEW c \in PortId, NEW vcpu \in Vcpu, BindIpi(c, vcpu)
      PROVE  EvtchnInv'
  BY <1>3, FreshPortInv, PortStateFacts DEF BindIpi, IsFirstFree
<1>4. ASSUME NEW c \in PortId, NEW vcpu \in Vcpu, NEW virq \in Virq, RaiseVirq(c, vcpu, virq)
      PROVE  EvtchnInv'
  <2>1. ports[c].state # Free /\ ports[c].state.kind = "Virq"
    BY <1>4, PortStateFacts DEF RaiseVirq
  <2>2. /\ ports[c].masked \in BOOLEAN
        /\ ports' = [ports EXCEPT ![c] = [@ EXCEPT !.pending = TRUE, !.masked = ports[c].masked]]
    BY <1>4 DEF RaiseVirq, EvtchnInv, EvtchnTypeOK, EventChannel
  <2> QED BY <2>1, <2>2, SignalInv
<1>5. ASSUME NEW c \in PortId, Send(c)
      PROVE  EvtchnInv'
  <2> DEFINE t == SendTarget(c)
  <2>1. t \in PortId /\ ports[t].state.kind \in {"Interdomain", "Ipi"} /\ ports[t].state # Free
    BY <1>5, PortStateFacts
       DEF Send, CanSend, SendTarget, EvtchnInv, PeerReciprocity, IsInterdomain
  <2>2. /\ ports[t].masked \in BOOLEAN
        /\ ports' = [ports EXCEPT ![t] = [@ EXCEPT !.pending = TRUE, !.masked = ports[t].masked]]
    BY <1>5, <2>1 DEF Send, EvtchnInv, EvtchnTypeOK, EventChannel
  <2> HIDE DEF t
  <2> QED BY <2>1, <2>2, SignalInv
<1>6. ASSUME NEW c \in PortId, Consume(c)
      PROVE  EvtchnInv'
  <2>1. /\ ports[c].masked \in BOOLEAN
        /\ ports' = [ports EXCEPT ![c] = [@ EXCEPT !.pending = FALSE, !.masked = ports[c].masked]]
    BY <1>6 DEF Consume, EvtchnInv, EvtchnTypeOK, EventChannel
  <2> QED BY <1>6, <2>1, SignalInv DEF Consume
<1>7. ASSUME NEW c \in PortId, NEW value \in BOOLEAN, SetMasked(c, value)
      PROVE  EvtchnInv'
  <2>1. /\ ports[c].pending \in BOOLEAN
        /\ ports' = [ports EXCEPT ![c] = [@ EXCEPT !.pending = ports[c].pending, !.masked = value]]
    BY <1>7 DEF SetMasked, EvtchnInv, EvtchnTypeOK, EventChannel
  <2> QED BY <1>7, <2>1, SignalInv DEF SetMasked
<1>8. CASE UNCHANGED ports
  BY <1>8 DEF EvtchnInv, EvtchnTypeOK, PeerReciprocity, VirqUnique, SilentUntilBound
<1> QED
  BY <1>1, <1>2, <1>3, <1>4, <1>5, <1>6, <1>7, <1>8, BindInterdomainInv, CloseInv,
     CloseAllInv, ClearUnboundIntoInv DEF EvtchnNext

(* The inductive invariant holds of every behaviour.                         *)
LEMMA EvtchnInvariant == EvtchnSpec => []EvtchnInv
  BY EvtchnInitInv, EvtchnStepInv, PTL DEF EvtchnSpec

(* Event channels are always reciprocal: whatever is bound, closed or torn   *)
(* down, an interdomain port and its peer name each other.                   *)
THEOREM ChannelsReciprocal == EvtchnSpec => []PeerReciprocity
  BY EvtchnInvariant, PTL DEF EvtchnInv

(* A (vcpu, virq) of a domain is bound to at most one port at any time.      *)
THEOREM VirqsUnique == EvtchnSpec => []VirqUnique
  BY EvtchnInvariant, PTL DEF EvtchnInv

(* No stale signal survives a close or a reuse of a port.                    *)
THEOREM NoStaleSignal == EvtchnSpec => []SilentUntilBound
  BY EvtchnInvariant, PTL DEF EvtchnInv

(* Channels are reciprocal and carry no signal of a past life.               *)
THEOREM ChannelsAlwaysSound == EvtchnSpec => []ChannelsSound
<1>1. EvtchnInv => ChannelsSound
  BY DEF EvtchnInv, ChannelsSound
<1> QED BY <1>1, EvtchnInvariant, PTL

-----------------------------------------------------------------------------
(* What a step may never do.  A step that disconnects ports, and leaves the  *)
(* others alone, connects nothing and takes no event from a port that keeps  *)
(* its state.                                                                *)
LEMMA DisconnectKeeps ==
    ASSUME EvtchnInv,
           \A c \in PortId : \/ ports'[c] = ports[c]
                             \/ ports'[c] = Quiet(Free)
                             \/ \E r \in Dom : ports'[c] = Quiet(Unbound(r))
    PROVE  ConnectedCleanly /\ AcknowledgedAlone
<1>1. /\ Quiet(Free).state = Free /\ ~IsInterdomain(Free)
      /\ \A r \in Dom : /\ Quiet(Unbound(r)).state = Unbound(r)
                        /\ Unbound(r).kind = "Unbound" /\ ~IsInterdomain(Unbound(r))
  BY PortStateFacts, QuietFacts DEF IsInterdomain
<1>2. ConnectedCleanly
  BY <1>1 DEF ConnectedCleanly
<1>3. ASSUME NEW c \in PortId, ports[c].pending, ~ports'[c].pending,
             ports'[c].state = ports[c].state
      PROVE  FALSE
  <2>1. ports[c].state.kind \in {"Interdomain", "Virq", "Ipi"}
    BY <1>3 DEF EvtchnInv, SilentUntilBound
  <2>2. ports'[c].state = Free \/ \E r \in Dom : ports'[c].state = Unbound(r)
    BY <1>1, <1>3
  <2> QED BY <1>1, <1>3, <2>1, <2>2, PortStateFacts
<1> QED BY <1>2, <1>3 DEF AcknowledgedAlone

(* Every transition of evtchn.rs connects by consent and loses no event.     *)
LEMMA EvtchnStepKeeps ==
    ASSUME EvtchnInv, [EvtchnNext]_ports
    PROVE  ConnectedCleanly /\ AcknowledgedAlone
<1>1. ASSUME NEW c \in PortId, NEW s \in PortState, ~IsInterdomain(s),
             ports' = [ports EXCEPT ![c].state = s]
      PROVE  ConnectedCleanly /\ AcknowledgedAlone
  <2>1. /\ ports'[c].state = s /\ ports'[c].pending = ports[c].pending
        /\ \A e \in PortId \ {c} : ports'[e] = ports[e]
    BY <1>1 DEF EvtchnInv, EvtchnTypeOK, EventChannel
  <2> QED BY <1>1, <2>1 DEF ConnectedCleanly, AcknowledgedAlone
<1>2. ASSUME NEW c \in PortId, NEW remote \in Dom, AllocUnbound(c, remote)
      PROVE  ConnectedCleanly /\ AcknowledgedAlone
  BY <1>1, <1>2, PortStateFacts DEF AllocUnbound, IsInterdomain
<1>3. ASSUME NEW c \in PortId, NEW vcpu \in Vcpu,
             BindIpi(c, vcpu) \/ \E virq \in Virq : BindVirq(c, vcpu, virq)
      PROVE  ConnectedCleanly /\ AcknowledgedAlone
  BY <1>1, <1>3, PortStateFacts DEF BindIpi, BindVirq, IsInterdomain
<1>4. ASSUME NEW c \in PortId, NEW peer \in PortId, BindInterdomain(c, peer)
      PROVE  ConnectedCleanly /\ AcknowledgedAlone
  <2>1. /\ ports[c].state = Free /\ ports[peer].state = Unbound(c[1]) /\ c[1] \in Dom
        /\ ports[c].state # ports[peer].state
    BY <1>4, PortStateFacts DEF BindInterdomain, IsFirstFree, PortId
  <2>2. /\ ports'[c] = Quiet(Interdomain(peer)) /\ ports'[peer] = Quiet(Interdomain(c))
        /\ \A e \in PortId \ {c, peer} : ports'[e] = ports[e]
    BY <1>4, <2>1 DEF BindInterdomain, EvtchnInv, EvtchnTypeOK
  <2>3. /\ Quiet(Interdomain(peer)).state = Interdomain(peer)
        /\ Quiet(Interdomain(c)).state = Interdomain(c) /\ Interdomain(c).remote = c[1]
    BY PortStateFacts, QuietFacts
  <2>4. ConnectedCleanly
    BY <2>1, <2>2, <2>3 DEF ConnectedCleanly
  <2>5. ~ports[c].pending /\ ~ports[peer].pending
    BY <2>1, PortStateFacts DEF EvtchnInv, SilentUntilBound
  <2> QED BY <2>2, <2>4, <2>5 DEF AcknowledgedAlone
<1>5. ASSUME NEW c \in PortId, Close(c)
      PROVE  ConnectedCleanly /\ AcknowledgedAlone
  <2>1. c[1] \in Dom
    BY DEF PortId
  <2> QED BY <1>5, <2>1, DisconnectKeeps DEF Close
<1>6. ASSUME NEW c \in PortId, NEW pending \in BOOLEAN, NEW masked \in BOOLEAN,
             ports' = [ports EXCEPT ![c] = [@ EXCEPT !.pending = pending, !.masked = masked]]
      PROVE  ConnectedCleanly /\ AcknowledgedAlone
  <2>1. /\ ports'[c].state = ports[c].state
        /\ \A e \in PortId \ {c} : ports'[e] = ports[e]
    BY <1>6 DEF EvtchnInv, EvtchnTypeOK, EventChannel
  <2> QED BY <2>1 DEF ConnectedCleanly, AcknowledgedAlone
<1>7. \A c \in PortId : ports[c].pending \in BOOLEAN /\ ports[c].masked \in BOOLEAN
  BY DEF EvtchnInv, EvtchnTypeOK, EventChannel
<1>8. ASSUME NEW c \in PortId, NEW vcpu \in Vcpu, NEW virq \in Virq, RaiseVirq(c, vcpu, virq)
      PROVE  ConnectedCleanly /\ AcknowledgedAlone
  <2>1. ports' = [ports EXCEPT ![c] = [@ EXCEPT !.pending = TRUE, !.masked = ports[c].masked]]
    BY <1>8 DEF RaiseVirq, EvtchnInv, EvtchnTypeOK, EventChannel
  <2> QED BY <1>6, <1>7, <2>1
<1>9. ASSUME NEW c \in PortId, Send(c)
      PROVE  ConnectedCleanly /\ AcknowledgedAlone
  <2> DEFINE t == SendTarget(c)
  <2>1. t \in PortId
    BY <1>9 DEF SendTarget, EvtchnInv, PeerReciprocity
  <2>2. ports' = [ports EXCEPT ![t] = [@ EXCEPT !.pending = TRUE, !.masked = ports[t].masked]]
    BY <1>9, <2>1 DEF Send, EvtchnInv, EvtchnTypeOK, EventChannel
  <2> HIDE DEF t
  <2> QED BY <1>6, <1>7, <2>1, <2>2
<1>10. ASSUME NEW c \in PortId, Consume(c)
       PROVE  ConnectedCleanly /\ AcknowledgedAlone
  <2>1. ports' = [ports EXCEPT ![c] = [@ EXCEPT !.pending = FALSE, !.masked = ports[c].masked]]
    BY <1>10 DEF Consume, EvtchnInv, EvtchnTypeOK, EventChannel
  <2> QED BY <1>6, <1>7, <2>1
<1>11. ASSUME NEW c \in PortId, NEW value \in BOOLEAN, SetMasked(c, value)
       PROVE  ConnectedCleanly /\ AcknowledgedAlone
  <2>1. ports' = [ports EXCEPT ![c] = [@ EXCEPT !.pending = ports[c].pending, !.masked = value]]
    BY <1>11 DEF SetMasked, EvtchnInv, EvtchnTypeOK, EventChannel
  <2> QED BY <1>6, <1>7, <2>1
<1>12. ASSUME NEW d \in Dom, CloseAll(d) \/ ClearUnboundInto(d)
       PROVE  ConnectedCleanly /\ AcknowledgedAlone
  BY <1>12, DisconnectKeeps DEF CloseAll, AfterCloseAll, ClearUnboundInto, AfterClearUnboundInto
<1>13. CASE UNCHANGED ports
  BY <1>13, DisconnectKeeps
<1> QED BY <1>2, <1>3, <1>4, <1>5, <1>8, <1>9, <1>10, <1>11, <1>12, <1>13 DEF EvtchnNext

-----------------------------------------------------------------------------
(* The grant tables.  Every number of domains and entries and every width of *)
(* the counters: the counts are exact, no mapping dangles, and a handle      *)
(* names one mapping.                                                        *)

\* Exactness is inductive only for finitely many mappings of the right type,
\* and the type (counts within 0..MaxCount) only with exactness: a release
\* never takes a count below zero because there was a mapping to release.
GrantInv == GrantTypeOK /\ GrantSound /\ IsFiniteSet(maps)

-----------------------------------------------------------------------------
(* The fields of a live entry make an entry.                                 *)
LEMMA LiveEntry ==
    ASSUME NEW gd \in Dom, NEW f \in Frame, NEW ro \in BOOLEAN,
           NEW n \in 0..MaxCount, NEW w \in 0..MaxCount
    PROVE  [live |-> TRUE, grantee |-> gd, frame |-> f, readonly |-> ro,
            maps |-> n, writable_maps |-> w] \in GrantEntry
BY DEF GrantEntry

(* An entry that is not Free is live and made of its fields.                 *)
LEMMA LiveFields ==
    ASSUME NEW e \in GrantEntry, e # FreeGrant
    PROVE  /\ e.grantee \in Dom /\ e.frame \in Frame /\ e.readonly \in BOOLEAN
           /\ e.maps \in 0..MaxCount /\ e.writable_maps \in 0..MaxCount
           /\ e = [live |-> TRUE, grantee |-> e.grantee, frame |-> e.frame,
                   readonly |-> e.readonly, maps |-> e.maps, writable_maps |-> e.writable_maps]
BY DEF GrantEntry

(* Setting both counts of an entry leaves its permit as it was.              *)
LEMMA CountsReplaced ==
    ASSUME NEW e \in GrantEntry, NEW n, NEW w
    PROVE  [e EXCEPT !.maps = n, !.writable_maps = w]
               = [live |-> e.live, grantee |-> e.grantee, frame |-> e.frame,
                  readonly |-> e.readonly, maps |-> n, writable_maps |-> w]
<1>1. [e EXCEPT !.maps = n]
          = [live |-> e.live, grantee |-> e.grantee, frame |-> e.frame,
             readonly |-> e.readonly, maps |-> n, writable_maps |-> e.writable_maps]
  <2>1. e = [live |-> e.live, grantee |-> e.grantee, frame |-> e.frame,
             readonly |-> e.readonly, maps |-> e.maps, writable_maps |-> e.writable_maps]
    <3>1. CASE e = FreeGrant
      BY <3>1 DEF FreeGrant
    <3>2. CASE e # FreeGrant
      BY <3>2 DEF GrantEntry
    <3> QED BY <3>1, <3>2
  <2> DEFINE l == e.live  gd == e.grantee  f == e.frame  ro == e.readonly
             n0 == e.maps  w0 == e.writable_maps
  <2>2. e = [live |-> l, grantee |-> gd, frame |-> f, readonly |-> ro,
             maps |-> n0, writable_maps |-> w0]
    BY <2>1
  <2> HIDE DEF l, gd, f, ro, n0, w0
  <2>3. [e EXCEPT !.maps = n] = [live |-> l, grantee |-> gd, frame |-> f, readonly |-> ro,
                                 maps |-> n, writable_maps |-> w0]
    BY <2>2
  <2> QED BY <2>3 DEF l, gd, f, ro, n0, w0
<1>2. ASSUME NEW r, r = [live |-> e.live, grantee |-> e.grantee, frame |-> e.frame,
                         readonly |-> e.readonly, maps |-> n, writable_maps |-> e.writable_maps]
      PROVE  [r EXCEPT !.writable_maps = w]
                 = [live |-> e.live, grantee |-> e.grantee, frame |-> e.frame,
                    readonly |-> e.readonly, maps |-> n, writable_maps |-> w]
  BY <1>2
<1> QED BY ONLY <1>1, <1>2, Zenon

(* The mappings over one entry are finitely many, the writable ones no more. *)
LEMMA CountsOfFinite ==
    ASSUME NEW S, IsFiniteSet(S), NEW g
    PROVE  /\ IsFiniteSet(MapsOver(S, g)) /\ IsFiniteSet(WritableMapsOver(S, g))
           /\ Cardinality(MapsOver(S, g)) \in Nat
           /\ Cardinality(WritableMapsOver(S, g)) \in Nat
           /\ Cardinality(WritableMapsOver(S, g)) <= Cardinality(MapsOver(S, g))
<1>1. MapsOver(S, g) \in SUBSET S
  BY DEF MapsOver
<1>2. WritableMapsOver(S, g) \in SUBSET MapsOver(S, g)
  BY DEF MapsOver, WritableMapsOver
<1>3. IsFiniteSet(MapsOver(S, g))
  BY <1>1, FS_Subset
<1>4. /\ IsFiniteSet(WritableMapsOver(S, g))
      /\ Cardinality(WritableMapsOver(S, g)) <= Cardinality(MapsOver(S, g))
  BY <1>2, <1>3, FS_Subset
<1> QED BY <1>3, <1>4, FS_CardinalityType

(* Removing mappings takes exactly their number off every entry's counts.    *)
LEMMA CountsAfterRemoval ==
    ASSUME NEW S, IsFiniteSet(S), NEW T \in SUBSET S, NEW g
    PROVE  /\ Cardinality(MapsOver(S \ T, g))
                  = Cardinality(MapsOver(S, g)) - Cardinality(MapsOver(T, g))
           /\ Cardinality(WritableMapsOver(S \ T, g))
                  = Cardinality(WritableMapsOver(S, g)) - Cardinality(WritableMapsOver(T, g))
<1>1. /\ MapsOver(S \ T, g) = MapsOver(S, g) \ MapsOver(T, g)
      /\ MapsOver(S, g) \cap MapsOver(T, g) = MapsOver(T, g)
  BY DEF MapsOver
<1>2. /\ WritableMapsOver(S \ T, g) = WritableMapsOver(S, g) \ WritableMapsOver(T, g)
      /\ WritableMapsOver(S, g) \cap WritableMapsOver(T, g) = WritableMapsOver(T, g)
  BY DEF WritableMapsOver
<1>3. IsFiniteSet(MapsOver(S, g)) /\ IsFiniteSet(WritableMapsOver(S, g))
  BY CountsOfFinite
<1>4. Cardinality(MapsOver(S, g) \ MapsOver(T, g))
          = Cardinality(MapsOver(S, g)) - Cardinality(MapsOver(S, g) \cap MapsOver(T, g))
  BY <1>3, FS_Difference
<1>5. Cardinality(WritableMapsOver(S, g) \ WritableMapsOver(T, g))
          = Cardinality(WritableMapsOver(S, g))
                - Cardinality(WritableMapsOver(S, g) \cap WritableMapsOver(T, g))
  BY <1>3, FS_Difference
<1> QED BY <1>1, <1>2, <1>4, <1>5

(* A new mapping adds one to the count of its own entry, and one to the      *)
(* writable count if it is writable.                                         *)
LEMMA CountsAfterAdding ==
    ASSUME NEW S, IsFiniteSet(S), NEW m, m \notin S, m.writable \in BOOLEAN, NEW g
    PROVE  /\ Cardinality(MapsOver(S \cup {m}, g))
                  = Cardinality(MapsOver(S, g)) + One(m.grant = g)
           /\ Cardinality(WritableMapsOver(S \cup {m}, g))
                  = Cardinality(WritableMapsOver(S, g)) + One(m.grant = g /\ m.writable)
<1>1. /\ IsFiniteSet(MapsOver(S, g)) /\ IsFiniteSet(WritableMapsOver(S, g))
      /\ Cardinality(MapsOver(S, g)) \in Nat /\ Cardinality(WritableMapsOver(S, g)) \in Nat
  BY CountsOfFinite
<1>2. MapsOver(S \cup {m}, g) = IF m.grant = g THEN MapsOver(S, g) \cup {m} ELSE MapsOver(S, g)
  BY DEF MapsOver
<1>3. WritableMapsOver(S \cup {m}, g)
          = IF m.grant = g /\ m.writable THEN WritableMapsOver(S, g) \cup {m}
                                         ELSE WritableMapsOver(S, g)
  BY DEF WritableMapsOver
<1>4. m \notin MapsOver(S, g) /\ m \notin WritableMapsOver(S, g)
  BY DEF MapsOver, WritableMapsOver
<1>5. Cardinality(MapsOver(S, g) \cup {m}) = Cardinality(MapsOver(S, g)) + 1
  BY <1>1, <1>4, FS_AddElement
<1>6. Cardinality(WritableMapsOver(S, g) \cup {m}) = Cardinality(WritableMapsOver(S, g)) + 1
  BY <1>1, <1>4, FS_AddElement
<1>7. Cardinality(MapsOver(S \cup {m}, g)) = Cardinality(MapsOver(S, g)) + One(m.grant = g)
  BY <1>1, <1>2, <1>5 DEF One
<1>8. Cardinality(WritableMapsOver(S \cup {m}, g))
          = Cardinality(WritableMapsOver(S, g)) + One(m.grant = g /\ m.writable)
  BY <1>1, <1>3, <1>6 DEF One
<1> QED BY <1>7, <1>8

-----------------------------------------------------------------------------
\* The invariant over any tables and mappings, so that it can be said of the
\* tables half-way through a teardown too.
GrantOK(gr, M) ==
    /\ gr \in [GrantId -> GrantEntry] /\ M \subseteq Mapping /\ IsFiniteSet(M)
    /\ \A g \in GrantId : /\ gr[g].maps = Cardinality(MapsOver(M, g))
                          /\ gr[g].writable_maps = Cardinality(WritableMapsOver(M, g))
    /\ \A m \in M : Permits(gr, m.grant, m.grantee, m.writable)
    /\ \A m, n \in M : (m.grantee = n.grantee /\ m.handle = n.handle) => m = n

(* Of the variables it is the invariant.                                     *)
LEMMA GrantInvIsOK == (GrantInv <=> GrantOK(grants, maps)) /\ (GrantInv' <=> GrantOK(grants', maps'))
  BY DEF GrantInv, GrantOK, GrantTypeOK, GrantSound, RefcountsExact, MapsBacked, HandlesUnique,
         Permits, MapsOver, WritableMapsOver

(* The entries and counts after a set of live mappings is released: every    *)
(* permit stays what it was, with exact counts.                              *)
LEMMA UnmappedOK ==
    ASSUME NEW gr, NEW M, GrantOK(gr, M), NEW gone \in SUBSET M,
           NEW gr2, gr2 = AfterUnmap(gr, gone), NEW M2, M2 = M \ gone
    PROVE  /\ GrantOK(gr2, M2)
           /\ \A g \in GrantId :
                  /\ gr2[g].live = gr[g].live /\ gr2[g].grantee = gr[g].grantee
                  /\ gr2[g].frame = gr[g].frame /\ gr2[g].readonly = gr[g].readonly
                  /\ MapsOver(gone, g) = {} => gr2[g] = gr[g]
<1>0. /\ gr \in [GrantId -> GrantEntry] /\ M \subseteq Mapping /\ IsFiniteSet(M)
      /\ \A g \in GrantId : /\ gr[g].maps = Cardinality(MapsOver(M, g))
                            /\ gr[g].writable_maps = Cardinality(WritableMapsOver(M, g))
  BY DEF GrantOK
<1>1. IsFiniteSet(M2) /\ M2 \subseteq M
  BY <1>0, FS_Subset
<1>2. ASSUME NEW g \in GrantId
      PROVE  /\ gr2[g].live = gr[g].live /\ gr2[g].grantee = gr[g].grantee
             /\ gr2[g].frame = gr[g].frame /\ gr2[g].readonly = gr[g].readonly
             /\ gr2[g].maps = Cardinality(MapsOver(M2, g))
             /\ gr2[g].writable_maps = Cardinality(WritableMapsOver(M2, g))
             /\ gr2[g] \in GrantEntry
             /\ MapsOver(gone, g) = {} => gr2[g] = gr[g]
  <2>1. /\ Cardinality(MapsOver(M2, g))
               = Cardinality(MapsOver(M, g)) - Cardinality(MapsOver(gone, g))
        /\ Cardinality(WritableMapsOver(M2, g))
               = Cardinality(WritableMapsOver(M, g)) - Cardinality(WritableMapsOver(gone, g))
    <3>1. /\ Cardinality(MapsOver(M \ gone, g))
                 = Cardinality(MapsOver(M, g)) - Cardinality(MapsOver(gone, g))
          /\ Cardinality(WritableMapsOver(M \ gone, g))
                 = Cardinality(WritableMapsOver(M, g)) - Cardinality(WritableMapsOver(gone, g))
      <4>1. IsFiniteSet(M) /\ gone \in SUBSET M
        BY <1>0
      <4> QED BY ONLY <4>1, CountsAfterRemoval
    <3>2. M2 = M \ gone
      OBVIOUS
    <3> QED BY ONLY <3>1, <3>2
  <2>2. gr2[g] = [gr[g] EXCEPT
            !.maps = @ - Cardinality(MapsOver(gone, g)),
            !.writable_maps = @ - Cardinality(WritableMapsOver(gone, g))]
    BY DEF AfterUnmap
  <2>3. /\ gr[g] \in GrantEntry
        /\ gr[g].maps = Cardinality(MapsOver(M, g))
        /\ gr[g].writable_maps = Cardinality(WritableMapsOver(M, g))
    BY <1>0
  <2>4. /\ Cardinality(MapsOver(M2, g)) \in Nat
        /\ Cardinality(WritableMapsOver(M2, g)) \in Nat
    BY <1>1, CountsOfFinite
  <2>5. IsFiniteSet(gone)
    BY <1>0, FS_Subset
  <2>6. /\ Cardinality(MapsOver(gone, g)) \in Nat /\ Cardinality(WritableMapsOver(gone, g)) \in Nat
    BY <2>5, CountsOfFinite
  <2>7. /\ gr2[g].live = gr[g].live /\ gr2[g].grantee = gr[g].grantee
        /\ gr2[g].frame = gr[g].frame /\ gr2[g].readonly = gr[g].readonly
        /\ gr2[g].maps = gr[g].maps - Cardinality(MapsOver(gone, g))
        /\ gr2[g].writable_maps = gr[g].writable_maps - Cardinality(WritableMapsOver(gone, g))
    BY <2>2, <2>3 DEF GrantEntry, FreeGrant
  <2>8. ASSUME gr[g] = FreeGrant PROVE gr2[g] = FreeGrant
    <3>1. Cardinality(MapsOver(gone, g)) = 0 /\ Cardinality(WritableMapsOver(gone, g)) = 0
      BY <2>1, <2>3, <2>4, <2>6, <2>8 DEF FreeGrant
    <3>2. /\ gr[g].maps - Cardinality(MapsOver(gone, g)) = 0
          /\ gr[g].writable_maps - Cardinality(WritableMapsOver(gone, g)) = 0
      BY <2>8, <3>1 DEF FreeGrant
    <3>3. gr2[g] = [gr[g] EXCEPT !.maps = 0, !.writable_maps = 0]
      BY <2>2, <3>2, Zenon
    <3>4. [gr[g] EXCEPT !.maps = 0, !.writable_maps = 0]
              = [live |-> gr[g].live, grantee |-> gr[g].grantee,
                 frame |-> gr[g].frame, readonly |-> gr[g].readonly,
                 maps |-> 0, writable_maps |-> 0]
      BY <2>3, CountsReplaced, Zenon
    <3> QED BY <2>8, <3>3, <3>4 DEF FreeGrant
  <2>9. ASSUME gr[g] # FreeGrant PROVE gr2[g] \in GrantEntry
    <3> DEFINE n == gr[g].maps - Cardinality(MapsOver(gone, g))
               w == gr[g].writable_maps - Cardinality(WritableMapsOver(gone, g))
    <3>1. n \in 0..MaxCount /\ w \in 0..MaxCount
      BY <2>1, <2>3, <2>4, <2>6, <2>9, LiveFields, FramesAssumption
    <3>2. gr2[g] = [live |-> TRUE, grantee |-> gr[g].grantee, frame |-> gr[g].frame,
                        readonly |-> gr[g].readonly, maps |-> n, writable_maps |-> w]
      <4>1. [gr[g] EXCEPT !.maps = n, !.writable_maps = w]
                = [live |-> gr[g].live, grantee |-> gr[g].grantee,
                   frame |-> gr[g].frame, readonly |-> gr[g].readonly,
                   maps |-> n, writable_maps |-> w]
        BY <2>3, CountsReplaced, Zenon
      <4>2. gr[g].live = TRUE
        BY <2>3, <2>9, LiveFields
      <4> QED BY <2>2, <4>1, <4>2, Zenon
    <3>3. /\ gr[g].grantee \in Dom /\ gr[g].frame \in Frame
          /\ gr[g].readonly \in BOOLEAN
      BY <2>3, <2>9, LiveFields
    <3> HIDE DEF n, w
    <3> QED BY <3>1, <3>2, <3>3, LiveEntry
  <2>10. gr2[g] \in GrantEntry
    BY <2>8, <2>9, Zenon DEF GrantEntry
  <2>11. ASSUME MapsOver(gone, g) = {} PROVE gr2[g] = gr[g]
    <3>1. WritableMapsOver(gone, g) = {}
      BY <2>11 DEF MapsOver, WritableMapsOver
    <3>2. Cardinality(MapsOver(gone, g)) = 0 /\ Cardinality(WritableMapsOver(gone, g)) = 0
      BY <2>11, <3>1, FS_EmptySet
    <3>3. gr[g].maps \in Int /\ gr[g].writable_maps \in Int
      BY <1>0, CountsOfFinite
    <3>4. /\ gr[g].maps - Cardinality(MapsOver(gone, g)) = gr[g].maps
          /\ gr[g].writable_maps - Cardinality(WritableMapsOver(gone, g)) = gr[g].writable_maps
      BY <3>2, <3>3
    <3>5. gr2[g] = [gr[g] EXCEPT !.maps = gr[g].maps, !.writable_maps = gr[g].writable_maps]
      BY <2>2, <3>4, Zenon
    <3>6. gr2[g] = [live |-> gr[g].live, grantee |-> gr[g].grantee, frame |-> gr[g].frame,
                    readonly |-> gr[g].readonly, maps |-> gr[g].maps,
                    writable_maps |-> gr[g].writable_maps]
      BY <2>3, <3>5, CountsReplaced, Zenon
    <3>7. gr[g] = [live |-> gr[g].live, grantee |-> gr[g].grantee, frame |-> gr[g].frame,
                   readonly |-> gr[g].readonly, maps |-> gr[g].maps,
                   writable_maps |-> gr[g].writable_maps]
      <4>1. CASE gr[g] = FreeGrant
        BY <4>1 DEF FreeGrant
      <4>2. CASE gr[g] # FreeGrant
        BY <2>3, <4>2 DEF GrantEntry
      <4> QED BY <4>1, <4>2
    <3> QED BY <3>6, <3>7, Zenon
  <2> QED BY <2>1, <2>3, <2>7, <2>10, <2>11
<1>3. gr2 \in [GrantId -> GrantEntry]
  BY <1>2 DEF AfterUnmap
<1>4. \A m \in M2 : Permits(gr2, m.grant, m.grantee, m.writable)
  <2> SUFFICES ASSUME NEW m \in M2
               PROVE  Permits(gr2, m.grant, m.grantee, m.writable)
    OBVIOUS
  <2>1. m \in M /\ m.grant \in GrantId
    BY <1>0 DEF Mapping
  <2>2. Permits(gr, m.grant, m.grantee, m.writable)
    BY <2>1 DEF GrantOK
  <2> QED BY <1>2, <2>1, <2>2 DEF Permits
<1>5. \A m, n \in M2 : (m.grantee = n.grantee /\ m.handle = n.handle) => m = n
  BY <1>1 DEF GrantOK
<1>6. GrantOK(gr2, M2)
  BY <1>0, <1>1, <1>2, <1>3, <1>4, <1>5 DEF GrantOK
<1> QED BY <1>2, <1>6

(* Withdrawing permits nobody maps: an entry with a live mapping has a       *)
(* count, and stays.                                                         *)
LEMMA RevokedOK ==
    ASSUME NEW gr, NEW M, GrantOK(gr, M), NEW R, NEW gr2, gr2 = Revoked(gr, R)
    PROVE  GrantOK(gr2, M)
<1>0. /\ gr \in [GrantId -> GrantEntry] /\ M \subseteq Mapping /\ IsFiniteSet(M)
      /\ \A g \in GrantId : /\ gr[g].maps = Cardinality(MapsOver(M, g))
                            /\ gr[g].writable_maps = Cardinality(WritableMapsOver(M, g))
  BY DEF GrantOK
<1>1. ASSUME NEW g \in GrantId
      PROVE  \/ gr2[g] = gr[g]
             \/ gr2[g] = FreeGrant /\ gr[g].maps = 0
  BY DEF Revoked
<1>2. ASSUME NEW g \in GrantId, gr[g].maps = 0
      PROVE  MapsOver(M, g) = {} /\ Cardinality(WritableMapsOver(M, g)) = 0
  <2>1. MapsOver(M, g) = {}
    BY <1>0, <1>2, CountsOfFinite, FS_EmptySet
  <2>2. WritableMapsOver(M, g) = {}
    BY <2>1 DEF MapsOver, WritableMapsOver
  <2> QED BY <2>1, <2>2, FS_EmptySet
<1>3. gr2 \in [GrantId -> GrantEntry]
  BY <1>0, <1>1 DEF Revoked, GrantEntry
<1>4. \A g \in GrantId : /\ gr2[g].maps = Cardinality(MapsOver(M, g))
                         /\ gr2[g].writable_maps = Cardinality(WritableMapsOver(M, g))
  BY <1>0, <1>1, <1>2, FS_EmptySet DEF FreeGrant
<1>5. \A m \in M : Permits(gr2, m.grant, m.grantee, m.writable)
  <2> SUFFICES ASSUME NEW m \in M
               PROVE  Permits(gr2, m.grant, m.grantee, m.writable)
    OBVIOUS
  <2>1. m.grant \in GrantId /\ m \in MapsOver(M, m.grant)
    BY <1>0 DEF Mapping, MapsOver
  <2>2. gr2[m.grant] = gr[m.grant]
    BY <1>1, <1>2, <2>1
  <2> QED BY <2>2 DEF GrantOK, Permits
<1> QED BY <1>0, <1>3, <1>4, <1>5 DEF GrantOK

(* The calls that do these two things preserve the invariant.                *)
LEMMA UnmapKeeps ==
    ASSUME GrantInv, NEW gone \in SUBSET maps, Unmap(gone)
    PROVE  GrantInv'
  BY GrantInvIsOK, UnmappedOK DEF Unmap

(* end_access and both revocations: an entry with a mapping has a count and is skipped. *)
LEMMA RevokeKeeps ==
    ASSUME GrantInv, NEW R, grants' = Revoked(grants, R), UNCHANGED maps
    PROVE  GrantInv'
  BY GrantInvIsOK, RevokedOK

(* A new permit goes into a free entry, over which there is no mapping.      *)
LEMMA GrantAccessKeeps ==
    ASSUME GrantInv, NEW g \in GrantId, NEW grantee \in Dom, NEW frame \in Frame,
           NEW readonly \in BOOLEAN, GrantAccess(g, grantee, frame, readonly)
    PROVE  GrantInv'
<1> USE DEF GrantInv, GrantSound
<1>1. /\ UNCHANGED maps /\ ~grants[g].live
      /\ grants' = [grants EXCEPT ![g] = Access(grantee, frame, readonly)]
  BY DEF GrantAccess
<1>2. grants[g] = FreeGrant
  BY <1>1 DEF GrantTypeOK, GrantEntry
<1>3. /\ Access(grantee, frame, readonly) \in GrantEntry
      /\ Access(grantee, frame, readonly).maps = 0
      /\ Access(grantee, frame, readonly).writable_maps = 0
  <2>1. Access(grantee, frame, readonly)
            = [live |-> TRUE, grantee |-> grantee, frame |-> frame, readonly |-> readonly,
               maps |-> 0, writable_maps |-> 0]
    BY DEF Access
  <2>2. 0 \in 0..MaxCount
    BY FramesAssumption
  <2> QED BY <2>1, <2>2, LiveEntry
<1>4. GrantTypeOK'
  BY <1>1, <1>3 DEF GrantTypeOK
<1>5. RefcountsExact'
  BY <1>1, <1>2, <1>3 DEF RefcountsExact, GrantTypeOK, FreeGrant
<1>6. MapsBacked'
  BY <1>1 DEF MapsBacked, Permits, GrantTypeOK, Mapping
<1>7. HandlesUnique' /\ IsFiniteSet(maps')
  BY <1>1 DEF HandlesUnique
<1> QED BY <1>4, <1>5, <1>6, <1>7

(* end_access is a revocation of one entry.                                  *)
LEMMA EndAccessKeeps ==
    ASSUME GrantInv, NEW g \in GrantId, EndAccess(g)
    PROVE  GrantInv'
<1>1. UNCHANGED maps
  BY DEF EndAccess
<1>2. grants' = Revoked(grants, {g})
  BY DEF EndAccess, Revoked, GrantInv, GrantTypeOK
<1> QED BY <1>1, <1>2, RevokeKeeps

(* A new mapping: its handle is unused, so it is a new one, and the counts   *)
(* of its entry, which were below the width, follow.                         *)
LEMMA MapGrantKeeps ==
    ASSUME GrantInv, NEW d \in Dom, NEW g \in GrantId, NEW writable \in BOOLEAN,
           NEW h \in Nat, MapGrant(d, g, writable, h)
    PROVE  GrantInv'
<1> USE DEF GrantInv, GrantSound
<1> DEFINE m == [grantee |-> d, handle |-> h, grant |-> g, writable |-> writable]
<1>1. /\ Permits(grants, g, d, writable) /\ grants[g].maps < MaxCount
      /\ grants' = [grants EXCEPT ![g].maps = @ + 1, ![g].writable_maps = @ + One(writable)]
      /\ maps' = maps \cup {m}
      /\ h \notin HandlesOf(maps, d)
  BY DEF MapGrant, IsNextHandle
<1>2. /\ m \in Mapping /\ m.grantee = d /\ m.handle = h /\ m.grant = g /\ m.writable = writable
  BY DEF Mapping
<1>3. \A n \in maps : ~(n.grantee = d /\ n.handle = h)
  BY <1>1 DEF HandlesOf
<1>4. m \notin maps
  BY <1>2, <1>3
<1>5. IsFiniteSet(maps')
  BY <1>1, FS_AddElement
<1>6. HandlesUnique'
  BY <1>1, <1>2, <1>3 DEF HandlesUnique
<1>7. /\ grants[g] \in GrantEntry /\ grants[g].live /\ grants[g] # FreeGrant
      /\ grants[g].grantee \in Dom /\ grants[g].frame \in Frame /\ grants[g].readonly \in BOOLEAN
      /\ grants[g].maps \in 0..MaxCount /\ grants[g].writable_maps \in 0..MaxCount
      /\ grants[g] = [live |-> TRUE, grantee |-> grants[g].grantee, frame |-> grants[g].frame,
                      readonly |-> grants[g].readonly, maps |-> grants[g].maps,
                      writable_maps |-> grants[g].writable_maps]
  <2>1. grants[g] \in GrantEntry /\ grants[g].live
    BY <1>1 DEF Permits, GrantTypeOK
  <2>2. grants[g] # FreeGrant
    BY <2>1 DEF FreeGrant
  <2> QED BY <2>1, <2>2, LiveFields
<1>8. /\ grants'[g].live = grants[g].live /\ grants'[g].grantee = grants[g].grantee
      /\ grants'[g].frame = grants[g].frame /\ grants'[g].readonly = grants[g].readonly
      /\ grants'[g].maps = grants[g].maps + 1
      /\ grants'[g].writable_maps = grants[g].writable_maps + One(writable)
      /\ grants'[g] = [live |-> TRUE, grantee |-> grants[g].grantee,
                       frame |-> grants[g].frame, readonly |-> grants[g].readonly,
                       maps |-> grants[g].maps + 1,
                       writable_maps |-> grants[g].writable_maps + One(writable)]
      /\ \A k \in GrantId : k # g => grants'[k] = grants[k]
  BY <1>1, <1>7 DEF GrantTypeOK
<1>9. grants[g].writable_maps <= grants[g].maps
  BY CountsOfFinite DEF RefcountsExact
<1>10. grants'[g] \in GrantEntry
  <2>1. grants[g].maps + 1 \in 0..MaxCount /\ grants[g].writable_maps + One(writable) \in 0..MaxCount
    BY <1>1, <1>7, <1>9, FramesAssumption DEF One
  <2> QED BY <1>7, <1>8, <2>1, LiveEntry
<1>11. GrantTypeOK'
  BY <1>1, <1>2, <1>8, <1>10 DEF GrantTypeOK
<1>12. RefcountsExact'
  <2> SUFFICES ASSUME NEW k \in GrantId
               PROVE  /\ grants'[k].maps = Cardinality(MapsOver(maps', k))
                      /\ grants'[k].writable_maps = Cardinality(WritableMapsOver(maps', k))
    BY DEF RefcountsExact
  <2>1. /\ Cardinality(MapsOver(maps', k)) = Cardinality(MapsOver(maps, k)) + One(m.grant = k)
        /\ Cardinality(WritableMapsOver(maps', k))
               = Cardinality(WritableMapsOver(maps, k)) + One(m.grant = k /\ m.writable)
    BY <1>1, <1>2, <1>4, CountsAfterAdding
  <2>2. /\ grants[k].maps = Cardinality(MapsOver(maps, k))
        /\ grants[k].writable_maps = Cardinality(WritableMapsOver(maps, k))
        /\ Cardinality(MapsOver(maps, k)) \in Nat /\ Cardinality(WritableMapsOver(maps, k)) \in Nat
    BY CountsOfFinite DEF RefcountsExact
  <2>3. CASE k = g
    BY <1>2, <1>8, <2>1, <2>2, <2>3 DEF One
  <2>4. CASE k # g
    BY <1>2, <1>8, <2>1, <2>2, <2>4 DEF One
  <2> QED BY <2>3, <2>4
<1>13. MapsBacked'
  BY <1>1, <1>2, <1>8 DEF MapsBacked, Permits, GrantTypeOK, Mapping
<1> QED BY <1>5, <1>6, <1>11, <1>12, <1>13

-----------------------------------------------------------------------------
(* Empty tables satisfy the invariant.                                       *)
LEMMA GrantInitInv == GrantInit => GrantInv
<1> SUFFICES ASSUME GrantInit PROVE GrantInv
  OBVIOUS
<1>1. \A g \in GrantId : MapsOver(maps, g) = {} /\ WritableMapsOver(maps, g) = {}
  BY DEF GrantInit, MapsOver, WritableMapsOver
<1>2. RefcountsExact
  BY <1>1, FS_EmptySet DEF GrantInit, RefcountsExact, FreeGrant
<1> QED BY <1>2, FS_EmptySet
        DEF GrantInit, GrantInv, GrantTypeOK, GrantSound, MapsBacked, HandlesUnique, GrantEntry

(* Every call of grant.rs preserves it.                                      *)
LEMMA GrantStepInv == GrantInv /\ [GrantNext]_grantVars => GrantInv'
<1> SUFFICES ASSUME GrantInv, [GrantNext]_grantVars PROVE GrantInv'
  OBVIOUS
<1>1. ASSUME NEW d \in Dom, NEW m \in maps, UnmapGrant(d, m)
      PROVE  GrantInv'
  BY <1>1, UnmapKeeps DEF UnmapGrant
<1>2. ASSUME NEW d \in Dom, DrainMapsOf(d) \/ DrainForeignMapsOf(d)
      PROVE  GrantInv'
  BY <1>2, UnmapKeeps DEF DrainMapsOf, DrainForeignMapsOf, HeldBy, ForeignOver
<1>3. ASSUME NEW d \in Dom, RevokeAll(d) \/ RevokeGrantsTo(d)
      PROVE  GrantInv'
  BY <1>3, RevokeKeeps DEF RevokeAll, RevokeGrantsTo
<1>4. ASSUME NEW d \in Dom, NEW g \in GrantId, NEW writable \in BOOLEAN,
             NEW h \in 0..Cardinality(maps), MapGrant(d, g, writable, h)
      PROVE  GrantInv'
  <2>1. h \in Nat
    BY FS_CardinalityType DEF GrantInv
  <2> QED BY <1>4, <2>1, MapGrantKeeps
<1>5. CASE UNCHANGED grantVars
  BY <1>5 DEF grantVars, GrantInv, GrantTypeOK, GrantSound, RefcountsExact, MapsBacked,
              HandlesUnique, Permits, MapsOver, WritableMapsOver
<1> QED BY <1>1, <1>2, <1>3, <1>4, <1>5, GrantAccessKeeps, EndAccessKeeps DEF GrantNext

(* The table's contract, for every size: counts are exact and within their   *)
(* width, no mapping outlives or exceeds its permit, and a handle is never   *)
(* ambiguous, through any order of grants, mappings, drains and revocations. *)
THEOREM GrantTablesSound == GrantSpec => [](GrantTypeOK /\ GrantSound)
<1>1. GrantInv => GrantTypeOK /\ GrantSound
  BY DEF GrantInv
<1> QED BY <1>1, GrantInitInv, GrantStepInv, PTL DEF GrantSpec

-----------------------------------------------------------------------------
(* The authority matrix.  It stays a forest among Live domains, and          *)
(* authority is neither fabricated nor re-parented, for every number of      *)
(* domains.                                                                  *)

(* The four operations of hypervisor.rs that write the authority state, for  *)
(* the callers its dispatch lets through.                                    *)
AuthCall ==
    \E caller, target \in Dom :
        \/ IsLive(caller) /\ \E mc \in BOOLEAN : CreateDomain(caller, target, mc)
        \/ BuryDomain(target)
        \/ \E to \in Dom : DelegateControl(caller, target, to)
        \/ \E from \in Dom : RevokeControl(caller, target, from)

(* The inductive invariant.  ControlForest needs AuthorityLive: a create     *)
(* plants a Root, which leaves a single tree only if no edge over the Dead   *)
(* slot was left.                                                            *)
AuthInv == AuthTypeOK /\ AuthorityLive /\ ControlForest

-----------------------------------------------------------------------------
(* The holders of control over t, and when a set of domains is closed under  *)
(* delegation from its members.                                              *)
HoldersOf(ct, t) == {h \in Dom : ct[<<h, t>>] # Absent}
ClosedDown(ct, K, t) == \A h \in Dom : ct[<<h, t>>] \in K => h \in K
ClosedUp(ct, K, t) ==
    \A h \in K : ct[<<h, t>>] = Root \/ (ct[<<h, t>>] \in Dom /\ ct[<<h, t>>] \in K)

(* The two markers name no domain.                                           *)
LEMMA ProvenanceFacts ==
    /\ Absent \notin Dom /\ Root \notin Dom /\ Absent # Root
    /\ \A d \in Dom : Via(d) = d
    /\ Control = {Absent, Root} \cup Dom
    /\ \A h, t \in Dom : <<h, t>> \in Edge
  BY DEF Absent, Root, Dom, Via, Control, Edge

(* A closed set that holds c holds its whole subtree.                        *)
LEMMA SubtreeLeast ==
    ASSUME NEW ct, NEW c, NEW t, NEW K \in SUBSET Dom, c \in K, ClosedDown(ct, K, t)
    PROVE  Subtree(ct, c, t) \subseteq K
  BY DEF Subtree, ClosedDown

(* ... and what every such set holds is in the subtree.                      *)
LEMMA SubtreeIntro ==
    ASSUME NEW ct, NEW c, NEW t, NEW n \in Dom,
           \A K \in SUBSET Dom : (c \in K /\ ClosedDown(ct, K, t)) => n \in K
    PROVE  n \in Subtree(ct, c, t)
  BY DEF Subtree, ClosedDown

(* Over one target: the sweep keeps a set of holders that is closed under    *)
(* "my delegator is kept too", with their edges as they were.                *)
LEMMA SweptFacts ==
    ASSUME NEW ct \in [Edge -> Control], NEW t \in Dom
    PROVE  /\ Swept(ct) \in [Edge -> Control]
           /\ \A h \in Dom : Swept(ct)[<<h, t>>] \in {ct[<<h, t>>], Absent}
           /\ \A h \in HoldersOf(Swept(ct), t) :
                  /\ Swept(ct)[<<h, t>>] = ct[<<h, t>>]
                  /\ ct[<<h, t>>] # Root => ct[<<h, t>>] \in HoldersOf(Swept(ct), t)
<1> USE ProvenanceFacts
<1>1. Swept(ct) \in [Edge -> Control]
  BY DEF Swept
<1>2. \A h \in Dom : Swept(ct)[<<h, t>>] =
          IF ct[<<h, t>>] # Absent /\ h \in Kept(ct, t) THEN ct[<<h, t>>] ELSE Absent
  BY DEF Swept
<1>3. ASSUME NEW h \in HoldersOf(Swept(ct), t), ct[<<h, t>>] # Root
      PROVE  ct[<<h, t>>] \in HoldersOf(Swept(ct), t)
  <2>1. h \in Dom /\ h \in Kept(ct, t)
    BY <1>2 DEF HoldersOf
  <2>2. PICK K \in SUBSET Dom : h \in K /\ ClosedUp(ct, K, t)
    BY <2>1 DEF Kept, ClosedUp
  <2>3. ct[<<h, t>>] \in K /\ ct[<<h, t>>] \in Dom
    BY <1>3, <2>2 DEF ClosedUp
  <2>4. K \subseteq Kept(ct, t)
    BY <2>2 DEF Kept, ClosedUp
  <2>5. ct[<<ct[<<h, t>>], t>>] # Absent
    BY <2>2, <2>3 DEF ClosedUp
  <2> QED BY <1>2, <2>3, <2>4, <2>5 DEF HoldersOf
<1>4. \A h \in HoldersOf(Swept(ct), t) : Swept(ct)[<<h, t>>] = ct[<<h, t>>]
  BY <1>2 DEF HoldersOf
<1>5. \A h \in Dom : Swept(ct)[<<h, t>>] \in {ct[<<h, t>>], Absent}
  BY <1>2
<1> QED BY <1>1, <1>3, <1>4, <1>5

(* Pruning a forest and sweeping what lost its delegator leaves a forest,    *)
(* and a tree survives only with its Root.  ct2 is ct1 after the sweep; ct1  *)
(* is the forest ct without some of its edges.                               *)
LEMMA PrunedTree ==
    ASSUME NEW ct \in [Edge -> Control], Forest(ct), NEW ct1 \in [Edge -> Control],
           \A e \in Edge : ct1[e] \in {ct[e], Absent},
           NEW t \in Dom, HoldersOf(Swept(ct1), t) # {}
    PROVE  \E r \in HoldersOf(Swept(ct1), t) :
               /\ {h \in HoldersOf(ct, t) : ct[<<h, t>>] = Root} = {r}
               /\ {h \in HoldersOf(Swept(ct1), t) : Swept(ct1)[<<h, t>>] = Root} = {r}
               /\ HoldersOf(Swept(ct1), t) \subseteq Subtree(Swept(ct1), r, t)
<1> DEFINE ct2 == Swept(ct1)
           left == HoldersOf(ct2, t)
<1> USE ProvenanceFacts
<1>1. /\ left \subseteq Dom
      /\ \A h \in left : /\ ct2[<<h, t>>] = ct[<<h, t>>] /\ h \in HoldersOf(ct, t)
                         /\ ct[<<h, t>>] # Root => ct[<<h, t>>] \in left
  <2>1. \A h \in left : h \in Dom /\ ct2[<<h, t>>] # Absent
    BY DEF HoldersOf
  <2>2. \A h \in left : /\ ct2[<<h, t>>] = ct1[<<h, t>>]
                        /\ ct1[<<h, t>>] # Root => ct1[<<h, t>>] \in left
    BY SweptFacts
  <2>3. \A h \in left : ct1[<<h, t>>] = ct[<<h, t>>]
    BY <2>1, <2>2
  <2> QED BY <2>1, <2>2, <2>3 DEF HoldersOf
<1>2. PICK r \in HoldersOf(ct, t) : /\ {h \in HoldersOf(ct, t) : ct[<<h, t>>] = Root} = {r}
                               /\ HoldersOf(ct, t) \subseteq Subtree(ct, r, t)
  <2>1. HoldersOf(ct, t) # {}
    BY <1>1
  <2> QED BY <2>1 DEF Forest, HoldersOf
<1> HIDE DEF left, ct2
<1>3. r \in left
  <2> SUFFICES ASSUME r \notin left PROVE FALSE
    OBVIOUS
  <2>1. ClosedDown(ct, Dom \ left, t)
    BY <1>1 DEF ClosedDown
  <2>2. Subtree(ct, r, t) \subseteq Dom \ left
    BY <2>1, SubtreeLeast DEF HoldersOf
  <2> QED BY <1>1, <1>2, <2>2 DEF left, ct2
<1>4. {h \in left : ct2[<<h, t>>] = Root} = {r}
  BY <1>1, <1>2, <1>3
<1>5. left \subseteq Subtree(ct2, r, t)
  <2> SUFFICES ASSUME NEW n \in left, NEW K \in SUBSET Dom, r \in K, ClosedDown(ct2, K, t)
               PROVE  n \in K
    BY <1>1, SubtreeIntro
  <2>1. ClosedDown(ct, K \cup (Dom \ left), t)
    BY <1>1 DEF ClosedDown
  <2>2. Subtree(ct, r, t) \subseteq K \cup (Dom \ left)
    BY <2>1, SubtreeLeast DEF HoldersOf
  <2> QED BY <1>1, <1>2, <2>2
<1> QED BY <1>2, <1>3, <1>4, <1>5 DEF left, ct2

(* Whatever edges are cut from a forest, what the sweep keeps is a forest. *)
LEMMA PrunedForest ==
    ASSUME NEW ct \in [Edge -> Control], Forest(ct), NEW ct1 \in [Edge -> Control],
           \A e \in Edge : ct1[e] \in {ct[e], Absent}
    PROVE  Forest(Swept(ct1))
  BY PrunedTree DEF Forest, HoldersOf

-----------------------------------------------------------------------------
(* What one call of the authority state does to the matrix: it plants a Root *)
(* over a Dead slot, hands on an edge, or prunes and sweeps.                 *)
Planted(caller, target) ==
    /\ caller # target /\ life[target] = "Dead" /\ may_create[caller] /\ IsLive(caller)
    /\ controls' = [controls EXCEPT ![<<caller, target>>] = Root]
Pruned ==
    \E ct \in [Edge -> Control] :
        /\ \A e \in Edge : ct[e] \in {controls[e], Absent}
        /\ controls' = Swept(ct)

(* A destroy prunes: the edges of the dead domain go, then the orphans.      *)
LEMMA BuryPrunes ==
    ASSUME AuthTypeOK, NEW target \in Dom, BuryDomain(target)
    PROVE  /\ Pruned
           /\ \A e \in Edge : target \in {e[1], e[2]} => controls'[e] = Absent
<1> DEFINE ct == [e \in Edge |-> IF target \in {e[1], e[2]} THEN Absent ELSE controls[e]]
<1>1. ct \in [Edge -> Control] /\ \A e \in Edge : ct[e] \in {controls[e], Absent}
  BY ProvenanceFacts DEF AuthTypeOK
<1>2. controls' = Swept(ct)
  BY DEF BuryDomain
<1>3. \A e \in Edge : target \in {e[1], e[2]} => Swept(ct)[e] = Absent
  BY DEF Swept
<1> HIDE DEF ct
<1> QED BY <1>1, <1>2, <1>3 DEF Pruned

(* A revocation prunes: the revoked edge, then everything below it.          *)
LEMMA RevokePrunes ==
    ASSUME AuthTypeOK, NEW caller \in Dom, NEW target \in Dom, NEW from \in Dom,
           RevokeControl(caller, target, from)
    PROVE  Pruned
<1> DEFINE ct == [controls EXCEPT ![<<from, target>>] = Absent]
<1>1. ct \in [Edge -> Control] /\ \A e \in Edge : ct[e] \in {controls[e], Absent}
  BY ProvenanceFacts DEF AuthTypeOK
<1>2. controls' = Swept(ct)
  BY DEF RevokeControl
<1> HIDE DEF ct
<1> QED BY <1>1, <1>2 DEF Pruned

(* A pruning only removes edges, and keeps the matrix well-typed and a       *)
(* forest in which a tree that lost its Root is gone.                        *)
LEMMA PrunedFacts ==
    ASSUME AuthTypeOK, ControlForest, Pruned
    PROVE  /\ controls' \in [Edge -> Control]
           /\ \A e \in Edge : controls'[e] \in {controls[e], Absent}
           /\ ControlForest'
           /\ \A h, t \in Dom : controls[<<h, t>>] = Root /\ controls'[<<h, t>>] = Absent =>
                  \A k \in Dom : controls'[<<k, t>>] = Absent
<1>1. PICK ct \in [Edge -> Control] : /\ \A e \in Edge : ct[e] \in {controls[e], Absent}
                                      /\ controls' = Swept(ct)
  BY DEF Pruned
<1>2. controls' \in [Edge -> Control] /\ \A e \in Edge : controls'[e] \in {ct[e], Absent}
  BY <1>1, ProvenanceFacts DEF Swept
<1>3. ControlForest'
  <2>1. Forest(Swept(ct))
    BY <1>1, PrunedForest DEF AuthTypeOK, ControlForest
  <2> QED BY <1>1, <2>1 DEF ControlForest
<1>4. ASSUME NEW h \in Dom, NEW t \in Dom, NEW k \in Dom,
             controls[<<h, t>>] = Root, controls'[<<h, t>>] = Absent,
             controls'[<<k, t>>] # Absent
      PROVE  FALSE
  <2>1. HoldersOf(Swept(ct), t) # {}
    BY <1>1, <1>4 DEF HoldersOf
  <2>2. PICK r \in HoldersOf(Swept(ct), t) :
            {g \in HoldersOf(controls, t) : controls[<<g, t>>] = Root} = {r}
    BY <1>1, <2>1, PrunedTree DEF AuthTypeOK, ControlForest
  <2>3. h \in HoldersOf(controls, t)
    BY <1>4, ProvenanceFacts DEF HoldersOf
  <2>4. h = r
    BY <1>4, <2>2, <2>3
  <2> QED BY <1>1, <1>4, <2>4 DEF HoldersOf
<1> QED BY <1>1, <1>2, <1>3, <1>4

(* A create plants a Root where nothing grew.                                *)
LEMMA CreatePlants ==
    ASSUME AuthInv, NEW caller \in Dom, NEW target \in Dom, NEW mc \in BOOLEAN,
           IsLive(caller), CreateDomain(caller, target, mc)
    PROVE  Planted(caller, target) /\ \A h \in Dom : controls[<<h, target>>] = Absent
  BY ProvenanceFacts DEF AuthInv, AuthorityLive, CreateDomain, Planted, IsLive

(* A new domain is planted as a root edge, so the control edges stay a forest. *)
LEMMA PlantedForest ==
    ASSUME AuthInv, NEW caller \in Dom, NEW target \in Dom, Planted(caller, target),
           \A h \in Dom : controls[<<h, target>>] = Absent
    PROVE  ControlForest'
<1> USE ProvenanceFacts
<1>1. \A h, t \in Dom : controls'[<<h, t>>] =
          IF h = caller /\ t = target THEN Root ELSE controls[<<h, t>>]
  BY DEF Planted, AuthInv, AuthTypeOK
<1> SUFFICES ASSUME NEW t \in Dom, HoldersOf(controls', t) # {}
             PROVE  \E r \in HoldersOf(controls', t) :
                        /\ {h \in HoldersOf(controls', t) : controls'[<<h, t>>] = Root} = {r}
                        /\ HoldersOf(controls', t) \subseteq Subtree(controls', r, t)
  BY DEF ControlForest, Forest, HoldersOf
<1>2. CASE t = target
  <2>1. HoldersOf(controls', t) = {caller} /\ controls'[<<caller, t>>] = Root
    BY <1>1, <1>2 DEF HoldersOf
  <2>2. caller \in Subtree(controls', caller, t)
    BY SubtreeIntro
  <2> QED BY <2>1, <2>2
<1>3. CASE t # target
  <2>1. \A h \in Dom : controls'[<<h, t>>] = controls[<<h, t>>]
    BY <1>1, <1>3
  <2>2. HoldersOf(controls', t) = HoldersOf(controls, t)
    BY <2>1 DEF HoldersOf
  <2>3. PICK r \in HoldersOf(controls, t) :
            /\ {h \in HoldersOf(controls, t) : controls[<<h, t>>] = Root} = {r}
            /\ HoldersOf(controls, t) \subseteq Subtree(controls, r, t)
    BY <2>2 DEF AuthInv, ControlForest, Forest, HoldersOf
  <2>4. Subtree(controls', r, t) = Subtree(controls, r, t)
    BY <2>1 DEF Subtree
  <2>5. {h \in HoldersOf(controls', t) : controls'[<<h, t>>] = Root} = {r}
    BY <2>1, <2>2, <2>3 DEF HoldersOf
  <2> QED BY <2>2, <2>3, <2>4, <2>5
<1> QED BY <1>2, <1>3

(* A delegation hangs a new leaf under a holder.                             *)
LEMMA DelegatedForest ==
    ASSUME AuthInv, NEW caller \in Dom, NEW target \in Dom, NEW to \in Dom,
           DelegateControl(caller, target, to)
    PROVE  ControlForest'
<1> USE ProvenanceFacts
<1>1. \A h, t \in Dom : controls'[<<h, t>>] =
          IF h = to /\ t = target THEN caller ELSE controls[<<h, t>>]
  BY DEF DelegateControl, AuthInv, AuthTypeOK
<1>2. controls[<<to, target>>] = Absent /\ controls[<<caller, target>>] # Absent
  BY DEF DelegateControl, Controls
<1> SUFFICES ASSUME NEW t \in Dom, HoldersOf(controls', t) # {}
             PROVE  \E r \in HoldersOf(controls', t) :
                        /\ {h \in HoldersOf(controls', t) : controls'[<<h, t>>] = Root} = {r}
                        /\ HoldersOf(controls', t) \subseteq Subtree(controls', r, t)
  BY DEF ControlForest, Forest, HoldersOf
<1>3. HoldersOf(controls, t) # {} /\ HoldersOf(controls, t) \subseteq HoldersOf(controls', t)
  BY <1>1, <1>2 DEF HoldersOf
<1>4. PICK r \in HoldersOf(controls, t) :
          /\ {h \in HoldersOf(controls, t) : controls[<<h, t>>] = Root} = {r}
          /\ HoldersOf(controls, t) \subseteq Subtree(controls, r, t)
  BY <1>3 DEF AuthInv, ControlForest, Forest, HoldersOf
<1>5. {h \in HoldersOf(controls', t) : controls'[<<h, t>>] = Root} = {r}
  BY <1>1, <1>2, <1>4 DEF HoldersOf
<1>6. ASSUME NEW n \in HoldersOf(controls', t), NEW K \in SUBSET Dom, r \in K,
             ClosedDown(controls', K, t)
      PROVE  n \in K
  <2>1. ClosedDown(controls, K, t)
    BY <1>1, <1>2, <1>6 DEF ClosedDown
  <2>2. HoldersOf(controls, t) \subseteq K
    BY <1>4, <1>6, <2>1, SubtreeLeast
  <2>3. CASE n \in HoldersOf(controls, t)
    BY <2>2, <2>3
  <2>4. CASE n \notin HoldersOf(controls, t)
    <3>1. n = to /\ t = target /\ controls'[<<n, t>>] = caller
      BY <1>1, <2>4 DEF HoldersOf
    <3>2. caller \in K
      BY <1>2, <2>2, <3>1 DEF HoldersOf
    <3> QED BY <1>6, <3>1, <3>2 DEF ClosedDown
  <2> QED BY <2>3, <2>4
<1>7. HoldersOf(controls', t) \subseteq Subtree(controls', r, t)
  BY <1>6, SubtreeIntro DEF HoldersOf
<1> QED BY <1>3, <1>4, <1>5, <1>7

(* Every call on the authority state preserves the invariant.                *)
LEMMA AuthStepInv ==
    ASSUME AuthInv, AuthCall \/ UNCHANGED authVars
    PROVE  AuthInv'
<1> USE ProvenanceFacts
<1>1. ASSUME NEW caller \in Dom, NEW target \in Dom, NEW mc \in BOOLEAN,
             IsLive(caller), CreateDomain(caller, target, mc)
      PROVE  AuthInv'
  <2>1. AuthTypeOK'
    BY <1>1 DEF AuthInv, AuthTypeOK, CreateDomain
  <2>2. ControlForest'
    BY <1>1, CreatePlants, PlantedForest
  <2>3. AuthorityLive'
    <3>1. caller # target
      BY <1>1 DEF CreateDomain, IsLive
    <3>2. \A d \in Dom : IsLive(d)' <=> (IsLive(d) \/ d = target)
      BY <1>1 DEF CreateDomain, IsLive, AuthInv, AuthTypeOK
    <3>3. \A e \in Edge : controls'[e] # Absent => controls[e] # Absent \/ e = <<caller, target>>
      BY <1>1 DEF CreateDomain, AuthInv, AuthTypeOK
    <3>4. \A d \in Dom : may_create'[d] => may_create[d] \/ d = target
      BY <1>1 DEF CreateDomain, AuthInv, AuthTypeOK
    <3>5. \A e \in Edge : e[1] \in Dom /\ e[2] \in Dom
      BY DEF Edge
    <3> QED BY <1>1, <3>1, <3>2, <3>3, <3>4, <3>5 DEF AuthInv, AuthorityLive
  <2> QED BY <2>1, <2>2, <2>3 DEF AuthInv
<1>2. ASSUME NEW target \in Dom, BuryDomain(target)
      PROVE  AuthInv'
  <2>1. Pruned /\ \A e \in Edge : target \in {e[1], e[2]} => controls'[e] = Absent
    BY <1>2, BuryPrunes DEF AuthInv
  <2>2. AuthTypeOK' /\ ControlForest'
    BY <1>2, <2>1, PrunedFacts DEF AuthInv, AuthTypeOK, BuryDomain
  <2>3. \A e \in Edge : controls'[e] # Absent =>
            controls[e] # Absent /\ e[1] # target /\ e[2] # target
    BY <2>1, PrunedFacts DEF AuthInv
  <2>4. \A d \in Dom : /\ d # target => (IsLive(d)' <=> IsLive(d))
                       /\ may_create'[d] => may_create[d] /\ d # target
    BY <1>2 DEF BuryDomain, IsLive, AuthInv, AuthTypeOK
  <2>5. \A e \in Edge : e[1] \in Dom /\ e[2] \in Dom
    BY DEF Edge
  <2>6. AuthorityLive'
    BY <2>3, <2>4, <2>5 DEF AuthInv, AuthorityLive
  <2> QED BY <2>2, <2>6 DEF AuthInv
<1>3. ASSUME NEW caller \in Dom, NEW target \in Dom, NEW to \in Dom,
             DelegateControl(caller, target, to)
      PROVE  AuthInv'
  <2>1. AuthTypeOK' /\ AuthorityLive'
    BY <1>3 DEF DelegateControl, Controls, IsLive, AuthInv, AuthTypeOK, AuthorityLive
  <2> QED BY <1>3, <2>1, DelegatedForest DEF AuthInv
<1>4. ASSUME NEW caller \in Dom, NEW target \in Dom, NEW from \in Dom,
             RevokeControl(caller, target, from)
      PROVE  AuthInv'
  <2>1. Pruned /\ UNCHANGED <<life, may_create>>
    BY <1>4, RevokePrunes DEF AuthInv, RevokeControl
  <2> QED BY <2>1, PrunedFacts DEF AuthInv, AuthTypeOK, AuthorityLive, IsLive
<1>5. CASE UNCHANGED authVars
  <2>1. AuthTypeOK' /\ AuthorityLive'
    BY <1>5 DEF authVars, AuthInv, AuthTypeOK, AuthorityLive, IsLive
  <2>2. ControlForest'
    BY <1>5 DEF authVars, AuthInv, ControlForest
  <2> QED BY <2>1, <2>2 DEF AuthInv
<1> QED BY <1>1, <1>2, <1>3, <1>4, <1>5 DEF AuthCall

(* new() starts with an empty matrix.                                        *)
LEMMA AuthInitInv == AuthInit => AuthInv
  BY ProvenanceFacts DEF AuthInit, AuthInv, AuthTypeOK, AuthorityLive, IsLive, ControlForest, Forest

-----------------------------------------------------------------------------
(* No call re-parents an edge, and one that removes a Root removes its tree. *)
LEMMA AuthStepKeepsProvenance ==
    ASSUME AuthInv, AuthCall
    PROVE  ProvenanceKept
<1> USE ProvenanceFacts
<1>0. \A e \in Edge : e[1] \in Dom /\ e[2] \in Dom /\ e = <<e[1], e[2]>>
  BY DEF Edge
<1>1. ASSUME NEW x \in Edge, NEW v, controls[x] = Absent, controls' = [controls EXCEPT ![x] = v]
      PROVE  ProvenanceKept
  BY <1>1 DEF ProvenanceKept, AuthInv, AuthTypeOK
<1>2. ASSUME Pruned
      PROVE  ProvenanceKept
  BY <1>0, <1>2, PrunedFacts DEF ProvenanceKept, AuthInv
<1>3. ASSUME NEW caller \in Dom, NEW target \in Dom, NEW mc \in BOOLEAN,
             IsLive(caller), CreateDomain(caller, target, mc)
      PROVE  ProvenanceKept
  <2>1. /\ controls[<<caller, target>>] = Absent
        /\ controls' = [controls EXCEPT ![<<caller, target>>] = Root]
    BY <1>3, CreatePlants DEF Planted
  <2> QED BY <1>1, <2>1
<1>4. ASSUME NEW caller \in Dom, NEW target \in Dom, NEW to \in Dom,
             DelegateControl(caller, target, to)
      PROVE  ProvenanceKept
  BY <1>1, <1>4 DEF DelegateControl, Controls
<1> QED BY <1>2, <1>3, <1>4, BuryPrunes, RevokePrunes DEF AuthCall, AuthInv

(* Every edge and every capability a call adds has its source.               *)
LEMMA AuthStepDerivesAuthority ==
    ASSUME AuthInv, AuthCall
    PROVE  AuthorityDerived
<1> USE ProvenanceFacts
<1>1. ASSUME NEW caller \in Dom, NEW target \in Dom, NEW mc \in BOOLEAN,
             IsLive(caller), CreateDomain(caller, target, mc)
      PROVE  AuthorityDerived
  BY <1>1 DEF CreateDomain, AuthorityDerived, IsLive, AuthInv, AuthTypeOK
<1>2. ASSUME NEW target \in Dom, BuryDomain(target)
      PROVE  AuthorityDerived
  <2>1. \A d \in Dom : may_create'[d] => may_create[d]
    BY <1>2 DEF BuryDomain, AuthInv, AuthTypeOK
  <2>2. \A e \in Edge : controls'[e] \in {controls[e], Absent}
    BY <1>2, BuryPrunes, PrunedFacts DEF AuthInv
  <2> QED BY <2>1, <2>2 DEF AuthorityDerived
<1>3. ASSUME NEW caller \in Dom, NEW target \in Dom, NEW to \in Dom,
             DelegateControl(caller, target, to)
      PROVE  AuthorityDerived
  <2>1. /\ \A h, t \in Dom : controls'[<<h, t>>] =
               IF h = to /\ t = target THEN caller ELSE controls[<<h, t>>]
        /\ may_create' = may_create
    BY <1>3 DEF DelegateControl, AuthInv, AuthTypeOK
  <2>2. /\ controls[<<caller, target>>] # Absent /\ controls[<<to, target>>] = Absent
        /\ IsLive(target)
    BY <1>3 DEF DelegateControl, Controls, AuthInv, AuthorityLive
  <2> QED BY <2>1, <2>2 DEF AuthorityDerived
<1>4. ASSUME NEW caller \in Dom, NEW target \in Dom, NEW from \in Dom,
             RevokeControl(caller, target, from)
      PROVE  AuthorityDerived
  <2>1. \A e \in Edge : controls'[e] \in {controls[e], Absent}
    BY <1>4, RevokePrunes, PrunedFacts DEF AuthInv
  <2>2. may_create' = may_create
    BY <1>4 DEF RevokeControl
  <2> QED BY <2>1, <2>2 DEF AuthorityDerived
<1> QED BY <1>1, <1>2, <1>3, <1>4 DEF AuthCall
=============================================================================
