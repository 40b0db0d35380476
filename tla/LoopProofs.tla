----------------------------- MODULE LoopProofs -----------------------------
(* The loops of hv-core.  advance reaches its fixpoint before its turns run  *)
(* out, and so conserves work, for every number of domains, vCPUs and pCPUs, *)
(* every affinity, weight and clock, as long as a time slice lasts.  The     *)
(* sweep over the delegation matrix and the upward walk compute what the     *)
(* authority model takes for them, for every number of domains.              *)
EXTENDS Policy, SweepLoop, SubsystemProofs

-----------------------------------------------------------------------------
(* advance (policy.rs) *)

(* The pCPUs that wait for a vCPU, and those whose occupant is past its      *)
(* time slice at the time of the call.                                       *)
IdlePcpus    == {p \in Pcpu : pcpus[p] = Idle}
ExpiredPcpus == {p \in Pcpu : pcpus[p] # Idle /\ InFlight(pcpus[p], clock) >= Quantum}

(* What the loop still has to do at most: a placement for every idle pCPU,   *)
(* a preemption and a placement for every expired one.  A vCPU placed in     *)
(* this call has run for no time, so its pCPU is not expired again.          *)
Remaining == Cardinality(IdlePcpus) + 2 * Cardinality(ExpiredPcpus)

(* The inductive invariant: the turns left outnumber what is left to do.     *)
PolicyInv ==
    /\ SchedInv
    /\ clock \in Ticks /\ left \in Nat /\ settled \in BOOLEAN
    /\ left > 0 => Remaining < left
    /\ SettledIsFixpoint

(* Idle and expired pCPUs are different, so there are never more than two    *)
(* turns of work per pCPU.                                                   *)
LEMMA RemainingBound ==
    /\ IsFiniteSet(IdlePcpus) /\ IsFiniteSet(ExpiredPcpus)
    /\ Cardinality(IdlePcpus) \in Nat /\ Cardinality(ExpiredPcpus) \in Nat
    /\ Remaining <= 2 * NumPcpus
<1>1. IsFiniteSet(Pcpu) /\ Cardinality(Pcpu) = NumPcpus
  BY SchedAssumption, FS_Interval DEF Pcpu
<1>2. /\ IdlePcpus \in SUBSET Pcpu /\ ExpiredPcpus \in SUBSET Pcpu
      /\ IdlePcpus \cup ExpiredPcpus \in SUBSET Pcpu /\ IdlePcpus \cap ExpiredPcpus = {}
  BY DEF IdlePcpus, ExpiredPcpus
<1>3. IsFiniteSet(IdlePcpus) /\ IsFiniteSet(ExpiredPcpus)
  BY <1>1, <1>2, FS_Subset
<1>4. Cardinality(IdlePcpus) \in Nat /\ Cardinality(ExpiredPcpus) \in Nat
  BY <1>3, FS_CardinalityType
<1>5. Cardinality(IdlePcpus \cup ExpiredPcpus) <= NumPcpus
  BY <1>1, <1>2, FS_Subset
<1>6. Cardinality(IdlePcpus \cup ExpiredPcpus)
          = Cardinality(IdlePcpus) + Cardinality(ExpiredPcpus)
  BY <1>2, <1>3, <1>4, FS_Union, FS_EmptySet
<1> QED BY <1>3, <1>4, <1>5, <1>6, SchedAssumption DEF Remaining

(* account leaves the loop turns enough for all of it.                       *)
LEMMA LimitSuffices == Limit \in Nat /\ Remaining < Limit
<1>1. IsFiniteSet(Dom) /\ IsFiniteSet(Vcpu)
  BY DomainsAssumption, FS_Interval DEF Dom, Vcpu
<1>2. Cardinality(VcpuId) \in Nat
  BY <1>1, FS_Product, FS_CardinalityType DEF VcpuId
<1> QED BY <1>2, RemainingBound, SchedAssumption DEF Limit, Remaining

(* A placement takes one idle pCPU and expires none: a turn of work done.    *)
LEMMA PlacementWorks ==
    ASSUME Quantum > 0, SchedInv, clock \in Ticks, clock' = clock,
           NEW x \in VcpuId, NEW p \in Pcpu, Run(x, p, clock)
    PROVE  Remaining' = Remaining - 1 /\ Remaining >= 1
<1>1. /\ runstate[x] = Runnable /\ pcpus[p] = Idle
      /\ pcpus' = [pcpus EXCEPT ![p] = x]
      /\ dispatched_at' = [dispatched_at EXCEPT ![x] = clock]
      /\ runstate' = [runstate EXCEPT ![x] = Running(p)]
  BY DEF Run
<1>2. /\ pcpus'[p] = x /\ x # Idle /\ \A q \in Pcpu \ {p} : pcpus'[q] = pcpus[q]
      /\ dispatched_at'[x] = clock
      /\ \A y \in VcpuId \ {x} : /\ dispatched_at'[y] = dispatched_at[y]
                                 /\ runstate'[y] = runstate[y]
  BY <1>1, IdleIsNoVcpu DEF SchedInv, SchedTypeOK
<1>3. IdlePcpus' = IdlePcpus \ {p} /\ p \in IdlePcpus
  BY <1>1, <1>2 DEF IdlePcpus
<1>4. ASSUME NEW q \in Pcpu \ {p}, pcpus[q] # Idle
      PROVE  InFlight(pcpus[q], clock)' = InFlight(pcpus[q], clock)
  <2>1. pcpus[q] \in VcpuId /\ runstate[pcpus[q]] = Running(q)
    BY <1>4 DEF SchedInv, SchedTypeOK, Reciprocity
  <2>2. pcpus[q] # x
    BY <1>1, <2>1, RunStateFacts
  <2>3. pcpus'[q] = pcpus[q] /\ clock' = clock
    BY <1>2, <1>4
  <2> QED BY <1>2, <2>1, <2>2, <2>3 DEF InFlight, IsRunning
<1>5. InFlight(x, clock)' < Quantum
  BY <1>2, PolicyAssumption DEF InFlight, Ticks
<1>6. ExpiredPcpus' = ExpiredPcpus
  <2> SUFFICES ASSUME NEW q \in Pcpu
               PROVE  (pcpus'[q] # Idle /\ InFlight(pcpus[q], clock)' >= Quantum)
                      <=> (pcpus[q] # Idle /\ InFlight(pcpus[q], clock) >= Quantum)
    BY DEF ExpiredPcpus
  <2>1. CASE q = p
    <3>1. InFlight(pcpus[q], clock)' < Quantum
      BY <1>2, <1>5, <2>1
    <3>2. InFlight(pcpus[q], clock)' \in Int
      BY <1>2, <2>1, SchedAssumption DEF InFlight, Ticks
    <3> QED BY <1>1, <2>1, <3>1, <3>2, PolicyAssumption
  <2>2. CASE q # p
    BY <1>2, <1>4, <2>2
  <2> QED BY <2>1, <2>2
<1>7. Cardinality(IdlePcpus') = Cardinality(IdlePcpus) - 1 /\ Cardinality(IdlePcpus) \in Nat
  BY <1>3, RemainingBound, FS_RemoveElement
<1>8. Cardinality(IdlePcpus) # 0
  BY <1>3, RemainingBound, FS_EmptySet
<1> QED BY <1>6, <1>7, <1>8, RemainingBound DEF Remaining

(* A preemption turns an expired pCPU into an idle one: a turn of work done. *)
LEMMA PreemptionWorks ==
    ASSUME SchedInv, clock \in Ticks, clock' = clock,
           NEW x \in Evictable(clock), Preempt(x, clock)
    PROVE  Remaining' = Remaining - 1 /\ Remaining >= 1
<1>1. x \in VcpuId /\ IsRunning(x) /\ InFlight(x, clock) >= Quantum
  BY DEF Evictable
<1>2. PICK p \in Pcpu : runstate[x] = Running(p) /\ pcpus[p] = x /\ runstate[x].pcpu = p
  BY <1>1, RunStateFacts DEF SchedInv, SchedTypeOK, Reciprocity, IsRunning
<1>3. /\ pcpus' = [pcpus EXCEPT ![p] = Idle] /\ dispatched_at' = dispatched_at
      /\ runstate' = [runstate EXCEPT ![x] = Runnable]
  BY <1>1, <1>2 DEF Preempt, LeaveCpu
<1>4. /\ pcpus'[p] = Idle /\ x # Idle /\ \A q \in Pcpu \ {p} : pcpus'[q] = pcpus[q]
      /\ \A y \in VcpuId \ {x} : runstate'[y] = runstate[y]
  BY <1>1, <1>3, IdleIsNoVcpu DEF SchedInv, SchedTypeOK
<1>5. IdlePcpus' = IdlePcpus \cup {p} /\ p \notin IdlePcpus
  BY <1>2, <1>4 DEF IdlePcpus
<1>6. ASSUME NEW q \in Pcpu \ {p}, pcpus[q] # Idle
      PROVE  InFlight(pcpus[q], clock)' = InFlight(pcpus[q], clock)
  <2>1. pcpus[q] \in VcpuId /\ runstate[pcpus[q]] = Running(q)
    BY <1>6 DEF SchedInv, SchedTypeOK, Reciprocity
  <2>2. pcpus[q] # x
    BY <1>2, <1>6, <2>1, RunStateFacts
  <2>3. pcpus'[q] = pcpus[q] /\ clock' = clock
    BY <1>4, <1>6
  <2> QED BY <1>3, <1>4, <2>1, <2>2, <2>3 DEF InFlight, IsRunning
<1>7. ExpiredPcpus' = ExpiredPcpus \ {p} /\ p \in ExpiredPcpus
  <2>1. p \in ExpiredPcpus
    BY <1>1, <1>2, <1>4 DEF ExpiredPcpus
  <2>2. ASSUME NEW q \in Pcpu
        PROVE  q \in ExpiredPcpus' <=> (q \in ExpiredPcpus /\ q # p)
    <3>1. q \in ExpiredPcpus' <=> pcpus'[q] # Idle /\ InFlight(pcpus[q], clock)' >= Quantum
      BY DEF ExpiredPcpus
    <3>2. q \in ExpiredPcpus <=> pcpus[q] # Idle /\ InFlight(pcpus[q], clock) >= Quantum
      BY DEF ExpiredPcpus
    <3> QED BY <1>4, <1>6, <3>1, <3>2
  <2>3. ExpiredPcpus' \in SUBSET Pcpu /\ ExpiredPcpus \in SUBSET Pcpu
    BY DEF ExpiredPcpus
  <2> QED BY <2>1, <2>2, <2>3
<1>8. Cardinality(IdlePcpus') = Cardinality(IdlePcpus) + 1
  BY <1>5, RemainingBound, FS_AddElement
<1>9. Cardinality(ExpiredPcpus') = Cardinality(ExpiredPcpus) - 1
  BY <1>7, RemainingBound, FS_RemoveElement
<1>10. Cardinality(ExpiredPcpus) # 0
  BY <1>7, RemainingBound, FS_EmptySet
<1> QED BY <1>8, <1>9, <1>10, RemainingBound DEF Remaining

-----------------------------------------------------------------------------
(* The policy changes the mechanism through its public transitions only.     *)
LEMMA PolicyStepIsSchedStep ==
    ASSUME clock \in Ticks, [PolicyNext]_allVars
    PROVE  [SchedNext]_schedVars
<1>1. ASSUME AdvanceRun PROVE SchedNext
  <2>1. PICK x \in VcpuId, p \in Pcpu : Run(x, p, clock)
    BY <1>1 DEF AdvanceRun, Placeable
  <2> QED BY <2>1 DEF SchedNext
<1>2. ASSUME AdvancePreempt PROVE SchedNext
  <2>1. PICK x \in VcpuId : Preempt(x, clock)
    BY <1>2 DEF AdvancePreempt, Evictable
  <2> QED BY <2>1 DEF SchedNext
<1>3. ASSUME Mechanism PROVE SchedNext
  BY <1>3 DEF Mechanism, SchedNext
<1>4. ASSUME \/ AdvanceBegin \/ AdvanceIdle \/ Tick \/ UNCHANGED allVars
             \/ \E x \in VcpuId, w \in Weight : SetWeight(x, w)
             \/ \E enabled \in BOOLEAN : SetWakeBoost(enabled)
      PROVE  UNCHANGED schedVars
  BY <1>4 DEF AdvanceBegin, AdvanceIdle, Tick, SetWeight, SetWakeBoost, allVars
<1> QED BY <1>1, <1>2, <1>3, <1>4 DEF PolicyNext, Advance

(* The scheduler starts idle and unsettled.                                  *)
LEMMA PolicyInitInv ==
    ASSUME PolicyInit
    PROVE  PolicyInv
<1>1. SchedInv
  BY SchedInitInv DEF PolicyInit
<1>2. clock = 0 /\ left = 0 /\ settled = FALSE
  BY DEF PolicyInit
<1>3. 0 \in Ticks /\ 0 \in Nat /\ ~(0 > 0)
  BY SchedAssumption DEF Ticks
<1> QED BY <1>1, <1>2, <1>3 DEF PolicyInv, SettledIsFixpoint

(* A turn of the loop that did a turn of work is not the last one.           *)
LEMMA TurnWorks ==
    ASSUME PolicyInv, left > 0, Turn, SchedInv', clock' = clock,
           Remaining' = Remaining - 1, Remaining >= 1
    PROVE  PolicyInv'
<1>1. Remaining \in Int /\ left \in Nat /\ Remaining < left
  BY RemainingBound DEF PolicyInv, Remaining
<1>2. left' = left - 1 /\ left' \in Nat /\ Remaining' < left' /\ left # 1
  BY <1>1 DEF Turn
<1>3. settled' = FALSE
  BY <1>2 DEF Turn
<1> QED BY <1>2, <1>3 DEF PolicyInv, SettledIsFixpoint

(* Every transition preserves the invariant.                                 *)
LEMMA PolicyStepInv ==
    ASSUME Quantum > 0, PolicyInv, [PolicyNext]_allVars
    PROVE  PolicyInv'
<1>1. SchedInv'
  BY PolicyStepIsSchedStep, SchedStepInv DEF PolicyInv
<1>2. CASE AdvanceRun
  <2>1. PICK x \in VcpuId, p \in Pcpu : Run(x, p, clock)
    BY <1>2 DEF AdvanceRun, Placeable
  <2>2. left > 0 /\ Turn /\ clock' = clock
    BY <1>2 DEF AdvanceRun
  <2>3. Remaining' = Remaining - 1 /\ Remaining >= 1
    BY <2>1, <2>2, PlacementWorks DEF PolicyInv
  <2> QED BY <1>1, <2>2, <2>3, TurnWorks
<1>3. CASE AdvancePreempt
  <2>1. PICK x \in Evictable(clock) : Preempt(x, clock)
    BY <1>3 DEF AdvancePreempt
  <2>2. left > 0 /\ Turn /\ clock' = clock
    BY <1>3 DEF AdvancePreempt
  <2>3. Remaining' = Remaining - 1 /\ Remaining >= 1
    BY <2>1, <2>2, PreemptionWorks DEF PolicyInv
  <2> QED BY <1>1, <2>2, <2>3, TurnWorks
<1>4. CASE AdvanceIdle
  <2>1. /\ Placeable = {} /\ Evictable(clock) = {} /\ left' = 0 /\ settled' = TRUE
        /\ UNCHANGED <<schedVars, policyVars, clock>>
    BY <1>4 DEF AdvanceIdle
  <2>2. Placeable' = {}
    BY <2>1 DEF Placeable, IdleFor, schedVars
  <2>3. Evictable(clock)' = {}
    BY <2>1 DEF Evictable, InFlight, MoreDeserving, Service, IsRunning, schedVars, policyVars
  <2> QED BY <1>1, <2>1, <2>2, <2>3 DEF PolicyInv, SettledIsFixpoint
<1>5. CASE AdvanceBegin
  <2>1. left' = Limit /\ settled' = FALSE /\ UNCHANGED <<schedVars, clock>>
    BY <1>5 DEF AdvanceBegin
  <2>2. Remaining' = Remaining
    BY <2>1 DEF Remaining, IdlePcpus, ExpiredPcpus, InFlight, IsRunning, schedVars
  <2> QED BY <1>1, <2>1, <2>2, LimitSuffices DEF PolicyInv, SettledIsFixpoint
<1>6. CASE Tick
  <2>1. left = 0 /\ left' = left /\ settled' = FALSE
    BY <1>6 DEF Tick
  <2>2. clock' \in Ticks
    BY <1>6, SchedAssumption DEF Tick, PolicyInv, Ticks
  <2>3. left' \in Nat /\ ~(left' > 0)
    BY <2>1
  <2> QED BY <1>1, <2>1, <2>2, <2>3 DEF PolicyInv, SettledIsFixpoint
<1>7. ASSUME \/ Mechanism
             \/ \E x \in VcpuId, w \in Weight : SetWeight(x, w)
             \/ \E enabled \in BOOLEAN : SetWakeBoost(enabled)
      PROVE  PolicyInv'
  <2>1. left = 0 /\ left' = left /\ clock' = clock /\ settled' = FALSE
    BY <1>7 DEF Mechanism, SetWeight, SetWakeBoost
  <2>2. left' \in Nat /\ ~(left' > 0)
    BY <2>1
  <2> QED BY <1>1, <2>1, <2>2 DEF PolicyInv, SettledIsFixpoint
<1>8. CASE UNCHANGED allVars
  <2>1. UNCHANGED <<schedVars, policyVars, clock, left, settled>>
    BY <1>8 DEF allVars, callVars
  <2>2. Remaining' = Remaining
    BY <2>1 DEF Remaining, IdlePcpus, ExpiredPcpus, InFlight, IsRunning, schedVars
  <2>3. Placeable' = Placeable
    BY <2>1 DEF Placeable, IdleFor, schedVars
  <2>4. Evictable(clock)' = Evictable(clock)
    BY <2>1 DEF Evictable, InFlight, MoreDeserving, Service, IsRunning, schedVars, policyVars
  <2> QED BY <1>1, <2>1, <2>2, <2>3, <2>4 DEF PolicyInv, SettledIsFixpoint
<1> QED BY <1>2, <1>3, <1>4, <1>5, <1>6, <1>7, <1>8 DEF PolicyNext, Advance

(* The invariant holds in every reachable state.                             *)
LEMMA PolicyInvariant ==
    ASSUME Quantum > 0
    PROVE  PolicySpec => []PolicyInv
<1>1. PolicyInit => PolicyInv
  BY PolicyInitInv
<1>2. PolicyInv /\ [PolicyNext]_allVars => PolicyInv'
  BY PolicyStepInv
<1> QED BY <1>1, <1>2, PTL DEF PolicySpec

(* advance never runs out of turns: with a time slice of at least one tick,  *)
(* it returns at a fixpoint of next, with no placement left to make and no   *)
(* expired runner in the way of a more deserving waiter.                     *)
THEOREM AdvanceReachesFixpoint ==
    ASSUME Quantum > 0
    PROVE  PolicySpec => []SettledIsFixpoint
<1>1. PolicyInv => SettledIsFixpoint
  BY DEF PolicyInv
<1> QED BY <1>1, PolicyInvariant, PTL

(* When advance has settled no pCPU idles while a Runnable vCPU's affinity   *)
(* admits it.                                                                *)
THEOREM AdvanceConservesWork ==
    ASSUME Quantum > 0
    PROVE  PolicySpec => []WorkConserving
<1>1. PolicyInv => WorkConserving
  <2> SUFFICES ASSUME PolicyInv, settled, NEW x \in VcpuId, runstate[x] = Runnable,
                      NEW p \in affinity[x]
               PROVE  pcpus[p] # Idle
    BY DEF WorkConserving
  <2>1. p \in Pcpu
    BY DEF PolicyInv, SchedInv, SchedTypeOK, FullMask
  <2>2. x \notin Placeable
    BY DEF PolicyInv, SettledIsFixpoint
  <2> QED BY <2>1, <2>2 DEF Placeable, IdleFor
<1> QED BY <1>1, PolicyInvariant, PTL

(* The policy implements the scheduler's specification, for every time       *)
(* slice: exclusivity and affinity hold whatever it decides.                 *)
THEOREM PolicyImplementsSched == PolicySpec => SchedSpec
<1>1. PolicyInit => SchedInit /\ clock \in Ticks
  BY SchedAssumption DEF PolicyInit, Ticks
<1>2. clock \in Ticks /\ [PolicyNext]_allVars => (clock \in Ticks)'
  <2> SUFFICES ASSUME clock \in Ticks, [PolicyNext]_allVars PROVE clock' \in Ticks
    OBVIOUS
  <2>1. CASE Tick
    BY <2>1, SchedAssumption DEF Tick, Ticks
  <2>2. CASE ~Tick
    BY <2>2 DEF PolicyNext, Advance, AdvanceBegin, AdvanceRun, AdvancePreempt, AdvanceIdle,
                Mechanism, SetWeight, SetWakeBoost, allVars, callVars
  <2> QED BY <2>1, <2>2
<1>3. clock \in Ticks /\ [PolicyNext]_allVars => [SchedNext]_schedVars
  BY PolicyStepIsSchedStep
<1> QED BY <1>1, <1>2, <1>3, PTL DEF PolicySpec, SchedSpec

-----------------------------------------------------------------------------
(* sweep_orphaned_control_edges (hypervisor.rs) *)

(* The loops have looked at the cell of (target t, holder h) in this pass.   *)
Passed(t, h) == t < cell[1] \/ (t = cell[1] /\ h < cell[2])

(* The cursor stays on the matrix, or one row past it when the pass is over. *)
SweepTypeOK ==
    /\ start \in [Edge -> Control] /\ matrix \in [Edge -> Control]
    /\ cell \in (0..NumDomains) \X Dom /\ changed \in BOOLEAN

(* The inductive invariant: what is still there has the fixpoint the sweep   *)
(* was to compute, and a pass that has changed nothing so far has left no    *)
(* orphan behind the cursor.                                                 *)
SweepInv ==
    /\ SweepTypeOK
    /\ Swept(matrix) = Swept(start)
    /\ ~changed => \A h, t \in Dom : Passed(t, h) => ~Orphan(h, t)

(* Removing an orphan does not change what the sweep is to compute: no set   *)
(* closed under "my delegator is kept too" ever held it.                     *)
LEMMA OrphanRemoved ==
    ASSUME NEW ct \in [Edge -> Control], NEW h \in Dom, NEW t \in Dom,
           ct[<<h, t>>] \in Dom, ct[<<ct[<<h, t>>], t>>] = Absent
    PROVE  Swept([ct EXCEPT ![<<h, t>>] = Absent]) = Swept(ct)
<1> DEFINE ct2 == [ct EXCEPT ![<<h, t>>] = Absent]
<1> USE ProvenanceFacts
<1>1. /\ \A e \in Edge : e # <<h, t>> => ct2[e] = ct[e]
      /\ ct2[<<h, t>>] = Absent
  OBVIOUS
<1> HIDE DEF ct2
<1>2. ASSUME NEW K \in SUBSET Dom, ClosedUp(ct, K, t)
      PROVE  h \notin K
  BY <1>2 DEF ClosedUp
<1>3. ASSUME NEW K \in SUBSET Dom, ClosedUp(ct2, K, t)
      PROVE  h \notin K
  BY <1>1, <1>3 DEF ClosedUp
<1>4. ASSUME NEW K \in SUBSET Dom, NEW u \in Dom
      PROVE  ClosedUp(ct, K, u) <=> ClosedUp(ct2, K, u)
  <2>1. \A k \in K : <<k, u>> \in Edge /\ (<<k, u>> = <<h, t>> => k = h /\ u = t)
    BY <1>4
  <2>2. CASE u # t
    <3>1. \A k \in K : ct2[<<k, u>>] = ct[<<k, u>>]
      BY <1>1, <2>1, <2>2
    <3> QED BY <3>1 DEF ClosedUp
  <2>3. CASE u = t /\ h \notin K
    <3>1. \A k \in K : ct2[<<k, u>>] = ct[<<k, u>>]
      BY <1>1, <2>1, <2>3
    <3> QED BY <3>1 DEF ClosedUp
  <2>4. CASE u = t /\ h \in K
    BY <1>2, <1>3, <2>4
  <2> QED BY <2>2, <2>3, <2>4
<1>5. ASSUME NEW u \in Dom
      PROVE  Kept(ct2, u) = Kept(ct, u)
  <2>1. \A c : Kept(c, u) = UNION {K \in SUBSET Dom : ClosedUp(c, K, u)}
    BY DEF Kept, ClosedUp
  <2>2. {K \in SUBSET Dom : ClosedUp(ct, K, u)} = {K \in SUBSET Dom : ClosedUp(ct2, K, u)}
    BY <1>4, <1>5
  <2> QED BY <2>1, <2>2
<1>6. h \notin Kept(ct, t)
  BY <1>2 DEF Kept, ClosedUp
<1>7. ASSUME NEW e \in Edge
      PROVE  (IF ct2[e] # Absent /\ e[1] \in Kept(ct2, e[2]) THEN ct2[e] ELSE Absent)
             = (IF ct[e] # Absent /\ e[1] \in Kept(ct, e[2]) THEN ct[e] ELSE Absent)
  <2>1. Kept(ct2, e[2]) = Kept(ct, e[2])
    BY <1>5, <1>7 DEF Edge
  <2>2. CASE e = <<h, t>>
    BY <1>1, <1>6, <2>1, <2>2
  <2>3. CASE e # <<h, t>>
    BY <1>1, <1>7, <2>1, <2>3
  <2> QED BY <2>2, <2>3
<1>8. Swept(ct2) = Swept(ct)
  BY <1>7 DEF Swept
<1> QED BY <1>8 DEF ct2

(* A matrix without orphans is its own fixpoint.                             *)
LEMMA NoOrphanNoSweep ==
    ASSUME NEW ct \in [Edge -> Control],
           \A h, t \in Dom : ct[<<h, t>>] \in Dom => ct[<<ct[<<h, t>>], t>>] # Absent
    PROVE  Swept(ct) = ct
<1> USE ProvenanceFacts
<1>1. ASSUME NEW t \in Dom
      PROVE  HoldersOf(ct, t) \subseteq Kept(ct, t)
  <2>1. HoldersOf(ct, t) \in SUBSET Dom
    BY DEF HoldersOf
  <2>2. ClosedUp(ct, HoldersOf(ct, t), t)
    BY <1>1 DEF ClosedUp, HoldersOf
  <2> QED BY <2>1, <2>2 DEF Kept, ClosedUp
<1>2. \A e \in Edge : ct[e] # Absent => e[1] \in Kept(ct, e[2])
  <2> SUFFICES ASSUME NEW e \in Edge, ct[e] # Absent PROVE e[1] \in Kept(ct, e[2])
    OBVIOUS
  <2>1. e[1] \in Dom /\ e[2] \in Dom /\ e = <<e[1], e[2]>>
    BY DEF Edge
  <2> QED BY <1>1, <2>1 DEF HoldersOf
<1> QED BY <1>2 DEF Swept

-----------------------------------------------------------------------------
(* The sweep starts at the first cell of the matrix it was given.            *)
LEMMA SweepInitInv ==
    ASSUME SweepInit
    PROVE  SweepInv
<1> USE ProvenanceFacts
<1>1. start \in [Edge -> Control]
  <2>1. PICK t, r \in Dom, col \in [Dom -> Control] :
            start = [[e \in Edge |-> IF e[2] = t THEN col[e[1]] ELSE Absent]
                        EXCEPT ![<<r, t>>] = Absent]
    BY DEF SweepInit
  <2>2. [e \in Edge |-> IF e[2] = t THEN col[e[1]] ELSE Absent] \in [Edge -> Control]
    BY DEF Edge
  <2> QED BY <2>1, <2>2
<1>2. matrix = start /\ cell = <<0, 0>> /\ changed = FALSE
  BY DEF SweepInit
<1>3. cell \in (0..NumDomains) \X Dom
  <2>1. Dom # {}
    BY DEF SweepInit
  <2>2. 0 \in Dom /\ 0 \in 0..NumDomains
    BY <2>1, DomainsAssumption DEF Dom
  <2> QED BY <1>2, <2>2
<1>4. \A h, t \in Dom : ~Passed(t, h)
  BY <1>2 DEF Passed, Dom
<1> QED BY <1>1, <1>2, <1>3, <1>4 DEF SweepInv, SweepTypeOK

(* Every turn of the loops keeps the invariant: a turn removes an orphan and *)
(* says so, or finds none.                                                   *)
LEMMA SweepStepInv ==
    ASSUME SweepInv, [SweepNext]_sweepVars
    PROVE  SweepInv'
<1> USE ProvenanceFacts
<1>1. CASE SweepCell
  <2> DEFINE t == cell[1]
             h == cell[2]
  <2>1. /\ t \in Dom /\ h \in Dom /\ t \in 0..(NumDomains - 1) /\ h \in 0..(NumDomains - 1)
        /\ cell = <<t, h>>
    BY <1>1, DomainsAssumption DEF SweepCell, PassOver, SweepInv, SweepTypeOK, Dom
  <2>2. /\ matrix' = IF Orphan(h, t) THEN [matrix EXCEPT ![<<h, t>>] = Absent] ELSE matrix
        /\ changed' = (changed \/ Orphan(h, t))
        /\ cell' = IF h + 1 < NumDomains THEN <<t, h + 1>> ELSE <<t + 1, 0>>
        /\ start' = start
    BY <1>1 DEF SweepCell, NextCell
  <2> HIDE DEF t, h
  <2>3. matrix' \in [Edge -> Control] /\ Swept(matrix') = Swept(start)
    BY <2>1, <2>2, OrphanRemoved DEF SweepInv, SweepTypeOK, Orphan
  <2>4. cell' \in (0..NumDomains) \X Dom
    BY <2>1, <2>2, DomainsAssumption DEF Dom
  <2>5. changed' \in BOOLEAN
    BY <2>2 DEF SweepInv, SweepTypeOK, Orphan
  <2>6. ASSUME ~changed', NEW k \in Dom, NEW u \in Dom, Passed(u, k)'
        PROVE  ~Orphan(k, u)'
    <3>1. ~changed /\ ~Orphan(h, t) /\ matrix' = matrix
      BY <2>2, <2>6
    <3>2. Passed(u, k) \/ (k = h /\ u = t)
      BY <2>1, <2>2, <2>6, DomainsAssumption DEF Passed, Dom
    <3>3. ~Orphan(k, u)
      BY <3>1, <3>2 DEF SweepInv
    <3> QED BY <3>1, <3>3 DEF Orphan
  <2> QED BY <2>2, <2>3, <2>4, <2>5, <2>6 DEF SweepInv, SweepTypeOK
<1>2. CASE SweepAgain
  <2>1. /\ start' = start /\ matrix' = matrix /\ cell' = <<0, 0>> /\ changed' = FALSE
    BY <1>2 DEF SweepAgain
  <2>2. \A k, u \in Dom : ~Passed(u, k)'
    BY <2>1 DEF Passed, Dom
  <2>3. cell' \in (0..NumDomains) \X Dom
    <3>1. 0 \in Dom /\ 0 \in 0..NumDomains
      BY DomainsAssumption DEF SweepInv, SweepTypeOK, Dom
    <3> QED BY <2>1, <3>1
  <2> QED BY <2>1, <2>2, <2>3 DEF SweepInv, SweepTypeOK
<1>3. CASE UNCHANGED sweepVars
  BY <1>3 DEF sweepVars, SweepInv, SweepTypeOK, Passed, Orphan
<1> QED BY <1>1, <1>2, <1>3 DEF SweepNext

(* When the sweep returns it has removed exactly the edges Swept removes, in *)
(* whatever order the cells lie along the delegation chains.                 *)
THEOREM SweepAlwaysExact == SweepSpec => []SweepExact
<1>1. SweepInit => SweepInv
  BY SweepInitInv
<1>2. SweepInv /\ [SweepNext]_sweepVars => SweepInv'
  BY SweepStepInv
<1>3. SweepInv => SweepExact
  <2> SUFFICES ASSUME SweepInv, Returned PROVE matrix = Swept(start)
    BY DEF SweepExact
  <2>1. \A h, t \in Dom : ~Orphan(h, t)
    BY DomainsAssumption DEF Returned, PassOver, SweepInv, Passed, Dom
  <2> QED BY <2>1, NoOrphanNoSweep DEF SweepInv, SweepTypeOK, Orphan
<1> QED BY <1>1, <1>2, <1>3, PTL DEF SweepSpec

-----------------------------------------------------------------------------
(* The upward walk of control_subtree_contains.  Everything below holds of   *)
(* any matrix: the bound of the walk is enough because a shortest way up to  *)
(* a domain passes no domain twice.                                          *)

(* A set of naturals that is not empty has a least element.                  *)
LEMMA LeastExists ==
    ASSUME NEW S \in SUBSET Nat, S # {}
    PROVE  \E x \in S : \A y \in S : x <= y
<1>1. PICK x \in S : \A y \in S : ~(<<y, x>> \in OpToRel(<, Nat))
  BY NatLessThanWellFounded, WFMin
<1>2. \A y \in S : ~(y < x)
  BY <1>1 DEF OpToRel
<1> QED BY <1>2

(* f is the walk from n over target t, as far as place m.                    *)
IsWalk(f, ct, n, t, m) ==
    f = [k \in 0..m |-> IF k = 0 THEN n ELSE
                        IF f[k - 1] \in Dom THEN ct[<<f[k - 1], t>>] ELSE Absent]

(* There is a walk of every length.                                          *)
LEMMA WalkExists ==
    ASSUME NEW ct, NEW n, NEW t, NEW m \in Nat
    PROVE  \E f : IsWalk(f, ct, n, t, m)
<1> DEFINE bad == {k \in Nat : ~\E f : IsWalk(f, ct, n, t, k)}
<1>1. SUFFICES ASSUME bad # {} PROVE FALSE
  OBVIOUS
<1>2. PICK k \in bad : \A y \in bad : k <= y
  BY <1>1, LeastExists
<1>3. k # 0
  <2> DEFINE f == [i \in 0..0 |-> n]
  <2>1. \A i \in 0..0 : i = 0
    OBVIOUS
  <2>2. IsWalk(f, ct, n, t, 0)
    BY <2>1 DEF IsWalk
  <2> QED BY <2>2
<1>4. k - 1 \in Nat /\ k - 1 \notin bad
  BY <1>2, <1>3
<1>5. PICK g : IsWalk(g, ct, n, t, k - 1)
  BY <1>4
<1> DEFINE up(x) == IF x \in Dom THEN ct[<<x, t>>] ELSE Absent
           f == [i \in 0..k |-> IF i = k THEN up(g[k - 1]) ELSE g[i]]
<1>6. \A i \in 0..(k - 1) : g[i] = IF i = 0 THEN n ELSE up(g[i - 1])
  BY <1>5 DEF IsWalk
<1> HIDE DEF up
<1>7. \A i \in 0..k : f[i] = IF i = 0 THEN n ELSE up(f[i - 1])
  BY <1>3, <1>4, <1>6
<1>8. f = [i \in 0..k |-> f[i]]
  OBVIOUS
<1> HIDE DEF f
<1>9. f = [i \in 0..k |-> IF i = 0 THEN n ELSE up(f[i - 1])]
  BY <1>7, <1>8
<1>10. IsWalk(f, ct, n, t, k)
  BY <1>9 DEF IsWalk, up
<1> QED BY <1>10

(* f follows the provenance marks up from n, place by place.                 *)
Follows(f, ct, n, t) ==
    /\ f[0] = n
    /\ \A i \in 1..NumDomains :
          f[i] = IF f[i - 1] \in Dom THEN ct[<<f[i - 1], t>>] ELSE Absent

(* The model's walk is one, place by place.                                  *)
LEMMA WalkContainsMeets ==
    ASSUME NEW ct, NEW c, NEW n, NEW t
    PROVE  \E f : /\ Follows(f, ct, n, t)
                  /\ WalkContains(ct, c, n, t) <=> \E k \in 0..NumDomains : f[k] = c
<1> DEFINE f == CHOOSE x : IsWalk(x, ct, n, t, NumDomains)
<1>1. IsWalk(f, ct, n, t, NumDomains)
  BY WalkExists, DomainsAssumption
<1>2. WalkContains(ct, c, n, t) <=> \E k \in 0..NumDomains : f[k] = c
  BY Zenon DEF WalkContains, IsWalk
<1> HIDE DEF f
<1>3. \A k \in 0..NumDomains : f[k] = IF k = 0 THEN n ELSE
                                      IF f[k - 1] \in Dom THEN ct[<<f[k - 1], t>>] ELSE Absent
  BY <1>1 DEF IsWalk
<1>4. f[0] = n
  <2>1. \A k \in 0..NumDomains : k = 0 => f[k] = n
    BY <1>3
  <2>2. 0 \in 0..NumDomains
    BY DomainsAssumption
  <2> QED BY <2>1, <2>2
<1>5. \A k \in 1..NumDomains :
          f[k] = IF f[k - 1] \in Dom THEN ct[<<f[k - 1], t>>] ELSE Absent
  BY <1>3, DomainsAssumption
<1>6. Follows(f, ct, n, t)
  BY <1>4, <1>5 DEF Follows
<1> QED BY <1>2, <1>6

(* A way up of length k from n to c, over domains only.                      *)
IsPath(f, ct, c, n, t, k) ==
    /\ f \in [0..k -> Dom] /\ f[0] = n /\ f[k] = c
    /\ \A i \in 1..k : f[i] = ct[<<f[i - 1], t>>]

(* Along a path the walk goes from place to place, so it meets its end.      *)
LEMMA PathIsWalked ==
    ASSUME NEW ct, NEW c \in Dom, NEW n \in Dom, NEW t, NEW k \in 0..NumDomains,
           NEW p, IsPath(p, ct, c, n, t, k),
           NEW f, Follows(f, ct, n, t)
    PROVE  f[k] = c
<1> DEFINE off == {i \in 0..k : f[i] # p[i]}
<1>1. k \in Nat /\ off \in SUBSET Nat
  BY DomainsAssumption
<1>2. SUFFICES off = {}
  <2>1. k \in 0..k /\ p[k] = c
    BY <1>1 DEF IsPath
  <2> QED BY <1>2, <2>1
<1>3. SUFFICES ASSUME off # {} PROVE FALSE
  OBVIOUS
<1>4. PICK i \in off : \A y \in off : i <= y
  BY <1>1, <1>3, LeastExists
<1>5. i # 0
  BY <1>1, <1>4 DEF IsPath, Follows
<1>6. i - 1 \in 0..k /\ i \in 1..k /\ i \in 1..NumDomains
  BY <1>1, <1>4, <1>5, DomainsAssumption
<1>7. f[i - 1] = p[i - 1]
  BY <1>1, <1>4, <1>6
<1>8. p[i - 1] \in Dom /\ p[i] = ct[<<p[i - 1], t>>]
  BY <1>6 DEF IsPath
<1>9. f[i] = p[i]
  BY <1>6, <1>7, <1>8 DEF Follows
<1> QED BY <1>4, <1>9

(* A path with a domain twice on it has a shortcut.                          *)
LEMMA PathShortened ==
    ASSUME NEW ct, NEW c, NEW n, NEW t, NEW k \in Nat, NEW p, IsPath(p, ct, c, n, t, k),
           NEW i \in 0..k, NEW j \in 0..k, i < j, p[i] = p[j]
    PROVE  \E l \in Nat : l < k /\ \E q : IsPath(q, ct, c, n, t, l)
<1> DEFINE s == j - i
           l == k - s
           q == [m \in 0..l |-> IF m <= i THEN p[m] ELSE p[m + s]]
<1>1. s \in Nat /\ l \in Nat /\ l < k /\ i <= l /\ 0 \in 0..l /\ l \in 0..l
  OBVIOUS
<1>2. \A m \in 0..l : /\ m <= i => m \in 0..k
                      /\ m > i => m + s \in 0..k
  OBVIOUS
<1>3. /\ p \in [0..k -> Dom] /\ p[0] = n /\ p[k] = c
      /\ \A m \in 1..k : p[m] = ct[<<p[m - 1], t>>]
  BY DEF IsPath
<1>4. q \in [0..l -> Dom]
  BY <1>2, <1>3
<1>5. q[0] = n
  BY <1>1, <1>3
<1>6. q[l] = c
  <2>1. CASE l <= i
    <3>1. l = i /\ k = j
      BY <1>1, <2>1
    <3> QED BY <1>1, <1>3, <3>1
  <2>2. CASE ~(l <= i)
    <3>1. l + s = k
      OBVIOUS
    <3> QED BY <1>1, <1>3, <2>2, <3>1
  <2> QED BY <2>1, <2>2
<1>7. ASSUME NEW m \in 1..l PROVE q[m] = ct[<<q[m - 1], t>>]
  <2>1. m \in 0..l /\ m - 1 \in 0..l /\ m \in Nat
    BY <1>1, <1>7
  <2>2. CASE m <= i
    <3>1. q[m] = p[m] /\ q[m - 1] = p[m - 1] /\ m \in 1..k
      BY <2>1, <2>2
    <3> QED BY <1>3, <3>1
  <2>3. CASE m = i + 1
    <3>1. q[m] = p[m + s] /\ q[m - 1] = p[i] /\ m + s = j + 1 /\ m + s \in 1..k
      BY <1>1, <2>1, <2>3
    <3>2. p[m + s] = ct[<<p[j], t>>]
      <4>1. p[m + s] = ct[<<p[(m + s) - 1], t>>] /\ (m + s) - 1 = j
        BY <1>3, <3>1
      <4> QED BY <4>1
    <3> QED BY <3>1, <3>2
  <2>4. CASE m > i + 1
    <3>1. /\ q[m] = p[m + s] /\ q[m - 1] = p[(m - 1) + s] /\ m + s \in 1..k
          /\ (m - 1) + s = (m + s) - 1
      BY <1>1, <2>1, <2>4
    <3> QED BY <1>3, <3>1
  <2> QED BY <1>7, <2>1, <2>2, <2>3, <2>4
<1> HIDE DEF q
<1>8. IsPath(q, ct, c, n, t, l)
  BY <1>4, <1>5, <1>6, <1>7 DEF IsPath
<1> QED BY <1>1, <1>8

(* Where there is a path there is one within the bound of the walk.          *)
LEMMA PathWithinBound ==
    ASSUME NEW ct, NEW c, NEW n, NEW t, NEW k \in Nat, NEW p, IsPath(p, ct, c, n, t, k)
    PROVE  \E l \in 0..NumDomains : \E q : IsPath(q, ct, c, n, t, l)
<1> DEFINE lengths == {l \in Nat : \E q : IsPath(q, ct, c, n, t, l)}
<1>1. PICK l \in lengths : \A y \in lengths : l <= y
  <2>1. k \in lengths
    OBVIOUS
  <2> HIDE DEF lengths
  <2>2. lengths \in SUBSET Nat
    BY DEF lengths
  <2> QED BY <2>1, <2>2, LeastExists
<1>2. PICK q : IsPath(q, ct, c, n, t, l)
  BY <1>1
<1>3. \A i, j \in 0..l : q[i] = q[j] => i = j
  <2> SUFFICES ASSUME NEW i \in 0..l, NEW j \in 0..l, q[i] = q[j], i < j
               PROVE  FALSE
    OBVIOUS
  <2>1. PICK m \in Nat : m < l /\ \E r : IsPath(r, ct, c, n, t, m)
    BY <1>1, <1>2, PathShortened
  <2> QED BY <1>1, <2>1
<1>4. l < NumDomains
  <2> SUFFICES ASSUME ~(l < NumDomains) PROVE FALSE
    OBVIOUS
  <2>1. IsFiniteSet(0..l) /\ Cardinality(0..l) = l + 1
    BY <1>1, FS_Interval
  <2>2. IsFiniteSet(Dom) /\ Cardinality(Dom) = NumDomains
    <3>1. 0 \in Int /\ NumDomains - 1 \in Int
      BY DomainsAssumption
    <3>2. IsFiniteSet(Dom) /\ Cardinality(Dom) = IF 0 > NumDomains - 1 THEN 0 ELSE (NumDomains - 1) - 0 + 1
      BY <3>1, FS_Interval DEF Dom
    <3> QED BY <3>2, DomainsAssumption
  <2>3. Cardinality(Dom) < Cardinality(0..l)
    BY <1>1, <2>1, <2>2, DomainsAssumption
  <2>4. q \in [0..l -> Dom]
    BY <1>2 DEF IsPath
  <2> QED BY <1>3, <2>1, <2>2, <2>3, <2>4, FS_PigeonHole
<1> QED BY <1>1, <1>2, <1>4, DomainsAssumption

(* Everyone below c has a path up to c: those who have one are c and whoever *)
(* was delegated to from among them.                                         *)
LEMMA SubtreeHasPath ==
    ASSUME NEW ct, NEW c \in Dom, NEW t \in Dom, NEW n \in Subtree(ct, c, t)
    PROVE  \E k \in Nat : \E p : IsPath(p, ct, c, n, t, k)
<1> DEFINE K == {x \in Dom : \E k \in Nat : \E p : IsPath(p, ct, c, x, t, k)}
<1>1. c \in K
  <2> DEFINE p == [i \in 0..0 |-> c]
  <2>1. p \in [0..0 -> Dom] /\ p[0] = c /\ 0 \in Nat /\ 1..0 = {}
    OBVIOUS
  <2> HIDE DEF p
  <2>2. IsPath(p, ct, c, c, t, 0)
    BY <2>1 DEF IsPath
  <2> QED BY <2>1, <2>2
<1>2. ASSUME NEW h \in Dom, ct[<<h, t>>] \in K PROVE h \in K
  <2>1. PICK k \in Nat : \E p : IsPath(p, ct, c, ct[<<h, t>>], t, k)
    BY <1>2
  <2>0. PICK p : IsPath(p, ct, c, ct[<<h, t>>], t, k)
    BY <2>1
  <2> DEFINE q == [i \in 0..(k + 1) |-> IF i = 0 THEN h ELSE p[i - 1]]
  <2>2. /\ p \in [0..k -> Dom] /\ p[0] = ct[<<h, t>>] /\ p[k] = c
        /\ \A i \in 1..k : p[i] = ct[<<p[i - 1], t>>]
    BY <2>0 DEF IsPath
  <2>3. \A i \in 0..(k + 1) : i # 0 => i - 1 \in 0..k
    OBVIOUS
  <2>4. q \in [0..(k + 1) -> Dom] /\ q[0] = h
    BY <2>2, <2>3
  <2>5. q[k + 1] = c
    <3>1. k + 1 \in 0..(k + 1) /\ k + 1 # 0 /\ (k + 1) - 1 = k
      OBVIOUS
    <3> QED BY <2>2, <3>1
  <2>6. ASSUME NEW i \in 1..(k + 1) PROVE q[i] = ct[<<q[i - 1], t>>]
    <3>1. i \in 0..(k + 1) /\ i # 0 /\ i - 1 \in 0..(k + 1) /\ q[i] = p[i - 1]
      BY <2>6
    <3>2. CASE i = 1
      BY <2>2, <2>4, <3>1, <3>2
    <3>3. CASE i # 1
      <4>1. q[i - 1] = p[(i - 1) - 1] /\ i - 1 \in 1..k
        BY <2>6, <3>1, <3>3
      <4> QED BY <2>2, <3>1, <4>1
    <3> QED BY <3>2, <3>3
  <2> HIDE DEF q
  <2>7. IsPath(q, ct, c, h, t, k + 1) /\ k + 1 \in Nat
    BY <2>4, <2>5, <2>6 DEF IsPath
  <2> QED BY <1>2, <2>7
<1>3. K \in SUBSET Dom
  OBVIOUS
<1> HIDE DEF K
<1>4. n \in K
  BY <1>1, <1>2, <1>3 DEF Subtree
<1> QED BY <1>4 DEF K

(* Whoever meets c on the way up is below c: walking down again from c, each *)
(* domain met was delegated to by the one above it.                          *)
LEMMA WalkedIsBelow ==
    ASSUME NEW ct, NEW c \in Dom, NEW n \in Dom, NEW t \in Dom,
           NEW f, Follows(f, ct, n, t),
           NEW k \in 0..NumDomains, f[k] = c
    PROVE  n \in Subtree(ct, c, t)
<1> SUFFICES ASSUME NEW K \in SUBSET Dom, c \in K,
                    \A h \in Dom : ct[<<h, t>>] \in K => h \in K
             PROVE  n \in K
  BY DEF Subtree
<1> DEFINE in == {i \in 0..k : f[i] \in K}
<1>1. k \in in /\ in \in SUBSET Nat
  BY DomainsAssumption
<1>2. PICK i \in in : \A y \in in : i <= y
  BY <1>1, LeastExists
<1>3. i = 0
  <2> SUFFICES ASSUME i # 0 PROVE FALSE
    OBVIOUS
  <2>1. i \in 1..NumDomains /\ i - 1 \in 0..k
    BY <1>2, DomainsAssumption
  <2>2. f[i] \in Dom /\ f[i] \in K /\ Absent \notin Dom
    BY <1>2, ProvenanceFacts
  <2>3. f[i - 1] \in Dom /\ f[i] = ct[<<f[i - 1], t>>]
    BY <2>1, <2>2 DEF Follows
  <2>4. i - 1 \in in
    BY <2>1, <2>2, <2>3
  <2> QED BY <1>1, <1>2, <2>4
<1> QED BY <1>2, <1>3 DEF Follows

(* The bounded walk decides membership in the delegated subtree, for every   *)
(* number of domains, on every matrix and so at every point of the sweep     *)
(* (control_subtree_contains: its bound is never what ends a walk that would *)
(* have found the ancestor).                                                 *)
THEOREM WalkAlwaysDecides == SweepSpec => []WalkDecidesSubtree
<1>1. WalkDecidesSubtree
  <2> SUFFICES ASSUME NEW c \in Dom, NEW n \in Dom, NEW t \in Dom
               PROVE  WalkContains(matrix, c, n, t) <=> n \in Subtree(matrix, c, t)
    BY DEF WalkDecidesSubtree
  <2>1. PICK f : /\ Follows(f, matrix, n, t)
                 /\ WalkContains(matrix, c, n, t) <=> \E k \in 0..NumDomains : f[k] = c
    BY WalkContainsMeets
  <2>2. ASSUME NEW k \in 0..NumDomains, f[k] = c PROVE n \in Subtree(matrix, c, t)
    BY <2>1, <2>2, WalkedIsBelow
  <2>3. ASSUME n \in Subtree(matrix, c, t) PROVE \E k \in 0..NumDomains : f[k] = c
    <3>1. PICK k \in Nat : \E p : IsPath(p, matrix, c, n, t, k)
      BY <2>3, SubtreeHasPath
    <3>2. PICK l \in 0..NumDomains : \E q : IsPath(q, matrix, c, n, t, l)
      BY <3>1, PathWithinBound
    <3>3. PICK q : IsPath(q, matrix, c, n, t, l)
      BY <3>2
    <3>4. f[l] = c
      BY <2>1, <3>3, PathIsWalked
    <3> QED BY <3>4
  <2> QED BY <2>1, <2>2, <2>3
<1> QED BY <1>1, PTL
=============================================================================
