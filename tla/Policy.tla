------------------------------- MODULE Policy -------------------------------
(* hv-core/src/policy.rs: the scheduler that picks.  advance folds in the    *)
(* wake-ups since the last call, then enacts next's decision through the     *)
(* mechanism of Sched until nothing is left to do.  The loop is one call in  *)
(* the code; here each turn of it is a step, and no other call falls inside. *)
EXTENDS Sched, FiniteSetsExt

CONSTANTS Quantum,      \* Scheduler.quantum
          MaxWeight     \* the largest weight: u32::MAX in the code

ASSUME PolicyAssumption == Quantum \in Nat /\ MaxWeight \in Nat \ {0}

VARIABLES weights, offset, was_schedulable, wake_boost,     \* Scheduler
          clock,        \* the time of the present call
          left,         \* turns the running advance may still take; 0: none runs
          settled       \* advance has returned and nothing has happened since

policyVars == <<weights, offset, was_schedulable, wake_boost>>
callVars   == <<clock, left, settled>>
allVars    == <<schedVars, policyVars, callVars>>

Weight == 1..MaxWeight      \* set_weight clamps a weight of 0 up to 1

PolicyInit ==
    /\ SchedInit
    /\ weights = [x \in VcpuId |-> 1] /\ offset = [x \in VcpuId |-> 0]
    /\ was_schedulable = [x \in VcpuId |-> FALSE] /\ wake_boost = TRUE
    /\ clock = 0 /\ left = 0 /\ settled = FALSE

-----------------------------------------------------------------------------
\* schedulable
Schedulable(x) == runstate[x] = Runnable \/ IsRunning(x)

\* share: the run time closed and in flight, plus the wake-boost offset.
\* more_deserving: less of it per weight, compared by cross-multiplication.
InFlight(x, now) == IF IsRunning(x) /\ now > dispatched_at[x] THEN now - dispatched_at[x] ELSE 0
Service(x, now)  == runtime[x] + InFlight(x, now) + offset[x]
MoreDeserving(x, y, now) == Service(x, now) * weights[y] < Service(y, now) * weights[x]

\* The scan order of the loops over (dom, vcpu): a tie keeps the earlier one.
Earlier(x, y) == x[1] < y[1] \/ (x[1] = y[1] /\ x[2] < y[2])
MostDeserving(S, now) ==
    CHOOSE x \in S : \A y \in S \ {x} :
        MoreDeserving(x, y, now) \/ (~MoreDeserving(y, x, now) /\ Earlier(x, y))
LeastDeserving(S, now) ==
    CHOOSE x \in S : \A y \in S \ {x} :
        MoreDeserving(y, x, now) \/ (~MoreDeserving(x, y, now) /\ Earlier(x, y))

\* Mutant of IdleFor: consults no affinity mask.
IdleForAnyMask(x) == {p \in Pcpu : pcpus[p] = Idle}

\* first_idle_pcpu_for, best_placement: a waiter, and a free pCPU it may use.
IdleFor(x) == {p \in Pcpu : pcpus[p] = Idle /\ p \in affinity[x]}

\* Mutant of Placeable: ranks first and asks for a usable pCPU second.
PlaceableFrontRunner ==
    LET waiting == {x \in VcpuId : runstate[x] = Runnable}
    IN  {x \in waiting : IdleFor(x) # {} /\ x = MostDeserving(waiting, clock)}

Placeable == {x \in VcpuId : runstate[x] = Runnable /\ IdleFor(x) # {}}

\* some_affine_waiter_beats, best_preemption: a runner past its time slice
\* whose pCPU a strictly more deserving waiter may use.
Evictable(now) ==
    {x \in VcpuId :
        /\ IsRunning(x) /\ InFlight(x, now) >= Quantum
        /\ \E y \in VcpuId : /\ runstate[y] = Runnable /\ runstate[x].pcpu \in affinity[y]
                             /\ MoreDeserving(y, x, now)}

\* account, pass 1: the pack that stayed schedulable since the last call.
Pack == {x \in VcpuId : Schedulable(x) /\ was_schedulable[x]}
Woke(x) == Schedulable(x) /\ ~was_schedulable[x]

\* account, pass 2: a waker is placed at the pack's floor, rounded down to a
\* whole tick, by an offset over its raw run time.
OffsetAfter(x, now) ==
    IF Woke(x) /\ wake_boost /\ Pack # {}
    THEN LET f      == MostDeserving(Pack, now)
             target == (Service(f, now) * weights[x]) \div weights[f]
         IN  IF target > runtime[x] THEN target - runtime[x] ELSE 0
    ELSE offset[x]

\* Mutant of Limit: a placement per pCPU, no turns for the preemptions.
LimitNoMargin == NumPcpus

\* The bound on the turns of one advance.
Limit == Cardinality(VcpuId) + 2 * NumPcpus + 1

-----------------------------------------------------------------------------
\* The clock every call is given: monotone, as the counter of the metal is.
Tick ==
    /\ left = 0 /\ clock < MaxTicks
    /\ clock' = clock + 1 /\ settled' = FALSE
    /\ UNCHANGED <<schedVars, policyVars, left>>

\* advance: account, then enter the loop.
AdvanceBegin ==
    /\ left = 0
    /\ offset' = [x \in VcpuId |-> OffsetAfter(x, clock)]
    /\ was_schedulable' = [x \in VcpuId |-> Schedulable(x)]
    /\ left' = Limit /\ settled' = FALSE
    /\ UNCHANGED <<schedVars, weights, wake_boost, clock>>

\* A turn of the loop has been used; the last one ends the call.
Turn == left' = left - 1 /\ settled' = (left = 1)

\* next, rule 1: the most deserving placeable vCPU, on its lowest free pCPU.
AdvanceRun ==
    /\ left > 0
    /\ \E x \in Placeable, p \in Pcpu :
           /\ x = MostDeserving(Placeable, clock) /\ p = Min(IdleFor(x))
           /\ Run(x, p, clock)
    /\ Turn
    /\ UNCHANGED <<policyVars, clock>>

\* next, rule 2: no placement left, so the least deserving evictable runner.
AdvancePreempt ==
    /\ left > 0 /\ Placeable = {}
    /\ \E x \in Evictable(clock) :
           x = LeastDeserving(Evictable(clock), clock) /\ Preempt(x, clock)
    /\ Turn
    /\ UNCHANGED <<policyVars, clock>>

\* next, rule 3: Idle ends the call.
AdvanceIdle ==
    /\ left > 0 /\ Placeable = {} /\ Evictable(clock) = {}
    /\ left' = 0 /\ settled' = TRUE
    /\ UNCHANGED <<schedVars, policyVars, clock>>

Advance == AdvanceRun \/ AdvancePreempt \/ AdvanceIdle

\* Any other call to the mechanism, between two calls of advance.
Mechanism ==
    /\ left = 0
    /\ \E x \in VcpuId :
          \/ Admit(x) \/ Wake(x)
          \/ Block(x, clock) \/ Preempt(x, clock) \/ TakeOffline(x, clock)
          \/ \E mask \in SUBSET (0..(MaskWidth - 1)) : SetAffinity(x, mask)
    /\ settled' = FALSE
    /\ UNCHANGED <<policyVars, clock, left>>

\* set_weight, at any time.  A standing offset is not re-scaled, so repeated
\* changes can make offsets grow without limit.
SetWeight(x, w) ==
    /\ left = 0
    /\ weights' = [weights EXCEPT ![x] = w]
    /\ settled' = FALSE
    /\ UNCHANGED <<schedVars, offset, was_schedulable, wake_boost, clock, left>>

\* set_wake_boost: also forgets every offset.
SetWakeBoost(enabled) ==
    /\ left = 0
    /\ wake_boost' = enabled /\ offset' = [x \in VcpuId |-> 0]
    /\ settled' = FALSE
    /\ UNCHANGED <<schedVars, weights, was_schedulable, clock, left>>

PolicyNext ==
    \/ AdvanceBegin \/ Advance \/ Mechanism \/ Tick
    \/ \E x \in VcpuId, w \in Weight : SetWeight(x, w)
    \/ \E enabled \in BOOLEAN : SetWakeBoost(enabled)

\* advance's loop is straight-line code: once entered it takes its turns.
PolicySpec == PolicyInit /\ [][PolicyNext]_allVars /\ WF_allVars(Advance)

-----------------------------------------------------------------------------
(* Work conservation: when advance has settled, no pCPU is idle while a      *)
(* Runnable vCPU's affinity admits it, whatever was blocked, woken, pinned   *)
(* or re-weighted before the call.                                           *)
WorkConserving ==
    settled => \A x \in VcpuId : runstate[x] = Runnable =>
                   \A p \in affinity[x] : pcpus[p] # Idle

(* advance returns at a fixpoint of next and never because it ran out of     *)
(* turns: no expired runner keeps a pCPU from a more deserving waiter.       *)
SettledIsFixpoint == settled => Placeable = {} /\ Evictable(clock) = {}

(* advance returns: every turn of the loop has a decision the mechanism      *)
(* accepts, so the call neither hangs nor spins.                             *)
AdvanceReturns == left > 0 ~> left = 0
=============================================================================
