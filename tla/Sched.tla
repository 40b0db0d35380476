------------------------------- MODULE Sched -------------------------------
(* hv-core/src/sched.rs: the scheduler mechanism.  Where every vCPU is, how  *)
(* long it has run, which physical CPUs it may use, and who occupies each    *)
(* physical CPU.  A call with bad ids or from a wrong state returns an error *)
(* before it writes anything, so a refusal is a stuttering step.             *)
EXTENDS Domains

CONSTANTS NumPcpus,     \* number of physical CPUs
          MaskWidth,    \* bits of an affinity mask: 64 in the code
          MaxTicks      \* the largest value of Ticks: u64::MAX in the code

ASSUME SchedAssumption ==
    NumPcpus \in Nat /\ MaskWidth \in Nat /\ MaxTicks \in Nat

VARIABLES runstate,       \* VirtualCpu.state of every vCPU
          runtime,        \* VirtualCpu.runtime
          dispatched_at,  \* VirtualCpu.dispatched_at
          affinity,       \* VirtualCpu.affinity, as the set of its set bits
          pcpus           \* the occupancy table

schedVars == <<runstate, runtime, dispatched_at, affinity, pcpus>>

Pcpu  == 0..(NumPcpus - 1)
Ticks == 0..MaxTicks

\* RunState: exactly one variant at any time; only Running names a pCPU.
Offline    == [kind |-> "Offline",  pcpu |-> -1]
Runnable   == [kind |-> "Runnable", pcpu |-> -1]
Blocked    == [kind |-> "Blocked",  pcpu |-> -1]
Running(p) == [kind |-> "Running",  pcpu |-> p]
RunState   == {Offline, Runnable, Blocked} \cup {Running(p) : p \in Pcpu}

Idle == <<-1, -1>>      \* an unoccupied entry of the occupancy table

IsRunning(x) == runstate[x].kind = "Running"

\* full_mask: every pCPU a mask of MaskWidth bits can name.
FullMask == {p \in Pcpu : p < MaskWidth}

\* account: close the current on-CPU interval into runtime.  Both operations
\* saturate, so a clock that ran backwards adds nothing and nothing wraps.
Accounted(x, now) ==
    LET delta == IF now > dispatched_at[x] THEN now - dispatched_at[x] ELSE 0
    IN  IF runtime[x] + delta > MaxTicks THEN MaxTicks ELSE runtime[x] + delta

SchedInit ==
    /\ runstate      = [x \in VcpuId |-> Offline]
    /\ runtime       = [x \in VcpuId |-> 0]
    /\ dispatched_at = [x \in VcpuId |-> 0]
    /\ affinity      = [x \in VcpuId |-> FullMask]
    /\ pcpus         = [p \in Pcpu |-> Idle]

-----------------------------------------------------------------------------
\* admit: Offline -> Runnable.
Admit(x) ==
    /\ runstate[x] = Offline
    /\ runstate' = [runstate EXCEPT ![x] = Runnable]
    /\ UNCHANGED <<runtime, dispatched_at, affinity, pcpus>>

\* run: dispatch a Runnable vCPU onto an idle pCPU its affinity permits.
Run(x, p, now) ==
    /\ runstate[x] = Runnable
    /\ p \in affinity[x]
    /\ pcpus[p] = Idle
    /\ runstate' = [runstate EXCEPT ![x] = Running(p)]
    /\ dispatched_at' = [dispatched_at EXCEPT ![x] = now]
    /\ pcpus' = [pcpus EXCEPT ![p] = x]
    /\ UNCHANGED <<runtime, affinity>>

\* What preempt, block and offline share: a Running vCPU has its interval
\* closed and its pCPU freed; any other keeps the accounting as it is.
LeaveCpu(x, now) ==
    IF IsRunning(x)
    THEN /\ runtime' = [runtime EXCEPT ![x] = Accounted(x, now)]
         /\ pcpus' = [pcpus EXCEPT ![runstate[x].pcpu] = Idle]
    ELSE UNCHANGED <<runtime, pcpus>>

\* preempt: Running -> Runnable.
Preempt(x, now) ==
    /\ IsRunning(x)
    /\ LeaveCpu(x, now)
    /\ runstate' = [runstate EXCEPT ![x] = Runnable]
    /\ UNCHANGED <<dispatched_at, affinity>>

\* block: Running or Runnable -> Blocked.
Block(x, now) ==
    /\ IsRunning(x) \/ runstate[x] = Runnable
    /\ LeaveCpu(x, now)
    /\ runstate' = [runstate EXCEPT ![x] = Blocked]
    /\ UNCHANGED <<dispatched_at, affinity>>

\* wake: Blocked -> Runnable; the CPU itself comes from a later run.
Wake(x) ==
    /\ runstate[x] = Blocked
    /\ runstate' = [runstate EXCEPT ![x] = Runnable]
    /\ UNCHANGED <<runtime, dispatched_at, affinity, pcpus>>

\* set_affinity: the mask is cut down to the real pCPUs; refused (NotAffine)
\* when it would exclude the pCPU the vCPU is running on.
SetAffinity(x, mask) ==
    /\ IsRunning(x) => runstate[x].pcpu \in mask \cap FullMask
    /\ affinity' = [affinity EXCEPT ![x] = mask \cap FullMask]
    /\ UNCHANGED <<runstate, runtime, dispatched_at, pcpus>>

\* offline: any live state -> Offline, back to the default affinity.
TakeOffline(x, now) ==
    /\ runstate[x] # Offline
    /\ LeaveCpu(x, now)
    /\ runstate' = [runstate EXCEPT ![x] = Offline]
    /\ affinity' = [affinity EXCEPT ![x] = FullMask]
    /\ UNCHANGED dispatched_at

\* Mutant of OfflineAll: takes the vCPUs down without freeing their pCPUs.
OfflineAllKeepsPcpus(d, now) ==
    LET online == {x \in VcpuId : x[1] = d /\ runstate[x] # Offline}
    IN  /\ runstate' = [x \in VcpuId |-> IF x \in online THEN Offline ELSE runstate[x]]
        /\ affinity' = [x \in VcpuId |-> IF x \in online THEN FullMask ELSE affinity[x]]
        /\ UNCHANGED <<runtime, dispatched_at, pcpus>>

\* offline_all: the loop of offline over the domain's vCPUs that are not
\* Offline already; those are skipped, whatever else they carry.
OfflineAll(d, now) ==
    LET online == {x \in VcpuId : x[1] = d /\ runstate[x] # Offline}
    IN  /\ runstate' = [x \in VcpuId |-> IF x \in online THEN Offline ELSE runstate[x]]
        /\ runtime' = [x \in VcpuId |-> IF x \in online /\ IsRunning(x)
                                        THEN Accounted(x, now) ELSE runtime[x]]
        /\ pcpus' = [p \in Pcpu |-> IF \E x \in online : runstate[x] = Running(p)
                                    THEN Idle ELSE pcpus[p]]
        /\ affinity' = [x \in VcpuId |-> IF x \in online THEN FullMask ELSE affinity[x]]
        /\ UNCHANGED dispatched_at

SchedNext ==
    \/ \E x \in VcpuId : Admit(x) \/ Wake(x)
    \/ \E x \in VcpuId, p \in Pcpu, now \in Ticks : Run(x, p, now)
    \/ \E x \in VcpuId, now \in Ticks :
           Preempt(x, now) \/ Block(x, now) \/ TakeOffline(x, now)
    \/ \E x \in VcpuId, mask \in SUBSET (0..(MaskWidth - 1)) : SetAffinity(x, mask)
    \/ \E d \in Dom, now \in Ticks : OfflineAll(d, now)

SchedSpec == SchedInit /\ [][SchedNext]_schedVars

-----------------------------------------------------------------------------
(* Every component of the scheduler state stays in its declared type: the    *)
(* clock arithmetic saturates within Ticks and a canonicalised mask names    *)
(* only real pCPUs.                                                          *)
SchedTypeOK ==
    /\ runstate \in [VcpuId -> RunState]
    /\ runtime \in [VcpuId -> Ticks]
    /\ dispatched_at \in [VcpuId -> Ticks]
    /\ affinity \in [VcpuId -> SUBSET FullMask]
    /\ pcpus \in [Pcpu -> VcpuId \cup {Idle}]

(* The headline invariant of sched.rs: a vCPU is Running { pcpu } if and     *)
(* only if that pCPU's occupant is exactly that vCPU.  The per-vCPU state    *)
(* and the occupancy table are two records of one fact, written by different *)
(* statements of run, preempt, block, offline and offline_all.               *)
Reciprocity ==
    \A x \in VcpuId, p \in Pcpu : runstate[x] = Running(p) <=> pcpus[p] = x

(* A Running vCPU is on a pCPU its hard-affinity mask permits, although the  *)
(* mask may be set by another caller at any moment between run and preempt.  *)
RunningOnAffinity == \A x \in VcpuId : IsRunning(x) => runstate[x].pcpu \in affinity[x]

(* Both together: who runs where is recorded once, and permitted.            *)
SchedSound == Reciprocity /\ RunningOnAffinity

(* A vCPU's accumulated run time never decreases, whatever the caller's      *)
(* clock does: it may jump backwards between run and preempt, and the sum    *)
(* may hit the width of the counter.                                         *)
RuntimeMonotonic == [][\A x \in VcpuId : runtime'[x] >= runtime[x]]_runtime

(* Run time is accrued only by leaving a CPU, and only by the vCPU that held *)
(* it: a vCPU whose runtime grows was Running, no longer is, and its pCPU is *)
(* idle after the step.                                                      *)
OnlyLeavingAccrues ==
    [][\A x \in VcpuId : runtime'[x] # runtime[x] =>
          /\ IsRunning(x) /\ ~IsRunning(x)'
          /\ pcpus'[runstate[x].pcpu] = Idle]_schedVars
=============================================================================
