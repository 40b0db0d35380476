---------------------------- MODULE LinuxRun -----------------------------
(***************************************************************************)
(* hv-metal's guest loop (linux.rs): every exception a guest takes to EL2, *)
(* from the moment run() enters the first guest.  One pCPU is shared by    *)
(* NumGuests guests of VcpusPerGuest vCPUs.  A vCPU is named by its packed *)
(* index (role.rs).  EL2 handles one exception at a time with interrupts   *)
(* masked, so a handler is one step; guests, timers and the interrupt      *)
(* controller act between handlers.                                        *)
(*                                                                         *)
(* A list register is NoLr or a record: the virtual INTID, Pending or      *)
(* Active, and whether it forwards the physical timer (HW).  hv-core is    *)
(* seen through the run states of its scheduler; a refused call parks.     *)
(***************************************************************************)
EXTENDS VirtGic, FiniteSetsExt

CONSTANTS
    NumGuests,
    NumLr,              \* list registers of the machine
    Sgis,               \* INTIDs guests use for inter-processor interrupts
    PeerFaultCap        \* MAX_PEER_FAULTS

ASSUME LinuxRunAssumption ==
    /\ NumGuests \in Nat \ {0}
    /\ NumLr \in Nat /\ NumLr >= 2
    /\ Sgis \subseteq 0 .. 15
    /\ PeerFaultCap \in Nat \ {0}

VTIMER == 27            \* gic::VTIMER_INTID, the guest's own timer
WitnessSpi == 33        \* WITNESS_SPI, the guest's UART

VARIABLES
    sched,      \* per vCPU, its run state in hv-core
    current,    \* CURRENT
    seeded,     \* VCPU_SEEDED
    retired,    \* RETIREMENT, per guest
    phase,      \* "Guest", "Over" (end_of_boot), or the park() the machine halted
                \* in: "PeerfaultFail" (handle_peer_fault) or "Parked" (any other)
    live,       \* the list registers of the machine
    saved,      \* per vCPU, the list registers in its VcpuCtx
    pending,    \* LINUX_PENDING, per vCPU
    uie,        \* ICH_HCR_EL2.UIE
    ppi,        \* the physical timer interrupt at the redistributor
    expired,    \* per vCPU, its timer deadline has passed (CNTV)
    gic,        \* VGIC, per guest
    witness,    \* per guest, SPI_WITNESS_ARMED and SPI_WITNESS_FIRED
    peerFaults, \* PEER_FAULTS, per guest
    header      \* per guest, its image header is still in its memory

linuxVars == <<sched, current, seeded, retired, phase, live, saved, pending, uie,
               ppi, expired, gic, witness, peerFaults, header>>

\* What a change of context leaves alone.
deviceVars == <<gic, expired, seeded, header>>

-----------------------------------------------------------------------------
(* Names (role.rs) *)

Guests == 0 .. NumGuests - 1
VcpuIds == 0 .. NumGuests * VcpusPerGuest - 1
GuestOf(v) == v \div VcpusPerGuest
AffinityOf(v) == v % VcpusPerGuest
OwnVcpus(v) == {w \in VcpuIds : GuestOf(w) = GuestOf(v)}
Boot(g) == g * VcpusPerGuest
NoVcpu == -1

\* The rotation that starts after v and ends with v, and its first Runnable vCPU.
Rotation(v) ==
    LET n == NumGuests * VcpusPerGuest
    IN  [k \in 1 .. n |-> (v + k) % n]
NextRunnable(st, v) ==
    LET steps == {k \in DOMAIN Rotation(v) : st[Rotation(v)[k]] = "Runnable"}
    IN  IF steps = {} THEN NoVcpu ELSE Rotation(v)[Min(steps)]

-----------------------------------------------------------------------------
(* List registers (vgic_cpuif.rs, gic.rs, pending.rs) *)

LrIds == 1 .. NumLr
NoLr == [id |-> NoVcpu, state |-> "Invalid", hw |-> FALSE]
EmptyBank == [k \in LrIds |-> NoLr]

PendingLr(id, hw) == [id |-> id, state |-> "Pending", hw |-> hw]
FreeLrs(bank) == {k \in LrIds : bank[k].state = "Invalid"}
Held(bank, st) == {bank[k].id : k \in {j \in LrIds : bank[j].state = st}}

\* place: the first free register takes the interrupt.
Placed(bank, lr) == [bank EXCEPT ![Min(FreeLrs(bank))] = lr]

\* Mutant of Demoted: the saved registers keep their claim on the timer.
ClaimsKept(bank) == bank

\* release_hardware_mappings: an occupied register keeps its interrupt and
\* loses its hold on the physical one.
Demoted(bank) == [k \in LrIds |-> [bank[k] EXCEPT !.hw = FALSE]]

\* flush_pending_to_lrs: the free registers, in order, take the waiting
\* interrupts, lowest first; the rest keep waiting.
Nth(set, n) == CHOOSE i \in set : Cardinality({j \in set : j < i}) = n
FlushedBank(bank, set) ==
    [k \in LrIds |->
        LET before == Cardinality({j \in FreeLrs(bank) : j < k})
        IN  IF k \in FreeLrs(bank) /\ before < Cardinality(set)
            THEN PendingLr(Nth(set, before), FALSE) ELSE bank[k]]
\* Mutant of FlushedSet: what finds no register is taken from the set all the
\* same.
LeftoversDropped(bank, set) == {}

FlushedSet(bank, set) ==
    {i \in set : Cardinality({j \in set : j < i}) >= Cardinality(FreeLrs(bank))}

-----------------------------------------------------------------------------
(* The physical timer interrupt, as the redistributor and the CPU interface *)
(* see it: EOImode is split, so an acknowledged interrupt stays Active until *)
(* it is deactivated, by EL2 or by the guest's EOI of a forwarding register. *)

PpiIdle(enabled) == [enabled |-> enabled, active |-> FALSE]
TimerSignalled == ppi.enabled /\ ~ppi.active /\ expired[current]

\* The underflow maintenance interrupt: at most one list register is in use.
MaintSignalled == uie /\ Cardinality(LrIds \ FreeLrs(live)) <= 1

TimerEnabled(v) == IsEnabled(gic[GuestOf(v)], AffinityOf(v), VTIMER)

-----------------------------------------------------------------------------
(* Scheduling (sched_on, wake_blocked_vcpus, switch_context) *)

CanRun(st, v) == st[v] = "Runnable" /\ \A w \in VcpuIds : st[w] # "Running"
Woken(st) == [v \in VcpuIds |-> IF st[v] = "Blocked" THEN "Runnable" ELSE st[v]]

Halt ==
    /\ phase' = "Parked"
    /\ UNCHANGED <<sched, current, live, saved, pending, uie, ppi>>

\* Mutant of SwitchContext: the underflow interrupt is left as the outgoing vCPU
\* had it.
SwitchKeepsUnderflow(next, st, pd) ==
    LET out == [saved EXCEPT ![current] = Demoted(live)]
    IN  /\ saved' = [out EXCEPT ![next] = EmptyBank]
        /\ live' = FlushedBank(out[next], pd[next])
        /\ pending' = [pd EXCEPT ![next] = FlushedSet(out[next], @)]
        /\ ppi' = PpiIdle(TimerEnabled(next))
        /\ current' = next
        /\ sched' = st
        /\ UNCHANGED <<phase, uie>>

\* Save and demote, hand the physical timer back, restore and flush the
\* incoming context, give it the timer if its own GIC enables it.  The bank
\* left in the context of the vCPU that now runs is not read again before the
\* next save, so it is forgotten here.
SwitchContext(next, st, pd) ==
    LET out == [saved EXCEPT ![current] = Demoted(live)]
    IN  IF ~seeded[next] THEN Halt
        ELSE /\ saved' = [out EXCEPT ![next] = EmptyBank]
             /\ live' = FlushedBank(out[next], pd[next])
             /\ pending' = [pd EXCEPT ![next] = FlushedSet(out[next], @)]
             /\ uie' = (pending'[next] # {})
             /\ ppi' = PpiIdle(TimerEnabled(next))
             /\ current' = next
             /\ sched' = st
             /\ UNCHANGED phase

\* scheduler_run, then the switch: st is the scheduler after the calls before.
HandOver(next, st, pd) ==
    IF CanRun(st, next) THEN SwitchContext(next, [st EXCEPT ![next] = "Running"], pd)
    ELSE Halt

-----------------------------------------------------------------------------
(* Interrupts taken to EL2 (handle_linux_irq) *)

\* Mutant of SliceExpires: sleepers are not woken when a slice ends.
SliceWithoutSweep ==
    /\ phase = "Guest"
    /\ LET st == [sched EXCEPT ![current] = "Runnable"]
       IN  HandOver(NextRunnable(st, current), st, pending)
    /\ UNCHANGED <<deviceVars, retired, witness, peerFaults>>

\* The slice EL2 gives itself on CNTHP runs out.  The timer is armed again by
\* every switch and by the expiry itself.
SliceExpires ==
    /\ phase = "Guest"
    /\ LET st == Woken([sched EXCEPT ![current] = "Runnable"])
       IN  IF sched[current] # "Running" THEN Halt
           ELSE HandOver(NextRunnable(st, current), st, pending)
    /\ UNCHANGED <<deviceVars, retired, witness, peerFaults>>

\* Mutant of TimerIrq: a tick that finds no register is deactivated.
TickDeactivated ==
    /\ phase = "Guest"
    /\ TimerSignalled
    /\ ppi' = IF ~TimerEnabled(current) THEN PpiIdle(FALSE)
              ELSE [ppi EXCEPT !.active = FreeLrs(live) # {}]
    /\ live' = IF TimerEnabled(current) /\ FreeLrs(live) # {}
               THEN Placed(live, PendingLr(VTIMER, TRUE)) ELSE live
    /\ UNCHANGED <<sched, current, phase, retired, saved, pending, uie, deviceVars, witness, peerFaults>>

\* The guest's timer: forwarded, left Active when no register is free, or
\* masked at the redistributor when the guest has not enabled it.
TimerIrq ==
    /\ phase = "Guest"
    /\ TimerSignalled
    /\ ppi' = IF TimerEnabled(current) THEN [ppi EXCEPT !.active = TRUE] ELSE PpiIdle(FALSE)
    /\ live' = IF TimerEnabled(current) /\ FreeLrs(live) # {}
               THEN Placed(live, PendingLr(VTIMER, TRUE)) ELSE live
    /\ UNCHANGED <<sched, current, phase, retired, saved, pending, uie, deviceVars, witness, peerFaults>>

MaintIrq ==
    /\ phase = "Guest"
    /\ MaintSignalled
    /\ live' = FlushedBank(live, pending[current])
    /\ pending' = [pending EXCEPT ![current] = FlushedSet(live, @)]
    /\ uie' = (pending'[current] # {})
    /\ UNCHANGED <<sched, current, phase, retired, saved, ppi, deviceVars, witness, peerFaults>>

-----------------------------------------------------------------------------
(* Synchronous exceptions of the running guest (handle_linux_sync) *)

\* deliver_or_defer_vint: to the running vCPU through a list register or, when
\* none is free, its pending set, with the underflow interrupt armed.  pd is
\* the pending sets with what the siblings were sent.
DeliverOrDefer(i, pd) ==
    IF FreeLrs(live) # {}
    THEN /\ live' = Placed(live, PendingLr(i, FALSE))
         /\ pending' = pd
         /\ UNCHANGED uie
    ELSE /\ pending' = [pd EXCEPT ![current] = @ \union {i}]
         /\ uie' = TRUE
         /\ UNCHANGED live

\* Interrupt i marked in the pending sets of the vCPUs in to.
Marked(i, to) == [v \in VcpuIds |-> IF v \in to THEN pending[v] \union {i} ELSE pending[v]]

\* ICC_SGI1R: a sibling is sent the interrupt through its pending set.
SendSgi(i, req) ==
    LET to == {v \in OwnVcpus(current) : AffinityOf(v) \in SgiTargets(req, AffinityOf(current))}
        pd == Marked(i, to \ {current})
    IN  /\ phase = "Guest"
        /\ IF current \in to THEN DeliverOrDefer(i, pd)
           ELSE pending' = pd /\ UNCHANGED <<live, uie>>
        /\ UNCHANGED <<sched, current, phase, retired, saved, ppi, deviceVars, witness, peerFaults>>

\* maybe_fire_spi_witness: armed, not fired, enabled, and routed away from the
\* vCPU that asks.
SpiDue ==
    LET g == GuestOf(current)
    IN  /\ witness[g] = "Armed"
        /\ IsEnabled(gic[g], AffinityOf(current), WitnessSpi)
        /\ AffinityOf(current) \notin SpiTargets(gic[g], WitnessSpi)

\* deliver_spi, from a vCPU the route does not name.
DeliverSpi(i) ==
    Marked(i, {v \in OwnVcpus(current) : AffinityOf(v) \in SpiTargets(gic[GuestOf(current)], i)})

\* A trapped wfi: the witness interrupt goes out if it is due; then, if another
\* vCPU can run, this one blocks and that one runs.
Wfi ==
    LET g == GuestOf(current)
        peer == NextRunnable(sched, current)
        pd == IF SpiDue THEN DeliverSpi(WitnessSpi) ELSE pending
    IN  /\ phase = "Guest"
        /\ witness' = IF SpiDue THEN [witness EXCEPT ![g] = "Fired"] ELSE witness
        /\ IF peer = NoVcpu
           THEN pending' = pd /\ UNCHANGED <<sched, current, phase, live, saved, uie, ppi>>
           ELSE IF sched[current] # "Running" THEN Halt
                ELSE HandOver(peer, [sched EXCEPT ![current] = "Blocked"], pd)
        /\ UNCHANGED <<deviceVars, retired, peerFaults>>

\* PSCI CPU_ON of a vCPU that is Offline, with an entry point in the guest's
\* own window: its context is seeded, then hv-core admits it.  Every other
\* request is refused and changes nothing.
CpuOn(v) ==
    /\ phase = "Guest"
    /\ v \in OwnVcpus(current)
    /\ sched[v] = "Offline"
    /\ saved' = [saved EXCEPT ![v] = EmptyBank]
    /\ expired' = [expired EXCEPT ![v] = FALSE]
    /\ seeded' = [seeded EXCEPT ![v] = TRUE]
    /\ sched' = [sched EXCEPT ![v] = "Runnable"]
    /\ UNCHANGED <<current, phase, retired, live, pending, uie, ppi, gic, witness, peerFaults, header>>

\* end_of_boot: nobody is left to run.
EndOfBoot(st) ==
    /\ phase' = "Over"
    /\ sched' = st
    /\ UNCHANGED <<current, live, saved, pending, uie, ppi>>

\* Mutant of Retire: the sleepers of the other guests are not woken.
RetireWithoutSweep(why) ==
    LET st == [v \in VcpuIds |-> IF v \in OwnVcpus(current) THEN "Offline" ELSE sched[v]]
        next == NextRunnable(st, current)
    IN  /\ retired' = [retired EXCEPT ![GuestOf(current)] = why]
        /\ IF next = NoVcpu
           THEN EndOfBoot(st)
           ELSE HandOver(next, st, pending)

\* retire_and_hand_over: every vCPU of the guest goes Offline, the sleepers of
\* the others are woken, and the pCPU goes to a survivor; without one the
\* machine is done.
Retire(why) ==
    LET st == Woken([v \in VcpuIds |-> IF v \in OwnVcpus(current) THEN "Offline" ELSE sched[v]])
        next == NextRunnable(st, current)
    IN  /\ retired' = [retired EXCEPT ![GuestOf(current)] = why]
        /\ IF next = NoVcpu
           THEN EndOfBoot(st)
           ELSE HandOver(next, st, pending)

\* PSCI SYSTEM_OFF.
PowerOff ==
    /\ phase = "Guest"
    /\ Retire("PoweredOff")
    /\ UNCHANGED <<deviceVars, witness, peerFaults>>

\* fault_retire: the guest that faulted is stopped, the machine is not.
FaultRetire == Retire("Faulted")

\* An exception EL2 has no rule for, or an access no device decodes.
Fault ==
    /\ phase = "Guest"
    /\ FaultRetire
    /\ UNCHANGED <<deviceVars, witness, peerFaults>>

\* arm_spi_witness: once the interrupt is routed away from the boot vCPU.
ArmSpiWitness(g, file) ==
    IF witness[g] = "Unarmed" /\ 0 \notin SpiTargets(file, WitnessSpi)
    THEN [witness EXCEPT ![g] = "Armed"] ELSE witness

\* A store to the emulated GIC.  The running vCPU's timer enable is mirrored to
\* the redistributor whether or not the store was accepted.
GicWrite(a) ==
    LET g == GuestOf(current)
        file == MmioWrite(gic[g], a)
        mirrored == [ppi EXCEPT !.enabled = IsEnabled(file, AffinityOf(current), VTIMER)]
    IN  /\ phase = "Guest"
        /\ gic' = [gic EXCEPT ![g] = file]
        /\ witness' = ArmSpiWitness(g, file)
        /\ \/ ~Refused(a) /\ ppi' = mirrored
              /\ UNCHANGED <<sched, current, phase, retired, live, saved, pending, uie>>
           \/ Refused(a) /\ FaultRetire
        /\ UNCHANGED <<expired, seeded, peerFaults, header>>

\* An access to memory of another guest is skipped, up to a cap.  The first one
\* also looks for the owner's image at its load address and halts the machine
\* when it is not there.
PeerFault(owner) ==
    LET g == GuestOf(current)
        n == peerFaults[g] + 1
    IN  /\ phase = "Guest"
        /\ owner # g
        /\ peerFaults' = [peerFaults EXCEPT ![g] = n]
        /\ IF n > PeerFaultCap THEN FaultRetire
           ELSE /\ phase' = IF n = 1 /\ ~header[owner] THEN "PeerfaultFail" ELSE "Guest"
                /\ UNCHANGED <<sched, current, retired, live, saved, pending, uie, ppi>>
        /\ UNCHANGED <<deviceVars, witness>>

\* The exceptions EL2 handles, by handler.
DataAbort == (\E a \in GicAccesses : GicWrite(a)) \/ (\E g \in Guests : PeerFault(g)) \/ Fault
SyncExit ==
    \/ DataAbort
    \/ Wfi
    \/ \E i \in Sgis, req \in SgiRequests : SendSgi(i, req)
    \/ \E v \in VcpuIds : CpuOn(v)
    \/ PowerOff
IrqExit == SliceExpires \/ TimerIrq \/ MaintIrq

-----------------------------------------------------------------------------
(* The guests and the hardware, between exceptions *)

\* The running guest acknowledges a pending interrupt.
GuestTakes(k) ==
    /\ phase = "Guest"
    /\ live[k].state = "Pending"
    /\ live' = [live EXCEPT ![k].state = "Active"]
    /\ UNCHANGED <<sched, current, phase, retired, saved, pending, uie, ppi, deviceVars, witness, peerFaults>>

\* The running guest ends an interrupt; a forwarding register deactivates the
\* physical one.
GuestEnds(k) ==
    /\ phase = "Guest"
    /\ live[k].state = "Active"
    /\ live' = [live EXCEPT ![k] = NoLr]
    /\ ppi' = IF live[k].hw THEN [ppi EXCEPT !.active = FALSE] ELSE ppi
    /\ UNCHANGED <<sched, current, phase, retired, saved, pending, uie, deviceVars, witness, peerFaults>>

\* A deadline passes, of the running vCPU or of one that waits.
DeadlinePasses(v) ==
    /\ phase = "Guest"
    /\ seeded[v]
    /\ ~expired[v]
    /\ expired' = [expired EXCEPT ![v] = TRUE]
    /\ UNCHANGED <<sched, current, phase, retired, live, saved, pending, uie, ppi, gic, seeded,
                   witness, peerFaults, header>>

\* The running guest programs its next deadline.
GuestRearms ==
    /\ phase = "Guest"
    /\ expired[current]
    /\ expired' = [expired EXCEPT ![current] = FALSE]
    /\ UNCHANGED <<sched, current, phase, retired, live, saved, pending, uie, ppi, gic, seeded,
                   witness, peerFaults, header>>

\* The running guest reuses the memory its image header was loaded to.
GuestDropsHeader ==
    /\ phase = "Guest"
    /\ header[GuestOf(current)]
    /\ header' = [header EXCEPT ![GuestOf(current)] = FALSE]
    /\ UNCHANGED <<sched, current, phase, retired, live, saved, pending, uie, ppi, gic, expired,
                   seeded, witness, peerFaults>>

-----------------------------------------------------------------------------
LinuxInit ==
    /\ sched = [v \in VcpuIds |-> IF v = 0 THEN "Running"
                                  ELSE IF AffinityOf(v) = 0 THEN "Runnable" ELSE "Offline"]
    /\ current = 0
    /\ seeded = [v \in VcpuIds |-> AffinityOf(v) = 0]
    /\ retired = [g \in Guests |-> "Live"]
    /\ phase = "Guest"
    /\ live = EmptyBank
    /\ saved = [v \in VcpuIds |-> EmptyBank]
    /\ pending = [v \in VcpuIds |-> {}]
    /\ uie = FALSE
    /\ ppi = PpiIdle(TRUE)
    /\ expired = [v \in VcpuIds |-> FALSE]
    /\ gic = [g \in Guests |-> GicAtReset]
    /\ witness = [g \in Guests |-> "Unarmed"]
    /\ peerFaults = [g \in Guests |-> 0]
    /\ header = [g \in Guests |-> TRUE]

LinuxNext ==
    \/ IrqExit
    \/ SyncExit
    \/ \E k \in LrIds : GuestTakes(k) \/ GuestEnds(k)
    \/ \E v \in VcpuIds : DeadlinePasses(v)
    \/ GuestRearms
    \/ GuestDropsHeader

\* EL2's own clock is the only thing the machine can count on: no guest can
\* stop or mask it.
LinuxSpec == LinuxInit /\ [][LinuxNext]_linuxVars /\ WF_linuxVars(SliceExpires)

-----------------------------------------------------------------------------
(* Properties *)

BankOf(v) == IF v = current THEN live ELSE saved[v]

\* Whatever the guests do, no park() of the scheduling paths is reached: the
\* machine stops when every guest has retired, or in the one park() of
\* handle_peer_fault, on a guest's first access to the memory of another guest
\* whose image header is gone.  While it is up, hv-core and CURRENT agree on
\* who runs, no vCPU that may be entered lacks a context, and a retired guest
\* has nothing left to schedule (sched_on, retire_and_hand_over, cpu_on,
\* switch_context).
MachineUp ==
    /\ phase # "Parked"
    /\ phase = "PeerfaultFail" =>
          /\ peerFaults[GuestOf(current)] = 1
          /\ \E owner \in Guests \ {GuestOf(current)} : ~header[owner]
    /\ phase = "Over" => \A g \in Guests : retired[g] # "Live"
    /\ phase = "Guest" => \A v \in VcpuIds : (sched[v] = "Running") <=> (v = current)
    /\ \A v \in VcpuIds :
          /\ sched[v] # "Offline" => seeded[v]
          /\ retired[GuestOf(v)] # "Live" => sched[v] = "Offline"

\* What linux.rs says of its halts, without exception: every one a guest could
\* reach is closed, and a park() that remains is EL2's own state (module doc of
\* linux.rs, "All NINE guest-reachable halts").
EveryHaltClosed == phase \in {"Guest", "Over"}

\* The underflow interrupt is armed exactly while the running vCPU has
\* interrupts that found no list register: armed with nothing to do it would
\* storm EL2, unarmed with something to do it would strand the interrupt
\* (flush_pending_to_lrs, deliver_or_defer_vint, switch_context).
UnderflowArmedExactly ==
    phase = "Guest" => (uie <=> pending[current] # {})

\* The physical timer has one owner.  No context that waits holds a claim on
\* it, the running vCPU holds at most one, and a claim means the interrupt is
\* Active, so the guest's end of interrupt deactivates what it was given and
\* nothing else; and a vCPU that wants its timer has it unmasked
\* (release_hardware_mappings, release_forwarded_timer, handle_vgic_access).
TimerLineOwned ==
    /\ \A v \in VcpuIds \ {current} : \A k \in LrIds : ~saved[v][k].hw
    /\ phase = "Guest" =>
          /\ Cardinality({k \in LrIds : live[k].hw}) <= 1
          /\ \A k \in LrIds : live[k].hw => live[k].id = VTIMER /\ ppi.active
          /\ TimerEnabled(current) => ppi.enabled

\* An interrupt taken to EL2 is never handled without effect: the same
\* interrupt would be taken again at once, for ever, and the guest would not
\* run (handle_linux_irq: the deferred tick stays Active, the unwanted one is
\* masked, a refill that leaves something waiting fills the bank).
NoIrqStorm ==
    phase = "Guest" =>
        /\ TimerSignalled => ENABLED <<TimerIrq>>_linuxVars
        /\ MaintSignalled => ENABLED <<MaintIrq>>_linuxVars

\* Each vCPU's mailbox: what waits in its list registers and its pending set.
Boxes ==
    INSTANCE Mailboxes WITH
        Intids <- Sgis \union {VTIMER, WitnessSpi},
        owed <- [v \in VcpuIds |-> Held(BankOf(v), "Pending") \union pending[v]],
        serving <- [v \in VcpuIds |-> Held(BankOf(v), "Active")],
        turn <- current

\* List registers, pending sets and context switches together behave as one
\* mailbox per vCPU: nothing posted is lost, nothing arrives that was not
\* posted, and nothing reaches a vCPU of another guest (deliver_or_defer_vint,
\* flush_pending_to_lrs, VgicCtx::save and restore, own_vcpus).
BoxesHold == Boxes!BoxSpec

\* No vCPU is forgotten: one that waits for the pCPU, or sleeps in wfi, is
\* entered again or retired with its guest, however the others behave
\* (preempt_through_the_scheduler, wake_blocked_vcpus, next_runnable).
EveryVcpuRuns ==
    \A v \in VcpuIds :
        sched[v] \in {"Runnable", "Blocked"} ~> sched[v] \in {"Running", "Offline"} \/ phase # "Guest"
=============================================================================
