# A TLA+ model of baleen

baleen is a type-1 hypervisor in Rust. Its decisions are taken by `hv-core`, a
`no_std` state machine without I/O, and carried out on AArch64 by `hv-metal`.
This directory specifies `hv-core` and the stateful parts of `hv-metal`,
`hv-vdev` and `hv-s2` in TLA+, model-checks them with TLC on small instances,
and proves the safety properties the runs check, two refinements among them, with
TLAPS for every size.

`PROJECT.json` lists the components, the runs, a mutant for each property (a
plausible bug in the code that the property catches), the source lines behind
every definition, the findings, the hazards and the theorems.

## The system

| Crate | Part | State | Operations |
|---|---|---|---|
| hv-core | `sched.rs` | run state, run time, affinity of each vCPU; occupant of each pCPU | admit, run, preempt, block, wake, set_affinity, offline, offline_all |
| hv-core | `evtchn.rs` | state, pending and masked bit of each port | alloc_unbound, bind_*, close, send, raise_virq, mask, unmask, consume, close_all, clear_unbound_into |
| hv-core | `grant.rs` | grant entries with two map counts; live mappings with handles | grant_access, end_access, map, unmap, copy, drain_*, revoke_* |
| hv-core | `p2m.rs` | owner, four counts, level and pin of each frame; page-table entries | allocate, free, pin, unpin, link, unlink, and their bulk forms |
| hv-core | `device.rs` | the holder of each device | assign, release, release_all_of |
| hv-core | `lib.rs` | a credit account per domain | grant_credit, spend_credit |
| hv-core | `hypervisor.rs` | life of each slot, creation capability, control matrix with provenance; owns all the above | `dispatch` of every `HvCall`, `raise_vcpu_virq` |
| hv-core | `policy.rs` | weights, wake-boost offsets, last seen schedulability | next, advance, set_weight, set_wake_boost |
| hv-vdev | emulated GICv3, list-register algebra, pending set, SGI and SPI routing, PL011 | register files | trapped reads and writes |
| hv-s2 | leaf map, AArch64 descriptors, SMMU stream table | none (functions of the p2m and of the devices) | leaf_map, emit, derive_stream_table |
| hv-part | partition of frames, windows and affinities over slots | none | slot arithmetic |
| hv-metal | traps, guest switch, vCPU contexts, timers, PSCI, teardown, SMMU, virtio | contexts, list registers, pending sets, shadow of allocations | exception handlers |
| hv-sim | `noninterference.rs` | none (functions of the hypervisor's state) | obs, the channel relation, sweeps over the real code |
| hv-hal, rest of hv-sim, hv-verify, hv-fuzz, xtask, probes | traits, simulator, Kani and Verus proofs, fuzzing, gates, instruments | not part of the running system | |

How they interact. A guest traps into `hv-metal`, which decodes the call and
hands it to `Hypervisor::dispatch`. `dispatch` checks that the caller is Live,
routes the call to one subsystem, and adds what no subsystem can do alone: an
event that becomes deliverable wakes its vCPU; a vCPU with a deliverable event
does not block; a grant mapping takes a reference on the page; a page-table
entry onto a foreign frame needs a grant, and the grant cannot be withdrawn
while the entry stands; destroying a domain unwinds all subsystems in order.
The metal then acts on the result: it scrubs frames that became free, rewrites
the stream table, switches contexts. `policy` reads the scheduler and issues
calls to it.

What is hard. Calls of different domains interleave without limit; slots,
ports, handles and frames are reused; one fact is stored in two tables
(occupancy, peers, map counts, page references); authority is delegated in
chains that are cut in the middle; teardown is a sequence of ten sweeps that
must neither fail nor reach too far; counters meet their width; the policy's
loop must end at a fixpoint. Within hv-core nothing is concurrent: a dispatch
is atomic, so interleaving is between calls. On the metal, one exception at a
time is handled with interrupts masked, but timers, the interrupt controller,
the SMMU and bus masters go on between (and, the SMMU and its devices, during)
the steps of EL2; list registers run out; guests choose every register value
and every descriptor.

## Modules

| Module | Models | Notes |
|---|---|---|
| `Domains`, `Frames` | index spaces shared by the parts | |
| `Sched` | `sched.rs` | one action per method; `now` is any tick, also an earlier one; `MaxTicks` is `u64::MAX` and additions saturate there; `MaskWidth` is the 64 of the affinity mask |
| `Evtchn` | `evtchn.rs` | `AfterCloseAll` and `AfterClearUnboundInto` are what the two loops compute |
| `Grant` | `grant.rs` | mappings are a set; a handle is the lowest unused one |
| `P2m` | `p2m.rs` | `CanGet*`/`AfterGet*` are the guard and the effect of taking a reference, used by link, pin and grant mappings; `Unlinked`, `Unpinned` give back many at once |
| `Authority` | lifecycle and control part of `hypervisor.rs` | the orphan sweep and the subtree test as fixpoints |
| `SweepLoop` | the two loops behind those fixpoints | cell by cell on a `matrix` of their own, to justify `Authority` |
| `Device`, `Credit` | `device.rs`, `HvCore` of `lib.rs` | |
| `Hypervisor` | `hypervisor.rs`, composing the seven above | `HvNext` has one disjunct per call that changes state; `domain_destroy` is one action with its sweeps in the code's order |
| `Noninterference` | the observation and the channel relation of `hv-sim` `noninterference.rs`, over `Hypervisor` | `Obs` is what belongs to a domain, `Authorized` who may move it; states `LocalRespect` |
| `Policy` | `policy.rs` over `Sched` | `advance` is begun, then takes one step per turn of its loop |
| `VirtGic` | `hv-vdev` `gicv3.rs`, `sgi.rs`, `irouter.rs` | the register file as a record of enables and routes, writes as functions on it |
| `LinuxRun` | `hv-metal` `linux.rs` from the first guest entry on, with `role.rs`, `gic.rs`, `pending.rs` and `hv-vdev` `vgic_cpuif.rs` | one action per handler; the guests' own steps (acknowledge, end of interrupt, timer programming) are external actions between them |
| `Mailboxes` | abstract | what a guest may expect of its virtual interrupts; `LinuxRun` implements it |
| `Stage2` | `hv-s2` `leafmap.rs`, `arm64.rs`, emission and scrub of `hv-metal` `stage2.rs` | over the page tables of `P2m`; six tables, their encoder, their decoder and a walker |
| `Teardown` | `teardown.rs`, `smmu.rs` of `hv-metal`, `smmu.rs` of `hv-s2` | the funnel after a dispatch, statement by statement, against an SMMU with a configuration cache, a TLB and bus masters |
| `VirtioBlk` | `blk.rs` and the block back-end of `guest.rs` | registers, rings, cursors, the copy-on-write store; the back-end's loop takes one step per request |
| `Disks` | abstract | one private disk per tenant; `VirtioBlk` implements it |
| `MC*` | instances and bounds | |
| `SubsystemProofs` | theorems about `Sched`, `Evtchn`, `Grant`, `Authority` on their own | |
| `HypervisorProofs`, `MemoryProofs` | theorems about `Hypervisor`, all of it behind one seam | the second extends the first and `Noninterference` |
| `LoopProofs` | theorems about `Policy` and `SweepLoop` | |
| `LinuxRunProofs`, `TeardownProofs`, `Stage2Proofs`, `VirtioBlkProofs` | theorems about the metal | |

Conventions. A refused call leaves the state alone in the code (each method
checks before it writes, or rolls back), so a refusal is no step. `GrantCopy`
only reads and has no action. A missing domain, port, frame or level is -1.
A sum type is a record with a `kind`, or a value outside the index space. The
position of a mapping or an entry in its table is not modelled, except where a
first match decides; that at most one entry can match is then part of a
property or theorem (`GrantSound`, `VirqsUnique`).

How the metal modules see hv-core. `LinuxRun` keeps hv-core's run states and
requires what `sched_on` requires before a vCPU runs; a call hv-core would refuse
halts the machine there, as in the code (`phase` is "Parked"), and `MachineUp`
says it never does.
`Stage2` extends `P2m` itself. `Teardown` keeps the part of hv-core's state the
funnel reads: life, owners, mapped frames and device holders.

What the metal modules leave to hardware. EOImode is split: an acknowledged
physical interrupt stays Active until it is deactivated, by EL2 or by the
guest's end of interrupt of a list register with the HW bit. The underflow
interrupt is signalled while at most one list register is occupied. The SMMU
uses a cached entry or fetches it, and a cached translation or a walk; CFGI_ALL
and TLBI_NSNH_ALL empty one cache each; CMD_SYNC may time out. These external
parts are marked in the map.

## Runs

Every passing run explores its instance completely.

| Run | Instance | Checks |
|---|---|---|
| `hv_events` | 2 domains and a bystander, 1 vCPU, 1 port and 1 VIRQ each, 1 pCPU, 1 device, credit to 1 | `NoLostWakeup`, `SchedSound`, `ChannelsSound`, `TeardownConfined`, `ConnectedByConsent`, `EventsNotLost`, `LocalRespect` |
| `hv_memory` | 2 domains, 2 frames, counters to 2, 1 grant entry each, 2 levels | `HvTypeOK`, `GrantSound`, `GrantMapsOwned`, `HvRefsAccounted`, `ForeignLinksAuthorized`, `PageTypesSound` (no frame is writable while a table or executable, levels descend), `DeadSlotEmpty`, `LocalRespect` |
| `hv_authority` | 4 domains; the loops on every delegation tree of one target with an edge removed | `AuthorityLive`, `ControlForest`, `ProvenanceStable`, `NoFabricatedAuthority`; of the loops `SweepExact`, `WalkDecidesSubtree`, `SweepTerminates` (liveness) |
| `policy` | 2 vCPUs, 2 pCPUs, weights to 2, quantum 1, clock to 2 | `WorkConserving`, `SettledIsFixpoint`, `AdvanceReturns` (liveness) |
| `linux_irq` | 2 guests of 2 vCPUs, 2 list registers, one SGI, the timer, one SPI; 5 requests | `UnderflowArmedExactly`, `TimerLineOwned`, `NoIrqStorm`, `BoxesHold` (refinement) |
| `linux_life` | 3 guests of 2 vCPUs; 4 requests | `MachineUp`, `EveryVcpuRuns` (liveness) |
| `stage2` | 2 domains, 4 frames, 3 levels, tables of 4 entries, 20 layouts; 2 page-table operations under a good layout, 1 under a bad one | `EmissionExact`, `ScrubCovers`, `WriteXorExecute`, `SelftestAgrees` |
| `tenants` | 2 domains, 2 frames, 2 devices, 2 streams (possibly shared); 2 tenants of the disk, 1 sector, indices modulo 4, queues of 0 or 2 | `DmaConfined`, `GuestBytesScrubbed`; `NoUngrantedBytes`, `DisksPrivate` (refinement), `ServedInOrder` |
| `hv_affinity`, `hv_respect`, `linux_halt`, `teardown_dma` | violations, see Findings | |

`LocalRespect` is the integrity half of noninterference: no call moves anything
another domain observes (ports, permits and their counts, mappings, vCPUs, frames,
page-table entries, devices, credit, life) unless, before the call, that domain had
given the caller a channel. It has one term more than `noninterference.rs`,
`TeardownOfGranted`; without it the property is false (`hv_respect`). It is checked over
the event half and the memory half of the state, each with teardown; the proof has no
such split.

What the metal runs show. `BoxesHold`: list registers, pending sets, maintenance
interrupts and context switches together are one mailbox per vCPU, so no
interrupt is lost, invented or delivered to another guest, although each place
it can be in is written by a different handler. `UnderflowArmedExactly`,
`TimerLineOwned` and `NoIrqStorm` are the three ways the hardware could be left
wrong while the software state looks right. `MachineUp`: no `park()` of the
scheduling, switching and PSCI paths is ever reached, and the one of
`handle_peer_fault` only on a guest's first access to the memory of another guest
whose image header is gone (`linux_halt` reaches it, see Findings).
`EmissionExact`: at every address of the machine a walk finds what links and
layout authorise, also over tables another domain used before.
`ScrubCovers` ties what a guest can write to what a free will zero.
`DmaConfined` holds at every point inside the funnel, not only between calls.

Bounds, and why they are enough for the cases of interest:

- A part that a run does not involve has a table of size zero. Seams between
  parts (wake-ups, page references, teardown) are inside one run.
- `MaxTicks`, `MaxCount`, `MaxCredit`, `MaxAmount` stand for the largest value
  of a counter. They are small, so the saturating or refusing branch is taken.
  In `hv_events` and the memory run time is a single tick: no property there
  speaks of time; `SubsystemProofs` covers the clock for every width.
- `OnlyDom0Creates` (memory run): a second creator adds authority states, which
  `hv_authority` explores, and no memory behaviour. Domains still die and are
  reborn. `EventsBounded` (`hv_events`): credit is moved by domain 0 while no
  other domain lives, since accounts meet nothing else; the third domain lives and is
  given control while nobody has a port, an admitted vCPU or a device.
  `CreditAlwaysConserved` and `LocalRespectHolds` are proved without these bounds.
- Four domains give delegation chains of three holders over one target and
  leave a domain outside the chain.
- Two frames allow a table with a data page; `stage2` has four frames and three
  levels. The code has four levels; the rule between levels is the same at each.
- `Policy` lets weights change at any time, and so do its theorems. Changed weights
  make offsets grow (see Observations), so the run bounds them (`ReweightsBounded`):
  before the clock starts any weight is set, afterwards one vCPU is raised, and
  offsets are followed up to the last tick.
- `OnlyDom0Served` (`hv_respect`): of three domains only domain 0 creates and is
  given permits, and uses them for page-table entries.
- In `hv_authority` the domains call while the loops rest on the matrix a call left, or
  the loops run while the domains rest: a call is atomic. In `tenants` the frames or
  the disk are explored while the other rests; the two share no state.
- `LinuxRun` is explored as two families, because their product is too large
  and their variables hardly meet: `IrqSpec` (interrupts, vCPU starts, sleeps)
  and `LifeSpec` (starts, sleeps, faults, retirement). `Budget` bounds the
  requests guests make, never what EL2 does with them. Two list registers and
  three kinds of interrupt fill the bank; `NumLr >= 2` is an
  assumption (the code names machines with four): with one register the underflow
  interrupt is signalled whenever it is armed, and `NoIrqStorm` fails. Three guests let one
  retire while a second sleeps and a third runs. In `LifeSpec` `PeerFaultCap` is
  2 (`MAX_PEER_FAULTS` is larger): below, at and above the cap are all reached.
- `Stage2Spec` starts from empty page tables and lets them change for ever;
  `MCStage2` starts from prepared ones and bounds `Remap` by `Budget`, `Publish`
  not at all. `Stage2` scales 512 entries to 4. Shifts and masks become divisions and
  remainders by the same number, so wraps and straddling windows are all there.
- `IdxWrap` = 4 with a queue of 2 and 5 requests wraps the ring indices; the
  code's wrap is at 2^16. `ServedInOrder` is about a driver that keeps to the
  protocol, so also to a queue size that divides the index range (virtio asks for a
  power of two): with any other the slot of an index jumps when the index wraps.

Deadlock is not checked for `Hypervisor` (when the last domain has destroyed
itself, no call is possible; the sweep ends), `LinuxRun` and
`Teardown` (the machine may be over or parked), `Stage2` (it may park, and the
budget ends) nor `VirtioBlk`.

Fairness. Weak fairness of `Advance` and of `SweepNext`: both are the turns of
a loop in straight-line code that holds the only reference to the state, so
once entered a turn is always taken. Weak fairness of `SliceExpires`: the slice
is EL2's own timer (CNTHP), which a guest can neither mask nor reprogram, and
every switch and every expiry arms it again. Nothing is assumed about guests.

## Proofs

Every invariant and every action property of the passing runs is proved for
every value of the constants, except the ones under "Only model-checked". The
assumptions are the named ones of the modules: sizes are naturals; `NumLr >= 2`;
`NumTenants <= 3` (`N_TENANTS` is 2; a tenant's bytes are a string of its own);
`NumFrames <= TableEntries` (a frame number indexes the L3 data table, so it must
be below 512, `stage2.rs:104`); `Layouts` contains layouts.

### hv-core, part by part (`SubsystemProofs`)

`SchedInv` is the type invariant with the two halves of `SchedSound` (occupancy
and run states agree; nobody runs outside its affinity). The agreement is needed
because `run` only looks at the occupancy table: without it, a pCPU that looks
idle could be in use. From it also the action properties
`RuntimeNeverDecreases` and `RuntimeAccruesOnLeaving`.

`EvtchnInv` adds uniqueness of VIRQ bindings and the type to `ChannelsSound`.
Reciprocity after `close_all` rests on `Linked`/`Reached`: the ports reached from
the dead domain are exactly the far ends of its channels.

`GrantInv` is `GrantTypeOK /\ GrantSound` with finitely many mappings. The two
need each other: a release keeps a count at or above zero only because counts are
exact, and exactness is arithmetic on counts of the right type. Unmap and the two
drains are one case, `end_access` and the two revocations another (an entry with a
mapping has a count and is skipped).

`AuthInv` is the type with `AuthorityLive` and `ControlForest`. The forest needs
liveness: a create plants a root, which leaves one tree only if no edge over the
dead slot was left. Subtrees and sweeps are handled as least and greatest sets
closed under delegation (`ClosedDown`, `ClosedUp`), never by induction.

### hv-core behind the seam (`HypervisorProofs`, `MemoryProofs`)

`StepShape` sorts the steps of `HvNext` into five kinds by what they do to vCPUs
and ports; each later argument has one case per kind. `HvImplementsSched`
shows `HvSpec => SchedSpec`: wake-ups and teardown are `Wake` and `OfflineAll`
steps, all else stutters. Event channels are no such refinement (teardown is two
sweeps at once), so `EvtchnInv` is carried across `HvNext` directly.
`WakeupInv` (`SchedInv`, `EvtchnInv` and `NoLostWakeup`) gives `WakeupsNeverLost`:
a port that is rebound or half-open must carry no old signal for its new target,
and reciprocity tells whom a send notifies. The remaining theorems of the module
are about credit, consent, events that are not lost, and authority.

`MemoryInv` says that each of a frame's counts is the number of its references of
that kind: page-table entries, its pin, and grant mappings over entries that name
it. Each operation removes or adds a set of references (`Refs` is preserved by
dropping entries, dropping mappings, taking one reference, freeing frames), and
`domain_destroy` composes them in the code's order. The exact counts are what
makes the guards of `p2m.rs` meaningful: `PageTypesSound`, `GrantMapsOwned` and
`HvRefsAccounted` follow, and `ForeignLinksAuthorized` because a permit with a
standing foreign entry is refused its end. `GrantSound` is here proved of
`HvSpec`, where teardown drains and revokes in one step.

`HvInv` joins all subsystem invariants with "whatever is named is live"
(`PortsLive`, `VcpusLive`, `PermitsLive`, `FramesLive`, `DevicesLive`), which
`DeadSlotEmpty` states the other way round and which is inductive only with them.
`DeadSlotAlwaysEmpty`, `HvTypeCorrect` and the action property
`TeardownAlwaysConfined` rest on it.

`LocalRespectHolds` is `HvSpec => LocalRespect`, for every number of domains, frames,
ports and devices. The argument: a domain `b` without a channel to `a` is a
`Stranger`, and a step of a stranger keeps four things (`ViewKept`): what `a` has of
its own (`SelfKept`), its permits (`GrantsKept`), the frames it owns (`FramesKept`)
and the entries in its tables with the bits its permits show of others' tables
(`LinksKept`). The first two are read off each call. The last two are not: a mapping,
an entry or a death of a stranger changes counters, and that none of them is a counter of
`a` follows from the accounting (`MemoryInv`): the references that come and go
all lie on frames that are not `a`'s (`MemoryApart`), and a count equals the number
of its references (`CountsFollow`). For a mapping this needs `GrantMapsOwned`, for an
entry `ForeignLinksAuthorized`: only because a foreign entry still rests on a permit
is its removal an act of somebody `a` had offered something to.

`SealedUndisturbed` is what an operator of a partition wants from it. A live domain
that nobody controls, that has offered nothing and borrowed nothing, has no port toward
another domain and permits only over frames of its own, is not disturbed in anything it observes,
and stays sealed, until it makes a call itself. The seal is
inductive because it speaks of what the domain itself observes, and of control,
which nobody gains over a live domain that has no holder (`AuthorityNeverFabricated`).

### The loops (`LoopProofs`)

`PolicyInv` has the variant of `advance`: `Remaining`, one placement for each idle
pCPU and a preemption and a placement for each expired one, is below the turns
that are left. So the turn limit of `policy.rs:336-340` never cuts the loop short,
and what it leaves is a fixpoint and conserves work. The theorems carry the
hypothesis `Quantum > 0`: the comment's argument needs a vCPU placed in this call
not to have expired already, and `policy.rs:222-224` accept 0. That the mechanism
never refuses a decision of `next` (`policy.rs:369`) is part of `AdvanceReturns`: a
refused decision would leave the loop without a step.

`SweepInv`: every removal keeps the fixpoint (`OrphanRemoved`), and a pass that has
changed nothing has left no orphan behind its cursor. The bounded walk decides
subtrees because a provenance path of minimal length visits no domain twice
(shortcut and pigeonhole), so it is never longer than the number of domains.

### The metal

`LinuxInv`: types, `MachineUp`, the underflow interrupt armed exactly while
something waits, the timer claims (no saved bank holds one, the live bank at most
one and then the line is Active), a vCPU of a live guest that was never started has an
empty saved bank, and the vCPU a guest booted on is not Offline while the guest is
there. The last keeps the scheduling paths from parking: while a guest lives there is a
vCPU to go on with, or to wake. So `MachineAlwaysUp` leaves one halt, the image check of
`handle_peer_fault`, and says when it is met. `MailboxesImplemented` is the
refinement `BoxesHold`: an interrupt a vCPU is owed is in its list registers or its pending set; a switch, a flush
and a maintenance interrupt move it and are stutters, a post and an
acknowledgement are steps of the mailbox. `InterruptsSilenced` is what
`NoIrqStorm` says without ENABLED: after the handler of the timer or of the
maintenance interrupt, the interrupt is no longer signalled; and `HandlersAct`: a
handler never leaves the state as it found it.

`TeardownInv` follows the funnel statement by statement: the tables of an
emitted domain reach its own frames only; the stream table is derived from the
holders except between a core call and the derivation; whatever the SMMU may still
use, in memory or cached, leads to frames of the domain it names or to frames that
domain gave up in this dispatch; the caches follow the table except while they are
being invalidated; the allocation shadow is the allocation except before the scrub. Results: `DmaAlwaysConfined`,
`GuestBytesAlwaysScrubbed`, and `EmissionNeverHalts`.

`Stage2Inv`: the tables are zero, or the layout was accepted by `validate` and the
tables are what encoding into zeroed storage gives, for leaves placed in their
windows. That is needed because the storage is reused across domains, and holds
because `encode` overwrites every entry that any emission can have written
(`EncodeForgets`). On top of it, arithmetic: an address has unique table indices
(`DigitsUnique`), the windows of an accepted layout never share a slot
(`SlotsDistinct`), so a walk ends in the window the address lies in
(`WalkFinds`) and finds there what links and layout authorise. Results:
`EmissionAlwaysExact`, `SelftestAlwaysAgrees`, `WriteXorExecuteAlways`,
`ScrubAlwaysCovers`, for every layout and geometry, not the 20 of the run.

`BlkInv`: buffers and disk of a tenant hold its own bytes or the template's, which
are clean only together; gives `UngrantedBytesNeverMove` and the refinement
`DisksImplemented`. `OrderInv`: the outstanding requests of a polite driver are
the newest ones, in consecutive slots from the device's cursor, modulo index range
and queue size; gives `RequestsServedInOrder` across wraps, resets and deaths.

### Only model-checked

- Liveness (`AdvanceReturns`, `SweepTerminates`, `EveryVcpuRuns`): fairness is
  outside the prover. `PolicyInv` bounds the turns of `advance`, so only the step
  from the bound to termination is left to TLC.
- `NoIrqStorm` as stated, which uses ENABLED. `InterruptsSilenced` and
  `HandlersAct` are its two parts about the handlers' steps, both proved.
- Local respect is proved for single steps. Its other half, step consistency
  (`noninterference.rs:1030`: two states alike for a domain stay alike for it after
  the same call), relates two behaviours and is neither modelled nor proved.
- `WorkConserving` and `SettledIsFixpoint` for a quantum of 0: the limit of turns can
  then be met (see Observations), so the hypothesis is needed.
- The properties of the four violation runs are false of the code, see below.

## Findings

Four runs show the code doing something its own comments exclude.

1. `hv_affinity`: `set_affinity` accepts an Offline vCPU and `offline_all` skips
   vCPUs that are Offline already, so a narrowed mask survives teardown and the
   next tenant of the slot starts with it (`sched.rs:351` says otherwise).
2. `teardown_dma`: the funnel scrubs freed frames before it takes the dead
   domain's device out of the stream table, so a transfer in flight can write a
   frame that has just been zeroed, and the bytes wait there for the next owner
   (`teardown.rs:37` says that nothing is left at rest). What the guest's own
   stores left is always gone (`GuestBytesScrubbed`), and the device reaches no
   frame that has an owner again (`DmaConfined`).

3. `linux_halt`: on a guest's first access to another guest's memory
   `handle_peer_fault` looks for the owner's payload in the owner's RAM
   (`linux.rs:3862`) and parks when it is gone (`linux.rs:3890`). The owner may reuse
   that memory, so two guests halt the machine, where `linux.rs:107-109` says that all
   guest-reachable halts are closed and every remaining `park()` is EL2's own state.
   (Lines 111-117 ask to read that as the halts known so far.) Of the modelled handlers'
   halts it is the only one reached: `MachineUp`.
4. `hv_respect`: local respect, with the channel relation exactly as
   `noninterference.rs` has it, does not hold. `grant_access` accepts a frame the
   grantor does not own, so a row of domain 2 may permit domain 0 a frame of domain 1
   onto which 0 has an entry (by 1's own permit); when 1 destroys itself the entry goes,
   and with it the last bit of 2's row, although 1 has no channel to 2.
   `noninterference.rs:348-350` says of this bit that "only a domain `a` has granted
   to" can move it. Three domains, two frames and nine calls show it; the simulator's
   three-domain sweep has no page tables and stops at six. Nothing of 2 but the answer to
   its own `grant_end_access` changes, and `TeardownOfGranted` is the only term missing
   (`LocalRespectHolds`).

Observations without a run of their own:

- hv-core. A domain's credit stays with its slot across destroy and create.
  With a quantum of 0 a vCPU can be preempted in the call that dispatched it, so
  the count of turns at `policy.rs:336-340` needs a positive quantum: one pCPU of two
  with four vCPUs is preempted twice in one call, and five pCPUs with ten vCPUs need
  22 turns where the limit of `policy.rs:355` is 21. An offset is not re-scaled when a
  weight changes, so weights changed between wakes let offsets grow, and the sum at
  `policy.rs:498` is unchecked. `account` replaces a
  standing offset, so a vCPU boosted above today's floor is brought down to it
  (`policy.rs:538`, and the comment above it). `grant_access` does not ask who
  owns the frame, so whether `grant_end_access` is refused can depend on a frame
  of a third domain (`hypervisor.rs:1131` and the comment at 1118).
- An SGI sent again while it is pending can occupy a second list register
  (`gic.rs:218`), so it may be taken twice; `Mailboxes` allows that.
- An interrupt that waits in the pending set of a vCPU is late by more than one
  scheduling round when its bank is full at each switch-in (`linux.rs:3008`).
- The hand-over ledger `released + deferred == deactivated` (`linux.rs:5920`)
  counts a deferred tick as released at the vCPU's next hand-over. When the last
  guest powers off or faults with a tick deferred there is none, and the boot
  report says the ledger does not balance.
- A zero written to the console's Status register does not reset its ring
  cursors, although `blk.rs:262` calls the two register files identical.
- `reset_device_state` runs at the destruction of any domain, also one that has
  no block device. The domain's stream binding stays registered after death; the
  callers never give a device to such a domain before emitting its tables again,
  and `Teardown` assumes that. Re-emission does not invalidate the SMMU's TLB.

## Not modelled

`PROJECT.json` gives the reason part by part. Left out for good: bit layouts of
descriptors and stream-table entries, decoders, boot and register programming,
test instruments and proof harnesses (`hv-sim` except the definitions of
`noninterference.rs`, `hv-verify`, `hv-fuzz`, `xtask`
and the probes are more than a quarter of the source). Of hv-core, the raw
hypercall decoder, error codes, statistics, the self-checks of the invariants and
the report side of the queries. Of the metal, the scripted phases of `guest.rs`
(each a fixed sequence of hypercalls and register accesses ending in a printed
verdict), the counters and boot reports of `linux.rs`, floating-point and
general register contexts, the console multiplexer and the observation window.
The test modules inside the source files are read, not modelled.

## Plan

1. Done: hv-core (`Sched`, `Evtchn`, `Grant`, `P2m`, `Authority`, `Device`,
   `Credit`, composed in `Hypervisor`; `Policy` over `Sched`; `SweepLoop`).
2. Done: the metal (`VirtGic`, `LinuxRun` with `Mailboxes`, `Stage2`,
   `Teardown`, `VirtioBlk` with `Disks`).
3. Done: proofs of the safety properties of the runs (`*Proofs`), local respect
   among them (`Noninterference`).
4. Left: step consistency, as a composition of two copies of `Hypervisor`; what a change of weights does to
   standing offsets; the virtio console over the transport of `VirtioBlk`, and
   the observation channel.
