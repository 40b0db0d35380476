------------------------------ MODULE Teardown ------------------------------
(* hv-metal/src/teardown.rs, hv-metal/src/smmu.rs and hv-s2/src/smmu.rs: the *)
(* funnel every hypercall of the metal goes through.  After the core has     *)
(* answered, the funnel scrubs the frames that became free and derives the   *)
(* SMMU's stream table from the device assignment again.  It runs on the     *)
(* CPU, while bus masters go on: the SMMU has a configuration cache and a    *)
(* TLB of its own, and only the commands the funnel submits empty them.      *)
(*                                                                           *)
(* The core is seen through the calls the metal makes: create, allocate and  *)
(* link (nothing is unlinked or freed but by a destroy), assign, release,    *)
(* destroy.  Every domain has a table set of its own, so a binding (table    *)
(* root and VMID) is the number of the domain it was registered for.         *)
EXTENDS Integers, Sequences

CONSTANTS NumDomains, NumFrames, NumDevices, NumStreams

ASSUME TeardownAssumption ==
    /\ NumDomains \in Nat /\ NumFrames \in Nat /\ NumDevices \in Nat /\ NumStreams \in Nat \ {0}

VARIABLES
    alive,      \* the domains the core has created
    owner,      \* p2m: the owner of each frame
    mapped,     \* p2m: the frames a writable leaf of their owner names
    holder,     \* device: who holds each device
    shadow,     \* ALLOCATED: the frames the funnel last saw allocated
    tables,     \* STAGE2_SETS: the frames the set of a domain reaches
    binding,    \* binding_of: the domains with a registered binding
    stream,     \* stream_of: the StreamID of each device
    strtab,     \* the stream table in memory: the binding of each entry
    cfg,        \* the SMMU's cached entry of each stream
    tlb,        \* the SMMU's cached translations: VMID and frame
    pc,         \* where the funnel stands
    outcome,    \* what deriving the table answered
    running,    \* the guest on the CPU
    born,       \* the domains emitted since they were created
    cpu, dma    \* the frames that hold bytes of a guest, of a device

coreVars == <<alive, owner, mapped, holder>>
smmuVars == <<strtab, cfg, tlb>>
dataVars == <<cpu, dma>>
teardownVars == <<coreVars, smmuVars, dataVars, shadow, tables, binding, stream, pc,
                  outcome, running, born>>

Dom    == 0..(NumDomains - 1)
Frame  == 0..(NumFrames - 1)
Device == 0..(NumDevices - 1)
Sid    == 0..(NumStreams - 1)

Nobody == -1        \* no owner, no holder, a denying entry
Empty  == -2        \* the SMMU has not cached the entry

Idle == pc = "idle"
DenyAll == [s \in Sid |-> Nobody]

\* install_stream_table has armed the SMMU over a table that denies all.
TeardownInit ==
    /\ alive = {} /\ mapped = {} /\ owner = [f \in Frame |-> Nobody]
    /\ holder = [v \in Device |-> Nobody]
    /\ shadow = {} /\ tables = [d \in Dom |-> {}] /\ binding = {} /\ born = {}
    /\ stream \in [Device -> Sid]
    /\ strtab = DenyAll /\ cfg = [s \in Sid |-> Empty] /\ tlb = {}
    /\ pc = "idle" /\ outcome = "ok" /\ running = Nobody
    /\ cpu = {} /\ dma = {}

-----------------------------------------------------------------------------
(* dispatch: the core's answer.  A call that fails leaves the funnel too.    *)

\* A call EL2 makes, with no guest on the CPU; the funnel goes on to its scrub.
Dispatched ==
    /\ Idle /\ running = Nobody
    /\ pc' = "scrub"
    /\ UNCHANGED <<shadow, tables, binding, stream, outcome, running, smmuVars, dataVars>>

DomainCreate(d) ==
    /\ Dispatched
    /\ d \notin alive
    /\ alive' = alive \cup {d}
    /\ UNCHANGED <<owner, mapped, holder, born>>

P2mAllocate(d, f) ==
    /\ Dispatched
    /\ d \in alive /\ owner[f] = Nobody
    /\ owner' = [owner EXCEPT ![f] = d]
    /\ UNCHANGED <<alive, mapped, holder, born>>

P2mLink(d, f) ==
    /\ Dispatched
    /\ d \in alive /\ owner[f] = d /\ f \notin mapped
    /\ mapped' = mapped \cup {f}
    /\ UNCHANGED <<alive, owner, holder, born>>

\* The callers give a device to a domain they have emitted tables for
\* (birth_domain_with_one_frame, then assign), or to one that never had any.
DeviceAssign(v, d) ==
    /\ Dispatched
    /\ d \in alive /\ holder[v] = Nobody
    /\ d \in born \/ d \notin binding
    /\ holder' = [holder EXCEPT ![v] = d]
    /\ UNCHANGED <<alive, owner, mapped, born>>

DeviceRelease(v) ==
    /\ Dispatched
    /\ holder[v] # Nobody
    /\ holder' = [holder EXCEPT ![v] = Nobody]
    /\ UNCHANGED <<alive, owner, mapped, born>>

\* domain_destroy: links, frames and devices of the domain are all given up.
DomainDestroy(d) ==
    /\ Dispatched
    /\ d \in alive
    /\ alive' = alive \ {d} /\ born' = born \ {d}
    /\ mapped' = {f \in mapped : owner[f] # d}
    /\ owner' = [f \in Frame |-> IF owner[f] = d THEN Nobody ELSE owner[f]]
    /\ holder' = [v \in Device |-> IF holder[v] = d THEN Nobody ELSE holder[v]]

Allocated == {f \in Frame : owner[f] # Nobody}

\* Mutant of Scrub: the frames that no longer have an owner are left to the
\* emission, which compares owners.
ScrubDeferred ==
    /\ pc = "scrub" /\ pc' = "derive"
    /\ cpu' = cpu \ (shadow \cap Allocated) /\ dma' = dma \ (shadow \cap Allocated)
    /\ shadow' = Allocated
    /\ UNCHANGED <<coreVars, smmuVars, tables, binding, stream, outcome, running, born>>

\* The frames that went from allocated to free are zeroed.
Scrub ==
    /\ pc = "scrub" /\ pc' = "derive"
    /\ cpu' = cpu \ (shadow \ Allocated) /\ dma' = dma \ (shadow \ Allocated)
    /\ shadow' = Allocated
    /\ UNCHANGED <<coreVars, smmuVars, tables, binding, stream, outcome, running, born>>

-----------------------------------------------------------------------------
\* derive_stream_table refuses an aliased stream and a holder without tables.
Refused ==
    \/ \E v, w \in Device : v # w /\ stream[v] = stream[w]
    \/ \E v \in Device : holder[v] \notin binding \cup {Nobody}

\* holder_of_stream
HolderOf(s) ==
    LET devs == {v \in Device : stream[v] = s}
    IN  IF devs = {} THEN Nobody ELSE holder[CHOOSE v \in devs : \A w \in devs : v <= w]

\* intended_binding, which derive_stream_table builds and
\* table_refines_the_relation reads back.
Derived == IF Refused THEN DenyAll ELSE [s \in Sid |-> HolderOf(s)]

\* rederive up to the first command: equal words touch nothing, and any other
\* table is copied over the one the SMMU walks.
Derive ==
    /\ pc = "derive"
    /\ outcome' = IF Refused THEN "refused" ELSE "ok"
    /\ strtab' = Derived
    /\ pc' = IF strtab # Derived THEN "first" ELSE IF Refused THEN "parked" ELSE "idle"
    /\ UNCHANGED <<coreVars, cfg, tlb, dataVars, shadow, tables, binding, stream, running, born>>

Synced(done) == pc' = done /\ UNCHANGED <<coreVars, strtab, dataVars, shadow, tables, binding,
                                          stream, outcome, running, born>>
Ended == IF outcome = "refused" THEN "parked" ELSE "idle"

\* The SMMU executes a command: CFGI_ALL drops the cached entries,
\* TLBI_NSNH_ALL the cached translations.
Execute(cmd) ==
    /\ cfg' = IF cmd = "CFGI_ALL" THEN [s \in Sid |-> Empty] ELSE cfg
    /\ tlb' = IF cmd = "TLBI_NSNH_ALL" THEN {} ELSE tlb

\* Mutant of Invalidations: the translations go first.
InvalidationsSwapped == <<"TLBI_NSNH_ALL", "CFGI_ALL">>

\* invalidate_all_config, then invalidate_s2_tlb: each is submitted, the SMMU
\* executes it in its own time, and CMD_SYNC tells before the next.
Invalidations == <<"CFGI_ALL", "TLBI_NSNH_ALL">>
InvalidateFirst  == pc = "first" /\ Execute(Invalidations[1]) /\ Synced("second")
InvalidateSecond == pc = "second" /\ Execute(Invalidations[2]) /\ Synced(Ended)

\* sync gives up: the second command is not submitted, and the machine stops.
SyncTimesOut == pc \in {"first", "second"} /\ UNCHANGED <<cfg, tlb>> /\ Synced("parked")

-----------------------------------------------------------------------------
(* build_stage2_from_p2m (what it emits is module Stage2's): it halts when   *)
(* the shadow disagrees with the model, replaces the domain's tables and     *)
(* registers the binding.  The stream table is not derived again and the     *)
(* SMMU's TLB is not invalidated.                                            *)
Emit(d) ==
    /\ Idle /\ running = Nobody /\ d \in alive
    /\ IF shadow # Allocated THEN pc' = "parked" /\ UNCHANGED <<tables, binding, born>>
       ELSE /\ tables' = [tables EXCEPT ![d] = {f \in mapped : owner[f] = d}]
            /\ binding' = binding \cup {d} /\ born' = born \cup {d}
            /\ UNCHANGED pc
    /\ UNCHANGED <<coreVars, smmuVars, dataVars, shadow, stream, outcome, running>>

\* A phase enters the guest it has just emitted, until an exit brings EL2 back.
EnterGuest(d) ==
    /\ Idle /\ running = Nobody /\ d \in alive \cap born
    /\ tables[d] = {f \in mapped : owner[f] = d}
    /\ running' = d
    /\ UNCHANGED <<coreVars, smmuVars, dataVars, shadow, tables, binding, stream, pc, outcome, born>>
LeaveGuest ==
    /\ running # Nobody /\ running' = Nobody
    /\ UNCHANGED <<coreVars, smmuVars, dataVars, shadow, tables, binding, stream, pc, outcome, born>>
GuestWrites(f) ==
    /\ running # Nobody /\ f \in tables[running]
    /\ cpu' = cpu \cup {f}
    /\ UNCHANGED <<coreVars, smmuVars, dma, shadow, tables, binding, stream, pc, outcome, running, born>>

-----------------------------------------------------------------------------
(* The SMMU and the bus masters (hardware).  A transaction of a stream uses  *)
(* the cached entry, or fetches it; then a cached translation of that VMID,  *)
(* or walks the tables.  A denied one is answered with an abort.  They go on *)
(* whatever the CPU does, and after it is parked.                            *)
Hardware == UNCHANGED <<coreVars, strtab, cpu, shadow, tables, binding, stream, pc, outcome,
                        running, born>>

FetchEntry(s) ==
    /\ cfg[s] = Empty
    /\ cfg' = [cfg EXCEPT ![s] = strtab[s]]
    /\ UNCHANGED <<tlb, dma>> /\ Hardware

FillTlb(s, f) ==
    /\ cfg[s] \in Dom /\ f \in tables[cfg[s]]
    /\ tlb' = tlb \cup {<<cfg[s], f>>}
    /\ UNCHANGED <<cfg, dma>> /\ Hardware

DeviceWrites(s, f) ==
    /\ <<cfg[s], f>> \in tlb
    /\ dma' = dma \cup {f}
    /\ UNCHANGED <<cfg, tlb>> /\ Hardware

-----------------------------------------------------------------------------
El2Next ==
    \/ \E d \in Dom : DomainCreate(d) \/ DomainDestroy(d) \/ Emit(d) \/ EnterGuest(d)
    \/ \E d \in Dom, f \in Frame : P2mAllocate(d, f) \/ P2mLink(d, f)
    \/ \E v \in Device, d \in Dom : DeviceAssign(v, d)
    \/ \E v \in Device : DeviceRelease(v)
    \/ LeaveGuest \/ (\E f \in Frame : GuestWrites(f))
    \/ Scrub \/ Derive \/ InvalidateFirst \/ InvalidateSecond \/ SyncTimesOut

SmmuNext ==
    \/ \E s \in Sid : FetchEntry(s)
    \/ \E s \in Sid, f \in Frame : FillTlb(s, f) \/ DeviceWrites(s, f)

TeardownSpec == TeardownInit /\ [][El2Next \/ SmmuNext]_teardownVars

-----------------------------------------------------------------------------
\* The entry the SMMU would use for a stream now, cached or in memory, and the
\* frames it leads to, by a cached translation or a walk.
EntryOf(s) == IF cfg[s] = Empty THEN strtab[s] ELSE cfg[s]
Reach(s) ==
    IF EntryOf(s) = Nobody THEN {}
    ELSE tables[EntryOf(s)] \cup {f \in Frame : <<EntryOf(s), f>> \in tlb}

(* No device reaches into another domain's memory, at any point of a         *)
(* dispatch: what a stream reaches belongs to the domain of the entry in use *)
(* or, while that domain is being destroyed, to nobody.  And whenever a      *)
(* dispatch has returned it belongs to the domain that holds the device now; *)
(* a device nobody holds reaches nothing.  A stale entry or translation that *)
(* outlives its domain would reach the next owner of its frames.             *)
DmaConfined ==
    \A s \in Sid : \A f \in Reach(s) :
        /\ owner[f] \in {EntryOf(s), Nobody}
        /\ Idle => owner[f] = HolderOf(s) /\ HolderOf(s) # Nobody

(* A reborn domain inherits nothing a guest wrote: whenever a dispatch has   *)
(* returned, a frame that holds a guest's bytes still has an owner, so the   *)
(* next owner of any frame finds it zeroed.                                  *)
GuestBytesScrubbed == Idle => cpu \subseteq Allocated

(* What teardown.rs says of a freed frame ("Nothing is left at rest"): once  *)
(* the dispatch that freed it has returned, a free frame holds no bytes, of  *)
(* a guest or of its device.                                                 *)
NothingLeftAtRest == Idle => (cpu \cup dma) \subseteq Allocated
=============================================================================
