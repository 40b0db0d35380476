----------------------------- MODULE Hypervisor -----------------------------
(* hv-core/src/hypervisor.rs: the seven subsystems behind one dispatch.      *)
(* Every step is a Transition of the code: a hypercall of a Live caller, or  *)
(* a virtual interrupt raised by the hypervisor itself.  The seam adds the   *)
(* checks and effects no subsystem can make alone: liveness and authority,   *)
(* the wake-up behind an event, the page reference behind a grant mapping,   *)
(* the grant behind a foreign page-table entry, and teardown.  A refused     *)
(* call writes nothing (a stutter), so it is no step here.                   *)
EXTENDS Sched, Evtchn, Grant, P2m, Authority, Device, Credit

vars == <<schedVars, ports, grantVars, p2mVars, authVars, holder, credit>>

\* new()
HvInit == /\ SchedInit /\ EvtchnInit /\ GrantInit /\ P2mInit
          /\ AuthInit /\ DeviceInit /\ CreditInit

\* The frame conditions of a call that stays inside one subsystem.
OnlySched  == UNCHANGED <<ports, grantVars, p2mVars, authVars, holder, credit>>
OnlyEvtchn == UNCHANGED <<schedVars, grantVars, p2mVars, authVars, holder, credit>>
OnlyGrant  == UNCHANGED <<schedVars, ports, p2mVars, authVars, holder, credit>>
OnlyP2m    == UNCHANGED <<schedVars, ports, grantVars, authVars, holder, credit>>
OnlyAuth   == UNCHANGED <<schedVars, ports, grantVars, p2mVars, holder, credit>>
OnlyDevice == UNCHANGED <<schedVars, ports, grantVars, p2mVars, authVars, credit>>
OnlyCredit == UNCHANGED <<schedVars, ports, grantVars, p2mVars, authVars, holder>>
\* ... and of the event calls that may wake a vCPU, and of grant mappings.
OnlyEvents == UNCHANGED <<grantVars, p2mVars, authVars, holder, credit>>
OnlyMemory == UNCHANGED <<schedVars, ports, authVars, holder, credit>>

-----------------------------------------------------------------------------
\* CreditGrant, CreditSpend
HvCreditGrant(caller, amount) == IsLive(caller) /\ GrantCredit(caller, amount) /\ OnlyCredit
HvCreditSpend(caller, amount) == IsLive(caller) /\ SpendCredit(caller, amount) /\ OnlyCredit

\* EvtchnAllocUnbound: the awaited domain must be Live (reject_dead_target).
HvEvtchnAllocUnbound(caller, p, remote) ==
    IsLive(caller) /\ IsLive(remote) /\ AllocUnbound(<<caller, p>>, remote) /\ OnlyEvtchn

HvEvtchnBindInterdomain(caller, p, peer) ==
    IsLive(caller) /\ BindInterdomain(<<caller, p>>, peer) /\ OnlyEvtchn
HvEvtchnBindVirq(caller, p, vcpu, virq) ==
    IsLive(caller) /\ BindVirq(<<caller, p>>, vcpu, virq) /\ OnlyEvtchn
HvEvtchnBindIpi(caller, p, vcpu) ==
    IsLive(caller) /\ BindIpi(<<caller, p>>, vcpu) /\ OnlyEvtchn
HvEvtchnClose(caller, p)   == IsLive(caller) /\ Close(<<caller, p>>) /\ OnlyEvtchn
HvEvtchnMask(caller, p)    == IsLive(caller) /\ SetMasked(<<caller, p>>, TRUE) /\ OnlyEvtchn
HvEvtchnConsume(caller, p) == IsLive(caller) /\ Consume(<<caller, p>>) /\ OnlyEvtchn

\* wake_if_deliverable, after the event step has fixed ports': the notify
\* target of a deliverable port is woken if it is Blocked; a refused wake of
\* any other state is ignored.
WakeIfDeliverable(c) ==
    LET x == <<c[1], NotifyTarget(ports', c)>>
    IN  IF Deliverable(ports', c) /\ x \in VcpuId /\ runstate[x] = Blocked
        THEN Wake(x) ELSE UNCHANGED schedVars

\* evtchn_send: signal the target, then wake whom it notifies.
HvEvtchnSend(caller, p) ==
    /\ IsLive(caller)
    /\ Send(<<caller, p>>)
    /\ WakeIfDeliverable(SendTarget(<<caller, p>>))
    /\ OnlyEvents

\* evtchn_unmask: the other edge into deliverability.
HvEvtchnUnmask(caller, p) ==
    /\ IsLive(caller)
    /\ SetMasked(<<caller, p>>, FALSE)
    /\ WakeIfDeliverable(<<caller, p>>)
    /\ OnlyEvents

\* raise_vcpu_virq: not a hypercall, so it meets no liveness gate.
HvRaiseVcpuVirq(dom, p, vcpu, virq) ==
    /\ RaiseVirq(<<dom, p>>, vcpu, virq)
    /\ WakeIfDeliverable(<<dom, p>>)
    /\ OnlyEvents

-----------------------------------------------------------------------------
HvSchedAdmit(caller, vcpu)         == IsLive(caller) /\ Admit(<<caller, vcpu>>) /\ OnlySched
HvSchedRun(caller, vcpu, p, now)   == IsLive(caller) /\ Run(<<caller, vcpu>>, p, now) /\ OnlySched
HvSchedPreempt(caller, vcpu, now)  == IsLive(caller) /\ Preempt(<<caller, vcpu>>, now) /\ OnlySched
HvSchedWake(caller, vcpu)          == IsLive(caller) /\ Wake(<<caller, vcpu>>) /\ OnlySched
HvSchedOffline(caller, vcpu, now)  == IsLive(caller) /\ TakeOffline(<<caller, vcpu>>, now) /\ OnlySched

\* Mutant of HvSchedBlock: does not look for work that is already waiting.
HvSchedBlockNoRecheck(caller, vcpu, now) ==
    IsLive(caller) /\ Block(<<caller, vcpu>>, now) /\ OnlySched

\* sched_block: a no-op while a deliverable event waits for the vCPU.
HvSchedBlock(caller, vcpu, now) ==
    /\ IsLive(caller)
    /\ ~HasDeliverableFor(ports, <<caller, vcpu>>)
    /\ Block(<<caller, vcpu>>, now)
    /\ OnlySched

\* Mutant of HvSchedSetAffinity: any domain's vCPUs.
HvSchedSetAffinityUngated(caller, target, vcpu, mask) ==
    IsLive(caller) /\ SetAffinity(<<target, vcpu>>, mask) /\ OnlySched

\* sched_set_affinity: one's own vCPUs, or those of a controlled peer.
HvSchedSetAffinity(caller, target, vcpu, mask) ==
    /\ IsLive(caller) /\ MayActOn(caller, target)
    /\ SetAffinity(<<target, vcpu>>, mask)
    /\ OnlySched

-----------------------------------------------------------------------------
\* GrantAccess: the grantee must be Live; who owns the frame is not asked.
HvGrantAccess(caller, gref, grantee, frame, readonly) ==
    /\ IsLive(caller) /\ IsLive(grantee)
    /\ GrantAccess(<<caller, gref>>, grantee, frame, readonly)
    /\ OnlyGrant

\* is_foreign_linked_by: a table of d's names a frame that is not d's.
ForeignLinkedBy(f, d) ==
    \E l \in links : /\ l.child = f /\ frames[l.parent].owner = d
                     /\ frames[f].owner \notin {d, NoOwner}

\* Mutant of HvGrantEndAccess: withdraws the consent behind a live entry.
HvGrantEndAccessLinked(caller, gref) ==
    IsLive(caller) /\ EndAccess(<<caller, gref>>) /\ OnlyGrant

\* grant_end_access: refused while the grantee's tables name the frame.
HvGrantEndAccess(caller, gref) ==
    LET e == grants[<<caller, gref>>]
    IN  /\ IsLive(caller)
        /\ e.live => ~ForeignLinkedBy(e.frame, e.grantee)
        /\ EndAccess(<<caller, gref>>)
        /\ OnlyGrant

\* Mutant of HvGrantMap: trusts the permit and does not ask who owns the frame.
HvGrantMapStale(caller, g, writable, h) ==
    LET f == grants[g].frame
    IN  /\ IsLive(caller) /\ grants[g].live
        /\ MapGrant(caller, g, writable, h)
        /\ IF writable THEN CanGetWritable(frames, f) /\ frames' = AfterGetWritable(frames, f)
                       ELSE CanGet(frames, f) /\ frames' = AfterGet(frames, f)
        /\ UNCHANGED links /\ OnlyMemory

\* grant_map: the permit must still name a frame its grantor owns; then the
\* mapping and the page reference behind it, or (p2m refuses, and the mapping
\* is rolled back) neither.
HvGrantMap(caller, g, writable, h) ==
    LET f == grants[g].frame
    IN  /\ IsLive(caller) /\ grants[g].live /\ frames[f].owner = g[1]
        /\ MapGrant(caller, g, writable, h)
        /\ IF writable THEN CanGetWritable(frames, f) /\ frames' = AfterGetWritable(frames, f)
                       ELSE CanGet(frames, f) /\ frames' = AfterGet(frames, f)
        /\ UNCHANGED links /\ OnlyMemory

\* The frames after every mapping in gone gives back its page reference.
MapsOverFrame(gr, S, f) == {m \in S : gr[m.grant].frame = f}
AfterPutMaps(fr, gr, gone) ==
    [f \in Frame |-> [fr[f] EXCEPT
        !.refs = @ - Cardinality(MapsOverFrame(gr, gone, f)),
        !.writable_refs = @ - Cardinality({m \in MapsOverFrame(gr, gone, f) : m.writable})]]

\* Mutant of HvGrantUnmap: releases the existence reference of a writable map.
HvGrantUnmapUntyped(caller, m) ==
    /\ IsLive(caller)
    /\ UnmapGrant(caller, m)
    /\ frames' = [frames EXCEPT ![grants[m.grant].frame].refs = @ - 1]
    /\ UNCHANGED links /\ OnlyMemory

\* grant_unmap
HvGrantUnmap(caller, m) ==
    /\ IsLive(caller)
    /\ UnmapGrant(caller, m)
    /\ frames' = AfterPutMaps(frames, grants, {m})
    /\ UNCHANGED links /\ OnlyMemory

-----------------------------------------------------------------------------
HvP2mAllocate(caller, f)   == IsLive(caller) /\ Allocate(caller, f) /\ OnlyP2m
HvP2mFree(caller, f)       == IsLive(caller) /\ Release(caller, f) /\ OnlyP2m
HvP2mPin(caller, f, level) == IsLive(caller) /\ Pin(caller, f, level) /\ OnlyP2m
HvP2mUnpin(caller, f)      == IsLive(caller) /\ Unpin(caller, f) /\ OnlyP2m
HvP2mUnlink(caller, l)     == IsLive(caller) /\ Unlink(caller, l) /\ OnlyP2m

\* Mutant of HvP2mLink: asks for a grant only where the entry is writable.
HvP2mLinkReadsFreely(caller, l) ==
    LET owner == frames[l.child].owner
    IN  /\ IsLive(caller)
        /\ l.writable /\ owner \notin {caller, NoOwner} =>
               Authorizes(grants, owner, caller, l.child, l.writable)
        /\ Link(caller, l)
        /\ OnlyP2m

\* p2m_link: an entry onto another domain's frame needs that domain's grant,
\* read-write for a writable entry, whatever the level or shape.
HvP2mLink(caller, l) ==
    LET owner == frames[l.child].owner
    IN  /\ IsLive(caller)
        /\ owner \notin {caller, NoOwner} =>
               Authorizes(grants, owner, caller, l.child, l.writable)
        /\ Link(caller, l)
        /\ OnlyP2m

-----------------------------------------------------------------------------
HvDomainCreate(caller, target, mc) ==
    IsLive(caller) /\ CreateDomain(caller, target, mc) /\ OnlyAuth

\* Mutant of TeardownMemory: leaves other domains' entries into its frames.
TeardownMemoryKeepsInward(target) ==
    LET gone    == ForeignOver(maps, target) \cup HeldBy(maps, target)
        fr3     == AfterPutMaps(frames, grants, gone)
        permits == Revoked(AfterUnmap(grants, gone), OfferedBy(target))
        outward == LinksFrom(fr3, links, target)
        fr4     == Unlinked(fr3, outward)
        fr5     == Unpinned(fr4, PinnedBy(fr4, target))
    IN  /\ maps'   = maps \ gone
        /\ grants' = Revoked(permits, OfferedTo(permits, target))
        /\ links'  = links \ outward
        /\ frames' = AfterFreeAll(fr5, target)

\* The memory half of domain_destroy, in the code's order: the mappings others
\* hold over the target's grants, then their entries into its frames, then the
\* mappings it holds; its permits; its tables, its pins, its frames; at last
\* the permits that name it.
TeardownMemory(target) ==
    LET foreign == ForeignOver(maps, target)
        fr1     == AfterPutMaps(frames, grants, foreign)
        inward  == LinksInto(fr1, links, target)
        fr2     == Unlinked(fr1, inward)
        own     == HeldBy(maps \ foreign, target)
        fr3     == AfterPutMaps(fr2, grants, own)
        permits == Revoked(AfterUnmap(grants, foreign \cup own), OfferedBy(target))
        outward == LinksFrom(fr3, links \ inward, target)
        fr4     == Unlinked(fr3, outward)
        fr5     == Unpinned(fr4, PinnedBy(fr4, target))
    IN  /\ maps'   = maps \ (foreign \cup own)
        /\ grants' = Revoked(permits, OfferedTo(permits, target))
        /\ links'  = links \ (inward \cup outward)
        /\ frames' = AfterFreeAll(fr5, target)

\* domain_destroy: oneself, or a controlled peer; past that gate nothing is
\* refused.
HvDomainDestroy(caller, target, now) ==
    /\ IsLive(caller) /\ MayActOn(caller, target)
    /\ ports' = AfterClearUnboundInto(AfterCloseAll(ports, target), target)
    /\ OfflineAll(target, now)
    /\ TeardownMemory(target)
    /\ ReleaseAllOf(target)
    /\ BuryDomain(target)
    /\ UNCHANGED credit

HvControlGrant(caller, target, to) ==
    IsLive(caller) /\ DelegateControl(caller, target, to) /\ OnlyAuth
HvControlRevoke(caller, target, from) ==
    IsLive(caller) /\ RevokeControl(caller, target, from) /\ OnlyAuth

\* device_assign: control of the recipient, without exemption for oneself.
HvDeviceAssign(caller, dev, to) ==
    /\ IsLive(caller) /\ Controls(caller, to) /\ IsLive(to)
    /\ AssignDevice(dev, to) /\ OnlyDevice
\* device_release: one's own device, or a controlled peer's.
HvDeviceRelease(caller, dev, from) ==
    /\ IsLive(caller) /\ MayActOn(caller, from)
    /\ ReleaseDevice(dev, from) /\ OnlyDevice

-----------------------------------------------------------------------------
\* The calls of one Live caller, by subsystem; apply() adds the raised VIRQ.
CreditCall(d) == \E amount \in Amount : HvCreditGrant(d, amount) \/ HvCreditSpend(d, amount)

EventCall(d) ==
    \E p \in Port :
        \/ HvEvtchnClose(d, p) \/ HvEvtchnSend(d, p) \/ HvEvtchnConsume(d, p)
        \/ HvEvtchnMask(d, p) \/ HvEvtchnUnmask(d, p)
        \/ \E remote \in Dom : HvEvtchnAllocUnbound(d, p, remote)
        \/ \E peer \in PortId : HvEvtchnBindInterdomain(d, p, peer)
        \/ \E vcpu \in Vcpu : HvEvtchnBindIpi(d, p, vcpu)
        \/ \E vcpu \in Vcpu, virq \in Virq : HvEvtchnBindVirq(d, p, vcpu, virq)

SchedCall(d) ==
    \E vcpu \in Vcpu :
        \/ HvSchedAdmit(d, vcpu) \/ HvSchedWake(d, vcpu)
        \/ \E now \in Ticks :
               \/ HvSchedPreempt(d, vcpu, now) \/ HvSchedBlock(d, vcpu, now)
               \/ HvSchedOffline(d, vcpu, now)
               \/ \E p \in Pcpu : HvSchedRun(d, vcpu, p, now)
        \/ \E target \in Dom, mask \in SUBSET (0..(MaskWidth - 1)) :
               HvSchedSetAffinity(d, target, vcpu, mask)

MemoryCall(d) ==
    \/ \E gref \in Gref :
           \/ HvGrantEndAccess(d, gref)
           \/ \E grantee \in Dom, frame \in Frame, readonly \in BOOLEAN :
                  HvGrantAccess(d, gref, grantee, frame, readonly)
    \/ \E g \in GrantId, writable \in BOOLEAN, h \in 0..Cardinality(maps) :
           HvGrantMap(d, g, writable, h)
    \/ \E m \in maps : HvGrantUnmap(d, m)
    \/ \E f \in Frame : HvP2mAllocate(d, f) \/ HvP2mFree(d, f) \/ HvP2mUnpin(d, f)
    \/ \E f \in Frame, level \in Level : HvP2mPin(d, f, level)
    \/ \E l \in LinkState : HvP2mLink(d, l)
    \/ \E l \in links : HvP2mUnlink(d, l)

DomainCall(d) ==
    \E target \in Dom :
        \/ \E mc \in BOOLEAN : HvDomainCreate(d, target, mc)
        \/ \E now \in Ticks : HvDomainDestroy(d, target, now)
        \/ \E other \in Dom :
               HvControlGrant(d, target, other) \/ HvControlRevoke(d, target, other)
        \/ \E dev \in Dev : HvDeviceAssign(d, dev, target) \/ HvDeviceRelease(d, dev, target)

HvNext ==
    \/ \E d \in Dom : CreditCall(d) \/ EventCall(d) \/ SchedCall(d) \/ MemoryCall(d) \/ DomainCall(d)
    \/ \E d \in Dom, p \in Port, vcpu \in Vcpu, virq \in Virq : HvRaiseVcpuVirq(d, p, vcpu, virq)

HvSpec == HvInit /\ [][HvNext]_vars

-----------------------------------------------------------------------------
(* Every subsystem's state keeps its type behind the seam.                   *)
HvTypeOK == /\ SchedTypeOK /\ EvtchnTypeOK /\ GrantTypeOK /\ P2mTypeOK
            /\ AuthTypeOK /\ DeviceTypeOK /\ CreditTypeOK

(* LostWakeup: no deliverable event rests on a Blocked vCPU.  An event turns *)
(* deliverable by a send, a raised VIRQ or an unmask, in any order with the  *)
(* vCPU's own block, and nothing but those steps would wake it.              *)
NoLostWakeup == \A x \in VcpuId : runstate[x] = Blocked => ~HasDeliverableFor(ports, x)

(* MisownedGrantMap: the frame behind a mapped grant is its grantor's.  A    *)
(* permit may outlive the grantor's ownership, and the frame may have been   *)
(* freed and allocated to a third domain since; a mapping may not.           *)
GrantMapsOwned ==
    \A g \in GrantId : grants[g].maps > 0 => frames[grants[g].frame].owner = g[1]

(* UnbackedGrantMap, exactly: a frame's counts are the page-table entries,   *)
(* the pin and the grant mappings over it, kind by kind.  The two tables are *)
(* counted up and down by separate calls, also half-way through a teardown.  *)
HvRefsAccounted ==
    LET mapped(f)   == Cardinality(MapsOverFrame(grants, maps, f))
        writable(f) == Cardinality({m \in MapsOverFrame(grants, maps, f) : m.writable})
    IN  AccountedWith(mapped, writable)

(* UnauthorizedForeignLink: an entry of one domain's table that names a      *)
(* frame of another is covered by a live grant of that frame, from its       *)
(* present owner to the table's owner, for at least the entry's access.      *)
ForeignLinksAuthorized ==
    \A l \in links :
        LET owner == frames[l.child].owner
            user  == frames[l.parent].owner
        IN  owner # user => Authorizes(grants, owner, user, l.child, l.writable)

(* DeadDomainNotClean: a Dead slot owns and offers nothing: every port Free, *)
(* every vCPU Offline, no permit, no mapping, no frame.                      *)
DeadClean ==
    \A d \in Dom : ~IsLive(d) =>
        /\ \A p \in Port : ports[<<d, p>>].state = Free
        /\ \A v \in Vcpu : runstate[<<d, v>>] = Offline
        /\ \A ref \in Gref : ~grants[<<d, ref>>].live
        /\ \A m \in maps : m.grantee # d
        /\ \A f \in Frame : frames[f].owner # d

(* DeadDomainReferenced: nothing names a Dead slot: no permit, no half-open  *)
(* port and no device waits for the next domain to be born in it.            *)
DeadUnreferenced ==
    \A d \in Dom : ~IsLive(d) =>
        OfferedTo(grants, d) = {} /\ ~AnyUnboundInto(ports, d) /\ ~AnyDeviceOf(d)

(* A dead slot is empty and unnamed: domain_destroy takes down the ports,    *)
(* permits, mappings and frames the dead domain held and the permits, ports  *)
(* and devices others held for it.  A vCPU's affinity and the domain's       *)
(* credit are not part of it.                                                *)
DeadSlotEmpty == DeadClean /\ DeadUnreferenced

(* What sched.rs says of a reused slot: "a vCPU re-admitted, or reborn in a  *)
(* reused domain slot, starts with no stale scheduling constraint from a     *)
(* past life", so the vCPUs of a Dead slot carry the default affinity.       *)
DeadAffinityDefault == \A x \in VcpuId : ~IsLive(x[1]) => affinity[x] = FullMask

(* Teardown is confined.  When a domain dies, every other domain keeps what  *)
(* did not involve the dead one: its vCPUs, the state of its ports apart     *)
(* from channels to the dead, the ownership, the pins and the levels of its  *)
(* frames, its permits to others with their mappings, and the page-table     *)
(* entries between survivors' frames.                                        *)
TeardownKept ==
    \A t \in Dom : (IsLive(t) /\ ~IsLive(t)') =>
        /\ \A x \in VcpuId : x[1] # t => runstate'[x] = runstate[x] /\ affinity'[x] = affinity[x]
        /\ \A c \in PortId : (c[1] # t /\ ports[c].state.remote # t) => ports'[c] = ports[c]
        /\ \A f \in Frame : frames[f].owner # t =>
              /\ frames'[f].owner = frames[f].owner
              /\ frames'[f].pinned = frames[f].pinned
              /\ IsTable(frames, f) /\ IsTable(frames', f)
                    => frames'[f].pt_level = frames[f].pt_level
        /\ \A g \in GrantId : (g[1] # t /\ grants[g].grantee # t) => grants'[g] = grants[g]
        /\ \A m \in maps : (m.grant[1] # t /\ m.grantee # t) => m \in maps'
        /\ \A l \in links : t \notin {frames[l.parent].owner, frames[l.child].owner} => l \in links'
        /\ \A d \in Dom \ {t} : life'[d] = life[d] /\ may_create'[d] = may_create[d]

(* Teardown is confined, as an action property: no step that ends a domain   *)
(* takes more than that domain had a part in.                                *)
TeardownConfined == [][TeardownKept]_vars
=============================================================================
