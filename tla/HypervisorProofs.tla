-------------------------- MODULE HypervisorProofs --------------------------
(* The scheduler and the event channels behind the hypervisor's dispatch,    *)
(* for every number of domains, ports, vCPUs and pCPUs: the whole hypervisor *)
(* implements the scheduler specification, channels stay reciprocal through  *)
(* teardown, and no wake-up is lost.                                         *)
EXTENDS Hypervisor, SubsystemProofs, TLAPS

-----------------------------------------------------------------------------
(* What a transition of the hypervisor may do to the scheduler and to the    *)
(* event channels.  Every call has one of these five shapes.                 *)

\* A call that touches neither.
Elsewhere == UNCHANGED <<schedVars, ports>>

\* An event call that makes no port deliverable.
QuietCall ==
    /\ UNCHANGED schedVars
    /\ \E c \in PortId :
           \/ \E remote \in Dom : AllocUnbound(c, remote)
           \/ \E peer \in PortId : BindInterdomain(c, peer)
           \/ \E vcpu \in Vcpu, virq \in Virq : BindVirq(c, vcpu, virq)
           \/ \E vcpu \in Vcpu : BindIpi(c, vcpu)
           \/ Close(c) \/ Consume(c) \/ SetMasked(c, TRUE)

\* An event call that may make the port c deliverable, and then wakes.
SignalCall ==
    \E c \in PortId :
        /\ \/ Send(c) /\ WakeIfDeliverable(SendTarget(c))
           \/ SetMasked(c, FALSE) /\ WakeIfDeliverable(c)
           \/ /\ \E vcpu \in Vcpu, virq \in Virq : RaiseVirq(c, vcpu, virq)
              /\ WakeIfDeliverable(c)

\* A scheduler call; block only with no work waiting.
CpuCall ==
    /\ UNCHANGED ports
    /\ \E x \in VcpuId :
           \/ Admit(x) \/ Wake(x)
           \/ \E now \in Ticks : \/ Preempt(x, now) \/ TakeOffline(x, now)
                                 \/ ~HasDeliverableFor(ports, x) /\ Block(x, now)
                                 \/ \E p \in Pcpu : Run(x, p, now)
           \/ \E mask \in SUBSET (0..(MaskWidth - 1)) : SetAffinity(x, mask)

\* domain_destroy.
TeardownCall ==
    \E d \in Dom, now \in Ticks :
        /\ OfflineAll(d, now)
        /\ ports' = AfterClearUnboundInto(AfterCloseAll(ports, d), d)

(* Every transition of the dispatch has one of the five shapes.              *)
LEMMA StepShape ==
    ASSUME HvNext
    PROVE  Elsewhere \/ QuietCall \/ SignalCall \/ CpuCall \/ TeardownCall
<1>1. /\ \A d \in Dom, p \in Port : <<d, p>> \in PortId
      /\ \A d \in Dom, v \in Vcpu : <<d, v>> \in VcpuId
  BY DEF PortId, VcpuId
<1>2. ASSUME NEW d \in Dom, CreditCall(d)
      PROVE  Elsewhere
  BY <1>2 DEF CreditCall, HvCreditGrant, HvCreditSpend, OnlyCredit, Elsewhere
<1>3. ASSUME NEW d \in Dom, EventCall(d)
      PROVE  QuietCall \/ SignalCall
  <2>1. PICK p \in Port :
           \/ HvEvtchnClose(d, p) \/ HvEvtchnSend(d, p) \/ HvEvtchnConsume(d, p)
           \/ HvEvtchnMask(d, p) \/ HvEvtchnUnmask(d, p)
           \/ \E remote \in Dom : HvEvtchnAllocUnbound(d, p, remote)
           \/ \E peer \in PortId : HvEvtchnBindInterdomain(d, p, peer)
           \/ \E vcpu \in Vcpu : HvEvtchnBindIpi(d, p, vcpu)
           \/ \E vcpu \in Vcpu, virq \in Virq : HvEvtchnBindVirq(d, p, vcpu, virq)
    BY <1>3 DEF EventCall
  <2>2. <<d, p>> \in PortId
    BY <1>1
  <2>3. HvEvtchnSend(d, p) \/ HvEvtchnUnmask(d, p) => SignalCall
    BY <2>2 DEF HvEvtchnSend, HvEvtchnUnmask, SignalCall
  <2>4. HvEvtchnClose(d, p) \/ HvEvtchnConsume(d, p) \/ HvEvtchnMask(d, p) => QuietCall
    BY <2>2 DEF HvEvtchnClose, HvEvtchnConsume, HvEvtchnMask, OnlyEvtchn, QuietCall
  <2>5. (\E remote \in Dom : HvEvtchnAllocUnbound(d, p, remote)) => QuietCall
    BY <2>2 DEF HvEvtchnAllocUnbound, OnlyEvtchn, QuietCall
  <2>6. (\E peer \in PortId : HvEvtchnBindInterdomain(d, p, peer)) => QuietCall
    BY <2>2 DEF HvEvtchnBindInterdomain, OnlyEvtchn, QuietCall
  <2>7. (\E vcpu \in Vcpu : HvEvtchnBindIpi(d, p, vcpu)) => QuietCall
    BY <2>2 DEF HvEvtchnBindIpi, OnlyEvtchn, QuietCall
  <2>8. (\E vcpu \in Vcpu, virq \in Virq : HvEvtchnBindVirq(d, p, vcpu, virq)) => QuietCall
    BY <2>2 DEF HvEvtchnBindVirq, OnlyEvtchn, QuietCall
  <2> QED BY <2>1, <2>3, <2>4, <2>5, <2>6, <2>7, <2>8
<1>4. ASSUME NEW d \in Dom, SchedCall(d)
      PROVE  CpuCall
  <2>1. PICK vcpu \in Vcpu :
           \/ HvSchedAdmit(d, vcpu) \/ HvSchedWake(d, vcpu)
           \/ \E now \in Ticks :
                  \/ HvSchedPreempt(d, vcpu, now) \/ HvSchedBlock(d, vcpu, now)
                  \/ HvSchedOffline(d, vcpu, now)
                  \/ \E p \in Pcpu : HvSchedRun(d, vcpu, p, now)
           \/ \E target \in Dom, mask \in SUBSET (0..(MaskWidth - 1)) :
                  HvSchedSetAffinity(d, target, vcpu, mask)
    BY <1>4 DEF SchedCall
  <2>2. <<d, vcpu>> \in VcpuId
    BY <1>1
  <2>3. HvSchedAdmit(d, vcpu) \/ HvSchedWake(d, vcpu) => CpuCall
    BY <2>2 DEF HvSchedAdmit, HvSchedWake, OnlySched, CpuCall
  <2>4. ASSUME NEW now \in Ticks,
               \/ HvSchedPreempt(d, vcpu, now) \/ HvSchedBlock(d, vcpu, now)
               \/ HvSchedOffline(d, vcpu, now)
               \/ \E p \in Pcpu : HvSchedRun(d, vcpu, p, now)
        PROVE  CpuCall
    BY <2>2, <2>4
       DEF HvSchedPreempt, HvSchedBlock, HvSchedOffline, HvSchedRun, OnlySched, CpuCall
  <2>5. ASSUME NEW target \in Dom, NEW mask \in SUBSET (0..(MaskWidth - 1)),
               HvSchedSetAffinity(d, target, vcpu, mask)
        PROVE  CpuCall
    <3>1. <<target, vcpu>> \in VcpuId
      BY <1>1
    <3> QED BY <2>5, <3>1 DEF HvSchedSetAffinity, OnlySched, CpuCall
  <2> QED BY <2>1, <2>3, <2>4, <2>5
<1>5. ASSUME NEW d \in Dom, MemoryCall(d)
      PROVE  Elsewhere
  BY <1>5 DEF MemoryCall, HvGrantEndAccess, HvGrantAccess, HvGrantMap, HvGrantUnmap,
              HvP2mAllocate, HvP2mFree, HvP2mUnpin, HvP2mPin, HvP2mLink, HvP2mUnlink,
              OnlyGrant, OnlyMemory, OnlyP2m, Elsewhere
<1>6. ASSUME NEW d \in Dom, DomainCall(d)
      PROVE  Elsewhere \/ TeardownCall
  <2>1. ASSUME NEW target \in Dom, NEW now \in Ticks, HvDomainDestroy(d, target, now)
        PROVE  TeardownCall
    BY <2>1 DEF HvDomainDestroy, TeardownCall
  <2>2. ASSUME NEW target \in Dom, NEW mc \in BOOLEAN, HvDomainCreate(d, target, mc)
        PROVE  Elsewhere
    BY <2>2 DEF HvDomainCreate, OnlyAuth, Elsewhere
  <2>3. ASSUME NEW target \in Dom, NEW other \in Dom,
               HvControlGrant(d, target, other) \/ HvControlRevoke(d, target, other)
        PROVE  Elsewhere
    BY <2>3 DEF HvControlGrant, HvControlRevoke, OnlyAuth, Elsewhere
  <2>4. ASSUME NEW target \in Dom, NEW dev \in Dev,
               HvDeviceAssign(d, dev, target) \/ HvDeviceRelease(d, dev, target)
        PROVE  Elsewhere
    BY <2>4 DEF HvDeviceAssign, HvDeviceRelease, OnlyDevice, Elsewhere
  <2> QED BY <1>6, <2>1, <2>2, <2>3, <2>4 DEF DomainCall
<1>7. ASSUME NEW d \in Dom, NEW p \in Port, NEW vcpu \in Vcpu, NEW virq \in Virq,
             HvRaiseVcpuVirq(d, p, vcpu, virq)
      PROVE  SignalCall
  BY <1>1, <1>7 DEF HvRaiseVcpuVirq, SignalCall
<1> QED BY <1>2, <1>3, <1>4, <1>5, <1>6, <1>7 DEF HvNext
-----------------------------------------------------------------------------
(* A wake is a scheduler step or nothing.                                    *)
LEMMA WakeIsSchedStep ==
    ASSUME NEW c, WakeIfDeliverable(c)
    PROVE  [SchedNext]_schedVars
  BY DEF WakeIfDeliverable, SchedNext

(* Every transition of the hypervisor is one step of sched.rs or leaves the  *)
(* scheduler alone: none writes its tables behind its back, and none makes   *)
(* two scheduler steps at once.                                              *)
LEMMA HvStepIsSchedStep ==
    ASSUME [HvNext]_vars
    PROVE  [SchedNext]_schedVars
<1>1. CASE UNCHANGED vars
  BY <1>1 DEF vars
<1>2. CASE HvNext
  <2>1. Elsewhere \/ QuietCall => UNCHANGED schedVars
    BY DEF Elsewhere, QuietCall
  <2>2. SignalCall => [SchedNext]_schedVars
    BY WakeIsSchedStep DEF SignalCall
  <2>3. CpuCall => SchedNext
    BY DEF CpuCall, SchedNext
  <2>4. TeardownCall => SchedNext
    BY DEF TeardownCall, SchedNext
  <2> QED BY <1>2, <2>1, <2>2, <2>3, <2>4, StepShape
<1> QED BY <1>1, <1>2

(* Refinement: the hypervisor, with its wake-ups and its teardown, implements *)
(* the scheduler's own specification.                                        *)
THEOREM HvImplementsSched == HvSpec => SchedSpec
<1>1. HvInit => SchedInit
  BY DEF HvInit
<1> QED BY <1>1, HvStepIsSchedStep, PTL DEF HvSpec, SchedSpec

(* Hence pCPU exclusivity and hard affinity hold behind the seam, whoever    *)
(* destroys whom while vCPUs run.                                            *)
THEOREM HvSchedulerSound == HvSpec => []SchedSound
  BY HvImplementsSched, SchedulerSound, PTL

-----------------------------------------------------------------------------
(* The ports after a teardown: d's own, those connected to d and those that  *)
(* wait for d are Free and silent, all others are as they were.              *)
LEMMA TeardownPorts ==
    ASSUME EvtchnInv, NEW d \in Dom,
           ports' = AfterClearUnboundInto(AfterCloseAll(ports, d), d)
    PROVE  \A c \in PortId :
               ports'[c] = IF c \in Reached(d) \/ ports[c].state = Unbound(d)
                           THEN Quiet(Free) ELSE ports[c]
<1> SUFFICES ASSUME NEW c \in PortId
             PROVE  ports'[c] = IF c \in Reached(d) \/ ports[c].state = Unbound(d)
                                THEN Quiet(Free) ELSE ports[c]
  OBVIOUS
<1> DEFINE mid == AfterCloseAll(ports, d)
<1>1. mid[c] = IF c[1] = d THEN Quiet(Free)
               ELSE IF Linked(d, c) THEN Quiet(Unbound(d)) ELSE ports[c]
  BY DEF AfterCloseAll, Linked
<1>2. ports'[c] = IF mid[c].state = Unbound(d) THEN Quiet(Free) ELSE mid[c]
  BY DEF AfterClearUnboundInto
<1>3. /\ Quiet(Unbound(d)).state = Unbound(d)
      /\ Quiet(Free).state = Free /\ Free # Unbound(d)
  BY PortStateFacts, QuietFacts
<1> HIDE DEF mid
<1>4. CASE c[1] = d
  BY <1>1, <1>2, <1>3, <1>4 DEF Reached
<1>5. CASE c[1] # d /\ Linked(d, c)
  BY <1>1, <1>2, <1>3, <1>5 DEF Reached
<1>6. CASE c[1] # d /\ ~Linked(d, c)
  BY <1>1, <1>2, <1>6 DEF Reached
<1> QED BY <1>4, <1>5, <1>6

(* Teardown preserves the event-channel invariant: close_all and             *)
(* clear_unbound_into together free a set of ports that no survivor's        *)
(* channel leads into.                                                       *)
LEMMA TeardownEvtchnInv ==
    ASSUME EvtchnInv, NEW d \in Dom,
           ports' = AfterClearUnboundInto(AfterCloseAll(ports, d), d)
    PROVE  EvtchnInv'
<1> DEFINE gone == {c \in PortId : c \in Reached(d) \/ ports[c].state = Unbound(d)}
<1>1. /\ gone \in SUBSET PortId
      /\ \A c \in PortId \ gone : ports'[c] = ports[c]
      /\ \A c \in gone : ports'[c] = Quiet(Free)
  BY TeardownPorts
<1>2. ports' \in [PortId -> EventChannel]
  <2>1. DOMAIN ports' = PortId /\ ports' = [c \in PortId |-> ports'[c]]
    BY DEF AfterClearUnboundInto
  <2>2. \A c \in PortId : ports'[c] \in EventChannel
    BY <1>1, PortStateFacts, QuietFacts DEF EvtchnInv, EvtchnTypeOK
  <2> QED BY <2>1, <2>2
<1>3. \A c \in PortId \ gone :
          IsInterdomain(ports[c].state) => PeerOf(ports[c].state) \notin gone
  <2> SUFFICES ASSUME NEW c \in PortId \ gone, IsInterdomain(ports[c].state)
               PROVE  PeerOf(ports[c].state) \notin gone
    OBVIOUS
  <2>1. PeerOf(ports[c].state) \notin Reached(d)
    BY ReachedClosed
  <2>2. ports[PeerOf(ports[c].state)].state # Unbound(d)
    BY PortStateFacts DEF EvtchnInv, PeerReciprocity, IsInterdomain
  <2> QED BY <2>1, <2>2
<1> HIDE DEF gone
<1> QED BY <1>1, <1>2, <1>3, DisconnectInv

(* Every transition of the hypervisor preserves the event-channel invariant. *)
LEMMA HvStepEvtchnInv ==
    ASSUME EvtchnInv, [HvNext]_vars
    PROVE  EvtchnInv'
<1>1. CASE UNCHANGED ports
  BY <1>1, EvtchnStepInv
<1>2. QuietCall => EvtchnNext
  BY DEF QuietCall, EvtchnNext
<1>3. SignalCall => EvtchnNext
  BY DEF SignalCall, EvtchnNext
<1>4. TeardownCall => EvtchnInv'
  BY TeardownEvtchnInv DEF TeardownCall
<1>5. Elsewhere \/ CpuCall => UNCHANGED ports
  BY DEF Elsewhere, CpuCall
<1>6. UNCHANGED vars => UNCHANGED ports
  BY DEF vars
<1> QED BY <1>1, <1>2, <1>3, <1>4, <1>5, <1>6, StepShape, EvtchnStepInv

(* The event-channel invariant holds in every reachable state.               *)
LEMMA HvEvtchnInv == HvSpec => []EvtchnInv
<1>1. HvInit => EvtchnInv
  BY EvtchnInitInv DEF HvInit
<1> QED BY <1>1, HvStepEvtchnInv, PTL DEF HvSpec

(* Channels are reciprocal and silent behind the seam too, where a domain    *)
(* may die with channels to any other, and to itself.                        *)
THEOREM HvChannelsSound == HvSpec => []ChannelsSound
<1>1. EvtchnInv => ChannelsSound
  BY DEF EvtchnInv, ChannelsSound
<1> QED BY <1>1, HvEvtchnInv, PTL

(* Every transition connects ports by consent and loses no event in passing: *)
(* it is a transition of evtchn.rs, or a teardown, which only disconnects.   *)
LEMMA HvStepKeepsPorts ==
    ASSUME EvtchnInv, [HvNext]_vars
    PROVE  ConnectedCleanly /\ AcknowledgedAlone
<1>1. QuietCall \/ SignalCall => EvtchnNext
  BY DEF QuietCall, SignalCall, EvtchnNext
<1>2. TeardownCall => ConnectedCleanly /\ AcknowledgedAlone
  BY TeardownPorts, DisconnectKeeps DEF TeardownCall
<1>3. Elsewhere \/ CpuCall \/ UNCHANGED vars => UNCHANGED ports
  BY DEF Elsewhere, CpuCall, vars
<1> QED BY <1>1, <1>2, <1>3, StepShape, EvtchnStepKeeps

(* A port is connected only to the domain it was opened for, and only clean, *)
(* through every close, teardown and reuse of its slot.                      *)
THEOREM ChannelsConnectByConsent == HvSpec => ConnectedByConsent
<1>1. EvtchnInv /\ [HvNext]_vars => [ConnectedCleanly]_ports
  BY HvStepKeepsPorts
<1> QED BY <1>1, HvEvtchnInv, PTL DEF HvSpec, ConnectedByConsent

(* A pending event falls only with its port or by its own acknowledgement.   *)
THEOREM EventsNeverLost == HvSpec => EventsNotLost
<1>1. EvtchnInv /\ [HvNext]_vars => [AcknowledgedAlone]_ports
  BY HvStepKeepsPorts
<1> QED BY <1>1, HvEvtchnInv, PTL DEF HvSpec, EventsNotLost

-----------------------------------------------------------------------------
(* No lost wake-up.  NoLostWakeup is inductive once the event channels are   *)
(* known to be silent until bound: then binding a port that was used before  *)
(* cannot uncover an old signal, and the only edges into deliverability are  *)
(* the three that wake.                                                      *)

(* A step that puts no vCPU to sleep and makes no port deliverable, nor      *)
(* redirects a deliverable one, loses no wake-up.                            *)
LEMMA CalmStepKeeps ==
    ASSUME NoLostWakeup,
           \A x \in VcpuId : runstate'[x] = Blocked => runstate[x] = Blocked,
           \A c \in PortId : Deliverable(ports', c) =>
               ports'[c] = ports[c]
    PROVE  NoLostWakeup'
<1> SUFFICES ASSUME NEW x \in VcpuId, runstate'[x] = Blocked, NEW p \in Port,
                    Deliverable(ports', <<x[1], p>>),
                    NotifyTarget(ports', <<x[1], p>>) = x[2]
             PROVE  FALSE
  BY DEF NoLostWakeup, HasDeliverableFor
<1>1. <<x[1], p>> \in PortId
  BY DEF PortId, VcpuId
<1>2. ports'[<<x[1], p>>] = ports[<<x[1], p>>]
  BY <1>1
<1>3. Deliverable(ports, <<x[1], p>>) /\ NotifyTarget(ports, <<x[1], p>>) = x[2]
  BY <1>2 DEF Deliverable, NotifyTarget
<1> QED BY <1>3 DEF NoLostWakeup, HasDeliverableFor

(* A step that changes one port and then wakes its notify target loses none. *)
LEMMA WakeKeeps ==
    ASSUME NoLostWakeup, SchedInv, NEW c \in PortId,
           \A e \in PortId \ {c} : ports'[e] = ports[e],
           WakeIfDeliverable(c)
    PROVE  NoLostWakeup'
<1> DEFINE w == <<c[1], NotifyTarget(ports', c)>>
<1>1. \A x \in VcpuId : runstate'[x] = Blocked => runstate[x] = Blocked
  BY RunStateFacts DEF WakeIfDeliverable, Wake, schedVars, SchedInv, SchedTypeOK
<1>2. (Deliverable(ports', c) /\ w \in VcpuId) => runstate'[w] # Blocked
  <2>1. Runnable # Blocked
    BY DEF Runnable, Blocked
  <2>2. CASE Deliverable(ports', c) /\ w \in VcpuId /\ runstate[w] = Blocked
    <3>1. Wake(w)
      BY <2>2 DEF WakeIfDeliverable
    <3>2. runstate'[w] = Runnable
      BY <2>2, <3>1 DEF Wake, SchedInv, SchedTypeOK
    <3> QED BY <2>1, <3>2
  <2>3. CASE ~(Deliverable(ports', c) /\ w \in VcpuId /\ runstate[w] = Blocked)
    BY <2>3 DEF WakeIfDeliverable, schedVars
  <2> QED BY <2>2, <2>3
<1> SUFFICES ASSUME NEW x \in VcpuId, runstate'[x] = Blocked, NEW p \in Port,
                    Deliverable(ports', <<x[1], p>>),
                    NotifyTarget(ports', <<x[1], p>>) = x[2]
             PROVE  FALSE
  BY DEF NoLostWakeup, HasDeliverableFor
<1>3. <<x[1], p>> \in PortId /\ x = <<x[1], x[2]>>
  BY DEF PortId, VcpuId
<1>4. CASE <<x[1], p>> = c
  BY <1>2, <1>3, <1>4
<1>5. CASE <<x[1], p>> # c
  <2>1. ports'[<<x[1], p>>] = ports[<<x[1], p>>]
    BY <1>3, <1>5
  <2>2. Deliverable(ports, <<x[1], p>>) /\ NotifyTarget(ports, <<x[1], p>>) = x[2]
    BY <2>1 DEF Deliverable, NotifyTarget
  <2> QED BY <1>1, <2>2 DEF NoLostWakeup, HasDeliverableFor
<1> QED BY <1>4, <1>5
(* An event call that signals nobody leaves every port it writes silent.     *)
LEMMA QuietCallCalm ==
    ASSUME EvtchnInv, QuietCall
    PROVE  \A e \in PortId : Deliverable(ports', e) => ports'[e] = ports[e]
<1>1. PICK c \in PortId :
           \/ \E remote \in Dom : AllocUnbound(c, remote)
           \/ \E peer \in PortId : BindInterdomain(c, peer)
           \/ \E vcpu \in Vcpu, virq \in Virq : BindVirq(c, vcpu, virq)
           \/ \E vcpu \in Vcpu : BindIpi(c, vcpu)
           \/ Close(c) \/ Consume(c) \/ SetMasked(c, TRUE)
  BY DEF QuietCall
<1>2. ASSUME NEW s, ports[c].state = Free, ports' = [ports EXCEPT ![c].state = s]
      PROVE  \A e \in PortId : Deliverable(ports', e) => ports'[e] = ports[e]
  <2>1. ports[c].pending = FALSE
    BY <1>2, PortStateFacts, QuietFacts
       DEF EvtchnInv, EvtchnTypeOK, SilentUntilBound, EventChannel
  <2>2. ports'[c].pending = FALSE /\ \A e \in PortId \ {c} : ports'[e] = ports[e]
    BY <1>2, <2>1 DEF EvtchnInv, EvtchnTypeOK, EventChannel
  <2> QED BY <2>2 DEF Deliverable
<1>3. CASE (\E remote \in Dom : AllocUnbound(c, remote))
  BY <1>2, <1>3 DEF AllocUnbound, IsFirstFree
<1>4. CASE \E vcpu \in Vcpu, virq \in Virq : BindVirq(c, vcpu, virq)
  BY <1>2, <1>4 DEF BindVirq, IsFirstFree
<1>5. CASE \E vcpu \in Vcpu : BindIpi(c, vcpu)
  BY <1>2, <1>5 DEF BindIpi, IsFirstFree
<1>6. ASSUME NEW peer \in PortId, BindInterdomain(c, peer)
      PROVE  \A e \in PortId : Deliverable(ports', e) => ports'[e] = ports[e]
  <2>1. \A e \in PortId : \/ ports'[e] = ports[e]
                          \/ ports'[e] = Quiet(Interdomain(peer))
                          \/ ports'[e] = Quiet(Interdomain(c))
    BY <1>6 DEF BindInterdomain, EvtchnInv, EvtchnTypeOK
  <2> QED BY <2>1, PortStateFacts, QuietFacts DEF Deliverable
<1>7. CASE Close(c)
  <2>1. c[1] \in Dom
    BY DEF PortId
  <2>2. \A e \in PortId : \/ ports'[e] = ports[e]
                          \/ ports'[e] = Quiet(Free)
                          \/ ports'[e] = Quiet(Unbound(c[1]))
    BY <1>7 DEF Close
  <2> QED BY <2>1, <2>2, PortStateFacts, QuietFacts DEF Deliverable
<1>8. CASE Consume(c) \/ SetMasked(c, TRUE)
  <2>1. /\ ports'[c].pending = FALSE \/ ports'[c].masked = TRUE
        /\ \A e \in PortId \ {c} : ports'[e] = ports[e]
    BY <1>8 DEF Consume, SetMasked, EvtchnInv, EvtchnTypeOK, EventChannel
  <2> QED BY <2>1 DEF Deliverable
<1> QED BY <1>1, <1>3, <1>4, <1>5, <1>6, <1>7, <1>8

(* The inductive invariant of the seam between events and the scheduler.     *)
WakeupInv == SchedInv /\ EvtchnInv /\ NoLostWakeup

(* Every transition of the hypervisor preserves it.                          *)
LEMMA HvStepWakeupInv ==
    ASSUME WakeupInv, [HvNext]_vars
    PROVE  WakeupInv'
<1> USE DEF WakeupInv
<1>1. SchedInv' /\ EvtchnInv'
  BY HvStepIsSchedStep, SchedStepInv, HvStepEvtchnInv
<1>2. CASE Elsewhere \/ UNCHANGED vars
  <2>1. runstate' = runstate /\ ports' = ports
    BY <1>2 DEF Elsewhere, vars, schedVars
  <2> QED BY <1>1, <2>1, CalmStepKeeps
<1>3. CASE QuietCall
  <2>1. runstate' = runstate
    BY <1>3 DEF QuietCall, schedVars
  <2> QED BY <1>1, <1>3, <2>1, CalmStepKeeps, QuietCallCalm
<1>4. CASE SignalCall
  <2>1. PICK c \in PortId :
            \/ Send(c) /\ WakeIfDeliverable(SendTarget(c))
            \/ SetMasked(c, FALSE) /\ WakeIfDeliverable(c)
            \/ /\ \E vcpu \in Vcpu, virq \in Virq : RaiseVirq(c, vcpu, virq)
               /\ WakeIfDeliverable(c)
    BY <1>4 DEF SignalCall
  <2>2. CASE Send(c) /\ WakeIfDeliverable(SendTarget(c))
    <3>1. SendTarget(c) \in PortId
      BY <2>2 DEF Send, CanSend, SendTarget, EvtchnInv, PeerReciprocity, IsInterdomain
    <3>2. \A e \in PortId \ {SendTarget(c)} : ports'[e] = ports[e]
      BY <2>2, <3>1 DEF Send, EvtchnInv, EvtchnTypeOK
    <3> QED BY <1>1, <2>2, <3>1, <3>2, WakeKeeps
  <2>3. CASE SetMasked(c, FALSE) /\ WakeIfDeliverable(c)
    BY <1>1, <2>3, WakeKeeps DEF SetMasked, EvtchnInv, EvtchnTypeOK
  <2>4. ASSUME NEW vcpu \in Vcpu, NEW virq \in Virq, RaiseVirq(c, vcpu, virq),
               WakeIfDeliverable(c)
        PROVE  WakeupInv'
    BY <1>1, <2>4, WakeKeeps DEF RaiseVirq, EvtchnInv, EvtchnTypeOK
  <2> QED BY <2>1, <2>2, <2>3, <2>4
<1>5. CASE CpuCall
  <2>1. ports' = ports
    BY <1>5 DEF CpuCall
  <2>2. PICK x \in VcpuId :
           \/ Admit(x) \/ Wake(x)
           \/ \E now \in Ticks : \/ Preempt(x, now) \/ TakeOffline(x, now)
                                 \/ ~HasDeliverableFor(ports, x) /\ Block(x, now)
                                 \/ \E p \in Pcpu : Run(x, p, now)
           \/ \E mask \in SUBSET (0..(MaskWidth - 1)) : SetAffinity(x, mask)
    BY <1>5 DEF CpuCall
  <2>3. ASSUME NEW now \in Ticks, ~HasDeliverableFor(ports, x), Block(x, now)
        PROVE  NoLostWakeup'
    <3>1. runstate' = [runstate EXCEPT ![x] = Blocked]
      BY <2>3 DEF Block
    <3> QED BY <2>1, <2>3, <3>1 DEF NoLostWakeup, SchedInv, SchedTypeOK
  <2>4. /\ Runnable # Blocked /\ Offline # Blocked
        /\ \A p \in Pcpu : Running(p) # Blocked
    BY DEF Runnable, Offline, Blocked, Running
  <2>5. ASSUME \/ Admit(x) \/ Wake(x)
               \/ \E now \in Ticks : \/ Preempt(x, now) \/ TakeOffline(x, now)
                                     \/ \E p \in Pcpu : Run(x, p, now)
               \/ \E mask \in SUBSET (0..(MaskWidth - 1)) : SetAffinity(x, mask)
        PROVE  \A y \in VcpuId : runstate'[y] = Blocked => runstate[y] = Blocked
    BY <2>4, <2>5
       DEF Admit, Wake, Preempt, TakeOffline, Run, SetAffinity, SchedInv, SchedTypeOK
  <2> QED BY <1>1, <2>1, <2>2, <2>3, <2>5, CalmStepKeeps
<1>6. CASE TeardownCall
  <2>1. PICK d \in Dom, now \in Ticks :
            /\ OfflineAll(d, now)
            /\ ports' = AfterClearUnboundInto(AfterCloseAll(ports, d), d)
    BY <1>6 DEF TeardownCall
  <2>2. Offline # Blocked
    BY DEF Offline, Blocked
  <2>3. \A x \in VcpuId : runstate'[x] = Blocked => runstate[x] = Blocked
    BY <2>1, <2>2 DEF OfflineAll
  <2>4. \A c \in PortId : Deliverable(ports', c) => ports'[c] = ports[c]
    BY <2>1, TeardownPorts, PortStateFacts, QuietFacts DEF Deliverable
  <2> QED BY <1>1, <2>3, <2>4, CalmStepKeeps
<1> QED BY <1>2, <1>3, <1>4, <1>5, <1>6, StepShape

(* No wake-up is ever lost: however sends, raised VIRQs, masking, closing,   *)
(* rebinding, blocking and teardown interleave, no deliverable event rests   *)
(* on a Blocked vCPU.                                                        *)
THEOREM WakeupsNeverLost == HvSpec => []NoLostWakeup
<1>1. HvInit => WakeupInv
  <2>1. HvInit => SchedInv /\ EvtchnInv
    BY SchedInitInv, EvtchnInitInv DEF HvInit
  <2>2. HvInit => NoLostWakeup
    <3>1. Offline # Blocked
      BY DEF Offline, Blocked
    <3> QED BY <3>1 DEF HvInit, SchedInit, NoLostWakeup
  <2> QED BY <2>1, <2>2 DEF WakeupInv
<1>2. WakeupInv => NoLostWakeup
  BY DEF WakeupInv
<1> QED BY <1>1, <1>2, HvStepWakeupInv, PTL DEF HvSpec

-----------------------------------------------------------------------------
(* Credit: only the two credit calls write an account.                       *)
LEMMA CreditStep ==
    ASSUME [HvNext]_vars
    PROVE  \/ UNCHANGED credit
           \/ \E d \in Dom, amount \in Amount : GrantCredit(d, amount) \/ SpendCredit(d, amount)
<1>1. CASE UNCHANGED vars
  BY <1>1 DEF vars
<1>2. ASSUME NEW d \in Dom, CreditCall(d)
      PROVE  \E amount \in Amount : GrantCredit(d, amount) \/ SpendCredit(d, amount)
  BY <1>2 DEF CreditCall, HvCreditGrant, HvCreditSpend
<1>3. ASSUME NEW d \in Dom, EventCall(d)
      PROVE  UNCHANGED credit
  BY <1>3 DEF EventCall, HvEvtchnClose, HvEvtchnSend, HvEvtchnConsume, HvEvtchnMask,
              HvEvtchnUnmask, HvEvtchnAllocUnbound, HvEvtchnBindInterdomain, HvEvtchnBindIpi,
              HvEvtchnBindVirq, OnlyEvtchn, OnlyEvents
<1>4. ASSUME NEW d \in Dom, SchedCall(d)
      PROVE  UNCHANGED credit
  BY <1>4 DEF SchedCall, HvSchedAdmit, HvSchedWake, HvSchedPreempt, HvSchedBlock,
              HvSchedOffline, HvSchedRun, HvSchedSetAffinity, OnlySched
<1>5. ASSUME NEW d \in Dom, MemoryCall(d)
      PROVE  UNCHANGED credit
  BY <1>5 DEF MemoryCall, HvGrantEndAccess, HvGrantAccess, HvGrantMap, HvGrantUnmap,
              HvP2mAllocate, HvP2mFree, HvP2mUnpin, HvP2mPin, HvP2mLink, HvP2mUnlink,
              OnlyGrant, OnlyMemory, OnlyP2m
<1>6. ASSUME NEW d \in Dom, DomainCall(d)
      PROVE  UNCHANGED credit
  BY <1>6 DEF DomainCall, HvDomainCreate, HvDomainDestroy, HvControlGrant, HvControlRevoke,
              HvDeviceAssign, HvDeviceRelease, OnlyAuth, OnlyDevice
<1>7. ASSUME NEW d \in Dom, NEW p \in Port, NEW vcpu \in Vcpu, NEW virq \in Virq,
             HvRaiseVcpuVirq(d, p, vcpu, virq)
      PROVE  UNCHANGED credit
  BY <1>7 DEF HvRaiseVcpuVirq, OnlyEvents
<1> QED BY <1>1, <1>2, <1>3, <1>4, <1>5, <1>6, <1>7 DEF HvNext

(* Conservation is inductive once the fields are numbers of their width.     *)
CreditInv == CreditTypeOK /\ CreditConserved

(* The two calls check every sum before they write, so both the width and    *)
(* the balance equation survive them.                                        *)
LEMMA CreditStepInv ==
    ASSUME CreditInv, [HvNext]_vars
    PROVE  CreditInv'
<1> USE DEF CreditInv, CreditTypeOK, CreditConserved, Account
<1>1. CASE UNCHANGED credit
  BY <1>1
<1>2. ASSUME NEW d \in Dom, NEW amount \in Amount, GrantCredit(d, amount)
      PROVE  CreditInv'
  BY <1>2, CreditAssumption DEF GrantCredit, Amount
<1>3. ASSUME NEW d \in Dom, NEW amount \in Amount, SpendCredit(d, amount)
      PROVE  CreditInv'
  BY <1>3, CreditAssumption DEF SpendCredit, Amount
<1> QED BY <1>1, <1>2, <1>3, CreditStep

(* Credit is never made or lost: through every call and at the width of the  *)
(* counters, what a domain was granted is what it spent plus what it has.    *)
THEOREM CreditAlwaysConserved == HvSpec => []CreditConserved
<1>1. HvInit => CreditInv
  BY CreditAssumption DEF HvInit, CreditInit, CreditInv, CreditTypeOK, CreditConserved, Account
<1>2. CreditInv => CreditConserved
  BY DEF CreditInv
<1> QED BY <1>1, <1>2, CreditStepInv, PTL DEF HvSpec

-----------------------------------------------------------------------------
(* Authority: only create, destroy, control_grant and control_revoke write   *)
(* the lifecycle and the control matrix.                                     *)
LEMMA AuthStep ==
    ASSUME [HvNext]_vars
    PROVE  AuthCall \/ UNCHANGED authVars
<1>1. CASE UNCHANGED vars
  BY <1>1 DEF vars
<1>2. ASSUME NEW d \in Dom, CreditCall(d)
      PROVE  UNCHANGED authVars
  BY <1>2 DEF CreditCall, HvCreditGrant, HvCreditSpend, OnlyCredit
<1>3. ASSUME NEW d \in Dom, EventCall(d)
      PROVE  UNCHANGED authVars
  BY <1>3 DEF EventCall, HvEvtchnClose, HvEvtchnSend, HvEvtchnConsume, HvEvtchnMask,
              HvEvtchnUnmask, HvEvtchnAllocUnbound, HvEvtchnBindInterdomain, HvEvtchnBindIpi,
              HvEvtchnBindVirq, OnlyEvtchn, OnlyEvents
<1>4. ASSUME NEW d \in Dom, SchedCall(d)
      PROVE  UNCHANGED authVars
  BY <1>4 DEF SchedCall, HvSchedAdmit, HvSchedWake, HvSchedPreempt, HvSchedBlock,
              HvSchedOffline, HvSchedRun, HvSchedSetAffinity, OnlySched
<1>5. ASSUME NEW d \in Dom, MemoryCall(d)
      PROVE  UNCHANGED authVars
  BY <1>5 DEF MemoryCall, HvGrantEndAccess, HvGrantAccess, HvGrantMap, HvGrantUnmap,
              HvP2mAllocate, HvP2mFree, HvP2mUnpin, HvP2mPin, HvP2mLink, HvP2mUnlink,
              OnlyGrant, OnlyMemory, OnlyP2m
<1>6. ASSUME NEW d \in Dom, DomainCall(d)
      PROVE  AuthCall \/ UNCHANGED authVars
  BY <1>6 DEF DomainCall, HvDomainCreate, HvDomainDestroy, HvControlGrant, HvControlRevoke,
              HvDeviceAssign, HvDeviceRelease, OnlyDevice, AuthCall
<1>7. ASSUME NEW d \in Dom, NEW p \in Port, NEW vcpu \in Vcpu, NEW virq \in Virq,
             HvRaiseVcpuVirq(d, p, vcpu, virq)
      PROVE  UNCHANGED authVars
  BY <1>7 DEF HvRaiseVcpuVirq, OnlyEvents
<1> QED BY <1>1, <1>2, <1>3, <1>4, <1>5, <1>6, <1>7 DEF HvNext

(* The authority invariant holds in every reachable state.                   *)
LEMMA HvAuthInv == HvSpec => []AuthInv
<1>1. HvInit => AuthInv
  BY AuthInitInv DEF HvInit
<1>2. AuthInv /\ [HvNext]_vars => AuthInv'
  BY AuthStep, AuthStepInv
<1> QED BY <1>1, <1>2, PTL DEF HvSpec

(* No capability over, or held by, a dead slot: domain_destroy removes every *)
(* edge of the dead domain before the slot can be reborn.                    *)
THEOREM AuthorityAlwaysLive == HvSpec => []AuthorityLive
<1>1. AuthInv => AuthorityLive
  BY DEF AuthInv
<1> QED BY <1>1, HvAuthInv, PTL

(* The control edges over every target form one tree that hangs from its     *)
(* creator's Root, after any mix of delegations, revocations and deaths: the *)
(* sweep of hypervisor.rs leaves no orphan and no cycle.                     *)
THEOREM ControlAlwaysForest == HvSpec => []ControlForest
<1>1. AuthInv => ControlForest
  BY DEF AuthInv
<1> QED BY <1>1, HvAuthInv, PTL

(* control_grant never re-parents a controller, and a tree never outlives    *)
(* its Root.                                                                 *)
THEOREM ProvenanceAlwaysStable == HvSpec => ProvenanceStable
<1>1. AuthInv /\ [HvNext]_vars => [ProvenanceKept]_authVars
  BY AuthStep, AuthStepKeepsProvenance
<1> QED BY <1>1, HvAuthInv, PTL DEF HvSpec, ProvenanceStable

(* Every edge comes from a holder's delegation or a creator's capability,    *)
(* and every creation capability from another one.                           *)
THEOREM AuthorityNeverFabricated == HvSpec => NoFabricatedAuthority
<1>1. AuthInv /\ [HvNext]_vars => [AuthorityDerived]_authVars
  BY AuthStep, AuthStepDerivesAuthority
<1> QED BY <1>1, HvAuthInv, PTL DEF HvSpec, NoFabricatedAuthority
=============================================================================
