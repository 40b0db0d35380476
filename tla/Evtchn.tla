------------------------------- MODULE Evtchn -------------------------------
(* hv-core/src/evtchn.rs: event channels.  Every domain has a fixed table of *)
(* ports; a port is a pair (dom, port), and its channel is a state plus the  *)
(* pending and masked bits.  A refused call writes nothing (a stutter).      *)
EXTENDS Domains

CONSTANTS PortsPerDomain,   \* ports in a domain's table
          NumVirqs          \* VIRQ numbers: 256 in the code

ASSUME EvtchnAssumption == PortsPerDomain \in Nat /\ NumVirqs \in Nat

VARIABLE ports

Port   == 0..(PortsPerDomain - 1)
PortId == Dom \X Port
Virq   == 0..(NumVirqs - 1)

\* PortState: exactly one variant at any time; a field a variant lacks is -1.
Free                == [kind |-> "Free", remote |-> -1, port |-> -1, vcpu |-> -1, virq |-> -1]
Unbound(r)          == [Free EXCEPT !.kind = "Unbound", !.remote = r]
Interdomain(c)      == [Free EXCEPT !.kind = "Interdomain", !.remote = c[1], !.port = c[2]]
VirqPort(vcpu, virq) == [Free EXCEPT !.kind = "Virq", !.vcpu = vcpu, !.virq = virq]
IpiPort(vcpu)       == [Free EXCEPT !.kind = "Ipi", !.vcpu = vcpu]
PortState ==
    {Free} \cup {Unbound(r) : r \in Dom} \cup {Interdomain(c) : c \in PortId}
           \cup {VirqPort(v, q) : v \in Vcpu, q \in Virq} \cup {IpiPort(v) : v \in Vcpu}

\* EventChannel: a channel with both signal bits clear, and EventChannel::FREE.
Quiet(s)    == [state |-> s, pending |-> FALSE, masked |-> FALSE]
EventChannel == [state : PortState, pending : BOOLEAN, masked : BOOLEAN]

IsInterdomain(s) == s.kind = "Interdomain"
PeerOf(s)        == <<s.remote, s.port>>

\* find_free: the lowest free port of the domain's table.
IsFirstFree(c) ==
    /\ ports[c].state = Free
    /\ \A p \in Port : p < c[2] => ports[<<c[1], p>>].state # Free

EvtchnInit == ports = [c \in PortId |-> Quiet(Free)]

-----------------------------------------------------------------------------
\* alloc_unbound: a half-open port of c's domain, awaiting the domain remote.
AllocUnbound(c, remote) ==
    /\ IsFirstFree(c)
    /\ ports' = [ports EXCEPT ![c].state = Unbound(remote)]

\* Mutant of BindInterdomain: binds a port that awaits some other domain.
BindInterdomainHijack(c, peer) ==
    /\ ports[peer].state.kind = "Unbound"
    /\ IsFirstFree(c)
    /\ ports' = [ports EXCEPT ![c] = Quiet(Interdomain(peer)),
                              ![peer] = Quiet(Interdomain(c))]

\* bind_interdomain: connect a fresh port c to peer, which must be half-open
\* and awaiting c's domain.  Both ends start with clear signal bits.
BindInterdomain(c, peer) ==
    /\ ports[peer].state = Unbound(c[1])
    /\ IsFirstFree(c)
    /\ ports' = [ports EXCEPT ![c] = Quiet(Interdomain(peer)),
                              ![peer] = Quiet(Interdomain(c))]

\* bind_virq: refused (VirqInUse) if the domain already binds the pair.
BindVirq(c, vcpu, virq) ==
    /\ \A p \in Port : ports[<<c[1], p>>].state # VirqPort(vcpu, virq)
    /\ IsFirstFree(c)
    /\ ports' = [ports EXCEPT ![c].state = VirqPort(vcpu, virq)]

\* bind_ipi
BindIpi(c, vcpu) ==
    /\ IsFirstFree(c)
    /\ ports' = [ports EXCEPT ![c].state = IpiPort(vcpu)]

\* close: the port is freed; an interdomain peer is half-open again, awaiting
\* the closer's domain, with its signal bits cleared.
Close(c) ==
    LET s == ports[c].state
    IN  /\ s # Free
        /\ ports' = [x \in PortId |->
                        IF x = c THEN Quiet(Free)
                        ELSE IF IsInterdomain(s) /\ x = PeerOf(s) THEN Quiet(Unbound(c[1]))
                        ELSE ports[x]]

\* send_target: the peer of an interdomain port, an IPI port itself.
CanSend(c)    == ports[c].state.kind \in {"Interdomain", "Ipi"}
SendTarget(c) == IF IsInterdomain(ports[c].state) THEN PeerOf(ports[c].state) ELSE c

\* send: set the pending bit of the target.
Send(c) ==
    /\ CanSend(c)
    /\ ports' = [ports EXCEPT ![SendTarget(c)].pending = TRUE]

\* raise_virq: the hypervisor's own signal, on the port bound to (vcpu, virq).
RaiseVirq(c, vcpu, virq) ==
    /\ ports[c].state = VirqPort(vcpu, virq)
    /\ ports' = [ports EXCEPT ![c].pending = TRUE]

\* mask and unmask (set_masked)
SetMasked(c, value) ==
    /\ ports[c].state # Free
    /\ ports' = [ports EXCEPT ![c].masked = value]

\* Mutant of Consume: acknowledges the event on both ends of the channel.
ConsumeBothEnds(c) ==
    /\ ports[c].state # Free
    /\ ports' = [x \in PortId |-> IF x = c \/ (CanSend(c) /\ x = SendTarget(c))
                                  THEN [ports[x] EXCEPT !.pending = FALSE] ELSE ports[x]]

\* consume: the guest acknowledges the event.
Consume(c) ==
    /\ ports[c].state # Free
    /\ ports' = [ports EXCEPT ![c].pending = FALSE]

\* Mutant of AfterCloseAll: the peers of d's channels are left connected.
AfterCloseAllForgetsPeers(pt, d) ==
    [c \in PortId |-> IF c[1] = d THEN Quiet(Free) ELSE pt[c]]

\* close_all: the loop of close over d's bound ports.  All of them end Free;
\* a peer outside d is half-open again, still naming d.
AfterCloseAll(pt, d) ==
    [c \in PortId |->
        IF c[1] = d THEN Quiet(Free)
        ELSE IF \E p \in Port : IsInterdomain(pt[<<d, p>>].state) /\ PeerOf(pt[<<d, p>>].state) = c
             THEN Quiet(Unbound(d))
             ELSE pt[c]]
CloseAll(d) == ports' = AfterCloseAll(ports, d)

\* Mutant of AfterClearUnboundInto: frees half-open ports whoever they await.
AfterClearUnboundAny(pt, d) ==
    [c \in PortId |-> IF pt[c].state.kind = "Unbound" THEN Quiet(Free) ELSE pt[c]]

\* clear_unbound_into: free every half-open port, of any domain, awaiting d.
AfterClearUnboundInto(pt, d) ==
    [c \in PortId |-> IF pt[c].state = Unbound(d) THEN Quiet(Free) ELSE pt[c]]
ClearUnboundInto(d) == ports' = AfterClearUnboundInto(ports, d)

EvtchnNext ==
    \/ \E c \in PortId, remote \in Dom : AllocUnbound(c, remote)
    \/ \E c, peer \in PortId : BindInterdomain(c, peer)
    \/ \E c \in PortId, vcpu \in Vcpu, virq \in Virq :
           BindVirq(c, vcpu, virq) \/ RaiseVirq(c, vcpu, virq)
    \/ \E c \in PortId, vcpu \in Vcpu : BindIpi(c, vcpu)
    \/ \E c \in PortId : Close(c) \/ Send(c) \/ Consume(c)
    \/ \E c \in PortId, value \in BOOLEAN : SetMasked(c, value)
    \/ \E d \in Dom : CloseAll(d) \/ ClearUnboundInto(d)

EvtchnSpec == EvtchnInit /\ [][EvtchnNext]_ports

-----------------------------------------------------------------------------
\* deliverable, notify_target, has_deliverable_for, any_unbound_into: the
\* queries the hypervisor layer decides on.
Deliverable(pt, c) == pt[c].pending /\ ~pt[c].masked
NotifyTarget(pt, c) ==
    IF pt[c].state.kind \in {"Virq", "Ipi"} THEN pt[c].state.vcpu
    ELSE IF pt[c].state = Free THEN -1 ELSE 0
HasDeliverableFor(pt, x) ==
    \E p \in Port : Deliverable(pt, <<x[1], p>>) /\ NotifyTarget(pt, <<x[1], p>>) = x[2]
AnyUnboundInto(pt, d) == \E c \in PortId : pt[c].state = Unbound(d)

-----------------------------------------------------------------------------
(* Every channel is in one declared state, with two Boolean signal bits.     *)
EvtchnTypeOK == ports \in [PortId -> EventChannel]

(* The headline invariant of evtchn.rs: the peer of an interdomain port is   *)
(* an interdomain port that points back at it.  close, close_all and         *)
(* bind_interdomain each write the two ends in separate statements.          *)
PeerReciprocity ==
    \A c \in PortId : IsInterdomain(ports[c].state) =>
        /\ PeerOf(ports[c].state) \in PortId \ {c}
        /\ ports[PeerOf(ports[c].state)].state = Interdomain(c)

(* No (vcpu, virq) of a domain is bound to two ports, so raise_virq, which   *)
(* signals the first match only, never misses the port the guest polls.      *)
VirqUnique ==
    \A c, e \in PortId :
        (c[1] = e[1] /\ c # e /\ ports[c].state.kind = "Virq")
            => ports[e].state # ports[c].state

(* A signal exists only where someone can have sent it: Free ports carry no  *)
(* bit at all and half-open ports are never pending, although ports are      *)
(* reused and a peer's close turns a signalled port half-open again.         *)
SilentUntilBound ==
    \A c \in PortId :
        /\ ports[c].pending => ports[c].state.kind \in {"Interdomain", "Virq", "Ipi"}
        /\ ports[c].state = Free => ports[c] = Quiet(Free)

(* Both together: the two ends of a channel name each other, and no signal   *)
(* outlives the channel it was sent on.                                      *)
ChannelsSound == PeerReciprocity /\ SilentUntilBound

(* A port is connected only by consent and only clean: one end was free, the *)
(* other was half-open awaiting exactly the new peer's domain, and neither   *)
(* end of the new channel is pending or masked.                              *)
ConnectedCleanly ==
    \A c \in PortId :
        LET s == ports'[c].state
        IN  (IsInterdomain(s) /\ s # ports[c].state) =>
                /\ ports[c].state \in {Free, Unbound(s.remote)}
                /\ ports'[c] = Quiet(s)

(* bind_interdomain is the only way to a channel: no step connects a port    *)
(* that did not wait for the peer's domain.                                  *)
ConnectedByConsent == [][ConnectedCleanly]_ports

(* A pending event is never lost in passing: the bit falls only when the     *)
(* port stops being what it was (it, or its peer, is closed) or in a step    *)
(* that acknowledges this port and touches no other.                         *)
AcknowledgedAlone ==
    \A c \in PortId :
        (ports[c].pending /\ ~ports'[c].pending /\ ports'[c].state = ports[c].state)
            => \A e \in PortId \ {c} : ports'[e] = ports[e]

(* No step takes an event away from a port that stays connected, unless it   *)
(* is that port's own acknowledgement.                                       *)
EventsNotLost == [][AcknowledgedAlone]_ports
=============================================================================
