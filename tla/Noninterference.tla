-------------------------- MODULE Noninterference --------------------------
(* hv-sim/src/noninterference.rs: what a domain can observe of the whole     *)
(* state, through which channels another domain may move that, and local     *)
(* respect, the integrity half of noninterference.  The simulator sweeps the *)
(* real hypervisor for it to a bounded depth; here it is a property of every *)
(* step of the dispatch.                                                     *)
EXTENDS Hypervisor

\* obs, frame by frame: the counts, the table use (meaningful only while the
\* frame is a table) and the pin.
FrameView(f) ==
    LET r == frames[f]
    IN  [refs |-> r.refs, writable |-> r.writable_refs, executable |-> r.executable_refs,
         table |-> IF IsTable(frames, f) THEN <<r.pagetable_refs, r.pt_level>> ELSE <<0, 0>>,
         pinned |-> r.pinned]
FramesOf(a) == {f \in Frame : frames[f].owner = a}

\* obs, row by row of the grant table: the entry with its map counts, and
\* whether its grantee's page tables name the frame now.  The grantor learns
\* that last bit from the answer to grant_end_access.
RowView(g) ==
    [entry |-> grants[g],
     linked |-> grants[g].live /\ ForeignLinkedBy(grants[g].frame, grants[g].grantee)]

\* obs: the projection of the state onto what belongs to a.  Left out, as in
\* the code: who occupies the pCPUs, run time, and authority.
Obs(a) ==
    [live    |-> IsLive(a),
     balance |-> credit[a].balance,
     ports   |-> [p \in Port |-> ports[<<a, p>>]],
     rows    |-> [ref \in Gref |-> RowView(<<a, ref>>)],
     held    |-> HeldBy(maps, a),
     vcpus   |-> [v \in Vcpu |-> <<runstate[<<a, v>>], affinity[<<a, v>>]>>],
     frames  |-> [f \in FramesOf(a) |-> FrameView(f)],
     edges   |-> LinksFrom(frames, links, a),
     devices |-> {dev \in Dev : holder[dev] = a}]

-----------------------------------------------------------------------------
\* a_grants_to, a_port_toward: a has offered something to b.
GrantsTo(a, b) == \E ref \in Gref : grants[<<a, ref>>].live /\ grants[<<a, ref>>].grantee = b
PortToward(a, b) ==
    \E p \in Port : LET s == ports[<<a, p>>].state
                    IN  s.kind \in {"Unbound", "Interdomain"} /\ s.remote = b
\* a_borrows_from: a holds a mapping of b's grant, or an entry onto b's frame.
BorrowsFrom(a, b) ==
    \/ \E m \in maps : m.grantee = a /\ m.grant[1] = b
    \/ \E l \in links : frames[l.parent].owner = a /\ frames[l.child].owner = b

\* teardown_reach_to, teardown_borrow_from: b may destroy a domain c that a
\* has offered something to, or borrowed from; for what a borrowed, also by
\* its own death.
TeardownReach(b, a) ==
    \E c \in Dom : Controls(b, c) /\ (GrantsTo(a, c) \/ PortToward(a, c))
TeardownBorrow(b, a) == \E c \in Dom : MayActOn(b, c) /\ BorrowsFrom(a, c)

\* Channels::authorized: b may move what a observes.
Authorized(b, a) ==
    \/ b = a
    \/ GrantsTo(a, b)
    \/ PortToward(a, b)
    \/ Controls(b, a)
    \/ may_create[b] /\ ~IsLive(a)
    \/ TeardownReach(b, a)
    \/ TeardownBorrow(b, a)

\* transition_actor: the caller of a hypercall; for an interrupt the
\* hypervisor raises by itself, the domain it is raised in.
ActsAs(b) ==
    \/ CreditCall(b) \/ EventCall(b) \/ SchedCall(b) \/ MemoryCall(b) \/ DomainCall(b)
    \/ \E p \in Port, vcpu \in Vcpu, virq \in Virq : HvRaiseVcpuVirq(b, p, vcpu, virq)

-----------------------------------------------------------------------------
\* The one flow the code's relation does not name.  grant_access does not ask
\* who owns the frame, so a row of a may name a frame of c; when c dies its
\* frame's foreign entries are reclaimed, and the row's last bit falls with
\* them, although a never offered anything to c or borrowed from it.
TeardownOfGranted(b, a) ==
    \E c \in Dom, ref \in Gref :
        /\ MayActOn(b, c)
        /\ grants[<<a, ref>>].live /\ frames[grants[<<a, ref>>].frame].owner = c

(* What a step of b may move: the view of a domain that gave b a channel.    *)
RespectsLocally ==
    \A a \in Dom : Obs(a)' # Obs(a) =>
        \A b \in Dom : Authorized(b, a) \/ TeardownOfGranted(b, a) \/ ~ActsAs(b)

(* Local respect: no call by b moves anything a observes (its ports and      *)
(* their bits, its permits with their counts, its mappings, vCPUs, frames,   *)
(* page-table entries, devices, credit and life) unless, before the call, a  *)
(* had given b a channel: a permit, a port, control, or a tie to a domain    *)
(* that b may destroy.  Every count b moves on a's side passes through one   *)
(* of the seam's checks, and several of those rest on invariants kept by     *)
(* calls of other domains long before.                                       *)
LocalRespect == [][RespectsLocally]_vars

(* Local respect with the channel relation as noninterference.rs has it, and *)
(* no other: what its module doc says of every reachable state, and what the *)
(* comment in obs says of the last bit of a row.                             *)
LocalRespectAsStated ==
    [][\A a \in Dom : Obs(a)' # Obs(a) => \A b \in Dom : Authorized(b, a) \/ ~ActsAs(b)]_vars
=============================================================================
