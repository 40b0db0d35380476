----------------------------- MODULE Authority -----------------------------
(* The lifecycle and authority state of hv-core/src/hypervisor.rs: which     *)
(* domain slots are Live, which domains may create others, and the matrix of *)
(* control capabilities with their provenance.  An edge (holder, target) is  *)
(* Absent, Root (the creator's) or Via(d) (delegated by d), so the edges     *)
(* over one target form a delegation tree.                                   *)
EXTENDS Domains

VARIABLES life, may_create, controls

authVars == <<life, may_create, controls>>

\* Control.  Via(d) is d itself; the other two are no domain.
Absent  == -2
Root    == -1
Via(d)  == d
Control == {Absent, Root} \cup {Via(d) : d \in Dom}
Edge    == Dom \X Dom

IsLive(d) == life[d] = "Live"
Controls(h, t) == controls[<<h, t>>] # Absent

\* new(): domain 0 boots Live with the creation capability; nobody controls.
AuthInit ==
    /\ life = [d \in Dom |-> IF d = 0 THEN "Live" ELSE "Dead"]
    /\ may_create = [d \in Dom |-> d = 0]
    /\ controls = [e \in Edge |-> Absent]

-----------------------------------------------------------------------------
\* Mutant of Kept: one pass of the sweep instead of a fixpoint.
KeptOnePass(ct, t) ==
    {h \in Dom : ct[<<h, t>>] = Root \/ (ct[<<h, t>>] \in Dom /\ ct[<<ct[<<h, t>>], t>>] # Absent)}

\* sweep_orphaned_control_edges: an edge goes when its delegator's edge over
\* the same target is gone, to a fixpoint.  What stays over t is the largest
\* set of holders closed under "my delegator is kept too".
Kept(ct, t) ==
    UNION {K \in SUBSET Dom :
              \A h \in K : ct[<<h, t>>] = Root \/ (ct[<<h, t>>] \in Dom /\ ct[<<h, t>>] \in K)}
Swept(ct) ==
    [e \in Edge |-> IF ct[e] # Absent /\ e[1] \in Kept(ct, e[2]) THEN ct[e] ELSE Absent]

\* control_subtree_contains: the domains whose provenance walk over t meets
\* c: the least set that has c and everyone delegated to from inside it.
Subtree(ct, c, t) ==
    {n \in Dom : \A K \in SUBSET Dom :
        (c \in K /\ \A h \in Dom : ct[<<h, t>>] \in K => h \in K) => n \in K}

-----------------------------------------------------------------------------
\* Mutant of CreateDomain: the creation capability is not asked for.
CreateDomainUngated(caller, target, mc) ==
    /\ life[target] = "Dead"
    /\ life' = [life EXCEPT ![target] = "Live"]
    /\ may_create' = [may_create EXCEPT ![target] = mc]
    /\ controls' = [controls EXCEPT ![<<caller, target>>] = Root]

\* domain_create: a Dead slot comes to life under its creator's Root edge.
CreateDomain(caller, target, mc) ==
    /\ may_create[caller] /\ life[target] = "Dead"
    /\ life' = [life EXCEPT ![target] = "Live"]
    /\ may_create' = [may_create EXCEPT ![target] = mc]
    /\ controls' = [controls EXCEPT ![<<caller, target>>] = Root]

\* Mutant of BuryDomain: the creation capability survives the domain.
BuryDomainKeepsCreate(target) ==
    /\ life' = [life EXCEPT ![target] = "Dead"]
    /\ controls' = Swept([e \in Edge |-> IF target \in {e[1], e[2]} THEN Absent ELSE controls[e]])
    /\ UNCHANGED may_create

\* The authority part of domain_destroy: the slot dies, loses its creation
\* capability and every edge into or out of it, and what it delegated goes.
BuryDomain(target) ==
    /\ life' = [life EXCEPT ![target] = "Dead"]
    /\ may_create' = [may_create EXCEPT ![target] = FALSE]
    /\ controls' = Swept([e \in Edge |-> IF target \in {e[1], e[2]} THEN Absent ELSE controls[e]])

\* The gate of domain_destroy, sched_set_affinity and device_release: a domain
\* acts on itself, or on a peer it controls.
MayActOn(caller, target) == caller = target \/ Controls(caller, target)

\* Mutant of DelegateControl: re-parents a domain that is a controller already.
DelegateControlReparents(caller, target, to) ==
    /\ Controls(caller, target) /\ to # target /\ IsLive(to)
    /\ controls' = [controls EXCEPT ![<<to, target>>] = Via(caller)]
    /\ UNCHANGED <<life, may_create>>

\* control_grant: hand on control the caller holds.  A domain that controls
\* the target already keeps its provenance (a successful no-op).
DelegateControl(caller, target, to) ==
    /\ Controls(caller, target) /\ to # target /\ IsLive(to)
    /\ ~Controls(to, target)
    /\ controls' = [controls EXCEPT ![<<to, target>>] = Via(caller)]
    /\ UNCHANGED <<life, may_create>>

\* control_revoke: only inside the caller's own subtree, and with everything
\* delegated beneath the revoked edge.
RevokeControl(caller, target, from) ==
    /\ Controls(caller, target)
    /\ from \in Subtree(controls, caller, target)
    /\ controls' = Swept([controls EXCEPT ![<<from, target>>] = Absent])
    /\ UNCHANGED <<life, may_create>>

-----------------------------------------------------------------------------
(* The lifecycle and authority state has its type.                           *)
AuthTypeOK ==
    /\ life \in [Dom -> {"Live", "Dead"}]
    /\ may_create \in [Dom -> BOOLEAN]
    /\ controls \in [Edge -> Control]

(* Authority is tied to life: every control edge relates two different Live  *)
(* domains, and only a Live domain may create.  A capability over or held by *)
(* a dead slot would pass to whoever is reborn in it.                        *)
AuthorityLive ==
    /\ \A e \in Edge : controls[e] # Absent => IsLive(e[1]) /\ IsLive(e[2]) /\ e[1] # e[2]
    /\ \A d \in Dom : may_create[d] => IsLive(d)

\* The edges over each target are a tree that hangs from a single Root.
Forest(ct) ==
    \A t \in Dom :
        LET held == {h \in Dom : ct[<<h, t>>] # Absent}
        IN  held # {} => \E r \in held :
                /\ {h \in held : ct[<<h, t>>] = Root} = {r}
                /\ held \subseteq Subtree(ct, r, t)

(* The edges over a target form one tree: a single Root, from which every    *)
(* holder's delegation chain descends.  So there is no orphan and no cycle,  *)
(* after any mix of delegations, prunings, renunciations and deaths.         *)
ControlForest == Forest(controls)

\* What a step may do to the provenance of the edges there are: nothing but
\* remove them, a Root with its whole tree.
ProvenanceKept ==
    \A e \in Edge : controls[e] # Absent =>
        /\ controls'[e] \in {controls[e], Absent}
        /\ (controls[e] = Root /\ controls'[e] = Absent)
              => \A h \in Dom : controls'[<<h, e[2]>>] = Absent

(* Provenance never changes under a holder: an edge stays as it was made     *)
(* until it is removed, and removing a Root removes the whole tree.          *)
ProvenanceStable == [][ProvenanceKept]_authVars

\* Where the authority a step adds comes from: an edge over a Live domain from
\* a holder that keeps its own, a Root edge from a domain that may create, and
\* a creation capability from another one, with a new life.
AuthorityDerived ==
    /\ \A h, t \in Dom : (controls[<<h, t>>] = Absent /\ controls'[<<h, t>>] # Absent) =>
           IF IsLive(t) THEN \E d \in Dom : /\ controls[<<d, t>>] # Absent
                                            /\ controls'[<<d, t>>] = controls[<<d, t>>]
                                            /\ controls'[<<h, t>>] = Via(d)
                        ELSE may_create[h] /\ controls'[<<h, t>>] = Root
    /\ \A d \in Dom : (may_create'[d] /\ ~may_create[d]) =>
           ~IsLive(d) /\ \E c \in Dom : may_create[c] /\ controls'[<<c, d>>] = Root

(* Authority is never fabricated.  A new edge over a target that was alive   *)
(* was delegated by a holder that keeps its own; a new creation capability   *)
(* was given, with a new life, by a domain that has one.                     *)
NoFabricatedAuthority == [][AuthorityDerived]_authVars
=============================================================================
