------------------------------- MODULE Grant -------------------------------
(* hv-core/src/grant.rs: grant tables.  A domain offers a frame to another   *)
(* domain through an entry of its own table; the grantee maps the entry and  *)
(* names each mapping by a handle of its own.  Live mappings are a set: the  *)
(* position of a mapping in the code's flat table is storage only.  A        *)
(* refused call writes nothing (a stutter).                                  *)
EXTENDS Frames

CONSTANT GrefsPerDomain     \* entries in a domain's grant table

ASSUME GrantAssumption == GrefsPerDomain \in Nat

VARIABLES grants,   \* every domain's grant table, by (grantor, gref)
          maps      \* the live mappings

grantVars == <<grants, maps>>

Gref   == 0..(GrefsPerDomain - 1)
GrantId == Dom \X Gref

\* GrantEntry: Free, or Access with the permit and its two map counts.
FreeGrant == [live |-> FALSE, grantee |-> -1, frame |-> -1, readonly |-> FALSE,
              maps |-> 0, writable_maps |-> 0]
Access(grantee, frame, readonly) ==
    [live |-> TRUE, grantee |-> grantee, frame |-> frame, readonly |-> readonly,
     maps |-> 0, writable_maps |-> 0]
GrantEntry ==
    {FreeGrant} \cup [live : {TRUE}, grantee : Dom, frame : Frame, readonly : BOOLEAN,
                      maps : 0..MaxCount, writable_maps : 0..MaxCount]

\* Mapping: the holder, its handle, the entry it is over, and its access.
Mapping == [grantee : Dom, handle : Nat, grant : GrantId, writable : BOOLEAN]

GrantInit == grants = [g \in GrantId |-> FreeGrant] /\ maps = {}

\* alloc_handle: the lowest handle the grantee's live mappings do not use.
HandlesOf(mp, d) == {m.handle : m \in {m \in mp : m.grantee = d}}
IsNextHandle(d, h) ==
    /\ h \notin HandlesOf(maps, d)
    /\ \A k \in 0..(h - 1) : k \in HandlesOf(maps, d)

\* The grant tables after every mapping in gone is unmapped: each takes one
\* off its entry's count, and off the writable count if it was writable.
\* The code's subtraction saturates; GrantTypeOK says it never has to.
MapsOver(S, g)         == {m \in S : m.grant = g}
WritableMapsOver(S, g) == {m \in S : m.grant = g /\ m.writable}
AfterUnmap(gr, gone) ==
    [g \in GrantId |-> [gr[g] EXCEPT
        !.maps = @ - Cardinality(MapsOver(gone, g)),
        !.writable_maps = @ - Cardinality(WritableMapsOver(gone, g))]]

-----------------------------------------------------------------------------
\* grant_access: publish a permit in a free entry of the grantor's table.
GrantAccess(g, grantee, frame, readonly) ==
    /\ ~grants[g].live
    /\ grants' = [grants EXCEPT ![g] = Access(grantee, frame, readonly)]
    /\ UNCHANGED maps

\* end_access: withdraw a permit; refused (InUse) while it is mapped.
EndAccess(g) ==
    /\ grants[g].live /\ grants[g].maps = 0
    /\ grants' = [grants EXCEPT ![g] = FreeGrant]
    /\ UNCHANGED maps

\* The permit check map and copy share: the entry's grantee, and no write
\* through a read-only grant.
Permits(gr, g, grantee, writable) ==
    /\ gr[g].live /\ gr[g].grantee = grantee
    /\ ~(writable /\ gr[g].readonly)

\* Mutant of MapGrant: hands out handle 0 whatever the grantee already holds.
MapGrantReusesHandle(d, g, writable, h) ==
    /\ Permits(grants, g, d, writable)
    /\ grants[g].maps < MaxCount
    /\ IsNextHandle(d, h)
    /\ grants' = [grants EXCEPT ![g].maps = @ + 1,
                                ![g].writable_maps = @ + One(writable)]
    /\ maps' = maps \cup {[grantee |-> d, handle |-> 0, grant |-> g, writable |-> writable]}

\* map: bump the counts (refused at MaxCount) and record the mapping under h.
MapGrant(d, g, writable, h) ==
    /\ Permits(grants, g, d, writable)
    /\ grants[g].maps < MaxCount
    /\ IsNextHandle(d, h)
    /\ grants' = [grants EXCEPT ![g].maps = @ + 1,
                                ![g].writable_maps = @ + One(writable)]
    /\ maps' = maps \cup {[grantee |-> d, handle |-> h, grant |-> g, writable |-> writable]}

\* Release exactly the mappings in gone.
Unmap(gone) ==
    /\ grants' = AfterUnmap(grants, gone)
    /\ maps' = maps \ gone

\* unmap: the caller names one of its own mappings by handle.
UnmapGrant(d, m) == m \in maps /\ m.grantee = d /\ Unmap({m})

\* drain_maps_of: every mapping the domain holds.
HeldBy(mp, d) == {m \in mp : m.grantee = d}
\* drain_foreign_maps_of: every mapping another domain holds over d's grants.
ForeignOver(mp, d) == {m \in mp : m.grant[1] = d /\ m.grantee # d}

DrainMapsOf(d)        == Unmap(HeldBy(maps, d))
DrainForeignMapsOf(d) == Unmap(ForeignOver(maps, d))

\* revoke_all, revoke_grants_to: end_access over the entries in R; an entry
\* that is still mapped is refused and stays.
Revoked(gr, R) ==
    [g \in GrantId |-> IF g \in R /\ gr[g].live /\ gr[g].maps = 0 THEN FreeGrant ELSE gr[g]]
OfferedBy(d)      == {g \in GrantId : g[1] = d}
OfferedTo(gr, d)  == {g \in GrantId : gr[g].live /\ gr[g].grantee = d}

RevokeAll(d)      == grants' = Revoked(grants, OfferedBy(d)) /\ UNCHANGED maps
RevokeGrantsTo(d) == grants' = Revoked(grants, OfferedTo(grants, d)) /\ UNCHANGED maps

GrantNext ==
    \/ \E g \in GrantId, grantee \in Dom, frame \in Frame, readonly \in BOOLEAN :
           GrantAccess(g, grantee, frame, readonly)
    \/ \E g \in GrantId : EndAccess(g)
    \/ \E d \in Dom, g \in GrantId, writable \in BOOLEAN, h \in 0..Cardinality(maps) :
           MapGrant(d, g, writable, h)
    \/ \E d \in Dom, m \in maps : UnmapGrant(d, m)
    \/ \E d \in Dom : DrainMapsOf(d) \/ DrainForeignMapsOf(d)
    \/ \E d \in Dom : RevokeAll(d) \/ RevokeGrantsTo(d)

GrantSpec == GrantInit /\ [][GrantNext]_grantVars

-----------------------------------------------------------------------------
\* authorizes: some live permit of the grantor covers this frame and access.
Authorizes(gr, grantor, grantee, frame, writable) ==
    \E ref \in Gref : /\ Permits(gr, <<grantor, ref>>, grantee, writable)
                      /\ gr[<<grantor, ref>>].frame = frame

-----------------------------------------------------------------------------
(* Entries and mappings have their types; in particular no count wraps past  *)
(* MaxCount and no release takes a count below zero.                         *)
GrantTypeOK == grants \in [GrantId -> GrantEntry] /\ maps \subseteq Mapping

\* The counts of an entry are its live mappings, in total and writable.
RefcountsExact ==
    \A g \in GrantId :
        /\ grants[g].maps = Cardinality(MapsOver(maps, g))
        /\ grants[g].writable_maps = Cardinality(WritableMapsOver(maps, g))

\* A mapping is over a live permit that names its holder and its access.
MapsBacked == \A m \in maps : Permits(grants, m.grant, m.grantee, m.writable)

\* A handle names one mapping of its holder.
HandlesUnique ==
    \A m, n \in maps : (m.grantee = n.grantee /\ m.handle = n.handle) => m = n

(* The three facts the table's users lean on.  end_access, revoke_all and    *)
(* revoke_grants_to decide on an entry's count alone, so a count too low     *)
(* frees a permit in use; a mapping must not outlive or exceed its permit;   *)
(* and unmap and mapping_at take the first mapping with the handle, so a     *)
(* reused handle must not still be live.                                     *)
GrantSound == RefcountsExact /\ MapsBacked /\ HandlesUnique
=============================================================================
