-------------------------------- MODULE P2m --------------------------------
(* hv-core/src/p2m.rs: page ownership, page types and page tables.  A frame  *)
(* counts its existence references and, apart, those that make it writable,  *)
(* executable or a page table; a page-table entry is a link from a slot of a *)
(* table to a child frame.  Live links are a set: their place in the code's  *)
(* flat table is storage only.  A refused call writes nothing (a stutter).   *)
EXTENDS Frames

CONSTANTS TableSlots,   \* TABLE_SLOTS: 8 in the code
          MaxLevel      \* the top paging level: PtLevel::L4 in the code

ASSUME P2mAssumption == TableSlots \in Nat /\ MaxLevel \in Nat \ {0}

VARIABLES frames, links

p2mVars == <<frames, links>>

Slot  == 0..(TableSlots - 1)
Level == 1..MaxLevel
NoOwner == -1

\* Frame: Free, or Allocated.  pt_level is meaningful only while
\* pagetable_refs > 0; the last level stays stamped after that.
FreeFrame == [owner |-> NoOwner, refs |-> 0, writable_refs |-> 0, executable_refs |-> 0,
              pagetable_refs |-> 0, pt_level |-> 1, pinned |-> FALSE]
FrameState ==
    [owner : Dom \cup {NoOwner}, refs : 0..MaxCount, writable_refs : 0..MaxCount,
     executable_refs : 0..MaxCount, pagetable_refs : 0..MaxCount, pt_level : Level,
     pinned : BOOLEAN]

\* Link: slot `slot` of table `parent` names `child`.
LinkState == [parent : Frame, slot : Slot, child : Frame,
              writable : BOOLEAN, leaf : BOOLEAN, execute : BOOLEAN]

P2mInit == frames = [f \in Frame |-> FreeFrame] /\ links = {}

-----------------------------------------------------------------------------
\* entry_child_ref: what an entry of this shape holds on its child.
HoldsWritable(l) == l.leaf /\ l.writable
HoldsExec(l)     == l.leaf /\ ~l.writable /\ l.execute
HoldsTable(l)    == ~l.leaf

IsAllocated(fr, f) == fr[f].owner # NoOwner
IsTable(fr, f)     == fr[f].pagetable_refs > 0 /\ fr[f].writable_refs = 0

\* Mutant of CanGet: the count is not checked for overflow.
CanGetUnbounded(fr, f) == IsAllocated(fr, f)

\* acquire_check: each kind of reference, the live types that exclude it, and
\* the overflow check on the existence count (a typed count is never above it).
CanGet(fr, f) == IsAllocated(fr, f) /\ fr[f].refs < MaxCount
CanGetWritable(fr, f) ==
    /\ IsAllocated(fr, f) /\ fr[f].refs < MaxCount
    /\ fr[f].executable_refs = 0 /\ fr[f].pagetable_refs = 0

\* Mutant of CanGetTable: a frame that is a table at one level may be used at
\* another.
CanGetTableAnyLevel(fr, f, level) == CanGet(fr, f) /\ fr[f].writable_refs = 0

CanGetTable(fr, f, level) ==
    /\ CanGet(fr, f)
    /\ fr[f].writable_refs = 0
    /\ fr[f].pagetable_refs > 0 => fr[f].pt_level = level
\* get_exec: its own guard, the other half of write-xor-execute.
CanGetExec(fr, f) == CanGet(fr, f) /\ fr[f].writable_refs = 0

\* get, get_type, get_exec: count up; a first page-table reference stamps the
\* level.
AfterGet(fr, f) == [fr EXCEPT ![f].refs = @ + 1]
AfterGetWritable(fr, f) == [fr EXCEPT ![f].refs = @ + 1, ![f].writable_refs = @ + 1]
AfterGetExec(fr, f) == [fr EXCEPT ![f].refs = @ + 1, ![f].executable_refs = @ + 1]
AfterGetTable(fr, f, level) ==
    [fr EXCEPT ![f].refs = @ + 1, ![f].pagetable_refs = @ + 1,
               ![f].pt_level = IF fr[f].pagetable_refs = 0 THEN level ELSE @]

-----------------------------------------------------------------------------
\* allocate
Allocate(d, f) ==
    /\ ~IsAllocated(frames, f)
    /\ frames' = [frames EXCEPT ![f] = [FreeFrame EXCEPT !.owner = d]]
    /\ UNCHANGED links

\* pin: the owner holds its frame as a table of this level.
Pin(d, f, level) ==
    /\ frames[f].owner = d /\ ~frames[f].pinned
    /\ CanGetTable(frames, f, level)
    /\ frames' = [AfterGetTable(frames, f, level) EXCEPT ![f].pinned = TRUE]
    /\ UNCHANGED links

\* The frames after the pins of the frames in S are dropped (unpin).
Unpinned(fr, S) ==
    [f \in Frame |-> IF f \in S THEN [fr[f] EXCEPT !.pinned = FALSE, !.refs = @ - 1,
                                                   !.pagetable_refs = @ - 1]
                                ELSE fr[f]]

\* unpin
Unpin(d, f) ==
    /\ frames[f].owner = d /\ frames[f].pinned
    /\ frames' = Unpinned(frames, {f})
    /\ UNCHANGED links

\* free: only the owner, and only an unreferenced frame.
Release(d, f) ==
    /\ frames[f].owner = d /\ frames[f].refs = 0
    /\ frames' = [frames EXCEPT ![f] = FreeFrame]
    /\ UNCHANGED links

\* link_index: the slot of a table holds a live entry.
SlotTaken(lk, parent, slot) == \E l \in lk : l.parent = parent /\ l.slot = slot

\* The child reference link takes: its guard, and its effect.
CanHold(fr, l) ==
    IF l.leaf
    THEN IF l.writable THEN CanGetWritable(fr, l.child)
         ELSE IF l.execute THEN CanGetExec(fr, l.child) ELSE CanGet(fr, l.child)
    ELSE /\ fr[l.parent].pt_level > 1       \* nothing sits below L1
         /\ CanGetTable(fr, l.child, fr[l.parent].pt_level - 1)
Held(fr, l) ==
    IF l.leaf
    THEN IF l.writable THEN AfterGetWritable(fr, l.child)
         ELSE IF l.execute THEN AfterGetExec(fr, l.child) ELSE AfterGet(fr, l.child)
    ELSE AfterGetTable(fr, l.child, fr[l.parent].pt_level - 1)

\* link: the caller's table, an allocated child, an empty slot; the reference
\* on the child, then the table's reference on itself, each of which may be
\* refused (a refusal of the second rolls the first back).  execute is forced
\* clear on an interior entry, and a leaf is never writable and executable.
Link(d, l) ==
    LET fr == Held(frames, l)
        level == frames[l.parent].pt_level
    IN  /\ l.execute => l.leaf /\ ~l.writable
        /\ frames[l.parent].owner = d /\ IsTable(frames, l.parent)
        /\ IsAllocated(frames, l.child)
        /\ ~SlotTaken(links, l.parent, l.slot)
        /\ CanHold(frames, l)
        /\ CanGetTable(fr, l.parent, level)
        /\ frames' = AfterGetTable(fr, l.parent, level)
        /\ links' = links \cup {l}

\* The frames after the entries in S are removed: each gives back what it
\* held on its child and the table's reference on itself.  The code ignores
\* a refused release (debug_assert); P2mTypeOK says a count never runs short.
Unlinked(fr, S) ==
    LET into(f) == {l \in S : l.child = f}
        from(f) == {l \in S : l.parent = f}
    IN  [f \in Frame |-> [fr[f] EXCEPT
            !.refs            = @ - Cardinality(into(f)) - Cardinality(from(f)),
            !.writable_refs   = @ - Cardinality({l \in into(f) : HoldsWritable(l)}),
            !.executable_refs = @ - Cardinality({l \in into(f) : HoldsExec(l)}),
            !.pagetable_refs  = @ - Cardinality({l \in into(f) : HoldsTable(l)})
                                  - Cardinality(from(f))]]

\* unlink: the entry at a slot of the caller's table.
Unlink(d, l) ==
    /\ l \in links /\ frames[l.parent].owner = d
    /\ frames' = Unlinked(frames, {l})
    /\ links' = links \ {l}

\* unlink_all: the entries of d's tables.  unlink_all_into: the entries of
\* other domains' tables that name a frame of d.
LinksFrom(fr, lk, d)    == {l \in lk : fr[l.parent].owner = d}
LinksInto(fr, lk, d)    == {l \in lk : fr[l.child].owner = d /\ fr[l.parent].owner \notin {d, NoOwner}}
UnlinkAll(d) ==
    /\ frames' = Unlinked(frames, LinksFrom(frames, links, d))
    /\ links' = links \ LinksFrom(frames, links, d)
UnlinkAllInto(d) ==
    /\ frames' = Unlinked(frames, LinksInto(frames, links, d))
    /\ links' = links \ LinksInto(frames, links, d)

\* unpin_all
PinnedBy(fr, d) == {f \in Frame : fr[f].owner = d /\ fr[f].pinned}
UnpinAll(d) == frames' = Unpinned(frames, PinnedBy(frames, d)) /\ UNCHANGED links

\* free_all: free over d's frames; one that is still referenced is refused.
AfterFreeAll(fr, d) ==
    [f \in Frame |-> IF fr[f].owner = d /\ fr[f].refs = 0 THEN FreeFrame ELSE fr[f]]
FreeAll(d) == frames' = AfterFreeAll(frames, d) /\ UNCHANGED links

P2mNext ==
    \/ \E d \in Dom, f \in Frame : Allocate(d, f) \/ Unpin(d, f) \/ Release(d, f)
    \/ \E d \in Dom, f \in Frame, level \in Level : Pin(d, f, level)
    \/ \E d \in Dom, l \in LinkState : Link(d, l)
    \/ \E d \in Dom, l \in links : Unlink(d, l)
    \/ \E d \in Dom : UnlinkAll(d) \/ UnlinkAllInto(d) \/ UnpinAll(d) \/ FreeAll(d)

P2mSpec == P2mInit /\ [][P2mNext]_p2mVars

-----------------------------------------------------------------------------
(* Frames and links have their types: no count wraps past MaxCount, and no   *)
(* release ever finds its reference already gone.                            *)
P2mTypeOK == frames \in [Frame -> FrameState] /\ links \subseteq LinkState

(* The two exclusions every page type rests on: no frame is mapped writable  *)
(* while it is a page table, or while it is executable.                      *)
TypeExclusive ==
    \A f \in Frame : frames[f].writable_refs > 0 =>
        frames[f].pagetable_refs = 0 /\ frames[f].executable_refs = 0

(* The hierarchy (MislevelledLink): the parent of an entry is a table now,   *)
(* an interior child is a table exactly one level down, and the child of a   *)
(* writable leaf is writable.  Hence the graph of tables has no cycle.       *)
LinksLevelled ==
    \A l \in links :
        /\ IsTable(frames, l.parent) /\ IsAllocated(frames, l.child)
        /\ HoldsTable(l) => /\ IsTable(frames, l.child)
                            /\ frames[l.child].pt_level = frames[l.parent].pt_level - 1
        /\ HoldsWritable(l) => frames[l.child].writable_refs > 0

(* A frame has one role at a time, and the tables are the hierarchy the      *)
(* hardware walks, whatever links, pins and mappings come and go.            *)
PageTypesSound == TypeExclusive /\ LinksLevelled

\* The counts of every frame, with the references held from outside p2m.
AccountedWith(extra(_), extraWritable(_)) ==
    \A f \in Frame :
        LET into == {l \in links : l.child = f}
            from == {l \in links : l.parent = f}
        IN  /\ frames[f].refs = Cardinality(into) + Cardinality(from)
                                + One(frames[f].pinned) + extra(f)
            /\ frames[f].writable_refs =
                   Cardinality({l \in into : HoldsWritable(l)}) + extraWritable(f)
            /\ frames[f].executable_refs = Cardinality({l \in into : HoldsExec(l)})
            /\ frames[f].pagetable_refs = Cardinality({l \in into : HoldsTable(l)})
                   + Cardinality(from) + One(frames[f].pinned)

=============================================================================
