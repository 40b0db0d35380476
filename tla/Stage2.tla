------------------------------- MODULE Stage2 -------------------------------
(* hv-s2/src/leafmap.rs, hv-s2/src/arm64.rs and the emission half of         *)
(* hv-metal/src/stage2.rs: the p2m links of a domain become the six tables   *)
(* a Stage-2 walker reads.  The geometry is the code's, scaled: a table has  *)
(* TableEntries entries instead of 512 and addresses count pages, so the     *)
(* shifts and masks are divisions and remainders.  A table's address is its  *)
(* name.  The page tables of the hypervisor core are module P2m's.           *)
EXTENDS P2m

CONSTANTS TableEntries, \* TABLE_ENTRIES: 512 in the code
          Layouts       \* the layouts and builds to boot with

NoImage  == -1
NoDomain == -1

\* Layout and build features.  Pages are the unit of addresses and lengths.
Layout ==
    [image : Nat \cup {NoImage}, data_ipa : Nat, data_pa : Nat, sup_ipa : Nat, sup_pa : Nat,
     sup_frames : Nat, device : Nat, device_len : Nat, frame_size : Nat,
     wx_exempt : BOOLEAN, nameable : BOOLEAN, selftest : BOOLEAN]

ASSUME Stage2Assumption ==
    /\ TableEntries \in Nat \ {0} /\ NumFrames <= TableEntries
    /\ Layouts \subseteq Layout

VARIABLES layout,       \* Layout and the build's features, fixed at boot
          tables,       \* STAGE2_SETS[set]: static storage, zero at boot
          root,         \* the domain the set was last emitted for
          parked        \* why the emission halted the machine, or "no"

s2Vars == <<layout, tables, root, parked>>

Idx         == 0..(TableEntries - 1)
PageSize    == 1
BlockSize   == TableEntries
L1EntrySize == TableEntries * BlockSize
Addressable == TableEntries * L1EntrySize

\* The index each level takes from an address, and ADDR_2M.
L1Of(a) == (a \div L1EntrySize) % TableEntries
L2Of(a) == (a \div BlockSize) % TableEntries
L3Of(a) == a % TableEntries
BlockBase(a) == a - (a % BlockSize)

\* Descriptors: dead, a table's name, or a leaf.
Dead == [kind |-> "dead"]
TableDesc(name) == [kind |-> "table", to |-> name]
Leaf(kind, pa, w, x, dev) == [kind |-> kind, pa |-> pa, w |-> w, x |-> x, dev |-> dev]
DeadTable == [i \in Idx |-> Dead]

-----------------------------------------------------------------------------
\* Layout: the place of a frame, base and super.
SuperSize(L)   == TableEntries * L.frame_size
SuperPa(L, m)  == L.sup_pa + m * SuperSize(L)
SuperIpa(L, m) == L.sup_ipa + m * SuperSize(L)
FramePa(L, m)  == L.data_pa + m * L.frame_size

Region(name, ipa, pa, span) == [name |-> name, ipa |-> ipa, pa |-> pa, span |-> span]

\* regions: IPA, PA and length of each window the layout has.
Regions(L) ==
    (IF L.image = NoImage THEN {} ELSE {Region("image", L.image, L.image, BlockSize)})
    \cup {Region("data", L.data_ipa, L.data_pa, TableEntries * L.frame_size),
          Region("super", L.sup_ipa, L.sup_pa, L.sup_frames * SuperSize(L))}
    \cup (IF L.device_len = 0 THEN {}
          ELSE {Region("device", L.device, L.device, L.device_len)})

Overlaps(a, alen, b, blen) == a < b + blen /\ b < a + alen

Aligned(L) ==
    /\ L.device_len % BlockSize = 0
    /\ L.frame_size = PageSize
    /\ L.data_ipa % BlockSize = 0 /\ L.sup_ipa % BlockSize = 0 /\ L.sup_pa % BlockSize = 0
    /\ L.image # NoImage => L.image % BlockSize = 0
    /\ L.device_len > 0 => L.device % BlockSize = 0

\* Mutant of Validate: windows are compared where the guest sees them only.
ValidateIpaOnly(L) ==
    /\ Aligned(L) /\ L.nameable
    /\ \A r \in Regions(L) :
        /\ r.ipa < Addressable /\ r.span <= Addressable - r.ipa
        /\ (r.ipa % L1EntrySize) + r.span <= L1EntrySize
    /\ \A r, s \in Regions(L) : r # s =>
        L1Of(r.ipa) # L1Of(s.ipa) /\ ~Overlaps(r.ipa, r.span, s.ipa, s.span)

\* validate.  `nameable` stands for the table addresses a descriptor can hold;
\* stage2_handles refuses the same layouts once more.
Validate(L) ==
    /\ Aligned(L) /\ L.nameable
    /\ \A r \in Regions(L) :
        /\ r.ipa < Addressable /\ r.span <= Addressable - r.ipa
        /\ (r.ipa % L1EntrySize) + r.span <= L1EntrySize
    /\ \A r, s \in Regions(L) : r # s =>
        /\ L1Of(r.ipa) # L1Of(s.ipa)
        /\ ~Overlaps(r.ipa, r.span, s.ipa, s.span)
        /\ ~Overlaps(r.pa, r.span, s.pa, s.span)

-----------------------------------------------------------------------------
\* span_of_table
SpanOf(fr, parent) ==
    IF ~IsTable(fr, parent) THEN "none"
    ELSE CASE fr[parent].pt_level = 1 -> "base"
           [] fr[parent].pt_level = 2 -> "super"
           [] OTHER -> "none"

PermOf(l) == IF l.writable THEN "Rw" ELSE IF l.execute THEN "Rx" ELSE "Ro"

\* Mutant of LeavesOf: forgets whose table the entry is in.
LeavesOfAnyone(d) == {l \in links : l.leaf}

\* The entries leaf_map looks at: the leaves of the domain's own tables.
LeavesOf(d) == {l \in links : l.leaf /\ frames[l.parent].owner = d}
SpanLeaves(d, span) == {l \in LeavesOf(d) : SpanOf(frames, l.parent) = span}

\* leaf_map_from_edges: of several entries for a frame the last one stored
\* wins, and the place an entry is stored at says nothing, so any may.
LeafMaps(d, span) ==
    {map \in [Idx -> {"none", "Rw", "Ro", "Rx"}] :
        \A m \in Idx :
            LET perms == {PermOf(l) : l \in {k \in SpanLeaves(d, span) : k.child = m}}
            IN  IF perms = {} THEN map[m] = "none" ELSE map[m] \in perms}

\* Mutant of Representable: a base leaf may lie in the super partition.
RepresentableAnywhere(d, L) ==
    /\ \A l \in LeavesOf(d) : SpanOf(frames, l.parent) # "none"
    /\ \A l \in SpanLeaves(d, "super") : l.child < L.sup_frames

\* What the emission refuses: a leaf above level 2, a frame past the map (the
\* base map holds every frame, Stage2Assumption), a frame of both spans, and a
\* base leaf whose number is in the super partition (which subsumes the last).
Representable(d, L) ==
    /\ \A l \in LeavesOf(d) : SpanOf(frames, l.parent) # "none"
    /\ \A l \in SpanLeaves(d, "super") : l.child < L.sup_frames
    /\ \A l \in SpanLeaves(d, "base") :
        /\ l.child \notin {k.child : k \in SpanLeaves(d, "super")}
        /\ l.child >= L.sup_frames

-----------------------------------------------------------------------------
\* page_leaf_attrs and block_leaf_attrs
PageLeaf(pa, perm) == Leaf("page", pa, perm = "Rw", perm = "Rx", FALSE)

\* Mutant of BlockLeaf: the exemption from write-xor-execute is not applied.
BlockLeafStrict(pa, perm, exempt) == Leaf("block", BlockBase(pa), perm = "Rw", perm = "Rx", FALSE)

BlockLeaf(pa, perm, exempt) ==
    Leaf("block", BlockBase(pa), perm = "Rw", perm = "Rx" \/ (perm = "Rw" /\ exempt), FALSE)
ImageBlock(pa)  == Leaf("block", BlockBase(pa), FALSE, TRUE, FALSE)
DeviceBlock(pa) == Leaf("block", BlockBase(pa), TRUE, FALSE, TRUE)

\* The L1 entries a layout makes live.
LiveL1(L) ==
    {[at |-> L1Of(L.data_ipa), to |-> "l2_data"], [at |-> L1Of(L.sup_ipa), to |-> "l2_sup"]}
    \cup (IF L.image = NoImage THEN {} ELSE {[at |-> L1Of(L.image), to |-> "l2_code"]})
    \cup (IF L.device_len = 0 THEN {} ELSE {[at |-> L1Of(L.device), to |-> "l2_dev"]})

\* l3_data is cleared, then one page per base leaf.
EncodedL3(leaves, L) ==
    [i \in Idx |-> IF leaves[i] = "none" THEN Dead ELSE PageLeaf(FramePa(L, i), leaves[i])]

\* l2_sup is cleared, then one block per super leaf.
EncodedSup(supers, L) ==
    [i \in Idx |->
        LET at == {m \in Idx : supers[m] # "none" /\ L2Of(SuperIpa(L, m)) = i}
        IN  IF at = {} THEN Dead
            ELSE LET m == CHOOSE n \in at : TRUE
                 IN  BlockLeaf(SuperPa(L, m), supers[m], L.wx_exempt)]

\* l2_dev is cleared, then the blocks of the device window from its base on.
EncodedDev(L) ==
    [i \in Idx |->
        LET at == {k \in 0..(L.device_len - 1) : k % BlockSize = 0 /\ L2Of(L.device + k) = i}
        IN  IF at = {} THEN Dead ELSE DeviceBlock(L.device + (CHOOSE k \in at : TRUE))]

\* encode.  l1, l2_code and l2_data are not cleared: the layout is fixed at
\* boot, so the entries written are the same ones every time.
Encode(old, leaves, supers, L) ==
    [l1 |-> [i \in Idx |->
                LET live == {e \in LiveL1(L) : e.at = i}
                IN  IF live = {} THEN old.l1[i] ELSE TableDesc((CHOOSE e \in live : TRUE).to)],
     l2_code |-> IF L.image = NoImage THEN old.l2_code
                 ELSE [old.l2_code EXCEPT ![L2Of(L.image)] = ImageBlock(L.image)],
     l2_data |-> [old.l2_data EXCEPT ![L2Of(L.data_ipa)] = TableDesc("l3_data")],
     l3_data |-> EncodedL3(leaves, L),
     l2_sup  |-> EncodedSup(supers, L),
     l2_dev  |-> EncodedDev(L)]

\* leaf_access_xn: what a walker should find for a permission.
LeafAccess(perm, exempt) ==
    [w |-> perm = "Rw", x |-> (perm = "Rx") \/ (perm = "Rw" /\ exempt)]

DeadExcept(t, live) == \A i \in Idx \ live : t[i] = Dead

\* The leaf a decoder must find at an entry, or a dead entry.
Finds(desc, kind, pa, perm, exempt) ==
    IF perm = "none" THEN desc = Dead
    ELSE /\ desc.kind = kind /\ desc.pa = pa
         /\ [w |-> desc.w, x |-> desc.x] = LeafAccess(perm, exempt)

\* verify_encoding: the self-test decodes all six tables again.
VerifyEncoding(t, leaves, supers, L) ==
    /\ Validate(L)
    /\ \A e \in LiveL1(L) : t.l1[e.at] = TableDesc(e.to)
    /\ DeadExcept(t.l1, {e.at : e \in LiveL1(L)})
    /\ IF L.image = NoImage THEN DeadExcept(t.l2_code, {})
       ELSE t.l2_code[L2Of(L.image)] = ImageBlock(L.image) /\ DeadExcept(t.l2_code, {L2Of(L.image)})
    /\ t.l2_data[L2Of(L.data_ipa)] = TableDesc("l3_data")
    /\ DeadExcept(t.l2_data, {L2Of(L.data_ipa)})
    /\ \A m \in Idx : Finds(t.l3_data[m], "page", FramePa(L, m), leaves[m], FALSE)
    /\ \A m \in Idx : Finds(t.l2_sup[L2Of(SuperIpa(L, m))], "block",
                            BlockBase(SuperPa(L, m)), supers[m], L.wx_exempt)
    /\ \A i \in Idx :
        LET a == L.device - (L.device % L1EntrySize) + i * BlockSize
        IN  t.l2_dev[i] = IF L.device_len > 0 /\ a >= L.device /\ a < L.device + L.device_len
                          THEN DeviceBlock(a) ELSE Dead

\* walk: what a Stage-2 walker rooted at l1 reaches at an address.
NoReach == [kind |-> "none"]
ReachAt(desc, offset) == [kind |-> "reach", pa |-> desc.pa + offset, w |-> desc.w, x |-> desc.x]
Walk(t, ipa) ==
    LET l1 == t.l1[L1Of(ipa)]
        l2 == t[l1.to][L2Of(ipa)]
        l3 == t[l2.to][L3Of(ipa)]
    IN  IF ipa >= Addressable \/ l1.kind # "table" THEN NoReach
        ELSE IF l2.kind = "block" THEN ReachAt(l2, ipa % BlockSize)
        ELSE IF l2.kind = "table" /\ l3.kind = "page" THEN ReachAt(l3, 0)
        ELSE NoReach

-----------------------------------------------------------------------------
\* scrub_frame: the pages a freed frame is zeroed at, by its number alone.
ScrubRange(L, m) ==
    IF m < L.sup_frames THEN SuperPa(L, m)..(SuperPa(L, m) + SuperSize(L) - 1)
    ELSE FramePa(L, m)..(FramePa(L, m) + L.frame_size - 1)

\* build_stage2_from_p2m.  Its check of the allocation shadow is module
\* Teardown's.  Refusals park before the tables are touched; the self-test
\* runs on what was written.
Emit(d) ==
    /\ IF ~Representable(d, layout) THEN parked' = "unrepresentable" /\ UNCHANGED <<tables, root>>
       ELSE IF ~Validate(layout) THEN parked' = "layout" /\ UNCHANGED <<tables, root>>
       ELSE \E leaves \in LeafMaps(d, "base"), supers \in LeafMaps(d, "super") :
                /\ tables' = Encode(tables, leaves, supers, layout)
                /\ root' = d
                /\ parked' = IF layout.selftest /\ ~VerifyEncoding(tables', leaves, supers, layout)
                             THEN "selftest" ELSE "no"
    /\ UNCHANGED <<layout, p2mVars>>

Stage2Init ==
    /\ layout \in Layouts
    /\ tables = [l1 |-> DeadTable, l2_code |-> DeadTable, l2_data |-> DeadTable,
                 l3_data |-> DeadTable, l2_sup |-> DeadTable, l2_dev |-> DeadTable]
    /\ root = NoDomain /\ parked = "no"

\* Page-table calls come between the emissions, until a refusal parks.
Remap   == parked = "no" /\ P2mNext /\ UNCHANGED s2Vars
Publish == parked = "no" /\ \E d \in Dom : Emit(d)

Stage2Spec == Stage2Init /\ P2mInit /\ [][Remap \/ Publish]_<<p2mVars, s2Vars>>

-----------------------------------------------------------------------------
\* window_reach: what the layout and the links authorise at an address.
Authorised(d, ipa) ==
    LET L == layout
        own(level) == {l \in links : l.leaf /\ frames[l.parent].owner = d
                                            /\ frames[l.parent].pt_level = level}
        reach(pa, w, x) == [kind |-> "reach", pa |-> pa, w |-> w, x |-> x]
    IN  {reach(ipa, FALSE, TRUE) : i \in
            {j \in {L.image} : j # NoImage /\ ipa \in j..(j + BlockSize - 1)}}
        \cup {reach(L.data_pa + l.child, l.writable, l.execute) : l \in
            {k \in own(1) : ipa = L.data_ipa + k.child}}
        \cup {reach(L.sup_pa + (ipa - L.sup_ipa), l.writable,
                    l.execute \/ (l.writable /\ L.wx_exempt)) : l \in
            {k \in own(2) :
                ipa \in (L.sup_ipa + k.child * BlockSize)..(L.sup_ipa + (k.child + 1) * BlockSize - 1)}}
        \cup {reach(ipa, TRUE, FALSE) : i \in
            {j \in {L.device} : ipa >= j /\ ipa < j + L.device_len}}

\* An emission that the machine goes on from.
Emitted == root' # NoDomain /\ parked' = "no" /\ p2mVars' = p2mVars

(* At every address, also where nothing is mapped, a walk of the tables just *)
(* emitted finds what the links of the domain and the windows of the layout  *)
(* authorise and nothing else, whatever the same tables held before and for  *)
(* whom, for every layout that validate accepts.                             *)
EmissionExact ==
    [][Emitted => \A ipa \in 0..(Addressable - 1) :
            LET found == Walk(tables', ipa)
                may   == Authorised(root', ipa)
            IN  IF may = {} THEN found = NoReach ELSE found \in may]_<<p2mVars, s2Vars>>

(* The emitter and its independent decoder agree: the self-test never halts  *)
(* a machine over tables the emission wrote.                                 *)
SelftestAgrees == parked # "selftest"

Reached(test(_)) ==
    {r.pa : r \in {s \in {Walk(tables, ipa) : ipa \in 0..(Addressable - 1)} : s # NoReach /\ test(s)}}

(* What a domain can write is wiped when it is freed: the pages it can write *)
(* outside the device window each lie in the scrub range of exactly one      *)
(* frame, so a frame's scrub reaches all that was written through it and     *)
(* nothing of another frame, and none of them is the shared guest image.     *)
ScrubCovers ==
    root # NoDomain =>
        LET written(r) == r.w
            memory == Reached(written) \ (layout.device..(layout.device + layout.device_len - 1))
            image  == IF layout.image = NoImage THEN {}
                      ELSE layout.image..(layout.image + BlockSize - 1)
        IN  \A pa \in memory :
                /\ pa \notin image
                /\ Cardinality({m \in Frame : pa \in ScrubRange(layout, m)}) = 1

(* Write-xor-execute at the level of physical pages: no page is writable at  *)
(* one address and executable at the same or another, unless the build       *)
(* exempts super frames.  Leaf attributes, the choice of one entry per frame *)
(* and the windows of the layout must all be right for this.                 *)
WriteXorExecute ==
    ~layout.wx_exempt =>
        LET written(r) == r.w
            executed(r) == r.x
        IN  Reached(written) \cap Reached(executed) = {}
=============================================================================
