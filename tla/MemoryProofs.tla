---------------------------- MODULE MemoryProofs ----------------------------
(* Page references, page types, grants and foreign page-table entries behind *)
(* the hypervisor's dispatch, and the emptiness of a dead slot, for every    *)
(* number of domains, frames, grant entries and paging levels and every      *)
(* width of the counters.                                                    *)
EXTENDS HypervisorProofs, Noninterference

-----------------------------------------------------------------------------
\* The entries that name f, by what they hold on it, and those in f.
Into(L, f)         == {l \in L : l.child = f}
From(L, f)         == {l \in L : l.parent = f}
IntoWritable(L, f) == {l \in Into(L, f) : HoldsWritable(l)}
IntoExec(L, f)     == {l \in Into(L, f) : HoldsExec(l)}
IntoTable(L, f)    == {l \in Into(L, f) : HoldsTable(l)}
\* The mappings that write to f.
WritesTo(gr, M, f) == {m \in MapsOverFrame(gr, M, f) : m.writable}

\* A frame whose counts are numbers, within their width or not.
RawFrame ==
    [owner : Dom \cup {NoOwner}, refs : Int, writable_refs : Int, executable_refs : Int,
     pagetable_refs : Int, pt_level : Level, pinned : BOOLEAN]

\* The reference behind the pin of a frame.
PinOf(r) == One(r.pinned)

\* The counts of the frame r at f are the references there are, kind by kind.
FrameAccounted(r, L, gr, M, f) ==
    /\ r.refs = Cardinality(Into(L, f)) + Cardinality(From(L, f)) + PinOf(r)
                    + Cardinality(MapsOverFrame(gr, M, f))
    /\ r.writable_refs = Cardinality(IntoWritable(L, f)) + Cardinality(WritesTo(gr, M, f))
    /\ r.executable_refs = Cardinality(IntoExec(L, f))
    /\ r.pagetable_refs = Cardinality(IntoTable(L, f)) + Cardinality(From(L, f)) + PinOf(r)

\* The inductive invariant of the page references, over any frames, links,
\* grant tables and mappings, so that it can be said of every state half-way
\* through a teardown too.  Widths and the hierarchy of tables follow from it.
Shaped(fr, L, M) ==
    /\ fr \in [Frame -> RawFrame] /\ L \subseteq LinkState
    /\ IsFiniteSet(L) /\ IsFiniteSet(M)
    /\ \A f \in Frame : fr[f].refs <= MaxCount
RefsExact(fr, L, gr, M) == \A f \in Frame : FrameAccounted(fr[f], L, gr, M, f)
Kinded(fr) ==
    \A f \in Frame : /\ fr[f].refs > 0 => fr[f].owner # NoOwner
                     /\ fr[f].writable_refs > 0 =>
                            fr[f].pagetable_refs = 0 /\ fr[f].executable_refs = 0
Levelled(fr, L) ==
    \A l \in L : HoldsTable(l) => fr[l.child].pt_level = fr[l.parent].pt_level - 1
MapsOwned(fr, gr, M) ==
    \A m \in M : gr[m.grant].frame \in Frame /\ fr[gr[m.grant].frame].owner = m.grant[1]
Consented(fr, L, gr) ==
    \A l \in L : fr[l.child].owner # fr[l.parent].owner =>
        Authorizes(gr, fr[l.child].owner, fr[l.parent].owner, l.child, l.writable)

Refs(fr, L, gr, M) ==
    /\ Shaped(fr, L, M) /\ RefsExact(fr, L, gr, M) /\ Kinded(fr) /\ Levelled(fr, L)
    /\ MapsOwned(fr, gr, M) /\ Consented(fr, L, gr)

-----------------------------------------------------------------------------
(* Taking a subset away takes its number off the cardinality.                *)
LEMMA CardMinus ==
    ASSUME NEW A, IsFiniteSet(A), NEW B \in SUBSET A
    PROVE  /\ IsFiniteSet(B) /\ Cardinality(A) \in Nat /\ Cardinality(B) \in Nat
           /\ Cardinality(B) <= Cardinality(A)
           /\ Cardinality(A \ B) = Cardinality(A) - Cardinality(B)
<1>1. IsFiniteSet(B) /\ Cardinality(B) <= Cardinality(A)
  BY FS_Subset
<1>2. A \cap B = B
  OBVIOUS
<1>3. Cardinality(A \ B) = Cardinality(A) - Cardinality(A \cap B)
  BY FS_Difference
<1> QED BY <1>1, <1>2, <1>3, FS_CardinalityType

(* The entries over one frame are finitely many, and each kind no more than  *)
(* all of them.                                                              *)
LEMMA LinkCounts ==
    ASSUME NEW L, IsFiniteSet(L), NEW f
    PROVE  /\ IsFiniteSet(Into(L, f)) /\ IsFiniteSet(From(L, f))
           /\ IsFiniteSet(IntoWritable(L, f)) /\ IsFiniteSet(IntoExec(L, f))
           /\ IsFiniteSet(IntoTable(L, f))
           /\ Cardinality(Into(L, f)) \in Nat /\ Cardinality(From(L, f)) \in Nat
           /\ Cardinality(IntoWritable(L, f)) \in Nat /\ Cardinality(IntoExec(L, f)) \in Nat
           /\ Cardinality(IntoTable(L, f)) \in Nat
           /\ Cardinality(IntoWritable(L, f)) <= Cardinality(Into(L, f))
           /\ Cardinality(IntoExec(L, f)) <= Cardinality(Into(L, f))
           /\ Cardinality(IntoTable(L, f)) <= Cardinality(Into(L, f))
<1>1. Into(L, f) \in SUBSET L /\ From(L, f) \in SUBSET L
  BY DEF Into, From
<1>2. /\ IntoWritable(L, f) \in SUBSET Into(L, f) /\ IntoExec(L, f) \in SUBSET Into(L, f)
      /\ IntoTable(L, f) \in SUBSET Into(L, f)
  BY DEF IntoWritable, IntoExec, IntoTable
<1>3. /\ IsFiniteSet(Into(L, f)) /\ IsFiniteSet(From(L, f))
      /\ Cardinality(Into(L, f)) \in Nat /\ Cardinality(From(L, f)) \in Nat
  BY <1>1, CardMinus
<1> QED BY <1>2, <1>3, CardMinus

(* Removing entries takes exactly their number off each kind.                *)
LEMMA LinksRemoved ==
    ASSUME NEW L, IsFiniteSet(L), NEW S \in SUBSET L, NEW f
    PROVE  /\ Cardinality(Into(L \ S, f)) = Cardinality(Into(L, f)) - Cardinality(Into(S, f))
           /\ Cardinality(From(L \ S, f)) = Cardinality(From(L, f)) - Cardinality(From(S, f))
           /\ Cardinality(IntoWritable(L \ S, f))
                  = Cardinality(IntoWritable(L, f)) - Cardinality(IntoWritable(S, f))
           /\ Cardinality(IntoExec(L \ S, f))
                  = Cardinality(IntoExec(L, f)) - Cardinality(IntoExec(S, f))
           /\ Cardinality(IntoTable(L \ S, f))
                  = Cardinality(IntoTable(L, f)) - Cardinality(IntoTable(S, f))
<1>1. /\ Into(L \ S, f) = Into(L, f) \ Into(S, f) /\ Into(S, f) \in SUBSET Into(L, f)
      /\ From(L \ S, f) = From(L, f) \ From(S, f) /\ From(S, f) \in SUBSET From(L, f)
  BY DEF Into, From
<1>2. /\ IntoWritable(L \ S, f) = IntoWritable(L, f) \ IntoWritable(S, f)
      /\ IntoWritable(S, f) \in SUBSET IntoWritable(L, f)
      /\ IntoExec(L \ S, f) = IntoExec(L, f) \ IntoExec(S, f)
      /\ IntoExec(S, f) \in SUBSET IntoExec(L, f)
      /\ IntoTable(L \ S, f) = IntoTable(L, f) \ IntoTable(S, f)
      /\ IntoTable(S, f) \in SUBSET IntoTable(L, f)
  BY DEF Into, IntoWritable, IntoExec, IntoTable
<1>3. /\ IsFiniteSet(Into(L, f)) /\ IsFiniteSet(From(L, f))
      /\ IsFiniteSet(IntoWritable(L, f)) /\ IsFiniteSet(IntoExec(L, f))
      /\ IsFiniteSet(IntoTable(L, f))
  BY LinkCounts
<1>4. Cardinality(Into(L, f) \ Into(S, f)) = Cardinality(Into(L, f)) - Cardinality(Into(S, f))
  BY <1>1, <1>3, CardMinus
<1>5. Cardinality(From(L, f) \ From(S, f)) = Cardinality(From(L, f)) - Cardinality(From(S, f))
  BY <1>1, <1>3, CardMinus
<1>6. Cardinality(IntoWritable(L, f) \ IntoWritable(S, f))
          = Cardinality(IntoWritable(L, f)) - Cardinality(IntoWritable(S, f))
  BY <1>2, <1>3, CardMinus
<1>7. Cardinality(IntoExec(L, f) \ IntoExec(S, f))
          = Cardinality(IntoExec(L, f)) - Cardinality(IntoExec(S, f))
  BY <1>2, <1>3, CardMinus
<1>8. Cardinality(IntoTable(L, f) \ IntoTable(S, f))
          = Cardinality(IntoTable(L, f)) - Cardinality(IntoTable(S, f))
  BY <1>2, <1>3, CardMinus
<1> QED BY <1>1, <1>2, <1>4, <1>5, <1>6, <1>7, <1>8

(* A new entry adds one to the kinds it is of.                               *)
LEMMA LinkAdded ==
    ASSUME NEW L, IsFiniteSet(L), NEW l \in LinkState, l \notin L, NEW f
    PROVE  /\ Cardinality(Into(L \cup {l}, f)) = Cardinality(Into(L, f)) + One(l.child = f)
           /\ Cardinality(From(L \cup {l}, f)) = Cardinality(From(L, f)) + One(l.parent = f)
           /\ Cardinality(IntoWritable(L \cup {l}, f))
                  = Cardinality(IntoWritable(L, f)) + One(l.child = f /\ HoldsWritable(l))
           /\ Cardinality(IntoExec(L \cup {l}, f))
                  = Cardinality(IntoExec(L, f)) + One(l.child = f /\ HoldsExec(l))
           /\ Cardinality(IntoTable(L \cup {l}, f))
                  = Cardinality(IntoTable(L, f)) + One(l.child = f /\ HoldsTable(l))
<1>1. ASSUME NEW A, IsFiniteSet(A), l \notin A, NEW B, NEW c \in BOOLEAN,
             B = IF c THEN A \cup {l} ELSE A
      PROVE  Cardinality(B) = Cardinality(A) + One(c)
  <2>1. Cardinality(A) \in Nat /\ Cardinality(A \cup {l}) = Cardinality(A) + 1
    BY <1>1, FS_AddElement, FS_CardinalityType
  <2> QED BY <1>1, <2>1 DEF One
<1>2. /\ IsFiniteSet(Into(L, f)) /\ IsFiniteSet(From(L, f))
      /\ IsFiniteSet(IntoWritable(L, f)) /\ IsFiniteSet(IntoExec(L, f))
      /\ IsFiniteSet(IntoTable(L, f))
  BY LinkCounts
<1>3. /\ l \notin Into(L, f) /\ l \notin From(L, f)
      /\ l \notin IntoWritable(L, f) /\ l \notin IntoExec(L, f) /\ l \notin IntoTable(L, f)
  BY DEF Into, From, IntoWritable, IntoExec, IntoTable
<1>4. l.leaf \in BOOLEAN /\ l.writable \in BOOLEAN /\ l.execute \in BOOLEAN
  BY DEF LinkState
<1>5. /\ (l.child = f) \in BOOLEAN /\ (l.parent = f) \in BOOLEAN
      /\ (l.child = f /\ HoldsWritable(l)) \in BOOLEAN
      /\ (l.child = f /\ HoldsExec(l)) \in BOOLEAN
      /\ (l.child = f /\ HoldsTable(l)) \in BOOLEAN
  BY <1>4 DEF HoldsWritable, HoldsExec, HoldsTable
<1>6. Into(L \cup {l}, f) = IF l.child = f THEN Into(L, f) \cup {l} ELSE Into(L, f)
  BY DEF Into
<1>7. From(L \cup {l}, f) = IF l.parent = f THEN From(L, f) \cup {l} ELSE From(L, f)
  BY DEF From
<1>8. IntoWritable(L \cup {l}, f) = IF l.child = f /\ HoldsWritable(l)
                                    THEN IntoWritable(L, f) \cup {l} ELSE IntoWritable(L, f)
  BY DEF Into, IntoWritable
<1>9. IntoExec(L \cup {l}, f) = IF l.child = f /\ HoldsExec(l)
                                THEN IntoExec(L, f) \cup {l} ELSE IntoExec(L, f)
  BY DEF Into, IntoExec
<1>10. IntoTable(L \cup {l}, f) = IF l.child = f /\ HoldsTable(l)
                                  THEN IntoTable(L, f) \cup {l} ELSE IntoTable(L, f)
  BY DEF Into, IntoTable
<1>11. Cardinality(Into(L \cup {l}, f)) = Cardinality(Into(L, f)) + One(l.child = f)
  BY <1>1, <1>2, <1>3, <1>5, <1>6
<1>12. Cardinality(From(L \cup {l}, f)) = Cardinality(From(L, f)) + One(l.parent = f)
  BY <1>1, <1>2, <1>3, <1>5, <1>7
<1>13. Cardinality(IntoWritable(L \cup {l}, f))
           = Cardinality(IntoWritable(L, f)) + One(l.child = f /\ HoldsWritable(l))
  BY <1>1, <1>2, <1>3, <1>5, <1>8
<1>14. Cardinality(IntoExec(L \cup {l}, f))
           = Cardinality(IntoExec(L, f)) + One(l.child = f /\ HoldsExec(l))
  BY <1>1, <1>2, <1>3, <1>5, <1>9
<1>15. Cardinality(IntoTable(L \cup {l}, f))
           = Cardinality(IntoTable(L, f)) + One(l.child = f /\ HoldsTable(l))
  BY <1>1, <1>2, <1>3, <1>5, <1>10
<1> QED BY <1>11, <1>12, <1>13, <1>14, <1>15

(* The same of the mappings over one frame.                                  *)
LEMMA MapCounts ==
    ASSUME NEW gr, NEW M, IsFiniteSet(M), NEW f
    PROVE  /\ IsFiniteSet(MapsOverFrame(gr, M, f)) /\ IsFiniteSet(WritesTo(gr, M, f))
           /\ Cardinality(MapsOverFrame(gr, M, f)) \in Nat
           /\ Cardinality(WritesTo(gr, M, f)) \in Nat
           /\ Cardinality(WritesTo(gr, M, f)) <= Cardinality(MapsOverFrame(gr, M, f))
<1>1. MapsOverFrame(gr, M, f) \in SUBSET M
  BY DEF MapsOverFrame
<1>2. WritesTo(gr, M, f) \in SUBSET MapsOverFrame(gr, M, f)
  BY DEF WritesTo
<1>3. IsFiniteSet(MapsOverFrame(gr, M, f)) /\ Cardinality(MapsOverFrame(gr, M, f)) \in Nat
  BY <1>1, CardMinus
<1> QED BY <1>2, <1>3, CardMinus

(* Removing mappings lowers the counts over a frame by exactly those removed. *)
LEMMA MapsRemoved ==
    ASSUME NEW gr, NEW M, IsFiniteSet(M), NEW S \in SUBSET M, NEW f
    PROVE  /\ Cardinality(MapsOverFrame(gr, M \ S, f))
                  = Cardinality(MapsOverFrame(gr, M, f)) - Cardinality(MapsOverFrame(gr, S, f))
           /\ Cardinality(WritesTo(gr, M \ S, f))
                  = Cardinality(WritesTo(gr, M, f)) - Cardinality(WritesTo(gr, S, f))
<1>1. /\ MapsOverFrame(gr, M \ S, f) = MapsOverFrame(gr, M, f) \ MapsOverFrame(gr, S, f)
      /\ MapsOverFrame(gr, S, f) \in SUBSET MapsOverFrame(gr, M, f)
  BY DEF MapsOverFrame
<1>2. /\ WritesTo(gr, M \ S, f) = WritesTo(gr, M, f) \ WritesTo(gr, S, f)
      /\ WritesTo(gr, S, f) \in SUBSET WritesTo(gr, M, f)
  BY DEF MapsOverFrame, WritesTo
<1>3. IsFiniteSet(MapsOverFrame(gr, M, f)) /\ IsFiniteSet(WritesTo(gr, M, f))
  BY MapCounts
<1>4. Cardinality(MapsOverFrame(gr, M, f) \ MapsOverFrame(gr, S, f))
          = Cardinality(MapsOverFrame(gr, M, f)) - Cardinality(MapsOverFrame(gr, S, f))
  BY <1>1, <1>3, CardMinus
<1>5. Cardinality(WritesTo(gr, M, f) \ WritesTo(gr, S, f))
          = Cardinality(WritesTo(gr, M, f)) - Cardinality(WritesTo(gr, S, f))
  BY <1>2, <1>3, CardMinus
<1> QED BY <1>1, <1>2, <1>4, <1>5

(* A new mapping raises the counts over its own frame by one and no other. *)
LEMMA MapAdded ==
    ASSUME NEW gr, NEW M, IsFiniteSet(M), NEW m \in Mapping, m \notin M, NEW f
    PROVE  /\ Cardinality(MapsOverFrame(gr, M \cup {m}, f))
                  = Cardinality(MapsOverFrame(gr, M, f)) + One(gr[m.grant].frame = f)
           /\ Cardinality(WritesTo(gr, M \cup {m}, f))
                  = Cardinality(WritesTo(gr, M, f)) + One(gr[m.grant].frame = f /\ m.writable)
<1>1. /\ IsFiniteSet(MapsOverFrame(gr, M, f)) /\ IsFiniteSet(WritesTo(gr, M, f))
      /\ Cardinality(MapsOverFrame(gr, M, f)) \in Nat /\ Cardinality(WritesTo(gr, M, f)) \in Nat
  BY MapCounts
<1>2. m \notin MapsOverFrame(gr, M, f) /\ m \notin WritesTo(gr, M, f) /\ m.writable \in BOOLEAN
  BY DEF MapsOverFrame, WritesTo, Mapping
<1>3. /\ Cardinality(MapsOverFrame(gr, M, f) \cup {m}) = Cardinality(MapsOverFrame(gr, M, f)) + 1
      /\ Cardinality(WritesTo(gr, M, f) \cup {m}) = Cardinality(WritesTo(gr, M, f)) + 1
  BY <1>1, <1>2, FS_AddElement
<1>4. MapsOverFrame(gr, M \cup {m}, f)
          = IF gr[m.grant].frame = f THEN MapsOverFrame(gr, M, f) \cup {m}
                                     ELSE MapsOverFrame(gr, M, f)
  BY DEF MapsOverFrame
<1>5. WritesTo(gr, M \cup {m}, f)
          = IF gr[m.grant].frame = f /\ m.writable THEN WritesTo(gr, M, f) \cup {m}
                                                   ELSE WritesTo(gr, M, f)
  BY DEF MapsOverFrame, WritesTo
<1>6. Cardinality(MapsOverFrame(gr, M \cup {m}, f))
          = Cardinality(MapsOverFrame(gr, M, f)) + One(gr[m.grant].frame = f)
  BY <1>1, <1>3, <1>4 DEF One
<1>7. Cardinality(WritesTo(gr, M \cup {m}, f))
          = Cardinality(WritesTo(gr, M, f)) + One(gr[m.grant].frame = f /\ m.writable)
  BY <1>1, <1>3, <1>5 DEF One
<1> QED BY <1>6, <1>7

(* What the counts of a frame say: none is negative, and none is above the   *)
(* existence count.                                                          *)
LEMMA CountsSound ==
    ASSUME NEW L, NEW gr, NEW M, IsFiniteSet(L), IsFiniteSet(M), NEW f, NEW r,
           FrameAccounted(r, L, gr, M, f)
    PROVE  /\ r.refs \in Nat /\ r.writable_refs \in Nat /\ r.executable_refs \in Nat
           /\ r.pagetable_refs \in Nat
           /\ r.writable_refs <= r.refs /\ r.executable_refs <= r.refs
           /\ r.pagetable_refs <= r.refs
<1> DEFINE a == Cardinality(Into(L, f))  b == Cardinality(From(L, f))
           w == Cardinality(IntoWritable(L, f))  x == Cardinality(IntoExec(L, f))
           t == Cardinality(IntoTable(L, f))
           k == Cardinality(MapsOverFrame(gr, M, f))  kw == Cardinality(WritesTo(gr, M, f))
           p == PinOf(r)
<1>1. /\ a \in Nat /\ b \in Nat /\ w \in Nat /\ x \in Nat /\ t \in Nat
      /\ w <= a /\ x <= a /\ t <= a /\ k \in Nat /\ kw \in Nat /\ kw <= k
  BY LinkCounts, MapCounts
<1>2. p \in Nat
  BY DEF PinOf, One
<1>3. /\ r.refs = a + b + p + k /\ r.writable_refs = w + kw
      /\ r.executable_refs = x /\ r.pagetable_refs = t + b + p
  BY DEF FrameAccounted
<1> HIDE DEF a, b, w, x, t, k, kw, p
<1> QED BY <1>1, <1>2, <1>3

(* A frame with no reference has no entry, no mapping and no pin; one with   *)
(* no page-table reference is no table and is not named as one.              *)
LEMMA CountsPresent ==
    ASSUME NEW L, NEW gr, NEW M, IsFiniteSet(L), IsFiniteSet(M), NEW f, NEW r,
           FrameAccounted(r, L, gr, M, f)
    PROVE  /\ r.refs = 0 => /\ Into(L, f) = {} /\ From(L, f) = {}
                            /\ MapsOverFrame(gr, M, f) = {} /\ ~r.pinned
           /\ r.pagetable_refs = 0 => IntoTable(L, f) = {} /\ From(L, f) = {} /\ ~r.pinned
           /\ r.writable_refs = 0 => IntoWritable(L, f) = {}
<1> DEFINE a == Cardinality(Into(L, f))  b == Cardinality(From(L, f))
           w == Cardinality(IntoWritable(L, f))  t == Cardinality(IntoTable(L, f))
           k == Cardinality(MapsOverFrame(gr, M, f))  kw == Cardinality(WritesTo(gr, M, f))
           p == PinOf(r)
<1>1. /\ a \in Nat /\ b \in Nat /\ w \in Nat /\ t \in Nat /\ k \in Nat /\ kw \in Nat
  BY LinkCounts, MapCounts
<1>2. p \in Nat /\ (p = 0 => ~r.pinned)
  BY DEF PinOf, One
<1>3. /\ r.refs = a + b + p + k /\ r.writable_refs = w + kw /\ r.pagetable_refs = t + b + p
  BY DEF FrameAccounted
<1>4. /\ a = 0 => Into(L, f) = {}
      /\ b = 0 => From(L, f) = {}
      /\ t = 0 => IntoTable(L, f) = {}
      /\ w = 0 => IntoWritable(L, f) = {}
      /\ k = 0 => MapsOverFrame(gr, M, f) = {}
  BY LinkCounts, MapCounts, FS_EmptySet
<1> HIDE DEF a, b, w, t, k, kw, p
<1>5. /\ r.refs = 0 => a = 0 /\ b = 0 /\ p = 0 /\ k = 0
      /\ r.pagetable_refs = 0 => t = 0 /\ b = 0 /\ p = 0
      /\ r.writable_refs = 0 => w = 0
  BY <1>1, <1>2, <1>3
<1> QED BY ONLY <1>2, <1>4, <1>5

-----------------------------------------------------------------------------
(* Giving references back keeps the invariant, whichever they are, when the  *)
(* counts stay exact and no frame changes hands or level.                    *)
LEMMA ShrinkKeeps ==
    ASSUME NEW fr, NEW L, NEW gr, NEW M, Refs(fr, L, gr, M),
           NEW fr2 \in [Frame -> RawFrame], NEW L2 \in SUBSET L, NEW M2 \in SUBSET M,
           \A f \in Frame :
               /\ fr2[f].owner = fr[f].owner /\ fr2[f].pt_level = fr[f].pt_level
               /\ fr2[f].refs <= fr[f].refs /\ fr2[f].writable_refs <= fr[f].writable_refs
               /\ fr2[f].executable_refs <= fr[f].executable_refs
               /\ fr2[f].pagetable_refs <= fr[f].pagetable_refs
               /\ FrameAccounted(fr2[f], L2, gr, M2, f)
    PROVE  Refs(fr2, L2, gr, M2)
<1>1. /\ fr \in [Frame -> RawFrame] /\ L \subseteq LinkState /\ IsFiniteSet(L) /\ IsFiniteSet(M)
      /\ \A f \in Frame : fr[f].refs <= MaxCount
  BY DEF Refs, Shaped
<1>2. IsFiniteSet(L2) /\ IsFiniteSet(M2)
  BY <1>1, FS_Subset
<1>3. \A f \in Frame :
          /\ fr[f].refs \in Int /\ fr[f].writable_refs \in Int /\ fr[f].executable_refs \in Int
          /\ fr[f].pagetable_refs \in Int
          /\ fr2[f].refs \in Int /\ fr2[f].writable_refs \in Int /\ fr2[f].pinned \in BOOLEAN
  BY <1>1 DEF RawFrame
<1>4. ASSUME NEW f \in Frame
      PROVE  fr2[f].executable_refs \in Nat /\ fr2[f].pagetable_refs \in Nat
  <2>1. FrameAccounted(fr2[f], L2, gr, M2, f) /\ fr2[f].pinned \in BOOLEAN
    BY <1>3
  <2> QED BY ONLY <1>2, <2>1, CountsSound
<1>5. Shaped(fr2, L2, M2)
  BY <1>1, <1>2, <1>3, FramesAssumption DEF Shaped
<1>6. RefsExact(fr2, L2, gr, M2)
  BY DEF RefsExact
<1>7. Kinded(fr2)
  <2> SUFFICES ASSUME NEW f \in Frame
               PROVE  /\ fr2[f].refs > 0 => fr2[f].owner # NoOwner
                      /\ fr2[f].writable_refs > 0 =>
                             fr2[f].pagetable_refs = 0 /\ fr2[f].executable_refs = 0
    BY DEF Kinded
  <2>1. /\ fr[f].refs > 0 => fr[f].owner # NoOwner
        /\ fr[f].writable_refs > 0 => fr[f].pagetable_refs = 0 /\ fr[f].executable_refs = 0
    BY DEF Refs, Kinded
  <2> QED BY <1>3, <1>4, <2>1
<1>8. Levelled(fr2, L2)
  <2> SUFFICES ASSUME NEW l \in L2, HoldsTable(l)
               PROVE  fr2[l.child].pt_level = fr2[l.parent].pt_level - 1
    BY DEF Levelled
  <2>1. l.child \in Frame /\ l.parent \in Frame
    BY <1>1 DEF LinkState
  <2> QED BY <2>1 DEF Refs, Levelled
<1>9. MapsOwned(fr2, gr, M2)
  BY DEF Refs, MapsOwned
<1>10. Consented(fr2, L2, gr)
  <2> SUFFICES ASSUME NEW l \in L2, fr2[l.child].owner # fr2[l.parent].owner
               PROVE  Authorizes(gr, fr2[l.child].owner, fr2[l.parent].owner, l.child, l.writable)
    BY DEF Consented
  <2>1. l.child \in Frame /\ l.parent \in Frame
    BY <1>1 DEF LinkState
  <2> QED BY <2>1 DEF Refs, Consented
<1> QED BY <1>5, <1>6, <1>7, <1>8, <1>9, <1>10 DEF Refs

(* A frame is made of its fields.                                            *)
LEMMA RawFields ==
    ASSUME NEW r \in RawFrame
    PROVE  /\ r.owner \in Dom \cup {NoOwner} /\ r.refs \in Int /\ r.writable_refs \in Int
           /\ r.executable_refs \in Int /\ r.pagetable_refs \in Int /\ r.pt_level \in Level
           /\ r.pinned \in BOOLEAN
           /\ r = [owner |-> r.owner, refs |-> r.refs, writable_refs |-> r.writable_refs,
                   executable_refs |-> r.executable_refs, pagetable_refs |-> r.pagetable_refs,
                   pt_level |-> r.pt_level, pinned |-> r.pinned]
  BY DEF RawFrame

\* The three ways in which a frame gives references back.
Recounted(r, a, b, c, e) ==
    [r EXCEPT !.refs = a, !.writable_refs = b, !.executable_refs = c, !.pagetable_refs = e]
MapsRecounted(r, a, b) == [r EXCEPT !.refs = a, !.writable_refs = b]
PinDropped(r, a, b)    == [r EXCEPT !.pinned = FALSE, !.refs = a, !.pagetable_refs = b]

(* Setting four counts, two counts, or dropping a pin, field by field.       *)
LEMMA RawCounts ==
    ASSUME NEW r \in RawFrame, NEW a \in Int, NEW b \in Int, NEW c \in Int, NEW e \in Int,
           NEW s, s = Recounted(r, a, b, c, e)
    PROVE  /\ s \in RawFrame /\ s.owner = r.owner /\ s.pt_level = r.pt_level
           /\ s.pinned = r.pinned /\ s.refs = a /\ s.writable_refs = b
           /\ s.executable_refs = c /\ s.pagetable_refs = e
  BY DEF RawFrame, Recounted

(* Recounting the mappings of a frame changes the two counts and nothing else. *)
LEMMA RawMapCounts ==
    ASSUME NEW r \in RawFrame, NEW a \in Int, NEW b \in Int,
           NEW s, s = MapsRecounted(r, a, b)
    PROVE  /\ s \in RawFrame /\ s.owner = r.owner /\ s.pt_level = r.pt_level
           /\ s.pinned = r.pinned /\ s.refs = a /\ s.writable_refs = b
           /\ s.executable_refs = r.executable_refs /\ s.pagetable_refs = r.pagetable_refs
  BY DEF RawFrame, MapsRecounted

(* Dropping a pin changes the pin and the two counts behind it and nothing else. *)
LEMMA RawUnpin ==
    ASSUME NEW r \in RawFrame, NEW a \in Int, NEW b \in Int,
           NEW s, s = PinDropped(r, a, b)
    PROVE  /\ s \in RawFrame /\ s.owner = r.owner /\ s.pt_level = r.pt_level
           /\ ~s.pinned /\ s.refs = a /\ s.writable_refs = r.writable_refs
           /\ s.executable_refs = r.executable_refs /\ s.pagetable_refs = b
  BY DEF RawFrame, PinDropped

(* The counts of every frame under the invariant.                            *)
LEMMA RefsCounts ==
    ASSUME NEW fr, NEW L, NEW gr, NEW M, Refs(fr, L, gr, M), NEW f \in Frame
    PROVE  /\ fr[f] \in RawFrame /\ fr[f].refs <= MaxCount
           /\ fr[f].refs \in Nat /\ fr[f].writable_refs \in Nat
           /\ fr[f].executable_refs \in Nat /\ fr[f].pagetable_refs \in Nat
           /\ fr[f].writable_refs <= fr[f].refs /\ fr[f].executable_refs <= fr[f].refs
           /\ fr[f].pagetable_refs <= fr[f].refs
<1>1. /\ fr[f] \in RawFrame /\ fr[f].refs <= MaxCount /\ IsFiniteSet(L) /\ IsFiniteSet(M)
  BY DEF Refs, Shaped
<1>2. FrameAccounted(fr[f], L, gr, M, f)
  BY DEF Refs, RefsExact
<1> QED BY ONLY <1>1, <1>2, CountsSound

(* An unreferenced frame is named by nothing.                                *)
LEMMA RefsNone ==
    ASSUME NEW fr, NEW L, NEW gr, NEW M, Refs(fr, L, gr, M), NEW f \in Frame
    PROVE  /\ fr[f].refs = 0 =>
                  /\ Into(L, f) = {} /\ From(L, f) = {} /\ MapsOverFrame(gr, M, f) = {}
                  /\ ~fr[f].pinned
           /\ fr[f].pagetable_refs = 0 =>
                  IntoTable(L, f) = {} /\ From(L, f) = {} /\ ~fr[f].pinned
           /\ fr[f].writable_refs = 0 => IntoWritable(L, f) = {}
<1>1. IsFiniteSet(L) /\ IsFiniteSet(M)
  BY DEF Refs, Shaped
<1>2. FrameAccounted(fr[f], L, gr, M, f)
  BY DEF Refs, RefsExact
<1> QED BY ONLY <1>1, <1>2, CountsPresent

(* A frame that an entry or a mapping names is referenced, of that kind.     *)
LEMMA RefsSome ==
    ASSUME NEW fr, NEW L, NEW gr, NEW M, Refs(fr, L, gr, M)
    PROVE  /\ \A l \in L : /\ l.child \in Frame /\ l.parent \in Frame
                           /\ fr[l.child].refs > 0 /\ fr[l.parent].refs > 0
                           /\ fr[l.parent].pagetable_refs > 0
                           /\ HoldsTable(l) => fr[l.child].pagetable_refs > 0
                           /\ HoldsWritable(l) => fr[l.child].writable_refs > 0
           /\ \A m \in M : gr[m.grant].frame \in Frame /\ fr[gr[m.grant].frame].refs > 0
<1>1. ASSUME NEW l \in L
      PROVE  /\ l.child \in Frame /\ l.parent \in Frame
             /\ fr[l.child].refs > 0 /\ fr[l.parent].refs > 0
             /\ fr[l.parent].pagetable_refs > 0
             /\ HoldsTable(l) => fr[l.child].pagetable_refs > 0
             /\ HoldsWritable(l) => fr[l.child].writable_refs > 0
  <2>1. l.child \in Frame /\ l.parent \in Frame
    BY DEF Refs, Shaped, LinkState
  <2>2. /\ l \in Into(L, l.child) /\ l \in From(L, l.parent)
        /\ HoldsTable(l) => l \in IntoTable(L, l.child)
        /\ HoldsWritable(l) => l \in IntoWritable(L, l.child)
    BY DEF Into, From, IntoTable, IntoWritable
  <2>3. /\ fr[l.child].refs # 0 /\ fr[l.parent].refs # 0 /\ fr[l.parent].pagetable_refs # 0
        /\ HoldsTable(l) => fr[l.child].pagetable_refs # 0
        /\ HoldsWritable(l) => fr[l.child].writable_refs # 0
    BY <2>1, <2>2, RefsNone
  <2>4. /\ fr[l.child].refs \in Nat /\ fr[l.parent].refs \in Nat
        /\ fr[l.parent].pagetable_refs \in Nat /\ fr[l.child].pagetable_refs \in Nat
        /\ fr[l.child].writable_refs \in Nat
    BY <2>1, RefsCounts
  <2> QED BY <2>1, <2>3, <2>4
<1>2. ASSUME NEW m \in M
      PROVE  gr[m.grant].frame \in Frame /\ fr[gr[m.grant].frame].refs > 0
  <2>1. gr[m.grant].frame \in Frame
    BY DEF Refs, MapsOwned
  <2>2. m \in MapsOverFrame(gr, M, gr[m.grant].frame)
    BY DEF MapsOverFrame
  <2> QED BY <2>1, <2>2, RefsNone, RefsCounts
<1> QED BY <1>1, <1>2

(* Removing entries: each gives back what it held on its child and on its    *)
(* table.                                                                    *)
LEMMA UnlinkedKeeps ==
    ASSUME NEW fr, NEW L, NEW gr, NEW M, Refs(fr, L, gr, M), NEW S \in SUBSET L
    PROVE  /\ Refs(Unlinked(fr, S), L \ S, gr, M)
           /\ \A f \in Frame : /\ Unlinked(fr, S)[f].owner = fr[f].owner
                               /\ Unlinked(fr, S)[f].pinned = fr[f].pinned
                               /\ Unlinked(fr, S)[f].pt_level = fr[f].pt_level
<1> DEFINE fr2 == Unlinked(fr, S)
<1>1. /\ fr \in [Frame -> RawFrame] /\ IsFiniteSet(L)
      /\ \A f \in Frame : FrameAccounted(fr[f], L, gr, M, f)
  BY DEF Refs, Shaped, RefsExact
<1>2. IsFiniteSet(S)
  BY <1>1, FS_Subset
<1>3. ASSUME NEW f \in Frame
      PROVE  /\ fr2[f] \in RawFrame
             /\ fr2[f].owner = fr[f].owner /\ fr2[f].pt_level = fr[f].pt_level
             /\ fr2[f].pinned = fr[f].pinned
             /\ fr2[f].refs <= fr[f].refs /\ fr2[f].writable_refs <= fr[f].writable_refs
             /\ fr2[f].executable_refs <= fr[f].executable_refs
             /\ fr2[f].pagetable_refs <= fr[f].pagetable_refs
             /\ FrameAccounted(fr2[f], L \ S, gr, M, f)
  <2> DEFINE a == fr[f].refs - Cardinality(Into(S, f)) - Cardinality(From(S, f))
             b == fr[f].writable_refs - Cardinality(IntoWritable(S, f))
             c == fr[f].executable_refs - Cardinality(IntoExec(S, f))
             e == fr[f].pagetable_refs - Cardinality(IntoTable(S, f)) - Cardinality(From(S, f))
  <2>1. fr2[f] = Recounted(fr[f], a, b, c, e)
    BY DEF Recounted, Unlinked, Into, From, IntoWritable, IntoExec, IntoTable
  <2>2. /\ fr[f] \in RawFrame /\ fr[f].refs \in Int /\ fr[f].writable_refs \in Int
        /\ fr[f].executable_refs \in Int /\ fr[f].pagetable_refs \in Int
        /\ fr[f].pinned \in BOOLEAN
    BY <1>1 DEF RawFrame
  <2>3. /\ Cardinality(Into(S, f)) \in Nat /\ Cardinality(From(S, f)) \in Nat
        /\ Cardinality(IntoWritable(S, f)) \in Nat /\ Cardinality(IntoExec(S, f)) \in Nat
        /\ Cardinality(IntoTable(S, f)) \in Nat
    BY <1>2, LinkCounts
  <2>4. /\ a \in Int /\ b \in Int /\ c \in Int /\ e \in Int
        /\ a <= fr[f].refs /\ b <= fr[f].writable_refs
        /\ c <= fr[f].executable_refs /\ e <= fr[f].pagetable_refs
    BY <2>2, <2>3
  <2>5. FrameAccounted(fr[f], L, gr, M, f)
    BY <1>1
  <2>6. /\ Cardinality(Into(L, f)) \in Nat /\ Cardinality(From(L, f)) \in Nat
        /\ Cardinality(IntoWritable(L, f)) \in Nat /\ Cardinality(IntoExec(L, f)) \in Nat
        /\ Cardinality(IntoTable(L, f)) \in Nat
        /\ Cardinality(MapsOverFrame(gr, M, f)) \in Nat /\ Cardinality(WritesTo(gr, M, f)) \in Nat
    BY <1>1, LinkCounts, MapCounts DEF Refs, Shaped
  <2>7. PinOf(fr[f]) \in Nat
    BY DEF PinOf, One
  <2>8. /\ a = Cardinality(Into(L \ S, f)) + Cardinality(From(L \ S, f)) + PinOf(fr[f])
                   + Cardinality(MapsOverFrame(gr, M, f))
        /\ b = Cardinality(IntoWritable(L \ S, f)) + Cardinality(WritesTo(gr, M, f))
        /\ c = Cardinality(IntoExec(L \ S, f))
        /\ e = Cardinality(IntoTable(L \ S, f)) + Cardinality(From(L \ S, f)) + PinOf(fr[f])
    <3>1. /\ Cardinality(Into(L \ S, f)) = Cardinality(Into(L, f)) - Cardinality(Into(S, f))
          /\ Cardinality(From(L \ S, f)) = Cardinality(From(L, f)) - Cardinality(From(S, f))
          /\ Cardinality(IntoWritable(L \ S, f))
                 = Cardinality(IntoWritable(L, f)) - Cardinality(IntoWritable(S, f))
          /\ Cardinality(IntoExec(L \ S, f))
                 = Cardinality(IntoExec(L, f)) - Cardinality(IntoExec(S, f))
          /\ Cardinality(IntoTable(L \ S, f))
                 = Cardinality(IntoTable(L, f)) - Cardinality(IntoTable(S, f))
      BY <1>1, LinksRemoved
    <3> QED BY ONLY <2>3, <2>5, <2>6, <2>7, <3>1 DEF FrameAccounted, a, b, c, e
  <2> HIDE DEF a, b, c, e, fr2
  <2>9. /\ fr2[f] \in RawFrame /\ fr2[f].owner = fr[f].owner /\ fr2[f].pt_level = fr[f].pt_level
        /\ fr2[f].pinned = fr[f].pinned /\ fr2[f].refs = a /\ fr2[f].writable_refs = b
        /\ fr2[f].executable_refs = c /\ fr2[f].pagetable_refs = e
    BY <2>1, <2>2, <2>4, RawCounts
  <2>10. PinOf(fr2[f]) = PinOf(fr[f])
    BY <2>9 DEF PinOf, One
  <2>11. FrameAccounted(fr2[f], L \ S, gr, M, f)
    BY ONLY <2>8, <2>9, <2>10 DEF FrameAccounted
  <2> QED BY <2>4, <2>9, <2>11
<1>4. fr2 \in [Frame -> RawFrame]
  BY <1>3 DEF Unlinked
<1> HIDE DEF fr2
<1>5. Refs(fr2, L \ S, gr, M)
  BY <1>3, <1>4, ShrinkKeeps
<1> QED BY <1>3, <1>5 DEF fr2

(* Giving back the page references of mappings.                              *)
LEMMA PutMapsKeeps ==
    ASSUME NEW fr, NEW L, NEW gr, NEW M, Refs(fr, L, gr, M), NEW S \in SUBSET M
    PROVE  /\ Refs(AfterPutMaps(fr, gr, S), L, gr, M \ S)
           /\ \A f \in Frame : /\ AfterPutMaps(fr, gr, S)[f].owner = fr[f].owner
                               /\ AfterPutMaps(fr, gr, S)[f].pinned = fr[f].pinned
                               /\ AfterPutMaps(fr, gr, S)[f].pt_level = fr[f].pt_level
<1> DEFINE fr2 == AfterPutMaps(fr, gr, S)
<1>1. /\ fr \in [Frame -> RawFrame] /\ IsFiniteSet(L) /\ IsFiniteSet(M)
      /\ \A f \in Frame : FrameAccounted(fr[f], L, gr, M, f)
  BY DEF Refs, Shaped, RefsExact
<1>2. IsFiniteSet(S)
  BY <1>1, FS_Subset
<1>3. ASSUME NEW f \in Frame
      PROVE  /\ fr2[f] \in RawFrame
             /\ fr2[f].owner = fr[f].owner /\ fr2[f].pt_level = fr[f].pt_level
             /\ fr2[f].pinned = fr[f].pinned
             /\ fr2[f].refs <= fr[f].refs /\ fr2[f].writable_refs <= fr[f].writable_refs
             /\ fr2[f].executable_refs <= fr[f].executable_refs
             /\ fr2[f].pagetable_refs <= fr[f].pagetable_refs
             /\ FrameAccounted(fr2[f], L, gr, M \ S, f)
  <2> DEFINE a == fr[f].refs - Cardinality(MapsOverFrame(gr, S, f))
             b == fr[f].writable_refs - Cardinality(WritesTo(gr, S, f))
  <2>1. fr2[f] = MapsRecounted(fr[f], a, b)
    BY DEF MapsRecounted, AfterPutMaps, WritesTo
  <2>2. /\ fr[f] \in RawFrame /\ fr[f].refs \in Int /\ fr[f].writable_refs \in Int
        /\ fr[f].executable_refs \in Int /\ fr[f].pagetable_refs \in Int
        /\ fr[f].pinned \in BOOLEAN
    BY <1>1 DEF RawFrame
  <2>3. Cardinality(MapsOverFrame(gr, S, f)) \in Nat /\ Cardinality(WritesTo(gr, S, f)) \in Nat
    BY <1>2, MapCounts
  <2>4. a \in Int /\ b \in Int /\ a <= fr[f].refs /\ b <= fr[f].writable_refs
    BY <2>2, <2>3
  <2>5. FrameAccounted(fr[f], L, gr, M, f)
    BY <1>1
  <2>6. /\ Cardinality(Into(L, f)) \in Nat /\ Cardinality(From(L, f)) \in Nat
        /\ Cardinality(IntoWritable(L, f)) \in Nat
        /\ Cardinality(MapsOverFrame(gr, M, f)) \in Nat /\ Cardinality(WritesTo(gr, M, f)) \in Nat
    BY <1>1, LinkCounts, MapCounts
  <2>7. PinOf(fr[f]) \in Nat
    BY DEF PinOf, One
  <2>8. /\ a = Cardinality(Into(L, f)) + Cardinality(From(L, f)) + PinOf(fr[f])
                   + Cardinality(MapsOverFrame(gr, M \ S, f))
        /\ b = Cardinality(IntoWritable(L, f)) + Cardinality(WritesTo(gr, M \ S, f))
    <3>1. /\ Cardinality(MapsOverFrame(gr, M \ S, f))
                 = Cardinality(MapsOverFrame(gr, M, f)) - Cardinality(MapsOverFrame(gr, S, f))
          /\ Cardinality(WritesTo(gr, M \ S, f))
                 = Cardinality(WritesTo(gr, M, f)) - Cardinality(WritesTo(gr, S, f))
      BY <1>1, MapsRemoved
    <3> QED BY ONLY <2>3, <2>5, <2>6, <2>7, <3>1 DEF FrameAccounted, a, b
  <2> HIDE DEF a, b, fr2
  <2>9. /\ fr2[f] \in RawFrame /\ fr2[f].owner = fr[f].owner /\ fr2[f].pt_level = fr[f].pt_level
        /\ fr2[f].pinned = fr[f].pinned /\ fr2[f].refs = a /\ fr2[f].writable_refs = b
        /\ fr2[f].executable_refs = fr[f].executable_refs
        /\ fr2[f].pagetable_refs = fr[f].pagetable_refs
    BY <2>1, <2>2, <2>4, RawMapCounts
  <2>10. PinOf(fr2[f]) = PinOf(fr[f])
    BY <2>9 DEF PinOf, One
  <2>11. FrameAccounted(fr2[f], L, gr, M \ S, f)
    BY ONLY <2>5, <2>8, <2>9, <2>10 DEF FrameAccounted
  <2> QED BY <2>2, <2>4, <2>9, <2>11
<1>4. fr2 \in [Frame -> RawFrame]
  BY <1>3 DEF AfterPutMaps
<1> HIDE DEF fr2
<1>5. Refs(fr2, L, gr, M \ S)
  BY <1>3, <1>4, ShrinkKeeps
<1> QED BY <1>3, <1>5 DEF fr2

(* Dropping pins.                                                            *)
LEMMA UnpinnedKeeps ==
    ASSUME NEW fr, NEW L, NEW gr, NEW M, Refs(fr, L, gr, M), NEW S \in SUBSET Frame,
           \A f \in S : fr[f].pinned
    PROVE  /\ Refs(Unpinned(fr, S), L, gr, M)
           /\ \A f \in Frame : /\ Unpinned(fr, S)[f].owner = fr[f].owner
                               /\ Unpinned(fr, S)[f].pt_level = fr[f].pt_level
                               /\ f \notin S => Unpinned(fr, S)[f] = fr[f]
                               /\ f \in S => ~Unpinned(fr, S)[f].pinned
<1> DEFINE fr2 == Unpinned(fr, S)
<1>1. /\ fr \in [Frame -> RawFrame] /\ IsFiniteSet(L) /\ IsFiniteSet(M)
      /\ \A f \in Frame : FrameAccounted(fr[f], L, gr, M, f)
  BY DEF Refs, Shaped, RefsExact
<1>2. ASSUME NEW f \in Frame
      PROVE  /\ fr2[f] \in RawFrame
             /\ fr2[f].owner = fr[f].owner /\ fr2[f].pt_level = fr[f].pt_level
             /\ f \notin S => fr2[f] = fr[f]
             /\ f \in S => ~fr2[f].pinned
             /\ fr2[f].refs <= fr[f].refs /\ fr2[f].writable_refs <= fr[f].writable_refs
             /\ fr2[f].executable_refs <= fr[f].executable_refs
             /\ fr2[f].pagetable_refs <= fr[f].pagetable_refs
             /\ FrameAccounted(fr2[f], L, gr, M, f)
  <2>1. /\ fr[f] \in RawFrame /\ fr[f].refs \in Int /\ fr[f].writable_refs \in Int
        /\ fr[f].executable_refs \in Int /\ fr[f].pagetable_refs \in Int
        /\ fr[f].pinned \in BOOLEAN
    BY <1>1 DEF RawFrame
  <2>2. FrameAccounted(fr[f], L, gr, M, f)
    BY <1>1
  <2>3. CASE f \notin S
    <3>1. fr2[f] = fr[f]
      BY <2>3 DEF Unpinned
    <3> QED BY <2>1, <2>2, <2>3, <3>1
  <2>4. CASE f \in S
    <3> DEFINE a == fr[f].refs - 1
               e == fr[f].pagetable_refs - 1
    <3>1. fr2[f] = PinDropped(fr[f], a, e)
      BY <2>4 DEF PinDropped, Unpinned
    <3>2. a \in Int /\ e \in Int /\ a <= fr[f].refs /\ e <= fr[f].pagetable_refs
      BY <2>1
    <3>3. PinOf(fr[f]) = 1
      BY <2>4 DEF PinOf, One
    <3>4. /\ Cardinality(Into(L, f)) \in Nat /\ Cardinality(From(L, f)) \in Nat
          /\ Cardinality(IntoTable(L, f)) \in Nat /\ Cardinality(MapsOverFrame(gr, M, f)) \in Nat
      BY <1>1, LinkCounts, MapCounts
    <3>5. /\ a = Cardinality(Into(L, f)) + Cardinality(From(L, f))
                     + Cardinality(MapsOverFrame(gr, M, f))
          /\ e = Cardinality(IntoTable(L, f)) + Cardinality(From(L, f))
      BY <2>2, <3>3, <3>4 DEF FrameAccounted
    <3> HIDE DEF a, e, fr2
    <3>6. /\ fr2[f] \in RawFrame /\ fr2[f].owner = fr[f].owner
          /\ fr2[f].pt_level = fr[f].pt_level
          /\ ~fr2[f].pinned /\ fr2[f].refs = a
          /\ fr2[f].writable_refs = fr[f].writable_refs
          /\ fr2[f].executable_refs = fr[f].executable_refs /\ fr2[f].pagetable_refs = e
      BY <2>1, <3>1, <3>2, RawUnpin
    <3>7. PinOf(fr2[f]) = 0
      BY <3>6 DEF PinOf, One
    <3>8. FrameAccounted(fr2[f], L, gr, M, f)
      BY <2>1, <2>2, <3>4, <3>5, <3>6, <3>7 DEF FrameAccounted
    <3> QED BY <2>1, <2>4, <3>2, <3>6, <3>8
  <2> QED BY <2>3, <2>4
<1>3. fr2 \in [Frame -> RawFrame]
  BY <1>2 DEF Unpinned
<1> HIDE DEF fr2
<1>4. Refs(fr2, L, gr, M)
  BY <1>2, <1>3, ShrinkKeeps
<1> QED BY <1>2, <1>4 DEF fr2

-----------------------------------------------------------------------------
\* A frame given to o, or to nobody, with no reference to it.
Fresh(o) == [owner |-> o, refs |-> 0, writable_refs |-> 0, executable_refs |-> 0,
             pagetable_refs |-> 0, pt_level |-> 1, pinned |-> FALSE]

(* A fresh frame, field by field.                                            *)
LEMMA FreshFields ==
    ASSUME NEW o \in Dom \cup {NoOwner}
    PROVE  /\ Fresh(o) \in RawFrame /\ Fresh(o).owner = o /\ Fresh(o).refs = 0
           /\ Fresh(o).writable_refs = 0 /\ Fresh(o).executable_refs = 0
           /\ Fresh(o).pagetable_refs = 0 /\ ~Fresh(o).pinned
           /\ FreeFrame = Fresh(NoOwner) /\ [FreeFrame EXCEPT !.owner = o] = Fresh(o)
<1>1. 1 \in Level
  BY P2mAssumption DEF Level
<1>2. Fresh(o) \in RawFrame
  BY <1>1 DEF Fresh, RawFrame
<1>3. FreeFrame = Fresh(NoOwner)
  BY DEF Fresh, FreeFrame
<1>4. [FreeFrame EXCEPT !.owner = o] = Fresh(o)
  <2> DEFINE no == FALSE
  <2>1. FreeFrame = [owner |-> NoOwner, refs |-> 0, writable_refs |-> 0, executable_refs |-> 0,
                     pagetable_refs |-> 0, pt_level |-> 1, pinned |-> no]
    BY DEF FreeFrame
  <2>2. Fresh(o) = [owner |-> o, refs |-> 0, writable_refs |-> 0, executable_refs |-> 0,
                    pagetable_refs |-> 0, pt_level |-> 1, pinned |-> no]
    BY DEF Fresh
  <2> HIDE DEF no
  <2> QED BY <2>1, <2>2
<1> QED BY <1>2, <1>3, <1>4 DEF Fresh

(* An unreferenced frame may change hands: no entry, no mapping and no pin   *)
(* is left behind on it.                                                     *)
LEMMA HandOverKeeps ==
    ASSUME NEW fr, NEW L, NEW gr, NEW M, Refs(fr, L, gr, M),
           NEW o \in Dom \cup {NoOwner}, NEW S \in SUBSET Frame,
           \A f \in S : fr[f].refs = 0,
           NEW fr2, fr2 = [f \in Frame |-> IF f \in S THEN Fresh(o) ELSE fr[f]]
    PROVE  Refs(fr2, L, gr, M)
<1>1. /\ fr \in [Frame -> RawFrame] /\ L \subseteq LinkState /\ IsFiniteSet(L) /\ IsFiniteSet(M)
      /\ \A f \in Frame : fr[f].refs <= MaxCount
      /\ \A f \in Frame : FrameAccounted(fr[f], L, gr, M, f)
  BY DEF Refs, Shaped, RefsExact
<1>2. /\ \A f \in S : fr2[f] = Fresh(o)
      /\ \A f \in Frame \ S : fr2[f] = fr[f]
  OBVIOUS
<1>3. fr2 \in [Frame -> RawFrame]
  BY <1>1, FreshFields
<1>4. Shaped(fr2, L, M)
  <2>1. \A f \in Frame : fr2[f].refs <= MaxCount
    BY <1>1, <1>2, FreshFields, FramesAssumption
  <2> QED BY <1>1, <1>3, <2>1 DEF Shaped
<1>5. RefsExact(fr2, L, gr, M)
  <2> SUFFICES ASSUME NEW f \in Frame
               PROVE  FrameAccounted(fr2[f], L, gr, M, f)
    BY DEF RefsExact
  <2>1. CASE f \in S
    <3>1. Into(L, f) = {} /\ From(L, f) = {} /\ MapsOverFrame(gr, M, f) = {}
      BY <2>1, RefsNone
    <3>2. /\ IntoWritable(L, f) = {} /\ IntoExec(L, f) = {} /\ IntoTable(L, f) = {}
          /\ WritesTo(gr, M, f) = {}
      BY <3>1 DEF IntoWritable, IntoExec, IntoTable, WritesTo
    <3>3. /\ fr2[f].refs = 0 /\ fr2[f].writable_refs = 0 /\ fr2[f].executable_refs = 0
          /\ fr2[f].pagetable_refs = 0 /\ ~fr2[f].pinned
      BY <1>2, <2>1, FreshFields
    <3>4. PinOf(fr2[f]) = 0
      BY <3>3 DEF PinOf, One
    <3>5. Cardinality({}) = 0
      BY FS_EmptySet
    <3> QED BY ONLY <3>1, <3>2, <3>3, <3>4, <3>5 DEF FrameAccounted
  <2>2. CASE f \notin S
    BY <1>1, <1>2, <2>2
  <2> QED BY <2>1, <2>2
<1>6. Kinded(fr2)
  <2> SUFFICES ASSUME NEW f \in Frame
               PROVE  /\ fr2[f].refs > 0 => fr2[f].owner # NoOwner
                      /\ fr2[f].writable_refs > 0 =>
                             fr2[f].pagetable_refs = 0 /\ fr2[f].executable_refs = 0
    BY DEF Kinded
  <2>1. CASE f \in S
    BY <1>2, <2>1, FreshFields
  <2>2. CASE f \notin S
    BY <1>2, <2>2 DEF Refs, Kinded
  <2> QED BY <2>1, <2>2
<1>7. \A l \in L : /\ l.child \in Frame /\ l.parent \in Frame
                   /\ fr2[l.child] = fr[l.child] /\ fr2[l.parent] = fr[l.parent]
  <2> SUFFICES ASSUME NEW l \in L
               PROVE  /\ l.child \in Frame /\ l.parent \in Frame
                      /\ fr2[l.child] = fr[l.child] /\ fr2[l.parent] = fr[l.parent]
    OBVIOUS
  <2>1. /\ l.child \in Frame /\ l.parent \in Frame
        /\ fr[l.child].refs > 0 /\ fr[l.parent].refs > 0
    BY RefsSome
  <2> QED BY <1>2, <2>1
<1>8. Levelled(fr2, L)
  BY <1>7 DEF Refs, Levelled
<1>9. Consented(fr2, L, gr)
  BY <1>7 DEF Refs, Consented
<1>10. MapsOwned(fr2, gr, M)
  <2> SUFFICES ASSUME NEW m \in M
               PROVE  gr[m.grant].frame \in Frame /\ fr2[gr[m.grant].frame].owner = m.grant[1]
    BY DEF MapsOwned
  <2>1. gr[m.grant].frame \in Frame /\ fr[gr[m.grant].frame].refs > 0
    BY RefsSome
  <2> QED BY <1>2, <2>1 DEF Refs, MapsOwned
<1> QED BY <1>4, <1>5, <1>6, <1>8, <1>9, <1>10 DEF Refs

(* The grant tables may change as long as every mapping keeps its frame and  *)
(* every foreign entry a permit.                                             *)
LEMMA GrantsChangeKeeps ==
    ASSUME NEW fr, NEW L, NEW gr, NEW M, Refs(fr, L, gr, M), NEW gr2,
           \A m \in M : gr2[m.grant].frame = gr[m.grant].frame,
           Consented(fr, L, gr2)
    PROVE  Refs(fr, L, gr2, M)
<1>1. \A f : MapsOverFrame(gr2, M, f) = MapsOverFrame(gr, M, f)
  BY DEF MapsOverFrame
<1>2. \A f : WritesTo(gr2, M, f) = WritesTo(gr, M, f)
  BY <1>1 DEF WritesTo
<1>3. RefsExact(fr, L, gr2, M)
  BY <1>1, <1>2 DEF Refs, RefsExact, FrameAccounted
<1>4. MapsOwned(fr, gr2, M)
  BY DEF Refs, MapsOwned
<1> QED BY <1>3, <1>4 DEF Refs

(* A permit that stays live for the same frame, grantee and access goes on   *)
(* authorizing what it did.                                                  *)
LEMMA ConsentStays ==
    ASSUME NEW fr, NEW L, NEW gr, NEW gr2, Consented(fr, L, gr),
           \A l \in L, g \in GrantId :
               (/\ fr[l.child].owner # fr[l.parent].owner
                /\ g[1] = fr[l.child].owner
                /\ Permits(gr, g, fr[l.parent].owner, l.writable) /\ gr[g].frame = l.child)
               => /\ gr2[g].live /\ gr2[g].grantee = gr[g].grantee
                  /\ gr2[g].frame = gr[g].frame /\ gr2[g].readonly = gr[g].readonly,
           \A l \in L : fr[l.child].owner \in Dom
    PROVE  Consented(fr, L, gr2)
<1> SUFFICES ASSUME NEW l \in L, fr[l.child].owner # fr[l.parent].owner
             PROVE  Authorizes(gr2, fr[l.child].owner, fr[l.parent].owner, l.child, l.writable)
  BY DEF Consented
<1>1. Authorizes(gr, fr[l.child].owner, fr[l.parent].owner, l.child, l.writable)
  BY DEF Consented
<1>2. PICK ref \in Gref :
          /\ Permits(gr, <<fr[l.child].owner, ref>>, fr[l.parent].owner, l.writable)
          /\ gr[<<fr[l.child].owner, ref>>].frame = l.child
  BY <1>1 DEF Authorizes
<1> DEFINE g == <<fr[l.child].owner, ref>>
<1>3. g \in GrantId /\ g[1] = fr[l.child].owner
  BY DEF GrantId
<1>4. /\ gr2[g].live /\ gr2[g].grantee = gr[g].grantee
      /\ gr2[g].frame = gr[g].frame /\ gr2[g].readonly = gr[g].readonly
  <2>1. /\ Permits(gr, g, fr[l.parent].owner, l.writable) /\ gr[g].frame = l.child
    BY <1>2
  <2> HIDE DEF g
  <2> QED BY <1>3, <2>1
<1> QED BY <1>2, <1>4 DEF Authorizes, Permits

-----------------------------------------------------------------------------
\* fr2 is fr with one more reference on f, of the kinds w, x and t (each 0 or
\* 1) say; a first page-table reference may stamp the level.
Took(fr, fr2, f, w, x, t) ==
    /\ fr2 \in [Frame -> RawFrame]
    /\ \A k \in Frame \ {f} : fr2[k] = fr[k]
    /\ fr2[f].owner = fr[f].owner /\ fr2[f].pinned = fr[f].pinned
    /\ fr2[f].refs = fr[f].refs + 1
    /\ fr2[f].writable_refs = fr[f].writable_refs + w
    /\ fr2[f].executable_refs = fr[f].executable_refs + x
    /\ fr2[f].pagetable_refs = fr[f].pagetable_refs + t
    /\ t = 0 \/ fr[f].pagetable_refs # 0 => fr2[f].pt_level = fr[f].pt_level

(* The four kinds of reference.                                              *)
LEMMA GetTakes ==
    ASSUME NEW fr \in [Frame -> RawFrame], NEW f \in Frame, NEW level \in Level
    PROVE  /\ Took(fr, AfterGet(fr, f), f, 0, 0, 0)
           /\ Took(fr, AfterGetWritable(fr, f), f, 1, 0, 0)
           /\ Took(fr, AfterGetExec(fr, f), f, 0, 1, 0)
           /\ Took(fr, AfterGetTable(fr, f, level), f, 0, 0, 1)
           /\ fr[f].pagetable_refs = 0 => AfterGetTable(fr, f, level)[f].pt_level = level
<1> DEFINE r == fr[f]
<1>1. /\ r \in RawFrame /\ r.refs \in Int /\ r.writable_refs \in Int
      /\ r.executable_refs \in Int /\ r.pagetable_refs \in Int /\ r.pt_level \in Level
  BY DEF RawFrame
<1>2. ASSUME NEW s \in RawFrame, NEW fr2, fr2 = [fr EXCEPT ![f] = s]
      PROVE  /\ fr2 \in [Frame -> RawFrame] /\ fr2[f] = s
             /\ \A k \in Frame \ {f} : fr2[k] = fr[k]
  BY <1>2
<1>3. Took(fr, AfterGet(fr, f), f, 0, 0, 0)
  <2> DEFINE s == [r EXCEPT !.refs = r.refs + 1]
  <2>1. AfterGet(fr, f) = [fr EXCEPT ![f] = s]
    BY DEF AfterGet
  <2>2. /\ s \in RawFrame /\ s.owner = r.owner /\ s.pinned = r.pinned /\ s.refs = r.refs + 1
        /\ s.writable_refs = r.writable_refs /\ s.executable_refs = r.executable_refs
        /\ s.pagetable_refs = r.pagetable_refs /\ s.pt_level = r.pt_level
    <3> HIDE DEF r
    <3> QED BY <1>1 DEF RawFrame
  <2> HIDE DEF s
  <2> QED BY <1>1, <1>2, <2>1, <2>2 DEF Took
<1>4. Took(fr, AfterGetWritable(fr, f), f, 1, 0, 0)
  <2> DEFINE n == r.refs + 1
             c == r.writable_refs + 1
             s == [r EXCEPT !.refs = n, !.writable_refs = c]
  <2>1. AfterGetWritable(fr, f) = [fr EXCEPT ![f] = s]
    BY DEF AfterGetWritable
  <2>2. /\ s \in RawFrame /\ s.owner = r.owner /\ s.pinned = r.pinned /\ s.refs = n
        /\ s.writable_refs = c /\ s.executable_refs = r.executable_refs
        /\ s.pagetable_refs = r.pagetable_refs /\ s.pt_level = r.pt_level
    <3>1. n \in Int /\ c \in Int
      BY <1>1
    <3> HIDE DEF r, n, c
    <3> QED BY <1>1, <3>1 DEF RawFrame
  <2> HIDE DEF s
  <2> QED BY <1>1, <1>2, <2>1, <2>2 DEF Took
<1>5. Took(fr, AfterGetExec(fr, f), f, 0, 1, 0)
  <2> DEFINE n == r.refs + 1
             c == r.executable_refs + 1
             s == [r EXCEPT !.refs = n, !.executable_refs = c]
  <2>1. AfterGetExec(fr, f) = [fr EXCEPT ![f] = s]
    BY DEF AfterGetExec
  <2>2. /\ s \in RawFrame /\ s.owner = r.owner /\ s.pinned = r.pinned /\ s.refs = n
        /\ s.writable_refs = r.writable_refs /\ s.executable_refs = c
        /\ s.pagetable_refs = r.pagetable_refs /\ s.pt_level = r.pt_level
    <3>1. n \in Int /\ c \in Int
      BY <1>1
    <3> HIDE DEF r, n, c
    <3> QED BY <1>1, <3>1 DEF RawFrame
  <2> HIDE DEF s
  <2> QED BY <1>1, <1>2, <2>1, <2>2 DEF Took
<1>6. /\ Took(fr, AfterGetTable(fr, f, level), f, 0, 0, 1)
      /\ fr[f].pagetable_refs = 0 => AfterGetTable(fr, f, level)[f].pt_level = level
  <2> DEFINE v == IF r.pagetable_refs = 0 THEN level ELSE r.pt_level
             n == r.refs + 1
             c == r.pagetable_refs + 1
             s == [r EXCEPT !.refs = n, !.pagetable_refs = c, !.pt_level = v]
  <2>1. AfterGetTable(fr, f, level) = [fr EXCEPT ![f] = s]
    BY DEF AfterGetTable
  <2>2. v \in Level
    BY <1>1
  <2>3. /\ s \in RawFrame /\ s.owner = r.owner /\ s.pinned = r.pinned /\ s.refs = n
        /\ s.writable_refs = r.writable_refs /\ s.executable_refs = r.executable_refs
        /\ s.pagetable_refs = c /\ s.pt_level = v
    <3>1. n \in Int /\ c \in Int
      BY <1>1
    <3> HIDE DEF r, v, n, c
    <3> QED BY <1>1, <2>2, <3>1 DEF RawFrame
  <2> HIDE DEF s
  <2> QED BY <1>1, <1>2, <2>1, <2>3 DEF Took
<1> QED BY <1>3, <1>4, <1>5, <1>6

\* From fr, L and M to fr2, L2 and M2 references are only taken: the counts
\* stay exact and within their width, no live table changes level, and what is
\* new is levelled, owned and consented to.
Grows(fr, fr2, L, L2, gr, M, M2) ==
    /\ \A f \in Frame :
           /\ fr2[f].owner = fr[f].owner /\ fr2[f].refs <= MaxCount
           /\ fr[f].pagetable_refs # 0 => fr2[f].pt_level = fr[f].pt_level
           /\ FrameAccounted(fr2[f], L2, gr, M2, f)
    /\ \A l \in L2 \ L :
           /\ HoldsTable(l) => fr2[l.child].pt_level = fr2[l.parent].pt_level - 1
           /\ fr[l.child].owner # fr[l.parent].owner =>
                  Authorizes(gr, fr[l.child].owner, fr[l.parent].owner, l.child, l.writable)
    /\ \A m \in M2 \ M :
           gr[m.grant].frame \in Frame /\ fr[gr[m.grant].frame].owner = m.grant[1]

(* Such a step keeps the invariant if the kinds stay apart.                  *)
LEMMA GrowKeeps ==
    ASSUME NEW fr, NEW L, NEW gr, NEW M, Refs(fr, L, gr, M),
           NEW fr2 \in [Frame -> RawFrame], NEW L2 \in SUBSET LinkState, NEW M2,
           IsFiniteSet(L2), IsFiniteSet(M2), Kinded(fr2),
           Grows(fr, fr2, L, L2, gr, M, M2)
    PROVE  Refs(fr2, L2, gr, M2)
<1> USE DEF Grows
<1>1. Shaped(fr2, L2, M2)
  BY DEF Shaped
<1>2. RefsExact(fr2, L2, gr, M2)
  BY DEF RefsExact
<1>3. \A l \in L2 : l.child \in Frame /\ l.parent \in Frame
  BY DEF LinkState
<1>4. Levelled(fr2, L2)
  <2> SUFFICES ASSUME NEW l \in L2, HoldsTable(l)
               PROVE  fr2[l.child].pt_level = fr2[l.parent].pt_level - 1
    BY DEF Levelled
  <2>1. CASE l \in L
    <3>1. /\ fr[l.parent].pagetable_refs > 0 /\ fr[l.child].pagetable_refs > 0
      BY <2>1, RefsSome
    <3>2. fr[l.parent].pagetable_refs # 0 /\ fr[l.child].pagetable_refs # 0
      BY <3>1
    <3>3. fr[l.child].pt_level = fr[l.parent].pt_level - 1
      BY <2>1 DEF Refs, Levelled
    <3> QED BY <1>3, <3>2, <3>3
  <2> QED BY <2>1
<1>5. MapsOwned(fr2, gr, M2)
  <2> SUFFICES ASSUME NEW m \in M2
               PROVE  gr[m.grant].frame \in Frame /\ fr2[gr[m.grant].frame].owner = m.grant[1]
    BY DEF MapsOwned
  <2>1. gr[m.grant].frame \in Frame /\ fr[gr[m.grant].frame].owner = m.grant[1]
    BY DEF Refs, MapsOwned
  <2> QED BY <2>1
<1>6. Consented(fr2, L2, gr)
  <2> SUFFICES ASSUME NEW l \in L2, fr2[l.child].owner # fr2[l.parent].owner
               PROVE  Authorizes(gr, fr2[l.child].owner, fr2[l.parent].owner, l.child, l.writable)
    BY DEF Consented
  <2>1. /\ fr2[l.child].owner = fr[l.child].owner /\ fr2[l.parent].owner = fr[l.parent].owner
    BY <1>3
  <2>2. Authorizes(gr, fr[l.child].owner, fr[l.parent].owner, l.child, l.writable)
    BY <2>1 DEF Refs, Consented
  <2> QED BY <2>1, <2>2
<1> QED BY <1>1, <1>2, <1>4, <1>5, <1>6 DEF Refs

(* A new mapping takes one reference on its frame, a writable one only on a  *)
(* frame that is neither a table nor executable.                             *)
LEMMA MapTakesKeeps ==
    ASSUME NEW fr, NEW L, NEW gr, NEW M, Refs(fr, L, gr, M), NEW m \in Mapping, m \notin M,
           NEW f \in Frame, gr[m.grant].frame = f, fr[f].owner = m.grant[1],
           fr[f].owner # NoOwner, fr[f].refs < MaxCount,
           NEW w \in {0, 1}, w = One(m.writable),
           m.writable => fr[f].executable_refs = 0 /\ fr[f].pagetable_refs = 0,
           NEW fr2, Took(fr, fr2, f, w, 0, 0)
    PROVE  Refs(fr2, L, gr, M \cup {m})
<1>1. /\ L \in SUBSET LinkState /\ IsFiniteSet(L) /\ IsFiniteSet(M) /\ IsFiniteSet(M \cup {m})
  BY FS_AddElement DEF Refs, Shaped
<1>2. /\ fr2 \in [Frame -> RawFrame] /\ \A k \in Frame \ {f} : fr2[k] = fr[k]
      /\ fr2[f].owner = fr[f].owner /\ fr2[f].pinned = fr[f].pinned
      /\ fr2[f].refs = fr[f].refs + 1 /\ fr2[f].writable_refs = fr[f].writable_refs + w
      /\ fr2[f].executable_refs = fr[f].executable_refs + 0
      /\ fr2[f].pagetable_refs = fr[f].pagetable_refs + 0 /\ fr2[f].pt_level = fr[f].pt_level
  BY DEF Took
<1>3. /\ fr[f].refs \in Nat /\ fr[f].writable_refs \in Nat /\ fr[f].executable_refs \in Nat
      /\ fr[f].pagetable_refs \in Nat /\ fr[f].refs <= MaxCount
  BY RefsCounts
<1>4. \A k \in Frame : FrameAccounted(fr[k], L, gr, M, k)
  BY DEF Refs, RefsExact
<1>5. /\ Cardinality(MapsOverFrame(gr, M \cup {m}, f)) = Cardinality(MapsOverFrame(gr, M, f)) + 1
      /\ Cardinality(WritesTo(gr, M \cup {m}, f)) = Cardinality(WritesTo(gr, M, f)) + w
  <2>1. /\ Cardinality(MapsOverFrame(gr, M \cup {m}, f))
               = Cardinality(MapsOverFrame(gr, M, f)) + One(gr[m.grant].frame = f)
        /\ Cardinality(WritesTo(gr, M \cup {m}, f))
               = Cardinality(WritesTo(gr, M, f)) + One(gr[m.grant].frame = f /\ m.writable)
    BY <1>1, MapAdded DEF One
  <2> QED BY <2>1 DEF One
<1>6. \A k \in Frame \ {f} :
          /\ MapsOverFrame(gr, M \cup {m}, k) = MapsOverFrame(gr, M, k)
          /\ WritesTo(gr, M \cup {m}, k) = WritesTo(gr, M, k)
  BY DEF MapsOverFrame, WritesTo
<1>7. FrameAccounted(fr2[f], L, gr, M \cup {m}, f)
  <2>1. PinOf(fr2[f]) = PinOf(fr[f])
    BY <1>2 DEF PinOf, One
  <2>2. FrameAccounted(fr[f], L, gr, M, f)
    BY <1>4
  <2>3. /\ Cardinality(Into(L, f)) \in Nat /\ Cardinality(From(L, f)) \in Nat
        /\ Cardinality(IntoWritable(L, f)) \in Nat
        /\ Cardinality(MapsOverFrame(gr, M, f)) \in Nat /\ Cardinality(WritesTo(gr, M, f)) \in Nat
    BY <1>1, LinkCounts, MapCounts
  <2>4. PinOf(fr[f]) \in Nat
    BY DEF PinOf, One
  <2>5. w \in Nat
    OBVIOUS
  <2> QED BY ONLY <1>2, <1>3, <1>5, <2>1, <2>2, <2>3, <2>4, <2>5 DEF FrameAccounted
<1>8. Kinded(fr2)
  <2> SUFFICES ASSUME NEW k \in Frame
               PROVE  /\ fr2[k].refs > 0 => fr2[k].owner # NoOwner
                      /\ fr2[k].writable_refs > 0 =>
                             fr2[k].pagetable_refs = 0 /\ fr2[k].executable_refs = 0
    BY DEF Kinded
  <2>1. /\ fr[k].refs > 0 => fr[k].owner # NoOwner
        /\ fr[k].writable_refs > 0 => fr[k].pagetable_refs = 0 /\ fr[k].executable_refs = 0
    BY DEF Refs, Kinded
  <2>2. CASE k = f
    <3>1. CASE m.writable
      BY <1>2, <1>3, <2>2, <3>1
    <3>2. CASE ~m.writable
      <4>1. w = 0
        BY <3>2 DEF One
      <4> QED BY <1>2, <1>3, <2>1, <2>2, <4>1
    <3> QED BY <3>1, <3>2
  <2>3. CASE k # f
    BY <1>2, <2>1, <2>3
  <2> QED BY <2>2, <2>3
<1>9. \A k \in Frame :
          /\ fr2[k].owner = fr[k].owner /\ fr2[k].refs <= MaxCount
          /\ fr[k].pagetable_refs # 0 => fr2[k].pt_level = fr[k].pt_level
          /\ FrameAccounted(fr2[k], L, gr, M \cup {m}, k)
  <2> SUFFICES ASSUME NEW k \in Frame
               PROVE  /\ fr2[k].owner = fr[k].owner /\ fr2[k].refs <= MaxCount
                      /\ fr[k].pagetable_refs # 0 => fr2[k].pt_level = fr[k].pt_level
                      /\ FrameAccounted(fr2[k], L, gr, M \cup {m}, k)
    OBVIOUS
  <2>1. CASE k = f
    BY <1>2, <1>3, <1>7, <2>1, FramesAssumption
  <2>2. CASE k # f
    <3>1. FrameAccounted(fr[k], L, gr, M, k) /\ fr2[k] = fr[k] /\ fr[k].refs <= MaxCount
      BY <1>2, <1>4, <2>2, RefsCounts
    <3>2. FrameAccounted(fr2[k], L, gr, M \cup {m}, k)
      BY <1>6, <2>2, <3>1 DEF FrameAccounted
    <3> QED BY <3>1, <3>2
  <2> QED BY <2>1, <2>2
<1>10. \A x \in (M \cup {m}) \ M :
           gr[x.grant].frame \in Frame /\ fr[gr[x.grant].frame].owner = x.grant[1]
  OBVIOUS
<1>11. Grows(fr, fr2, L, L, gr, M, M \cup {m})
  BY <1>9, <1>10 DEF Grows
<1> QED BY <1>1, <1>2, <1>8, <1>11, GrowKeeps

(* A pin is one more page-table reference, held by the frame's owner.        *)
LEMMA PinKeeps ==
    ASSUME NEW fr, NEW L, NEW gr, NEW M, Refs(fr, L, gr, M), NEW f \in Frame,
           NEW level \in Level, ~fr[f].pinned, CanGetTable(fr, f, level),
           NEW fr2, fr2 = [AfterGetTable(fr, f, level) EXCEPT ![f].pinned = TRUE]
    PROVE  Refs(fr2, L, gr, M)
<1> DEFINE fr1 == AfterGetTable(fr, f, level)
<1>1. /\ fr \in [Frame -> RawFrame] /\ L \in SUBSET LinkState /\ IsFiniteSet(L) /\ IsFiniteSet(M)
      /\ \A k \in Frame : FrameAccounted(fr[k], L, gr, M, k)
  BY DEF Refs, Shaped, RefsExact
<1>2. Took(fr, fr1, f, 0, 0, 1)
  BY <1>1, GetTakes
<1>3. fr2 = [fr1 EXCEPT ![f].pinned = TRUE]
  OBVIOUS
<1> HIDE DEF fr1
<1>4. /\ fr1 \in [Frame -> RawFrame] /\ \A k \in Frame \ {f} : fr1[k] = fr[k]
      /\ fr1[f].owner = fr[f].owner /\ fr1[f].refs = fr[f].refs + 1
      /\ fr1[f].writable_refs = fr[f].writable_refs + 0
      /\ fr1[f].executable_refs = fr[f].executable_refs + 0
      /\ fr1[f].pagetable_refs = fr[f].pagetable_refs + 1
      /\ fr[f].pagetable_refs # 0 => fr1[f].pt_level = fr[f].pt_level
  BY <1>2 DEF Took
<1>5. /\ fr2 \in [Frame -> RawFrame] /\ \A k \in Frame \ {f} : fr2[k] = fr[k]
      /\ fr2[f].owner = fr[f].owner /\ fr2[f].refs = fr[f].refs + 1 /\ fr2[f].pinned
      /\ fr2[f].writable_refs = fr[f].writable_refs + 0
      /\ fr2[f].executable_refs = fr[f].executable_refs + 0
      /\ fr2[f].pagetable_refs = fr[f].pagetable_refs + 1
      /\ fr[f].pagetable_refs # 0 => fr2[f].pt_level = fr[f].pt_level
  <2> DEFINE r == fr1[f]
             s == [r EXCEPT !.pinned = TRUE]
  <2>1. r \in RawFrame
    BY <1>4
  <2>2. fr2 = [fr1 EXCEPT ![f] = s]
    BY <1>3
  <2>3. /\ s \in RawFrame /\ s.pinned /\ s.owner = r.owner /\ s.refs = r.refs
        /\ s.writable_refs = r.writable_refs /\ s.executable_refs = r.executable_refs
        /\ s.pagetable_refs = r.pagetable_refs /\ s.pt_level = r.pt_level
    <3> HIDE DEF r
    <3> QED BY <2>1 DEF RawFrame
  <2> HIDE DEF s
  <2> QED BY <1>4, <2>2, <2>3
<1>6. /\ fr[f].refs \in Nat /\ fr[f].writable_refs \in Nat /\ fr[f].executable_refs \in Nat
      /\ fr[f].pagetable_refs \in Nat
  BY RefsCounts
<1>7. fr[f].owner # NoOwner /\ fr[f].refs < MaxCount /\ fr[f].writable_refs = 0
  BY DEF CanGetTable, CanGet, IsAllocated
<1>8. FrameAccounted(fr2[f], L, gr, M, f)
  <2>1. PinOf(fr2[f]) = 1 /\ PinOf(fr[f]) = 0
    BY <1>5 DEF PinOf, One
  <2>2. FrameAccounted(fr[f], L, gr, M, f)
    BY <1>1
  <2>3. /\ Cardinality(Into(L, f)) \in Nat /\ Cardinality(From(L, f)) \in Nat
        /\ Cardinality(IntoTable(L, f)) \in Nat /\ Cardinality(MapsOverFrame(gr, M, f)) \in Nat
    BY <1>1, LinkCounts, MapCounts
  <2> QED BY ONLY <1>5, <1>6, <2>1, <2>2, <2>3 DEF FrameAccounted
<1>9. Kinded(fr2)
  <2> SUFFICES ASSUME NEW k \in Frame
               PROVE  /\ fr2[k].refs > 0 => fr2[k].owner # NoOwner
                      /\ fr2[k].writable_refs > 0 =>
                             fr2[k].pagetable_refs = 0 /\ fr2[k].executable_refs = 0
    BY DEF Kinded
  <2>1. CASE k = f
    BY <1>5, <1>6, <1>7, <2>1
  <2>2. CASE k # f
    BY <1>5, <2>2 DEF Refs, Kinded
  <2> QED BY <2>1, <2>2
<1>10. \A k \in Frame :
           /\ fr2[k].owner = fr[k].owner /\ fr2[k].refs <= MaxCount
           /\ fr[k].pagetable_refs # 0 => fr2[k].pt_level = fr[k].pt_level
           /\ FrameAccounted(fr2[k], L, gr, M, k)
  <2> SUFFICES ASSUME NEW k \in Frame
               PROVE  /\ fr2[k].owner = fr[k].owner /\ fr2[k].refs <= MaxCount
                      /\ fr[k].pagetable_refs # 0 => fr2[k].pt_level = fr[k].pt_level
                      /\ FrameAccounted(fr2[k], L, gr, M, k)
    OBVIOUS
  <2>1. CASE k = f
    BY <1>5, <1>6, <1>7, <1>8, <2>1, FramesAssumption
  <2>2. CASE k # f
    BY <1>1, <1>5, <2>2, RefsCounts
  <2> QED BY <2>1, <2>2
<1>11. Grows(fr, fr2, L, L, gr, M, M)
  BY <1>10 DEF Grows
<1> QED BY <1>1, <1>5, <1>9, <1>11, GrowKeeps

(* What an entry of this shape takes on its child.                           *)
LEMMA HeldTakes ==
    ASSUME NEW fr \in [Frame -> RawFrame], NEW l \in LinkState, CanHold(fr, l),
           fr[l.child].pagetable_refs \in Nat
    PROVE  /\ Took(fr, Held(fr, l), l.child, IF HoldsWritable(l) THEN 1 ELSE 0,
                   IF HoldsExec(l) THEN 1 ELSE 0, IF HoldsTable(l) THEN 1 ELSE 0)
           /\ HoldsTable(l) =>
                  Held(fr, l)[l.child].pt_level = fr[l.parent].pt_level - 1
           /\ fr[l.child].owner # NoOwner /\ fr[l.child].refs < MaxCount
           /\ HoldsWritable(l) => fr[l.child].executable_refs = 0 /\ fr[l.child].pagetable_refs = 0
           /\ HoldsExec(l) \/ HoldsTable(l) => fr[l.child].writable_refs = 0
<1>1. /\ l.child \in Frame /\ l.parent \in Frame /\ l.leaf \in BOOLEAN /\ l.writable \in BOOLEAN
      /\ l.execute \in BOOLEAN
  BY DEF LinkState
<1>2. CASE l.leaf
  <2>1. /\ (IF HoldsTable(l) THEN 1 ELSE 0) = 0 /\ ~HoldsTable(l)
    BY <1>2 DEF HoldsTable
  <2>2. 1 \in Level
    BY P2mAssumption DEF Level
  <2>3. CASE l.writable
    <3>1. (IF HoldsWritable(l) THEN 1 ELSE 0) = 1 /\ (IF HoldsExec(l) THEN 1 ELSE 0) = 0
      BY <1>2, <2>3 DEF HoldsWritable, HoldsExec
    <3>2. Took(fr, Held(fr, l), l.child, 1, 0, 0)
      BY <1>1, <1>2, <2>2, <2>3, GetTakes DEF Held
    <3>3. CanGetWritable(fr, l.child)
      BY <1>2, <2>3 DEF CanHold
    <3> QED BY <1>2, <2>1, <2>3, <3>1, <3>2, <3>3 DEF CanGetWritable, IsAllocated, HoldsExec
  <2>4. CASE ~l.writable /\ l.execute
    <3>1. (IF HoldsWritable(l) THEN 1 ELSE 0) = 0 /\ (IF HoldsExec(l) THEN 1 ELSE 0) = 1
      BY <1>2, <2>4 DEF HoldsWritable, HoldsExec
    <3>2. Took(fr, Held(fr, l), l.child, 0, 1, 0)
      BY <1>1, <1>2, <2>2, <2>4, GetTakes DEF Held
    <3>3. CanGetExec(fr, l.child)
      BY <1>2, <2>4 DEF CanHold
    <3> QED BY <1>2, <2>1, <2>4, <3>1, <3>2, <3>3
            DEF CanGetExec, CanGet, IsAllocated, HoldsWritable
  <2>5. CASE ~l.writable /\ ~l.execute
    <3>1. (IF HoldsWritable(l) THEN 1 ELSE 0) = 0 /\ (IF HoldsExec(l) THEN 1 ELSE 0) = 0
      BY <1>2, <2>5 DEF HoldsWritable, HoldsExec
    <3>2. Took(fr, Held(fr, l), l.child, 0, 0, 0)
      BY <1>1, <1>2, <2>2, <2>5, GetTakes DEF Held
    <3>3. CanGet(fr, l.child)
      BY <1>2, <2>5 DEF CanHold
    <3> QED BY <1>2, <2>1, <2>5, <3>1, <3>2, <3>3
            DEF CanGet, IsAllocated, HoldsWritable, HoldsExec
  <2> QED BY <1>1, <2>3, <2>4, <2>5
<1>3. CASE ~l.leaf
  <2> DEFINE below == fr[l.parent].pt_level - 1
  <2>1. /\ (IF HoldsWritable(l) THEN 1 ELSE 0) = 0 /\ (IF HoldsExec(l) THEN 1 ELSE 0) = 0
        /\ (IF HoldsTable(l) THEN 1 ELSE 0) = 1 /\ ~HoldsWritable(l) /\ ~HoldsExec(l)
    BY <1>3 DEF HoldsWritable, HoldsExec, HoldsTable
  <2>2. fr[l.parent].pt_level > 1 /\ CanGetTable(fr, l.child, below)
    BY <1>3 DEF CanHold
  <2>3. below \in Level
    <3>1. fr[l.parent].pt_level \in Level
      BY <1>1 DEF RawFrame
    <3> QED BY <2>2, <3>1, P2mAssumption DEF Level
  <2>4. Held(fr, l) = AfterGetTable(fr, l.child, below)
    BY <1>3 DEF Held
  <2> HIDE DEF below
  <2>5. /\ Took(fr, Held(fr, l), l.child, 0, 0, 1)
        /\ fr[l.child].pagetable_refs = 0 => Held(fr, l)[l.child].pt_level = below
    BY <1>1, <2>3, <2>4, GetTakes
  <2>6. /\ fr[l.child].owner # NoOwner /\ fr[l.child].refs < MaxCount
        /\ fr[l.child].writable_refs = 0
        /\ fr[l.child].pagetable_refs > 0 => fr[l.child].pt_level = below
    BY <2>2 DEF CanGetTable, CanGet, IsAllocated
  <2>7. Held(fr, l)[l.child].pt_level = below
    <3>1. CASE fr[l.child].pagetable_refs = 0
      BY <2>5, <3>1
    <3>2. CASE fr[l.child].pagetable_refs > 0
      BY <2>5, <2>6, <3>2 DEF Took
    <3> QED BY <3>1, <3>2
  <2> QED BY <2>1, <2>5, <2>6, <2>7 DEF below
<1> QED BY <1>1, <1>2, <1>3

(* A new entry takes what it holds on its child and the table's reference on *)
(* itself; an interior child is one level down because both guards compare   *)
(* levels, so no table is below itself.                                      *)
LEMMA LinkKeeps ==
    ASSUME NEW fr, NEW L, NEW gr, NEW M, Refs(fr, L, gr, M), NEW l \in LinkState, l \notin L,
           NEW fr1, fr1 = Held(fr, l), NEW level, level = fr[l.parent].pt_level,
           fr[l.parent].owner # NoOwner, IsTable(fr, l.parent), CanHold(fr, l),
           CanGetTable(fr1, l.parent, level),
           NEW fr2, fr2 = AfterGetTable(fr1, l.parent, level),
           fr[l.child].owner # fr[l.parent].owner =>
               Authorizes(gr, fr[l.child].owner, fr[l.parent].owner, l.child, l.writable)
    PROVE  Refs(fr2, L \cup {l}, gr, M)
<1> DEFINE w == IF HoldsWritable(l) THEN 1 ELSE 0
           x == IF HoldsExec(l) THEN 1 ELSE 0
           t == IF HoldsTable(l) THEN 1 ELSE 0
           c == l.child
           p == l.parent
<1>1. /\ fr \in [Frame -> RawFrame] /\ L \in SUBSET LinkState /\ IsFiniteSet(L) /\ IsFiniteSet(M)
      /\ \A k \in Frame : FrameAccounted(fr[k], L, gr, M, k)
      /\ IsFiniteSet(L \cup {l}) /\ L \cup {l} \in SUBSET LinkState
  BY FS_AddElement DEF Refs, Shaped, RefsExact
<1>2. c \in Frame /\ p \in Frame
  BY DEF LinkState
<1>3. w \in {0, 1} /\ x \in {0, 1} /\ t \in {0, 1}
  OBVIOUS
<1>4. \A k \in Frame : /\ fr[k].refs \in Nat /\ fr[k].writable_refs \in Nat
                       /\ fr[k].executable_refs \in Nat /\ fr[k].pagetable_refs \in Nat
                       /\ fr[k].refs <= MaxCount
  BY RefsCounts
<1>5. /\ Took(fr, fr1, c, w, x, t)
      /\ t = 1 => fr1[c].pt_level = fr[p].pt_level - 1
      /\ fr[c].owner # NoOwner /\ fr[c].refs < MaxCount
      /\ w = 1 => fr[c].executable_refs = 0 /\ fr[c].pagetable_refs = 0
      /\ x = 1 \/ t = 1 => fr[c].writable_refs = 0
  BY <1>1, <1>2, <1>4, HeldTakes
<1>6. /\ fr[p].pagetable_refs > 0 /\ fr1[p].refs < MaxCount /\ fr1[p].writable_refs = 0
  BY DEF IsTable, CanGetTable, CanGet
<1>7. level \in Level /\ level \in Int
  BY <1>1, <1>2 DEF RawFrame, Level
<1>8. Took(fr1, fr2, p, 0, 0, 1)
  <2>1. fr1 \in [Frame -> RawFrame]
    BY <1>5 DEF Took
  <2> QED BY <1>2, <1>7, <2>1, GetTakes
<1>9. HoldsTable(l) <=> t = 1
  OBVIOUS
<1>10. /\ Cardinality(Into(L \cup {l}, c)) = Cardinality(Into(L, c)) + 1
       /\ Cardinality(From(L \cup {l}, p)) = Cardinality(From(L, p)) + 1
       /\ Cardinality(IntoWritable(L \cup {l}, c)) = Cardinality(IntoWritable(L, c)) + w
       /\ Cardinality(IntoExec(L \cup {l}, c)) = Cardinality(IntoExec(L, c)) + x
       /\ Cardinality(IntoTable(L \cup {l}, c)) = Cardinality(IntoTable(L, c)) + t
  BY <1>1, LinkAdded DEF One
<1>11. /\ \A k \in Frame \ {c} :
              /\ Into(L \cup {l}, k) = Into(L, k)
              /\ IntoWritable(L \cup {l}, k) = IntoWritable(L, k)
              /\ IntoExec(L \cup {l}, k) = IntoExec(L, k)
              /\ IntoTable(L \cup {l}, k) = IntoTable(L, k)
       /\ \A k \in Frame \ {p} : From(L \cup {l}, k) = From(L, k)
  BY DEF Into, From, IntoWritable, IntoExec, IntoTable
<1>12. Refs(fr, L, gr, M) /\ (fr[c].owner # fr[p].owner =>
                                  Authorizes(gr, fr[c].owner, fr[p].owner, c, l.writable))
  OBVIOUS
<1>13. fr[p].owner # NoOwner /\ level = fr[p].pt_level
  OBVIOUS
<1> HIDE DEF w, x, t
<1>14. \A k \in Frame :
           FrameAccounted(fr2[k], L \cup {l}, gr, M, k) /\ fr2[k].refs <= MaxCount
  <2> SUFFICES ASSUME NEW k \in Frame
               PROVE  FrameAccounted(fr2[k], L \cup {l}, gr, M, k) /\ fr2[k].refs <= MaxCount
    OBVIOUS
  <2>1. /\ Cardinality(Into(L, k)) \in Nat /\ Cardinality(From(L, k)) \in Nat
        /\ Cardinality(IntoWritable(L, k)) \in Nat /\ Cardinality(IntoExec(L, k)) \in Nat
        /\ Cardinality(IntoTable(L, k)) \in Nat
        /\ Cardinality(MapsOverFrame(gr, M, k)) \in Nat /\ Cardinality(WritesTo(gr, M, k)) \in Nat
    BY <1>1, LinkCounts, MapCounts
  <2>2. PinOf(fr[k]) \in Nat /\ FrameAccounted(fr[k], L, gr, M, k)
    BY <1>1 DEF PinOf, One
  <2>3. /\ fr[k].refs \in Nat /\ fr[k].writable_refs \in Nat
        /\ fr[k].executable_refs \in Nat /\ fr[k].pagetable_refs \in Nat
        /\ fr[k].refs <= MaxCount
    BY <1>4
  <2>4. w \in Int /\ x \in Int /\ t \in Int /\ MaxCount \in Nat
    BY <1>3, FramesAssumption
  <2>5. CASE k = c /\ k = p
    <3>1. /\ fr2[k].refs = fr[k].refs + 2 /\ fr2[k].writable_refs = fr[k].writable_refs + w
          /\ fr2[k].executable_refs = fr[k].executable_refs + x
          /\ fr2[k].pagetable_refs = fr[k].pagetable_refs + t + 1
          /\ fr2[k].pinned = fr[k].pinned /\ fr2[k].refs <= MaxCount
      BY <1>2, <1>5, <1>6, <1>8, <2>3, <2>4, <2>5 DEF Took
    <3>2. PinOf(fr2[k]) = PinOf(fr[k])
      BY <3>1 DEF PinOf, One
    <3> QED BY <1>10, <2>1, <2>2, <2>3, <2>4, <2>5, <3>1, <3>2 DEF FrameAccounted
  <2>6. CASE k = c /\ k # p
    <3>1. /\ fr2[k].refs = fr[k].refs + 1 /\ fr2[k].writable_refs = fr[k].writable_refs + w
          /\ fr2[k].executable_refs = fr[k].executable_refs + x
          /\ fr2[k].pagetable_refs = fr[k].pagetable_refs + t
          /\ fr2[k].pinned = fr[k].pinned /\ fr2[k].refs <= MaxCount
      BY <1>2, <1>5, <1>6, <1>8, <2>3, <2>4, <2>6 DEF Took
    <3>2. PinOf(fr2[k]) = PinOf(fr[k])
      BY <3>1 DEF PinOf, One
    <3>3. /\ Cardinality(Into(L \cup {l}, k)) = Cardinality(Into(L, k)) + 1
          /\ Cardinality(From(L \cup {l}, k)) = Cardinality(From(L, k))
          /\ Cardinality(IntoWritable(L \cup {l}, k)) = Cardinality(IntoWritable(L, k)) + w
          /\ Cardinality(IntoExec(L \cup {l}, k)) = Cardinality(IntoExec(L, k)) + x
          /\ Cardinality(IntoTable(L \cup {l}, k)) = Cardinality(IntoTable(L, k)) + t
      BY <1>10, <1>11, <2>6
    <3> QED BY ONLY <2>1, <2>2, <2>3, <2>4, <3>1, <3>2, <3>3 DEF FrameAccounted
  <2>7. CASE k # c /\ k = p
    <3>1. /\ fr2[k].refs = fr[k].refs + 1 /\ fr2[k].writable_refs = fr[k].writable_refs
          /\ fr2[k].executable_refs = fr[k].executable_refs
          /\ fr2[k].pagetable_refs = fr[k].pagetable_refs + 1
          /\ fr2[k].pinned = fr[k].pinned /\ fr2[k].refs <= MaxCount
      BY <1>2, <1>5, <1>6, <1>8, <2>3, <2>4, <2>7 DEF Took
    <3>2. PinOf(fr2[k]) = PinOf(fr[k])
      BY <3>1 DEF PinOf, One
    <3>3. /\ Cardinality(Into(L \cup {l}, k)) = Cardinality(Into(L, k))
          /\ Cardinality(From(L \cup {l}, k)) = Cardinality(From(L, k)) + 1
          /\ Cardinality(IntoWritable(L \cup {l}, k)) = Cardinality(IntoWritable(L, k))
          /\ Cardinality(IntoExec(L \cup {l}, k)) = Cardinality(IntoExec(L, k))
          /\ Cardinality(IntoTable(L \cup {l}, k)) = Cardinality(IntoTable(L, k))
      BY <1>10, <1>11, <2>7
    <3> QED BY ONLY <2>1, <2>2, <2>3, <2>4, <3>1, <3>2, <3>3 DEF FrameAccounted
  <2>8. CASE k # c /\ k # p
    <3>1. fr2[k] = fr[k]
      BY <1>2, <1>5, <1>8, <2>8 DEF Took
    <3> QED BY <1>11, <2>2, <2>3, <2>8, <3>1 DEF FrameAccounted
  <2> QED BY <2>5, <2>6, <2>7, <2>8
<1>15. Kinded(fr2)
  <2> SUFFICES ASSUME NEW k \in Frame
               PROVE  /\ fr2[k].refs > 0 => fr2[k].owner # NoOwner
                      /\ fr2[k].writable_refs > 0 =>
                             fr2[k].pagetable_refs = 0 /\ fr2[k].executable_refs = 0
    BY DEF Kinded
  <2>1. /\ fr[k].refs > 0 => fr[k].owner # NoOwner
        /\ fr[k].writable_refs > 0 => fr[k].pagetable_refs = 0 /\ fr[k].executable_refs = 0
        /\ fr[k].refs \in Nat /\ fr[k].writable_refs \in Nat
        /\ fr[k].executable_refs \in Nat /\ fr[k].pagetable_refs \in Nat
    BY <1>4, <1>12 DEF Refs, Kinded
  <2>2. CASE k = p
    <3>1. fr2[k].owner = fr[k].owner /\ fr2[k].writable_refs = fr1[k].writable_refs + 0
      BY <1>2, <1>5, <1>8, <2>2 DEF Took
    <3> QED BY <1>6, <1>13, <2>2, <3>1
  <2>3. CASE k # p /\ k = c
    <3>1. /\ fr2[k].owner = fr[k].owner /\ fr2[k].writable_refs = fr[k].writable_refs + w
          /\ fr2[k].executable_refs = fr[k].executable_refs + x
          /\ fr2[k].pagetable_refs = fr[k].pagetable_refs + t
      BY <1>2, <1>5, <1>8, <2>3 DEF Took
    <3>2. w = 1 => x = 0 /\ t = 0
      BY DEF w, x, t, HoldsWritable, HoldsExec, HoldsTable
    <3>3. CASE w = 1
      BY <1>5, <2>1, <2>3, <3>1, <3>2, <3>3
    <3>4. CASE w = 0 /\ (x = 1 \/ t = 1)
      BY <1>5, <2>1, <2>3, <3>1, <3>4
    <3>5. CASE w = 0 /\ x = 0 /\ t = 0
      BY <1>5, <2>1, <2>3, <3>1, <3>5
    <3> QED BY <1>3, <3>3, <3>4, <3>5
  <2>4. CASE k # p /\ k # c
    <3>1. fr2[k] = fr[k]
      BY <1>2, <1>5, <1>8, <2>4 DEF Took
    <3> QED BY <2>1, <3>1
  <2> QED BY <2>2, <2>3, <2>4
<1>16. \A k \in Frame :
           /\ fr2[k].owner = fr[k].owner
           /\ fr[k].pagetable_refs # 0 => fr2[k].pt_level = fr[k].pt_level
  <2> SUFFICES ASSUME NEW k \in Frame
               PROVE  /\ fr2[k].owner = fr[k].owner
                      /\ fr[k].pagetable_refs # 0 => fr2[k].pt_level = fr[k].pt_level
    OBVIOUS
  <2>1. /\ fr1[k].owner = fr[k].owner
        /\ fr[k].pagetable_refs # 0 => fr1[k].pt_level = fr[k].pt_level
        /\ fr[k].pagetable_refs # 0 => fr1[k].pagetable_refs # 0
    <3>1. fr[k].pagetable_refs \in Nat
      BY <1>4
    <3> QED BY <1>2, <1>3, <1>5, <3>1 DEF Took
  <2> QED BY <1>2, <1>8, <2>1 DEF Took
<1>17. ASSUME HoldsTable(l)
       PROVE  fr2[c].pt_level = fr2[p].pt_level - 1
  <2>1. fr1[c].pt_level = level - 1
    BY <1>5, <1>9, <1>13, <1>17
  <2>2. fr[p].pagetable_refs # 0
    BY <1>6
  <2>3. fr2[p].pt_level = level
    BY <1>2, <1>13, <1>16, <2>2
  <2>4. fr1[p].pt_level = level
    BY <1>2, <1>5, <1>13, <2>2 DEF Took
  <2>5. c # p
    BY <1>7, <2>1, <2>4
  <2>6. fr2[c] = fr1[c]
    BY <1>2, <1>8, <2>5 DEF Took
  <2> QED BY <2>1, <2>3, <2>6
<1>18. Grows(fr, fr2, L, L \cup {l}, gr, M, M)
  <2>1. \A k \in (L \cup {l}) \ L : k = l
    OBVIOUS
  <2> QED BY <1>12, <1>14, <1>16, <1>17, <2>1 DEF Grows
<1>19. fr2 \in [Frame -> RawFrame]
  BY <1>8 DEF Took
<1> QED BY <1>1, <1>12, <1>15, <1>18, <1>19, GrowKeeps

-----------------------------------------------------------------------------
(* The inductive invariant of the memory behind the seam: the grant tables'  *)
(* own, and the references on every frame.                                   *)
MemoryInv == GrantInv /\ Refs(frames, links, grants, maps)

(* new() establishes it.                                                     *)
LEMMA MemoryInitInv ==
    ASSUME HvInit
    PROVE  MemoryInv
<1>1. GrantInv
  BY GrantInitInv DEF HvInit
<1>2. frames = [f \in Frame |-> FreeFrame] /\ links = {} /\ maps = {}
  BY DEF HvInit, P2mInit, GrantInit
<1>3. /\ Fresh(NoOwner) \in RawFrame /\ Fresh(NoOwner).owner = NoOwner
      /\ Fresh(NoOwner).refs = 0 /\ Fresh(NoOwner).writable_refs = 0
      /\ Fresh(NoOwner).executable_refs = 0 /\ Fresh(NoOwner).pagetable_refs = 0
      /\ ~Fresh(NoOwner).pinned /\ FreeFrame = Fresh(NoOwner)
  BY FreshFields
<1>4. IsFiniteSet({}) /\ Cardinality({}) = 0
  BY FS_EmptySet
<1>5. ASSUME NEW f \in Frame
      PROVE  /\ frames[f] = Fresh(NoOwner)
             /\ FrameAccounted(frames[f], links, grants, maps, f)
  <2>1. /\ Into(links, f) = {} /\ From(links, f) = {} /\ IntoWritable(links, f) = {}
        /\ IntoExec(links, f) = {} /\ IntoTable(links, f) = {}
        /\ MapsOverFrame(grants, maps, f) = {} /\ WritesTo(grants, maps, f) = {}
    BY <1>2 DEF Into, From, IntoWritable, IntoExec, IntoTable, MapsOverFrame, WritesTo
  <2>2. frames[f] = Fresh(NoOwner)
    BY <1>2, <1>3
  <2>3. PinOf(Fresh(NoOwner)) = 0
    BY <1>3 DEF PinOf, One
  <2> QED BY <1>3, <1>4, <2>1, <2>2, <2>3 DEF FrameAccounted
<1>6. Shaped(frames, links, maps)
  BY <1>2, <1>3, <1>4, <1>5, FramesAssumption DEF Shaped
<1>7. RefsExact(frames, links, grants, maps)
  BY <1>5 DEF RefsExact
<1>8. Kinded(frames)
  BY <1>3, <1>5 DEF Kinded
<1>9. /\ Levelled(frames, links) /\ MapsOwned(frames, grants, maps)
      /\ Consented(frames, links, grants)
  BY <1>2 DEF Levelled, MapsOwned, Consented
<1> QED BY <1>1, <1>6, <1>7, <1>8, <1>9 DEF MemoryInv, Refs

(* What the invariant says of the variables: the properties of the runs.     *)
LEMMA MemoryInvTypes ==
    ASSUME MemoryInv
    PROVE  GrantTypeOK /\ P2mTypeOK
<1>1. Refs(frames, links, grants, maps) /\ GrantTypeOK
  BY DEF MemoryInv, GrantInv
<1>2. ASSUME NEW f \in Frame PROVE frames[f] \in FrameState
  <2>1. /\ frames[f] \in RawFrame /\ frames[f].refs <= MaxCount
        /\ frames[f].refs \in Nat /\ frames[f].writable_refs \in Nat
        /\ frames[f].executable_refs \in Nat /\ frames[f].pagetable_refs \in Nat
        /\ frames[f].writable_refs <= frames[f].refs
        /\ frames[f].executable_refs <= frames[f].refs
        /\ frames[f].pagetable_refs <= frames[f].refs
    BY <1>1, RefsCounts
  <2>2. /\ frames[f].refs \in 0..MaxCount /\ frames[f].writable_refs \in 0..MaxCount
        /\ frames[f].executable_refs \in 0..MaxCount
        /\ frames[f].pagetable_refs \in 0..MaxCount
    BY <2>1, FramesAssumption
  <2> QED BY <2>1, <2>2, RawFields DEF FrameState
<1> QED BY <1>1, <1>2 DEF Refs, Shaped, P2mTypeOK

(* The invariant accounts for every reference a frame is charged with. *)
LEMMA MemoryInvAccounts ==
    ASSUME MemoryInv
    PROVE  HvRefsAccounted
<1>1. \A f \in Frame : FrameAccounted(frames[f], links, grants, maps, f)
  BY DEF MemoryInv, Refs, RefsExact
<1> QED BY <1>1 DEF HvRefsAccounted, AccountedWith, FrameAccounted, Into, From, IntoWritable,
                    IntoExec, IntoTable, WritesTo, PinOf

(* The invariant gives every frame one role, and every link descends a level. *)
LEMMA MemoryInvPageTypes ==
    ASSUME MemoryInv
    PROVE  PageTypesSound
<1>1. /\ Refs(frames, links, grants, maps) /\ Kinded(frames) /\ Levelled(frames, links)
  BY DEF MemoryInv, Refs
<1>2. TypeExclusive
  BY <1>1 DEF Kinded, TypeExclusive
<1>3. ASSUME NEW l \in links
      PROVE  /\ IsTable(frames, l.parent) /\ IsAllocated(frames, l.child)
             /\ HoldsTable(l) => /\ IsTable(frames, l.child)
                                 /\ frames[l.child].pt_level = frames[l.parent].pt_level - 1
             /\ HoldsWritable(l) => frames[l.child].writable_refs > 0
  <2>1. /\ l.child \in Frame /\ l.parent \in Frame
        /\ frames[l.child].refs > 0 /\ frames[l.parent].refs > 0
        /\ frames[l.parent].pagetable_refs > 0
        /\ HoldsTable(l) => frames[l.child].pagetable_refs > 0
        /\ HoldsWritable(l) => frames[l.child].writable_refs > 0
    BY <1>1, RefsSome
  <2>2. frames[l.parent].writable_refs \in Nat /\ frames[l.child].writable_refs \in Nat
    BY <1>1, <2>1, RefsCounts
  <2>3. /\ frames[l.parent].writable_refs = 0
        /\ HoldsTable(l) => frames[l.child].writable_refs = 0
    BY <1>1, <2>1, <2>2 DEF Kinded
  <2>4. frames[l.child].owner # NoOwner
    BY <1>1, <2>1 DEF Kinded
  <2>5. HoldsTable(l) => frames[l.child].pt_level = frames[l.parent].pt_level - 1
    BY <1>1 DEF Levelled
  <2> QED BY <2>1, <2>3, <2>4, <2>5 DEF IsTable, IsAllocated
<1> QED BY <1>2, <1>3 DEF PageTypesSound, LinksLevelled

(* The invariant keeps mapped and foreign-linked frames with their grantor. *)
LEMMA MemoryInvOwners ==
    ASSUME MemoryInv
    PROVE  GrantMapsOwned /\ ForeignLinksAuthorized
<1>1. ForeignLinksAuthorized
  BY DEF MemoryInv, Refs, Consented, ForeignLinksAuthorized
<1>2. ASSUME NEW g \in GrantId, grants[g].maps > 0
      PROVE  frames[grants[g].frame].owner = g[1]
  <2>1. grants[g].maps = Cardinality(MapsOver(maps, g))
    BY DEF MemoryInv, GrantInv, GrantSound, RefcountsExact
  <2>2. MapsOver(maps, g) # {}
    BY <1>2, <2>1, FS_EmptySet
  <2>3. PICK m \in maps : m.grant = g
    BY <2>2 DEF MapsOver
  <2> QED BY <2>3 DEF MemoryInv, Refs, MapsOwned
<1> QED BY <1>1, <1>2 DEF GrantMapsOwned

-----------------------------------------------------------------------------
(* The frames an entry joins have owners.                                    *)
LEMMA LinkedOwned ==
    ASSUME NEW fr, NEW L, NEW gr, NEW M, Refs(fr, L, gr, M)
    PROVE  \A l \in L : fr[l.child].owner \in Dom /\ fr[l.parent].owner \in Dom
<1> SUFFICES ASSUME NEW l \in L
             PROVE  fr[l.child].owner \in Dom /\ fr[l.parent].owner \in Dom
  OBVIOUS
<1>1. /\ l.child \in Frame /\ l.parent \in Frame
      /\ fr[l.child].refs > 0 /\ fr[l.parent].refs > 0
  BY RefsSome
<1>2. fr[l.child] \in RawFrame /\ fr[l.parent] \in RawFrame
  BY <1>1, RefsCounts
<1>3. fr[l.child].owner # NoOwner /\ fr[l.parent].owner # NoOwner
  BY <1>1 DEF Refs, Kinded
<1> QED BY <1>2, <1>3, RawFields

(* Only the counts of the permits change.                                    *)
LEMMA PermitsStand ==
    ASSUME NEW fr, NEW L, NEW gr, NEW M, Refs(fr, L, gr, M), M \subseteq Mapping, NEW gr2,
           \A g \in GrantId :
               /\ gr2[g].live = gr[g].live /\ gr2[g].grantee = gr[g].grantee
               /\ gr2[g].frame = gr[g].frame /\ gr2[g].readonly = gr[g].readonly
    PROVE  Refs(fr, L, gr2, M)
<1>1. \A m \in M : gr2[m.grant].frame = gr[m.grant].frame
  BY DEF Mapping
<1>2. Consented(fr, L, gr) /\ \A l \in L : fr[l.child].owner \in Dom
  BY LinkedOwned DEF Refs
<1>3. Consented(fr, L, gr2)
  BY <1>2, ConsentStays DEF Permits
<1> QED BY <1>1, <1>3, GrantsChangeKeeps

(* A new permit disturbs none of those in use.                               *)
LEMMA GrantAccessMem ==
    ASSUME MemoryInv, NEW g \in GrantId, NEW grantee \in Dom, NEW frame \in Frame,
           NEW readonly \in BOOLEAN, GrantAccess(g, grantee, frame, readonly), UNCHANGED p2mVars
    PROVE  MemoryInv'
<1>1. GrantInv' /\ GrantInv
  BY GrantAccessKeeps DEF MemoryInv
<1>2. /\ Refs(frames, links, grants, maps) /\ frames' = frames /\ links' = links /\ maps' = maps
      /\ ~grants[g].live /\ \A k \in GrantId : k # g => grants'[k] = grants[k]
  BY <1>1 DEF MemoryInv, p2mVars, GrantAccess, GrantInv, GrantTypeOK
<1>3. \A m \in maps : m.grant \in GrantId /\ m.grant # g
  BY <1>1, <1>2 DEF GrantInv, GrantTypeOK, GrantSound, MapsBacked, Permits, Mapping
<1>4. Consented(frames, links, grants) /\ \A l \in links : frames[l.child].owner \in Dom
  BY <1>2, LinkedOwned DEF Refs
<1>5. Consented(frames, links, grants')
  BY <1>2, <1>4, ConsentStays DEF Permits
<1>6. Refs(frames, links, grants', maps)
  BY <1>2, <1>3, <1>5, GrantsChangeKeeps
<1> QED BY <1>1, <1>2, <1>6 DEF MemoryInv

(* A permit is withdrawn only when no mapping and no foreign entry leans on  *)
(* it.                                                                       *)
LEMMA EndAccessMem ==
    ASSUME MemoryInv, NEW d \in Dom, NEW gref \in Gref, HvGrantEndAccess(d, gref)
    PROVE  MemoryInv'
<1> DEFINE g == <<d, gref>>
<1>1. g \in GrantId /\ EndAccess(g) /\ UNCHANGED p2mVars
      /\ (grants[g].live => ~ForeignLinkedBy(grants[g].frame, grants[g].grantee))
  BY DEF HvGrantEndAccess, OnlyGrant, GrantId
<1> HIDE DEF g
<1>2. GrantInv' /\ GrantInv
  BY <1>1, EndAccessKeeps DEF MemoryInv
<1>3. /\ Refs(frames, links, grants, maps) /\ frames' = frames /\ links' = links /\ maps' = maps
      /\ grants[g].live /\ grants[g].maps = 0
      /\ \A k \in GrantId : k # g => grants'[k] = grants[k]
  BY <1>1, <1>2 DEF MemoryInv, p2mVars, EndAccess, GrantInv, GrantTypeOK
<1>4. \A m \in maps : m.grant \in GrantId /\ m.grant # g
  <2>1. Cardinality(MapsOver(maps, g)) = 0 /\ IsFiniteSet(maps) /\ maps \subseteq Mapping
    BY <1>1, <1>2, <1>3 DEF GrantInv, GrantTypeOK, GrantSound, RefcountsExact
  <2>2. MapsOver(maps, g) = {}
    BY <2>1, CountsOfFinite, FS_EmptySet
  <2> QED BY <2>1, <2>2 DEF MapsOver, Mapping
<1>5. Consented(frames, links, grants) /\ \A l \in links : frames[l.child].owner \in Dom
  BY <1>3, LinkedOwned DEF Refs
<1>6. ASSUME NEW l \in links, NEW k \in GrantId,
             frames[l.child].owner # frames[l.parent].owner,
             k[1] = frames[l.child].owner,
             Permits(grants, k, frames[l.parent].owner, l.writable), grants[k].frame = l.child
      PROVE  k # g
  <2>1. frames[l.child].owner # NoOwner
    BY <1>5, DomainsAssumption DEF Dom, NoOwner
  <2> QED BY <1>1, <1>6, <2>1 DEF ForeignLinkedBy, Permits
<1>7. Consented(frames, links, grants')
  BY <1>3, <1>5, <1>6, ConsentStays DEF Permits
<1>8. Refs(frames, links, grants', maps)
  BY <1>3, <1>4, <1>7, GrantsChangeKeeps
<1> QED BY <1>2, <1>3, <1>8 DEF MemoryInv

(* A mapping and the page reference behind it come together.                 *)
LEMMA GrantMapMem ==
    ASSUME MemoryInv, NEW d \in Dom, NEW g \in GrantId, NEW writable \in BOOLEAN,
           NEW h \in 0..Cardinality(maps), HvGrantMap(d, g, writable, h)
    PROVE  MemoryInv'
<1> DEFINE f == grants[g].frame
           m == [grantee |-> d, handle |-> h, grant |-> g, writable |-> writable]
<1>1. /\ MapGrant(d, g, writable, h) /\ grants[g].live /\ frames[f].owner = g[1]
      /\ IF writable THEN CanGetWritable(frames, f) /\ frames' = AfterGetWritable(frames, f)
                     ELSE CanGet(frames, f) /\ frames' = AfterGet(frames, f)
      /\ links' = links
  BY DEF HvGrantMap
<1>2. GrantInv /\ Refs(frames, links, grants, maps)
  BY DEF MemoryInv
<1>3. h \in Nat
  BY <1>2, FS_CardinalityType DEF GrantInv
<1>4. GrantInv'
  BY <1>1, <1>2, <1>3, MapGrantKeeps
<1>5. /\ m \in Mapping /\ m.grant = g /\ m.writable = writable /\ maps' = maps \cup {m}
      /\ m.grantee = d /\ m.handle = h
  BY <1>1, <1>3 DEF MapGrant, Mapping
<1>6. m \notin maps
  BY <1>1, <1>5 DEF MapGrant, IsNextHandle, HandlesOf
<1>7. grants \in [GrantId -> GrantEntry] /\ maps \subseteq Mapping /\ f \in Frame
  <2>1. grants \in [GrantId -> GrantEntry] /\ maps \subseteq Mapping
    BY <1>2 DEF GrantInv, GrantTypeOK
  <2>2. grants[g] # FreeGrant
    BY <1>1 DEF FreeGrant
  <2> QED BY <2>1, <2>2, LiveFields
<1>8. \A k \in GrantId :
          /\ grants'[k].live = grants[k].live /\ grants'[k].grantee = grants[k].grantee
          /\ grants'[k].frame = grants[k].frame /\ grants'[k].readonly = grants[k].readonly
  <2>1. grants' = [grants EXCEPT ![g].maps = @ + 1, ![g].writable_maps = @ + One(writable)]
    BY <1>1 DEF MapGrant
  <2>2. \A k \in GrantId : k # g => grants'[k] = grants[k]
    BY <1>7, <2>1
  <2>3. grants[g] # FreeGrant
    BY <1>1 DEF FreeGrant
  <2>4. /\ grants'[g].live = grants[g].live /\ grants'[g].grantee = grants[g].grantee
        /\ grants'[g].frame = grants[g].frame /\ grants'[g].readonly = grants[g].readonly
    BY <1>7, <2>1, <2>3, LiveFields
  <2> QED BY <2>2, <2>4
<1>9. Refs(frames, links, grants', maps)
  BY <1>2, <1>7, <1>8, PermitsStand
<1>10. frames \in [Frame -> RawFrame]
  BY <1>2 DEF Refs, Shaped
<1>11. /\ Took(frames, AfterGet(frames, f), f, 0, 0, 0)
       /\ Took(frames, AfterGetWritable(frames, f), f, 1, 0, 0)
  <2>1. 1 \in Level
    BY P2mAssumption DEF Level
  <2> QED BY <1>7, <1>10, <2>1, GetTakes
<1>12. /\ frames[f].owner # NoOwner /\ frames[f].refs < MaxCount
       /\ writable => frames[f].executable_refs = 0 /\ frames[f].pagetable_refs = 0
  BY <1>1 DEF CanGet, CanGetWritable, IsAllocated
<1>13. grants'[m.grant].frame = f /\ frames[f].owner = m.grant[1]
  BY <1>1, <1>5, <1>8
<1> HIDE DEF m, f
<1>14. Refs(frames', links, grants', maps \cup {m})
  <2>1. CASE writable
    <3>1. Took(frames, frames', f, 1, 0, 0)
      BY <1>1, <1>11, <2>1
    <3>2. 1 = One(m.writable)
      BY <1>5, <2>1 DEF One
    <3> QED BY <1>5, <1>6, <1>7, <1>9, <1>12, <1>13, <3>1, <3>2, MapTakesKeeps
  <2>2. CASE ~writable
    <3>1. Took(frames, frames', f, 0, 0, 0)
      BY <1>1, <1>11, <2>2
    <3>2. 0 = One(m.writable) /\ ~m.writable
      BY <1>5, <2>2 DEF One
    <3> QED BY <1>5, <1>6, <1>7, <1>9, <1>12, <1>13, <3>1, <3>2, MapTakesKeeps
  <2> QED BY <2>1, <2>2
<1> QED BY <1>1, <1>4, <1>5, <1>14 DEF MemoryInv

(* ... and go together.                                                      *)
LEMMA GrantUnmapMem ==
    ASSUME MemoryInv, NEW d \in Dom, NEW m \in maps, HvGrantUnmap(d, m)
    PROVE  MemoryInv'
<1>1. /\ grants' = AfterUnmap(grants, {m}) /\ maps' = maps \ {m} /\ links' = links
      /\ frames' = AfterPutMaps(frames, grants, {m})
  BY DEF HvGrantUnmap, UnmapGrant, Unmap
<1>2. GrantOK(grants, maps) /\ Refs(frames, links, grants, maps) /\ {m} \in SUBSET maps
  BY GrantInvIsOK DEF MemoryInv
<1>3. /\ GrantOK(grants', maps')
      /\ \A g \in GrantId :
             /\ grants'[g].live = grants[g].live /\ grants'[g].grantee = grants[g].grantee
             /\ grants'[g].frame = grants[g].frame /\ grants'[g].readonly = grants[g].readonly
  BY <1>1, <1>2, UnmappedOK
<1>4. Refs(frames', links, grants, maps')
  BY <1>1, <1>2, PutMapsKeeps
<1>5. maps' \subseteq Mapping
  BY <1>3 DEF GrantOK
<1>6. Refs(frames', links, grants', maps')
  BY <1>3, <1>4, <1>5, PermitsStand
<1> QED BY <1>1, <1>3, <1>6, GrantInvIsOK DEF MemoryInv

(* The calls of p2m.                                                         *)
LEMMA P2mCallMem ==
    ASSUME MemoryInv, NEW d \in Dom, UNCHANGED grantVars,
           \/ \E f \in Frame : Allocate(d, f) \/ Release(d, f) \/ Unpin(d, f)
           \/ \E f \in Frame, level \in Level : Pin(d, f, level)
           \/ \E l \in links : Unlink(d, l)
           \/ \E l \in LinkState :
                  /\ Link(d, l)
                  /\ frames[l.child].owner \notin {d, NoOwner} =>
                         Authorizes(grants, frames[l.child].owner, d, l.child, l.writable)
    PROVE  MemoryInv'
<1>1. /\ GrantInv /\ Refs(frames, links, grants, maps) /\ grants' = grants /\ maps' = maps
      /\ GrantInv' /\ frames \in [Frame -> RawFrame]
  BY GrantStepInv DEF MemoryInv, grantVars, Refs, Shaped
<1>2. SUFFICES Refs(frames', links', grants, maps)
  BY <1>1 DEF MemoryInv
<1>3. ASSUME NEW f \in Frame, NEW o \in Dom \cup {NoOwner}, frames[f].refs = 0,
             frames' = [frames EXCEPT ![f] = Fresh(o)], links' = links
      PROVE  Refs(frames', links', grants, maps)
  <2>1. frames' = [k \in Frame |-> IF k \in {f} THEN Fresh(o) ELSE frames[k]]
    BY <1>1, <1>3
  <2>2. {f} \in SUBSET Frame /\ \A k \in {f} : frames[k].refs = 0
    BY <1>3
  <2>0. o \in Dom \cup {NoOwner}
    OBVIOUS
  <2>3. Refs(frames', links, grants, maps)
    BY ONLY <1>1, <2>1, <2>2, <2>0, HandOverKeeps
  <2> QED BY <1>3, <2>3
<1>4. ASSUME NEW f \in Frame, Allocate(d, f)
      PROVE  Refs(frames', links', grants, maps)
  <2>1. frames[f].refs = 0
    <3>1. frames[f].owner = NoOwner
      BY <1>4 DEF Allocate, IsAllocated
    <3>2. frames[f].refs \in Nat
      BY <1>1, RefsCounts
    <3> QED BY <1>1, <3>1, <3>2 DEF Refs, Kinded
  <2>2. frames' = [frames EXCEPT ![f] = Fresh(d)] /\ links' = links
    BY <1>4, FreshFields DEF Allocate
  <2> QED BY <1>3, <2>1, <2>2
<1>5. ASSUME NEW f \in Frame, Release(d, f)
      PROVE  Refs(frames', links', grants, maps)
  <2>1. /\ frames[f].refs = 0 /\ links' = links
        /\ frames' = [frames EXCEPT ![f] = Fresh(NoOwner)]
    BY <1>5, FreshFields DEF Release
  <2> QED BY <1>3, <2>1
<1>6. ASSUME NEW f \in Frame, Unpin(d, f)
      PROVE  Refs(frames', links', grants, maps)
  <2>1. /\ frames' = Unpinned(frames, {f}) /\ links' = links
        /\ {f} \in SUBSET Frame /\ \A k \in {f} : frames[k].pinned
    BY <1>6 DEF Unpin
  <2> QED BY <1>1, <2>1, UnpinnedKeeps
<1>7. ASSUME NEW f \in Frame, NEW level \in Level, Pin(d, f, level)
      PROVE  Refs(frames', links', grants, maps)
  <2>1. /\ ~frames[f].pinned /\ CanGetTable(frames, f, level) /\ links' = links
        /\ frames' = [AfterGetTable(frames, f, level) EXCEPT ![f].pinned = TRUE]
    BY <1>7 DEF Pin
  <2> QED BY <1>1, <2>1, PinKeeps
<1>8. ASSUME NEW l \in links, Unlink(d, l)
      PROVE  Refs(frames', links', grants, maps)
  <2>1. frames' = Unlinked(frames, {l}) /\ links' = links \ {l} /\ {l} \in SUBSET links
    BY <1>8 DEF Unlink
  <2> QED BY <1>1, <2>1, UnlinkedKeeps
<1>9. ASSUME NEW l \in LinkState, Link(d, l),
             frames[l.child].owner \notin {d, NoOwner} =>
                 Authorizes(grants, frames[l.child].owner, d, l.child, l.writable)
      PROVE  Refs(frames', links', grants, maps)
  <2> DEFINE fr == Held(frames, l)
             level == frames[l.parent].pt_level
  <2>1. /\ frames[l.parent].owner = d /\ IsTable(frames, l.parent)
        /\ IsAllocated(frames, l.child) /\ ~SlotTaken(links, l.parent, l.slot)
        /\ CanHold(frames, l) /\ CanGetTable(fr, l.parent, level)
        /\ frames' = AfterGetTable(fr, l.parent, level) /\ links' = links \cup {l}
    BY <1>9 DEF Link
  <2>2. l \notin links
    BY <2>1 DEF SlotTaken
  <2>3. frames[l.parent].owner # NoOwner
    BY <2>1, DomainsAssumption DEF Dom, NoOwner
  <2>4. frames[l.child].owner # frames[l.parent].owner =>
            Authorizes(grants, frames[l.child].owner, frames[l.parent].owner, l.child, l.writable)
    BY <1>9, <2>1 DEF IsAllocated
  <2> HIDE DEF fr, level
  <2>5. fr = Held(frames, l) /\ level = frames[l.parent].pt_level
    BY DEF fr, level
  <2> QED BY <1>1, <2>1, <2>2, <2>3, <2>4, <2>5, LinkKeeps
<1> QED BY <1>4, <1>5, <1>6, <1>7, <1>8, <1>9

(* A call on memory keeps the invariant.                                     *)
LEMMA MemoryCallKeeps ==
    ASSUME MemoryInv, NEW d \in Dom, MemoryCall(d)
    PROVE  MemoryInv'
<1>1. ASSUME NEW gref \in Gref, NEW grantee \in Dom, NEW frame \in Frame,
             NEW readonly \in BOOLEAN, HvGrantAccess(d, gref, grantee, frame, readonly)
      PROVE  MemoryInv'
  <2>1. /\ <<d, gref>> \in GrantId /\ UNCHANGED p2mVars
        /\ GrantAccess(<<d, gref>>, grantee, frame, readonly)
    BY <1>1 DEF HvGrantAccess, OnlyGrant, GrantId
  <2> QED BY <2>1, GrantAccessMem
<1>2. ASSUME \/ \E f \in Frame : HvP2mAllocate(d, f) \/ HvP2mFree(d, f) \/ HvP2mUnpin(d, f)
             \/ \E f \in Frame, level \in Level : HvP2mPin(d, f, level)
             \/ \E l \in LinkState : HvP2mLink(d, l)
             \/ \E l \in links : HvP2mUnlink(d, l)
      PROVE  MemoryInv'
  <2>1. UNCHANGED grantVars
    BY <1>2 DEF HvP2mAllocate, HvP2mFree, HvP2mUnpin, HvP2mPin, HvP2mLink, HvP2mUnlink, OnlyP2m
  <2>2. \/ \E f \in Frame : Allocate(d, f) \/ Release(d, f) \/ Unpin(d, f)
        \/ \E f \in Frame, level \in Level : Pin(d, f, level)
        \/ \E l \in links : Unlink(d, l)
        \/ \E l \in LinkState :
               /\ Link(d, l)
               /\ frames[l.child].owner \notin {d, NoOwner} =>
                      Authorizes(grants, frames[l.child].owner, d, l.child, l.writable)
    BY <1>2 DEF HvP2mAllocate, HvP2mFree, HvP2mUnpin, HvP2mPin, HvP2mLink, HvP2mUnlink
  <2> QED BY <2>1, <2>2, P2mCallMem
<1> QED BY <1>1, <1>2, EndAccessMem, GrantMapMem, GrantUnmapMem DEF MemoryCall

-----------------------------------------------------------------------------
(* Teardown.  Withdrawing permits that no entry leans on.                    *)
LEMMA RevokedRefs ==
    ASSUME NEW fr, NEW L, NEW gr, NEW M, Refs(fr, L, gr, M), GrantOK(gr, M),
           NEW R, NEW gr2, gr2 = Revoked(gr, R),
           \A l \in L, g \in GrantId \cap R :
               ~(/\ g[1] = fr[l.child].owner
                 /\ Permits(gr, g, fr[l.parent].owner, l.writable))
    PROVE  Refs(fr, L, gr2, M)
<1>1. \A g \in GrantId : \/ gr2[g] = gr[g]
                         \/ g \in R /\ gr[g].maps = 0
  BY DEF Revoked
<1>2. \A m \in M : gr2[m.grant].frame = gr[m.grant].frame
  <2> SUFFICES ASSUME NEW m \in M PROVE gr2[m.grant].frame = gr[m.grant].frame
    OBVIOUS
  <2>1. /\ m.grant \in GrantId /\ m \in MapsOver(M, m.grant) /\ IsFiniteSet(M)
        /\ gr[m.grant].maps = Cardinality(MapsOver(M, m.grant))
    BY DEF GrantOK, Mapping, MapsOver
  <2>2. gr[m.grant].maps # 0
    BY <2>1, CountsOfFinite, FS_EmptySet
  <2> QED BY <1>1, <2>1, <2>2
<1>3. Consented(fr, L, gr) /\ \A l \in L : fr[l.child].owner \in Dom
  BY LinkedOwned DEF Refs
<1>4. Consented(fr, L, gr2)
  BY <1>1, <1>3, ConsentStays DEF Permits
<1> QED BY <1>2, <1>4, GrantsChangeKeeps

(* The references are all gone from the frames of t once the mappings over   *)
(* its grants, the entries into and from its frames and its pins are.        *)
LEMMA NoneLeft ==
    ASSUME NEW fr, NEW L, NEW gr, NEW M, Refs(fr, L, gr, M), NEW t,
           \A l \in L : fr[l.child].owner # t /\ fr[l.parent].owner # t,
           \A m \in M : m.grant[1] # t,
           \A f \in Frame : fr[f].owner = t => ~fr[f].pinned
    PROVE  \A f \in Frame : fr[f].owner = t => fr[f].refs = 0
<1> SUFFICES ASSUME NEW f \in Frame, fr[f].owner = t PROVE fr[f].refs = 0
  OBVIOUS
<1>1. Into(L, f) = {} /\ From(L, f) = {}
  BY DEF Into, From
<1>2. MapsOverFrame(gr, M, f) = {}
  BY DEF MapsOverFrame, Refs, MapsOwned
<1>3. PinOf(fr[f]) = 0
  BY DEF PinOf, One
<1>4. FrameAccounted(fr[f], L, gr, M, f)
  BY DEF Refs, RefsExact
<1> QED BY <1>1, <1>2, <1>3, <1>4, FS_EmptySet DEF FrameAccounted

\* What is left of memory when t is gone: its frames are free, every other
\* keeps its owner, pin and level; mappings, permits and entries that involve
\* t are gone, all others stay.
TornDown(t) ==
    /\ \A f \in Frame : IF frames[f].owner = t THEN frames'[f] = FreeFrame
                        ELSE /\ frames'[f].owner = frames[f].owner
                             /\ frames'[f].pinned = frames[f].pinned
                             /\ frames'[f].pt_level = frames[f].pt_level
    /\ links' = {l \in links : frames[l.parent].owner # t /\ frames[l.child].owner # t}
    /\ maps' = {m \in maps : m.grant[1] # t /\ m.grantee # t}
    /\ \A g \in GrantId : grants'[g].live => g[1] # t /\ grants[g].grantee # t
    /\ \A g \in GrantId : (g[1] # t /\ grants[g].grantee # t) => grants'[g] = grants[g]

(* The frames, half-way: everything but the permits.                         *)
LEMMA TeardownFrames ==
    ASSUME MemoryInv, NEW t \in Dom, TeardownMemory(t)
    PROVE  /\ Refs(frames', links', grants, maps')
           /\ \A f \in Frame : IF frames[f].owner = t THEN frames'[f] = FreeFrame
                               ELSE /\ frames'[f].owner = frames[f].owner
                                    /\ frames'[f].pinned = frames[f].pinned
                                    /\ frames'[f].pt_level = frames[f].pt_level
           /\ links' = {l \in links : frames[l.parent].owner # t /\ frames[l.child].owner # t}
           /\ maps' = {m \in maps : m.grant[1] # t /\ m.grantee # t}
<1> DEFINE foreign == ForeignOver(maps, t)
           fr1     == AfterPutMaps(frames, grants, foreign)
           inward  == LinksInto(fr1, links, t)
           fr2     == Unlinked(fr1, inward)
           own     == HeldBy(maps \ foreign, t)
           fr3     == AfterPutMaps(fr2, grants, own)
           outward == LinksFrom(fr3, links \ inward, t)
           fr4     == Unlinked(fr3, outward)
           pins    == PinnedBy(fr4, t)
           fr5     == Unpinned(fr4, pins)
           M3      == (maps \ foreign) \ own
           L4      == (links \ inward) \ outward
<1>1. /\ maps' = maps \ (foreign \cup own) /\ links' = links \ (inward \cup outward)
      /\ frames' = AfterFreeAll(fr5, t)
  BY DEF TeardownMemory
<1>2. /\ foreign \in SUBSET maps /\ inward \in SUBSET links
      /\ own \in SUBSET (maps \ foreign) /\ outward \in SUBSET (links \ inward)
      /\ pins \in SUBSET Frame /\ \A f \in pins : fr4[f].pinned
  BY DEF ForeignOver, LinksInto, HeldBy, LinksFrom, PinnedBy
<1>3. \A m : m \in foreign \/ m \in own <=> m \in maps /\ (m.grant[1] = t \/ m.grantee = t)
  BY DEF ForeignOver, HeldBy
<1>4. /\ \A l : l \in inward <=> /\ l \in links /\ fr1[l.child].owner = t
                                 /\ fr1[l.parent].owner \notin {t, NoOwner}
      /\ \A l : l \in outward <=> /\ l \in links /\ l \notin inward /\ fr3[l.parent].owner = t
      /\ \A f \in Frame : f \in pins <=> fr4[f].owner = t /\ fr4[f].pinned
  BY DEF LinksInto, LinksFrom, PinnedBy
<1>5. fr1 = AfterPutMaps(frames, grants, foreign) /\ fr2 = Unlinked(fr1, inward)
      /\ fr3 = AfterPutMaps(fr2, grants, own) /\ fr4 = Unlinked(fr3, outward)
      /\ fr5 = Unpinned(fr4, pins)
  OBVIOUS
<1>6. /\ M3 = (maps \ foreign) \ own /\ L4 = (links \ inward) \ outward
      /\ maps' = M3 /\ links' = L4
  BY <1>1
<1> HIDE DEF foreign, fr1, inward, fr2, own, fr3, outward, fr4, pins, fr5, M3, L4
<1>7. Refs(frames, links, grants, maps)
  BY DEF MemoryInv
<1>8. /\ Refs(fr1, links, grants, maps \ foreign)
      /\ \A f \in Frame : /\ fr1[f].owner = frames[f].owner /\ fr1[f].pinned = frames[f].pinned
                          /\ fr1[f].pt_level = frames[f].pt_level
  BY ONLY <1>2, <1>5, <1>7, PutMapsKeeps
<1>9. /\ Refs(fr2, links \ inward, grants, maps \ foreign)
      /\ \A f \in Frame : /\ fr2[f].owner = fr1[f].owner /\ fr2[f].pinned = fr1[f].pinned
                          /\ fr2[f].pt_level = fr1[f].pt_level
  BY ONLY <1>2, <1>5, <1>8, UnlinkedKeeps
<1>10. /\ Refs(fr3, links \ inward, grants, M3)
       /\ \A f \in Frame : /\ fr3[f].owner = fr2[f].owner /\ fr3[f].pinned = fr2[f].pinned
                           /\ fr3[f].pt_level = fr2[f].pt_level
  BY ONLY <1>2, <1>5, <1>6, <1>9, PutMapsKeeps
<1>11. /\ Refs(fr4, L4, grants, M3)
       /\ \A f \in Frame : /\ fr4[f].owner = fr3[f].owner /\ fr4[f].pinned = fr3[f].pinned
                           /\ fr4[f].pt_level = fr3[f].pt_level
  BY ONLY <1>2, <1>5, <1>6, <1>10, UnlinkedKeeps
<1>12. /\ Refs(fr5, L4, grants, M3)
       /\ \A f \in Frame : /\ fr5[f].owner = fr4[f].owner /\ fr5[f].pt_level = fr4[f].pt_level
                           /\ f \notin pins => fr5[f] = fr4[f]
                           /\ f \in pins => ~fr5[f].pinned
  BY ONLY <1>2, <1>5, <1>11, UnpinnedKeeps
<1>13. \A f \in Frame :
           /\ fr1[f].owner = frames[f].owner /\ fr3[f].owner = frames[f].owner
           /\ fr5[f].owner = frames[f].owner /\ fr5[f].pt_level = frames[f].pt_level
           /\ fr5[f].owner = t => ~fr5[f].pinned
           /\ fr5[f].owner # t => fr5[f].pinned = frames[f].pinned
  BY <1>4, <1>8, <1>9, <1>10, <1>11, <1>12
<1>14. \A l \in links : /\ l.child \in Frame /\ l.parent \in Frame
                        /\ frames[l.parent].owner # NoOwner
  <2>1. \A l \in links : l.child \in Frame /\ l.parent \in Frame
    BY <1>7, RefsSome
  <2>2. \A l \in links : frames[l.parent].owner # NoOwner
    BY <1>7, LinkedOwned, DomainsAssumption DEF Dom, NoOwner
  <2> QED BY <2>1, <2>2
<1>15. L4 = {l \in links : frames[l.parent].owner # t /\ frames[l.child].owner # t}
  BY <1>4, <1>6, <1>13, <1>14
<1>16. M3 = {m \in maps : m.grant[1] # t /\ m.grantee # t}
  BY <1>3, <1>6
<1>17. \A f \in Frame : fr5[f].owner = t => fr5[f].refs = 0
  <2>1. \A l \in L4 : fr5[l.child].owner # t /\ fr5[l.parent].owner # t
    BY <1>13, <1>14, <1>15
  <2>2. \A m \in M3 : m.grant[1] # t
    BY <1>16
  <2>3. \A f \in Frame : fr5[f].owner = t => ~fr5[f].pinned
    BY <1>13
  <2> QED BY ONLY <1>12, <2>1, <2>2, <2>3, NoneLeft
<1> DEFINE S == {f \in Frame : fr5[f].owner = t}
<1>18. frames' = [f \in Frame |-> IF f \in S THEN Fresh(NoOwner) ELSE fr5[f]]
  BY <1>1, <1>17, FreshFields DEF AfterFreeAll
<1>19. Refs(frames', L4, grants, M3)
  <2>1. S \in SUBSET Frame /\ (\A f \in S : fr5[f].refs = 0) /\ NoOwner \in Dom \cup {NoOwner}
    BY <1>17
  <2> HIDE DEF S
  <2> QED BY ONLY <1>12, <1>18, <2>1, HandOverKeeps
<1>20. \A f \in Frame : IF frames[f].owner = t THEN frames'[f] = FreeFrame
                        ELSE /\ frames'[f].owner = frames[f].owner
                             /\ frames'[f].pinned = frames[f].pinned
                             /\ frames'[f].pt_level = frames[f].pt_level
  BY <1>13, <1>18, FreshFields
<1> QED BY <1>6, <1>15, <1>16, <1>19, <1>20

(* A permit that is still mapped in M names a holder other than t, when M    *)
(* holds no mapping of t's or over t's grants: so every permit of t's, or to *)
(* t, is unmapped.                                                           *)
LEMMA UnmappedOfGone ==
    ASSUME NEW gr, NEW M, GrantOK(gr, M), NEW t,
           \A m \in M : m.grant[1] # t /\ m.grantee # t,
           NEW g \in GrantId, gr[g].live, g[1] = t \/ gr[g].grantee = t
    PROVE  gr[g].maps = 0
<1>1. \A m \in M : Permits(gr, m.grant, m.grantee, m.writable)
  BY DEF GrantOK
<1>2. MapsOver(M, g) = {}
  BY <1>1 DEF MapsOver, Permits
<1>3. gr[g].maps = Cardinality(MapsOver(M, g))
  BY DEF GrantOK
<1> QED BY <1>2, <1>3, FS_EmptySet

(* The whole of the memory half of domain_destroy.                           *)
LEMMA TeardownMemoryKeeps ==
    ASSUME MemoryInv, NEW t \in Dom, TeardownMemory(t)
    PROVE  MemoryInv' /\ TornDown(t)
<1> DEFINE gone    == ForeignOver(maps, t) \cup HeldBy(maps \ ForeignOver(maps, t), t)
           gr1     == AfterUnmap(grants, gone)
           permits == Revoked(gr1, OfferedBy(t))
<1>1. /\ grants' = Revoked(permits, OfferedTo(permits, t)) /\ maps' = maps \ gone
  BY DEF TeardownMemory
<1>2. gone \in SUBSET maps /\ \A m \in gone : m.grant[1] = t \/ m.grantee = t
  BY DEF ForeignOver, HeldBy
<1>3. gr1 = AfterUnmap(grants, gone) /\ permits = Revoked(gr1, OfferedBy(t))
  OBVIOUS
<1> HIDE DEF gone, gr1, permits
<1>4. GrantOK(grants, maps)
  BY GrantInvIsOK DEF MemoryInv
<1>5. /\ GrantOK(gr1, maps')
      /\ \A g \in GrantId :
             /\ gr1[g].live = grants[g].live /\ gr1[g].grantee = grants[g].grantee
             /\ gr1[g].frame = grants[g].frame /\ gr1[g].readonly = grants[g].readonly
             /\ MapsOver(gone, g) = {} => gr1[g] = grants[g]
  BY ONLY <1>1, <1>2, <1>3, <1>4, UnmappedOK
<1>6. GrantOK(permits, maps')
  BY ONLY <1>3, <1>5, RevokedOK
<1>7. GrantOK(grants', maps')
  BY ONLY <1>1, <1>6, RevokedOK
<1>8. /\ Refs(frames', links', grants, maps')
      /\ \A f \in Frame : IF frames[f].owner = t THEN frames'[f] = FreeFrame
                          ELSE /\ frames'[f].owner = frames[f].owner
                               /\ frames'[f].pinned = frames[f].pinned
                               /\ frames'[f].pt_level = frames[f].pt_level
      /\ links' = {l \in links : frames[l.parent].owner # t /\ frames[l.child].owner # t}
      /\ maps' = {m \in maps : m.grant[1] # t /\ m.grantee # t}
  BY TeardownFrames
<1>9. \A f \in Frame : frames'[f].owner # t
  <2>1. FreeFrame.owner = NoOwner /\ NoOwner # t
    BY DomainsAssumption DEF FreeFrame, NoOwner, Dom
  <2> QED BY <1>8, <2>1
<1>10. \A l \in links' : frames'[l.child].owner # t /\ frames'[l.parent].owner # t
  <2>1. \A l \in links' : l.child \in Frame /\ l.parent \in Frame
    BY <1>8, RefsSome
  <2> QED BY <1>9, <2>1
<1>11. Refs(frames', links', gr1, maps')
  <2>1. maps' \subseteq Mapping
    BY <1>7 DEF GrantOK
  <2> QED BY ONLY <1>5, <1>8, <2>1, PermitsStand
<1>12. Refs(frames', links', permits, maps')
  <2>1. \A l \in links', g \in GrantId \cap OfferedBy(t) :
            ~(/\ g[1] = frames'[l.child].owner
              /\ Permits(gr1, g, frames'[l.parent].owner, l.writable))
    BY <1>10 DEF OfferedBy
  <2> QED BY ONLY <1>3, <1>5, <1>11, <2>1, RevokedRefs
<1>13. Refs(frames', links', grants', maps')
  <2>1. \A l \in links', g \in GrantId \cap OfferedTo(permits, t) :
            ~(/\ g[1] = frames'[l.child].owner
              /\ Permits(permits, g, frames'[l.parent].owner, l.writable))
    BY <1>10 DEF OfferedTo, Permits
  <2> QED BY ONLY <1>1, <1>6, <1>12, <2>1, RevokedRefs
<1>14. MemoryInv'
  BY <1>7, <1>13, GrantInvIsOK DEF MemoryInv
<1>15. \A m \in maps' : m.grant[1] # t /\ m.grantee # t
  BY <1>8
<1>16. ~FreeGrant.live
  BY DEF FreeGrant
<1>17. ASSUME NEW g \in GrantId, grants'[g].live
       PROVE  g[1] # t /\ grants[g].grantee # t
  <2>1. /\ permits[g] = IF g \in OfferedBy(t) /\ gr1[g].live /\ gr1[g].maps = 0
                        THEN FreeGrant ELSE gr1[g]
        /\ grants'[g] = IF g \in OfferedTo(permits, t) /\ permits[g].live /\ permits[g].maps = 0
                        THEN FreeGrant ELSE permits[g]
    BY <1>1, <1>3 DEF Revoked
  <2>2. grants'[g] = permits[g] /\ permits[g] = gr1[g] /\ gr1[g].live
    BY <1>16, <1>17, <2>1
  <2>3. g[1] = t => gr1[g].maps = 0
    BY <1>5, <1>15, <2>2, UnmappedOfGone
  <2>4. permits[g].grantee = t => permits[g].maps = 0
    BY <1>6, <1>15, <2>2, UnmappedOfGone
  <2>5. g[1] # t
    BY <1>16, <2>1, <2>2, <2>3 DEF OfferedBy
  <2>6. permits[g].grantee # t
    BY <1>16, <2>1, <2>2, <2>4 DEF OfferedTo
  <2> QED BY <1>5, <2>2, <2>5, <2>6
<1>18. ASSUME NEW g \in GrantId, g[1] # t, grants[g].grantee # t
       PROVE  grants'[g] = grants[g]
  <2>1. MapsOver(gone, g) = {}
    <3>1. \A m \in gone : Permits(grants, m.grant, m.grantee, m.writable)
      BY <1>2, <1>4 DEF GrantOK
    <3> QED BY <1>2, <1>18, <3>1 DEF MapsOver, Permits
  <2>2. gr1[g] = grants[g]
    BY <1>5, <2>1
  <2>3. permits[g] = gr1[g]
    BY <1>3, <1>18 DEF Revoked, OfferedBy
  <2>4. grants'[g] = permits[g]
    BY <1>1, <1>18, <2>2, <2>3 DEF Revoked, OfferedTo
  <2> QED BY <2>2, <2>3, <2>4
<1> QED BY <1>8, <1>14, <1>17, <1>18 DEF TornDown

\* What a transition may do to memory: nothing, one call of grant.rs or p2m.rs
\* behind the seam, or a teardown.
MemoryStep ==
    \/ UNCHANGED <<grantVars, p2mVars>>
    \/ \E d \in Dom : MemoryCall(d)
    \/ \E t \in Dom : TeardownMemory(t)

(* Every transition of the hypervisor is one of the three.                   *)
LEMMA MemoryShape ==
    ASSUME [HvNext]_vars
    PROVE  MemoryStep
<1>1. CASE UNCHANGED vars
  BY <1>1 DEF vars, MemoryStep
<1>2. ASSUME NEW d \in Dom, CreditCall(d)
      PROVE  UNCHANGED <<grantVars, p2mVars>>
  BY <1>2 DEF CreditCall, HvCreditGrant, HvCreditSpend, OnlyCredit
<1>3. ASSUME NEW d \in Dom, EventCall(d)
      PROVE  UNCHANGED <<grantVars, p2mVars>>
  BY <1>3 DEF EventCall, HvEvtchnClose, HvEvtchnSend, HvEvtchnConsume, HvEvtchnMask,
              HvEvtchnUnmask, HvEvtchnAllocUnbound, HvEvtchnBindInterdomain,
              HvEvtchnBindIpi, HvEvtchnBindVirq, OnlyEvtchn, OnlyEvents
<1>4. ASSUME NEW d \in Dom, SchedCall(d)
      PROVE  UNCHANGED <<grantVars, p2mVars>>
  BY <1>4 DEF SchedCall, HvSchedAdmit, HvSchedWake, HvSchedPreempt, HvSchedBlock,
              HvSchedOffline, HvSchedRun, HvSchedSetAffinity, OnlySched
<1>5. ASSUME NEW d \in Dom, DomainCall(d)
      PROVE  UNCHANGED <<grantVars, p2mVars>> \/ \E t \in Dom : TeardownMemory(t)
  BY <1>5 DEF DomainCall, HvDomainCreate, HvDomainDestroy, HvControlGrant, HvControlRevoke,
              HvDeviceAssign, HvDeviceRelease, OnlyAuth, OnlyDevice
<1>6. ASSUME NEW d \in Dom, NEW p \in Port, NEW vcpu \in Vcpu, NEW virq \in Virq,
             HvRaiseVcpuVirq(d, p, vcpu, virq)
      PROVE  UNCHANGED <<grantVars, p2mVars>>
  BY <1>6 DEF HvRaiseVcpuVirq, OnlyEvents
<1> QED BY <1>1, <1>2, <1>3, <1>4, <1>5, <1>6 DEF HvNext, MemoryStep

(* Every transition preserves the invariant.                                 *)
LEMMA HvStepMemoryInv ==
    ASSUME MemoryInv, [HvNext]_vars
    PROVE  MemoryInv'
<1>1. CASE UNCHANGED <<grantVars, p2mVars>>
  <2>1. GrantInv'
    BY <1>1, GrantStepInv DEF MemoryInv
  <2>2. grants' = grants /\ maps' = maps /\ frames' = frames /\ links' = links
    BY <1>1 DEF grantVars, p2mVars
  <2> QED BY <2>1, <2>2 DEF MemoryInv
<1> QED BY <1>1, MemoryShape, MemoryCallKeeps, TeardownMemoryKeeps DEF MemoryStep

(* The invariant of the memory behind the seam.                              *)
LEMMA HvMemoryInv == HvSpec => []MemoryInv
<1>1. HvInit => MemoryInv
  BY MemoryInitInv
<1> QED BY <1>1, HvStepMemoryInv, PTL DEF HvSpec

(* A frame's counts are the page-table entries, the pin and the grant        *)
(* mappings over it, kind by kind: for every order of links, pins, mappings  *)
(* and teardowns, and every width of the counters.                           *)
THEOREM ReferencesAlwaysAccounted == HvSpec => []HvRefsAccounted
  BY HvMemoryInv, MemoryInvAccounts, PTL

(* No frame is ever writable and a page table, or writable and executable,   *)
(* and the tables the hardware walks are levelled, hence without a cycle.    *)
THEOREM PageTypesAlwaysSound == HvSpec => []PageTypesSound
  BY HvMemoryInv, MemoryInvPageTypes, PTL

(* The frame behind a mapped grant is its grantor's, also when the permit    *)
(* was issued under an earlier ownership.                                    *)
THEOREM MappedFramesAlwaysOwned == HvSpec => []GrantMapsOwned
  BY HvMemoryInv, MemoryInvOwners, PTL

(* The grant tables stay sound behind the seam: a mapping whose page          *)
(* reference is refused is undone in the same call, and a teardown drains     *)
(* and revokes in one step.                                                  *)
THEOREM GrantsAlwaysSound == HvSpec => []GrantSound
<1>1. MemoryInv => GrantSound
  BY DEF MemoryInv, GrantInv
<1> QED BY <1>1, HvMemoryInv, PTL

(* An entry of one domain's table onto another's frame is covered by a live  *)
(* grant of the present owner.                                               *)
THEOREM ForeignLinksAlwaysAuthorized == HvSpec => []ForeignLinksAuthorized
  BY HvMemoryInv, MemoryInvOwners, PTL

-----------------------------------------------------------------------------
(* A dead slot is empty.  Said the other way round, everything that is in    *)
(* use belongs to, and names, Live domains only.                             *)
PortsLive ==
    \A c \in PortId :
        /\ ports[c].state # Free => IsLive(c[1])
        /\ ports[c].state.kind = "Unbound" => IsLive(ports[c].state.remote)
VcpusLive   == \A x \in VcpuId : runstate[x] # Offline => IsLive(x[1])
PermitsLive == \A g \in GrantId : grants[g].live => IsLive(g[1]) /\ IsLive(grants[g].grantee)
FramesLive  == \A f \in Frame : frames[f].owner # NoOwner => IsLive(frames[f].owner)
DevicesLive == \A dev \in Dev : holder[dev] # NoHolder => IsLive(holder[dev])

\* The inductive invariant of the whole hypervisor.
HvInv ==
    /\ SchedInv /\ EvtchnInv /\ MemoryInv /\ AuthInv /\ CreditInv /\ DeviceTypeOK
    /\ PortsLive /\ VcpusLive /\ PermitsLive /\ FramesLive /\ DevicesLive

\* Nobody dies in this step.
NobodyDies == \A d \in Dom : IsLive(d) => IsLive(d)'

(* A half-open port is Unbound to the domain it names.                       *)
LEMMA UnboundRemote ==
    /\ \A r \in Dom : Unbound(r).kind = "Unbound" /\ Unbound(r).remote = r
    /\ \A s \in PortState : s.kind = "Unbound" => s.remote \in Dom /\ s = Unbound(s.remote)
    /\ Free.kind # "Unbound"
<1>1. \A r \in Dom : Unbound(r).kind = "Unbound" /\ Unbound(r).remote = r
  BY DEF Unbound, Free
<1>2. /\ \A c \in PortId : Interdomain(c).kind # "Unbound"
      /\ \A v \in Vcpu, q \in Virq : VirqPort(v, q).kind # "Unbound"
      /\ \A v \in Vcpu : IpiPort(v).kind # "Unbound"
      /\ Free.kind # "Unbound"
  BY PortStateFacts DEF IsInterdomain
<1>3. ASSUME NEW s \in PortState, s.kind = "Unbound"
      PROVE  s.remote \in Dom /\ s = Unbound(s.remote)
  <2>1. PICK r \in Dom : s = Unbound(r)
    BY <1>2, <1>3 DEF PortState
  <2> QED BY <1>1, <2>1
<1> QED BY <1>1, <1>2, <1>3

(* The invariant says that a dead slot is empty, and that every subsystem    *)
(* has its type.                                                             *)
LEMMA HvInvSays ==
    ASSUME HvInv
    PROVE  DeadSlotEmpty /\ HvTypeOK
<1>1. HvTypeOK
  BY MemoryInvTypes DEF HvInv, HvTypeOK, SchedInv, EvtchnInv, AuthInv, CreditInv
<1>2. ASSUME NEW d \in Dom, ~IsLive(d)
      PROVE  /\ \A p \in Port : ports[<<d, p>>].state = Free
             /\ \A v \in Vcpu : runstate[<<d, v>>] = Offline
             /\ \A ref \in Gref : ~grants[<<d, ref>>].live
             /\ \A m \in maps : m.grantee # d
             /\ \A f \in Frame : frames[f].owner # d
  <2>1. /\ \A p \in Port : <<d, p>> \in PortId
        /\ \A v \in Vcpu : <<d, v>> \in VcpuId
        /\ \A ref \in Gref : <<d, ref>> \in GrantId
    BY DEF PortId, VcpuId, GrantId
  <2>2. \A p \in Port : ports[<<d, p>>].state = Free
    BY <1>2, <2>1 DEF HvInv, PortsLive
  <2>3. \A v \in Vcpu : runstate[<<d, v>>] = Offline
    BY <1>2, <2>1 DEF HvInv, VcpusLive
  <2>4. \A ref \in Gref : ~grants[<<d, ref>>].live
    BY <1>2, <2>1 DEF HvInv, PermitsLive
  <2>5. \A m \in maps : m.grantee # d
    BY <1>2 DEF HvInv, PermitsLive, MemoryInv, GrantInv, GrantTypeOK, GrantSound, MapsBacked,
                Permits, Mapping
  <2>6. \A f \in Frame : frames[f].owner # d
    <3>1. d # NoOwner
      BY DomainsAssumption DEF Dom, NoOwner
    <3> QED BY <1>2, <3>1 DEF HvInv, FramesLive
  <2> QED BY <2>2, <2>3, <2>4, <2>5, <2>6
<1>3. ASSUME NEW d \in Dom, ~IsLive(d)
      PROVE  OfferedTo(grants, d) = {} /\ ~AnyUnboundInto(ports, d) /\ ~AnyDeviceOf(d)
  <2>1. OfferedTo(grants, d) = {}
    BY <1>3 DEF HvInv, PermitsLive, OfferedTo
  <2>2. ~AnyUnboundInto(ports, d)
    BY <1>3, UnboundRemote DEF HvInv, PortsLive, AnyUnboundInto
  <2>3. ~AnyDeviceOf(d)
    <3>1. d # NoHolder
      BY DomainsAssumption DEF Dom, NoHolder
    <3> QED BY <1>3, <3>1 DEF HvInv, DevicesLive, AnyDeviceOf
  <2> QED BY <2>1, <2>2, <2>3
<1> QED BY <1>1, <1>2, <1>3 DEF DeadSlotEmpty, DeadClean, DeadUnreferenced

(* new() establishes it: everything is free.                                 *)
LEMMA HvInitInv ==
    ASSUME HvInit
    PROVE  HvInv
<1>1. SchedInv /\ EvtchnInv /\ MemoryInv /\ AuthInv
  BY SchedInitInv, EvtchnInitInv, MemoryInitInv, AuthInitInv DEF HvInit
<1>2. CreditInv /\ DeviceTypeOK
  BY CreditAssumption DEF HvInit, CreditInit, CreditInv, CreditTypeOK, CreditConserved, Account,
                          DeviceInit, DeviceTypeOK
<1>3. PortsLive
  BY PortStateFacts, QuietFacts DEF HvInit, EvtchnInit, PortsLive
<1>4. VcpusLive
  BY DEF HvInit, SchedInit, VcpusLive
<1>5. PermitsLive
  BY DEF HvInit, GrantInit, PermitsLive, FreeGrant
<1>6. FramesLive
  BY DEF HvInit, P2mInit, FramesLive, FreeFrame
<1>7. DevicesLive
  BY DEF HvInit, DeviceInit, DevicesLive
<1> QED BY <1>1, <1>2, <1>3, <1>4, <1>5, <1>6, <1>7 DEF HvInv

(* Every transition is a teardown, or nobody dies.                           *)
LEMMA LifeStep ==
    ASSUME AuthInv, [HvNext]_vars
    PROVE  \/ NobodyDies
           \/ \E d, t \in Dom, now \in Ticks : HvDomainDestroy(d, t, now)
<1>1. ASSUME UNCHANGED authVars PROVE NobodyDies
  BY <1>1 DEF authVars, NobodyDies, IsLive
<1>2. ASSUME NEW d \in Dom, NEW t \in Dom, NEW mc \in BOOLEAN, HvDomainCreate(d, t, mc)
      PROVE  NobodyDies
  BY <1>2 DEF HvDomainCreate, CreateDomain, NobodyDies, IsLive, AuthInv, AuthTypeOK
<1>3. CASE UNCHANGED vars
  BY <1>1, <1>3 DEF vars
<1>4. ASSUME NEW d \in Dom, CreditCall(d) \/ EventCall(d)
      PROVE  UNCHANGED authVars
  BY <1>4 DEF CreditCall, HvCreditGrant, HvCreditSpend, OnlyCredit,
              EventCall, HvEvtchnClose, HvEvtchnSend, HvEvtchnConsume, HvEvtchnMask,
              HvEvtchnUnmask, HvEvtchnAllocUnbound, HvEvtchnBindInterdomain, HvEvtchnBindIpi,
              HvEvtchnBindVirq, OnlyEvtchn, OnlyEvents
<1>5. ASSUME NEW d \in Dom, SchedCall(d)
      PROVE  UNCHANGED authVars
  BY <1>5 DEF SchedCall, HvSchedAdmit, HvSchedWake, HvSchedPreempt, HvSchedBlock,
              HvSchedOffline, HvSchedRun, HvSchedSetAffinity, OnlySched
<1>6. ASSUME NEW d \in Dom, MemoryCall(d)
      PROVE  UNCHANGED authVars
  BY <1>6 DEF MemoryCall, HvGrantEndAccess, HvGrantAccess, HvGrantMap, HvGrantUnmap,
              HvP2mAllocate, HvP2mFree, HvP2mUnpin, HvP2mPin, HvP2mLink, HvP2mUnlink,
              OnlyGrant, OnlyMemory, OnlyP2m
<1>7. ASSUME NEW d \in Dom, DomainCall(d)
      PROVE  NobodyDies \/ \E t \in Dom, now \in Ticks : HvDomainDestroy(d, t, now)
  <2>1. ASSUME NEW t \in Dom,
               \/ \E other \in Dom : HvControlGrant(d, t, other) \/ HvControlRevoke(d, t, other)
               \/ \E dev \in Dev : HvDeviceAssign(d, dev, t) \/ HvDeviceRelease(d, dev, t)
        PROVE  NobodyDies
    BY <2>1 DEF HvControlGrant, HvControlRevoke, HvDeviceAssign, HvDeviceRelease,
                DelegateControl, RevokeControl, OnlyDevice, authVars, NobodyDies, IsLive
  <2> QED BY <1>2, <1>7, <2>1 DEF DomainCall
<1>8. ASSUME NEW d \in Dom, NEW p \in Port, NEW vcpu \in Vcpu, NEW virq \in Virq,
             HvRaiseVcpuVirq(d, p, vcpu, virq)
      PROVE  UNCHANGED authVars
  BY <1>8 DEF HvRaiseVcpuVirq, OnlyEvents
<1> QED BY <1>1, <1>3, <1>4, <1>5, <1>6, <1>7, <1>8 DEF HvNext

\* The teardown of some domain.
SomeoneDies == \E d, t \in Dom, now \in Ticks : HvDomainDestroy(d, t, now)

(* A call opens ports of Live callers only, awaiting Live domains only; a    *)
(* peer that close leaves half-open was in use, and awaits the closer.       *)
LEMMA EventCallLive ==
    ASSUME EvtchnInv, PortsLive, NobodyDies, NEW d \in Dom, EventCall(d)
    PROVE  PortsLive'
<1>0. /\ ports \in [PortId -> EventChannel]
      /\ \A c \in PortId : c[1] \in Dom /\ ports[c].state \in PortState
  BY DEF EvtchnInv, EvtchnTypeOK, EventChannel, PortId
<1>1. IsLive(d)
  BY DEF EventCall, HvEvtchnClose, HvEvtchnSend, HvEvtchnConsume, HvEvtchnMask,
         HvEvtchnUnmask, HvEvtchnAllocUnbound, HvEvtchnBindInterdomain, HvEvtchnBindIpi,
         HvEvtchnBindVirq
<1>2. ASSUME \A c \in PortId :
                 \/ ports'[c].state = ports[c].state \/ ports'[c].state = Free
                 \/ /\ IsLive(c[1])
                    /\ \/ ports'[c].state.kind # "Unbound"
                       \/ \E r \in Dom : IsLive(r) /\ ports'[c].state = Unbound(r)
      PROVE  PortsLive'
  <2> SUFFICES ASSUME NEW c \in PortId
               PROVE  /\ ports'[c].state # Free => life'[c[1]] = "Live"
                      /\ ports'[c].state.kind = "Unbound"
                             => life'[ports'[c].state.remote] = "Live"
    BY DEF PortsLive, IsLive
  <2>1. CASE ports'[c].state = ports[c].state
    BY <1>0, <2>1, UnboundRemote DEF PortsLive, NobodyDies, IsLive
  <2>2. CASE ports'[c].state = Free
    BY <2>2, UnboundRemote
  <2>3. CASE /\ IsLive(c[1])
             /\ \/ ports'[c].state.kind # "Unbound"
                \/ \E r \in Dom : IsLive(r) /\ ports'[c].state = Unbound(r)
    BY <1>0, <2>3, UnboundRemote DEF NobodyDies, IsLive
  <2> QED BY <1>2, <2>1, <2>2, <2>3
<1>3. PICK p \in Port :
         \/ HvEvtchnClose(d, p) \/ HvEvtchnSend(d, p) \/ HvEvtchnConsume(d, p)
         \/ HvEvtchnMask(d, p) \/ HvEvtchnUnmask(d, p)
         \/ \E remote \in Dom : HvEvtchnAllocUnbound(d, p, remote)
         \/ \E peer \in PortId : HvEvtchnBindInterdomain(d, p, peer)
         \/ \E vcpu \in Vcpu : HvEvtchnBindIpi(d, p, vcpu)
         \/ \E vcpu \in Vcpu, virq \in Virq : HvEvtchnBindVirq(d, p, vcpu, virq)
  BY DEF EventCall
<1> DEFINE c0 == <<d, p>>
<1>4. c0 \in PortId /\ c0[1] = d
  BY DEF PortId
<1> HIDE DEF c0
<1>5. ASSUME NEW s, ports' = [ports EXCEPT ![c0].state = s],
             s.kind # "Unbound" \/ \E r \in Dom : IsLive(r) /\ s = Unbound(r)
      PROVE  PortsLive'
  <2>1. ports'[c0].state = s /\ \A c \in PortId : c # c0 => ports'[c] = ports[c]
    BY <1>0, <1>4, <1>5 DEF EventChannel
  <2>2. \A c \in PortId :
            \/ ports'[c].state = ports[c].state \/ ports'[c].state = Free
            \/ /\ IsLive(c[1])
               /\ \/ ports'[c].state.kind # "Unbound"
                  \/ \E r \in Dom : IsLive(r) /\ ports'[c].state = Unbound(r)
    BY <1>1, <1>4, <1>5, <2>1
  <2> QED BY <1>2, <2>2
<1>6. ASSUME NEW remote \in Dom, HvEvtchnAllocUnbound(d, p, remote)
      PROVE  PortsLive'
  <2>1. IsLive(remote) /\ ports' = [ports EXCEPT ![c0].state = Unbound(remote)]
    BY <1>6 DEF HvEvtchnAllocUnbound, AllocUnbound, c0
  <2> QED BY <1>5, <2>1
<1>7. ASSUME NEW vcpu \in Vcpu, HvEvtchnBindIpi(d, p, vcpu)
      PROVE  PortsLive'
  <2>1. ports' = [ports EXCEPT ![c0].state = IpiPort(vcpu)]
    BY <1>7 DEF HvEvtchnBindIpi, BindIpi, c0
  <2>2. IpiPort(vcpu).kind # "Unbound"
    BY PortStateFacts
  <2> QED BY <1>5, <2>1, <2>2
<1>8. ASSUME NEW vcpu \in Vcpu, NEW virq \in Virq, HvEvtchnBindVirq(d, p, vcpu, virq)
      PROVE  PortsLive'
  <2>1. ports' = [ports EXCEPT ![c0].state = VirqPort(vcpu, virq)]
    BY <1>8 DEF HvEvtchnBindVirq, BindVirq, c0
  <2>2. VirqPort(vcpu, virq).kind # "Unbound"
    BY PortStateFacts
  <2> QED BY <1>5, <2>1, <2>2
<1>9. ASSUME NEW peer \in PortId, HvEvtchnBindInterdomain(d, p, peer)
      PROVE  PortsLive'
  <2>1. /\ ports[peer].state = Unbound(d)
        /\ ports' = [ports EXCEPT ![c0] = Quiet(Interdomain(peer)),
                                  ![peer] = Quiet(Interdomain(c0))]
    BY <1>4, <1>9 DEF HvEvtchnBindInterdomain, BindInterdomain, c0
  <2>2. IsLive(peer[1])
    BY <2>1, UnboundRemote DEF PortsLive
  <2>3. /\ Quiet(Interdomain(peer)).state.kind # "Unbound"
        /\ Quiet(Interdomain(c0)).state.kind # "Unbound"
    BY <1>4, PortStateFacts, QuietFacts DEF IsInterdomain
  <2>4. \A c \in PortId : /\ c \notin {c0, peer} => ports'[c] = ports[c]
                          /\ c \in {c0, peer} =>
                                 ports'[c] \in {Quiet(Interdomain(peer)), Quiet(Interdomain(c0))}
    BY <1>0, <1>4, <2>1
  <2>5. \A c \in PortId :
            \/ ports'[c].state = ports[c].state \/ ports'[c].state = Free
            \/ /\ IsLive(c[1])
               /\ \/ ports'[c].state.kind # "Unbound"
                  \/ \E r \in Dom : IsLive(r) /\ ports'[c].state = Unbound(r)
    BY <1>1, <1>4, <2>2, <2>3, <2>4
  <2> QED BY <1>2, <2>5
<1>10. CASE HvEvtchnClose(d, p)
  <2> DEFINE s == ports[c0].state
  <2>1. \A c \in PortId :
            ports'[c] = IF c = c0 THEN Quiet(Free)
                        ELSE IF IsInterdomain(s) /\ c = PeerOf(s) THEN Quiet(Unbound(d))
                        ELSE ports[c]
    BY <1>4, <1>10 DEF HvEvtchnClose, Close, c0
  <2>2. IsInterdomain(s) => PeerOf(s) \in PortId /\ ports[PeerOf(s)].state = Interdomain(c0)
    BY <1>4 DEF EvtchnInv, PeerReciprocity
  <2>3. IsInterdomain(s) => IsLive(PeerOf(s)[1])
    BY <1>4, <2>2, PortStateFacts DEF PortsLive, IsInterdomain
  <2>4. Quiet(Free).state = Free /\ Quiet(Unbound(d)).state = Unbound(d)
    BY PortStateFacts, QuietFacts
  <2> HIDE DEF s
  <2>5. \A c \in PortId :
            \/ ports'[c].state = ports[c].state \/ ports'[c].state = Free
            \/ /\ IsLive(c[1])
               /\ \/ ports'[c].state.kind # "Unbound"
                  \/ \E r \in Dom : IsLive(r) /\ ports'[c].state = Unbound(r)
    BY <1>1, <2>1, <2>3, <2>4
  <2> QED BY <1>2, <2>5
<1>11. ASSUME \/ HvEvtchnSend(d, p) \/ HvEvtchnConsume(d, p)
              \/ HvEvtchnMask(d, p) \/ HvEvtchnUnmask(d, p)
       PROVE  PortsLive'
  <2>1. PICK e : \/ ports' = [ports EXCEPT ![e].pending = TRUE]
                 \/ ports' = [ports EXCEPT ![e].pending = FALSE]
                 \/ ports' = [ports EXCEPT ![e].masked = TRUE]
                 \/ ports' = [ports EXCEPT ![e].masked = FALSE]
    BY <1>11 DEF HvEvtchnSend, HvEvtchnConsume, HvEvtchnMask, HvEvtchnUnmask, Send, Consume,
                 SetMasked
  <2>2. \A c \in PortId : ports'[c].state = ports[c].state
    BY <1>0, <2>1 DEF EventChannel
  <2> QED BY <1>2, <2>2
<1> QED BY <1>3, <1>6, <1>7, <1>8, <1>9, <1>10, <1>11

(* The whole dispatch: other calls leave the ports alone, and a raised VIRQ  *)
(* changes no state.                                                         *)
LEMMA PortsStayLive ==
    ASSUME EvtchnInv, PortsLive, NobodyDies, [HvNext]_vars
    PROVE  PortsLive' \/ SomeoneDies
<1>0. /\ ports \in [PortId -> EventChannel]
      /\ \A c \in PortId : c[1] \in Dom /\ ports[c].state \in PortState
  BY DEF EvtchnInv, EvtchnTypeOK, EventChannel, PortId
<1>1. ASSUME \A c \in PortId : ports'[c].state = ports[c].state
      PROVE  PortsLive'
  <2> SUFFICES ASSUME NEW c \in PortId
               PROVE  /\ ports'[c].state # Free => life'[c[1]] = "Live"
                      /\ ports'[c].state.kind = "Unbound"
                             => life'[ports'[c].state.remote] = "Live"
    BY DEF PortsLive, IsLive
  <2> QED BY <1>0, <1>1, UnboundRemote DEF PortsLive, NobodyDies, IsLive
<1>2. CASE UNCHANGED vars
  BY <1>1, <1>2 DEF vars
<1>3. ASSUME NEW d \in Dom, CreditCall(d) \/ SchedCall(d) \/ MemoryCall(d)
      PROVE  UNCHANGED ports
  <2>1. CASE CreditCall(d)
    BY <2>1 DEF CreditCall, HvCreditGrant, HvCreditSpend, OnlyCredit
  <2>2. CASE SchedCall(d)
    BY <2>2 DEF SchedCall, HvSchedAdmit, HvSchedWake, HvSchedPreempt, HvSchedBlock,
                HvSchedOffline, HvSchedRun, HvSchedSetAffinity, OnlySched
  <2>3. CASE MemoryCall(d)
    BY <2>3 DEF MemoryCall, HvGrantEndAccess, HvGrantAccess, HvGrantMap, HvGrantUnmap,
                HvP2mAllocate, HvP2mFree, HvP2mUnpin, HvP2mPin, HvP2mLink, HvP2mUnlink,
                OnlyGrant, OnlyMemory, OnlyP2m
  <2> QED BY <1>3, <2>1, <2>2, <2>3
<1>4. ASSUME NEW d \in Dom, DomainCall(d)
      PROVE  UNCHANGED ports \/ SomeoneDies
  BY <1>4 DEF DomainCall, HvDomainCreate, HvControlGrant, HvControlRevoke,
              HvDeviceAssign, HvDeviceRelease, OnlyAuth, OnlyDevice, SomeoneDies
<1>5. ASSUME NEW d \in Dom, NEW p \in Port, NEW vcpu \in Vcpu, NEW virq \in Virq,
             HvRaiseVcpuVirq(d, p, vcpu, virq)
      PROVE  PortsLive'
  <2>1. \A c \in PortId : ports'[c].state = ports[c].state
    BY <1>0, <1>5 DEF HvRaiseVcpuVirq, RaiseVirq, EventChannel
  <2> QED BY <1>1, <2>1
<1> QED BY <1>1, <1>2, <1>3, <1>4, <1>5, EventCallLive DEF HvNext

(* Only admit takes a vCPU out of Offline, and it takes the caller's own.    *)
LEMMA VcpusStayLive ==
    ASSUME SchedInv, VcpusLive, NobodyDies, [HvNext]_vars
    PROVE  VcpusLive' \/ SomeoneDies
<1>0. /\ runstate \in [VcpuId -> RunState] /\ \A x \in VcpuId : x[1] \in Dom
      /\ Runnable # Offline /\ Blocked # Offline
  BY DEF SchedInv, SchedTypeOK, VcpuId, Runnable, Offline, Blocked
<1>1. ASSUME \A x \in VcpuId : runstate'[x] # Offline => runstate[x] # Offline \/ IsLive(x[1])
      PROVE  VcpusLive'
  BY <1>0, <1>1 DEF VcpusLive, NobodyDies
<1>2. ASSUME UNCHANGED schedVars PROVE VcpusLive'
  BY <1>1, <1>2 DEF schedVars
<1>3. ASSUME NEW c, WakeIfDeliverable(c) PROVE VcpusLive'
  <2>1. CASE UNCHANGED schedVars
    BY <1>2, <2>1
  <2>2. ASSUME NEW x, x \in VcpuId, runstate[x] = Blocked, Wake(x) PROVE VcpusLive'
    <3>1. \A y \in VcpuId : runstate'[y] # Offline => runstate[y] # Offline
      BY <1>0, <2>2 DEF Wake
    <3> QED BY <1>1, <3>1
  <2> QED BY <1>3, <2>1, <2>2 DEF WakeIfDeliverable
<1>4. ASSUME NEW d \in Dom, SchedCall(d) PROVE VcpusLive'
  <2>1. PICK vcpu \in Vcpu :
           \/ HvSchedAdmit(d, vcpu) \/ HvSchedWake(d, vcpu)
           \/ \E now \in Ticks :
                  \/ HvSchedPreempt(d, vcpu, now) \/ HvSchedBlock(d, vcpu, now)
                  \/ HvSchedOffline(d, vcpu, now)
                  \/ \E p \in Pcpu : HvSchedRun(d, vcpu, p, now)
           \/ \E target \in Dom, mask \in SUBSET (0..(MaskWidth - 1)) :
                  HvSchedSetAffinity(d, target, vcpu, mask)
    BY <1>4 DEF SchedCall
  <2>2. CASE \E target \in Dom, mask \in SUBSET (0..(MaskWidth - 1)) :
                 HvSchedSetAffinity(d, target, vcpu, mask)
    <3>1. runstate' = runstate
      BY <2>2 DEF HvSchedSetAffinity, SetAffinity
    <3> QED BY <1>1, <3>1
  <2>3. CASE \/ HvSchedAdmit(d, vcpu) \/ HvSchedWake(d, vcpu)
             \/ \E now \in Ticks :
                    \/ HvSchedPreempt(d, vcpu, now) \/ HvSchedBlock(d, vcpu, now)
                    \/ HvSchedOffline(d, vcpu, now)
                    \/ \E p \in Pcpu : HvSchedRun(d, vcpu, p, now)
    <3>1. IsLive(d) /\ \E s : runstate' = [runstate EXCEPT ![<<d, vcpu>>] = s]
      BY <2>3 DEF HvSchedAdmit, HvSchedWake, HvSchedPreempt, HvSchedBlock, HvSchedOffline,
                  HvSchedRun, Admit, Wake, Preempt, Block, TakeOffline, Run
    <3>2. \A x \in VcpuId : x # <<d, vcpu>> => runstate'[x] = runstate[x]
      BY <1>0, <3>1
    <3> QED BY <1>1, <3>1, <3>2
  <2> QED BY <2>1, <2>2, <2>3
<1>5. ASSUME NEW d \in Dom, CreditCall(d) \/ MemoryCall(d)
      PROVE  UNCHANGED schedVars
  <2>1. CASE CreditCall(d)
    BY <2>1 DEF CreditCall, HvCreditGrant, HvCreditSpend, OnlyCredit
  <2>2. CASE MemoryCall(d)
    BY <2>2 DEF MemoryCall, HvGrantEndAccess, HvGrantAccess, HvGrantMap, HvGrantUnmap,
                HvP2mAllocate, HvP2mFree, HvP2mUnpin, HvP2mPin, HvP2mLink, HvP2mUnlink,
                OnlyGrant, OnlyMemory, OnlyP2m
  <2> QED BY <1>5, <2>1, <2>2
<1>6. ASSUME NEW d \in Dom, EventCall(d)
      PROVE  UNCHANGED schedVars \/ \E c : WakeIfDeliverable(c)
  BY <1>6 DEF EventCall, HvEvtchnClose, HvEvtchnSend, HvEvtchnConsume, HvEvtchnMask,
              HvEvtchnUnmask, HvEvtchnAllocUnbound, HvEvtchnBindInterdomain,
              HvEvtchnBindIpi, HvEvtchnBindVirq, OnlyEvtchn
<1>7. ASSUME NEW d \in Dom, DomainCall(d)
      PROVE  UNCHANGED schedVars \/ SomeoneDies
  BY <1>7 DEF DomainCall, HvDomainCreate, HvControlGrant, HvControlRevoke,
              HvDeviceAssign, HvDeviceRelease, OnlyAuth, OnlyDevice, SomeoneDies
<1>8. ASSUME NEW d \in Dom, NEW p \in Port, NEW vcpu \in Vcpu, NEW virq \in Virq,
             HvRaiseVcpuVirq(d, p, vcpu, virq)
      PROVE  \E c : WakeIfDeliverable(c)
  BY <1>8 DEF HvRaiseVcpuVirq
<1>9. CASE UNCHANGED vars
  BY <1>2, <1>9 DEF vars
<1> QED BY <1>2, <1>3, <1>4, <1>5, <1>6, <1>7, <1>8, <1>9 DEF HvNext

(* A permit is issued by a Live caller to a Live grantee, and a mapping does *)
(* not change the permit it is over.                                         *)
LEMMA MemoryCallPermits ==
    ASSUME MemoryInv, PermitsLive, NobodyDies, NEW d \in Dom, MemoryCall(d)
    PROVE  PermitsLive'
<1>0. /\ grants \in [GrantId -> GrantEntry] /\ GrantOK(grants, maps)
      /\ \A g \in GrantId : g[1] \in Dom /\ (grants[g].live => grants[g].grantee \in Dom)
  <2>1. grants \in [GrantId -> GrantEntry] /\ GrantOK(grants, maps)
    BY GrantInvIsOK DEF MemoryInv, GrantInv, GrantTypeOK
  <2>2. ASSUME NEW g \in GrantId, grants[g].live PROVE grants[g].grantee \in Dom
    <3>1. grants[g] # FreeGrant
      BY <2>2 DEF FreeGrant
    <3> QED BY <2>1, <3>1, LiveFields
  <2> QED BY <2>1, <2>2 DEF GrantId
<1>1. ASSUME \A g \in GrantId :
                 grants'[g].live =>
                     \/ grants[g].live /\ grants'[g].grantee = grants[g].grantee
                     \/ IsLive(g[1]) /\ grants'[g].grantee \in Dom /\ IsLive(grants'[g].grantee)
      PROVE  PermitsLive'
  <2> SUFFICES ASSUME NEW g \in GrantId, grants'[g].live
               PROVE  life'[g[1]] = "Live" /\ life'[grants'[g].grantee] = "Live"
    BY DEF PermitsLive, IsLive
  <2> QED BY <1>0, <1>1 DEF PermitsLive, NobodyDies, IsLive
<1>2. ASSUME NEW gref \in Gref, HvGrantEndAccess(d, gref)
      PROVE  PermitsLive'
  <2>1. grants' = [grants EXCEPT ![<<d, gref>>] = FreeGrant] /\ ~FreeGrant.live
    BY <1>2 DEF HvGrantEndAccess, EndAccess, FreeGrant
  <2>2. \A g \in GrantId : grants'[g] = grants[g] \/ ~grants'[g].live
    BY <1>0, <2>1
  <2> QED BY <1>1, <2>2
<1>3. ASSUME NEW gref \in Gref, NEW grantee \in Dom, NEW frame \in Frame,
             NEW readonly \in BOOLEAN, HvGrantAccess(d, gref, grantee, frame, readonly)
      PROVE  PermitsLive'
  <2>1. /\ grants' = [grants EXCEPT ![<<d, gref>>] = Access(grantee, frame, readonly)]
        /\ IsLive(d) /\ IsLive(grantee) /\ Access(grantee, frame, readonly).grantee = grantee
    BY <1>3 DEF HvGrantAccess, GrantAccess, Access
  <2>2. \A g \in GrantId : grants'[g] = IF g = <<d, gref>> THEN Access(grantee, frame, readonly)
                                                          ELSE grants[g]
    BY <1>0, <2>1
  <2> QED BY <1>1, <2>1, <2>2
<1>4. ASSUME NEW g0 \in GrantId, NEW writable \in BOOLEAN, NEW h \in 0..Cardinality(maps),
             HvGrantMap(d, g0, writable, h)
      PROVE  PermitsLive'
  <2>1. /\ grants[g0].live
        /\ grants' = [grants EXCEPT ![g0].maps = @ + 1, ![g0].writable_maps = @ + One(writable)]
    BY <1>4 DEF HvGrantMap, MapGrant
  <2>2. grants[g0] # FreeGrant
    BY <2>1 DEF FreeGrant
  <2>3. /\ grants'[g0].grantee = grants[g0].grantee
        /\ \A g \in GrantId : g # g0 => grants'[g] = grants[g]
    BY <1>0, <2>1, <2>2, LiveFields
  <2> QED BY <1>1, <2>1, <2>3
<1>5. ASSUME NEW m \in maps, HvGrantUnmap(d, m)
      PROVE  PermitsLive'
  <2>1. {m} \in SUBSET maps /\ grants' = AfterUnmap(grants, {m}) /\ maps' = maps \ {m}
    BY <1>5 DEF HvGrantUnmap, UnmapGrant, Unmap
  <2>2. \A g \in GrantId : /\ grants'[g].live = grants[g].live
                           /\ grants'[g].grantee = grants[g].grantee
    BY <1>0, <2>1, UnmappedOK
  <2> QED BY <1>1, <2>2
<1>6. ASSUME \/ \E f \in Frame : HvP2mAllocate(d, f) \/ HvP2mFree(d, f) \/ HvP2mUnpin(d, f)
             \/ \E f \in Frame, level \in Level : HvP2mPin(d, f, level)
             \/ \E l \in LinkState : HvP2mLink(d, l)
             \/ \E l \in links : HvP2mUnlink(d, l)
      PROVE  PermitsLive'
  <2>1. grants' = grants
    BY <1>6 DEF HvP2mAllocate, HvP2mFree, HvP2mUnpin, HvP2mPin, HvP2mLink, HvP2mUnlink, OnlyP2m,
                grantVars
  <2> QED BY <1>1, <2>1
<1> QED BY <1>2, <1>3, <1>4, <1>5, <1>6 DEF MemoryCall

(* A frame gets an owner only from its own allocate.                         *)
LEMMA MemoryCallFrames ==
    ASSUME MemoryInv, FramesLive, NobodyDies, NEW d \in Dom, MemoryCall(d)
    PROVE  FramesLive'
<1>0. /\ Refs(frames, links, grants, maps) /\ frames \in [Frame -> RawFrame]
      /\ \A f \in Frame : frames[f].owner \in Dom \cup {NoOwner}
  BY RawFields DEF MemoryInv, Refs, Shaped
<1>1. ASSUME \A f \in Frame : \/ frames'[f].owner \in {frames[f].owner, NoOwner}
                              \/ frames'[f].owner = d /\ IsLive(d)
      PROVE  FramesLive'
  <2> SUFFICES ASSUME NEW f \in Frame, frames'[f].owner # NoOwner
               PROVE  life'[frames'[f].owner] = "Live"
    BY DEF FramesLive, IsLive
  <2> QED BY <1>0, <1>1 DEF FramesLive, NobodyDies, IsLive
<1>2. ASSUME \E gref \in Gref :
                 \/ HvGrantEndAccess(d, gref)
                 \/ \E grantee \in Dom, frame \in Frame, readonly \in BOOLEAN :
                        HvGrantAccess(d, gref, grantee, frame, readonly)
      PROVE  FramesLive'
  <2>1. frames' = frames
    BY <1>2 DEF HvGrantEndAccess, HvGrantAccess, OnlyGrant, p2mVars
  <2> QED BY <1>1, <2>1
<1>3. ASSUME NEW g \in GrantId, NEW writable \in BOOLEAN, NEW h \in 0..Cardinality(maps),
             HvGrantMap(d, g, writable, h)
      PROVE  FramesLive'
  <2> DEFINE f0 == grants[g].frame
  <2>1. frames' = AfterGetWritable(frames, f0) \/ frames' = AfterGet(frames, f0)
    BY <1>3 DEF HvGrantMap
  <2> HIDE DEF f0
  <2>2. \A f \in Frame : frames'[f].owner = frames[f].owner
    BY <1>0, <2>1 DEF AfterGetWritable, AfterGet, RawFrame
  <2> QED BY <1>1, <2>2
<1>4. ASSUME NEW m \in maps, HvGrantUnmap(d, m)
      PROVE  FramesLive'
  <2>1. frames' = AfterPutMaps(frames, grants, {m}) /\ {m} \in SUBSET maps
    BY <1>4 DEF HvGrantUnmap
  <2>2. \A f \in Frame : frames'[f].owner = frames[f].owner
    <3> DEFINE gone == {m}
               fr2  == AfterPutMaps(frames, grants, gone)
    <3>1. gone \in SUBSET maps /\ frames' = fr2
      BY <2>1
    <3> HIDE DEF gone
    <3>2. /\ Refs(fr2, links, grants, maps \ gone)
          /\ \A f \in Frame : /\ fr2[f].owner = frames[f].owner
                              /\ fr2[f].pinned = frames[f].pinned
                              /\ fr2[f].pt_level = frames[f].pt_level
      BY ONLY <1>0, <3>1, PutMapsKeeps
    <3> QED BY <3>1, <3>2
  <2> QED BY <1>1, <2>2
<1>5. ASSUME NEW f0 \in Frame, HvP2mAllocate(d, f0)
      PROVE  FramesLive'
  <2>1. IsLive(d) /\ frames' = [frames EXCEPT ![f0] = Fresh(d)] /\ Fresh(d).owner = d
    BY <1>5, FreshFields DEF HvP2mAllocate, Allocate
  <2>2. \A f \in Frame : frames'[f] = IF f = f0 THEN Fresh(d) ELSE frames[f]
    BY <1>0, <2>1
  <2> QED BY <1>1, <2>1, <2>2
<1>6. ASSUME NEW f0 \in Frame, HvP2mFree(d, f0)
      PROVE  FramesLive'
  <2>1. frames' = [frames EXCEPT ![f0] = Fresh(NoOwner)] /\ Fresh(NoOwner).owner = NoOwner
    BY <1>6, FreshFields DEF HvP2mFree, Release
  <2>2. \A f \in Frame : frames'[f] = IF f = f0 THEN Fresh(NoOwner) ELSE frames[f]
    BY <1>0, <2>1
  <2> QED BY <1>1, <2>1, <2>2
<1>7. ASSUME NEW f0 \in Frame, HvP2mUnpin(d, f0)
      PROVE  FramesLive'
  <2>1. /\ frames' = Unpinned(frames, {f0}) /\ {f0} \in SUBSET Frame
        /\ \A f \in {f0} : frames[f].pinned
    BY <1>7 DEF HvP2mUnpin, Unpin
  <2>2. \A f \in Frame : frames'[f].owner = frames[f].owner
    BY <1>0, <2>1, UnpinnedKeeps
  <2> QED BY <1>1, <2>2
<1>8. ASSUME NEW f0 \in Frame, NEW level \in Level, HvP2mPin(d, f0, level)
      PROVE  FramesLive'
  <2> DEFINE fr == AfterGetTable(frames, f0, level)
  <2>1. frames' = [fr EXCEPT ![f0].pinned = TRUE]
    BY <1>8 DEF HvP2mPin, Pin
  <2>2. Took(frames, fr, f0, 0, 0, 1)
    BY <1>0, GetTakes
  <2> HIDE DEF fr
  <2>3. fr \in [Frame -> RawFrame] /\ \A f \in Frame : fr[f].owner = frames[f].owner
    BY <2>2 DEF Took
  <2>4. \A f \in Frame : frames'[f].owner = fr[f].owner
    BY <2>1, <2>3 DEF RawFrame
  <2> QED BY <1>1, <2>3, <2>4
<1>9. ASSUME NEW l \in links, HvP2mUnlink(d, l)
      PROVE  FramesLive'
  <2>1. frames' = Unlinked(frames, {l}) /\ {l} \in SUBSET links
    BY <1>9 DEF HvP2mUnlink, Unlink
  <2>2. \A f \in Frame : frames'[f].owner = frames[f].owner
    BY <1>0, <2>1, UnlinkedKeeps
  <2> QED BY <1>1, <2>2
<1>10. ASSUME NEW l \in LinkState, HvP2mLink(d, l)
       PROVE  FramesLive'
  <2> DEFINE fr == Held(frames, l)
             level == frames[l.parent].pt_level
  <2>1. CanHold(frames, l) /\ frames' = AfterGetTable(fr, l.parent, level)
    BY <1>10 DEF HvP2mLink, Link
  <2>2. l.child \in Frame /\ l.parent \in Frame
    BY DEF LinkState
  <2>3. fr \in [Frame -> RawFrame] /\ \A f \in Frame : fr[f].owner = frames[f].owner
    <3>1. frames[l.child].pagetable_refs \in Nat
      BY <1>0, <2>2, RefsCounts
    <3>2. Took(frames, fr, l.child, IF HoldsWritable(l) THEN 1 ELSE 0,
               IF HoldsExec(l) THEN 1 ELSE 0, IF HoldsTable(l) THEN 1 ELSE 0)
      BY <1>0, <2>1, <3>1, HeldTakes
    <3> HIDE DEF fr
    <3> QED BY <2>2, <3>2 DEF Took
  <2>4. level \in Level
    BY <1>0, <2>2, RawFields
  <2> HIDE DEF fr, level
  <2>5. Took(fr, frames', l.parent, 0, 0, 1)
    BY <2>1, <2>2, <2>3, <2>4, GetTakes
  <2>6. \A f \in Frame : frames'[f].owner = fr[f].owner
    BY <2>2, <2>5 DEF Took
  <2> QED BY <1>1, <2>3, <2>6
<1> QED BY <1>2, <1>3, <1>4, <1>5, <1>6, <1>7, <1>8, <1>9, <1>10 DEF MemoryCall

(* A device is assigned to Live domains only, and has one holder or none.    *)
LEMMA DevicesStayLive ==
    ASSUME DeviceTypeOK, [HvNext]_vars
    PROVE  /\ DeviceTypeOK'
           /\ (DevicesLive /\ NobodyDies => DevicesLive') \/ SomeoneDies
<1>1. ASSUME UNCHANGED holder
      PROVE  DeviceTypeOK' /\ (DevicesLive /\ NobodyDies => DevicesLive')
  <2> SUFFICES ASSUME DevicesLive, NobodyDies, NEW dev \in Dev, holder'[dev] # NoHolder
               PROVE  life'[holder'[dev]] = "Live"
    BY <1>1 DEF DeviceTypeOK, DevicesLive, IsLive
  <2> QED BY <1>1 DEF DeviceTypeOK, DevicesLive, NobodyDies, IsLive
<1>2. ASSUME NEW d \in Dom, NEW t \in Dom, NEW dev0 \in Dev,
             HvDeviceAssign(d, dev0, t) \/ HvDeviceRelease(d, dev0, t)
      PROVE  DeviceTypeOK' /\ (DevicesLive /\ NobodyDies => DevicesLive')
  <2>1. \E o \in {t, NoHolder} : /\ holder' = [holder EXCEPT ![dev0] = o]
                                 /\ o = t => IsLive(t) \/ t = NoHolder
    BY <1>2 DEF HvDeviceAssign, HvDeviceRelease, AssignDevice, ReleaseDevice
  <2>2. t # NoHolder
    BY DomainsAssumption DEF Dom, NoHolder
  <2>3. PICK o \in {t, NoHolder} : /\ holder' = [holder EXCEPT ![dev0] = o]
                                   /\ o = t => IsLive(t)
    BY <2>1, <2>2
  <2>4. /\ DeviceTypeOK'
        /\ \A dev \in Dev : holder'[dev] = IF dev = dev0 THEN o ELSE holder[dev]
    BY <2>3 DEF DeviceTypeOK
  <2> SUFFICES ASSUME DevicesLive, NobodyDies, NEW dev \in Dev, holder'[dev] # NoHolder
               PROVE  life'[holder'[dev]] = "Live"
    BY <2>4 DEF DevicesLive, IsLive
  <2> QED BY <2>3, <2>4 DEF DeviceTypeOK, DevicesLive, NobodyDies, IsLive
<1>3. ASSUME NEW d \in Dom, CreditCall(d) \/ MemoryCall(d) \/ SchedCall(d) \/ EventCall(d)
      PROVE  UNCHANGED holder
  <2>1. CASE CreditCall(d)
    BY <2>1 DEF CreditCall, HvCreditGrant, HvCreditSpend, OnlyCredit
  <2>2. CASE MemoryCall(d)
    BY <2>2 DEF MemoryCall, HvGrantEndAccess, HvGrantAccess, HvGrantMap, HvGrantUnmap,
                HvP2mAllocate, HvP2mFree, HvP2mUnpin, HvP2mPin, HvP2mLink, HvP2mUnlink,
                OnlyGrant, OnlyMemory, OnlyP2m
  <2>3. CASE SchedCall(d)
    BY <2>3 DEF SchedCall, HvSchedAdmit, HvSchedWake, HvSchedPreempt, HvSchedBlock,
                HvSchedOffline, HvSchedRun, HvSchedSetAffinity, OnlySched
  <2>4. CASE EventCall(d)
    BY <2>4 DEF EventCall, HvEvtchnClose, HvEvtchnSend, HvEvtchnConsume, HvEvtchnMask,
                HvEvtchnUnmask, HvEvtchnAllocUnbound, HvEvtchnBindInterdomain,
                HvEvtchnBindIpi, HvEvtchnBindVirq, OnlyEvtchn, OnlyEvents
  <2> QED BY <1>3, <2>1, <2>2, <2>3, <2>4
<1>4. ASSUME NEW d \in Dom, NEW t \in Dom, NEW now \in Ticks, HvDomainDestroy(d, t, now)
      PROVE  DeviceTypeOK' /\ SomeoneDies
  BY <1>4 DEF HvDomainDestroy, ReleaseAllOf, DeviceTypeOK, SomeoneDies
<1>5. ASSUME NEW d \in Dom, DomainCall(d)
      PROVE  \/ UNCHANGED holder
             \/ \E t \in Dom, dev \in Dev : HvDeviceAssign(d, dev, t) \/ HvDeviceRelease(d, dev, t)
             \/ \E t \in Dom, now \in Ticks : HvDomainDestroy(d, t, now)
  BY <1>5 DEF DomainCall, HvDomainCreate, HvControlGrant, HvControlRevoke, OnlyAuth
<1>6. ASSUME NEW d \in Dom, NEW p \in Port, NEW vcpu \in Vcpu, NEW virq \in Virq,
             HvRaiseVcpuVirq(d, p, vcpu, virq)
      PROVE  UNCHANGED holder
  BY <1>6 DEF HvRaiseVcpuVirq, OnlyEvents
<1>7. UNCHANGED vars => UNCHANGED holder
  BY DEF vars
<1> QED BY <1>1, <1>2, <1>3, <1>4, <1>5, <1>6, <1>7 DEF HvNext

(* domain_destroy empties the slot: what the dead domain held goes, and what *)
(* others held for it.                                                       *)
LEMMA TeardownEmpties ==
    ASSUME HvInv, NEW d \in Dom, NEW t \in Dom, NEW now \in Ticks, HvDomainDestroy(d, t, now)
    PROVE  PortsLive' /\ VcpusLive' /\ PermitsLive' /\ FramesLive' /\ DevicesLive'
<1>1. \A k \in Dom : k # t => (IsLive(k) => life'[k] = "Live")
  BY DEF HvDomainDestroy, BuryDomain, HvInv, AuthInv, AuthTypeOK, IsLive
<1>2. PortsLive'
  <2> SUFFICES ASSUME NEW c \in PortId
               PROVE  /\ ports'[c].state # Free => life'[c[1]] = "Live"
                      /\ ports'[c].state.kind = "Unbound"
                             => life'[ports'[c].state.remote] = "Live"
    BY DEF PortsLive, IsLive
  <2>1. ports'[c] = IF c \in Reached(t) \/ ports[c].state = Unbound(t)
                    THEN Quiet(Free) ELSE ports[c]
    BY TeardownPorts DEF HvInv, HvDomainDestroy
  <2>2. Quiet(Free).state = Free /\ Free.kind # "Unbound"
    BY PortStateFacts, QuietFacts
  <2>3. CASE c \in Reached(t) \/ ports[c].state = Unbound(t)
    BY <2>1, <2>2, <2>3
  <2>4. CASE c \notin Reached(t) /\ ports[c].state # Unbound(t)
    <3>1. ports'[c] = ports[c] /\ c[1] \in Dom /\ c[1] # t /\ ports[c].state \in PortState
      BY <2>1, <2>4 DEF Reached, PortId, HvInv, EvtchnInv, EvtchnTypeOK, EventChannel
    <3>2. ports[c].state # Free => IsLive(c[1])
      BY DEF HvInv, PortsLive
    <3>3. ports[c].state.kind = "Unbound" =>
              /\ ports[c].state.remote \in Dom /\ ports[c].state.remote # t
              /\ IsLive(ports[c].state.remote)
      BY <2>4, <3>1, UnboundRemote DEF HvInv, PortsLive
    <3> QED BY <1>1, <3>1, <3>2, <3>3
  <2> QED BY <2>3, <2>4
<1>3. VcpusLive'
  <2> SUFFICES ASSUME NEW x \in VcpuId, runstate'[x] # Offline
               PROVE  life'[x[1]] = "Live"
    BY DEF VcpusLive, IsLive
  <2>1. x[1] \in Dom /\ x[1] # t /\ runstate'[x] = runstate[x]
    BY DEF HvDomainDestroy, OfflineAll, VcpuId
  <2> QED BY <1>1, <2>1 DEF HvInv, VcpusLive
<1>4. TornDown(t)
  BY TeardownMemoryKeeps DEF HvInv, HvDomainDestroy
<1>5. PermitsLive'
  <2> SUFFICES ASSUME NEW g \in GrantId, grants'[g].live
               PROVE  life'[g[1]] = "Live" /\ life'[grants'[g].grantee] = "Live"
    BY DEF PermitsLive, IsLive
  <2>1. g[1] # t /\ grants[g].grantee # t /\ grants'[g] = grants[g]
    BY <1>4 DEF TornDown
  <2>2. g[1] \in Dom /\ grants[g] \in GrantEntry /\ grants[g] # FreeGrant
    BY <2>1 DEF HvInv, MemoryInv, GrantInv, GrantTypeOK, GrantId, FreeGrant
  <2>3. grants[g].grantee \in Dom
    BY <2>2, LiveFields
  <2> QED BY <1>1, <2>1, <2>2, <2>3 DEF HvInv, PermitsLive
<1>6. FramesLive'
  <2> SUFFICES ASSUME NEW f \in Frame, frames'[f].owner # NoOwner
               PROVE  life'[frames'[f].owner] = "Live"
    BY DEF FramesLive, IsLive
  <2>1. frames[f].owner # t /\ frames'[f].owner = frames[f].owner
    <3>1. FreeFrame.owner = NoOwner
      BY DEF FreeFrame
    <3> QED BY <1>4, <3>1 DEF TornDown
  <2>2. frames[f].owner \in Dom
    <3>1. frames[f] \in RawFrame
      BY DEF HvInv, MemoryInv, Refs, Shaped
    <3> QED BY <2>1, <3>1, RawFields
  <2> QED BY <1>1, <2>1, <2>2 DEF HvInv, FramesLive
<1>7. DevicesLive'
  <2> SUFFICES ASSUME NEW dev \in Dev, holder'[dev] # NoHolder
               PROVE  life'[holder'[dev]] = "Live"
    BY DEF DevicesLive, IsLive
  <2>1. holder'[dev] = holder[dev] /\ holder[dev] # t
    BY DEF HvDomainDestroy, ReleaseAllOf
  <2> QED BY <1>1, <2>1 DEF HvInv, DevicesLive, DeviceTypeOK
<1> QED BY <1>2, <1>3, <1>5, <1>6, <1>7

(* Every transition of the hypervisor preserves the invariant.               *)
LEMMA HvStepInv ==
    ASSUME HvInv, [HvNext]_vars
    PROVE  HvInv'
<1>1. SchedInv' /\ EvtchnInv' /\ MemoryInv' /\ AuthInv' /\ CreditInv'
  BY HvStepIsSchedStep, SchedStepInv, HvStepEvtchnInv, HvStepMemoryInv, AuthStep, AuthStepInv,
     CreditStepInv DEF HvInv
<1>2. DeviceTypeOK'
  BY DevicesStayLive DEF HvInv
<1>3. ASSUME SomeoneDies
      PROVE  PortsLive' /\ VcpusLive' /\ PermitsLive' /\ FramesLive' /\ DevicesLive'
  BY <1>3, TeardownEmpties DEF SomeoneDies
<1>4. ASSUME NobodyDies, ~SomeoneDies
      PROVE  PortsLive' /\ VcpusLive' /\ PermitsLive' /\ FramesLive' /\ DevicesLive'
  <2>1. PortsLive' /\ VcpusLive' /\ DevicesLive'
    BY <1>4, PortsStayLive, VcpusStayLive, DevicesStayLive DEF HvInv
  <2>2. ASSUME UNCHANGED <<grantVars, p2mVars>>
        PROVE  PermitsLive' /\ FramesLive'
    <3>1. grants' = grants /\ frames' = frames
      BY <2>2 DEF grantVars, p2mVars
    <3>2. PermitsLive'
      <4> SUFFICES ASSUME NEW g \in GrantId, grants[g].live
                   PROVE  life'[g[1]] = "Live" /\ life'[grants[g].grantee] = "Live"
        BY <3>1 DEF PermitsLive, IsLive
      <4>1. g[1] \in Dom /\ grants[g] \in GrantEntry /\ grants[g] # FreeGrant
        BY DEF HvInv, MemoryInv, GrantInv, GrantTypeOK, GrantId, FreeGrant
      <4>2. grants[g].grantee \in Dom
        BY <4>1, LiveFields
      <4> QED BY <1>4, <4>1, <4>2 DEF HvInv, PermitsLive, NobodyDies, IsLive
    <3>3. FramesLive'
      <4> SUFFICES ASSUME NEW f \in Frame, frames[f].owner # NoOwner
                   PROVE  life'[frames[f].owner] = "Live"
        BY <3>1 DEF FramesLive, IsLive
      <4>1. frames[f] \in RawFrame
        BY DEF HvInv, MemoryInv, Refs, Shaped
      <4>2. frames[f].owner \in Dom
        BY <4>1, RawFields
      <4> QED BY <1>4, <4>2 DEF HvInv, FramesLive, NobodyDies, IsLive
    <3> QED BY <3>2, <3>3
  <2>3. UNCHANGED <<grantVars, p2mVars>> \/ (\E k \in Dom : MemoryCall(k)) \/ SomeoneDies
    <3>1. ASSUME NEW k \in Dom, CreditCall(k) \/ EventCall(k) \/ SchedCall(k)
          PROVE  UNCHANGED <<grantVars, p2mVars>>
      <4>1. CASE CreditCall(k)
        BY <4>1 DEF CreditCall, HvCreditGrant, HvCreditSpend, OnlyCredit
      <4>2. CASE EventCall(k)
        BY <4>2 DEF EventCall, HvEvtchnClose, HvEvtchnSend, HvEvtchnConsume, HvEvtchnMask,
                    HvEvtchnUnmask, HvEvtchnAllocUnbound, HvEvtchnBindInterdomain,
                    HvEvtchnBindIpi, HvEvtchnBindVirq, OnlyEvtchn, OnlyEvents
      <4>3. CASE SchedCall(k)
        BY <4>3 DEF SchedCall, HvSchedAdmit, HvSchedWake, HvSchedPreempt, HvSchedBlock,
                    HvSchedOffline, HvSchedRun, HvSchedSetAffinity, OnlySched
      <4> QED BY <3>1, <4>1, <4>2, <4>3
    <3>2. ASSUME NEW k \in Dom, DomainCall(k)
          PROVE  UNCHANGED <<grantVars, p2mVars>> \/ SomeoneDies
      BY <3>2 DEF DomainCall, HvDomainCreate, HvControlGrant, HvControlRevoke,
                  HvDeviceAssign, HvDeviceRelease, OnlyAuth, OnlyDevice, SomeoneDies
    <3>3. ASSUME NEW k \in Dom, NEW p \in Port, NEW vcpu \in Vcpu, NEW virq \in Virq,
                 HvRaiseVcpuVirq(k, p, vcpu, virq)
          PROVE  UNCHANGED <<grantVars, p2mVars>>
      BY <3>3 DEF HvRaiseVcpuVirq, OnlyEvents
    <3>4. UNCHANGED vars => UNCHANGED <<grantVars, p2mVars>>
      BY DEF vars
    <3> QED BY <3>1, <3>2, <3>3, <3>4 DEF HvNext
  <2>4. PermitsLive' /\ FramesLive'
    BY <1>4, <2>2, <2>3, MemoryCallPermits, MemoryCallFrames DEF HvInv
  <2> QED BY <2>1, <2>4
<1>5. NobodyDies \/ SomeoneDies
  BY LifeStep DEF HvInv, SomeoneDies
<1> QED BY <1>1, <1>2, <1>3, <1>4, <1>5 DEF HvInv

(* The invariant of the whole hypervisor.                                    *)
LEMMA HvInvariant == HvSpec => []HvInv
<1>1. HvInit => HvInv
  BY HvInitInv
<1> QED BY <1>1, HvStepInv, PTL DEF HvSpec

(* Every subsystem's state keeps its type behind the seam: no count wraps    *)
(* past its width and no release finds its reference already gone.           *)
THEOREM HvTypeCorrect == HvSpec => []HvTypeOK
  BY HvInvariant, HvInvSays, PTL

(* A dead slot is empty and unnamed, whoever destroyed whom with whatever in *)
(* flight: no port, permit, mapping, frame or device is left over in it.     *)
THEOREM DeadSlotAlwaysEmpty == HvSpec => []DeadSlotEmpty
  BY HvInvariant, HvInvSays, PTL

(* A teardown leaves every channel that does not lead to the dead domain as  *)
(* it was: what close_all and clear_unbound_into reach names it as remote.   *)
LEMMA TeardownPortsConfined ==
    ASSUME EvtchnInv, NEW t \in Dom,
           ports' = AfterClearUnboundInto(AfterCloseAll(ports, t), t),
           NEW c \in PortId, c[1] # t, ports[c].state.remote # t
    PROVE  ports'[c] = ports[c]
<1>1. ports[c].state # Unbound(t)
  BY UnboundRemote
<1>2. ~Linked(t, c)
  <2>1. SUFFICES ASSUME NEW p \in Port, IsInterdomain(ports[<<t, p>>].state),
                        PeerOf(ports[<<t, p>>].state) = c
                 PROVE  FALSE
    BY DEF Linked
  <2>2. <<t, p>> \in PortId /\ <<t, p>>[1] = t
    BY DEF PortId
  <2>3. ports[c].state = Interdomain(<<t, p>>)
    BY <2>1, <2>2 DEF EvtchnInv, PeerReciprocity
  <2>4. ports[c].state.remote = t
    BY <2>2, <2>3, PortStateFacts
  <2> QED BY <2>4
<1>3. c \notin Reached(t)
  BY <1>2 DEF Reached
<1> QED BY <1>1, <1>3, TeardownPorts

(* Every transition keeps the survivors' state: it is a teardown, of the one *)
(* domain that dies, or nobody dies in it.                                   *)
LEMMA HvStepConfined ==
    ASSUME HvInv, [HvNext]_vars
    PROVE  TeardownKept
<1> SUFFICES ASSUME NEW t \in Dom, IsLive(t), life'[t] # "Live"
             PROVE
        /\ \A x \in VcpuId : x[1] # t => runstate'[x] = runstate[x] /\ affinity'[x] = affinity[x]
        /\ \A c \in PortId : (c[1] # t /\ ports[c].state.remote # t) => ports'[c] = ports[c]
        /\ \A f \in Frame : frames[f].owner # t =>
              /\ frames'[f].owner = frames[f].owner
              /\ frames'[f].pinned = frames[f].pinned
              /\ IsTable(frames, f) /\ IsTable(frames', f)
                    => frames'[f].pt_level = frames[f].pt_level
        /\ \A g \in GrantId : (g[1] # t /\ grants[g].grantee # t) => grants'[g] = grants[g]
        /\ \A m \in maps : (m.grant[1] # t /\ m.grantee # t) => m \in maps'
        /\ \A l \in links : t \notin {frames[l.parent].owner, frames[l.child].owner} => l \in links'
        /\ \A d \in Dom \ {t} : life'[d] = life[d] /\ may_create'[d] = may_create[d]
  BY DEF TeardownKept, IsLive
<1>1. ~NobodyDies
  BY DEF NobodyDies, IsLive
<1>2. PICK d, u \in Dom, now \in Ticks : HvDomainDestroy(d, u, now)
  BY <1>1, LifeStep DEF HvInv
<1>3. u = t
  BY <1>2 DEF HvDomainDestroy, BuryDomain, HvInv, AuthInv, AuthTypeOK, IsLive
<1>4. /\ ports' = AfterClearUnboundInto(AfterCloseAll(ports, t), t)
      /\ OfflineAll(t, now) /\ TeardownMemory(t) /\ BuryDomain(t)
  BY <1>2, <1>3 DEF HvDomainDestroy
<1>5. TornDown(t)
  BY <1>4, TeardownMemoryKeeps DEF HvInv
<1>6. \A x \in VcpuId : x[1] # t => runstate'[x] = runstate[x] /\ affinity'[x] = affinity[x]
  BY <1>4 DEF OfflineAll
<1>7. \A c \in PortId : (c[1] # t /\ ports[c].state.remote # t) => ports'[c] = ports[c]
  BY <1>4, TeardownPortsConfined DEF HvInv
<1>8. \A k \in Dom \ {t} : life'[k] = life[k] /\ may_create'[k] = may_create[k]
  BY <1>4 DEF BuryDomain, HvInv, AuthInv, AuthTypeOK
<1> QED BY <1>5, <1>6, <1>7, <1>8 DEF TornDown

(* When a domain dies, every other domain keeps what did not involve the     *)
(* dead one, whatever was shared, mapped or linked at that moment.           *)
THEOREM TeardownAlwaysConfined == HvSpec => TeardownConfined
<1>1. HvInv /\ [HvNext]_vars => [TeardownKept]_vars
  BY HvStepConfined
<1> QED BY <1>1, HvInvariant, PTL DEF HvSpec, TeardownConfined

-----------------------------------------------------------------------------
(* Local respect.  What a observes falls into four parts; a call by a domain *)
(* that a gave no channel to leaves each of them as it was.                  *)

\* b has no channel to a, and may destroy no domain whose frame a's permits
\* name.
Stranger(b, a) == ~Authorized(b, a) /\ ~TeardownOfGranted(b, a)

\* The domain's life, credit, ports, vCPUs and devices.
SelfKept(a) ==
    /\ life'[a] = life[a] /\ credit'[a] = credit[a]
    /\ \A p \in Port : ports'[<<a, p>>] = ports[<<a, p>>]
    /\ \A v \in Vcpu : /\ runstate'[<<a, v>>] = runstate[<<a, v>>]
                       /\ affinity'[<<a, v>>] = affinity[<<a, v>>]
    /\ \A dev \in Dev : holder'[dev] = a <=> holder[dev] = a
\* Its permits with their counts, and the mappings it holds.
GrantsKept(a) ==
    /\ \A ref \in Gref : grants'[<<a, ref>>] = grants[<<a, ref>>]
    /\ HeldBy(maps', a) = HeldBy(maps, a)
\* Its frames, field by field.
FramesKept(a) ==
    \A f \in Frame :
        /\ frames'[f].owner = a <=> frames[f].owner = a
        /\ frames[f].owner = a =>
               /\ frames'[f].refs = frames[f].refs
               /\ frames'[f].writable_refs = frames[f].writable_refs
               /\ frames'[f].executable_refs = frames[f].executable_refs
               /\ frames'[f].pagetable_refs = frames[f].pagetable_refs
               /\ frames'[f].pt_level = frames[f].pt_level
               /\ frames'[f].pinned = frames[f].pinned
\* Its page-table entries, and those its permits' grantees have on the frames.
Named(fr, L, f, d) ==
    \E l \in L : l.child = f /\ fr[l.parent].owner = d /\ fr[f].owner \notin {d, NoOwner}
LinksKept(a) ==
    /\ LinksFrom(frames', links', a) = LinksFrom(frames, links, a)
    /\ \A ref \in Gref :
           LET e == grants[<<a, ref>>]
           IN  e.live => (Named(frames', links', e.frame, e.grantee)
                              <=> Named(frames, links, e.frame, e.grantee))

(* Together they are the whole view.                                         *)
LEMMA ViewKept ==
    ASSUME NEW a \in Dom, SelfKept(a), GrantsKept(a), FramesKept(a), LinksKept(a)
    PROVE  Obs(a)' = Obs(a)
<1>1. IsLive(a)' = IsLive(a)
  BY DEF SelfKept, IsLive
<1>2. [p \in Port |-> ports[<<a, p>>]]' = [p \in Port |-> ports[<<a, p>>]]
  BY DEF SelfKept
<1>3. ASSUME NEW ref \in Gref
      PROVE  RowView(<<a, ref>>)' = RowView(<<a, ref>>)
  <2> DEFINE g == <<a, ref>>
  <2>1. grants'[g] = grants[g]
    BY DEF GrantsKept
  <2>2. grants[g].live =>
            (Named(frames', links', grants[g].frame, grants[g].grantee)
                <=> Named(frames, links, grants[g].frame, grants[g].grantee))
    BY DEF LinksKept
  <2>3. (grants[g].live /\ ForeignLinkedBy(grants[g].frame, grants[g].grantee))'
            <=> grants[g].live /\ ForeignLinkedBy(grants[g].frame, grants[g].grantee)
    BY <2>1, <2>2 DEF ForeignLinkedBy, Named
  <2> QED BY <2>1, <2>3 DEF RowView
<1>4. [ref \in Gref |-> RowView(<<a, ref>>)]' = [ref \in Gref |-> RowView(<<a, ref>>)]
  BY <1>3
<1>5. HeldBy(maps, a)' = HeldBy(maps, a)
  BY DEF GrantsKept, HeldBy
<1>6. [v \in Vcpu |-> <<runstate[<<a, v>>], affinity[<<a, v>>]>>]'
          = [v \in Vcpu |-> <<runstate[<<a, v>>], affinity[<<a, v>>]>>]
  BY DEF SelfKept
<1>7. FramesOf(a)' = FramesOf(a)
  BY DEF FramesKept, FramesOf
<1>8. ASSUME NEW f \in FramesOf(a)
      PROVE  FrameView(f)' = FrameView(f)
  <2>1. f \in Frame /\ frames[f].owner = a
    BY DEF FramesOf
  <2>2. /\ frames'[f].refs = frames[f].refs
        /\ frames'[f].writable_refs = frames[f].writable_refs
        /\ frames'[f].executable_refs = frames[f].executable_refs
        /\ frames'[f].pagetable_refs = frames[f].pagetable_refs
        /\ frames'[f].pt_level = frames[f].pt_level
        /\ frames'[f].pinned = frames[f].pinned
    BY <2>1 DEF FramesKept
  <2>3. IsTable(frames, f)' <=> IsTable(frames, f)
    BY <2>2 DEF IsTable
  <2> QED BY <2>2, <2>3 DEF FrameView
<1>9. [f \in FramesOf(a) |-> FrameView(f)]' = [f \in FramesOf(a) |-> FrameView(f)]
  BY <1>7, <1>8
<1>10. LinksFrom(frames, links, a)' = LinksFrom(frames, links, a)
  BY DEF LinksKept, LinksFrom
<1>11. {dev \in Dev : holder[dev] = a}' = {dev \in Dev : holder[dev] = a}
  BY DEF SelfKept
<1>12. credit[a].balance' = credit[a].balance
  BY DEF SelfKept
<1> DEFINE Record(live, balance, p, r, h, v, f, e, d) ==
               [live |-> live, balance |-> balance, ports |-> p, rows |-> r, held |-> h,
                vcpus |-> v, frames |-> f, edges |-> e, devices |-> d]
<1>13. Obs(a) = Record(IsLive(a), credit[a].balance, [p \in Port |-> ports[<<a, p>>]],
                       [ref \in Gref |-> RowView(<<a, ref>>)], HeldBy(maps, a),
                       [v \in Vcpu |-> <<runstate[<<a, v>>], affinity[<<a, v>>]>>],
                       [f \in FramesOf(a) |-> FrameView(f)], LinksFrom(frames, links, a),
                       {dev \in Dev : holder[dev] = a})
  BY DEF Obs
<1>14. Obs(a)' = Record(IsLive(a)', credit[a].balance', [p \in Port |-> ports[<<a, p>>]]',
                        [ref \in Gref |-> RowView(<<a, ref>>)]', HeldBy(maps, a)',
                        [v \in Vcpu |-> <<runstate[<<a, v>>], affinity[<<a, v>>]>>]',
                        [f \in FramesOf(a) |-> FrameView(f)]', LinksFrom(frames, links, a)',
                        {dev \in Dev : holder[dev] = a}')
  BY DEF Obs
<1> HIDE DEF Record
<1> QED BY <1>1, <1>2, <1>4, <1>5, <1>6, <1>9, <1>10, <1>11, <1>12, <1>13, <1>14

(* What it is to be a stranger: none of the channels, and for every domain t *)
(* that b may destroy, a is not t and has no tie to t.                       *)
LEMMA StrangerSays ==
    ASSUME NEW a \in Dom, NEW b \in Dom, Stranger(b, a)
    PROVE  /\ b # a /\ ~GrantsTo(a, b) /\ ~PortToward(a, b) /\ ~Controls(b, a)
           /\ may_create[b] => IsLive(a)
           /\ \A t \in Dom : MayActOn(b, t) =>
                  /\ t # a /\ ~GrantsTo(a, t) /\ ~PortToward(a, t) /\ ~BorrowsFrom(a, t)
                  /\ \A ref \in Gref :
                         grants[<<a, ref>>].live => frames[grants[<<a, ref>>].frame].owner # t
  BY DEF Stranger, Authorized, TeardownReach, TeardownBorrow, TeardownOfGranted, MayActOn

(* Calls that stay out of memory, and calls that stay in it.                 *)
LEMMA MemoryUntouched ==
    ASSUME NEW a \in Dom, UNCHANGED <<grantVars, p2mVars>>
    PROVE  GrantsKept(a) /\ FramesKept(a) /\ LinksKept(a)
  BY DEF grantVars, p2mVars, GrantsKept, FramesKept, LinksKept
LEMMA SelfUntouched ==
    ASSUME NEW a \in Dom, UNCHANGED <<schedVars, ports, authVars, holder, credit>>
    PROVE  SelfKept(a)
  BY DEF schedVars, authVars, SelfKept

(* CreditGrant, CreditSpend: the caller's own account.                       *)
LEMMA CreditCallRespects ==
    ASSUME HvInv, NEW a \in Dom, NEW b \in Dom, Stranger(b, a), CreditCall(b)
    PROVE  Obs(a)' = Obs(a)
<1>1. UNCHANGED <<schedVars, ports, grantVars, p2mVars, authVars, holder>>
  BY DEF CreditCall, HvCreditGrant, HvCreditSpend, OnlyCredit
<1>2. credit'[a] = credit[a]
  <2>1. b # a /\ credit \in [Dom -> Account]
    BY StrangerSays DEF HvInv, CreditInv, CreditTypeOK
  <2>2. \E v : credit' = [credit EXCEPT ![b] = v]
    BY DEF CreditCall, HvCreditGrant, HvCreditSpend, GrantCredit, SpendCredit
  <2> QED BY <2>1, <2>2
<1>3. SelfKept(a)
  BY <1>1, <1>2 DEF SelfKept, schedVars, authVars
<1> QED BY <1>1, <1>3, MemoryUntouched, ViewKept

(* The vCPUs of a, when only those of another domain change.                 *)
LEMMA CpusApart ==
    ASSUME SchedInv, NEW a \in Dom, NEW x \in VcpuId, x[1] # a,
           \/ UNCHANGED schedVars \/ Wake(x) \/ Admit(x)
           \/ \E now : Preempt(x, now) \/ Block(x, now) \/ TakeOffline(x, now)
           \/ \E p, now : Run(x, p, now)
           \/ \E mask : SetAffinity(x, mask)
    PROVE  \A v \in Vcpu : /\ runstate'[<<a, v>>] = runstate[<<a, v>>]
                           /\ affinity'[<<a, v>>] = affinity[<<a, v>>]
<1> SUFFICES ASSUME NEW v \in Vcpu
             PROVE  /\ runstate'[<<a, v>>] = runstate[<<a, v>>]
                    /\ affinity'[<<a, v>>] = affinity[<<a, v>>]
  OBVIOUS
<1>1. <<a, v>> \in VcpuId /\ <<a, v>> # x
  BY DEF VcpuId
<1>2. DOMAIN runstate = VcpuId /\ DOMAIN affinity = VcpuId
  BY DEF SchedInv, SchedTypeOK
<1>3. /\ runstate' = runstate \/ \E s : runstate' = [runstate EXCEPT ![x] = s]
      /\ affinity' = affinity \/ \E s : affinity' = [affinity EXCEPT ![x] = s]
  BY DEF schedVars, Wake, Admit, Preempt, Block, TakeOffline, Run, SetAffinity
<1> QED BY <1>1, <1>2, <1>3

(* Scheduler calls: the caller's own vCPUs, or for the affinity those of a   *)
(* domain it controls.                                                       *)
LEMMA SchedCallRespects ==
    ASSUME HvInv, NEW a \in Dom, NEW b \in Dom, Stranger(b, a), SchedCall(b)
    PROVE  Obs(a)' = Obs(a)
<1>1. UNCHANGED <<ports, grantVars, p2mVars, authVars, holder, credit>>
  BY DEF SchedCall, HvSchedAdmit, HvSchedWake, HvSchedPreempt, HvSchedBlock, HvSchedOffline,
         HvSchedRun, HvSchedSetAffinity, OnlySched
<1>2. \E x \in VcpuId :
          /\ x[1] # a
          /\ \/ Wake(x) \/ Admit(x)
             \/ \E now : Preempt(x, now) \/ Block(x, now) \/ TakeOffline(x, now)
             \/ \E p, now : Run(x, p, now)
             \/ \E mask : SetAffinity(x, mask)
  <2>1. \A d \in Dom, v \in Vcpu : <<d, v>> \in VcpuId /\ <<d, v>>[1] = d
    BY DEF VcpuId
  <2>2. b # a /\ \A t \in Dom : MayActOn(b, t) => t # a
    BY StrangerSays
  <2> QED BY <2>1, <2>2 DEF SchedCall, HvSchedAdmit, HvSchedWake, HvSchedPreempt, HvSchedBlock,
         HvSchedOffline, HvSchedRun, HvSchedSetAffinity
<1>3. SelfKept(a)
  BY <1>1, <1>2, CpusApart DEF SelfKept, authVars, HvInv
<1> QED BY <1>1, <1>3, MemoryUntouched, ViewKept

(* A channel of b's does not lead to a: a would hold the other end.          *)
LEMMA PeerNotStranger ==
    ASSUME EvtchnInv, NEW a \in Dom, NEW b \in Dom, ~PortToward(a, b), NEW p \in Port,
           IsInterdomain(ports[<<b, p>>].state)
    PROVE  PeerOf(ports[<<b, p>>].state) \in PortId /\ PeerOf(ports[<<b, p>>].state)[1] # a
<1> DEFINE c == PeerOf(ports[<<b, p>>].state)
<1>1. <<b, p>> \in PortId /\ <<b, p>>[1] = b
  BY DEF PortId
<1>2. c \in PortId /\ ports[c].state = Interdomain(<<b, p>>)
  BY <1>1 DEF EvtchnInv, PeerReciprocity
<1> HIDE DEF c
<1>3. ports[c].state.kind = "Interdomain" /\ ports[c].state.remote = b
  BY <1>1, <1>2, PortStateFacts DEF IsInterdomain
<1>4. c[2] \in Port /\ c = <<c[1], c[2]>>
  BY <1>2 DEF PortId
<1>5. c[1] # a
  BY <1>3, <1>4 DEF PortToward
<1> QED BY <1>2, <1>5 DEF c

(* A wake-up reaches the port's own domain only.                             *)
LEMMA WakeApart ==
    ASSUME SchedInv, NEW a \in Dom, NEW c \in PortId, c[1] # a, WakeIfDeliverable(c)
    PROVE  \A v \in Vcpu : /\ runstate'[<<a, v>>] = runstate[<<a, v>>]
                           /\ affinity'[<<a, v>>] = affinity[<<a, v>>]
<1> DEFINE x == <<c[1], NotifyTarget(ports', c)>>
<1>1. UNCHANGED schedVars \/ (x \in VcpuId /\ Wake(x))
  BY DEF WakeIfDeliverable
<1>2. x[1] = c[1]
  OBVIOUS
<1> HIDE DEF x
<1>3. CASE UNCHANGED schedVars
  BY <1>3 DEF schedVars
<1>4. CASE x \in VcpuId /\ Wake(x)
  BY <1>2, <1>4, CpusApart
<1> QED BY <1>1, <1>3, <1>4

(* Event calls: the caller's own ports, and the far ends of its channels.    *)
LEMMA EventCallRespects ==
    ASSUME HvInv, NEW a \in Dom, NEW b \in Dom, Stranger(b, a), EventCall(b)
    PROVE  Obs(a)' = Obs(a)
<1>1. UNCHANGED <<grantVars, p2mVars, authVars, holder, credit>>
  BY DEF EventCall, HvEvtchnClose, HvEvtchnSend, HvEvtchnConsume, HvEvtchnMask,
         HvEvtchnUnmask, HvEvtchnAllocUnbound, HvEvtchnBindInterdomain, HvEvtchnBindIpi,
         HvEvtchnBindVirq, OnlyEvtchn, OnlyEvents
<1>2. b # a /\ ~PortToward(a, b) /\ EvtchnInv /\ SchedInv
  BY StrangerSays DEF HvInv
<1>3. DOMAIN ports = PortId
  BY <1>2 DEF EvtchnInv, EvtchnTypeOK
<1>4. \A q \in Port : <<a, q>> \in PortId /\ <<b, q>> \in PortId /\ <<a, q>>[1] = a
                      /\ <<b, q>>[1] = b
  BY DEF PortId
<1>5. PICK p \in Port :
          \/ HvEvtchnClose(b, p) \/ HvEvtchnSend(b, p) \/ HvEvtchnConsume(b, p)
          \/ HvEvtchnMask(b, p) \/ HvEvtchnUnmask(b, p)
          \/ \E remote \in Dom : HvEvtchnAllocUnbound(b, p, remote)
          \/ \E peer \in PortId : HvEvtchnBindInterdomain(b, p, peer)
          \/ \E vcpu \in Vcpu : HvEvtchnBindIpi(b, p, vcpu)
          \/ \E vcpu \in Vcpu, virq \in Virq : HvEvtchnBindVirq(b, p, vcpu, virq)
  BY DEF EventCall
<1> DEFINE c == <<b, p>>
<1>6. c \in PortId /\ c[1] = b
  BY <1>4
<1>7. SendTarget(c) \in PortId /\ SendTarget(c)[1] # a
  BY <1>2, <1>6, PeerNotStranger DEF SendTarget
<1>8. \A q \in Port : ports'[<<a, q>>] = ports[<<a, q>>]
  <2> SUFFICES ASSUME NEW q \in Port
               PROVE  ports'[<<a, q>>] = ports[<<a, q>>]
    OBVIOUS
  <2> DEFINE e == <<a, q>>
  <2>1. e \in PortId /\ e # c /\ e # SendTarget(c)
    BY <1>2, <1>4, <1>6, <1>7
  <2>2. CASE HvEvtchnClose(b, p)
    <3>1. IsInterdomain(ports[c].state) => e # PeerOf(ports[c].state)
      BY <2>1 DEF SendTarget
    <3> QED BY <2>1, <2>2, <3>1 DEF HvEvtchnClose, Close
  <2>3. CASE HvEvtchnSend(b, p)
    <3>1. \E r : ports' = [ports EXCEPT ![SendTarget(c)] = r]
      BY <2>3 DEF HvEvtchnSend, Send
    <3> QED BY <1>3, <2>1, <3>1
  <2>4. ASSUME NEW peer \in PortId, HvEvtchnBindInterdomain(b, p, peer)
        PROVE  ports'[e] = ports[e]
    <3>1. /\ ports[peer].state = Unbound(b)
          /\ ports' = [ports EXCEPT ![c] = Quiet(Interdomain(peer)),
                                    ![peer] = Quiet(Interdomain(c))]
      BY <1>6, <2>4 DEF HvEvtchnBindInterdomain, BindInterdomain
    <3>2. e # peer
      BY <1>2, <3>1, UnboundRemote DEF PortToward
    <3> QED BY <1>3, <2>1, <3>1, <3>2
  <2>5. ASSUME \/ HvEvtchnConsume(b, p) \/ HvEvtchnMask(b, p) \/ HvEvtchnUnmask(b, p)
               \/ \E remote \in Dom : HvEvtchnAllocUnbound(b, p, remote)
               \/ \E vcpu \in Vcpu : HvEvtchnBindIpi(b, p, vcpu)
               \/ \E vcpu \in Vcpu, virq \in Virq : HvEvtchnBindVirq(b, p, vcpu, virq)
        PROVE  ports'[e] = ports[e]
    <3>1. \E r : ports' = [ports EXCEPT ![c] = r]
      BY <2>5 DEF HvEvtchnConsume, HvEvtchnMask, HvEvtchnUnmask, HvEvtchnAllocUnbound,
                  HvEvtchnBindIpi, HvEvtchnBindVirq, Consume, SetMasked, AllocUnbound, BindIpi,
                  BindVirq
    <3> QED BY <1>3, <2>1, <3>1
  <2> QED BY <1>5, <2>2, <2>3, <2>4, <2>5
<1>9. \A v \in Vcpu : /\ runstate'[<<a, v>>] = runstate[<<a, v>>]
                      /\ affinity'[<<a, v>>] = affinity[<<a, v>>]
  <2>1. CASE HvEvtchnSend(b, p)
    BY <1>2, <1>7, <2>1, WakeApart DEF HvEvtchnSend
  <2>2. CASE HvEvtchnUnmask(b, p)
    BY <1>2, <1>6, <2>2, WakeApart DEF HvEvtchnUnmask
  <2>3. CASE UNCHANGED schedVars
    BY <2>3 DEF schedVars
  <2> QED BY <1>5, <2>1, <2>2, <2>3
          DEF HvEvtchnClose, HvEvtchnConsume, HvEvtchnMask, HvEvtchnAllocUnbound,
              HvEvtchnBindInterdomain, HvEvtchnBindIpi, HvEvtchnBindVirq, OnlyEvtchn
<1>10. SelfKept(a)
  BY <1>1, <1>8, <1>9 DEF SelfKept, authVars
<1> QED BY <1>1, <1>10, MemoryUntouched, ViewKept

(* A virtual interrupt the hypervisor raises in b stays in b.                *)
LEMMA RaisedVirqRespects ==
    ASSUME HvInv, NEW a \in Dom, NEW b \in Dom, b # a, NEW p \in Port, NEW vcpu \in Vcpu,
           NEW virq \in Virq, HvRaiseVcpuVirq(b, p, vcpu, virq)
    PROVE  Obs(a)' = Obs(a)
<1>1. UNCHANGED <<grantVars, p2mVars, authVars, holder, credit>>
  BY DEF HvRaiseVcpuVirq, OnlyEvents
<1>2. DOMAIN ports = PortId /\ SchedInv
  BY DEF HvInv, EvtchnInv, EvtchnTypeOK
<1>3. <<b, p>> \in PortId /\ <<b, p>>[1] # a
  BY DEF PortId
<1>4. \A q \in Port : ports'[<<a, q>>] = ports[<<a, q>>]
  <2>1. \A q \in Port : <<a, q>> \in PortId /\ <<a, q>> # <<b, p>>
    BY DEF PortId
  <2>2. \E r : ports' = [ports EXCEPT ![<<b, p>>] = r]
    BY DEF HvRaiseVcpuVirq, RaiseVirq
  <2> QED BY <1>2, <2>1, <2>2
<1>5. \A v \in Vcpu : /\ runstate'[<<a, v>>] = runstate[<<a, v>>]
                      /\ affinity'[<<a, v>>] = affinity[<<a, v>>]
  BY <1>2, <1>3, WakeApart DEF HvRaiseVcpuVirq
<1>6. SelfKept(a)
  BY <1>1, <1>4, <1>5 DEF SelfKept, authVars
<1> QED BY <1>1, <1>6, MemoryUntouched, ViewKept

(* What the memory invariant keeps from a stranger: no permit of a names b,  *)
(* no mapping of b is over a's grant or a's frame, and no entry of b's       *)
(* tables names a frame of a.                                                *)
LEMMA MemoryApart ==
    ASSUME MemoryInv, NEW a \in Dom, NEW b \in Dom, b # a, ~GrantsTo(a, b)
    PROVE  /\ \A g \in GrantId : (grants[g].live /\ grants[g].grantee = b) => g[1] # a
           /\ \A m \in maps : m.grantee = b =>
                  m.grant[1] # a /\ frames[grants[m.grant].frame].owner # a
           /\ \A l \in links : frames[l.parent].owner = b => frames[l.child].owner # a
<1>1. /\ MapsBacked /\ maps \subseteq Mapping
      /\ MapsOwned(frames, grants, maps) /\ Consented(frames, links, grants)
  BY DEF MemoryInv, GrantInv, GrantSound, GrantTypeOK, Refs
<1>2. \A g \in GrantId : (grants[g].live /\ grants[g].grantee = b) => g[1] # a
  <2> SUFFICES ASSUME NEW g \in GrantId, grants[g].live, grants[g].grantee = b, g[1] = a
               PROVE  FALSE
    OBVIOUS
  <2>1. g[2] \in Gref /\ g = <<a, g[2]>>
    BY DEF GrantId
  <2> QED BY <2>1 DEF GrantsTo
<1>3. \A m \in maps : m.grantee = b =>
          m.grant[1] # a /\ frames[grants[m.grant].frame].owner # a
  <2> SUFFICES ASSUME NEW m \in maps, m.grantee = b
               PROVE  m.grant[1] # a /\ frames[grants[m.grant].frame].owner # a
    OBVIOUS
  <2>1. m.grant \in GrantId /\ grants[m.grant].live /\ grants[m.grant].grantee = b
    BY <1>1 DEF MapsBacked, Permits, Mapping
  <2>2. frames[grants[m.grant].frame].owner = m.grant[1]
    BY <1>1 DEF MapsOwned
  <2> QED BY <1>2, <2>1, <2>2
<1>4. ASSUME NEW l \in links, frames[l.parent].owner = b, frames[l.child].owner = a
      PROVE  FALSE
  <2>1. Authorizes(grants, a, b, l.child, l.writable)
    BY <1>1, <1>4 DEF Consented
  <2> QED BY <2>1 DEF Authorizes, Permits, GrantsTo
<1> QED BY <1>2, <1>3, <1>4

(* Frames that are not a's, before and after, do not matter to a.            *)
LEMMA FramesAside ==
    ASSUME NEW a \in Dom,
           \A f \in Frame : \/ frames'[f] = frames[f]
                            \/ frames[f].owner # a /\ frames'[f].owner # a
    PROVE  FramesKept(a)
  BY DEF FramesKept

(* Nor do entries that come or go, unless they are in a's tables or those of *)
(* the grantee of a permit of a's for the frame they name.                   *)
LEMMA LinksAside ==
    ASSUME NEW a \in Dom,
           \A l \in links \cap links' : /\ frames'[l.parent].owner = frames[l.parent].owner
                                        /\ frames'[l.child].owner = frames[l.child].owner,
           \A l \in links \ links' :
               /\ frames[l.parent].owner # a
               /\ \A ref \in Gref :
                      ~(/\ grants[<<a, ref>>].live /\ l.child = grants[<<a, ref>>].frame
                        /\ frames[l.parent].owner = grants[<<a, ref>>].grantee),
           \A l \in links' \ links :
               /\ frames'[l.parent].owner # a
               /\ \A ref \in Gref :
                      ~(/\ grants[<<a, ref>>].live /\ l.child = grants[<<a, ref>>].frame
                        /\ frames'[l.parent].owner = grants[<<a, ref>>].grantee)
    PROVE  LinksKept(a)
<1>1. LinksFrom(frames', links', a) = LinksFrom(frames, links, a)
  BY DEF LinksFrom
<1>2. ASSUME NEW ref \in Gref, grants[<<a, ref>>].live
      PROVE  Named(frames', links', grants[<<a, ref>>].frame, grants[<<a, ref>>].grantee)
                 <=> Named(frames, links, grants[<<a, ref>>].frame, grants[<<a, ref>>].grantee)
  <2> DEFINE f == grants[<<a, ref>>].frame
             d == grants[<<a, ref>>].grantee
  <2>1. \A l \in links : l.child = f /\ frames[l.parent].owner = d => l \in links'
    BY <1>2
  <2>2. \A l \in links' : l.child = f /\ frames'[l.parent].owner = d => l \in links
    BY <1>2
  <2> HIDE DEF f, d
  <2>3. Named(frames', links', f, d) <=> Named(frames, links, f, d)
    BY <2>1, <2>2 DEF Named
  <2> QED BY <2>3 DEF f, d
<1> QED BY <1>1, <1>2 DEF LinksKept

(* The counts of a frame follow from what names it and from its pin.         *)
LEMMA CountsFollow ==
    ASSUME NEW fr, NEW L, NEW gr, NEW M, Refs(fr, L, gr, M),
           NEW fr2, NEW L2, NEW M2, Refs(fr2, L2, gr, M2), NEW f \in Frame,
           Into(L2, f) = Into(L, f), From(L2, f) = From(L, f),
           MapsOverFrame(gr, M2, f) = MapsOverFrame(gr, M, f), fr2[f].pinned = fr[f].pinned
    PROVE  /\ fr2[f].refs = fr[f].refs /\ fr2[f].writable_refs = fr[f].writable_refs
           /\ fr2[f].executable_refs = fr[f].executable_refs
           /\ fr2[f].pagetable_refs = fr[f].pagetable_refs
<1>1. FrameAccounted(fr[f], L, gr, M, f) /\ FrameAccounted(fr2[f], L2, gr, M2, f)
  BY DEF Refs, RefsExact
<1>2. PinOf(fr2[f]) = PinOf(fr[f])
  BY DEF PinOf
<1>3. /\ IntoWritable(L2, f) = IntoWritable(L, f) /\ IntoExec(L2, f) = IntoExec(L, f)
      /\ IntoTable(L2, f) = IntoTable(L, f) /\ WritesTo(gr, M2, f) = WritesTo(gr, M, f)
  BY DEF IntoWritable, IntoExec, IntoTable, WritesTo
<1> QED BY <1>1, <1>2, <1>3 DEF FrameAccounted

(* grant_access, grant_end_access: the caller's own rows.                    *)
LEMMA OwnRowsRespect ==
    ASSUME MemoryInv, NEW a \in Dom, NEW b \in Dom, b # a, NEW gref \in Gref,
           \/ HvGrantEndAccess(b, gref)
           \/ \E grantee \in Dom, frame \in Frame, readonly \in BOOLEAN :
                  HvGrantAccess(b, gref, grantee, frame, readonly)
    PROVE  GrantsKept(a) /\ FramesKept(a) /\ LinksKept(a)
<1>1. /\ \E e : grants' = [grants EXCEPT ![<<b, gref>>] = e]
      /\ maps' = maps /\ UNCHANGED p2mVars
  BY DEF HvGrantEndAccess, HvGrantAccess, EndAccess, GrantAccess, OnlyGrant
<1>2. DOMAIN grants = GrantId
  BY DEF MemoryInv, GrantInv, GrantTypeOK
<1>3. \A ref \in Gref : grants'[<<a, ref>>] = grants[<<a, ref>>]
  BY <1>1, <1>2 DEF GrantId
<1>4. GrantsKept(a)
  BY <1>1, <1>3 DEF GrantsKept
<1>5. FramesKept(a) /\ LinksKept(a)
  BY <1>1 DEF p2mVars, FramesKept, LinksKept
<1> QED BY <1>4, <1>5

(* grant_map: a permit that names the caller is not a's, and nor is the      *)
(* frame behind it.                                                          *)
LEMMA GrantMapRespects ==
    ASSUME MemoryInv, NEW a \in Dom, NEW b \in Dom, b # a, ~GrantsTo(a, b),
           NEW g \in GrantId, NEW writable \in BOOLEAN, NEW h \in 0..Cardinality(maps),
           HvGrantMap(b, g, writable, h)
    PROVE  GrantsKept(a) /\ FramesKept(a) /\ LinksKept(a)
<1> DEFINE f == grants[g].frame
           m == [grantee |-> b, handle |-> h, grant |-> g, writable |-> writable]
<1>1. /\ grants[g].live /\ grants[g].grantee = b /\ frames[f].owner = g[1]
      /\ grants' = [grants EXCEPT ![g].maps = @ + 1, ![g].writable_maps = @ + One(writable)]
      /\ maps' = maps \cup {m} /\ links' = links
      /\ frames' = AfterGetWritable(frames, f) \/ frames' = AfterGet(frames, f)
  BY DEF HvGrantMap, MapGrant, Permits
<1>2. g[1] # a
  BY <1>1, MemoryApart
<1>3. /\ DOMAIN grants = GrantId /\ grants \in [GrantId -> GrantEntry]
      /\ frames \in [Frame -> RawFrame]
  BY DEF MemoryInv, GrantInv, GrantTypeOK, Refs, Shaped
<1>4. f \in Frame
  <2>1. grants[g] # FreeGrant
    BY <1>1 DEF FreeGrant
  <2> QED BY <1>3, <2>1, LiveFields
<1>5. GrantsKept(a)
  <2>1. \A ref \in Gref : grants'[<<a, ref>>] = grants[<<a, ref>>]
    BY <1>1, <1>2, <1>3 DEF GrantId
  <2>2. m.grantee # a
    OBVIOUS
  <2>3. HeldBy(maps', a) = HeldBy(maps, a)
    BY <1>1, <2>2 DEF HeldBy
  <2> QED BY <2>1, <2>3 DEF GrantsKept
<1>6. frames'[f].owner = frames[f].owner /\ \A k \in Frame \ {f} : frames'[k] = frames[k]
  <2>1. 1 \in Level
    BY P2mAssumption DEF Level
  <2>2. /\ Took(frames, AfterGet(frames, f), f, 0, 0, 0)
        /\ Took(frames, AfterGetWritable(frames, f), f, 1, 0, 0)
    BY <1>3, <1>4, <2>1, GetTakes
  <2> HIDE DEF f
  <2> QED BY <1>1, <2>2 DEF Took
<1> HIDE DEF f, m
<1>7. FramesKept(a)
  BY <1>1, <1>2, <1>6, FramesAside
<1>8. links \subseteq LinkState
  BY DEF MemoryInv, Refs, Shaped
<1>9. LinksKept(a)
  <2>1. \A l \in links : /\ frames'[l.parent].owner = frames[l.parent].owner
                         /\ frames'[l.child].owner = frames[l.child].owner
    BY <1>6, <1>8 DEF LinkState
  <2> QED BY <1>1, <2>1, LinksAside
<1> QED BY <1>5, <1>7, <1>9

(* grant_unmap: a mapping of the caller's is over no grant and no frame of a. *)
LEMMA GrantUnmapRespects ==
    ASSUME MemoryInv, NEW a \in Dom, NEW b \in Dom, b # a, ~GrantsTo(a, b),
           NEW m \in maps, HvGrantUnmap(b, m)
    PROVE  GrantsKept(a) /\ FramesKept(a) /\ LinksKept(a)
<1>1. /\ m.grantee = b /\ grants' = AfterUnmap(grants, {m}) /\ maps' = maps \ {m}
      /\ frames' = AfterPutMaps(frames, grants, {m}) /\ links' = links
  BY DEF HvGrantUnmap, UnmapGrant, Unmap
<1>2. m.grant[1] # a /\ frames[grants[m.grant].frame].owner # a
  BY <1>1, MemoryApart
<1>3. GrantOK(grants, maps) /\ Refs(frames, links, grants, maps) /\ {m} \in SUBSET maps
  BY GrantInvIsOK DEF MemoryInv
<1>4. GrantsKept(a)
  <2>1. \A g \in GrantId : MapsOver({m}, g) = {} => grants'[g] = grants[g]
    BY <1>1, <1>3, UnmappedOK
  <2>2. \A ref \in Gref : <<a, ref>> \in GrantId /\ MapsOver({m}, <<a, ref>>) = {}
    BY <1>2 DEF GrantId, MapsOver
  <2>3. HeldBy(maps', a) = HeldBy(maps, a)
    BY <1>1 DEF HeldBy
  <2> QED BY <2>1, <2>2, <2>3 DEF GrantsKept
<1>5. /\ Refs(frames', links, grants, maps')
      /\ \A f \in Frame : /\ frames'[f].owner = frames[f].owner
                          /\ frames'[f].pinned = frames[f].pinned
                          /\ frames'[f].pt_level = frames[f].pt_level
  <2> DEFINE S == {m}
             fr == AfterPutMaps(frames, grants, S)
  <2>1. S \in SUBSET maps /\ fr = AfterPutMaps(frames, grants, S)
    BY <1>3
  <2>2. frames' = fr /\ maps' = maps \ S
    BY <1>1
  <2> HIDE DEF S, fr
  <2>3. /\ Refs(fr, links, grants, maps \ S)
        /\ \A f \in Frame : /\ fr[f].owner = frames[f].owner
                            /\ fr[f].pinned = frames[f].pinned
                            /\ fr[f].pt_level = frames[f].pt_level
    BY ONLY <1>3, <2>1, PutMapsKeeps
  <2> QED BY <2>2, <2>3
<1>6. FramesKept(a)
  <2>1. ASSUME NEW f \in Frame, frames[f].owner = a
        PROVE  /\ frames'[f].refs = frames[f].refs
               /\ frames'[f].writable_refs = frames[f].writable_refs
               /\ frames'[f].executable_refs = frames[f].executable_refs
               /\ frames'[f].pagetable_refs = frames[f].pagetable_refs
    <3>1. MapsOverFrame(grants, maps', f) = MapsOverFrame(grants, maps, f)
      BY <1>1, <1>2, <2>1 DEF MapsOverFrame
    <3> QED BY <1>3, <1>5, <3>1, CountsFollow
  <2> QED BY <1>5, <2>1 DEF FramesKept
<1>7. links \subseteq LinkState
  BY DEF MemoryInv, Refs, Shaped
<1>8. LinksKept(a)
  <2>1. \A l \in links : /\ frames'[l.parent].owner = frames[l.parent].owner
                         /\ frames'[l.child].owner = frames[l.child].owner
    BY <1>5, <1>7 DEF LinkState
  <2> QED BY <1>1, <2>1, LinksAside
<1> QED BY <1>4, <1>6, <1>8

(* p2m_allocate, p2m_free, p2m_pin, p2m_unpin: a frame of the caller's, or   *)
(* nobody's; one that changes hands is named by no entry.                    *)
LEMMA OwnFrameRespects ==
    ASSUME MemoryInv, NEW a \in Dom, NEW b \in Dom, b # a, NEW f \in Frame, UNCHANGED grantVars,
           \/ Allocate(b, f) \/ Release(b, f) \/ Unpin(b, f)
           \/ \E level \in Level : Pin(b, f, level)
    PROVE  GrantsKept(a) /\ FramesKept(a) /\ LinksKept(a)
<1>1. /\ Refs(frames, links, grants, maps) /\ frames \in [Frame -> RawFrame]
      /\ links \subseteq LinkState
  BY DEF MemoryInv, Refs, Shaped
<1>2. NoOwner \notin Dom
  BY DomainsAssumption DEF Dom, NoOwner
<1>3. links' = links /\ \A k \in Frame \ {f} : frames'[k] = frames[k]
  <2>1. ASSUME Allocate(b, f) \/ Release(b, f)
        PROVE  links' = links /\ \A k \in Frame \ {f} : frames'[k] = frames[k]
    BY <1>1, <2>1 DEF Allocate, Release
  <2>2. ASSUME Unpin(b, f)
        PROVE  links' = links /\ \A k \in Frame \ {f} : frames'[k] = frames[k]
    BY <2>2 DEF Unpin, Unpinned
  <2>3. ASSUME NEW level \in Level, Pin(b, f, level)
        PROVE  links' = links /\ \A k \in Frame \ {f} : frames'[k] = frames[k]
    BY <1>1, <2>3 DEF Pin, AfterGetTable
  <2> QED BY <2>1, <2>2, <2>3
<1>4. \/ /\ frames[f].owner = b /\ frames'[f].owner = b
      \/ /\ frames[f].owner = NoOwner /\ frames'[f].owner = b
      \/ /\ frames[f].owner = b /\ frames[f].refs = 0 /\ frames'[f].owner = NoOwner
  <2>1. CASE Allocate(b, f)
    BY <1>1, <2>1, FreshFields DEF Allocate, IsAllocated
  <2>2. CASE Release(b, f)
    BY <1>1, <2>2, FreshFields DEF Release
  <2>3. CASE Unpin(b, f)
    <3>1. /\ frames[f].owner = b /\ {f} \in SUBSET Frame /\ frames' = Unpinned(frames, {f})
          /\ \A k \in {f} : frames[k].pinned
      BY <2>3 DEF Unpin
    <3> QED BY <1>1, <3>1, UnpinnedKeeps
  <2>4. ASSUME NEW level \in Level, Pin(b, f, level)
        PROVE  frames[f].owner = b /\ frames'[f].owner = b
    <3> DEFINE fr == AfterGetTable(frames, f, level)
    <3>1. frames[f].owner = b /\ frames' = [fr EXCEPT ![f].pinned = TRUE]
      BY <2>4 DEF Pin
    <3>2. Took(frames, fr, f, 0, 0, 1)
      BY <1>1, GetTakes
    <3> HIDE DEF fr
    <3>3. fr[f].owner = b /\ fr \in [Frame -> RawFrame]
      BY <3>1, <3>2 DEF Took
    <3> QED BY <3>1, <3>3 DEF RawFrame
  <2> QED BY <2>1, <2>2, <2>3, <2>4
<1>5. frames[f].owner # a /\ frames'[f].owner # a
  BY <1>2, <1>4
<1>6. GrantsKept(a)
  BY DEF grantVars, GrantsKept
<1>7. FramesKept(a)
  BY <1>3, <1>5, FramesAside
<1>8. \A l \in links : /\ frames'[l.parent].owner = frames[l.parent].owner
                       /\ frames'[l.child].owner = frames[l.child].owner
  <2> SUFFICES ASSUME NEW l \in links, l.parent = f \/ l.child = f,
                      frames'[f].owner # frames[f].owner
               PROVE  FALSE
    BY <1>1, <1>3 DEF LinkState
  <2>1. frames[f].refs > 0
    BY <1>1, RefsSome
  <2>2. frames[f].owner \in Dom
    BY <1>1, LinkedOwned
  <2> QED BY <1>2, <1>4, <2>1, <2>2
<1>9. LinksKept(a)
  BY <1>3, <1>8, LinksAside
<1> QED BY <1>6, <1>7, <1>9

(* p2m_link: the table is the caller's, and a child of a's needs a's grant.  *)
LEMMA LinkRespects ==
    ASSUME MemoryInv, NEW a \in Dom, NEW b \in Dom, b # a, ~GrantsTo(a, b),
           NEW l \in LinkState, HvP2mLink(b, l)
    PROVE  GrantsKept(a) /\ FramesKept(a) /\ LinksKept(a)
<1> DEFINE fr == Held(frames, l)
           level == frames[l.parent].pt_level
<1>1. /\ frames[l.parent].owner = b /\ CanHold(frames, l)
      /\ frames' = AfterGetTable(fr, l.parent, level) /\ links' = links \cup {l}
      /\ frames[l.child].owner \notin {b, NoOwner} =>
             Authorizes(grants, frames[l.child].owner, b, l.child, l.writable)
      /\ grants' = grants /\ maps' = maps
  BY DEF HvP2mLink, Link, OnlyP2m, grantVars
<1>2. /\ Refs(frames, links, grants, maps) /\ frames \in [Frame -> RawFrame]
      /\ links \subseteq LinkState /\ l.child \in Frame /\ l.parent \in Frame
  BY DEF MemoryInv, Refs, Shaped, LinkState
<1>3. frames[l.child].owner # a
  <2> SUFFICES ASSUME frames[l.child].owner = a
               PROVE  FALSE
    OBVIOUS
  <2>1. a # NoOwner
    BY DomainsAssumption DEF Dom, NoOwner
  <2>2. Authorizes(grants, a, b, l.child, l.writable)
    BY <1>1, <2>1
  <2> QED BY <2>2 DEF Authorizes, Permits, GrantsTo
<1>4. /\ fr \in [Frame -> RawFrame] /\ \A k \in Frame \ {l.child} : fr[k] = frames[k]
      /\ fr[l.child].owner = frames[l.child].owner
  <2>1. frames[l.child].pagetable_refs \in Nat
    BY <1>2, RefsCounts
  <2>2. Took(frames, Held(frames, l), l.child, IF HoldsWritable(l) THEN 1 ELSE 0,
             IF HoldsExec(l) THEN 1 ELSE 0, IF HoldsTable(l) THEN 1 ELSE 0)
    BY <1>1, <1>2, <2>1, HeldTakes
  <2> QED BY <2>2 DEF Took
<1>5. level \in Level
  BY <1>2, RawFields
<1> HIDE DEF fr, level
<1>6. /\ \A k \in Frame \ {l.parent} : frames'[k] = fr[k]
      /\ frames'[l.parent].owner = fr[l.parent].owner
  <2>1. Took(fr, AfterGetTable(fr, l.parent, level), l.parent, 0, 0, 1)
    BY <1>2, <1>4, <1>5, GetTakes
  <2> QED BY <1>1, <2>1 DEF Took
<1>7. /\ \A k \in Frame : frames'[k].owner = frames[k].owner
      /\ \A k \in Frame \ {l.parent, l.child} : frames'[k] = frames[k]
  BY <1>2, <1>4, <1>6
<1>8. GrantsKept(a)
  BY <1>1 DEF GrantsKept
<1>9. FramesKept(a)
  <2>1. \A f \in Frame : \/ frames'[f] = frames[f]
                         \/ frames[f].owner # a /\ frames'[f].owner # a
    BY <1>1, <1>3, <1>7
  <2> QED BY <2>1, FramesAside
<1>10. LinksKept(a)
  <2>1. \A k \in links \cap links' : /\ frames'[k.parent].owner = frames[k.parent].owner
                                     /\ frames'[k.child].owner = frames[k.child].owner
    BY <1>2, <1>7 DEF LinkState
  <2>2. links \ links' = {} /\ links' \ links \subseteq {l}
    BY <1>1
  <2>3. frames'[l.parent].owner = b
    BY <1>1, <1>2, <1>7
  <2>4. \A ref \in Gref : ~(grants[<<a, ref>>].live /\ b = grants[<<a, ref>>].grantee)
    BY DEF GrantsTo
  <2> QED BY <2>1, <2>2, <2>3, <2>4, LinksAside
<1> QED BY <1>8, <1>9, <1>10

(* p2m_unlink: an entry of the caller's tables names no frame of a.          *)
LEMMA UnlinkRespects ==
    ASSUME MemoryInv, NEW a \in Dom, NEW b \in Dom, b # a, ~GrantsTo(a, b),
           NEW l \in links, HvP2mUnlink(b, l)
    PROVE  GrantsKept(a) /\ FramesKept(a) /\ LinksKept(a)
<1> DEFINE S == {l}
           fr == Unlinked(frames, S)
<1>1. /\ frames[l.parent].owner = b /\ frames' = fr /\ links' = links \ S
      /\ grants' = grants /\ maps' = maps
      /\ S \in SUBSET links /\ fr = Unlinked(frames, S) /\ \A k \in S : k = l
  BY DEF HvP2mUnlink, Unlink, OnlyP2m, grantVars
<1>2. Refs(frames, links, grants, maps) /\ links \subseteq LinkState
  BY DEF MemoryInv, Refs, Shaped
<1> HIDE DEF S, fr
<1>3. /\ Refs(fr, links \ S, grants, maps)
      /\ \A f \in Frame : /\ fr[f].owner = frames[f].owner /\ fr[f].pinned = frames[f].pinned
                          /\ fr[f].pt_level = frames[f].pt_level
  BY ONLY <1>1, <1>2, UnlinkedKeeps
<1>4. frames[l.child].owner # a
  BY <1>1, MemoryApart
<1>5. GrantsKept(a)
  BY <1>1 DEF GrantsKept
<1>6. FramesKept(a)
  <2>1. ASSUME NEW f \in Frame, frames[f].owner = a
        PROVE  /\ fr[f].refs = frames[f].refs
               /\ fr[f].writable_refs = frames[f].writable_refs
               /\ fr[f].executable_refs = frames[f].executable_refs
               /\ fr[f].pagetable_refs = frames[f].pagetable_refs
    <3>1. Into(links \ S, f) = Into(links, f) /\ From(links \ S, f) = From(links, f)
      BY <1>1, <1>4, <2>1 DEF Into, From
    <3> QED BY <1>2, <1>3, <3>1, CountsFollow
  <2> QED BY <1>1, <1>3, <2>1 DEF FramesKept
<1>7. LinksKept(a)
  <2>1. \A k \in links : /\ frames'[k.parent].owner = frames[k.parent].owner
                         /\ frames'[k.child].owner = frames[k.child].owner
    BY <1>1, <1>2, <1>3 DEF LinkState
  <2>2. \A ref \in Gref : ~(grants[<<a, ref>>].live /\ b = grants[<<a, ref>>].grantee)
    BY DEF GrantsTo
  <2>3. links' \ links = {} /\ \A k \in links \ links' : frames[k.parent].owner = b
    BY <1>1
  <2> QED BY <2>1, <2>2, <2>3, LinksAside
<1> QED BY <1>5, <1>6, <1>7

(* Every call on memory.                                                     *)
LEMMA MemoryCallRespects ==
    ASSUME HvInv, NEW a \in Dom, NEW b \in Dom, Stranger(b, a), MemoryCall(b)
    PROVE  Obs(a)' = Obs(a)
<1>1. b # a /\ ~GrantsTo(a, b) /\ MemoryInv
  BY StrangerSays DEF HvInv
<1>2. UNCHANGED <<schedVars, ports, authVars, holder, credit>>
  BY DEF MemoryCall, HvGrantEndAccess, HvGrantAccess, HvGrantMap, HvGrantUnmap, HvP2mAllocate,
         HvP2mFree, HvP2mUnpin, HvP2mPin, HvP2mLink, HvP2mUnlink, OnlyGrant, OnlyP2m, OnlyMemory
<1>3. ASSUME NEW gref \in Gref,
             \/ HvGrantEndAccess(b, gref)
             \/ \E grantee \in Dom, frame \in Frame, readonly \in BOOLEAN :
                    HvGrantAccess(b, gref, grantee, frame, readonly)
      PROVE  GrantsKept(a) /\ FramesKept(a) /\ LinksKept(a)
  BY <1>1, <1>3, OwnRowsRespect
<1>4. ASSUME NEW g \in GrantId, NEW writable \in BOOLEAN, NEW h \in 0..Cardinality(maps),
             HvGrantMap(b, g, writable, h)
      PROVE  GrantsKept(a) /\ FramesKept(a) /\ LinksKept(a)
  BY <1>1, <1>4, GrantMapRespects
<1>5. ASSUME NEW m \in maps, HvGrantUnmap(b, m)
      PROVE  GrantsKept(a) /\ FramesKept(a) /\ LinksKept(a)
  BY <1>1, <1>5, GrantUnmapRespects
<1>6. ASSUME NEW f \in Frame,
             \/ HvP2mAllocate(b, f) \/ HvP2mFree(b, f) \/ HvP2mUnpin(b, f)
             \/ \E level \in Level : HvP2mPin(b, f, level)
      PROVE  GrantsKept(a) /\ FramesKept(a) /\ LinksKept(a)
  <2>1. /\ UNCHANGED grantVars
        /\ \/ Allocate(b, f) \/ Release(b, f) \/ Unpin(b, f)
           \/ \E level \in Level : Pin(b, f, level)
    BY <1>6 DEF HvP2mAllocate, HvP2mFree, HvP2mUnpin, HvP2mPin, OnlyP2m
  <2> QED BY <1>1, <2>1, OwnFrameRespects
<1>7. ASSUME NEW l \in LinkState, HvP2mLink(b, l)
      PROVE  GrantsKept(a) /\ FramesKept(a) /\ LinksKept(a)
  BY <1>1, <1>7, LinkRespects
<1>8. ASSUME NEW l \in links, HvP2mUnlink(b, l)
      PROVE  GrantsKept(a) /\ FramesKept(a) /\ LinksKept(a)
  BY <1>1, <1>8, UnlinkRespects
<1>9. GrantsKept(a) /\ FramesKept(a) /\ LinksKept(a)
  BY <1>3, <1>4, <1>5, <1>6, <1>7, <1>8 DEF MemoryCall
<1> QED BY <1>2, <1>9, SelfUntouched, ViewKept

(* What a teardown leaves of a domain that had no tie to the dead one: all   *)
(* of its memory.                                                            *)
LEMMA TeardownMemoryRespects ==
    ASSUME MemoryInv, NEW a \in Dom, NEW t \in Dom, TeardownMemory(t),
           t # a, ~GrantsTo(a, t), ~BorrowsFrom(a, t),
           \A ref \in Gref :
               grants[<<a, ref>>].live => frames[grants[<<a, ref>>].frame].owner # t
    PROVE  GrantsKept(a) /\ FramesKept(a) /\ LinksKept(a)
<1>1. /\ Refs(frames, links, grants, maps) /\ links \subseteq LinkState /\ maps \subseteq Mapping
      /\ MapsBacked /\ MapsOwned(frames, grants, maps) /\ grants \in [GrantId -> GrantEntry]
  BY DEF MemoryInv, Refs, Shaped, GrantInv, GrantSound, GrantTypeOK
<1>2. Refs(frames', links', grants, maps') /\ TornDown(t)
  BY TeardownFrames, TeardownMemoryKeeps
<1>3. \A l \in links : frames[l.parent].owner = t => frames[l.child].owner # a
  BY MemoryApart
<1>4. \A l \in links : frames[l.child].owner = t => frames[l.parent].owner # a
  BY DEF BorrowsFrom
<1>5. \A m \in maps : m.grantee = t => frames[grants[m.grant].frame].owner # a
  BY MemoryApart
<1>6. GrantsKept(a)
  <2>1. ASSUME NEW ref \in Gref
        PROVE  grants'[<<a, ref>>] = grants[<<a, ref>>]
    <3>1. <<a, ref>> \in GrantId /\ <<a, ref>>[1] # t
      BY DEF GrantId
    <3>2. grants[<<a, ref>>].grantee # t
      <4>1. CASE grants[<<a, ref>>] = FreeGrant
        BY <4>1, DomainsAssumption DEF FreeGrant, Dom
      <4>2. CASE grants[<<a, ref>>] # FreeGrant
        <5>1. grants[<<a, ref>>].live
          BY <1>1, <3>1, <4>2 DEF GrantEntry
        <5> QED BY <5>1 DEF GrantsTo
      <4> QED BY <4>1, <4>2
    <3> QED BY <1>2, <3>1, <3>2 DEF TornDown
  <2>2. HeldBy(maps', a) = HeldBy(maps, a)
    <3>1. \A m \in maps : m.grantee = a => m.grant[1] # t
      BY DEF BorrowsFrom
    <3>2. maps' = {m \in maps : m.grant[1] # t /\ m.grantee # t}
      BY <1>2 DEF TornDown
    <3> QED BY <3>1, <3>2 DEF HeldBy
  <2> QED BY <2>1, <2>2 DEF GrantsKept
<1>7. FramesKept(a)
  <2> SUFFICES ASSUME NEW f \in Frame
               PROVE  /\ frames'[f].owner = a <=> frames[f].owner = a
                      /\ frames[f].owner = a =>
                             /\ frames'[f].refs = frames[f].refs
                             /\ frames'[f].writable_refs = frames[f].writable_refs
                             /\ frames'[f].executable_refs = frames[f].executable_refs
                             /\ frames'[f].pagetable_refs = frames[f].pagetable_refs
                             /\ frames'[f].pt_level = frames[f].pt_level
                             /\ frames'[f].pinned = frames[f].pinned
    BY DEF FramesKept
  <2>1. CASE frames[f].owner = t
    <3>1. frames'[f] = FreeFrame
      BY <1>2, <2>1 DEF TornDown
    <3>2. FreeFrame.owner # a
      BY DomainsAssumption DEF FreeFrame, NoOwner, Dom
    <3> QED BY <2>1, <3>1, <3>2
  <2>2. CASE frames[f].owner # t
    <3>1. /\ frames'[f].owner = frames[f].owner /\ frames'[f].pinned = frames[f].pinned
          /\ frames'[f].pt_level = frames[f].pt_level
      BY <1>2, <2>2 DEF TornDown
    <3>2. ASSUME frames[f].owner = a
          PROVE  /\ frames'[f].refs = frames[f].refs
                 /\ frames'[f].writable_refs = frames[f].writable_refs
                 /\ frames'[f].executable_refs = frames[f].executable_refs
                 /\ frames'[f].pagetable_refs = frames[f].pagetable_refs
      <4>1. /\ links' = {l \in links : frames[l.parent].owner # t /\ frames[l.child].owner # t}
            /\ maps' = {m \in maps : m.grant[1] # t /\ m.grantee # t}
        BY <1>2 DEF TornDown
      <4>2. Into(links', f) = Into(links, f)
        BY <1>3, <3>2, <4>1 DEF Into
      <4>3. From(links', f) = From(links, f)
        BY <1>4, <3>2, <4>1 DEF From
      <4>4. MapsOverFrame(grants, maps', f) = MapsOverFrame(grants, maps, f)
        <5>1. \A m \in maps : grants[m.grant].frame = f => m.grant[1] = a /\ m.grantee # t
          BY <1>1, <1>5, <3>2 DEF MapsOwned
        <5> QED BY <4>1, <5>1 DEF MapsOverFrame
      <4> QED BY <1>1, <1>2, <3>1, <4>2, <4>3, <4>4, CountsFollow
    <3> QED BY <3>1, <3>2
  <2> QED BY <2>1, <2>2
<1>8. LinksKept(a)
  <2>1. /\ links' = {l \in links : frames[l.parent].owner # t /\ frames[l.child].owner # t}
        /\ \A f \in Frame : frames[f].owner # t => frames'[f].owner = frames[f].owner
    BY <1>2 DEF TornDown
  <2>2. \A l \in links \cap links' : /\ frames'[l.parent].owner = frames[l.parent].owner
                                     /\ frames'[l.child].owner = frames[l.child].owner
    BY <1>1, <2>1 DEF LinkState
  <2>3. \A l \in links \ links' :
            /\ frames[l.parent].owner # a
            /\ \A ref \in Gref :
                   ~(/\ grants[<<a, ref>>].live /\ l.child = grants[<<a, ref>>].frame
                     /\ frames[l.parent].owner = grants[<<a, ref>>].grantee)
    BY <1>4, <2>1 DEF GrantsTo
  <2>4. links' \ links = {}
    BY <2>1
  <2> QED BY <2>2, <2>3, <2>4, LinksAside
<1> QED BY <1>6, <1>7, <1>8

(* Only a half-open or a connected port names another domain.                *)
LEMMA RemoteNamed ==
    ASSUME NEW s \in PortState
    PROVE  s.kind \in {"Unbound", "Interdomain"} \/ s.remote = -1
<1>1. Free.remote = -1
  BY DEF Free
<1>2. \A v \in Vcpu, q \in Virq : VirqPort(v, q).remote = -1
  BY DEF VirqPort, Free
<1>3. \A v \in Vcpu : IpiPort(v).remote = -1
  BY DEF IpiPort, Free
<1>4. /\ \A r \in Dom : Unbound(r).kind = "Unbound"
      /\ \A c \in PortId : Interdomain(c).kind = "Interdomain"
  BY PortStateFacts DEF IsInterdomain
<1>5. \/ s = Free \/ \E r \in Dom : s = Unbound(r)
      \/ \E c \in PortId : s = Interdomain(c)
      \/ \E v \in Vcpu, q \in Virq : s = VirqPort(v, q)
      \/ \E v \in Vcpu : s = IpiPort(v)
  BY DEF PortState
<1> QED BY <1>1, <1>2, <1>3, <1>4, <1>5

(* domain_destroy: nothing of a domain that had no tie to the dead one.      *)
LEMMA DestroyRespects ==
    ASSUME HvInv, NEW a \in Dom, NEW b \in Dom, Stranger(b, a), NEW t \in Dom, NEW now \in Ticks,
           HvDomainDestroy(b, t, now)
    PROVE  Obs(a)' = Obs(a)
<1>1. /\ MayActOn(b, t) /\ ports' = AfterClearUnboundInto(AfterCloseAll(ports, t), t)
      /\ OfflineAll(t, now) /\ TeardownMemory(t) /\ ReleaseAllOf(t) /\ BuryDomain(t)
      /\ credit' = credit
  BY DEF HvDomainDestroy
<1>2. /\ t # a /\ ~GrantsTo(a, t) /\ ~PortToward(a, t) /\ ~BorrowsFrom(a, t)
      /\ \A ref \in Gref :
             grants[<<a, ref>>].live => frames[grants[<<a, ref>>].frame].owner # t
  BY <1>1, StrangerSays
<1>3. GrantsKept(a) /\ FramesKept(a) /\ LinksKept(a)
  BY <1>1, <1>2, TeardownMemoryRespects DEF HvInv
<1>4. ASSUME NEW p \in Port
      PROVE  ports'[<<a, p>>] = ports[<<a, p>>]
  <2>1. <<a, p>> \in PortId /\ <<a, p>>[1] # t
    BY <1>2 DEF PortId
  <2>2. ports[<<a, p>>].state.remote # t
    <3>1. ports[<<a, p>>].state \in PortState
      BY <2>1 DEF HvInv, EvtchnInv, EvtchnTypeOK, EventChannel
    <3>2. ports[<<a, p>>].state.kind \in {"Unbound", "Interdomain"}
              \/ ports[<<a, p>>].state.remote = -1
      BY <3>1, RemoteNamed
    <3>3. -1 # t
      BY DomainsAssumption DEF Dom
    <3> QED BY <1>2, <3>2, <3>3 DEF PortToward
  <2> QED BY <1>1, <2>1, <2>2, TeardownPortsConfined DEF HvInv
<1>5. \A v \in Vcpu : /\ runstate'[<<a, v>>] = runstate[<<a, v>>]
                      /\ affinity'[<<a, v>>] = affinity[<<a, v>>]
  BY <1>1, <1>2 DEF OfflineAll, VcpuId
<1>6. \A dev \in Dev : holder'[dev] = a <=> holder[dev] = a
  <2>1. NoHolder # a
    BY DomainsAssumption DEF NoHolder, Dom
  <2> QED BY <1>1, <1>2, <2>1 DEF ReleaseAllOf
<1>7. life'[a] = life[a]
  BY <1>1, <1>2 DEF BuryDomain, HvInv, AuthInv, AuthTypeOK
<1>8. SelfKept(a)
  BY <1>1, <1>4, <1>5, <1>6, <1>7 DEF SelfKept
<1> QED BY <1>3, <1>8, ViewKept

(* The other lifecycle, control and device calls: the life and the devices   *)
(* of domains the caller creates or controls, and authority, which nobody    *)
(* observes.                                                                 *)
LEMMA DomainCallRespects ==
    ASSUME HvInv, NEW a \in Dom, NEW b \in Dom, Stranger(b, a), DomainCall(b)
    PROVE  Obs(a)' = Obs(a)
<1>1. /\ may_create[b] => IsLive(a)
      /\ ~Controls(b, a) /\ \A t \in Dom : MayActOn(b, t) => t # a
  BY StrangerSays
<1>2. DOMAIN life = Dom /\ DOMAIN holder = Dev
  BY DEF HvInv, AuthInv, AuthTypeOK, DeviceTypeOK
<1>3. PICK t \in Dom :
          \/ \E mc \in BOOLEAN : HvDomainCreate(b, t, mc)
          \/ \E now \in Ticks : HvDomainDestroy(b, t, now)
          \/ \E other \in Dom : HvControlGrant(b, t, other) \/ HvControlRevoke(b, t, other)
          \/ \E dev \in Dev : HvDeviceAssign(b, dev, t) \/ HvDeviceRelease(b, dev, t)
  BY DEF DomainCall
<1>4. ASSUME NEW now \in Ticks, HvDomainDestroy(b, t, now)
      PROVE  Obs(a)' = Obs(a)
  BY <1>4, DestroyRespects
<1>5. ASSUME NEW mc \in BOOLEAN, HvDomainCreate(b, t, mc)
      PROVE  Obs(a)' = Obs(a)
  <2>1. /\ UNCHANGED <<schedVars, ports, grantVars, p2mVars, holder, credit>>
        /\ may_create[b] /\ ~IsLive(t) /\ life' = [life EXCEPT ![t] = "Live"]
    BY <1>5 DEF HvDomainCreate, CreateDomain, OnlyAuth, IsLive
  <2>2. life'[a] = life[a]
    BY <1>1, <1>2, <2>1
  <2>3. SelfKept(a)
    BY <2>1, <2>2 DEF SelfKept, schedVars
  <2> QED BY <2>1, <2>3, MemoryUntouched, ViewKept
<1>6. ASSUME NEW other \in Dom, HvControlGrant(b, t, other) \/ HvControlRevoke(b, t, other)
      PROVE  Obs(a)' = Obs(a)
  <2>1. UNCHANGED <<schedVars, ports, grantVars, p2mVars, holder, credit, life>>
    BY <1>6 DEF HvControlGrant, HvControlRevoke, DelegateControl, RevokeControl, OnlyAuth
  <2>2. SelfKept(a)
    BY <2>1 DEF SelfKept, schedVars
  <2> QED BY <2>1, <2>2, MemoryUntouched, ViewKept
<1>7. ASSUME NEW dev \in Dev, HvDeviceAssign(b, dev, t) \/ HvDeviceRelease(b, dev, t)
      PROVE  Obs(a)' = Obs(a)
  <2>1. UNCHANGED <<schedVars, ports, grantVars, p2mVars, authVars, credit>>
    BY <1>7 DEF HvDeviceAssign, HvDeviceRelease, OnlyDevice
  <2>2. NoHolder # a
    BY DomainsAssumption DEF NoHolder, Dom
  <2>3. t # a
    BY <1>1, <1>7 DEF HvDeviceAssign, HvDeviceRelease
  <2>4. /\ holder[dev] \in {NoHolder, t}
        /\ \E h \in {NoHolder, t} : holder' = [holder EXCEPT ![dev] = h]
    BY <1>7 DEF HvDeviceAssign, HvDeviceRelease, AssignDevice, ReleaseDevice
  <2>5. \A k \in Dev : holder'[k] = a <=> holder[k] = a
    BY <1>2, <2>2, <2>3, <2>4
  <2>6. SelfKept(a)
    BY <2>1, <2>5 DEF SelfKept, schedVars, authVars
  <2> QED BY <2>1, <2>6, MemoryUntouched, ViewKept
<1> QED BY <1>3, <1>4, <1>5, <1>6, <1>7

(* A step of b moves the view of nobody it is a stranger to.                 *)
LEMMA HvStepRespects ==
    ASSUME HvInv, [HvNext]_vars
    PROVE  RespectsLocally
<1> SUFFICES ASSUME NEW a \in Dom, NEW b \in Dom, ~Authorized(b, a), ~TeardownOfGranted(b, a),
                    ActsAs(b)
             PROVE  Obs(a)' = Obs(a)
  BY DEF RespectsLocally
<1>1. Stranger(b, a)
  BY DEF Stranger
<1>2. b # a
  BY DEF Authorized
<1> QED BY <1>1, <1>2, CreditCallRespects, EventCallRespects, SchedCallRespects,
           MemoryCallRespects, DomainCallRespects, RaisedVirqRespects DEF ActsAs

(* Local respect: no call by b moves anything a observes unless a had given  *)
(* b a channel, or b may destroy a domain whose frame a's permit names.      *)
THEOREM LocalRespectHolds == HvSpec => LocalRespect
<1>1. HvInv /\ [HvNext]_vars => [RespectsLocally]_vars
  BY HvStepRespects
<1> QED BY <1>1, HvInvariant, PTL DEF HvSpec, LocalRespect

-----------------------------------------------------------------------------
(* What local respect comes to over whole runs.  A Live domain is sealed     *)
(* when nobody controls it, it offers and borrows nothing and has no port    *)
(* toward another domain, and its permits to itself are for its own frames.  *)
Sealed(a) ==
    /\ IsLive(a)
    /\ \A b \in Dom \ {a} : ~Controls(b, a) /\ ~GrantsTo(a, b) /\ ~PortToward(a, b)
                            /\ ~BorrowsFrom(a, b)
    /\ \A ref \in Gref : grants[<<a, ref>>].live => frames[grants[<<a, ref>>].frame].owner = a

\* A sealed domain acts, or it stays sealed and its view stays as it is.
SealedKept == \A a \in Dom : Sealed(a) => ActsAs(a) \/ (Sealed(a)' /\ Obs(a)' = Obs(a))

(* Everyone else is a stranger to a sealed domain.                           *)
LEMMA SealedFromAll ==
    ASSUME NEW a \in Dom, Sealed(a), NEW b \in Dom, b # a
    PROVE  Stranger(b, a)
  BY DEF Sealed, Stranger, Authorized, TeardownReach, TeardownBorrow, TeardownOfGranted, MayActOn

(* What the view tells of a's ports, permits, mappings, frames and entries.  *)
LEMMA ViewSays ==
    ASSUME NEW a \in Dom, Obs(a)' = Obs(a)
    PROVE  /\ IsLive(a)' = IsLive(a)
           /\ \A p \in Port : ports'[<<a, p>>] = ports[<<a, p>>]
           /\ \A ref \in Gref : grants'[<<a, ref>>] = grants[<<a, ref>>]
           /\ HeldBy(maps', a) = HeldBy(maps, a)
           /\ \A f \in Frame : frames'[f].owner = a <=> frames[f].owner = a
           /\ LinksFrom(frames', links', a) = LinksFrom(frames, links, a)
<1> DEFINE P == [p \in Port |-> ports[<<a, p>>]]
           R == [ref \in Gref |-> RowView(<<a, ref>>)]
           F == [f \in FramesOf(a) |-> FrameView(f)]
<1>1. /\ IsLive(a)' = IsLive(a) /\ P' = P /\ R' = R /\ F' = F
      /\ HeldBy(maps, a)' = HeldBy(maps, a) /\ LinksFrom(frames, links, a)' = LinksFrom(frames, links, a)
  <2>1. /\ Obs(a).live = IsLive(a) /\ Obs(a).ports = P /\ Obs(a).rows = R /\ Obs(a).frames = F
        /\ Obs(a).held = HeldBy(maps, a) /\ Obs(a).edges = LinksFrom(frames, links, a)
    BY DEF Obs
  <2>2. /\ Obs(a)'.live = IsLive(a)' /\ Obs(a)'.ports = P' /\ Obs(a)'.rows = R'
        /\ Obs(a)'.frames = F'
        /\ Obs(a)'.held = HeldBy(maps, a)' /\ Obs(a)'.edges = LinksFrom(frames, links, a)'
    BY DEF Obs
  <2> HIDE DEF P, R, F
  <2> QED BY <2>1, <2>2
<1>2. \A p \in Port : ports'[<<a, p>>] = ports[<<a, p>>]
  <2>1. \A p \in Port : P[p] = ports[<<a, p>>] /\ P'[p] = ports'[<<a, p>>]
    OBVIOUS
  <2> HIDE DEF P
  <2> QED BY <1>1, <2>1
<1>3. \A ref \in Gref : grants'[<<a, ref>>] = grants[<<a, ref>>]
  <2>1. \A ref \in Gref : /\ R[ref].entry = grants[<<a, ref>>]
                          /\ R'[ref].entry = grants'[<<a, ref>>]
    BY DEF RowView
  <2> HIDE DEF R
  <2> QED BY <1>1, <2>1
<1>4. \A f \in Frame : frames'[f].owner = a <=> frames[f].owner = a
  <2>1. DOMAIN F = FramesOf(a) /\ DOMAIN F' = FramesOf(a)'
    OBVIOUS
  <2> HIDE DEF F
  <2>2. FramesOf(a)' = FramesOf(a)
    BY <1>1, <2>1
  <2>3. /\ \A f \in Frame : f \in FramesOf(a) <=> frames[f].owner = a
        /\ \A f \in Frame : f \in FramesOf(a)' <=> frames'[f].owner = a
    BY DEF FramesOf
  <2> QED BY <2>2, <2>3
<1>5. HeldBy(maps', a) = HeldBy(maps, a)
  BY <1>1 DEF HeldBy
<1>6. LinksFrom(frames', links', a) = LinksFrom(frames, links, a)
  BY <1>1 DEF LinksFrom
<1> QED BY <1>1, <1>2, <1>3, <1>4, <1>5, <1>6

(* With its view a sealed domain keeps its seal, since control over a Live   *)
(* domain comes only from a domain that has it.                              *)
LEMMA SealStays ==
    ASSUME HvInv, [HvNext]_vars, NEW a \in Dom, Sealed(a), Obs(a)' = Obs(a)
    PROVE  Sealed(a)'
<1>1. /\ IsLive(a)' = IsLive(a)
      /\ \A p \in Port : ports'[<<a, p>>] = ports[<<a, p>>]
      /\ \A ref \in Gref : grants'[<<a, ref>>] = grants[<<a, ref>>]
      /\ HeldBy(maps', a) = HeldBy(maps, a)
      /\ \A f \in Frame : frames'[f].owner = a <=> frames[f].owner = a
      /\ LinksFrom(frames', links', a) = LinksFrom(frames, links, a)
  BY ViewSays
<1>2. /\ Refs(frames, links, grants, maps) /\ links \subseteq LinkState /\ GrantTypeOK
  BY DEF HvInv, MemoryInv, Refs, Shaped, GrantInv
<1>3. ASSUME NEW b \in Dom \ {a}
      PROVE  /\ ~Controls(b, a)' /\ ~GrantsTo(a, b)' /\ ~PortToward(a, b)'
             /\ ~BorrowsFrom(a, b)'
  <2>1. ~Controls(b, a)'
    <3>1. \A d \in Dom : controls[<<d, a>>] = Absent
      <4>1. controls[<<a, a>>] = Absent
        BY DEF HvInv, AuthInv, AuthorityLive, Edge
      <4> QED BY <4>1 DEF Sealed, Controls
    <3>2. controls'[<<b, a>>] = Absent
      <4>1. CASE UNCHANGED authVars
        BY <3>1, <4>1 DEF authVars
      <4>2. CASE AuthCall
        <5>1. AuthorityDerived
          BY <4>2, AuthStepDerivesAuthority DEF HvInv
        <5>2. IsLive(a) /\ b \in Dom /\ controls[<<b, a>>] = Absent
          BY <3>1 DEF Sealed
        <5>3. controls'[<<b, a>>] # Absent => \E d \in Dom : controls[<<d, a>>] # Absent
          BY <5>1, <5>2 DEF AuthorityDerived
        <5> QED BY <3>1, <5>3
      <4> QED BY <4>1, <4>2, AuthStep
    <3> QED BY <3>2 DEF Controls
  <2>2. ~GrantsTo(a, b)'
    BY <1>1 DEF Sealed, GrantsTo
  <2>3. ~PortToward(a, b)'
    BY <1>1 DEF Sealed, PortToward
  <2>4. ~BorrowsFrom(a, b)'
    <3>1. ASSUME NEW m \in maps', m.grantee = a, m.grant[1] = b
          PROVE  FALSE
      <4>1. m \in maps
        BY <1>1, <3>1 DEF HeldBy
      <4> QED BY <3>1, <4>1 DEF Sealed, BorrowsFrom
    <3>2. ASSUME NEW l \in links', frames'[l.parent].owner = a, frames'[l.child].owner = b
          PROVE  FALSE
      <4>1. l \in links /\ frames[l.parent].owner = a
        BY <1>1, <3>2 DEF LinksFrom
      <4>2. frames[l.child].owner \in Dom /\ l.child \in Frame
        BY <1>2, <4>1, LinkedOwned DEF LinkState
      <4>3. frames[l.child].owner = a
        BY <4>1, <4>2 DEF Sealed, BorrowsFrom
      <4> QED BY <1>1, <3>2, <4>2, <4>3
    <3> QED BY <3>1, <3>2 DEF BorrowsFrom
  <2> QED BY <2>1, <2>2, <2>3, <2>4
<1>4. ASSUME NEW ref \in Gref, grants'[<<a, ref>>].live
      PROVE  frames'[grants'[<<a, ref>>].frame].owner = a
  <2>1. grants'[<<a, ref>>] = grants[<<a, ref>>] /\ grants[<<a, ref>>].live
    BY <1>1, <1>4
  <2>2. grants[<<a, ref>>] \in GrantEntry /\ grants[<<a, ref>>] # FreeGrant
    BY <1>2, <2>1 DEF GrantTypeOK, GrantId, FreeGrant
  <2>3. grants[<<a, ref>>].frame \in Frame
    BY <2>2, LiveFields
  <2>4. frames[grants[<<a, ref>>].frame].owner = a
    BY <2>1 DEF Sealed
  <2> QED BY <1>1, <2>1, <2>3, <2>4
<1>5. IsLive(a)'
  BY <1>1 DEF Sealed
<1> QED BY <1>3, <1>4, <1>5 DEF Sealed

(* A sealed domain is out of everybody's reach: whatever the others call, in *)
(* any order and for ever, its view and its seal stay until it acts itself.  *)
THEOREM SealedUndisturbed == HvSpec => [][SealedKept]_vars
<1>1. HvInv /\ [HvNext]_vars => [SealedKept]_vars
  <2> SUFFICES ASSUME HvInv, HvNext, NEW a \in Dom, Sealed(a), ~ActsAs(a)
               PROVE  Sealed(a)' /\ Obs(a)' = Obs(a)
    BY DEF SealedKept
  <2>1. \E b \in Dom : ActsAs(b)
    BY DEF HvNext, ActsAs
  <2>2. PICK b \in Dom : ActsAs(b)
    BY <2>1
  <2>3. Stranger(b, a)
    BY <2>2, SealedFromAll
  <2>4. Obs(a)' = Obs(a)
    BY <2>2, <2>3, HvStepRespects DEF RespectsLocally, Stranger
  <2> QED BY <2>4, SealStays
<1> QED BY <1>1, HvInvariant, PTL DEF HvSpec
=============================================================================
