--------------------------- MODULE TeardownProofs ---------------------------
(* The funnel confines DMA and scrubs guest memory, for every number of      *)
(* domains, frames, devices and streams, and for every interleaving of the   *)
(* CPU with the SMMU.                                                        *)
EXTENDS Teardown, TLAPS

Phase == {"idle", "scrub", "derive", "first", "second", "parked"}

TeardownTypeOK ==
    /\ alive \subseteq Dom /\ born \subseteq Dom /\ binding \subseteq Dom
    /\ owner \in [Frame -> Dom \cup {Nobody}] /\ holder \in [Device -> Dom \cup {Nobody}]
    /\ mapped \subseteq Frame /\ shadow \subseteq Frame /\ cpu \subseteq Frame /\ dma \subseteq Frame
    /\ tables \in [Dom -> SUBSET Frame] /\ stream \in [Device -> Sid]
    /\ strtab \in [Sid -> Dom \cup {Nobody}]
    /\ cfg \in [Sid -> Dom \cup {Nobody, Empty}]
    /\ tlb \subseteq Dom \X Frame
    /\ pc \in Phase /\ outcome \in {"ok", "refused"} /\ running \in Dom \cup {Nobody}

(* An emitted domain is alive, has a binding, and its tables reach only its  *)
(* own frames: they leave it only when it is destroyed.  Devices belong to   *)
(* living domains.                                                           *)
TablesOwned ==
    /\ born \subseteq alive \cap binding
    /\ \A d \in born : \A f \in tables[d] : owner[f] = d
    /\ \A v \in Device : holder[v] \in alive \cup {Nobody}

(* A device is held by an emitted domain or by one that never had tables,    *)
(* and the second has stopped the machine before the next call.              *)
HoldersEmitted ==
    \A v \in Device :
        \/ holder[v] \in born \cup {Nobody}
        \/ holder[v] \notin binding /\ pc # "idle"

(* Between a core call and the derivation the table is the last one derived; *)
(* at every other point it is the one the assignment asks for, and the       *)
(* machine goes on only when the derivation did not refuse.                  *)
TableDerived ==
    /\ pc \notin {"scrub", "derive"} => strtab = Derived
    /\ pc \in {"first", "second"} => (outcome = "refused" <=> Refused)

(* Whatever the SMMU may still use, in memory or cached, leads to frames of  *)
(* the domain it names, or to frames that domain gave up in this dispatch.   *)
Usable == {strtab[s] : s \in Sid} \cup {cfg[s] : s \in Sid}
StaleHarmless ==
    /\ \A d \in Usable \cap Dom : \A f \in tables[d] : owner[f] \in {d, Nobody}
    /\ \A p \in tlb : /\ owner[p[2]] \in {p[1], Nobody}
                      /\ p[1] \in born => owner[p[2]] = p[1]

(* The caches follow the table except while the funnel is invalidating them: *)
(* the entries from CFGI_ALL on, the translations from TLBI_NSNH_ALL on.     *)
CachesFollow ==
    /\ pc \notin {"first", "parked"} => \A s \in Sid : cfg[s] \in {Empty, strtab[s]}
    /\ pc \notin {"first", "second", "parked"} =>
           \A p \in tlb : \E s \in Sid : strtab[s] = p[1]

(* The frames with a guest's bytes are among those the shadow remembers, and *)
(* the shadow is the allocation except between a core call and its scrub.    *)
ShadowTracks ==
    /\ cpu \subseteq shadow
    /\ pc # "scrub" => shadow = Allocated
    /\ running # Nobody => pc = "idle" /\ running \in born

TeardownInv ==
    /\ TeardownTypeOK /\ TablesOwned /\ HoldersEmitted /\ TableDerived
    /\ StaleHarmless /\ CachesFollow /\ ShadowTracks

-----------------------------------------------------------------------------
(* The markers name no domain.                                               *)
LEMMA MarkersNoDom == Nobody \notin Dom /\ Empty \notin Dom /\ Nobody # Empty
  BY DEF Nobody, Empty, Dom

(* When derive_stream_table does not refuse, a stream has at most one device,*)
(* so the entry of the stream is the holder of that device.                  *)
LEMMA HolderOfStream ==
    ASSUME TeardownTypeOK, ~Refused, NEW s \in Sid
    PROVE  HolderOf(s) = Nobody \/ \E v \in Device : stream[v] = s /\ HolderOf(s) = holder[v]
<1> DEFINE devs == {v \in Device : stream[v] = s}
<1>1. CASE devs = {}
  BY <1>1 DEF HolderOf
<1>2. CASE devs # {}
  <2>1. PICK v \in devs : TRUE
    BY <1>2
  <2>2. \A w \in devs : w = v
    BY <2>1 DEF Refused
  <2>3. \A w \in devs : v <= w
    BY <2>1, <2>2, TeardownAssumption DEF Device
  <2>4. (CHOOSE x \in devs : \A w \in devs : x <= w) = v
    BY <2>1, <2>2, <2>3
  <2>5. HolderOf(s) = holder[v]
    BY <1>2, <2>4 DEF HolderOf
  <2> QED BY <2>1, <2>5
<1> QED BY <1>1, <1>2

(* Every entry of a derived table names a domain whose tables were emitted.  *)
LEMMA DerivedBorn ==
    ASSUME TeardownTypeOK, HoldersEmitted
    PROVE  \A s \in Sid : Derived[s] \in born \cup {Nobody}
<1>1. CASE Refused
  BY <1>1 DEF Derived, DenyAll
<1>2. CASE ~Refused
  <2>1. \A v \in Device : holder[v] \in born \cup {Nobody}
    BY <1>2 DEF Refused, HoldersEmitted
  <2>2. \A s \in Sid : HolderOf(s) \in born \cup {Nobody}
    BY <1>2, <2>1, HolderOfStream
  <2> QED BY <1>2, <2>2 DEF Derived
<1> QED BY <1>1, <1>2

(* Deriving the stream table gives every stream a domain or nobody. *)
LEMMA DerivedType ==
    ASSUME TeardownTypeOK, HoldersEmitted
    PROVE  Derived \in [Sid -> Dom \cup {Nobody}]
<1>1. Derived = [s \in Sid |-> Derived[s]]
  BY DEF Derived, DenyAll
<1> QED BY <1>1, DerivedBorn DEF TeardownTypeOK

(* While no dispatch is under way, whatever the SMMU may use names emitted   *)
(* domains.                                                                  *)
LEMMA UsableBorn ==
    ASSUME TeardownInv, pc = "idle"
    PROVE  /\ Usable \cap Dom \subseteq born
           /\ \A p \in tlb : p[1] \in born
<1>1. \A s \in Sid : strtab[s] \in born \cup {Nobody}
  BY DerivedBorn DEF TeardownInv, TableDerived
<1>2. \A s \in Sid : cfg[s] \in {Empty, strtab[s]}
  BY DEF TeardownInv, CachesFollow
<1>3. Usable \cap Dom \subseteq born
  BY <1>1, <1>2, MarkersNoDom DEF Usable
<1>4. \A p \in tlb : p[1] \in born
  <2> SUFFICES ASSUME NEW p \in tlb PROVE p[1] \in born
    OBVIOUS
  <2>1. p[1] \in Dom
    BY DEF TeardownInv, TeardownTypeOK
  <2>2. \E s \in Sid : strtab[s] = p[1]
    BY DEF TeardownInv, CachesFollow
  <2> QED BY <2>1, <2>2, <1>1, MarkersNoDom
<1> QED BY <1>3, <1>4

(* The funnel invariant holds at boot. *)
LEMMA TeardownInitInv == TeardownInit => TeardownInv
<1> SUFFICES ASSUME TeardownInit PROVE TeardownInv
  OBVIOUS
<1> USE MarkersNoDom DEF TeardownInit
<1>1. TeardownTypeOK
  BY DEF TeardownTypeOK, Phase, DenyAll
<1>2. TablesOwned /\ HoldersEmitted
  BY DEF TablesOwned, HoldersEmitted
<1>3. TableDerived
  <2>1. \A s \in Sid : ~Refused => HolderOf(s) = Nobody
    BY <1>1, HolderOfStream
  <2> QED BY <2>1 DEF TableDerived, Derived, DenyAll
<1>4. StaleHarmless
  BY DEF StaleHarmless, Usable, DenyAll
<1>5. CachesFollow /\ ShadowTracks
  BY DEF CachesFollow, ShadowTracks, Allocated
<1> QED BY <1>1, <1>2, <1>3, <1>4, <1>5 DEF TeardownInv

-----------------------------------------------------------------------------
(* A core call keeps what the SMMU holds and leaves the funnel at its scrub. *)
(* A frame changes hands only from nobody to a living domain or back to      *)
(* nobody, and then its former owner is no longer among the emitted domains. *)
LEMMA CoreCallInv ==
    ASSUME TeardownInv, Dispatched,
           alive' \subseteq Dom, born' \subseteq born, mapped' \subseteq Frame,
           owner' \in [Frame -> Dom \cup {Nobody}], holder' \in [Device -> Dom \cup {Nobody}],
           born' \subseteq alive',
           \A f \in Frame : \/ owner'[f] = owner[f]
                            \/ owner[f] = Nobody
                            \/ owner'[f] = Nobody /\ owner[f] \notin born',
           \A v \in Device : /\ holder'[v] \in alive' \cup {Nobody}
                             /\ \/ holder'[v] \in born' \cup {Nobody}
                                \/ holder'[v] \notin binding
    PROVE  TeardownInv'
<1> USE DEF TeardownInv, Dispatched, Idle, smmuVars, dataVars
<1>1. TeardownTypeOK'
  BY DEF TeardownTypeOK, Phase
<1>2. TablesOwned'
  BY MarkersNoDom DEF TablesOwned, TeardownTypeOK
<1>3. HoldersEmitted' /\ TableDerived'
  BY DEF HoldersEmitted, TableDerived
<1>4. StaleHarmless'
  <2>1. Usable' = Usable
    BY DEF Usable
  <2>2. ASSUME NEW d \in Usable \cap Dom, NEW f \in tables[d]
        PROVE  owner'[f] \in {d, Nobody}
    BY UsableBorn, MarkersNoDom DEF TablesOwned, TeardownTypeOK
  <2>3. ASSUME NEW p \in tlb
        PROVE  /\ owner'[p[2]] \in {p[1], Nobody}
               /\ p[1] \in born' => owner'[p[2]] = p[1]
    <3>1. p[1] \in Dom /\ p[2] \in Frame /\ p[1] \in born
      BY UsableBorn DEF TeardownTypeOK
    <3>2. owner[p[2]] = p[1]
      BY <3>1 DEF StaleHarmless
    <3> QED BY <3>1, <3>2, MarkersNoDom
  <2> QED BY <2>1, <2>2, <2>3 DEF StaleHarmless
<1>5. CachesFollow'
  BY DEF CachesFollow
<1>6. ShadowTracks'
  BY DEF ShadowTracks
<1> QED BY <1>1, <1>2, <1>3, <1>4, <1>5, <1>6

(* Each of the six calls has that shape.                                     *)
LEMMA CoreStepInv ==
    ASSUME TeardownInv,
           \/ \E d \in Dom : DomainCreate(d) \/ DomainDestroy(d)
           \/ \E d \in Dom, f \in Frame : P2mAllocate(d, f) \/ P2mLink(d, f)
           \/ \E v \in Device, d \in Dom : DeviceAssign(v, d)
           \/ \E v \in Device : DeviceRelease(v)
    PROVE  TeardownInv'
<1> USE DEF TeardownInv, TeardownTypeOK, TablesOwned, HoldersEmitted
<1>0. Dispatched => pc = "idle"
  BY DEF Dispatched, Idle
<1>1. ASSUME NEW d \in Dom, DomainCreate(d) PROVE TeardownInv'
  BY <1>0, <1>1, CoreCallInv DEF DomainCreate
<1>2. ASSUME NEW d \in Dom, DomainDestroy(d) PROVE TeardownInv'
  <2>1. \A f \in Frame : owner'[f] = IF owner[f] = d THEN Nobody ELSE owner[f]
    BY <1>2 DEF DomainDestroy
  <2>2. \A v \in Device : holder'[v] = IF holder[v] = d THEN Nobody ELSE holder[v]
    BY <1>2 DEF DomainDestroy
  <2>3. alive' = alive \ {d} /\ born' = born \ {d} /\ mapped' \subseteq mapped /\ Dispatched
    BY <1>2 DEF DomainDestroy
  <2>4. /\ owner' \in [Frame -> Dom \cup {Nobody}] /\ holder' \in [Device -> Dom \cup {Nobody}]
    BY <1>2 DEF DomainDestroy
  <2> QED BY <1>0, <2>1, <2>2, <2>3, <2>4, CoreCallInv
<1>3. ASSUME NEW d \in Dom, NEW f \in Frame, P2mAllocate(d, f) PROVE TeardownInv'
  BY <1>0, <1>3, CoreCallInv DEF P2mAllocate
<1>4. ASSUME NEW d \in Dom, NEW f \in Frame, P2mLink(d, f) PROVE TeardownInv'
  BY <1>0, <1>4, CoreCallInv DEF P2mLink
<1>5. ASSUME NEW v \in Device, NEW d \in Dom, DeviceAssign(v, d) PROVE TeardownInv'
  BY <1>0, <1>5, CoreCallInv DEF DeviceAssign
<1>6. ASSUME NEW v \in Device, DeviceRelease(v) PROVE TeardownInv'
  BY <1>0, <1>6, CoreCallInv DEF DeviceRelease
<1> QED BY <1>1, <1>2, <1>3, <1>4, <1>5, <1>6

(* The scrub zeroes the frames that left the shadow, so the guest's bytes    *)
(* are in allocated frames again.                                            *)
LEMMA ScrubInv == ASSUME TeardownInv, Scrub PROVE TeardownInv'
<1> USE DEF TeardownInv, Scrub, coreVars, smmuVars
<1>1. TeardownTypeOK' /\ TablesOwned' /\ HoldersEmitted' /\ TableDerived'
  BY DEF TeardownTypeOK, Phase, TablesOwned, HoldersEmitted, TableDerived, Allocated
<1>2. StaleHarmless' /\ CachesFollow'
  BY DEF StaleHarmless, CachesFollow, Usable
<1>3. ShadowTracks'
  BY DEF ShadowTracks, Allocated
<1> QED BY <1>1, <1>2, <1>3

(* A derivation that finds the table as it is ends the dispatch: then no     *)
(* entry and no translation in use names a destroyed domain.  Any other puts *)
(* emitted domains into the table and goes on to the invalidation.           *)
LEMMA DeriveInv == ASSUME TeardownInv, Derive PROVE TeardownInv'
<1> USE DEF TeardownInv, Derive, coreVars, dataVars
<1>0. /\ Derived' = Derived /\ (Refused' <=> Refused) /\ strtab' = Derived
      /\ pc = "derive" /\ pc' \in {"first", "parked", "idle"}
      /\ pc' = "idle" => ~Refused
      /\ pc' = "idle" => strtab = Derived
  BY DEF Derived, Refused, HolderOf, DenyAll
<1>1. TeardownTypeOK'
  BY <1>0, DerivedType DEF TeardownTypeOK, Phase
<1>2. TablesOwned'
  BY DEF TablesOwned
<1>3. HoldersEmitted'
  BY <1>0 DEF HoldersEmitted, Refused
<1>4. TableDerived'
  BY <1>0 DEF TableDerived
<1>5. StaleHarmless'
  <2>1. \A d \in Usable' \cap Dom : d \in born \/ d \in Usable
    BY <1>0, DerivedBorn, MarkersNoDom DEF Usable
  <2> QED BY <2>1 DEF StaleHarmless, TablesOwned
<1>6. CachesFollow'
  BY <1>0 DEF CachesFollow
<1>7. ShadowTracks'
  BY DEF ShadowTracks, Allocated
<1> QED BY <1>1, <1>2, <1>3, <1>4, <1>5, <1>6, <1>7

(* After CFGI_ALL every entry is fetched from the new table, and after       *)
(* TLBI_NSNH_ALL every translation is one of the entries of that table; a    *)
(* sync that times out parks the CPU with what is left.                      *)
LEMMA InvalidateInv ==
    ASSUME TeardownInv, InvalidateFirst \/ InvalidateSecond \/ SyncTimesOut
    PROVE  TeardownInv'
<1> USE DEF TeardownInv, Synced, coreVars, dataVars
<1>0. /\ UNCHANGED <<coreVars, strtab, dataVars, shadow, tables, binding, stream, outcome,
                     running, born>>
      /\ pc \in {"first", "second"} /\ pc' \in {"second", "idle", "parked"}
      /\ pc' = "idle" => pc = "second" /\ outcome # "refused" /\ tlb' = {}
      /\ pc' = "second" => pc = "first" /\ cfg' = [s \in Sid |-> Empty]
      /\ cfg' \in {cfg, [s \in Sid |-> Empty]} /\ tlb' \in {tlb, {}}
      /\ pc' = "idle" => cfg' = cfg
  BY DEF InvalidateFirst, InvalidateSecond, SyncTimesOut, Execute, Invalidations, Ended
<1>1. Derived' = Derived /\ (Refused' <=> Refused)
  BY <1>0 DEF Derived, Refused, HolderOf, DenyAll
<1>2. TeardownTypeOK' /\ TablesOwned'
  BY <1>0 DEF TeardownTypeOK, TablesOwned, Phase
<1>3. HoldersEmitted' /\ TableDerived'
  BY <1>0, <1>1 DEF HoldersEmitted, TableDerived, Refused
<1>4. StaleHarmless'
  <2>1. Usable' \cap Dom \subseteq Usable \cap Dom
    BY <1>0, MarkersNoDom DEF Usable
  <2> QED BY <1>0, <2>1 DEF StaleHarmless
<1>5. CachesFollow'
  BY <1>0 DEF CachesFollow
<1>6. ShadowTracks'
  BY <1>0 DEF ShadowTracks, Allocated
<1> QED BY <1>2, <1>3, <1>4, <1>5, <1>6

(* An emission gives the domain tables over its own frames.  It may be the   *)
(* first one of a reborn domain: nothing the SMMU can use names it then.     *)
LEMMA EmitInv == ASSUME TeardownInv, NEW d \in Dom, Emit(d) PROVE TeardownInv'
<1> USE DEF TeardownInv, Emit, coreVars, smmuVars, dataVars
<1>0. /\ pc = "idle" /\ pc' = "idle" /\ shadow = Allocated /\ Allocated' = Allocated
      /\ tables' = [tables EXCEPT ![d] = {f \in mapped : owner[f] = d}]
      /\ binding' = binding \cup {d} /\ born' = born \cup {d} /\ d \in alive
  BY DEF ShadowTracks, Idle, Allocated
<1>1. TeardownTypeOK'
  BY <1>0 DEF TeardownTypeOK
<1>2. TablesOwned'
  BY <1>0 DEF TablesOwned, TeardownTypeOK
<1>3. HoldersEmitted'
  BY <1>0 DEF HoldersEmitted
<1>4. TableDerived'
  <2>1. Refused' <=> Refused
    BY <1>0 DEF Refused, HoldersEmitted, TablesOwned
  <2>2. \A s \in Sid : HolderOf(s)' = HolderOf(s)
    BY DEF HolderOf
  <2>3. Derived' = Derived
    BY <2>1, <2>2 DEF Derived, DenyAll
  <2> QED BY <1>0, <2>1, <2>3 DEF TableDerived
<1>5. StaleHarmless'
  <2>1. Usable' = Usable
    BY DEF Usable
  <2>2. \A e \in Usable \cap Dom : \A f \in tables'[e] : owner[f] = e
    BY <1>0, UsableBorn DEF TablesOwned, TeardownTypeOK
  <2>3. \A p \in tlb : owner[p[2]] = p[1]
    BY <1>0, UsableBorn DEF StaleHarmless
  <2> QED BY <2>1, <2>2, <2>3 DEF StaleHarmless
<1>6. CachesFollow' /\ ShadowTracks'
  BY <1>0 DEF CachesFollow, ShadowTracks
<1> QED BY <1>1, <1>2, <1>3, <1>4, <1>5, <1>6

(* A guest writes through the tables just emitted for it, into its own       *)
(* frames, which the shadow holds.                                           *)
LEMMA GuestInv ==
    ASSUME TeardownInv,
           \/ \E d \in Dom : EnterGuest(d)
           \/ LeaveGuest
           \/ \E f \in Frame : GuestWrites(f)
    PROVE  TeardownInv'
<1> USE DEF TeardownInv, coreVars, smmuVars, dataVars
<1>0. /\ UNCHANGED <<coreVars, smmuVars, dma, shadow, tables, binding, stream, pc, outcome, born>>
      /\ running' \in Dom \cup {Nobody} /\ cpu' \subseteq Frame
      /\ running' # Nobody => pc = "idle" /\ running' \in born
      /\ cpu' \subseteq shadow
  <2>1. ASSUME NEW d \in Dom, EnterGuest(d) PROVE <1>0!:
    BY <2>1 DEF EnterGuest, Idle, ShadowTracks, TeardownTypeOK
  <2>2. ASSUME LeaveGuest PROVE <1>0!:
    BY <2>2 DEF LeaveGuest, Idle, ShadowTracks, TeardownTypeOK
  <2>3. ASSUME NEW f \in Frame, GuestWrites(f) PROVE <1>0!:
    <3>1. running \in Dom /\ owner[f] = running /\ shadow = Allocated
      BY <2>3 DEF GuestWrites, ShadowTracks, TablesOwned, TeardownTypeOK
    <3>2. f \in shadow
      BY <3>1, MarkersNoDom DEF Allocated
    <3> QED BY <2>3, <3>2 DEF GuestWrites, ShadowTracks, TeardownTypeOK
  <2> QED BY <2>1, <2>2, <2>3
<1>1. TeardownTypeOK' /\ TablesOwned' /\ HoldersEmitted'
  BY <1>0 DEF TeardownTypeOK, TablesOwned, HoldersEmitted
<1>2. TableDerived'
  <2>1. Derived' = Derived /\ (Refused' <=> Refused)
    BY <1>0 DEF Derived, Refused, HolderOf, DenyAll
  <2> QED BY <1>0, <2>1 DEF TableDerived
<1>3. StaleHarmless' /\ CachesFollow'
  BY <1>0 DEF StaleHarmless, CachesFollow, Usable
<1>4. ShadowTracks'
  BY <1>0 DEF ShadowTracks, Allocated
<1> QED BY <1>1, <1>2, <1>3, <1>4

(* The SMMU caches entries of the table and translations of the tables those *)
(* entries name; a device writes through them.                               *)
LEMMA HardwareInv == ASSUME TeardownInv, SmmuNext PROVE TeardownInv'
<1> USE DEF TeardownInv, Hardware, coreVars
<1>0. Hardware
  BY DEF SmmuNext, FetchEntry, FillTlb, DeviceWrites
<1>1. TablesOwned' /\ HoldersEmitted' /\ ShadowTracks'
  BY <1>0 DEF TablesOwned, HoldersEmitted, ShadowTracks, Allocated
<1>2. TableDerived'
  BY <1>0 DEF TableDerived, Derived, Refused, HolderOf, DenyAll
<1>3. TeardownTypeOK' /\ StaleHarmless' /\ CachesFollow'
  <2>1. ASSUME NEW s \in Sid, FetchEntry(s) PROVE <1>3
    <3>1. Usable' \subseteq Usable
      BY <2>1, <1>0 DEF FetchEntry, Usable, TeardownTypeOK
    <3> QED BY <2>1, <1>0, <3>1 DEF FetchEntry, TeardownTypeOK, StaleHarmless, CachesFollow
  <2>2. ASSUME NEW s \in Sid, NEW f \in Frame, FillTlb(s, f) PROVE <1>3
    <3>1. Usable' = Usable /\ cfg[s] \in Usable \cap Dom
      BY <2>2, <1>0 DEF FillTlb, Usable
    <3>2. /\ owner[f] \in {cfg[s], Nobody}
          /\ cfg[s] \in born => owner[f] = cfg[s]
      BY <2>2, <3>1 DEF FillTlb, StaleHarmless, TablesOwned
    <3>3. StaleHarmless'
      BY <2>2, <1>0, <3>1, <3>2 DEF FillTlb, StaleHarmless
    <3>4. CachesFollow'
      BY <2>2, <1>0, MarkersNoDom DEF FillTlb, CachesFollow
    <3>5. TeardownTypeOK'
      BY <2>2, <1>0 DEF FillTlb, TeardownTypeOK
    <3> QED BY <3>3, <3>4, <3>5
  <2>3. ASSUME NEW s \in Sid, NEW f \in Frame, DeviceWrites(s, f) PROVE <1>3
    BY <2>3, <1>0 DEF DeviceWrites, TeardownTypeOK, StaleHarmless, CachesFollow, Usable
  <2> QED BY <2>1, <2>2, <2>3 DEF SmmuNext
<1> QED BY <1>1, <1>2, <1>3

(* Every statement of the funnel and every step of the SMMU keeps the invariant. *)
LEMMA TeardownStepInv ==
    TeardownInv /\ [El2Next \/ SmmuNext]_teardownVars => TeardownInv'
<1> SUFFICES ASSUME TeardownInv, [El2Next \/ SmmuNext]_teardownVars PROVE TeardownInv'
  OBVIOUS
<1>1. CASE El2Next
  BY <1>1, CoreStepInv, ScrubInv, DeriveInv, InvalidateInv, EmitInv, GuestInv DEF El2Next
<1>2. CASE SmmuNext
  BY <1>2, HardwareInv
<1>3. CASE UNCHANGED teardownVars
  BY <1>3 DEF teardownVars, coreVars, smmuVars, dataVars, TeardownInv, TeardownTypeOK,
     TablesOwned, HoldersEmitted, TableDerived, Derived, Refused, HolderOf, DenyAll,
     StaleHarmless, Usable, CachesFollow, ShadowTracks, Allocated
<1> QED BY <1>1, <1>2, <1>3

-----------------------------------------------------------------------------
(* The inductive invariant holds in every reachable state.                   *)
THEOREM FunnelInvariant == TeardownSpec => []TeardownInv
<1> QED BY TeardownInitInv, TeardownStepInv, PTL DEF TeardownSpec

(* What DmaConfined says follows from it: at rest the entry in use is the    *)
(* one derived, its domain was emitted, and the tables and translations of   *)
(* an emitted domain lead to its own frames.                                 *)
LEMMA InvConfines == TeardownInv => DmaConfined
<1> SUFFICES ASSUME TeardownInv, NEW s \in Sid, NEW f \in Reach(s)
             PROVE  /\ owner[f] \in {EntryOf(s), Nobody}
                    /\ Idle => owner[f] = HolderOf(s) /\ HolderOf(s) # Nobody
  BY DEF DmaConfined
<1> USE DEF TeardownInv
<1>1. EntryOf(s) \in Usable \cap Dom
  BY DEF Reach, EntryOf, Usable, TeardownTypeOK
<1>2. f \in tables[EntryOf(s)] \/ <<EntryOf(s), f>> \in tlb
  BY DEF Reach
<1>3. owner[f] \in {EntryOf(s), Nobody}
  BY <1>1, <1>2 DEF StaleHarmless
<1>4. ASSUME Idle PROVE owner[f] = HolderOf(s) /\ HolderOf(s) # Nobody
  <2>1. EntryOf(s) \in born
    BY <1>1, <1>4, UsableBorn DEF Idle
  <2>2. owner[f] = EntryOf(s)
    BY <1>2, <2>1 DEF StaleHarmless, TablesOwned
  <2>3. EntryOf(s) = strtab[s] /\ strtab = Derived
    BY <1>4 DEF Idle, EntryOf, CachesFollow, TableDerived
  <2>4. EntryOf(s) = HolderOf(s)
    BY <1>1, <2>3, MarkersNoDom DEF Derived, DenyAll
  <2> QED BY <1>1, <2>2, <2>4, MarkersNoDom
<1> QED BY <1>3, <1>4

(* No device reaches into another domain's memory at any point of a          *)
(* dispatch, and at rest only into the memory of the domain that holds it,   *)
(* whatever the SMMU cached meanwhile (teardown.rs, smmu.rs rederive).       *)
THEOREM DmaAlwaysConfined == TeardownSpec => []DmaConfined
<1> QED BY FunnelInvariant, InvConfines, PTL

(* A frame with a guest's bytes has an owner whenever a dispatch has         *)
(* returned: the scrub of the funnel (teardown.rs) misses none.              *)
THEOREM GuestBytesAlwaysScrubbed == TeardownSpec => []GuestBytesScrubbed
<1>1. TeardownInv => GuestBytesScrubbed
  BY DEF TeardownInv, ShadowTracks, GuestBytesScrubbed, Idle
<1> QED BY <1>1, FunnelInvariant, PTL

(* The emission's cross-check of the shadow against the page-ownership model *)
(* (build_stage2_from_p2m, which halts the machine on a difference) never    *)
(* fails.                                                                    *)
THEOREM EmissionNeverHalts == TeardownSpec => [](Idle => shadow = Allocated)
<1>1. TeardownInv => (Idle => shadow = Allocated)
  BY DEF TeardownInv, ShadowTracks, Idle
<1> QED BY <1>1, FunnelInvariant, PTL
=============================================================================
