--------------------------- MODULE LinuxRunProofs ---------------------------
(* The guest loop of hv-metal, for every number of guests, vCPUs and list    *)
(* registers: the machine stays up, the underflow interrupt and the physical *)
(* timer are never out of step with the running vCPU, and list registers,    *)
(* pending sets and context switches together implement the mailboxes.       *)
EXTENDS LinuxRun, FiniteSetTheorems, TLAPS

-----------------------------------------------------------------------------
(* The inductive invariant *)

RunStates == {"Offline", "Runnable", "Running", "Blocked"}
Intid == Sgis \union {VTIMER, WitnessSpi}
Lr == [id : Intid \union {NoVcpu}, state : {"Invalid", "Pending", "Active"}, hw : BOOLEAN]
Bank == [LrIds -> Lr]

LinuxTypeOK ==
    /\ sched \in [VcpuIds -> RunStates] /\ current \in VcpuIds
    /\ seeded \in [VcpuIds -> BOOLEAN]
    /\ retired \in [Guests -> {"Live", "PoweredOff", "Faulted"}]
    /\ phase \in {"Guest", "Over", "PeerfaultFail", "Parked"}
    /\ live \in Bank /\ saved \in [VcpuIds -> Bank]
    /\ pending \in [VcpuIds -> SUBSET Intid] /\ uie \in BOOLEAN
    /\ ppi \in [enabled : BOOLEAN, active : BOOLEAN]
    /\ expired \in [VcpuIds -> BOOLEAN]
    /\ gic \in [Guests -> GicFile]
    /\ witness \in [Guests -> {"Unarmed", "Armed", "Fired"}]
    /\ peerFaults \in [Guests -> Nat] /\ header \in [Guests -> BOOLEAN]

(* A guest that has not retired still has its boot vCPU, since nothing takes *)
(* a vCPU offline but the end of its guest; and a vCPU not yet started has   *)
(* nothing in its saved context.                                             *)
BootVcpuKept == \A g \in Guests : retired[g] = "Live" => sched[Boot(g)] # "Offline"
ColdIsEmpty ==
    \A v \in VcpuIds : (sched[v] = "Offline" /\ retired[GuestOf(v)] = "Live")
                           => v = current \/ saved[v] = EmptyBank

(* TimerLineOwned without counting.                                          *)
TimerClaims ==
    /\ \A v \in VcpuIds \ {current} : \A k \in LrIds : ~saved[v][k].hw
    /\ phase = "Guest" =>
          /\ \A j, k \in LrIds : live[j].hw /\ live[k].hw => j = k
          /\ \A k \in LrIds : live[k].hw => live[k].id = VTIMER /\ ppi.active
          /\ TimerEnabled(current) => ppi.enabled

LinuxInv ==
    /\ LinuxTypeOK /\ MachineUp /\ BootVcpuKept /\ ColdIsEmpty
    /\ UnderflowArmedExactly /\ TimerClaims

-----------------------------------------------------------------------------
(* Numbers: least elements, the packed index, the rotation *)

(* A set of naturals that is not empty has a least element, which Min picks. *)
LEMMA MinFacts ==
    ASSUME NEW S \in SUBSET Nat, S # {}
    PROVE  Min(S) \in S /\ \A y \in S : Min(S) <= y
<1>1. PICK x \in S : \A y \in S : ~(<<y, x>> \in OpToRel(<, Nat))
  BY NatLessThanWellFounded, WFMin
<1>2. \A y \in S : ~(y < x)
  BY <1>1 DEF OpToRel
<1>3. \A y \in S : x <= y
  BY <1>2
<1> QED BY <1>3 DEF Min

(* A packed index splits into its guest and its affinity, and every guest    *)
(* has a boot vCPU (role.rs).                                                *)
LEMMA IndexFacts ==
    /\ \A v \in VcpuIds : GuestOf(v) \in Guests /\ AffinityOf(v) \in Affinities
    /\ \A g \in Guests : Boot(g) \in VcpuIds /\ GuestOf(Boot(g)) = g /\ AffinityOf(Boot(g)) = 0
    /\ \A v \in VcpuIds : AffinityOf(v) = 0 => v = Boot(GuestOf(v))
    /\ 0 \in VcpuIds /\ NoVcpu \notin VcpuIds
<1> USE LinuxRunAssumption, VirtGicAssumption
<1>1. \A v \in VcpuIds : GuestOf(v) \in Guests /\ AffinityOf(v) \in Affinities
  BY DEF VcpuIds, GuestOf, Guests, AffinityOf, Affinities
<1>2. \A g \in Guests : Boot(g) \in VcpuIds /\ GuestOf(Boot(g)) = g /\ AffinityOf(Boot(g)) = 0
  BY DEF VcpuIds, GuestOf, Guests, Boot, AffinityOf
<1>3. \A v \in VcpuIds : AffinityOf(v) = 0 => v = Boot(GuestOf(v))
  BY DEF VcpuIds, GuestOf, Boot, AffinityOf
<1>4. 0 \in VcpuIds /\ NoVcpu \notin VcpuIds
  BY DEF VcpuIds, NoVcpu
<1> QED BY <1>1, <1>2, <1>3, <1>4

(* Going round n places from v, every place is met.                          *)
LEMMA RoundTrip ==
    ASSUME NEW n \in Nat \ {0}, NEW v \in 0 .. n - 1, NEW w \in 0 .. n - 1
    PROVE  \E k \in 1 .. n : (v + k) % n = w
<1>1. CASE w > v
  <2>1. (v + (w - v)) % n = w
    BY <1>1
  <2> QED BY <1>1, <2>1
<1>2. CASE w <= v
  <2>1. (v + (w - v + n)) % n = w
    BY <1>2
  <2> QED BY <1>2, <2>1
<1> QED BY <1>1, <1>2

(* The rotation visits every vCPU.                                           *)
LEMMA RotationReaches ==
    ASSUME NEW v \in VcpuIds
    PROVE  /\ DOMAIN Rotation(v) \in SUBSET Nat
           /\ \A k \in DOMAIN Rotation(v) : Rotation(v)[k] \in VcpuIds
           /\ \A w \in VcpuIds : \E k \in DOMAIN Rotation(v) : Rotation(v)[k] = w
<1> DEFINE n == NumGuests * VcpusPerGuest
<1>1. n \in Nat \ {0}
  BY LinuxRunAssumption, VirtGicAssumption
<1>2. VcpuIds = 0 .. n - 1 /\ Rotation(v) = [k \in 1 .. n |-> (v + k) % n]
  BY DEF VcpuIds, Rotation
<1> HIDE DEF n
<1>3. \A k \in 1 .. n : (v + k) % n \in 0 .. n - 1
  BY <1>1, <1>2
<1>4. \A w \in VcpuIds : \E k \in 1 .. n : (v + k) % n = w
  BY <1>1, <1>2, RoundTrip
<1>5. 1 .. n \in SUBSET Nat /\ DOMAIN Rotation(v) = 1 .. n
  BY <1>1, <1>2
<1>6. \A k \in 1 .. n : Rotation(v)[k] = (v + k) % n
  BY <1>2
<1> QED BY <1>2, <1>3, <1>4, <1>5, <1>6

(* next_runnable finds a Runnable vCPU whenever there is one.                *)
LEMMA NextRunnableFacts ==
    ASSUME NEW st, NEW v \in VcpuIds
    PROVE  /\ NextRunnable(st, v) = NoVcpu => \A w \in VcpuIds : st[w] # "Runnable"
           /\ NextRunnable(st, v) # NoVcpu =>
                  NextRunnable(st, v) \in VcpuIds /\ st[NextRunnable(st, v)] = "Runnable"
<1> DEFINE steps == {k \in DOMAIN Rotation(v) : st[Rotation(v)[k]] = "Runnable"}
<1>1. NextRunnable(st, v) = IF steps = {} THEN NoVcpu ELSE Rotation(v)[Min(steps)]
  BY DEF NextRunnable
<1>2. steps # {} => Min(steps) \in steps
  BY RotationReaches, MinFacts
<1>3. steps # {} => Rotation(v)[Min(steps)] \in VcpuIds
  BY <1>2, RotationReaches
<1>4. steps = {} => \A w \in VcpuIds : st[w] # "Runnable"
  BY RotationReaches
<1>5. steps # {} => st[Rotation(v)[Min(steps)]] = "Runnable"
  BY <1>2
<1> HIDE DEF steps
<1> QED BY <1>1, <1>3, <1>4, <1>5, IndexFacts

-----------------------------------------------------------------------------
(* Ranks.  flush_pending_to_lrs walks the free registers and the waiting     *)
(* interrupts in step; the model says which interrupt meets which register   *)
(* by counting the smaller ones.                                             *)
Rank(S, i) == Cardinality({j \in S : j < i})

(* The rank of a member of a finite set is below its size and tells members apart. *)
LEMMA RankFacts ==
    ASSUME NEW S \in SUBSET Nat, IsFiniteSet(S)
    PROVE  /\ \A i \in Nat : Rank(S, i) \in Nat
           /\ \A i \in S : Rank(S, i) < Cardinality(S)
           /\ \A i, j \in S : i < j => Rank(S, i) < Rank(S, j)
           /\ \A i, j \in S : Rank(S, i) = Rank(S, j) => i = j
<1>1. ASSUME NEW i \in Nat
      PROVE  /\ IsFiniteSet({j \in S : j < i}) /\ Rank(S, i) \in Nat
             /\ Rank(S, i) <= Cardinality(S)
             /\ i \in S => Rank(S, i) # Cardinality(S)
  <2>1. /\ IsFiniteSet({j \in S : j < i}) /\ Rank(S, i) <= Cardinality(S)
        /\ Cardinality(S) = Rank(S, i) => S = {j \in S : j < i}
    BY FS_Subset DEF Rank
  <2>2. Rank(S, i) \in Nat
    BY <2>1, FS_CardinalityType DEF Rank
  <2> QED BY <2>1, <2>2
<1>2. Cardinality(S) \in Nat
  BY FS_CardinalityType
<1>3. ASSUME NEW i \in S, NEW j \in S, i < j
      PROVE  Rank(S, i) < Rank(S, j)
  <2> DEFINE A == {k \in S : k < i}
             B == {k \in S : k < j}
  <2>0. S \subseteq Nat /\ i \in Nat /\ j \in Nat
    OBVIOUS
  <2>1. A \in SUBSET B /\ i \in B /\ i \notin A
    <3>1. ASSUME NEW k \in A PROVE k \in B
      <4>1. k \in S /\ k \in Nat /\ k < i
        BY <2>0
      <4> QED BY <1>3, <2>0, <4>1
    <3>2. i \in B /\ i \notin A
      BY <1>3, <2>0
    <3> QED BY <3>1, <3>2
  <2>2. IsFiniteSet(B)
    BY <1>1
  <2>3. Cardinality(A) <= Cardinality(B) /\ Cardinality(B) # Cardinality(A)
    BY <2>1, <2>2, FS_Subset
  <2>4. Cardinality(A) = Rank(S, i) /\ Cardinality(B) = Rank(S, j)
    BY DEF Rank
  <2>5. Rank(S, i) \in Nat /\ Rank(S, j) \in Nat
    BY <1>1
  <2> HIDE DEF A, B
  <2> QED BY <2>3, <2>4, <2>5
<1>4. \A i \in Nat : Rank(S, i) \in Nat
  BY <1>1
<1>5. ASSUME NEW i \in S PROVE Rank(S, i) < Cardinality(S)
  <2>1. i \in Nat
    OBVIOUS
  <2>2. Rank(S, i) \in Nat /\ Rank(S, i) <= Cardinality(S) /\ Rank(S, i) # Cardinality(S)
    BY <1>1, <2>1
  <2> QED BY <1>2, <2>2
<1>6. \A i, j \in S : Rank(S, i) = Rank(S, j) => i = j
  <2> SUFFICES ASSUME NEW i \in S, NEW j \in S, Rank(S, i) = Rank(S, j), i # j
               PROVE  FALSE
    OBVIOUS
  <2>1. i < j \/ j < i
    OBVIOUS
  <2> QED BY <1>3, <1>4, <2>1
<1> QED BY <1>3, <1>4, <1>5, <1>6

(* Every rank below the size of a set is taken: count the elements of a      *)
(* smaller rank; the least of the others comes right after them.             *)
LEMMA RankTaken ==
    ASSUME NEW S \in SUBSET Nat, IsFiniteSet(S), NEW n \in Nat, n < Cardinality(S)
    PROVE  \E i \in S : Rank(S, i) = n
<1> DEFINE A == {i \in S : Rank(S, i) < n}
<1>0. Cardinality(S) \in Nat
  BY FS_CardinalityType
<1>1. IsFiniteSet(A) /\ Cardinality(A) \in Nat /\ Cardinality(A) <= n
  <2>0. IsFiniteSet(0 .. n - 1) /\ Cardinality(0 .. n - 1) = n
    <3>1. 0 \in Int /\ n - 1 \in Int
      OBVIOUS
    <3>2. /\ IsFiniteSet(0 .. n - 1)
          /\ Cardinality(0 .. n - 1) = IF 0 > n - 1 THEN 0 ELSE (n - 1) - 0 + 1
      BY <3>1, FS_Interval
    <3> QED BY <3>2
  <2>1. IsFiniteSet(A) /\ Cardinality(A) \in Nat
    BY FS_Subset, FS_CardinalityType
  <2>2. SUFFICES ASSUME n < Cardinality(A) PROVE FALSE
    BY <2>1
  <2> DEFINE f == [i \in A |-> Rank(S, i)]
  <2>3. f \in [A -> 0 .. n - 1]
    <3>1. \A i \in A : i \in Nat /\ Rank(S, i) < n
      OBVIOUS
    <3>2. \A i \in A : Rank(S, i) \in Nat
      BY <3>1, RankFacts
    <3>3. \A i \in A : Rank(S, i) \in 0 .. n - 1
      BY <3>1, <3>2
    <3> QED BY <3>3
  <2>4. \E i, j \in A : i # j /\ f[i] = f[j]
    <3> HIDE DEF f, A
    <3> QED BY <2>0, <2>1, <2>2, <2>3, FS_PigeonHole
  <2> QED BY <2>4, RankFacts
<1>2. S \ A # {}
  <2> SUFFICES ASSUME S \subseteq A PROVE FALSE
    OBVIOUS
  <2>1. A = S
    OBVIOUS
  <2> QED BY <1>0, <1>1, <2>1
<1>3. PICK m \in S \ A : \A y \in S \ A : m <= y
  <2>1. S \ A \in SUBSET Nat
    OBVIOUS
  <2> QED BY <1>2, <2>1, MinFacts
<1>4. {j \in S : j < m} = A
  <2>1. ASSUME NEW j \in S, j < m PROVE j \in A
    BY <1>3, <2>1
  <2>2. ASSUME NEW j \in A PROVE j < m
    <3> SUFFICES ASSUME ~(j < m) PROVE FALSE
      OBVIOUS
    <3>1. m < j
      BY <1>3
    <3>2. Rank(S, m) < Rank(S, j) /\ Rank(S, m) \in Nat /\ Rank(S, j) \in Nat
      BY <3>1, RankFacts
    <3>3. Rank(S, j) < n /\ ~(Rank(S, m) < n)
      BY <1>3
    <3> QED BY <3>2, <3>3
  <2> QED BY <2>1, <2>2
<1>5. Rank(S, m) = Cardinality(A)
  BY <1>4 DEF Rank
<1>6. ~(Rank(S, m) < n)
  BY <1>3
<1> QED BY <1>1, <1>3, <1>5, <1>6

(* Nth picks the element of its rank.                                        *)
LEMMA NthFacts ==
    ASSUME NEW S \in SUBSET Nat, IsFiniteSet(S)
    PROVE  /\ \A n \in Nat : n < Cardinality(S) => Nth(S, n) \in S
           /\ \A i \in S : Nth(S, Rank(S, i)) = i
<1>1. ASSUME NEW n \in Nat, n < Cardinality(S) PROVE Nth(S, n) \in S
  BY <1>1, RankTaken DEF Nth, Rank
<1>2. ASSUME NEW i \in S PROVE Nth(S, Rank(S, i)) = i
  <2>1. \E j \in S : Rank(S, j) = Rank(S, i)
    OBVIOUS
  <2>2. \A m : (\E j \in S : Rank(S, j) = m) => Nth(S, m) \in S /\ Rank(S, Nth(S, m)) = m
    BY DEF Nth, Rank
  <2>3. PICK x \in S : x = Nth(S, Rank(S, i)) /\ Rank(S, x) = Rank(S, i)
    BY <2>1, <2>2
  <2> QED BY <2>3, RankFacts
<1> QED BY <1>1, <1>2

-----------------------------------------------------------------------------
(* List registers *)

(* Registers and interrupts are finite sets of naturals.                     *)
LEMMA Finiteness ==
    /\ Intid \in SUBSET Nat /\ IsFiniteSet(Intid)
    /\ LrIds \in SUBSET Nat /\ IsFiniteSet(LrIds)
    /\ NoVcpu \notin Intid
<1>1. Intid \in SUBSET Nat /\ (\A i \in Intid : i <= 33) /\ 33 \in Nat
  BY LinuxRunAssumption DEF Intid, VTIMER, WitnessSpi
<1>2. IsFiniteSet(Intid)
  BY <1>1, FS_BoundedSetOfNaturals
<1>3. LrIds \in SUBSET Nat /\ (\A k \in LrIds : k <= NumLr) /\ NumLr \in Nat
  BY LinuxRunAssumption DEF LrIds
<1>4. IsFiniteSet(LrIds)
  BY <1>3, FS_BoundedSetOfNaturals
<1> QED BY <1>1, <1>2, <1>3, <1>4 DEF NoVcpu

(* An interrupt is held by a bank in a state when some register says so.     *)
LEMMA HeldBy ==
    \A bank, st, x : x \in Held(bank, st) <=>
        \E k \in LrIds : bank[k].state = st /\ bank[k].id = x
  BY DEF Held

(* A freshly written list register is Pending and names its interrupt. *)
LEMMA PendingLrFacts ==
    ASSUME NEW i \in Intid, NEW hw \in BOOLEAN
    PROVE  /\ PendingLr(i, hw).id = i /\ PendingLr(i, hw).state = "Pending"
           /\ PendingLr(i, hw).hw = hw
           /\ PendingLr(i, hw) \in Lr
  BY DEF PendingLr, Lr

(* An unwritten list register holds nothing, and neither does the empty bank. *)
LEMMA NoLrFacts ==
    /\ NoLr.id = NoVcpu /\ NoLr.state = "Invalid" /\ NoLr.hw = FALSE
    /\ NoLr \in Lr
    /\ EmptyBank \in Bank /\ \A k \in LrIds : EmptyBank[k].hw = FALSE
    /\ \A st : st # "Invalid" => Held(EmptyBank, st) = {}
  BY DEF NoLr, EmptyBank, Bank, Lr, Held

(* A flush moves interrupts from the pending set into free registers and     *)
(* loses none, invents none and touches no register in use.                  *)
LEMMA FlushFacts ==
    ASSUME NEW bank \in Bank, NEW set \in SUBSET Intid
    PROVE  /\ FlushedBank(bank, set) \in Bank
           /\ FlushedSet(bank, set) \in SUBSET set
           /\ \A k \in LrIds : FlushedBank(bank, set)[k].hw =>
                                   FlushedBank(bank, set)[k] = bank[k]
           /\ Held(FlushedBank(bank, set), "Pending") \union FlushedSet(bank, set)
                  = Held(bank, "Pending") \union set
           /\ Held(FlushedBank(bank, set), "Active") = Held(bank, "Active")
<1> DEFINE F == FreeLrs(bank)
           fb == FlushedBank(bank, set)
           filled == {k \in F : Rank(F, k) < Cardinality(set)}
<1>1. F \in SUBSET LrIds /\ F \in SUBSET Nat /\ IsFiniteSet(F) /\ Cardinality(F) \in Nat
  <2>1. F \in SUBSET LrIds
    BY DEF FreeLrs
  <2> QED BY <2>1, Finiteness, FS_Subset, FS_CardinalityType
<1>2. set \in SUBSET Nat /\ IsFiniteSet(set) /\ Cardinality(set) \in Nat
  BY Finiteness, FS_Subset, FS_CardinalityType
<1>3. \A k \in F : bank[k].state = "Invalid"
  BY DEF FreeLrs
<1>4. \A k \in LrIds : fb[k] = IF k \in filled THEN PendingLr(Nth(set, Rank(F, k)), FALSE)
                               ELSE bank[k]
  BY DEF FlushedBank, Rank
<1>5. filled \subseteq LrIds /\ \A k \in filled : /\ Nth(set, Rank(F, k)) \in set
                                                  /\ Nth(set, Rank(F, k)) \in Intid
  <2>1. \A k \in F : Rank(F, k) \in Nat
    BY <1>1, RankFacts
  <2> QED BY <1>1, <1>2, <2>1, NthFacts
<1>6. fb = [k \in LrIds |-> fb[k]]
  BY DEF FlushedBank
<1>7. FlushedSet(bank, set) = {i \in set : Rank(set, i) >= Cardinality(F)}
  BY DEF FlushedSet, Rank
<1>a. \A k \in F : Rank(F, k) < Cardinality(set) => k \in filled
  OBVIOUS
<1>b. \A k \in filled : bank[k].state = "Invalid"
  BY <1>3
<1> HIDE DEF F, fb, filled
<1>c. \A k \in filled : /\ fb[k].id = Nth(set, Rank(F, k)) /\ fb[k].state = "Pending"
                        /\ fb[k].hw = FALSE
                        /\ fb[k] \in Lr
  <2> SUFFICES ASSUME NEW k \in filled
               PROVE  /\ fb[k].id = Nth(set, Rank(F, k)) /\ fb[k].state = "Pending"
                      /\ fb[k].hw = FALSE
                      /\ fb[k] \in Lr
    OBVIOUS
  <2>1. PICK i \in Intid : i = Nth(set, Rank(F, k)) /\ fb[k] = PendingLr(i, FALSE)
    BY <1>4, <1>5
  <2>2. fb[k] = [id |-> i, state |-> "Pending", hw |-> FALSE]
    BY <2>1 DEF PendingLr
  <2>3. fb[k] \in Lr
    BY <2>2 DEF Lr
  <2>4. fb[k].id = i
    BY <2>2
  <2>5. fb[k].state = "Pending"
    BY <2>2
  <2>6. fb[k].hw = FALSE
    BY <2>2
  <2> QED BY <2>1, <2>3, <2>4, <2>5, <2>6
<1>d. \A k \in LrIds \ filled : fb[k] = bank[k]
  BY <1>4
<1>8. fb \in Bank
  <2>1. \A k \in LrIds : fb[k] \in Lr
    BY <1>c, <1>d DEF Bank
  <2> QED BY <1>6, <2>1 DEF Bank
<1>9. \A k \in LrIds : fb[k].hw => fb[k] = bank[k]
  BY <1>c, <1>d
<1>10. Held(fb, "Pending") \union FlushedSet(bank, set) = Held(bank, "Pending") \union set
  <2>1. ASSUME NEW x \in Held(fb, "Pending") PROVE x \in Held(bank, "Pending") \union set
    <3>1. PICK k \in LrIds : fb[k].state = "Pending" /\ fb[k].id = x
      BY HeldBy
    <3>2. CASE k \in filled
      BY <1>5, <1>c, <3>1, <3>2
    <3>3. CASE k \notin filled
      BY <1>d, <3>1, <3>3, HeldBy
    <3> QED BY <3>2, <3>3
  <2>2. ASSUME NEW x \in Held(bank, "Pending") PROVE x \in Held(fb, "Pending")
    <3>1. PICK k \in LrIds : bank[k].state = "Pending" /\ bank[k].id = x
      BY HeldBy
    <3>2. k \notin filled
      BY <1>b, <3>1
    <3> QED BY <1>d, <3>1, <3>2, HeldBy
  <2>3. ASSUME NEW x \in set, x \notin FlushedSet(bank, set) PROVE x \in Held(fb, "Pending")
    <3>1. x \in Nat /\ Rank(set, x) \in Nat /\ Rank(set, x) < Cardinality(set)
      BY <1>2, RankFacts
    <3>2. Rank(set, x) < Cardinality(F)
      BY <1>1, <1>7, <2>3, <3>1
    <3>3. PICK k \in F : Rank(F, k) = Rank(set, x)
      BY <1>1, <3>1, <3>2, RankTaken
    <3>4. k \in filled /\ k \in LrIds
      BY <1>1, <1>a, <3>1, <3>3
    <3>5. Nth(set, Rank(F, k)) = x
      BY <1>2, <3>3, NthFacts
    <3>6. fb[k].state = "Pending" /\ fb[k].id = x
      BY <1>c, <3>4, <3>5
    <3> QED BY <3>4, <3>6, HeldBy
  <2>4. FlushedSet(bank, set) \subseteq set
    BY <1>7
  <2> QED BY <2>1, <2>2, <2>3, <2>4
<1>11. Held(fb, "Active") = Held(bank, "Active")
  <2>1. \A k \in LrIds : fb[k].state = "Active" => fb[k] = bank[k]
    BY <1>c, <1>d
  <2>2. \A k \in LrIds : bank[k].state = "Active" => fb[k] = bank[k]
    BY <1>b, <1>d
  <2>3. \A x : x \in Held(fb, "Active") <=> x \in Held(bank, "Active")
    BY <2>1, <2>2, HeldBy
  <2> QED BY <2>3
<1> QED BY <1>7, <1>8, <1>9, <1>10, <1>11 DEF fb

(* A register that takes an interrupt was free, and the others are as they   *)
(* were.                                                                     *)
LEMMA PlacedFacts ==
    ASSUME NEW bank \in Bank, FreeLrs(bank) # {}, NEW i \in Intid, NEW hw \in BOOLEAN
    PROVE  /\ Placed(bank, PendingLr(i, hw)) \in Bank
           /\ \E p \in LrIds :
                  /\ bank[p].state = "Invalid"
                  /\ \A k \in LrIds : Placed(bank, PendingLr(i, hw))[k] =
                         IF k = p THEN PendingLr(i, hw) ELSE bank[k]
           /\ Held(Placed(bank, PendingLr(i, hw)), "Pending") = Held(bank, "Pending") \union {i}
           /\ Held(Placed(bank, PendingLr(i, hw)), "Active") = Held(bank, "Active")
<1> DEFINE p == Min(FreeLrs(bank))
           pb == Placed(bank, PendingLr(i, hw))
<1>1. p \in LrIds /\ bank[p].state = "Invalid"
  <2>1. FreeLrs(bank) \in SUBSET Nat
    BY Finiteness DEF FreeLrs
  <2>2. p \in FreeLrs(bank)
    BY <2>1, MinFacts
  <2> QED BY <2>2 DEF FreeLrs
<1>2. pb = [bank EXCEPT ![p] = PendingLr(i, hw)]
  BY DEF Placed
<1> HIDE DEF p, pb
<1>3. pb \in Bank /\ \A k \in LrIds : pb[k] = IF k = p THEN PendingLr(i, hw) ELSE bank[k]
  BY <1>1, <1>2, PendingLrFacts DEF Bank
<1>4. \A x : x \in Held(pb, "Pending") <=> x \in Held(bank, "Pending") \/ x = i
  <2>1. pb[p].state = "Pending" /\ pb[p].id = i
    BY <1>1, <1>3, PendingLrFacts
  <2> QED BY <1>1, <1>3, <2>1, HeldBy
<1>5. \A x : x \in Held(pb, "Active") <=> x \in Held(bank, "Active")
  BY <1>1, <1>3, HeldBy, PendingLrFacts
<1> QED BY <1>1, <1>3, <1>4, <1>5 DEF pb

(* Demoting a bank drops its claims on the physical timer and nothing else.  *)
LEMMA DemotedFacts ==
    ASSUME NEW bank \in Bank
    PROVE  /\ Demoted(bank) \in Bank
           /\ \A k \in LrIds : Demoted(bank)[k].hw = FALSE
           /\ \A st : Held(Demoted(bank), st) = Held(bank, st)
<1>1. \A k \in LrIds : /\ Demoted(bank)[k].id = bank[k].id
                       /\ Demoted(bank)[k].state = bank[k].state
                       /\ Demoted(bank)[k].hw = FALSE
  BY DEF Demoted, Bank, Lr
<1>2. Demoted(bank) \in Bank
  BY DEF Demoted, Bank, Lr
<1>3. ASSUME NEW st PROVE Held(Demoted(bank), st) = Held(bank, st)
  <2>1. \A x : x \in Held(Demoted(bank), st) <=> x \in Held(bank, st)
    BY <1>1, HeldBy
  <2> QED BY <2>1
<1> QED BY <1>1, <1>2, <1>3

-----------------------------------------------------------------------------
(* Handing the pCPU over *)

Owed(v) == Held(BankOf(v), "Pending") \union pending[v]
Serving(v) == Held(BankOf(v), "Active")

(* The scheduler states a handler may hand over in: nobody runs, and whoever *)
(* may be entered has a context.                                             *)
Handable(st, next) ==
    /\ st \in [VcpuIds -> RunStates]
    /\ next \in VcpuIds /\ st[next] = "Runnable"
    /\ \A w \in VcpuIds : st[w] # "Running" /\ (st[w] # "Offline" => seeded[w])

(* None of the halts in sched_on and switch_context is reached from such a   *)
(* state; what the switch does instead.                                      *)
LEMMA HandOverDone ==
    ASSUME LinuxInv, NEW st, NEW next, Handable(st, next),
           NEW pd \in [VcpuIds -> SUBSET Intid], HandOver(next, st, pd)
    PROVE  LET bank == IF next = current THEN Demoted(live) ELSE saved[next]
           IN  /\ bank \in Bank /\ \A k \in LrIds : ~bank[k].hw
               /\ \A v \in VcpuIds : saved'[v] = IF v = next THEN EmptyBank
                                                 ELSE IF v = current THEN Demoted(live) ELSE saved[v]
               /\ saved' \in [VcpuIds -> Bank]
               /\ live' = FlushedBank(bank, pd[next])
               /\ pending' \in [VcpuIds -> SUBSET Intid]
               /\ \A v \in VcpuIds : pending'[v] = IF v = next THEN FlushedSet(bank, pd[next])
                                                   ELSE pd[v]
               /\ uie' = (pending'[next] # {})
               /\ ppi' = PpiIdle(TimerEnabled(next))
               /\ current' = next
               /\ sched' = [st EXCEPT ![next] = "Running"]
               /\ phase' = phase
<1> DEFINE bank == IF next = current THEN Demoted(live) ELSE saved[next]
           out == [saved EXCEPT ![current] = Demoted(live)]
<1>1. next \in VcpuIds /\ current \in VcpuIds /\ live \in Bank /\ saved \in [VcpuIds -> Bank]
  BY DEF LinuxInv, LinuxTypeOK, Handable
<1>2. Demoted(live) \in Bank /\ \A k \in LrIds : ~Demoted(live)[k].hw
  BY <1>1, DemotedFacts
<1>3. out \in [VcpuIds -> Bank] /\ out[next] = bank
      /\ \A v \in VcpuIds : out[v] = IF v = current THEN Demoted(live) ELSE saved[v]
  BY <1>1, <1>2
<1>4. bank \in Bank /\ \A k \in LrIds : ~bank[k].hw
  <2>1. CASE next = current
    BY <1>2, <2>1
  <2>2. CASE next # current
    BY <1>1, <2>2 DEF LinuxInv, TimerClaims
  <2> QED BY <2>1, <2>2
<1>5. SwitchContext(next, [st EXCEPT ![next] = "Running"], pd)
  BY DEF HandOver, Handable, CanRun
<1>6. seeded[next]
  BY DEF Handable
<1>7. /\ saved' = [out EXCEPT ![next] = EmptyBank]
      /\ live' = FlushedBank(out[next], pd[next])
      /\ pending' = [pd EXCEPT ![next] = FlushedSet(out[next], pd[next])]
      /\ uie' = (pending'[next] # {})
      /\ ppi' = PpiIdle(TimerEnabled(next))
      /\ current' = next
      /\ sched' = [st EXCEPT ![next] = "Running"]
      /\ phase' = phase
  BY <1>5, <1>6 DEF SwitchContext
<1> HIDE DEF bank, out
<1>8. FlushedSet(bank, pd[next]) \in SUBSET Intid
  BY <1>1, <1>4, FlushFacts
<1>9. pending' \in [VcpuIds -> SUBSET Intid]
      /\ \A v \in VcpuIds : pending'[v] = IF v = next THEN FlushedSet(bank, pd[next]) ELSE pd[v]
  BY <1>1, <1>3, <1>7, <1>8
<1>10. saved' \in [VcpuIds -> Bank]
       /\ \A v \in VcpuIds : saved'[v] = IF v = next THEN EmptyBank
                                         ELSE IF v = current THEN Demoted(live) ELSE saved[v]
  BY <1>1, <1>3, <1>7, NoLrFacts
<1>11. live' = FlushedBank(bank, pd[next])
  BY <1>3, <1>7
<1> QED BY <1>4, <1>7, <1>9, <1>10, <1>11 DEF bank

(* The outgoing vCPU keeps its interrupts in its context, the incoming one   *)
(* gets its own back: a hand-over moves interrupts and loses none.           *)
LEMMA HandOverBoxes ==
    ASSUME LinuxInv, NEW st, NEW next, Handable(st, next),
           NEW pd \in [VcpuIds -> SUBSET Intid], HandOver(next, st, pd),
           NEW v \in VcpuIds
    PROVE  /\ Owed(v)' = Held(BankOf(v), "Pending") \union pd[v]
           /\ Serving(v)' = Serving(v)
<1> DEFINE bank == IF next = current THEN Demoted(live) ELSE saved[next]
<1>1. /\ bank \in Bank /\ next \in VcpuIds /\ current' = next
      /\ live' = FlushedBank(bank, pd[next])
      /\ pending'[v] = IF v = next THEN FlushedSet(bank, pd[next]) ELSE pd[v]
      /\ saved'[v] = IF v = next THEN EmptyBank
                     ELSE IF v = current THEN Demoted(live) ELSE saved[v]
  BY HandOverDone DEF Handable
<1>2. live \in Bank /\ current \in VcpuIds
  BY DEF LinuxInv, LinuxTypeOK
<1>3. \A x : Held(Demoted(live), x) = Held(live, x)
  BY <1>2, DemotedFacts
<1>4. CASE v = next
  <2>1. BankOf(v)' = FlushedBank(bank, pd[next]) /\ pending'[v] = FlushedSet(bank, pd[next])
    BY <1>1, <1>4 DEF BankOf
  <2>2. \A x : Held(bank, x) = Held(BankOf(v), x)
    BY <1>3, <1>4 DEF BankOf
  <2> HIDE DEF bank
  <2>3. /\ Held(FlushedBank(bank, pd[next]), "Pending") \union FlushedSet(bank, pd[next])
             = Held(bank, "Pending") \union pd[next]
        /\ Held(FlushedBank(bank, pd[next]), "Active") = Held(bank, "Active")
    BY <1>1, FlushFacts
  <2> QED BY <1>4, <2>1, <2>2, <2>3 DEF Owed, Serving
<1>5. CASE v # next
  <2>1. BankOf(v)' = saved'[v] /\ pending'[v] = pd[v]
    BY <1>1, <1>5 DEF BankOf
  <2>2. \A x : Held(saved'[v], x) = Held(BankOf(v), x)
    BY <1>1, <1>3, <1>5 DEF BankOf
  <2> QED BY <2>1, <2>2 DEF Owed, Serving
<1> QED BY <1>4, <1>5

(* A handler that ends in a hand-over: what it must have done to the         *)
(* scheduler's states and to RETIREMENT before the switch.                   *)
HandsOver(pd) ==
    /\ phase = "Guest"
    /\ \E st, next :
          /\ Handable(st, next) /\ HandOver(next, st, pd)
          /\ \A v \in VcpuIds : retired'[GuestOf(v)] # "Live" => st[v] = "Offline"
          /\ \A v \in VcpuIds : (st[v] = "Offline" /\ retired'[GuestOf(v)] = "Live")
                                    => sched[v] = "Offline" /\ retired[GuestOf(v)] = "Live"
          /\ \A g \in Guests : retired'[g] = "Live" => st[Boot(g)] # "Offline"

(* The physical timer line's enable bits are booleans, whatever the register file says. *)
LEMMA PpiType ==
    /\ \A file, n, i : IsEnabled(file, n, i) \in BOOLEAN
    /\ \A v : TimerEnabled(v) \in BOOLEAN
    /\ \A b \in BOOLEAN : /\ PpiIdle(b) \in [enabled : BOOLEAN, active : BOOLEAN]
                          /\ PpiIdle(b).enabled = b /\ PpiIdle(b).active = FALSE
<1>1. ASSUME NEW file, NEW n, NEW i PROVE IsEnabled(file, n, i) \in BOOLEAN
  <2>1. CASE i \in Ppis
    <3>1. IsEnabled(file, n, i) = (i \in file.redist[n])
      BY <2>1 DEF IsEnabled
    <3> QED BY <3>1
  <2>2. CASE i \notin Ppis
    <3>1. IsEnabled(file, n, i) = (i \in file.spis)
      BY <2>2 DEF IsEnabled
    <3> QED BY <3>1
  <2> QED BY <2>1, <2>2
<1>2. \A v : TimerEnabled(v) \in BOOLEAN
  BY <1>1 DEF TimerEnabled
<1>3. \A b \in BOOLEAN : /\ PpiIdle(b) \in [enabled : BOOLEAN, active : BOOLEAN]
                        /\ PpiIdle(b).enabled = b /\ PpiIdle(b).active = FALSE
  BY DEF PpiIdle
<1> QED BY <1>1, <1>2, <1>3

(* A hand-over keeps the invariant.                                          *)
LEMMA HandOverInv ==
    ASSUME LinuxInv, NEW pd \in [VcpuIds -> SUBSET Intid], HandsOver(pd),
           UNCHANGED deviceVars,
           retired' \in [Guests -> {"Live", "PoweredOff", "Faulted"}],
           witness' \in [Guests -> {"Unarmed", "Armed", "Fired"}],
           peerFaults' \in [Guests -> Nat]
    PROVE  LinuxInv'
<1>0. PICK st, next :
        /\ phase = "Guest" /\ Handable(st, next) /\ HandOver(next, st, pd)
        /\ \A v \in VcpuIds : retired'[GuestOf(v)] # "Live" => st[v] = "Offline"
        /\ \A v \in VcpuIds : (st[v] = "Offline" /\ retired'[GuestOf(v)] = "Live")
                                  => sched[v] = "Offline" /\ retired[GuestOf(v)] = "Live"
        /\ \A g \in Guests : retired'[g] = "Live" => st[Boot(g)] # "Offline"
  BY DEF HandsOver
<1> DEFINE bank == IF next = current THEN Demoted(live) ELSE saved[next]
<1>1. /\ bank \in Bank /\ \A k \in LrIds : ~bank[k].hw
      /\ \A v \in VcpuIds : saved'[v] = IF v = next THEN EmptyBank
                                        ELSE IF v = current THEN Demoted(live) ELSE saved[v]
      /\ saved' \in [VcpuIds -> Bank]
      /\ live' = FlushedBank(bank, pd[next])
      /\ pending' \in [VcpuIds -> SUBSET Intid]
      /\ uie' = (pending'[next] # {})
      /\ ppi' = PpiIdle(TimerEnabled(next))
      /\ current' = next
      /\ sched' = [st EXCEPT ![next] = "Running"]
      /\ phase' = phase
  BY <1>0, HandOverDone
<1>2. next \in VcpuIds /\ st \in [VcpuIds -> RunStates] /\ st[next] = "Runnable"
      /\ \A w \in VcpuIds : st[w] # "Running" /\ (st[w] # "Offline" => seeded[w])
  BY <1>0 DEF Handable
<1> HIDE DEF bank
<1>3. \A v \in VcpuIds : sched'[v] = IF v = next THEN "Running" ELSE st[v]
  BY <1>1, <1>2
<1>4. live' \in Bank /\ \A k \in LrIds : ~live'[k].hw
  <2>1. pd[next] \in SUBSET Intid
    BY <1>2
  <2> QED BY <1>1, <2>1, FlushFacts
<1>5. LinuxTypeOK'
  <2>1. sched' \in [VcpuIds -> RunStates]
    BY <1>1, <1>2 DEF RunStates
  <2>2. ppi' \in [enabled : BOOLEAN, active : BOOLEAN]
    BY <1>1, PpiType
  <2>3. uie' \in BOOLEAN
    BY <1>1
  <2> QED BY <1>1, <1>2, <1>4, <2>1, <2>2, <2>3 DEF LinuxInv, LinuxTypeOK, deviceVars
<1>6. MachineUp'
  <2>1. \A v \in VcpuIds : (sched'[v] = "Running") <=> (v = current')
    BY <1>1, <1>2, <1>3
  <2>2. \A v \in VcpuIds : /\ sched'[v] # "Offline" => seeded[v]
                           /\ retired'[GuestOf(v)] # "Live" => sched'[v] = "Offline"
    BY <1>0, <1>2, <1>3
  <2> QED BY <1>0, <1>1, <2>1, <2>2 DEF MachineUp, deviceVars
<1>7. BootVcpuKept'
  BY <1>0, <1>3, IndexFacts DEF BootVcpuKept
<1>8. ColdIsEmpty'
  <2> SUFFICES ASSUME NEW v \in VcpuIds, sched'[v] = "Offline", retired'[GuestOf(v)] = "Live"
               PROVE  saved'[v] = EmptyBank
    BY DEF ColdIsEmpty
  <2>1. v # next /\ sched[v] = "Offline" /\ retired[GuestOf(v)] = "Live"
    BY <1>0, <1>3
  <2>2. v # current
    BY <1>0, <2>1 DEF LinuxInv, LinuxTypeOK, MachineUp
  <2> QED BY <1>1, <2>1, <2>2 DEF LinuxInv, ColdIsEmpty
<1>9. UnderflowArmedExactly'
  BY <1>1 DEF UnderflowArmedExactly
<1>10. TimerClaims'
  <2>1. \A v \in VcpuIds \ {current'} : \A k \in LrIds : ~saved'[v][k].hw
    <3>1. \A k \in LrIds : ~Demoted(live)[k].hw
      BY DemotedFacts DEF LinuxInv, LinuxTypeOK
    <3> QED BY <1>1, <3>1 DEF LinuxInv, TimerClaims
  <2>2. TimerEnabled(current)' => ppi'.enabled
    <3>1. TimerEnabled(current)' = TimerEnabled(next)
      BY <1>1 DEF TimerEnabled, deviceVars
    <3> QED BY <1>1, <3>1, PpiType
  <2> QED BY <1>4, <2>1, <2>2 DEF TimerClaims
<1> QED BY <1>5, <1>6, <1>7, <1>8, <1>9, <1>10 DEF LinuxInv

-----------------------------------------------------------------------------
(* The handlers that hand over *)

(* While the machine is up, the running vCPU belongs to a live guest, has a  *)
(* context, and is the only one hv-core calls Running.                       *)
LEMMA RunningFacts ==
    ASSUME LinuxInv, phase = "Guest"
    PROVE  /\ current \in VcpuIds /\ GuestOf(current) \in Guests
           /\ sched \in [VcpuIds -> RunStates] /\ sched[current] = "Running"
           /\ seeded[current] /\ retired[GuestOf(current)] = "Live"
           /\ \A v \in VcpuIds : v # current => sched[v] # "Running"
           /\ \A v \in VcpuIds : sched[v] # "Offline" => seeded[v]
           /\ \A v \in VcpuIds : retired[GuestOf(v)] # "Live" => sched[v] = "Offline"
           /\ \A g \in Guests : retired[g] = "Live" => sched[Boot(g)] # "Offline"
<1>1. /\ current \in VcpuIds /\ sched \in [VcpuIds -> RunStates] /\ MachineUp /\ BootVcpuKept
  BY DEF LinuxInv, LinuxTypeOK
<1> QED BY <1>1, IndexFacts DEF MachineUp, BootVcpuKept

(* Waking everybody changes exactly the Blocked vCPUs. *)
LEMMA WokenFacts ==
    ASSUME NEW st \in [VcpuIds -> RunStates]
    PROVE  /\ Woken(st) \in [VcpuIds -> RunStates]
           /\ \A v \in VcpuIds : Woken(st)[v] = IF st[v] = "Blocked" THEN "Runnable" ELSE st[v]
  BY DEF Woken, RunStates

(* The end of a slice is a hand-over that touches no device and no witness. *)
LEMMA SliceHandsOver ==
    ASSUME LinuxInv, SliceExpires
    PROVE  HandsOver(pending) /\ UNCHANGED <<deviceVars, retired, witness, peerFaults>>
<1> DEFINE st0 == [sched EXCEPT ![current] = "Runnable"]
           st == Woken(st0)
           next == NextRunnable(st, current)
<1>1. phase = "Guest"
  BY DEF SliceExpires
<1>2. st0 \in [VcpuIds -> RunStates]
      /\ \A v \in VcpuIds : st0[v] = IF v = current THEN "Runnable" ELSE sched[v]
  BY <1>1, RunningFacts DEF RunStates
<1> HIDE DEF st0
<1>3. st \in [VcpuIds -> RunStates]
      /\ \A v \in VcpuIds : st[v] = IF st0[v] = "Blocked" THEN "Runnable" ELSE st0[v]
  BY <1>2, WokenFacts
<1> HIDE DEF st
<1>4. st[current] = "Runnable"
  BY <1>1, <1>2, <1>3, RunningFacts
<1>5. next \in VcpuIds /\ st[next] = "Runnable"
  BY <1>1, <1>4, RunningFacts, NextRunnableFacts
<1>6. HandOver(next, st, pending) /\ UNCHANGED <<deviceVars, retired, witness, peerFaults>>
  BY <1>1, RunningFacts DEF SliceExpires, st, st0
<1> HIDE DEF next
<1>7. \A v \in VcpuIds : /\ st[v] # "Running"
                         /\ (st[v] = "Offline") <=> (sched[v] = "Offline")
  BY <1>1, <1>2, <1>3, RunningFacts
<1>8. Handable(st, next)
  BY <1>1, <1>3, <1>5, <1>7, RunningFacts DEF Handable
<1>9. retired' = retired
  BY <1>6
<1> QED BY <1>1, <1>6, <1>7, <1>8, <1>9, RunningFacts, IndexFacts DEF HandsOver

(* A trapped wfi with nobody else to run only delivers.                      *)
LEMMA WfiHandsOver ==
    ASSUME LinuxInv, Wfi
    PROVE  LET pd == IF SpiDue THEN DeliverSpi(WitnessSpi) ELSE pending
           IN  /\ UNCHANGED <<deviceVars, retired, peerFaults>>
               /\ \/ HandsOver(pd)
                  \/ pending' = pd /\ UNCHANGED <<sched, current, phase, live, saved, uie, ppi>>
<1> DEFINE pd == IF SpiDue THEN DeliverSpi(WitnessSpi) ELSE pending
           st == [sched EXCEPT ![current] = "Blocked"]
           next == NextRunnable(sched, current)
<1>1. phase = "Guest" /\ UNCHANGED <<deviceVars, retired, peerFaults>>
  BY DEF Wfi
<1>2. CASE next = NoVcpu
  BY <1>1, <1>2 DEF Wfi
<1>3. CASE next # NoVcpu
  <2>1. next \in VcpuIds /\ sched[next] = "Runnable" /\ next # current
    BY <1>1, <1>3, RunningFacts, NextRunnableFacts
  <2>2. HandOver(next, st, pd)
    BY <1>1, <1>3, RunningFacts DEF Wfi
  <2>3. st \in [VcpuIds -> RunStates]
        /\ \A v \in VcpuIds : st[v] = IF v = current THEN "Blocked" ELSE sched[v]
    BY <1>1, RunningFacts DEF RunStates
  <2> HIDE DEF st, next, pd
  <2>4. \A v \in VcpuIds : /\ st[v] # "Running"
                           /\ (st[v] = "Offline") <=> (sched[v] = "Offline")
    BY <1>1, <2>3, RunningFacts
  <2>5. Handable(st, next)
    BY <1>1, <2>1, <2>3, <2>4, RunningFacts DEF Handable
  <2>6. retired' = retired
    BY <1>1
  <2>7. HandsOver(pd)
    BY <1>1, <2>2, <2>4, <2>5, <2>6, RunningFacts, IndexFacts DEF HandsOver
  <2> QED BY <1>1, <2>7 DEF pd
<1> QED BY <1>2, <1>3

(* A retirement hands over to a survivor, or there is none: then every guest *)
(* has retired.                                                              *)
LEMMA RetireHandsOver ==
    ASSUME LinuxInv, phase = "Guest", NEW why \in {"PoweredOff", "Faulted"}, Retire(why)
    PROVE  /\ retired' = [retired EXCEPT ![GuestOf(current)] = why]
           /\ \/ HandsOver(pending)
              \/ /\ phase' = "Over" /\ UNCHANGED <<current, live, saved, pending, uie, ppi>>
                 /\ sched' = [v \in VcpuIds |-> "Offline"]
                 /\ \A g \in Guests : retired'[g] # "Live"
<1> DEFINE st0 == [v \in VcpuIds |-> IF v \in OwnVcpus(current) THEN "Offline" ELSE sched[v]]
           st == Woken(st0)
           next == NextRunnable(st, current)
<1>1. retired' = [retired EXCEPT ![GuestOf(current)] = why]
      /\ retired \in [Guests -> {"Live", "PoweredOff", "Faulted"}]
  BY DEF Retire, LinuxInv, LinuxTypeOK
<1>2. \A g \in Guests : retired'[g] = IF g = GuestOf(current) THEN why ELSE retired[g]
  BY <1>1, RunningFacts
<1>3. st0 \in [VcpuIds -> RunStates]
      /\ \A v \in VcpuIds : st0[v] = IF GuestOf(v) = GuestOf(current) THEN "Offline" ELSE sched[v]
  BY RunningFacts DEF RunStates, OwnVcpus
<1> HIDE DEF st0
<1>4. st \in [VcpuIds -> RunStates]
      /\ \A v \in VcpuIds : st[v] = IF st0[v] = "Blocked" THEN "Runnable" ELSE st0[v]
  BY <1>3, WokenFacts
<1>5. IF next = NoVcpu THEN EndOfBoot(st) ELSE HandOver(next, st, pending)
  BY DEF Retire, st, st0
<1> HIDE DEF st
<1>6. \A v \in VcpuIds :
         /\ st[v] # "Running" /\ st[v] # "Blocked"
         /\ (st[v] = "Offline") <=> (GuestOf(v) = GuestOf(current) \/ sched[v] = "Offline")
  <2> SUFFICES ASSUME NEW v \in VcpuIds
               PROVE  /\ st[v] # "Running" /\ st[v] # "Blocked"
                      /\ (st[v] = "Offline") <=> (GuestOf(v) = GuestOf(current) \/ sched[v] = "Offline")
    OBVIOUS
  <2>1. v # current => sched[v] # "Running"
    BY RunningFacts
  <2> QED BY <1>3, <1>4, <2>1
<1>7. /\ \A v \in VcpuIds : retired'[GuestOf(v)] # "Live" => st[v] = "Offline"
      /\ \A v \in VcpuIds : (st[v] = "Offline" /\ retired'[GuestOf(v)] = "Live")
                                => sched[v] = "Offline" /\ retired[GuestOf(v)] = "Live"
      /\ \A g \in Guests : retired'[g] = "Live" => st[Boot(g)] # "Offline"
  BY <1>2, <1>6, RunningFacts, IndexFacts
<1>8. CASE next # NoVcpu
  <2>1. next \in VcpuIds /\ st[next] = "Runnable"
    BY <1>8, RunningFacts, NextRunnableFacts
  <2> HIDE DEF next
  <2>2. Handable(st, next)
    BY <1>4, <1>6, <2>1, RunningFacts DEF Handable
  <2> QED BY <1>1, <1>5, <1>7, <1>8, <2>2 DEF HandsOver
<1>9. CASE next = NoVcpu
  <2>1. \A v \in VcpuIds : st[v] # "Runnable"
    BY <1>9, RunningFacts, NextRunnableFacts
  <2>2. \A v \in VcpuIds : st[v] = "Offline"
    BY <1>4, <1>6, <2>1 DEF RunStates
  <2>3. st = [v \in VcpuIds |-> "Offline"]
    BY <1>4, <2>2
  <2>4. \A g \in Guests : retired'[g] # "Live"
    BY <1>7, <2>2, IndexFacts
  <2> QED BY <1>1, <1>5, <1>9, <2>3, <2>4 DEF EndOfBoot
<1> QED BY <1>8, <1>9

-----------------------------------------------------------------------------
(* Each step keeps the invariant *)

(* Marking an interrupt adds it to the pending sets of its targets and to no other. *)
LEMMA MarkedType ==
    ASSUME LinuxInv, NEW i \in Intid, NEW to
    PROVE  /\ Marked(i, to) \in [VcpuIds -> SUBSET Intid]
           /\ \A v \in VcpuIds :
                 Marked(i, to)[v] = IF v \in to THEN pending[v] \union {i} ELSE pending[v]
<1>1. pending \in [VcpuIds -> SUBSET Intid]
  BY DEF LinuxInv, LinuxTypeOK
<1> QED BY <1>1 DEF Marked

(* The pending sets a wfi leaves behind: the witness interrupt may be added  *)
(* to those of the running guest, never to that of the vCPU that asks.       *)
LEMMA WfiPending ==
    ASSUME LinuxInv, phase = "Guest"
    PROVE  LET pd == IF SpiDue THEN DeliverSpi(WitnessSpi) ELSE pending
           IN  /\ pd \in [VcpuIds -> SUBSET Intid]
               /\ pd[current] = pending[current]
               /\ \E to \in SUBSET OwnVcpus(current) :
                     \A v \in VcpuIds :
                        pd[v] = IF v \in to THEN pending[v] \union {WitnessSpi} ELSE pending[v]
<1> DEFINE to == {v \in OwnVcpus(current) :
                     AffinityOf(v) \in SpiTargets(gic[GuestOf(current)], WitnessSpi)}
           pd == IF SpiDue THEN DeliverSpi(WitnessSpi) ELSE pending
<1>1. WitnessSpi \in Intid
  BY DEF Intid
<1>2. pending \in [VcpuIds -> SUBSET Intid] /\ current \in VcpuIds
  BY DEF LinuxInv, LinuxTypeOK
<1>3. CASE SpiDue
  <2>1. pd = Marked(WitnessSpi, to)
    BY <1>3 DEF DeliverSpi
  <2>2. current \notin to
    BY <1>3 DEF SpiDue
  <2>3. to \in SUBSET OwnVcpus(current)
    OBVIOUS
  <2> HIDE DEF to, pd
  <2>4. /\ pd \in [VcpuIds -> SUBSET Intid]
        /\ \A v \in VcpuIds :
              pd[v] = IF v \in to THEN pending[v] \union {WitnessSpi} ELSE pending[v]
    BY <1>1, <2>1, MarkedType
  <2>5. pd[current] = pending[current]
    BY <1>2, <2>2, <2>4
  <2> QED BY <2>3, <2>4, <2>5 DEF pd
<1>4. CASE ~SpiDue
  <2>1. \A v \in VcpuIds : pending[v] = IF v \in {} THEN pending[v] \union {WitnessSpi} ELSE pending[v]
    OBVIOUS
  <2>2. {} \in SUBSET OwnVcpus(current) /\ pd = pending
    BY <1>4
  <2> HIDE DEF pd
  <2> QED BY <1>2, <2>1, <2>2 DEF pd
<1> QED BY <1>3, <1>4

(* The isolation witness of the running guest may be armed or fired. *)
LEMMA WitnessType ==
    ASSUME LinuxInv, phase = "Guest", NEW to \in {"Armed", "Fired"}
    PROVE  [witness EXCEPT ![GuestOf(current)] = to] \in [Guests -> {"Unarmed", "Armed", "Fired"}]
  BY RunningFacts DEF LinuxInv, LinuxTypeOK

(* The end of a slice keeps the invariant. *)
LEMMA SliceInv ==
    ASSUME LinuxInv, SliceExpires
    PROVE  LinuxInv'
<1>1. HandsOver(pending) /\ UNCHANGED <<deviceVars, retired, witness, peerFaults>>
  BY SliceHandsOver
<1>2. /\ pending \in [VcpuIds -> SUBSET Intid]
      /\ retired' \in [Guests -> {"Live", "PoweredOff", "Faulted"}]
      /\ witness' \in [Guests -> {"Unarmed", "Armed", "Fired"}]
      /\ peerFaults' \in [Guests -> Nat]
  BY <1>1 DEF LinuxInv, LinuxTypeOK
<1> QED BY <1>1, <1>2, HandOverInv

(* Retiring a guest, for either reason, keeps the invariant. *)
LEMMA RetireInv ==
    ASSUME LinuxInv, phase = "Guest", NEW why \in {"PoweredOff", "Faulted"}, Retire(why),
           UNCHANGED deviceVars,
           witness' \in [Guests -> {"Unarmed", "Armed", "Fired"}],
           peerFaults' \in [Guests -> Nat]
    PROVE  LinuxInv'
<1>1. retired' = [retired EXCEPT ![GuestOf(current)] = why]
  BY RetireHandsOver
<1>2. /\ retired' \in [Guests -> {"Live", "PoweredOff", "Faulted"}]
      /\ pending \in [VcpuIds -> SUBSET Intid]
  BY <1>1 DEF LinuxInv, LinuxTypeOK
<1>3. CASE HandsOver(pending)
  BY <1>2, <1>3, HandOverInv
<1>4. CASE /\ phase' = "Over" /\ UNCHANGED <<current, live, saved, pending, uie, ppi>>
           /\ sched' = [v \in VcpuIds |-> "Offline"]
           /\ \A g \in Guests : retired'[g] # "Live"
  <2>1. sched' \in [VcpuIds -> RunStates] /\ \A v \in VcpuIds : sched'[v] = "Offline"
    BY <1>4 DEF RunStates
  <2>2. LinuxTypeOK'
    BY <1>2, <1>4, <2>1 DEF LinuxInv, LinuxTypeOK, deviceVars
  <2>3. MachineUp' /\ BootVcpuKept' /\ UnderflowArmedExactly'
    BY <1>4, <2>1 DEF MachineUp, BootVcpuKept, UnderflowArmedExactly
  <2>4. ColdIsEmpty'
    BY <1>4, IndexFacts DEF ColdIsEmpty
  <2>5. TimerClaims'
    BY <1>4 DEF LinuxInv, TimerClaims
  <2> QED BY <2>2, <2>3, <2>4, <2>5 DEF LinuxInv
<1> QED BY <1>3, <1>4, RetireHandsOver

(* A step that changes neither who runs nor who may run.                     *)
LEMMA SchedulingKept ==
    ASSUME LinuxInv, UNCHANGED <<sched, current, phase, retired, saved, seeded>>,
           \A g \in Guests : header'[g] => header[g],
           peerFaults' = peerFaults
    PROVE  MachineUp' /\ BootVcpuKept' /\ ColdIsEmpty'
<1>1. MachineUp'
  <2>1. phase = "PeerfaultFail" => /\ peerFaults'[GuestOf(current')] = 1
                                   /\ \E g \in Guests \ {GuestOf(current')} : ~header'[g]
    BY DEF LinuxInv, MachineUp
  <2> QED BY <2>1 DEF LinuxInv, MachineUp
<1>2. BootVcpuKept' /\ ColdIsEmpty'
  BY DEF LinuxInv, BootVcpuKept, ColdIsEmpty
<1> QED BY <1>1, <1>2

(* A wait for interrupt keeps the invariant, whether it returns, sleeps or hands over. *)
LEMMA WfiInv ==
    ASSUME LinuxInv, Wfi
    PROVE  LinuxInv'
<1> DEFINE pd == IF SpiDue THEN DeliverSpi(WitnessSpi) ELSE pending
<1>1. phase = "Guest" /\ UNCHANGED <<deviceVars, retired, peerFaults>>
  BY DEF Wfi
<1>2. pd \in [VcpuIds -> SUBSET Intid] /\ pd[current] = pending[current]
  BY <1>1, WfiPending
<1>3. /\ witness' \in [Guests -> {"Unarmed", "Armed", "Fired"}]
      /\ retired' \in [Guests -> {"Live", "PoweredOff", "Faulted"}]
      /\ peerFaults' \in [Guests -> Nat]
  <2>1. witness' = witness \/ witness' = [witness EXCEPT ![GuestOf(current)] = "Fired"]
    BY DEF Wfi
  <2>2. witness' \in [Guests -> {"Unarmed", "Armed", "Fired"}]
    BY <1>1, <2>1, WitnessType DEF LinuxInv, LinuxTypeOK
  <2> QED BY <1>1, <2>2 DEF LinuxInv, LinuxTypeOK
<1>4. \/ HandsOver(pd)
      \/ pending' = pd /\ UNCHANGED <<sched, current, phase, live, saved, uie, ppi>>
  BY WfiHandsOver
<1> HIDE DEF pd
<1>5. CASE HandsOver(pd)
  BY <1>1, <1>2, <1>3, <1>5, HandOverInv
<1>6. CASE pending' = pd /\ UNCHANGED <<sched, current, phase, live, saved, uie, ppi>>
  <2>1. LinuxTypeOK'
    BY <1>1, <1>2, <1>3, <1>6 DEF LinuxInv, LinuxTypeOK, deviceVars
  <2>2. MachineUp' /\ BootVcpuKept' /\ ColdIsEmpty'
    BY <1>1, <1>6, SchedulingKept DEF deviceVars
  <2>3. UnderflowArmedExactly'
    BY <1>1, <1>2, <1>6 DEF LinuxInv, UnderflowArmedExactly
  <2>4. TimerClaims'
    BY <1>1, <1>6 DEF LinuxInv, TimerClaims, TimerEnabled, deviceVars
  <2> QED BY <2>1, <2>2, <2>3, <2>4 DEF LinuxInv
<1> QED BY <1>4, <1>5, <1>6

(* The timer interrupt keeps the invariant: injected, left Active, or masked at the line. *)
LEMMA TimerIrqInv ==
    ASSUME LinuxInv, TimerIrq
    PROVE  LinuxInv'
<1>1. /\ phase = "Guest" /\ TimerSignalled
      /\ UNCHANGED <<sched, current, phase, retired, saved, pending, uie, deviceVars, witness, peerFaults>>
  BY DEF TimerIrq
<1>2. live \in Bank /\ ppi \in [enabled : BOOLEAN, active : BOOLEAN] /\ VTIMER \in Intid
  BY DEF LinuxInv, LinuxTypeOK, Intid
<1>3. ppi.enabled /\ ~ppi.active
  BY <1>1 DEF TimerSignalled
<1>4. \A k \in LrIds : ~live[k].hw
  BY <1>1, <1>3 DEF LinuxInv, TimerClaims
<1>5. MachineUp' /\ BootVcpuKept' /\ ColdIsEmpty'
  BY <1>1, SchedulingKept DEF deviceVars
<1>6. UnderflowArmedExactly'
  BY <1>1 DEF LinuxInv, UnderflowArmedExactly
<1>7. TimerEnabled(current)' = TimerEnabled(current)
  BY <1>1 DEF TimerEnabled, deviceVars
<1>8. CASE ~TimerEnabled(current)
  <2>1. live' = live /\ ppi' = PpiIdle(FALSE)
    BY <1>8 DEF TimerIrq
  <2>2. LinuxTypeOK'
    BY <1>1, <2>1, PpiType DEF LinuxInv, LinuxTypeOK, deviceVars
  <2>3. TimerClaims'
    BY <1>1, <1>4, <1>7, <1>8, <2>1 DEF LinuxInv, TimerClaims
  <2> QED BY <1>5, <1>6, <2>2, <2>3 DEF LinuxInv
<1>9. CASE TimerEnabled(current)
  <2>1. ppi' = [ppi EXCEPT !.active = TRUE]
    BY <1>9 DEF TimerIrq
  <2>2. ppi' \in [enabled : BOOLEAN, active : BOOLEAN] /\ ppi'.enabled /\ ppi'.active
    BY <1>2, <1>3, <2>1
  <2>3. CASE FreeLrs(live) = {}
    <3>1. live' = live
      BY <2>3 DEF TimerIrq
    <3>2. LinuxTypeOK'
      BY <1>1, <2>2, <3>1 DEF LinuxInv, LinuxTypeOK, deviceVars
    <3>3. TimerClaims'
      BY <1>1, <1>4, <2>2, <3>1 DEF LinuxInv, TimerClaims
    <3> QED BY <1>5, <1>6, <3>2, <3>3 DEF LinuxInv
  <2>4. CASE FreeLrs(live) # {}
    <3>1. live' = Placed(live, PendingLr(VTIMER, TRUE))
      BY <1>9, <2>4 DEF TimerIrq
    <3>2. live' \in Bank
      BY <1>2, <2>4, <3>1, PlacedFacts
    <3>3. PICK p \in LrIds :
              /\ live[p].state = "Invalid"
              /\ \A k \in LrIds : Placed(live, PendingLr(VTIMER, TRUE))[k] =
                     IF k = p THEN PendingLr(VTIMER, TRUE) ELSE live[k]
      BY <1>2, <2>4, PlacedFacts
    <3>4. \A k \in LrIds : live'[k].hw => k = p
      BY <1>4, <3>1, <3>3
    <3>5. live'[p].id = VTIMER
      BY <1>2, <3>1, <3>3, PendingLrFacts
    <3>6. LinuxTypeOK'
      BY <1>1, <2>2, <3>2 DEF LinuxInv, LinuxTypeOK, deviceVars
    <3>7. TimerClaims'
      BY <1>1, <2>2, <3>4, <3>5 DEF LinuxInv, TimerClaims
    <3> QED BY <1>5, <1>6, <3>6, <3>7 DEF LinuxInv
  <2> QED BY <2>3, <2>4
<1> QED BY <1>8, <1>9

(* The maintenance interrupt keeps the invariant: it refills the bank and re-arms underflow. *)
LEMMA MaintIrqInv ==
    ASSUME LinuxInv, MaintIrq
    PROVE  LinuxInv'
<1>1. /\ phase = "Guest"
      /\ live' = FlushedBank(live, pending[current])
      /\ pending' = [pending EXCEPT ![current] = FlushedSet(live, pending[current])]
      /\ uie' = (pending'[current] # {})
      /\ UNCHANGED <<sched, current, phase, retired, saved, ppi, deviceVars, witness, peerFaults>>
  BY DEF MaintIrq
<1>2. /\ live \in Bank /\ current \in VcpuIds /\ pending \in [VcpuIds -> SUBSET Intid]
      /\ pending[current] \in SUBSET Intid
  BY DEF LinuxInv, LinuxTypeOK
<1>3. /\ live' \in Bank /\ FlushedSet(live, pending[current]) \in SUBSET Intid
      /\ \A k \in LrIds : live'[k].hw => live'[k] = live[k]
  BY <1>1, <1>2, FlushFacts
<1>4. LinuxTypeOK'
  <2>1. pending' \in [VcpuIds -> SUBSET Intid] /\ uie' \in BOOLEAN
    BY <1>1, <1>2, <1>3
  <2> QED BY <1>1, <1>3, <2>1 DEF LinuxInv, LinuxTypeOK, deviceVars
<1>5. MachineUp' /\ BootVcpuKept' /\ ColdIsEmpty'
  BY <1>1, SchedulingKept DEF deviceVars
<1>6. UnderflowArmedExactly'
  BY <1>1 DEF UnderflowArmedExactly
<1>7. TimerClaims'
  <2>1. TimerEnabled(current)' = TimerEnabled(current)
    BY <1>1 DEF TimerEnabled, deviceVars
  <2> QED BY <1>1, <1>3, <2>1 DEF LinuxInv, TimerClaims
<1> QED BY <1>4, <1>5, <1>6, <1>7 DEF LinuxInv

(* A software interrupt reaches the running vCPU through a register or its   *)
(* pending set, and its siblings through theirs.                             *)
LEMMA SendSgiInv ==
    ASSUME LinuxInv, NEW i \in Sgis, NEW req \in SgiRequests, SendSgi(i, req)
    PROVE  LinuxInv'
<1> DEFINE to == {v \in OwnVcpus(current) : AffinityOf(v) \in SgiTargets(req, AffinityOf(current))}
           pd == Marked(i, to \ {current})
<1>1. /\ phase = "Guest"
      /\ IF current \in to THEN DeliverOrDefer(i, pd) ELSE pending' = pd /\ UNCHANGED <<live, uie>>
      /\ UNCHANGED <<sched, current, phase, retired, saved, ppi, deviceVars, witness, peerFaults>>
  BY DEF SendSgi
<1>2. /\ live \in Bank /\ current \in VcpuIds /\ i \in Intid /\ uie \in BOOLEAN
      /\ pending \in [VcpuIds -> SUBSET Intid]
  BY DEF LinuxInv, LinuxTypeOK, Intid
<1>3. pd \in [VcpuIds -> SUBSET Intid] /\ pd[current] = pending[current]
  <2> DEFINE sibs == to \ {current}
  <2>1. current \notin sibs /\ pd = Marked(i, sibs)
    OBVIOUS
  <2> HIDE DEF sibs, pd
  <2>2. /\ Marked(i, sibs) \in [VcpuIds -> SUBSET Intid]
        /\ \A v \in VcpuIds :
              Marked(i, sibs)[v] = IF v \in sibs THEN pending[v] \union {i} ELSE pending[v]
    BY <1>2, MarkedType
  <2> QED BY <1>2, <2>1, <2>2
<1> HIDE DEF to
<1> HIDE DEF pd
<1>4. /\ live' \in Bank /\ \A k \in LrIds : live'[k].hw => live'[k] = live[k]
      /\ pending' \in [VcpuIds -> SUBSET Intid] /\ uie' \in BOOLEAN
      /\ uie' <=> pending'[current] # {}
  <2>0. uie <=> pending[current] # {}
    BY <1>1 DEF LinuxInv, UnderflowArmedExactly
  <2>1. CASE live' = live /\ pending' = pd /\ uie' = uie
    BY <1>2, <1>3, <2>0, <2>1
  <2>2. CASE FreeLrs(live) # {} /\ live' = Placed(live, PendingLr(i, FALSE)) /\ pending' = pd
             /\ uie' = uie
    <3>1. live' \in Bank
      BY <1>2, <2>2, PlacedFacts
    <3>2. PICK p \in LrIds :
              /\ live[p].state = "Invalid"
              /\ \A k \in LrIds : Placed(live, PendingLr(i, FALSE))[k] =
                     IF k = p THEN PendingLr(i, FALSE) ELSE live[k]
      BY <1>2, <2>2, PlacedFacts
    <3>3. \A k \in LrIds : live'[k].hw => live'[k] = live[k]
      BY <1>2, <2>2, <3>2, PendingLrFacts
    <3> QED BY <1>2, <1>3, <2>0, <2>2, <3>1, <3>3
  <2>3. CASE live' = live /\ pending' = [pd EXCEPT ![current] = pd[current] \union {i}] /\ uie' = TRUE
    <3>1. pending' \in [VcpuIds -> SUBSET Intid]
      BY <1>2, <1>3, <2>3
    <3>2. i \in pending'[current]
      BY <1>2, <1>3, <2>3
    <3> QED BY <1>2, <2>3, <3>1, <3>2
  <2> QED BY <1>1, <2>1, <2>2, <2>3 DEF DeliverOrDefer
<1>5. LinuxTypeOK'
  BY <1>1, <1>4 DEF LinuxInv, LinuxTypeOK, deviceVars
<1>6. MachineUp' /\ BootVcpuKept' /\ ColdIsEmpty'
  BY <1>1, SchedulingKept DEF deviceVars
<1>7. UnderflowArmedExactly'
  BY <1>1, <1>4 DEF UnderflowArmedExactly
<1>8. TimerClaims'
  <2>1. TimerEnabled(current)' = TimerEnabled(current)
    BY <1>1 DEF TimerEnabled, deviceVars
  <2> QED BY <1>1, <1>4, <2>1 DEF LinuxInv, TimerClaims
<1> QED BY <1>5, <1>6, <1>7, <1>8 DEF LinuxInv

(* Starting a vCPU keeps the invariant. *)
LEMMA CpuOnInv ==
    ASSUME LinuxInv, NEW v \in VcpuIds, CpuOn(v)
    PROVE  LinuxInv'
<1>1. /\ phase = "Guest" /\ GuestOf(v) = GuestOf(current) /\ sched[v] = "Offline"
      /\ saved' = [saved EXCEPT ![v] = EmptyBank]
      /\ expired' = [expired EXCEPT ![v] = FALSE]
      /\ seeded' = [seeded EXCEPT ![v] = TRUE]
      /\ sched' = [sched EXCEPT ![v] = "Runnable"]
      /\ UNCHANGED <<current, phase, retired, live, pending, uie, ppi, gic, witness, peerFaults, header>>
  BY DEF CpuOn, OwnVcpus
<1>2. v # current /\ retired[GuestOf(v)] = "Live"
  BY <1>1, RunningFacts
<1>3. saved \in [VcpuIds -> Bank] /\ seeded \in [VcpuIds -> BOOLEAN]
  BY DEF LinuxInv, LinuxTypeOK
<1>4. \A w \in VcpuIds : /\ sched'[w] = IF w = v THEN "Runnable" ELSE sched[w]
                         /\ seeded'[w] = IF w = v THEN TRUE ELSE seeded[w]
                         /\ saved'[w] = IF w = v THEN EmptyBank ELSE saved[w]
  BY <1>1, <1>3, RunningFacts
<1>5. LinuxTypeOK'
  BY <1>1, NoLrFacts DEF LinuxInv, LinuxTypeOK, RunStates
<1>6. MachineUp'
  <2>1. \A w \in VcpuIds : (sched'[w] = "Running") <=> (w = current)
    BY <1>1, <1>2, <1>4, RunningFacts
  <2>2. \A w \in VcpuIds : /\ sched'[w] # "Offline" => seeded'[w]
                           /\ retired[GuestOf(w)] # "Live" => sched'[w] = "Offline"
    BY <1>1, <1>2, <1>4, RunningFacts
  <2> QED BY <1>1, <2>1, <2>2 DEF MachineUp
<1>7. BootVcpuKept'
  BY <1>1, <1>4, RunningFacts, IndexFacts DEF BootVcpuKept
<1>8. ColdIsEmpty'
  BY <1>1, <1>4 DEF LinuxInv, ColdIsEmpty
<1>9. UnderflowArmedExactly'
  BY <1>1 DEF LinuxInv, UnderflowArmedExactly
<1>10. TimerClaims'
  <2>1. TimerEnabled(current)' = TimerEnabled(current)
    BY <1>1 DEF TimerEnabled
  <2>2. \A w \in VcpuIds \ {current} : \A k \in LrIds : ~saved'[w][k].hw
    BY <1>4, NoLrFacts DEF LinuxInv, TimerClaims
  <2> QED BY <1>1, <2>1, <2>2 DEF LinuxInv, TimerClaims
<1> QED BY <1>5, <1>6, <1>7, <1>8, <1>9, <1>10 DEF LinuxInv

(* A store leaves a register file, and a refused one leaves it alone.        *)
LEMMA GicFileKept ==
    ASSUME NEW file \in GicFile, NEW a \in GicAccesses
    PROVE  MmioWrite(file, a) \in GicFile /\ (Refused(a) => MmioWrite(file, a) = file)
<1>1. a.frame \in {"Dist", "Redist", "Sgi"}
  BY DEF GicAccesses
<1>2. CASE a.frame = "Dist"
  <2>1. MmioWrite(file, a) = DistWrite(file, a)
    BY <1>2 DEF MmioWrite
  <2>2. CASE a.reg = "ISENABLER"
    <3>1. a.ids \in SUBSET (Ppis \union Spis) /\ DistWrite(file, a) = [file EXCEPT !.spis = @ \union (a.ids \ Ppis)]
      BY <1>2, <2>2 DEF GicAccesses, DistWrite
    <3>2. file.spis \union (a.ids \ Ppis) \in SUBSET Spis
      BY <3>1 DEF GicFile
    <3> QED BY <2>1, <2>2, <3>1, <3>2 DEF GicFile, Refused
  <2>3. CASE a.reg = "ICENABLER"
    <3>1. DistWrite(file, a) = [file EXCEPT !.spis = @ \ a.ids]
      BY <2>3 DEF DistWrite
    <3> QED BY <2>1, <2>3, <3>1 DEF GicFile, Refused
  <2>4. CASE a.reg = "IROUTER"
    <3>1. a.n \in Affinities \union {NoRoute}
      BY <1>2, <2>4 DEF GicAccesses
    <3>2. DistWrite(file, a) = [file EXCEPT !.irouter = [i \in Spis |-> IF i \in a.ids THEN a.n
                                                                       ELSE file.irouter[i]]]
      BY <2>4 DEF DistWrite
    <3> QED BY <2>1, <2>4, <3>1, <3>2 DEF GicFile, Refused
  <2>5. CASE a.reg \notin {"ISENABLER", "ICENABLER", "IROUTER"}
    <3>1. DistWrite(file, a) = file
      BY <2>5 DEF DistWrite
    <3> QED BY <2>1, <3>1
  <2> QED BY <2>2, <2>3, <2>4, <2>5
<1>3. CASE a.frame = "Sgi"
  <2>1. MmioWrite(file, a) = SgiWrite(file, a)
    BY <1>3 DEF MmioWrite
  <2>2. CASE a.reg \in {"ISENABLER", "ICENABLER"}
    <3>1. a.n \in Affinities /\ a.ids \in SUBSET Ppis
      BY <1>3, <2>2 DEF GicAccesses
    <3>2. \/ SgiWrite(file, a) = [file EXCEPT !.redist[a.n] = @ \union a.ids]
          \/ SgiWrite(file, a) = [file EXCEPT !.redist[a.n] = @ \ a.ids]
      BY <2>2 DEF SgiWrite
    <3> QED BY <2>1, <2>2, <3>1, <3>2 DEF GicFile, Refused
  <2>3. CASE a.reg \notin {"ISENABLER", "ICENABLER"}
    <3>1. SgiWrite(file, a) = file
      BY <2>3 DEF SgiWrite
    <3> QED BY <2>1, <3>1
  <2> QED BY <2>2, <2>3
<1>4. CASE a.frame = "Redist"
  BY <1>4 DEF MmioWrite
<1> QED BY <1>1, <1>2, <1>3, <1>4

(* A write to the virtual GIC keeps the invariant, the hardware timer line included. *)
LEMMA GicWriteInv ==
    ASSUME LinuxInv, NEW a \in GicAccesses, GicWrite(a)
    PROVE  LinuxInv'
<1> DEFINE g == GuestOf(current)
           file == MmioWrite(gic[g], a)
<1>1. /\ phase = "Guest" /\ gic' = [gic EXCEPT ![g] = file]
      /\ witness' = ArmSpiWitness(g, file)
      /\ UNCHANGED <<expired, seeded, peerFaults, header>>
  BY DEF GicWrite
<1>2. g \in Guests /\ gic \in [Guests -> GicFile] /\ gic[g] \in GicFile
  BY <1>1, RunningFacts DEF LinuxInv, LinuxTypeOK
<1>3. file \in GicFile /\ (Refused(a) => file = gic[g])
  BY <1>2, GicFileKept
<1>4. gic' \in [Guests -> GicFile] /\ gic'[g] = file
  BY <1>1, <1>2, <1>3
<1>5. witness' \in [Guests -> {"Unarmed", "Armed", "Fired"}]
  BY <1>1, WitnessType DEF ArmSpiWitness, LinuxInv, LinuxTypeOK
<1>6. CASE Refused(a) /\ FaultRetire
  <2>1. gic' = gic
    BY <1>1, <1>2, <1>3, <1>6
  <2>2. UNCHANGED deviceVars /\ Retire("Faulted") /\ peerFaults' \in [Guests -> Nat]
    BY <1>1, <1>6, <2>1 DEF deviceVars, FaultRetire, LinuxInv, LinuxTypeOK
  <2> QED BY <1>1, <1>5, <2>2, RetireInv
<1>7. CASE /\ ppi' = [ppi EXCEPT !.enabled = IsEnabled(file, AffinityOf(current), VTIMER)]
           /\ UNCHANGED <<sched, current, phase, retired, live, saved, pending, uie>>
  <2>1. ppi \in [enabled : BOOLEAN, active : BOOLEAN]
    BY DEF LinuxInv, LinuxTypeOK
  <2>2. IsEnabled(file, AffinityOf(current), VTIMER) \in BOOLEAN
    BY PpiType
  <2> HIDE DEF file
  <2>3. /\ ppi' \in [enabled : BOOLEAN, active : BOOLEAN]
        /\ ppi'.enabled = IsEnabled(file, AffinityOf(current), VTIMER)
        /\ ppi'.active = ppi.active
    BY <1>7, <2>1, <2>2
  <2>4. LinuxTypeOK'
    BY <1>1, <1>4, <1>5, <1>7, <2>3 DEF LinuxInv, LinuxTypeOK
  <2>5. MachineUp' /\ BootVcpuKept' /\ ColdIsEmpty'
    BY <1>1, <1>7, SchedulingKept
  <2>6. UnderflowArmedExactly'
    BY <1>7 DEF LinuxInv, UnderflowArmedExactly
  <2>7. TimerEnabled(current)' = ppi'.enabled
    BY <1>4, <1>7, <2>3 DEF TimerEnabled
  <2>8. TimerClaims'
    BY <1>7, <2>3, <2>7 DEF LinuxInv, TimerClaims
  <2> QED BY <2>4, <2>5, <2>6, <2>8 DEF LinuxInv
<1> QED BY <1>6, <1>7 DEF GicWrite

(* An access to another guest's memory: skipped, fatal to the guest past the *)
(* cap, or fatal to the machine when the owner has reused its header.        *)
LEMMA PeerFaultInv ==
    ASSUME LinuxInv, NEW owner \in Guests, PeerFault(owner)
    PROVE  LinuxInv'
<1> DEFINE g == GuestOf(current)
           n == peerFaults[g] + 1
<1>1. /\ phase = "Guest" /\ peerFaults' = [peerFaults EXCEPT ![g] = n]
      /\ UNCHANGED <<deviceVars, witness>>
  BY DEF PeerFault
<1>2. g \in Guests /\ peerFaults \in [Guests -> Nat]
  BY <1>1, RunningFacts DEF LinuxInv, LinuxTypeOK
<1>3. /\ peerFaults' \in [Guests -> Nat]
      /\ witness' \in [Guests -> {"Unarmed", "Armed", "Fired"}]
  BY <1>1, <1>2 DEF LinuxInv, LinuxTypeOK
<1>4. CASE FaultRetire
  BY <1>1, <1>3, <1>4, RetireInv DEF FaultRetire
<1>5. CASE /\ phase' = IF n = 1 /\ ~header[owner] THEN "PeerfaultFail" ELSE "Guest"
           /\ UNCHANGED <<sched, current, retired, live, saved, pending, uie, ppi>>
  <2>1. LinuxTypeOK'
    BY <1>1, <1>3, <1>5 DEF LinuxInv, LinuxTypeOK, deviceVars
  <2>2. MachineUp'
    <3>1. owner # g /\ GuestOf(current') = g
      BY <1>5 DEF PeerFault
    <3>2. phase' = "PeerfaultFail" => /\ peerFaults'[g] = 1
                                      /\ \E h \in Guests \ {g} : ~header'[h]
      BY <1>1, <1>2, <1>5, <3>1 DEF deviceVars
    <3> QED BY <1>1, <1>5, <3>1, <3>2 DEF LinuxInv, MachineUp, deviceVars
  <2>3. BootVcpuKept' /\ ColdIsEmpty' /\ UnderflowArmedExactly'
    BY <1>1, <1>5 DEF LinuxInv, BootVcpuKept, ColdIsEmpty, UnderflowArmedExactly
  <2>4. TimerClaims'
    <3>1. TimerEnabled(current)' = TimerEnabled(current)
      BY <1>1, <1>5 DEF TimerEnabled, deviceVars
    <3> QED BY <1>1, <1>5, <3>1 DEF LinuxInv, TimerClaims
  <2> QED BY <2>1, <2>2, <2>3, <2>4 DEF LinuxInv
<1> QED BY <1>4, <1>5 DEF PeerFault

(* A guest that powers off or faults keeps the invariant. *)
LEMMA StopInv ==
    ASSUME LinuxInv, PowerOff \/ Fault
    PROVE  LinuxInv'
<1>1. /\ phase = "Guest" /\ UNCHANGED <<deviceVars, witness, peerFaults>>
      /\ Retire("PoweredOff") \/ Retire("Faulted")
  BY DEF PowerOff, Fault, FaultRetire
<1>2. /\ peerFaults' \in [Guests -> Nat]
      /\ witness' \in [Guests -> {"Unarmed", "Armed", "Fired"}]
  BY <1>1 DEF LinuxInv, LinuxTypeOK
<1> QED BY <1>1, <1>2, RetireInv

(* The guest takes and ends interrupts by itself, without an exit.           *)
LEMMA GuestTakesInv ==
    ASSUME LinuxInv, NEW k \in LrIds, GuestTakes(k)
    PROVE  LinuxInv'
<1>1. /\ phase = "Guest" /\ live' = [live EXCEPT ![k].state = "Active"]
      /\ UNCHANGED <<sched, current, phase, retired, saved, pending, uie, ppi, deviceVars, witness, peerFaults>>
  BY DEF GuestTakes
<1>2. live \in Bank
  BY DEF LinuxInv, LinuxTypeOK
<1>3. live' \in Bank /\ \A j \in LrIds : live'[j].hw = live[j].hw /\ live'[j].id = live[j].id
  BY <1>1, <1>2 DEF Bank, Lr
<1>4. LinuxTypeOK'
  BY <1>1, <1>3 DEF LinuxInv, LinuxTypeOK, deviceVars
<1>5. MachineUp' /\ BootVcpuKept' /\ ColdIsEmpty'
  BY <1>1, SchedulingKept DEF deviceVars
<1>6. UnderflowArmedExactly'
  BY <1>1 DEF LinuxInv, UnderflowArmedExactly
<1>7. TimerClaims'
  BY <1>1, <1>3 DEF LinuxInv, TimerClaims, TimerEnabled, deviceVars
<1> QED BY <1>4, <1>5, <1>6, <1>7 DEF LinuxInv

(* A guest's end of interrupt keeps the invariant. *)
LEMMA GuestEndsInv ==
    ASSUME LinuxInv, NEW k \in LrIds, GuestEnds(k)
    PROVE  LinuxInv'
<1>1. /\ phase = "Guest" /\ live' = [live EXCEPT ![k] = NoLr]
      /\ ppi' = IF live[k].hw THEN [ppi EXCEPT !.active = FALSE] ELSE ppi
      /\ UNCHANGED <<sched, current, phase, retired, saved, pending, uie, deviceVars, witness, peerFaults>>
  BY DEF GuestEnds
<1>2. live \in Bank /\ ppi \in [enabled : BOOLEAN, active : BOOLEAN]
  BY DEF LinuxInv, LinuxTypeOK
<1>3. live' \in Bank /\ \A j \in LrIds : live'[j] = IF j = k THEN NoLr ELSE live[j]
  BY <1>1, <1>2, NoLrFacts DEF Bank
<1>4. \A j \in LrIds : live'[j].hw => j # k /\ live'[j] = live[j]
  BY <1>3, NoLrFacts
<1>5. ppi' \in [enabled : BOOLEAN, active : BOOLEAN] /\ ppi'.enabled = ppi.enabled
  BY <1>1, <1>2
<1>6. ~live[k].hw => ppi' = ppi
  BY <1>1
<1>7. LinuxTypeOK'
  BY <1>1, <1>3, <1>5 DEF LinuxInv, LinuxTypeOK, deviceVars
<1>8. MachineUp' /\ BootVcpuKept' /\ ColdIsEmpty'
  BY <1>1, SchedulingKept DEF deviceVars
<1>9. UnderflowArmedExactly'
  BY <1>1 DEF LinuxInv, UnderflowArmedExactly
<1>10. TimerClaims'
  <2>1. TimerEnabled(current)' = TimerEnabled(current)
    BY <1>1 DEF TimerEnabled, deviceVars
  <2>2. \A j \in LrIds : live'[j].hw => live'[j].id = VTIMER /\ ppi'.active
    BY <1>1, <1>4, <1>6 DEF LinuxInv, TimerClaims
  <2> QED BY <1>1, <1>4, <1>5, <2>1, <2>2 DEF LinuxInv, TimerClaims
<1> QED BY <1>7, <1>8, <1>9, <1>10 DEF LinuxInv

(* The guests' clocks and their reuse of the memory the image came in.       *)
LEMMA ElsewhereInv ==
    ASSUME LinuxInv,
           \/ \E v \in VcpuIds : DeadlinePasses(v)
           \/ GuestRearms
           \/ GuestDropsHeader
           \/ UNCHANGED linuxVars
    PROVE  LinuxInv'
<1>1. /\ expired' \in [VcpuIds -> BOOLEAN] /\ header' \in [Guests -> BOOLEAN]
      /\ \A g \in Guests : header'[g] => header[g]
      /\ UNCHANGED <<sched, current, phase, retired, live, saved, pending, uie, ppi, gic, seeded,
                     witness, peerFaults>>
  <2>1. expired \in [VcpuIds -> BOOLEAN] /\ header \in [Guests -> BOOLEAN]
    BY DEF LinuxInv, LinuxTypeOK
  <2> QED BY <2>1 DEF DeadlinePasses, GuestRearms, GuestDropsHeader, linuxVars
<1>2. LinuxTypeOK'
  BY <1>1 DEF LinuxInv, LinuxTypeOK
<1>3. MachineUp' /\ BootVcpuKept' /\ ColdIsEmpty'
  BY <1>1, SchedulingKept
<1>4. UnderflowArmedExactly' /\ TimerClaims'
  BY <1>1 DEF LinuxInv, UnderflowArmedExactly, TimerClaims, TimerEnabled
<1> QED BY <1>2, <1>3, <1>4 DEF LinuxInv

(* The invariant holds at the first guest entry. *)
LEMMA LinuxInitInv == LinuxInit => LinuxInv
<1> SUFFICES ASSUME LinuxInit PROVE LinuxInv
  OBVIOUS
<1>1. 0 \in VcpuIds /\ AffinityOf(0) = 0
  <2>1. 0 \in Guests /\ Boot(0) = 0
    BY LinuxRunAssumption, VirtGicAssumption DEF Guests, Boot
  <2> QED BY <2>1, IndexFacts
<1>2. GicAtReset \in GicFile
  BY VirtGicAssumption DEF GicAtReset, GicFile, Affinities
<1>3. LinuxTypeOK
  <2>1. sched \in [VcpuIds -> RunStates] /\ seeded \in [VcpuIds -> BOOLEAN]
    BY DEF LinuxInit, RunStates
  <2>2. /\ live \in Bank /\ saved \in [VcpuIds -> Bank]
        /\ ppi \in [enabled : BOOLEAN, active : BOOLEAN]
    BY NoLrFacts, PpiType DEF LinuxInit
  <2>3. /\ pending \in [VcpuIds -> SUBSET Intid] /\ expired \in [VcpuIds -> BOOLEAN]
        /\ gic \in [Guests -> GicFile]
    BY <1>2 DEF LinuxInit
  <2>4. /\ retired \in [Guests -> {"Live", "PoweredOff", "Faulted"}]
        /\ witness \in [Guests -> {"Unarmed", "Armed", "Fired"}]
        /\ peerFaults \in [Guests -> Nat] /\ header \in [Guests -> BOOLEAN]
    BY DEF LinuxInit
  <2> QED BY <1>1, <2>1, <2>2, <2>3, <2>4 DEF LinuxInit, LinuxTypeOK
<1>4. MachineUp
  <2>1. \A v \in VcpuIds : /\ (sched[v] = "Running") <=> (v = 0)
                           /\ (sched[v] # "Offline") <=> (AffinityOf(v) = 0)
    BY <1>1 DEF LinuxInit
  <2> QED BY <2>1, IndexFacts DEF LinuxInit, MachineUp
<1>5. BootVcpuKept
  BY IndexFacts DEF LinuxInit, BootVcpuKept
<1>6. ColdIsEmpty
  BY DEF LinuxInit, ColdIsEmpty
<1>7. UnderflowArmedExactly
  BY <1>1 DEF LinuxInit, UnderflowArmedExactly
<1>8. TimerClaims
  <2>1. ppi.enabled
    BY PpiType DEF LinuxInit
  <2>2. \A v \in VcpuIds : saved[v] = EmptyBank
    BY DEF LinuxInit
  <2>3. live = EmptyBank
    BY DEF LinuxInit
  <2> QED BY <2>1, <2>2, <2>3, NoLrFacts DEF TimerClaims
<1> QED BY <1>3, <1>4, <1>5, <1>6, <1>7, <1>8 DEF LinuxInv

(* Every handler and every guest step keeps the invariant. *)
LEMMA LinuxStepInv ==
    ASSUME LinuxInv, [LinuxNext]_linuxVars
    PROVE  LinuxInv'
  BY SliceInv, TimerIrqInv, MaintIrqInv, GicWriteInv, PeerFaultInv, StopInv, WfiInv, SendSgiInv,
     CpuOnInv, GuestTakesInv, GuestEndsInv, ElsewhereInv
  DEF LinuxNext, IrqExit, SyncExit, DataAbort

-----------------------------------------------------------------------------
(* The theorems *)

(* The conjuncts of LinuxInv hold of every run of the guest loop.            *)
THEOREM LinuxInvariant == LinuxSpec => []LinuxInv
<1> QED BY LinuxInitInv, LinuxStepInv, PTL DEF LinuxSpec

(* None of the halts in the scheduling paths is ever reached, whatever the   *)
(* guests do.  The machine stops when every guest has retired, or in the     *)
(* park() of handle_peer_fault, and there only on the first access of a      *)
(* guest to the memory of one whose image header is gone; while it is up     *)
(* hv-core and CURRENT agree on who runs (sched_on, retire_and_hand_over,    *)
(* cpu_on, switch_context).                                                  *)
THEOREM MachineAlwaysUp == LinuxSpec => []MachineUp
<1>1. LinuxInv => MachineUp
  BY DEF LinuxInv
<1> QED BY <1>1, LinuxInvariant, PTL

(* The underflow interrupt never storms and never strands an interrupt       *)
(* (flush_pending_to_lrs, deliver_or_defer_vint, switch_context).            *)
THEOREM UnderflowAlwaysExact == LinuxSpec => []UnderflowArmedExactly
<1>1. LinuxInv => UnderflowArmedExactly
  BY DEF LinuxInv
<1> QED BY <1>1, LinuxInvariant, PTL

(* The physical timer has at most one owner, which is the running vCPU       *)
(* (release_hardware_mappings, release_forwarded_timer, handle_vgic_access). *)
THEOREM TimerAlwaysOwned == LinuxSpec => []TimerLineOwned
<1>1. ASSUME LinuxInv PROVE TimerLineOwned
  <2> DEFINE claims == {k \in LrIds : live[k].hw}
  <2>1. TimerClaims
    BY <1>1 DEF LinuxInv
  <2>2. phase = "Guest" => Cardinality(claims) <= 1
    <3> SUFFICES ASSUME phase = "Guest" PROVE Cardinality(claims) <= 1
      OBVIOUS
    <3>1. \A j, k \in claims : j = k
      BY <2>1 DEF TimerClaims
    <3> HIDE DEF claims
    <3>2. CASE claims = {}
      BY <3>2, FS_EmptySet
    <3>3. CASE claims # {}
      <4>1. PICK k : k \in claims
        BY <3>3
      <4>2. claims = {k}
        BY <3>1, <4>1
      <4> QED BY <4>2, FS_Singleton
    <3> QED BY <3>2, <3>3
  <2> QED BY <2>1, <2>2 DEF TimerClaims, TimerLineOwned
<1> QED BY <1>1, LinuxInvariant, PTL

-----------------------------------------------------------------------------
(* The refinement.  Owed and Serving are the mapped mailboxes, vCPU by vCPU. *)

(* The mailboxes' vCPUs and guests are those of the metal. *)
LEMMA BoxNames ==
    /\ Boxes!BoxVcpus = VcpuIds
    /\ \A v : Boxes!BoxGuest(v) = GuestOf(v)
    /\ OwnVcpus(current) = {v \in VcpuIds : GuestOf(v) = GuestOf(current)}
  BY DEF Boxes!BoxVcpus, VcpuIds, Boxes!BoxGuest, GuestOf, OwnVcpus

(* Adding one interrupt for vCPUs of the running guest is a post. *)
LEMMA PostStep ==
    ASSUME NEW i \in Intid, NEW to \in SUBSET OwnVcpus(current), current' \in VcpuIds,
           \A v \in VcpuIds : Owed(v)' = IF v \in to THEN Owed(v) \union {i} ELSE Owed(v),
           \A v \in VcpuIds : Serving(v)' = Serving(v)
    PROVE  Boxes!BoxNext
<1>1. to \in SUBSET {v \in Boxes!BoxVcpus : Boxes!BoxGuest(v) = Boxes!BoxGuest(current)}
  BY BoxNames
<1>2. Boxes!Post(i, to)
  BY BoxNames DEF Boxes!Post, Owed, Serving
<1> QED BY <1>1, <1>2 DEF Boxes!BoxNext, Intid

(* A step that moves no interrupt passes the CPU or stutters. *)
LEMMA PassStep ==
    ASSUME current' \in VcpuIds,
           \A v \in VcpuIds : Owed(v)' = Owed(v) /\ Serving(v)' = Serving(v)
    PROVE  Boxes!BoxNext
  BY BoxNames DEF Boxes!PassOn, Boxes!BoxNext, Owed, Serving

(* Taking: the register may have been the only place the interrupt waited    *)
(* in, or it waits elsewhere too.                                            *)
LEMMA TakeStep ==
    ASSUME NEW i \in Intid, current \in VcpuIds, current' = current, i \in Owed(current),
           Owed(current)' = Owed(current) \/ Owed(current)' = Owed(current) \ {i},
           Serving(current)' = Serving(current) \union {i},
           \A v \in VcpuIds : v # current => Owed(v)' = Owed(v) /\ Serving(v)' = Serving(v)
    PROVE  Boxes!BoxNext
<1> DEFINE O == [v \in VcpuIds |-> Owed(v)]
           S == [v \in VcpuIds |-> Serving(v)]
           O2 == [v \in VcpuIds |-> Owed(v)']
           S2 == [v \in VcpuIds |-> Serving(v)']
<1>1. i \in O[current]
  OBVIOUS
<1>2. O2 \in {O, [O EXCEPT ![current] = @ \ {i}]}
  <2>1. CASE Owed(current)' = Owed(current)
    BY <2>1
  <2>2. CASE Owed(current)' = Owed(current) \ {i}
    BY <2>2
  <2> QED BY <2>1, <2>2
<1>3. S2 = [S EXCEPT ![current] = @ \union {i}]
  OBVIOUS
<1>4. Boxes!Take(i)
  BY <1>1, <1>2, <1>3 DEF Boxes!Take, Owed, Serving
<1> QED BY <1>4 DEF Boxes!BoxNext, Intid

(* Dropping at most the interrupt being ended is a finish. *)
LEMMA FinishStep ==
    ASSUME NEW i \in Intid, current \in VcpuIds, current' = current, i \in Serving(current),
           Serving(current)' = Serving(current) \/ Serving(current)' = Serving(current) \ {i},
           Owed(current)' = Owed(current),
           \A v \in VcpuIds : v # current => Owed(v)' = Owed(v) /\ Serving(v)' = Serving(v)
    PROVE  Boxes!BoxNext
<1> DEFINE O == [v \in VcpuIds |-> Owed(v)]
           S == [v \in VcpuIds |-> Serving(v)]
           O2 == [v \in VcpuIds |-> Owed(v)']
           S2 == [v \in VcpuIds |-> Serving(v)']
<1>1. i \in S[current]
  OBVIOUS
<1>2. S2 \in {S, [S EXCEPT ![current] = @ \ {i}]}
  <2>1. CASE Serving(current)' = Serving(current)
    BY <2>1
  <2>2. CASE Serving(current)' = Serving(current) \ {i}
    BY <2>2
  <2> QED BY <2>1, <2>2
<1>3. O2 = O
  OBVIOUS
<1>4. Boxes!Finish(i)
  BY <1>1, <1>2, <1>3 DEF Boxes!Finish, Owed, Serving
<1> QED BY <1>4 DEF Boxes!BoxNext, Intid

(* What sits in a mailbox is an interrupt of the machine.                    *)
BoxesTyped == \A v \in VcpuIds : Owed(v) \subseteq Intid /\ Serving(v) \subseteq Intid

(* What a register that changes state does to what its bank holds.           *)
LEMMA RegisterTaken ==
    ASSUME NEW b \in Bank, NEW c \in Bank, NEW k \in LrIds, b[k].state = "Pending",
           \A j \in LrIds : c[j].id = b[j].id
                            /\ c[j].state = IF j = k THEN "Active" ELSE b[j].state
    PROVE  /\ Held(c, "Active") = Held(b, "Active") \union {b[k].id}
           /\ \/ Held(c, "Pending") = Held(b, "Pending")
              \/ Held(c, "Pending") = Held(b, "Pending") \ {b[k].id}
<1> DEFINE i == b[k].id
<1>0. i \in Held(b, "Pending")
  BY HeldBy
<1>1. \A x : x \in Held(c, "Active") <=> x \in Held(b, "Active") \union {i}
  BY HeldBy
<1>2. \A x : x # i => (x \in Held(c, "Pending") <=> x \in Held(b, "Pending"))
  BY HeldBy
<1> HIDE DEF i
<1>3. Held(c, "Active") = Held(b, "Active") \union {i}
  BY <1>1
<1>4. Held(c, "Pending") = Held(b, "Pending") \/ Held(c, "Pending") = Held(b, "Pending") \ {i}
  <2>1. CASE i \in Held(c, "Pending")
    <3>1. \A x : x \in Held(c, "Pending") <=> x \in Held(b, "Pending")
      BY <1>0, <1>2, <2>1
    <3>2. Held(c, "Pending") = Held(b, "Pending")
      BY <3>1
    <3> QED BY <3>2
  <2>2. CASE i \notin Held(c, "Pending")
    <3>1. \A x : x \in Held(c, "Pending") <=> x \in Held(b, "Pending") \ {i}
      BY <1>2, <2>2
    <3>2. Held(c, "Pending") = Held(b, "Pending") \ {i}
      BY <3>1
    <3> QED BY <3>2
  <2> QED BY <2>1, <2>2
<1> QED BY <1>3, <1>4 DEF i

(* Ending one register changes what is being served by at most its own interrupt. *)
LEMMA RegisterEnded ==
    ASSUME NEW b \in Bank, NEW c \in Bank, NEW k \in LrIds, b[k].state = "Active", c[k].state = "Invalid",
           \A j \in LrIds : j # k => c[j] = b[j]
    PROVE  /\ Held(c, "Pending") = Held(b, "Pending")
           /\ \/ Held(c, "Active") = Held(b, "Active")
              \/ Held(c, "Active") = Held(b, "Active") \ {b[k].id}
<1> DEFINE i == b[k].id
<1>0. i \in Held(b, "Active")
  BY HeldBy
<1>1. \A x : x \in Held(c, "Pending") <=> x \in Held(b, "Pending")
  BY HeldBy
<1>2. \A x : x # i => (x \in Held(c, "Active") <=> x \in Held(b, "Active"))
  BY HeldBy
<1> HIDE DEF i
<1>3. Held(c, "Pending") = Held(b, "Pending")
  BY <1>1
<1>4. Held(c, "Active") = Held(b, "Active") \/ Held(c, "Active") = Held(b, "Active") \ {i}
  <2>1. CASE i \in Held(c, "Active")
    <3>1. \A x : x \in Held(c, "Active") <=> x \in Held(b, "Active")
      BY <1>0, <1>2, <2>1
    <3>2. Held(c, "Active") = Held(b, "Active")
      BY <3>1
    <3> QED BY <3>2
  <2>2. CASE i \notin Held(c, "Active")
    <3>1. \A x : x \in Held(c, "Active") <=> x \in Held(b, "Active") \ {i}
      BY <1>2, <2>2
    <3>2. Held(c, "Active") = Held(b, "Active") \ {i}
      BY <3>1
    <3> QED BY <3>2
  <2> QED BY <2>1, <2>2
<1> QED BY <1>3, <1>4 DEF i

(* A guest's acknowledge is a mailbox step. *)
LEMMA GuestTakesBoxes ==
    ASSUME LinuxInv, BoxesTyped, NEW k \in LrIds, GuestTakes(k)
    PROVE  Boxes!BoxNext
<1> DEFINE i == live[k].id
<1>1. /\ live[k].state = "Pending" /\ live' = [live EXCEPT ![k].state = "Active"]
      /\ UNCHANGED <<current, saved, pending>>
  BY DEF GuestTakes
<1>2. live \in Bank /\ current \in VcpuIds
  BY DEF LinuxInv, LinuxTypeOK
<1>3. \A j \in LrIds : /\ live'[j].id = live[j].id
                       /\ live'[j].state = IF j = k THEN "Active" ELSE live[j].state
  BY <1>1, <1>2 DEF Bank, Lr
<1>4. i \in Held(live, "Pending")
  BY <1>1, HeldBy
<1>5. live' \in Bank /\ live[k].state = "Pending"
  BY <1>1, <1>2 DEF Bank, Lr
<1>6. /\ Held(live', "Active") = Held(live, "Active") \union {i}
      /\ \/ Held(live', "Pending") = Held(live, "Pending")
         \/ Held(live', "Pending") = Held(live, "Pending") \ {i}
  BY <1>2, <1>3, <1>5, RegisterTaken
<1>7. Owed(current) = Held(live, "Pending") \union pending[current]
      /\ Owed(current)' = Held(live', "Pending") \union pending[current]
      /\ Serving(current) = Held(live, "Active") /\ Serving(current)' = Held(live', "Active")
  BY <1>1 DEF Owed, Serving, BankOf
<1>8. \A v \in VcpuIds : v # current => Owed(v)' = Owed(v) /\ Serving(v)' = Serving(v)
  BY <1>1 DEF Owed, Serving, BankOf
<1>9. i \in Intid /\ i \in Owed(current)
  BY <1>2, <1>4, <1>7 DEF BoxesTyped
<1> HIDE DEF i
<1>10. Owed(current)' = Owed(current) \/ Owed(current)' = Owed(current) \ {i}
  <2>1. CASE i \in pending[current]
    <3>1. \A x : x \in Owed(current)' <=> x \in Owed(current)
      BY <1>6, <1>7, <1>9, <2>1
    <3> QED BY <3>1
  <2>2. CASE i \notin pending[current]
    <3>1. CASE Held(live', "Pending") = Held(live, "Pending")
      BY <1>7, <3>1
    <3>2. CASE Held(live', "Pending") = Held(live, "Pending") \ {i}
      <4>1. \A x : x \in Owed(current)' <=> x \in Owed(current) \ {i}
        BY <1>7, <2>2, <3>2
      <4> QED BY <4>1
    <3> QED BY <1>6, <3>1, <3>2
  <2> QED BY <2>1, <2>2
<1>11. Serving(current)' = Serving(current) \union {i}
  BY <1>6, <1>7
<1> QED BY <1>1, <1>2, <1>8, <1>9, <1>10, <1>11, TakeStep

(* A guest's end of interrupt is a mailbox step. *)
LEMMA GuestEndsBoxes ==
    ASSUME LinuxInv, BoxesTyped, NEW k \in LrIds, GuestEnds(k)
    PROVE  Boxes!BoxNext
<1> DEFINE i == live[k].id
<1>1. /\ live[k].state = "Active" /\ live' = [live EXCEPT ![k] = NoLr]
      /\ UNCHANGED <<current, saved, pending>>
  BY DEF GuestEnds
<1>2. live \in Bank /\ current \in VcpuIds
  BY DEF LinuxInv, LinuxTypeOK
<1>3. \A j \in LrIds : /\ j # k => live'[j] = live[j]
                       /\ live'[k].state = "Invalid"
  BY <1>1, <1>2, NoLrFacts DEF Bank
<1>4. i \in Held(live, "Active")
  BY <1>1, HeldBy
<1>5. live' \in Bank /\ live[k].state = "Active"
  BY <1>1, <1>2, NoLrFacts DEF Bank
<1>6. /\ Held(live', "Pending") = Held(live, "Pending")
      /\ \/ Held(live', "Active") = Held(live, "Active")
         \/ Held(live', "Active") = Held(live, "Active") \ {i}
  BY <1>2, <1>3, <1>5, RegisterEnded
<1>7. Owed(current) = Held(live, "Pending") \union pending[current]
      /\ Owed(current)' = Held(live', "Pending") \union pending[current]
      /\ Serving(current) = Held(live, "Active") /\ Serving(current)' = Held(live', "Active")
  BY <1>1 DEF Owed, Serving, BankOf
<1>8. \A v \in VcpuIds : v # current => Owed(v)' = Owed(v) /\ Serving(v)' = Serving(v)
  BY <1>1 DEF Owed, Serving, BankOf
<1>9. i \in Intid /\ i \in Serving(current)
  BY <1>2, <1>4, <1>7 DEF BoxesTyped
<1> HIDE DEF i
<1> QED BY <1>1, <1>2, <1>5, <1>6, <1>7, <1>8, <1>9, FinishStep

(* A hand-over, in terms of the mailboxes.                                   *)
LEMMA HandsOverBoxes ==
    ASSUME LinuxInv, NEW pd \in [VcpuIds -> SUBSET Intid], HandsOver(pd)
    PROVE  /\ current' \in VcpuIds
           /\ \A v \in VcpuIds : /\ Owed(v)' = Held(BankOf(v), "Pending") \union pd[v]
                                 /\ Serving(v)' = Serving(v)
<1>1. PICK st, next : Handable(st, next) /\ HandOver(next, st, pd)
  BY DEF HandsOver
<1>2. current' = next /\ next \in VcpuIds
  BY <1>1, HandOverDone DEF Handable
<1>3. ASSUME NEW v \in VcpuIds
      PROVE  /\ Owed(v)' = Held(BankOf(v), "Pending") \union pd[v]
             /\ Serving(v)' = Serving(v)
  BY <1>1, HandOverBoxes
<1> QED BY <1>2, <1>3

(* Sending an SGI is a mailbox step, although each target may be in a register, pending or asleep. *)
LEMMA SendSgiBoxes ==
    ASSUME LinuxInv, NEW i \in Sgis, NEW req \in SgiRequests, SendSgi(i, req)
    PROVE  Boxes!BoxNext
<1> DEFINE to == {v \in OwnVcpus(current) : AffinityOf(v) \in SgiTargets(req, AffinityOf(current))}
           sibs == to \ {current}
           pd == Marked(i, sibs)
<1>1. /\ IF current \in to THEN DeliverOrDefer(i, pd) ELSE pending' = pd /\ UNCHANGED <<live, uie>>
      /\ UNCHANGED <<current, saved>>
  BY DEF SendSgi
<1>2. live \in Bank /\ current \in VcpuIds /\ i \in Intid
  BY DEF LinuxInv, LinuxTypeOK, Intid
<1>3. /\ to \in SUBSET OwnVcpus(current)
      /\ \A v : v \in sibs <=> v \in to /\ v # current
  OBVIOUS
<1> HIDE DEF to, sibs
<1>4. /\ pd \in [VcpuIds -> SUBSET Intid]
      /\ \A v \in VcpuIds : pd[v] = IF v \in sibs THEN pending[v] \union {i} ELSE pending[v]
  BY <1>2, MarkedType
<1> HIDE DEF pd
<1>5. \A v \in VcpuIds : v # current =>
          /\ Owed(v)' = IF v \in to THEN Owed(v) \union {i} ELSE Owed(v)
          /\ Serving(v)' = Serving(v)
  <2> SUFFICES ASSUME NEW v \in VcpuIds, v # current
               PROVE  /\ Owed(v)' = IF v \in to THEN Owed(v) \union {i} ELSE Owed(v)
                      /\ Serving(v)' = Serving(v)
    OBVIOUS
  <2>1. pending'[v] = pd[v]
    BY <1>1, <1>2, <1>4 DEF DeliverOrDefer
  <2>2. BankOf(v)' = saved[v] /\ BankOf(v) = saved[v]
    BY <1>1 DEF BankOf
  <2>3. CASE v \in to
    BY <1>3, <1>4, <2>1, <2>2, <2>3 DEF Owed, Serving
  <2>4. CASE v \notin to
    BY <1>3, <1>4, <2>1, <2>2, <2>4 DEF Owed, Serving
  <2> QED BY <2>3, <2>4
<1>6. /\ Owed(current)' = IF current \in to THEN Owed(current) \union {i} ELSE Owed(current)
      /\ Serving(current)' = Serving(current)
  <2>0. pd[current] = pending[current]
    BY <1>2, <1>3, <1>4
  <2>1. BankOf(current) = live /\ BankOf(current)' = live'
    BY <1>1 DEF BankOf
  <2>2. CASE current \notin to
    BY <1>1, <2>0, <2>1, <2>2 DEF Owed, Serving
  <2>3. CASE current \in to /\ FreeLrs(live) # {}
    <3>1. live' = Placed(live, PendingLr(i, FALSE)) /\ pending' = pd
      BY <1>1, <2>3 DEF DeliverOrDefer
    <3>2. /\ Held(live', "Pending") = Held(live, "Pending") \union {i}
          /\ Held(live', "Active") = Held(live, "Active")
      BY <1>2, <2>3, <3>1, PlacedFacts
    <3>3. pending'[current] = pending[current]
      BY <2>0, <3>1
    <3>4. Owed(current)' = Held(live', "Pending") \union pending[current]
      BY <1>1, <2>1, <3>3 DEF Owed
    <3>5. Owed(current) = Held(live, "Pending") \union pending[current]
      BY <2>1 DEF Owed
    <3>6. Owed(current)' = Owed(current) \union {i}
      BY <3>2, <3>4, <3>5
    <3>7. Serving(current)' = Serving(current)
      BY <2>1, <3>2 DEF Serving
    <3> QED BY <2>3, <3>6, <3>7
  <2>4. CASE current \in to /\ FreeLrs(live) = {}
    <3>1. live' = live /\ pending' = [pd EXCEPT ![current] = pd[current] \union {i}]
      BY <1>1, <2>4 DEF DeliverOrDefer
    <3>2. pending'[current] = pending[current] \union {i}
      BY <1>2, <1>4, <2>0, <3>1
    <3>3. Owed(current)' = Held(live, "Pending") \union (pending[current] \union {i})
      BY <1>1, <2>1, <3>1, <3>2 DEF Owed
    <3>4. Owed(current) = Held(live, "Pending") \union pending[current]
      BY <2>1 DEF Owed
    <3>5. Owed(current)' = Owed(current) \union {i}
      BY <3>3, <3>4
    <3>6. Serving(current)' = Serving(current)
      BY <2>1, <3>1 DEF Serving
    <3> QED BY <2>4, <3>5, <3>6
  <2> QED BY <2>2, <2>3, <2>4
<1>7. current' = current
  BY <1>1
<1>8. ASSUME NEW v \in VcpuIds
      PROVE  /\ Owed(v)' = IF v \in to THEN Owed(v) \union {i} ELSE Owed(v)
             /\ Serving(v)' = Serving(v)
  <2>1. CASE v = current
    BY <1>6, <1>7, <2>1
  <2>2. CASE v # current
    BY <1>5, <2>2
  <2> QED BY <2>1, <2>2
<1> QED BY <1>2, <1>3, <1>7, <1>8, PostStep

(* A wait for interrupt moves no interrupt between mailboxes. *)
LEMMA WfiBoxes ==
    ASSUME LinuxInv, Wfi
    PROVE  Boxes!BoxNext
<1> DEFINE pd == IF SpiDue THEN DeliverSpi(WitnessSpi) ELSE pending
<1>1. phase = "Guest" /\ current \in VcpuIds /\ WitnessSpi \in Intid
  BY DEF Wfi, LinuxInv, LinuxTypeOK, Intid
<1>2. pd \in [VcpuIds -> SUBSET Intid]
  BY <1>1, WfiPending
<1>3. PICK to \in SUBSET OwnVcpus(current) :
          \A v \in VcpuIds :
             pd[v] = IF v \in to THEN pending[v] \union {WitnessSpi} ELSE pending[v]
  BY <1>1, WfiPending
<1>4. \/ HandsOver(pd)
      \/ pending' = pd /\ UNCHANGED <<sched, current, phase, live, saved, uie, ppi>>
  BY WfiHandsOver
<1> HIDE DEF pd
<1>5. /\ current' \in VcpuIds
      /\ \A v \in VcpuIds : /\ Owed(v)' = Held(BankOf(v), "Pending") \union pd[v]
                            /\ Serving(v)' = Serving(v)
  <2>1. CASE HandsOver(pd)
    BY <1>2, <2>1, HandsOverBoxes
  <2>2. CASE pending' = pd /\ UNCHANGED <<sched, current, phase, live, saved, uie, ppi>>
    BY <1>1, <2>2 DEF Owed, Serving, BankOf
  <2> QED BY <1>4, <2>1, <2>2
<1>6. \A v \in VcpuIds : Owed(v)' = IF v \in to THEN Owed(v) \union {WitnessSpi} ELSE Owed(v)
  <2> SUFFICES ASSUME NEW v \in VcpuIds
               PROVE  Owed(v)' = IF v \in to THEN Owed(v) \union {WitnessSpi} ELSE Owed(v)
    OBVIOUS
  <2>1. Owed(v) = Held(BankOf(v), "Pending") \union pending[v]
    BY DEF Owed
  <2>2. CASE v \in to
    BY <1>3, <1>5, <2>1, <2>2
  <2>3. CASE v \notin to
    BY <1>3, <1>5, <2>1, <2>3
  <2> QED BY <2>2, <2>3
<1> QED BY <1>1, <1>5, <1>6, PostStep

(* The end of a slice moves no interrupt between mailboxes. *)
LEMMA SliceBoxes ==
    ASSUME LinuxInv, SliceExpires
    PROVE  Boxes!BoxNext
<1>1. HandsOver(pending) /\ pending \in [VcpuIds -> SUBSET Intid]
  BY SliceHandsOver DEF LinuxInv, LinuxTypeOK
<1>2. current' \in VcpuIds /\ \A v \in VcpuIds : Owed(v)' = Owed(v) /\ Serving(v)' = Serving(v)
  BY <1>1, HandsOverBoxes DEF Owed
<1> QED BY <1>2, PassStep

(* Retiring a guest moves no interrupt between mailboxes. *)
LEMMA RetireBoxes ==
    ASSUME LinuxInv, phase = "Guest", NEW why \in {"PoweredOff", "Faulted"}, Retire(why)
    PROVE  Boxes!BoxNext
<1>1. pending \in [VcpuIds -> SUBSET Intid] /\ current \in VcpuIds
  BY DEF LinuxInv, LinuxTypeOK
<1>2. current' \in VcpuIds /\ \A v \in VcpuIds : Owed(v)' = Owed(v) /\ Serving(v)' = Serving(v)
  <2>1. CASE HandsOver(pending)
    BY <1>1, <2>1, HandsOverBoxes DEF Owed
  <2>2. CASE UNCHANGED <<current, live, saved, pending, uie, ppi>>
    BY <1>1, <2>2 DEF Owed, Serving, BankOf
  <2> QED BY <2>1, <2>2, RetireHandsOver
<1> QED BY <1>2, PassStep

(* The timer interrupt is posted to the vCPU whose timer it is. *)
LEMMA TimerIrqBoxes ==
    ASSUME LinuxInv, TimerIrq
    PROVE  Boxes!BoxNext
<1>1. UNCHANGED <<current, saved, pending>>
  BY DEF TimerIrq
<1>2. live \in Bank /\ current \in VcpuIds /\ VTIMER \in Intid
  BY DEF LinuxInv, LinuxTypeOK, Intid
<1>3. CASE live' = live
  BY <1>1, <1>2, <1>3, PassStep DEF Owed, Serving, BankOf
<1>4. CASE FreeLrs(live) # {} /\ live' = Placed(live, PendingLr(VTIMER, TRUE))
  <2>1. /\ Held(live', "Pending") = Held(live, "Pending") \union {VTIMER}
        /\ Held(live', "Active") = Held(live, "Active")
    BY <1>2, <1>4, PlacedFacts
  <2>2. \A v \in VcpuIds : Serving(v)' = Serving(v)
    BY <1>1, <2>1 DEF Serving, BankOf
  <2>3. \A v \in VcpuIds \ {current} : Owed(v)' = Owed(v)
    BY <1>1 DEF Owed, BankOf
  <2>4. Owed(current)' = Owed(current) \union {VTIMER}
    <3>1. Owed(current)' = Held(live', "Pending") \union pending[current]
      BY <1>1 DEF Owed, BankOf
    <3>2. Owed(current) = Held(live, "Pending") \union pending[current]
      BY DEF Owed, BankOf
    <3> QED BY <2>1, <3>1, <3>2
  <2>5. {current} \in SUBSET OwnVcpus(current)
    BY <1>2 DEF OwnVcpus
  <2>6. \A v \in VcpuIds : Owed(v)' = IF v \in {current} THEN Owed(v) \union {VTIMER} ELSE Owed(v)
    BY <1>1, <2>3, <2>4
  <2> QED BY <1>1, <1>2, <2>2, <2>5, <2>6, PostStep
<1> QED BY <1>3, <1>4 DEF TimerIrq

(* A refill moves pending interrupts into registers and none between mailboxes. *)
LEMMA MaintIrqBoxes ==
    ASSUME LinuxInv, MaintIrq
    PROVE  Boxes!BoxNext
<1>1. /\ live' = FlushedBank(live, pending[current])
      /\ pending' = [pending EXCEPT ![current] = FlushedSet(live, pending[current])]
      /\ UNCHANGED <<current, saved>>
  BY DEF MaintIrq
<1>2. /\ live \in Bank /\ current \in VcpuIds /\ pending \in [VcpuIds -> SUBSET Intid]
      /\ pending[current] \in SUBSET Intid
  BY DEF LinuxInv, LinuxTypeOK
<1>3. /\ Held(live', "Pending") \union FlushedSet(live, pending[current])
           = Held(live, "Pending") \union pending[current]
      /\ Held(live', "Active") = Held(live, "Active")
  BY <1>1, <1>2, FlushFacts
<1>4. pending'[current] = FlushedSet(live, pending[current])
  BY <1>1, <1>2
<1>5. Owed(current)' = Owed(current) /\ Serving(current)' = Serving(current)
  BY <1>1, <1>3, <1>4 DEF Owed, Serving, BankOf
<1>6. \A v \in VcpuIds : v # current => Owed(v)' = Owed(v) /\ Serving(v)' = Serving(v)
  BY <1>1, <1>2 DEF Owed, Serving, BankOf
<1> QED BY <1>1, <1>2, <1>5, <1>6, PassStep

(* Starting a vCPU moves no interrupt between mailboxes. *)
LEMMA CpuOnBoxes ==
    ASSUME LinuxInv, NEW v \in VcpuIds, CpuOn(v)
    PROVE  Boxes!BoxNext
<1>1. /\ phase = "Guest" /\ GuestOf(v) = GuestOf(current) /\ sched[v] = "Offline"
      /\ saved' = [saved EXCEPT ![v] = EmptyBank]
      /\ UNCHANGED <<current, live, pending>>
  BY DEF CpuOn, OwnVcpus
<1>2. saved \in [VcpuIds -> Bank] /\ current \in VcpuIds
  BY DEF LinuxInv, LinuxTypeOK
<1>3. v # current /\ retired[GuestOf(v)] = "Live"
  BY <1>1, RunningFacts
<1>4. saved[v] = EmptyBank
  BY <1>1, <1>3 DEF LinuxInv, ColdIsEmpty
<1>5. saved' = saved
  BY <1>1, <1>2, <1>4
<1> QED BY <1>1, <1>2, <1>5, PassStep DEF Owed, Serving, BankOf

(* A guest-loop step that touches no register and no pending set.            *)
LEMMA BoxesUntouched ==
    ASSUME LinuxInv, UNCHANGED <<current, live, saved, pending>>
    PROVE  Boxes!BoxNext
<1>1. current \in VcpuIds
  BY DEF LinuxInv, LinuxTypeOK
<1> QED BY <1>1, PassStep DEF Owed, Serving, BankOf

(* Every step of the metal is a mailbox step. *)
LEMMA BoxStep ==
    ASSUME LinuxInv, BoxesTyped, LinuxNext
    PROVE  Boxes!BoxNext
<1>1. ASSUME NEW a \in GicAccesses, GicWrite(a) PROVE Boxes!BoxNext
  BY <1>1, RetireBoxes, BoxesUntouched DEF GicWrite, FaultRetire
<1>2. ASSUME NEW g \in Guests, PeerFault(g) PROVE Boxes!BoxNext
  BY <1>2, RetireBoxes, BoxesUntouched DEF PeerFault, FaultRetire
<1>3. ASSUME PowerOff \/ Fault PROVE Boxes!BoxNext
  BY <1>3, RetireBoxes DEF PowerOff, Fault, FaultRetire
<1>4. ASSUME (\E v \in VcpuIds : DeadlinePasses(v)) \/ GuestRearms \/ GuestDropsHeader
      PROVE  Boxes!BoxNext
  BY <1>4, BoxesUntouched DEF DeadlinePasses, GuestRearms, GuestDropsHeader
<1> QED BY <1>1, <1>2, <1>3, <1>4, SliceBoxes, TimerIrqBoxes, MaintIrqBoxes, WfiBoxes,
           SendSgiBoxes, CpuOnBoxes, GuestTakesBoxes, GuestEndsBoxes
        DEF LinuxNext, IrqExit, SyncExit, DataAbort

(* Mailbox steps keep the mailboxes well typed. *)
LEMMA BoxesTypedKept ==
    ASSUME BoxesTyped, [Boxes!BoxNext]_(Boxes!boxVars)
    PROVE  BoxesTyped'
<1> DEFINE O == [v \in VcpuIds |-> Owed(v)]
           S == [v \in VcpuIds |-> Serving(v)]
           O2 == [v \in VcpuIds |-> Owed(v)']
           S2 == [v \in VcpuIds |-> Serving(v)']
<1>1. \A v \in VcpuIds : O[v] \subseteq Intid /\ S[v] \subseteq Intid
  BY DEF BoxesTyped
<1>2. SUFFICES \A v \in VcpuIds : O2[v] \subseteq Intid /\ S2[v] \subseteq Intid
  BY DEF BoxesTyped
<1>3. ASSUME NEW i \in Intid, NEW to, Boxes!Post(i, to)
      PROVE  \A v \in VcpuIds : O2[v] \subseteq Intid /\ S2[v] \subseteq Intid
  <2>1. O2 = [v \in VcpuIds |-> IF v \in to THEN O[v] \union {i} ELSE O[v]] /\ S2 = S
    BY <1>3, BoxNames DEF Boxes!Post, Owed, Serving
  <2> HIDE DEF O, S, O2, S2
  <2> QED BY <1>1, <2>1
<1>4. ASSUME NEW i \in Intid, Boxes!Take(i) \/ Boxes!Finish(i)
      PROVE  \A v \in VcpuIds : O2[v] \subseteq Intid /\ S2[v] \subseteq Intid
  <2>1. /\ O2 \in {O, [O EXCEPT ![current] = @ \ {i}]}
        /\ S2 \in {S, [S EXCEPT ![current] = @ \ {i}], [S EXCEPT ![current] = @ \union {i}]}
    BY <1>4 DEF Boxes!Take, Boxes!Finish, Owed, Serving
  <2>2. DOMAIN O = VcpuIds /\ DOMAIN S = VcpuIds
    OBVIOUS
  <2> HIDE DEF O, S, O2, S2
  <2>3. \A v \in VcpuIds : O2[v] \subseteq Intid
    BY <1>1, <2>1, <2>2
  <2>4. \A v \in VcpuIds : S2[v] \subseteq Intid
    BY <1>1, <2>1, <2>2
  <2> QED BY <2>3, <2>4
<1>5. ASSUME Boxes!PassOn \/ UNCHANGED Boxes!boxVars
      PROVE  \A v \in VcpuIds : O2[v] \subseteq Intid /\ S2[v] \subseteq Intid
  <2>1. O2 = O /\ S2 = S
    BY <1>5 DEF Boxes!PassOn, Boxes!boxVars, Owed, Serving
  <2> HIDE DEF O, S, O2, S2
  <2> QED BY <1>1, <2>1
<1> QED BY <1>3, <1>4, <1>5 DEF Boxes!BoxNext, Intid

(* At the first guest entry every mailbox is empty. *)
LEMMA BoxInitial ==
    ASSUME LinuxInit
    PROVE  Boxes!BoxInit /\ BoxesTyped
<1>1. \A v \in VcpuIds : Owed(v) = {} /\ Serving(v) = {}
  <2>1. \A v \in VcpuIds : BankOf(v) = EmptyBank /\ pending[v] = {}
    BY DEF LinuxInit, BankOf
  <2> QED BY <2>1, NoLrFacts DEF Owed, Serving
<1>2. current \in VcpuIds
  BY LinuxInitInv DEF LinuxInv, LinuxTypeOK
<1>3. [v \in VcpuIds |-> Owed(v)] = [v \in VcpuIds |-> {}]
      /\ [v \in VcpuIds |-> Serving(v)] = [v \in VcpuIds |-> {}]
  BY <1>1
<1>4. Boxes!BoxInit
  BY <1>2, <1>3, BoxNames DEF Boxes!BoxInit, Owed, Serving
<1> QED BY <1>1, <1>4 DEF BoxesTyped

(* List registers, pending sets and context switches implement one mailbox   *)
(* per vCPU: nothing posted is lost, nothing arrives that was not posted,    *)
(* nothing reaches a vCPU of another guest (deliver_or_defer_vint,           *)
(* flush_pending_to_lrs, VgicCtx::save and restore, own_vcpus).              *)
THEOREM MailboxesImplemented == LinuxSpec => BoxesHold
<1>1. LinuxInit => Boxes!BoxInit /\ BoxesTyped
  BY BoxInitial
<1>2. LinuxInv /\ BoxesTyped /\ [LinuxNext]_linuxVars => [Boxes!BoxNext]_(Boxes!boxVars)
  <2>1. ASSUME UNCHANGED linuxVars PROVE UNCHANGED Boxes!boxVars
    BY <2>1 DEF linuxVars, Boxes!boxVars, BankOf
  <2> QED BY <2>1, BoxStep
<1>3. BoxesTyped /\ [Boxes!BoxNext]_(Boxes!boxVars) => BoxesTyped'
  BY BoxesTypedKept
<1> QED BY <1>1, <1>2, <1>3, LinuxInvariant, PTL DEF LinuxSpec, BoxesHold, Boxes!BoxSpec

-----------------------------------------------------------------------------
(* No interrupt storm.  NoIrqStorm speaks of ENABLED, which the prover does  *)
(* not handle; what makes it true is that a handler silences its interrupt.  *)

(* A refill that leaves something waiting has filled the bank.               *)
LEMMA RefillFills ==
    ASSUME NEW bank \in Bank, NEW set \in SUBSET Intid, FlushedSet(bank, set) # {}
    PROVE  FreeLrs(FlushedBank(bank, set)) = {}
<1> DEFINE F == FreeLrs(bank)
           fb == FlushedBank(bank, set)
<1>1. F \in SUBSET LrIds /\ F \in SUBSET Nat /\ IsFiniteSet(F) /\ Cardinality(F) \in Nat
  <2>1. F \in SUBSET LrIds
    BY DEF FreeLrs
  <2> QED BY <2>1, Finiteness, FS_Subset, FS_CardinalityType
<1>2. set \in SUBSET Nat /\ IsFiniteSet(set) /\ Cardinality(set) \in Nat
  BY Finiteness, FS_Subset, FS_CardinalityType
<1>3. PICK i \in set : Rank(set, i) >= Cardinality(F)
  BY DEF FlushedSet, Rank
<1>4. Cardinality(F) < Cardinality(set)
  <2>1. Rank(set, i) \in Nat /\ Rank(set, i) < Cardinality(set)
    BY <1>2, RankFacts
  <2> QED BY <1>1, <1>2, <1>3, <2>1
<1>5. \A k \in F : Rank(F, k) < Cardinality(set)
  <2>1. \A k \in F : Rank(F, k) \in Nat /\ Rank(F, k) < Cardinality(F)
    BY <1>1, RankFacts
  <2> QED BY <1>1, <1>2, <1>4, <2>1
<1>6. \A k \in LrIds : fb[k] = IF k \in F THEN PendingLr(Nth(set, Rank(F, k)), FALSE) ELSE bank[k]
  BY <1>1, <1>5 DEF FlushedBank, Rank
<1>7. \A k \in LrIds : fb[k].state # "Invalid"
  <2> TAKE k \in LrIds
  <2>1. CASE k \in F
    <3>1. PendingLr(Nth(set, Rank(F, k)), FALSE).state = "Pending"
      BY DEF PendingLr
    <3>2. fb[k] = PendingLr(Nth(set, Rank(F, k)), FALSE)
      BY <1>6, <2>1
    <3> HIDE DEF fb
    <3> QED BY <3>1, <3>2
  <2>2. CASE k \notin F
    BY <1>6, <2>2 DEF FreeLrs
  <2> QED BY <2>1, <2>2
<1> QED BY <1>7 DEF FreeLrs

(* After its handler an interrupt is no longer signalled.                    *)
IrqsSilenced == (TimerIrq => ~TimerSignalled') /\ (MaintIrq => ~MaintSignalled')

(* The handlers silence their interrupts from every state of the invariant.  *)
LEMMA HandlersSilence ==
    ASSUME LinuxInv
    PROVE  IrqsSilenced
<1>1. ASSUME TimerIrq PROVE ~TimerSignalled'
  <2>1. ppi \in [enabled : BOOLEAN, active : BOOLEAN]
    BY DEF LinuxInv, LinuxTypeOK
  <2>2. CASE TimerEnabled(current)
    <3>1. ppi' = [ppi EXCEPT !.active = TRUE]
      BY <1>1, <2>2 DEF TimerIrq
    <3> QED BY <2>1, <3>1 DEF TimerSignalled
  <2>3. CASE ~TimerEnabled(current)
    <3>1. ppi' = PpiIdle(FALSE)
      BY <1>1, <2>3 DEF TimerIrq
    <3> QED BY <3>1 DEF TimerSignalled, PpiIdle
  <2> QED BY <2>2, <2>3
<1>2. ASSUME MaintIrq PROVE ~MaintSignalled'
  <2>1. /\ live \in Bank /\ current \in VcpuIds /\ pending \in [VcpuIds -> SUBSET Intid]
        /\ pending[current] \in SUBSET Intid
    BY DEF LinuxInv, LinuxTypeOK
  <2>2. /\ live' = FlushedBank(live, pending[current]) /\ current' = current
        /\ uie' = (pending'[current] # {})
        /\ pending'[current] = FlushedSet(live, pending[current])
    BY <1>2, <2>1 DEF MaintIrq
  <2>3. CASE ~uie'
    BY <2>3 DEF MaintSignalled
  <2>4. CASE uie'
    <3>1. FreeLrs(live') = {}
      BY <2>1, <2>2, <2>4, RefillFills
    <3>2. LrIds \ FreeLrs(live') = 1 .. NumLr
      BY <3>1 DEF LrIds
    <3>3. Cardinality(1 .. NumLr) = NumLr
      <4>1. 1 \in Int /\ NumLr \in Int /\ ~(1 > NumLr) /\ NumLr - 1 + 1 = NumLr
        BY LinuxRunAssumption
      <4> QED BY <4>1, FS_Interval
    <3>4. ~(Cardinality(LrIds \ FreeLrs(live')) <= 1)
      <4>1. Cardinality(LrIds \ FreeLrs(live')) = NumLr
        BY <3>2, <3>3
      <4> QED BY <4>1, LinuxRunAssumption
    <3> QED BY <3>4 DEF MaintSignalled, FreeLrs
  <2> QED BY <2>3, <2>4
<1> QED BY <1>1, <1>2 DEF IrqsSilenced

(* So a handler never leaves the machine as it found it: the step that       *)
(* NoIrqStorm asks to be enabled changes something.                          *)
LEMMA HandlersAct ==
    ASSUME LinuxInv, TimerIrq \/ MaintIrq
    PROVE  linuxVars' # linuxVars
<1> SUFFICES ASSUME linuxVars' = linuxVars
             PROVE  FALSE
  OBVIOUS
<1>1. TimerSignalled' = TimerSignalled /\ MaintSignalled' = MaintSignalled
  BY DEF linuxVars, TimerSignalled, MaintSignalled, FreeLrs
<1>2. CASE TimerIrq
  BY <1>1, <1>2, HandlersSilence DEF IrqsSilenced, TimerIrq
<1>3. CASE MaintIrq
  BY <1>1, <1>3, HandlersSilence DEF IrqsSilenced, MaintIrq
<1> QED BY <1>2, <1>3

(* An interrupt taken to EL2 is not taken again at once: the deferred tick   *)
(* stays Active, the unwanted one is masked, a refill that leaves something  *)
(* waiting fills the bank (handle_linux_irq).                                *)
THEOREM InterruptsSilenced == LinuxSpec => [][IrqsSilenced]_linuxVars
<1> QED BY LinuxInvariant, HandlersSilence, PTL DEF LinuxSpec
=============================================================================
