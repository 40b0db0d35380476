--------------------------- MODULE VirtioBlkProofs ---------------------------
(* The virtio-blk back-end keeps the tenants' disks apart and acts on        *)
(* granted buffers only, whatever guests write to its registers and rings,   *)
(* for every size of disk, queue and ring index.                             *)
EXTENDS VirtioBlk, TLAPS

\* What a tenant may have on its disk, and what its overlay may hold.
OwnBytes(t) == {"template", BytesOf(t)}

(* The inductive invariant.  A write takes its bytes from a granted buffer   *)
(* and a read puts the disk's bytes into one, so the buffers and the disk    *)
(* of a tenant are clean only together; and a kick is served only while the  *)
(* guest that made it is there.                                              *)
BlkInv ==
    /\ tenant \in Tenant \cup {NoGuest}
    /\ serving # NotServing => tenant # NoGuest
    /\ overlay \in [Tenant -> [Sector -> {"zero", "template", "tenant0", "tenant1", "tenant2"}]]
    /\ dirty \in [Tenant -> SUBSET Sector]
    /\ \A t \in Tenant : \A s \in dirty[t] : overlay[t][s] \in OwnBytes(t)
    /\ DOMAIN bufs = Buffer /\ bufs["ungranted"] = "private"
    /\ tenant # NoGuest => bufs["header"] = BytesOf(tenant) /\ bufs["io"] \in OwnBytes(tenant)

(* No tenant's bytes are the private bytes of a guest, nor is there a tenant *)
(* behind NoGuest.                                                           *)
LEMMA TenantFacts ==
    /\ \A t \in Tenant : BytesOf(t) \in {"tenant0", "tenant1", "tenant2"}
    /\ NoGuest \notin Tenant
  BY VirtioBlkAssumption DEF Tenant, BytesOf, NoGuest

(* A new guest's buffers hold its own bytes.                                 *)
LEMMA FreshFacts ==
    ASSUME NEW t \in Tenant
    PROVE  /\ DOMAIN FreshBuffers(t) = Buffer /\ FreshBuffers(t)["ungranted"] = "private"
           /\ FreshBuffers(t)["header"] = BytesOf(t) /\ FreshBuffers(t)["io"] = BytesOf(t)
  BY DEF FreshBuffers, Buffer

(* What a tenant reads is its own or the template's.                         *)
LEMMA ReadOwn ==
    ASSUME BlkInv, NEW t \in Tenant, NEW s \in Sector
    PROVE  Read(t, s) \in OwnBytes(t)
  BY DEF BlkInv, Read, Template, OwnBytes

\* The tenants' view of their disks.
View == [t \in Tenant |-> [s \in Sector |-> Read(t, s)]]

(* What a step may do: change nothing of any disk; write one sector of the   *)
(* running tenant's, with bytes of its own; or discard its overlay.          *)
DiskStep ==
    \/ UNCHANGED <<overlay, dirty>>
    \/ \E t \in Tenant :
           \/ \E s \in Sector, v \in OwnBytes(t) : DiskWrite(t, s, v)
           \/ DiscardOverlay(t)

(* A request moves bytes between granted buffers and the tenant's own disk.  *)
LEMMA RequestServed ==
    ASSUME BlkInv, tenant \in Tenant, NEW req, ProcessBlkRequest(req)
    PROVE  /\ DOMAIN bufs' = Buffer /\ bufs'["ungranted"] = "private"
           /\ bufs'["header"] = bufs["header"] /\ bufs'["io"] \in OwnBytes(tenant)
           /\ \/ UNCHANGED <<overlay, dirty>>
              \/ \E s \in Sector, v \in OwnBytes(tenant) : DiskWrite(tenant, s, v)
<1>1. /\ DOMAIN bufs = Buffer /\ bufs["ungranted"] = "private" /\ bufs["io"] \in OwnBytes(tenant)
      /\ bufs["header"] \in OwnBytes(tenant)
  BY TenantFacts DEF BlkInv, OwnBytes
<1>2. CASE UNCHANGED <<overlay, dirty, bufs>>
  BY <1>1, <1>2
<1>3. CASE /\ req.sector \in Sector /\ req.buf = "io"
           /\ bufs' = [bufs EXCEPT ![req.buf] = Read(tenant, req.sector)]
           /\ UNCHANGED <<overlay, dirty>>
  <2>1. Read(tenant, req.sector) \in OwnBytes(tenant)
    BY <1>3, ReadOwn
  <2> QED BY <1>1, <1>3, <2>1 DEF Buffer
<1>4. CASE /\ req.sector \in Sector /\ req.buf \in {"io", "header"}
           /\ DiskWrite(tenant, req.sector, bufs[req.buf]) /\ UNCHANGED bufs
  BY <1>1, <1>4
<1> QED BY <1>2, <1>3, <1>4 DEF ProcessBlkRequest, Transfer, Authorized

(* Every transition keeps the invariant, and does to the disks what          *)
(* DiskStep says.                                                            *)
LEMMA BlkStep ==
    ASSUME BlkInv, [VirtioBlkNext]_blkVars
    PROVE  BlkInv' /\ DiskStep
<1>1. ASSUME UNCHANGED <<overlay, dirty, tenant>>, DOMAIN bufs' = Buffer,
             bufs'["ungranted"] = "private",
             tenant # NoGuest => bufs'["header"] = bufs["header"] /\ bufs'["io"] \in OwnBytes(tenant),
             serving' # NotServing => tenant # NoGuest
      PROVE  BlkInv' /\ DiskStep
  BY <1>1 DEF BlkInv, DiskStep
<1>2. ASSUME UNCHANGED <<overlay, dirty, tenant, serving, bufs>>
      PROVE  BlkInv' /\ DiskStep
  BY <1>1, <1>2 DEF BlkInv
<1>3. ASSUME \/ ResetDevice
             \/ \E driver_ok \in BOOLEAN : SetStatus(driver_ok)
             \/ \E num \in QueueNum, granted, ready \in BOOLEAN : SetQueue(num, granted, ready)
             \/ \E shape \in Shapes : Post(shape)
             \/ \E avail \in 0..(IdxWrap - 1) : Scribble(avail)
      PROVE  BlkInv' /\ DiskStep
  BY <1>2, <1>3 DEF ResetDevice, SetStatus, SetQueue, Register, Post, Scribble
<1>4. CASE Fill
  <2>1. tenant # NoGuest /\ bufs' = [bufs EXCEPT !["io"] = BytesOf(tenant)]
        /\ UNCHANGED <<overlay, dirty, tenant, serving>>
    BY <1>4 DEF Fill, GuestRuns
  <2>2. /\ DOMAIN bufs' = Buffer /\ bufs'["ungranted"] = bufs["ungranted"]
        /\ bufs'["header"] = bufs["header"] /\ bufs'["io"] = BytesOf(tenant)
    BY <2>1 DEF BlkInv, Buffer
  <2> QED BY <1>1, <2>1, <2>2 DEF BlkInv, OwnBytes
<1>5. CASE QueueNotify \/ SlotRefused \/ NotifyDone
  <2>1. /\ UNCHANGED <<overlay, dirty, tenant, bufs>>
        /\ serving' # NotServing => tenant # NoGuest
    BY <1>5 DEF QueueNotify, SlotRefused, NotifyDone, GuestRuns
  <2> QED BY <1>1, <2>1 DEF BlkInv
<1>6. CASE ServeNext
  <2>1. PICK req : ProcessBlkRequest(req) /\ UNCHANGED <<tenant, serving>> /\ serving # NotServing
    BY <1>6 DEF ServeNext
  <2>2. tenant \in Tenant /\ tenant # NoGuest
    BY <2>1 DEF BlkInv
  <2>3. /\ DOMAIN bufs' = Buffer /\ bufs'["ungranted"] = "private"
        /\ bufs'["header"] = bufs["header"] /\ bufs'["io"] \in OwnBytes(tenant)
    BY <2>1, <2>2, RequestServed
  <2>4. CASE UNCHANGED <<overlay, dirty>>
    BY <1>1, <2>1, <2>2, <2>3, <2>4
  <2>5. ASSUME NEW s \in Sector, NEW v \in OwnBytes(tenant), DiskWrite(tenant, s, v)
        PROVE  BlkInv' /\ DiskStep
    <3>1. v \in {"zero", "template", "tenant0", "tenant1", "tenant2"}
      BY <2>2, TenantFacts DEF OwnBytes
    <3>2. /\ overlay' \in [Tenant -> [Sector -> {"zero", "template", "tenant0", "tenant1", "tenant2"}]]
          /\ dirty' \in [Tenant -> SUBSET Sector]
          /\ \A t \in Tenant : \A k \in dirty'[t] : overlay'[t][k] \in OwnBytes(t)
      BY <2>2, <2>5, <3>1 DEF DiskWrite, BlkInv
    <3>3. BlkInv'
      BY <2>1, <2>2, <2>3, <3>2 DEF BlkInv, OwnBytes
    <3> QED BY <2>2, <2>5, <3>3 DEF DiskStep
  <2> QED BY <2>1, <2>2, <2>4, <2>5, RequestServed
<1>7. ASSUME NEW t \in Tenant, NEW keeps \in BOOLEAN, BeginPhase(t, keeps)
      PROVE  BlkInv' /\ DiskStep
  <2>1. /\ UNCHANGED <<overlay, dirty, serving>> /\ serving = NotServing
        /\ tenant' = t /\ bufs' = FreshBuffers(t)
    BY <1>7 DEF BeginPhase
  <2> QED BY <2>1, FreshFacts, TenantFacts DEF BlkInv, DiskStep, OwnBytes
<1>8. CASE OnDestroy
  <2>1. /\ tenant \in Tenant /\ DiscardOverlay(tenant) /\ tenant' = NoGuest
        /\ serving = NotServing /\ UNCHANGED <<serving, bufs>>
    BY <1>8 DEF OnDestroy, GuestRuns, BlkInv
  <2>2. /\ overlay' \in [Tenant -> [Sector -> {"zero", "template", "tenant0", "tenant1", "tenant2"}]]
        /\ dirty' \in [Tenant -> SUBSET Sector]
        /\ \A t \in Tenant : \A k \in dirty'[t] : overlay'[t][k] \in OwnBytes(t)
    BY <2>1 DEF DiscardOverlay, Zeroes, BlkInv
  <2> QED BY <2>1, <2>2 DEF BlkInv, DiskStep, OwnBytes
<1>9. CASE UNCHANGED blkVars
  BY <1>2, <1>9 DEF blkVars
<1> QED BY <1>3, <1>4, <1>5, <1>6, <1>7, <1>8, <1>9 DEF VirtioBlkNext

(* The first guest finds fresh buffers and clean disks.                      *)
LEMMA BlkInitInv ==
    ASSUME VirtioBlkInit
    PROVE  BlkInv
<1>1. 0 \in Tenant
  BY VirtioBlkAssumption DEF Tenant
<1>2. /\ tenant = 0 /\ serving = NotServing /\ bufs = FreshBuffers(0)
      /\ overlay = [t \in Tenant |-> Zeroes] /\ dirty = [t \in Tenant |-> {}]
  BY DEF VirtioBlkInit
<1> QED BY <1>1, <1>2, FreshFacts, TenantFacts DEF BlkInv, OwnBytes, Zeroes

(* The invariant holds in every reachable state.                             *)
LEMMA BlkInvariant == VirtioBlkSpec => []BlkInv
<1>1. VirtioBlkInit => BlkInv
  BY BlkInitInv
<1>2. BlkInv /\ [VirtioBlkNext]_blkVars => BlkInv'
  BY BlkStep
<1> QED BY <1>1, <1>2, PTL DEF VirtioBlkSpec

(* No byte of an ungranted frame reaches a disk and no frame is written that *)
(* was not granted for writing, whatever the guest posts.                    *)
THEOREM UngrantedBytesNeverMove == VirtioBlkSpec => []NoUngrantedBytes
<1>1. BlkInv => NoUngrantedBytes
  BY DEF BlkInv, NoUngrantedBytes
<1> QED BY <1>1, BlkInvariant, PTL

-----------------------------------------------------------------------------
(* The back-end implements one private disk per tenant.  A discard and a     *)
(* write of the overlay are a discard and a write of the view.               *)
LEMMA DiskStepRefines ==
    ASSUME BlkInv, DiskStep
    PROVE  [VirtualDisks!DisksNext]_View
<1>1. CASE UNCHANGED <<overlay, dirty>>
  BY <1>1 DEF View, Read
<1>2. ASSUME NEW t \in Tenant, NEW s \in Sector, NEW v \in OwnBytes(t), DiskWrite(t, s, v)
      PROVE  VirtualDisks!DisksNext
  <2>1. ASSUME NEW u \in Tenant, NEW k \in Sector
        PROVE  Read(u, k)' = IF u = t /\ k = s THEN v ELSE Read(u, k)
    BY <1>2 DEF DiskWrite, Read, BlkInv
  <2>2. View' = [View EXCEPT ![t][s] = v]
    BY <2>1 DEF View
  <2>3. v \in Own[t]
    BY DEF Own, OwnBytes
  <2>4. VirtualDisks!Write(t, s, v)
    BY <2>2 DEF VirtualDisks!Write, View
  <2> QED BY <2>3, <2>4 DEF VirtualDisks!DisksNext
<1>3. ASSUME NEW t \in Tenant, DiscardOverlay(t)
      PROVE  VirtualDisks!DisksNext
  <2>1. ASSUME NEW u \in Tenant, NEW k \in Sector
        PROVE  Read(u, k)' = IF u = t THEN Template[k] ELSE Read(u, k)
    BY <1>3 DEF DiscardOverlay, Read, BlkInv
  <2>2. View' = [View EXCEPT ![t] = Template]
    BY <2>1 DEF View, Template
  <2> QED BY <2>2 DEF VirtualDisks!DisksNext, VirtualDisks!Discard, View
<1> QED BY <1>1, <1>2, <1>3 DEF DiskStep

(* Whatever guests post and in whatever order phases and destructions come,  *)
(* each tenant has a disk of its own that nobody else writes.                *)
THEOREM DisksImplemented == VirtioBlkSpec => DisksPrivate
<1>1. VirtioBlkInit => VirtualDisks!DisksInit
  BY DEF VirtioBlkInit, VirtualDisks!DisksInit, Read, Template
<1>2. BlkInv /\ [VirtioBlkNext]_blkVars => [VirtualDisks!DisksNext]_View
  BY BlkStep, DiskStepRefines
<1> QED BY <1>1, <1>2, BlkInvariant, PTL
        DEF VirtioBlkSpec, DisksPrivate, VirtualDisks!DisksSpec, View

-----------------------------------------------------------------------------
(* Ring arithmetic.  An index runs through 0..IdxWrap-1 and its slot is the  *)
(* remainder by the queue size, so the two wraps agree only when the size    *)
(* divides the range.                                                        *)

(* Quotient and remainder.                                                   *)
LEMMA Division ==
    ASSUME NEW n \in Nat \ {0}, NEW a \in Nat
    PROVE  a % n \in 0..(n - 1) /\ a \div n \in Int /\ a = n * (a \div n) + (a % n)
<1>1. a % n \in 0..(n - 1)
  OBVIOUS
<1>2. a \div n \in Int
  OBVIOUS
<1>3. a = n * (a \div n) + (a % n)
  OBVIOUS
<1> QED BY <1>1, <1>2, <1>3

(* There is one remainder.                                                   *)
LEMMA RemainderUnique ==
    ASSUME NEW n \in Nat \ {0}, NEW a \in Nat, NEW q \in Int, NEW r \in 0..(n - 1), a = n * q + r
    PROVE  a % n = r
<1> DEFINE d == (a \div n) - q
<1>1. a % n \in 0..(n - 1) /\ a \div n \in Int /\ a = n * (a \div n) + (a % n)
  BY Division
<1>2. n * d = r - (a % n) /\ d \in Int
  BY <1>1
<1>3. d = 0
  <2>1. CASE d >= 1
    <3>1. n * d >= n
      BY <1>2, <2>1
    <3> QED BY <1>1, <1>2, <3>1
  <2>2. CASE d <= -1
    <3>1. n * d <= -n
      BY <1>2, <2>2
    <3> QED BY <1>1, <1>2, <3>1
  <2> QED BY <1>2, <2>1, <2>2
<1> QED BY <1>1, <1>2, <1>3

(* Adding multiples of a size does not change a slot.                        *)
LEMMA SlotShifted ==
    ASSUME NEW n \in Nat \ {0}, NEW a \in Nat, NEW w \in Nat, w % n = 0
    PROVE  (w + a) % n = a % n
<1> DEFINE x == w \div n
           y == a \div n
           r == a % n
<1>1. r \in 0..(n - 1) /\ y \in Int /\ a = n * y + r
  BY Division
<1>2. x \in Int /\ w = n * x
  BY Division
<1> HIDE DEF x, y, r
<1>3. w + a = n * (x + y) + r /\ x + y \in Int /\ w + a \in Nat
  <2>1. n * (x + y) = n * x + n * y
    BY <1>1, <1>2
  <2> QED BY <1>1, <1>2, <2>1
<1>4. (w + a) % n = r
  BY <1>1, <1>3, RemainderUnique
<1> QED BY <1>4 DEF r

(* Places less than a queue apart have different slots.                      *)
LEMMA SlotsApart ==
    ASSUME NEW n \in Nat \ {0}, NEW a \in Nat, NEW b \in Nat, b - a \in 1..(n - 1)
    PROVE  a % n # b % n
<1> SUFFICES ASSUME a % n = b % n PROVE FALSE
  OBVIOUS
<1> DEFINE j == a \div n
           k == b \div n
<1>1. a = n * j + (a % n) /\ b = n * k + (b % n) /\ j \in Int /\ k \in Int /\ a % n \in Int
  BY Division
<1> HIDE DEF j, k
<1>2. b - a = n * (k - j)
  BY <1>1
<1>3. CASE k - j <= 0
  <2>1. n * (k - j) <= 0
    BY <1>1, <1>3
  <2> QED BY <1>2, <2>1
<1>4. CASE k - j >= 1
  <2>1. n * (k - j) >= n
    BY <1>1, <1>4
  <2> QED BY <1>2, <2>1
<1> QED BY <1>1, <1>3, <1>4

(* An index wraps at most once on its way across a queue.                    *)
LEMMA IndexWraps ==
    ASSUME NEW w \in Nat \ {0}, NEW x \in Nat, x < 2 * w
    PROVE  x % w = IF x < w THEN x ELSE x - w
<1>1. CASE x < w
  BY <1>1, RemainderUnique
<1>2. CASE ~(x < w)
  <2>1. x = w * 1 + (x - w) /\ x - w \in 0..(w - 1) /\ 1 \in Int
    BY <1>2
  <2> QED BY <1>2, <2>1, RemainderUnique
<1> QED BY <1>1, <1>2

(* n is a queue size a driver may choose.                                    *)
Divides(n) == n \in 1..(IdxWrap - 1) /\ IdxWrap % n = 0

(* Posting: with o requests outstanding behind cursor c, the driver's count  *)
(* of free slots is right, and the slot it takes is none of theirs.          *)
LEMMA RingPosted ==
    ASSUME NEW n, Divides(n), NEW c \in 0..(IdxWrap - 1), NEW o \in 0..n,
           NEW a, a = (c + o) % IdxWrap, (a - c) % IdxWrap < n
    PROVE  /\ o < n /\ (a + 1) % IdxWrap = (c + (o + 1)) % IdxWrap
           /\ a % n = (c + o) % n
           /\ \A j \in 0..(o - 1) : (c + j) % n # (c + o) % n
<1> DEFINE w == IdxWrap
<1>1. w \in Nat \ {0} /\ n \in Nat \ {0} /\ n < w /\ w % n = 0 /\ c \in Nat /\ o \in Nat
  BY VirtioBlkAssumption DEF Divides
<1> HIDE DEF w
<1>2. a = IF c + o < w THEN c + o ELSE c + o - w
  <2> DEFINE x == c + o
  <2>1. x \in Nat /\ x < 2 * w
    BY <1>1 DEF w
  <2>2. a = x % w
    BY DEF w
  <2> HIDE DEF x
  <2>3. x % w = IF x < w THEN x ELSE x - w
    BY <1>1, <2>1, IndexWraps
  <2>4. a = IF x < w THEN x ELSE x - w
    BY <2>2, <2>3
  <2> QED BY <1>1, <2>4 DEF x
<1>3. (a - c) % w = o
  <2>1. CASE c + o < w
    <3>1. a - c = o /\ o \in 0..(w - 1) /\ o = w * 0 + o
      BY <1>1, <1>2, <2>1
    <3> QED BY <1>1, <3>1, RemainderUnique
  <2>2. CASE ~(c + o < w)
    <3>1. a - c = o - w
      BY <1>1, <1>2, <2>2
    <3>2. (o - w) % w = o
      BY <1>1
    <3> QED BY <3>1, <3>2
  <2> QED BY <2>1, <2>2
<1>4. o < n
  BY <1>3 DEF w
<1>5. (a + 1) % w = (c + (o + 1)) % w
  <2>1. CASE c + o < w
    <3>1. a + 1 = c + (o + 1)
      BY <1>1, <1>2, <2>1
    <3> QED BY <3>1
  <2>2. CASE ~(c + o < w)
    <3>1. a + 1 \in Nat /\ c + (o + 1) = w + (a + 1)
      BY <1>1, <1>2, <2>2
    <3>2. w % w = 0
      BY <1>1
    <3>3. (w + (a + 1)) % w = (a + 1) % w
      BY <1>1, <3>1, <3>2, SlotShifted
    <3> QED BY <3>1, <3>3
  <2> QED BY <2>1, <2>2
<1>6. a % n = (c + o) % n
  <2>1. CASE c + o < w
    BY <1>1, <1>2, <2>1
  <2>2. CASE ~(c + o < w)
    <3>1. a \in Nat /\ c + o = w + a
      BY <1>1, <1>2, <2>2
    <3>2. (w + a) % n = a % n
      BY <1>1, <3>1, SlotShifted
    <3> QED BY <3>1, <3>2
  <2> QED BY <2>1, <2>2
<1>7. ASSUME NEW j \in 0..(o - 1) PROVE (c + j) % n # (c + o) % n
  <2>1. c + j \in Nat /\ c + o \in Nat /\ (c + o) - (c + j) \in 1..(n - 1)
    BY <1>1, <1>4
  <2> QED BY <1>1, <2>1, SlotsApart
<1> QED BY <1>4, <1>5, <1>6, <1>7 DEF w

(* Serving: the request at the cursor is the oldest outstanding one, and     *)
(* the others keep their slots when the cursor moves on.                     *)
LEMMA RingServed ==
    ASSUME NEW n, Divides(n), NEW c \in 0..(IdxWrap - 1), NEW o \in 0..n,
           NEW a, a = (c + o) % IdxWrap, c # a
    PROVE  /\ o > 0 /\ Advance(c) \in 0..(IdxWrap - 1)
           /\ a = (Advance(c) + (o - 1)) % IdxWrap
           /\ \A j \in 0..(o - 2) : (Advance(c) + j) % n = (c + (j + 1)) % n
<1> DEFINE w == IdxWrap
           d == Advance(c)
<1>1. w \in Nat \ {0} /\ n \in Nat \ {0} /\ n < w /\ w % n = 0 /\ c \in Nat /\ o \in Nat
  BY VirtioBlkAssumption DEF Divides
<1> HIDE DEF w
<1>2. d = IF c + 1 < w THEN c + 1 ELSE 0
  <2> DEFINE x == c + 1
  <2>1. x \in Nat /\ x < 2 * w /\ (~(x < w) => x - w = 0)
    BY <1>1 DEF w
  <2>2. d = x % w
    BY DEF Advance, w
  <2> HIDE DEF x
  <2>3. x % w = IF x < w THEN x ELSE x - w
    BY <1>1, <2>1, IndexWraps
  <2> QED BY <2>1, <2>2, <2>3 DEF x
<1> HIDE DEF d
<1>3. o > 0
  <2> SUFFICES ASSUME o = 0 PROVE FALSE
    BY <1>1
  <2>1. c + o = c /\ c < w /\ c < 2 * w
    BY <1>1 DEF w
  <2>2. a = c
    BY <1>1, <2>1, IndexWraps DEF w
  <2> QED BY <2>2
<1>4. d \in 0..(w - 1) /\ d \in Nat /\ (c + 1 < w => d = c + 1) /\ (~(c + 1 < w) => d = 0 /\ c + 1 = w)
  BY <1>1, <1>2 DEF w
<1>5. ASSUME NEW k \in Nat, NEW m \in Nat \ {0}, w % m = 0
      PROVE  (d + k) % m = (c + (k + 1)) % m
  <2>1. CASE c + 1 < w
    <3>1. d + k = c + (k + 1)
      BY <1>1, <1>4, <2>1
    <3> QED BY <3>1
  <2>2. CASE ~(c + 1 < w)
    <3>1. d + k = k /\ c + (k + 1) = w + k
      BY <1>1, <1>4, <2>2
    <3>2. (w + k) % m = k % m
      BY <1>1, <1>5, SlotShifted
    <3> QED BY <3>1, <3>2
  <2> QED BY <2>1, <2>2
<1>6. a = (d + (o - 1)) % w
  <2>1. o - 1 \in Nat /\ w % w = 0 /\ (o - 1) + 1 = o
    BY <1>1, <1>3
  <2>2. (d + (o - 1)) % w = (c + ((o - 1) + 1)) % w
    BY <1>1, <1>5, <2>1
  <2> QED BY <2>1, <2>2 DEF w
<1>7. \A j \in 0..(o - 2) : (d + j) % n = (c + (j + 1)) % n
  BY <1>1, <1>5
<1> QED BY <1>3, <1>4, <1>6, <1>7 DEF w, d

-----------------------------------------------------------------------------
(* A protocol-keeping driver is served in order.                             *)

DeviceType == [driver_ok : BOOLEAN, num : Nat, ready : BOOLEAN, granted : BOOLEAN,
               cursor : 0..(IdxWrap - 1)]

(* o requests are outstanding: they lie in the o slots from the cursor on,   *)
(* numbered up to the last one posted, and nothing served is among them.     *)
Outstanding(o) ==
    /\ o <= dev.num /\ (o # 0 => dev.ready)
    /\ availIdx = (dev.cursor + o) % IdxWrap
    /\ served + o <= posted
    /\ \A j \in 0..(o - 1) : availRing[(dev.cursor + j) % dev.num].id = posted - o + 1 + j

(* The inductive invariant, for a driver that keeps to the protocol.  The    *)
(* queue is set up only while nothing is outstanding, so a slot is always    *)
(* read with the size it was written with.                                   *)
OrderInv ==
    /\ dev \in DeviceType
    /\ polite /\ tenant # NoGuest =>
          /\ served \in Nat /\ posted \in Nat
          /\ availIdx \in 0..(IdxWrap - 1) /\ usedIdx = dev.cursor
          /\ serving \in {NotServing, availIdx}
          /\ DOMAIN availRing = Slot
          /\ dev.ready => Divides(dev.num) /\ dev.num <= MaxNum
          /\ \E o \in Nat : Outstanding(o)

(* The largest queue size is one of them.                                    *)
LEMMA MaxNumFacts == MaxNum \in Nat /\ \A n \in QueueNum : n \in Nat /\ n <= MaxNum
<1>1. \E n \in QueueNum : \A m \in QueueNum : m <= n
  BY VirtioBlkAssumption
<1>2. MaxNum \in QueueNum /\ \A m \in QueueNum : m <= MaxNum
  BY <1>1 DEF MaxNum
<1> QED BY <1>2, VirtioBlkAssumption

(* Indices start at zero and stay in range.                                  *)
LEMMA IndexFacts ==
    /\ 0 \in 0..(IdxWrap - 1) /\ 0 % IdxWrap = 0 /\ NotServing \notin 0..(IdxWrap - 1)
    /\ \A i \in Nat : Advance(i) \in 0..(IdxWrap - 1)
    /\ NewDevice \in DeviceType /\ NewDevice.cursor = 0 /\ ~NewDevice.ready
<1>1. IdxWrap \in Nat \ {0}
  BY VirtioBlkAssumption
<1>2. 0 \in 0..(IdxWrap - 1) /\ 0 % IdxWrap = 0 /\ NotServing \notin 0..(IdxWrap - 1)
  BY <1>1 DEF NotServing
<1>3. \A i \in Nat : Advance(i) \in 0..(IdxWrap - 1)
  BY <1>1 DEF Advance
<1> QED BY <1>2, <1>3 DEF NewDevice, DeviceType

(* Empty rings under a device at its start are in order.                     *)
LEMMA EmptyInOrder ==
    ASSUME dev \in DeviceType, dev.cursor = 0, ~dev.ready, availIdx = 0, usedIdx = 0,
           availRing = [i \in Slot |-> NoRequest], serving = NotServing,
           served \in Nat, posted \in Nat, served <= posted
    PROVE  OrderInv
<1>1. 0 \in Nat /\ 0 <= dev.num /\ availIdx = (dev.cursor + 0) % IdxWrap /\ served + 0 <= posted
      /\ 0..(0 - 1) = {}
  BY IndexFacts DEF DeviceType
<1>2. Outstanding(0)
  BY <1>1 DEF Outstanding
<1> QED BY <1>1, <1>2, IndexFacts DEF OrderInv

(* Posting keeps the order: the new request is the youngest.                 *)
LEMMA PostInOrder ==
    ASSUME OrderInv, polite, NEW shape, Post(shape)
    PROVE  OrderInv'
<1>1. /\ tenant # NoGuest /\ serving = NotServing /\ dev.ready
      /\ (availIdx - usedIdx) % IdxWrap < dev.num
      /\ UNCHANGED <<dev, tenant, serving, usedIdx, polite, served>>
      /\ posted' = posted + 1 /\ availIdx' = Advance(availIdx)
  BY DEF Post, GuestRuns, Live, Advance
<1>2. /\ dev \in DeviceType /\ served \in Nat /\ posted \in Nat
      /\ availIdx \in 0..(IdxWrap - 1) /\ usedIdx = dev.cursor /\ DOMAIN availRing = Slot
      /\ Divides(dev.num) /\ dev.num <= MaxNum
  BY <1>1 DEF OrderInv
<1>3. PICK o \in Nat : Outstanding(o)
  BY <1>1 DEF OrderInv
<1> DEFINE c == dev.cursor
           n == dev.num
<1>4. c \in 0..(IdxWrap - 1) /\ o \in 0..n /\ n \in Nat \ {0} /\ c \in Nat
  BY <1>2, <1>3 DEF DeviceType, Divides, Outstanding
<1>5. /\ o < n /\ (availIdx + 1) % IdxWrap = (c + (o + 1)) % IdxWrap
      /\ availIdx % n = (c + o) % n
      /\ \A j \in 0..(o - 1) : (c + j) % n # (c + o) % n
  BY <1>1, <1>2, <1>3, <1>4, RingPosted DEF Outstanding
<1>6. availRing' = [availRing EXCEPT ![(c + o) % n] = [id |-> posted + 1, shape |-> shape]]
  <2>1. n # 0
    BY <1>4
  <2>2. availRing' = [availRing EXCEPT ![availIdx % n] = [id |-> posted + 1, shape |-> shape]]
    BY <2>1 DEF Post
  <2> QED BY <1>5, <2>2
<1>7. \A j \in Nat : (c + j) % n \in Slot
  <2>1. \A j \in Nat : (c + j) % n \in 0..(n - 1)
    BY <1>4
  <2>2. 0..(n - 1) \subseteq Slot
    BY <1>2, <1>4, MaxNumFacts DEF Slot
  <2> QED BY <2>1, <2>2
<1>8. availRing'[(c + o) % n].id = posted + 1
  BY <1>2, <1>6, <1>7
<1>9. ASSUME NEW j \in 0..(o - 1)
      PROVE  availRing'[(c + j) % n].id = posted - o + 1 + j
  <2>1. (c + j) % n # (c + o) % n /\ (c + j) % n \in Slot
    BY <1>5, <1>7
  <2>2. availRing'[(c + j) % n] = availRing[(c + j) % n]
    BY <1>2, <1>6, <2>1
  <2> QED BY <1>3, <2>2 DEF Outstanding
<1>10. \A j \in 0..((o + 1) - 1) :
           availRing'[(c + j) % n].id = (posted + 1) - (o + 1) + 1 + j
  <2> SUFFICES ASSUME NEW j \in 0..((o + 1) - 1)
               PROVE  availRing'[(c + j) % n].id = (posted + 1) - (o + 1) + 1 + j
    OBVIOUS
  <2>1. CASE j = o
    BY <1>2, <1>8, <2>1
  <2>2. CASE j # o
    <3>1. j \in 0..(o - 1) /\ posted - o + 1 + j = (posted + 1) - (o + 1) + 1 + j
      BY <1>2, <2>2
    <3> QED BY <1>9, <3>1
  <2> QED BY <2>1, <2>2
<1>11. served + (o + 1) <= posted + 1 /\ o + 1 \in Nat /\ o + 1 <= n /\ o + 1 # 0
  BY <1>2, <1>3, <1>4, <1>5 DEF Outstanding
<1>12. availIdx' = (c + (o + 1)) % IdxWrap
  BY <1>1, <1>5 DEF Advance
<1>13. Outstanding(o + 1)'
  BY <1>1, <1>10, <1>11, <1>12 DEF Outstanding
<1>14. availIdx' \in 0..(IdxWrap - 1)
  BY <1>1, <1>2, IndexFacts
<1>15. DOMAIN availRing' = Slot
  BY <1>2, <1>6
<1> QED BY <1>1, <1>2, <1>11, <1>13, <1>14, <1>15 DEF OrderInv

(* Serving keeps the order: what is served is the oldest, younger than all   *)
(* served before it.                                                         *)
LEMMA ServeInOrder ==
    ASSUME OrderInv, polite, tenant # NoGuest, ServeNext
    PROVE  OrderInv' /\ served' > served
<1>1. /\ serving # NotServing /\ dev.cursor # serving
      /\ served' = availRing[dev.cursor % dev.num].id
      /\ dev' = [dev EXCEPT !.cursor = Advance(dev.cursor)]
      /\ usedIdx' = Advance(dev.cursor)
      /\ UNCHANGED <<tenant, serving, availIdx, availRing, posted, polite>>
  BY DEF ServeNext
<1>2. /\ dev \in DeviceType /\ served \in Nat /\ posted \in Nat
      /\ availIdx \in 0..(IdxWrap - 1) /\ DOMAIN availRing = Slot
      /\ serving = availIdx
  BY <1>1 DEF OrderInv
<1>3. PICK o \in Nat : Outstanding(o)
  BY DEF OrderInv
<1> DEFINE c == dev.cursor
           n == dev.num
<1>4. c \in 0..(IdxWrap - 1) /\ c \in Nat /\ n \in Nat /\ c # availIdx
  BY <1>1, <1>2 DEF DeviceType
<1>5. o # 0
  <2> SUFFICES ASSUME o = 0 PROVE FALSE
    OBVIOUS
  <2>1. availIdx = c % IdxWrap
    BY <1>3, <1>4 DEF Outstanding
  <2>2. c % IdxWrap = c
    BY <1>4, VirtioBlkAssumption
  <2> QED BY <1>4, <2>1, <2>2
<1>6. dev.ready /\ Divides(n) /\ n <= MaxNum /\ o \in 0..n
  BY <1>3, <1>4, <1>5 DEF Outstanding, OrderInv
<1> DEFINE d == Advance(c)
<1>7. /\ d \in 0..(IdxWrap - 1) /\ availIdx = (d + (o - 1)) % IdxWrap
      /\ \A j \in 0..(o - 2) : (d + j) % n = (c + (j + 1)) % n
  BY <1>3, <1>4, <1>6, RingServed DEF Outstanding
<1>8. served' = posted - o + 1
  <2>1. 0 \in 0..(o - 1) /\ c + 0 = c /\ posted - o + 1 + 0 = posted - o + 1
    BY <1>2, <1>4, <1>5
  <2>2. availRing[(c + 0) % n].id = posted - o + 1 + 0
    BY <1>3, <2>1 DEF Outstanding
  <2> QED BY <1>1, <2>1, <2>2
<1>9. served' > served /\ served' \in Nat /\ served' + (o - 1) <= posted /\ o - 1 \in Nat
  BY <1>2, <1>3, <1>5, <1>8 DEF Outstanding
<1> HIDE DEF d
<1>10. dev' \in DeviceType /\ dev'.cursor = d /\ dev'.num = n /\ dev'.ready
  BY <1>1, <1>2, <1>6, <1>7 DEF DeviceType, d
<1>11. ASSUME NEW j \in 0..((o - 1) - 1)
       PROVE  availRing[(d + j) % n].id = posted - (o - 1) + 1 + j
  <2>1. j \in 0..(o - 2) /\ j + 1 \in 0..(o - 1) /\ posted - o + 1 + (j + 1) = posted - (o - 1) + 1 + j
    BY <1>2, <1>5
  <2>2. (d + j) % n = (c + (j + 1)) % n
    BY <1>7, <2>1
  <2>3. availRing[(c + (j + 1)) % n].id = posted - o + 1 + (j + 1)
    BY <1>3, <2>1 DEF Outstanding
  <2> QED BY <2>1, <2>2, <2>3
<1>12. o - 1 <= n
  BY <1>4, <1>6
<1>13. Outstanding(o - 1)'
  BY <1>1, <1>7, <1>9, <1>10, <1>11, <1>12 DEF Outstanding
<1>14. usedIdx' = d
  BY <1>1 DEF d
<1> QED BY <1>1, <1>2, <1>6, <1>9, <1>10, <1>13, <1>14 DEF OrderInv

(* A driver's registers: it sets its queue up on a queue that is not ready,  *)
(* where nothing is outstanding, and resets with empty rings.                *)
LEMMA RegisterInOrder ==
    ASSUME OrderInv, polite,
           \/ ResetDevice
           \/ \E driver_ok \in BOOLEAN : SetStatus(driver_ok)
           \/ \E num \in QueueNum, granted, ready \in BOOLEAN : SetQueue(num, granted, ready)
    PROVE  OrderInv'
<1>0. /\ tenant # NoGuest /\ serving = NotServing
      /\ UNCHANGED <<tenant, serving, posted, polite, served>>
  BY DEF ResetDevice, SetStatus, SetQueue, Register, GuestRuns
<1>1. /\ dev \in DeviceType /\ served \in Nat /\ posted \in Nat
      /\ availIdx \in 0..(IdxWrap - 1) /\ usedIdx = dev.cursor /\ DOMAIN availRing = Slot
      /\ dev.ready => Divides(dev.num) /\ dev.num <= MaxNum
  BY <1>0 DEF OrderInv
<1>2. PICK o \in Nat : Outstanding(o)
  BY <1>0 DEF OrderInv
<1>3. CASE ResetDevice
  <2>1. /\ dev' = NewDevice /\ availIdx' = 0 /\ usedIdx' = 0
        /\ availRing' = [i \in Slot |-> NoRequest]
    BY <1>3 DEF ResetDevice, Register, Reset, EmptyRings
  <2>2. served <= posted
    BY <1>1, <1>2 DEF Outstanding
  <2> QED BY <1>0, <1>1, <2>1, <2>2, EmptyInOrder, IndexFacts DEF OrderInv, Outstanding, DeviceType
<1>4. ASSUME NEW driver_ok \in BOOLEAN, SetStatus(driver_ok) PROVE OrderInv'
  <2>1. dev' = [dev EXCEPT !.driver_ok = driver_ok] /\ UNCHANGED rings
    BY <1>4 DEF SetStatus, Register
  <2>2. /\ dev' \in DeviceType /\ dev'.num = dev.num /\ dev'.ready = dev.ready
        /\ dev'.cursor = dev.cursor
    BY <1>1, <2>1 DEF DeviceType
  <2>3. Outstanding(o)'
    BY <1>0, <1>2, <2>1, <2>2 DEF Outstanding, rings
  <2> QED BY <1>0, <1>1, <2>1, <2>2, <2>3 DEF OrderInv, rings
<1>5. ASSUME NEW num \in QueueNum, NEW granted \in BOOLEAN, NEW ready \in BOOLEAN,
             SetQueue(num, granted, ready)
      PROVE  OrderInv'
  <2>1. /\ dev' = [dev EXCEPT !.num = num, !.granted = granted, !.ready = ready]
        /\ UNCHANGED rings /\ Divides(num) /\ ~dev.ready
    BY <1>5 DEF SetQueue, Register, Divides
  <2>2. num \in Nat /\ num <= MaxNum
    BY MaxNumFacts
  <2>3. /\ dev' \in DeviceType /\ dev'.num = num /\ dev'.cursor = dev.cursor
    BY <1>1, <2>1, <2>2 DEF DeviceType
  <2>4. o = 0
    BY <1>2, <2>1 DEF Outstanding
  <2>5. 0 <= num /\ 0..(0 - 1) = {} /\ 0 \in Nat
    BY <2>2
  <2>6. Outstanding(0)'
    BY <1>0, <1>2, <2>1, <2>3, <2>4, <2>5 DEF Outstanding, rings
  <2> QED BY <1>0, <1>1, <2>1, <2>2, <2>3, <2>5, <2>6 DEF OrderInv, rings
<1> QED BY <1>3, <1>4, <1>5

(* The device keeps its type whoever programs it.                            *)
LEMMA DeviceTypeKept ==
    ASSUME dev \in DeviceType, [VirtioBlkNext]_blkVars
    PROVE  dev' \in DeviceType
<1>1. ASSUME UNCHANGED dev PROVE dev' \in DeviceType
  BY <1>1
<1>2. ASSUME NEW driver_ok \in BOOLEAN, SetStatus(driver_ok) PROVE dev' \in DeviceType
  BY <1>2 DEF SetStatus, Register, DeviceType
<1>3. ASSUME NEW num \in QueueNum, NEW granted \in BOOLEAN, NEW ready \in BOOLEAN,
             SetQueue(num, granted, ready)
      PROVE  dev' \in DeviceType
  <2>1. num \in Nat
    BY MaxNumFacts
  <2> QED BY <1>3, <2>1 DEF SetQueue, Register, DeviceType
<1>4. CASE ServeNext
  <2>1. dev.cursor \in Nat /\ Advance(dev.cursor) \in 0..(IdxWrap - 1)
    BY IndexFacts DEF DeviceType
  <2>2. dev' = [dev EXCEPT !.cursor = Advance(dev.cursor)]
    BY <1>4 DEF ServeNext
  <2> QED BY <2>1, <2>2 DEF DeviceType
<1>5. ASSUME ResetDevice \/ OnDestroy \/ \E t \in Tenant, keeps \in BOOLEAN : BeginPhase(t, keeps)
      PROVE  dev' \in DeviceType
  BY <1>5, IndexFacts DEF ResetDevice, Register, Reset, OnDestroy, BeginPhase
<1>6. ASSUME \/ \E shape \in Shapes : Post(shape)
             \/ \E avail \in 0..(IdxWrap - 1) : Scribble(avail)
             \/ Fill \/ QueueNotify \/ SlotRefused \/ NotifyDone \/ UNCHANGED blkVars
      PROVE  dev' = dev
  BY <1>6 DEF Post, Scribble, Fill, QueueNotify, SlotRefused, NotifyDone, blkVars
<1> QED BY <1>1, <1>2, <1>3, <1>4, <1>5, <1>6 DEF VirtioBlkNext

(* Every transition keeps the order, and serves a polite driver only what    *)
(* is younger than what it was served before.                                *)
LEMMA OrderStep ==
    ASSUME BlkInv, OrderInv, [VirtioBlkNext]_blkVars
    PROVE  /\ OrderInv'
           /\ polite /\ serving # NotServing /\ dev'.cursor # dev.cursor => served' > served
<1>1. dev' \in DeviceType
  BY DeviceTypeKept DEF OrderInv
<1>2. CASE \E t \in Tenant, keeps \in BOOLEAN : BeginPhase(t, keeps)
  <2>1. PICK t \in Tenant, keeps \in BOOLEAN : BeginPhase(t, keeps)
    BY <1>2
  <2>2. serving = NotServing /\ serving' = serving /\ polite' = keeps
    BY <2>1 DEF BeginPhase
  <2>3. CASE keeps
    <3>1. /\ dev' = NewDevice /\ availIdx' = 0 /\ usedIdx' = 0 /\ posted' = 0 /\ served' = 0
          /\ availRing' = [i \in Slot |-> NoRequest]
      BY <2>1, <2>3 DEF BeginPhase, Reset, EmptyRings
    <3>2. /\ 0 \in Nat /\ 0 <= NewDevice.num /\ 0 + 0 <= 0 /\ 0..(0 - 1) = {}
          /\ (NewDevice.cursor + 0) % IdxWrap = 0
      BY IndexFacts DEF DeviceType
    <3>3. Outstanding(0)'
      BY <3>1, <3>2 DEF Outstanding
    <3> QED BY <1>1, <2>2, <3>1, <3>2, <3>3, IndexFacts DEF OrderInv
  <2>4. CASE ~keeps
    BY <1>1, <2>2, <2>4 DEF OrderInv
  <2> QED BY <2>3, <2>4
<1>3. CASE OnDestroy
  BY <1>1, <1>3 DEF OnDestroy, OrderInv, GuestRuns
<1>4. CASE UNCHANGED blkVars
  BY <1>4 DEF blkVars, OrderInv, Outstanding
<1> DEFINE Others ==
        \/ ResetDevice
        \/ \E driver_ok \in BOOLEAN : SetStatus(driver_ok)
        \/ \E num \in QueueNum, granted, ready \in BOOLEAN : SetQueue(num, granted, ready)
        \/ \E shape \in Shapes : Post(shape)
        \/ \E avail \in 0..(IdxWrap - 1) : Scribble(avail)
        \/ Fill \/ QueueNotify \/ ServeNext \/ SlotRefused \/ NotifyDone
<1>5. ASSUME ~polite, Others PROVE OrderInv'
  <2>1. polite' = polite
    BY <1>5 DEF ResetDevice, SetStatus, SetQueue, Register, Post, Scribble, Fill, QueueNotify,
                ServeNext, SlotRefused, NotifyDone
  <2> QED BY <1>1, <1>5, <2>1 DEF OrderInv
<1>6. ASSUME polite, Others
      PROVE  OrderInv' /\ (serving # NotServing /\ dev'.cursor # dev.cursor => served' > served)
  <2>1. CASE \/ ResetDevice
             \/ \E driver_ok \in BOOLEAN : SetStatus(driver_ok)
             \/ \E num \in QueueNum, granted, ready \in BOOLEAN : SetQueue(num, granted, ready)
    <3>1. serving = NotServing
      BY <2>1 DEF ResetDevice, SetStatus, SetQueue, Register, GuestRuns
    <3> QED BY <1>6, <2>1, <3>1, RegisterInOrder
  <2>2. CASE \E shape \in Shapes : Post(shape)
    <3>1. serving = NotServing
      BY <2>2 DEF Post, GuestRuns
    <3> QED BY <1>6, <2>2, <3>1, PostInOrder
  <2>3. CASE ServeNext
    <3>1. tenant # NoGuest
      BY <2>3 DEF ServeNext, BlkInv
    <3> QED BY <1>6, <2>3, <3>1, ServeInOrder
  <2>4. CASE Fill \/ QueueNotify \/ SlotRefused \/ NotifyDone
    <3>1. /\ UNCHANGED <<dev, tenant, rings, posted, polite, served>>
          /\ serving' \in {serving, availIdx, NotServing}
      BY <2>4 DEF Fill, QueueNotify, SlotRefused, NotifyDone
    <3>2. \A o : Outstanding(o)' <=> Outstanding(o)
      BY <3>1 DEF Outstanding, rings
    <3> QED BY <3>1, <3>2 DEF OrderInv, rings
  <2>5. CASE \E avail \in 0..(IdxWrap - 1) : Scribble(avail)
    BY <1>6, <2>5 DEF Scribble
  <2> QED BY <1>6, <2>1, <2>2, <2>3, <2>4, <2>5
<1>7. Others => (polite => OrderInv' /\ (serving # NotServing /\ dev'.cursor # dev.cursor => served' > served))
                /\ (~polite => OrderInv')
  BY <1>5, <1>6
<1>8. VirtioBlkNext =>
          Others \/ OnDestroy \/ \E t \in Tenant, keeps \in BOOLEAN : BeginPhase(t, keeps)
  BY DEF VirtioBlkNext
<1>9. OnDestroy => serving = NotServing
  BY DEF OnDestroy, GuestRuns
<1>10. (\E t \in Tenant, keeps \in BOOLEAN : BeginPhase(t, keeps)) => serving = NotServing
  BY DEF BeginPhase
<1>11. UNCHANGED blkVars => dev' = dev
  BY DEF blkVars
<1> HIDE DEF Others
<1> QED BY <1>2, <1>3, <1>4, <1>7, <1>8, <1>9, <1>10, <1>11

(* Nothing is outstanding before the first guest sets its queue up.          *)
LEMMA OrderInit ==
    ASSUME VirtioBlkInit
    PROVE  OrderInv
<1>1. /\ dev = NewDevice /\ availIdx = 0 /\ usedIdx = 0 /\ serving = NotServing
      /\ availRing = [i \in Slot |-> NoRequest] /\ posted = 0 /\ served = 0
  BY DEF VirtioBlkInit
<1>2. 0 \in Nat /\ 0 <= 0
  OBVIOUS
<1> QED BY <1>1, <1>2, EmptyInOrder, IndexFacts

(* A driver that keeps to the protocol has its requests served in the order  *)
(* posted, each at most once: for every queue size and range of indices,     *)
(* across wraps and resets, whoever had the device before                    *)
(* (handle_virtio_blk_notify, mmio_write, begin_virtio_blk_phase6/7).        *)
THEOREM RequestsServedInOrder == VirtioBlkSpec => ServedInOrder
<1>1. VirtioBlkInit => BlkInv /\ OrderInv
  BY BlkInitInv, OrderInit
<1>2. (BlkInv /\ OrderInv) /\ [VirtioBlkNext]_blkVars => (BlkInv /\ OrderInv)'
  BY BlkStep, OrderStep
<1>3. (BlkInv /\ OrderInv) /\ [VirtioBlkNext]_blkVars =>
          [polite /\ serving # NotServing /\ dev'.cursor # dev.cursor => served' > served]_blkVars
  BY OrderStep
<1> QED BY <1>1, <1>2, <1>3, PTL DEF VirtioBlkSpec, ServedInOrder
=============================================================================
