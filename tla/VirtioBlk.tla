------------------------------ MODULE VirtioBlk ------------------------------
(* hv-metal/src/blk.rs and the virtio-blk back-end of hv-metal/src/guest.rs: *)
(* a guest programs the device's registers and posts requests in rings of    *)
(* its own memory; on a kick the back-end serves them, as dom0, against the  *)
(* tenant's copy-on-write disk.  Every address comes from the guest and is   *)
(* used only as far as the guest has granted the frame it lies in.  A kick   *)
(* is served to the end before the guest runs again.                         *)
(*                                                                           *)
(* The status byte the back-end leaves in a request's third descriptor is    *)
(* left out: it is checked like any other write and nothing here reads it.   *)
EXTENDS Integers

CONSTANTS NumTenants,   \* N_TENANTS
          NumSectors,   \* DISK_SECTORS
          IdxWrap,      \* the ring indices are u16: 2^16
          QueueNum,     \* what a guest writes to QueueNum
          Shapes,       \* the requests a guest posts
          MaxPosts      \* bound: requests a protocol-keeping guest posts

ASSUME VirtioBlkAssumption ==
    /\ NumTenants \in 1..3 /\ NumSectors \in Nat /\ IdxWrap \in Nat \ {0}
    /\ QueueNum \subseteq Nat /\ \E n \in QueueNum : \A m \in QueueNum : m <= n
    /\ MaxPosts \in Nat

VARIABLES
    dev,        \* VirtioBlk: the registers and the back-end's cursors
    overlay,    \* BlkDisk.overlay
    dirty,      \* BlkDisk.dirty: sectors of each tenant's overlay in use
    tenant,     \* BLK_TENANT, which bind_tenant also records for the domain;
                \* NoGuest between a destruction and the next guest
    serving,    \* the available index the kick in progress read, or NotServing
    availIdx, availRing, usedIdx,   \* the rings, in guest memory
    bufs,       \* what the guest's buffers hold
    posted,     \* how many requests have been posted
    polite,     \* the guest is a driver that keeps to the virtio protocol
    served      \* history: the last request served to a protocol-keeping guest

blkVars == <<dev, overlay, dirty, tenant, serving, availIdx, availRing, usedIdx, bufs,
             posted, polite, served>>

Tenant == 0..(NumTenants - 1)
Sector == 0..(NumSectors - 1)
NotServing == -1
NoGuest == -1

\* A buffer granted for writing, one granted read-only, and one not granted
\* (setup_blk_guest: F_BLK_IO, F_BLK_HDR, F_BLK_UNGRANTED).
Buffer == {"io", "header", "ungranted"}
Authorized(b, writable) == b = "io" \/ (b = "header" /\ ~writable)

\* What a sector or buffer can hold: zeroes, the template's bytes, a
\* tenant's, and those of a frame the guest never granted.
BytesOf(t) == <<"tenant0", "tenant1", "tenant2">>[t + 1]
Template == [s \in Sector |-> "template"]
Zeroes == [s \in Sector |-> "zero"]
FreshBuffers(t) == [b \in Buffer |-> IF b = "ungranted" THEN "private" ELSE BytesOf(t)]

\* A request, without its number: does the walk of its three descriptors
\* succeed, the header's type and sector, the data descriptor's direction flag
\* and buffer.
Shape == [chained : BOOLEAN, typ : {"IN", "OUT", "OTHER"}, sector : Nat,
          device_writes : BOOLEAN, buf : Buffer]
NoShape == [chained |-> FALSE, typ |-> "OTHER", sector |-> 0, device_writes |-> FALSE,
            buf |-> "io"]
NoRequest == [id |-> 0, shape |-> NoShape]
MaxNum == CHOOSE n \in QueueNum : \A m \in QueueNum : m <= n
Slot == 0..(MaxNum - 1)

\* VirtioBlk::new.  The ring addresses are modelled by whether the frame
\* they lie in is granted.  last_avail_idx and used_idx start at zero together
\* and move together: both are `cursor`.  The feature handshake and the
\* interrupt bit, which only the guest reads, are left out; of the status only
\* DRIVER_OK is kept.
NewDevice == [driver_ok |-> FALSE, num |-> 0, ready |-> FALSE, granted |-> FALSE, cursor |-> 0]

VirtioBlkInit ==
    /\ dev = NewDevice
    /\ overlay = [t \in Tenant |-> Zeroes] /\ dirty = [t \in Tenant |-> {}]
    /\ tenant = 0 /\ serving = NotServing
    /\ availIdx = 0 /\ availRing = [i \in Slot |-> NoRequest] /\ usedIdx = 0
    /\ bufs = FreshBuffers(0)
    /\ posted = 0 /\ polite \in BOOLEAN /\ served = 0

-----------------------------------------------------------------------------
\* BlkDisk::read: what a tenant reads, and write and discard_overlay.
Read(t, s) == IF s \in dirty[t] THEN overlay[t][s] ELSE Template[s]

DiskWrite(t, s, v) ==
    /\ overlay' = [overlay EXCEPT ![t][s] = v]
    /\ dirty' = [dirty EXCEPT ![t] = @ \cup {s}]

\* Mutant of DiscardOverlay: the bytes go but the sectors stay marked, so the
\* tenant reads zeroes where the template should show again.
DiscardOverlayKeepsMarks(t) == overlay' = [overlay EXCEPT ![t] = Zeroes] /\ UNCHANGED dirty

DiscardOverlay(t) ==
    /\ overlay' = [overlay EXCEPT ![t] = Zeroes]
    /\ dirty' = [dirty EXCEPT ![t] = {}]

-----------------------------------------------------------------------------
(* mmio_write: the guest writes a register.                                  *)
GuestRuns == tenant # NoGuest /\ serving = NotServing

Register(value) ==
    /\ GuestRuns
    /\ dev' = value
    /\ UNCHANGED <<overlay, dirty, tenant, serving, bufs, posted, polite, served>>

rings == <<availIdx, availRing, usedIdx>>
EmptyRings == availIdx' = 0 /\ availRing' = [i \in Slot |-> NoRequest] /\ usedIdx' = 0

Live == dev.driver_ok /\ dev.ready     \* queue_live

\* Mutant of Reset: the back-end keeps its ring cursors.
ResetKeepsCursors == [NewDevice EXCEPT !.cursor = dev.cursor]

\* A zero written to Status resets the whole device.
Reset == NewDevice

\* A driver that resets the device starts with empty rings; it sets DRIVER_OK
\* once its queue is ready, and clears it only by a reset.
SetStatus(driver_ok) ==
    /\ polite => driver_ok /\ dev.ready
    /\ Register([dev EXCEPT !.driver_ok = driver_ok])
    /\ UNCHANGED rings

ResetDevice ==
    /\ Register(Reset)
    /\ IF polite THEN EmptyRings ELSE UNCHANGED rings

\* QueueNum, the ring addresses and QueueReady.  A driver sets its queue up
\* once, before DRIVER_OK, with rings it has granted and a size that divides
\* the range of the indices (virtio asks for a power of two below 2^16).
SetQueue(num, granted, ready) ==
    /\ polite => /\ num \in 1..(IdxWrap - 1) /\ IdxWrap % num = 0
                 /\ granted /\ ready /\ ~dev.ready
    /\ Register([dev EXCEPT !.num = num, !.granted = granted, !.ready = ready])
    /\ UNCHANGED rings

\* The guest posts a request: a slot of the available ring, then the index.
\* A driver posts only on a live queue, and never more than the queue holds.
\* Its requests are numbered; those of a guest that keeps to no protocol are
\* not.
Post(shape) ==
    LET num == IF dev.num = 0 THEN MaxNum ELSE dev.num
        id == IF polite THEN posted + 1 ELSE 0
    IN  /\ GuestRuns
        /\ polite => Live /\ (availIdx - usedIdx) % IdxWrap < dev.num /\ posted < MaxPosts
        /\ availRing' = [availRing EXCEPT ![availIdx % num] = [id |-> id, shape |-> shape]]
        /\ availIdx' = (availIdx + 1) % IdxWrap
        /\ posted' = id
        /\ UNCHANGED <<dev, overlay, dirty, tenant, serving, usedIdx, bufs, polite, served>>

\* The guest's own stores: fresh data for its buffer and, from a guest that
\* keeps to no protocol, any available index.
Fill ==
    /\ GuestRuns
    /\ bufs' = [bufs EXCEPT !["io"] = BytesOf(tenant)]
    /\ UNCHANGED <<dev, overlay, dirty, tenant, serving, rings, posted, polite, served>>

Scribble(avail) ==
    /\ GuestRuns /\ ~polite
    /\ availIdx' = avail
    /\ UNCHANGED <<dev, overlay, dirty, tenant, serving, availRing, usedIdx, bufs, posted, polite, served>>

-----------------------------------------------------------------------------
\* QueueNotify: handle_virtio_blk_notify reads the available index once.  A
\* queue that is not live or has no entries, or a ring the guest has not
\* granted, ends the kick.
QueueNotify ==
    /\ GuestRuns
    /\ Live /\ dev.num # 0 /\ dev.granted
    /\ serving' = availIdx
    /\ UNCHANGED <<dev, overlay, dirty, tenant, rings, bufs, posted, polite, served>>

\* Mutant of Transfer: the buffer a write comes from is not checked.
TransferUnchecked(req) ==
    CASE req.typ = "IN" /\ Authorized(req.buf, TRUE) ->
            /\ bufs' = [bufs EXCEPT ![req.buf] = Read(tenant, req.sector)]
            /\ UNCHANGED <<overlay, dirty>>
      [] req.typ = "OUT" -> DiskWrite(tenant, req.sector, bufs[req.buf]) /\ UNCHANGED bufs
      [] OTHER -> UNCHANGED <<overlay, dirty, bufs>>

\* A read fills a buffer the guest granted for writing; a write takes a
\* buffer it granted at all.
Transfer(req) ==
    CASE req.typ = "IN" /\ Authorized(req.buf, TRUE) ->
            /\ bufs' = [bufs EXCEPT ![req.buf] = Read(tenant, req.sector)]
            /\ UNCHANGED <<overlay, dirty>>
      [] req.typ = "OUT" /\ Authorized(req.buf, FALSE) ->
            DiskWrite(tenant, req.sector, bufs[req.buf]) /\ UNCHANGED bufs
      [] OTHER -> UNCHANGED <<overlay, dirty, bufs>>

\* process_blk_request: a chain that cannot be walked, a sector off the disk
\* and a buffer of the wrong direction transfer nothing.
ProcessBlkRequest(req) ==
    IF req.chained /\ req.sector \in Sector /\ (req.device_writes <=> req.typ = "IN")
    THEN Transfer(req)
    ELSE UNCHANGED <<overlay, dirty, bufs>>

Advance(i) == (i + 1) % IdxWrap

\* One turn of the loop: the request is served, then retired on the used ring
\* whatever came of it, and the cursors move on.  Only a driver that keeps to
\* the protocol reads the used index.
ServeNext ==
    /\ serving # NotServing /\ dev.cursor # serving
    /\ LET req == availRing[dev.cursor % dev.num]
       IN  ProcessBlkRequest(req.shape) /\ served' = req.id
    /\ dev' = [dev EXCEPT !.cursor = Advance(@)]
    /\ usedIdx' = IF polite THEN Advance(dev.cursor) ELSE usedIdx
    /\ UNCHANGED <<tenant, serving, availIdx, availRing, posted, polite>>

\* A queue so long that the slot lies past the granted frame ends the kick.
SlotRefused ==
    /\ serving # NotServing /\ dev.cursor # serving /\ ~polite
    /\ serving' = NotServing
    /\ UNCHANGED <<dev, overlay, dirty, tenant, rings, bufs, posted, polite, served>>

\* The loop has caught up and the guest goes on.
NotifyDone ==
    /\ serving # NotServing /\ dev.cursor = serving
    /\ serving' = NotServing
    /\ UNCHANGED <<dev, overlay, dirty, tenant, rings, bufs, posted, polite, served>>

-----------------------------------------------------------------------------
\* begin_virtio_blk_phase6/7: a guest for another tenant.  The device keeps
\* the registers and cursors of the last guest until a driver, as its first
\* act, resets it; the rings are the new guest's own.
BeginPhase(t, keeps) ==
    /\ serving = NotServing
    /\ tenant' = t /\ bufs' = FreshBuffers(t) /\ polite' = keeps /\ posted' = 0 /\ served' = 0
    /\ EmptyRings
    /\ dev' = IF keeps THEN Reset ELSE dev
    /\ UNCHANGED <<overlay, dirty, serving>>

\* on_destroy: the overlay of the domain's tenant and all device state go.
OnDestroy ==
    /\ GuestRuns
    /\ DiscardOverlay(tenant)
    /\ dev' = NewDevice
    /\ tenant' = NoGuest
    /\ UNCHANGED <<serving, rings, bufs, posted, polite, served>>

VirtioBlkNext ==
    \/ ResetDevice
    \/ \E driver_ok \in BOOLEAN : SetStatus(driver_ok)
    \/ \E num \in QueueNum, granted, ready \in BOOLEAN : SetQueue(num, granted, ready)
    \/ \E shape \in Shapes : Post(shape)
    \/ Fill
    \/ \E avail \in 0..(IdxWrap - 1) : Scribble(avail)
    \/ QueueNotify
    \/ ServeNext
    \/ SlotRefused
    \/ NotifyDone
    \/ \E t \in Tenant, keeps \in BOOLEAN : BeginPhase(t, keeps)
    \/ OnDestroy

VirtioBlkSpec == VirtioBlkInit /\ [][VirtioBlkNext]_blkVars

-----------------------------------------------------------------------------
(* Properties.                                                               *)

\* What a tenant may find on its disk: what it wrote, or read and wrote back.
Own == [t \in Tenant |-> {"template", BytesOf(t)}]

VirtualDisks ==
    INSTANCE Disks WITH content <- [t \in Tenant |-> [s \in Sector |-> Read(t, s)]]

\* The copy-on-write back-end implements one private disk per tenant: whatever
\* guests post and in whatever order phases and destructions come, a step
\* changes at most one sector of one tenant's view, and to that tenant's own
\* bytes or the template's, or discards that view.
DisksPrivate == VirtualDisks!DisksSpec

\* The back-end acts only on what the guest granted: bytes of an ungranted
\* frame never reach a disk, and a frame that is not granted for writing is
\* never written (process_blk_request's two backend_authorize calls).
NoUngrantedBytes ==
    /\ \A t \in Tenant, s \in Sector : overlay[t][s] # "private"
    /\ bufs["ungranted"] = "private"
    /\ tenant # NoGuest => bufs["header"] = BytesOf(tenant)

\* A driver that keeps to the protocol has its requests served in the order
\* it posted them, each at most once, and nothing it did not post: across
\* wraps of the indices, resets of the device, and whatever the guest before
\* it left in the registers.
ServedInOrder ==
    [][polite /\ serving # NotServing /\ dev'.cursor # dev.cursor => served' > served]_blkVars
=============================================================================
