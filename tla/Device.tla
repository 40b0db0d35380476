------------------------------- MODULE Device -------------------------------
(* hv-core/src/device.rs: which domain holds each DMA-capable device.  At    *)
(* most one does, by representation; a refused call writes nothing.          *)
EXTENDS Domains

CONSTANT NumDevices

ASSUME DeviceAssumption == NumDevices \in Nat

VARIABLE holder     \* System.assign: the holder of each device

Dev      == 0..(NumDevices - 1)
NoHolder == -1

DeviceInit == holder = [dev \in Dev |-> NoHolder]

\* assign: an unassigned device, or (idempotent) the holder's own.
AssignDevice(dev, to) ==
    /\ holder[dev] \in {NoHolder, to}
    /\ holder' = [holder EXCEPT ![dev] = to]

\* release: from exactly the domain that holds it.
ReleaseDevice(dev, from) ==
    /\ holder[dev] = from
    /\ holder' = [holder EXCEPT ![dev] = NoHolder]

\* release_all_of: the device half of domain teardown.
ReleaseAllOf(d) ==
    holder' = [dev \in Dev |-> IF holder[dev] = d THEN NoHolder ELSE holder[dev]]

\* any_device_of
AnyDeviceOf(d) == \E dev \in Dev : holder[dev] = d

(* Every device has one holder or none.                                      *)
DeviceTypeOK == holder \in [Dev -> Dom \cup {NoHolder}]
=============================================================================
