------------------------------ MODULE Domains ------------------------------
(* The part of the machine's shape that every subsystem of hv-core shares:  *)
(* the domain slots and the virtual CPUs of a domain, as index ranges.  The *)
(* tables are fixed-size; a slot is never removed, only Dead or Live.       *)
EXTENDS Integers

CONSTANTS NumDomains,       \* hypervisor.rs new(): num_domains
          VcpusPerDomain    \* hypervisor.rs new(): vcpus_per_domain

ASSUME DomainsAssumption == NumDomains \in Nat /\ VcpusPerDomain \in Nat

\* DomId and Vcpu, restricted to the ids the bounds checks let through.
Dom  == 0..(NumDomains - 1)
Vcpu == 0..(VcpusPerDomain - 1)

\* A vCPU of the whole system: the pair (dom, vcpu) every table is keyed by.
VcpuId == Dom \X Vcpu
=============================================================================
