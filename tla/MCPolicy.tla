------------------------------ MODULE MCPolicy ------------------------------
(* One domain's vCPUs over two pCPUs on a short monotone clock.              *)
EXTENDS Policy

\* Bounds of the instance.  Once the clock runs only one vCPU is re-weighted,
\* upwards; changes of weight make offsets grow, and they are followed up to
\* the last tick.
ReweightsBounded ==
    /\ weights' # weights =>
          clock = 0 \/ weights' = [weights EXCEPT ![<<0, 0>>] = MaxWeight]
    /\ \A x \in VcpuId : offset'[x] <= MaxTicks
=============================================================================
