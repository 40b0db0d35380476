-------------------------------- MODULE Disks --------------------------------
(* What the copy-on-write disk promises: every tenant has a disk of its own, *)
(* born a copy of the template.  A write changes one sector of one tenant's  *)
(* disk and nothing else; discarding a tenant's disk makes it the template   *)
(* again.  No tenant ever sees what another wrote.                           *)
CONSTANTS Tenant, Sector, Template,
          Own       \* what each tenant may write

VARIABLE content        \* what each tenant reads in each sector

DisksInit == content = [t \in Tenant |-> Template]

Write(t, s, v) == content' = [content EXCEPT ![t][s] = v]

Discard(t) == content' = [content EXCEPT ![t] = Template]

DisksNext ==
    \E t \in Tenant :
        \/ Discard(t)
        \/ \E s \in Sector, v \in Own[t] : Write(t, s, v)

DisksSpec == DisksInit /\ [][DisksNext]_content
=============================================================================
