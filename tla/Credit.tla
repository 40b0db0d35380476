------------------------------- MODULE Credit -------------------------------
(* HvCore of hv-core/src/lib.rs: one credit account per domain.              *)
EXTENDS Domains

CONSTANTS MaxCredit,    \* the largest value of an account field: u64::MAX
          MaxAmount     \* the largest amount of one call: u32::MAX

ASSUME CreditAssumption == MaxCredit \in Nat /\ MaxAmount \in Nat

VARIABLE credit

Amount  == 0..MaxAmount
Account == [balance : 0..MaxCredit, granted : 0..MaxCredit, spent : 0..MaxCredit]

CreditInit == credit = [d \in Dom |-> [balance |-> 0, granted |-> 0, spent |-> 0]]

\* grant_credit: balance and total are both checked before either is written.
GrantCredit(d, amount) ==
    /\ credit[d].balance + amount <= MaxCredit
    /\ credit[d].granted + amount <= MaxCredit
    /\ credit' = [credit EXCEPT ![d] = [balance |-> @.balance + amount,
                                        granted |-> @.granted + amount, spent |-> @.spent]]

\* spend_credit: Insufficient, or an overflow of the running total, refuses.
SpendCredit(d, amount) ==
    /\ amount <= credit[d].balance
    /\ credit[d].spent + amount <= MaxCredit
    /\ credit' = [credit EXCEPT ![d] = [balance |-> @.balance - amount,
                                        granted |-> @.granted, spent |-> @.spent + amount]]

(* Account fields keep their width.                                          *)
CreditTypeOK == credit \in [Dom -> Account]

(* Conservation: what was granted is what was spent plus what is left, also  *)
(* when the running totals are at the width of their counter.                *)
CreditConserved == \A d \in Dom : credit[d].granted = credit[d].spent + credit[d].balance
=============================================================================
