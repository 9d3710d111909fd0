---------------------------- MODULE EffectLedger ----------------------------
(***************************************************************************)
(* What the port EffectLedger promises (application/ports.py): one row per *)
(* idempotency key, which moves through at most two durable states.        *)
(*                                                                         *)
(*     absent --reserve--> pending --complete--> completed                 *)
(*        |____________________complete______________^                     *)
(*                                                                         *)
(* A completed row never changes again.  The adapter (PostgresLedger) and  *)
(* the use execute_delegation makes of a ledger (Delegation) are shown to  *)
(* implement this module.                                                  *)
(***************************************************************************)
CONSTANTS
    Keys,       \* the idempotency keys
    Payloads,   \* the JSON documents a completed row can hold
    None        \* no payload; not one of Payloads

VARIABLE ledger     \* [Keys -> [status, payload]]

Absent == [status |-> "absent", payload |-> None]
Pending == [status |-> "pending", payload |-> None]
Completed(p) == [status |-> "completed", payload |-> p]

\* Every row a ledger can hold.
Rows == {Absent, Pending} \cup {Completed(p) : p \in Payloads}

Init == ledger = [k \in Keys |-> Absent]

\* reserve() returned True: the intent to run the effect is now durable.
Reserve(k) ==
    /\ ledger[k] = Absent
    /\ ledger' = [ledger EXCEPT ![k] = Pending]

\* complete() records the one result of the key.
Complete(k, p) ==
    /\ ledger[k] \in {Absent, Pending}
    /\ ledger' = [ledger EXCEPT ![k] = Completed(p)]

Next == \E k \in Keys : Reserve(k) \/ \E p \in Payloads : Complete(k, p)

Spec == Init /\ [][Next]_ledger
=============================================================================
