-------------------------- MODULE MCPostgresLedger --------------------------
(* Instances of PostgresLedger for TLC. *)
EXTENDS PostgresLedger, TLC

CONSTANTS
    exact,      \* a payload that jsonb preserves
    integer,    \* another one
    wide,       \* one with a float that comes back as the integer
    rejected    \* one that jsonb does not take

\* What is read back after each payload was written.
MCStored ==
    [p \in Payloads |-> CASE p = wide -> integer [] p = rejected -> None [] OTHER -> p]

Symmetry == Permutations(Clients)
=============================================================================
