-------------------------- MODULE ReplaySafeEffect --------------------------
(***************************************************************************)
(* What execute_delegation (application/service.py) promises its callers,  *)
(* with no ledger, specialist or protocol in sight.  Every key has at most *)
(* one result for ever.  A call either returns the result of its key or    *)
(* fails; a failed call may be made again.  How often the remote           *)
(* specialist runs is not part of the promise.                             *)
(***************************************************************************)
CONSTANTS
    Callers,    \* whoever calls execute_delegation
    Keys,       \* the idempotency keys
    Results,    \* the results a key can have
    None        \* no result, no key

VARIABLES
    result,     \* [Keys -> Results \cup {None}]: the result of the key
    caller      \* [Callers -> [state, key, value]]

vars == <<result, caller>>

Init ==
    /\ result = [k \in Keys |-> None]
    /\ caller = [c \in Callers |-> [state |-> "idle", key |-> None, value |-> None]]

\* A caller that waits for nothing asks for the result of k.
Call(c, k) ==
    /\ caller[c].state # "open"
    /\ caller' = [caller EXCEPT ![c] = [state |-> "open", key |-> k, value |-> None]]
    /\ UNCHANGED result

\* The one moment at which a key gets its result, on behalf of an open call.
Record(k, r) ==
    /\ result[k] = None
    /\ \E c \in Callers : caller[c].state = "open" /\ caller[c].key = k
    /\ result' = [result EXCEPT ![k] = r]
    /\ UNCHANGED caller

\* A call returns the result of its key, whoever recorded it.
Return(c) ==
    /\ caller[c].state = "open"
    /\ result[caller[c].key] # None
    /\ caller' = [caller EXCEPT ![c] = [state |-> "returned", key |-> @.key,
                                        value |-> result[@.key]]]
    /\ UNCHANGED result

\* Some calls fail together: one of them alone, or all in a crash.
Fail(C) ==
    /\ \A c \in C : caller[c].state = "open"
    /\ caller' = [c \in Callers |->
                    IF c \in C THEN [caller[c] EXCEPT !.state = "failed"]
                               ELSE caller[c]]
    /\ UNCHANGED result

Next ==
    \/ \E c \in Callers, k \in Keys : Call(c, k)
    \/ \E k \in Keys, r \in Results : Record(k, r)
    \/ \E c \in Callers : Return(c)
    \/ \E C \in SUBSET Callers : Fail(C)

Spec == Init /\ [][Next]_vars
=============================================================================
