---------------------------- MODULE MemoryLedger ----------------------------
(***************************************************************************)
(* InMemoryEffectLedger (adapters/memory_ledger.py): the ledger of the     *)
(* demo and of the unit tests.  Its operations never await inside the      *)
(* lock, so each of them is one step.                                      *)
(*                                                                         *)
(* Payloads are Python objects, which callers hold references to and may   *)
(* change at any time.  The heap maps references to what they stand for;   *)
(* deepcopy writes the same value under a reference nobody has yet.  An    *)
(* operation that copies is given that reference.                          *)
(***************************************************************************)
CONSTANTS
    Keys,       \* idempotency keys
    Refs,       \* references to objects
    Values,     \* what a payload can say
    None        \* no reference, no value

VARIABLES
    heap,       \* [Refs -> Values \cup {None}]
    items,      \* [Keys -> Refs \cup {None}], self._items
    pending     \* set of keys, self._pending

memory == <<heap, items, pending>>

MemoryInit ==
    /\ heap = [r \in Refs |-> None]
    /\ items = [k \in Keys |-> None]
    /\ pending = {}

\* Variant: the object itself instead of its copy.
SameObject(ref, copy) == ref

\* Which reference stays in the ledger, and which one leaves it.
CopyIn(ref, copy) == copy
CopyOut(ref, copy) == copy

Put(ref, value) == heap' = [heap EXCEPT ![ref] = value]

\* get_completed(k), when it finds something: CopyOut is handed to the caller.
Get(k, copy) ==
    /\ items[k] # None
    /\ Put(copy, heap[items[k]])
    /\ UNCHANGED <<items, pending>>

Misses(k) == items[k] = None

ReserveKey(k) ==
    /\ pending' = IF items[k] = None THEN pending \cup {k} ELSE pending
    /\ UNCHANGED <<heap, items>>

\* Variant: a completion that replaces whatever is there.
ConflictsNever(k, payload) == FALSE

\* existing is not None and existing != payload
Conflicts(k, payload) == items[k] # None /\ heap[items[k]] # heap[payload]

\* complete(k, payload), when it does not raise.
Store(k, payload, copy) ==
    /\ ~Conflicts(k, payload)
    /\ Put(copy, heap[payload])
    /\ items' = [items EXCEPT ![k] = CopyIn(payload, copy)]
    /\ pending' = pending \ {k}

-----------------------------------------------------------------------------
\* The record of a key is what its object says now, not what it said when it
\* was stored.
Row(k) ==
    IF items[k] # None THEN [status |-> "completed", payload |-> heap[items[k]]]
    ELSE [status |-> IF k \in pending THEN "pending" ELSE "absent", payload |-> None]

Ledger == INSTANCE EffectLedger WITH ledger <- [k \in Keys |-> Row(k)], Payloads <- Values

\* The objects in the ledger, read through the references, are the rows the
\* port promises: whatever callers do to the objects they handed in or were
\* handed out, a completed record never changes.
LedgerSpec == Ledger!Spec
=============================================================================
