--------------------------- MODULE PostgresLedger ---------------------------
(***************************************************************************)
(* PostgresEffectLedger (adapters/postgres_ledger.py): get_completed,      *)
(* reserve and complete as the statements they send, on connections of a   *)
(* bounded pool, called by concurrent clients in any order.                *)
(*                                                                         *)
(* An operation takes a connection, executes a statement, commits, and     *)
(* gives the connection back.  complete() then reads its row back on a     *)
(* connection it has to take anew.  PostgreSQL at READ COMMITTED is        *)
(* external: a statement sees committed rows; a statement that conflicts   *)
(* with the uncommitted write of another transaction waits for its end.    *)
(*                                                                         *)
(* A payload goes through JSON into a jsonb column and back.  jsonb keeps   *)
(* numbers as decimals, so a float like 1e23 comes back as an integer that *)
(* Python finds different; it rejects NaN and the character NUL.           *)
(*                                                                         *)
(* A connection can break before or after the commit took effect, waiting  *)
(* for a connection can time out, and the process can stop; MaxFaults      *)
(* bounds how often.                                                       *)
(***************************************************************************)
EXTENDS Naturals, FiniteSets

CONSTANTS
    Clients,        \* coroutines that use the ledger
    Keys,           \* idempotency keys
    Payloads,       \* payloads of completions
    Stored,         \* [Payloads -> Payloads \cup {None}]: what is read back once
                    \* the payload was written to jsonb, None if that fails
    PoolMax,        \* effect_ledger_pool_max_size
    MaxFaults,      \* bounds the faults ever injected
    None            \* no payload, key, row or lock holder

ASSUME PostgresAssumption ==
    /\ IsFiniteSet(Clients)
    /\ PoolMax \in Nat \ {0}
    /\ MaxFaults \in Nat
    /\ Stored \in [Payloads -> Payloads \cup {None}]
    /\ None \notin Payloads \cup Keys \cup Clients \cup BOOLEAN

VARIABLES
    table,      \* [Keys -> row], the committed rows
    lock,       \* [Keys -> Clients \cup {None}], whose transaction locks the row
    op,         \* [Clients -> operation in progress, or the last one]
    grants,     \* history: [Keys -> number of reserve calls that returned True]
    faults      \* number of faults so far

vars == <<table, lock, op, grants, faults>>

-----------------------------------------------------------------------------
(* Rows and statements.                                                    *)

Absent == [status |-> "absent", payload |-> None]
Pending == [status |-> "pending", payload |-> None]
Completed(p) == [status |-> "completed", payload |-> p]
IsCompleted(row) == row.status = "completed"

\* Variant: an insert that overwrites.
InsertedAlways(row) == Pending

\* INSERT (key, 'pending') ON CONFLICT DO NOTHING
Inserted(row) == IF row = Absent THEN Pending ELSE row

\* Variant: the upsert without its WHERE.
UpsertedAlways(row, p) == Completed(p)

\* INSERT (key, 'completed', p) ON CONFLICT DO UPDATE ... WHERE status = 'pending'
Upserted(row, p) == IF IsCompleted(row) THEN row ELSE Completed(p)

\* SELECT payload ... WHERE status = 'completed'
Selected(row) == IF IsCompleted(row) THEN row.payload ELSE None

\* ON CONFLICT DO NOTHING waits only for a row that is being inserted; DO
\* UPDATE locks the row, so it waits for any transaction that has it.
MustWait(kind, k) ==
    /\ lock[k] # None
    /\ kind = "reserve" => table[k] = Absent

-----------------------------------------------------------------------------
(* Operations.                                                             *)

Operation(kind, k, p) ==
    [pc |-> "acquire", kind |-> kind, key |-> k, payload |-> p,
     stage |-> IF kind = "get_completed" THEN "read" ELSE "write",
     row |-> None, answer |-> None]

Ended == {"idle", "returned", "raised"}
HasConnection == {"execute", "commit", "release"}

\* Variant: complete() keeps its connection while it takes another to read back.
UsersWhileReadingBack ==
    {c \in Clients : \/ op[c].pc \in HasConnection
                     \/ op[c].pc = "acquire" /\ op[c].kind = "complete" /\ op[c].stage = "read"}

\* The clients that hold a connection of the pool.
Users == {c \in Clients : op[c].pc \in HasConnection}

Init ==
    /\ table = [k \in Keys |-> Absent]
    /\ lock = [k \in Keys |-> None]
    /\ op = [c \in Clients |-> [pc |-> "idle", kind |-> None, key |-> None, payload |-> None,
                                stage |-> None, row |-> None, answer |-> None]]
    /\ grants = [k \in Keys |-> 0]
    /\ faults = 0

Raise(c) == op' = [op EXCEPT ![c].pc = "raised", ![c].row = None]

\* A client calls get_completed(k), reserve(k) or complete(k, p).
Call(c) ==
    /\ op[c].pc \in Ended
    /\ \E k \in Keys :
        \/ op' = [op EXCEPT ![c] = Operation("get_completed", k, None)]
        \/ op' = [op EXCEPT ![c] = Operation("reserve", k, None)]
        \/ \E p \in Payloads : op' = [op EXCEPT ![c] = Operation("complete", k, p)]
    /\ UNCHANGED <<table, lock, grants, faults>>

\* async with self._pool.connection()
Acquire(c) ==
    /\ op[c].pc = "acquire"
    /\ Cardinality(Users) < PoolMax
    /\ op' = [op EXCEPT ![c].pc = "execute"]
    /\ UNCHANGED <<table, lock, grants, faults>>

\* The SELECT of get_completed, which complete() reads back with.
Select(c) ==
    /\ op[c].pc = "execute" /\ op[c].stage = "read"
    /\ op' = [op EXCEPT ![c].pc = "release", ![c].answer = Selected(table[op[c].key])]
    /\ UNCHANGED <<table, lock, grants, faults>>

\* The INSERT of reserve: it locks the row only if it is the one that adds it.
Insert(c) ==
    /\ op[c].pc = "execute" /\ op[c].kind = "reserve"
    /\ ~MustWait("reserve", op[c].key)
    /\ LET k == op[c].key
           new == Inserted(table[k]) # table[k]
       IN  /\ lock' = IF new THEN [lock EXCEPT ![k] = c] ELSE lock
           /\ op' = [op EXCEPT ![c].pc = "commit", ![c].answer = new,
                               ![c].row = IF new THEN Inserted(table[k]) ELSE None]
    /\ UNCHANGED <<table, grants, faults>>

\* The upsert of complete: it locks the row even when the WHERE excludes it.
Upsert(c) ==
    /\ op[c].pc = "execute" /\ op[c].kind = "complete" /\ op[c].stage = "write"
    /\ Stored[op[c].payload] # None
    /\ ~MustWait("complete", op[c].key)
    /\ LET k == op[c].key
       IN  /\ lock' = [lock EXCEPT ![k] = c]
           /\ op' = [op EXCEPT ![c].pc = "commit",
                               ![c].row = Upserted(table[k], Stored[op[c].payload])]
    /\ UNCHANGED <<table, grants, faults>>

\* The cast to jsonb fails, and the upsert with it.
Reject(c) ==
    /\ op[c].pc = "execute" /\ op[c].kind = "complete" /\ op[c].stage = "write"
    /\ Stored[op[c].payload] = None
    /\ Raise(c)
    /\ UNCHANGED <<table, lock, grants, faults>>

\* What the end of c's transaction does to its row and its lock.
TableAfter(c) ==
    IF op[c].row = None THEN table ELSE [table EXCEPT ![op[c].key] = op[c].row]

\* Variant: a transaction that is left open.
LocksKept(c) == lock

LocksWithout(c) == [k \in Keys |-> IF lock[k] = c THEN None ELSE lock[k]]

Commit(c) ==
    /\ op[c].pc = "commit"
    /\ table' = TableAfter(c)
    /\ lock' = LocksWithout(c)
    /\ op' = [op EXCEPT ![c].pc = "release", ![c].row = None]
    /\ UNCHANGED <<grants, faults>>

\* Variant: complete() does not compare what it read back.
AgreesAlways(c) == TRUE

\* stored == payload
Agrees(c) == op[c].answer = op[c].payload

\* The connection goes back to the pool, and the operation goes on or ends.
Release(c) ==
    /\ op[c].pc = "release"
    /\ \/ /\ op[c].kind \in {"get_completed", "reserve"}
          /\ op' = [op EXCEPT ![c].pc = "returned"]
       \/ /\ op[c].kind = "complete" /\ op[c].stage = "write"
          /\ op' = [op EXCEPT ![c].pc = "acquire", ![c].stage = "read"]
       \/ /\ op[c].kind = "complete" /\ op[c].stage = "read"
          /\ op' = [op EXCEPT ![c].pc = IF Agrees(c) THEN "returned" ELSE "raised"]
    /\ grants' = IF op[c].kind = "reserve" /\ op[c].answer = TRUE
                 THEN [grants EXCEPT ![op[c].key] = @ + 1] ELSE grants
    /\ UNCHANGED <<table, lock, faults>>

-----------------------------------------------------------------------------
(* Faults.                                                                 *)

Fault == faults < MaxFaults /\ faults' = faults + 1

\* The connection breaks, or the coroutine is cancelled: the transaction is
\* rolled back and the operation raises.
Disconnect(c) ==
    /\ op[c].pc \in HasConnection
    /\ Raise(c)
    /\ lock' = LocksWithout(c)
    /\ Fault
    /\ UNCHANGED <<table, grants>>

\* The connection breaks after the server committed and before the client
\* knows it.
CommitUnacknowledged(c) ==
    /\ op[c].pc = "commit"
    /\ Raise(c)
    /\ table' = TableAfter(c)
    /\ lock' = LocksWithout(c)
    /\ Fault
    /\ UNCHANGED grants

\* No connection becomes free in time.
PoolTimeout(c) ==
    /\ op[c].pc = "acquire"
    /\ Cardinality(Users) >= PoolMax
    /\ Raise(c)
    /\ Fault
    /\ UNCHANGED <<table, lock, grants>>

\* The process stops: every open transaction is rolled back.
Crash ==
    /\ \E c \in Clients : op[c].pc \notin Ended
    /\ op' = [c \in Clients |-> IF op[c].pc \in Ended THEN op[c]
                                ELSE [op[c] EXCEPT !.pc = "raised", !.row = None]]
    /\ lock' = [k \in Keys |-> None]
    /\ Fault
    /\ UNCHANGED <<table, grants>>

-----------------------------------------------------------------------------
Execute(c) == Select(c) \/ Insert(c) \/ Upsert(c) \/ Reject(c)

Step(c) == Acquire(c) \/ Execute(c) \/ Commit(c) \/ Release(c)

Next ==
    \/ \E c \in Clients : \/ Call(c) \/ Step(c)
                          \/ Disconnect(c) \/ CommitUnacknowledged(c) \/ PoolTimeout(c)
    \/ Crash

Spec == Init /\ [][Next]_vars

\* The event loop runs every ready coroutine.  The pool serves waiting
\* coroutines in order, and so does a PostgreSQL row lock, so nobody that is
\* let through again and again is passed over for ever.
Fairness ==
    \A c \in Clients :
        /\ SF_vars(Acquire(c))
        /\ SF_vars(Execute(c))
        /\ WF_vars(Commit(c) \/ Release(c))

FairSpec == Spec /\ Fairness

-----------------------------------------------------------------------------
(* Properties.                                                             *)

RowType == {Absent, Pending} \cup {Completed(p) : p \in Payloads}

ASSUME RowAssumption == None \notin RowType

OpType ==
    [pc : {"acquire"} \cup HasConnection \cup Ended,
     kind : {"get_completed", "reserve", "complete", None},
     key : Keys \cup {None}, payload : Payloads \cup {None},
     stage : {"read", "write", None}, row : RowType \cup {None},
     answer : Payloads \cup BOOLEAN \cup {None}]

\* The pool is never overdrawn, and a row is locked by a transaction that is
\* really open on it.
TypeOK ==
    /\ table \in [Keys -> RowType]
    /\ op \in [Clients -> OpType]
    /\ lock \in [Keys -> Clients \cup {None}]
    /\ grants \in [Keys -> Nat]
    /\ faults \in 0..MaxFaults
    /\ Cardinality(Users) <= PoolMax
    /\ \A k \in Keys : lock[k] # None => op[lock[k]].pc = "commit" /\ op[lock[k]].key = k

\* ports.py: reserve "returns True if this call newly reserved the key, False
\* if a pending or completed record already existed": of any number of racing,
\* failing and repeated calls at most one is told True.
OneReservation == \A k \in Keys : grants[k] <= 1

\* What an operation answered is durable, whatever happens to other
\* transactions and however often this process fails: a payload that was read
\* or acknowledged stays the row's payload, and after reserve the row is there.
\* A payload that jsonb changes or rejects is never acknowledged.
AnswersAreDurable ==
    \A c \in Clients : op[c].pc = "returned" =>
        LET row == table[op[c].key]
        IN  /\ op[c].kind = "get_completed" /\ op[c].answer # None
                => row = Completed(op[c].answer)
            /\ op[c].kind = "reserve" => row # Absent
            /\ op[c].kind = "complete" => row = Completed(op[c].payload)

\* Every operation ends, even when every connection of the pool is busy: no
\* operation holds a connection while it waits for another one.
OperationsEnd == \A c \in Clients : op[c].pc \notin Ended ~> op[c].pc \in Ended

\* The committed table is a ledger as the port promises it.
Ledger == INSTANCE EffectLedger WITH ledger <- table

\* Transactions, lost connections and retries together never do to a row what
\* the port does not allow: skip back, complete twice, change a result.
LedgerSpec == Ledger!Spec

-----------------------------------------------------------------------------
(* The inductive invariant behind the safety properties.                   *)

\* An operation has the arguments of its kind, and only writes commit.
WellFormed(o) ==
    o.pc # "idle" =>
        /\ o.key \in Keys
        /\ \/ o.kind = "get_completed" /\ o.stage = "read"
           \/ o.kind = "reserve" /\ o.stage = "write"
           \/ o.kind = "complete" /\ o.stage \in {"read", "write"} /\ o.payload \in Payloads
        /\ o.pc = "commit" => o.stage = "write"

\* What a transaction is about to commit is what its statement makes of the
\* row as it is now, which nobody can change while the row is locked.
IsCurrent(c) ==
    LET k == op[c].key
    IN  \/ /\ op[c].kind = "reserve" /\ op[c].answer = TRUE
           /\ lock[k] = c /\ table[k] = Absent /\ op[c].row = Pending
        \/ /\ op[c].kind = "reserve" /\ op[c].answer = FALSE
           /\ table[k] # Absent /\ op[c].row = None
        \/ /\ op[c].kind = "complete" /\ lock[k] = c
           /\ \E p \in Payloads : op[c].row = Upserted(table[k], p)

PreparedIsCurrent == \A c \in Clients : op[c].pc = "commit" => IsCurrent(c)

\* What an operation found out about its row still holds.
StillHolds(o) ==
    o.pc \in {"release", "returned"} =>
        /\ o.kind = "reserve" => table[o.key] # Absent
        /\ o.kind # "reserve" /\ o.stage = "read" /\ o.answer # None =>
              table[o.key] = Completed(o.answer)
        /\ o.kind = "complete" /\ o.pc = "returned" =>
              o.stage = "read" /\ o.answer = o.payload

\* reserve committed a new row, and has not returned yet.
Granting(c) == op[c].pc = "release" /\ op[c].kind = "reserve" /\ op[c].answer = TRUE

\* A row is granted to the one that added it, once.
GrantsAreNew ==
    /\ \A k \in Keys : grants[k] = 0 \/ (grants[k] = 1 /\ table[k] # Absent)
    /\ \A c \in Clients : Granting(c) => grants[op[c].key] = 0
    /\ \A c, d \in Clients : Granting(c) /\ Granting(d) /\ op[c].key = op[d].key => c = d

\* The steps of PostgresLedger keep these together.
IInv ==
    /\ TypeOK
    /\ \A c \in Clients : WellFormed(op[c]) /\ StillHolds(op[c])
    /\ PreparedIsCurrent
    /\ GrantsAreNew
=============================================================================
