------------------------ MODULE PostgresLedgerProofs ------------------------
(***************************************************************************)
(* Proofs about PostgresLedger: for any number of clients and keys, any    *)
(* pool, any faults and whatever jsonb makes of a payload, the ledger's    *)
(* table keeps the promise of the port.                                    *)
(*                                                                         *)
(* An operation writes the row of its key only while it has it locked, so  *)
(* the steps fall into three groups: those that touch neither rows nor     *)
(* locks, those that lock, and those that end a transaction.               *)
(***************************************************************************)
EXTENDS PostgresLedger, FiniteSetTheorems, TLAPS

\* The users of the pool are finitely many.
LEMMA UsersAreFinite == IsFiniteSet(Users)
  BY PostgresAssumption, FS_Subset DEF Users

\* Nobody new uses the pool.
LEMMA UsersShrink ==
    ASSUME Cardinality(Users) \in Nat, Cardinality(Users) <= PoolMax, Users' \subseteq Users
    PROVE  Cardinality(Users') <= PoolMax
  <1>1. Cardinality(Users') \in Nat /\ Cardinality(Users') <= Cardinality(Users)
    BY UsersAreFinite, FS_Subset, FS_CardinalityType
  <1> QED
    BY <1>1, PostgresAssumption

LEMMA UsersCount == Cardinality(Users) \in Nat
  BY UsersAreFinite, FS_CardinalityType

\* The state at the start.
LEMMA InitIInv == Init => IInv
  <1> SUFFICES ASSUME Init PROVE IInv
    OBVIOUS
  <1>1. Users = {}
    BY DEF Init, Users, HasConnection
  <1>2. Cardinality(Users) <= PoolMax
    BY <1>1, FS_EmptySet, PostgresAssumption
  <1>3. TypeOK
    BY <1>2, PostgresAssumption DEF Init, TypeOK, OpType, RowType, Ended, HasConnection
  <1>4. \A c \in Clients : WellFormed(op[c]) /\ StillHolds(op[c])
    BY DEF Init, WellFormed, StillHolds
  <1>5. PreparedIsCurrent /\ GrantsAreNew
    BY PostgresAssumption DEF Init, PreparedIsCurrent, GrantsAreNew, Granting
  <1> QED
    BY <1>3, <1>4, <1>5 DEF IInv

-----------------------------------------------------------------------------
(* Steps that touch neither rows nor locks.                                *)

\* One client moves on, outside of a transaction.
LEMMA MoveKeeps ==
    ASSUME IInv, NEW c \in Clients, NEW o \in OpType,
           op[c].pc # "commit", o.pc # "commit", op' = [op EXCEPT ![c] = o],
           UNCHANGED <<table, lock>>, faults' \in 0..MaxFaults,
           WellFormed(o), StillHolds(o),
           o.pc = "release" => o.kind # "reserve",
           \/ grants' = grants
           \/ Granting(c) /\ grants' = [grants EXCEPT ![op[c].key] = 1],
           o.pc \in HasConnection =>
                op[c].pc \in HasConnection \/ Cardinality(Users) < PoolMax
    PROVE  IInv'
  <1> USE DEF IInv
  <1>1. /\ op'[c] = o /\ \A d \in Clients \ {c} : op'[d] = op[d]
        /\ op' \in [Clients -> OpType]
    BY DEF TypeOK
  <1>2. Cardinality(Users') <= PoolMax
    <2>1. CASE o.pc \notin HasConnection \/ op[c].pc \in HasConnection
      <3>1. Users' \subseteq Users
        BY <1>1, <2>1 DEF Users
      <3> QED
        BY <3>1, UsersShrink, UsersCount DEF TypeOK
    <2>2. CASE Cardinality(Users) < PoolMax
      <3>1. Users' \subseteq Users \cup {c}
        BY <1>1 DEF Users
      <3>2. /\ IsFiniteSet(Users \cup {c})
            /\ Cardinality(Users \cup {c}) <= Cardinality(Users) + 1
            /\ Cardinality(Users \cup {c}) \in Nat
        BY UsersAreFinite, UsersCount, FS_AddElement, FS_CardinalityType
      <3>3. Cardinality(Users') \in Nat /\ Cardinality(Users') <= Cardinality(Users \cup {c})
        BY <3>1, <3>2, FS_Subset, FS_CardinalityType
      <3> QED
        BY <2>2, <3>2, <3>3, UsersCount, PostgresAssumption
    <2> QED
      BY <2>1, <2>2
  <1>3. /\ grants' \in [Keys -> Nat]
        /\ \A k \in Keys : grants'[k] = grants[k] \/ (Granting(c) /\ k = op[c].key /\ grants'[k] = 1)
        /\ ~(Granting(c) /\ grants' # grants) => grants' = grants
    BY DEF TypeOK
  <1>4. TypeOK'
    <2>1. ASSUME NEW k \in Keys, lock[k] # None PROVE lock[k] # c
      BY <2>1 DEF TypeOK
    <2> QED
      BY <1>1, <1>2, <1>3, <2>1 DEF TypeOK
  <1>5. \A d \in Clients : WellFormed(op'[d])
    BY <1>1
  <1>6. \A d \in Clients : StillHolds(op[d])'
    BY <1>1 DEF StillHolds
  <1>7. PreparedIsCurrent'
    BY <1>1 DEF PreparedIsCurrent, IsCurrent
  <1>8. GrantsAreNew'
    <2>1. ASSUME NEW k \in Keys PROVE (grants[k] = 0 \/ (grants[k] = 1 /\ table[k] # Absent))'
      <3>1. CASE grants'[k] = grants[k]
        BY <3>1 DEF GrantsAreNew
      <3>2. CASE Granting(c) /\ k = op[c].key /\ grants'[k] = 1
        BY <3>2 DEF Granting, StillHolds
      <3> QED
        BY <1>3, <3>1, <3>2
    <2>2. ASSUME NEW d \in Clients, Granting(d)' PROVE d # c /\ Granting(d) /\ op'[d] = op[d]
      BY <1>1, <2>2 DEF Granting
    <2>3. ASSUME NEW d \in Clients, Granting(d)' PROVE (grants[op[d].key] = 0)'
      <3>1. d # c /\ Granting(d) /\ op'[d] = op[d] /\ op[d].key \in Keys
        BY <2>2, <2>3 DEF Granting, WellFormed
      <3>2. ~(Granting(c) /\ op[d].key = op[c].key)
        BY <3>1 DEF GrantsAreNew
      <3> QED
        BY <1>3, <3>1, <3>2 DEF GrantsAreNew
    <2>4. ASSUME NEW d \in Clients, NEW e \in Clients, Granting(d)', Granting(e)',
                 op'[d].key = op'[e].key
          PROVE  d = e
      BY <2>2, <2>4 DEF GrantsAreNew
    <2> QED
      BY <2>1, <2>3, <2>4 DEF GrantsAreNew
  <1> QED
    BY <1>4, <1>5, <1>6, <1>7, <1>8

-----------------------------------------------------------------------------
(* Steps that lock a row.                                                  *)

\* A client executes a statement that writes.
LEMMA WriteKeeps ==
    ASSUME IInv, NEW c \in Clients, NEW o \in OpType,
           op[c].pc = "execute", o.pc = "commit", op' = [op EXCEPT ![c] = o],
           UNCHANGED <<table, grants, faults>>, WellFormed(o), IsCurrent(c)',
           \/ lock' = lock
           \/ lock[o.key] = None /\ lock' = [lock EXCEPT ![o.key] = c]
    PROVE  IInv'
  <1> USE DEF IInv
  <1>1. /\ op'[c] = o /\ \A d \in Clients \ {c} : op'[d] = op[d]
        /\ op' \in [Clients -> OpType] /\ o.key \in Keys
    BY DEF TypeOK, WellFormed
  <1>2. Cardinality(Users') <= PoolMax
    <2>1. Users' \subseteq Users
      BY <1>1 DEF Users, HasConnection
    <2> QED
      BY <2>1, UsersShrink, UsersCount DEF TypeOK
  <1>3. /\ lock' \in [Keys -> Clients \cup {None}]
        /\ \A k \in Keys : lock[k] # None => lock'[k] = lock[k] /\ lock[k] # c
        /\ \A k \in Keys : lock'[k] # None => lock'[k] = lock[k] \/ (k = o.key /\ lock'[k] = c)
    BY <1>1 DEF TypeOK
  <1>4. TypeOK'
    BY <1>1, <1>2, <1>3 DEF TypeOK
  <1>5. \A d \in Clients : WellFormed(op'[d]) /\ StillHolds(op[d])'
    BY <1>1 DEF StillHolds
  <1>6. PreparedIsCurrent'
    <2> SUFFICES ASSUME NEW d \in Clients, op'[d].pc = "commit", d # c PROVE IsCurrent(d)'
      BY DEF PreparedIsCurrent
    <2>1. op'[d] = op[d] /\ IsCurrent(d) /\ op[d].key \in Keys
      BY <1>1 DEF PreparedIsCurrent, WellFormed
    <2>2. lock[op[d].key] = d => lock'[op[d].key] = d
      BY <1>3, <2>1, PostgresAssumption
    <2> QED
      BY <2>1, <2>2 DEF IsCurrent
  <1>7. GrantsAreNew'
    <2>1. ASSUME NEW d \in Clients, Granting(d)' PROVE Granting(d) /\ op'[d] = op[d]
      BY <1>1, <2>1 DEF Granting
    <2> QED
      BY <2>1 DEF GrantsAreNew
  <1> QED
    BY <1>4, <1>5, <1>6, <1>7

-----------------------------------------------------------------------------
(* Steps that end a transaction.                                           *)

\* What a commit makes of the table: it changes one row, which it has locked,
\* and only if it was not completed.
LEMMA CommittedRow ==
    ASSUME IInv, NEW c \in Clients, op[c].pc = "commit"
    PROVE  /\ TableAfter(c) \in [Keys -> RowType]
           /\ \A k \in Keys \ {op[c].key} : TableAfter(c)[k] = table[k]
           /\ op[c].key \in Keys /\ TableAfter(c)[op[c].key] # Absent
           /\ \/ TableAfter(c) = table
              \/ /\ lock[op[c].key] = c
                 /\ \/ /\ table[op[c].key] = Absent
                       /\ TableAfter(c) = [table EXCEPT ![op[c].key] = Pending]
                    \/ /\ table[op[c].key] \in {Absent, Pending}
                       /\ \E p \in Payloads :
                            TableAfter(c) = [table EXCEPT ![op[c].key] = Completed(p)]
  <1> DEFINE k == op[c].key
  <1>1. k \in Keys /\ IsCurrent(c) /\ table \in [Keys -> RowType] /\ table[k] \in RowType
    BY DEF IInv, WellFormed, PreparedIsCurrent, TypeOK
  <1>2. None \notin RowType
    BY RowAssumption
  <1>3. CASE op[c].row = Pending
             /\ lock[k] = c /\ table[k] = Absent
    <2>1. TableAfter(c) = [table EXCEPT ![k] = Pending]
      BY <1>2, <1>3 DEF TableAfter, RowType
    <2> QED
      BY <1>1, <1>3, <2>1 DEF RowType, Absent, Pending
  <1>4. CASE op[c].row = None /\ table[k] # Absent
    BY <1>1, <1>4 DEF TableAfter
  <1>5. CASE lock[k] = c /\ \E p \in Payloads : op[c].row = Upserted(table[k], p)
    <2>1. PICK p \in Payloads : op[c].row = Upserted(table[k], p)
      BY <1>5
    <2>2. CASE IsCompleted(table[k])
      <3>1. op[c].row = table[k] /\ table[k] # Absent
        BY <2>1, <2>2 DEF Upserted, IsCompleted, Absent
      <3>2. TableAfter(c) = table
        BY <1>1, <1>2, <3>1 DEF TableAfter
      <3> QED
        BY <1>1, <3>1, <3>2
    <2>3. CASE ~IsCompleted(table[k])
      <3>1. op[c].row = Completed(p) /\ Completed(p) \in RowType /\ Completed(p) # Absent
        BY <2>1, <2>3 DEF Upserted, RowType, Completed, Absent
      <3>2. TableAfter(c) = [table EXCEPT ![k] = Completed(p)]
        BY <1>2, <3>1 DEF TableAfter
      <3>3. table[k] \in {Absent, Pending}
        BY <1>1, <2>3 DEF RowType, IsCompleted, Completed
      <3> QED
        BY <1>1, <1>5, <3>1, <3>2, <3>3
    <2> QED
      BY <2>2, <2>3
  <1>6. \/ /\ op[c].row = Pending
           /\ lock[k] = c /\ table[k] = Absent
        \/ op[c].row = None /\ table[k] # Absent
        \/ lock[k] = c /\ \E p \in Payloads : op[c].row = Upserted(table[k], p)
    BY <1>1, Zenon DEF IsCurrent
  <1> QED
    BY <1>3, <1>4, <1>5, <1>6

\* A transaction that commits, or is rolled back: o is what becomes of the
\* operation, and the other operations may rely on what they know.
LEMMA EndKeeps ==
    ASSUME IInv, NEW c \in Clients, NEW o \in OpType,
           op[c].pc \in HasConnection, o.pc \in {"release", "raised"},
           op' = [op EXCEPT ![c] = o],
           \/ table' = table
           \/ table' = TableAfter(c) /\ op[c].pc = "commit",
           lock' = LocksWithout(c), grants' = grants, faults' \in 0..MaxFaults,
           WellFormed(o), StillHolds(op[c])',
           Granting(c)' => op[c].pc = "commit" /\ o.key = op[c].key /\ table[o.key] = Absent
    PROVE  IInv'
  <1> USE DEF IInv
  <1>1. /\ op'[c] = o /\ \A d \in Clients \ {c} : op'[d] = op[d]
        /\ op' \in [Clients -> OpType]
    BY DEF TypeOK
  <1>2. Cardinality(Users') <= PoolMax
    <2>1. Users' \subseteq Users
      BY <1>1 DEF Users, HasConnection
    <2> QED
      BY <2>1, UsersShrink, UsersCount DEF TypeOK
  <1>3. /\ lock' \in [Keys -> Clients \cup {None}]
        /\ \A k \in Keys : lock'[k] # None => lock'[k] = lock[k] /\ lock[k] # c
        /\ \A k \in Keys : lock[k] # c => lock'[k] = lock[k]
    BY DEF TypeOK, LocksWithout
  <1>4. /\ table' \in [Keys -> RowType]
        /\ \A k \in Keys :
              \/ table'[k] = table[k]
              \/ /\ lock[k] = c /\ table[k] \in {Absent, Pending}
                 /\ table'[k] # Absent
    <2>1. CASE table' = table
      BY <2>1 DEF TypeOK
    <2>2. CASE table' = TableAfter(c) /\ op[c].pc = "commit"
      BY <2>2, CommittedRow
    <2> QED
      BY <2>1, <2>2
  <1>5. TypeOK'
    BY <1>1, <1>2, <1>3, <1>4 DEF TypeOK
  <1>6. \A d \in Clients : WellFormed(op'[d])
    BY <1>1
  <1>7. ASSUME NEW d \in Clients PROVE StillHolds(op[d])'
    <2>1. CASE d = c
      BY <2>1
    <2>2. CASE d # c /\ op[d].pc \in {"release", "returned"}
      <3>1. op'[d] = op[d] /\ StillHolds(op[d]) /\ op[d].key \in Keys
        BY <1>1, <2>2 DEF WellFormed
      <3>2. table[op[d].key] # Absent => table'[op[d].key] # Absent
        BY <1>4, <3>1
      <3>3. \A p : table[op[d].key] = Completed(p) => table'[op[d].key] = Completed(p)
        BY <1>4, <3>1 DEF Absent, Pending, Completed
      <3> QED
        BY <3>1, <3>2, <3>3 DEF StillHolds
    <2>3. CASE d # c /\ op[d].pc \notin {"release", "returned"}
      BY <1>1, <2>3 DEF StillHolds
    <2> QED
      BY <2>1, <2>2, <2>3
  <1>8. PreparedIsCurrent'
    <2> SUFFICES ASSUME NEW d \in Clients, op'[d].pc = "commit" PROVE IsCurrent(d)'
      BY DEF PreparedIsCurrent
    <2>1. d # c /\ op'[d] = op[d] /\ IsCurrent(d) /\ op[d].key \in Keys
      BY <1>1 DEF PreparedIsCurrent, WellFormed
    <2>2. lock[op[d].key] = d => lock'[op[d].key] = d /\ table'[op[d].key] = table[op[d].key]
      BY <1>3, <1>4, <2>1
    <2>3. table[op[d].key] # Absent => table'[op[d].key] # Absent
      BY <1>4, <2>1
    <2> QED
      BY <2>1, <2>2, <2>3 DEF IsCurrent
  <1>9. GrantsAreNew'
    <2>1. ASSUME NEW k \in Keys PROVE (grants[k] = 0 \/ (grants[k] = 1 /\ table[k] # Absent))'
      BY <1>4 DEF GrantsAreNew
    <2>2. ASSUME NEW d \in Clients, Granting(d)', d # c
          PROVE  Granting(d) /\ op'[d] = op[d] /\ op[d].key \in Keys /\ table[op[d].key] # Absent
      BY <1>1, <2>2 DEF Granting, WellFormed, StillHolds
    <2>3. ASSUME NEW d \in Clients, Granting(d)' PROVE (grants[op[d].key] = 0)'
      <3>1. CASE d = c
        BY <1>1, <2>3, <3>1 DEF GrantsAreNew, WellFormed
      <3>2. CASE d # c
        BY <2>2, <2>3, <3>2 DEF GrantsAreNew
      <3> QED
        BY <3>1, <3>2
    <2>4. ASSUME NEW d \in Clients, NEW e \in Clients, Granting(d)', Granting(e)',
                 op'[d].key = op'[e].key, d # c
          PROVE  d = e
      <3>1. CASE e = c
        BY <1>1, <2>2, <2>4, <3>1
      <3>2. CASE e # c
        BY <2>2, <2>4, <3>2 DEF GrantsAreNew
      <3> QED
        BY <3>1, <3>2
    <2> QED
      BY <2>1, <2>3, <2>4 DEF GrantsAreNew
  <1> QED
    BY <1>5, <1>6, <1>7, <1>8, <1>9

LEMMA FaultsCount ==
    ASSUME faults \in 0..MaxFaults, Fault
    PROVE  faults' \in 0..MaxFaults
  BY PostgresAssumption DEF Fault

\* When the process stops, nothing is left but the rows.
LEMMA CrashKeeps ==
    ASSUME IInv, Crash
    PROVE  IInv'
  <1> USE DEF IInv
  <1> DEFINE Stopped(o) == [o EXCEPT !.pc = "raised", !.row = None]
  <1>1. /\ \A c \in Clients : \/ op'[c] = op[c] /\ op[c].pc \in Ended
                              \/ op'[c] = Stopped(op[c]) /\ op[c].pc \notin Ended
        /\ op' \in [Clients -> OpType] /\ \A c \in Clients : op'[c].pc \in Ended
    <2>1. op' = [c \in Clients |-> IF op[c].pc \in Ended THEN op[c] ELSE Stopped(op[c])]
      BY DEF Crash
    <2>2. \A o \in OpType : Stopped(o) \in OpType /\ Stopped(o).pc \in Ended
      BY DEF OpType, Ended
    <2>3. \A c \in Clients : op[c] \in OpType
      BY DEF TypeOK
    <2> HIDE DEF Stopped
    <2> QED
      BY <2>1, <2>2, <2>3
  <1>2. \A c \in Clients : op'[c].pc \in Ended
    BY <1>1
  <1>3. Cardinality(Users') <= PoolMax
    <2>1. Users' \subseteq Users
      BY <1>2 DEF Users, HasConnection, Ended
    <2> QED
      BY <2>1, UsersShrink, UsersCount DEF TypeOK
  <1>4. UNCHANGED <<table, grants>> /\ lock' = [k \in Keys |-> None]
    BY DEF Crash
  <1>5. faults' \in 0..MaxFaults
    BY FaultsCount DEF Crash, TypeOK
  <1>6. TypeOK'
    BY <1>1, <1>3, <1>4, <1>5 DEF TypeOK
  <1>7. ASSUME NEW c \in Clients PROVE WellFormed(op'[c]) /\ StillHolds(op[c])'
    <2>1. CASE op'[c] = op[c]
      BY <1>4, <2>1 DEF StillHolds
    <2>2. CASE op'[c] = Stopped(op[c]) /\ op[c].pc \notin Ended
      BY <2>2 DEF WellFormed, StillHolds, TypeOK, OpType, Ended
    <2> QED
      BY <1>1, <2>1, <2>2
  <1>8. PreparedIsCurrent'
    BY <1>2 DEF PreparedIsCurrent, Ended
  <1>9. GrantsAreNew'
    BY <1>2, <1>4 DEF GrantsAreNew, Granting, Ended
  <1> QED
    BY <1>6, <1>7, <1>8, <1>9

-----------------------------------------------------------------------------
(* The invariants.                                                         *)

\* The steps of an operation up to its statement.
LEMMA CallKeeps ==
    ASSUME IInv, NEW c \in Clients, Call(c)
    PROVE  IInv'
  <1>1. PICK kind \in {"get_completed", "reserve", "complete"}, k \in Keys, p \in Payloads \cup {None} :
            /\ op' = [op EXCEPT ![c] = Operation(kind, k, p)]
            /\ kind = "complete" => p \in Payloads
    BY DEF Call
  <1>2. PICK o : o = Operation(kind, k, p)
    OBVIOUS
  <1>3. /\ o \in OpType /\ o.pc = "acquire" /\ WellFormed(o) /\ StillHolds(o)
        /\ "acquire" \notin HasConnection
    BY <1>1, <1>2 DEF Operation, OpType, WellFormed, StillHolds, HasConnection
  <1> QED
    BY <1>1, <1>2, <1>3, MoveKeeps DEF Call, Ended, IInv, TypeOK

LEMMA AcquireKeeps ==
    ASSUME IInv, NEW c \in Clients, Acquire(c)
    PROVE  IInv'
  <1>1. PICK o : o = [op[c] EXCEPT !.pc = "execute"]
    OBVIOUS
  <1>2. /\ op[c] \in OpType /\ op[c].pc = "acquire" /\ WellFormed(op[c])
        /\ op' = [op EXCEPT ![c] = o]
    BY <1>1 DEF Acquire, IInv, TypeOK
  <1>3. o \in OpType /\ o.pc = "execute" /\ WellFormed(o) /\ StillHolds(o)
    BY <1>1, <1>2 DEF OpType, WellFormed, StillHolds, HasConnection
  <1> QED
    BY <1>2, <1>3, MoveKeeps DEF Acquire, IInv, TypeOK

LEMMA SelectKeeps ==
    ASSUME IInv, NEW c \in Clients, Select(c)
    PROVE  IInv'
  <1>1. PICK o : o = [op[c] EXCEPT !.pc = "release", !.answer = Selected(table[op[c].key])]
    OBVIOUS
  <1>2. /\ op[c] \in OpType /\ op[c].pc = "execute" /\ op[c].stage = "read"
        /\ WellFormed(op[c]) /\ op' = [op EXCEPT ![c] = o]
        /\ op[c].key \in Keys /\ table[op[c].key] \in RowType
    BY <1>1 DEF Select, IInv, TypeOK, WellFormed
  <1>3. \/ Selected(table[op[c].key]) = None
        \/ /\ Selected(table[op[c].key]) \in Payloads
           /\ table[op[c].key] = Completed(Selected(table[op[c].key]))
    <2>1. CASE table[op[c].key] \in {Absent, Pending}
      BY <2>1 DEF Selected, IsCompleted, Absent, Pending
    <2>2. CASE \E p \in Payloads : table[op[c].key] = Completed(p)
      BY <2>2 DEF Selected, IsCompleted, Completed
    <2> QED
      BY <1>2, <2>1, <2>2 DEF RowType
  <1>4. o \in OpType
    BY <1>1, <1>2, <1>3 DEF OpType, HasConnection
  <1>5. o.pc = "release" /\ o.kind # "reserve" /\ WellFormed(o) /\ StillHolds(o)
    BY <1>1, <1>2, <1>3 DEF OpType, WellFormed, StillHolds
  <1> QED
    BY <1>2, <1>4, <1>5, MoveKeeps DEF Select, IInv, TypeOK, HasConnection

LEMMA InsertKeeps ==
    ASSUME IInv, NEW c \in Clients, Insert(c)
    PROVE  IInv'
  <1> DEFINE k == op[c].key
  <1>1. /\ op[c] \in OpType /\ op[c].pc = "execute" /\ op[c].kind = "reserve"
        /\ WellFormed(op[c]) /\ k \in Keys /\ UNCHANGED <<table, grants, faults>>
        /\ op \in [Clients -> OpType] /\ lock \in [Keys -> Clients \cup {None}]
    BY DEF Insert, IInv, TypeOK, WellFormed
  <1>2. Pending # Absent
    BY DEF Pending, Absent
  <1>3. CASE table[k] = Absent
    <2>1. PICK o : o = [op[c] EXCEPT !.pc = "commit", !.answer = TRUE, !.row = Pending]
      OBVIOUS
    <2>2. lock[k] = None /\ lock' = [lock EXCEPT ![k] = c] /\ op' = [op EXCEPT ![c] = o]
      BY <1>1, <1>2, <1>3, <2>1 DEF Insert, Inserted, MustWait
    <2>3. o \in OpType /\ o.pc = "commit" /\ WellFormed(o) /\ o.key = k
      BY <1>1, <2>1 DEF OpType, RowType, HasConnection, WellFormed
    <2>4. IsCurrent(c)'
      BY <1>1, <1>3, <2>1, <2>2, <2>3 DEF IsCurrent, OpType
    <2> QED
      BY <1>1, <2>2, <2>3, <2>4, WriteKeeps
  <1>4. CASE table[k] # Absent
    <2>1. PICK o : o = [op[c] EXCEPT !.pc = "commit", !.answer = FALSE, !.row = None]
      OBVIOUS
    <2>2. lock' = lock /\ op' = [op EXCEPT ![c] = o]
      BY <1>1, <1>4, <2>1 DEF Insert, Inserted
    <2>3. o \in OpType /\ o.pc = "commit" /\ WellFormed(o) /\ o.key = k
      BY <1>1, <2>1 DEF OpType, RowType, HasConnection, WellFormed
    <2>4. IsCurrent(c)'
      BY <1>1, <1>4, <2>1, <2>2, <2>3 DEF IsCurrent, OpType
    <2> QED
      BY <1>1, <2>2, <2>3, <2>4, WriteKeeps
  <1> QED
    BY <1>3, <1>4

LEMMA UpsertKeeps ==
    ASSUME IInv, NEW c \in Clients, Upsert(c)
    PROVE  IInv'
  <1> DEFINE k == op[c].key
  <1>1. /\ op[c] \in OpType /\ op[c].pc = "execute" /\ op[c].kind = "complete"
        /\ WellFormed(op[c]) /\ k \in Keys /\ op[c].payload \in Payloads
        /\ op[c].stage = "write" /\ UNCHANGED <<table, grants, faults>>
        /\ op \in [Clients -> OpType] /\ lock \in [Keys -> Clients \cup {None}]
        /\ table[k] \in RowType
    BY DEF Upsert, IInv, TypeOK, WellFormed
  <1>2. PICK p \in Payloads : p = Stored[op[c].payload]
    BY <1>1, PostgresAssumption DEF Upsert
  <1>3. PICK o : o = [op[c] EXCEPT !.pc = "commit", !.row = Upserted(table[k], p)]
    OBVIOUS
  <1>4. lock[k] = None /\ lock' = [lock EXCEPT ![k] = c] /\ op' = [op EXCEPT ![c] = o]
    BY <1>1, <1>2, <1>3 DEF Upsert, MustWait
  <1>5. Upserted(table[k], p) \in RowType
    BY <1>1 DEF Upserted, RowType
  <1>6. o \in OpType /\ o.pc = "commit" /\ WellFormed(o) /\ o.key = k
    BY <1>1, <1>3, <1>5 DEF OpType, HasConnection, WellFormed
  <1>7. IsCurrent(c)'
    BY <1>1, <1>3, <1>4, <1>6 DEF IsCurrent, OpType
  <1> QED
    BY <1>1, <1>4, <1>6, <1>7, WriteKeeps

\* The steps that end an operation or a part of it.
LEMMA CommitKeeps ==
    ASSUME IInv, NEW c \in Clients, Commit(c)
    PROVE  IInv'
  <1> DEFINE k == op[c].key
  <1>1. PICK o : o = [op[c] EXCEPT !.pc = "release", !.row = None]
    OBVIOUS
  <1>2. /\ op[c] \in OpType /\ op[c].pc = "commit" /\ WellFormed(op[c]) /\ k \in Keys
        /\ op' = [op EXCEPT ![c] = o] /\ op'[c] = o /\ table' = TableAfter(c)
        /\ lock' = LocksWithout(c) /\ grants' = grants /\ faults' = faults
        /\ IsCurrent(c) /\ faults \in 0..MaxFaults
    BY <1>1 DEF Commit, IInv, TypeOK, WellFormed, PreparedIsCurrent
  <1>3. /\ o \in OpType /\ o.pc = "release" /\ o.key = k /\ o.stage = "write"
        /\ o.kind = op[c].kind /\ o.answer = op[c].answer /\ WellFormed(o)
    BY <1>1, <1>2 DEF OpType, HasConnection, WellFormed
  <1>4. StillHolds(op[c])'
    <2>1. table'[o.key] # Absent
      BY <1>2, <1>3, CommittedRow
    <2> QED
      BY <1>2, <1>3, <2>1 DEF StillHolds
  <1>5. Granting(c)' => table[o.key] = Absent
    BY <1>2, <1>3 DEF Granting, IsCurrent
  <1> QED
    BY <1>2, <1>3, <1>4, <1>5, EndKeeps DEF HasConnection

LEMMA ReleaseKeeps ==
    ASSUME IInv, NEW c \in Clients, Release(c)
    PROVE  IInv'
  <1>1. PICK o :
            /\ op' = [op EXCEPT ![c] = o]
            /\ \/ o = [op[c] EXCEPT !.pc = "returned"] /\ op[c].kind # "complete"
               \/ /\ o = [op[c] EXCEPT !.pc = "acquire", !.stage = "read"]
                  /\ op[c].kind = "complete"
               \/ /\ o = [op[c] EXCEPT !.pc = "returned"] /\ Agrees(c)
                  /\ op[c].kind = "complete" /\ op[c].stage = "read"
               \/ o = [op[c] EXCEPT !.pc = "raised"]
    <2>1. CASE op' = [op EXCEPT ![c].pc = "returned"] /\ op[c].kind # "complete"
      BY <2>1
    <2>2. CASE /\ op' = [op EXCEPT ![c].pc = "acquire", ![c].stage = "read"]
               /\ op[c].kind = "complete"
      <3>1. op' = [op EXCEPT ![c] = [op[c] EXCEPT !.pc = "acquire", !.stage = "read"]]
        BY <2>2 DEF IInv, TypeOK
      <3> QED
        BY <2>2, <3>1
    <2>3. CASE /\ op' = [op EXCEPT ![c].pc = "returned"] /\ Agrees(c)
               /\ op[c].kind = "complete" /\ op[c].stage = "read"
      BY <2>3
    <2>4. CASE op' = [op EXCEPT ![c].pc = "raised"]
      BY <2>4
    <2> QED
      BY <2>1, <2>2, <2>3, <2>4 DEF Release
  <1>2. /\ op[c] \in OpType /\ op[c].pc = "release" /\ WellFormed(op[c]) /\ StillHolds(op[c])
        /\ faults' \in 0..MaxFaults /\ UNCHANGED <<table, lock>>
    BY DEF Release, IInv, TypeOK
  <1>3. /\ o \in OpType /\ o.pc \in {"acquire", "returned", "raised"} /\ o.kind = op[c].kind
        /\ o.key = op[c].key /\ o.answer = op[c].answer /\ o.payload = op[c].payload
    BY <1>1, <1>2 DEF OpType, Ended
  <1>4. WellFormed(o) /\ StillHolds(o)
    BY <1>1, <1>2, <1>3 DEF WellFormed, StillHolds, Agrees, OpType
  <1>5. grants' = grants \/ (Granting(c) /\ grants' = [grants EXCEPT ![op[c].key] = 1])
    <2>1. CASE Granting(c)
      <3>1. grants[op[c].key] = 0 /\ grants' = [grants EXCEPT ![op[c].key] = @ + 1]
        BY <2>1 DEF IInv, GrantsAreNew, Granting, Release
      <3> QED
        BY <2>1, <3>1
    <2>2. CASE ~Granting(c)
      BY <2>2 DEF Granting, Release
    <2> QED
      BY <2>1, <2>2
  <1> QED
    BY <1>1, <1>2, <1>3, <1>4, <1>5, MoveKeeps DEF HasConnection

\* An operation that raises.
LEMMA RaiseKeeps ==
    ASSUME IInv, NEW c \in Clients, Raise(c), faults' \in 0..MaxFaults, grants' = grants,
           \/ op[c].pc \in {"acquire", "execute"} /\ UNCHANGED <<table, lock>>
           \/ /\ op[c].pc \in HasConnection /\ lock' = LocksWithout(c)
              /\ \/ table' = table
                 \/ table' = TableAfter(c) /\ op[c].pc = "commit"
    PROVE  IInv'
  <1>1. PICK o : o = [op[c] EXCEPT !.pc = "raised", !.row = None]
    OBVIOUS
  <1>2. op[c] \in OpType /\ WellFormed(op[c]) /\ op[c].pc # "idle"
    BY DEF IInv, TypeOK, HasConnection
  <1>3. /\ o \in OpType /\ o.pc = "raised" /\ WellFormed(o) /\ StillHolds(o)
        /\ op' = [op EXCEPT ![c] = o] /\ op'[c] = o
    BY <1>1, <1>2 DEF Raise, OpType, Ended, WellFormed, StillHolds, IInv, TypeOK
  <1>4. StillHolds(op[c])' /\ ~Granting(c)'
    BY <1>3 DEF StillHolds, Granting
  <1>5. "raised" \notin HasConnection
    BY DEF HasConnection
  <1>6. CASE op[c].pc \in {"acquire", "execute"} /\ UNCHANGED <<table, lock>>
    BY <1>3, <1>5, <1>6, MoveKeeps
  <1>7. CASE /\ op[c].pc \in HasConnection /\ lock' = LocksWithout(c)
             /\ \/ table' = table
                \/ table' = TableAfter(c) /\ op[c].pc = "commit"
    BY <1>3, <1>4, <1>7, EndKeeps
  <1> QED
    BY <1>6, <1>7

\* Every step keeps the inductive invariant.
LEMMA StepIInv == IInv /\ [Next]_vars => IInv'
  <1> SUFFICES ASSUME IInv, [Next]_vars PROVE IInv'
    OBVIOUS
  <1>1. CASE UNCHANGED vars
    BY <1>1 DEF vars, IInv, TypeOK, Users, StillHolds, PreparedIsCurrent, IsCurrent, GrantsAreNew,
                Granting
  <1>2. faults \in 0..MaxFaults
    BY DEF IInv, TypeOK
  <1>3. ASSUME NEW c \in Clients, Reject(c) PROVE IInv'
    BY <1>2, <1>3, RaiseKeeps DEF Reject
  <1>4. ASSUME NEW c \in Clients, Disconnect(c) PROVE IInv'
    BY <1>2, <1>4, RaiseKeeps, FaultsCount DEF Disconnect
  <1>5. ASSUME NEW c \in Clients, CommitUnacknowledged(c) PROVE IInv'
    BY <1>2, <1>5, RaiseKeeps, FaultsCount DEF CommitUnacknowledged, HasConnection
  <1>6. ASSUME NEW c \in Clients, PoolTimeout(c) PROVE IInv'
    BY <1>2, <1>6, RaiseKeeps, FaultsCount DEF PoolTimeout
  <1> QED
    BY <1>1, <1>3, <1>4, <1>5, <1>6, CallKeeps, AcquireKeeps, SelectKeeps, InsertKeeps, UpsertKeeps,
       CommitKeeps, ReleaseKeeps, CrashKeeps DEF Next, Step, Execute

\* The inductive invariant holds in every reachable state.
THEOREM Invariance == Spec => []IInv
  BY InitIInv, StepIInv, PTL DEF Spec

\* The pool is never overdrawn, and only open transactions hold locks.
THEOREM TypeCorrect == Spec => []TypeOK
  BY Invariance, PTL DEF IInv

\* Of all calls of reserve for a key, ever, at most one is told True.
THEOREM ReservedOnce == Spec => []OneReservation
  <1>1. IInv => OneReservation
    BY DEF IInv, GrantsAreNew, OneReservation
  <1> QED
    BY <1>1, Invariance, PTL

\* Whatever an operation answered is durable.
THEOREM DurableAnswers == Spec => []AnswersAreDurable
  <1>1. IInv => AnswersAreDurable
    <2> SUFFICES ASSUME IInv, NEW c \in Clients, op[c].pc = "returned"
                 PROVE  LET row == table[op[c].key]
                        IN  /\ op[c].kind = "get_completed" /\ op[c].answer # None
                                => row = Completed(op[c].answer)
                            /\ op[c].kind = "reserve" => row # Absent
                            /\ op[c].kind = "complete" => row = Completed(op[c].payload)
      BY DEF AnswersAreDurable
    <2> QED
      BY PostgresAssumption DEF IInv, WellFormed, StillHolds
  <1> QED
    BY <1>1, Invariance, PTL

-----------------------------------------------------------------------------
(* No deadlock.                                                            *)

\* The statement of c waits for a row that another transaction has locked.
IsBlocked(c) ==
    /\ op[c].pc = "execute" /\ op[c].stage = "write"
    /\ op[c].kind = "complete" => Stored[op[c].payload] # None
    /\ MustWait(op[c].kind, op[c].key)

\* The client whose transaction c waits for.
HolderFor(c) == lock[op[c].key]

\* Whoever waits for a row waits for a transaction that has nothing left but to
\* commit; and if clients wait for a connection because all are taken, one of
\* those that have one waits for nothing.
NoWaitCycle ==
    /\ \A c \in Clients : IsBlocked(c) =>
          HolderFor(c) \in Users /\ op[HolderFor(c)].pc = "commit" /\ HolderFor(c) # c
    /\ Cardinality(Users) >= PoolMax => \E d \in Users : ~IsBlocked(d)

\* Row locks and the pool together never deadlock: a transaction locks one row,
\* and keeps its connection only as long as its one statement takes.  So the
\* waits of OperationsEnd always have somebody to end them.
THEOREM NoDeadlock == Spec => []NoWaitCycle
  <1>1. IInv => NoWaitCycle
    <2> SUFFICES ASSUME IInv PROVE NoWaitCycle
      OBVIOUS
    <2>1. ASSUME NEW c \in Clients, IsBlocked(c)
          PROVE  /\ HolderFor(c) \in Users /\ op[HolderFor(c)].pc = "commit"
                 /\ HolderFor(c) # c /\ ~IsBlocked(HolderFor(c))
      <3> DEFINE k == op[c].key
                 d == HolderFor(c)
      <3>1. lock[k] # None /\ op[c].pc = "execute"
        BY <2>1 DEF IsBlocked, MustWait
      <3>2. k \in Keys
        BY <3>1 DEF IInv, WellFormed
      <3>3. d \in Clients /\ op[d].pc = "commit"
        BY <3>1, <3>2 DEF IInv, TypeOK, HolderFor
      <3> QED
        BY <3>1, <3>3 DEF Users, HasConnection, IsBlocked
    <2>2. ASSUME Cardinality(Users) >= PoolMax PROVE \E d \in Users : ~IsBlocked(d)
      <3>1. Users # {}
        BY <2>2, PostgresAssumption, FS_EmptySet
      <3>2. PICK u \in Users : TRUE
        BY <3>1
      <3> QED
        BY <2>1, <3>2 DEF Users
    <2> QED
      BY <2>1, <2>2 DEF NoWaitCycle
  <1> QED
    BY <1>1, Invariance, PTL

-----------------------------------------------------------------------------
(* PostgresLedger implements the ledger port.                              *)

LEMMA LedgerInit == Init => Ledger!Init
  BY DEF Init, Ledger!Init, Absent, Ledger!Absent

\* A commit is a step of the port, or changes nothing.
LEMMA CommitIsLedgerStep ==
    ASSUME IInv, NEW c \in Clients, op[c].pc = "commit", table' = TableAfter(c)
    PROVE  Ledger!Next \/ table' = table
  <1> DEFINE k == op[c].key
  <1>1. CASE table[k] = Absent /\ table' = [table EXCEPT ![k] = Pending]
    BY <1>1, CommittedRow
       DEF Ledger!Next, Ledger!Reserve, Ledger!Absent, Ledger!Pending, Absent, Pending
  <1>2. ASSUME NEW p \in Payloads, table[k] \in {Absent, Pending},
               table' = [table EXCEPT ![k] = Completed(p)]
        PROVE  Ledger!Next
    <2>1. Ledger!Complete(k, p)
      BY <1>2 DEF Ledger!Complete, Ledger!Absent, Ledger!Pending, Ledger!Completed,
                  Absent, Pending, Completed
    <2> QED
      BY <2>1, CommittedRow DEF Ledger!Next
  <1> QED
    BY <1>1, <1>2, CommittedRow

LEMMA LedgerStep == IInv /\ [Next]_vars => [Ledger!Next]_table
  <1> SUFFICES ASSUME IInv, [Next]_vars PROVE Ledger!Next \/ table' = table
    OBVIOUS
  <1>1. \/ table' = table
        \/ \E c \in Clients : op[c].pc = "commit" /\ table' = TableAfter(c)
    BY DEF Next, vars, Call, Step, Acquire, Execute, Select, Insert, Upsert, Reject, Commit,
           Release, Disconnect, CommitUnacknowledged, PoolTimeout, Crash
  <1> QED
    BY <1>1, CommitIsLedgerStep

\* Transactions, lost connections, failures and retries together never do to a
\* row what the port does not allow.
THEOREM ImplementsLedger == Spec => LedgerSpec
  BY LedgerInit, LedgerStep, Invariance, PTL DEF Spec, LedgerSpec, Ledger!Spec
=============================================================================
