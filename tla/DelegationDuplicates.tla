------------------------ MODULE DelegationDuplicates ------------------------
(***************************************************************************)
(* How often the specialist can run for one key, whatever the number of    *)
(* tasks, keys, calls and faults, and when it does not run again.          *)
(***************************************************************************)
EXTENDS DelegationProofs, FiniteSetTheorems

\* Short of a fault, the state changes by a task's own steps, by a new
\* delegation, or by an answer of the specialist.
LEMMA WithoutFault ==
    ASSUME TypeOK, [Next]_vars, faults' = faults
    PROVE  \/ \E t \in Tasks : Step(t) \/ \E i \in Identities : Delegate(t, i)
           \/ \E c \in CallIds : Answer(c)
           \/ UNCHANGED vars
  <1>1. faults \in Nat
    BY DelegationAssumption DEF TypeOK
  <1>2. ~Fault
    BY <1>1 DEF Fault
  <1> QED
    BY <1>2 DEF Next, Environment, Misanswer, Refuse, Lose, Abort, Crash

\* A fault is counted.
LEMMA FaultsGrow ==
    ASSUME TypeOK, [Next]_vars
    PROVE  faults' = faults \/ faults' = faults + 1
  BY DEF Next, vars, Step, Delegate, GetCompleted, Reserve, Send, Receive, Timeout, Complete,
         Verify, Environment, Answer, Misanswer, Refuse, Lose, Abort, Crash, Fault

\* A step of one task leaves the others alone.
LEMMA OthersKeep ==
    ASSUME TypeOK, NEW t \in Tasks, NEW u \in Tasks, t # u,
           Step(t) \/ \E i \in Identities : Delegate(t, i)
    PROVE  task'[u] = task[u]
  BY DEF TypeOK, Step, GetCompleted, Reserve, Send, Receive, Timeout, Complete, Verify, Goto,
         Delegate

\* A task waits for a call that was made for its own request.
LEMMA WaitsForOwn ==
    ASSUME IInv, NEW t \in Tasks, task[t].pc = "receive"
    PROVE  /\ task[t].call \in CallIds
           /\ calls[task[t].call] \in CallType
           /\ calls[task[t].call].status # "unused"
           /\ calls[task[t].call].request = task[t].request
  <1>1. task[t].call \in CallIds
    BY DEF IInv, TypeOK, TaskType
  <1> QED
    BY <1>1 DEF IInv, TypeOK, AnswerIsHeld

-----------------------------------------------------------------------------
(* Which tasks may still call.                                             *)

\* While a task waits, its call stays good: the answer is its own, and no
\* other task takes it.
LEMMA CallStaysGood ==
    ASSUME IInv, OneWaiter, [Next]_vars, faults' = faults, NEW u \in Tasks,
           task'[u] = task[u], task[u].pc = "receive",
           CallIsGood(task[u].request, task[u].call)
    PROVE  CallIsGood(task[u].request, task[u].call)'
  <1> DEFINE d == task[u].call
  <1> USE DEF IInv
  <1>1. /\ d \in CallIds /\ calls[d] \in CallType
        /\ calls[d].status # "unused" /\ calls[d].request = task[u].request
    BY WaitsForOwn
  <1>2. CASE calls'[d] = calls[d]
    BY <1>2 DEF CallIsGood, Accepts
  <1>3. ASSUME NEW t \in Tasks, Send(t) PROVE calls'[d] = calls[d]
    BY <1>1, <1>3 DEF Send, TypeOK
  <1>4. ASSUME NEW t \in Tasks, Receive(t) PROVE calls'[d] = calls[d]
    <2>1. t # u
      <3>1. SUFFICES ASSUME t = u PROVE FALSE
        OBVIOUS
      <3>2. task'[u].pc \in {"complete", "failed"}
        BY <1>4, <3>1 DEF Receive, Goto, TypeOK, TaskType
      <3> QED
        BY <3>2
    <2>2. task[t].call # d
      BY <1>4, <2>1 DEF OneWaiter, Receive
    <2> QED
      BY <1>1, <1>4, <2>2 DEF Receive, TypeOK
  <1>5. ASSUME NEW c \in CallIds, Answer(c), c # d PROVE calls'[d] = calls[d]
    BY <1>1, <1>5 DEF Answer, TypeOK
  <1>6. CASE Answer(d)
    <2>1. PICK s \in Summaries :
            calls'[d] = [calls[d] EXCEPT !.status = "answered",
                            !.response = [identity |-> calls[d].request, summary |-> s]]
      BY <1>1, <1>6 DEF Answer, TypeOK
    <2>2. calls'[d].status = "answered" /\ calls'[d].response.identity = calls[d].request
      BY <1>1, <2>1 DEF CallType
    <2> QED
      BY <1>1, <2>2 DEF CallIsGood, Accepts
  <1> QED
    BY <1>1, <1>2, <1>3, <1>4, <1>5, <1>6, WithoutFault
    DEF vars, Step, Delegate, GetCompleted, Reserve, Timeout, Complete, Verify

\* A task that is spent stays so until its key is completed.
LEMMA StaysSpent ==
    ASSUME IInv, OneWaiter, [Next]_vars, faults' = faults, NEW u \in Tasks, NEW k \in Keys,
           IsSpent(u, k)
    PROVE  /\ task'[u].pc \notin {"reserve", "send"}
           /\ ~IsCompleted(ledger'[k]) => IsSpent(u, k)'
  <1> USE DEF IInv
  <1>1. KeyOfTask(u) = k /\ task[u] \in TaskType
    BY DEF IsSpent, TypeOK
  <1>2. CASE task'[u] = task[u]
    BY <1>2, CallStaysGood DEF IsSpent, KeyOfTask
  <1>3. CASE Receive(u)
    <2>1. Accepts(task[u].request, task[u].call)
      BY <1>3 DEF IsSpent, CallIsGood, Receive
    <2>2. task'[u] = [task[u] EXCEPT !.pc = "complete", !.response = calls[task[u].call].response]
      BY <1>3, <2>1 DEF Receive, TypeOK
    <2>3. task'[u].pc = "complete" /\ task'[u].request = task[u].request
      BY <1>1, <2>2 DEF TaskType
    <2> QED
      BY <1>1, <2>3 DEF IsSpent, KeyOfTask
  <1>4. CASE Complete(u)
    <2>1. IsCompleted(ledger'[k])
      BY <1>1, <1>4 DEF Complete, Promoted, IsCompleted, Completed, TypeOK
    <2>2. task'[u].pc = "verify"
      BY <1>1, <1>4 DEF Complete, Goto, TypeOK, TaskType
    <2> QED
      BY <2>1, <2>2
  <1>5. ~Timeout(u)
    BY DEF Timeout, IsSpent, CallIsGood, Accepts
  <1>6. \A i \in Identities : ~Delegate(u, i)
    BY DEF Delegate, IsSpent, IsRunning, Running
  <1>7. ~GetCompleted(u) /\ ~Reserve(u) /\ ~Send(u) /\ ~Verify(u)
    BY DEF GetCompleted, Reserve, Send, Verify, IsSpent
  <1>8. (\E c \in CallIds : Answer(c)) \/ UNCHANGED vars => task'[u] = task[u]
    BY DEF Answer, vars
  <1> QED
    BY <1>2, <1>3, <1>4, <1>5, <1>6, <1>7, <1>8, WithoutFault, OthersKeep DEF Step

\* A task gets poised on a key only while the key has no result.
LEMMA StaysUnpoised ==
    ASSUME IInv, [Next]_vars, faults' = faults, NEW u \in Tasks, NEW k \in Keys,
           IsCompleted(ledger[k]), IsPoised(u, k)'
    PROVE  IsPoised(u, k)
  <1> USE DEF IInv
  <1>1. task[u] \in TaskType
    BY DEF TypeOK
  <1>2. CASE task'[u] = task[u]
    BY <1>2 DEF IsPoised, KeyOfTask
  <1>3. CASE GetCompleted(u)
    <2>1. task'[u].pc = "reserve" /\ task'[u].request = task[u].request
      BY <1>1, <1>3 DEF GetCompleted, Goto, TypeOK, TaskType, IsPoised
    <2>2. KeyOfTask(u) = k
      BY <2>1 DEF IsPoised, KeyOfTask
    <2>3. task'[u].pc = "done"
      BY <1>1, <1>3, <2>2 DEF GetCompleted, TypeOK, TaskType
    <2> QED
      BY <2>1, <2>3
  <1>4. CASE Reserve(u)
    <2>1. task'[u].request = task[u].request
      BY <1>1, <1>4 DEF Reserve, Goto, TypeOK, TaskType
    <2> QED
      BY <1>4, <2>1 DEF Reserve, IsPoised, KeyOfTask
  <1>5. CASE Send(u) \/ Receive(u) \/ Timeout(u) \/ Complete(u) \/ Verify(u)
    <2>1. task'[u].pc \notin {"reserve", "send"}
      BY <1>1, <1>5 DEF Send, Receive, Timeout, Complete, Verify, Goto, TypeOK, TaskType
    <2> QED
      BY <2>1 DEF IsPoised
  <1>6. CASE \E i \in Identities : Delegate(u, i)
    BY <1>1, <1>6 DEF Delegate, Activation, IsPoised, TypeOK
  <1>7. (\E c \in CallIds : Answer(c)) \/ UNCHANGED vars => task'[u] = task[u]
    BY DEF Answer, vars
  <1> QED
    BY <1>2, <1>3, <1>4, <1>5, <1>6, <1>7, WithoutFault, OthersKeep DEF Step

\* Short of a fault, no task becomes able to call again.
LEMMA MaySendShrinks ==
    ASSUME IInv, OneWaiter, [Next]_vars, faults' = faults, NEW k \in Keys
    PROVE  MaySend(k)' \subseteq MaySend(k)
  <1> SUFFICES ASSUME NEW u \in Tasks, u \in MaySend(k)' PROVE u \in MaySend(k)
    BY DEF MaySend
  <1>1. CASE IsCompleted(ledger[k])
    <2>1. IsCompleted(ledger'[k])
      BY <1>1, LedgerGrows DEF IInv
    <2>2. IsPoised(u, k)'
      BY <2>1 DEF MaySend
    <2> QED
      BY <1>1, <2>2, StaysUnpoised DEF MaySend
  <1>2. CASE ~IsCompleted(ledger[k])
    <2>1. SUFFICES ASSUME IsSpent(u, k) PROVE FALSE
      BY <1>2 DEF MaySend
    <2>2. CASE IsCompleted(ledger'[k])
      BY <2>1, <2>2, StaysSpent DEF MaySend, IsPoised
    <2>3. CASE ~IsCompleted(ledger'[k])
      BY <2>1, <2>3, StaysSpent DEF MaySend
    <2> QED
      BY <2>2, <2>3
  <1> QED
    BY <1>1, <1>2

-----------------------------------------------------------------------------
(* Counting.                                                               *)

\* Only Send makes a call.
LEMMA CallsOfKeep ==
    ASSUME TypeOK, [Next]_vars, \A t \in Tasks : ~Send(t), NEW k \in Keys
    PROVE  CallsOf(k)' = CallsOf(k)
  <1>1. ASSUME NEW c \in CallIds, calls[c].status = "unused"
        PROVE  calls'[c].status = "unused"
    <2>1. CASE calls' = calls
      BY <1>1, <2>1
    <2>2. ASSUME NEW t \in Tasks, Receive(t) PROVE calls'[c].status = "unused"
      BY <1>1, <2>2 DEF Receive, TypeOK
    <2>3. ASSUME NEW d \in CallIds, Environment(d) PROVE calls'[c].status = "unused"
      <3>1. d # c
        BY <1>1, <2>3 DEF Environment, Answer, Misanswer, Refuse, Lose
      <3> QED
        BY <1>1, <2>3, <3>1 DEF Environment, Answer, Misanswer, Refuse, Lose, TypeOK
    <2> QED
      BY <2>1, <2>2, <2>3
      DEF Next, vars, Step, Delegate, GetCompleted, Reserve, Timeout, Complete, Verify, Abort,
          Crash
  <1>2. \A c \in CallIds : calls[c].status # "unused" =>
            calls'[c].status # "unused" /\ calls'[c].request = calls[c].request
    BY CallsGrow
  <1> QED
    BY <1>1, <1>2 DEF CallsOf

\* The sets that are counted are finite.
LEMMA Counts ==
    ASSUME IsFiniteSet(Tasks), NEW k \in Keys
    PROVE  /\ IsFiniteSet(CallsOf(k)) /\ Cardinality(CallsOf(k)) \in Nat
           /\ IsFiniteSet(CallsOf(k)') /\ Cardinality(CallsOf(k)') \in Nat
           /\ IsFiniteSet(MaySend(k)) /\ Cardinality(MaySend(k)) \in Nat
           /\ IsFiniteSet(MaySend(k)') /\ Cardinality(MaySend(k)') \in Nat
           /\ Cardinality(MaySend(k)') <= Cardinality(Tasks)
           /\ Cardinality(Tasks) \in Nat
  <1>1. IsFiniteSet(CallIds)
    BY DelegationAssumption, FS_Interval DEF CallIds
  <1>2. CallsOf(k) \in SUBSET CallIds /\ CallsOf(k)' \in SUBSET CallIds
    BY DEF CallsOf
  <1>3. MaySend(k) \in SUBSET Tasks /\ MaySend(k)' \in SUBSET Tasks
    BY DEF MaySend
  <1>4. /\ IsFiniteSet(CallsOf(k)) /\ IsFiniteSet(CallsOf(k)')
        /\ IsFiniteSet(MaySend(k)) /\ IsFiniteSet(MaySend(k)')
        /\ Cardinality(MaySend(k)') <= Cardinality(Tasks)
    BY <1>1, <1>2, <1>3, FS_Subset
  <1> QED
    BY <1>4, FS_CardinalityType

\* A call uses up the task that makes it.
LEMMA SendSpends ==
    ASSUME IInv, OneWaiter, NEW t \in Tasks, Send(t), NEW k \in Keys, IsFiniteSet(Tasks)
    PROVE  Cardinality(CallsOf(k)') + Cardinality(MaySend(k)')
                <= Cardinality(CallsOf(k)) + Cardinality(MaySend(k))
  <1> USE DEF IInv
  <1>0. [Next]_vars /\ faults' = faults /\ ledger' = ledger
    BY DEF Next, Step, Send
  <1>1. PICK c \in CallIds :
            /\ calls[c].status = "unused"
            /\ calls' = [calls EXCEPT ![c] = Sent(task[t].request)]
            /\ task' = [task EXCEPT ![t].pc = "receive", ![t].call = c]
    BY DEF Send
  <1>2. task[t].pc = "send" /\ task[t] \in TaskType
    BY DEF Send, TypeOK
  <1>3. /\ task'[t].pc = "receive" /\ task'[t].call = c
        /\ task'[t].request = task[t].request
    BY <1>1, <1>2 DEF TypeOK, TaskType
  <1>4. calls'[c] = Sent(task[t].request)
    BY <1>1 DEF TypeOK
  <1>5. \A d \in CallIds \ {c} : calls'[d] = calls[d]
    BY <1>1 DEF TypeOK
  <1>6. MaySend(k)' \subseteq MaySend(k)
    BY <1>0, MaySendShrinks
  <1>7. CASE KeyOfTask(t) = k
    <2>1. CallsOf(k)' = CallsOf(k) \cup {c} /\ c \notin CallsOf(k)
      <3>1. c \in CallsOf(k)'
        BY <1>4, <1>7 DEF CallsOf, Sent, KeyOfTask
      <3> QED
        BY <1>1, <1>5, <3>1 DEF CallsOf
    <2>2. t \in MaySend(k)
      BY <1>2, <1>7 DEF MaySend, IsPoised, IsSpent
    <2>3. t \notin MaySend(k)'
      <3>1. IsSpent(t, k)'
        BY <1>3, <1>4, <1>7 DEF IsSpent, KeyOfTask, CallIsGood, Sent
      <3>2. ~IsPoised(t, k)'
        BY <1>3 DEF IsPoised
      <3> QED
        BY <3>1, <3>2 DEF MaySend
    <2>4. MaySend(k)' \in SUBSET (MaySend(k) \ {t})
      BY <1>6, <2>3
    <2>5. Cardinality(CallsOf(k)') = Cardinality(CallsOf(k)) + 1
      BY <2>1, Counts, FS_AddElement
    <2>6. /\ IsFiniteSet(MaySend(k) \ {t})
          /\ Cardinality(MaySend(k) \ {t}) = Cardinality(MaySend(k)) - 1
      BY <2>2, Counts, FS_RemoveElement
    <2>7. Cardinality(MaySend(k)') <= Cardinality(MaySend(k)) - 1
      BY <2>4, <2>6, FS_Subset
    <2> QED
      BY <2>5, <2>7, Counts
  <1>8. CASE KeyOfTask(t) # k
    <2>1. c \notin CallsOf(k)' /\ c \notin CallsOf(k)
      BY <1>1, <1>4, <1>8 DEF CallsOf, Sent, KeyOfTask
    <2>2. CallsOf(k)' = CallsOf(k)
      BY <1>5, <2>1 DEF CallsOf
    <2>3. Cardinality(MaySend(k)') <= Cardinality(MaySend(k))
      BY <1>6, Counts, FS_Subset
    <2> QED
      BY <2>2, <2>3, Counts
  <1> QED
    BY <1>7, <1>8

\* A call gets its waiter when it is made, and no other.
LEMMA StepOneWaiter ==
    ASSUME IInv, OneWaiter, [Next]_vars
    PROVE  OneWaiter'
  <1> USE DEF IInv
  <1>1. ASSUME NEW t \in Tasks, task'[t].pc = "receive", \A v \in Tasks : ~Send(v)
        PROVE  task'[t] = task[t]
    <2>1. CASE Step(t)
      BY <1>1, <2>1 DEF Step, GetCompleted, Reserve, Receive, Timeout, Complete, Verify, Goto,
                        TypeOK, TaskType
    <2>2. CASE \E i \in Identities : Delegate(t, i)
      BY <1>1, <2>2 DEF Delegate, Activation, TypeOK
    <2>3. task'[t] # [task[t] EXCEPT !.pc = "failed"]
      BY <1>1 DEF TypeOK, TaskType
    <2> QED
      BY <2>1, <2>2, <2>3, TaskChanges
  <1>2. CASE \A v \in Tasks : ~Send(v)
    BY <1>1, <1>2 DEF OneWaiter
  <1>3. ASSUME NEW v \in Tasks, Send(v) PROVE OneWaiter'
    <2>1. PICK c \in CallIds :
            /\ calls[c].status = "unused"
            /\ task' = [task EXCEPT ![v].pc = "receive", ![v].call = c]
      BY <1>3 DEF Send
    <2>2. task'[v].call = c
      BY <2>1 DEF TypeOK, TaskType
    <2>3. ASSUME NEW t \in Tasks, t # v, task'[t].pc = "receive"
          PROVE  task'[t] = task[t] /\ task[t].call # c
      <3>1. task'[t] = task[t]
        BY <2>1, <2>3 DEF TypeOK
      <3> QED
        BY <2>1, <2>3, <3>1, WaitsForOwn
    <2> QED
      BY <2>2, <2>3 DEF OneWaiter
  <1> QED
    BY <1>2, <1>3

-----------------------------------------------------------------------------
(* The theorem.                                                            *)

\* At the start every task may send, once.
LEMMA InitBudget == ASSUME IsFiniteSet(Tasks) PROVE Init => BudgetInv
  <1> SUFFICES ASSUME Init PROVE BudgetInv
    OBVIOUS
  <1>1. OneWaiter
    BY DEF Init, OneWaiter, Activation
  <1>2. ASSUME NEW k \in Keys
        PROVE  Cardinality(CallsOf(k)) + Cardinality(MaySend(k)) <= Cardinality(Tasks) * (1 + faults)
    <2>1. CallsOf(k) = {}
      BY DEF Init, CallsOf
    <2>2. MaySend(k) \in SUBSET Tasks
      BY DEF MaySend
    <2>3. /\ Cardinality(MaySend(k)) <= Cardinality(Tasks)
          /\ Cardinality(MaySend(k)) \in Nat /\ Cardinality(Tasks) \in Nat
      BY <2>2, FS_Subset, FS_CardinalityType
    <2>4. Cardinality(CallsOf(k)) = 0 /\ faults = 0
      BY <2>1, FS_EmptySet DEF Init
    <2> QED
      BY <2>3, <2>4
  <1> QED
    BY <1>1, <1>2 DEF BudgetInv

\* A fault gives every task another call; no other step gives any.
LEMMA StepBudget ==
    ASSUME IsFiniteSet(Tasks), IInv, BudgetInv, [Next]_vars
    PROVE  BudgetInv'
  <1>1. TypeOK /\ OneWaiter /\ faults \in Nat
    BY DelegationAssumption DEF IInv, BudgetInv, TypeOK
  <1>2. ASSUME NEW k \in Keys
        PROVE  Cardinality(CallsOf(k)') + Cardinality(MaySend(k)')
                    <= Cardinality(Tasks) * (1 + faults')
    <2> DEFINE N == Cardinality(Tasks)
               C == Cardinality(CallsOf(k))
               M == Cardinality(MaySend(k))
               D == Cardinality(CallsOf(k)')
               L == Cardinality(MaySend(k)')
    <2> SUFFICES D + L <= N * (1 + faults')
      OBVIOUS
    <2>1. C + M <= N * (1 + faults)
      BY DEF BudgetInv
    <2>2. N \in Nat /\ C \in Nat /\ M \in Nat /\ D \in Nat /\ L \in Nat /\ L <= N
      BY Counts
    <2>3. ASSUME NEW t \in Tasks, Send(t) PROVE D + L <= N * (1 + faults')
      <3>1. D + L <= C + M /\ faults' = faults
        BY <1>1, <2>3, SendSpends DEF Send
      <3> HIDE DEF N, C, M, D, L
      <3> QED
        BY <1>1, <2>1, <2>2, <3>1
    <2>4. CASE faults' = faults /\ \A t \in Tasks : ~Send(t)
      <3>1. D = C
        BY <1>1, <2>4, CallsOfKeep
      <3>2. L <= M
        BY <1>1, <2>4, MaySendShrinks, Counts, FS_Subset
      <3> HIDE DEF N, C, M, D, L
      <3> QED
        BY <1>1, <2>1, <2>2, <2>4, <3>1, <3>2
    <2>5. CASE faults' = faults + 1 /\ \A t \in Tasks : ~Send(t)
      <3>1. D = C
        BY <1>1, <2>5, CallsOfKeep
      <3> HIDE DEF N, C, M, D, L
      <3>2. N * (1 + faults') = N * (1 + faults) + N
        BY <1>1, <2>2, <2>5
      <3> QED
        BY <1>1, <2>1, <2>2, <3>1, <3>2
    <2> QED
      BY <1>1, <2>3, <2>4, <2>5, FaultsGrow
  <1> QED
    BY <1>1, <1>2, StepOneWaiter DEF BudgetInv

\* For any finite number of tasks, the calls with a key and the tasks that may
\* still call with it are within what the faults so far account for: a crash, an
\* abort, a refused, lost or wrong answer lets each task call once more, and
\* nothing else lets any.
THEOREM BudgetIsKept ==
    ASSUME IsFiniteSet(Tasks)
    PROVE  Spec => []BudgetInv
  <1>1. Init => BudgetInv
    BY InitBudget
  <1>2. IInv /\ BudgetInv /\ [Next]_vars => BudgetInv'
    BY StepBudget
  <1> QED
    BY <1>1, <1>2, Invariance, PTL DEF Spec

\* For any finite number of tasks the specialist runs at most once per task
\* and key, plus once per task for every fault.
THEOREM DuplicatesAreBounded ==
    ASSUME IsFiniteSet(Tasks)
    PROVE  Spec => []BoundedDuplicates
  <1>1. BudgetInv /\ IInv => BoundedDuplicates
    <2> SUFFICES ASSUME BudgetInv, IInv, NEW k \in Keys
                 PROVE  Cardinality(CallsOf(k)) <= Cardinality(Tasks) * (1 + faults)
      BY DEF BoundedDuplicates
    <2>1. /\ Cardinality(CallsOf(k)) + Cardinality(MaySend(k)) <= Cardinality(Tasks) * (1 + faults)
          /\ faults \in Nat
      BY DelegationAssumption DEF BudgetInv, IInv, TypeOK
    <2> QED
      BY <2>1, Counts
  <1> QED
    BY <1>1, BudgetIsKept, Invariance, PTL

-----------------------------------------------------------------------------
(* Callers that retry a key only once its last delegation has ended.       *)

\* No two delegations of a key run at the same time.
OneAtATime ==
    \A t, u \in Tasks :
        IsRunning(t) /\ IsRunning(u) /\ KeyOfTask(t) = KeyOfTask(u) => t = u

\* A delegation on its way to a result has found none, and what it has stored
\* is its own.
NobodyWasFaster ==
    \A t \in Tasks :
        /\ task[t].pc \in {"reserve", "send", "receive", "complete"}
              => ~IsCompleted(ledger[KeyOfTask(t)])
        /\ task[t].pc = "verify" => ledger[KeyOfTask(t)] = Completed(task[t].response)

\* Only the delegation of a key writes its row.
LEMMA OthersKeepRow ==
    ASSUME TypeOK, OneAtATime, [Next]_vars, NEW t \in Tasks, IsRunning(t),
           task'[t] = task[t]
    PROVE  ledger'[KeyOfTask(t)] = ledger[KeyOfTask(t)]
  <1>1. KeyOfTask(t) \in Keys /\ ledger \in [Keys -> RowType]
    BY KeyOfTaskType DEF TypeOK, IsRunning, Running
  <1>2. ASSUME NEW u \in Tasks, Reserve(u) \/ Complete(u)
        PROVE  KeyOfTask(u) # KeyOfTask(t)
    <2>1. IsRunning(u)
      BY <1>2 DEF Reserve, Complete, IsRunning, Running
    <2>2. task'[u].pc # task[u].pc
      BY <1>2 DEF Reserve, Complete, Goto, TypeOK, TaskType
    <2> QED
      BY <2>1, <2>2 DEF OneAtATime
  <1>3. ASSUME NEW u \in Tasks, Reserve(u) \/ Complete(u)
        PROVE  ledger'[KeyOfTask(t)] = ledger[KeyOfTask(t)]
    BY <1>1, <1>2, <1>3 DEF Reserve, Complete
  <1> QED
    BY <1>3
    DEF Next, vars, Step, Delegate, GetCompleted, Send, Receive, Timeout, Verify,
        Environment, Answer, Misanswer, Refuse, Lose, Abort, Crash

LEMMA StepNobodyWasFaster ==
    ASSUME IInv, OneAtATime, NobodyWasFaster, [Next]_vars
    PROVE  NobodyWasFaster'
  <1> USE DEF IInv
  <1> SUFFICES ASSUME NEW t \in Tasks
               PROVE  /\ task'[t].pc \in {"reserve", "send", "receive", "complete"}
                            => ~IsCompleted(ledger'[KeyOfTask(t)'])
                      /\ task'[t].pc = "verify"
                            => ledger'[KeyOfTask(t)'] = Completed(task'[t].response)
    BY DEF NobodyWasFaster
  <1>1. task[t] \in TaskType /\ task \in [Tasks -> TaskType] /\ ledger \in [Keys -> RowType]
    BY DEF TypeOK
  <1>2. CASE task'[t] = task[t]
    <2>1. IsRunning(t) => ledger'[KeyOfTask(t)] = ledger[KeyOfTask(t)]
      BY <1>2, OthersKeepRow
    <2> QED
      BY <1>2, <2>1 DEF NobodyWasFaster, IsRunning, Running, KeyOfTask
  <1>3. CASE GetCompleted(t)
    BY <1>1, <1>3 DEF GetCompleted, Goto, KeyOfTask, TaskType
  <1>4. CASE Reserve(t)
    <2>1. KeyOfTask(t) \in Keys
      BY <1>4, KeyOfTaskType DEF Reserve
    <2>2. ~IsCompleted(ledger[KeyOfTask(t)])
      BY <1>4 DEF NobodyWasFaster, Reserve
    <2>3. ledger'[KeyOfTask(t)] = Reserved(ledger[KeyOfTask(t)])
      BY <1>1, <1>4, <2>1 DEF Reserve
    <2>4. ~IsCompleted(ledger'[KeyOfTask(t)])
      BY <2>2, <2>3 DEF Reserved, IsCompleted, Pending
    <2> QED
      BY <1>1, <1>4, <2>4 DEF Reserve, Goto, KeyOfTask, TaskType
  <1>5. CASE Send(t)
    <2>1. /\ task'[t].pc = "receive" /\ task'[t].request = task[t].request
          /\ ledger' = ledger /\ task[t].pc = "send"
      BY <1>1, <1>5 DEF Send, TaskType
    <2> QED
      BY <2>1 DEF NobodyWasFaster, KeyOfTask
  <1>6. CASE Receive(t)
    <2>1. /\ task'[t].pc \in {"complete", "failed"} /\ task'[t].request = task[t].request
          /\ ledger' = ledger /\ task[t].pc = "receive"
      BY <1>1, <1>6 DEF Receive, Goto, TaskType
    <2> QED
      BY <2>1 DEF NobodyWasFaster, KeyOfTask
  <1>7. CASE Complete(t)
    <2>1. KeyOfTask(t) \in Keys
      BY <1>7, KeyOfTaskType DEF Complete
    <2>2. ledger'[KeyOfTask(t)] = Completed(task[t].response)
      BY <1>1, <1>7, <2>1 DEF Complete, Promoted, NobodyWasFaster
    <2>3. /\ task'[t].pc = "verify" /\ task'[t].request = task[t].request
          /\ task'[t].response = task[t].response
      BY <1>1, <1>7 DEF Complete, Goto, TaskType
    <2> QED
      BY <2>2, <2>3 DEF KeyOfTask
  <1>8. ASSUME Timeout(t) \/ Verify(t) \/ task'[t] = [task[t] EXCEPT !.pc = "failed"]
        PROVE  task'[t].pc \in {"done", "failed"}
    BY <1>1, <1>8 DEF Timeout, Verify, Goto, TaskType
  <1>9. ASSUME NEW i \in Identities, Delegate(t, i) PROVE task'[t].pc = "get_completed"
    BY <1>1, <1>9 DEF Delegate, Activation
  <1> QED
    BY <1>2, <1>3, <1>4, <1>5, <1>6, <1>7, <1>8, <1>9, TaskChanges DEF Step

\* Once a key is completed nobody calls the specialist for it, and what is
\* stored is confirmed.
CompletedKeysAreQuiet ==
    /\ \A k \in Keys : IsCompleted(ledger[k]) => CallsOf(k)' = CallsOf(k)
    /\ \A t \in Tasks : Verify(t) => task'[t].pc = "done"

\* README, "A crash after the specialist responds can be retried without
\* invoking that specialist twice": that holds as soon as the response is
\* recorded, for callers that let one delegation of a key end before the next.
\* They never see their result refused for somebody else's either.
THEOREM RecordedIsFinal == Spec /\ []OneAtATime => [][CompletedKeysAreQuiet]_vars
  <1>1. Init => NobodyWasFaster
    BY DEF Init, Activation, NobodyWasFaster
  <1>2. IInv /\ OneAtATime /\ NobodyWasFaster /\ [Next]_vars => NobodyWasFaster'
    BY StepNobodyWasFaster
  <1>3. IInv /\ NobodyWasFaster /\ [Next]_vars => [CompletedKeysAreQuiet]_vars
    <2> SUFFICES ASSUME IInv, NobodyWasFaster, [Next]_vars
                 PROVE  CompletedKeysAreQuiet
      OBVIOUS
    <2>1. ASSUME NEW k \in Keys, IsCompleted(ledger[k]) PROVE CallsOf(k)' = CallsOf(k)
      <3>1. CASE \A t \in Tasks : ~Send(t)
        BY <3>1, CallsOfKeep DEF IInv
      <3>2. ASSUME NEW t \in Tasks, Send(t) PROVE CallsOf(k)' = CallsOf(k)
        <4>1. KeyOfTask(t) # k
          BY <2>1, <3>2 DEF Send, NobodyWasFaster
        <4>2. PICK c \in CallIds :
                calls[c].status = "unused" /\ calls' = [calls EXCEPT ![c] = Sent(task[t].request)]
          BY <3>2 DEF Send
        <4>3. ASSUME NEW d \in CallIds PROVE d \in CallsOf(k)' <=> d \in CallsOf(k)
          BY <4>1, <4>2 DEF CallsOf, IInv, TypeOK, Sent, KeyOfTask
        <4> QED
          BY <4>3 DEF CallsOf
      <3> QED
        BY <3>1, <3>2
    <2>2. ASSUME NEW t \in Tasks, Verify(t) PROVE task'[t].pc = "done"
      <3>1. Confirmed(ledger[KeyOfTask(t)], task[t].response)
        <4>1. ledger[KeyOfTask(t)] = Completed(task[t].response)
          BY <2>2 DEF Verify, NobodyWasFaster
        <4> QED
          BY <4>1 DEF Confirmed, IsCompleted, Completed
      <3> QED
        BY <2>2, <3>1 DEF Verify, Goto, IInv, TypeOK, TaskType
    <2> QED
      BY <2>1, <2>2 DEF CompletedKeysAreQuiet
  <1> QED
    BY <1>1, <1>2, <1>3, Invariance, PTL DEF Spec
=============================================================================
