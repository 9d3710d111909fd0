-------------------------- MODULE DelegationProofs --------------------------
(***************************************************************************)
(* Theorems about Delegation for any number of tasks, identities, keys and *)
(* calls, and for any assignment of keys to identities.                    *)
(***************************************************************************)
EXTENDS Delegation, TLAPS

-----------------------------------------------------------------------------
(* Type correctness.                                                       *)

\* The rows of the table have the durable shapes, whatever is written to them.
LEMMA RowOperations ==
    ASSUME NEW row \in RowType, NEW r \in Response
    PROVE  /\ Reserved(row) \in RowType
           /\ Promoted(row, r) \in RowType
  BY DEF RowType, Reserved, Promoted

\* A completed row holds a response and nothing else.
LEMMA RowShape ==
    ASSUME NEW row \in RowType, IsCompleted(row)
    PROVE  row.payload \in Response /\ row = Completed(row.payload)
  BY DEF RowType, IsCompleted, Completed, Absent, Pending

\* The state is well typed at the start.
LEMMA InitTypeOK == Init => TypeOK
  BY DelegationAssumption
  DEF Init, TypeOK, RowType, CallType, TaskType, Activation, Running, Absent, Pending

\* The key of a task that has a request is a key.
LEMMA KeyOfTaskType ==
    ASSUME TypeOK, NEW t \in Tasks, task[t].pc # "idle"
    PROVE  task[t].request \in Identities /\ KeyOfTask(t) \in Keys
  BY DelegationAssumption DEF TypeOK, TaskType, KeyOfTask

\* Moving the program counter keeps an activation well formed.
LEMMA GotoType ==
    ASSUME TypeOK, NEW t \in Tasks, NEW pc \in Running \cup {"done", "failed"},
           task[t].pc # "idle",
           pc = "receive" => task[t].call \in CallIds,
           pc \in {"complete", "verify", "done"} => task[t].response \in Response,
           Goto(t, pc)
    PROVE  task' \in [Tasks -> TaskType]
  <1>1. task[t] \in TaskType /\ task[t].request \in Identities
    BY KeyOfTaskType DEF TypeOK
  <1>2. [task[t] EXCEPT !.pc = pc] \in TaskType
    BY <1>1 DEF TaskType
  <1> QED
    BY <1>2 DEF TypeOK, Goto

\* Every step of Delegation keeps the state well typed.
LEMMA StepTypeOK == TypeOK /\ [Next]_vars => TypeOK'
  <1> SUFFICES ASSUME TypeOK, [Next]_vars PROVE TypeOK'
    OBVIOUS
  <1> USE DelegationAssumption
  <1>1. ASSUME NEW t \in Tasks, NEW i \in Identities, Delegate(t, i) PROVE TypeOK'
    <2>1. Activation("get_completed", i) \in TaskType
      BY DEF Activation, TaskType, Running
    <2> QED
      BY <1>1, <2>1 DEF TypeOK, Delegate
  <1>2. ASSUME NEW t \in Tasks, GetCompleted(t) PROVE TypeOK'
    <2>1. KeyOfTask(t) \in Keys /\ task[t].request \in Identities
      BY <1>2, KeyOfTaskType DEF GetCompleted
    <2>2. CASE Goto(t, "reserve")
      <3>1. task' \in [Tasks -> TaskType]
        BY <1>2, <2>2, GotoType DEF GetCompleted, Running
      <3> QED
        BY <1>2, <3>1 DEF TypeOK, GetCompleted
    <2>3. CASE IsCompleted(ledger[KeyOfTask(t)]) /\ ~Goto(t, "reserve")
      <3> DEFINE r == ledger[KeyOfTask(t)].payload
      <3>1. r \in Response
        BY <2>1, <2>3, RowShape DEF TypeOK
      <3>2. task[t] \in TaskType
        BY DEF TypeOK
      <3>3. [task[t] EXCEPT !.pc = "done", !.reused = TRUE, !.response = r] \in TaskType
        BY <2>1, <3>1, <3>2 DEF TaskType
      <3> QED
        BY <1>2, <2>3, <3>3 DEF TypeOK, GetCompleted
    <2> QED
      BY <1>2, <2>2, <2>3 DEF GetCompleted
  <1>3. ASSUME NEW t \in Tasks, Reserve(t) PROVE TypeOK'
    <2>1. KeyOfTask(t) \in Keys
      BY <1>3, KeyOfTaskType DEF Reserve
    <2>2. ledger' \in [Keys -> RowType]
      BY <1>3, <2>1 DEF TypeOK, Reserve, Reserved, RowType
    <2>3. task' \in [Tasks -> TaskType]
      BY <1>3, GotoType DEF Reserve, Running
    <2> QED
      BY <1>3, <2>2, <2>3 DEF TypeOK, Reserve
  <1>4. ASSUME NEW t \in Tasks, Send(t) PROVE TypeOK'
    <2>1. PICK c \in CallIds :
            /\ calls' = [calls EXCEPT ![c] = Sent(task[t].request)]
            /\ task' = [task EXCEPT ![t].pc = "receive", ![t].call = c]
      BY <1>4 DEF Send
    <2>2. task[t].request \in Identities /\ task[t] \in TaskType
      BY <1>4, KeyOfTaskType DEF Send, TypeOK
    <2>3. Sent(task[t].request) \in CallType
      BY <2>2 DEF Sent, CallType
    <2>4. [task[t] EXCEPT !.pc = "receive", !.call = c] \in TaskType
      BY <2>2 DEF TaskType, Running
    <2> QED
      BY <1>4, <2>1, <2>3, <2>4 DEF TypeOK, Send
  <1>5. ASSUME NEW t \in Tasks, Receive(t) PROVE TypeOK'
    <2> DEFINE c == task[t].call
    <2>1. task[t].request \in Identities /\ task[t] \in TaskType /\ c \in CallIds
      BY <1>5, KeyOfTaskType DEF Receive, TypeOK, TaskType
    <2>2. calls[c] \in CallType /\ calls[c].status # "unused"
      BY <1>5, <2>1 DEF Receive, TypeOK
    <2>3. [calls[c] EXCEPT !.status = "received"] \in CallType
      BY <2>2 DEF CallType
    <2>4. calls' \in [CallIds -> CallType]
      BY <1>5, <2>1, <2>3 DEF Receive, TypeOK
    <2>5. task' \in [Tasks -> TaskType]
      <3>1. CASE Goto(t, "failed")
        BY <1>5, <3>1, GotoType DEF Receive
      <3>2. CASE Accepts(task[t].request, c) /\ ~Goto(t, "failed")
        <4>1. calls[c].response \in Response
          BY <2>2, <3>2 DEF Accepts, CallType
        <4>2. [task[t] EXCEPT !.pc = "complete", !.response = calls[c].response] \in TaskType
          BY <2>1, <4>1 DEF TaskType, Running
        <4> QED
          BY <1>5, <3>2, <4>2 DEF Receive, TypeOK
      <3> QED
        BY <1>5, <3>1, <3>2 DEF Receive
    <2> QED
      BY <1>5, <2>4, <2>5 DEF Receive, TypeOK
  <1>6. ASSUME NEW t \in Tasks, Timeout(t) \/ Abort(t) PROVE TypeOK'
    <2>1. task' \in [Tasks -> TaskType]
      BY <1>6, GotoType DEF Timeout, Abort, IsRunning, Running
    <2> QED
      BY <1>6, <2>1 DEF TypeOK, Timeout, Abort, Fault
  <1>7. ASSUME NEW t \in Tasks, Complete(t) PROVE TypeOK'
    <2>1. KeyOfTask(t) \in Keys /\ task[t].response \in Response
      BY <1>7, KeyOfTaskType DEF Complete, TypeOK, TaskType
    <2>2. Promoted(ledger[KeyOfTask(t)], task[t].response) \in RowType
      BY <2>1, RowOperations DEF TypeOK
    <2>3. task' \in [Tasks -> TaskType]
      BY <1>7, <2>1, GotoType DEF Complete, Running
    <2> QED
      BY <1>7, <2>2, <2>3 DEF TypeOK, Complete
  <1>8. ASSUME NEW t \in Tasks, Verify(t) PROVE TypeOK'
    <2>1. task[t].response \in Response
      BY <1>8 DEF Verify, TypeOK, TaskType
    <2>2. task' \in [Tasks -> TaskType]
      BY <1>8, <2>1, GotoType DEF Verify
    <2> QED
      BY <1>8, <2>2 DEF TypeOK, Verify
  <1>9. ASSUME NEW c \in CallIds, Environment(c) PROVE TypeOK'
    <2>1. calls[c] \in CallType
      BY DEF TypeOK
    <2>2. calls' \in [CallIds -> CallType]
      <3>1. CASE Answer(c) \/ Misanswer(c)
        <4>1. PICK r \in Response :
                calls' = [calls EXCEPT ![c].status = "answered", ![c].response = r]
          <5>1. CASE Answer(c)
            BY <2>1, <5>1 DEF Answer, Response, CallType
          <5>2. CASE Misanswer(c)
            BY <5>2 DEF Misanswer, Response
          <5> QED
            BY <3>1, <5>1, <5>2
        <4>2. [calls[c] EXCEPT !.status = "answered", !.response = r] \in CallType
          BY <2>1, <3>1 DEF CallType, Answer, Misanswer
        <4> QED
          BY <4>1, <4>2 DEF TypeOK
      <3>2. CASE Refuse(c) \/ Lose(c)
        <4>1. PICK s \in {"refused", "lost"} : calls' = [calls EXCEPT ![c].status = s]
          BY <3>2 DEF Refuse, Lose
        <4>2. [calls[c] EXCEPT !.status = s] \in CallType
          BY <2>1, <3>2 DEF CallType, Refuse, Lose
        <4> QED
          BY <4>1, <4>2 DEF TypeOK
      <3> QED
        BY <1>9, <3>1, <3>2 DEF Environment
    <2> QED
      BY <1>9, <2>2 DEF TypeOK, Environment, Answer, Misanswer, Refuse, Lose, Fault
  <1>10. CASE Crash
    <2>1. \A t \in Tasks : IsRunning(t) => [task[t] EXCEPT !.pc = "failed"] \in TaskType
      BY DEF TypeOK, TaskType, IsRunning, Running
    <2> QED
      BY <1>10, <2>1 DEF TypeOK, Crash, Fault
  <1>11. CASE UNCHANGED vars
    BY <1>11 DEF TypeOK, vars
  <1> QED
    BY <1>1, <1>2, <1>3, <1>4, <1>5, <1>6, <1>7, <1>8, <1>9, <1>10, <1>11
    DEF Next, Step

-----------------------------------------------------------------------------
(* What a step can do to a row, to a call and to a task.                   *)

\* Rows are never taken back, and a completed row never changes.
LEMMA LedgerGrows ==
    ASSUME TypeOK, [Next]_vars, NEW k \in Keys
    PROVE  /\ ledger[k] # Absent => ledger'[k] # Absent
           /\ IsCompleted(ledger[k]) => ledger'[k] = ledger[k]
  <1> DEFINE Kept ==
        /\ ledger[k] # Absent => ledger'[k] # Absent
        /\ IsCompleted(ledger[k]) => ledger'[k] = ledger[k]
  <1>1. CASE ledger' = ledger
    BY <1>1
  <1>2. ASSUME NEW t \in Tasks, Reserve(t) PROVE Kept
    BY <1>2 DEF Reserve, Reserved, TypeOK, IsCompleted, Absent
  <1>3. ASSUME NEW t \in Tasks, Complete(t) PROVE Kept
    BY <1>3 DEF Complete, Promoted, Completed, TypeOK, IsCompleted, Absent
  <1>4. ASSUME NEW c \in CallIds, Environment(c) PROVE Kept
    BY <1>1, <1>4 DEF Environment, Answer, Misanswer, Refuse, Lose
  <1>5. ASSUME NEW t \in Tasks, Step(t) PROVE Kept
    BY <1>1, <1>2, <1>3, <1>5 DEF Step, GetCompleted, Send, Receive, Timeout, Verify
  <1>6. ASSUME NEW t \in Tasks, NEW i \in Identities, Delegate(t, i) PROVE Kept
    BY <1>1, <1>6 DEF Delegate
  <1>7. ASSUME NEW t \in Tasks, Abort(t) PROVE Kept
    BY <1>1, <1>7 DEF Abort
  <1>8. CASE Crash \/ UNCHANGED vars
    BY <1>1, <1>8 DEF Crash, vars
  <1> QED
    BY <1>4, <1>5, <1>6, <1>7, <1>8 DEF Next

\* A call keeps its request, and one that was received keeps everything.
LEMMA CallsGrow ==
    ASSUME TypeOK, [Next]_vars, NEW c \in CallIds
    PROVE  /\ calls[c].status # "unused" => /\ calls'[c].status # "unused"
                                            /\ calls'[c].request = calls[c].request
           /\ calls[c].status = "received" => calls'[c] = calls[c]
  <1> DEFINE Kept ==
        /\ calls[c].status # "unused" => /\ calls'[c].status # "unused"
                                         /\ calls'[c].request = calls[c].request
        /\ calls[c].status = "received" => calls'[c] = calls[c]
  <1>1. CASE calls' = calls
    BY <1>1
  <1>2. ASSUME NEW t \in Tasks, Send(t) PROVE Kept
    BY <1>2 DEF Send, TypeOK
  <1>3. ASSUME NEW t \in Tasks, Receive(t) PROVE Kept
    BY <1>3 DEF Receive, TypeOK
  <1>4. ASSUME NEW d \in CallIds, Environment(d) PROVE Kept
    <2>1. d # c => calls'[c] = calls[c]
      BY <1>4 DEF Environment, Answer, Misanswer, Refuse, Lose, TypeOK
    <2>2. calls[d].status \in {"sent", "answered"}
      BY <1>4 DEF Environment, Answer, Misanswer, Refuse, Lose
    <2>3. calls'[d].status # "unused" /\ calls'[d].request = calls[d].request
      <3>1. calls[d] \in CallType
        BY DEF TypeOK
      <3>2. CASE Answer(d)
        BY <3>1, <3>2 DEF Answer, TypeOK, CallType
      <3>3. CASE Misanswer(d)
        BY <3>1, <3>3 DEF Misanswer, TypeOK, CallType
      <3>4. CASE Refuse(d) \/ Lose(d)
        BY <3>1, <3>4 DEF Refuse, Lose, TypeOK, CallType
      <3> QED
        BY <1>4, <3>2, <3>3, <3>4 DEF Environment
    <2> QED
      BY <2>1, <2>2, <2>3
  <1> QED
    BY <1>1, <1>2, <1>3, <1>4
    DEF Next, vars, Step, Delegate, GetCompleted, Reserve, Timeout, Complete, Verify,
        Abort, Crash

\* A task changes only by its own steps, when it is called, or when it fails.
LEMMA TaskChanges ==
    ASSUME TypeOK, [Next]_vars, NEW t \in Tasks, task'[t] # task[t]
    PROVE  \/ Step(t)
           \/ \E i \in Identities : Delegate(t, i)
           \/ IsRunning(t) /\ task'[t] = [task[t] EXCEPT !.pc = "failed"]
  <1> DEFINE Changed(u) ==
        \/ Step(u)
        \/ \E i \in Identities : Delegate(u, i)
        \/ IsRunning(u) /\ task'[u] = [task[u] EXCEPT !.pc = "failed"]
  <1>1. ASSUME NEW u \in Tasks, Step(u) PROVE Changed(t)
    <2>1. u # t => task'[t] = task[t]
      BY <1>1 DEF TypeOK, Step, GetCompleted, Reserve, Send, Receive, Timeout, Complete,
                  Verify, Goto
    <2> QED
      BY <1>1, <2>1
  <1>2. ASSUME NEW u \in Tasks, NEW i \in Identities, Delegate(u, i) PROVE Changed(t)
    <2>1. u # t => task'[t] = task[t]
      BY <1>2 DEF TypeOK, Delegate
    <2> QED
      BY <1>2, <2>1
  <1>3. ASSUME NEW u \in Tasks, Abort(u) PROVE Changed(t)
    BY <1>3 DEF TypeOK, Abort, Goto
  <1>4. CASE Crash
    BY <1>4 DEF Crash
  <1> QED
    BY <1>1, <1>2, <1>3, <1>4
    DEF Next, vars, Environment, Answer, Misanswer, Refuse, Lose

\* While a task keeps its request, what its key holds can only grow.
LEMMA TaskKeyGrows ==
    ASSUME TypeOK, [Next]_vars, NEW t \in Tasks, task[t].pc # "idle",
           task'[t].request = task[t].request
    PROVE  /\ KeyOfTask(t)' = KeyOfTask(t)
           /\ ledger[KeyOfTask(t)] # Absent => (ledger[KeyOfTask(t)] # Absent)'
           /\ IsCompleted(ledger[KeyOfTask(t)]) =>
                ledger'[KeyOfTask(t)] = ledger[KeyOfTask(t)]
  <1>1. KeyOfTask(t) \in Keys
    BY KeyOfTaskType
  <1>2. KeyOfTask(t)' = KeyOfTask(t)
    BY DEF KeyOfTask
  <1> QED
    BY <1>1, <1>2, LedgerGrows

-----------------------------------------------------------------------------
(* One lemma for each conjunct of the inductive invariant.                 *)

\* Reserve is the only way to "send", the upsert the only way to "verify".
LEMMA StepReservedFirst ==
    ASSUME TypeOK, ReservedFirst, [Next]_vars
    PROVE  ReservedFirst'
  <1> SUFFICES ASSUME NEW t \in Tasks
               PROVE  /\ task'[t].pc \in {"send", "receive", "complete", "verify"}
                           => (ledger[KeyOfTask(t)] # Absent)'
                      /\ task'[t].pc = "verify" => IsCompleted(ledger[KeyOfTask(t)])'
    BY DEF ReservedFirst
  <1>1. CASE task'[t] = task[t]
    BY <1>1, TaskKeyGrows DEF ReservedFirst
  <1>2. CASE GetCompleted(t) \/ Timeout(t) \/ Verify(t)
    BY <1>2 DEF GetCompleted, Timeout, Verify, Goto, TypeOK, TaskType
  <1>3. CASE Reserve(t)
    <2>1. KeyOfTask(t) \in Keys /\ KeyOfTask(t)' = KeyOfTask(t) /\ task'[t].pc = "send"
      BY <1>3, KeyOfTaskType DEF Reserve, Goto, KeyOfTask, TypeOK, TaskType
    <2>2. ledger'[KeyOfTask(t)] # Absent
      BY <1>3, <2>1 DEF Reserve, Reserved, Absent, Pending, TypeOK
    <2> QED
      BY <2>1, <2>2
  <1>4. CASE Send(t) \/ Receive(t)
    <2>1. task'[t].request = task[t].request /\ task'[t].pc # "verify"
      BY <1>4 DEF Send, Receive, Goto, TypeOK, TaskType
    <2>2. ledger[KeyOfTask(t)] # Absent
      BY <1>4 DEF Send, Receive, ReservedFirst
    <2> QED
      BY <1>4, <2>1, <2>2, TaskKeyGrows DEF Send, Receive
  <1>5. CASE Complete(t)
    <2>1. KeyOfTask(t) \in Keys /\ KeyOfTask(t)' = KeyOfTask(t) /\ task'[t].pc = "verify"
      BY <1>5, KeyOfTaskType DEF Complete, Goto, KeyOfTask, TypeOK, TaskType
    <2>2. IsCompleted(ledger'[KeyOfTask(t)])
      BY <1>5, <2>1 DEF Complete, Promoted, IsCompleted, Completed, TypeOK
    <2> QED
      BY <2>1, <2>2 DEF IsCompleted, Absent
  <1>6. CASE \E i \in Identities : Delegate(t, i)
    BY <1>6 DEF Delegate, Activation, TypeOK
  <1>7. CASE task'[t] = [task[t] EXCEPT !.pc = "failed"]
    BY <1>7 DEF TypeOK, TaskType
  <1> QED
    BY <1>1, <1>2, <1>3, <1>4, <1>5, <1>6, <1>7, TaskChanges DEF Step

\* A task begun on a completed key finds the result; nothing takes it away.
LEMMA StepReplayIsSettled ==
    ASSUME TypeOK, ReplayIsSettled, [Next]_vars
    PROVE  ReplayIsSettled'
  <1> DEFINE Settled(t) ==
        /\ task[t].pc \in {"get_completed", "done", "failed"}
        /\ IsCompleted(ledger[KeyOfTask(t)])
        /\ task[t].call = None
        /\ task[t].pc = "done" => task[t].reused
  <1> SUFFICES ASSUME NEW t \in replay' PROVE Settled(t)'
    BY DEF ReplayIsSettled
  <1>1. t \in Tasks
    BY StepTypeOK DEF TypeOK
  <1>2. ASSUME NEW i \in Identities, Delegate(t, i) PROVE Settled(t)'
    <2>1. task'[t] = Activation("get_completed", i)
      BY <1>1, <1>2 DEF Delegate, TypeOK
    <2>2. IsCompleted(ledger[KeyOf[i]])
      BY <1>2 DEF Delegate
    <2> QED
      BY <1>2, <2>1, <2>2 DEF Delegate, Activation, KeyOfTask
  <1>3. ASSUME ~ \E i \in Identities : Delegate(t, i) PROVE Settled(t)'
    <2>1. t \in replay
      BY <1>3 DEF Next, vars, Step, Environment, Delegate, GetCompleted, Reserve, Send,
                  Receive, Timeout, Complete, Verify, Abort, Crash, Answer, Misanswer,
                  Refuse, Lose
    <2>2. Settled(t) /\ task[t].pc # "idle"
      BY <2>1 DEF ReplayIsSettled
    <2>3. CASE task'[t] = task[t]
      BY <1>1, <2>2, <2>3, TaskKeyGrows
    <2>4. CASE GetCompleted(t)
      <3>1. task'[t] = [task[t] EXCEPT !.pc = "done", !.reused = TRUE,
                                       !.response = ledger[KeyOfTask(t)].payload]
        BY <1>1, <2>2, <2>4 DEF GetCompleted, TypeOK
      <3>2. /\ task'[t].pc = "done" /\ task'[t].reused
            /\ task'[t].call = task[t].call /\ task'[t].request = task[t].request
        BY <1>1, <3>1 DEF TypeOK, TaskType
      <3> QED
        BY <1>1, <2>2, <3>2, TaskKeyGrows
    <2>5. CASE task'[t] = [task[t] EXCEPT !.pc = "failed"]
      <3>1. /\ task'[t].pc = "failed"
            /\ task'[t].call = task[t].call /\ task'[t].request = task[t].request
        BY <1>1, <2>5 DEF TypeOK, TaskType
      <3> QED
        BY <1>1, <2>2, <3>1, TaskKeyGrows
    <2>6. ~ (Reserve(t) \/ Send(t) \/ Receive(t) \/ Timeout(t) \/ Complete(t) \/ Verify(t))
      BY <2>2 DEF Reserve, Send, Receive, Timeout, Complete, Verify
    <2> QED
      BY <1>1, <1>3, <2>3, <2>4, <2>5, <2>6, TaskChanges DEF Step
  <1> QED
    BY <1>2, <1>3

\* A key is reserved before its first call is sent.
LEMMA StepCallsAreReserved ==
    ASSUME TypeOK, ReservedFirst, CallsAreReserved, [Next]_vars
    PROVE  CallsAreReserved'
  <1> SUFFICES ASSUME NEW c \in CallIds, calls'[c].status # "unused",
                      KeyOf[calls'[c].request] \in Keys
               PROVE  ledger'[KeyOf[calls'[c].request]] # Absent
    BY DEF CallsAreReserved, CallsOf
  <1>1. CASE calls[c].status # "unused"
    <2>1. calls'[c].request = calls[c].request
      BY <1>1, CallsGrow
    <2>2. ledger[KeyOf[calls[c].request]] # Absent
      BY <1>1, <2>1 DEF CallsAreReserved, CallsOf
    <2> QED
      BY <2>1, <2>2, LedgerGrows
  <1>2. CASE calls[c].status = "unused"
    <2>1. PICK t \in Tasks : Send(t)
      <3>1. ASSUME NEW d \in CallIds, Environment(d) PROVE calls'[c] = calls[c]
        BY <1>2, <3>1 DEF Environment, Answer, Misanswer, Refuse, Lose, TypeOK
      <3>2. ASSUME NEW t \in Tasks, Receive(t) PROVE calls'[c] = calls[c]
        BY <1>2, <3>2 DEF Receive, TypeOK
      <3>3. calls'[c] # calls[c]
        BY <1>2
      <3> QED
        BY <3>1, <3>2, <3>3
        DEF Next, vars, Step, Delegate, GetCompleted, Reserve, Timeout, Complete, Verify,
            Abort, Crash
    <2>2. calls'[c].request = task[t].request
      BY <1>2, <2>1 DEF Send, Sent, TypeOK
    <2>3. ledger[KeyOf[task[t].request]] # Absent
      BY <2>1 DEF Send, ReservedFirst, KeyOfTask
    <2> QED
      BY <2>2, <2>3, LedgerGrows
  <1> QED
    BY <1>1, <1>2

\* A task that waits, waits for its own call; a task that records, records the
\* answer it received.
LEMMA StepAnswerIsHeld ==
    ASSUME TypeOK, AnswerIsHeld, [Next]_vars
    PROVE  AnswerIsHeld'
  <1> DEFINE Waits(t) == /\ calls[task[t].call].status # "unused"
                         /\ calls[task[t].call].request = task[t].request
             Holds(t) == /\ task[t].call \in CallIds
                         /\ calls[task[t].call] = [status |-> "received",
                                request |-> task[t].request, response |-> task[t].response]
                         /\ task[t].response.identity = task[t].request
             Held(t) == /\ task[t].pc = "receive" => Waits(t)
                        /\ task[t].pc \in {"complete", "verify"} => Holds(t)
  <1> SUFFICES ASSUME NEW t \in Tasks PROVE Held(t)'
    BY DEF AnswerIsHeld
  <1>1. Held(t)
    BY DEF AnswerIsHeld
  <1>2. CASE task'[t] = task[t]
    <2>1. task[t].pc = "receive" => task[t].call \in CallIds
      BY DEF TypeOK, TaskType
    <2> QED
      BY <1>1, <1>2, <2>1, CallsGrow
  <1>3. CASE GetCompleted(t) \/ Reserve(t) \/ Timeout(t) \/ Verify(t)
    <2>1. task'[t].pc \in {"done", "failed", "reserve", "send"}
      BY <1>3 DEF GetCompleted, Reserve, Timeout, Verify, Goto, TypeOK, TaskType
    <2> QED
      BY <2>1
  <1>4. CASE Send(t)
    <2>1. PICK c \in CallIds :
            /\ calls' = [calls EXCEPT ![c] = Sent(task[t].request)]
            /\ task' = [task EXCEPT ![t].pc = "receive", ![t].call = c]
      BY <1>4 DEF Send
    <2>2. /\ task'[t].pc = "receive" /\ task'[t].call = c
          /\ task'[t].request = task[t].request
      BY <2>1 DEF TypeOK, TaskType
    <2>3. calls'[c] = Sent(task[t].request)
      BY <2>1 DEF TypeOK
    <2> QED
      BY <2>2, <2>3 DEF Sent
  <1>5. CASE Receive(t)
    <2> DEFINE c == task[t].call
    <2>1. c \in CallIds /\ calls[c] \in CallType /\ task[t] \in TaskType
      BY <1>5 DEF Receive, TypeOK, TaskType
    <2>2. CASE Goto(t, "failed")
      BY <2>1, <2>2 DEF Goto, TypeOK, TaskType
    <2>3. CASE Accepts(task[t].request, c) /\ ~Goto(t, "failed")
      <3>1. task'[t] = [task[t] EXCEPT !.pc = "complete", !.response = calls[c].response]
        BY <1>5, <2>3 DEF Receive, TypeOK
      <3>2. /\ task'[t].pc = "complete" /\ task'[t].call = c
            /\ task'[t].request = task[t].request
            /\ task'[t].response = calls[c].response
        BY <2>1, <3>1 DEF TaskType
      <3>3. calls'[c] = [calls[c] EXCEPT !.status = "received"]
        BY <1>5, <2>1 DEF Receive, TypeOK
      <3>4. calls'[c] = [status |-> "received", request |-> calls[c].request,
                         response |-> calls[c].response]
        BY <2>1, <3>3 DEF CallType
      <3>5. calls[c].request = task[t].request
        BY <1>1, <1>5 DEF Receive
      <3> QED
        BY <2>1, <2>3, <3>2, <3>4, <3>5 DEF Accepts
    <2> QED
      BY <1>5, <2>2, <2>3 DEF Receive
  <1>6. CASE Complete(t)
    <2>1. /\ task'[t].pc = "verify" /\ task'[t].call = task[t].call
          /\ task'[t].request = task[t].request /\ task'[t].response = task[t].response
      BY <1>6 DEF Complete, Goto, TypeOK, TaskType
    <2>2. calls' = calls
      BY <1>6 DEF Complete
    <2> QED
      BY <1>1, <1>6, <2>1, <2>2 DEF Complete
  <1>7. CASE \E i \in Identities : Delegate(t, i)
    BY <1>7 DEF Delegate, Activation, TypeOK
  <1>8. CASE task'[t] = [task[t] EXCEPT !.pc = "failed"]
    <2>1. task'[t].pc = "failed"
      BY <1>8 DEF TypeOK, TaskType
    <2> QED
      BY <2>1
  <1> QED
    BY <1>2, <1>3, <1>4, <1>5, <1>6, <1>7, <1>8, TaskChanges DEF Step

\* The upsert writes only an answer that a call of this very key received.
LEMMA StepRecordedResultWasAnswered ==
    ASSUME TypeOK, AnswerIsHeld, RecordedResultWasAnswered, [Next]_vars
    PROVE  RecordedResultWasAnswered'
  <1> DEFINE From(c, k, r) == /\ calls[c].status = "received"
                              /\ KeyOf[calls[c].request] = k
                              /\ calls[c].response = r
                              /\ calls[c].response.identity = calls[c].request
  <1> SUFFICES ASSUME NEW k \in Keys, IsCompleted(ledger'[k])
               PROVE  \E c \in CallIds : From(c, k, ledger[k].payload)'
    BY DEF RecordedResultWasAnswered, CallsOf
  <1>1. ASSUME NEW c \in CallIds, NEW r, From(c, k, r) PROVE From(c, k, r)'
    BY <1>1, CallsGrow
  <1>2. CASE IsCompleted(ledger[k])
    <2>1. PICK c \in CallIds : From(c, k, ledger[k].payload)
      BY <1>2 DEF RecordedResultWasAnswered, CallsOf
    <2>2. ledger'[k] = ledger[k]
      BY <1>2, LedgerGrows
    <2> QED
      BY <1>1, <2>1, <2>2
  <1>3. CASE ~IsCompleted(ledger[k])
    <2>1. PICK t \in Tasks : Complete(t) /\ KeyOfTask(t) = k
      <3>1. ledger'[k] # ledger[k]
        BY <1>3
      <3>2. ASSUME NEW t \in Tasks, Reserve(t) PROVE FALSE
        BY <1>3, <3>1, <3>2
        DEF Reserve, Reserved, IsCompleted, Pending, TypeOK
      <3>3. ASSUME NEW t \in Tasks, Complete(t), KeyOfTask(t) # k PROVE FALSE
        BY <3>1, <3>3 DEF Complete, TypeOK
      <3>4. ASSUME NEW c \in CallIds, Environment(c) PROVE FALSE
        BY <3>1, <3>4 DEF Environment, Answer, Misanswer, Refuse, Lose
      <3>5. PICK t \in Tasks : Step(t)
        BY <3>1, <3>4 DEF Next, vars, Delegate, Abort, Crash
      <3> QED
        BY <3>1, <3>2, <3>3, <3>5
        DEF Step, GetCompleted, Send, Receive, Timeout, Verify
    <2>2. PICK c \in CallIds, r \in Response : c = task[t].call /\ r = task[t].response
      BY <2>1 DEF AnswerIsHeld, Complete, TypeOK, TaskType
    <2>3. ledger'[k] = Completed(r)
      BY <1>3, <2>1, <2>2 DEF Complete, Promoted, TypeOK
    <2>4. From(c, k, r)
      <3>1. /\ calls[c] = [status |-> "received", request |-> task[t].request, response |-> r]
            /\ r.identity = task[t].request
        BY <2>1, <2>2 DEF AnswerIsHeld, Complete
      <3>2. /\ calls[c].status = "received" /\ calls[c].response = r
            /\ calls[c].request = task[t].request
        BY <3>1
      <3>3. KeyOf[task[t].request] = k
        BY <2>1 DEF KeyOfTask
      <3> QED
        BY <3>1, <3>2, <3>3
    <2>5. From(c, k, r)'
      BY <1>1, <2>4
    <2>6. ledger'[k].payload = r
      BY <2>3 DEF Completed
    <2> QED
      BY <2>5, <2>6
  <1> QED
    BY <1>2, <1>3

\* What is served is read from the row, or was just read back from it.
LEMMA StepServedIsRecorded ==
    ASSUME TypeOK, ServedIsRecorded, [Next]_vars
    PROVE  ServedIsRecorded'
  <1> SUFFICES ASSUME NEW t \in Tasks, task'[t].pc = "done"
               PROVE  (ledger[KeyOfTask(t)] = Completed(task[t].response))'
    BY DEF ServedIsRecorded
  <1>1. CASE task'[t] = task[t]
    <2>1. ledger[KeyOfTask(t)] = Completed(task[t].response)
      BY <1>1 DEF ServedIsRecorded
    <2>2. IsCompleted(ledger[KeyOfTask(t)])
      BY <2>1 DEF IsCompleted, Completed
    <2> QED
      BY <1>1, <2>1, <2>2, TaskKeyGrows
  <1>2. CASE GetCompleted(t)
    <2> DEFINE row == ledger[KeyOfTask(t)]
    <2>1. task[t].pc = "get_completed" /\ task[t] \in TaskType
      BY <1>2 DEF GetCompleted, TypeOK
    <2>2. ~Goto(t, "reserve")
      BY <2>1 DEF Goto, TypeOK, TaskType
    <2>3. IsCompleted(row) /\ row = Completed(row.payload)
      <3>1. row \in RowType
        BY <2>1, KeyOfTaskType DEF TypeOK
      <3>2. IsCompleted(row)
        BY <1>2, <2>2 DEF GetCompleted
      <3> QED
        BY <3>1, <3>2, RowShape
    <2>4. task'[t].request = task[t].request /\ task'[t].response = row.payload
      BY <1>2, <2>1, <2>2 DEF GetCompleted, TypeOK, TaskType
    <2> QED
      BY <2>1, <2>3, <2>4, TaskKeyGrows
  <1>3. CASE Verify(t)
    <2> DEFINE row == ledger[KeyOfTask(t)]
    <2>1. task[t].pc = "verify" /\ task[t] \in TaskType
      BY <1>3 DEF Verify, TypeOK
    <2>2. Confirmed(row, task[t].response)
      BY <1>3, <2>1 DEF Verify, Goto, TypeOK
    <2>3. row = Completed(task[t].response)
      BY <2>1, <2>2, KeyOfTaskType, RowShape DEF Confirmed, TypeOK
    <2>4. task'[t].request = task[t].request /\ task'[t].response = task[t].response
      BY <1>3, <2>1 DEF Verify, Goto, TypeOK, TaskType
    <2> QED
      BY <2>1, <2>2, <2>3, <2>4, TaskKeyGrows DEF Confirmed
  <1>4. CASE Reserve(t) \/ Send(t) \/ Receive(t) \/ Timeout(t) \/ Complete(t)
    BY <1>4 DEF Reserve, Send, Receive, Timeout, Complete, Goto, TypeOK, TaskType
  <1>5. CASE \E i \in Identities : Delegate(t, i)
    BY <1>5 DEF Delegate, Activation, TypeOK
  <1>6. CASE task'[t] = [task[t] EXCEPT !.pc = "failed"]
    BY <1>6 DEF TypeOK, TaskType
  <1> QED
    BY <1>1, <1>2, <1>3, <1>4, <1>5, <1>6, TaskChanges DEF Step

-----------------------------------------------------------------------------
(* The invariants.                                                         *)

\* The inductive invariant holds at the start ...
LEMMA InitIInv == Init => IInv
  BY InitTypeOK
  DEF Init, IInv, CallsAreReserved, CallsOf, ReservedFirst, ReplayIsSettled, AnswerIsHeld,
      RecordedResultWasAnswered, ServedIsRecorded, Activation, Absent, IsCompleted

\* ... and every step keeps it.
LEMMA StepIInv == IInv /\ [Next]_vars => IInv'
  BY StepTypeOK, StepCallsAreReserved, StepReservedFirst, StepReplayIsSettled,
     StepAnswerIsHeld, StepRecordedResultWasAnswered, StepServedIsRecorded
  DEF IInv

\* Delegation always satisfies the inductive invariant.
THEOREM Invariance == Spec => []IInv
  BY InitIInv, StepIInv, PTL DEF Spec

\* Every reachable state is well typed: no task records or returns a response
\* it does not have, no row leaves the states of the table.
THEOREM TypeCorrect == Spec => []TypeOK
  BY Invariance, PTL DEF IInv

\* For any number of concurrent tasks and any crashes, a call is made only
\* under a key that is durably reserved.
THEOREM EveryCallIsReserved == Spec => []CallsAreReserved
  BY Invariance, PTL DEF IInv

\* A delegation begun after its key was completed never calls the specialist.
THEOREM ReplayIsSafe == Spec => []ReplayNeverCalls
  <1>1. IInv => ReplayNeverCalls
    BY DEF IInv, ReplayIsSettled, ReplayNeverCalls
  <1> QED
    BY <1>1, Invariance, PTL

\* A recorded result is an answer received from a call of that key.
THEOREM RecordIsGenuine == Spec => []RecordedResultWasAnswered
  BY Invariance, PTL DEF IInv

\* If no two identities share a key, a delegation returns an answer that names
\* its own identity, although the cached branch does not check it.
THEOREM OwnAnswer ==
    ASSUME \A i, j \in Identities : KeyOf[i] = KeyOf[j] => i = j
    PROVE  Spec => []AnswerIsOwn
  <1>1. ASSUME IInv PROVE AnswerIsOwn
    <2> SUFFICES ASSUME NEW t \in Tasks, task[t].pc = "done"
                 PROVE  task[t].response.identity = task[t].request
      BY DEF AnswerIsOwn
    <2> DEFINE k == KeyOfTask(t)
    <2>1. task[t].request \in Identities /\ k \in Keys
      BY <1>1, KeyOfTaskType DEF IInv
    <2>2. ledger[k] = Completed(task[t].response)
      BY <1>1 DEF IInv, ServedIsRecorded
    <2>3. PICK c \in CallsOf(k) :
            /\ calls[c].response = ledger[k].payload
            /\ calls[c].response.identity = calls[c].request
      BY <1>1, <2>1, <2>2 DEF IInv, RecordedResultWasAnswered, IsCompleted, Completed
    <2>4. calls[c].request \in Identities /\ KeyOf[calls[c].request] = KeyOf[task[t].request]
      BY <1>1, <2>3 DEF IInv, TypeOK, CallType, CallsOf, KeyOfTask
    <2> QED
      BY <2>1, <2>2, <2>3, <2>4 DEF Completed
  <1> QED
    BY <1>1, Invariance, PTL

-----------------------------------------------------------------------------
(* Delegation implements the ledger port.                                  *)

\* The table starts empty, as the port says.
LEMMA LedgerInit == Init => Ledger!Init
  BY DEF Init, Ledger!Init, Absent, Ledger!Absent

\* A step of any task, of the specialist or of a fault is a reservation, a
\* first completion, or leaves the table alone.
LEMMA LedgerStep == TypeOK /\ [Next]_vars => [Ledger!Next]_ledger
  <1> SUFFICES ASSUME TypeOK, [Next]_vars PROVE [Ledger!Next]_ledger
    OBVIOUS
  <1>1. ASSUME NEW t \in Tasks, Reserve(t) PROVE [Ledger!Next]_ledger
    <2> DEFINE k == KeyOfTask(t)
    <2>1. k \in Keys /\ ledger' = [ledger EXCEPT ![k] = Reserved(ledger[k])]
      BY <1>1, KeyOfTaskType DEF Reserve
    <2>2. CASE ledger[k] = Absent
      <3>1. Ledger!Reserve(k)
        BY <2>1, <2>2 DEF Ledger!Reserve, Ledger!Absent, Ledger!Pending, Absent, Pending,
                          Reserved
      <3> QED
        BY <2>1, <3>1 DEF Ledger!Next
    <2>3. CASE ledger[k] # Absent
      BY <2>1, <2>3 DEF Reserved, TypeOK
    <2> QED
      BY <2>2, <2>3
  <1>2. ASSUME NEW t \in Tasks, Complete(t) PROVE [Ledger!Next]_ledger
    <2> DEFINE k == KeyOfTask(t)  r == task[t].response
    <2>1. /\ k \in Keys /\ r \in Response /\ ledger[k] \in RowType
          /\ ledger' = [ledger EXCEPT ![k] = Promoted(ledger[k], r)]
      BY <1>2, KeyOfTaskType DEF Complete, TypeOK, TaskType
    <2>2. CASE IsCompleted(ledger[k])
      BY <2>1, <2>2 DEF Promoted, TypeOK
    <2>3. CASE ~IsCompleted(ledger[k])
      <3>1. ledger[k] \in {Absent, Pending}
        BY <2>1, <2>3 DEF RowType, IsCompleted, Completed
      <3>2. Ledger!Complete(k, r)
        BY <2>1, <2>3, <3>1 DEF Ledger!Complete, Ledger!Absent, Ledger!Pending,
                  Ledger!Completed, Absent, Pending, Completed, Promoted
      <3> QED
        BY <2>1, <3>2 DEF Ledger!Next
    <2> QED
      BY <2>2, <2>3
  <1>3. ASSUME NEW t \in Tasks, Step(t) PROVE [Ledger!Next]_ledger
    BY <1>1, <1>2, <1>3 DEF Step, GetCompleted, Send, Receive, Timeout, Verify
  <1>4. ASSUME NEW t \in Tasks, NEW i \in Identities, Delegate(t, i)
        PROVE  [Ledger!Next]_ledger
    BY <1>4 DEF Delegate
  <1>5. ASSUME NEW t \in Tasks, Abort(t) PROVE [Ledger!Next]_ledger
    BY <1>5 DEF Abort
  <1>6. ASSUME NEW c \in CallIds, Environment(c) PROVE [Ledger!Next]_ledger
    BY <1>6 DEF Environment, Answer, Misanswer, Refuse, Lose
  <1>7. CASE Crash \/ UNCHANGED vars
    BY <1>7 DEF Crash, vars
  <1> QED
    BY <1>3, <1>4, <1>5, <1>6, <1>7 DEF Next

\* Whatever the tasks do and wherever they fail, the table is a write-once
\* ledger: the port's promise survives the use made of it.
THEOREM ImplementsLedger == Spec => LedgerSpec
  BY LedgerInit, LedgerStep, TypeCorrect, PTL DEF Spec, LedgerSpec, Ledger!Spec

-----------------------------------------------------------------------------
(* Delegation implements a replay-safe effect.                             *)

\* Nobody has called and no key has a result.
LEMMA EffectInit == Init => Effect!Init
  BY DEF Init, Effect!Init, CallerOfTask, Activation, IsRunning, Running, Absent

\* A task that stays in a running state, with its request, looks the same from
\* outside.
LEMMA StillOpen ==
    ASSUME NEW t \in Tasks, IsRunning(t), IsRunning(t)',
           task'[t].request = task[t].request
    PROVE  CallerOfTask(t)' = CallerOfTask(t)
  BY DEF CallerOfTask, IsRunning, Running, KeyOfTask

\* A running task that fails keeps its key and has no value.
LEMMA FailsOpen ==
    ASSUME TypeOK, NEW t \in Tasks, IsRunning(t),
           task'[t] = [task[t] EXCEPT !.pc = "failed"]
    PROVE  /\ CallerOfTask(t).state = "open"
           /\ CallerOfTask(t)' = [CallerOfTask(t) EXCEPT !.state = "failed"]
  <1>1. task[t] \in TaskType
    BY DEF TypeOK
  <1>2. task'[t].pc = "failed" /\ task'[t].request = task[t].request
    BY <1>1 DEF TaskType
  <1> QED
    BY <1>1, <1>2 DEF CallerOfTask, IsRunning, Running, KeyOfTask

\* Names for the two sides of the refinement mapping.
results == [k \in Keys |-> ledger[k].payload]
callers == [t \in Tasks |-> CallerOfTask(t)]

\* A step that leaves the table and every other task alone shows as a change of
\* one caller.
LEMMA OneCaller ==
    ASSUME TypeOK, NEW t \in Tasks, ledger' = ledger,
           \A u \in Tasks \ {t} : task'[u] = task[u]
    PROVE  /\ results' = results
           /\ callers' = [callers EXCEPT ![t] = CallerOfTask(t)']
  <1>1. \A u \in Tasks \ {t} : CallerOfTask(u)' = CallerOfTask(u)
    BY DEF CallerOfTask, IsRunning, KeyOfTask
  <1> QED
    BY <1>1 DEF results, callers

\* A task that fails is an open call that fails.
LEMMA TaskFails ==
    ASSUME TypeOK, NEW t \in Tasks, IsRunning(t), Goto(t, "failed"), ledger' = ledger
    PROVE  Effect!Next
  <1>1. task'[t] = [task[t] EXCEPT !.pc = "failed"] /\ \A u \in Tasks \ {t} : task'[u] = task[u]
    BY DEF Goto, TypeOK
  <1>2. /\ results' = results
        /\ callers' = [callers EXCEPT ![t] = [CallerOfTask(t) EXCEPT !.state = "failed"]]
        /\ callers[t].state = "open"
    BY <1>1, OneCaller, FailsOpen DEF callers
  <1>3. callers' = [u \in Tasks |-> IF u \in {t} THEN [callers[u] EXCEPT !.state = "failed"]
                                                 ELSE callers[u]]
    BY <1>2 DEF callers
  <1>4. Effect!Fail({t})
    BY <1>2, <1>3 DEF Effect!Fail, results, callers
  <1> QED
    BY <1>4 DEF Effect!Next

\* A step that keeps a task running changes nothing a caller can see.
LEMMA TaskContinues ==
    ASSUME TypeOK, NEW t \in Tasks, IsRunning(t), IsRunning(t)', ledger' = ledger,
           task'[t].request = task[t].request,
           \A u \in Tasks \ {t} : task'[u] = task[u]
    PROVE  results' = results /\ callers' = callers
  BY OneCaller, StillOpen DEF callers

\* A task that ends with the payload of its row is a call that returns.
LEMMA TaskReturns ==
    ASSUME TypeOK, NEW t \in Tasks, IsRunning(t), ledger' = ledger,
           task'[t].pc = "done", task'[t].request = task[t].request,
           ledger[KeyOfTask(t)] = Completed(task'[t].response),
           task'[t].response \in Response,
           \A u \in Tasks \ {t} : task'[u] = task[u]
    PROVE  Effect!Next
  <1>1. PICK k \in Keys, r \in Response : k = KeyOfTask(t) /\ r = task'[t].response
    BY KeyOfTaskType DEF IsRunning, Running
  <1>2. task[t].request # None /\ r # None
    BY KeyOfTaskType, DelegationAssumption DEF IsRunning, Running
  <1>3. callers[t] = [state |-> "open", key |-> k, value |-> None]
    BY <1>1, <1>2 DEF callers, CallerOfTask, IsRunning, Running
  <1>4. CallerOfTask(t)' = [state |-> "returned", key |-> k, value |-> r]
    BY <1>1, <1>2 DEF CallerOfTask, IsRunning, Running, KeyOfTask
  <1>5. results[k] = r
    BY <1>1 DEF results, Completed
  <1>6. results' = results /\ callers' = [callers EXCEPT ![t] = CallerOfTask(t)']
    BY OneCaller
  <1>7. callers' = [callers EXCEPT ![t] = [state |-> "returned", key |-> callers[t].key,
                                           value |-> results[callers[t].key]]]
    <2>1. callers[t].key = k /\ results[callers[t].key] = r
      BY <1>3, <1>5
    <2>2. CallerOfTask(t)' = [state |-> "returned", key |-> callers[t].key,
                              value |-> results[callers[t].key]]
      BY <1>4, <2>1
    <2> QED
      BY <1>6, <2>2
  <1>8. results[callers[t].key] # None /\ callers[t].state = "open"
    BY <1>2, <1>3, <1>5
  <1>9. Effect!Return(t)
    BY <1>6, <1>7, <1>8 DEF Effect!Return, results, callers
  <1> QED
    BY <1>9 DEF Effect!Next

\* The upsert gives the key its result, or finds that it has one.
LEMMA UpsertRecords ==
    ASSUME TypeOK, NEW t \in Tasks, Complete(t)
    PROVE  Effect!Next \/ (results' = results /\ callers' = callers)
  <1>0. PICK k \in Keys, r \in Response : k = KeyOfTask(t) /\ r = task[t].response
    BY KeyOfTaskType DEF Complete, TypeOK, TaskType
  <1>1. /\ ledger[k] \in RowType
        /\ task[t].pc = "complete" /\ task[t] \in TaskType
        /\ ledger' = [ledger EXCEPT ![k] = Promoted(ledger[k], r)]
    BY <1>0 DEF Complete, TypeOK
  <1>2. /\ task'[t].request = task[t].request /\ task'[t].pc = "verify"
        /\ \A u \in Tasks \ {t} : task'[u] = task[u]
    BY <1>1 DEF Complete, Goto, TypeOK, TaskType
  <1>3. callers' = callers
    <2>1. CallerOfTask(t)' = CallerOfTask(t)
      BY <1>1, <1>2, StillOpen DEF IsRunning, Running
    <2>2. \A u \in Tasks \ {t} : CallerOfTask(u)' = CallerOfTask(u)
      BY <1>2 DEF CallerOfTask, IsRunning, KeyOfTask
    <2> QED
      BY <2>1, <2>2 DEF callers
  <1>4. CASE IsCompleted(ledger[k])
    <2>1. ledger' = ledger
      BY <1>1, <1>4 DEF Promoted, TypeOK
    <2> QED
      BY <1>3, <2>1 DEF results
  <1>5. CASE ~IsCompleted(ledger[k])
    <2>1. results[k] = None
      BY <1>1, <1>5 DEF results, RowType, IsCompleted, Completed, Absent, Pending
    <2>2. results' = [results EXCEPT ![k] = r]
      BY <1>1, <1>5 DEF results, Promoted, Completed, TypeOK
    <2>3. callers[t].state = "open" /\ callers[t].key = k
      <3>1. task[t].request # None /\ IsRunning(t)
        BY <1>1, KeyOfTaskType, DelegationAssumption DEF IsRunning, Running
      <3>2. CallerOfTask(t).state = "open" /\ CallerOfTask(t).key = k
        BY <1>0, <3>1 DEF CallerOfTask
      <3> QED
        BY <3>2 DEF callers
    <2>4. Effect!Record(k, r)
      BY <1>3, <2>1, <2>2, <2>3 DEF Effect!Record, results, callers
    <2> QED
      BY <2>4 DEF Effect!Next
  <1> QED
    BY <1>4, <1>5

\* A delegation that begins is a call for the key of its request.
LEMMA DelegateCalls ==
    ASSUME TypeOK, NEW t \in Tasks, NEW i \in Identities, Delegate(t, i)
    PROVE  Effect!Next
  <1>1. /\ task'[t] = Activation("get_completed", i) /\ ledger' = ledger
        /\ \A u \in Tasks \ {t} : task'[u] = task[u]
    BY DEF Delegate, TypeOK
  <1>2. CallerOfTask(t)' = [state |-> "open", key |-> KeyOf[i], value |-> None]
    BY <1>1, DelegationAssumption DEF CallerOfTask, Activation, IsRunning, Running, KeyOfTask
  <1>3. callers[t].state # "open"
    BY DEF callers, CallerOfTask, Delegate, IsRunning, Running, TypeOK, TaskType
  <1>4. results' = results /\ callers' = [callers EXCEPT ![t] = CallerOfTask(t)']
    BY <1>1, OneCaller
  <1>5. Effect!Call(t, KeyOf[i]) /\ KeyOf[i] \in Keys
    BY <1>2, <1>3, <1>4, DelegationAssumption DEF Effect!Call, results, callers
  <1> QED
    BY <1>5 DEF Effect!Next

\* A crash is the failure of every open call.
LEMMA CrashFails ==
    ASSUME TypeOK, Crash
    PROVE  Effect!Next
  <1> DEFINE C == {t \in Tasks : IsRunning(t)}
  <1>1. \A t \in C : /\ callers[t].state = "open"
                     /\ CallerOfTask(t)' = [callers[t] EXCEPT !.state = "failed"]
    BY FailsOpen DEF Crash, callers
  <1>2. \A t \in Tasks \ C : CallerOfTask(t)' = callers[t]
    BY DEF Crash, CallerOfTask, IsRunning, KeyOfTask, callers
  <1>3. results' = results
    BY DEF Crash, results
  <1>4. callers' = [t \in Tasks |-> IF t \in C THEN [callers[t] EXCEPT !.state = "failed"]
                                               ELSE callers[t]]
    BY <1>1, <1>2 DEF callers
  <1>5. Effect!Fail(C)
    BY <1>1, <1>3, <1>4 DEF Effect!Fail, results, callers
  <1> QED
    BY <1>5 DEF Effect!Next

\* Every step of Delegation is a step of a replay-safe effect or invisible.
LEMMA EffectStep ==
    ASSUME IInv, IInv', [Next]_vars
    PROVE  [Effect!Next]_Effect!vars
  <1> DEFINE Seen == Effect!Next \/ (results' = results /\ callers' = callers)
  <1>0. TypeOK /\ TypeOK'
    BY DEF IInv
  <1> SUFFICES Seen
    BY DEF Effect!vars, results, callers
  <1>1. ASSUME NEW t \in Tasks, NEW i \in Identities, Delegate(t, i) PROVE Seen
    BY <1>0, <1>1, DelegateCalls
  <1>2. ASSUME NEW t \in Tasks, GetCompleted(t) PROVE Seen
    <2>1. /\ ledger' = ledger /\ IsRunning(t) /\ task[t] \in TaskType
          /\ \A u \in Tasks \ {t} : task'[u] = task[u]
          /\ task'[t].request = task[t].request
          /\ task'[t].pc \in {"done", "reserve"}
      BY <1>0, <1>2 DEF GetCompleted, Goto, IsRunning, Running, TypeOK, TaskType
    <2>2. CASE task'[t].pc = "reserve"
      <3>1. IsRunning(t)'
        BY <2>2 DEF IsRunning, Running
      <3> QED
        BY <1>0, <2>1, <3>1, TaskContinues
    <2>3. CASE task'[t].pc = "done"
      <3>1. (ledger[KeyOfTask(t)] = Completed(task[t].response))' /\ task'[t].response \in Response
        BY <1>0, <2>3 DEF IInv, ServedIsRecorded, TypeOK, TaskType
      <3>2. ledger[KeyOfTask(t)] = Completed(task'[t].response)
        BY <2>1, <3>1 DEF KeyOfTask, Completed
      <3> QED
        BY <1>0, <2>1, <2>3, <3>1, <3>2, TaskReturns
    <2> QED
      BY <2>1, <2>2, <2>3
  <1>3. ASSUME NEW t \in Tasks, Reserve(t) PROVE Seen
    <2>1. /\ KeyOfTask(t) \in Keys /\ IsRunning(t) /\ IsRunning(t)'
          /\ task'[t].request = task[t].request
          /\ \A u \in Tasks \ {t} : task'[u] = task[u]
      BY <1>0, <1>3, KeyOfTaskType
      DEF Reserve, Goto, IsRunning, Running, TypeOK, TaskType
    <2>2. results' = results
      BY <1>0, <1>3, <2>1 DEF Reserve, Reserved, Absent, Pending, results, TypeOK
    <2>3. \A u \in Tasks : CallerOfTask(u)' = CallerOfTask(u)
      <3>1. \A u \in Tasks \ {t} : CallerOfTask(u)' = CallerOfTask(u)
        BY <2>1 DEF CallerOfTask, IsRunning, KeyOfTask
      <3> QED
        BY <2>1, <3>1, StillOpen
    <2> QED
      BY <2>2, <2>3 DEF callers
  <1>4. ASSUME NEW t \in Tasks, Send(t) PROVE Seen
    <2>1. /\ ledger' = ledger /\ IsRunning(t) /\ IsRunning(t)'
          /\ task'[t].request = task[t].request
          /\ \A u \in Tasks \ {t} : task'[u] = task[u]
      BY <1>0, <1>4 DEF Send, IsRunning, Running, TypeOK, TaskType
    <2> QED
      BY <1>0, <2>1, TaskContinues
  <1>5. ASSUME NEW t \in Tasks, Receive(t) PROVE Seen
    <2>1. ledger' = ledger /\ IsRunning(t) /\ task[t] \in TaskType
      BY <1>0, <1>5 DEF Receive, IsRunning, Running, TypeOK
    <2>2. CASE Goto(t, "failed")
      BY <1>0, <2>1, <2>2, TaskFails
    <2>3. CASE ~Goto(t, "failed")
      <3>1. /\ IsRunning(t)' /\ task'[t].request = task[t].request
            /\ \A u \in Tasks \ {t} : task'[u] = task[u]
        BY <1>0, <1>5, <2>1, <2>3 DEF Receive, IsRunning, Running, TypeOK, TaskType
      <3> QED
        BY <1>0, <2>1, <3>1, TaskContinues
    <2> QED
      BY <2>2, <2>3
  <1>6. ASSUME NEW t \in Tasks, Timeout(t) \/ Abort(t) PROVE Seen
    <2>1. ledger' = ledger /\ IsRunning(t) /\ Goto(t, "failed")
      BY <1>6 DEF Timeout, Abort, IsRunning, Running
    <2> QED
      BY <1>0, <2>1, TaskFails
  <1>7. ASSUME NEW t \in Tasks, Complete(t) PROVE Seen
    BY <1>0, <1>7, UpsertRecords
  <1>8. ASSUME NEW t \in Tasks, Verify(t) PROVE Seen
    <2>1. ledger' = ledger /\ IsRunning(t) /\ task[t] \in TaskType
      BY <1>0, <1>8 DEF Verify, IsRunning, Running, TypeOK
    <2>2. CASE Goto(t, "failed")
      BY <1>0, <2>1, <2>2, TaskFails
    <2>3. CASE Goto(t, "done")
      <3>1. /\ task'[t].pc = "done" /\ task'[t].request = task[t].request
            /\ \A u \in Tasks \ {t} : task'[u] = task[u]
        BY <1>0, <2>1, <2>3 DEF Goto, TypeOK, TaskType
      <3>2. (ledger[KeyOfTask(t)] = Completed(task[t].response))' /\ task'[t].response \in Response
        BY <1>0, <3>1 DEF IInv, ServedIsRecorded, TypeOK, TaskType
      <3>3. ledger[KeyOfTask(t)] = Completed(task'[t].response)
        BY <2>1, <3>1, <3>2 DEF KeyOfTask, Completed
      <3> QED
        BY <1>0, <2>1, <3>1, <3>2, <3>3, TaskReturns
    <2> QED
      BY <1>8, <2>2, <2>3 DEF Verify
  <1>9. ASSUME NEW c \in CallIds, Environment(c) PROVE Seen
    <2>1. ledger' = ledger /\ task' = task
      BY <1>9 DEF Environment, Answer, Misanswer, Refuse, Lose
    <2> QED
      BY <2>1 DEF results, callers, CallerOfTask, IsRunning, KeyOfTask
  <1>10. CASE Crash
    BY <1>0, <1>10, CrashFails
  <1>11. CASE UNCHANGED vars
    BY <1>11 DEF vars, results, callers, CallerOfTask, IsRunning, KeyOfTask
  <1> HIDE DEF Seen
  <1> QED
    BY <1>1, <1>2, <1>3, <1>4, <1>5, <1>6, <1>7, <1>8, <1>9, <1>10, <1>11 DEF Next, Step

\* execute_delegation keeps its promise for every number of tasks and keys:
\* one result for each key, and the same one for everybody who asks.
THEOREM ImplementsEffect == Spec => EffectSpec
  BY EffectInit, EffectStep, Invariance, PTL DEF Spec, EffectSpec, Effect!Spec
=============================================================================
