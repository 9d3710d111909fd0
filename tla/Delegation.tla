----------------------------- MODULE Delegation -----------------------------
(***************************************************************************)
(* execute_delegation (application/service.py) run by several concurrent   *)
(* tasks against one durable effect ledger and one remote specialist that  *)
(* is reached over A2A (adapters/a2a_transport.py).                        *)
(*                                                                         *)
(* Every await of execute_delegation is a step of its own, so tasks        *)
(* interleave at each of them.  A ledger operation is one step on the      *)
(* table, except complete(), whose upsert and read-back are separate       *)
(* statements; PostgresLedger looks inside the operations.  A call to the  *)
(* specialist can be answered, refused, answered for somebody else, or     *)
(* lost; the process can crash at any time.  These faults are counted and  *)
(* bounded by MaxFaults, and the calls ever made by MaxCalls.              *)
(*                                                                         *)
(* A request is its identity: prompt and payload ride along and nothing    *)
(* here reads them.  A response is an identity and a summary; the summary  *)
(* stands for everything two answers to the same request may differ in     *)
(* (text, facts, local_state_version).                                     *)
(***************************************************************************)
EXTENDS Naturals, FiniteSets

CONSTANTS
    Tasks,          \* concurrent invocations of execute_delegation
    Identities,     \* execution identities of the requests
    Keys,           \* idempotency keys
    KeyOf,          \* [Identities -> Keys], see IdentityKeys
    Summaries,      \* the answers a specialist can give
    MaxCalls,       \* bounds the calls ever made to the specialist
    MaxFaults,      \* bounds the faults ever injected
    None            \* no request, response or call

Response == [identity : Identities, summary : Summaries]

\* The calls, numbered in the order in which they are made.
CallIds == 1..MaxCalls

ASSUME DelegationAssumption ==
    /\ KeyOf \in [Identities -> Keys]
    /\ MaxCalls \in Nat
    /\ MaxFaults \in Nat
    /\ None \notin Identities
    /\ None \notin CallIds
    /\ None \notin Response

VARIABLES
    ledger,     \* [Keys -> row], the table agent_effect_ledger
    calls,      \* [CallIds -> call], every A2A call ever made and its fate
    task,       \* [Tasks -> activation of execute_delegation]
    replay,     \* history: tasks begun when their key was already completed
    faults      \* number of faults so far

vars == <<ledger, calls, task, replay, faults>>

-----------------------------------------------------------------------------
(* The ledger row of a key, and what the operations make of it.            *)

Absent == [status |-> "absent", payload |-> None]
Pending == [status |-> "pending", payload |-> None]
Completed(r) == [status |-> "completed", payload |-> r]
IsCompleted(row) == row.status = "completed"

\* Variants: a reserve that is never committed, one that resets the row.
ReservedNot(row) == row
ReservedAgain(row) == Pending

\* INSERT ... ON CONFLICT DO NOTHING
Reserved(row) == IF row = Absent THEN Pending ELSE row

\* Variant: the upsert without its WHERE.
PromotedAlways(row, r) == Completed(r)

\* INSERT ... ON CONFLICT DO UPDATE ... WHERE status = 'pending'
Promoted(row, r) == IF IsCompleted(row) THEN row ELSE Completed(r)

\* complete() compares what it reads back with what it meant to store.
Confirmed(row, r) == IsCompleted(row) /\ row.payload = r

-----------------------------------------------------------------------------
(* The activation of execute_delegation in a task.                         *)

Activation(pc, request) ==
    [pc |-> pc, request |-> request, call |-> None, response |-> None,
     reused |-> FALSE]

Running == {"get_completed", "reserve", "send", "receive", "complete", "verify"}
IsRunning(t) == task[t].pc \in Running

KeyOfTask(t) == KeyOf[task[t].request]

Goto(t, pc) == task' = [task EXCEPT ![t].pc = pc]

\* A call as it leaves the client.
Sent(i) == [status |-> "sent", request |-> i, response |-> None]

\* Variants: a client that takes an error for an answer, or anybody's answer.
AcceptsErrors(i, c) == TRUE
AcceptsAnybodys(i, c) == calls[c].status = "answered"

\* The client takes an answer only if it carries the identity it asked for.
Accepts(i, c) ==
    /\ calls[c].status = "answered"
    /\ calls[c].response.identity = i

Init ==
    /\ ledger = [k \in Keys |-> Absent]
    /\ calls = [c \in CallIds |-> [status |-> "unused", request |-> None, response |-> None]]
    /\ task = [t \in Tasks |-> Activation("idle", None)]
    /\ replay = {}
    /\ faults = 0

\* execute_delegation is called with a request, fresh or a retry.
Delegate(t, i) ==
    /\ ~IsRunning(t)
    /\ task' = [task EXCEPT ![t] = Activation("get_completed", i)]
    /\ replay' = IF IsCompleted(ledger[KeyOf[i]]) THEN replay \cup {t} ELSE replay \ {t}
    /\ UNCHANGED <<ledger, calls, faults>>

\* Variant: the completed row is not looked for.
GetCompletedMisses(t) ==
    /\ task[t].pc = "get_completed"
    /\ Goto(t, "reserve")
    /\ UNCHANGED <<ledger, calls, replay, faults>>

\* await ledger.get_completed: a hit is returned as it is.
GetCompleted(t) ==
    /\ task[t].pc = "get_completed"
    /\ \/ /\ IsCompleted(ledger[KeyOfTask(t)])
          /\ task' = [task EXCEPT ![t].pc = "done", ![t].reused = TRUE,
                                  ![t].response = ledger[KeyOfTask(t)].payload]
       \/ /\ ~IsCompleted(ledger[KeyOfTask(t)])
          /\ Goto(t, "reserve")
    /\ UNCHANGED <<ledger, calls, replay, faults>>

\* Variant: a row that is already there is taken for somebody else's call.
ReserveExclusive(t) ==
    /\ task[t].pc = "reserve"
    /\ ledger' = [ledger EXCEPT ![KeyOfTask(t)] = Reserved(@)]
    /\ Goto(t, IF ledger[KeyOfTask(t)] = Absent THEN "send" ELSE "failed")
    /\ UNCHANGED <<calls, replay, faults>>

\* await ledger.reserve: whether the row was new is not looked at.
Reserve(t) ==
    /\ task[t].pc = "reserve"
    /\ ledger' = [ledger EXCEPT ![KeyOfTask(t)] = Reserved(@)]
    /\ Goto(t, "send")
    /\ UNCHANGED <<calls, replay, faults>>

\* The client posts the request to the specialist.
Send(t) ==
    /\ task[t].pc = "send"
    /\ \E c \in CallIds :
        /\ calls[c].status = "unused"
        /\ \A d \in 1..(c - 1) : calls[d].status # "unused"
        /\ calls' = [calls EXCEPT ![c] = Sent(task[t].request)]
        /\ task' = [task EXCEPT ![t].pc = "receive", ![t].call = c]
    /\ UNCHANGED <<ledger, replay, faults>>

\* The client gets the response, or the error, of its call.
Receive(t) ==
    /\ task[t].pc = "receive"
    /\ calls[task[t].call].status \in {"answered", "refused"}
    /\ \/ /\ Accepts(task[t].request, task[t].call)
          /\ task' = [task EXCEPT ![t].pc = "complete",
                                  ![t].response = calls[task[t].call].response]
       \/ /\ ~Accepts(task[t].request, task[t].call)
          /\ Goto(t, "failed")
    /\ calls' = [calls EXCEPT ![task[t].call].status = "received"]
    /\ UNCHANGED <<ledger, replay, faults>>

\* Variant: a client without a timeout.
TimeoutNever(t) == FALSE

\* The client gives up a call whose answer does not come in time.
Timeout(t) ==
    /\ task[t].pc = "receive"
    /\ calls[task[t].call].status = "lost"
    /\ Goto(t, "failed")
    /\ UNCHANGED <<ledger, calls, replay, faults>>

\* The upsert of complete().
Complete(t) ==
    /\ task[t].pc = "complete"
    /\ ledger' = [ledger EXCEPT ![KeyOfTask(t)] = Promoted(@, task[t].response)]
    /\ Goto(t, "verify")
    /\ UNCHANGED <<calls, replay, faults>>

\* The read-back of complete(): a conflicting payload fails the delegation.
Verify(t) ==
    /\ task[t].pc = "verify"
    /\ Goto(t, IF Confirmed(ledger[KeyOfTask(t)], task[t].response)
               THEN "done" ELSE "failed")
    /\ UNCHANGED <<ledger, calls, replay, faults>>

-----------------------------------------------------------------------------
(* The specialist, and what can go wrong.                                  *)

\* The specialist answers a call, whether or not anybody still waits for it.
Answer(c) ==
    /\ calls[c].status = "sent"
    /\ \E s \in Summaries :
        calls' = [calls EXCEPT ![c].status = "answered",
                               ![c].response = [identity |-> calls[c].request, summary |-> s]]
    /\ UNCHANGED <<ledger, task, replay, faults>>

Fault == faults < MaxFaults /\ faults' = faults + 1

\* The answer carries an identity that was not asked for.
Misanswer(c) ==
    /\ calls[c].status = "sent"
    /\ \E i \in Identities \ {calls[c].request}, s \in Summaries :
        calls' = [calls EXCEPT ![c].status = "answered",
                               ![c].response = [identity |-> i, summary |-> s]]
    /\ Fault
    /\ UNCHANGED <<ledger, task, replay>>

\* An HTTP error status, a JSON-RPC error, or a body that is no response.
Refuse(c) ==
    /\ calls[c].status = "sent"
    /\ calls' = [calls EXCEPT ![c].status = "refused"]
    /\ Fault
    /\ UNCHANGED <<ledger, task, replay>>

\* The request, or the answer, does not reach the other side in time.
Lose(c) ==
    /\ calls[c].status \in {"sent", "answered"}
    /\ calls' = [calls EXCEPT ![c].status = "lost"]
    /\ Fault
    /\ UNCHANGED <<ledger, task, replay>>

\* An await raises: a database error, a failure hook, a cancelled task.
Abort(t) ==
    /\ IsRunning(t)
    /\ Goto(t, "failed")
    /\ Fault
    /\ UNCHANGED <<ledger, calls, replay>>

\* The orchestrator stops; every activation is lost, the table stays.
Crash ==
    /\ \E t \in Tasks : IsRunning(t)
    /\ task' = [t \in Tasks |->
                    IF IsRunning(t) THEN [task[t] EXCEPT !.pc = "failed"] ELSE task[t]]
    /\ Fault
    /\ UNCHANGED <<ledger, calls, replay>>

-----------------------------------------------------------------------------
\* What task t does by itself once it was called.
Step(t) ==
    \/ GetCompleted(t)
    \/ Reserve(t)
    \/ Send(t)
    \/ Receive(t)
    \/ Timeout(t)
    \/ Complete(t)
    \/ Verify(t)

Environment(c) == Answer(c) \/ Misanswer(c) \/ Refuse(c) \/ Lose(c)

Next ==
    \/ \E t \in Tasks : Step(t) \/ Abort(t) \/ \E i \in Identities : Delegate(t, i)
    \/ \E c \in CallIds : Environment(c)
    \/ Crash

Spec == Init /\ [][Next]_vars

\* The event loop runs every ready task, and the specialist answers or fails
\* every call it got (Answer stays enabled until some fate befalls the call).
Fairness ==
    /\ \A t \in Tasks : WF_vars(Step(t))
    /\ \A c \in CallIds : WF_vars(Answer(c))

FairSpec == Spec /\ Fairness

\* A caller that retries a failed delegation under the same identity.
Retry(t) == task[t].pc = "failed" /\ Delegate(t, task[t].request)

-----------------------------------------------------------------------------
(* Properties.                                                             *)

RowType == {Absent, Pending} \cup {Completed(r) : r \in Response}

CallType ==
    {c \in [status : {"unused", "sent", "answered", "refused", "received", "lost"},
            request : Identities \cup {None}, response : Response \cup {None}] :
        /\ c.status # "unused" => c.request \in Identities
        /\ c.status = "answered" => c.response \in Response}

TaskType ==
    {a \in [pc : Running \cup {"idle", "done", "failed"},
            request : Identities \cup {None}, call : CallIds \cup {None},
            response : Response \cup {None}, reused : BOOLEAN] :
        /\ a.pc # "idle" => a.request \in Identities
        /\ a.pc = "receive" => a.call \in CallIds
        /\ a.pc \in {"complete", "verify", "done"} => a.response \in Response}

\* Every row is one of the durable states of the table, every activation and
\* every call is well formed and has what its state needs: a request, a call
\* that is waited for, a response that is recorded or returned.
TypeOK ==
    /\ ledger \in [Keys -> RowType]
    /\ calls \in [CallIds -> CallType]
    /\ task \in [Tasks -> TaskType]
    /\ replay \subseteq Tasks
    /\ faults \in 0..MaxFaults

CallsOf(k) == {c \in CallIds : calls[c].status # "unused" /\ KeyOf[calls[c].request] = k}

\* No call leaves for the specialist before its key is durably reserved: after
\* any crash the table shows every key for which the remote effect may have
\* run (service.py: "a later retry is a visible re-attempt").
CallsAreReserved ==
    \A k \in Keys : CallsOf(k) # {} => ledger[k] # Absent

\* A delegation begun once its key was completed makes no call at all, even
\* if other tasks still run, fail or complete the key; it ends reused.
ReplayNeverCalls ==
    \A t \in replay : task[t].call = None /\ (task[t].pc = "done" => task[t].reused)

\* A completed row holds an answer the specialist really gave to a call made
\* under that key, and one that named the identity the call was made for; an
\* answer for somebody else is never recorded.
RecordedResultWasAnswered ==
    \A k \in Keys : IsCompleted(ledger[k]) =>
        \E c \in CallsOf(k) :
            /\ calls[c].status = "received"
            /\ calls[c].response = ledger[k].payload
            /\ calls[c].response.identity = calls[c].request

\* A delegation that succeeds, by its own call or by replay, returns a result
\* that names its own identity.  The cached branch of execute_delegation does
\* not check this: it holds only if different identities have different keys.
AnswerIsOwn ==
    \A t \in Tasks : task[t].pc = "done" => task[t].response.identity = task[t].request

\* The specialist runs at most once per task and key, plus once per task for
\* every fault: duplicates come from concurrency and from faults alone.
BoundedDuplicates ==
    \A k \in Keys : Cardinality(CallsOf(k)) <= Cardinality(Tasks) * (1 + faults)

\* README, "What the lab proves": "A crash after the specialist responds can
\* be retried without invoking that specialist twice."  Read as: no two calls
\* of a key ever get an answer that the orchestrator receives.
RespondsOnce ==
    \A k \in Keys : Cardinality({c \in CallsOf(k) :
        calls[c].status = "received" /\ calls[c].response # None}) <= 1

\* Every delegation that begins returns or fails; none waits for ever.
EveryDelegationEnds ==
    \A t \in Tasks : IsRunning(t) ~> ~IsRunning(t)

\* A reservation left behind by a failure does not block the key: if callers
\* retry failed delegations, every pending row is completed in the end.  The
\* retries are the callers', so they are a hypothesis and not in FairSpec.
PendingIsResolved ==
    (\A t \in Tasks : WF_vars(Retry(t)))
        => \A k \in Keys : (ledger[k] = Pending) ~> IsCompleted(ledger[k])

-----------------------------------------------------------------------------
(* The inductive invariant behind the safety properties.                   *)

\* A task that is past its reservation has a row; past its upsert, a result.
ReservedFirst ==
    \A t \in Tasks :
        /\ task[t].pc \in {"send", "receive", "complete", "verify"}
              => ledger[KeyOfTask(t)] # Absent
        /\ task[t].pc = "verify" => IsCompleted(ledger[KeyOfTask(t)])

\* A task begun on a completed key never gets past get_completed.
ReplayIsSettled ==
    \A t \in replay :
        /\ task[t].pc \in {"get_completed", "done", "failed"}
        /\ IsCompleted(ledger[KeyOfTask(t)])
        /\ task[t].call = None
        /\ task[t].pc = "done" => task[t].reused

\* A task waits for a call of its own request, and records the answer to it.
AnswerIsHeld ==
    \A t \in Tasks :
        /\ task[t].pc = "receive" =>
              /\ calls[task[t].call].status # "unused"
              /\ calls[task[t].call].request = task[t].request
        /\ task[t].pc \in {"complete", "verify"} =>
              /\ task[t].call \in CallIds
              /\ calls[task[t].call] = [status |-> "received", request |-> task[t].request,
                                        response |-> task[t].response]
              /\ task[t].response.identity = task[t].request

\* What a delegation returned is what its key holds, then and ever after.
ServedIsRecorded ==
    \A t \in Tasks : task[t].pc = "done" =>
        ledger[KeyOfTask(t)] = Completed(task[t].response)

\* Together with the properties above, the steps of Delegation keep these.
IInv ==
    /\ TypeOK
    /\ CallsAreReserved
    /\ ReservedFirst
    /\ ReplayIsSettled
    /\ AnswerIsHeld
    /\ RecordedResultWasAnswered
    /\ ServedIsRecorded

-----------------------------------------------------------------------------
(* The accounting behind BoundedDuplicates.                                *)

\* The answer to call c can still be taken.
CallIsGood(i, c) == calls[c].status = "sent" \/ Accepts(i, c)

\* Task t has made a call under k that will complete the key, short of a fault.
IsSpent(t, k) ==
    /\ task[t].pc \in {"receive", "complete"}
    /\ KeyOfTask(t) = k
    /\ task[t].pc = "receive" => CallIsGood(task[t].request, task[t].call)

\* Task t looked for a result under k before there was one.
IsPoised(t, k) == task[t].pc \in {"reserve", "send"} /\ KeyOfTask(t) = k

\* The tasks that may still call under k if no fault happens.
MaySend(k) ==
    {t \in Tasks : IF IsCompleted(ledger[k]) THEN IsPoised(t, k) ELSE ~IsSpent(t, k)}

\* No two tasks wait for the same call.
OneWaiter ==
    \A t, u \in Tasks :
        task[t].pc = "receive" /\ task[u].pc = "receive" /\ task[t].call = task[u].call
            => t = u

\* The calls made under a key and those still to be expected are within the
\* bound: a task can call again only after a fault.  The steps of Delegation
\* keep this, together with IInv.
BudgetInv ==
    /\ OneWaiter
    /\ \A k \in Keys : Cardinality(CallsOf(k)) + Cardinality(MaySend(k))
                        <= Cardinality(Tasks) * (1 + faults)

-----------------------------------------------------------------------------
(* What this module implements.                                            *)

\* The table, seen through these steps, is a ledger as the port promises it.
Ledger == INSTANCE EffectLedger WITH Payloads <- Response

\* The rows are written only as the port allows: reserved, completed once,
\* never touched again, whichever tasks race and wherever they crash.
LedgerSpec == Ledger!Spec

CallerOfTask(t) ==
    [state |-> IF IsRunning(t) THEN "open"
               ELSE IF task[t].pc = "done" THEN "returned" ELSE task[t].pc,
     key   |-> IF task[t].request = None THEN None ELSE KeyOfTask(t),
     value |-> IF task[t].pc = "done" THEN task[t].response ELSE None]

Effect == INSTANCE ReplaySafeEffect
            WITH Callers <- Tasks, Results <- Response,
                 result <- [k \in Keys |-> ledger[k].payload],
                 caller <- [t \in Tasks |-> CallerOfTask(t)]

\* execute_delegation is a replay-safe effect: a key gets at most one result,
\* and every delegation that succeeds returns exactly that result.
EffectSpec == Effect!Spec
=============================================================================
