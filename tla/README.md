# Verification of agent-runtime-boundaries-lab

TLA+ models of the repository's replay-safe delegation: what happens to a review
request on its way from the HTTP endpoint through the LangGraph graph, the effect
ledger and the A2A client to a remote specialist and back, when several requests run
at once and when any of them, or the process, fails at any point. TLC checks the
models on small instances; TLAPS proves every safety property that TLC checks, of the core, both
ledgers, the orchestrator and the specialist services, for every instance. The specialist services behind
the A2A call, with their model backends, are models of their own that keep the promise the
core relies on.

Paths below are relative to `src/src/agent_runtime_boundaries/`.

## 1. The system

| component | state it keeps | operations | talks to | modelled in |
|---|---|---|---|---|
| delegation policy `application/service.py` | none beyond the activation | `execute_delegation`: `get_completed`, `reserve`, `analyze`, hook, `complete` | ledger, specialist | `Delegation` (core) |
| ledger port `application/ports.py` | one row per key: absent, pending, completed | `get_completed`, `reserve`, `complete` | | `EffectLedger` (abstract) |
| PostgreSQL ledger `adapters/postgres_ledger.py` | table `agent_effect_ledger`, a connection pool | the same, as SQL statements | PostgreSQL | `PostgresLedger` |
| in-memory ledger `adapters/memory_ledger.py` | a dictionary of objects, a set and a lock | the same | | `MemoryLedger` in `LocalReview` |
| identity `domain/identity.py` | none | `idempotency_key`, validation, ids drawn by default | | `IdentityKeys`, `LocalReview` |
| demo `entrypoints/demo.py`, `adapters/fake_specialist.py` | the counter of calls | `execute_once` | delegation policy, in-memory ledger | `LocalReview` |
| LangGraph runtime `adapters/langgraph_runtime.py` | channels of a run, checkpoint of a thread | nodes `intake`, `delegate`, `finalize`; `run_review` | delegation policy, checkpointer | `ReviewRuntime` |
| orchestrator API `entrypoints/api.py` | `_runtime`, `_fail_once_seen` | `POST /v1/reviews`, `lifespan`, failure hook | LangGraph runtime | `ReviewRuntime` |
| A2A client `adapters/a2a_transport.py` | a call in flight | `analyze`: post, wait at most 60 s, parse, compare identities | A2A server | `Delegation` (`Send`, `Receive`, `Timeout`) |
| A2A server `adapters/a2a_server.py` | none | `message_send`: validate, `analyze`, answer | specialist | `Delegation` (`Answer`, `Refuse`), `SpecialistService` |
| specialists `adapters/agno_specialist.py`, `crewai_specialist.py` | Agno's sessions; threads that run crews | `analyze`: one or two inferences, a summary | text backends | `SpecialistService` |
| text backends `adapters/openai_text.py`, `gateway_text.py`, bridges `agno_text_model.py`, `crewai_text_llm.py`, interface `text_generation.py` | none | `generate` | provider SDKs | `TextBackends` |
| configuration `config.py` | none | `text_client`, the pool's size | | `TextBackends`, `PostgresLedger` |
| observability, examples | | | | not modelled (section 8) |

A review: the endpoint calls `run_review`, which invokes the graph with the thread of
the conversation. `intake` sets the phase. `delegate` computes the idempotency key and
runs `execute_delegation`, which returns a completed row or else reserves the row,
calls the specialist over A2A, and completes the row. `finalize` builds the summary. A
checkpoint is saved after the input and after every node. Everything is `asyncio`: at
each `await` another request may run. The table and the checkpoints survive a crash;
activations, runs and `_fail_once_seen` do not.

### What is hard, and what must hold

* **Duplicates and races.** `execute_delegation` ignores what `reserve` returns, so
  concurrent tasks, and retries after a crash, may call the specialist more than once
  for a key. Still a key has one result, everybody gets that one, and the loser of a
  race fails rather than return its own answer.
* **Crash between answer and record.** The pending row makes every attempt visible; it
  must not block later ones.
* **Answers that should not count.** Late, lost, refused, or carrying somebody else's
  identity.
* **SQL.** `complete` commits and then reads back in a second transaction on a second
  connection; commits may take effect unacknowledged; the pool is bounded.
* **Checkpoints against ledger.** Two stores, written one after the other, a thread
  shared by concurrent executions of a conversation.
* **Restarts.** The injected failure is remembered in the process only.
* **Payloads that storage changes.** `complete` compares what it reads back with what it
  wrote; jsonb rejects some payloads and changes others.
* **Shared objects.** The in-memory ledger hands out payloads that callers may change.
* **Missing ids.** A command without ids gets fresh ones on every retry.
* **Specialists.** Model calls that fail, are cut off, or answer with something other than
  text; frameworks that swallow exceptions; crews in threads nobody can stop; sessions
  shared by the delegations of a conversation.

`PROJECT.json` lists each of these under `hazards` at its line, with the properties
that cover it.

## 2. Modules

| module | kind | purpose |
|---|---|---|
| `EffectLedger` | abstract | the port's promise: rows go absent → pending → completed and never back |
| `ReplaySafeEffect` | abstract | `execute_delegation`'s promise: a key has at most one result; a call returns it or fails |
| `Delegation` | core | `execute_delegation` in several tasks, ledger rows, A2A calls, faults |
| `DelegationProofs` | proofs | theorems about `Delegation` |
| `IdentityKeys` | operators | identities and their idempotency key |
| `IdentityKeysProofs` | proofs | which identities share a key |
| `DelegationDuplicates` | proofs | the bound on duplicate calls, and when there are none |
| `PostgresLedger` | adapter | statements, commits, locks, pool, connection faults, jsonb |
| `PostgresLedgerProofs` | proofs | theorems about `PostgresLedger` |
| `MemoryLedger` | adapter | the in-memory ledger over a heap of shared objects |
| `LocalReview` | composition | commands, identities, `execute_delegation` over `MemoryLedger`, the fake specialist |
| `LocalReviewProofs` | proofs | theorems about `LocalReview` |
| `ReviewRuntime` | composition | extends `Delegation` with graph, checkpoints, endpoint and restarts |
| `ReviewRuntimeProofs` | proofs | theorems about `ReviewRuntime` |
| `OrchestratorProofs` | proofs | the parts together: own answers under the real keys, the promise expected of specialists, no stranded run |
| `SpecialistCalls` | abstract | the promise of a specialist to its callers: every call gets one fate |
| `TextBackends` | operators | which backend a configuration selects, what it makes of a provider's reply |
| `SpecialistService` | composition | A2A handler, Agno agent or crew, threads and sessions over `TextBackends` |
| `SpecialistServiceProofs` | proofs | theorems about `SpecialistService` |
| `MCDelegation`, `MCPostgresLedger`, `MCReviewRuntime`, `MCLocalReview`, `MCSpecialistService` | instances | identities, keys, replies and symmetry for TLC |

### Delegation

`task[t]` is an activation of `execute_delegation`; its `pc` names the `await` it is
about to do.

| `pc` | action | code |
|---|---|---|
| `idle`, `done`, `failed` | `Delegate` | a call of `execute_delegation`, new or a retry |
| `get_completed` | `GetCompleted` | `service.py` 50-52 |
| `reserve` | `Reserve` | 53; the result is not looked at |
| `send` | `Send` | the request of `a2a_transport.py` 28-59 |
| `receive` | `Receive`, `Timeout` | 56-69; only an answer with the asked-for identity is taken |
| `complete` | `Complete` | the upsert of `complete` |
| `verify` | `Verify` | its read-back and comparison |

`ledger[k]` is a row. A ledger operation is atomic here except `complete`, whose upsert
and read-back are two transactions; `PostgresLedger` opens the operations up and is
shown to implement the same `EffectLedger` the rows of `Delegation` implement. `calls`
holds every A2A call made and its fate: `sent`, then `answered`, `refused` or `lost`,
and `received` once the client has processed it. The specialist may answer long after
the client gave up. `Abort` stands for any exception at any `await`, the
`before_complete` hook and cancellation included; `Crash` ends all activations.

A request is its identity: `execute_delegation` never looks at prompt and payload. A
response is an identity and a summary that stands for everything two answers to one
request may differ in. `replay` is a history variable: the tasks that began when their
key was already completed.

### PostgresLedger

`op[c]` is the operation of client `c`: it acquires a connection, executes, commits,
releases; `complete` then goes round again for its read-back. `table` has the committed
rows, `lock[k]` the client whose open transaction locks a row. PostgreSQL is external:
a statement sees committed rows, `DO NOTHING` waits only for an uncommitted insert of
the row, `DO UPDATE` for any transaction that locks it (`MustWait`). Faults: a
connection breaks before or after the commit took effect, the pool times out, the
process stops. `Stored` is what is read back after a payload was written to jsonb: another
payload if jsonb does not preserve it (a float such as `1e23` returns as an integer, which
Python finds different), none if jsonb rejects it (`NaN`, the character NUL): `Reject`
then raises and the row stays pending. In `Delegation` every payload survives storage.

### ReviewRuntime

Extends `Delegation`; a task is an HTTP request in flight. `node[t]` is the graph's next
node, `channels[t]` the run's `GraphState`, `thread[v]` the latest checkpoint of the
conversation. LangGraph is external, and three facts about it are relied on: `ainvoke`
with an input starts at the first node, on the channels of the thread's latest
checkpoint overwritten by the input; a run keeps its channels in memory and saves them
after the input and after each node; runs on one thread do not exclude each other. Saving
a checkpoint is one step with the end of its node. LangGraph may write it in the background
while the next node runs, and a crash may then lose it: the thread then shows an earlier phase
and an older result, which `CheckpointNeverAhead` allows; only the start of a run reads it. The steps of `Delegation` are taken as
they are: only `Intake` begins a delegation, only the `delegate` node advances one.
`ProcessStops` is `Crash` for the delegations plus the loss of runs and `_fail_once_seen`.

### LocalReview

Extends `MemoryLedger`. `heap` maps references to what Python objects say, `items` keys to
the references of the ledger. `deepcopy` writes the same value under a reference nobody
has (`Fresh`); objects nobody refers to are gone, so `Refs` bounds the objects alive and not
those ever made. A call that would need one more waits (`CanCopy`), which the code never
does; with as many references as rows and tasks, and one to spare, none does. The
record of a key (`Row`) is what its object says *now*. `Change` is the caller that changes
the facts of a response it got: the response shares them with the payload.

`Submit` is `execute_once` up to the delegation: `build_identity` or the construction in
`run_review` (`Builders`) takes the ids of the command or draws new ones, and an identity
that does not validate raises. The two builders disagree about the empty string only:
one has it validated, and refused, the other replaces it. uuid4 draws no id twice. The steps after that
are those of `execute_delegation`, one per `await`. asyncio switches tasks at an `await` only
if it has to wait, so the interleavings of the model include those of the program; the
ledger's lock is never held across an `await`, so its operations are single steps.

### SpecialistService

A service behind A2A as its callers see it (`calls`) and what it does for each call (`run`).
`settings` never changes; it selects the runtime and, through `TextClient`, the backend, or
none, in which case the service does not start and every call is lost. Agno makes one
inference in the handler's coroutine. A crew waits in `queue` for one of the `Workers`
threads of asyncio's executor and makes two inferences. `Infer` takes any reply of the
provider's SDK, or its exception, through the adapter's checks (`OpenAIText`, `GatewayText`)
and the framework's treatment of failures to a summary. `GiveUp` is the caller's timeout:
nothing tells the handler, so the run goes on and `Delivered` reaches nobody.

What a model is told is modelled by the requests it is about (`Text`, `Topics`). Agno loads
the session of the conversation when a run begins (`history`, in `Handle`) and stores what
the run was told when it ends (`Advance`), failed runs and overlapping ones included;
`Crash` stops all runs and keeps `sessions`. The prompt is the request's, plus the history if
`AddHistoryToContext` says so (`agno_specialist.py` line 31). A crew's first task describes
the request; the second has only the first one's output for its context (`CrewMessages`).
`ContextIsOwn` follows these texts from prompt to prompt: with history switched on, the
second of two requests of a conversation is told of the first, and the run finds it.

The frameworks and SDKs are external. Relied on: Agno catches what a model raises and reports it
in the status of its output, with the error as content; CrewAI lets it through and may
find no final answer in a text; the tasks of a crew run one after the other; the executor
takes crews in order. In a reply, `whole` is the provider's own knowledge
that it finished and said nothing but text; no adapter reads it.

A definition whose comment begins with "Variant" is a plausible defect of the definition
below it. Nothing uses the variants; `PROJECT.json` pairs each property with one of
them, and the property fails when the variant takes the definition's place.

## 3. Runs

| run | instance | checks |
|---|---|---|
| `delegation_requests` | 2 tasks, 2 identities, 1 summary, 1 fault, 6 calls | `TypeOK`, `CallsAreReserved`, `RecordedResultWasAnswered`, `AnswerIsOwn`, and `IInv`, the invariant of the proofs |
| `delegation_faults` | 2 tasks, 1 identity, 2 summaries, 1 fault, 5 calls | `ReplayNeverCalls`, `BoundedDuplicates` and `BudgetInv` behind it; refinement of `EffectLedger` and `ReplaySafeEffect`; `EveryDelegationEnds`, `PendingIsResolved` |
| `postgres_safety` | 3 clients, 1 key, 4 payloads (2 preserved, 1 changed, 1 rejected), pool of 2, 2 faults | `TypeOK`, `OneReservation`, `AnswersAreDurable`, `IInv`; refinement of `EffectLedger` |
| `postgres_liveness` | 3 clients, 1 key, 2 payloads (1 preserved, 1 rejected), pool of 2, no faults | `OperationsEnd` |
| `local_review` | 2 tasks, 5 commands (both ids, or one missing or empty), 2 execution ids and 1 delegation id to draw, 2 calls, 5 objects | `TypeOK`, `ReusedIsIdentified`, `SameCommandSameAnswer`, `RecordsAreUnaliased`, `IInv`; refinement of `EffectLedger` and `ReplaySafeEffect` |
| `specialist` | both runtimes, 4 configurations, 2 calls of one conversation, all replies of up to 2 items, 1 thread, 1 restart | `AnswersAreWhole`, `NoLocalRetry`, `ContextIsOwn`, `SelectedBackendOnly`; refinement of `SpecialistCalls`; `CallsEnd`, `EveryRunEnds` |
| `review_safety` | 2 requests, 2 executions of one conversation, injected failures, 1 fault (a crash of the process included), 4 calls | `CheckpointNeverAhead`, `RepliesAreOwn`, `InjectedFailureIsReplayable` |
| `review_liveness` | 2 requests for one execution, injected failures, 1 fault, 1 other failure | `ReviewIInv`, the invariant of the proofs; `EveryReviewEnds`, `RetriedReviewsComplete` |
| `delegation_readme` | 1 task, 1 fault | violated: `RespondsOnce` |
| `delegation_colliding_keys` | 1 task, no fault, two identities with one key | violated: `AnswerIsOwn` |
| `review_resume` | 1 request, 1 failure | violated: `ResumesFromCheckpoint` |
| `specialist_empty` | as `specialist` | violated: `AnswersAreModelText` |

**Bounds.** `MaxCalls` bounds the calls ever made, `MaxFaults` and `MaxStops` the
failures, `Cardinality(Tasks)` the concurrency; tasks delegate again and again without a
bound. Two tasks are what a race for a row needs: one that reads before and one that
writes after. In `delegation_requests` six calls are enough
for every task to call for every key and once more after a crash of all;
`delegation_faults` has one key, for which five calls are enough for two tasks that
race, fail together and race again. In these instances no task is ever stopped for want of a
call (they are checked for deadlock). One fault keeps the liveness of `delegation_faults` within
minutes; that more faults break none of its safety properties is proved (section 5).
`review_safety` has four calls and does not continue from states that used them all
(constraint `CallsLeft`): three calls are a race for one key and a call for the other, or
a crash and its retry. Keys are independent of each other in the ledger, so one key is
enough for `PostgresLedger`; with three clients and two connections the pool is
exhausted while a row is locked.
`local_review` has two calls, a race or a first call and a second after its failure; both
are used up in the end, and then commands that miss wait for ever, so it is not checked for deadlock.
Neither is `specialist`, where the calls are used up. One thread for two crews is the
full queue; two calls of one conversation are a request and its retry or its neighbour. Replies
are all outputs of up to two items out of six (reasoning, text, blank text, cut-off text,
text with a refusal, a function call) with each way a response ends.

**Symmetry** is used in runs that check safety only: tasks, clients and summaries are
interchangeable, and so are the drawn execution ids in `local_review`. Identities are
written out and not symmetric.

**Fairness.** `Delegation`: weak fairness of every task's next step (the event loop runs
ready coroutines) and of `Answer` (each call meets a fate: the specialist answers, or the
call is refused or lost, after which the client's 60 s timeout ends it). Nothing makes
faults or delegations happen. `PostgresLedger`: strong fairness of `Acquire` and
`Execute`, because the pool and PostgreSQL serve waiters in order. `SpecialistService`: weak
fairness of each call's next step: coroutines and threads run, the executor's queue is in order,
and an inference ends at the latest with the timeout its SDK client is given (`openai_text.py`
76, `config.py` 32 and 44). `CallsEnd` is what the fairness of `Answer` in `Delegation` assumes of a specialist. `ReviewRuntime`: weak
fairness of each run's progress. Two properties need more, and state it as their own
hypothesis: `PendingIsResolved` that callers retry, `RetriedReviewsComplete` that clients
resend and the process is started again.

## 4. What the violation runs show

* `delegation_readme`. README item 8: "A crash after the specialist responds can be
  retried without invoking that specialist twice." That holds after `complete`, not
  between the answer and `complete`: the retry calls again. The README's section on
  failure injection, ADR 0008 and `execute_delegation`'s docstring describe this.
  What does hold is `ReplayNeverCalls` and `BoundedDuplicates`; and for callers whose
  delegations of a key do not overlap, theorem `RecordedIsFinal`: once the response is
  recorded no call is made for the key.
* `delegation_colliding_keys`. A colon joins the parts of the key and is allowed inside
  them. Two identities can share a key, and the second gets the first one's answer,
  because only answers from the transport are compared with the request's identity.
  `AnswerIsOwn` is therefore proved only for identities with different keys
  (theorem `OwnAnswer`), and `delegation_requests` checks it for such. Which identities share
  a key is theorem `KeysCollide`, and whose answer a client can get, theorem
  `AnswersAreOfRelatedIds`.
* `review_resume`. The endpoint's docstring says "Execute or resume"; `run_review` always
  starts at `intake`, and the checkpoint falls back to `received`. The ledger, not the
  checkpoint, is what makes the retry cheap.
* `specialist_empty`. ADR 0006: "Fail on [...] empty successful output. Never convert those
  failures into a completed specialist response." The backends and the Agno specialist do
  fail; `_run_crew` replaces empty output of a crew by "CrewAI specialist returned no text.",
  which is answered, and recorded under the key, as a completed review. Of Agno the sentence
  is a theorem (`AgnoAnswersWithModelText`).

## 5. What is proved

`DelegationProofs`, for every number of tasks, identities, keys, summaries, calls and
faults, from `DelegationAssumption` (`KeyOf` is a function into `Keys`, the bounds are
naturals, `None` is not a value):

| theorem | statement |
|---|---|
| `Invariance`, `TypeCorrect` | `Spec => []IInv`, `Spec => []TypeOK` |
| `EveryCallIsReserved` | no call before its key is reserved |
| `ReplayIsSafe` | a delegation begun on a completed key makes no call |
| `RecordIsGenuine` | what is recorded was answered to a call for that identity |
| `OwnAnswer` | distinct keys imply own answers |
| `ImplementsLedger` | `Spec => LedgerSpec`: the rows obey the port |
| `ImplementsEffect` | `Spec => EffectSpec`: a replay-safe effect |

The argument. The properties are not inductive: nothing in `CallsAreReserved` says why a
task in `send` has a reserved row. `IInv` adds four facts about where a task is.
`ReservedFirst`: from `send` on the row exists, at `verify` it is completed.
`ReplayIsSettled`: a replaying task's key stays completed and it never gets past
`get_completed`. `AnswerIsHeld`: a task waits for a call of its own request, and carries
a response that call received. `ServedIsRecorded`: what a delegation returned is what the
row holds, then and ever after. Three lemmas carry the induction: rows only grow
(`LedgerGrows`), calls keep their request and received calls everything (`CallsGrow`), and
a task changes only by its own step, a call or a failure (`TaskChanges`). Then there is
one lemma for each conjunct, and the refinements map each action to a step of the
abstract module or to a stutter. `ServedIsRecorded` is what makes a successful `Verify`
a `Return` of the recorded value.

`ReviewRuntimeProofs`, from `DelegationAssumption` and `ReviewAssumption` (every identity has
a conversation, `MaxStops` is a natural, `None` is no phase):

| theorem | statement |
|---|---|
| `ReviewInvariance`, `ReviewTypeCorrect` | `ReviewSpec => []ReviewIInv`, `ReviewSpec => []ReviewTypeOK` |
| `ReviewUsesDelegation` | `ReviewSpec => Spec`: every theorem above holds of the orchestrator |
| `ReviewsAreReplaySafe` | `ReviewSpec => EffectSpec` |
| `CheckpointsAreNeverAhead` | a checkpoint past `delegate` holds what the ledger holds for its key |
| `EveryReplyIsOwn` | a reply is built from the result recorded for its request |
| `InjectedFailuresAreReplayable` | an injected failure leaves a recorded result behind |

The argument. `ReviewUsesDelegation` maps each step of the orchestrator to a step of
`Delegation` or to none; it needs `ReviewTypeOK`, because `Intake` delegates whatever its
channels hold. `ReviewIInv` joins `IInv` with the properties and with two facts they rest on:
`RunsAreRecorded` (a run past `delegate` holds a recorded result, so what it checkpoints is
recorded) and `CheckpointsAreNamed`. `RecordedStays` carries the induction: a completed row
never changes, so a step that writes no checkpoint keeps everything (`QuietStep`), and one that
moves a run forward needs only its own new state to be recorded (`AdvanceStep`). There is one
lemma for each action; `ServedIsRecorded` of `Delegation` is what `DelegateReturns` needs.

`DelegationDuplicates`, from `DelegationAssumption`:

| theorem | statement |
|---|---|
| `BudgetIsKept` | for finitely many tasks, the accounting `BudgetInv` |
| `DuplicatesAreBounded` | for finitely many tasks, the specialist is called for a key at most once per task, and once more per task for every fault |
| `RecordedIsFinal` | if delegations of a key do not overlap, a completed key is never called for again, and no result is refused in the read-back |

The argument of the bound is a budget. A task is *spent* for a key while it waits for a call that can still be
answered well, or carries such an answer to `complete` (`IsSpent`); otherwise it may call once more, unless the
key is completed and the task is not already past `get_completed` (`MaySend`). `BudgetInv` bounds the calls of a
key and the tasks that may still call together. `Send` turns a task that may call into a
spent one. Short of a fault a spent task stays so until the key is completed, for which `OneWaiter` is
needed: no other task takes its answer. A fault can return every task to those that may call, and raises the
budget by as many. For `RecordedIsFinal` the strengthening is `NobodyWasFaster`: on its way from
`reserve` to `complete` a delegation's row is not completed, because nobody else writes it.
That delegations of a key do not overlap (`OneAtATime`) is a hypothesis about the callers: nothing in the code enforces it.

`IdentityKeysProofs`, for ids of any length over any set of tokens that has the colon, so also
for strings of characters:

| theorem | statement |
|---|---|
| `KeysCollide` | two identities share a key exactly if their execution and delegation ids are the same or one pair is the other with a colon shifted between the ids |
| `DrawnKeysDiffer` | with execution ids of the same length, as the drawn ones have, only the same ids share a key |
| `ColonFreeKeysDiffer` | with execution ids without a colon, only the same ids share a key |

The argument. The key of an identity is its ids joined by colons; the operation is the same for all, so it cancels.
Of two equal joins `a:b` and `c:d` with `a` not longer than `c`, either `a` and `c` have the
same length and are equal token by token, or `c` begins with `a` and a colon; the rest of `c` is then
what `b` begins with (`JoinedAlike`).

`OrchestratorProofs` puts these and `ReviewRuntimeProofs` together:

| theorem | statement |
|---|---|
| `AnswersShareTheKey` | whatever the keys are, what a delegation returns names an identity with its own key |
| `AnswersAreOfRelatedIds` | with the keys of `domain/identity.py`, it has the same execution and delegation id, or ids that a colon shifts |
| `OwnAnswerOfDistinctIds`, `ReviewsReturnOwnAnswers` | `[]AnswerIsOwn` of delegations and of the orchestrator, for ids that name one identity and that no colon shifts |
| `ClientsGetTheirOwn` | under the same hypotheses, the reply to a review is built from an answer that names the identity of its request |
| `ReviewDuplicatesAreBounded` | `[]BoundedDuplicates` of the orchestrator |
| `ExpectsThePromise` | as long as no answer comes for somebody else (`Misanswer`), the calls of `Delegation` are those of `SpecialistCalls` |
| `NobodyWaitsInVain` | the call a task waits for can still be answered, taken or given up |
| `NoRunIsStranded` | a run under way stands before a node it can enter, or in a delegation that goes on or is over |

The hypotheses on ids (`KeysAreComputed`, `IdsAreDistinct`) are about the clients: the code
accepts any ids. They exclude that two conversations use the same execution and delegation ids,
because the key leaves the conversation out.

The argument. A row holds what was answered to a call under its key (`RowSharesKey`), and the key says who
may have made the call. For `ExpectsThePromise` a received call is seen as the answer or the refusal it was before it was
received, which `CallsAreBlank` tells apart (a response comes only with an answer); each action is then one of
`SpecialistCalls` or a stutter. `SpecialistServiceProofs` shows from the other side that a service keeps this promise.
`NobodyWaitsInVain` and `NoRunIsStranded` are the safety at the bottom of the liveness properties:
together with fairness, which TLC adds, they are why everybody who waits stops waiting. The first one needs `OneWaiter`.

`PostgresLedgerProofs`, from `PostgresAssumption` (finitely many clients, a pool of at least one
connection, `Stored` any function) and `RowAssumption` (`None` is no row):

| theorem | statement |
|---|---|
| `Invariance`, `TypeCorrect` | `Spec => []IInv`, `Spec => []TypeOK` |
| `ReservedOnce` | at most one `reserve` of a key is ever told True |
| `DurableAnswers` | what an operation answered stays true |
| `NoDeadlock` | whoever waits for a row waits for a transaction that only has to commit; if the pool is exhausted, one of those that have a connection waits for nothing |
| `ImplementsLedger` | the committed table obeys the port |

The argument. `PreparedIsCurrent`: what an open transaction is about to commit is what its
statement makes of the row *now*, because the row is locked since the statement; a
`reserve` that found the row there locks nothing and commits nothing. `StillHolds`: what an
operation found out about its row stays true, because rows never lose a completion.
`GrantsAreNew` turns the first into at most one grant. The steps fall into those that touch
neither row nor lock, those that lock, and those that end a transaction, with one lemma each
(`MoveKeeps`, `WriteKeeps`, `EndKeeps`); `CommittedRow` says what a commit does to the table.
`NoDeadlock` follows from the invariant: a row is locked only by a transaction past its only statement.

`LocalReviewProofs`, from `LocalAssumption` (given ids are never drawn, the keys are those of
all ids, `None` and the markers are no values):

| theorem | statement |
|---|---|
| `Invariance`, `TypeCorrect` | `Spec => []IInv`, `Spec => []TypeOK` |
| `NoAliases` | no caller holds an object of the ledger |
| `ReuseNeedsIds` | only a command with both ids is answered from the ledger |
| `AnswersAgree` | all replies to such a command say the same |
| `ImplementsLedger` | the rows, read through the references, obey the port |
| `ImplementsEffect` | one result per key, returned by every delegation that succeeds |

The argument. A write to an object reaches a row only through a shared reference, so
`RecordsAreUnaliased` and `DocsAreOwn` (no two tasks hold one object) make `Change` harmless.
`NewIsAlone`: a delegation with a drawn id starts under a key nobody has used, because
the ids in the keys in use were given or drawn before (`KeysAreKnown`); so it misses, and
what is reused was identified. `ReturnedIsRecorded` joins the reply to the row: with it
both ways to return, a hit and one's own completion, are a `Return` of the effect.

`SpecialistServiceProofs`, from `ServiceAssumption` (configurations are settings, at least one
thread, `None` is no value), `TextAssumption` (what an adapter makes of a reply is a
sequence of words or nothing) and `ProviderAssumption` (a provider's reply that was cut off, failed, or
says anything besides text shows it in its status, its error, its end or one of its items; no adapter
can know more, and the replies TLC enumerates satisfy it):

| theorem | statement |
|---|---|
| `Invariance`, `TypeCorrect` | `Spec => []IInv`, `Spec => []TypeOK`, with the queue and the threads |
| `InferencesAreNotRetried` | as many model calls as tasks, none after a failure |
| `ContextsAreSeparate` | an inference is told of no request but its own, whatever the session holds |
| `BackendIsSelected` | the selected backend, with its own credentials |
| `AnswersStandOnWholeReplies` | `Spec => []AnswersAreWhole`: no failed or partial generation becomes an answer |
| `AgnoAnswersWithModelText` | Agno's answers are the text of their inference |
| `KeepsPromise` | `Spec => CallsSpec`: the promise `Delegation` relies on |

The argument. `RunsAreCalled` ties what the service does to the calls: no run without a call
and a backend, no response for a caller that waits. `InferencesAreLeft`: a run about to infer
has made fewer inferences than its runtime has tasks, and none of them failed; that makes
`NoLocalRetry` inductive. `QueueIsWaiting` (each waiting crew is in the queue exactly once)
gives a thread to a crew that has none, so `Busy` grows by one, and only below `Workers`
(`ThreadsSuffice`). `MessagesAreOwn` carries `ContextIsOwn` from the first inference of a crew
to the second, through the output between them, and keeps the session, of which nothing is
assumed but its type, out of Agno's prompt; it is what fails if history is added to the context.
`AdvanceKeeps` covers all ends of an inference at once.
`AnswersAreWhole` needs `AnswerInv`: an adapter makes a text of whole replies only (`TextIsWhole`,
where `ProviderAssumption` meets each of the adapters' checks), an analysis ends with a failure or with the output
of its last inference, and nothing is inferred for a call that was answered.

The bound `MaxCalls` is part of the specification the theorems are about; as it is an
arbitrary natural number, they cover every finite history.

## 6. Only model-checked

Liveness: `EveryDelegationEnds`, `PendingIsResolved`, `OperationsEnd`, `EveryReviewEnds`,
`RetriedReviewsComplete`, `EveryRunEnds` and `CallsEnd` rest on fairness, which is out of the proof
system's reach here; what they rest on besides is proved (`NobodyWaitsInVain`, `NoRunIsStranded`,
`NoDeadlock`). That the four violation runs are violations is shown by their counterexamples. Every
invariant and every safety property of a step that a passing run checks is the conclusion of a theorem.

What the text of a reply *is*, a fold over its items, is not proved for all replies: that needs
induction over data. The proofs use only when an adapter makes a text, not which.

## 7. Plan

Done: the survey; `EffectLedger`, `ReplaySafeEffect`, `Delegation`, `ReviewRuntime`,
`PostgresLedger`, `LocalReview` and `SpecialistService` with their proofs; `IdentityKeys` with its
proofs, `TextBackends`, `SpecialistCalls`; `OrchestratorProofs`. Left:

1. `Delegation` with payloads that storage changes, so that the first reply and the replays of
   a review may differ as `PostgresLedger`'s payloads do.
2. The shapes `_extract_text` and `_request_text` accept, as operators over small documents.

## 8. Not modelled, and why

* `observability.py`: spans and events change no modelled state and are never read.
* `examples/`: sequential scripts with local variables that illustrate designs the
  repository rejects; nothing of the system runs in them.
* The insides of the frameworks, SDKs, PostgreSQL and LangGraph, beyond the facts stated in
  section 2.
* Parsing of A2A bodies: the outcomes (an answer, an error, a refusal) are modelled, the shapes
  of the documents are not.
* Contents of prompts and payloads; length limits other than the summary's, numeric limits and
  URLs of the configuration, schema versions, and ids refused for a character (only the
  empty one is modelled): each is a check that raises before any state changes.

## 9. Running

    tlc -workers 2 -config delegation_requests.cfg MCDelegation.tla
    tlapm DelegationProofs.tla
    tlapm ReviewRuntimeProofs.tla
    tlapm DelegationDuplicates.tla
    tlapm PostgresLedgerProofs.tla
    tlapm LocalReviewProofs.tla
    tlapm SpecialistServiceProofs.tla
    tlapm IdentityKeysProofs.tla
    tlapm OrchestratorProofs.tla

Each run's module and configuration are in `PROJECT.json`; the longest take between one
and two minutes on two cores.
