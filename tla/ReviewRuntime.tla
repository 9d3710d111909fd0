--------------------------- MODULE ReviewRuntime ---------------------------
(***************************************************************************)
(* The orchestrator: a review request runs the graph intake -> delegate -> *)
(* finalize (adapters/langgraph_runtime.py) behind POST /v1/reviews        *)
(* (entrypoints/api.py).  The delegate node runs execute_delegation, which *)
(* is module Delegation; a task here is one HTTP request in flight.        *)
(*                                                                         *)
(* LangGraph is external.  What run_review relies on: ainvoke with an      *)
(* input starts at the first node, on the channels of the thread's latest  *)
(* checkpoint overwritten by that input; a run keeps its channels in       *)
(* memory and saves them after the input and after every node; runs of     *)
(* one thread do not exclude each other.  The thread is the conversation,  *)
(* so executions of one conversation share a thread.                       *)
(***************************************************************************)
EXTENDS Delegation

CONSTANTS
    Conversations,      \* conversation_id, the LangGraph thread
    ConversationOf,     \* [Identities -> Conversations]
    DelegationOf,       \* delegation_id of each identity
    FailOnce,           \* settings.fail_after_specialist_once
    MaxStops            \* bounds the failures outside execute_delegation

\* The phases the nodes write.
Phases == {"received", "delegating", "specialist_completed", "completed"}

ASSUME ReviewAssumption ==
    /\ ConversationOf \in [Identities -> Conversations]
    /\ DelegationOf = [i \in Identities |-> DelegationOf[i]]
    /\ FailOnce \in BOOLEAN
    /\ MaxStops \in Nat
    /\ None \notin Phases

VARIABLES
    node,       \* [Tasks -> node the run executes next, or how it ended]
    channels,   \* [Tasks -> GraphState of the run]
    thread,     \* [Conversations -> latest checkpoint of the thread]
    failSeen,   \* _fail_once_seen
    up,         \* the process serves requests
    stops       \* failures outside execute_delegation so far

graphVars == <<node, channels, thread, failSeen, up, stops>>
reviewVars == <<vars, graphVars>>

-----------------------------------------------------------------------------
(* GraphState.                                                             *)

NoState == [request |-> None, phase |-> None, result |-> None, reused |-> FALSE,
            summary |-> None]

\* run_review's input overwrites these channels and leaves the others as the
\* thread's last run left them.
WithInput(state, i) ==
    [state EXCEPT !.request = i, !.phase = "received", !.reused = FALSE]

\* Variant: a result the thread already has is kept.
WithResponseKept(state, a) ==
    [state EXCEPT !.phase = "specialist_completed", !.reused = a.reused,
                  !.result = IF @ = None THEN a.response ELSE @]

\* The updates the delegate node returns.
WithResponse(state, a) ==
    [state EXCEPT !.phase = "specialist_completed", !.result = a.response, !.reused = a.reused]

\* langgraph_thread_id
ThreadOf(i) == ConversationOf[i]

Active == {"intake", "delegate", "finalize"}
IsActive(t) == node[t] \in Active

RequestOf(t) == channels[t].request

\* The run moves on to node n with these channels and checkpoints them.
Advance(t, n, state) ==
    /\ node' = [node EXCEPT ![t] = n]
    /\ channels' = [channels EXCEPT ![t] = state]
    /\ thread' = [thread EXCEPT ![ThreadOf(state.request)] = state]

\* What is left of a run that raised: the request the client sent.
OnlyRequest(state) == [NoState EXCEPT !.request = state.request]

\* The run ends with an exception, which the endpoint turns into a 503.
Raise(t) ==
    /\ node' = [node EXCEPT ![t] = "error"]
    /\ channels' = [channels EXCEPT ![t] = OnlyRequest(@)]
    /\ UNCHANGED thread

ReviewInit ==
    /\ Init
    /\ node = [t \in Tasks |-> "none"]
    /\ channels = [t \in Tasks |-> NoState]
    /\ thread = [v \in Conversations |-> NoState]
    /\ failSeen = {}
    /\ up = FALSE
    /\ stops = 0

\* POST /v1/reviews while the runtime is up: ainvoke with a fresh input.
Submit(t, i) ==
    /\ ~IsActive(t)
    /\ up
    /\ Advance(t, "intake", WithInput(thread[ThreadOf(i)], i))
    /\ UNCHANGED <<vars, failSeen, up, stops>>

\* POST /v1/reviews before the lifespan built the graph, or to a process that
\* is down: an error, and nothing runs.
SubmitTooEarly(t, i) ==
    /\ ~IsActive(t)
    /\ ~up
    /\ node' = [node EXCEPT ![t] = "error"]
    /\ channels' = [channels EXCEPT ![t] = [NoState EXCEPT !.request = i]]
    /\ UNCHANGED <<vars, thread, failSeen, up, stops>>

\* The intake node; the delegate node then begins the delegation.
Intake(t) ==
    /\ node[t] = "intake"
    /\ Advance(t, "delegate", [channels[t] EXCEPT !.phase = "delegating"])
    /\ Delegate(t, RequestOf(t))
    /\ UNCHANGED <<failSeen, up, stops>>

\* execute_delegation runs inside the delegate node.
DelegationStep(t) ==
    /\ node[t] = "delegate"
    /\ Step(t) \/ Abort(t)
    /\ UNCHANGED graphVars

\* The specialist's side goes on whether the orchestrator is up or not.
SpecialistStep(c) == Environment(c) /\ UNCHANGED graphVars

\* Variant: the node takes the response before the ledger has it.
HasResponseEarly(t) == task[t].pc \in {"complete", "done"}

\* execute_delegation has returned.
HasResponse(t) == task[t].pc = "done"

\* Variant: the hook forgets what it has failed.
HookFailsAlways(i) == FailOnce

\* _failure_hook raises for the first delegation of an id in this process.
HookFails(i) == FailOnce /\ DelegationOf[i] \notin failSeen

\* The delegate node ends: its updates are checkpointed, unless the hook
\* raises, in which case they are dropped.
DelegateReturns(t) ==
    /\ node[t] = "delegate"
    /\ HasResponse(t)
    /\ \/ /\ HookFails(RequestOf(t))
          /\ failSeen' = failSeen \cup {DelegationOf[RequestOf(t)]}
          /\ Raise(t)
       \/ /\ ~HookFails(RequestOf(t))
          /\ Advance(t, "finalize", WithResponse(channels[t], task[t]))
          /\ UNCHANGED failSeen
    /\ UNCHANGED <<vars, up, stops>>

\* execute_delegation raised, and so does the node.
DelegateRaises(t) ==
    /\ node[t] = "delegate"
    /\ task[t].pc = "failed"
    /\ Raise(t)
    /\ UNCHANGED <<vars, failSeen, up, stops>>

\* The finalize node; the reply is built from the run's channels.
Finalize(t) ==
    /\ node[t] = "finalize"
    /\ Advance(t, "replied", [channels[t] EXCEPT !.phase = "completed",
                                                 !.summary = channels[t].result.summary])
    /\ UNCHANGED <<vars, failSeen, up, stops>>

-----------------------------------------------------------------------------
(* Failures of the orchestrator.                                           *)

Stop == stops < MaxStops /\ stops' = stops + 1

\* A node or the checkpointer raises outside execute_delegation.
NodeFails(t) ==
    /\ node[t] \in {"intake", "finalize"}
    /\ Raise(t)
    /\ Stop
    /\ UNCHANGED <<vars, failSeen, up>>

\* The process stops: runs, activations and _fail_once_seen are gone, the
\* database is not.
ProcessStops ==
    /\ up
    /\ up' = FALSE
    /\ failSeen' = {}
    /\ node' = [t \in Tasks |-> IF IsActive(t) THEN "error" ELSE node[t]]
    /\ channels' = [t \in Tasks |-> IF IsActive(t) THEN OnlyRequest(channels[t]) ELSE channels[t]]
    /\ \/ Crash /\ UNCHANGED stops
       \/ (\A t \in Tasks : ~IsRunning(t)) /\ Stop /\ UNCHANGED vars
    /\ UNCHANGED thread

\* lifespan() builds the graph on the same database.
ProcessStarts ==
    /\ ~up
    /\ up' = TRUE
    /\ UNCHANGED <<vars, node, channels, thread, failSeen, stops>>

-----------------------------------------------------------------------------
RunStep(t) ==
    \/ Intake(t)
    \/ DelegationStep(t)
    \/ DelegateReturns(t)
    \/ DelegateRaises(t)
    \/ Finalize(t)

ReviewNext ==
    \/ \E t \in Tasks : \/ RunStep(t) \/ NodeFails(t)
                        \/ \E i \in Identities : Submit(t, i) \/ SubmitTooEarly(t, i)
    \/ \E c \in CallIds : SpecialistStep(c)
    \/ ProcessStops
    \/ ProcessStarts

ReviewSpec == ReviewInit /\ [][ReviewNext]_reviewVars

\* The event loop drives every run; the specialist answers (see Delegation).
\* A fair run need not abort its delegation: Step is fair, Abort is not.
RunProgress(t) ==
    \/ Intake(t)
    \/ node[t] = "delegate" /\ Step(t) /\ UNCHANGED graphVars
    \/ DelegateReturns(t)
    \/ DelegateRaises(t)
    \/ Finalize(t)

ReviewFairness ==
    /\ \A t \in Tasks : WF_reviewVars(RunProgress(t))
    /\ \A c \in CallIds : WF_reviewVars(Answer(c) /\ UNCHANGED graphVars)

FairReviewSpec == ReviewSpec /\ ReviewFairness

\* A client that sends the same request again after an error.
Resubmit(t) ==
    node[t] = "error" /\ (Submit(t, RequestOf(t)) \/ SubmitTooEarly(t, RequestOf(t)))

-----------------------------------------------------------------------------
(* Properties.                                                             *)

StateType ==
    [request : Identities \cup {None}, phase : Phases \cup {None},
     result : Response \cup {None}, reused : BOOLEAN, summary : Summaries \cup {None}]

\* The delegate node is where, and only where, a delegation is running.
ReviewTypeOK ==
    /\ TypeOK
    /\ node \in [Tasks -> Active \cup {"none", "replied", "error"}]
    /\ channels \in [Tasks -> StateType]
    /\ thread \in [Conversations -> StateType]
    /\ failSeen \subseteq {DelegationOf[i] : i \in Identities}
    /\ up \in BOOLEAN
    /\ stops \in 0..MaxStops
    /\ \A t \in Tasks : IsActive(t) => up /\ RequestOf(t) \in Identities
    /\ \A t \in Tasks : IsRunning(t) => node[t] = "delegate"
    /\ \A t \in Tasks : node[t] = "delegate" => task[t].request = RequestOf(t)

\* The result a run or a checkpoint holds is the one recorded for its request.
Recorded(state) == ledger[KeyOf[state.request]] = Completed(state.result)

\* A checkpoint that says the specialist is done, or a review is completed,
\* never runs ahead of the effect ledger: the ledger holds that very result
\* under the checkpoint's own key, across crashes, failing hooks and several
\* runs that write the same thread.
CheckpointNeverAhead ==
    \A v \in Conversations :
        thread[v].phase \in {"specialist_completed", "completed"} => Recorded(thread[v])

\* The reply to a request is built from the result recorded for its own key,
\* although other executions of the conversation overwrite the thread's
\* channels while the run is under way.
RepliesAreOwn ==
    \A t \in Tasks : node[t] = "replied" =>
        /\ channels[t].phase = "completed"
        /\ IsCompleted(ledger[KeyOf[RequestOf(t)]])
        /\ channels[t].result = ledger[KeyOf[RequestOf(t)]].payload
        /\ channels[t].summary = channels[t].result.summary

\* README: "The first request fails after the completed specialist response
\* is recorded."  An injected failure finds the result in the ledger, so by
\* ReplayNeverCalls its retry costs no second call.
InjectedFailureIsReplayable ==
    \A d \in failSeen : \E i \in Identities :
        DelegationOf[i] = d /\ IsCompleted(ledger[KeyOf[i]])

\* A run past the delegate node holds a recorded result, and so does a reply.
RunsAreRecorded ==
    \A t \in Tasks :
        /\ node[t] \in {"finalize", "replied"} => Recorded(channels[t])
        /\ node[t] = "replied" => /\ RequestOf(t) \in Identities
                                  /\ channels[t].phase = "completed"
                                  /\ channels[t].summary = channels[t].result.summary

\* A checkpoint that was ever written names its request.
CheckpointsAreNamed ==
    \A v \in Conversations : thread[v].phase # None => thread[v].request \in Identities

\* The steps of the orchestrator keep these, together with the invariant of
\* the delegations they are made of.
ReviewIInv ==
    /\ IInv
    /\ ReviewTypeOK
    /\ RunsAreRecorded
    /\ CheckpointsAreNamed
    /\ CheckpointNeverAhead
    /\ InjectedFailureIsReplayable

\* Every request gets its reply or its error.
EveryReviewEnds == \A t \in Tasks : IsActive(t) ~> ~IsActive(t)

\* A client that keeps sending the same request gets a completed review in the
\* end, through injected failures and restarts.  The retries and the restarts
\* are not the orchestrator's, so they are hypotheses.
RetriedReviewsComplete ==
    (WF_reviewVars(ProcessStarts) /\ \A t \in Tasks : WF_reviewVars(Resubmit(t)))
        => \A t \in Tasks : node[t] = "error" ~> node[t] = "replied"

Rank(phase) ==
    CASE phase = "received" -> 1
      [] phase = "delegating" -> 2
      [] phase = "specialist_completed" -> 3
      [] phase = "completed" -> 4
      [] OTHER -> 0

\* api.py: "Execute or resume one review under the canonical conversation
\* identity."  A review that is resumed goes on from its checkpoint, so the
\* checkpoints of one request never fall back to an earlier phase.
ResumesFromCheckpoint ==
    [][\A v \in Conversations : thread'[v].request = thread[v].request
            => Rank(thread'[v].phase) >= Rank(thread[v].phase)]_reviewVars
=============================================================================
