-------------------------- MODULE ReviewRuntimeProofs --------------------------
(***************************************************************************)
(* The orchestrator uses execute_delegation as Delegation describes it, so *)
(* every theorem about Delegation is one about the orchestrator; and its   *)
(* checkpoints and replies never run ahead of the effect ledger.           *)
(***************************************************************************)
EXTENDS ReviewRuntime, DelegationProofs

-----------------------------------------------------------------------------
(* The orchestrator takes the steps of Delegation and no others.           *)

\* Whatever a step of the orchestrator does to the ledger, the calls and the
\* activations is a step of Delegation, or nothing.
LEMMA ReviewStep ==
    ASSUME ReviewTypeOK, [ReviewNext]_reviewVars
    PROVE  [Next]_vars
  <1>1. ASSUME NEW t \in Tasks, Intake(t) PROVE Next
    <2>1. RequestOf(t) \in Identities /\ Delegate(t, RequestOf(t))
      BY <1>1 DEF Intake, ReviewTypeOK, IsActive, Active
    <2> QED
      BY <2>1 DEF Next
  <1>2. ASSUME NEW t \in Tasks, DelegationStep(t) PROVE Next
    BY <1>2 DEF DelegationStep, Next
  <1>3. ASSUME NEW t \in Tasks, DelegateReturns(t) \/ DelegateRaises(t) \/ Finalize(t)
        PROVE  UNCHANGED vars
    BY <1>3 DEF DelegateReturns, DelegateRaises, Finalize
  <1>4. ASSUME NEW t \in Tasks, NEW i \in Identities, Submit(t, i) \/ SubmitTooEarly(t, i)
        PROVE  UNCHANGED vars
    BY <1>4 DEF Submit, SubmitTooEarly
  <1>5. ASSUME NEW t \in Tasks, NodeFails(t) PROVE UNCHANGED vars
    BY <1>5 DEF NodeFails
  <1>6. ASSUME NEW c \in CallIds, SpecialistStep(c) PROVE Next
    BY <1>6 DEF SpecialistStep, Next
  <1>7. CASE ProcessStops
    BY <1>7 DEF ProcessStops, Next
  <1>8. CASE ProcessStarts
    BY <1>8 DEF ProcessStarts
  <1>9. CASE UNCHANGED reviewVars
    BY <1>9 DEF reviewVars
  <1> QED
    BY <1>1, <1>2, <1>3, <1>4, <1>5, <1>6, <1>7, <1>8, <1>9 DEF ReviewNext, RunStep

\* A step that leaves the graph alone ends no activation but in the delegate
\* node, and never changes what a task was asked for.
LEMMA StepKeepsRequest ==
    ASSUME TypeOK, NEW t \in Tasks, Step(t) \/ Abort(t)
    PROVE  /\ IsRunning(t)
           /\ \A u \in Tasks : task'[u].request = task[u].request
           /\ \A u \in Tasks \ {t} : task'[u] = task[u]
  <1>1. task[t] \in TaskType /\ IsRunning(t)
    BY DEF TypeOK, Step, GetCompleted, Reserve, Send, Receive, Timeout, Complete, Verify,
           Abort, IsRunning, Running
  <1>2. \A u \in Tasks \ {t} : task'[u] = task[u]
    BY DEF TypeOK, Step, GetCompleted, Reserve, Send, Receive, Timeout, Complete, Verify,
           Abort, Goto
  <1>3. task'[t].request = task[t].request
    BY <1>1 DEF TypeOK, TaskType, Step, GetCompleted, Reserve, Send, Receive, Timeout,
                Complete, Verify, Abort, Goto
  <1> QED
    BY <1>1, <1>2, <1>3

-----------------------------------------------------------------------------
(* Types.                                                                  *)

\* Everything in ReviewTypeOK that is about the graph.
GraphTypeOK ==
    /\ node \in [Tasks -> Active \cup {"none", "replied", "error"}]
    /\ channels \in [Tasks -> StateType]
    /\ thread \in [Conversations -> StateType]

\* Where the runs are, and what they run.
RunsAreSound ==
    /\ \A t \in Tasks : IsActive(t) => up /\ RequestOf(t) \in Identities
    /\ \A t \in Tasks : IsRunning(t) => node[t] = "delegate"
    /\ \A t \in Tasks : node[t] = "delegate" => task[t].request = RequestOf(t)

\* A run that moves on with well-formed channels leaves well-formed channels
\* and checkpoints, and no other run notices.
LEMMA AdvanceType ==
    ASSUME GraphTypeOK, NEW t \in Tasks, NEW n \in Active \cup {"replied"},
           NEW state \in StateType, state.request \in Identities, Advance(t, n, state)
    PROVE  /\ GraphTypeOK'
           /\ node'[t] = n /\ channels'[t] = state
           /\ \A u \in Tasks \ {t} : node'[u] = node[u] /\ channels'[u] = channels[u]
           /\ ThreadOf(state.request) \in Conversations
           /\ thread'[ThreadOf(state.request)] = state
           /\ \A v \in Conversations \ {ThreadOf(state.request)} : thread'[v] = thread[v]
  BY ReviewAssumption DEF GraphTypeOK, Advance, ThreadOf

\* A run that raises keeps nothing but its request.
LEMMA RaiseType ==
    ASSUME GraphTypeOK, NEW t \in Tasks, Raise(t)
    PROVE  /\ GraphTypeOK'
           /\ node'[t] = "error" /\ thread' = thread
           /\ \A u \in Tasks \ {t} : node'[u] = node[u] /\ channels'[u] = channels[u]
  <1>1. OnlyRequest(channels[t]) \in StateType
    BY DEF GraphTypeOK, StateType, OnlyRequest, NoState
  <1> QED
    BY <1>1 DEF GraphTypeOK, Raise

\* The channels that the actions build are well formed.
LEMMA StateTypes ==
    ASSUME NEW state \in StateType
    PROVE  /\ NoState \in StateType
           /\ \A i \in Identities : /\ WithInput(state, i) \in StateType
                                    /\ WithInput(state, i).request = i
                                    /\ WithInput(state, i).phase = "received"
           /\ [state EXCEPT !.phase = "delegating"] \in StateType
           /\ [state EXCEPT !.phase = "delegating"].request = state.request
           /\ [state EXCEPT !.phase = "delegating"].phase = "delegating"
           /\ OnlyRequest(state) \in StateType
           /\ \A i \in Identities : [NoState EXCEPT !.request = i] \in StateType
  BY DEF StateType, NoState, WithInput, OnlyRequest, Phases

\* What the delegate node returns: the delegation's response, in the run's own
\* channels.
LEMMA ResponseType ==
    ASSUME NEW state \in StateType, NEW a \in TaskType, a.response \in Response
    PROVE  /\ WithResponse(state, a) \in StateType
           /\ WithResponse(state, a).request = state.request
           /\ WithResponse(state, a).result = a.response
  BY DEF StateType, TaskType, WithResponse, Phases

-----------------------------------------------------------------------------
(* What is recorded stays recorded.                                        *)

\* No step of the delegations changes what a run or a checkpoint relies on.
LEMMA RecordedStays ==
    ASSUME TypeOK, [Next]_vars, NEW state, state.request \in Identities, Recorded(state)
    PROVE  ledger'[KeyOf[state.request]] = Completed(state.result)
  BY LedgerGrows, DelegationAssumption DEF Recorded, IsCompleted, Completed

\* Everything in ReviewIInv that compares the graph with the ledger.
NeverAhead ==
    /\ RunsAreRecorded
    /\ CheckpointsAreNamed
    /\ CheckpointNeverAhead
    /\ InjectedFailureIsReplayable

\* The injected failures that were seen stay replayable.
LEMMA SeenStays ==
    ASSUME TypeOK, InjectedFailureIsReplayable, [Next]_vars, failSeen' \subseteq failSeen
    PROVE  InjectedFailureIsReplayable'
  <1> SUFFICES ASSUME NEW d \in failSeen
               PROVE  \E i \in Identities : DelegationOf[i] = d /\ IsCompleted(ledger'[KeyOf[i]])
    BY DEF InjectedFailureIsReplayable
  <1>1. PICK i \in Identities : DelegationOf[i] = d /\ IsCompleted(ledger[KeyOf[i]])
    BY DEF InjectedFailureIsReplayable
  <1>2. ledger'[KeyOf[i]] = ledger[KeyOf[i]]
    BY <1>1, LedgerGrows, DelegationAssumption
  <1> QED
    BY <1>1, <1>2

\* A step that writes no checkpoint and moves no run forward.
LEMMA QuietStep ==
    ASSUME TypeOK, RunsAreSound, NeverAhead, [Next]_vars,
           thread' = thread, failSeen' \subseteq failSeen,
           \A t \in Tasks : \/ node'[t] = node[t] /\ channels'[t] = channels[t]
                            \/ node'[t] = "error"
    PROVE  NeverAhead'
  <1>1. RunsAreRecorded'
    <2> SUFFICES ASSUME NEW t \in Tasks, node'[t] \in {"finalize", "replied"}
                 PROVE  /\ Recorded(channels[t])'
                        /\ node'[t] = "replied" =>
                              /\ RequestOf(t)' \in Identities
                              /\ channels'[t].phase = "completed"
                              /\ channels'[t].summary = channels'[t].result.summary
      BY DEF RunsAreRecorded
    <2>1. node'[t] = node[t] /\ channels'[t] = channels[t]
      OBVIOUS
    <2>2. channels[t].request \in Identities /\ Recorded(channels[t])
      BY <2>1 DEF NeverAhead, RunsAreRecorded, RunsAreSound, IsActive, Active, RequestOf
    <2>3. Recorded(channels[t])'
      BY <2>1, <2>2, RecordedStays DEF Recorded
    <2> QED
      BY <2>1, <2>2, <2>3 DEF NeverAhead, RunsAreRecorded, RequestOf
  <1>2. CheckpointsAreNamed'
    BY DEF NeverAhead, CheckpointsAreNamed
  <1>3. CheckpointNeverAhead'
    <2> SUFFICES ASSUME NEW v \in Conversations,
                        thread[v].phase \in {"specialist_completed", "completed"}
                 PROVE  Recorded(thread[v])'
      BY DEF CheckpointNeverAhead
    <2>1. thread[v].request \in Identities /\ Recorded(thread[v])
      BY ReviewAssumption DEF NeverAhead, CheckpointsAreNamed, CheckpointNeverAhead, Phases
    <2> QED
      BY <2>1, RecordedStays DEF Recorded
  <1>4. InjectedFailureIsReplayable'
    BY SeenStays DEF NeverAhead
  <1> QED
    BY <1>1, <1>2, <1>3, <1>4 DEF NeverAhead

\* A step in which one run moves on, with a result that is recorded if the new
\* state says so.
LEMMA AdvanceStep ==
    ASSUME TypeOK, GraphTypeOK, RunsAreSound, NeverAhead, [Next]_vars,
           NEW t \in Tasks, NEW n \in Active \cup {"replied"}, NEW state \in StateType,
           state.request \in Identities, Advance(t, n, state), failSeen' = failSeen,
           state.phase \in {"specialist_completed", "completed"} \/ n \in {"finalize", "replied"}
                => ledger'[KeyOf[state.request]] = Completed(state.result),
           n = "replied" => state.phase = "completed" /\ state.summary = state.result.summary
    PROVE  NeverAhead'
  <1>0. /\ node'[t] = n /\ channels'[t] = state
        /\ \A u \in Tasks \ {t} : node'[u] = node[u] /\ channels'[u] = channels[u]
        /\ thread'[ThreadOf(state.request)] = state
        /\ \A v \in Conversations \ {ThreadOf(state.request)} : thread'[v] = thread[v]
    BY AdvanceType
  <1>1. RunsAreRecorded'
    <2> SUFFICES ASSUME NEW u \in Tasks, node'[u] \in {"finalize", "replied"}
                 PROVE  /\ Recorded(channels[u])'
                        /\ node'[u] = "replied" =>
                              /\ RequestOf(u)' \in Identities
                              /\ channels'[u].phase = "completed"
                              /\ channels'[u].summary = channels'[u].result.summary
      BY DEF RunsAreRecorded
    <2>1. CASE u = t
      BY <1>0, <2>1 DEF Recorded, RequestOf
    <2>2. CASE u # t
      <3>1. node'[u] = node[u] /\ channels'[u] = channels[u]
        BY <1>0, <2>2
      <3>2. channels[u].request \in Identities /\ Recorded(channels[u])
        BY <3>1 DEF NeverAhead, RunsAreRecorded, RunsAreSound, IsActive, Active, RequestOf
      <3>3. Recorded(channels[u])'
        BY <3>1, <3>2, RecordedStays DEF Recorded
      <3> QED
        BY <3>1, <3>2, <3>3 DEF NeverAhead, RunsAreRecorded, RequestOf
    <2> QED
      BY <2>1, <2>2
  <1>2. CheckpointsAreNamed'
    BY <1>0 DEF NeverAhead, CheckpointsAreNamed
  <1>3. CheckpointNeverAhead'
    <2> SUFFICES ASSUME NEW v \in Conversations,
                        thread'[v].phase \in {"specialist_completed", "completed"}
                 PROVE  Recorded(thread[v])'
      BY DEF CheckpointNeverAhead
    <2>1. CASE v = ThreadOf(state.request)
      BY <1>0, <2>1 DEF Recorded
    <2>2. CASE v # ThreadOf(state.request)
      <3>1. thread'[v] = thread[v]
        BY <1>0, <2>2
      <3>2. thread[v].request \in Identities /\ Recorded(thread[v])
        BY <3>1, ReviewAssumption
        DEF NeverAhead, CheckpointsAreNamed, CheckpointNeverAhead, Phases
      <3> QED
        BY <3>1, <3>2, RecordedStays DEF Recorded
    <2> QED
      BY <2>1, <2>2
  <1>4. InjectedFailureIsReplayable'
    BY SeenStays DEF NeverAhead
  <1> QED
    BY <1>1, <1>2, <1>3, <1>4 DEF NeverAhead

-----------------------------------------------------------------------------
(* One lemma for the actions of each kind.                                 *)

\* The rest of ReviewTypeOK.
CountersTypeOK ==
    /\ failSeen \subseteq {DelegationOf[i] : i \in Identities}
    /\ up \in BOOLEAN
    /\ stops \in 0..MaxStops

\* The parts of the invariant that an action has to keep by itself.
GraphInv == GraphTypeOK /\ CountersTypeOK /\ RunsAreSound /\ NeverAhead

\* They are all there is to it.
LEMMA ReviewParts == ReviewIInv <=> IInv /\ GraphInv
  <1>1. ReviewTypeOK <=> TypeOK /\ GraphTypeOK /\ CountersTypeOK /\ RunsAreSound
    BY DEF ReviewTypeOK, GraphTypeOK, CountersTypeOK, RunsAreSound
  <1>2. IInv => TypeOK
    BY DEF IInv
  <1> QED
    BY <1>1, <1>2 DEF ReviewIInv, GraphInv, NeverAhead

\* A request begins a run on the thread of its conversation.
LEMMA SubmitKeeps ==
    ASSUME IInv, GraphInv, [Next]_vars, NEW t \in Tasks, NEW i \in Identities, Submit(t, i)
    PROVE  GraphInv'
  <1> DEFINE state == WithInput(thread[ThreadOf(i)], i)
  <1>1. state \in StateType /\ state.request = i /\ state.phase = "received"
    BY StateTypes, ReviewAssumption DEF GraphInv, GraphTypeOK, ThreadOf
  <1>2. Advance(t, "intake", state) /\ "intake" \in Active /\ failSeen' = failSeen
    BY DEF Submit, Active
  <1> HIDE DEF state
  <1>3. GraphTypeOK' /\ CountersTypeOK'
    BY <1>1, <1>2, AdvanceType DEF GraphInv, CountersTypeOK, Submit
  <1>4. RunsAreSound'
    BY <1>1, <1>2, AdvanceType
    DEF GraphInv, RunsAreSound, Submit, IsActive, Active, RequestOf, IsRunning, vars
  <1>5. NeverAhead'
    BY <1>1, <1>2, AdvanceStep DEF GraphInv, IInv
  <1> QED
    BY <1>3, <1>4, <1>5 DEF GraphInv

\* A request that comes too early ends at once.
LEMMA SubmitTooEarlyKeeps ==
    ASSUME IInv, GraphInv, [Next]_vars, NEW t \in Tasks, NEW i \in Identities,
           SubmitTooEarly(t, i)
    PROVE  GraphInv'
  <1>1. [NoState EXCEPT !.request = i] \in StateType
    BY DEF StateType, NoState
  <1>2. GraphTypeOK' /\ CountersTypeOK'
    BY <1>1 DEF GraphInv, GraphTypeOK, CountersTypeOK, SubmitTooEarly
  <1>3. RunsAreSound'
    BY DEF GraphInv, GraphTypeOK, RunsAreSound, SubmitTooEarly, IsActive, Active, RequestOf,
           IsRunning, vars
  <1>4. \A u \in Tasks : \/ node'[u] = node[u] /\ channels'[u] = channels[u]
                         \/ node'[u] = "error"
    BY DEF GraphInv, GraphTypeOK, SubmitTooEarly
  <1>5. NeverAhead'
    BY <1>4, QuietStep DEF GraphInv, IInv, SubmitTooEarly
  <1> QED
    BY <1>2, <1>3, <1>5 DEF GraphInv
\* The intake node is followed by a delegation of the run's own request.
LEMMA IntakeKeeps ==
    ASSUME IInv, GraphInv, [Next]_vars, NEW t \in Tasks, Intake(t)
    PROVE  GraphInv'
  <1> DEFINE i == RequestOf(t)
             state == [channels[t] EXCEPT !.phase = "delegating"]
  <1>1. channels[t] \in StateType /\ i \in Identities /\ up
    BY DEF GraphInv, GraphTypeOK, RunsAreSound, Intake, IsActive, Active
  <1>2. state \in StateType /\ state.request = i /\ state.phase = "delegating"
    BY <1>1, StateTypes DEF RequestOf
  <1>3. Advance(t, "delegate", state) /\ "delegate" \in Active /\ failSeen' = failSeen
    BY DEF Intake, Active
  <1>4. task' = [task EXCEPT ![t] = Activation("get_completed", i)] /\ up' = up /\ stops' = stops
    BY DEF Intake, Delegate
  <1> HIDE DEF state
  <1>5. GraphTypeOK' /\ CountersTypeOK'
    BY <1>1, <1>2, <1>3, <1>4, AdvanceType DEF GraphInv, CountersTypeOK
  <1>6. /\ node'[t] = "delegate" /\ channels'[t] = state
        /\ task'[t].request = i
        /\ \A u \in Tasks \ {t} : /\ node'[u] = node[u] /\ channels'[u] = channels[u]
                                  /\ task'[u] = task[u]
    BY <1>1, <1>2, <1>3, <1>4, AdvanceType DEF GraphInv, IInv, TypeOK, Activation
  <1>7. RunsAreSound'
    BY <1>1, <1>2, <1>4, <1>6
    DEF GraphInv, RunsAreSound, IsActive, Active, RequestOf, IsRunning
  <1>8. NeverAhead'
    BY <1>1, <1>2, <1>3, AdvanceStep DEF GraphInv, IInv
  <1> QED
    BY <1>5, <1>7, <1>8 DEF GraphInv

\* The delegations and the specialist go on under the graph.
LEMMA DelegationKeeps ==
    ASSUME IInv, GraphInv, [Next]_vars, UNCHANGED graphVars,
           \/ \E t \in Tasks : DelegationStep(t)
           \/ \E c \in CallIds : SpecialistStep(c)
           \/ UNCHANGED vars
    PROVE  GraphInv'
  <1>1. /\ node' = node /\ channels' = channels /\ thread' = thread
        /\ failSeen' = failSeen /\ up' = up /\ stops' = stops
    BY DEF graphVars
  <1>2. \A u \in Tasks : task'[u].request = task[u].request
    <2>1. ASSUME NEW t \in Tasks, DelegationStep(t)
          PROVE  \A u \in Tasks : task'[u].request = task[u].request
      BY <2>1, StepKeepsRequest DEF DelegationStep, IInv
    <2>2. ASSUME NEW c \in CallIds, SpecialistStep(c) PROVE task' = task
      BY <2>2 DEF SpecialistStep, Environment, Answer, Misanswer, Refuse, Lose
    <2> QED
      BY <2>1, <2>2 DEF vars
  <1>3. \A u \in Tasks : IsRunning(u)' => node[u] = "delegate"
    <2>1. ASSUME NEW t \in Tasks, DelegationStep(t)
          PROVE  \A u \in Tasks : IsRunning(u)' => node[u] = "delegate"
      <3>1. node[t] = "delegate" /\ \A u \in Tasks \ {t} : task'[u] = task[u]
        BY <2>1, StepKeepsRequest DEF DelegationStep, IInv
      <3> QED
        BY <3>1 DEF GraphInv, RunsAreSound, IsRunning
    <2>2. ASSUME NEW c \in CallIds, SpecialistStep(c) PROVE task' = task
      BY <2>2 DEF SpecialistStep, Environment, Answer, Misanswer, Refuse, Lose
    <2> QED
      BY <2>1, <2>2 DEF vars, GraphInv, RunsAreSound, IsRunning
  <1>4. RunsAreSound'
    BY <1>1, <1>2, <1>3 DEF GraphInv, RunsAreSound, IsActive, RequestOf
  <1>5. NeverAhead'
    BY <1>1, QuietStep DEF GraphInv, IInv
  <1> QED
    BY <1>1, <1>4, <1>5 DEF GraphInv, GraphTypeOK, CountersTypeOK

\* A run that raises drops its channels and writes no checkpoint.
LEMMA RaiseKeeps ==
    ASSUME IInv, GraphInv, [Next]_vars, NEW t \in Tasks, Raise(t), ~IsRunning(t),
           task' = task, up' = up, failSeen' = failSeen, stops' \in 0..MaxStops
    PROVE  GraphInv'
  <1>1. /\ GraphTypeOK' /\ node'[t] = "error" /\ thread' = thread
        /\ \A u \in Tasks \ {t} : node'[u] = node[u] /\ channels'[u] = channels[u]
    BY RaiseType DEF GraphInv
  <1>2. RunsAreSound'
    BY <1>1 DEF GraphInv, RunsAreSound, IsActive, Active, RequestOf, IsRunning
  <1>3. NeverAhead'
    BY <1>1, QuietStep DEF GraphInv, IInv
  <1> QED
    BY <1>1, <1>2, <1>3 DEF GraphInv, CountersTypeOK

\* What a finished delegation returned is recorded for the run's request.
LEMMA ReturnedIsRecorded ==
    ASSUME IInv, GraphInv, NEW t \in Tasks, node[t] = "delegate", HasResponse(t)
    PROVE  /\ task[t] \in TaskType /\ task[t].response \in Response
           /\ RequestOf(t) \in Identities
           /\ ledger[KeyOf[RequestOf(t)]] = Completed(task[t].response)
  <1>1. task[t] \in TaskType /\ task[t].pc = "done" /\ task[t].request = RequestOf(t)
    BY DEF IInv, TypeOK, HasResponse, GraphInv, RunsAreSound
  <1>2. ledger[KeyOfTask(t)] = Completed(task[t].response)
    BY <1>1 DEF IInv, ServedIsRecorded
  <1> QED
    BY <1>1, <1>2 DEF TaskType, KeyOfTask

\* The delegate node ends with a recorded response, or with the hook's error.
LEMMA DelegateReturnsKeeps ==
    ASSUME IInv, GraphInv, [Next]_vars, NEW t \in Tasks, DelegateReturns(t)
    PROVE  GraphInv'
  <1>0. /\ task[t] \in TaskType /\ task[t].response \in Response /\ task[t].pc = "done"
        /\ RequestOf(t) \in Identities /\ channels[t] \in StateType
        /\ ledger[KeyOf[RequestOf(t)]] = Completed(task[t].response)
        /\ ledger' = ledger /\ task' = task /\ up' = up /\ stops' = stops
    BY ReturnedIsRecorded
    DEF DelegateReturns, HasResponse, GraphInv, GraphTypeOK, vars
  <1>1. CASE /\ failSeen' = failSeen \cup {DelegationOf[RequestOf(t)]} /\ Raise(t)
    <2>1. /\ GraphTypeOK' /\ node'[t] = "error" /\ thread' = thread
          /\ \A u \in Tasks \ {t} : node'[u] = node[u] /\ channels'[u] = channels[u]
      BY <1>1, RaiseType DEF GraphInv
    <2>2. RunsAreSound'
      BY <1>0, <2>1 DEF GraphInv, RunsAreSound, IsActive, Active, RequestOf, IsRunning, Running
    <2>3. InjectedFailureIsReplayable'
      BY <1>0, <1>1 DEF GraphInv, NeverAhead, InjectedFailureIsReplayable, IsCompleted, Completed
    <2>4. RunsAreRecorded' /\ CheckpointsAreNamed' /\ CheckpointNeverAhead'
      BY <1>0, <2>1
      DEF GraphInv, NeverAhead, RunsAreRecorded, CheckpointsAreNamed, CheckpointNeverAhead,
          Recorded, RequestOf
    <2> QED
      BY <1>0, <1>1, <2>1, <2>2, <2>3, <2>4 DEF GraphInv, NeverAhead, CountersTypeOK
  <1>2. CASE Advance(t, "finalize", WithResponse(channels[t], task[t])) /\ failSeen' = failSeen
    <2> DEFINE state == WithResponse(channels[t], task[t])
    <2>1. /\ state \in StateType /\ state.request = RequestOf(t)
          /\ state.result = task[t].response /\ "finalize" \in Active
      BY <1>0, ResponseType DEF RequestOf, Active
    <2> HIDE DEF state
    <2>2. /\ GraphTypeOK' /\ node'[t] = "finalize" /\ channels'[t] = state
          /\ \A u \in Tasks \ {t} : node'[u] = node[u] /\ channels'[u] = channels[u]
      BY <1>0, <1>2, <2>1, AdvanceType DEF GraphInv, state
    <2>3. RunsAreSound'
      <3>1. up
        BY DEF DelegateReturns, GraphInv, RunsAreSound, IsActive, Active
      <3> QED
        BY <1>0, <2>1, <2>2, <3>1
        DEF GraphInv, RunsAreSound, IsActive, Active, RequestOf, IsRunning, Running
    <2>4. NeverAhead'
      BY <1>0, <1>2, <2>1, AdvanceStep DEF GraphInv, IInv, state
    <2> QED
      BY <1>0, <1>2, <2>2, <2>3, <2>4 DEF GraphInv, CountersTypeOK
  <1> QED
    BY <1>1, <1>2 DEF DelegateReturns

\* The finalize node keeps the result and derives the summary from it.
LEMMA FinalizeKeeps ==
    ASSUME IInv, GraphInv, [Next]_vars, NEW t \in Tasks, Finalize(t)
    PROVE  GraphInv'
  <1> DEFINE r == channels[t].result
             state == [channels[t] EXCEPT !.phase = "completed", !.summary = r.summary]
  <1>0. /\ channels[t] \in StateType /\ RequestOf(t) \in Identities /\ node[t] = "finalize"
        /\ ledger[KeyOf[RequestOf(t)]] = Completed(r) /\ ledger' = ledger
        /\ task' = task /\ up' = up /\ stops' = stops /\ failSeen' = failSeen
    BY DEF Finalize, GraphInv, GraphTypeOK, RunsAreSound, IsActive, Active, NeverAhead,
           RunsAreRecorded, Recorded, RequestOf, vars
  <1>1. r \in Response
    <2>1. ledger[KeyOf[RequestOf(t)]] \in RowType
      BY <1>0, DelegationAssumption DEF IInv, TypeOK
    <2> QED
      BY <1>0, <2>1, RowShape DEF IsCompleted, Completed
  <1>2. /\ state \in StateType /\ state.request = RequestOf(t) /\ state.result = r
        /\ state.phase = "completed" /\ state.summary = r.summary
    BY <1>0, <1>1 DEF StateType, Response, Phases, RequestOf
  <1>3. Advance(t, "replied", state)
    BY DEF Finalize
  <1> HIDE DEF state
  <1>4. /\ GraphTypeOK' /\ node'[t] = "replied"
        /\ \A u \in Tasks \ {t} : node'[u] = node[u] /\ channels'[u] = channels[u]
    BY <1>0, <1>2, <1>3, AdvanceType DEF GraphInv
  <1>5. RunsAreSound'
    BY <1>0, <1>4 DEF GraphInv, RunsAreSound, IsActive, Active, RequestOf, IsRunning
  <1>6. NeverAhead'
    BY <1>0, <1>2, <1>3, AdvanceStep DEF GraphInv, IInv
  <1> QED
    BY <1>0, <1>4, <1>5, <1>6 DEF GraphInv, CountersTypeOK

\* A stopped process runs nothing and has written nothing.
LEMMA ProcessStopsKeeps ==
    ASSUME IInv, GraphInv, [Next]_vars, ProcessStops
    PROVE  GraphInv'
  <1>1. /\ node' = [t \in Tasks |-> IF IsActive(t) THEN "error" ELSE node[t]]
        /\ channels' = [t \in Tasks |-> IF IsActive(t) THEN OnlyRequest(channels[t])
                                                       ELSE channels[t]]
        /\ thread' = thread /\ up' = FALSE /\ failSeen' = {}
    BY DEF ProcessStops
  <1>2. GraphTypeOK'
    BY <1>1, StateTypes DEF GraphInv, GraphTypeOK
  <1>3. CountersTypeOK'
    <2>1. stops' \in 0..MaxStops
      <3>1. stops' = stops \/ Stop
        BY DEF ProcessStops
      <3> QED
        BY <3>1, ReviewAssumption DEF GraphInv, CountersTypeOK, Stop
    <2> QED
      BY <1>1, <2>1 DEF CountersTypeOK
  <1>4. \A t \in Tasks : ~IsRunning(t)'
    <2>1. CASE Crash
      BY <2>1 DEF Crash, IInv, TypeOK, TaskType, IsRunning, Running
    <2>2. CASE (\A t \in Tasks : ~IsRunning(t)) /\ UNCHANGED vars
      BY <2>2 DEF vars, IsRunning
    <2> QED
      BY <2>1, <2>2 DEF ProcessStops
  <1>5. \A t \in Tasks : ~IsActive(t)'
    BY <1>1 DEF GraphInv, GraphTypeOK, IsActive, Active
  <1>6. RunsAreSound'
    BY <1>4, <1>5 DEF RunsAreSound, IsActive, Active
  <1>7. NeverAhead'
    BY <1>1, QuietStep DEF GraphInv, IInv
  <1> QED
    BY <1>2, <1>3, <1>6, <1>7 DEF GraphInv

\* A started process serves requests on what the database has.
LEMMA ProcessStartsKeeps ==
    ASSUME IInv, GraphInv, [Next]_vars, ProcessStarts
    PROVE  GraphInv'
  <1>1. /\ node' = node /\ channels' = channels /\ thread' = thread /\ up' = TRUE
        /\ failSeen' = failSeen /\ stops' = stops /\ task' = task
    BY DEF ProcessStarts, vars
  <1>2. RunsAreSound'
    BY <1>1 DEF GraphInv, RunsAreSound, IsActive, RequestOf, IsRunning
  <1>3. NeverAhead'
    BY <1>1, QuietStep DEF GraphInv, IInv
  <1> QED
    BY <1>1, <1>2, <1>3 DEF GraphInv, GraphTypeOK, CountersTypeOK

-----------------------------------------------------------------------------
(* The invariant.                                                          *)

\* It holds before the first request.
LEMMA ReviewInitInv == ReviewInit => ReviewIInv
  <1> SUFFICES ASSUME ReviewInit PROVE ReviewIInv
    OBVIOUS
  <1>1. IInv /\ \A t \in Tasks : task[t].pc = "idle"
    BY InitIInv DEF ReviewInit, Init, Activation
  <1>2. GraphTypeOK
    BY DEF ReviewInit, GraphTypeOK, StateType, NoState
  <1>3. CountersTypeOK
    <2>1. 0 \in 0..MaxStops
      BY ReviewAssumption
    <2> QED
      BY <2>1 DEF ReviewInit, CountersTypeOK
  <1>4. RunsAreSound
    BY <1>1 DEF ReviewInit, RunsAreSound, IsActive, Active, IsRunning, Running
  <1>5. NeverAhead
    BY ReviewAssumption
    DEF ReviewInit, NeverAhead, RunsAreRecorded, CheckpointsAreNamed, CheckpointNeverAhead,
        InjectedFailureIsReplayable, NoState, Phases
  <1> QED
    BY <1>1, <1>2, <1>3, <1>4, <1>5, ReviewParts DEF GraphInv

\* Every step of the orchestrator keeps it.
LEMMA ReviewStepInv == ReviewIInv /\ [ReviewNext]_reviewVars => ReviewIInv'
  <1> SUFFICES ASSUME ReviewIInv, [ReviewNext]_reviewVars PROVE ReviewIInv'
    OBVIOUS
  <1>1. [Next]_vars
    BY ReviewStep DEF ReviewIInv
  <1>2. IInv /\ GraphInv
    BY ReviewParts
  <1>3. IInv'
    BY <1>1, <1>2, StepIInv
  <1>4. ASSUME NEW t \in Tasks, RunStep(t) PROVE GraphInv'
    <2>1. CASE Intake(t)
      BY <1>1, <1>2, <2>1, IntakeKeeps
    <2>2. CASE DelegationStep(t)
      <3>1. UNCHANGED graphVars
        BY <2>2 DEF DelegationStep
      <3> QED
        BY <1>1, <1>2, <2>2, <3>1, DelegationKeeps
    <2>3. CASE DelegateReturns(t)
      BY <1>1, <1>2, <2>3, DelegateReturnsKeeps
    <2>4. CASE DelegateRaises(t)
      <3>1. /\ Raise(t) /\ ~IsRunning(t) /\ task' = task /\ up' = up /\ failSeen' = failSeen
            /\ stops' \in 0..MaxStops
        BY <1>2, <2>4 DEF DelegateRaises, IsRunning, Running, vars, GraphInv, CountersTypeOK
      <3> QED
        BY <1>1, <1>2, <3>1, RaiseKeeps
    <2>5. CASE Finalize(t)
      BY <1>1, <1>2, <2>5, FinalizeKeeps
    <2> QED
      BY <1>4, <2>1, <2>2, <2>3, <2>4, <2>5 DEF RunStep
  <1>5. ASSUME NEW t \in Tasks, NodeFails(t) PROVE GraphInv'
    <2>1. /\ Raise(t) /\ ~IsRunning(t) /\ task' = task /\ up' = up /\ failSeen' = failSeen
      BY <1>2, <1>5 DEF NodeFails, vars, GraphInv, RunsAreSound
    <2>2. stops' \in 0..MaxStops
      BY <1>2, <1>5, ReviewAssumption DEF NodeFails, Stop, GraphInv, CountersTypeOK
    <2> QED
      BY <1>1, <1>2, <2>1, <2>2, RaiseKeeps
  <1>6. ASSUME NEW t \in Tasks, NEW i \in Identities, Submit(t, i) \/ SubmitTooEarly(t, i)
        PROVE  GraphInv'
    BY <1>1, <1>2, <1>6, SubmitKeeps, SubmitTooEarlyKeeps
  <1>7. ASSUME NEW c \in CallIds, SpecialistStep(c) PROVE GraphInv'
    <2>1. UNCHANGED graphVars
      BY <1>7 DEF SpecialistStep
    <2> QED
      BY <1>1, <1>2, <1>7, <2>1, DelegationKeeps
  <1>8. ASSUME ProcessStops PROVE GraphInv'
    BY <1>1, <1>2, <1>8, ProcessStopsKeeps
  <1>9. ASSUME ProcessStarts PROVE GraphInv'
    BY <1>1, <1>2, <1>9, ProcessStartsKeeps
  <1>10. ASSUME UNCHANGED reviewVars PROVE GraphInv'
    <2>1. UNCHANGED graphVars /\ UNCHANGED vars
      BY <1>10 DEF reviewVars
    <2> QED
      BY <1>1, <1>2, <2>1, DelegationKeeps
  <1>11. GraphInv'
    BY <1>4, <1>5, <1>6, <1>7, <1>8, <1>9, <1>10 DEF ReviewNext
  <1> QED
    <2>1. IInv' /\ GraphInv'
      BY <1>3, <1>11
    <2> QED
      BY <2>1, ReviewParts, PTL

-----------------------------------------------------------------------------
(* The theorems.                                                           *)

\* The orchestrator keeps its invariant, whatever fails and whenever it
\* restarts, for any number of requests, conversations and tasks.
THEOREM ReviewInvariance == ReviewSpec => []ReviewIInv
  BY ReviewInitInv, ReviewStepInv, PTL DEF ReviewSpec

\* The graph's state is well formed, and a delegation runs only under the
\* delegate node of the run that asked for it.
THEOREM ReviewTypeCorrect == ReviewSpec => []ReviewTypeOK
  <1>1. ReviewIInv => ReviewTypeOK
    BY DEF ReviewIInv
  <1> QED
    BY <1>1, ReviewInvariance, PTL

\* The orchestrator is one more user of execute_delegation: its behaviours are
\* behaviours of Delegation, so what is proved there holds here.
THEOREM ReviewUsesDelegation == ReviewSpec => Spec
  <1>1. ReviewInit => Init
    BY DEF ReviewInit
  <1>2. ReviewTypeOK /\ [ReviewNext]_reviewVars => [Next]_vars
    BY ReviewStep
  <1> QED
    BY <1>1, <1>2, ReviewTypeCorrect, PTL DEF ReviewSpec, Spec

\* A review is therefore a replay-safe effect itself: one result for each key,
\* for every review of that key.
THEOREM ReviewsAreReplaySafe == ReviewSpec => EffectSpec
  BY ReviewUsesDelegation, ImplementsEffect, PTL

\* A checkpoint past the delegate node holds the result that the ledger holds
\* under the checkpoint's own key.
THEOREM CheckpointsAreNeverAhead == ReviewSpec => []CheckpointNeverAhead
  <1>1. ReviewIInv => CheckpointNeverAhead
    BY DEF ReviewIInv
  <1> QED
    BY <1>1, ReviewInvariance, PTL

\* A reply is built from the result recorded for its own request, whatever
\* other runs of the conversation do to the thread.
THEOREM EveryReplyIsOwn == ReviewSpec => []RepliesAreOwn
  <1>1. ReviewIInv => RepliesAreOwn
    <2> SUFFICES ASSUME RunsAreRecorded, NEW t \in Tasks, node[t] = "replied"
                 PROVE  /\ channels[t].phase = "completed"
                        /\ IsCompleted(ledger[KeyOf[RequestOf(t)]])
                        /\ channels[t].result = ledger[KeyOf[RequestOf(t)]].payload
                        /\ channels[t].summary = channels[t].result.summary
      BY DEF ReviewIInv, RepliesAreOwn
    <2>1. ledger[KeyOf[RequestOf(t)]] = Completed(channels[t].result)
      BY DEF RunsAreRecorded, Recorded, RequestOf
    <2>2. /\ ledger[KeyOf[RequestOf(t)]].status = "completed"
          /\ ledger[KeyOf[RequestOf(t)]].payload = channels[t].result
      BY <2>1 DEF Completed
    <2> QED
      BY <2>2 DEF RunsAreRecorded, IsCompleted
  <1> QED
    BY <1>1, ReviewInvariance, PTL

\* An injected failure always leaves a recorded result behind for the retry.
THEOREM InjectedFailuresAreReplayable == ReviewSpec => []InjectedFailureIsReplayable
  <1>1. ReviewIInv => InjectedFailureIsReplayable
    BY DEF ReviewIInv
  <1> QED
    BY <1>1, ReviewInvariance, PTL
=============================================================================
