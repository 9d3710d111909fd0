------------------------- MODULE OrchestratorProofs -------------------------
(***************************************************************************)
(* What the orchestrator owes its clients and expects of the specialist,   *)
(* put together from its parts: whose answer a client gets, when the keys  *)
(* of the ledger are those of domain/identity.py; how often the specialist *)
(* runs; what is assumed of a call; and that nobody waits for what cannot  *)
(* come.                                                                   *)
(***************************************************************************)
EXTENDS ReviewRuntimeProofs, DelegationDuplicates, IdentityKeysProofs

-----------------------------------------------------------------------------
(* Whose answer a delegation returns.                                      *)

\* The identity that a recorded or returned response names has its key.
AnswersShareKey ==
    \A t \in Tasks : task[t].pc = "done" =>
        /\ task[t].response.identity \in Identities
        /\ KeyOf[task[t].response.identity] = KeyOfTask(t)

\* A row holds a response that was given under its key.
LEMMA RowSharesKey ==
    ASSUME IInv, NEW k \in Keys, NEW r, ledger[k] = Completed(r)
    PROVE  r.identity \in Identities /\ KeyOf[r.identity] = k
  <1>1. IsCompleted(ledger[k]) /\ ledger[k].payload = r
    BY DEF IsCompleted, Completed
  <1>2. PICK c \in CallsOf(k) :
          /\ calls[c].response = r
          /\ calls[c].response.identity = calls[c].request
    BY <1>1 DEF IInv, RecordedResultWasAnswered
  <1>3. /\ c \in CallIds /\ calls[c] \in CallType
        /\ calls[c].status # "unused" /\ KeyOf[calls[c].request] = k
    BY <1>2 DEF CallsOf, IInv, TypeOK
  <1> QED
    BY <1>2, <1>3 DEF CallType

\* The cached branch checks no identity: what a delegation returns, by its own
\* call or by replay, names an identity with the delegation's own key, and that
\* is all that holds whatever the keys are.
THEOREM AnswersShareTheKey == Spec => []AnswersShareKey
  <1>1. IInv => AnswersShareKey
    <2> SUFFICES ASSUME IInv, NEW t \in Tasks, task[t].pc = "done"
                 PROVE  /\ task[t].response.identity \in Identities
                        /\ KeyOf[task[t].response.identity] = KeyOfTask(t)
      BY DEF AnswersShareKey
    <2>1. KeyOfTask(t) \in Keys
      BY KeyOfTaskType DEF IInv
    <2>2. ledger[KeyOfTask(t)] = Completed(task[t].response)
      BY DEF IInv, ServedIsRecorded
    <2> QED
      BY <2>1, <2>2, RowSharesKey
  <1> QED
    BY <1>1, Invariance, PTL

\* The keys are those build_specialist_request computes.
KeysAreComputed(V) ==
    /\ ":" \in V /\ RiskReview \in Seq(V)
    /\ \A i \in Identities : HasIds(i, V) /\ KeyOf[i] = RequestKey(i)

\* The requests whose answer a delegation of request i may return.
MayAnswer(i, j, V) == SameIds(i, j) \/ Shifted(i, j, V) \/ Shifted(j, i, V)

AnswersAreRelated(V) ==
    \A t \in Tasks : task[t].pc = "done" =>
        MayAnswer(task[t].request, task[t].response.identity, V)

\* With the keys of domain/identity.py, what a delegation returns belongs to the
\* same execution and delegation, or to ids that a colon shifts into the same
\* key.  It may belong to another conversation: no key tells them apart.
THEOREM AnswersAreOfRelatedIds ==
    ASSUME NEW V, KeysAreComputed(V)
    PROVE  Spec => []AnswersAreRelated(V)
  <1>1. IInv /\ AnswersShareKey => AnswersAreRelated(V)
    <2> SUFFICES ASSUME IInv, AnswersShareKey, NEW t \in Tasks, task[t].pc = "done"
                 PROVE  MayAnswer(task[t].request, task[t].response.identity, V)
      BY DEF AnswersAreRelated
    <2> DEFINE i == task[t].request
               j == task[t].response.identity
    <2>1. i \in Identities
      BY KeyOfTaskType DEF IInv
    <2>2. j \in Identities /\ KeyOf[i] = KeyOf[j]
      BY DEF AnswersShareKey, KeyOfTask
    <2> HIDE DEF i, j
    <2>3. /\ HasIds(i, V) /\ HasIds(j, V) /\ ":" \in V /\ RiskReview \in Seq(V)
          /\ IdempotencyKey(i, RiskReview) = IdempotencyKey(j, RiskReview)
      BY <2>1, <2>2 DEF KeysAreComputed, RequestKey
    <2>4. MayAnswer(i, j, V)
      BY <2>3, KeysCollide DEF MayAnswer
    <2> QED
      BY <2>4 DEF i, j
  <1> QED
    BY <1>1, Invariance, AnswersShareTheKey, PTL

\* Execution and delegation ids name one identity, and no colon shifts the ids
\* of one into the key of another.
IdsAreDistinct(V) ==
    \A i, j \in Identities :
        /\ SameIds(i, j) => i = j
        /\ ~Shifted(i, j, V)

\* Distinct ids have distinct keys.
LEMMA KeysAreDistinct ==
    ASSUME NEW V, KeysAreComputed(V), IdsAreDistinct(V)
    PROVE  \A i, j \in Identities : KeyOf[i] = KeyOf[j] => i = j
  <1> SUFFICES ASSUME NEW i \in Identities, NEW j \in Identities, KeyOf[i] = KeyOf[j]
               PROVE  i = j
    OBVIOUS
  <1>1. /\ HasIds(i, V) /\ HasIds(j, V) /\ ":" \in V /\ RiskReview \in Seq(V)
        /\ IdempotencyKey(i, RiskReview) = IdempotencyKey(j, RiskReview)
    BY DEF KeysAreComputed, RequestKey
  <1> QED
    BY <1>1, KeysCollide DEF IdsAreDistinct

\* With ids that no colon shifts, every delegation that succeeds returns an
\* answer to its own request.
THEOREM OwnAnswerOfDistinctIds ==
    ASSUME NEW V, KeysAreComputed(V), IdsAreDistinct(V)
    PROVE  Spec => []AnswerIsOwn
  <1>1. \A i, j \in Identities : KeyOf[i] = KeyOf[j] => i = j
    BY KeysAreDistinct
  <1> QED
    BY <1>1, OwnAnswer

-----------------------------------------------------------------------------
(* What a client of the orchestrator gets.                                 *)

\* The result of a reply names the identity the client asked for.
RepliesNameTheirRequest ==
    \A t \in Tasks : node[t] = "replied" => channels[t].result.identity = RequestOf(t)

\* Every client gets an answer to its own request, although the thread of its
\* conversation is shared, although runs and the process fail, and although
\* the result may have been recorded long before by another process.
THEOREM ClientsGetTheirOwn ==
    ASSUME NEW V, KeysAreComputed(V), IdsAreDistinct(V)
    PROVE  ReviewSpec => []RepliesNameTheirRequest
  <1>1. ReviewIInv => RepliesNameTheirRequest
    <2> SUFFICES ASSUME ReviewIInv, NEW t \in Tasks, node[t] = "replied"
                 PROVE  channels[t].result.identity = RequestOf(t)
      BY DEF RepliesNameTheirRequest
    <2>1. RequestOf(t) \in Identities /\ KeyOf[RequestOf(t)] \in Keys
      BY DelegationAssumption DEF ReviewIInv, RunsAreRecorded
    <2>2. ledger[KeyOf[RequestOf(t)]] = Completed(channels[t].result)
      BY DEF ReviewIInv, RunsAreRecorded, Recorded, RequestOf
    <2>3. IInv
      BY DEF ReviewIInv
    <2> QED
      BY <2>1, <2>2, <2>3, RowSharesKey, KeysAreDistinct
  <1> QED
    BY <1>1, ReviewInvariance, PTL

\* The orchestrator's delegations return answers to their own requests.
THEOREM ReviewsReturnOwnAnswers ==
    ASSUME NEW V, KeysAreComputed(V), IdsAreDistinct(V)
    PROVE  ReviewSpec => []AnswerIsOwn
  BY OwnAnswerOfDistinctIds, ReviewUsesDelegation, PTL

\* However often clients send a request, hooks fail and the process restarts:
\* the specialist runs for a key once per request in flight, and once more for
\* each after every fault of a delegation.
THEOREM ReviewDuplicatesAreBounded ==
    ASSUME IsFiniteSet(Tasks)
    PROVE  ReviewSpec => []BoundedDuplicates
  BY DuplicatesAreBounded, ReviewUsesDelegation, PTL

-----------------------------------------------------------------------------
(* What is expected of a call to the specialist.                           *)

\* A response or an error that was received is an answer or a refusal.
FateOf(call) ==
    IF call.status = "received"
    THEN [call EXCEPT !.status = IF call.response = None THEN "refused" ELSE "answered"]
    ELSE call

asked == [c \in CallIds |-> FateOf(calls[c])]

Asked == INSTANCE SpecialistCalls WITH calls <- asked

AskedSpec == Asked!Spec

\* A call is blank before it is made, and carries no response before there is
\* one; a response that was taken is one or an error.
CallsAreBlank ==
    \A c \in CallIds :
        /\ calls[c].status = "unused" => calls[c].request = None
        /\ calls[c].status \in {"unused", "sent", "refused"} => calls[c].response = None

\* The steps that concern a call.
LEMMA CallSteps ==
    ASSUME [Next]_vars
    PROVE  \/ calls' = calls
           \/ \E t \in Tasks : Send(t) \/ Receive(t)
           \/ \E c \in CallIds : Answer(c) \/ Misanswer(c) \/ Refuse(c) \/ Lose(c)
  BY DEF Next, vars, Step, Delegate, GetCompleted, Reserve, Timeout, Complete, Verify,
         Environment, Abort, Crash

LEMMA StepCallsAreBlank ==
    ASSUME TypeOK, CallsAreBlank, [Next]_vars
    PROVE  CallsAreBlank'
  <1> SUFFICES ASSUME NEW d \in CallIds
               PROVE  /\ calls'[d].status = "unused" => calls'[d].request = None
                      /\ calls'[d].status \in {"unused", "sent", "refused"}
                            => calls'[d].response = None
    BY DEF CallsAreBlank
  <1>1. calls[d] \in CallType /\ calls \in [CallIds -> CallType]
    BY DEF TypeOK
  <1>2. CASE calls'[d] = calls[d]
    BY <1>2 DEF CallsAreBlank
  <1>3. ASSUME NEW t \in Tasks, Send(t), calls'[d] # calls[d]
        PROVE  calls'[d] = Sent(task[t].request)
    BY <1>1, <1>3 DEF Send
  <1>4. ASSUME NEW t \in Tasks, Receive(t), calls'[d] # calls[d]
        PROVE  calls'[d] = [calls[d] EXCEPT !.status = "received"]
    BY <1>1, <1>4 DEF Receive
  <1>5. ASSUME NEW c \in CallIds, Answer(c) \/ Misanswer(c), calls'[d] # calls[d]
        PROVE  calls'[d].status = "answered"
    <2>1. CASE Answer(c)
      <3>1. PICK s \in Summaries :
              calls' = [calls EXCEPT ![c].status = "answered",
                            ![c].response = [identity |-> calls[c].request, summary |-> s]]
        BY <2>1 DEF Answer
      <3> QED
        BY <1>1, <1>5, <3>1 DEF CallType
    <2>2. CASE Misanswer(c)
      <3>1. PICK i \in Identities, s \in Summaries :
              calls' = [calls EXCEPT ![c].status = "answered",
                            ![c].response = [identity |-> i, summary |-> s]]
        BY <2>2 DEF Misanswer
      <3> QED
        BY <1>1, <1>5, <3>1 DEF CallType
    <2> QED
      BY <1>5, <2>1, <2>2
  <1>6. ASSUME NEW c \in CallIds, Refuse(c), calls'[d] # calls[d]
        PROVE  calls[d].status = "sent" /\ calls'[d] = [calls[d] EXCEPT !.status = "refused"]
    BY <1>1, <1>6 DEF Refuse
  <1>7. ASSUME NEW c \in CallIds, Lose(c), calls'[d] # calls[d]
        PROVE  calls'[d] = [calls[d] EXCEPT !.status = "lost"]
    BY <1>1, <1>7 DEF Lose
  <1>8. \/ calls'[d] = calls[d]
        \/ \E i \in Identities \cup {None} : calls'[d] = Sent(i)
        \/ calls'[d].status = "answered"
        \/ calls[d].status = "sent" /\ calls'[d] = [calls[d] EXCEPT !.status = "refused"]
        \/ \E status \in {"received", "lost"} : calls'[d] = [calls[d] EXCEPT !.status = status]
    <2>1. \A t \in Tasks : task[t].request \in Identities \cup {None}
      BY DEF TypeOK, TaskType
    <2> QED
      BY <2>1, <1>3, <1>4, <1>5, <1>6, <1>7, CallSteps
  <1>9. ASSUME NEW status \in {"received", "lost"}, calls'[d] = [calls[d] EXCEPT !.status = status]
        PROVE  calls'[d].status = status
    BY <1>1, <1>9 DEF CallType
  <1>10. ASSUME calls[d].status = "sent", calls'[d] = [calls[d] EXCEPT !.status = "refused"]
         PROVE  calls'[d].status = "refused" /\ calls'[d].response = None
    BY <1>1, <1>10 DEF CallType, CallsAreBlank
  <1>11. ASSUME NEW i, calls'[d] = Sent(i)
         PROVE  calls'[d].status = "sent" /\ calls'[d].response = None
    BY <1>11 DEF Sent
  <1>12. \/ calls'[d] = calls[d]
         \/ calls'[d].status \in {"answered", "received", "lost"}
         \/ calls'[d].status \in {"sent", "refused"} /\ calls'[d].response = None
    BY <1>8, <1>9, <1>10, <1>11
  <1> QED
    BY <1>2, <1>12

\* Calls that nobody made are as they were at the start, and a response comes
\* with an answer only.
LEMMA BlankCalls == Spec => []CallsAreBlank
  <1>1. Init => CallsAreBlank
    BY DEF Init, CallsAreBlank
  <1>2. TypeOK /\ CallsAreBlank /\ [Next]_vars => CallsAreBlank'
    BY StepCallsAreBlank
  <1> QED
    BY <1>1, <1>2, TypeCorrect, PTL DEF Spec

\* What the client takes from a call is the fate that the call had.
LEMMA ReceivedAsAsked ==
    ASSUME TypeOK, CallsAreBlank, NEW t \in Tasks, Receive(t)
    PROVE  asked' = asked
  <1> DEFINE c == task[t].call
  <1>1. c \in CallIds
    BY DEF Receive, TypeOK, TaskType
  <1>2. ASSUME NEW d \in CallIds PROVE FateOf(calls'[d]) = FateOf(calls[d])
    <2>1. CASE d # c
      BY <1>1, <2>1 DEF Receive, TypeOK
    <2>2. CASE d = c
      <3>1. calls'[c] = [calls[c] EXCEPT !.status = "received"] /\ calls[c] \in CallType
        BY <1>1 DEF Receive, TypeOK
      <3>2. CASE calls[c].status = "refused"
        <4>1. calls[c].response = None
          BY <1>1, <3>2 DEF CallsAreBlank
        <4> QED
          BY <2>2, <3>1, <3>2, <4>1 DEF FateOf, CallType
      <3>3. CASE calls[c].status = "answered"
        <4>1. calls[c].response # None
          BY <3>1, <3>3, DelegationAssumption DEF CallType
        <4> QED
          BY <2>2, <3>1, <3>3, <4>1 DEF FateOf, CallType
      <3> QED
        BY <3>2, <3>3 DEF Receive
    <2> QED
      BY <2>1, <2>2
  <1> QED
    BY <1>2 DEF asked

\* A change of one call is a change of what it is seen as.
LEMMA OneIsAsked ==
    ASSUME NEW c \in CallIds, NEW call, calls' = [calls EXCEPT ![c] = call],
           calls \in [CallIds -> CallType]
    PROVE  asked' = [asked EXCEPT ![c] = FateOf(call)]
  <1>1. ASSUME NEW d \in CallIds
        PROVE  FateOf(calls'[d]) = IF d = c THEN FateOf(call) ELSE FateOf(calls[d])
    OBVIOUS
  <1> QED
    BY <1>1 DEF asked

\* A call as long as nobody has received its fate.
LEMMA AskedCall ==
    ASSUME NEW c \in CallIds, calls[c].status # "received"
    PROVE  asked[c] = calls[c]
  BY DEF asked, FateOf

LEMMA SendIsAsked ==
    ASSUME TypeOK, CallsAreBlank, NEW t \in Tasks, Send(t)
    PROVE  Asked!Next
  <1>1. PICK c \in CallIds : /\ calls[c].status = "unused"
                             /\ calls' = [calls EXCEPT ![c] = Sent(task[t].request)]
    BY DEF Send
  <1>2. task[t].request \in Identities /\ calls \in [CallIds -> CallType]
    BY DEF Send, TypeOK, TaskType
  <1>3. asked[c] = Asked!Unused
    BY <1>1, <1>2, AskedCall DEF CallsAreBlank, CallType, Asked!Unused
  <1>4. FateOf(Sent(task[t].request)) = Sent(task[t].request)
    BY DEF FateOf, Sent
  <1>5. asked' = [asked EXCEPT ![c] = Sent(task[t].request)]
    BY <1>1, <1>2, <1>4, OneIsAsked
  <1>6. Asked!Send(c, task[t].request)
    BY <1>3, <1>5 DEF Asked!Send, Sent
  <1> QED
    BY <1>2, <1>6 DEF Asked!Next

LEMMA AnswerIsAsked ==
    ASSUME TypeOK, NEW c \in CallIds, Answer(c)
    PROVE  Asked!Next
  <1>1. PICK s \in Summaries :
          calls' = [calls EXCEPT ![c].status = "answered",
                        ![c].response = [identity |-> calls[c].request, summary |-> s]]
    BY DEF Answer
  <1> DEFINE call == [calls[c] EXCEPT !.status = "answered",
                          !.response = [identity |-> calls[c].request, summary |-> s]]
  <1>2. calls' = [calls EXCEPT ![c] = call] /\ calls \in [CallIds -> CallType]
    BY <1>1 DEF TypeOK
  <1>3. calls[c].status = "sent" /\ asked[c] = calls[c]
    BY AskedCall DEF Answer
  <1>4. FateOf(call) = call
    BY <1>2 DEF FateOf, CallType
  <1>5. asked' = [asked EXCEPT ![c] = call]
    BY <1>2, <1>4, OneIsAsked
  <1>6. asked' = [asked EXCEPT ![c].status = "answered",
                     ![c].response = [identity |-> asked[c].request, summary |-> s]]
    BY <1>3, <1>5 DEF asked
  <1>7. Asked!Answer(c, s)
    BY <1>3, <1>6 DEF Asked!Answer
  <1> QED
    BY <1>7 DEF Asked!Next, Asked!Fate

LEMMA RefuseIsAsked ==
    ASSUME TypeOK, NEW c \in CallIds, Refuse(c)
    PROVE  Asked!Next
  <1> DEFINE call == [calls[c] EXCEPT !.status = "refused"]
  <1>1. calls' = [calls EXCEPT ![c] = call] /\ calls \in [CallIds -> CallType]
    BY DEF Refuse, TypeOK
  <1>2. calls[c].status = "sent" /\ asked[c] = calls[c]
    BY AskedCall DEF Refuse
  <1>3. FateOf(call) = call
    BY <1>1 DEF FateOf, CallType
  <1>4. asked' = [asked EXCEPT ![c] = call]
    BY <1>1, <1>3, OneIsAsked
  <1>5. Asked!Refuse(c)
    BY <1>2, <1>4 DEF Asked!Refuse, asked
  <1> QED
    BY <1>5 DEF Asked!Next, Asked!Fate

LEMMA LoseIsAsked ==
    ASSUME TypeOK, NEW c \in CallIds, Lose(c)
    PROVE  Asked!Next
  <1> DEFINE call == [calls[c] EXCEPT !.status = "lost"]
  <1>1. calls' = [calls EXCEPT ![c] = call] /\ calls \in [CallIds -> CallType]
    BY DEF Lose, TypeOK
  <1>2. calls[c].status \in {"sent", "answered"} /\ asked[c] = calls[c]
    BY AskedCall DEF Lose
  <1>3. FateOf(call) = call
    BY <1>1 DEF FateOf, CallType
  <1>4. asked' = [asked EXCEPT ![c] = call]
    BY <1>1, <1>3, OneIsAsked
  <1>5. asked' = [d \in CallIds |->
                     IF d \in {c} THEN [asked[d] EXCEPT !.status = "lost"] ELSE asked[d]]
    BY <1>2, <1>4 DEF asked
  <1>6. Asked!Lose({c})
    BY <1>2, <1>5 DEF Asked!Lose
  <1> QED
    BY <1>6 DEF Asked!Next

\* Every step does to the calls what the promise allows, or misanswers one.
LEMMA AskedStep ==
    ASSUME TypeOK, CallsAreBlank, [Next]_vars
    PROVE  Asked!Next \/ asked' = asked \/ \E c \in CallIds : Misanswer(c)
  <1>1. calls' = calls => asked' = asked
    BY DEF asked
  <1> QED
    BY <1>1, CallSteps, SendIsAsked, ReceivedAsAsked, AnswerIsAsked, RefuseIsAsked, LoseIsAsked

\* execute_delegation makes its calls as the promise has it, and expects no
\* more of them: whatever clients, timeouts and crashes do, its calls are those
\* of SpecialistCalls, as long as no answer comes for somebody else.  The same
\* promise is what SpecialistService keeps.
THEOREM ExpectsThePromise ==
    Spec /\ [][\A c \in CallIds : ~Misanswer(c)]_vars => AskedSpec
  <1>1. Init => Asked!Init
    BY DEF Init, Asked!Init, Asked!Unused, asked, FateOf
  <1>2. TypeOK /\ CallsAreBlank /\ [Next]_vars /\ [\A c \in CallIds : ~Misanswer(c)]_vars
            => [Asked!Next]_asked
    <2>1. vars' = vars => asked' = asked
      BY DEF vars, asked
    <2> QED
      BY <2>1, AskedStep
  <1> QED
    BY <1>1, <1>2, TypeCorrect, BlankCalls, PTL DEF Spec, AskedSpec, Asked!Spec

-----------------------------------------------------------------------------
(* Nobody waits for what cannot come.                                      *)

\* The call that a task waits for can still be answered, given up, or taken.
WaitsCanEnd ==
    \A t \in Tasks : task[t].pc = "receive" =>
        calls[task[t].call].status \in {"sent", "answered", "refused", "lost"}

\* A run that is not over stands before a node that it can enter, or is in a
\* delegation that goes on or has ended.
RunsCanGoOn ==
    \A t \in Tasks :
        /\ node[t] = "intake" => ~IsRunning(t)
        /\ node[t] = "delegate" => task[t].pc \in Running \cup {"done", "failed"}

\* A task comes to wait by sending.
LEMMA WaitsSinceSent ==
    ASSUME TypeOK, [Next]_vars, NEW t \in Tasks, task'[t].pc = "receive"
    PROVE  task'[t] = task[t] \/ Send(t)
  <1>1. CASE Step(t)
    BY <1>1 DEF Step, GetCompleted, Reserve, Receive, Timeout, Complete, Verify, Goto,
                TypeOK, TaskType
  <1>2. CASE \E i \in Identities : Delegate(t, i)
    BY <1>2 DEF Delegate, Activation, TypeOK
  <1>3. task'[t] # [task[t] EXCEPT !.pc = "failed"]
    BY DEF TypeOK, TaskType
  <1> QED
    BY <1>1, <1>2, <1>3, TaskChanges

\* Nobody takes the answer that another task waits for.
LEMMA StepWaitsCanEnd ==
    ASSUME IInv, OneWaiter, WaitsCanEnd, [Next]_vars
    PROVE  WaitsCanEnd'
  <1> SUFFICES ASSUME NEW t \in Tasks, task'[t].pc = "receive"
               PROVE  calls'[task'[t].call].status \in {"sent", "answered", "refused", "lost"}
    BY DEF WaitsCanEnd
  <1> USE DEF IInv
  <1>1. CASE Send(t)
    <2>1. PICK c \in CallIds :
            /\ calls' = [calls EXCEPT ![c] = Sent(task[t].request)]
            /\ task' = [task EXCEPT ![t].pc = "receive", ![t].call = c]
      BY <1>1 DEF Send
    <2>2. task'[t].call = c
      BY <2>1 DEF TypeOK, TaskType
    <2> QED
      BY <2>1, <2>2 DEF TypeOK, Sent
  <1>2. CASE ~Send(t) /\ task'[t] = task[t]
    <2> DEFINE d == task[t].call
    <2>1. /\ d \in CallIds /\ calls \in [CallIds -> CallType]
          /\ calls[d].status \in {"sent", "answered", "refused", "lost"}
          /\ calls[d] \in CallType
      BY <1>2, WaitsForOwn DEF WaitsCanEnd, TypeOK
    <2>2. ASSUME NEW u \in Tasks, Send(u) PROVE calls'[d] = calls[d]
      BY <2>1, <2>2 DEF Send
    <2>3. ASSUME NEW u \in Tasks, Receive(u) PROVE calls'[d] = calls[d]
      <3>1. u # t
        <4>1. Receive(t) => task'[t].pc \in {"complete", "failed"}
          BY DEF Receive, Goto, TypeOK, TaskType
        <4> QED
          BY <2>3, <4>1
      <3>2. task[u].call # d
        BY <1>2, <2>3, <3>1 DEF OneWaiter, Receive
      <3> QED
        BY <2>1, <2>3, <3>2 DEF Receive
    <2>4. ASSUME NEW c \in CallIds, Answer(c) \/ Misanswer(c)
          PROVE  calls'[d] = calls[d] \/ calls'[d].status = "answered"
      <3>1. \E r : calls' = [calls EXCEPT ![c].status = "answered", ![c].response = r]
        BY <2>4 DEF Answer, Misanswer
      <3> QED
        BY <2>1, <3>1 DEF CallType
    <2>5. ASSUME NEW c \in CallIds, Refuse(c) \/ Lose(c)
          PROVE  calls'[d] = calls[d] \/ calls'[d].status \in {"refused", "lost"}
      <3>1. \E s \in {"refused", "lost"} : calls' = [calls EXCEPT ![c].status = s]
        BY <2>5 DEF Refuse, Lose
      <3> QED
        BY <2>1, <3>1 DEF CallType
    <2>6. calls'[d] = calls[d] \/ calls'[d].status \in {"answered", "refused", "lost"}
      BY <2>2, <2>3, <2>4, <2>5, CallSteps
    <2> QED
      BY <1>2, <2>1, <2>6
  <1> QED
    BY <1>1, <1>2, WaitsSinceSent

\* A task that waits is never left behind with a call whose answer another
\* task took, or that nobody made: one of Answer, Receive and Timeout applies
\* to it in every state, whatever answers, faults and restarts came before.
THEOREM NobodyWaitsInVain == Spec => []WaitsCanEnd
  <1>1. Init => OneWaiter /\ WaitsCanEnd
    BY DEF Init, Activation, OneWaiter, WaitsCanEnd
  <1>2. IInv /\ OneWaiter /\ WaitsCanEnd /\ [Next]_vars => OneWaiter' /\ WaitsCanEnd'
    BY StepOneWaiter, StepWaitsCanEnd
  <1> QED
    BY <1>1, <1>2, Invariance, PTL DEF Spec

\* A delegation once called is never uncalled.
LEMMA StaysCalled ==
    ASSUME TypeOK, [Next]_vars, NEW t \in Tasks, task[t].pc # "idle"
    PROVE  task'[t].pc # "idle"
  <1>1. CASE Step(t)
    BY <1>1 DEF Step, GetCompleted, Reserve, Send, Receive, Timeout, Complete, Verify, Goto,
                TypeOK, TaskType
  <1>2. CASE \E i \in Identities : Delegate(t, i)
    BY <1>2 DEF Delegate, Activation, TypeOK
  <1>3. ASSUME task'[t] = [task[t] EXCEPT !.pc = "failed"] PROVE task'[t].pc # "idle"
    BY <1>3 DEF TypeOK, TaskType
  <1> QED
    BY <1>1, <1>2, <1>3, TaskChanges

\* A run enters the delegate node by calling its delegation.
LEMMA DelegateIsEntered ==
    ASSUME ReviewTypeOK, [ReviewNext]_reviewVars, NEW t \in Tasks,
           node[t] # "delegate", node'[t] = "delegate"
    PROVE  task'[t].pc = "get_completed"
  <1>1. ASSUME NEW u \in Tasks, NEW n, NEW state, Advance(u, n, state)
        PROVE  u = t /\ n = "delegate"
    BY <1>1 DEF Advance, ReviewTypeOK
  <1>2. ASSUME NEW u \in Tasks, Intake(u) PROVE task'[t].pc = "get_completed"
    <2>1. u = t
      BY <1>1, <1>2 DEF Intake
    <2> QED
      BY <1>2, <2>1 DEF Intake, Delegate, Activation, ReviewTypeOK, TypeOK
  <1>3. ASSUME NEW u \in Tasks PROVE ~Raise(u)
    BY DEF Raise, ReviewTypeOK
  <1>4. ASSUME NEW u \in Tasks, NEW i \in Identities PROVE ~Submit(u, i)
    BY <1>1 DEF Submit
  <1>5. ASSUME NEW u \in Tasks, NEW i \in Identities PROVE ~SubmitTooEarly(u, i)
    BY DEF SubmitTooEarly, ReviewTypeOK
  <1>6. ASSUME NEW u \in Tasks PROVE ~DelegateReturns(u)
    BY <1>1, <1>3 DEF DelegateReturns
  <1>7. ASSUME NEW u \in Tasks PROVE ~DelegateRaises(u) /\ ~NodeFails(u)
    BY <1>3 DEF DelegateRaises, NodeFails
  <1>8. ASSUME NEW u \in Tasks PROVE ~Finalize(u)
    BY <1>1 DEF Finalize
  <1>9. ~ProcessStops
    BY DEF ProcessStops, ReviewTypeOK
  <1>10. node' # node
    OBVIOUS
  <1> QED
    BY <1>2, <1>4, <1>5, <1>6, <1>7, <1>8, <1>9, <1>10
    DEF ReviewNext, RunStep, DelegationStep, SpecialistStep, ProcessStarts, reviewVars, graphVars

\* A run that is under way can always go on: its next node can be entered, its
\* delegation is running or over, and what the delegation waits for can come.
\* Neither a restart nor another run of the conversation strands it.
THEOREM NoRunIsStranded == ReviewSpec => [](RunsCanGoOn /\ WaitsCanEnd)
  <1>1. ReviewInit => RunsCanGoOn
    BY DEF ReviewInit, RunsCanGoOn
  <1>2. ReviewTypeOK /\ ReviewTypeOK' /\ RunsCanGoOn /\ [ReviewNext]_reviewVars => RunsCanGoOn'
    <2> SUFFICES ASSUME ReviewTypeOK, ReviewTypeOK', RunsCanGoOn, [ReviewNext]_reviewVars,
                        NEW t \in Tasks
                 PROVE  /\ node'[t] = "intake" => ~IsRunning(t)'
                        /\ node'[t] = "delegate" => task'[t].pc \in Running \cup {"done", "failed"}
      BY DEF RunsCanGoOn
    <2>1. node'[t] = "intake" => ~IsRunning(t)'
      BY DEF ReviewTypeOK
    <2>2. task'[t].pc \in Running \cup {"idle", "done", "failed"}
      BY DEF ReviewTypeOK, TypeOK, TaskType
    <2>3. ASSUME node'[t] = "delegate" PROVE task'[t].pc # "idle"
      <3>1. CASE node[t] = "delegate"
        <4>1. task[t].pc # "idle" /\ TypeOK
          BY <3>1 DEF RunsCanGoOn, Running, ReviewTypeOK
        <4> QED
          BY <4>1, ReviewStep, StaysCalled
      <3>2. CASE node[t] # "delegate"
        BY <2>3, <3>2, DelegateIsEntered
      <3> QED
        BY <3>1, <3>2
    <2> QED
      BY <2>1, <2>2, <2>3
  <1>3. ReviewSpec => []WaitsCanEnd
    BY ReviewUsesDelegation, NobodyWaitsInVain, PTL
  <1> QED
    BY <1>1, <1>2, <1>3, ReviewTypeCorrect, PTL DEF ReviewSpec
=============================================================================
