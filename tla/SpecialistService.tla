------------------------- MODULE SpecialistService -------------------------
(***************************************************************************)
(* A specialist service behind A2A (adapters/a2a_server.py): calls of the  *)
(* orchestrator arrive, the Agno agent or the CrewAI crew runs its model   *)
(* calls through one text backend, and the call is answered or refused.    *)
(*                                                                         *)
(* Agno runs in the handler's coroutine and makes one inference.  A crew   *)
(* runs in a thread of the event loop's executor, which has Workers of     *)
(* them and a queue, and makes two inferences, the second on the output of *)
(* the first.  The caller may give up at any moment; nothing tells the     *)
(* handler or the thread, so both go on.  The service may stop and start   *)
(* again (MaxCrashes); Agno's sessions stay.                               *)
(*                                                                         *)
(* A text carries the requests that it is about.  Agno loads the session   *)
(* of the conversation when a run begins and stores in it what the run was *)
(* told when the run ends; the second task of a crew is told about the     *)
(* request by the output of the first, or not at all.                      *)
(*                                                                         *)
(* The frameworks are external: Agno catches what a model raises and       *)
(* reports it in the status and the content of its output; CrewAI lets it  *)
(* through, and may extract an empty final answer from a text.             *)
(***************************************************************************)
EXTENDS TextBackends, Naturals, FiniteSets

CONSTANTS
    Configurations,     \* the settings the service may be started with
    MaxCalls,           \* bounds the calls ever made to the service
    Identities,         \* execution identities of the requests
    Conversations,      \* conversation identifiers
    ConversationOf,     \* [Identities -> Conversations]
    OpenAIReplies,      \* what the OpenAI SDK can return
    GatewayReplies,     \* what the gateway SDK can return
    MaxSummary,         \* the longest summary a SpecialistResponse admits
    Workers,            \* threads of the executor
    MaxCrashes,         \* bounds how often the service stops
    Placeholder,        \* "CrewAI specialist returned no text.", as a text
    Words,              \* the words of texts
    ErrorText           \* the error that Agno leaves in the content of an output

CallIds == 1..MaxCalls

ASSUME ServiceAssumption ==
    /\ Configurations \subseteq Settings
    /\ {MaxCalls, MaxSummary, MaxCrashes} \subseteq Nat
    /\ Workers \in Nat \ {0}
    /\ ConversationOf \in [Identities -> Conversations]
    /\ None \notin Identities /\ None \notin {"openai", "gateway"}

\* What the replies say, and the service of its own accord, is made of words.
ASSUME TextAssumption ==
    /\ {Placeholder, ErrorText} \subseteq Seq(Words)
    /\ \A reply \in OpenAIReplies :
        /\ reply # None /\ reply.whole \in BOOLEAN
        /\ OpenAIText(reply) # None => OpenAIText(reply) \in Seq(Words)
    /\ \A reply \in GatewayReplies :
        /\ reply # None /\ reply.whole \in BOOLEAN
        /\ GatewayText(reply) # None => GatewayText(reply) \in Seq(Words)

\* What the providers promise: a reply that was cut off, failed, or says
\* anything besides text shows it, in its ends or in one of its items.
ASSUME ProviderAssumption ==
    /\ \A reply \in OpenAIReplies : ~reply.whole =>
        \/ reply.status # "completed" \/ reply.error \/ reply.incomplete
        \/ OutputText(reply.output) = <<>>
        \/ \E n \in DOMAIN reply.output :
            LET item == reply.output[n]
            IN  \/ item.type \notin {"reasoning", "message"}
                \/ /\ item.type = "message"
                   /\ \/ item.status # "completed"
                      \/ \E m \in DOMAIN item.content : item.content[m].type # "output_text"
    /\ \A reply \in GatewayReplies : ~reply.whole =>
        \/ reply.status # "succeeded" \/ reply.error
        \/ reply.tool_calls \/ reply.structured_output \/ reply.content = <<>>

VARIABLES
    settings,   \* the configuration of the service; it never changes
    calls,      \* [CallIds -> call], the calls as their callers see them
    run,        \* [CallIds -> run], what the service does for each call
    queue,      \* crews that wait for a thread, in order
    sessions,   \* [Conversations -> set of messages], what Agno stored of its runs
    crashes     \* number of crashes so far

vars == <<settings, calls, run, queue, sessions, crashes>>

-----------------------------------------------------------------------------
Runtime == settings.runtime
Client == TextClient(settings)

Replies == IF Client = "openai" THEN OpenAIReplies ELSE GatewayReplies

\* The model calls of one analysis.
Inferences == IF Runtime = "agno" THEN 1 ELSE 2

NoOutput == [status |-> "none", content |-> <<>>]
NoRun == [pc |-> "none", inferences |-> <<>>, output |-> NoOutput, history |-> {}]

\* Variant: a thread whose crew raised is not given back.
BusyAfterRaise ==
    {c \in CallIds : run[c].pc = "infer" \/ run[c].output.status = "raised"}

\* The crews that have a thread.
Busy == {c \in CallIds : run[c].pc = "infer"}

Init ==
    /\ settings \in Configurations
    /\ calls = [c \in CallIds |-> [status |-> "unused", request |-> None, response |-> None]]
    /\ run = [c \in CallIds |-> NoRun]
    /\ queue = <<>>
    /\ sessions = [v \in Conversations |-> {}]
    /\ crashes = 0

\* The orchestrator posts a request, fresh or a retry of one it gave up.
Send(c, i) ==
    /\ calls[c].status = "unused"
    /\ \A d \in 1..(c - 1) : calls[d].status # "unused"
    /\ calls' = [calls EXCEPT ![c] = [status |-> "sent", request |-> i, response |-> None]]
    /\ UNCHANGED <<settings, run, queue, sessions, crashes>>

\* The handler validates a call and hands it to analyze(), where Agno loads the
\* session of the conversation; without a backend there is no service to
\* connect to.
Handle(c) ==
    /\ calls[c].status = "sent" /\ run[c].pc = "none"
    /\ \/ /\ Client = None
          /\ calls' = [calls EXCEPT ![c].status = "lost"]
          /\ UNCHANGED <<run, queue>>
       \/ /\ Client # None /\ Runtime = "agno"
          /\ run' = [run EXCEPT ![c].pc = "infer",
                                ![c].history = sessions[ConversationOf[calls[c].request]]]
          /\ UNCHANGED <<calls, queue>>
       \/ /\ Client # None /\ Runtime = "crewai"
          /\ run' = [run EXCEPT ![c].pc = "queued"]
          /\ queue' = Append(queue, c)
          /\ UNCHANGED calls
    /\ UNCHANGED <<settings, sessions, crashes>>

\* Variant: an executor that starts a thread for every crew.
ThreadAlways == TRUE

ThreadIsFree == Cardinality(Busy) < Workers

\* asyncio.to_thread: the first crew in the queue gets a free thread.
PickUp(c) ==
    /\ queue # <<>> /\ c = Head(queue)
    /\ ThreadIsFree
    /\ run' = [run EXCEPT ![c].pc = "infer"]
    /\ queue' = Tail(queue)
    /\ UNCHANGED <<settings, calls, sessions, crashes>>

-----------------------------------------------------------------------------
(* One inference, from the prompt the framework builds to its outcome.     *)

Text(about) == [kind |-> "text", about |-> about]
Feature == [kind |-> "feature", about |-> {}]

\* The requests that a text made from these messages is about.
Topics(messages) == UNION {m.about : m \in messages}

\* Variant: Agno puts the session into the prompt.
WithHistory == TRUE

AddHistoryToContext == FALSE

\* Agno is told the prompt of the request, and the session if it is asked to.
AgnoMessages(c) ==
    {Text({calls[c].request})} \cup (IF AddHistoryToContext THEN run[c].history ELSE {})

\* A crew's first task describes the request; the second one does not, and has
\* the output of the first for its context.
CrewMessages(c) ==
    LET made == run[c].inferences
    IN  IF made = <<>>
        THEN {Text({calls[c].request})}
        ELSE {Text({}), Text(IF run[c].output.content = <<>> THEN {} ELSE Topics(made[1].messages))}

Messages(c) == IF Runtime = "agno" THEN AgnoMessages(c) ELSE CrewMessages(c)

\* Variant: a model call that failed is made once more.
AfterFailureAgain(c) == IF Len(run[c].inferences) < 2 THEN "infer" ELSE "respond"

\* A model call that failed ends the run: neither framework retries.
AfterFailure(c) == "respond"

CompletedWith(text) == [status |-> "completed", content |-> text]

\* A crew raises what its model raised; Agno reports it in its output.
OutputOfFailure ==
    IF Runtime = "agno" THEN [status |-> "error", content |-> ErrorText]
                        ELSE [status |-> "raised", content |-> <<>>]

\* A crew may find no final answer in a text.
OutputsOf(text) ==
    {CompletedWith(text)} \cup (IF Runtime = "crewai" THEN {CompletedWith(<<>>)} ELSE {})

\* An inference, or the refusal of one, takes the run to pc.  Agno then stores
\* the run, whatever its outcome; of overlapping runs it keeps all here, so that
\* the sessions hold the most that can ever reach a prompt.  Crews store nothing.
Advance(c, pc, made, output) ==
    /\ run' = [run EXCEPT ![c] =
                [pc |-> pc, inferences |-> made, output |-> output, history |-> @.history]]
    /\ sessions' = IF Runtime = "agno"
                   THEN [sessions EXCEPT ![ConversationOf[calls[c].request]] =
                            @ \cup {Text(Topics(Messages(c)))}]
                   ELSE sessions
    /\ UNCHANGED <<settings, calls, queue, crashes>>

\* The provider replies, or the SDK raises: the adapter makes a text of the
\* reply or fails.
Infer(c) ==
    /\ run[c].pc = "infer" /\ Acceptable(Messages(c))
    /\ \E reply \in Replies \cup {None} :
        LET text == Generated(Client, reply)
            made == Append(run[c].inferences,
                           [backend |-> Client, messages |-> Messages(c), text |-> text,
                            whole |-> reply # None /\ reply.whole])
        IN  \/ text = None /\ Advance(c, AfterFailure(c), made, OutputOfFailure)
            \/ /\ text # None
               /\ \E output \in OutputsOf(text) :
                    Advance(c, IF Len(made) < Inferences THEN "infer" ELSE "respond", made, output)

\* The framework asks for a feature the bridge refuses before any inference.
RefuseFeature(c) ==
    /\ run[c].pc = "infer" /\ ~Acceptable(Messages(c) \cup {Feature})
    /\ Advance(c, AfterFailure(c), run[c].inferences, OutputOfFailure)

-----------------------------------------------------------------------------
(* The response.                                                           *)

\* Variant: the status of the output is not looked at.
AgnoSummaryUnchecked(output) == output.content

AgnoSummary(output) ==
    IF output.status = "completed" /\ output.content # <<>> THEN output.content ELSE None

CrewSummary(output) ==
    CASE output.status = "raised" -> None
      [] output.status # "raised" /\ output.content = <<>> -> Placeholder
      [] OTHER -> output.content

Summary(output) == IF Runtime = "agno" THEN AgnoSummary(output) ELSE CrewSummary(output)

\* Variant: a response whose summary may have any length.
AdmissibleAtAnyLength(summary) == summary # None

Admissible(summary) == summary # None /\ Len(summary) \in 1..MaxSummary

\* Only a caller that still waits gets the answer.
Delivered(c, call) == IF calls[c].status = "sent" THEN [calls EXCEPT ![c] = call] ELSE calls

\* analyze() returned or raised: the handler answers, or fails with HTTP 500.
Respond(c) ==
    /\ run[c].pc = "respond"
    /\ LET summary == Summary(run[c].output)
       IN  calls' = Delivered(c,
                IF Admissible(summary)
                THEN [calls[c] EXCEPT !.status = "answered",
                        !.response = [identity |-> calls[c].request, summary |-> summary]]
                ELSE [calls[c] EXCEPT !.status = "refused"])
    /\ run' = [run EXCEPT ![c].pc = "ended"]
    /\ UNCHANGED <<settings, queue, sessions, crashes>>

-----------------------------------------------------------------------------
(* What can go wrong around the service.                                   *)

\* The caller's timeout passes, or the connection breaks.
GiveUp(c) ==
    /\ calls[c].status \in {"sent", "answered"}
    /\ calls' = [calls EXCEPT ![c].status = "lost"]
    /\ UNCHANGED <<settings, run, queue, sessions, crashes>>

InService(c) == run[c].pc \notin {"none", "ended"}

\* The service stops with all its runs, and starts again.
Crash ==
    /\ crashes < MaxCrashes
    /\ \E c \in CallIds : InService(c)
    /\ crashes' = crashes + 1
    /\ run' = [c \in CallIds |-> IF InService(c) THEN [run[c] EXCEPT !.pc = "ended"] ELSE run[c]]
    /\ calls' = [c \in CallIds |->
                    IF calls[c].status = "sent" THEN [calls[c] EXCEPT !.status = "lost"] ELSE calls[c]]
    /\ queue' = <<>>
    /\ UNCHANGED <<settings, sessions>>

Step(c) == Handle(c) \/ PickUp(c) \/ Infer(c) \/ RefuseFeature(c) \/ Respond(c)

Next ==
    \/ \E c \in CallIds : Step(c) \/ GiveUp(c) \/ \E i \in Identities : Send(c, i)
    \/ Crash

Spec == Init /\ [][Next]_vars

\* The event loop and the executor's threads run; every inference ends, with
\* a reply or with the timeout of its SDK.
Fairness == \A c \in CallIds : WF_vars(Step(c))

FairSpec == Spec /\ Fairness

-----------------------------------------------------------------------------
(* Properties.                                                             *)

\* The queue holds the crews that wait, once each, and no more crews run than
\* there are threads.
TypeOK ==
    /\ \A c \in CallIds :
        /\ run[c].pc \in {"none", "queued", "infer", "respond", "ended"}
        /\ calls[c].status \in {"unused", "sent", "answered", "refused", "lost"}
        /\ InService(c) => calls[c].request \in Identities
    /\ Len(queue) = Cardinality(ToSet(queue))
    /\ ToSet(queue) = {c \in CallIds : run[c].pc = "queued"}
    /\ Runtime = "crewai" => Cardinality(Busy) <= Workers
    /\ crashes \in 0..MaxCrashes

\* ADR 0006, "Fail on rejected/failed generations, including partial output":
\* an answer stands on as many model calls as the runtime makes, all of which
\* the provider finished with nothing but text, and never on an error message.
AnswersAreWhole ==
    \A c \in CallIds : calls[c].status = "answered" =>
        LET made == run[c].inferences
        IN  /\ Len(made) = Inferences
            /\ \A n \in DOMAIN made : made[n].whole
            /\ calls[c].response.summary \in
                    {made[Inferences].text} \cup (IF Runtime = "crewai" THEN {Placeholder} ELSE {})

\* ADR 0006, "and on empty successful output.  Never convert those failures
\* into a completed specialist response": every summary is a model's text.
AnswersAreModelText ==
    \A c \in CallIds : calls[c].status = "answered" =>
        calls[c].response.summary = run[c].inferences[Inferences].text

\* The provider is asked once per task and call, and never again after a
\* failure, even when the caller has given up or sent the request again.
NoLocalRetry ==
    \A c \in CallIds :
        LET made == run[c].inferences
        IN  Len(made) <= Inferences /\ \A n \in 1..(Len(made) - 1) : made[n].text # None

\* agno_specialist.py:36, "Analyze only the supplied request": a model call is
\* told in plain text of no other request, neither by the session that requests
\* of a conversation share, also while they overlap or after they failed, nor by
\* the output of an earlier task; and the first model call is told of its own.
ContextIsOwn ==
    \A c \in CallIds : \A n \in DOMAIN run[c].inferences :
        LET told == run[c].inferences[n].messages
        IN  /\ Acceptable(told)
            /\ Topics(told) \subseteq {calls[c].request}
            /\ n = 1 => Topics(told) = {calls[c].request}

\* ADR 0007, "Never fall back between inference backends": inference uses the
\* configured backend, and that backend's own credentials are configured.
SelectedBackendOnly ==
    \A c \in CallIds : \A n \in DOMAIN run[c].inferences :
        /\ run[c].inferences[n].backend = settings.llm_backend
        /\ Usable(IF settings.llm_backend = "openai" THEN settings.openai_api_key
                                                     ELSE settings.gateway_api_key)

\* Every analysis ends, also those nobody waits for any more: abandoned crews
\* give their threads back.
EveryRunEnds == \A c \in CallIds : InService(c) ~> ~InService(c)

Promise == INSTANCE SpecialistCalls WITH Summaries <- UNION {[1..n -> Words] : n \in 1..MaxSummary}

\* The service keeps the promise Delegation relies on: one fate per call, no
\* answer under another identity, none to a caller that has given up.
CallsSpec == Promise!Spec

\* Every call gets its fate in the end, also from a service that does not
\* start, and however many calls before it were abandoned.
CallsEnd == Promise!CallsEnd

-----------------------------------------------------------------------------
(* The inductive invariant behind these properties.                        *)

CallType ==
    [status : {"unused", "sent", "answered", "refused", "lost"}, request : Identities \cup {None},
     response : {None} \cup [identity : Identities, summary : Seq(Words)]]

MessageType == {Text(about) : about \in SUBSET Identities}

InferenceType ==
    [backend : {"openai", "gateway"}, messages : SUBSET MessageType,
     text : {None} \cup Seq(Words), whole : BOOLEAN]

RunType ==
    [pc : {"none", "queued", "infer", "respond", "ended"}, inferences : Seq(InferenceType),
     output : [status : {"none", "completed", "error", "raised"}, content : Seq(Words)],
     history : SUBSET MessageType]

WellTyped ==
    /\ settings \in Configurations
    /\ calls \in [CallIds -> CallType]
    /\ run \in [CallIds -> RunType]
    /\ queue \in Seq(CallIds)
    /\ sessions \in [Conversations -> SUBSET MessageType]
    /\ crashes \in 0..MaxCrashes

\* What the service does for a call begins with the call, and with a backend;
\* a caller that waits has no response.
RunsAreCalled ==
    \A c \in CallIds :
        /\ calls[c].status = "unused" =>
              run[c].pc = "none" /\ calls[c].request = None /\ calls[c].response = None
        /\ calls[c].status # "unused" => calls[c].request \in Identities
        /\ calls[c].status = "sent" => calls[c].response = None
        /\ run[c].pc # "none" => Client # None

\* The queue holds the crews that wait, once each.
QueueIsWaiting ==
    /\ \A m, n \in DOMAIN queue : queue[m] = queue[n] => m = n
    /\ \A c \in CallIds : run[c].pc = "queued" <=> \E n \in DOMAIN queue : queue[n] = c

ThreadsSuffice == Runtime = "crewai" => Cardinality(Busy) <= Workers

\* A run that is about to infer has an inference left, and none of those it
\* made failed.
InferencesAreLeft ==
    \A c \in CallIds :
        LET made == run[c].inferences
        IN  /\ run[c].pc \in {"none", "queued"} => made = <<>>
            /\ run[c].pc = "infer" =>
                  Len(made) < Inferences /\ \A n \in DOMAIN made : made[n].text # None

IInv ==
    /\ WellTyped
    /\ RunsAreCalled
    /\ QueueIsWaiting
    /\ ThreadsSuffice
    /\ InferencesAreLeft
    /\ NoLocalRetry
    /\ ContextIsOwn
    /\ SelectedBackendOnly

-----------------------------------------------------------------------------
(* What an answer stands on; the steps keep this together with IInv.       *)

\* Only a whole reply becomes a text.
TextsAreWhole ==
    \A c \in CallIds : \A n \in DOMAIN run[c].inferences :
        run[c].inferences[n].text # None => run[c].inferences[n].whole

\* An analysis ends with a failure, or with what its last inference gave.
OutputIsOfText ==
    \A c \in CallIds : run[c].pc = "respond" =>
        \/ run[c].output = OutputOfFailure
        \/ /\ Len(run[c].inferences) = Inferences
           /\ run[c].inferences[Inferences].text # None
           /\ run[c].output \in OutputsOf(run[c].inferences[Inferences].text)

\* An answer is the last the service does for a call.
AnsweredAtEnd ==
    \A c \in CallIds : calls[c].status = "answered" => run[c].pc = "ended"

AnswerInv == TextsAreWhole /\ OutputIsOfText /\ AnsweredAtEnd /\ AnswersAreWhole
=============================================================================
