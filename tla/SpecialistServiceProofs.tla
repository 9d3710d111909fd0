---------------------- MODULE SpecialistServiceProofs ----------------------
(***************************************************************************)
(* Theorems about SpecialistService, for any number of calls, requests,    *)
(* conversations, threads and restarts, and whatever the providers reply.  *)
(***************************************************************************)
EXTENDS SpecialistService, TLAPS, SequenceTheorems, FiniteSetTheorems

-----------------------------------------------------------------------------
(* What the adapters make of a reply.                                      *)

\* The backend that serves is the selected one, and has its credentials.
LEMMA ClientIsSelected ==
    ASSUME settings \in Configurations, Client # None
    PROVE  /\ Client \in {"openai", "gateway"}
           /\ Client = settings.llm_backend
           /\ Usable(IF settings.llm_backend = "openai" THEN settings.openai_api_key
                                                        ELSE settings.gateway_api_key)
  BY ServiceAssumption DEF Client, TextClient, Settings, GatewayUsable

\* An exception is no text.
LEMMA NothingGenerated ==
    ASSUME NEW backend
    PROVE  Generated(backend, None) = None
  BY DEF Generated, OpenAIText, GatewayText

\* What is generated from a reply is a text or nothing.
LEMMA GeneratedText ==
    ASSUME settings \in Configurations, NEW reply \in Replies \cup {None}
    PROVE  Generated(Client, reply) \in {None} \cup Seq(Words)
  <1>1. CASE reply = None
    BY <1>1, NothingGenerated
  <1>2. CASE reply # None /\ Client = "openai"
    BY <1>2, TextAssumption DEF Replies, Generated
  <1>3. CASE reply # None /\ Client # "openai"
    BY <1>3, TextAssumption DEF Replies, Generated
  <1> QED
    BY <1>1, <1>2, <1>3

-----------------------------------------------------------------------------
(* The invariant: initially, and action by action.                         *)

\* What Append does, for elements of any kind.
LEMMA AppendIsLonger ==
    ASSUME NEW S, NEW s \in Seq(S), NEW x
    PROVE  /\ Len(Append(s, x)) = Len(s) + 1 /\ DOMAIN Append(s, x) = 1..(Len(s) + 1)
           /\ \A n \in 1..Len(s) : Append(s, x)[n] = s[n]
           /\ Append(s, x)[Len(s) + 1] = x
  <1>1. s \in Seq(S \cup {x})
    <2>1. s \in [1..Len(s) -> S] /\ Len(s) \in Nat
      BY LenProperties
    <2> QED
      BY <2>1, SeqDef
  <1> QED
    BY <1>1, LenProperties, AppendProperties

LEMMA RunHasInferences ==
    ASSUME WellTyped, NEW c \in CallIds
    PROVE  /\ run[c].inferences \in Seq(InferenceType)
           /\ Len(run[c].inferences) \in Nat
           /\ DOMAIN run[c].inferences = 1..Len(run[c].inferences)
  BY LenProperties DEF WellTyped, RunType

LEMMA Inferring ==
    Inferences \in {1, 2}
  BY DEF Inferences

LEMMA InitIInv ==
    ASSUME Init
    PROVE  IInv
  <1>1. \A c \in CallIds : run[c] = NoRun /\ calls[c] =
            [status |-> "unused", request |-> None, response |-> None]
    BY DEF Init
  <1>2. <<>> \in Seq(InferenceType) /\ <<>> \in Seq(Words) /\ <<>> \in Seq(CallIds)
    BY EmptySeq
  <1>3. Len(<<>>) = 0 /\ DOMAIN <<>> = {}
    BY EmptySeq
  <1>4. WellTyped
    <2>1. NoRun \in RunType
      BY <1>2 DEF NoRun, NoOutput, RunType
    <2>2. [status |-> "unused", request |-> None, response |-> None] \in CallType
      BY DEF CallType
    <2> QED
      BY <1>2, <2>1, <2>2, ServiceAssumption DEF Init, WellTyped
  <1>5. RunsAreCalled /\ QueueIsWaiting /\ InferencesAreLeft
    BY <1>1, <1>3 DEF Init, NoRun, RunsAreCalled, QueueIsWaiting, InferencesAreLeft
  <1>6. ThreadsSuffice
    <2>1. Busy = {}
      BY <1>1 DEF Busy, NoRun
    <2> QED
      BY <2>1, FS_EmptySet, ServiceAssumption DEF ThreadsSuffice
  <1>7. NoLocalRetry /\ ContextIsOwn /\ SelectedBackendOnly
    BY <1>1, <1>3, Inferring DEF NoRun, NoLocalRetry, ContextIsOwn, SelectedBackendOnly
  <1> QED
    BY <1>4, <1>5, <1>6, <1>7 DEF IInv

\* What the n-th inference about a request may be told.
ToldOf(request, n, told) ==
    /\ Acceptable(told)
    /\ Topics(told) \subseteq {request}
    /\ n = 1 => Topics(told) = {request}

LEMMA ContextIsTold ==
    ContextIsOwn <=> \A c \in CallIds : \A n \in DOMAIN run[c].inferences :
                        ToldOf(calls[c].request, n, run[c].inferences[n].messages)
  BY DEF ContextIsOwn, ToldOf

\* A step without an inference keeps what holds of the inferences made.
LEMMA NoInference ==
    ASSUME IInv, settings' = settings,
           \A d \in CallIds : /\ run'[d].inferences = run[d].inferences
                              /\ calls'[d].request = calls[d].request \/ run[d].pc = "none"
    PROVE  NoLocalRetry' /\ ContextIsOwn' /\ SelectedBackendOnly'
  <1>1. NoLocalRetry'
    BY DEF IInv, NoLocalRetry, Inferences, Runtime
  <1>2. ContextIsOwn'
    <2> SUFFICES ASSUME NEW d \in CallIds, NEW n \in DOMAIN run'[d].inferences
                 PROVE  ToldOf(calls'[d].request, n, run'[d].inferences[n].messages)
      BY DEF ContextIsOwn, ToldOf
    <2>1. run[d].pc = "none" => DOMAIN run[d].inferences = {}
      BY DEF IInv, InferencesAreLeft
    <2> QED
      BY <2>1, ContextIsTold DEF IInv
  <1>3. SelectedBackendOnly'
    BY DEF IInv, SelectedBackendOnly, Usable
  <1> QED
    BY <1>1, <1>2, <1>3

\* The threads still suffice when no further crew has one.
LEMMA NoMoreThreads ==
    ASSUME IInv, settings' = settings,
           Runtime = "crewai" => Busy' \subseteq Busy
    PROVE  ThreadsSuffice'
  <1> SUFFICES ASSUME Runtime = "crewai"
               PROVE  Cardinality(Busy') <= Workers
    BY DEF ThreadsSuffice, Runtime
  <1>1. IsFiniteSet(CallIds) /\ Busy \subseteq CallIds
    BY ServiceAssumption, FS_Interval DEF CallIds, Busy
  <1>2. IsFiniteSet(Busy)
    BY <1>1, FS_Subset
  <1>3. Cardinality(Busy') <= Cardinality(Busy)
    BY <1>2, FS_Subset
  <1>4. Cardinality(Busy) \in Nat /\ Cardinality(Busy') \in Nat
    BY <1>2, FS_CardinalityType, FS_Subset
  <1> QED
    BY <1>3, <1>4, ServiceAssumption DEF IInv, ThreadsSuffice

\* The queue is as it was, and so are the crews that wait.
LEMMA SameQueue ==
    ASSUME IInv, queue' = queue,
           \A d \in CallIds : run'[d].pc = "queued" <=> run[d].pc = "queued"
    PROVE  QueueIsWaiting'
  BY DEF IInv, QueueIsWaiting

LEMMA SendKeeps ==
    ASSUME IInv, NEW c \in CallIds, NEW i \in Identities, Send(c, i)
    PROVE  IInv'
  <1> DEFINE sent == [status |-> "sent", request |-> i, response |-> None]
  <1>1. /\ \A d \in CallIds : calls'[d] = IF d = c THEN sent ELSE calls[d]
        /\ DOMAIN calls' = CallIds
        /\ calls[c].status = "unused" /\ run[c].pc = "none"
    BY DEF IInv, WellTyped, RunsAreCalled, Send
  <1>2. WellTyped'
    <2>1. sent \in CallType
      BY DEF CallType
    <2> QED
      BY <2>1 DEF IInv, WellTyped, Send
  <1>3. RunsAreCalled'
    BY <1>1 DEF IInv, RunsAreCalled, Send, Client
  <1>4. QueueIsWaiting' /\ InferencesAreLeft'
    BY SameQueue DEF IInv, Send, InferencesAreLeft, Inferences, Runtime
  <1>5. ThreadsSuffice'
    BY NoMoreThreads DEF Send, Busy
  <1>6. NoLocalRetry' /\ ContextIsOwn' /\ SelectedBackendOnly'
    BY <1>1, NoInference DEF Send
  <1> QED
    BY <1>2, <1>3, <1>4, <1>5, <1>6 DEF IInv

\* A run goes on, with a session or without.
LEMMA RunGoesOn ==
    ASSUME NEW r \in RunType, NEW pc \in {"none", "queued", "infer", "respond", "ended"},
           NEW history \in SUBSET MessageType
    PROVE  [r EXCEPT !.pc = pc] \in RunType /\ [r EXCEPT !.pc = pc, !.history = history] \in RunType
  BY DEF RunType

\* A call joins the queue at its end.
LEMMA JoinQueue ==
    ASSUME IInv, NEW c \in CallIds, run[c].pc = "none", queue' = Append(queue, c),
           \A d \in CallIds : run'[d].pc = IF d = c THEN "queued" ELSE run[d].pc
    PROVE  QueueIsWaiting'
  <1>1. /\ queue \in Seq(CallIds) /\ Len(queue) \in Nat /\ DOMAIN queue = 1..Len(queue)
        /\ DOMAIN queue' = 1..(Len(queue) + 1)
        /\ queue'[Len(queue) + 1] = c
        /\ \A n \in 1..Len(queue) : queue'[n] = queue[n]
    BY LenProperties, AppendProperties DEF IInv, WellTyped
  <1>2. \A n \in 1..Len(queue) : queue[n] # c
    BY <1>1 DEF IInv, QueueIsWaiting
  <1>3. \A m, n \in DOMAIN queue' : queue'[m] = queue'[n] => m = n
    BY <1>1, <1>2 DEF IInv, QueueIsWaiting
  <1>4. ASSUME NEW d \in CallIds
        PROVE  run'[d].pc = "queued" <=> \E n \in DOMAIN queue' : queue'[n] = d
    <2>1. (\E n \in DOMAIN queue' : queue'[n] = d) <=> d = c \/ \E n \in DOMAIN queue : queue[n] = d
      BY <1>1
    <2> QED
      BY <2>1 DEF IInv, QueueIsWaiting
  <1> QED
    BY <1>3, <1>4 DEF QueueIsWaiting

\* The first call leaves the queue.
LEMMA LeaveQueue ==
    ASSUME IInv, NEW c \in CallIds, queue # <<>>, c = Head(queue), queue' = Tail(queue),
           \A d \in CallIds : run'[d].pc = IF d = c THEN "infer" ELSE run[d].pc
    PROVE  QueueIsWaiting'
  <1>1. /\ queue \in Seq(CallIds) /\ Len(queue) \in Nat \ {0} /\ DOMAIN queue = 1..Len(queue)
        /\ DOMAIN queue' = 1..(Len(queue) - 1)
        /\ \A n \in 1..(Len(queue) - 1) : queue'[n] = queue[n + 1]
    BY EmptySeq, LenProperties, HeadTailProperties DEF IInv, WellTyped
  <1>2. queue[1] = c
    BY <1>1
  <1>3. \A m, n \in DOMAIN queue' : queue'[m] = queue'[n] => m = n
    BY <1>1 DEF IInv, QueueIsWaiting
  <1>4. ASSUME NEW d \in CallIds
        PROVE  run'[d].pc = "queued" <=> \E n \in DOMAIN queue' : queue'[n] = d
    <2>1. CASE d = c
      <3>1. \A n \in 1..(Len(queue) - 1) : queue[n + 1] # c
        BY <1>1, <1>2 DEF IInv, QueueIsWaiting
      <3> QED
        BY <1>1, <2>1, <3>1
    <2>2. CASE d # c
      <3>1. ASSUME NEW n \in DOMAIN queue, queue[n] = d
            PROVE  n - 1 \in DOMAIN queue' /\ queue'[n - 1] = d
        BY <1>1, <1>2, <2>2, <3>1
      <3>2. ASSUME NEW n \in DOMAIN queue', queue'[n] = d
            PROVE  n + 1 \in DOMAIN queue /\ queue[n + 1] = d
        BY <1>1, <3>2
      <3> QED
        BY <2>2, <3>1, <3>2 DEF IInv, QueueIsWaiting
    <2> QED
      BY <2>1, <2>2
  <1> QED
    BY <1>3, <1>4 DEF QueueIsWaiting

LEMMA HandleKeeps ==
    ASSUME IInv, NEW c \in CallIds, Handle(c)
    PROVE  IInv'
  <1>1. CASE Client = None
    <2>1. /\ calls' = [calls EXCEPT ![c].status = "lost"] /\ UNCHANGED <<run, queue, settings, sessions, crashes>>
          /\ calls[c].status = "sent" /\ run[c].pc = "none"
      BY <1>1 DEF Handle
    <2>2. \A d \in CallIds : /\ calls'[d].request = calls[d].request
                             /\ calls'[d].response = calls[d].response
                             /\ calls'[d].status = IF d = c THEN "lost" ELSE calls[d].status
      BY <2>1 DEF IInv, WellTyped, CallType
    <2>3. WellTyped'
      BY <2>1 DEF IInv, WellTyped, CallType
    <2>4. RunsAreCalled'
      BY <2>1, <2>2 DEF IInv, RunsAreCalled, Client
    <2>5. QueueIsWaiting' /\ InferencesAreLeft'
      BY <2>1, SameQueue DEF IInv, InferencesAreLeft, Inferences, Runtime
    <2>6. ThreadsSuffice'
      BY <2>1, NoMoreThreads DEF Busy
    <2>7. NoLocalRetry' /\ ContextIsOwn' /\ SelectedBackendOnly'
      BY <2>1, <2>2, NoInference
    <2> QED
      BY <2>3, <2>4, <2>5, <2>6, <2>7 DEF IInv
  <1>2. CASE Client # None
    <2> DEFINE next == IF Runtime = "agno" THEN "infer" ELSE "queued"
    <2> DEFINE history == IF Runtime = "agno" THEN sessions[ConversationOf[calls[c].request]]
                                              ELSE run[c].history
    <2>1. /\ calls' = calls /\ settings' = settings /\ crashes' = crashes /\ sessions' = sessions
          /\ calls[c].status = "sent" /\ run[c].pc = "none"
          /\ run' = [run EXCEPT ![c] = [@ EXCEPT !.pc = next, !.history = history]]
          /\ queue' = IF Runtime = "agno" THEN queue ELSE Append(queue, c)
          /\ Runtime \in {"agno", "crewai"}
      BY <1>2 DEF Handle, Runtime, IInv, WellTyped, RunType
    <2>2. \A d \in CallIds : /\ run'[d].inferences = run[d].inferences
                             /\ run'[d].pc = IF d = c THEN next ELSE run[d].pc
      BY <2>1 DEF IInv, WellTyped, RunType
    <2>3. WellTyped'
      <3>1. queue' \in Seq(CallIds)
        BY <2>1, AppendProperties DEF IInv, WellTyped
      <3>2. history \in SUBSET MessageType
        <4>1. calls[c].request \in Identities
          BY <2>1 DEF IInv, RunsAreCalled
        <4> QED
          BY <4>1, ServiceAssumption DEF IInv, WellTyped, RunType
      <3>3. run' \in [CallIds -> RunType]
        <4> HIDE DEF history
        <4> QED
          BY <2>1, <3>2, RunGoesOn DEF IInv, WellTyped
      <3> QED
        BY <2>1, <3>1, <3>3 DEF IInv, WellTyped
    <2>4. RunsAreCalled'
      BY <1>2, <2>1, <2>2 DEF IInv, RunsAreCalled, Client
    <2>5. QueueIsWaiting'
      <3>1. CASE Runtime = "agno"
        BY <2>1, <2>2, <3>1, SameQueue
      <3>2. CASE Runtime # "agno"
        BY <2>1, <2>2, <3>2, JoinQueue
      <3> QED
        BY <3>1, <3>2
    <2>6. InferencesAreLeft'
      <3>1. Inferences' = Inferences
        BY <2>1 DEF Inferences, Runtime
      <3>2. Len(<<>>) = 0 /\ DOMAIN <<>> = {}
        BY EmptySeq
      <3>3. run[c].inferences = <<>>
        BY <2>1 DEF IInv, InferencesAreLeft
      <3> QED
        BY <2>1, <2>2, <3>1, <3>2, <3>3, Inferring DEF IInv, InferencesAreLeft
    <2>7. ThreadsSuffice'
      BY <2>1, <2>2, NoMoreThreads DEF Busy
    <2>8. NoLocalRetry' /\ ContextIsOwn' /\ SelectedBackendOnly'
      BY <2>1, <2>2, NoInference
    <2> QED
      BY <2>3, <2>4, <2>5, <2>6, <2>7, <2>8 DEF IInv
  <1> QED
    BY <1>1, <1>2

LEMMA PickUpKeeps ==
    ASSUME IInv, NEW c \in CallIds, PickUp(c)
    PROVE  IInv'
  <1>1. /\ calls' = calls /\ settings' = settings /\ crashes' = crashes /\ sessions' = sessions
        /\ run' = [run EXCEPT ![c].pc = "infer"]
        /\ queue # <<>> /\ c = Head(queue) /\ queue' = Tail(queue)
        /\ Cardinality(Busy) < Workers
    BY DEF PickUp, ThreadIsFree
  <1>2. run[c].pc = "queued"
    <2>1. 1 \in DOMAIN queue /\ queue[1] = c
      BY <1>1, EmptySeq, LenProperties DEF IInv, WellTyped
    <2> QED
      BY <2>1 DEF IInv, QueueIsWaiting
  <1>3. \A d \in CallIds : /\ run'[d].inferences = run[d].inferences
                           /\ run'[d].pc = IF d = c THEN "infer" ELSE run[d].pc
    BY <1>1 DEF IInv, WellTyped, RunType
  <1>4. WellTyped'
    <2>1. queue' \in Seq(CallIds)
      BY <1>1, HeadTailProperties DEF IInv, WellTyped
    <2>2. run[c] \in RunType /\ [run[c] EXCEPT !.pc = "infer"] \in RunType
      BY RunGoesOn DEF IInv, WellTyped
    <2>3. run' \in [CallIds -> RunType]
      BY <1>1, <2>2 DEF IInv, WellTyped
    <2> QED
      BY <1>1, <2>1, <2>3 DEF IInv, WellTyped
  <1>5. RunsAreCalled'
    BY <1>1, <1>2, <1>3 DEF IInv, RunsAreCalled, Client
  <1>6. QueueIsWaiting'
    BY <1>1, <1>3, LeaveQueue
  <1>7. InferencesAreLeft'
    <2>1. Inferences' = Inferences
      BY <1>1 DEF Inferences, Runtime
    <2>2. Len(<<>>) = 0 /\ DOMAIN <<>> = {}
      BY EmptySeq
    <2>3. run[c].inferences = <<>>
      BY <1>2 DEF IInv, InferencesAreLeft
    <2> QED
      BY <1>3, <2>1, <2>2, <2>3, Inferring DEF IInv, InferencesAreLeft
  <1>8. ThreadsSuffice'
    <2>1. Busy' = Busy \cup {c}
      BY <1>3 DEF Busy
    <2>2. IsFiniteSet(CallIds) /\ Busy \subseteq CallIds
      BY ServiceAssumption, FS_Interval DEF CallIds, Busy
    <2>3. IsFiniteSet(Busy) /\ Cardinality(Busy) \in Nat
      BY <2>2, FS_Subset, FS_CardinalityType
    <2>4. Cardinality(Busy') \in {Cardinality(Busy), Cardinality(Busy) + 1}
      BY <2>1, <2>3, FS_AddElement
    <2> QED
      BY <1>1, <2>3, <2>4, ServiceAssumption DEF ThreadsSuffice
  <1>9. NoLocalRetry' /\ ContextIsOwn' /\ SelectedBackendOnly'
    BY <1>1, <1>3, NoInference
  <1> QED
    BY <1>4, <1>5, <1>6, <1>7, <1>8, <1>9 DEF IInv

\* What an analysis may have inferred so far: about its own request, with the
\* backend of the service, and with a failure at most as the last one.
Inferred(c, made) ==
    /\ made \in Seq(InferenceType)
    /\ Len(made) <= Inferences
    /\ \A n \in 1..(Len(made) - 1) : made[n].text # None
    /\ \A n \in DOMAIN made :
        ToldOf(calls[c].request, n, made[n].messages) /\ made[n].backend = Client

OutputType == [status : {"none", "completed", "error", "raised"}, content : Seq(Words)]

LEMMA InferredSoFar ==
    ASSUME IInv, NEW c \in CallIds, run[c].pc = "infer"
    PROVE  Inferred(c, run[c].inferences)
  <1>1. settings \in Configurations /\ Client # None
    BY DEF IInv, WellTyped, RunsAreCalled
  <1> QED
    BY <1>1, ClientIsSelected, RunHasInferences
       DEF IInv, Inferred, NoLocalRetry, ContextIsOwn, ToldOf, SelectedBackendOnly

\* The next inference of a run is told about its own request at most: the
\* session of the conversation stays out of Agno's prompt, and the first output
\* of a crew is about no more than its first prompt was.
LEMMA MessagesAreOwn ==
    ASSUME IInv, NEW c \in CallIds, run[c].pc = "infer"
    PROVE  /\ Messages(c) \in SUBSET MessageType
           /\ ToldOf(calls[c].request, Len(run[c].inferences) + 1, Messages(c))
  <1> DEFINE request == calls[c].request
             made == run[c].inferences
             context == IF run[c].output.content = <<>> THEN {} ELSE Topics(made[1].messages)
  <1>1. request \in Identities
    BY DEF IInv, RunsAreCalled
  <1>2. Len(made) \in Nat /\ DOMAIN made = 1..Len(made) /\ (made = <<>> <=> Len(made) = 0)
    BY RunHasInferences, EmptySeq DEF IInv
  <1>3. ASSUME NEW about \in SUBSET {request}
        PROVE  /\ Text(about) \in MessageType /\ Text(about).kind = "text"
               /\ Text(about).about = about
    BY <1>1 DEF Text, MessageType
  <1>4. CASE Messages(c) = {Text({request})}
    <2>1. Topics(Messages(c)) = {request}
      BY <1>3, <1>4 DEF Topics
    <2> QED
      BY <1>3, <1>4, <2>1 DEF ToldOf, Acceptable
  <1>5. CASE Messages(c) = {Text({}), Text(context)} /\ made # <<>>
    <2>1. context \in SUBSET {request}
      <3>1. 1 \in DOMAIN made
        BY <1>2, <1>5
      <3> QED
        BY <3>1 DEF IInv, ContextIsOwn
    <2> HIDE DEF context
    <2>2. Topics(Messages(c)) \subseteq {request}
      BY <1>3, <1>5, <2>1 DEF Topics
    <2>3. Messages(c) \in SUBSET MessageType /\ Acceptable(Messages(c))
      BY <1>3, <1>5, <2>1 DEF Acceptable
    <2>4. Len(made) + 1 # 1
      BY <1>2, <1>5
    <2> HIDE DEF made
    <2> QED
      BY <2>2, <2>3, <2>4 DEF ToldOf, made
  <1> QED
    BY <1>4, <1>5 DEF Messages, AgnoMessages, AddHistoryToContext, CrewMessages

LEMMA AdvanceKeeps ==
    ASSUME IInv, NEW c \in CallIds, run[c].pc = "infer",
           NEW pc \in {"infer", "respond"}, NEW made, NEW output \in OutputType,
           Inferred(c, made),
           pc = "infer" => Len(made) < Inferences /\ \A n \in DOMAIN made : made[n].text # None,
           Advance(c, pc, made, output)
    PROVE  IInv'
  <1> DEFINE next == [pc |-> pc, inferences |-> made, output |-> output, history |-> run[c].history]
  <1>1. /\ calls' = calls /\ settings' = settings /\ crashes' = crashes /\ queue' = queue
        /\ \A d \in CallIds : run'[d] = IF d = c THEN next ELSE run[d]
        /\ run' = [run EXCEPT ![c] = next]
    BY DEF Advance, IInv, WellTyped
  <1>2. Inferences' = Inferences
    BY <1>1 DEF Inferences, Runtime
  <1>3. WellTyped'
    <2>1. next \in RunType
      BY DEF Inferred, OutputType, RunType, IInv, WellTyped
    <2>2. sessions' \in [Conversations -> SUBSET MessageType]
      <3> DEFINE told == Text(Topics(Messages(c)))
      <3>1. told \in MessageType
        BY MessagesAreOwn DEF ToldOf, MessageType, IInv, RunsAreCalled
      <3> HIDE DEF told
      <3>2. \/ sessions' = sessions
            \/ sessions' = [sessions EXCEPT ![ConversationOf[calls[c].request]] = @ \cup {told}]
        BY DEF Advance, told
      <3> QED
        BY <3>1, <3>2 DEF IInv, WellTyped
    <2> QED
      BY <1>1, <2>1, <2>2 DEF IInv, WellTyped
  <1>4. RunsAreCalled'
    BY <1>1 DEF IInv, RunsAreCalled, Client
  <1>5. QueueIsWaiting'
    BY <1>1, SameQueue
  <1>6. ThreadsSuffice'
    BY <1>1, NoMoreThreads DEF Busy
  <1>7. InferencesAreLeft'
    BY <1>1, <1>2 DEF IInv, InferencesAreLeft
  <1>8. NoLocalRetry'
    BY <1>1, <1>2 DEF IInv, NoLocalRetry, Inferred
  <1>9. ContextIsOwn'
    <2> SUFFICES ASSUME NEW d \in CallIds, NEW n \in DOMAIN run'[d].inferences
                 PROVE  ToldOf(calls'[d].request, n, run'[d].inferences[n].messages)
      BY DEF ContextIsOwn, ToldOf
    <2> QED
      BY <1>1, ContextIsTold DEF IInv, Inferred
  <1>10. SelectedBackendOnly'
    <2>1. settings \in Configurations /\ Client # None
      BY DEF IInv, WellTyped, RunsAreCalled
    <2>2. Client = settings.llm_backend /\ Usable(IF settings.llm_backend = "openai"
                THEN settings.openai_api_key ELSE settings.gateway_api_key)
      BY <2>1, ClientIsSelected
    <2> SUFFICES ASSUME NEW d \in CallIds, NEW n \in DOMAIN run'[d].inferences
                 PROVE  run'[d].inferences[n].backend = settings.llm_backend
      BY <1>1, <2>2 DEF SelectedBackendOnly, Usable
    <2>3. CASE d = c
      BY <1>1, <2>2, <2>3 DEF Inferred
    <2>4. CASE d # c
      BY <1>1, <2>4 DEF IInv, SelectedBackendOnly
    <2> QED
      BY <2>3, <2>4
  <1> QED
    BY <1>3, <1>4, <1>5, <1>6, <1>7, <1>8, <1>9, <1>10 DEF IInv

LEMMA FailureIsOutput ==
    OutputOfFailure \in OutputType
  BY TextAssumption, EmptySeq DEF OutputOfFailure, OutputType

LEMMA InferKeeps ==
    ASSUME IInv, NEW c \in CallIds, Infer(c)
    PROVE  IInv'
  <1>1. PICK reply \in Replies \cup {None} :
            LET text == Generated(Client, reply)
                made == Append(run[c].inferences,
                               [backend |-> Client, messages |-> Messages(c), text |-> text,
                                whole |-> reply # None /\ reply.whole])
            IN  \/ text = None /\ Advance(c, AfterFailure(c), made, OutputOfFailure)
                \/ /\ text # None
                   /\ \E output \in OutputsOf(text) :
                        Advance(c, IF Len(made) < Inferences THEN "infer" ELSE "respond", made, output)
    BY DEF Infer
  <1> DEFINE text == Generated(Client, reply)
             whole == reply # None /\ reply.whole
             inference == [backend |-> Client, messages |-> Messages(c), text |-> text, whole |-> whole]
             old == run[c].inferences
             made == Append(old, inference)
  <1>2. run[c].pc = "infer"
    BY DEF Infer
  <1>3. settings \in Configurations /\ Client # None /\ calls[c].request \in Identities
    BY <1>2 DEF IInv, WellTyped, RunsAreCalled
  <1>4. text \in {None} \cup Seq(Words)
    BY <1>3, GeneratedText
  <1>5. inference \in InferenceType
    <2>1. whole \in BOOLEAN
      OBVIOUS
    <2>2. Messages(c) \in SUBSET MessageType
      BY <1>2, MessagesAreOwn
    <2> HIDE DEF whole, text
    <2> QED
      BY <1>3, <1>4, <2>1, <2>2, ClientIsSelected DEF InferenceType
  <1>6. Inferred(c, old) /\ Len(old) < Inferences /\ \A n \in DOMAIN old : old[n].text # None
    BY <1>2, InferredSoFar DEF IInv, InferencesAreLeft
  <1>7. /\ old \in Seq(InferenceType) /\ Len(old) \in Nat /\ DOMAIN old = 1..Len(old)
        /\ made \in Seq(InferenceType)
        /\ Len(made) = Len(old) + 1 /\ DOMAIN made = 1..(Len(old) + 1)
        /\ \A n \in 1..Len(old) : made[n] = old[n]
        /\ made[Len(old) + 1] = inference
    <2> HIDE DEF inference
    <2> QED
      BY <1>5, <1>6, LenProperties, AppendProperties DEF Inferred
  <1>8. ToldOf(calls[c].request, Len(old) + 1, inference.messages) /\ inference.backend = Client
    BY <1>2, MessagesAreOwn
  <1> HIDE DEF made, old
  <1>9. Inferred(c, made)
    <2> HIDE DEF inference
    <2> QED
      BY <1>6, <1>7, <1>8, Inferring DEF Inferred
  <1>10. CASE text = None /\ Advance(c, AfterFailure(c), made, OutputOfFailure)
    <2>1. AfterFailure(c) \in {"infer", "respond"} /\ AfterFailure(c) # "infer"
      BY DEF AfterFailure
    <2> QED
      BY <1>2, <1>9, <1>10, <2>1, FailureIsOutput, AdvanceKeeps
  <1>11. ASSUME text # None, NEW output \in OutputsOf(text),
                Advance(c, IF Len(made) < Inferences THEN "infer" ELSE "respond", made, output)
         PROVE  IInv'
    <2> DEFINE pc == IF Len(made) < Inferences THEN "infer" ELSE "respond"
    <2>1. output \in OutputType
      <3>1. output = CompletedWith(text) \/ output = CompletedWith(<<>>)
        BY <1>11 DEF OutputsOf
      <3>2. text \in Seq(Words) /\ <<>> \in Seq(Words)
        BY <1>4, <1>11, EmptySeq
      <3>3. ASSUME NEW x \in Seq(Words)
            PROVE  CompletedWith(x) \in OutputType
        BY DEF CompletedWith, OutputType
      <3> HIDE DEF text
      <3> QED
        BY <3>1, <3>2, <3>3
    <2>2. \A n \in DOMAIN made : made[n].text # None
      <3>1. inference.text # None
        BY <1>11
      <3> HIDE DEF inference, text
      <3> QED
        BY <1>6, <1>7, <3>1
    <2>3. pc \in {"infer", "respond"} /\ (pc = "infer" => Len(made) < Inferences)
      OBVIOUS
    <2>4. Advance(c, pc, made, output)
      BY <1>11
    <2> HIDE DEF pc
    <2> QED
      BY <1>2, <1>9, <2>1, <2>2, <2>3, <2>4, AdvanceKeeps
  <1> QED
    BY <1>1, <1>10, <1>11 DEF made, old

LEMMA RefuseFeatureKeeps ==
    ASSUME IInv, NEW c \in CallIds, RefuseFeature(c)
    PROVE  IInv'
  <1>1. run[c].pc = "infer" /\ Advance(c, AfterFailure(c), run[c].inferences, OutputOfFailure)
    BY DEF RefuseFeature
  <1>2. AfterFailure(c) \in {"infer", "respond"} /\ AfterFailure(c) # "infer"
    BY DEF AfterFailure
  <1> QED
    BY <1>1, <1>2, InferredSoFar, FailureIsOutput, AdvanceKeeps

\* A summary that is admitted is a text of the admitted length.
LEMMA SummaryIsText ==
    ASSUME IInv, NEW c \in CallIds, Admissible(Summary(run[c].output))
    PROVE  /\ Summary(run[c].output) \in Seq(Words)
           /\ Len(Summary(run[c].output)) \in 1..MaxSummary
  <1>1. run[c].output.content \in Seq(Words)
    BY DEF IInv, WellTyped, RunType
  <1> QED
    BY <1>1, TextAssumption DEF Admissible, Summary, AgnoSummary, CrewSummary

\* What a response leaves of the calls: at most the one it is for changes, and
\* only if its caller waits.
LEMMA RespondCalls ==
    ASSUME IInv, NEW c \in CallIds, Respond(c)
    PROVE  \/ calls' = calls
           \/ /\ calls[c].status = "sent"
              /\ \/ calls' = [calls EXCEPT ![c].status = "refused"]
                 \/ \E s \in Seq(Words) :
                        /\ Len(s) \in 1..MaxSummary
                        /\ calls' = [calls EXCEPT ![c].status = "answered",
                                ![c].response = [identity |-> calls[c].request, summary |-> s]]
  <1> DEFINE s == Summary(run[c].output)
  <1>1. CASE calls[c].status # "sent"
    BY <1>1 DEF Respond, Delivered
  <1>2. CASE calls[c].status = "sent" /\ Admissible(s)
    <2>1. calls' = [calls EXCEPT ![c] = [calls[c] EXCEPT !.status = "answered",
                        !.response = [identity |-> calls[c].request, summary |-> s]]]
      BY <1>2 DEF Respond, Delivered
    <2>2. calls' = [calls EXCEPT ![c].status = "answered",
                        ![c].response = [identity |-> calls[c].request, summary |-> s]]
      <3> HIDE DEF s
      <3> QED
        BY <2>1 DEF IInv, WellTyped, CallType
    <2>3. s \in Seq(Words) /\ Len(s) \in 1..MaxSummary
      BY <1>2, SummaryIsText
    <2> HIDE DEF s
    <2> QED
      BY <1>2, <2>2, <2>3
  <1>3. CASE calls[c].status = "sent" /\ ~Admissible(s)
    <2>1. calls' = [calls EXCEPT ![c] = [calls[c] EXCEPT !.status = "refused"]]
      BY <1>3 DEF Respond, Delivered
    <2>2. calls' = [calls EXCEPT ![c].status = "refused"]
      BY <2>1
    <2> QED
      BY <1>3, <2>2
  <1> QED
    BY <1>1, <1>2, <1>3

LEMMA RespondKeeps ==
    ASSUME IInv, NEW c \in CallIds, Respond(c)
    PROVE  IInv'
  <1>1. /\ settings' = settings /\ sessions' = sessions /\ crashes' = crashes /\ queue' = queue
        /\ run' = [run EXCEPT ![c].pc = "ended"] /\ run[c].pc = "respond"
    BY DEF Respond
  <1>2. \A d \in CallIds : /\ run'[d].inferences = run[d].inferences
                           /\ run'[d].pc = IF d = c THEN "ended" ELSE run[d].pc
    BY <1>1 DEF IInv, WellTyped, RunType
  <1>3. calls[c].request \in Identities
    BY <1>1 DEF IInv, RunsAreCalled
  <1> DEFINE Kept ==
                /\ calls' \in [CallIds -> CallType]
                /\ \A d \in CallIds : calls'[d].request = calls[d].request
                /\ \A d \in CallIds : calls'[d] # calls[d] =>
                        calls[d].status = "sent" /\ calls'[d].status \in {"answered", "refused"}
  <1>4. Kept
    <2>1. CASE calls' = calls
      BY <2>1 DEF IInv, WellTyped
    <2>2. CASE calls' = [calls EXCEPT ![c].status = "refused"] /\ calls[c].status = "sent"
      BY <2>2 DEF IInv, WellTyped, CallType
    <2>3. ASSUME NEW s \in Seq(Words), calls[c].status = "sent",
                 calls' = [calls EXCEPT ![c].status = "answered",
                                ![c].response = [identity |-> calls[c].request, summary |-> s]]
          PROVE  Kept
      <3> DEFINE response == [identity |-> calls[c].request, summary |-> s]
      <3>1. response \in [identity : Identities, summary : Seq(Words)]
        BY <1>3, <2>3
      <3> HIDE DEF response
      <3> QED
        BY <2>3, <3>1 DEF response, IInv, WellTyped, CallType
    <2> HIDE DEF Kept
    <2> QED
      BY <2>1, <2>2, <2>3, RespondCalls
  <1>5. WellTyped'
    <2>1. run' \in [CallIds -> RunType]
      BY <1>1 DEF IInv, WellTyped, RunType
    <2> QED
      BY <1>1, <1>4, <2>1 DEF IInv, WellTyped
  <1>6. RunsAreCalled'
    BY <1>1, <1>2, <1>4 DEF IInv, RunsAreCalled, Client
  <1>7. QueueIsWaiting'
    BY <1>1, <1>2, SameQueue
  <1>8. ThreadsSuffice'
    BY <1>1, <1>2, NoMoreThreads DEF Busy
  <1>9. InferencesAreLeft'
    BY <1>1, <1>2 DEF IInv, InferencesAreLeft, Inferences, Runtime
  <1>10. NoLocalRetry' /\ ContextIsOwn' /\ SelectedBackendOnly'
    BY <1>1, <1>2, <1>4, NoInference
  <1> QED
    BY <1>5, <1>6, <1>7, <1>8, <1>9, <1>10 DEF IInv

LEMMA GiveUpKeeps ==
    ASSUME IInv, NEW c \in CallIds, GiveUp(c)
    PROVE  IInv'
  <1>1. /\ calls' = [calls EXCEPT ![c].status = "lost"] /\ calls[c].status \in {"sent", "answered"}
        /\ UNCHANGED <<settings, run, queue, sessions, crashes>>
    BY DEF GiveUp
  <1>2. \A d \in CallIds : /\ calls'[d].request = calls[d].request
                           /\ calls'[d].response = calls[d].response
                           /\ calls'[d].status = IF d = c THEN "lost" ELSE calls[d].status
    BY <1>1 DEF IInv, WellTyped, CallType
  <1>3. WellTyped'
    BY <1>1 DEF IInv, WellTyped, CallType
  <1>4. RunsAreCalled'
    BY <1>1, <1>2 DEF IInv, RunsAreCalled, Client
  <1>5. QueueIsWaiting' /\ InferencesAreLeft'
    BY <1>1, SameQueue DEF IInv, InferencesAreLeft, Inferences, Runtime
  <1>6. ThreadsSuffice'
    BY <1>1, NoMoreThreads DEF Busy
  <1>7. NoLocalRetry' /\ ContextIsOwn' /\ SelectedBackendOnly'
    BY <1>1, <1>2, NoInference
  <1> QED
    BY <1>3, <1>4, <1>5, <1>6, <1>7 DEF IInv

LEMMA CrashKeeps ==
    ASSUME IInv, Crash
    PROVE  IInv'
  <1>1. /\ settings' = settings /\ sessions' = sessions /\ queue' = <<>>
        /\ crashes' = crashes + 1 /\ crashes < MaxCrashes
        /\ run' = [c \in CallIds |->
                        IF InService(c) THEN [run[c] EXCEPT !.pc = "ended"] ELSE run[c]]
        /\ calls' = [c \in CallIds |->
                        IF calls[c].status = "sent" THEN [calls[c] EXCEPT !.status = "lost"] ELSE calls[c]]
    BY DEF Crash
  <1>2. \A d \in CallIds :
            /\ run'[d].inferences = run[d].inferences
            /\ run'[d].pc = IF run[d].pc = "none" THEN "none" ELSE "ended"
            /\ calls'[d].request = calls[d].request
            /\ calls'[d].response = calls[d].response
            /\ calls'[d].status = IF calls[d].status = "sent" THEN "lost" ELSE calls[d].status
    BY <1>1 DEF IInv, WellTyped, RunType, CallType, InService
  <1>3. WellTyped'
    <2>1. run' \in [CallIds -> RunType]
      BY <1>1 DEF IInv, WellTyped, RunType
    <2>2. calls' \in [CallIds -> CallType]
      BY <1>1 DEF IInv, WellTyped, CallType
    <2>3. crashes' \in 0..MaxCrashes
      BY <1>1, ServiceAssumption DEF IInv, WellTyped
    <2>4. queue' \in Seq(CallIds)
      BY <1>1, EmptySeq
    <2> QED
      BY <1>1, <2>1, <2>2, <2>3, <2>4 DEF IInv, WellTyped
  <1>4. RunsAreCalled'
    BY <1>1, <1>2 DEF IInv, RunsAreCalled, Client
  <1>5. QueueIsWaiting'
    <2>1. DOMAIN <<>> = {}
      BY EmptySeq
    <2> QED
      BY <1>1, <1>2, <2>1 DEF QueueIsWaiting
  <1>6. ThreadsSuffice'
    BY <1>1, <1>2, NoMoreThreads DEF Busy
  <1>7. InferencesAreLeft'
    BY <1>1, <1>2 DEF IInv, InferencesAreLeft
  <1>8. NoLocalRetry' /\ ContextIsOwn' /\ SelectedBackendOnly'
    BY <1>1, <1>2, NoInference
  <1> QED
    BY <1>3, <1>4, <1>5, <1>6, <1>7, <1>8 DEF IInv

LEMMA StepKeeps ==
    ASSUME IInv, [Next]_vars
    PROVE  IInv'
  <1>1. CASE UNCHANGED vars
    BY <1>1, NoInference
       DEF vars, IInv, WellTyped, RunsAreCalled, QueueIsWaiting, ThreadsSuffice, Busy,
           InferencesAreLeft, Runtime, Client, Inferences
  <1>2. ASSUME NEW c \in CallIds, Step(c)
        PROVE  IInv'
    BY <1>2, HandleKeeps, PickUpKeeps, InferKeeps, RefuseFeatureKeeps, RespondKeeps DEF Step
  <1> QED
    BY <1>1, <1>2, SendKeeps, GiveUpKeeps, CrashKeeps DEF Next

-----------------------------------------------------------------------------
(* What an answer stands on.                                               *)

\* An adapter makes a text of a whole reply only: whatever else the provider
\* can send is told apart by one of the adapter's conditions.
LEMMA TextIsWhole ==
    ASSUME NEW reply \in Replies, Generated(Client, reply) # None
    PROVE  reply.whole
  <1>1. CASE Client = "openai"
    <2>1. reply \in OpenAIReplies /\ OpenAIText(reply) # None
      BY <1>1 DEF Replies, Generated
    <2>2. /\ reply.status = "completed" /\ ~reply.error /\ ~reply.incomplete
          /\ \A n \in DOMAIN reply.output : CompleteText(reply.output[n])
          /\ OutputText(reply.output) # <<>>
      BY <2>1 DEF OpenAIText
    <2> QED
      BY <2>1, <2>2, ProviderAssumption, TextAssumption DEF CompleteText
  <1>2. CASE Client # "openai"
    <2>1. reply \in GatewayReplies /\ GatewayText(reply) # None
      BY <1>2 DEF Replies, Generated
    <2>2. /\ reply.status = "succeeded" /\ ~reply.error
          /\ ~reply.tool_calls /\ ~reply.structured_output /\ reply.content # <<>>
      BY <2>1 DEF GatewayText
    <2> QED
      BY <2>1, <2>2, ProviderAssumption, TextAssumption
  <1> QED
    BY <1>1, <1>2

\* A step that infers nothing and gives no answer leaves the answers as they
\* are, and what they stand on.
LEMMA NoAnswer ==
    ASSUME AnswerInv, settings' = settings,
           \A d \in CallIds :
                /\ run'[d].inferences = run[d].inferences /\ run'[d].output = run[d].output
                /\ run'[d].pc = "respond" => run[d].pc = "respond"
                /\ run[d].pc = "ended" => run'[d].pc = "ended"
                /\ calls'[d].status = "answered" =>
                      calls[d].status = "answered" /\ calls'[d].response = calls[d].response
    PROVE  AnswerInv'
  <1>1. Inferences' = Inferences /\ Runtime' = Runtime
    BY DEF Inferences, Runtime
  <1>2. TextsAreWhole'
    BY DEF AnswerInv, TextsAreWhole
  <1>3. OutputIsOfText'
    BY <1>1 DEF AnswerInv, OutputIsOfText, OutputOfFailure, OutputsOf, CompletedWith
  <1>4. AnsweredAtEnd'
    BY DEF AnswerInv, AnsweredAtEnd
  <1>5. AnswersAreWhole'
    BY <1>1 DEF AnswerInv, AnswersAreWhole
  <1> QED
    BY <1>2, <1>3, <1>4, <1>5 DEF AnswerInv

\* An analysis goes on: its new inference, if it made one, is of a whole reply
\* or failed, and the answers of other calls are not touched.
LEMMA AdvanceAnswers ==
    ASSUME IInv, AnswerInv, NEW c \in CallIds, run[c].pc = "infer",
           NEW pc \in {"infer", "respond"}, NEW made, NEW output,
           Advance(c, pc, made, output),
           \A n \in DOMAIN made : made[n].text # None => made[n].whole,
           pc = "respond" =>
                \/ output = OutputOfFailure
                \/ /\ Len(made) = Inferences /\ made[Inferences].text # None
                   /\ output \in OutputsOf(made[Inferences].text)
    PROVE  AnswerInv'
  <1> DEFINE next == [pc |-> pc, inferences |-> made, output |-> output, history |-> run[c].history]
  <1>1. /\ calls' = calls /\ settings' = settings
        /\ \A d \in CallIds : run'[d] = IF d = c THEN next ELSE run[d]
    BY DEF Advance, IInv, WellTyped
  <1>2. Inferences' = Inferences /\ Runtime' = Runtime /\ OutputOfFailure' = OutputOfFailure
    BY <1>1 DEF Inferences, Runtime, OutputOfFailure
  <1>3. calls[c].status # "answered"
    BY DEF AnswerInv, AnsweredAtEnd
  <1>4. TextsAreWhole'
    BY <1>1 DEF AnswerInv, TextsAreWhole
  <1>5. OutputIsOfText'
    BY <1>1, <1>2 DEF AnswerInv, OutputIsOfText, OutputsOf, CompletedWith
  <1>6. AnsweredAtEnd'
    BY <1>1, <1>3 DEF AnswerInv, AnsweredAtEnd
  <1>7. AnswersAreWhole'
    BY <1>1, <1>2, <1>3 DEF AnswerInv, AnswersAreWhole
  <1> QED
    BY <1>4, <1>5, <1>6, <1>7 DEF AnswerInv

LEMMA InferAnswers ==
    ASSUME IInv, AnswerInv, NEW c \in CallIds, Infer(c)
    PROVE  AnswerInv'
  <1>1. PICK reply \in Replies \cup {None} :
            LET text == Generated(Client, reply)
                made == Append(run[c].inferences,
                               [backend |-> Client, messages |-> Messages(c), text |-> text,
                                whole |-> reply # None /\ reply.whole])
            IN  \/ text = None /\ Advance(c, AfterFailure(c), made, OutputOfFailure)
                \/ /\ text # None
                   /\ \E output \in OutputsOf(text) :
                        Advance(c, IF Len(made) < Inferences THEN "infer" ELSE "respond", made, output)
    BY DEF Infer
  <1> DEFINE text == Generated(Client, reply)
             whole == reply # None /\ reply.whole
             inference == [backend |-> Client, messages |-> Messages(c), text |-> text, whole |-> whole]
             old == run[c].inferences
             made == Append(old, inference)
  <1>2. run[c].pc = "infer"
    BY DEF Infer
  <1>3. text # None => whole
    BY NothingGenerated, TextIsWhole
  <1>4. /\ old \in Seq(InferenceType) /\ Len(old) \in Nat /\ DOMAIN old = 1..Len(old)
        /\ Len(old) < Inferences
    BY <1>2, RunHasInferences DEF IInv, InferencesAreLeft
  <1>5. inference.text = text /\ inference.whole = whole
    OBVIOUS
  <1> HIDE DEF inference, text, whole
  <1>6. /\ Len(made) = Len(old) + 1 /\ DOMAIN made = 1..(Len(old) + 1)
        /\ \A n \in 1..Len(old) : made[n] = old[n]
        /\ made[Len(old) + 1] = inference
    BY <1>4, AppendIsLonger
  <1> HIDE DEF made, old
  <1>7. \A n \in DOMAIN made : made[n].text # None => made[n].whole
    <2>1. \A n \in DOMAIN old : old[n].text # None => old[n].whole
      BY DEF old, AnswerInv, TextsAreWhole
    <2> QED
      BY <1>3, <1>4, <1>5, <1>6, <2>1
  <1>8. CASE text = None /\ Advance(c, AfterFailure(c), made, OutputOfFailure)
    <2>1. AfterFailure(c) \in {"infer", "respond"}
      BY DEF AfterFailure
    <2> QED
      BY <1>2, <1>7, <1>8, <2>1, AdvanceAnswers
  <1>9. ASSUME text # None, NEW output \in OutputsOf(text),
               Advance(c, IF Len(made) < Inferences THEN "infer" ELSE "respond", made, output)
        PROVE  AnswerInv'
    <2> DEFINE pc == IF Len(made) < Inferences THEN "infer" ELSE "respond"
    <2>1. pc \in {"infer", "respond"} /\ Advance(c, pc, made, output)
      BY <1>9
    <2>2. pc = "respond" => Len(made) = Inferences /\ made[Inferences].text = text
      BY <1>4, <1>5, <1>6, Inferring
    <2> HIDE DEF pc
    <2> QED
      BY <1>2, <1>7, <1>9, <2>1, <2>2, AdvanceAnswers
  <1> QED
    BY <1>1, <1>8, <1>9 DEF made, old, inference, text, whole

\* A response: the analysis of an answered call ended with what its last
\* inference gave, and every inference before it gave a text.
LEMMA RespondAnswers ==
    ASSUME IInv, AnswerInv, NEW c \in CallIds, Respond(c)
    PROVE  AnswerInv'
  <1> DEFINE made == run[c].inferences
             summary == Summary(run[c].output)
  <1>1. /\ settings' = settings /\ run[c].pc = "respond"
        /\ run' = [run EXCEPT ![c].pc = "ended"]
    BY DEF Respond
  <1>2. Inferences' = Inferences /\ Runtime' = Runtime /\ OutputOfFailure' = OutputOfFailure
    BY <1>1 DEF Inferences, Runtime, OutputOfFailure
  <1>3. \A d \in CallIds : /\ run'[d].inferences = run[d].inferences
                           /\ run'[d].output = run[d].output
                           /\ run'[d].pc = IF d = c THEN "ended" ELSE run[d].pc
    BY <1>1 DEF IInv, WellTyped, RunType
  <1>4. \A d \in CallIds : calls'[d].status = "answered" =>
            \/ d # c /\ calls'[d] = calls[d]
            \/ d = c /\ Admissible(summary) /\ calls'[d].response.summary = summary
    <2>1. calls[c].status # "answered"
      BY <1>1 DEF AnswerInv, AnsweredAtEnd
    <2>2. calls' = Delivered(c,
                IF Admissible(summary)
                THEN [calls[c] EXCEPT !.status = "answered",
                        !.response = [identity |-> calls[c].request, summary |-> summary]]
                ELSE [calls[c] EXCEPT !.status = "refused"])
      BY DEF Respond
    <2> HIDE DEF summary
    <2> QED
      BY <2>1, <2>2 DEF Delivered, IInv, WellTyped, CallType
  <1>5. Admissible(summary) =>
            /\ Len(made) = Inferences /\ made[Inferences].text # None
            /\ summary \in {made[Inferences].text}
                    \cup (IF Runtime = "crewai" THEN {Placeholder} ELSE {})
    <2>1. CASE run[c].output = OutputOfFailure
      <3>1. summary = None
        BY <2>1 DEF Summary, AgnoSummary, CrewSummary, OutputOfFailure
      <3> QED
        BY <3>1 DEF Admissible
    <2>2. CASE /\ Len(made) = Inferences /\ made[Inferences].text # None
               /\ run[c].output \in OutputsOf(made[Inferences].text)
      <3>1. summary # None => summary \in {made[Inferences].text}
                    \cup (IF Runtime = "crewai" THEN {Placeholder} ELSE {})
        <4>1. CASE run[c].output = CompletedWith(made[Inferences].text)
          <5>1. Runtime \in {"agno", "crewai"}
            BY ServiceAssumption DEF Runtime, Settings, IInv, WellTyped
          <5> QED
            BY <4>1, <5>1 DEF Summary, AgnoSummary, CrewSummary, CompletedWith
        <4>2. CASE Runtime = "crewai" /\ run[c].output = CompletedWith(<<>>)
          BY <4>2 DEF Summary, CrewSummary, CompletedWith
        <4> QED
          BY <2>2, <4>1, <4>2 DEF OutputsOf
      <3> QED
        BY <2>2, <3>1 DEF Admissible
    <2> QED
      BY <1>1, <2>1, <2>2 DEF AnswerInv, OutputIsOfText
  <1>6. Len(made) = Inferences /\ made[Inferences].text # None => \A n \in DOMAIN made : made[n].whole
    <2>1. Len(made) \in Nat /\ DOMAIN made = 1..Len(made)
      BY RunHasInferences DEF IInv
    <2>2. \A n \in 1..(Len(made) - 1) : made[n].text # None
      BY DEF IInv, NoLocalRetry
    <2>3. \A n \in DOMAIN made : made[n].text # None => made[n].whole
      BY DEF AnswerInv, TextsAreWhole
    <2> QED
      BY <2>1, <2>2, <2>3, Inferring
  <1>7. AnswersAreWhole'
    <2> SUFFICES ASSUME NEW d \in CallIds, calls'[d].status = "answered"
                 PROVE  /\ Len(run'[d].inferences) = Inferences
                        /\ \A n \in DOMAIN run'[d].inferences : run'[d].inferences[n].whole
                        /\ calls'[d].response.summary \in {run'[d].inferences[Inferences].text}
                                \cup (IF Runtime = "crewai" THEN {Placeholder} ELSE {})
      BY <1>2 DEF AnswersAreWhole
    <2>1. CASE d # c
      BY <1>3, <1>4, <2>1 DEF AnswerInv, AnswersAreWhole
    <2>2. CASE d = c
      BY <1>3, <1>4, <1>5, <1>6, <2>2
    <2> QED
      BY <2>1, <2>2
  <1>8. TextsAreWhole' /\ AnsweredAtEnd'
    <2> HIDE DEF summary
    <2> QED
      BY <1>3, <1>4 DEF AnswerInv, TextsAreWhole, AnsweredAtEnd
  <1>9. OutputIsOfText'
    BY <1>2, <1>3 DEF AnswerInv, OutputIsOfText, OutputsOf, CompletedWith
  <1> QED
    BY <1>7, <1>8, <1>9 DEF AnswerInv

LEMMA StepAnswers ==
    ASSUME IInv, AnswerInv, [Next]_vars
    PROVE  AnswerInv'
  <1>1. CASE UNCHANGED vars
    BY <1>1, NoAnswer DEF vars
  <1>2. ASSUME NEW c \in CallIds, NEW i \in Identities, Send(c, i)
        PROVE  AnswerInv'
    BY <1>2, NoAnswer DEF Send, IInv, WellTyped
  <1>3. ASSUME NEW c \in CallIds, Handle(c)
        PROVE  AnswerInv'
    <2>1. /\ settings' = settings
          /\ calls' = calls \/ calls' = [calls EXCEPT ![c].status = "lost"]
          /\ \/ run' = run
             \/ /\ run[c].pc = "none"
                /\ \E pc \in {"infer", "queued"} : run' = [run EXCEPT ![c].pc = pc]
      BY <1>3 DEF Handle
    <2>2. \A d \in CallIds : /\ run'[d].inferences = run[d].inferences
                             /\ run'[d].output = run[d].output
                             /\ run'[d].pc = "respond" => run[d].pc = "respond"
                             /\ run[d].pc = "ended" => run'[d].pc = "ended"
      <3>1. CASE run' = run
        BY <3>1
      <3>2. ASSUME NEW pc \in {"infer", "queued"}, run' = [run EXCEPT ![c].pc = pc],
                   run[c].pc = "none"
            PROVE  \A d \in CallIds :
                        /\ run'[d].inferences = run[d].inferences
                        /\ run'[d].output = run[d].output
                        /\ run'[d].pc = IF d = c THEN pc ELSE run[d].pc
        BY <3>2 DEF IInv, WellTyped, RunType
      <3> QED
        BY <2>1, <3>1, <3>2
    <2>3. \A d \in CallIds : calls'[d].status = "answered" =>
                calls[d].status = "answered" /\ calls'[d].response = calls[d].response
      BY <2>1 DEF IInv, WellTyped, CallType
    <2> QED
      BY <2>1, <2>2, <2>3, NoAnswer
  <1>4. ASSUME NEW c \in CallIds, PickUp(c)
        PROVE  AnswerInv'
    <2>1. run[c].pc = "queued"
      <3>1. 1 \in DOMAIN queue /\ queue[1] = c
        BY <1>4, EmptySeq, LenProperties DEF IInv, WellTyped, PickUp
      <3> QED
        BY <3>1 DEF IInv, QueueIsWaiting
    <2>2. settings' = settings /\ calls' = calls /\ run' = [run EXCEPT ![c].pc = "infer"]
      BY <1>4 DEF PickUp
    <2> QED
      BY <2>1, <2>2, NoAnswer DEF IInv, WellTyped, RunType
  <1>5. ASSUME NEW c \in CallIds, RefuseFeature(c)
        PROVE  AnswerInv'
    <2>1. run[c].pc = "infer" /\ Advance(c, AfterFailure(c), run[c].inferences, OutputOfFailure)
      BY <1>5 DEF RefuseFeature
    <2>2. AfterFailure(c) \in {"infer", "respond"}
      BY DEF AfterFailure
    <2> QED
      BY <2>1, <2>2, AdvanceAnswers DEF AnswerInv, TextsAreWhole
  <1>6. ASSUME NEW c \in CallIds, GiveUp(c)
        PROVE  AnswerInv'
    BY <1>6, NoAnswer DEF GiveUp, IInv, WellTyped, CallType
  <1>7. CASE Crash
    <2>1. /\ settings' = settings
          /\ run' = [c \in CallIds |->
                        IF InService(c) THEN [run[c] EXCEPT !.pc = "ended"] ELSE run[c]]
          /\ calls' = [c \in CallIds |->
                        IF calls[c].status = "sent" THEN [calls[c] EXCEPT !.status = "lost"] ELSE calls[c]]
      BY <1>7 DEF Crash
    <2>2. \A d \in CallIds : /\ run'[d].inferences = run[d].inferences
                             /\ run'[d].output = run[d].output
                             /\ run'[d].pc \in {run[d].pc, "ended"}
                             /\ run[d].pc = "ended" => run'[d].pc = "ended"
                             /\ calls'[d].response = calls[d].response
                             /\ calls'[d].status \in {calls[d].status, "lost"}
      BY <2>1 DEF IInv, WellTyped, RunType, CallType
    <2> QED
      BY <2>1, <2>2, NoAnswer
  <1> QED
    BY <1>1, <1>2, <1>3, <1>4, <1>5, <1>6, <1>7, InferAnswers, RespondAnswers DEF Next, Step

-----------------------------------------------------------------------------
(* The theorems.                                                           *)

\* The invariant holds in every reachable state.
THEOREM Invariance == Spec => []IInv
  <1>1. Init => IInv
    BY InitIInv
  <1>2. IInv /\ [Next]_vars => IInv'
    BY StepKeeps
  <1> QED
    BY <1>1, <1>2, PTL DEF Spec

\* As many crews wait as the queue is long.
LEMMA QueueIsExact ==
    ASSUME IInv
    PROVE  Len(queue) = Cardinality(ToSet(queue)) /\ ToSet(queue) = {c \in CallIds : run[c].pc = "queued"}
  <1>1. /\ queue \in Seq(CallIds) /\ Len(queue) \in Nat /\ DOMAIN queue = 1..Len(queue)
        /\ queue \in [1..Len(queue) -> CallIds]
    BY LenProperties DEF IInv, WellTyped
  <1>2. ToSet(queue) = {queue[n] : n \in 1..Len(queue)}
    BY <1>1 DEF ToSet
  <1>3. queue \in Bijection(1..Len(queue), ToSet(queue))
    BY <1>1, <1>2 DEF IInv, QueueIsWaiting, Bijection, Injection, Surjection, IsInjective
  <1>4. IsFiniteSet(1..Len(queue)) /\ Cardinality(1..Len(queue)) = Len(queue)
    BY <1>1, FS_Interval
  <1>5. Cardinality(ToSet(queue)) = Len(queue)
    BY <1>3, <1>4, FS_Bijection DEF ExistsBijection
  <1>6. ToSet(queue) = {c \in CallIds : run[c].pc = "queued"}
    BY <1>1, <1>2 DEF IInv, QueueIsWaiting
  <1> QED
    BY <1>5, <1>6

\* The queue of the executor holds the crews that wait, once each, and no more
\* crews run than there are threads.
THEOREM TypeCorrect == Spec => []TypeOK
  <1>1. IInv => TypeOK
    <2> SUFFICES ASSUME IInv PROVE TypeOK
      OBVIOUS
    <2>1. ASSUME NEW c \in CallIds
          PROVE  /\ run[c].pc \in {"none", "queued", "infer", "respond", "ended"}
                 /\ calls[c].status \in {"unused", "sent", "answered", "refused", "lost"}
      BY DEF IInv, WellTyped, RunType, CallType
    <2>2. ASSUME NEW c \in CallIds, InService(c)
          PROVE  calls[c].request \in Identities
      BY <2>2 DEF InService, IInv, RunsAreCalled
    <2> QED
      BY <2>1, <2>2, QueueIsExact DEF TypeOK, IInv, WellTyped, ThreadsSuffice
  <1> QED
    BY <1>1, Invariance, PTL

\* Neither runtime repeats a model call: an analysis makes as many as it has
\* tasks, and none after one that failed, whatever its caller does meanwhile.
THEOREM InferencesAreNotRetried == Spec => []NoLocalRetry
  <1>1. IInv => NoLocalRetry
    BY DEF IInv
  <1> QED
    BY <1>1, Invariance, PTL

\* An inference is told about its own request only, however many requests of
\* the conversation came before or run at the same time.
THEOREM ContextsAreSeparate == Spec => []ContextIsOwn
  <1>1. IInv => ContextIsOwn
    BY DEF IInv
  <1> QED
    BY <1>1, Invariance, PTL

\* Inference never falls back to a backend that was not selected.
THEOREM BackendIsSelected == Spec => []SelectedBackendOnly
  <1>1. IInv => SelectedBackendOnly
    BY DEF IInv
  <1> QED
    BY <1>1, Invariance, PTL

\* An answer stands on as many model calls as its runtime makes, every one of
\* which the provider finished with nothing but text, and says what the last
\* one said: no failed or partial generation becomes a completed response.
THEOREM AnswersStandOnWholeReplies == Spec => []AnswersAreWhole
  <1>1. Init => AnswerInv
    <2> SUFFICES ASSUME Init PROVE AnswerInv
      OBVIOUS
    <2>1. \A c \in CallIds : run[c] = NoRun /\ calls[c].status = "unused"
      BY DEF Init
    <2>2. DOMAIN <<>> = {}
      BY EmptySeq
    <2> QED
      BY <2>1, <2>2 DEF NoRun, AnswerInv, TextsAreWhole, OutputIsOfText, AnsweredAtEnd, AnswersAreWhole
  <1>2. IInv /\ AnswerInv /\ [Next]_vars => AnswerInv'
    BY StepAnswers
  <1>3. AnswerInv => AnswersAreWhole
    BY DEF AnswerInv
  <1> QED
    BY <1>1, <1>2, <1>3, Invariance, PTL DEF Spec

\* ADR 0006, "Never convert those failures into a completed specialist
\* response", holds of the Agno runtime: each of its answers is the text of its
\* inference.  (A crew may answer with a placeholder instead.)
THEOREM AgnoAnswersWithModelText == Spec => [](Runtime = "agno" => AnswersAreModelText)
  <1>1. AnswersAreWhole => (Runtime = "agno" => AnswersAreModelText)
    BY DEF AnswersAreWhole, AnswersAreModelText
  <1> QED
    BY <1>1, AnswersStandOnWholeReplies, PTL

\* A service keeps its promise at the start.
LEMMA PromiseInit ==
    ASSUME Init
    PROVE  Promise!Init
  BY DEF Init, Promise!Init, Promise!Unused

\* The texts that an answer may have are the promised ones.
LEMMA TextIsPromised ==
    ASSUME NEW s \in Seq(Words), Len(s) \in 1..MaxSummary
    PROVE  s \in UNION {[1..n -> Words] : n \in 1..MaxSummary}
  BY LenProperties

\* What is lost is lost for all calls of a set at once.
LEMMA OneIsLost ==
    ASSUME IInv, NEW c \in CallIds, calls[c].status \in {"sent", "answered"},
           calls' = [calls EXCEPT ![c].status = "lost"]
    PROVE  Promise!Lose({c})
  <1>1. calls' = [d \in CallIds |->
                    IF d \in {c} THEN [calls[d] EXCEPT !.status = "lost"] ELSE calls[d]]
    BY DEF IInv, WellTyped
  <1> QED
    BY <1>1 DEF Promise!Lose

\* Every step of the service gives calls the fates they may have.
LEMMA PromiseStep ==
    ASSUME IInv, [Next]_vars
    PROVE  [Promise!Next]_calls
  <1>1. ASSUME NEW c \in CallIds, NEW i \in Identities, Send(c, i)
        PROVE  Promise!Next
    <2>1. calls[c] = Promise!Unused
      BY <1>1 DEF Send, IInv, WellTyped, CallType, RunsAreCalled, Promise!Unused
    <2> QED
      BY <1>1, <2>1 DEF Send, Promise!Send, Promise!Next
  <1>2. ASSUME NEW c \in CallIds, Handle(c)
        PROVE  Promise!Next \/ calls' = calls
    BY <1>2, OneIsLost DEF Handle, Promise!Next, Promise!Fate
  <1>3. ASSUME NEW c \in CallIds, PickUp(c) \/ Infer(c) \/ RefuseFeature(c)
        PROVE  calls' = calls
    BY <1>3 DEF PickUp, Infer, RefuseFeature, Advance
  <1>4. ASSUME NEW c \in CallIds, Respond(c)
        PROVE  Promise!Next \/ calls' = calls
    <2>1. CASE calls' = [calls EXCEPT ![c].status = "refused"] /\ calls[c].status = "sent"
      BY <2>1 DEF Promise!Refuse, Promise!Fate, Promise!Next
    <2>2. ASSUME NEW s \in Seq(Words), Len(s) \in 1..MaxSummary, calls[c].status = "sent",
                 calls' = [calls EXCEPT ![c].status = "answered",
                                ![c].response = [identity |-> calls[c].request, summary |-> s]]
          PROVE  Promise!Next
      BY <2>2, TextIsPromised DEF Promise!Answer, Promise!Fate, Promise!Next
    <2> QED
      BY <1>4, <2>1, <2>2, RespondCalls
  <1>5. ASSUME NEW c \in CallIds, GiveUp(c)
        PROVE  Promise!Next
    BY <1>5, OneIsLost DEF GiveUp, Promise!Next, Promise!Fate
  <1>6. ASSUME Crash
        PROVE  Promise!Next
    <2> DEFINE C == {c \in CallIds : calls[c].status = "sent"}
    <2>1. calls' = [c \in CallIds |->
                        IF c \in C THEN [calls[c] EXCEPT !.status = "lost"] ELSE calls[c]]
      BY <1>6 DEF Crash
    <2>2. Promise!Lose(C)
      BY <2>1 DEF Promise!Lose
    <2> QED
      BY <2>2 DEF Promise!Next
  <1> QED
    BY <1>1, <1>2, <1>3, <1>4, <1>5, <1>6 DEF Next, Step, vars

\* The service keeps the promise that Delegation relies on: one fate per call,
\* answers under the identity of their request, none to a caller who gave up.
THEOREM KeepsPromise == Spec => CallsSpec
  <1>1. Init => Promise!Init
    BY PromiseInit
  <1>2. IInv /\ [Next]_vars => [Promise!Next]_calls
    BY PromiseStep
  <1> QED
    BY <1>1, <1>2, Invariance, PTL DEF Spec, CallsSpec, Promise!Spec

=============================================================================
