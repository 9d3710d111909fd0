----------------------------- MODULE LocalReview -----------------------------
(***************************************************************************)
(* From a command to its recorded result inside one process: execute_once  *)
(* of the demo (entrypoints/demo.py), which builds an identity and a       *)
(* request and runs execute_delegation (application/service.py) over the   *)
(* in-memory ledger and FakeSpecialist, called by concurrent tasks.        *)
(*                                                                         *)
(* Tasks interleave at every await.  This is more than asyncio does while  *)
(* the lock is free and the specialist does not wait, and what it does     *)
(* once one of them does.                                                  *)
(*                                                                         *)
(* A command may lack its execution or delegation id, or give the empty    *)
(* string for it.  Missing ids are drawn with uuid4, which never draws one *)
(* twice.  build_identity and run_review (adapters/langgraph_runtime.py)   *)
(* disagree about the empty string.                                        *)
(***************************************************************************)
EXTENDS MemoryLedger, IdentityKeys, Naturals

CONSTANTS
    Tasks,          \* concurrent callers of execute_once
    GivenIds,       \* ids that commands carry
    Commands,       \* the commands callers submit
    NewExecutions,  \* execution ids that can be drawn, "exec:" and a uuid
    NewDelegations, \* delegation ids that can be drawn, "deleg:" and a uuid
    MaxCalls        \* bounds the calls of the specialist; call n answers n

Missing == "missing"
Empty == ""

Command(e, d) == [execution |-> e, delegation |-> d]

\* The key of an execution and a delegation id, see IdentityKeys.
KeyOf(e, d) == RequestKey(Identity(<<"conv">>, <<e>>, <<d>>))

ASSUME LocalAssumption ==
    /\ Commands \subseteq {Command(e, d) : e, d \in GivenIds \cup {Missing, Empty}}
    /\ MaxCalls \in Nat
    /\ Values = 1..MaxCalls
    /\ Keys = {KeyOf(e, d) : e \in GivenIds \cup NewExecutions, d \in GivenIds \cup NewDelegations}
    /\ GivenIds \cap (NewExecutions \cup NewDelegations) = {}
    /\ Missing \notin GivenIds
    /\ Empty \notin GivenIds
    /\ None \notin Refs
    /\ None \notin Values
    /\ None \notin Keys

VARIABLES
    drawn,      \* the ids drawn so far
    task,       \* [Tasks -> activation of execute_once]
    made        \* FakeSpecialist.calls

vars == <<heap, items, pending, drawn, task, made>>

-----------------------------------------------------------------------------
\* The functions that build identities.
Builders == {"build_identity", "run_review"}

\* command.execution_id is not None, or the truth of the string.
IsGiven(id, builder) == id # Missing /\ (builder = "run_review" => id # Empty)

\* Variant: a default that is computed once.
DrawnOnce(new) == {CHOOSE u \in new : TRUE}

\* Field(default_factory=lambda: ... uuid4()): one that was never drawn.
Drawn(new) == new \ drawn

\* The ids the identity can get for an id of the command.
IdsFor(id, new, builder) == IF IsGiven(id, builder) THEN {id} ELSE Drawn(new)

\* Variant: a pattern that the empty string matches, too.
ValidatesEmpty(id, builder) == TRUE

\* _ID_RE wants at least one character.
Validates(id, builder) == ~(id = Empty /\ IsGiven(id, builder))

Activation(pc, command, key) ==
    [pc |-> pc, command |-> command, key |-> key, doc |-> None, value |-> None, reused |-> FALSE]

Running == {"get_completed", "reserve", "analyze", "complete", "respond"}

\* The references callers hold: the payload to record, the response returned.
Held == {task[t].doc : t \in Tasks} \ {None}

\* References that nobody has.  A new object takes one of them, which one makes
\* no difference; Refs bounds the objects that exist at a time.
Unused == Refs \ (Held \cup {items[k] : k \in Keys})
Fresh == CHOOSE r \in Unused : TRUE
CanCopy == Unused # {}

Init ==
    /\ MemoryInit
    /\ drawn = {}
    /\ task = [t \in Tasks |-> Activation("idle", None, None)]
    /\ made = 0

\* A task lets go of the object it holds, which is gone if no row needs it.
Drop(t) ==
    heap' = [r \in Refs |->
                IF r = task[t].doc /\ r \notin {items[k] : k \in Keys} THEN None ELSE heap[r]]

\* A task calls execute_once with a command, fresh or a retry.  One whose
\* identity does not validate raises before anything happens.
Submit(t, command, builder) ==
    /\ task[t].pc \notin Running
    /\ Validates(command.execution, builder)
    /\ Validates(command.delegation, builder)
    /\ \E e \in IdsFor(command.execution, NewExecutions, builder),
          d \in IdsFor(command.delegation, NewDelegations, builder) :
        /\ task' = [task EXCEPT ![t] = Activation("get_completed", command, KeyOf(e, d))]
        /\ drawn' = drawn \cup ({e, d} \ GivenIds)
    /\ Drop(t)
    /\ UNCHANGED <<items, pending, made>>

Returned(t, doc, reused) ==
    task' = [task EXCEPT ![t].pc = "done", ![t].doc = doc, ![t].reused = reused,
                         ![t].value = heap'[doc]]

Raise(t) ==
    /\ task' = [task EXCEPT ![t] = Activation("failed", @.command, @.key)]
    /\ Drop(t)

\* A hit is returned; the response shares its facts with the copy.
GetCompleted(t) ==
    /\ task[t].pc = "get_completed"
    /\ \/ /\ CanCopy
          /\ Get(task[t].key, Fresh)
          /\ Returned(t, CopyOut(items[task[t].key], Fresh), TRUE)
       \/ /\ Misses(task[t].key)
          /\ task' = [task EXCEPT ![t].pc = "reserve"]
          /\ UNCHANGED memory
    /\ UNCHANGED <<drawn, made>>

Reserve(t) ==
    /\ task[t].pc = "reserve"
    /\ ReserveKey(task[t].key)
    /\ task' = [task EXCEPT ![t].pc = "analyze"]
    /\ UNCHANGED <<drawn, made>>

\* The specialist counts the call and puts the count in its response, whose
\* JSON form is a new object.
Analyze(t) ==
    /\ task[t].pc = "analyze"
    /\ made < MaxCalls /\ CanCopy
    /\ made' = made + 1
    /\ Put(Fresh, made + 1)
    /\ task' = [task EXCEPT ![t].pc = "complete", ![t].doc = Fresh]
    /\ UNCHANGED <<items, pending, drawn>>

\* The payload is recorded; a competing completion with another payload makes
\* complete() raise.
Complete(t) ==
    /\ task[t].pc = "complete"
    /\ \/ /\ CanCopy
          /\ Store(task[t].key, task[t].doc, Fresh)
          /\ task' = [task EXCEPT ![t].pc = "respond"]
       \/ /\ Conflicts(task[t].key, task[t].doc)
          /\ Raise(t)
          /\ UNCHANGED <<items, pending>>
    /\ UNCHANGED <<drawn, made>>

\* The response is made from the very payload that was recorded.
Respond(t) ==
    /\ task[t].pc = "respond"
    /\ UNCHANGED <<heap, items, pending, drawn, made>>
    /\ Returned(t, task[t].doc, FALSE)

\* The task is cancelled while it waits.
Cancel(t) ==
    /\ task[t].pc \in Running
    /\ Raise(t)
    /\ UNCHANGED <<items, pending, drawn, made>>

\* The caller changes the facts of the response it was given.
Change(t, value) ==
    /\ task[t].pc = "done"
    /\ Put(task[t].doc, value)
    /\ UNCHANGED <<items, pending, drawn, task, made>>

Next ==
    \E t \in Tasks :
        \/ \E command \in Commands, builder \in Builders : Submit(t, command, builder)
        \/ GetCompleted(t) \/ Reserve(t) \/ Analyze(t) \/ Complete(t)
        \/ Respond(t) \/ Cancel(t)
        \/ \E value \in Values : Change(t, value)

Spec == Init /\ [][Next]_vars

-----------------------------------------------------------------------------
(* Properties.                                                             *)

ActivationType ==
    [pc : Running \cup {"idle", "done", "failed"}, command : Commands \cup {None},
     key : Keys \cup {None}, doc : Refs \cup {None}, value : Values \cup {None},
     reused : BOOLEAN]

\* A task that runs has its command and key, one that has an answer the object
\* it came in, and an object somebody refers to says something.
TypeOK ==
    /\ heap \in [Refs -> Values \cup {None}]
    /\ items \in [Keys -> Refs \cup {None}]
    /\ pending \subseteq Keys
    /\ drawn \subseteq NewExecutions \cup NewDelegations
    /\ made \in 0..MaxCalls
    /\ task \in [Tasks -> ActivationType]
    /\ \A t \in Tasks :
        /\ task[t].pc # "idle" => task[t].command \in Commands /\ task[t].key \in Keys
        /\ task[t].pc \in {"complete", "respond", "done"} =>
              task[t].doc \in Refs /\ heap[task[t].doc] \in Values
        /\ task[t].pc \notin {"complete", "respond", "done"} => task[t].doc = None
    /\ \A k \in Keys : items[k] # None => heap[items[k]] \in Values

\* Identified: the command says which execution and which delegation it is.
Identified(command) == command.execution \in GivenIds /\ command.delegation \in GivenIds

\* A result is reused only for a command that carries both ids.  One that
\* lacks an id never gets the result of another command, nor its own again:
\* without ids a retry is a new delegation.
ReusedIsIdentified ==
    \A t \in Tasks : task[t].pc = "done" /\ task[t].reused => Identified(task[t].command)

\* All replies to a command that carries both ids say the same, whether they
\* were computed or reused, raced, retried, or changed by who got them.
SameCommandSameAnswer ==
    \A t, u \in Tasks :
        /\ task[t].pc = "done" /\ task[u].pc = "done"
        /\ task[t].command = task[u].command /\ Identified(task[t].command)
        => task[t].value = task[u].value

\* The ledger's objects are its own: no caller holds one, and no two keys
\* share one.
RecordsAreUnaliased ==
    \A k \in Keys : items[k] # None =>
        /\ items[k] \notin Held
        /\ \A l \in Keys \ {k} : items[l] # items[k]

-----------------------------------------------------------------------------
(* The inductive invariant behind these properties.                        *)

\* No two tasks hold the same object.
DocsAreOwn ==
    \A t, u \in Tasks : task[t].doc # None /\ task[t].doc = task[u].doc => t = u

\* What a task is about to return, or has returned, is what its key holds.
ReturnedIsRecorded ==
    \A t \in Tasks : task[t].pc \in {"respond", "done"} =>
        /\ items[task[t].key] # None
        /\ heap[items[task[t].key]] =
              IF task[t].pc = "done" THEN task[t].value ELSE heap[task[t].doc]

\* A command that carries both ids is run under the key they make.
KeyIsGiven ==
    \A t \in Tasks : task[t].pc # "idle" /\ Identified(task[t].command) =>
        task[t].key = KeyOf(task[t].command.execution, task[t].command.delegation)

\* The ids of the keys in use were given or drawn.
KeysAreKnown ==
    \A k \in Keys : (items[k] # None \/ \E t \in Tasks : task[t].key = k) =>
        \E e, d \in GivenIds \cup drawn : k = KeyOf(e, d)

\* A delegation that got a new id shares its key with nobody when it begins.
NewIsAlone ==
    \A t \in Tasks : task[t].pc = "get_completed" /\ ~Identified(task[t].command) =>
        /\ items[task[t].key] = None
        /\ \A u \in Tasks \ {t} : task[u].key # task[t].key
        /\ \A e, d \in GivenIds : task[t].key # KeyOf(e, d)

\* Together with the properties above, the steps of LocalReview keep these.
IInv ==
    /\ TypeOK
    /\ ReusedIsIdentified
    /\ RecordsAreUnaliased
    /\ DocsAreOwn
    /\ ReturnedIsRecorded
    /\ KeyIsGiven
    /\ KeysAreKnown
    /\ NewIsAlone

-----------------------------------------------------------------------------
(* What this module implements, next to the ledger port.                   *)

Effect ==
    INSTANCE ReplaySafeEffect
        WITH Callers <- Tasks, Results <- Values,
             result <- [k \in Keys |-> Row(k).payload],
             caller <- [t \in Tasks |->
                [state |-> CASE task[t].pc \in Running -> "open"
                             [] task[t].pc = "done" -> "returned"
                             [] OTHER -> task[t].pc,
                 key |-> task[t].key,
                 value |-> task[t].value]]

\* execute_once is a replay-safe effect, too: one result per key, returned to
\* every caller that succeeds.
EffectSpec == Effect!Spec
=============================================================================
