------------------------- MODULE LocalReviewProofs -------------------------
(***************************************************************************)
(* Theorems about LocalReview, and with it MemoryLedger, for any number of *)
(* tasks, commands, ids, calls and objects.                                *)
(***************************************************************************)
EXTENDS LocalReview, TLAPS, SequenceTheorems

-----------------------------------------------------------------------------
(* Keys and references.                                                    *)

\* One more token at the end leaves the others where they are.
LEMMA OneMoreToken ==
    ASSUME NEW V, NEW s \in Seq(V), NEW x \in V
    PROVE  /\ s \o <<x>> \in Seq(V)
           /\ Len(s \o <<x>>) = Len(s) + 1
           /\ \A i \in 1 .. Len(s) : (s \o <<x>>)[i] = s[i]
           /\ (s \o <<x>>)[Len(s) + 1] = x
  <1>1. <<x>> \in Seq(V) /\ Len(<<x>>) = 1 /\ <<x>>[1] = x
    OBVIOUS
  <1>2. Len(s) \in Nat
    OBVIOUS
  <1>3. /\ s \o <<x>> \in Seq(V)
        /\ Len(s \o <<x>>) = Len(s) + 1
        /\ \A i \in 1 .. Len(s) + 1 :
                (s \o <<x>>)[i] = IF i <= Len(s) THEN s[i] ELSE <<x>>[i - Len(s)]
    BY <1>1, ConcatProperties
  <1> QED
    BY <1>1, <1>2, <1>3

\* The ids are the first and the third token of the key.
LEMMA KeyTokens ==
    ASSUME NEW e, NEW d
    PROVE  KeyOf(e, d)[1] = e /\ KeyOf(e, d)[3] = d
  <1> DEFINE V == {e, d, ":", "specialist-risk-review"}
             p == <<e>> \o <<":">>
             q == p \o <<d>>
             r == q \o <<":">>
             s == r \o <<"specialist-risk-review">>
  <1>1. e \in V /\ d \in V /\ ":" \in V /\ "specialist-risk-review" \in V
    OBVIOUS
  <1> HIDE DEF V
  <1>2. <<e>> \in Seq(V) /\ Len(<<e>>) = 1 /\ <<e>>[1] = e
    BY <1>1
  <1>3. p \in Seq(V) /\ Len(p) = 2 /\ p[1] = e
    <2>1. /\ <<e>> \o <<":">> \in Seq(V)
          /\ Len(<<e>> \o <<":">>) = Len(<<e>>) + 1
          /\ \A i \in 1 .. Len(<<e>>) : (<<e>> \o <<":">>)[i] = <<e>>[i]
          /\ (<<e>> \o <<":">>)[Len(<<e>>) + 1] = ":"
      BY <1>1, <1>2, OneMoreToken, Zenon
    <2> QED
      BY <1>2, <2>1
  <1> HIDE DEF p
  <1>4. q \in Seq(V) /\ Len(q) = 3 /\ q[1] = e /\ q[3] = d
    <2>1. /\ p \o <<d>> \in Seq(V)
          /\ Len(p \o <<d>>) = Len(p) + 1
          /\ \A i \in 1 .. Len(p) : (p \o <<d>>)[i] = p[i]
          /\ (p \o <<d>>)[Len(p) + 1] = d
      BY <1>1, <1>3, OneMoreToken, Zenon
    <2> QED
      BY <1>3, <2>1
  <1> HIDE DEF q
  <1>5. r \in Seq(V) /\ Len(r) = 4 /\ r[1] = e /\ r[3] = d
    <2>1. /\ q \o <<":">> \in Seq(V)
          /\ Len(q \o <<":">>) = Len(q) + 1
          /\ \A i \in 1 .. Len(q) : (q \o <<":">>)[i] = q[i]
          /\ (q \o <<":">>)[Len(q) + 1] = ":"
      BY <1>1, <1>4, OneMoreToken, Zenon
    <2> QED
      BY <1>4, <2>1
  <1> HIDE DEF r
  <1>6. s[1] = e /\ s[3] = d
    <2>1. /\ r \o <<"specialist-risk-review">> \in Seq(V)
          /\ Len(r \o <<"specialist-risk-review">>) = Len(r) + 1
          /\ \A i \in 1 .. Len(r) : (r \o <<"specialist-risk-review">>)[i] = r[i]
          /\ (r \o <<"specialist-risk-review">>)[Len(r) + 1] = "specialist-risk-review"
      BY <1>1, <1>5, OneMoreToken, Zenon
    <2> QED
      BY <1>5, <2>1
  <1>7. KeyOf(e, d) = s
    BY DEF KeyOf, RequestKey, IdempotencyKey, Identity, Colon, RiskReview, p, q, r
  <1> QED
    BY <1>6, <1>7

\* Different ids make different keys, as long as an id is a single token.
LEMMA KeyOfIsInjective ==
    ASSUME NEW e, NEW d, NEW f, NEW g, KeyOf(e, d) = KeyOf(f, g)
    PROVE  e = f /\ d = g
  BY KeyTokens

\* A new object takes a reference that no task holds and no row has.
LEMMA FreshIsUnused ==
    ASSUME CanCopy, IInv
    PROVE  /\ Fresh \in Refs /\ Fresh # None
           /\ \A t \in Tasks : task[t].doc # Fresh
           /\ \A k \in Keys : items[k] # Fresh
  <1>1. Fresh \in Unused
    BY DEF CanCopy, Fresh
  <1> QED
    BY <1>1, LocalAssumption DEF Unused, Held

\* What is known of a key and of the object of its row.
LEMMA RowOfKey ==
    ASSUME IInv, NEW k \in Keys, items[k] # None
    PROVE  /\ items[k] \in Refs /\ heap[items[k]] \in Values
           /\ \A t \in Tasks : task[t].doc # items[k]
           /\ \A l \in Keys \ {k} : items[l] # items[k]
  BY DEF IInv, TypeOK, RecordsAreUnaliased, Held

\* The state at the start.
LEMMA InitIInv == Init => IInv
  BY LocalAssumption
  DEF Init, MemoryInit, Activation, IInv, TypeOK, ActivationType, Running, ReusedIsIdentified,
      RecordsAreUnaliased, Held, DocsAreOwn, ReturnedIsRecorded, KeyIsGiven, KeysAreKnown,
      NewIsAlone

-----------------------------------------------------------------------------
(* One lemma for each action.                                              *)

\* A task that lets go of its object takes nothing from the ledger and from
\* the other tasks.
LEMMA DropKeeps ==
    ASSUME IInv, NEW t \in Tasks, Drop(t)
    PROVE  /\ heap' \in [Refs -> Values \cup {None}]
           /\ \A k \in Keys : items[k] # None => heap'[items[k]] = heap[items[k]]
           /\ \A u \in Tasks \ {t} : task[u].doc \in Refs => heap'[task[u].doc] = heap[task[u].doc]
  <1>1. heap' \in [Refs -> Values \cup {None}]
    BY DEF Drop, IInv, TypeOK
  <1>2. ASSUME NEW k \in Keys, items[k] # None PROVE heap'[items[k]] = heap[items[k]]
    BY <1>2, RowOfKey DEF Drop
  <1>3. ASSUME NEW u \in Tasks \ {t}, task[u].doc \in Refs
        PROVE  heap'[task[u].doc] = heap[task[u].doc]
    BY <1>3, LocalAssumption DEF Drop, IInv, DocsAreOwn
  <1> QED
    BY <1>1, <1>2, <1>3

\* The ids of an identity: given by the command, or drawn and never used.
LEMMA IdsOfIdentity ==
    ASSUME NEW id \in GivenIds \cup {Missing, Empty}, NEW builder \in Builders,
           NEW new, new \cap GivenIds = {}, Validates(id, builder),
           NEW x \in IdsFor(id, new, builder)
    PROVE  \/ id \in GivenIds /\ x = id
           \/ id \notin GivenIds /\ x \in new /\ x \notin drawn /\ x \notin GivenIds
  <1>1. Missing \notin GivenIds /\ Empty \notin GivenIds
    BY LocalAssumption
  <1>2. CASE id \in GivenIds
    <2>1. IsGiven(id, builder)
      BY <1>1, <1>2 DEF IsGiven
    <2> QED
      BY <1>2, <2>1 DEF IdsFor
  <1>3. CASE id \notin GivenIds
    <2>1. id = Missing \/ id = Empty
      BY <1>3
    <2>2. ~IsGiven(id, builder)
      BY <2>1 DEF Validates, IsGiven
    <2> QED
      BY <1>3, <2>2 DEF IdsFor, Drawn
  <1> QED
    BY <1>2, <1>3

\* A command is run under its own ids or under new ones.
LEMMA SubmitKeeps ==
    ASSUME IInv, NEW t \in Tasks, NEW command \in Commands, NEW builder \in Builders,
           Submit(t, command, builder)
    PROVE  IInv'
  <1> USE DEF IInv
  <1>1. PICK e \in IdsFor(command.execution, NewExecutions, builder),
             d \in IdsFor(command.delegation, NewDelegations, builder) :
          /\ task' = [task EXCEPT ![t] = Activation("get_completed", command, KeyOf(e, d))]
          /\ drawn' = drawn \cup ({e, d} \ GivenIds)
    BY DEF Submit
  <1>2. /\ items' = items /\ pending' = pending /\ made' = made /\ Drop(t)
        /\ Validates(command.execution, builder) /\ Validates(command.delegation, builder)
    BY DEF Submit
  <1>3. /\ command.execution \in GivenIds \cup {Missing, Empty}
        /\ command.delegation \in GivenIds \cup {Missing, Empty}
    BY LocalAssumption DEF Command
  <1>4. \/ command.execution \in GivenIds /\ e = command.execution
        \/ /\ command.execution \notin GivenIds /\ e \in NewExecutions
           /\ e \notin drawn /\ e \notin GivenIds
    BY <1>1, <1>2, <1>3, IdsOfIdentity, LocalAssumption
  <1>5. \/ command.delegation \in GivenIds /\ d = command.delegation
        \/ /\ command.delegation \notin GivenIds /\ d \in NewDelegations
           /\ d \notin drawn /\ d \notin GivenIds
    BY <1>1, <1>2, <1>3, IdsOfIdentity, LocalAssumption
  <1> DEFINE key == KeyOf(e, d)
             a == Activation("get_completed", command, key)
  <1>6. key \in Keys /\ key # None
    BY <1>4, <1>5, LocalAssumption
  <1>7. /\ a \in ActivationType /\ a.pc = "get_completed" /\ a.doc = None
        /\ a.command = command /\ a.key = key
    BY <1>6 DEF Activation, ActivationType, Running
  <1>8. task'[t] = a /\ \A u \in Tasks \ {t} : task'[u] = task[u]
    BY <1>1 DEF TypeOK
  <1> HIDE DEF a
  <1>9. TypeOK'
    <2>1. task' \in [Tasks -> ActivationType]
      BY <1>1, <1>7 DEF TypeOK, a
    <2>2. drawn' \subseteq NewExecutions \cup NewDelegations
      BY <1>1, <1>4, <1>5 DEF TypeOK
    <2>3. ASSUME NEW u \in Tasks
          PROVE  /\ task'[u].pc # "idle" => task'[u].command \in Commands /\ task'[u].key \in Keys
                 /\ task'[u].pc \in {"complete", "respond", "done"} =>
                        task'[u].doc \in Refs /\ heap'[task'[u].doc] \in Values
                 /\ task'[u].pc \notin {"complete", "respond", "done"} => task'[u].doc = None
      <3>1. CASE u = t
        BY <1>6, <1>7, <1>8, <3>1
      <3>2. CASE u # t
        BY <1>2, <1>8, <3>2, DropKeeps DEF TypeOK
      <3> QED
        BY <3>1, <3>2
    <2> QED
      BY <1>2, <2>1, <2>2, <2>3, DropKeeps DEF TypeOK
  <1>10. ReusedIsIdentified'
    BY <1>7, <1>8 DEF ReusedIsIdentified
  <1>11. RecordsAreUnaliased'
    BY <1>2, <1>7, <1>8 DEF RecordsAreUnaliased, Held
  <1>12. DocsAreOwn'
    BY <1>7, <1>8 DEF DocsAreOwn
  <1>13. ReturnedIsRecorded'
    <2> SUFFICES ASSUME NEW u \in Tasks, task'[u].pc \in {"respond", "done"}
                 PROVE  /\ items[task'[u].key] # None
                        /\ heap'[items[task'[u].key]] =
                                IF task'[u].pc = "done" THEN task'[u].value ELSE heap'[task'[u].doc]
      BY <1>2 DEF ReturnedIsRecorded
    <2>1. u # t /\ task'[u] = task[u]
      BY <1>7, <1>8
    <2>2. task[u].key \in Keys /\ task[u].doc \in Refs
      BY <2>1 DEF TypeOK
    <2> QED
      BY <1>2, <2>1, <2>2, DropKeeps DEF ReturnedIsRecorded
  <1>14. KeyIsGiven'
    <2>1. Identified(command) => key = KeyOf(command.execution, command.delegation)
      BY <1>4, <1>5 DEF Identified
    <2> QED
      BY <1>7, <1>8, <2>1 DEF KeyIsGiven
  <1>15. KeysAreKnown'
    <2>1. e \in GivenIds \cup drawn' /\ d \in GivenIds \cup drawn' /\ drawn \subseteq drawn'
      BY <1>1
    <2> SUFFICES ASSUME NEW k \in Keys, items[k] # None \/ \E u \in Tasks : task'[u].key = k
                 PROVE  \E f, g \in GivenIds \cup drawn' : k = KeyOf(f, g)
      BY <1>2 DEF KeysAreKnown
    <2>2. CASE k = key
      BY <2>1, <2>2
    <2>3. CASE k # key
      <3>1. items[k] # None \/ \E u \in Tasks : task[u].key = k
        BY <1>7, <1>8, <2>3
      <3>2. PICK f \in GivenIds \cup drawn, g \in GivenIds \cup drawn : k = KeyOf(f, g)
        BY <3>1 DEF KeysAreKnown
      <3> QED
        BY <2>1, <3>2
    <2> QED
      BY <2>2, <2>3
  <1>16. NewIsAlone'
    <2> SUFFICES ASSUME NEW u \in Tasks, task'[u].pc = "get_completed",
                        ~Identified(task'[u].command)
                 PROVE  /\ items[task'[u].key] = None
                        /\ \A v \in Tasks \ {u} : task'[v].key # task'[u].key
                        /\ \A f, g \in GivenIds : task'[u].key # KeyOf(f, g)
      BY <1>2 DEF NewIsAlone
    <2>1. CASE u = t
      <3>1. e \notin GivenIds \cup drawn \/ d \notin GivenIds \cup drawn
        BY <1>4, <1>5, <1>7, <1>8, <2>1 DEF Identified
      <3>2. \A f, g \in GivenIds \cup drawn : key # KeyOf(f, g)
        BY <3>1, KeyOfIsInjective
      <3>3. items[key] = None /\ \A v \in Tasks : task[v].key # key
        BY <1>6, <3>2 DEF KeysAreKnown
      <3> QED
        BY <1>7, <1>8, <2>1, <3>2, <3>3
    <2>2. CASE u # t
      <3>1. task'[u] = task[u]
        BY <1>8, <2>2
      <3>2. /\ items[task[u].key] = None /\ \A v \in Tasks \ {u} : task[v].key # task[u].key
            /\ \A f, g \in GivenIds : task[u].key # KeyOf(f, g)
        BY <3>1 DEF NewIsAlone
      <3>3. task[u].key # key
        <4>1. task[u].key \in Keys
          BY <3>1 DEF TypeOK
        <4>2. PICK f \in GivenIds \cup drawn, g \in GivenIds \cup drawn : task[u].key = KeyOf(f, g)
          BY <4>1 DEF KeysAreKnown
        <4>3. ASSUME task[u].key = key PROVE FALSE
          <5>1. e = f /\ d = g
            <6>1. KeyOf(e, d) = KeyOf(f, g)
              BY <4>2, <4>3
            <6> QED
              BY <6>1, KeyOfIsInjective
          <5>2. e \in GivenIds /\ d \in GivenIds
            BY <1>4, <1>5, <5>1
          <5> QED
            BY <3>2, <4>3, <5>2
        <4> QED
          BY <4>3
      <3> QED
        BY <1>7, <1>8, <2>2, <3>1, <3>2, <3>3
    <2> QED
      BY <2>1, <2>2
  <1> QED
    BY <1>9, <1>10, <1>11, <1>12, <1>13, <1>14, <1>15, <1>16

\* While a task runs, its key and its command stay.
LEMMA KeysKeep ==
    ASSUME IInv, items' = items, drawn' = drawn,
           \A u \in Tasks : /\ task'[u].key = task[u].key
                            /\ task'[u].command = task[u].command
                            /\ task'[u].pc = "get_completed" => task[u].pc = "get_completed"
                            /\ task[u].pc = "idle" => task'[u].pc = "idle"
    PROVE  KeyIsGiven' /\ KeysAreKnown' /\ NewIsAlone'
  <1>1. KeyIsGiven'
    BY DEF IInv, KeyIsGiven
  <1>2. KeysAreKnown'
    BY DEF IInv, KeysAreKnown
  <1>3. NewIsAlone'
    BY DEF IInv, NewIsAlone
  <1> QED
    BY <1>1, <1>2, <1>3

\* A hit gives the task a copy that is its own.
LEMMA HitKeeps ==
    ASSUME IInv, NEW t \in Tasks, task[t].pc = "get_completed", CanCopy,
           Get(task[t].key, Fresh), Returned(t, CopyOut(items[task[t].key], Fresh), TRUE),
           UNCHANGED <<drawn, made>>
    PROVE  IInv'
  <1> USE DEF IInv
  <1> DEFINE k == task[t].key
  <1>1. /\ Fresh \in Refs /\ Fresh # None
        /\ \A u \in Tasks : task[u].doc # Fresh
        /\ \A l \in Keys : items[l] # Fresh
    BY FreshIsUnused
  <1>2. k \in Keys /\ items[k] # None /\ items[k] \in Refs /\ heap[items[k]] \in Values
    BY RowOfKey DEF Get, TypeOK
  <1>3. /\ heap' = [heap EXCEPT ![Fresh] = heap[items[k]]]
        /\ items' = items /\ pending' = pending /\ drawn' = drawn /\ made' = made
    BY DEF Get, Put
  <1> HIDE DEF CanCopy
  <1>4. heap'[Fresh] = heap[items[k]] /\ \A r \in Refs \ {Fresh} : heap'[r] = heap[r]
    BY <1>1, <1>3 DEF TypeOK
  <1>5. task' = [task EXCEPT ![t].pc = "done", ![t].doc = Fresh, ![t].reused = TRUE,
                             ![t].value = heap[items[k]]]
    BY <1>4 DEF Returned, CopyOut
  <1>6. /\ task'[t].pc = "done" /\ task'[t].doc = Fresh /\ task'[t].value = heap[items[k]]
        /\ task'[t].key = k /\ task'[t].command = task[t].command
        /\ task'[t] \in ActivationType
    BY <1>1, <1>2, <1>5 DEF TypeOK, ActivationType
  <1>7. \A u \in Tasks \ {t} : task'[u] = task[u]
    BY <1>5 DEF TypeOK
  <1>8. TypeOK'
    <2>1. task' \in [Tasks -> ActivationType]
      BY <1>5, <1>6, <1>7 DEF TypeOK
    <2>2. heap' \in [Refs -> Values \cup {None}]
      BY <1>2, <1>3 DEF TypeOK
    <2>3. \A l \in Keys : items[l] # None => heap'[items[l]] \in Values
      BY <1>1, <1>4, RowOfKey
    <2>4. ASSUME NEW u \in Tasks
          PROVE  /\ task'[u].pc # "idle" => task'[u].command \in Commands /\ task'[u].key \in Keys
                 /\ task'[u].pc \in {"complete", "respond", "done"} =>
                        task'[u].doc \in Refs /\ heap'[task'[u].doc] \in Values
                 /\ task'[u].pc \notin {"complete", "respond", "done"} => task'[u].doc = None
      BY <1>1, <1>2, <1>4, <1>6, <1>7 DEF TypeOK
    <2> QED
      BY <1>3, <2>1, <2>2, <2>3, <2>4 DEF TypeOK
  <1>9. ReusedIsIdentified'
    <2>1. Identified(task[t].command)
      BY <1>2 DEF NewIsAlone
    <2> QED
      BY <1>6, <1>7, <2>1 DEF ReusedIsIdentified
  <1>10. RecordsAreUnaliased'
    BY <1>1, <1>3, <1>6, <1>7 DEF RecordsAreUnaliased, Held
  <1>11. DocsAreOwn'
    BY <1>1, <1>6, <1>7 DEF DocsAreOwn
  <1>12. ReturnedIsRecorded'
    <2> SUFFICES ASSUME NEW u \in Tasks, task'[u].pc \in {"respond", "done"}
                 PROVE  /\ items[task'[u].key] # None
                        /\ heap'[items[task'[u].key]] =
                                IF task'[u].pc = "done" THEN task'[u].value ELSE heap'[task'[u].doc]
      BY <1>3 DEF ReturnedIsRecorded
    <2>1. CASE u = t
      BY <1>1, <1>2, <1>4, <1>6, <2>1
    <2>2. CASE u # t
      <3>1. task'[u] = task[u] /\ task[u].key \in Keys /\ task[u].doc \in Refs
        BY <1>7, <2>2 DEF TypeOK
      <3>2. items[task[u].key] # None /\ items[task[u].key] \in Refs
        BY <3>1, RowOfKey DEF ReturnedIsRecorded
      <3> QED
        BY <1>1, <1>4, <3>1, <3>2 DEF ReturnedIsRecorded
    <2> QED
      BY <2>1, <2>2
  <1>13. KeyIsGiven' /\ KeysAreKnown' /\ NewIsAlone'
    BY <1>3, <1>6, <1>7, KeysKeep
  <1> QED
    BY <1>8, <1>9, <1>10, <1>11, <1>12, <1>13

\* Looking in vain, reserving and returning move the task alone.
LEMMA MoveKeeps ==
    ASSUME IInv, NEW t \in Tasks, UNCHANGED <<heap, items, drawn, made>>,
           pending' \subseteq Keys,
           \/ /\ task[t].pc = "get_completed" /\ task' = [task EXCEPT ![t].pc = "reserve"]
           \/ /\ task[t].pc = "reserve" /\ task' = [task EXCEPT ![t].pc = "analyze"]
           \/ /\ task[t].pc = "respond" /\ Returned(t, task[t].doc, FALSE)
    PROVE  IInv'
  <1> USE DEF IInv
  <1>1. /\ task'[t].key = task[t].key /\ task'[t].command = task[t].command
        /\ task'[t].doc = task[t].doc /\ task'[t] \in ActivationType
        /\ task' \in [Tasks -> ActivationType]
        /\ \A u \in Tasks \ {t} : task'[u] = task[u]
    <2>1. task[t].pc = "respond" => task[t].doc \in Refs /\ heap[task[t].doc] \in Values
      BY DEF TypeOK
    <2> QED
      BY <2>1 DEF TypeOK, ActivationType, Running, Returned
  <1>2. \/ /\ task[t].pc \in {"get_completed", "reserve"} /\ task'[t].pc \in {"reserve", "analyze"}
        \/ /\ task[t].pc = "respond" /\ task'[t].pc = "done"
           /\ task'[t].reused = FALSE /\ task'[t].value = heap[task[t].doc]
    BY DEF TypeOK, ActivationType, Returned
  <1>3. TypeOK'
    BY <1>1, <1>2 DEF TypeOK
  <1>4. ReusedIsIdentified'
    BY <1>1, <1>2 DEF ReusedIsIdentified
  <1>5. RecordsAreUnaliased'
    BY <1>1 DEF RecordsAreUnaliased, Held
  <1>6. DocsAreOwn'
    BY <1>1 DEF DocsAreOwn
  <1>7. ReturnedIsRecorded'
    BY <1>1, <1>2 DEF ReturnedIsRecorded
  <1>8. KeyIsGiven' /\ KeysAreKnown' /\ NewIsAlone'
    BY <1>1, <1>2, KeysKeep
  <1> QED
    BY <1>3, <1>4, <1>5, <1>6, <1>7, <1>8

\* The answer of the specialist is a new object.
LEMMA AnalyzeKeeps ==
    ASSUME IInv, NEW t \in Tasks, Analyze(t)
    PROVE  IInv'
  <1> USE DEF IInv
  <1>1. /\ Fresh \in Refs /\ Fresh # None
        /\ \A u \in Tasks : task[u].doc # Fresh
        /\ \A l \in Keys : items[l] # Fresh
    BY FreshIsUnused DEF Analyze
  <1>2. /\ heap' = [heap EXCEPT ![Fresh] = made + 1]
        /\ items' = items /\ pending' = pending /\ drawn' = drawn /\ made' = made + 1
        /\ task' = [task EXCEPT ![t].pc = "complete", ![t].doc = Fresh]
        /\ task[t].pc = "analyze" /\ made < MaxCalls
    BY DEF Analyze, Put
  <1> HIDE DEF CanCopy
  <1>3. made + 1 \in Values /\ made' \in 0..MaxCalls
    BY <1>2, LocalAssumption DEF TypeOK
  <1>4. heap'[Fresh] = made + 1 /\ \A r \in Refs \ {Fresh} : heap'[r] = heap[r]
    BY <1>1, <1>2 DEF TypeOK
  <1>5. /\ task'[t].pc = "complete" /\ task'[t].doc = Fresh
        /\ task'[t].key = task[t].key /\ task'[t].command = task[t].command
        /\ task'[t] \in ActivationType
        /\ \A u \in Tasks \ {t} : task'[u] = task[u]
    BY <1>1, <1>2 DEF TypeOK, ActivationType, Running
  <1>6. TypeOK'
    <2>1. task' \in [Tasks -> ActivationType]
      BY <1>2, <1>5 DEF TypeOK
    <2>2. heap' \in [Refs -> Values \cup {None}]
      BY <1>2, <1>3 DEF TypeOK
    <2>3. \A l \in Keys : items[l] # None => heap'[items[l]] \in Values
      BY <1>1, <1>4, RowOfKey
    <2>4. ASSUME NEW u \in Tasks
          PROVE  /\ task'[u].pc # "idle" => task'[u].command \in Commands /\ task'[u].key \in Keys
                 /\ task'[u].pc \in {"complete", "respond", "done"} =>
                        task'[u].doc \in Refs /\ heap'[task'[u].doc] \in Values
                 /\ task'[u].pc \notin {"complete", "respond", "done"} => task'[u].doc = None
      BY <1>1, <1>2, <1>3, <1>4, <1>5 DEF TypeOK
    <2> QED
      BY <1>2, <1>3, <2>1, <2>2, <2>3, <2>4 DEF TypeOK
  <1>7. ReusedIsIdentified'
    BY <1>5 DEF ReusedIsIdentified
  <1>8. RecordsAreUnaliased'
    <2>1. ASSUME NEW l \in Keys, items[l] # None, NEW u \in Tasks
          PROVE  task'[u].doc # items[l]
      BY <1>1, <1>5, <2>1, RowOfKey
    <2> QED
      BY <1>2, <2>1, RowOfKey DEF RecordsAreUnaliased, Held
  <1>9. DocsAreOwn'
    BY <1>1, <1>5 DEF DocsAreOwn
  <1>10. ReturnedIsRecorded'
    <2> SUFFICES ASSUME NEW u \in Tasks, task'[u].pc \in {"respond", "done"}
                 PROVE  /\ items'[task'[u].key] # None
                        /\ heap'[items'[task'[u].key]] =
                                IF task'[u].pc = "done" THEN task'[u].value ELSE heap'[task'[u].doc]
      BY DEF ReturnedIsRecorded
    <2>1. u # t /\ task'[u] = task[u]
      BY <1>5
    <2>2. task[u].key \in Keys /\ task[u].doc \in Refs
      BY <2>1 DEF TypeOK
    <2>3. items[task[u].key] # None /\ items[task[u].key] \in Refs
      BY <2>1, <2>2, RowOfKey DEF ReturnedIsRecorded
    <2> QED
      BY <1>1, <1>2, <1>4, <2>1, <2>2, <2>3 DEF ReturnedIsRecorded
  <1>11. KeyIsGiven' /\ KeysAreKnown' /\ NewIsAlone'
    BY <1>2, <1>5, KeysKeep
  <1> QED
    BY <1>6, <1>7, <1>8, <1>9, <1>10, <1>11

\* A row gets a copy of the payload that no task holds.
LEMMA StoreKeeps ==
    ASSUME IInv, NEW t \in Tasks, task[t].pc = "complete", CanCopy,
           Store(task[t].key, task[t].doc, Fresh),
           task' = [task EXCEPT ![t].pc = "respond"], UNCHANGED <<drawn, made>>
    PROVE  IInv'
  <1> USE DEF IInv
  <1> DEFINE k == task[t].key
             doc == task[t].doc
  <1>1. /\ Fresh \in Refs /\ Fresh # None
        /\ \A u \in Tasks : task[u].doc # Fresh
        /\ \A l \in Keys : items[l] # Fresh
    BY FreshIsUnused
  <1>2. k \in Keys /\ doc \in Refs /\ heap[doc] \in Values
    BY DEF TypeOK
  <1>3. /\ items[k] # None => heap[items[k]] = heap[doc]
        /\ heap' = [heap EXCEPT ![Fresh] = heap[doc]]
        /\ items' = [items EXCEPT ![k] = Fresh]
        /\ pending' = pending \ {k} /\ drawn' = drawn /\ made' = made
    BY DEF Store, Put, Conflicts, CopyIn
  <1> HIDE DEF CanCopy
  <1>4. heap'[Fresh] = heap[doc] /\ \A r \in Refs \ {Fresh} : heap'[r] = heap[r]
    BY <1>1, <1>3 DEF TypeOK
  <1>5. items'[k] = Fresh /\ \A l \in Keys \ {k} : items'[l] = items[l]
    BY <1>2, <1>3 DEF TypeOK
  <1>6. /\ task'[t].pc = "respond" /\ task'[t].doc = doc
        /\ task'[t].key = k /\ task'[t].command = task[t].command
        /\ task'[t] \in ActivationType
        /\ \A u \in Tasks \ {t} : task'[u] = task[u]
    BY DEF TypeOK, ActivationType, Running
  <1>7. TypeOK'
    <2>1. task' \in [Tasks -> ActivationType]
      BY <1>6 DEF TypeOK
    <2>2. /\ heap' \in [Refs -> Values \cup {None}]
          /\ items' \in [Keys -> Refs \cup {None}]
      BY <1>1, <1>2, <1>3 DEF TypeOK
    <2>3. \A l \in Keys : items'[l] # None => heap'[items'[l]] \in Values
      BY <1>1, <1>2, <1>4, <1>5, RowOfKey
    <2>4. ASSUME NEW u \in Tasks
          PROVE  /\ task'[u].pc # "idle" => task'[u].command \in Commands /\ task'[u].key \in Keys
                 /\ task'[u].pc \in {"complete", "respond", "done"} =>
                        task'[u].doc \in Refs /\ heap'[task'[u].doc] \in Values
                 /\ task'[u].pc \notin {"complete", "respond", "done"} => task'[u].doc = None
      BY <1>1, <1>2, <1>4, <1>6 DEF TypeOK
    <2> QED
      BY <1>3, <2>1, <2>2, <2>3, <2>4 DEF TypeOK
  <1>8. ReusedIsIdentified'
    BY <1>6 DEF ReusedIsIdentified
  <1>9. RecordsAreUnaliased'
    BY <1>1, <1>5, <1>6 DEF RecordsAreUnaliased, Held
  <1>10. DocsAreOwn'
    BY <1>6 DEF DocsAreOwn
  <1>11. ReturnedIsRecorded'
    <2> SUFFICES ASSUME NEW u \in Tasks, task'[u].pc \in {"respond", "done"}
                 PROVE  /\ items'[task'[u].key] # None
                        /\ heap'[items'[task'[u].key]] =
                                IF task'[u].pc = "done" THEN task'[u].value ELSE heap'[task'[u].doc]
      BY DEF ReturnedIsRecorded
    <2>1. CASE u = t
      BY <1>1, <1>2, <1>4, <1>5, <1>6, <2>1
    <2>2. CASE u # t
      <3>1. task'[u] = task[u] /\ task[u].key \in Keys /\ task[u].doc \in Refs
        BY <1>6, <2>2 DEF TypeOK
      <3>2. /\ items[task[u].key] # None /\ items[task[u].key] \in Refs
            /\ heap[items[task[u].key]] =
                    IF task[u].pc = "done" THEN task[u].value ELSE heap[task[u].doc]
        BY <3>1, RowOfKey DEF ReturnedIsRecorded
      <3>3. heap'[task[u].doc] = heap[task[u].doc]
        BY <1>1, <1>4, <3>1
      <3>4. items'[task[u].key] # None
        BY <1>1, <1>5, <3>1, <3>2
      <3>5. heap'[items'[task[u].key]] = heap[items[task[u].key]]
        BY <1>1, <1>3, <1>4, <1>5, <3>1, <3>2
      <3> QED
        BY <3>1, <3>2, <3>3, <3>4, <3>5
    <2> QED
      BY <2>1, <2>2
  <1>12. KeyIsGiven'
    BY <1>6 DEF KeyIsGiven
  <1>13. KeysAreKnown'
    BY <1>2, <1>3, <1>5, <1>6 DEF KeysAreKnown
  <1>14. NewIsAlone'
    <2> SUFFICES ASSUME NEW u \in Tasks, task'[u].pc = "get_completed",
                        ~Identified(task'[u].command)
                 PROVE  /\ items'[task'[u].key] = None
                        /\ \A v \in Tasks \ {u} : task'[v].key # task'[u].key
                        /\ \A f, g \in GivenIds : task'[u].key # KeyOf(f, g)
      BY DEF NewIsAlone
    <2>1. u # t /\ task'[u] = task[u] /\ task[u].key \in Keys
      BY <1>6 DEF TypeOK
    <2>2. /\ items[task[u].key] = None /\ \A v \in Tasks \ {u} : task[v].key # task[u].key
          /\ \A f, g \in GivenIds : task[u].key # KeyOf(f, g)
      BY <2>1 DEF NewIsAlone
    <2>3. task[u].key # k
      BY <2>1, <2>2
    <2> QED
      BY <1>5, <1>6, <2>1, <2>2, <2>3
  <1> QED
    BY <1>7, <1>8, <1>9, <1>10, <1>11, <1>12, <1>13, <1>14

\* A task that raises lets go of what it held.
LEMMA RaiseKeeps ==
    ASSUME IInv, NEW t \in Tasks, task[t].pc \in Running, Raise(t),
           UNCHANGED <<items, pending, drawn, made>>
    PROVE  IInv'
  <1> USE DEF IInv
  <1> DEFINE a == Activation("failed", task[t].command, task[t].key)
  <1>1. task[t].command \in Commands /\ task[t].key \in Keys
    BY DEF TypeOK, Running
  <1>2. /\ a \in ActivationType /\ a.pc = "failed" /\ a.doc = None
        /\ a.key = task[t].key /\ a.command = task[t].command
    BY <1>1 DEF Activation, ActivationType
  <1>3. Drop(t) /\ task' = [task EXCEPT ![t] = a]
    BY DEF Raise
  <1>4. task'[t] = a /\ \A u \in Tasks \ {t} : task'[u] = task[u]
    BY <1>3 DEF TypeOK
  <1> HIDE DEF a
  <1>5. TypeOK'
    <2>1. task' \in [Tasks -> ActivationType]
      BY <1>2, <1>3 DEF TypeOK
    <2>2. ASSUME NEW u \in Tasks
          PROVE  /\ task'[u].pc # "idle" => task'[u].command \in Commands /\ task'[u].key \in Keys
                 /\ task'[u].pc \in {"complete", "respond", "done"} =>
                        task'[u].doc \in Refs /\ heap'[task'[u].doc] \in Values
                 /\ task'[u].pc \notin {"complete", "respond", "done"} => task'[u].doc = None
      <3>1. CASE u = t
        BY <1>1, <1>2, <1>4, <3>1
      <3>2. CASE u # t
        BY <1>3, <1>4, <3>2, DropKeeps DEF TypeOK
      <3> QED
        BY <3>1, <3>2
    <2> QED
      BY <1>3, <2>1, <2>2, DropKeeps DEF TypeOK
  <1>6. ReusedIsIdentified'
    BY <1>2, <1>4 DEF ReusedIsIdentified
  <1>7. RecordsAreUnaliased'
    BY <1>2, <1>4 DEF RecordsAreUnaliased, Held
  <1>8. DocsAreOwn'
    BY <1>2, <1>4 DEF DocsAreOwn
  <1>9. ReturnedIsRecorded'
    <2> SUFFICES ASSUME NEW u \in Tasks, task'[u].pc \in {"respond", "done"}
                 PROVE  /\ items'[task'[u].key] # None
                        /\ heap'[items'[task'[u].key]] =
                                IF task'[u].pc = "done" THEN task'[u].value ELSE heap'[task'[u].doc]
      BY DEF ReturnedIsRecorded
    <2>1. u # t /\ task'[u] = task[u]
      BY <1>2, <1>4
    <2>2. task[u].key \in Keys /\ task[u].doc \in Refs
      BY <2>1 DEF TypeOK
    <2> QED
      BY <1>3, <2>1, <2>2, DropKeeps DEF ReturnedIsRecorded
  <1>10. KeyIsGiven' /\ KeysAreKnown' /\ NewIsAlone'
    BY <1>2, <1>4, KeysKeep DEF Running
  <1> QED
    BY <1>5, <1>6, <1>7, <1>8, <1>9, <1>10

\* A caller that changes its response changes no row and no other response.
LEMMA ChangeKeeps ==
    ASSUME IInv, NEW t \in Tasks, NEW value \in Values, Change(t, value)
    PROVE  IInv'
  <1> USE DEF IInv
  <1> DEFINE doc == task[t].doc
  <1>1. /\ task[t].pc = "done" /\ doc \in Refs /\ doc # None
        /\ heap' = [heap EXCEPT ![doc] = value]
        /\ UNCHANGED <<items, pending, drawn, task, made>>
    BY LocalAssumption DEF Change, Put, TypeOK
  <1>2. heap'[doc] = value /\ \A r \in Refs \ {doc} : heap'[r] = heap[r]
    BY <1>1 DEF TypeOK
  <1>3. ASSUME NEW l \in Keys, items[l] # None PROVE heap'[items[l]] = heap[items[l]]
    BY <1>1, <1>2, <1>3, RowOfKey
  <1>4. ASSUME NEW u \in Tasks \ {t}, task[u].doc \in Refs
        PROVE  heap'[task[u].doc] = heap[task[u].doc]
    BY <1>1, <1>2, <1>4 DEF DocsAreOwn
  <1>5. TypeOK'
    <2>1. heap' \in [Refs -> Values \cup {None}]
      BY <1>1 DEF TypeOK
    <2>2. ASSUME NEW u \in Tasks, task[u].pc \in {"complete", "respond", "done"}
          PROVE  heap'[task[u].doc] \in Values
      BY <1>2, <1>4, <2>2 DEF TypeOK
    <2> QED
      BY <1>1, <1>3, <2>1, <2>2 DEF TypeOK
  <1>6. ReturnedIsRecorded'
    <2> SUFFICES ASSUME NEW u \in Tasks, task'[u].pc \in {"respond", "done"}
                 PROVE  /\ items'[task'[u].key] # None
                        /\ heap'[items'[task'[u].key]] =
                                IF task'[u].pc = "done" THEN task'[u].value ELSE heap'[task'[u].doc]
      BY DEF ReturnedIsRecorded
    <2>1. task'[u] = task[u] /\ items' = items /\ task[u].key \in Keys
      BY <1>1 DEF TypeOK
    <2>2. CASE u = t
      BY <1>1, <1>3, <2>1, <2>2 DEF ReturnedIsRecorded
    <2>3. CASE u # t
      BY <1>3, <1>4, <2>1, <2>3 DEF ReturnedIsRecorded, TypeOK
    <2> QED
      BY <2>2, <2>3
  <1>7. ReusedIsIdentified' /\ RecordsAreUnaliased' /\ DocsAreOwn'
    BY <1>1 DEF ReusedIsIdentified, RecordsAreUnaliased, Held, DocsAreOwn
  <1>8. KeyIsGiven' /\ KeysAreKnown' /\ NewIsAlone'
    BY <1>1, KeysKeep
  <1> QED
    BY <1>5, <1>6, <1>7, <1>8

-----------------------------------------------------------------------------
(* The invariants.                                                         *)

\* Every step keeps the inductive invariant.
LEMMA StepIInv == IInv /\ [Next]_vars => IInv'
  <1> SUFFICES ASSUME IInv, [Next]_vars PROVE IInv'
    OBVIOUS
  <1>1. CASE UNCHANGED vars
    BY <1>1 DEF vars, IInv, TypeOK, ReusedIsIdentified, RecordsAreUnaliased, Held, DocsAreOwn,
                ReturnedIsRecorded, KeyIsGiven, KeysAreKnown, NewIsAlone
  <1>2. ASSUME NEW t \in Tasks, GetCompleted(t) PROVE IInv'
    <2>1. CASE ~Misses(task[t].key)
      BY <1>2, <2>1, HitKeeps DEF GetCompleted
    <2>2. CASE Misses(task[t].key)
      BY <1>2, <2>2, MoveKeeps DEF GetCompleted, Get, Misses, memory, IInv, TypeOK
    <2> QED
      BY <2>1, <2>2
  <1>3. ASSUME NEW t \in Tasks, Reserve(t) PROVE IInv'
    <2>1. task[t].key \in Keys
      BY <1>3 DEF Reserve, IInv, TypeOK
    <2> QED
      BY <1>3, <2>1, MoveKeeps DEF Reserve, ReserveKey, IInv, TypeOK
  <1>4. ASSUME NEW t \in Tasks, Respond(t) PROVE IInv'
    BY <1>4, MoveKeeps DEF Respond, IInv, TypeOK
  <1>5. ASSUME NEW t \in Tasks, Complete(t) PROVE IInv'
    BY <1>5, StoreKeeps, RaiseKeeps DEF Complete, Running
  <1>6. ASSUME NEW t \in Tasks, Cancel(t) PROVE IInv'
    BY <1>6, RaiseKeeps DEF Cancel
  <1> QED
    BY <1>1, <1>2, <1>3, <1>4, <1>5, <1>6, SubmitKeeps, AnalyzeKeeps, ChangeKeeps DEF Next

\* LocalReview always satisfies the inductive invariant.
THEOREM Invariance == Spec => []IInv
  BY InitIInv, StepIInv, PTL DEF Spec

\* Every reachable state is well typed: a row and an answer always say
\* something.
THEOREM TypeCorrect == Spec => []TypeOK
  BY Invariance, PTL DEF IInv

\* The ledger's objects stay its own, whatever callers do to theirs.
THEOREM NoAliases == Spec => []RecordsAreUnaliased
  BY Invariance, PTL DEF IInv

\* Only a command that carries both ids is ever answered with a recorded
\* result.
THEOREM ReuseNeedsIds == Spec => []ReusedIsIdentified
  BY Invariance, PTL DEF IInv

\* All replies to one identified command agree.
THEOREM AnswersAgree == Spec => []SameCommandSameAnswer
  <1>1. IInv => SameCommandSameAnswer
    BY DEF IInv, ReturnedIsRecorded, KeyIsGiven, SameCommandSameAnswer
  <1> QED
    BY <1>1, Invariance, PTL

-----------------------------------------------------------------------------
(* LocalReview implements the ledger port.                                 *)

\* The rows that a step leaves alone.
LEMMA RowsKeep ==
    ASSUME items' = items, pending' = pending,
           \A k \in Keys : items[k] # None => heap'[items[k]] = heap[items[k]]
    PROVE  \A k \in Keys : Row(k)' = Row(k)
  BY DEF Row

\* Only reserve and complete touch the rows, and only that of their key.
LEMMA RowsChange ==
    ASSUME IInv, [Next]_vars
    PROVE  \/ \A k \in Keys : Row(k)' = Row(k)
           \/ \E t \in Tasks : Reserve(t)
           \/ \E t \in Tasks : task[t].pc = "complete" /\ task'[t].pc = "respond" /\ CanCopy
                              /\ task' = [task EXCEPT ![t].pc = "respond"]
                              /\ Store(task[t].key, task[t].doc, Fresh)
  <1> DEFINE Kept == \A k \in Keys : Row(k)' = Row(k)
  <1>1. CASE UNCHANGED vars
    BY <1>1 DEF vars, Row
  <1>2. ASSUME NEW t \in Tasks, Drop(t), items' = items, pending' = pending PROVE Kept
    BY <1>2, DropKeeps, RowsKeep
  <1>3. ASSUME NEW r, CanCopy, Put(Fresh, r), items' = items, pending' = pending PROVE Kept
    <2>1. \A k \in Keys : items[k] # None => items[k] # Fresh /\ items[k] \in Refs
      BY <1>3, FreshIsUnused, RowOfKey
    <2>2. \A k \in Keys : items[k] # None => heap'[items[k]] = heap[items[k]]
      BY <1>3, <2>1 DEF Put, IInv, TypeOK
    <2> QED
      BY <1>3, <2>2, RowsKeep
  <1>4. ASSUME NEW t \in Tasks, GetCompleted(t) PROVE Kept
    <2>1. CASE UNCHANGED memory
      BY <2>1, RowsKeep DEF memory
    <2>2. CASE CanCopy /\ Get(task[t].key, Fresh)
      BY <1>3, <2>2 DEF Get
    <2> QED
      BY <1>4, <2>1, <2>2 DEF GetCompleted
  <1>5. ASSUME NEW t \in Tasks, Analyze(t) PROVE Kept
    BY <1>3, <1>5 DEF Analyze
  <1>6. ASSUME NEW t \in Tasks, NEW value \in Values, Change(t, value) PROVE Kept
    <2>1. \A k \in Keys : items[k] # None => items[k] # task[t].doc /\ items[k] \in Refs
      BY RowOfKey
    <2>2. \A k \in Keys : items[k] # None => heap'[items[k]] = heap[items[k]]
      BY <1>6, <2>1 DEF Change, Put, IInv, TypeOK
    <2> QED
      BY <1>6, <2>2, RowsKeep DEF Change
  <1>7. ASSUME NEW t \in Tasks, Complete(t), ~Kept
        PROVE  /\ task[t].pc = "complete" /\ task'[t].pc = "respond" /\ CanCopy
               /\ task' = [task EXCEPT ![t].pc = "respond"]
               /\ Store(task[t].key, task[t].doc, Fresh)
    <2>1. ~(Raise(t) /\ UNCHANGED <<items, pending>>)
      BY <1>2, <1>7 DEF Raise
    <2> QED
      BY <1>7, <2>1 DEF Complete, IInv, TypeOK, ActivationType
  <1>8. ASSUME NEW t \in Tasks, Respond(t) PROVE Kept
    BY <1>8, RowsKeep DEF Respond
  <1>9. ASSUME NEW t \in Tasks, Cancel(t) PROVE Kept
    BY <1>2, <1>9 DEF Cancel, Raise
  <1>10. ASSUME NEW t \in Tasks, NEW command \in Commands, NEW builder \in Builders,
                Submit(t, command, builder)
         PROVE  Kept
    BY <1>2, <1>10 DEF Submit
  <1> QED
    BY <1>1, <1>4, <1>5, <1>6, <1>7, <1>8, <1>9, <1>10 DEF Next

\* What reserve makes of the rows.
LEMMA ReserveRows ==
    ASSUME NEW t \in Tasks, NEW k \in Keys, k = task[t].key, Reserve(t)
    PROVE  /\ \A l \in Keys \ {k} : Row(l)' = Row(l)
           /\ \/ Row(k)' = Row(k)
              \/ /\ Row(k) = [status |-> "absent", payload |-> None]
                 /\ Row(k)' = [status |-> "pending", payload |-> None]
  <1>1. /\ UNCHANGED <<heap, items>>
        /\ pending' = IF items[k] = None THEN pending \cup {k} ELSE pending
    BY DEF Reserve, ReserveKey
  <1>2. ASSUME NEW l \in Keys \ {k} PROVE Row(l)' = Row(l)
    <2>1. l \in pending' <=> l \in pending
      BY <1>1
    <2> QED
      BY <1>1, <2>1 DEF Row
  <1>3. CASE items[k] # None \/ k \in pending
    <2>1. pending' = pending
      BY <1>1, <1>3
    <2>2. Row(k)' = Row(k)
      BY <1>1, <2>1 DEF Row
    <2> QED
      BY <1>2, <2>2
  <1>4. CASE items[k] = None /\ k \notin pending
    <2>1. k \in pending' /\ items'[k] = None
      BY <1>1, <1>4
    <2> QED
      BY <1>2, <1>4, <2>1 DEF Row
  <1> QED
    BY <1>3, <1>4

\* What complete makes of the rows.
LEMMA StoreRows ==
    ASSUME IInv, CanCopy, NEW k \in Keys, NEW doc \in Refs, Store(k, doc, Fresh)
    PROVE  /\ \A l \in Keys \ {k} : Row(l)' = Row(l)
           /\ Row(k)' = [status |-> "completed", payload |-> heap[doc]]
           /\ items[k] # None => Row(k)' = Row(k)
  <1>1. /\ Fresh \in Refs /\ Fresh # None /\ \A l \in Keys : items[l] # Fresh
    BY FreshIsUnused
  <1>2. /\ items[k] # None => heap[items[k]] = heap[doc]
        /\ heap' = [heap EXCEPT ![Fresh] = heap[doc]]
        /\ items' = [items EXCEPT ![k] = Fresh]
        /\ pending' = pending \ {k}
    BY DEF Store, Put, Conflicts, CopyIn
  <1> HIDE DEF CanCopy
  <1>3. heap'[Fresh] = heap[doc] /\ \A r \in Refs \ {Fresh} : heap'[r] = heap[r]
    BY <1>1, <1>2 DEF IInv, TypeOK
  <1>4. items'[k] = Fresh /\ \A l \in Keys \ {k} : items'[l] = items[l]
    BY <1>2 DEF IInv, TypeOK
  <1>5. ASSUME NEW l \in Keys \ {k} PROVE Row(l)' = Row(l)
    <2>1. l \in pending' <=> l \in pending
      BY <1>2
    <2>2. items[l] # None => heap'[items[l]] = heap[items[l]]
      BY <1>1, <1>3, RowOfKey
    <2> QED
      BY <1>4, <2>1, <2>2 DEF Row
  <1>6. Row(k)' = [status |-> "completed", payload |-> heap[doc]]
    <2>1. items'[k] # None /\ heap'[items'[k]] = heap[doc]
      BY <1>1, <1>3, <1>4
    <2> QED
      BY <2>1 DEF Row
  <1>7. items[k] # None => Row(k)' = Row(k)
    BY <1>2, <1>6 DEF Row
  <1> QED
    BY <1>5, <1>6, <1>7

\* The ledger starts empty.
LEMMA LedgerInit == Init => Ledger!Init
  BY DEF Init, MemoryInit, Row, Ledger!Init, Ledger!Absent

\* A row that changes alone is a step of the port's ledger.
LEMMA RowIsReserved ==
    ASSUME NEW k \in Keys, \A l \in Keys \ {k} : Row(l)' = Row(l),
           Row(k) = [status |-> "absent", payload |-> None],
           Row(k)' = [status |-> "pending", payload |-> None]
    PROVE  Ledger!Next
  <1> DEFINE rows == [l \in Keys |-> Row(l)]
  <1>1. rows[k] = Ledger!Absent
    BY DEF Ledger!Absent
  <1>2. rows' = [rows EXCEPT ![k] = Ledger!Pending]
    BY DEF Ledger!Pending
  <1> QED
    BY <1>1, <1>2 DEF Ledger!Next, Ledger!Reserve

LEMMA RowIsCompleted ==
    ASSUME NEW k \in Keys, \A l \in Keys \ {k} : Row(l)' = Row(l), NEW p \in Values,
           items[k] = None,
           Row(k)' = [status |-> "completed", payload |-> p]
    PROVE  Ledger!Next
  <1> DEFINE rows == [l \in Keys |-> Row(l)]
  <1>1. Row(k) \in {Ledger!Absent, Ledger!Pending}
    BY DEF Row, Ledger!Absent, Ledger!Pending
  <1>2. rows[k] \in {Ledger!Absent, Ledger!Pending}
    BY <1>1
  <1>3. rows' = [rows EXCEPT ![k] = Ledger!Completed(p)]
    BY DEF Ledger!Completed
  <1> QED
    BY <1>2, <1>3 DEF Ledger!Next, Ledger!Complete

\* A step reserves a row, completes one, or changes none.
LEMMA LedgerStep ==
    IInv /\ [Next]_vars => [Ledger!Next]_([k \in Keys |-> Row(k)])
  <1> SUFFICES ASSUME IInv, [Next]_vars
               PROVE  Ledger!Next \/ [k \in Keys |-> Row(k)]' = [k \in Keys |-> Row(k)]
    OBVIOUS
  <1>1. CASE \A k \in Keys : Row(k)' = Row(k)
    BY <1>1
  <1>2. ASSUME NEW t \in Tasks, Reserve(t), ~ \A k \in Keys : Row(k)' = Row(k) PROVE Ledger!Next
    <2>1. PICK k \in Keys : k = task[t].key
      BY <1>2 DEF Reserve, IInv, TypeOK
    <2>2. \A l \in Keys \ {k} : Row(l)' = Row(l)
      BY <1>2, <2>1, ReserveRows
    <2>3. Row(k)' # Row(k)
      BY <1>2, <2>2
    <2>4. /\ Row(k) = [status |-> "absent", payload |-> None]
          /\ Row(k)' = [status |-> "pending", payload |-> None]
      BY <1>2, <2>1, <2>3, ReserveRows
    <2> QED
      BY <2>2, <2>4, RowIsReserved
  <1>3. ASSUME NEW t \in Tasks, task[t].pc = "complete", CanCopy,
               Store(task[t].key, task[t].doc, Fresh), ~ \A k \in Keys : Row(k)' = Row(k)
        PROVE  Ledger!Next
    <2>1. /\ task[t].key \in Keys /\ task[t].doc \in Refs
          /\ heap[task[t].doc] \in Values
      BY <1>3 DEF IInv, TypeOK
    <2>2. PICK k \in Keys, doc \in Refs :
            k = task[t].key /\ doc = task[t].doc /\ heap[doc] \in Values
      BY <2>1
    <2>3. Store(k, doc, Fresh)
      BY <1>3, <2>2
    <2>4. /\ \A l \in Keys \ {k} : Row(l)' = Row(l)
          /\ Row(k)' = [status |-> "completed", payload |-> heap[doc]]
          /\ items[k] # None => Row(k)' = Row(k)
      BY <1>3, <2>3, StoreRows
    <2>5. Row(k)' # Row(k)
      BY <1>3, <2>4
    <2>6. items[k] = None
      BY <2>4, <2>5
    <2> QED
      BY <2>2, <2>4, <2>6, RowIsCompleted
  <1> QED
    BY <1>1, <1>2, <1>3, RowsChange

\* The in-memory ledger, used by any number of tasks that change the objects
\* they handed in and were handed out, is a ledger as the port promises it.
THEOREM ImplementsLedger == Spec => LedgerSpec
  BY LedgerInit, LedgerStep, Invariance, PTL DEF Spec, LedgerSpec, Ledger!Spec

-----------------------------------------------------------------------------
(* LocalReview implements the replay-safe effect.                          *)

\* A task that runs has no answer yet.
Unanswered == \A t \in Tasks : task[t].pc \in Running => task[t].value = None

\* A task as the caller of the effect.
StateOf(pc) ==
    CASE pc \in Running -> "open"
      [] pc = "done" -> "returned"
      [] OTHER -> pc

CallerOf(t) == [state |-> StateOf(task[t].pc), key |-> task[t].key, value |-> task[t].value]

Callers == [t \in Tasks |-> CallerOf(t)]
Results == [k \in Keys |-> Row(k).payload]

LEMMA States ==
    /\ \A pc \in Running : StateOf(pc) = "open"
    /\ StateOf("done") = "returned" /\ StateOf("failed") = "failed" /\ StateOf("idle") = "idle"
  BY DEF StateOf, Running

\* How the task of an action changes; the others do not.
LEMMA TaskSteps ==
    ASSUME IInv, NEW t \in Tasks
    PROVE  /\ \A command \in Commands, builder \in Builders : Submit(t, command, builder) =>
                /\ task[t].pc \notin Running
                /\ \E k \in Keys : task' = [task EXCEPT ![t] = Activation("get_completed", command, k)]
           /\ Raise(t) => task' = [task EXCEPT ![t] = Activation("failed", task[t].command, task[t].key)]
           /\ \A doc \in Refs, reused \in BOOLEAN : Returned(t, doc, reused) =>
                \E next : /\ task' = [task EXCEPT ![t] = next] /\ next.pc = "done"
                          /\ next.key = task[t].key /\ next.value = heap'[doc]
  <1>1. ASSUME NEW command \in Commands, NEW builder \in Builders, Submit(t, command, builder)
        PROVE  /\ task[t].pc \notin Running
               /\ \E k \in Keys : task' = [task EXCEPT ![t] = Activation("get_completed", command, k)]
    <2>1. PICK e \in IdsFor(command.execution, NewExecutions, builder),
               d \in IdsFor(command.delegation, NewDelegations, builder) :
            task' = [task EXCEPT ![t] = Activation("get_completed", command, KeyOf(e, d))]
      BY <1>1 DEF Submit
    <2>2. /\ Validates(command.execution, builder) /\ Validates(command.delegation, builder)
          /\ task[t].pc \notin Running
      BY <1>1 DEF Submit
    <2>3. /\ command.execution \in GivenIds \cup {Missing, Empty}
          /\ command.delegation \in GivenIds \cup {Missing, Empty}
      BY LocalAssumption DEF Command
    <2>4. e \in GivenIds \cup NewExecutions /\ d \in GivenIds \cup NewDelegations
      BY <2>1, <2>2, <2>3, IdsOfIdentity, LocalAssumption
    <2>5. KeyOf(e, d) \in Keys
      BY <2>4, LocalAssumption
    <2> QED
      BY <2>1, <2>2, <2>5
  <1>2. ASSUME Raise(t)
        PROVE  task' = [task EXCEPT ![t] = Activation("failed", task[t].command, task[t].key)]
    BY <1>2 DEF Raise
  <1>3. ASSUME NEW doc \in Refs, NEW reused \in BOOLEAN, Returned(t, doc, reused)
        PROVE  \E next : /\ task' = [task EXCEPT ![t] = next] /\ next.pc = "done"
                         /\ next.key = task[t].key /\ next.value = heap'[doc]
    <2> DEFINE next == [task[t] EXCEPT !.pc = "done", !.doc = doc, !.reused = reused,
                                       !.value = heap'[doc]]
    <2>1. task[t] \in ActivationType
      BY DEF IInv, TypeOK
    <2>2. next.pc = "done" /\ next.key = task[t].key /\ next.value = heap'[doc]
      BY <2>1 DEF ActivationType
    <2>3. task' = [task EXCEPT ![t] = next]
      BY <1>3 DEF Returned
    <2> HIDE DEF next
    <2> QED
      BY <2>2, <2>3
  <1> QED
    BY <1>1, <1>2, <1>3

\* What a task that changes alone looks like to the effect.
LEMMA OneCaller ==
    ASSUME IInv, NEW t \in Tasks, NEW next, task' = [task EXCEPT ![t] = next]
    PROVE  Callers' = [Callers EXCEPT ![t] = CallerOf(t)'] /\ task'[t] = next
  <1>1. \A u \in Tasks \ {t} : task'[u] = task[u]
    BY DEF IInv, TypeOK
  <1>2. \A u \in Tasks \ {t} : CallerOf(u)' = CallerOf(u)
    BY <1>1 DEF CallerOf
  <1>3. task'[t] = next
    BY DEF IInv, TypeOK
  <1> QED
    BY <1>2, <1>3 DEF Callers

\* A task that submits a command calls, one that raises fails.
LEMMA SubmitIsCall ==
    ASSUME IInv, NEW t \in Tasks, NEW command \in Commands, NEW builder \in Builders,
           Submit(t, command, builder), Results' = Results
    PROVE  Effect!Next
  <1>1. PICK k \in Keys : task' = [task EXCEPT ![t] = Activation("get_completed", command, k)]
    BY TaskSteps
  <1>2. task[t].pc \notin Running
    BY TaskSteps
  <1>3. Callers' = [Callers EXCEPT ![t] = CallerOf(t)']
    BY <1>1, OneCaller
  <1>4. CallerOf(t)' = [state |-> "open", key |-> k, value |-> None]
    <2>1. task'[t] = Activation("get_completed", command, k)
      BY <1>1, OneCaller
    <2>2. task'[t].pc \in Running /\ task'[t].key = k /\ task'[t].value = None
      BY <2>1 DEF Activation, Running
    <2> QED
      BY <2>2, States DEF CallerOf
  <1>5. Callers[t].state # "open"
    <2>1. task[t].pc \in {"idle", "done", "failed"}
      BY <1>2 DEF IInv, TypeOK, ActivationType
    <2> QED
      BY <2>1, States DEF Callers, CallerOf
  <1>6. Effect!Call(t, k)
    BY <1>3, <1>4, <1>5 DEF Effect!Call, Callers, CallerOf, StateOf, Results
  <1> QED
    BY <1>6 DEF Effect!Next

LEMMA RaiseIsFail ==
    ASSUME IInv, Unanswered, NEW t \in Tasks, task[t].pc \in Running, Raise(t), Results' = Results
    PROVE  Effect!Next
  <1>1. task' = [task EXCEPT ![t] = Activation("failed", task[t].command, task[t].key)]
    BY TaskSteps
  <1>2. Callers' = [Callers EXCEPT ![t] = CallerOf(t)']
    BY <1>1, OneCaller
  <1>3. CallerOf(t)' = [state |-> "failed", key |-> task[t].key, value |-> None]
    <2>1. task'[t] = Activation("failed", task[t].command, task[t].key)
      BY <1>1, OneCaller
    <2>2. task'[t].pc = "failed" /\ task'[t].key = task[t].key /\ task'[t].value = None
      BY <2>1 DEF Activation
    <2> QED
      BY <2>2, States DEF CallerOf
  <1>4. CallerOf(t) = [state |-> "open", key |-> task[t].key, value |-> None]
    BY States DEF CallerOf, Unanswered
  <1>5. Callers' = [u \in Tasks |->
            IF u \in {t} THEN [Callers[u] EXCEPT !.state = "failed"] ELSE Callers[u]]
    <2>1. Callers[t] = [state |-> "open", key |-> task[t].key, value |-> None]
      BY <1>4 DEF Callers
    <2>2. [Callers[t] EXCEPT !.state = "failed"] = CallerOf(t)'
      BY <1>3, <2>1
    <2>3. DOMAIN Callers = Tasks
      BY DEF Callers
    <2> QED
      BY <1>2, <2>2, <2>3 DEF Callers
  <1>6. Callers[t].state = "open"
    BY <1>4 DEF Callers
  <1>7. Effect!Fail({t})
    BY <1>5, <1>6 DEF Effect!Fail, Callers, CallerOf, StateOf, Results
  <1> QED
    BY <1>7 DEF Effect!Next

\* A task that returns what its key holds returns the result.
LEMMA ReturnedIsReturn ==
    ASSUME IInv, NEW t \in Tasks, task[t].pc \in Running, NEW doc \in Refs,
           NEW reused \in BOOLEAN, Returned(t, doc, reused), Results' = Results,
           items[task[t].key] # None, heap'[doc] = heap[items[task[t].key]]
    PROVE  Effect!Next
  <1>1. PICK next : /\ task' = [task EXCEPT ![t] = next] /\ next.pc = "done"
                    /\ next.key = task[t].key /\ next.value = heap'[doc]
    BY TaskSteps
  <1>2. Callers' = [Callers EXCEPT ![t] = CallerOf(t)'] /\ task'[t] = next
    BY <1>1, OneCaller
  <1>3. task[t].key \in Keys
    BY DEF IInv, TypeOK, Running
  <1>4. Results[task[t].key] = heap'[doc] /\ heap'[doc] \in Values
    BY <1>3, RowOfKey DEF Results, Row
  <1>5. CallerOf(t)' = [state |-> "returned", key |-> task[t].key, value |-> heap'[doc]]
    BY <1>1, <1>2, States DEF CallerOf
  <1>6. Callers[t].state = "open" /\ Callers[t].key = task[t].key
    BY States DEF Callers, CallerOf
  <1>7. Results[Callers[t].key] # None
    BY <1>4, <1>6, LocalAssumption
  <1>8. Callers' = [Callers EXCEPT ![t] = [state |-> "returned", key |-> Callers[t].key,
                                           value |-> Results[Callers[t].key]]]
    BY <1>2, <1>4, <1>5, <1>6
  <1>9. Effect!Return(t)
    BY <1>6, <1>7, <1>8 DEF Effect!Return, Callers, CallerOf, StateOf, Results
  <1> QED
    BY <1>9 DEF Effect!Next

\* A task that goes on running has not changed for the effect.
LEMMA RunsOn ==
    ASSUME IInv, NEW t \in Tasks, NEW next, task' = [task EXCEPT ![t] = next],
           task[t].pc \in Running, next.pc \in Running, next.key = task[t].key,
           next.value = task[t].value
    PROVE  Callers' = Callers
  <1>1. \A u \in Tasks \ {t} : task'[u] = task[u]
    BY DEF IInv, TypeOK
  <1>2. task'[t] = next
    BY DEF IInv, TypeOK
  <1>3. CallerOf(t)' = CallerOf(t)
    BY <1>2, States DEF CallerOf
  <1>4. \A u \in Tasks : CallerOf(u)' = CallerOf(u)
    BY <1>1, <1>3 DEF CallerOf
  <1> QED
    BY <1>4 DEF Callers

\* A completion records the result of its key, unless it is there already.
LEMMA StoreIsRecord ==
    ASSUME IInv, NEW t \in Tasks, task[t].pc = "complete", CanCopy,
           Store(task[t].key, task[t].doc, Fresh), task' = [task EXCEPT ![t].pc = "respond"]
    PROVE  Effect!Next \/ (Results' = Results /\ Callers' = Callers)
  <1>1. PICK k \in Keys, doc \in Refs :
            k = task[t].key /\ doc = task[t].doc /\ heap[doc] \in Values
    BY DEF IInv, TypeOK
  <1>2. /\ \A l \in Keys \ {k} : Row(l)' = Row(l)
        /\ Row(k)' = [status |-> "completed", payload |-> heap[doc]]
        /\ items[k] # None => Row(k)' = Row(k)
    BY <1>1, StoreRows
  <1>3. Callers' = Callers
    <2> DEFINE next == [task[t] EXCEPT !.pc = "respond"]
    <2>1. task[t] \in ActivationType
      BY DEF IInv, TypeOK
    <2>2. next.pc = "respond" /\ next.key = task[t].key /\ next.value = task[t].value
      BY <2>1 DEF ActivationType
    <2>3. task' = [task EXCEPT ![t] = next]
      OBVIOUS
    <2>4. next.pc \in Running /\ task[t].pc \in Running
      BY <2>2 DEF Running
    <2> HIDE DEF next
    <2> QED
      BY <2>2, <2>3, <2>4, RunsOn
  <1>4. CASE items[k] # None
    <2>1. \A l \in Keys : Row(l)' = Row(l)
      BY <1>2, <1>4
    <2> QED
      BY <1>3, <2>1 DEF Results
  <1>5. CASE items[k] = None
    <2>1. Results[k] = None
      BY <1>5 DEF Results, Row
    <2>2. Results' = [Results EXCEPT ![k] = heap[doc]]
      <3>1. Row(k)'.payload = heap[doc] /\ \A l \in Keys \ {k} : Row(l)'.payload = Row(l).payload
        BY <1>2
      <3>2. [l \in Keys |-> Row(l)'.payload] =
                [[l \in Keys |-> Row(l).payload] EXCEPT ![k] = heap[doc]]
        BY <3>1
      <3> QED
        BY <3>2 DEF Results
    <2>3. Callers[t].state = "open" /\ Callers[t].key = k
      <3>1. task[t].pc \in Running
        BY DEF Running
      <3> QED
        BY <1>1, <3>1, States DEF Callers, CallerOf
    <2>4. Effect!Record(k, heap[doc])
      BY <1>3, <2>1, <2>2, <2>3 DEF Effect!Record, Results, Callers, CallerOf, StateOf
    <2> QED
      BY <1>1, <2>4 DEF Effect!Next
  <1> QED
    BY <1>4, <1>5

\* Every step is one of the effect, or none for it.
LEMMA EffectStep ==
    ASSUME IInv, Unanswered, [Next]_vars
    PROVE  Effect!Next \/ (Results' = Results /\ Callers' = Callers)
  <1>1. CASE UNCHANGED vars
    BY <1>1 DEF vars, Results, Row, Callers, CallerOf
  <1>2. ASSUME ~ \E t \in Tasks : Reserve(t),
               ~ \E t \in Tasks : /\ task[t].pc = "complete" /\ task'[t].pc = "respond" /\ CanCopy
                                  /\ task' = [task EXCEPT ![t].pc = "respond"]
                                  /\ Store(task[t].key, task[t].doc, Fresh)
        PROVE  Results' = Results
    BY <1>2, RowsChange DEF Results
  <1>3. ASSUME NEW t \in Tasks, NEW pc \in Running, pc # "get_completed", task[t].pc \in Running,
               NEW doc, task' = [task EXCEPT ![t].pc = pc, ![t].doc = doc]
        PROVE  Callers' = Callers
    <2> DEFINE next == [task[t] EXCEPT !.pc = pc, !.doc = doc]
    <2>1. task[t] \in ActivationType
      BY DEF IInv, TypeOK
    <2>2. next.pc = pc /\ next.key = task[t].key /\ next.value = task[t].value
      BY <2>1 DEF ActivationType
    <2>3. task' = [task EXCEPT ![t] = next]
      BY <1>3
    <2> HIDE DEF next
    <2> QED
      BY <1>3, <2>2, <2>3, RunsOn
  <1>4. ASSUME NEW t \in Tasks, NEW pc \in Running, pc # "get_completed", task[t].pc \in Running,
               task' = [task EXCEPT ![t].pc = pc]
        PROVE  Callers' = Callers
    <2> DEFINE next == [task[t] EXCEPT !.pc = pc]
    <2>1. task[t] \in ActivationType
      BY DEF IInv, TypeOK
    <2>2. next.pc = pc /\ next.key = task[t].key /\ next.value = task[t].value
      BY <2>1 DEF ActivationType
    <2>3. task' = [task EXCEPT ![t] = next]
      BY <1>4
    <2> HIDE DEF next
    <2> QED
      BY <1>4, <2>2, <2>3, RunsOn
  <1>5. ASSUME NEW t \in Tasks, Drop(t), items' = items, pending' = pending
        PROVE  Results' = Results
    BY <1>5, DropKeeps, RowsKeep DEF Results
  <1>6. ASSUME NEW t \in Tasks, Raise(t), task[t].pc \in Running, items' = items, pending' = pending
        PROVE  Effect!Next
    BY <1>5, <1>6, RaiseIsFail DEF Raise
  <1>7. ASSUME NEW t \in Tasks, NEW command \in Commands, NEW builder \in Builders,
               Submit(t, command, builder)
        PROVE  Effect!Next
    BY <1>5, <1>7, SubmitIsCall DEF Submit
  <1>8. ASSUME NEW t \in Tasks, GetCompleted(t)
        PROVE  Effect!Next \/ (Results' = Results /\ Callers' = Callers)
    <2>1. task[t].pc = "get_completed" /\ task[t].pc \in Running
      BY <1>8 DEF GetCompleted, Running
    <2>2. CASE task' = [task EXCEPT ![t].pc = "reserve"] /\ UNCHANGED memory
      <3>1. Results' = Results
        BY <2>2, RowsKeep DEF memory, Results
      <3>2. "reserve" \in Running
        BY DEF Running
      <3> QED
        BY <1>4, <2>1, <2>2, <3>1, <3>2
    <2>3. CASE /\ CanCopy /\ Get(task[t].key, Fresh)
               /\ Returned(t, CopyOut(items[task[t].key], Fresh), TRUE)
      <3>1. Fresh \in Refs /\ items[task[t].key] # None /\ items' = items /\ pending' = pending
        BY <2>3, FreshIsUnused DEF Get
      <3>2. heap'[Fresh] = heap[items[task[t].key]]
        BY <2>3, <3>1 DEF Get, Put, IInv, TypeOK
      <3>3. Returned(t, Fresh, TRUE)
        BY <2>3 DEF CopyOut
      <3>4. \A k \in Keys : items[k] # None => heap'[items[k]] = heap[items[k]]
        BY <2>3, FreshIsUnused, RowOfKey DEF Get, Put, IInv, TypeOK
      <3>5. Results' = Results
        BY <3>1, <3>4, RowsKeep DEF Results
      <3> HIDE DEF Fresh
      <3> QED
        BY <2>1, <3>1, <3>2, <3>3, <3>5, ReturnedIsReturn
    <2> QED
      BY <1>8, <2>2, <2>3 DEF GetCompleted
  <1>9. ASSUME NEW t \in Tasks, Reserve(t)
        PROVE  Results' = Results /\ Callers' = Callers
    <2>1. /\ task[t].pc = "reserve" /\ task' = [task EXCEPT ![t].pc = "analyze"]
          /\ heap' = heap /\ items' = items
      BY <1>9 DEF Reserve, ReserveKey
    <2>2. Results' = Results
      BY <2>1 DEF Results, Row
    <2>3. task[t].pc \in Running /\ "analyze" \in Running
      BY <2>1 DEF Running
    <2> QED
      BY <1>4, <2>1, <2>2, <2>3
  <1>10. ASSUME NEW t \in Tasks, Analyze(t)
         PROVE  Results' = Results /\ Callers' = Callers
    <2>1. /\ task[t].pc = "analyze" /\ task' = [task EXCEPT ![t].pc = "complete", ![t].doc = Fresh]
          /\ CanCopy /\ Put(Fresh, made + 1) /\ items' = items /\ pending' = pending
      BY <1>10 DEF Analyze
    <2>2. \A k \in Keys : items[k] # None => heap'[items[k]] = heap[items[k]]
      BY <2>1, FreshIsUnused, RowOfKey DEF Put, IInv, TypeOK
    <2>3. Results' = Results
      BY <2>1, <2>2, RowsKeep DEF Results
    <2>4. task[t].pc \in Running /\ "complete" \in Running
      BY <2>1 DEF Running
    <2> HIDE DEF Fresh
    <2> QED
      BY <1>3, <2>1, <2>3, <2>4
  <1>11. ASSUME NEW t \in Tasks, Complete(t)
         PROVE  Effect!Next \/ (Results' = Results /\ Callers' = Callers)
    <2>1. task[t].pc = "complete" /\ task[t].pc \in Running
      BY <1>11 DEF Complete, Running
    <2>2. \/ /\ CanCopy /\ Store(task[t].key, task[t].doc, Fresh)
             /\ task' = [task EXCEPT ![t].pc = "respond"]
          \/ Raise(t) /\ items' = items /\ pending' = pending
      BY <1>11 DEF Complete
    <2> QED
      BY <1>6, <2>1, <2>2, StoreIsRecord
  <1>12. ASSUME NEW t \in Tasks, Respond(t)
         PROVE  Effect!Next
    <2>1. /\ task[t].pc = "respond" /\ task[t].pc \in Running
          /\ UNCHANGED <<heap, items, pending>> /\ Returned(t, task[t].doc, FALSE)
      BY <1>12 DEF Respond, Running
    <2>2. /\ items[task[t].key] # None /\ heap[items[task[t].key]] = heap[task[t].doc]
          /\ task[t].doc \in Refs
      BY <2>1 DEF IInv, TypeOK, ReturnedIsRecorded
    <2>3. Results' = Results
      BY <2>1 DEF Results, Row
    <2> QED
      BY <2>1, <2>2, <2>3, ReturnedIsReturn
  <1>13. ASSUME NEW t \in Tasks, Cancel(t)
         PROVE  Effect!Next
    BY <1>6, <1>13 DEF Cancel
  <1>14. ASSUME NEW t \in Tasks, NEW value \in Values, Change(t, value)
         PROVE  Results' = Results /\ Callers' = Callers
    <2>1. task' = task /\ items' = items /\ pending' = pending /\ Put(task[t].doc, value)
      BY <1>14 DEF Change
    <2>2. \A k \in Keys : items[k] # None => heap'[items[k]] = heap[items[k]]
      BY <2>1, RowOfKey DEF Put, IInv, TypeOK
    <2> QED
      BY <2>1, <2>2, RowsKeep DEF Results, Callers, CallerOf
  <1> QED
    BY <1>1, <1>7, <1>8, <1>9, <1>10, <1>11, <1>12, <1>13, <1>14 DEF Next

\* A task has an answer only when it is done.
LEMMA UnansweredStep ==
    ASSUME IInv, Unanswered, [Next]_vars
    PROVE  Unanswered'
  <1>1. ASSUME NEW t \in Tasks, NEW next, task' = [task EXCEPT ![t] = next],
               next.pc \in Running => next.value = None
        PROVE  Unanswered'
    BY <1>1 DEF Unanswered, IInv, TypeOK
  <1>2. ASSUME NEW t \in Tasks, NEW command \in Commands, NEW builder \in Builders,
               Submit(t, command, builder)
        PROVE  Unanswered'
    <2>1. PICK k \in Keys : task' = [task EXCEPT ![t] = Activation("get_completed", command, k)]
      BY <1>2, TaskSteps
    <2> QED
      BY <1>1, <2>1 DEF Activation
  <1>3. ASSUME NEW t \in Tasks, Raise(t)
        PROVE  Unanswered'
    <2>1. task' = [task EXCEPT ![t] = Activation("failed", task[t].command, task[t].key)]
      BY <1>3, TaskSteps
    <2> QED
      BY <1>1, <2>1 DEF Activation
  <1>4. ASSUME NEW t \in Tasks, NEW doc, NEW reused, Returned(t, doc, reused)
        PROVE  Unanswered'
    BY <1>4 DEF Returned, Unanswered, Running, IInv, TypeOK, ActivationType
  <1>5. ASSUME NEW t \in Tasks, task[t].pc \in Running, NEW pc, NEW doc,
               \/ task' = [task EXCEPT ![t].pc = pc]
               \/ task' = [task EXCEPT ![t].pc = pc, ![t].doc = doc]
        PROVE  Unanswered'
    BY <1>5 DEF Unanswered, IInv, TypeOK, ActivationType
  <1>6. ASSUME NEW t \in Tasks, GetCompleted(t) \/ Reserve(t) \/ Analyze(t) \/ Complete(t)
        PROVE  Unanswered'
    <2> HIDE DEF Fresh
    <2> QED
      BY <1>3, <1>4, <1>5, <1>6 DEF GetCompleted, Reserve, Analyze, Complete, Running
  <1>7. ASSUME NEW t \in Tasks, Respond(t) \/ Cancel(t)
        PROVE  Unanswered'
    BY <1>3, <1>4, <1>7 DEF Respond, Cancel
  <1>8. ASSUME task' = task
        PROVE  Unanswered'
    BY <1>8 DEF Unanswered
  <1> QED
    BY <1>2, <1>6, <1>7, <1>8 DEF Next, Change, vars

LEMMA EffectInit ==
    ASSUME Init
    PROVE  Effect!Init /\ Unanswered
  <1>1. \A t \in Tasks : task[t].pc = "idle" /\ task[t].key = None /\ task[t].value = None
    BY DEF Init, Activation
  <1>2. \A k \in Keys : Row(k).payload = None
    BY DEF Init, MemoryInit, Row
  <1> QED
    BY <1>1, <1>2 DEF Effect!Init, Unanswered, Running

\* A review in one process is a replay-safe effect: a key has one result, which
\* every delegation that succeeds returns, whatever callers do to the objects.
THEOREM ImplementsEffect == Spec => EffectSpec
  <1>1. Init => Effect!Init /\ Unanswered
    BY EffectInit
  <1>2. IInv /\ Unanswered /\ [Next]_vars => Unanswered'
    BY UnansweredStep
  <1>3. IInv /\ Unanswered /\ [Next]_vars => [Effect!Next]_(Effect!vars)
    BY EffectStep DEF Effect!vars, Results, Callers, CallerOf, StateOf
  <1> QED
    BY <1>1, <1>2, <1>3, Invariance, PTL DEF Spec, EffectSpec, Effect!Spec
=============================================================================
