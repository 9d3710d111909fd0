-------------------------- MODULE MCReviewRuntime --------------------------
(***************************************************************************)
(* Instances of ReviewRuntime for TLC: two executions of one conversation, *)
(* which share a LangGraph thread.                                         *)
(***************************************************************************)
EXTENDS ReviewRuntime, IdentityKeys, TLC

CONSTANTS t1, t2

First == Identity(<<"conv">>, <<"exec-1">>, <<"deleg-1">>)
Second == Identity(<<"conv">>, <<"exec-2">>, <<"deleg-2">>)

OneIdentity == {First}
TwoIdentities == {First, Second}

MCKeyOf == [i \in Identities |-> RequestKey(i)]
MCKeys == {RequestKey(i) : i \in Identities}
MCConversationOf == [i \in Identities |-> i.conversation_id]
MCConversations == {i.conversation_id : i \in Identities}
MCDelegationOf == [i \in Identities |-> i.delegation_id]

Symmetry == Permutations(Tasks)

\* A bound of the safety run: states that use up the calls are checked, and
\* not continued, so no run is stopped for want of a call.
CallsLeft == calls[MaxCalls].status = "unused"
=============================================================================
