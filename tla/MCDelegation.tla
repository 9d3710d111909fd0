---------------------------- MODULE MCDelegation ----------------------------
(***************************************************************************)
(* Instances of Delegation for TLC.  The identities are written out and    *)
(* their keys computed as domain/identity.py does.                         *)
(***************************************************************************)
EXTENDS Delegation, IdentityKeys, TLC

CONSTANTS t1, t2

\* Two executions of one conversation.
First == Identity(<<"conv">>, <<"exec-1">>, <<"deleg-1">>)
Second == Identity(<<"conv">>, <<"exec-2">>, <<"deleg-2">>)

\* Two different pairs of execution and delegation, joined to the same key.
ColonInExecution == Identity(<<"conv">>, <<"a", ":", "b">>, <<"c">>)
ColonInDelegation == Identity(<<"conv">>, <<"a">>, <<"b", ":", "c">>)

OneIdentity == {First}
TwoIdentities == {First, Second}
CollidingIdentities == {ColonInExecution, ColonInDelegation}

MCKeyOf == [i \in Identities |-> RequestKey(i)]
MCKeys == {RequestKey(i) : i \in Identities}

Symmetry == Permutations(Tasks) \cup Permutations(Summaries)
=============================================================================
