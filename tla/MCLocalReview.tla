--------------------------- MODULE MCLocalReview ---------------------------
(* Instances of LocalReview for TLC. *)
EXTENDS LocalReview, TLC

MCKeys == {KeyOf(e, d) : e \in GivenIds \cup NewExecutions, d \in GivenIds \cup NewDelegations}
\* With both ids, without one of them in either way, and without any.
MCCommands ==
    {Command(e, d) : e \in GivenIds \cup {Missing, Empty}, d \in GivenIds}
        \cup {Command(Missing, Missing)}

MCValues == 1..MaxCalls

Symmetry == Permutations(Tasks) \cup Permutations(NewExecutions)
=============================================================================
