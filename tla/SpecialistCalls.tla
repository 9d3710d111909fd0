-------------------------- MODULE SpecialistCalls --------------------------
(***************************************************************************)
(* What a call of A2ASpecialistClient.analyze (adapters/a2a_transport.py)  *)
(* is promised by the specialist's side, whichever runtime is behind it:   *)
(* a call is sent, and gets exactly one fate.                              *)
(*                                                                         *)
(*     unused --> sent --> answered, refused, or lost                      *)
(*                               |_______________^                         *)
(*                                                                         *)
(* An answer names the identity of its own request, and every call that is *)
(* sent gets a fate in the end.  Delegation relies on both: its action     *)
(* Answer and its fairness assume no more, and its fault Misanswer is what *)
(* a specialist that breaks the promise could do.                          *)
(***************************************************************************)
CONSTANTS
    CallIds,        \* the calls that can be made
    Identities,     \* execution identities of the requests
    Summaries,      \* the summaries an answer can have
    None            \* no request, no response

VARIABLE calls      \* [CallIds -> [status, request, response]]

Unused == [status |-> "unused", request |-> None, response |-> None]

Init == calls = [c \in CallIds |-> Unused]

Send(c, i) ==
    /\ calls[c] = Unused
    /\ calls' = [calls EXCEPT ![c] = [status |-> "sent", request |-> i, response |-> None]]

Answer(c, s) ==
    /\ calls[c].status = "sent"
    /\ calls' = [calls EXCEPT ![c].status = "answered",
                              ![c].response = [identity |-> calls[c].request, summary |-> s]]

Refuse(c) ==
    /\ calls[c].status = "sent"
    /\ calls' = [calls EXCEPT ![c].status = "refused"]

\* Nobody will receive these answers: a timeout, a broken connection, a crash.
Lose(C) ==
    /\ \A c \in C : calls[c].status \in {"sent", "answered"}
    /\ calls' = [c \in CallIds |->
                    IF c \in C THEN [calls[c] EXCEPT !.status = "lost"] ELSE calls[c]]

Fate(c) == Refuse(c) \/ Lose({c}) \/ \E s \in Summaries : Answer(c, s)

Next ==
    \/ \E c \in CallIds : Fate(c) \/ \E i \in Identities : Send(c, i)
    \/ \E C \in SUBSET CallIds : Lose(C)

Spec == Init /\ [][Next]_calls

\* No call waits for ever.
CallsEnd == \A c \in CallIds : calls[c].status = "sent" ~> calls[c].status # "sent"
=============================================================================
