---------------------------- MODULE IdentityKeys ----------------------------
(***************************************************************************)
(* The idempotency key of an execution identity (domain/identity.py).      *)
(*                                                                         *)
(* An identifier is a sequence of tokens: "a" stands for any run of safe   *)
(* characters without a colon, ":" for the colon, which _ID_RE allows too. *)
(* The key joins execution, delegation and operation with colons and       *)
(* leaves the conversation out.                                            *)
(***************************************************************************)
EXTENDS Sequences

Colon == <<":">>

\* The operation every delegation of this repository uses.
RiskReview == <<"specialist-risk-review">>

Identity(conversation, execution, delegation) ==
    [conversation_id |-> conversation, execution_id |-> execution,
     delegation_id |-> delegation]

IdempotencyKey(i, operation) ==
    i.execution_id \o Colon \o i.delegation_id \o Colon \o operation

\* The key build_specialist_request and the delegate node compute.
RequestKey(i) == IdempotencyKey(i, RiskReview)
=============================================================================
