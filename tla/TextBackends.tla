---------------------------- MODULE TextBackends ----------------------------
(***************************************************************************)
(* The text-only inference boundary (adapters/text_generation.py): which   *)
(* backend a configuration selects (config.py), what reaches it, and what  *)
(* its adapter makes of a provider's reply (openai_text.py,                *)
(* gateway_text.py).                                                       *)
(*                                                                         *)
(* A text is a sequence of words; the empty sequence stands for a text of  *)
(* white space only.  TextModelError, and any exception of an SDK, is None *)
(* in place of a text; an SDK that raises is None in place of a reply.     *)
(***************************************************************************)
EXTENDS Sequences, SequencesExt

CONSTANT None

\* Keys of a configuration: missing, the placeholder of .env.example, given.
Keys == {"", "replace-me", "given"}

\* The settings that decide which backend serves a specialist.
Settings ==
    [runtime : {"agno", "crewai"}, llm_backend : {"gateway", "openai"},
     openai_api_key : Keys, gateway_api_key : Keys,
     policy_context : BOOLEAN]      \* risk level and data classification are declared

Usable(key) == key \notin {"", "replace-me"}

GatewayUsable(s) == Usable(s.gateway_api_key) /\ s.policy_context

\* Variant: a backend without credentials is replaced by the other one.
TextClientOrOther(s) ==
    IF Usable(s.openai_api_key) /\ (s.llm_backend = "openai" \/ ~GatewayUsable(s)) THEN "openai"
    ELSE IF GatewayUsable(s) THEN "gateway" ELSE None

\* The selected backend, or None: the service does not start.
TextClient(s) ==
    CASE s.llm_backend = "openai" /\ Usable(s.openai_api_key) -> "openai"
      [] s.llm_backend = "gateway" /\ GatewayUsable(s) -> "gateway"
      [] OTHER -> None

\* The bridges of both frameworks refuse everything but plain text messages.
Acceptable(messages) == \A m \in messages : m.kind = "text"

-----------------------------------------------------------------------------
(* OpenAI: [status, error, incomplete, output], the output a sequence of   *)
(* items [type, status, content], the content a sequence of [type, text].  *)

\* Variant: the status of the items is not looked at.
CompleteTextUnlessRefused(item) ==
    \/ item.type = "reasoning"
    \/ item.type = "message" /\ \A n \in DOMAIN item.content : item.content[n].type = "output_text"

\* Reasoning is skipped; every other item is a finished message of plain text.
CompleteText(item) ==
    \/ item.type = "reasoning"
    \/ /\ item.type = "message"
       /\ item.status = "completed"
       /\ \A n \in DOMAIN item.content : item.content[n].type = "output_text"

\* Response.output_text
OutputText(output) ==
    LET TextOfItem(item) ==
            IF item.type = "message"
            THEN FlattenSeq([n \in DOMAIN item.content |-> item.content[n].text]) ELSE <<>>
    IN  FlattenSeq([n \in DOMAIN output |-> TextOfItem(output[n])])

OpenAIText(reply) ==
    IF /\ reply # None
       /\ reply.status = "completed" /\ ~reply.error /\ ~reply.incomplete
       /\ \A n \in DOMAIN reply.output : CompleteText(reply.output[n])
       /\ OutputText(reply.output) # <<>>
    THEN OutputText(reply.output) ELSE None

-----------------------------------------------------------------------------
(* Gateway: [status, error, tool_calls, structured_output, content].       *)

GatewayText(reply) ==
    IF /\ reply # None
       /\ reply.status = "succeeded" /\ ~reply.error
       /\ ~reply.tool_calls /\ ~reply.structured_output
       /\ reply.content # <<>>
    THEN reply.content ELSE None

Generated(backend, reply) ==
    IF backend = "openai" THEN OpenAIText(reply) ELSE GatewayText(reply)
=============================================================================
