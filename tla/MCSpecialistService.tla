------------------------- MODULE MCSpecialistService -------------------------
(***************************************************************************)
(* Instances of SpecialistService for TLC: two requests of one             *)
(* conversation, and every reply made of the items and ends below.         *)
(* "whole" is what the provider knows and no adapter reads: it finished,   *)
(* and said nothing but text.                                              *)
(***************************************************************************)
EXTENDS SpecialistService

CONSTANTS w, err, none, i1, i2

Piece(type, text) == [type |-> type, text |-> text]
Item(type, status, content, whole) ==
    [type |-> type, status |-> status, content |-> content, whole |-> whole]

Items ==
    {Item("reasoning", "completed", <<>>, TRUE),
     Item("message", "completed", <<Piece("output_text", <<w>>)>>, TRUE),
     Item("message", "completed", <<Piece("output_text", <<>>)>>, TRUE),
     Item("message", "incomplete", <<Piece("output_text", <<w>>)>>, FALSE),
     Item("message", "completed", <<Piece("output_text", <<w>>), Piece("refusal", <<>>)>>, FALSE),
     Item("function_call", "completed", <<>>, FALSE)}

Outputs ==
    {<<>>} \cup {<<a>> : a \in Items}
           \cup {<<a, b>> : a \in {i \in Items : i.whole}, b \in Items}

Said(output) == \E n \in DOMAIN output : output[n].content = <<Piece("output_text", <<w>>)>>

Reply(status, error, incomplete, output, whole) ==
    [status |-> status, error |-> error, incomplete |-> incomplete, output |-> output,
     whole |-> whole]

\* A response that ended normally, with any output; one that was cut off, in
\* either way the API reports it, or failed, with what was said until then.
MCOpenAIReplies ==
    {Reply("completed", FALSE, FALSE, o, Said(o) /\ \A n \in DOMAIN o : o[n].whole) : o \in Outputs}
    \cup {Reply(e[1], e[2], e[3], o, FALSE) :
            e \in {<<"completed", FALSE, TRUE>>, <<"incomplete", FALSE, TRUE>>, <<"failed", TRUE, FALSE>>},
            o \in {<<>>} \cup {<<i>> : i \in {j \in Items : j.type = "message"}}}

MCGatewayReplies ==
    {[status |-> s, error |-> s = "failed", tool_calls |-> t, structured_output |-> x, content |-> p,
      whole |-> s = "succeeded" /\ ~t /\ ~x /\ p # <<>>] :
        s \in {"succeeded", "failed"}, t \in BOOLEAN, x \in BOOLEAN, p \in {<<>>, <<w>>, <<w, w>>}}

\* Either backend with its credentials, and each without them while the other
\* backend's are there.
MCConfigurations ==
    {c \in Settings :
        <<c.llm_backend, c.openai_api_key, c.gateway_api_key, c.policy_context>> \in
            {<<"openai", "given", "", FALSE>>, <<"openai", "replace-me", "given", TRUE>>,
             <<"gateway", "", "given", TRUE>>, <<"gateway", "given", "given", FALSE>>}}

OneConversation == [i \in Identities |-> "conv"]

MCPlaceholder == <<none>>
MCErrorText == <<err>>
=============================================================================
