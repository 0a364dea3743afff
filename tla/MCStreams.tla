------------------------------ MODULE MCStreams ------------------------------
(***************************************************************************)
(* Answers cut at every place that matters: before, inside and behind a    *)
(* tag, an object, a fence.                                                *)
(***************************************************************************)
EXTENDS GatewayStreams

MCPieces ==
    {<<>>,
     <<"word">>,
     <<"<">>,
     <<"tool_call>", "{json}">>,
     <<"<", "/tool_call>", "word">>,
     <<"word", "<", "tool_call>", "{json}", "<", "/tool_call>", "<">>,
     <<"<", "tool_call>", "{placeholder}">>,
     <<"fence">>,
     <<"think>", "word">>,
     <<"word", "<", "/think>">>}
=============================================================================
