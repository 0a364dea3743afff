------------------------------ MODULE MCGrammar ------------------------------
(***************************************************************************)
(* GrammarPipeline with the pieces that take each scanner through every    *)
(* branch: prose, a call in one piece, a call cut after each of its marks, *)
(* one that names its tool under "tool", a fence that is no call, an empty *)
(* one, braces that never close.                                           *)
(***************************************************************************)
EXTENDS GrammarPipeline

Fenced(object) == <<"fence", "json">> \o object \o <<"fence">>
WholeCall == Fenced(CallObject)
Prose2 == <<"prose", "prose">>

MCChunks ==
    {<<"prose">>, WholeCall, Fenced(ToolObject), Prose2 \o WholeCall \o <<"prose">>,
     <<"fence", "json">>, <<"fence", "json", "open">>, <<"close", "fence">>,
     <<"fence">>, <<"json", "open", "close">>, <<"fence", "json", "prose", "fence">>,
     <<"fence", "json", "fence">>, <<"open", "prose">>, <<"prose", "open", "close">>}
=============================================================================
