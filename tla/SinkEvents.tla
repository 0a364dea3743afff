----------------------------- MODULE SinkEvents -----------------------------
(***************************************************************************)
(* The vocabulary of v2/ir/events.py that a tool grammar produces and the  *)
(* stream emitters consume.  What a delta says is left out, whether it     *)
(* says anything (blank) is kept: a blank delta may open a block and send  *)
(* nothing into it.                                                        *)
(***************************************************************************)
EXTENDS Integers

CONSTANT ToolIndices   \* the indices producers give tool calls

ASSUME ToolIndicesAssumption == ToolIndices \subseteq Nat

\* None, where the code keeps an index or nothing.
NoIndex == -1

Kinds == {"MessageStart", "ThinkingDelta", "TextDelta", "ToolCallStart",
          "ToolCallArgsDelta", "ToolCallEnd", "MessageEnd", "SinkError"}

SinkEvent == [kind : Kinds, index : ToolIndices \cup {NoIndex}, blank : BOOLEAN]

Event(kind) == [kind |-> kind, index |-> NoIndex, blank |-> FALSE]
Delta(kind, blank) == [kind |-> kind, index |-> NoIndex, blank |-> blank]
ToolEvent(kind, i) == [kind |-> kind, index |-> i, blank |-> FALSE]

\* Every event the dataclasses can hold.
AnyEvent ==
    {Event(k) : k \in {"MessageStart", "MessageEnd", "SinkError"}}
    \cup {Delta(k, b) : k \in {"ThinkingDelta", "TextDelta"}, b \in BOOLEAN}
    \cup {ToolEvent(k, i) :
              k \in {"ToolCallStart", "ToolCallArgsDelta", "ToolCallEnd"},
              i \in ToolIndices}
=============================================================================
