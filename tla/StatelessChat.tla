---------------------------- MODULE StatelessChat ----------------------------
(***************************************************************************)
(* What the gateway promises: the chat-completion API it offers has no     *)
(* memory.  A reply is the model's continuation of the very conversation   *)
(* the request carried, whatever chat of the web service produced it.      *)
(***************************************************************************)
EXTENDS Sequences

CONSTANTS Slots,          \* requests in progress
          Conversation,   \* what a client may ask to continue
          Answers         \* what the model may say

VARIABLES asked,          \* the conversation a request carries, <<>> if none
          heard           \* that conversation with a reply, <<>> before

vars == <<asked, heard>>

Init ==
    /\ asked = [s \in Slots |-> <<>>]
    /\ heard = [s \in Slots |-> <<>>]

Ask(s, msgs) ==
    /\ asked[s] = <<>>
    /\ asked' = [asked EXCEPT ![s] = msgs]
    /\ UNCHANGED heard

Continue(s, answer) ==
    /\ asked[s] # <<>> /\ heard[s] = <<>>
    /\ heard' = [heard EXCEPT ![s] = Append(asked[s], answer)]
    /\ UNCHANGED asked

\* The reply is delivered, or the request fails.
End(s) ==
    /\ asked[s] # <<>>
    /\ asked' = [asked EXCEPT ![s] = <<>>]
    /\ heard' = [heard EXCEPT ![s] = <<>>]

Next ==
    \E s \in Slots :
        \/ \E msgs \in Conversation : Ask(s, msgs)
        \/ \E answer \in Answers : Continue(s, answer)
        \/ End(s)

Spec == Init /\ [][Next]_vars
=============================================================================
