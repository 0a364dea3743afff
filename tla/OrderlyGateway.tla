--------------------------- MODULE OrderlyGateway ---------------------------
(***************************************************************************)
(* The gateway under the clients it serves exactly: a client sends a turn  *)
(* once, and again only after it failed.  Tokens are limited, rotated,     *)
(* added and deleted meanwhile, rows expire, chats cannot be created,      *)
(* collected answers break off, and the process restarts when nothing is   *)
(* in flight.  Streamed answers do not break off.                          *)
(***************************************************************************)
EXTENDS Gateway

VARIABLE sent   \* signatures of the turns in flight or answered

OrderlyVars == <<vars, sent>>

OrderlyInit == Init /\ sent = {}

Send(r, msgs, stream) ==
    /\ Signature(msgs) \notin sent
    /\ stream => "broken" \notin Faults
    /\ Arrive(r, msgs, stream)
    /\ sent' = IF reqs'[r].pc = "idle" THEN sent ELSE sent \cup {Signature(msgs)}

\* A request that ends in any other way than Finish leaves its turn to be sent
\* again.
Proceed(r) ==
    /\ Advance(r)
    /\ sent' = IF reqs[r].pc # "idle" /\ reqs'[r].pc = "idle" /\ ~Finish(r)
               THEN sent \ {SigOf(reqs[r])} ELSE sent

OrderlyNext ==
    \/ \E r \in Requests, msgs \in Conversations, stream \in BOOLEAN :
          Send(r, msgs, stream)
    \/ \E r \in Requests : Proceed(r)
    \/ /\ \/ \E a \in Accounts : AddToken(a)
          \/ \E t \in TokenIds : DeleteToken(t)
          \/ TtlPasses
          \/ (\A r \in Requests : reqs[r].pc = "idle") /\ Restart
       /\ UNCHANGED sent

OrderlySpec == OrderlyInit /\ [][OrderlyNext]_OrderlyVars

\* The conversation the model read and continued for each request.
Heard(q) ==
    IF q.pc = "replying" /\ q.outcome # Empty
    THEN chats[q.chat].log[q.mid].ctx ELSE <<>>

\* Every reply is a continuation of exactly the conversation the request
\* carried: resuming a cached chat with the new turn alone, starting over on a
\* fresh chat, rotating to another account and retrying after a rate limit are
\* invisible to the client.
Promise == INSTANCE StatelessChat WITH
              Slots <- Requests, Conversation <- Conversations,
              Answers <- Assistant,
              asked <- [r \in Requests |-> reqs[r].msgs],
              heard <- [r \in Requests |-> Heard(reqs[r])]

ImplementsStatelessChat == Promise!Spec
=============================================================================
