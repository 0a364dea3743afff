---------------------------- MODULE Credentials ----------------------------
(***************************************************************************)
(* The credentials that a browser harvests, under one clock: the DeepSeek  *)
(* cookies of CookieFile, shared behind a lock, and the Qwen bundles of    *)
(* QwenWire, shared with no lock.  The slots for requests are common: a    *)
(* slot serves one request, of one kind, in a behaviour.                   *)
(***************************************************************************)
EXTENDS CookieFile, QwenWire

vars == <<now, cookieVars, qwenVars>>

Init == now = 0 /\ CookieInit /\ QwenInit

\* The slot r has not been given a request yet.
Unused(r) == callers[r].at = "idle" /\ asks[r].at = "idle"

DeepSeekArrives(r) == Unused(r) /\ Look(r) /\ UNCHANGED <<now, qwenVars>>

QwenArrives(r) == /\ Unused(r)
                  /\ \E goal \in {"create", "send"} : Ask(r, goal)
                  /\ UNCHANGED <<now, cookieVars>>

\* Whatever the request in the slot r does next.
Proceed(r) == \/ CookieStep(r) /\ UNCHANGED <<now, qwenVars>>
              \/ QwenStep(r) /\ UNCHANGED <<now, cookieVars>>

Passes == Tick /\ UNCHANGED <<cookieVars, qwenVars>>

Next == \/ \E r \in Requests : DeepSeekArrives(r) \/ QwenArrives(r) \/ Proceed(r)
        \/ Passes

Spec == Init /\ [][Next]_vars

\* The event loop resumes every coroutine whose await has ended, and each of
\* these awaits ends: the polls of the page are counted, the HTTP calls and the
\* waits in the browser have timeouts.  Nothing has to arrive, and the clock
\* may stand still.
FairSpec == Spec /\ \A r \in Requests : WF_vars(Proceed(r))

-----------------------------------------------------------------------------

\* The types of both clients' state; the cookie lock is held by one of those
\* that wait for it, and by the one whose browser runs.
CredentialsTypeOK ==
    /\ now \in Time
    /\ file \in [harvest : 0..Len(harvests), until : Nat]
    /\ queue \in Seq(Requests)
    /\ IsInjective(queue)
    /\ callers \in [Requests -> Caller]
    /\ \A r \in Requests :
          /\ r \in Range(queue) <=> callers[r].at \in {"waiting", "harvesting"}
          /\ callers[r].at = "harvesting" => r = Head(queue)
    /\ asks \in [Requests -> [at : Ended \cup {"idle", "page", "wu.json", "cookies", "post",
                                               "opened"},
                              goal : {"create", "send", "retry"}, second : BOOLEAN,
                              from : Time, harvest : 0..begun,
                              bundle : [harvest : 0..begun, born : Time, jar : BOOLEAN],
                              age : Time, mark : 0..begun]]

\* No browser is started for DeepSeek cookies while another one runs, or while
\* the cookies an earlier one brought are still good: however many requests
\* find the file stale together, one of them harvests for all
\* (functions.py:240-251).
OneHarvestServesAll ==
    \A i \in 1..Len(harvests) : \A j \in i + 1..Len(harvests) :
        harvests[i].until <= harvests[j].from

\* Every request that asks for DeepSeek cookies gets some or an exception:
\* a browser that fails leaves the lock to the next waiter
\* (functions.py:240, 276-277).
EveryCallerLeaves ==
    \A r \in Requests :
        callers[r].at = "waiting" ~> callers[r].at \in {"done", "raised"}

\* A bundle is never used at the age of TTL or more, however long the harvest
\* of it took and whoever put it into the cache (qwen/cookies.py:54-71).
BundleYoungEnough ==
    \A r \in Requests : asks[r].bundle # NoBundle => asks[r].age < TTL

\* A bundle for which a completion was challenged on its first attempt is
\* never given out by the cache again, whichever requests refill the cache in
\* the meantime (qwen/wire.py:422-429).
PunishedBundleIsGone ==
    cache # NoBundle => cache.harvest \notin burnt

\* The second attempt goes out with a bundle whose harvest began behind the
\* challenge, never with one that was under way or in the cache by then
\* (qwen/wire.py:423-438).
RetryIsFresh ==
    \A r \in Requests :
        asks[r].goal = "retry" /\ asks[r].at = "post"
            => asks[r].bundle.harvest > asks[r].mark
=============================================================================
