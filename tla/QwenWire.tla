------------------------------ MODULE QwenWire ------------------------------
(***************************************************************************)
(* The Qwen client of v2: cookies.py harvests a bundle of anti-bot tokens  *)
(* (and the page's cookies) into a cache of the process, with no lock;     *)
(* wire.py sends chats/new and chat/completions with it, and answers the   *)
(* slider challenge ("punish") of a completion by dropping the cache,      *)
(* harvesting once more and sending once more.                             *)
(*                                                                         *)
(* Every harvest has a number, given when it begins; the bundle it brings  *)
(* carries it.  The code from one await to the next is one step.           *)
(***************************************************************************)
EXTENDS Clock, Integers, FiniteSets

CONSTANTS TTL,          \* 25 minutes, in ticks of the clock
          MaxFailing    \* bound: harvests after this one find the page loading

ASSUME TTLAssumption == TTL \in Nat \ {0}

VARIABLES cache,        \* _baxia_token_cache
          cacheTime,    \* _baxia_cache_time
          begun,        \* how many harvests have begun
          burnt,        \* history: bundles a first attempt was punished for
          asks          \* where each slot is in create_new_chat(), send_message()

qwenVars == <<cache, cacheTime, begun, burnt, asks>>

NoBundle == [harvest |-> 0, born |-> 0, jar |-> FALSE]

\* at: where the request is; goal: the call it is preparing; second: whether
\* it asks for the token again because there was no bundle; from: `now` of
\* get_baxia_tokens(); harvest: the one it runs; bundle: what it sends,
\* age: how old that was when it got it; mark: harvests begun when it was
\* punished.
Outside == [at |-> "idle", goal |-> "create", second |-> FALSE, from |-> 0, harvest |-> 0,
            bundle |-> NoBundle, age |-> 0, mark |-> 0]
Ended == {"answered", "empty", "error", "raised"}
End(how) == [Outside EXCEPT !.at = how]

QwenInit == /\ cache = NoBundle
            /\ cacheTime = 0
            /\ begun = 0
            /\ burnt = {}
            /\ asks = [r \in Requests |-> Outside]

\* Mutant of Cached: a bundle may be as old as its lifetime.
CachedTooLong == cache # NoBundle /\ now - cacheTime <= TTL

\* The cache holds a bundle younger than its lifetime.
Cached == cache # NoBundle /\ now - cacheTime < TTL

\* The request a takes the bundle b along.
Carries(a, b, at) ==
    [a EXCEPT !.at = at, !.bundle = b, !.age = now - b.born, !.from = 0, !.harvest = 0]

\* Mutant of Refreshed: the second attempt is sent with the headers of the first.
RefreshedUnused(a, b) == IF b = NoBundle THEN End("empty") ELSE Carries(a, a.bundle, "post")

\* The request a was challenged and has harvested b: it sends once more, with
\* the cookies of b laid over those its session has (which stay when b has none:
\* cookies are followed no further than that); without a bundle, what it collected
\* stands, and the page of the challenge holds no events.
Refreshed(a, b) == IF b = NoBundle THEN End("empty") ELSE Carries(a, b, "post")

\* The request a goes on with the bundle b (NoBundle for None).  A create or
\* send looks for cookies elsewhere, unless they came with the bundle.
Supplied(a, b) ==
    IF a.goal = "retry" THEN Refreshed(a, b)
    ELSE Carries(a, b, IF b.jar /\ ~a.second THEN "post" ELSE "cookies")

\* The head of get_baxia_tokens() for the request a: the bundle of the
\* cache, if that is a hit, or the beginning of a harvest.
LookUp(r, a, hit) ==
    /\ IF hit
       THEN asks' = [asks EXCEPT ![r] = Supplied(a, cache)] /\ UNCHANGED begun
       ELSE /\ begun' = begun + 1
            /\ asks' = [asks EXCEPT ![r] = [a EXCEPT !.at = "page", !.from = now,
                                                     !.harvest = begun + 1]]

\* A request needs a chat, or resumes the one it has.
Ask(r, goal) ==
    /\ asks[r].at = "idle"
    /\ LookUp(r, [Outside EXCEPT !.goal = goal], Cached)
    /\ UNCHANGED <<cache, cacheTime, burnt>>

\* A harvest has brought a bundle: the last to come stays in the cache, with
\* the time at which its harvest began.
Keep(r, jar) ==
    /\ cache' = [harvest |-> asks[r].harvest, born |-> now, jar |-> jar]
    /\ cacheTime' = asks[r].from

\* _primary_baxia_path(): the page gave its tokens, with its cookies or without.
PageLoads(r, jar) ==
    /\ asks[r].at = "page"
    /\ Keep(r, jar)
    /\ asks' = [asks EXCEPT ![r] = Supplied(@, cache')]
    /\ UNCHANGED <<begun, burnt>>

PageFails(r) ==
    /\ asks[r].at = "page"
    /\ asks[r].harvest <= MaxFailing
    /\ asks' = [asks EXCEPT ![r].at = "wu.json"]
    /\ UNCHANGED <<cache, cacheTime, begun, burnt>>

\* _fallback_wu_json_path(): a token without cookies.
FallbackGives(r) ==
    /\ asks[r].at = "wu.json"
    /\ Keep(r, FALSE)
    /\ asks' = [asks EXCEPT ![r] = Supplied(@, cache')]
    /\ UNCHANGED <<begun, burnt>>

\* No bundle: the request goes on without.
FallbackFails(r) ==
    /\ asks[r].at = "wu.json"
    /\ asks[r].goal = "retry" \/ asks[r].second
    /\ asks' = [asks EXCEPT ![r] = Supplied(@, NoBundle)]
    /\ UNCHANGED <<cache, cacheTime, begun, burnt>>

\* No bundle for a create or send that asked for one: before anybody else runs
\* it asks again, for the token alone, which the cache may hold by now.
AskAgain(r) ==
    /\ asks[r].at = "wu.json"
    /\ asks[r].goal # "retry" /\ ~asks[r].second
    /\ LookUp(r, [asks[r] EXCEPT !.second = TRUE], Cached)
    /\ UNCHANGED <<cache, cacheTime, burnt>>

\* The bundle has no cookies: get_cookies() gives those of a file, if somebody
\* has put one there, or none.  It never writes the file, for its regeneration
\* fails at the `async with` on the coroutine of launch().
GetCookies(r) ==
    /\ asks[r].at = "cookies"
    /\ asks' = [asks EXCEPT ![r].at = "post"]
    /\ UNCHANGED <<cache, cacheTime, begun, burnt>>

\* chats/new answered with an id: the request goes on to its message.
Created(r) ==
    /\ asks[r].at = "post" /\ asks[r].goal = "create"
    /\ asks' = [asks EXCEPT ![r] = [Outside EXCEPT !.at = "opened", !.goal = "send"]]
    /\ UNCHANGED <<cache, cacheTime, begun, burnt>>

\* chats/new answered with anything else, the challenge included: it raises.
CreateFails(r) ==
    /\ asks[r].at = "post" /\ asks[r].goal = "create"
    /\ asks' = [asks EXCEPT ![r] = End("raised")]
    /\ UNCHANGED <<cache, cacheTime, begun, burnt>>

Opened(r) ==
    /\ asks[r].at = "opened"
    /\ LookUp(r, asks[r], Cached)
    /\ UNCHANGED <<cache, cacheTime, burnt>>

\* A completion came back with events, or as an error event.
Collected(r, end) ==
    /\ asks[r].at = "post" /\ asks[r].goal # "create"
    /\ end \in {"answered", "error"}
    /\ asks' = [asks EXCEPT ![r] = End(end)]
    /\ UNCHANGED <<cache, cacheTime, begun, burnt>>

\* Mutant of Punished: the cache keeps the bundle that was sent.
PunishedKeepsCache(r) ==
    /\ asks[r].at = "post" /\ asks[r].goal = "send"
    /\ burnt' = burnt \cup {asks[r].bundle.harvest}
    /\ LookUp(r, [asks[r] EXCEPT !.goal = "retry", !.mark = begun], Cached)
    /\ UNCHANGED <<cache, cacheTime>>

\* The first attempt met the slider challenge: the cache is dropped, whatever
\* is in it by now, and the request harvests for its second attempt.
Punished(r) ==
    /\ asks[r].at = "post" /\ asks[r].goal = "send"
    /\ burnt' = burnt \cup {asks[r].bundle.harvest}
    /\ cache' = NoBundle
    /\ cacheTime' = 0
    /\ LookUp(r, [asks[r] EXCEPT !.goal = "retry", !.mark = begun], FALSE)

\* So did the second attempt: an error event, and the cache stays as it is.
PunishedAgain(r) ==
    /\ asks[r].at = "post" /\ asks[r].goal = "retry"
    /\ asks' = [asks EXCEPT ![r] = End("error")]
    /\ UNCHANGED <<cache, cacheTime, begun, burnt>>

\* A step that a request in the Qwen client takes next.
QwenStep(r) ==
    \/ AskAgain(r) \/ PageFails(r) \/ FallbackGives(r) \/ FallbackFails(r)
    \/ GetCookies(r) \/ Created(r) \/ CreateFails(r) \/ Opened(r)
    \/ Punished(r) \/ PunishedAgain(r)
    \/ \E jar \in BOOLEAN : PageLoads(r, jar)
    \/ \E end \in Ended : Collected(r, end)
=============================================================================
