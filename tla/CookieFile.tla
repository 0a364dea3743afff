----------------------------- MODULE CookieFile -----------------------------
(***************************************************************************)
(* get_cookies() of functions.py: the cookies of the DeepSeek site live in *)
(* a file; whoever finds them missing or expired looks again under a lock  *)
(* and only then starts a browser to harvest new ones.                     *)
(*                                                                         *)
(* asyncio.Lock serves its waiters in the order in which they came, so the *)
(* lock and its waiters are one queue, its head the holder.  Between two   *)
(* awaits a caller is alone, so a look, and the write by os.replace with   *)
(* the read behind it, are one step each.                                  *)
(***************************************************************************)
EXTENDS Clock, Sequences, SequencesExt

CONSTANT Lifetimes      \* how long a harvested cookie may turn out to last

ASSUME LifetimesAssumption == Lifetimes \subseteq Nat

VARIABLES file,         \* what the file says: which harvest, good until when
          queue,        \* _cookie_lock: its holder, then the waiters
          callers,      \* where each slot is in get_cookies()
          harvests      \* history: when each browser was started, and what for

cookieVars == <<file, queue, callers, harvests>>

Pending == MaxNow + 100                     \* the harvest has not ended yet
Absent == [harvest |-> 0, until |-> 0]      \* no file, or one that cannot be read

Caller == [at : {"idle", "waiting", "harvesting", "done", "raised"}, cookie : Nat]
Away == [at |-> "idle", cookie |-> 0]

\* The test of both looks: there is a cookie and its expiry lies ahead.
Fresh == file.until > now

\* The file may be left from an earlier process, still good or not.
CookieInit == /\ file \in {Absent, [harvest |-> 0, until |-> 1]}
              /\ queue = <<>>
              /\ callers = [r \in Requests |-> Away]
              /\ harvests = <<>>

\* The slot r leaves get_cookies() with the cookie the file holds.
Given(r, f) == callers' = [callers EXCEPT ![r] = [at |-> "done", cookie |-> f.harvest]]

\* The look without the lock: a fresh cookie is returned at once.
Look(r) ==
    /\ callers[r].at = "idle"
    /\ IF Fresh
       THEN Given(r, file) /\ UNCHANGED queue
       ELSE /\ callers' = [callers EXCEPT ![r].at = "waiting"]
            /\ queue' = Append(queue, r)
    /\ UNCHANGED <<file, harvests>>

\* The browser is started, under the lock.
Launch(r) == /\ callers' = [callers EXCEPT ![r].at = "harvesting"]
             /\ harvests' = Append(harvests, [from |-> now, until |-> Pending])
             /\ UNCHANGED <<file, queue>>

\* Mutant of LookAgain: the second look is left out.
LookAgainNot(r) == /\ callers[r].at = "waiting"
                   /\ Head(queue) = r
                   /\ Launch(r)

\* The lock is free for r, which looks again before it starts a browser.
LookAgain(r) ==
    /\ callers[r].at = "waiting"
    /\ Head(queue) = r
    /\ \/ Fresh /\ Given(r, file) /\ queue' = Tail(queue) /\ UNCHANGED <<file, harvests>>
       \/ ~Fresh /\ Launch(r)

\* Mutant of Harvested: the way out behind a harvest keeps the lock.
HarvestedLocked(r, life) ==
    /\ callers[r].at = "harvesting"
    /\ file' = [harvest |-> Len(harvests), until |-> now + life]
    /\ harvests' = [harvests EXCEPT ![Len(harvests)].until = now + life]
    /\ Given(r, file')
    /\ UNCHANGED queue

\* The browser has brought cookies that last for life: they replace the file,
\* and what was just written is read back and returned, whatever it is worth.
Harvested(r, life) ==
    /\ callers[r].at = "harvesting"
    /\ file' = [harvest |-> Len(harvests), until |-> now + life]
    /\ harvests' = [harvests EXCEPT ![Len(harvests)].until = now + life]
    /\ Given(r, file')
    /\ queue' = Tail(queue)

\* Mutant of HarvestFails: the lock is not released by an exception.
HarvestFailsLocked(r) ==
    /\ callers[r].at = "harvesting"
    /\ harvests' = [harvests EXCEPT ![Len(harvests)].until = 0]
    /\ callers' = [callers EXCEPT ![r].at = "raised"]
    /\ UNCHANGED <<file, queue>>

\* The browser cannot be started, or the page does not come: the exception
\* leaves the lock and reaches the request.
HarvestFails(r) ==
    /\ callers[r].at = "harvesting"
    /\ harvests' = [harvests EXCEPT ![Len(harvests)].until = 0]
    /\ callers' = [callers EXCEPT ![r].at = "raised"]
    /\ queue' = Tail(queue)
    /\ UNCHANGED file

\* A step of the caller r that get_cookies() takes by itself once r is in it.
CookieStep(r) == \/ LookAgain(r)
                 \/ \E life \in Lifetimes : Harvested(r, life)
                 \/ HarvestFails(r)
=============================================================================
