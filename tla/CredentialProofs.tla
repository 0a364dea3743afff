-------------------------- MODULE CredentialProofs --------------------------
(***************************************************************************)
(* The invariants of Credentials, for any number of requests, any length   *)
(* of time and any lifetimes.  The cookie file and the Qwen client share   *)
(* nothing but the clock, so each has an inductive invariant of its own.   *)
(***************************************************************************)
EXTENDS Credentials, SequenceLemmas

-----------------------------------------------------------------------------
(***************************************************************************)
(* The cookie file.  While a browser runs, its harvest is the last one and *)
(* its caller holds the lock; every other harvest is over: its cookies are *)
(* stale, or no longer good than those the file holds.                     *)
(***************************************************************************)
FileTyped ==
    /\ now \in Time
    /\ harvests \in Seq([from : Time, until : Nat])
    /\ file \in [harvest : 0 .. Len(harvests), until : Nat]
    /\ callers \in [Requests -> Caller]

LockHeld ==
    /\ queue \in Seq(Requests) /\ IsInjective(queue)
    /\ \A r \in Requests :
          /\ r \in ToSet(queue) <=> callers[r].at \in {"waiting", "harvesting"}
          /\ callers[r].at = "harvesting" => r = Head(queue)

Harvesting == \E r \in Requests : callers[r].at = "harvesting"

Begun(i) == harvests[i].from <= now
Over(i) ==
    \/ harvests[i].until <= now
    \/ harvests[i].until <= file.until
    \/ i = Len(harvests) /\ Harvesting

HarvestsSound ==
    /\ Harvesting => harvests # <<>>
    /\ \A i \in 1 .. Len(harvests) : Begun(i) /\ Over(i)
    /\ OneHarvestServesAll

FileInv == FileTyped /\ LockHeld /\ HarvestsSound

\* A harvest is a record of two times.
LEMMA HarvestTyped ==
    ASSUME FileTyped, NEW i \in 1 .. Len(harvests)
    PROVE  /\ harvests[i] \in [from : Time, until : Nat]
           /\ harvests[i].from \in Time /\ harvests[i].from \in Nat
           /\ harvests[i].until \in Nat
<1>1. harvests \in Seq([from : Time, until : Nat])
  BY DEF FileTyped
<1>2. harvests[i] \in [from : Time, until : Nat]
  BY <1>1, ElementOfSeq
<1>3. Time \subseteq Nat
  BY MaxNowAssumption DEF Time
<1>4. QED
  BY <1>2, <1>3

\* Who is in the queue finds it not empty.
LEMMA QueueNotEmpty ==
    ASSUME LockHeld, NEW r \in Requests, callers[r].at \in {"waiting", "harvesting"}
    PROVE  queue # <<>>
<1>1. r \in ToSet(queue) /\ queue \in Seq(Requests)
  BY DEF LockHeld
<1>2. QED
  BY <1>1, EmptyQueue

\* The first states: nobody has come, and no browser was ever started.
LEMMA FileInit == now = 0 /\ CookieInit => FileInv
<1> SUFFICES ASSUME now = 0, CookieInit
             PROVE  FileInv
  OBVIOUS
<1>1. FileTyped
  <2>1. harvests = <<>> /\ Len(harvests) = 0
    BY DEF CookieInit
  <2>2. harvests \in Seq([from : Time, until : Nat])
    BY <2>1
  <2>3. file \in [harvest : 0 .. Len(harvests), until : Nat]
    BY <2>1 DEF CookieInit, Absent
  <2>4. callers \in [Requests -> Caller]
    BY DEF CookieInit, Away, Caller
  <2>5. QED
    BY <2>2, <2>3, <2>4, MaxNowAssumption DEF FileTyped, Time
<1>2. LockHeld
  <2>1. ToSet(<<>>) = {} /\ IsInjective(<<>>) /\ <<>> \in Seq(Requests)
    BY DEF ToSet, IsInjective
  <2>2. queue = <<>> /\ \A r \in Requests : callers[r].at = "idle"
    BY DEF CookieInit, Away
  <2>3. QED
    BY <2>1, <2>2 DEF LockHeld
<1>3. HarvestsSound
  <2>1. harvests = <<>> /\ 1 .. Len(harvests) = {}
    BY DEF CookieInit
  <2>2. ~Harvesting
    BY DEF CookieInit, Away, Harvesting
  <2>3. OneHarvestServesAll
    BY <2>1 DEF OneHarvestServesAll
  <2>4. QED
    BY <2>1, <2>2, <2>3 DEF HarvestsSound
<1>4. QED
  BY <1>1, <1>2, <1>3 DEF FileInv

\* A caller that neither waits nor harvests changes places: the lock and
\* the harvests are none of its business.
LEMMA LookKeeps ==
    ASSUME FileInv, NEW r \in Requests, Look(r), UNCHANGED now
    PROVE  FileInv'
<1> USE DEF FileInv
<1>1. callers[r].at = "idle" /\ UNCHANGED <<file, harvests>>
  BY DEF Look
<1>2. CASE Fresh
  <2>1. /\ callers' = [callers EXCEPT ![r] = [at |-> "done", cookie |-> file.harvest]]
        /\ queue' = queue
    BY <1>2 DEF Look, Given
  <2>2. file.harvest \in Nat
    BY DEF FileTyped
  <2>3. callers' \in [Requests -> Caller]
    BY <2>1, <2>2 DEF FileTyped, Caller
  <2>4. \A o \in Requests :
            /\ callers'[o].at \in {"waiting", "harvesting"}
                   <=> callers[o].at \in {"waiting", "harvesting"}
            /\ callers'[o].at = "harvesting" <=> callers[o].at = "harvesting"
    BY <1>1, <2>1 DEF FileTyped
  <2>5. FileTyped'
    BY <1>1, <2>3 DEF FileTyped
  <2>6. LockHeld'
    BY <2>1, <2>4 DEF LockHeld
  <2>7. HarvestsSound'
    BY <1>1, <2>4
       DEF HarvestsSound, Harvesting, Begun, Over, OneHarvestServesAll
  <2>8. QED
    BY <2>5, <2>6, <2>7
<1>3. CASE ~Fresh
  <2>1. /\ callers' = [callers EXCEPT ![r].at = "waiting"]
        /\ queue' = Append(queue, r)
    BY <1>3 DEF Look
  <2>2. callers' \in [Requests -> Caller]
    BY <2>1 DEF FileTyped, Caller
  <2>3. /\ callers'[r].at = "waiting"
        /\ \A o \in Requests \ {r} : callers'[o] = callers[o]
    BY <2>1 DEF FileTyped, Caller
  <2>4. FileTyped'
    BY <1>1, <2>2 DEF FileTyped
  <2>5. LockHeld'
    <3>1. r \notin ToSet(queue) /\ queue \in Seq(Requests) /\ IsInjective(queue)
      BY <1>1 DEF LockHeld
    <3>2. /\ queue' \in Seq(Requests) /\ IsInjective(queue')
          /\ ToSet(queue') = ToSet(queue) \cup {r}
          /\ Head(queue') = IF queue = <<>> THEN r ELSE Head(queue)
      BY <2>1, <3>1, Join
    <3>3. ASSUME NEW o \in Requests
          PROVE  /\ o \in ToSet(queue') <=> callers'[o].at \in {"waiting", "harvesting"}
                 /\ callers'[o].at = "harvesting" => o = Head(queue')
      <4>1. CASE o = r
        BY <2>3, <3>2, <4>1
      <4>2. CASE o # r
        <5>1. /\ o \in ToSet(queue) <=> callers'[o].at \in {"waiting", "harvesting"}
              /\ callers'[o].at = "harvesting" => o = Head(queue) /\ queue # <<>>
          BY <2>3, <4>2, QueueNotEmpty DEF LockHeld
        <5>2. QED
          BY <3>2, <4>2, <5>1
      <4>3. QED
        BY <4>1, <4>2
    <3>4. QED
      BY <3>2, <3>3 DEF LockHeld
  <2>6. HarvestsSound'
    <3>1. Harvesting' <=> Harvesting
      BY <1>1, <2>3 DEF Harvesting
    <3>2. QED
      BY <1>1, <3>1 DEF HarvestsSound, Begun, Over, OneHarvestServesAll
  <2>7. QED
    BY <2>4, <2>5, <2>6
<1>4. QED
  BY <1>2, <1>3
\* What holds as soon as nobody harvests, or about the harvest of the head:
\* the harvests before the last were over when the last began.
LEMMA EarlierAreOver ==
    ASSUME FileInv, NEW i \in 1 .. Len(harvests), i # Len(harvests)
    PROVE  harvests[i].until <= now
<1>1. /\ Len(harvests) \in Nat /\ now \in Nat
      /\ i \in 1 .. Len(harvests) /\ Len(harvests) \in i + 1 .. Len(harvests)
  BY MaxNowAssumption DEF FileInv, FileTyped, Time
<1>2. harvests[i].until <= harvests[Len(harvests)].from
  BY <1>1 DEF FileInv, HarvestsSound, OneHarvestServesAll
<1>3. harvests[Len(harvests)].from <= now
  BY <1>1 DEF FileInv, HarvestsSound, Begun
<1>5. /\ harvests[i].until \in Nat
      /\ harvests[Len(harvests)].from \in Nat
  BY <1>1, HarvestTyped DEF FileInv
<1>6. QED
  BY <1>1, <1>2, <1>3, <1>5

\* The head of the queue finds the file good and leaves with what it holds.
LEMMA LeaveWithFile ==
    ASSUME FileInv, NEW r \in Requests, callers[r].at = "waiting",
           Head(queue) = r, Given(r, file), queue' = Tail(queue),
           UNCHANGED <<now, file, harvests>>
    PROVE  FileInv'
<1> USE DEF FileInv
<1>1. callers' = [callers EXCEPT ![r] = [at |-> "done", cookie |-> file.harvest]]
  BY DEF Given
<1>2. callers' \in [Requests -> Caller]
  <2>1. file.harvest \in Nat
    BY DEF FileTyped
  <2>2. QED
    BY <1>1, <2>1 DEF FileTyped, Caller
<1>3. /\ callers'[r].at = "done"
      /\ \A o \in Requests \ {r} : callers'[o] = callers[o]
  BY <1>1 DEF FileTyped
<1>4. ~Harvesting /\ ~Harvesting'
  <2>1. \A o \in Requests : callers[o].at = "harvesting" => o = r
    BY DEF LockHeld
  <2>2. QED
    BY <1>3, <2>1 DEF Harvesting
<1>5. LockHeld'
  <2>1. queue # <<>> /\ queue \in Seq(Requests) /\ IsInjective(queue)
    BY QueueNotEmpty DEF LockHeld
  <2>2. /\ queue' \in Seq(Requests) /\ IsInjective(queue')
        /\ ToSet(queue') = ToSet(queue) \ {r}
    BY <2>1, Leave
  <2>3. ASSUME NEW o \in Requests
        PROVE  o \in ToSet(queue') <=> callers'[o].at \in {"waiting", "harvesting"}
    BY <1>3, <2>2 DEF LockHeld
  <2>4. QED
    BY <1>4, <2>2, <2>3 DEF LockHeld, Harvesting
<1>6. HarvestsSound'
  BY <1>4 DEF HarvestsSound, Begun, Over, OneHarvestServesAll
<1>7. QED
  BY <1>2, <1>5, <1>6 DEF FileTyped

\* The head of the queue finds the file stale and starts a browser: every
\* harvest before it is over.
LEMMA LaunchKeeps ==
    ASSUME FileInv, NEW r \in Requests, callers[r].at = "waiting",
           Head(queue) = r, ~Fresh, Launch(r), UNCHANGED now
    PROVE  FileInv'
<1> USE DEF FileInv
<1> DEFINE new == [from |-> now, until |-> Pending]
           n == Len(harvests)
<1>1. /\ callers' = [callers EXCEPT ![r].at = "harvesting"]
      /\ harvests' = Append(harvests, new)
      /\ UNCHANGED <<file, queue>>
  BY DEF Launch
<1>2. /\ callers' \in [Requests -> Caller]
      /\ callers'[r].at = "harvesting"
      /\ \A o \in Requests \ {r} : callers'[o] = callers[o]
  BY <1>1 DEF FileTyped, Caller
<1>3. ~Harvesting /\ Harvesting'
  BY <1>2 DEF LockHeld, Harvesting
<1>4. /\ n \in Nat /\ now \in Nat /\ file.until \in Nat
      /\ \A i \in 1 .. n : harvests[i].from \in Nat /\ harvests[i].until \in Nat
  <2>1. n \in Nat /\ now \in Nat /\ file.until \in Nat
    BY MaxNowAssumption DEF FileTyped, Time
  <2>2. QED
    BY <2>1, HarvestTyped
<1>5. /\ harvests' \in Seq([from : Time, until : Nat])
      /\ Len(harvests') = n + 1
      /\ \A i \in 1 .. n : harvests'[i] = harvests[i]
      /\ harvests'[n + 1] = new
  <2>1. new \in [from : Time, until : Nat]
    BY MaxNowAssumption DEF FileTyped, Pending
  <2>2. QED
    BY <1>1, <2>1, AppendProperties DEF FileTyped
<1>6. \A i \in 1 .. n : harvests[i].until <= now
  BY <1>3, <1>4 DEF HarvestsSound, Over, Fresh
<1>7. FileTyped'
  BY <1>1, <1>2, <1>4, <1>5 DEF FileTyped
<1>8. LockHeld'
  BY <1>1, <1>2, <1>3 DEF LockHeld, Harvesting
<1>9. HarvestsSound'
  <2>1. harvests' # <<>>
    BY <1>4, <1>5
  <2>2. ASSUME NEW i \in 1 .. Len(harvests')
        PROVE  Begun(i)' /\ Over(i)'
    <3>1. CASE i = n + 1
      BY <1>3, <1>4, <1>5, <3>1 DEF Begun, Over
    <3>2. CASE i \in 1 .. n
      BY <1>4, <1>5, <1>6, <3>2 DEF HarvestsSound, Begun, Over
    <3>3. QED
      BY <1>4, <1>5, <3>1, <3>2
  <2>3. OneHarvestServesAll'
    <3>1. ASSUME NEW i \in 1 .. n + 1, NEW j \in i + 1 .. n + 1
          PROVE  harvests'[i].until <= harvests'[j].from
      <4>1. i \in 1 .. n /\ harvests'[i] = harvests[i]
        BY <1>4, <1>5
      <4>2. CASE j = n + 1
        BY <1>5, <1>6, <4>1, <4>2
      <4>3. CASE j # n + 1
        <5>1. j \in i + 1 .. n /\ j \in 1 .. n
          BY <1>4, <4>3
        <5>2. QED
          BY <1>5, <4>1, <5>1 DEF HarvestsSound, OneHarvestServesAll
      <4>4. QED
        BY <4>2, <4>3
    <3>2. QED
      BY <1>5, <3>1 DEF OneHarvestServesAll
  <2>4. QED
    BY <2>1, <2>2, <2>3 DEF HarvestsSound
<1>10. QED
  BY <1>7, <1>8, <1>9

\* A browser ends: its harvest is over, at the end the file names or at once,
\* and its caller leaves the lock.
LEMMA HarvestEnds ==
    ASSUME FileInv, NEW r \in Requests, callers[r].at = "harvesting",
           NEW c \in Caller, c.at \notin {"waiting", "harvesting"},
           callers' = [callers EXCEPT ![r] = c],
           NEW end \in Nat, end <= now \/ end <= file'.until,
           harvests' = [harvests EXCEPT ![Len(harvests)].until = end],
           file' \in [harvest : 0 .. Len(harvests), until : Nat],
           queue' = Tail(queue), UNCHANGED now
    PROVE  FileInv'
<1> USE DEF FileInv
<1> DEFINE n == Len(harvests)
<1>1. /\ n \in Nat /\ n >= 1 /\ now \in Nat
      /\ \A i \in 1 .. n : harvests[i] \in [from : Time, until : Nat]
      /\ \A i \in 1 .. n : harvests[i].from \in Nat /\ harvests[i].until \in Nat
  <2>1. harvests # <<>>
    BY DEF HarvestsSound, Harvesting
  <2>2. n \in Nat /\ n >= 1 /\ now \in Nat
    BY <2>1, MaxNowAssumption DEF FileTyped, Time
  <2>3. QED
    BY <2>2, HarvestTyped
<1>2. /\ harvests' \in Seq([from : Time, until : Nat]) /\ Len(harvests') = n
      /\ \A i \in 1 .. n : harvests'[i].from = harvests[i].from
      /\ \A i \in 1 .. n : i # n => harvests'[i] = harvests[i]
      /\ harvests'[n].until = end
  <2>1. harvests \in Seq([from : Time, until : Nat]) /\ n \in 1 .. n
    BY <1>1 DEF FileTyped
  <2>2. [harvests[n] EXCEPT !.until = end] \in [from : Time, until : Nat]
    BY <1>1, <2>1
  <2>3. harvests' = [harvests EXCEPT ![n] = [harvests[n] EXCEPT !.until = end]]
    OBVIOUS
  <2>4. QED
    BY <1>1, <2>1, <2>2, <2>3, ExceptSeq
<1>3. /\ callers' \in [Requests -> Caller] /\ callers'[r] = c
      /\ \A o \in Requests \ {r} : callers'[o] = callers[o]
  BY DEF FileTyped
<1>4. Head(queue) = r /\ ~Harvesting'
  <2>1. Head(queue) = r
    BY DEF LockHeld
  <2>2. \A o \in Requests : callers[o].at = "harvesting" => o = r
    BY <2>1 DEF LockHeld
  <2>3. QED
    BY <1>3, <2>1, <2>2 DEF Harvesting
<1>5. FileTyped'
  BY <1>2, <1>3 DEF FileTyped
<1>6. LockHeld'
  <2>1. queue # <<>> /\ queue \in Seq(Requests) /\ IsInjective(queue)
    BY QueueNotEmpty DEF LockHeld
  <2>2. /\ queue' \in Seq(Requests) /\ IsInjective(queue')
        /\ ToSet(queue') = ToSet(queue) \ {r}
    BY <1>4, <2>1, Leave
  <2>3. ASSUME NEW o \in Requests
        PROVE  o \in ToSet(queue') <=> callers'[o].at \in {"waiting", "harvesting"}
    BY <1>3, <2>2 DEF LockHeld
  <2>4. QED
    BY <1>4, <2>2, <2>3 DEF LockHeld, Harvesting
<1>7. HarvestsSound'
  <2>1. ASSUME NEW i \in 1 .. n
        PROVE  Begun(i)' /\ Over(i)'
    <3>1. harvests'[i].from <= now
      BY <1>2 DEF HarvestsSound, Begun
    <3>2. CASE i = n
      BY <1>2, <3>1, <3>2 DEF Begun, Over
    <3>3. CASE i # n
      <4>1. harvests[i].until <= now
        BY <3>3, EarlierAreOver
      <4>2. QED
        BY <1>2, <3>1, <3>3, <4>1 DEF Begun, Over
    <3>4. QED
      BY <3>2, <3>3
  <2>2. OneHarvestServesAll'
    <3>1. ASSUME NEW i \in 1 .. n, NEW j \in i + 1 .. n
          PROVE  harvests'[i].until <= harvests'[j].from
      <4>1. i # n /\ j \in 1 .. n
        BY <1>1
      <4>2. QED
        BY <1>2, <4>1 DEF HarvestsSound, OneHarvestServesAll
    <3>2. QED
      BY <1>2, <3>1 DEF OneHarvestServesAll
  <2>3. QED
    BY <1>2, <1>4, <2>1, <2>2 DEF HarvestsSound
<1>8. QED
  BY <1>5, <1>6, <1>7

\* Whatever a caller does in get_cookies() keeps the invariant.
LEMMA CookieStepKeeps ==
    ASSUME FileInv, NEW r \in Requests, CookieStep(r), UNCHANGED now
    PROVE  FileInv'
<1>1. CASE LookAgain(r)
  <2>1. callers[r].at = "waiting" /\ Head(queue) = r
    BY <1>1 DEF LookAgain
  <2>2. CASE Fresh
    BY <1>1, <2>1, <2>2, LeaveWithFile DEF LookAgain
  <2>3. CASE ~Fresh
    BY <1>1, <2>1, <2>3, LaunchKeeps DEF LookAgain
  <2>4. QED
    BY <2>2, <2>3
<1>2. ASSUME NEW life \in Lifetimes, Harvested(r, life)
      PROVE  FileInv'
  <2>1. /\ Len(harvests) \in Nat /\ now + life \in Nat
        /\ callers \in [Requests -> Caller]
    BY LifetimesAssumption, MaxNowAssumption DEF FileInv, FileTyped, Time
  <2>2. /\ callers[r].at = "harvesting"
        /\ file' = [harvest |-> Len(harvests), until |-> now + life]
        /\ harvests' = [harvests EXCEPT ![Len(harvests)].until = now + life]
        /\ callers' = [callers EXCEPT ![r] = [at |-> "done", cookie |-> Len(harvests)]]
        /\ queue' = Tail(queue)
    BY <1>2 DEF Harvested, Given
  <2>3. /\ [at |-> "done", cookie |-> Len(harvests)] \in Caller
        /\ [at |-> "done", cookie |-> Len(harvests)].at \notin {"waiting", "harvesting"}
    BY <2>1 DEF Caller
  <2>4. file' \in [harvest : 0 .. Len(harvests), until : Nat] /\ now + life <= file'.until
    BY <2>1, <2>2
  <2>5. QED
    BY <2>1, <2>2, <2>3, <2>4, HarvestEnds
<1>3. CASE HarvestFails(r)
  <2>1. /\ callers \in [Requests -> Caller] /\ now \in Nat
        /\ file \in [harvest : 0 .. Len(harvests), until : Nat]
    BY MaxNowAssumption DEF FileInv, FileTyped, Time
  <2>2. /\ callers[r].at = "harvesting"
        /\ harvests' = [harvests EXCEPT ![Len(harvests)].until = 0]
        /\ callers' = [callers EXCEPT ![r] = [callers[r] EXCEPT !.at = "raised"]]
        /\ queue' = Tail(queue) /\ file' = file
    BY <1>3 DEF HarvestFails
  <2>3. /\ [callers[r] EXCEPT !.at = "raised"] \in Caller
        /\ [callers[r] EXCEPT !.at = "raised"].at \notin {"waiting", "harvesting"}
    BY <2>1 DEF Caller
  <2>4. 0 \in Nat /\ 0 <= now
    BY <2>1
  <2>5. file' \in [harvest : 0 .. Len(harvests), until : Nat]
    BY <2>1, <2>2
  <2>6. QED
    BY <2>2, <2>3, <2>4, <2>5, HarvestEnds
<1>4. QED
  BY <1>1, <1>2, <1>3 DEF CookieStep

\* Time only makes cookies stale.
LEMMA TickKeepsFile ==
    ASSUME FileInv, Tick, UNCHANGED cookieVars
    PROVE  FileInv'
<1> USE DEF FileInv
<1>1. /\ UNCHANGED <<file, queue, callers, harvests>>
      /\ now' = now + 1 /\ now < MaxNow
  BY DEF cookieVars, Tick
<1>2. now \in Nat /\ now' \in Time /\ now <= now'
  BY <1>1, MaxNowAssumption DEF FileTyped, Time
<1>3. FileTyped'
  BY <1>1, <1>2 DEF FileTyped
<1>4. LockHeld'
  BY <1>1 DEF LockHeld
<1>5. HarvestsSound'
  <2>1. ASSUME NEW i \in 1 .. Len(harvests)
        PROVE  Begun(i)' /\ Over(i)'
    <3>1. harvests[i].from \in Nat /\ harvests[i].until \in Nat
      BY HarvestTyped
    <3>2. Begun(i) /\ Over(i)
      BY DEF HarvestsSound
    <3>3. Begun(i)'
      BY <1>1, <1>2, <3>1, <3>2 DEF Begun
    <3>4. Over(i)'
      <4>1. Harvesting' <=> Harvesting
        BY <1>1 DEF Harvesting
      <4>2. QED
        BY <1>1, <1>2, <3>1, <3>2, <4>1 DEF Over
    <3>5. QED
      BY <3>3, <3>4
  <2>2. QED
    BY <1>1, <2>1 DEF HarvestsSound, Harvesting, OneHarvestServesAll
<1>6. QED
  BY <1>3, <1>4, <1>5

-----------------------------------------------------------------------------
(***************************************************************************)
(* The Qwen bundles.  A harvest that runs is known to nobody else: its     *)
(* number is neither in the cache, nor carried by a request, nor burnt.    *)
(***************************************************************************)
Running(a) == a.at \in {"page", "wu.json"}

Bundles(n) == [harvest : 0 .. n, born : Time, jar : BOOLEAN]
Slots(n) ==
    [at : Ended \cup {"idle", "page", "wu.json", "cookies", "post", "opened"},
     goal : {"create", "send", "retry"}, second : BOOLEAN,
     from : Time, harvest : 0 .. n, bundle : Bundles(n), age : Time, mark : 0 .. n]

QwenTyped ==
    /\ now \in Time /\ begun \in Nat
    /\ cache \in Bundles(begun) /\ cacheTime \in Time
    /\ burnt \subseteq 0 .. begun
    /\ asks \in [Requests -> Slots(begun)]

CacheSound ==
    cache # NoBundle => /\ cache.harvest >= 1 /\ cache.harvest \notin burnt
                        /\ cacheTime <= cache.born /\ cache.born <= now

Young(a) == a.bundle # NoBundle => a.age < TTL

SlotSound(a) ==
    /\ Young(a)
    /\ Running(a) => a.harvest >= 1 /\ a.harvest \notin burnt /\ a.from <= now
    /\ a.goal = "retry" =>
          /\ a.at \in {"page", "wu.json", "post"}
          /\ Running(a) => a.harvest > a.mark
          /\ a.at = "post" => a.bundle.harvest > a.mark

Unseen(h, b) == b.harvest # h

Apart ==
    \A r \in Requests : Running(asks[r]) =>
        /\ Unseen(asks[r].harvest, cache)
        /\ \A o \in Requests :
              /\ Unseen(asks[r].harvest, asks[o].bundle)
              /\ o # r /\ Running(asks[o]) => asks[o].harvest # asks[r].harvest

QwenInv ==
    QwenTyped /\ CacheSound /\ (\A r \in Requests : SlotSound(asks[r])) /\ Apart

\* What has the number of a harvest keeps its type when another one begins.
LEMMA TypesGrow ==
    ASSUME NEW m \in Nat, NEW n \in Nat, m <= n
    PROVE  Bundles(m) \subseteq Bundles(n) /\ Slots(m) \subseteq Slots(n)
<1>1. 0 .. m \subseteq 0 .. n
  OBVIOUS
<1>2. Bundles(m) \subseteq Bundles(n)
  BY <1>1 DEF Bundles
<1>3. Slots(m) \subseteq Slots(n)
  BY <1>1, <1>2 DEF Slots
<1>4. QED
  BY <1>2, <1>3

\* Having no bundle, and being outside, are of the types.
LEMMA Blank ==
    ASSUME NEW n \in Nat
    PROVE  /\ NoBundle \in Bundles(n) /\ Outside \in Slots(n)
           /\ \A how \in Ended : End(how) \in Slots(n)
           /\ 0 \in Time /\ Time \subseteq Nat
<1>1. 0 \in Time /\ Time \subseteq Nat
  BY MaxNowAssumption DEF Time
<1>2. NoBundle \in Bundles(n)
  BY <1>1 DEF NoBundle, Bundles
<1>3. Outside \in Slots(n)
  BY <1>1, <1>2 DEF Outside, Slots
<1>4. ASSUME NEW how \in Ended
      PROVE  End(how) \in Slots(n)
  BY <1>3 DEF End, Slots
<1>5. QED
  BY <1>1, <1>2, <1>3, <1>4

\* The first states: nobody has asked.
LEMMA QwenBegins == now = 0 /\ QwenInit => QwenInv
<1> SUFFICES ASSUME now = 0, QwenInit
             PROVE  QwenInv
  OBVIOUS
<1>1. /\ NoBundle \in Bundles(0) /\ Outside \in Slots(0) /\ 0 \in Time
  BY Blank
<1>2. /\ begun = 0 /\ cache = NoBundle /\ cacheTime = 0 /\ burnt = {}
      /\ asks = [r \in Requests |-> Outside]
  BY DEF QwenInit
<1>3. QwenTyped
  BY <1>1, <1>2 DEF QwenTyped
<1>4. \A r \in Requests : SlotSound(asks[r]) /\ ~Running(asks[r])
  BY <1>2 DEF SlotSound, Young, Running, Outside
<1>5. QED
  BY <1>2, <1>3, <1>4 DEF QwenInv, CacheSound, Apart

\* What get_baxia_tokens() supplies a request with: it has ended its harvest,
\* and carries the bundle it was given, none, or the one it had.
LEMMA SuppliedSlot ==
    ASSUME NEW n \in Nat, NEW a \in Slots(n), NEW b \in Bundles(n), now \in Time,
           b.born <= now, b # NoBundle => now - b.born < TTL, Young(a),
           a.goal = "retry" /\ b # NoBundle => b.harvest > a.mark
    PROVE  /\ Supplied(a, b) \in Slots(n)
           /\ ~Running(Supplied(a, b)) /\ SlotSound(Supplied(a, b))
           /\ Supplied(a, b).bundle \in {a.bundle, b, NoBundle}
<1>0. 0 \in 0 .. n
  OBVIOUS
<1>1. now \in Nat /\ b.born \in Nat /\ now - b.born \in Time /\ 0 \in Time /\ MaxNow \in Nat
  BY MaxNowAssumption DEF Bundles, Time
<1>2. ASSUME NEW at \in {"post", "cookies"}
      PROVE  /\ Carries(a, b, at) \in Slots(n)
             /\ Carries(a, b, at).at = at /\ Carries(a, b, at).goal = a.goal
             /\ Carries(a, b, at).bundle = b /\ Carries(a, b, at).age = now - b.born
             /\ Carries(a, b, at).mark = a.mark
  BY <1>0, <1>1, <1>2 DEF Carries, Slots, Bundles
<1>3. CASE a.goal = "retry" /\ b = NoBundle
  <2>1. Supplied(a, b) = End("empty")
    BY <1>3 DEF Supplied, Refreshed
  <2>2. End("empty") \in Slots(n)
    BY Blank DEF Ended
  <2>3. /\ End("empty").at = "empty" /\ End("empty").goal = "create"
        /\ End("empty").bundle = NoBundle
    BY DEF End, Outside
  <2>4. QED
    BY <2>1, <2>2, <2>3 DEF Running, SlotSound, Young
<1>4. CASE a.goal = "retry" /\ b # NoBundle
  <2>1. Supplied(a, b) = Carries(a, b, "post")
    BY <1>4 DEF Supplied, Refreshed
  <2>2. QED
    BY <1>2, <1>4, <2>1 DEF Running, SlotSound, Young
<1>5. CASE a.goal # "retry"
  <2>1. PICK at \in {"post", "cookies"} : Supplied(a, b) = Carries(a, b, at)
    BY <1>5 DEF Supplied
  <2>2. QED
    BY <1>2, <1>5, <2>1 DEF Running, SlotSound, Young
<1>6. QED
  BY <1>3, <1>4, <1>5

\* A request changes its slot and perhaps the cache, and no harvest begins:
\* what it carries then, and what the cache holds, no running harvest brings.
LEMMA SlotMoves ==
    ASSUME QwenInv, NEW r \in Requests, NEW a \in Slots(begun), SlotSound(a),
           asks' = [asks EXCEPT ![r] = a], UNCHANGED <<now, begun, burnt>>,
           cache' \in Bundles(begun), cacheTime' \in Time, CacheSound',
           \A o \in Requests \ {r} : Running(asks[o]) =>
               Unseen(asks[o].harvest, cache') /\ Unseen(asks[o].harvest, a.bundle),
           Running(a) => /\ Running(asks[r]) /\ cache' = cache
                         /\ a.harvest = asks[r].harvest /\ a.bundle = asks[r].bundle
    PROVE  QwenInv'
<1> USE DEF QwenInv
<1>1. /\ asks' \in [Requests -> Slots(begun)] /\ asks'[r] = a
      /\ \A o \in Requests \ {r} : asks'[o] = asks[o]
  BY DEF QwenTyped
<1>2. QwenTyped'
  BY <1>1 DEF QwenTyped
<1>3. ASSUME NEW o \in Requests
      PROVE  SlotSound(asks[o])'
  <2>1. SlotSound(asks'[o])
    BY <1>1
  <2>2. QED
    BY <2>1 DEF SlotSound, Young, Running
<1>4. ASSUME NEW o \in Requests, Running(asks'[o])
      PROVE  /\ Unseen(asks'[o].harvest, cache')
             /\ \A p \in Requests :
                   /\ Unseen(asks'[o].harvest, asks'[p].bundle)
                   /\ p # o /\ Running(asks'[p]) => asks'[p].harvest # asks'[o].harvest
  <2>1. Running(asks[o]) /\ asks'[o].harvest = asks[o].harvest
    BY <1>1, <1>4
  <2>2. Unseen(asks'[o].harvest, cache')
    BY <1>1, <1>4, <2>1 DEF Apart
  <2>3. ASSUME NEW p \in Requests
        PROVE  /\ Unseen(asks'[o].harvest, asks'[p].bundle)
               /\ p # o /\ Running(asks'[p]) => asks'[p].harvest # asks'[o].harvest
    <3>1. Running(asks'[p]) => Running(asks[p]) /\ asks'[p].harvest = asks[p].harvest
      BY <1>1
    <3>2. p # o /\ Running(asks'[p]) => asks'[p].harvest # asks'[o].harvest
      BY <2>1, <3>1 DEF Apart
    <3>3. Unseen(asks'[o].harvest, asks'[p].bundle)
      <4>1. CASE p # r \/ o = r
        BY <1>1, <1>4, <2>1, <4>1 DEF Apart
      <4>2. CASE p = r /\ o # r
        BY <1>1, <2>1, <4>2
      <4>3. QED
        BY <4>1, <4>2
    <3>4. QED
      BY <3>2, <3>3
  <2>4. QED
    BY <2>2, <2>3
<1>5. Apart'
  BY <1>4 DEF Apart, Running, Unseen
<1>6. QED
  BY <1>2, <1>3, <1>5

\* A harvest begins for the request r: nobody has its number yet.  The cache
\* may be dropped, and the bundle the request was punished for is burnt.
LEMMA HarvestBegins ==
    ASSUME QwenInv, NEW r \in Requests, NEW a \in Slots(begun), Young(a),
           asks' = [asks EXCEPT ![r] = [a EXCEPT !.at = "page", !.from = now,
                                                 !.harvest = begun + 1]],
           begun' = begun + 1, now' = now,
           a.bundle \in {asks[r].bundle, NoBundle},
           cache' \in {cache, NoBundle}, cacheTime' \in Time, CacheSound',
           burnt' \in {burnt, burnt \cup {asks[r].bundle.harvest}}
    PROVE  QwenInv'
<1> USE DEF QwenInv
<1> DEFINE h == begun + 1
           c == [a EXCEPT !.at = "page", !.from = now, !.harvest = h]
<1>1. /\ begun \in Nat /\ h \in Nat /\ begun <= h /\ h \notin 0 .. begun /\ h \in 0 .. h
      /\ now \in Nat /\ now \in Time
      /\ Bundles(begun) \subseteq Bundles(h) /\ Slots(begun) \subseteq Slots(h)
  BY TypesGrow, MaxNowAssumption DEF QwenTyped, Time
<1>2. /\ c \in Slots(h) /\ c.at = "page" /\ c.goal = a.goal /\ c.from = now
      /\ c.harvest = h /\ c.bundle = a.bundle /\ c.age = a.age /\ c.mark = a.mark
      /\ a.mark \in 0 .. begun
  BY <1>1 DEF Slots
<1>3. /\ asks' \in [Requests -> Slots(h)] /\ asks'[r] = c
      /\ \A o \in Requests \ {r} : asks'[o] = asks[o]
  BY <1>1, <1>2 DEF QwenTyped
<1>4. \A o \in Requests : asks[o] \in Slots(begun) /\ asks[o].bundle \in Bundles(begun)
  BY DEF QwenTyped, Slots
<1>5. NoBundle \in Bundles(begun)
  BY <1>1, Blank
<1>6. QwenTyped'
  <2>1. cache' \in Bundles(h)
    BY <1>1, <1>5 DEF QwenTyped
  <2>2. burnt' \subseteq 0 .. h
    BY <1>1, <1>4 DEF QwenTyped, Bundles
  <2>3. QED
    BY <1>1, <1>3, <2>1, <2>2 DEF QwenTyped
<1>7. \* The harvests that ran before keep to themselves.
      ASSUME NEW o \in Requests \ {r}, Running(asks[o])
      PROVE  /\ asks'[o] = asks[o] /\ asks[o].harvest \in 0 .. begun
             /\ asks[o].harvest \notin burnt'
             /\ Unseen(asks[o].harvest, cache')
             /\ \A p \in Requests : Unseen(asks[o].harvest, asks'[p].bundle)
  <2>1. asks[o].harvest \in 0 .. begun /\ asks[o].harvest >= 1
    BY <1>4, <1>7 DEF Slots, SlotSound
  <2>2. Unseen(asks[o].harvest, NoBundle)
    BY <2>1 DEF Unseen, NoBundle
  <2>3. asks[o].harvest \notin burnt'
    BY <1>7 DEF SlotSound, Apart, Unseen
  <2>4. Unseen(asks[o].harvest, cache')
    BY <1>7, <2>2 DEF Apart
  <2>5. \A p \in Requests : Unseen(asks[o].harvest, asks'[p].bundle)
    BY <1>2, <1>3, <1>7, <2>2 DEF Apart
  <2>6. QED
    BY <1>3, <2>1, <2>3, <2>4, <2>5
<1>8. \* Nobody knows the new one.
      /\ h \notin burnt' /\ Unseen(h, cache')
      /\ \A p \in Requests : Unseen(h, asks'[p].bundle)
  <2>1. \A b \in Bundles(begun) : Unseen(h, b)
    BY <1>1 DEF Bundles, Unseen
  <2>2. h \notin burnt'
    BY <1>1, <1>4, <2>1 DEF QwenTyped, Unseen
  <2>3. QED
    BY <1>2, <1>3, <1>4, <1>5, <2>1, <2>2 DEF QwenTyped
<1>9. ASSUME NEW o \in Requests
      PROVE  SlotSound(asks[o])'
  <2>1. CASE o = r
    <3>1. Young(c)
      BY <1>2 DEF Young
    <3>2. c.harvest >= 1 /\ c.harvest > c.mark /\ c.from <= now
      BY <1>1, <1>2
    <3>3. QED
      BY <1>2, <1>3, <1>8, <2>1, <3>1, <3>2 DEF SlotSound, Young, Running
  <2>2. CASE o # r
    <3>1. SlotSound(asks[o]) /\ asks'[o] = asks[o]
      BY <1>3, <2>2
    <3>2. Running(asks[o]) => asks[o].harvest \notin burnt'
      BY <1>7, <2>2
    <3>3. QED
      BY <3>1, <3>2 DEF SlotSound, Young, Running
  <2>3. QED
    BY <2>1, <2>2
<1>10. ASSUME NEW o \in Requests, Running(asks'[o])
       PROVE  /\ Unseen(asks'[o].harvest, cache')
              /\ \A p \in Requests :
                    /\ Unseen(asks'[o].harvest, asks'[p].bundle)
                    /\ p # o /\ Running(asks'[p]) => asks'[p].harvest # asks'[o].harvest
  <2>1. CASE o = r
    <3>1. asks'[o].harvest = h
      BY <1>2, <1>3, <2>1
    <3>2. \A p \in Requests : p # o /\ Running(asks'[p]) => asks'[p].harvest \in 0 .. begun
      BY <1>3, <1>7, <2>1
    <3>3. QED
      BY <1>1, <1>8, <3>1, <3>2
  <2>2. CASE o # r
    <3>1. Running(asks[o]) /\ asks'[o] = asks[o] /\ asks[o].harvest \in 0 .. begun
      BY <1>3, <1>7, <1>10, <2>2
    <3>2. ASSUME NEW p \in Requests, p # o, Running(asks'[p])
          PROVE  asks'[p].harvest # asks'[o].harvest
      <4>1. CASE p = r
        <5>1. asks'[p].harvest = h /\ asks'[o].harvest = asks[o].harvest
          BY <1>2, <1>3, <3>1, <4>1
        <5>2. asks[o].harvest # h
          BY <1>1, <3>1
        <5>3. QED
          BY <5>1, <5>2
      <4>2. CASE p # r
        <5>1. asks'[p] = asks[p] /\ Running(asks[p])
          BY <1>3, <3>2, <4>2
        <5>2. asks[p].harvest # asks[o].harvest
          BY <3>1, <3>2, <5>1 DEF Apart
        <5>3. QED
          BY <3>1, <5>1, <5>2
      <4>3. QED
        BY <4>1, <4>2
    <3>3. QED
      BY <1>7, <2>2, <3>1, <3>2
  <2>3. QED
    BY <2>1, <2>2
<1>11. Apart'
  BY <1>10 DEF Apart, Running, Unseen
<1>12. QED
  BY <1>6, <1>9, <1>11

\* A request looks the cache up: what it finds is young and nobody harvests it.
LEMMA LookUpKeeps ==
    ASSUME QwenInv, NEW r \in Requests, NEW a \in Slots(begun), Young(a),
           a.goal # "retry", a.bundle \in {asks[r].bundle, NoBundle},
           LookUp(r, a, Cached), UNCHANGED <<now, cache, cacheTime, burnt>>
    PROVE  QwenInv'
<1> USE DEF QwenInv
<1>1. CacheSound'
  BY DEF CacheSound
<1>2. CASE Cached
  <2> DEFINE s == Supplied(a, cache)
  <2>1. asks' = [asks EXCEPT ![r] = s] /\ begun' = begun
    BY <1>2 DEF LookUp
  <2>2. /\ begun \in Nat /\ now \in Time /\ now \in Nat /\ cacheTime \in Nat
        /\ cache \in Bundles(begun) /\ cache.born \in Nat /\ TTL \in Nat
    BY MaxNowAssumption, TTLAssumption DEF QwenTyped, Bundles, Time
  <2>3. cache # NoBundle /\ cache.born <= now /\ now - cache.born < TTL
    BY <1>2, <2>2 DEF Cached, CacheSound
  <2>4. /\ s \in Slots(begun) /\ ~Running(s) /\ SlotSound(s)
        /\ s.bundle \in {a.bundle, cache, NoBundle}
    BY <2>2, <2>3, SuppliedSlot
  <2>5. ASSUME NEW o \in Requests \ {r}, Running(asks[o])
        PROVE  Unseen(asks[o].harvest, cache) /\ Unseen(asks[o].harvest, s.bundle)
    <3>1. Unseen(asks[o].harvest, NoBundle)
      BY <2>5 DEF SlotSound, Unseen, NoBundle
    <3>2. Unseen(asks[o].harvest, cache) /\ Unseen(asks[o].harvest, asks[r].bundle)
      BY <2>5 DEF Apart
    <3>3. QED
      BY <2>4, <3>1, <3>2
  <2>6. cache' \in Bundles(begun) /\ cacheTime' \in Time
    BY DEF QwenTyped
  <2>7. QED
    BY <1>1, <2>1, <2>4, <2>5, <2>6, SlotMoves
<1>3. CASE ~Cached
  <2>1. /\ asks' = [asks EXCEPT ![r] = [a EXCEPT !.at = "page", !.from = now,
                                                 !.harvest = begun + 1]]
        /\ begun' = begun + 1
    BY <1>3 DEF LookUp
  <2>2. cacheTime' \in Time
    BY DEF QwenTyped
  <2>3. QED
    BY <1>1, <2>1, <2>2, HarvestBegins
<1>4. QED
  BY <1>2, <1>3

\* A harvest brings a bundle, which goes into the cache and to the request.
LEMMA KeepKeeps ==
    ASSUME QwenInv, NEW r \in Requests, Running(asks[r]), NEW jar \in BOOLEAN,
           Keep(r, jar), asks' = [asks EXCEPT ![r] = Supplied(asks[r], cache')],
           UNCHANGED <<now, begun, burnt>>
    PROVE  QwenInv'
<1> USE DEF QwenInv
<1> DEFINE h == asks[r].harvest
           b == [harvest |-> h, born |-> now, jar |-> jar]
           s == Supplied(asks[r], b)
<1>1. cache' = b /\ cacheTime' = asks[r].from /\ asks' = [asks EXCEPT ![r] = s]
  BY DEF Keep
<1>2. /\ begun \in Nat /\ now \in Time /\ now \in Nat /\ asks[r] \in Slots(begun)
      /\ h \in 0 .. begun /\ asks[r].from \in Time /\ TTL \in Nat /\ TTL > 0
  BY MaxNowAssumption, TTLAssumption DEF QwenTyped, Slots, Time
<1>3. /\ h >= 1 /\ h \notin burnt /\ asks[r].from <= now /\ Young(asks[r])
      /\ asks[r].goal = "retry" => h > asks[r].mark
  BY DEF SlotSound
<1>4. b \in Bundles(begun) /\ b.born <= now /\ now - b.born < TTL
  BY <1>2 DEF Bundles
<1>5. /\ s \in Slots(begun) /\ ~Running(s) /\ SlotSound(s)
      /\ s.bundle \in {asks[r].bundle, b, NoBundle}
  BY <1>2, <1>3, <1>4, SuppliedSlot
<1>6. CacheSound'
  BY <1>1, <1>2, <1>3 DEF CacheSound
<1>7. ASSUME NEW o \in Requests \ {r}, Running(asks[o])
      PROVE  Unseen(asks[o].harvest, b) /\ Unseen(asks[o].harvest, s.bundle)
  <2>1. Unseen(asks[o].harvest, NoBundle)
    BY <1>7 DEF SlotSound, Unseen, NoBundle
  <2>2. Unseen(asks[o].harvest, b) /\ Unseen(asks[o].harvest, asks[r].bundle)
    BY <1>7 DEF Apart, Unseen
  <2>3. QED
    BY <1>5, <2>1, <2>2
<1>8. QED
  BY <1>1, <1>2, <1>4, <1>5, <1>6, <1>7, SlotMoves

\* A request ends, or goes on to its message, with no bundle.
LEMMA LetsGo ==
    ASSUME QwenInv, NEW r \in Requests, NEW a \in Slots(begun),
           ~Running(a), a.bundle = NoBundle, a.goal # "retry",
           asks' = [asks EXCEPT ![r] = a],
           UNCHANGED <<now, cache, cacheTime, begun, burnt>>
    PROVE  QwenInv'
<1> USE DEF QwenInv
<1>1. SlotSound(a)
  BY DEF SlotSound, Young
<1>2. CacheSound' /\ cache' \in Bundles(begun) /\ cacheTime' \in Time
  BY DEF CacheSound, QwenTyped
<1>3. ASSUME NEW o \in Requests \ {r}, Running(asks[o])
      PROVE  Unseen(asks[o].harvest, cache') /\ Unseen(asks[o].harvest, a.bundle)
  BY <1>3 DEF SlotSound, Apart, Unseen, NoBundle
<1>4. QED
  BY <1>1, <1>2, <1>3, SlotMoves

\* Whatever a request does in the Qwen client keeps the invariant.
LEMMA QwenStepKeeps ==
    ASSUME QwenInv, NEW r \in Requests, UNCHANGED now,
           QwenStep(r) \/ \E goal \in {"create", "send"} : Ask(r, goal)
    PROVE  QwenInv'
<1> USE DEF QwenInv
<1>0. /\ asks[r] \in Slots(begun) /\ SlotSound(asks[r]) /\ begun \in Nat
      /\ now \in Time /\ now \in Nat /\ TTL \in Nat
      /\ Outside \in Slots(begun) /\ NoBundle \in Bundles(begun) /\ 0 \in Time
      /\ \A how \in Ended : End(how) \in Slots(begun)
  BY MaxNowAssumption, TTLAssumption, Blank DEF QwenTyped, Time
<1>1. ASSUME NEW goal \in {"create", "send"}, Ask(r, goal)
      PROVE  QwenInv'
  <2> DEFINE a == [Outside EXCEPT !.goal = goal]
  <2>1. /\ a \in Slots(begun) /\ a.goal # "retry" /\ a.bundle = NoBundle /\ Young(a)
    BY <1>0 DEF Outside, Slots, Young
  <2>2. LookUp(r, a, Cached) /\ UNCHANGED <<cache, cacheTime, burnt>>
    BY <1>1 DEF Ask
  <2>3. QED
    BY <2>1, <2>2, LookUpKeeps
<1>2. CASE AskAgain(r)
  <2> DEFINE a == [asks[r] EXCEPT !.second = TRUE]
  <2>1. /\ a \in Slots(begun) /\ a.goal # "retry" /\ a.bundle = asks[r].bundle /\ Young(a)
    BY <1>0, <1>2 DEF AskAgain, SlotSound, Slots, Young
  <2>2. LookUp(r, a, Cached) /\ UNCHANGED <<cache, cacheTime, burnt>>
    BY <1>2 DEF AskAgain
  <2>3. QED
    BY <2>1, <2>2, LookUpKeeps
<1>3. CASE Opened(r)
  <2>1. asks[r].goal # "retry" /\ Young(asks[r])
    BY <1>0, <1>3 DEF Opened, SlotSound
  <2>2. LookUp(r, asks[r], Cached) /\ UNCHANGED <<cache, cacheTime, burnt>>
    BY <1>3 DEF Opened
  <2>3. QED
    BY <1>0, <2>1, <2>2, LookUpKeeps
<1>4. CASE FallbackGives(r) \/ \E jar \in BOOLEAN : PageLoads(r, jar)
  BY <1>4, KeepKeeps DEF FallbackGives, PageLoads, Running
<1>5. CASE PageFails(r)
  <2> DEFINE a == [asks[r] EXCEPT !.at = "wu.json"]
  <2>1. /\ asks[r].at = "page" /\ asks' = [asks EXCEPT ![r] = a]
        /\ UNCHANGED <<cache, cacheTime, begun, burnt>>
    BY <1>5 DEF PageFails
  <2>2. /\ a \in Slots(begun) /\ a.at = "wu.json" /\ a.goal = asks[r].goal
        /\ a.harvest = asks[r].harvest /\ a.bundle = asks[r].bundle /\ a.age = asks[r].age
        /\ a.mark = asks[r].mark /\ a.from = asks[r].from
    BY <1>0 DEF Slots
  <2>3. SlotSound(a) /\ Running(a) /\ Running(asks[r])
    BY <1>0, <2>1, <2>2 DEF SlotSound, Young, Running
  <2>4. CacheSound' /\ cache' \in Bundles(begun) /\ cacheTime' \in Time
    BY <2>1 DEF CacheSound, QwenTyped
  <2>5. \A o \in Requests \ {r} : Running(asks[o]) =>
            Unseen(asks[o].harvest, cache') /\ Unseen(asks[o].harvest, a.bundle)
    BY <2>1, <2>2 DEF Apart
  <2>6. QED
    BY <2>1, <2>2, <2>3, <2>4, <2>5, SlotMoves
<1>6. CASE FallbackFails(r)
  <2> DEFINE a == Supplied(asks[r], NoBundle)
  <2>1. /\ asks' = [asks EXCEPT ![r] = a] /\ UNCHANGED <<cache, cacheTime, begun, burnt>>
    BY <1>6 DEF FallbackFails
  <2>2. NoBundle.born <= now
    BY <1>0 DEF NoBundle
  <2>3. /\ a \in Slots(begun) /\ ~Running(a) /\ SlotSound(a)
        /\ a.bundle \in {asks[r].bundle, NoBundle}
    BY <1>0, <2>2, SuppliedSlot DEF SlotSound
  <2>4. CacheSound' /\ cache' \in Bundles(begun) /\ cacheTime' \in Time
    BY <2>1 DEF CacheSound, QwenTyped
  <2>5. ASSUME NEW o \in Requests \ {r}, Running(asks[o])
        PROVE  Unseen(asks[o].harvest, cache') /\ Unseen(asks[o].harvest, a.bundle)
    <3>1. Unseen(asks[o].harvest, NoBundle)
      BY <2>5 DEF SlotSound, Unseen, NoBundle
    <3>2. QED
      BY <2>1, <2>3, <2>5, <3>1 DEF Apart
  <2>6. QED
    BY <2>1, <2>3, <2>4, <2>5, SlotMoves
<1>7. CASE GetCookies(r)
  <2> DEFINE a == [asks[r] EXCEPT !.at = "post"]
  <2>1. /\ asks[r].at = "cookies" /\ asks' = [asks EXCEPT ![r] = a]
        /\ UNCHANGED <<cache, cacheTime, begun, burnt>>
    BY <1>7 DEF GetCookies
  <2>2. /\ a \in Slots(begun) /\ a.at = "post" /\ a.goal = asks[r].goal
        /\ a.bundle = asks[r].bundle /\ a.age = asks[r].age
    BY <1>0 DEF Slots
  <2>3. SlotSound(a) /\ ~Running(a)
    BY <1>0, <2>1, <2>2 DEF SlotSound, Young, Running
  <2>4. CacheSound' /\ cache' \in Bundles(begun) /\ cacheTime' \in Time
    BY <2>1 DEF CacheSound, QwenTyped
  <2>5. \A o \in Requests \ {r} : Running(asks[o]) =>
            Unseen(asks[o].harvest, cache') /\ Unseen(asks[o].harvest, a.bundle)
    BY <2>1, <2>2 DEF Apart
  <2>6. QED
    BY <2>1, <2>2, <2>3, <2>4, <2>5, SlotMoves
<1>8. CASE Created(r)
  <2> DEFINE a == [Outside EXCEPT !.at = "opened", !.goal = "send"]
  <2>1. a \in Slots(begun) /\ ~Running(a) /\ a.bundle = NoBundle /\ a.goal # "retry"
    BY <1>0 DEF Outside, Slots, Running
  <2>2. QED
    BY <1>8, <2>1, LetsGo DEF Created
<1>9. CASE CreateFails(r) \/ PunishedAgain(r) \/ \E end \in Ended : Collected(r, end)
  <2>1. PICK how \in Ended :
            /\ asks' = [asks EXCEPT ![r] = End(how)]
            /\ UNCHANGED <<cache, cacheTime, begun, burnt>>
    BY <1>9 DEF CreateFails, PunishedAgain, Collected, Ended
  <2>2. /\ End(how) \in Slots(begun) /\ ~Running(End(how))
        /\ End(how).bundle = NoBundle /\ End(how).goal # "retry"
    BY <1>0 DEF End, Outside, Running, Ended
  <2>3. QED
    BY <2>1, <2>2, LetsGo
<1>10. CASE Punished(r)
  <2> DEFINE a == [asks[r] EXCEPT !.goal = "retry", !.mark = begun]
  <2>1. /\ burnt' = burnt \cup {asks[r].bundle.harvest}
        /\ cache' = NoBundle /\ cacheTime' = 0
        /\ asks' = [asks EXCEPT ![r] = [a EXCEPT !.at = "page", !.from = now,
                                                 !.harvest = begun + 1]]
        /\ begun' = begun + 1
    BY <1>10 DEF Punished, LookUp
  <2>2. /\ a \in Slots(begun) /\ Young(a) /\ a.bundle = asks[r].bundle
    <3>1. begun \in 0 .. begun
      BY <1>0
    <3>2. a \in Slots(begun) /\ a.bundle = asks[r].bundle /\ a.age = asks[r].age
      BY <1>0, <3>1 DEF Slots
    <3>3. QED
      BY <1>0, <3>2 DEF SlotSound, Young
  <2>3. CacheSound'
    BY <2>1 DEF CacheSound
  <2>4. QED
    BY <1>0, <2>1, <2>2, <2>3, HarvestBegins
<1>11. QED
  BY <1>1, <1>2, <1>3, <1>4, <1>5, <1>6, <1>7, <1>8, <1>9, <1>10 DEF QwenStep

\* Time makes bundles older, and no bundle that was given out is looked at again.
LEMMA TickKeepsQwen ==
    ASSUME QwenInv, Tick, UNCHANGED qwenVars
    PROVE  QwenInv'
<1> USE DEF QwenInv
<1>1. /\ UNCHANGED <<cache, cacheTime, begun, burnt, asks>>
      /\ now' = now + 1 /\ now < MaxNow
  BY DEF qwenVars, Tick
<1>2. now \in Nat /\ now' \in Time
  BY <1>1, MaxNowAssumption DEF QwenTyped, Time
<1>3. QwenTyped'
  BY <1>1, <1>2 DEF QwenTyped
<1>4. CacheSound'
  <2>1. cache.born \in Nat
    BY MaxNowAssumption DEF QwenTyped, Bundles, Time
  <2>2. QED
    BY <1>1, <1>2, <2>1 DEF CacheSound
<1>5. ASSUME NEW r \in Requests
      PROVE  SlotSound(asks[r])'
  <2>1. asks[r].from \in Nat
    BY MaxNowAssumption DEF QwenTyped, Slots, Time
  <2>2. SlotSound(asks[r])
    OBVIOUS
  <2>3. QED
    BY <1>1, <1>2, <2>1, <2>2 DEF SlotSound, Young, Running
<1>6. Apart'
  BY <1>1 DEF Apart, Running, Unseen
<1>7. QED
  BY <1>3, <1>4, <1>5, <1>6

-----------------------------------------------------------------------------
Inv == FileInv /\ QwenInv

\* What the requests are in the middle of changes only by their own steps.
LEMMA Stutters ==
    ASSUME Inv, UNCHANGED vars
    PROVE  Inv'
<1>1. UNCHANGED <<now, file, queue, callers, harvests, cache, cacheTime, begun, burnt, asks>>
  BY DEF vars, cookieVars, qwenVars
<1>2. FileInv'
  BY <1>1 DEF Inv, FileInv, FileTyped, LockHeld, HarvestsSound, Harvesting, Begun, Over,
              OneHarvestServesAll
<1>3. QwenInv'
  BY <1>1 DEF Inv, QwenInv, QwenTyped, CacheSound, SlotSound, Young, Apart, Running, Unseen
<1>4. QED
  BY <1>2, <1>3 DEF Inv

\* A step of one client leaves the other one's invariant alone.
LEMMA Elsewhere ==
    ASSUME Inv, UNCHANGED now
    PROVE  /\ UNCHANGED cookieVars => FileInv'
           /\ UNCHANGED qwenVars => QwenInv'
<1>1. ASSUME UNCHANGED cookieVars
      PROVE  FileInv'
  BY <1>1 DEF cookieVars, Inv, FileInv, FileTyped, LockHeld, HarvestsSound, Harvesting,
              Begun, Over, OneHarvestServesAll
<1>2. ASSUME UNCHANGED qwenVars
      PROVE  QwenInv'
  BY <1>2 DEF qwenVars, Inv, QwenInv, QwenTyped, CacheSound, SlotSound, Young, Apart,
              Running, Unseen
<1>3. QED
  BY <1>1, <1>2

\* Inv is inductive.
THEOREM Invariance == Spec => []Inv
<1>1. Init => Inv
  BY FileInit, QwenBegins DEF Init, Inv
<1>2. Inv /\ [Next]_vars => Inv'
  <2> SUFFICES ASSUME Inv, [Next]_vars
               PROVE  Inv'
    OBVIOUS
  <2>1. ASSUME NEW r \in Requests, DeepSeekArrives(r)
        PROVE  Inv'
    BY <2>1, LookKeeps, Elsewhere DEF DeepSeekArrives, Inv
  <2>2. ASSUME NEW r \in Requests, QwenArrives(r)
        PROVE  Inv'
    BY <2>2, QwenStepKeeps, Elsewhere DEF QwenArrives, Inv
  <2>3. ASSUME NEW r \in Requests, Proceed(r)
        PROVE  Inv'
    BY <2>3, CookieStepKeeps, QwenStepKeeps, Elsewhere DEF Proceed, Inv
  <2>4. CASE Passes
    BY <2>4, TickKeepsFile, TickKeepsQwen DEF Passes, Inv
  <2>5. CASE UNCHANGED vars
    BY <2>5, Stutters
  <2>6. QED
    BY <2>1, <2>2, <2>3, <2>4, <2>5 DEF Next
<1>3. QED
  BY <1>1, <1>2, PTL DEF Spec

\* Both clients' state keeps its types, and the cookie lock is held by those
\* that wait for it and by the one whose browser runs (functions.py:240-277).
THEOREM TypeCorrect == Spec => []CredentialsTypeOK
<1>1. Inv => CredentialsTypeOK
  <2> SUFFICES ASSUME Inv
               PROVE  CredentialsTypeOK
    OBVIOUS
  <2>1. Range(queue) = ToSet(queue)
    BY Members DEF Inv, FileInv, LockHeld
  <2>2. QED
    BY <2>1 DEF Inv, FileInv, FileTyped, LockHeld, QwenInv, QwenTyped, Slots, Bundles,
                CredentialsTypeOK
<1>2. QED
  BY <1>1, Invariance, PTL

\* However many requests find the cookie file stale together, no browser is
\* started while another one runs or while the cookies an earlier one brought
\* are good (functions.py:240-251).
THEOREM OneHarvest == Spec => []OneHarvestServesAll
<1>1. Inv => OneHarvestServesAll
  BY DEF Inv, FileInv, HarvestsSound
<1>2. QED
  BY <1>1, Invariance, PTL

\* A bundle is never used at the age of TTL or more, whatever TTL is and however
\* long its harvest took (qwen/cookies.py:54-71).
THEOREM BundlesAreYoung == Spec => []BundleYoungEnough
<1>1. Inv => BundleYoungEnough
  BY DEF Inv, QwenInv, SlotSound, Young, BundleYoungEnough
<1>2. QED
  BY <1>1, Invariance, PTL

\* A bundle for which a completion was challenged never comes out of the cache
\* again: a harvest in flight at that moment brings another one
\* (qwen/wire.py:422-429).
THEOREM PunishedBundlesAreGone == Spec => []PunishedBundleIsGone
<1>1. Inv => PunishedBundleIsGone
  BY DEF Inv, QwenInv, CacheSound, PunishedBundleIsGone
<1>2. QED
  BY <1>1, Invariance, PTL

\* The second attempt goes out with a bundle whose harvest began behind the
\* challenge (qwen/wire.py:423-438).
THEOREM RetriesAreFresh == Spec => []RetryIsFresh
<1>1. Inv => RetryIsFresh
  BY DEF Inv, QwenInv, SlotSound, RetryIsFresh
<1>2. QED
  BY <1>1, Invariance, PTL
=============================================================================
