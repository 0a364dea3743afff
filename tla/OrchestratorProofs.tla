------------------------- MODULE OrchestratorProofs -------------------------
(***************************************************************************)
(* What the v2 orchestrator and its budget promise, for any clients,       *)
(* conversations, secrets, bounds, policies and faults.                    *)
(***************************************************************************)
EXTENDS Orchestrator, SequenceLemmas

-----------------------------------------------------------------------------
(***************************************************************************)
(* What compaction keeps, for every conversation and every policy: the     *)
(* message that the request is about.                                      *)
(***************************************************************************)

\* A conversation's last user message: its position, or 0.
LEMMA FinalUserIs ==
    ASSUME NEW S, NEW msgs \in Seq(S)
    PROVE  /\ FinalUser(msgs) \in 0 .. Len(msgs) /\ Len(msgs) \in Nat
           /\ FinalUser(msgs) # 0 => Role[msgs[FinalUser(msgs)]] = "user"
           /\ \A j \in 1 .. Len(msgs) : Role[msgs[j]] = "user" => j <= FinalUser(msgs)
<1> DEFINE T == Of("user", msgs) \cup {0}
<1>1. Len(msgs) \in Nat /\ DOMAIN msgs = 1 .. Len(msgs)
  OBVIOUS
<1>2. T \in SUBSET (0 .. Len(msgs)) /\ T # {}
  BY <1>1 DEF Of
<1>3. Max(T) \in T /\ \A y \in T : y <= Max(T)
  BY <1>1, <1>2, GreatestMember
<1>4. FinalUser(msgs) = Max(T)
  BY DEF FinalUser, LastOf
<1>5. \A j \in 1 .. Len(msgs) : Role[msgs[j]] = "user" => j \in T
  BY <1>1 DEF Of
<1>6. FinalUser(msgs) # 0 => FinalUser(msgs) \in Of("user", msgs)
  BY <1>3, <1>4
<1> HIDE DEF T
<1>7. QED
  BY <1>1, <1>2, <1>3, <1>4, <1>5, <1>6 DEF Of

\* It is found where no later message is the user's.
LEMMA FinalUserAt ==
    ASSUME NEW S, NEW msgs \in Seq(S), NEW n \in 0 .. Len(msgs),
           n # 0 => Role[msgs[n]] = "user",
           \A j \in 1 .. Len(msgs) : j > n => Role[msgs[j]] # "user"
    PROVE  FinalUser(msgs) = n
<1>1. PICK f : f = FinalUser(msgs)
  OBVIOUS
<1>2. /\ f \in 0 .. Len(msgs) /\ Len(msgs) \in Nat
      /\ f # 0 => Role[msgs[f]] = "user"
      /\ \A j \in 1 .. Len(msgs) : Role[msgs[j]] = "user" => j <= f
  BY <1>1, FinalUserIs
<1>3. f <= n
  BY <1>2
<1>4. n <= f
  BY <1>2
<1>5. QED
  BY <1>1, <1>2, <1>3, <1>4

\* The last messages are all but the first k.
LEMMA LatestDrops ==
    ASSUME NEW S, NEW msgs \in Seq(S), NEW w \in Nat
    PROVE  \E k \in 0 .. Len(msgs) :
              /\ Latest(msgs, w) \in Seq(S) /\ Len(Latest(msgs, w)) = Len(msgs) - k
              /\ \A i \in 1 .. Len(msgs) - k : Latest(msgs, w)[i] = msgs[i + k]
              /\ k = 0 \/ k = Len(msgs) - w
<1>1. Len(msgs) \in Nat
  OBVIOUS
<1>2. CASE w = 0 \/ w >= Len(msgs)
  <2>1. Latest(msgs, w) = msgs
    BY <1>2 DEF Latest
  <2>2. 0 \in 0 .. Len(msgs) /\ Len(msgs) - 0 = Len(msgs)
        /\ \A i \in 1 .. Len(msgs) : msgs[i] = msgs[i + 0]
    BY <1>1
  <2>3. QED
    BY <2>1, <2>2
<1>3. CASE ~(w = 0 \/ w >= Len(msgs))
  <2> DEFINE n == Len(msgs)
             m == n - w + 1
             last == SubSeq(msgs, m, n)
  <2>1. n \in Nat /\ w \in 1 .. n - 1 /\ m \in Int /\ m <= n /\ \A i \in m .. n : msgs[i] \in S
    BY <1>1, <1>3
  <2> HIDE DEF n
  <2>2. /\ last \in Seq(S)
        /\ Len(last) = IF m <= n THEN n - m + 1 ELSE 0
        /\ \A i \in 1 .. n - m + 1 : last[i] = msgs[m + i - 1]
    BY <2>1, SubSeqProperties
  <2>3. Latest(msgs, w) = last
    BY <1>3 DEF Latest, n
  <2> HIDE DEF last
  <2>4. n - w \in 0 .. n /\ n - m + 1 = n - (n - w)
    BY <2>1
  <2>5. Len(last) = n - (n - w)
    BY <2>1, <2>2, <2>4
  <2>6. \A i \in 1 .. n - (n - w) : last[i] = msgs[i + (n - w)]
    <3>1. ASSUME NEW i \in 1 .. n - (n - w)
          PROVE  last[i] = msgs[i + (n - w)]
      <4>1. i \in 1 .. n - m + 1 /\ m + i - 1 = i + (n - w)
        BY <2>1, <2>4
      <4>2. QED
        BY <2>2, <4>1
    <3>2. QED
      BY <3>1
  <2>7. QED
    BY <2>2, <2>3, <2>4, <2>5, <2>6 DEF n
<1>4. QED
  BY <1>2, <1>3

-----------------------------------------------------------------------------
(***************************************************************************)
(* Each tier.  An attempt that does not raise keeps the final user         *)
(* message, and the last user message it keeps is that one.                *)
(***************************************************************************)
Answers(attempt, msgs) == ~attempt.raised => Prompt(attempt.messages) = Prompt(msgs)

\* Processing raises, or leaves the messages as they are.
LEMMA ProcessedKeeps ==
    ASSUME NEW msgs, NEW kept, Prompt(kept) = Prompt(msgs)
    PROVE  Answers(Processed(kept), msgs)
BY DEF Answers, Processed, Kept, NameError

\* Tier 1: in the window, or added at its end.
LEMMA VerbatimAnswers ==
    ASSUME NEW S, NEW msgs \in Seq(S), NEW w \in Nat \ {0}
    PROVE  Answers(build_tier(msgs, w), msgs)
<1>1. PICK f : f = FinalUser(msgs)
  OBVIOUS
<1>2. /\ f \in 0 .. Len(msgs) /\ Len(msgs) \in Nat
      /\ f # 0 => Role[msgs[f]] = "user" /\ msgs[f] \in S
      /\ \A j \in 1 .. Len(msgs) : Role[msgs[j]] = "user" => j <= f
  BY <1>1, FinalUserIs
<1>3. CASE f # 0 /\ ~IsRecent(msgs, f, w)
  <2>1. w - 1 \in Nat
    OBVIOUS
  <2>2. PICK late \in Seq(S) : late = Latest(msgs, w - 1)
    BY <2>1, LatestDrops
  <2>3. PICK kept : kept = Append(late, msgs[f])
    OBVIOUS
  <2>4. /\ kept \in Seq(S) /\ Len(kept) = Len(late) + 1 /\ Len(late) \in Nat
        /\ kept[Len(late) + 1] = msgs[f]
    BY <1>2, <1>3, <2>3
  <2>5. FinalUser(kept) = Len(late) + 1
    <3>1. PICK n : n = Len(late) + 1
      OBVIOUS
    <3>2. n \in 0 .. Len(kept) /\ Role[kept[n]] = "user" /\ Len(kept) = n
      BY <1>2, <1>3, <2>4, <3>1
    <3>3. QED
      BY <2>4, <3>1, <3>2, FinalUserAt
  <2>6. Prompt(kept) = Prompt(msgs)
    BY <1>1, <1>3, <2>4, <2>5 DEF Prompt
  <2>7. build_tier(msgs, w) = Processed(kept)
    BY <1>1, <1>3, <2>2, <2>3 DEF build_tier
  <2>8. QED
    BY <2>6, <2>7, ProcessedKeeps
<1>4. CASE ~(f # 0 /\ ~IsRecent(msgs, f, w))
  <2>1. PICK kept : kept = Latest(msgs, w)
    OBVIOUS
  <2>2. PICK k \in 0 .. Len(msgs) :
            /\ kept \in Seq(S) /\ Len(kept) = Len(msgs) - k
            /\ \A i \in 1 .. Len(msgs) - k : kept[i] = msgs[i + k]
            /\ k = 0 \/ k = Len(msgs) - w
    <3>1. w \in Nat
      OBVIOUS
    <3>2. \E k \in 0 .. Len(msgs) :
              /\ Latest(msgs, w) \in Seq(S) /\ Len(Latest(msgs, w)) = Len(msgs) - k
              /\ \A i \in 1 .. Len(msgs) - k : Latest(msgs, w)[i] = msgs[i + k]
              /\ k = 0 \/ k = Len(msgs) - w
      BY <3>1, LatestDrops
    <3>3. QED
      BY <2>1, <3>2
  <2>3. \A i \in 1 .. Len(kept) : i + k \in 1 .. Len(msgs) /\ kept[i] = msgs[i + k]
    BY <1>2, <2>2
  <2>4. CASE f = 0
    <3>1. FinalUser(kept) = 0
      <4>1. 0 \in 0 .. Len(kept)
        BY <2>2
      <4>2. \A j \in 1 .. Len(kept) : Role[kept[j]] # "user"
        <5>1. ASSUME NEW j \in 1 .. Len(kept), Role[kept[j]] = "user"
              PROVE  FALSE
          <6>1. j + k \in 1 .. Len(msgs) /\ Role[msgs[j + k]] = "user"
            BY <2>3, <5>1
          <6>2. QED
            BY <1>2, <2>4, <6>1
        <5>2. QED
          BY <5>1
      <4>3. QED
        BY <2>2, <4>1, <4>2, FinalUserAt
    <3>2. Prompt(kept) = Prompt(msgs)
      BY <1>1, <2>4, <3>1 DEF Prompt
    <3>3. build_tier(msgs, w) = Processed(kept)
      BY <1>1, <2>1, <2>4 DEF build_tier
    <3>4. QED
      BY <3>2, <3>3, ProcessedKeeps
  <2>5. CASE f # 0
    <3>1. f > k
      BY <1>2, <1>4, <2>2, <2>5 DEF IsRecent
    <3>2. PICK n : n = f - k
      OBVIOUS
    <3>3. /\ n \in 1 .. Len(kept) /\ n \in 0 .. Len(kept) /\ n # 0 /\ n + k = f
          /\ kept[n] = msgs[f]
      BY <1>2, <2>2, <2>3, <3>1, <3>2
    <3>4. \A j \in 1 .. Len(kept) : j > n => Role[kept[j]] # "user"
      <4>1. ASSUME NEW j \in 1 .. Len(kept), j > n, Role[kept[j]] = "user"
            PROVE  FALSE
        BY <1>2, <2>2, <2>3, <3>3, <4>1
      <4>2. QED
        BY <4>1
    <3>5. FinalUser(kept) = n
      BY <1>2, <2>2, <2>5, <3>3, <3>4, FinalUserAt
    <3>6. Prompt(kept) = Prompt(msgs)
      BY <1>1, <2>5, <3>3, <3>5 DEF Prompt
    <3>7. build_tier(msgs, w) = Processed(kept)
      BY <1>1, <1>4, <2>1 DEF build_tier
    <3>8. QED
      BY <3>6, <3>7, ProcessedKeeps
  <2>6. QED
    BY <2>4, <2>5
<1>5. QED
  BY <1>3, <1>4

\* Tier 2: stubs stand for tool messages only.
LEMMA StubsAnswer ==
    ASSUME NEW S, NEW msgs \in Seq(S), NEW w
    PROVE  Answers(build_with_stubs(msgs, w), msgs)
<1>1. PICK kept : kept = [i \in DOMAIN msgs |->
                            IF Role[msgs[i]] = "tool" /\ ~IsRecent(msgs, i, w)
                            THEN Stub ELSE msgs[i]]
  OBVIOUS
<1>2. /\ kept \in Seq(S \cup {Stub}) /\ Len(kept) = Len(msgs) /\ Len(msgs) \in Nat
      /\ DOMAIN msgs = 1 .. Len(msgs)
  BY <1>1
<1>3. PICK f : f = FinalUser(msgs)
  OBVIOUS
<1>4. /\ f \in 0 .. Len(msgs)
      /\ f # 0 => Role[msgs[f]] = "user"
      /\ \A j \in 1 .. Len(msgs) : Role[msgs[j]] = "user" => j <= f
  BY <1>3, FinalUserIs
<1>5. \A j \in 1 .. Len(msgs) : Role[kept[j]] = "user" => Role[msgs[j]] = "user"
  BY <1>1, <1>2, PolicyAssumption
<1>6. f # 0 => kept[f] = msgs[f]
  BY <1>1, <1>2, <1>4
<1>7. FinalUser(kept) = f
  <2>1. \A j \in 1 .. Len(kept) : j > f => Role[kept[j]] # "user"
    BY <1>2, <1>4, <1>5
  <2>2. QED
    BY <1>2, <1>4, <1>6, <2>1, FinalUserAt
<1>8. Prompt(kept) = Prompt(msgs)
  BY <1>3, <1>6, <1>7 DEF Prompt
<1>9. build_with_stubs(msgs, w) = Processed(kept)
  BY <1>1 DEF build_with_stubs
<1>10. QED
  BY <1>8, <1>9, ProcessedKeeps

\* Tier 3: every message, as long as none is over a limit.
LEMMA ClippedAnswers ==
    ASSUME NEW msgs, NEW w
    PROVE  Answers(build_with_clipped_text(msgs, w), msgs)
BY DEF Answers, build_with_clipped_text, Kept, NameError

-----------------------------------------------------------------------------
\* The windows that are tried hold at least one message.
LEMMA WindowsAre ==
    /\ DOMAIN Windows = 1 .. RecentTurns - MinRecent + 1
    /\ \A i \in DOMAIN Windows : Windows[i] \in Nat \ {0}
BY PolicyAssumption DEF Windows

\* Compaction never costs the message to be answered: unless plan raises, the
\* last user message it keeps is the conversation's (v2/compaction/budget.py:88-117).
THEOREM PlanAnswers ==
    ASSUME NEW S, NEW msgs \in Seq(S)
    PROVE  Answers(plan(msgs), msgs)
<1> DEFINE n == RecentTurns - MinRecent + 1
           first  == [i \in DOMAIN Windows |-> build_tier(msgs, Windows[i])]
           second == [i \in DOMAIN Windows |-> build_with_stubs(msgs, Windows[i])]
           third  == [i \in DOMAIN Windows |-> build_with_clipped_text(msgs, Windows[i])]
           attempts == first \o second \o third
           decisive == {i \in DOMAIN attempts :
                           attempts[i].raised \/ measure(attempts[i].messages) <= Total}
           Good == {attempt \in UNION {{build_tier(msgs, Windows[i]),
                                        build_with_stubs(msgs, Windows[i]),
                                        build_with_clipped_text(msgs, Windows[i])} :
                                           i \in DOMAIN Windows} : Answers(attempt, msgs)}
<1>1. first \in Seq(Good) /\ second \in Seq(Good) /\ third \in Seq(Good)
  <2>1. ASSUME NEW i \in DOMAIN Windows
        PROVE  /\ Answers(build_tier(msgs, Windows[i]), msgs)
               /\ Answers(build_with_stubs(msgs, Windows[i]), msgs)
               /\ Answers(build_with_clipped_text(msgs, Windows[i]), msgs)
    BY WindowsAre, VerbatimAnswers, StubsAnswer, ClippedAnswers
  <2>2. \A i \in DOMAIN Windows : first[i] \in Good /\ second[i] \in Good /\ third[i] \in Good
    BY <2>1
  <2> HIDE DEF Good
  <2>3. PICK m \in Nat : DOMAIN Windows = 1 .. m
    <3>1. CASE n \in Nat
      BY <3>1, WindowsAre
    <3>2. CASE n \notin Nat
      <4>1. 1 .. n = 1 .. 0
        BY <3>2, PolicyAssumption
      <4>2. QED
        BY <4>1, WindowsAre
    <3>3. QED
      BY <3>1, <3>2
  <2>4. QED
    BY <2>2, <2>3
<1> HIDE DEF first, second, third
<1>2. attempts \in Seq(Good)
  BY <1>1
<1>3. \A a \in Good : Answers(a, msgs)
  OBVIOUS
<1>4. plan(msgs) = IF decisive # {} THEN attempts[Min(decisive)]
                   ELSE build_with_clipped_text(msgs, MinRecent)
  BY DEF plan, first, second, third
<1> HIDE DEF attempts, Good
<1>5. CASE decisive # {}
  <2>1. decisive \in SUBSET Nat
    BY <1>2
  <2>2. Min(decisive) \in decisive
    BY <1>5, <2>1, LeastMember
  <2>3. attempts[Min(decisive)] \in Good
    <3>1. Min(decisive) \in DOMAIN attempts
      BY <2>2
    <3> HIDE DEF decisive
    <3>2. QED
      BY <1>2, <3>1
  <2>4. QED
    BY <1>3, <1>4, <1>5, <2>3
<1>6. CASE decisive = {}
  BY <1>4, <1>6, ClippedAnswers
<1>7. QED
  BY <1>5, <1>6

-----------------------------------------------------------------------------
(***************************************************************************)
(* What a plan costs.                                                      *)
(***************************************************************************)

\* The tokens of a conversation are counted; an attempt that raises has none.
LEMMA Measured ==
    ASSUME NEW S, NEW msgs \in Seq(S), \A m \in S : Size[m] \in Nat
    PROVE  measure(msgs) \in Nat /\ (Len(msgs) = 0 => measure(msgs) = 0)
<1> DEFINE n == Len(msgs)
           step == [i \in 1 .. n |-> [x \in Nat |-> x + Size[msgs[i]]]]
           Sums(f) == f = [i \in 0 .. n |-> IF i = 0 THEN 0 ELSE f[i - 1] + Size[msgs[i]]]
<1>1. n \in Nat /\ \A i \in 1 .. n : Size[msgs[i]] \in Nat
  OBVIOUS
<1>2. /\ step \in [1 .. n -> [Nat -> Nat]]
      /\ \A i \in 1 .. n, x \in Nat : step[i][x] = x + Size[msgs[i]]
  BY <1>1
<1> HIDE DEF step, n
<1>3. PICK f \in [0 .. n -> Nat] : f[0] = 0 /\ \A i \in 1 .. n : f[i] = step[i][f[i - 1]]
  <2>1. RecursionSolved(Nat, n, 0, step)
    BY <1>1, <1>2, RecursionExists
  <2>2. QED
    BY <2>1 DEF RecursionSolved
<1>4. Sums(f)
  <2>1. ASSUME NEW i \in 0 .. n
        PROVE  f[i] = IF i = 0 THEN 0 ELSE f[i - 1] + Size[msgs[i]]
    <3>1. CASE i = 0
      BY <1>3, <3>1
    <3>2. CASE i # 0
      <4>1. i \in 1 .. n /\ i - 1 \in 0 .. n
        BY <1>1, <3>2
      <4>2. f[i - 1] \in Nat
        BY <4>1
      <4>3. QED
        BY <1>2, <1>3, <3>2, <4>1, <4>2
    <3>3. QED
      BY <3>1, <3>2
  <2>2. f = [i \in 0 .. n |-> f[i]]
    OBVIOUS
  <2>3. QED
    BY <2>1, <2>2
<1> DEFINE g == CHOOSE f1 : Sums(f1)
<1>5. Sums(g)
  BY <1>4
<1>6. measure(msgs) = g[n]
  BY DEF measure, n
<1> DEFINE P == {i \in 0 .. n : g[i] \in Nat}
<1> HIDE DEF g
<1>7. 0 \in P /\ g[0] = 0
  BY <1>1, <1>5
<1>8. ASSUME NEW i \in 1 .. n, i - 1 \in P
      PROVE  i \in P
  <2>1. i \in 0 .. n /\ i # 0
    BY <1>1
  <2>2. g[i] = g[i - 1] + Size[msgs[i]]
    BY <1>5, <2>1
  <2>3. QED
    BY <1>1, <1>8, <2>1, <2>2
<1>9. P \in SUBSET (0 .. n)
  OBVIOUS
<1> HIDE DEF P
<1>10. P = 0 .. n
  BY <1>1, <1>7, <1>8, <1>9, UpTo
<1>11. n \in P
  BY <1>1, <1>10
<1>12. QED
  BY <1>6, <1>7, <1>11 DEF P, n

\* A verbatim window is made of messages of the conversation.
LEMMA VerbatimMessages ==
    ASSUME NEW S, NEW msgs \in Seq(S), NEW w \in Nat \ {0}
    PROVE  build_tier(msgs, w).messages \in Seq(S)
<1>1. /\ Latest(msgs, w) \in Seq(S) /\ Latest(msgs, w - 1) \in Seq(S)
      /\ FinalUser(msgs) # 0 => msgs[FinalUser(msgs)] \in S
  <2>1. \A v \in Nat : Latest(msgs, v) \in Seq(S)
    BY LatestDrops
  <2>2. FinalUser(msgs) \in 0 .. Len(msgs) /\ Len(msgs) \in Nat
    BY FinalUserIs
  <2>3. QED
    BY <2>1, <2>2
<1>2. \A m \in Seq(S) : Processed(m).messages \in Seq(S)
  <2>1. \A m : Processed(m) = NameError \/ Processed(m) = Kept(m)
    BY DEF Processed
  <2>2. NameError.messages = <<>> /\ \A m : Kept(m).messages = m
    BY DEF Kept, NameError
  <2>3. <<>> \in Seq(S)
    OBVIOUS
  <2>4. QED
    BY <2>1, <2>2, <2>3
<1>3. PICK kept : kept \in Seq(S) /\ build_tier(msgs, w) = Processed(kept)
  <2>1. CASE FinalUser(msgs) # 0 /\ ~IsRecent(msgs, FinalUser(msgs), w)
    <3>1. Append(Latest(msgs, w - 1), msgs[FinalUser(msgs)]) \in Seq(S)
      BY <1>1, <2>1
    <3>2. QED
      BY <2>1, <3>1 DEF build_tier
  <2>2. CASE ~(FinalUser(msgs) # 0 /\ ~IsRecent(msgs, FinalUser(msgs), w))
    BY <1>1, <2>2 DEF build_tier
  <2>3. QED
    BY <2>1, <2>2
<1>4. QED
  BY <1>2, <1>3

\* What raises keeps nothing.
LEMMA RaisesWithNothing ==
    ASSUME NEW msgs, NEW w
    PROVE  \A attempt \in {build_tier(msgs, w), build_with_stubs(msgs, w),
                           build_with_clipped_text(msgs, w)} :
              attempt.raised => attempt = NameError
<1>1. \A m : ~Kept(m).raised
  BY DEF Kept
<1>2. \A m : Processed(m) = NameError \/ Processed(m) = Kept(m)
  BY DEF Processed
<1>3. /\ \E m : build_tier(msgs, w) = Processed(m)
      /\ \E m : build_with_stubs(msgs, w) = Processed(m)
  BY DEF build_tier, build_with_stubs
<1>4. \/ build_with_clipped_text(msgs, w) = NameError
      \/ build_with_clipped_text(msgs, w) = Kept(msgs)
  BY DEF build_with_clipped_text
<1>5. QED
  BY <1>1, <1>2, <1>3, <1>4

\* A plan that is over budget is made only where not even the smallest verbatim
\* window fits (v2/compaction/budget.py:148-157, 213-226).
THEOREM PlanWithinBudget ==
    ASSUME NEW S, NEW msgs \in Seq(S), \A m \in S : Size[m] \in Nat,
           MinRecent <= RecentTurns
    PROVE  \/ measure(plan(msgs).messages) <= Total
           \/ measure(build_tier(msgs, MinRecent).messages) > Total
<1> DEFINE first  == [i \in DOMAIN Windows |-> build_tier(msgs, Windows[i])]
           second == [i \in DOMAIN Windows |-> build_with_stubs(msgs, Windows[i])]
           third  == [i \in DOMAIN Windows |-> build_with_clipped_text(msgs, Windows[i])]
           attempts == first \o second \o third
           decisive == {i \in DOMAIN attempts :
                           attempts[i].raised \/ measure(attempts[i].messages) <= Total}
           n == RecentTurns - MinRecent + 1
           Attempt == {attempt \in UNION {{build_tier(msgs, Windows[i]),
                                           build_with_stubs(msgs, Windows[i]),
                                           build_with_clipped_text(msgs, Windows[i])} :
                                              i \in DOMAIN Windows} :
                          attempt.raised => attempt = NameError}
<1>1. /\ n \in Nat /\ n >= 1 /\ DOMAIN Windows = 1 .. n /\ n \in DOMAIN Windows
      /\ Windows[n] = MinRecent
  BY PolicyAssumption DEF Windows
<1>2. /\ NameError.raised /\ NameError.messages = <<>>
      /\ measure(<<>>) = 0 /\ Total \in Nat
  <2>1. <<>> \in Seq(S) /\ Len(<<>>) = 0
    OBVIOUS
  <2>2. QED
    BY <2>1, Measured, PolicyAssumption DEF NameError
<1>3. /\ first \in Seq(Attempt) /\ second \in Seq(Attempt) /\ third \in Seq(Attempt)
      /\ Len(first) = n
  <2>1. \A i \in 1 .. n : /\ first[i] \in Attempt /\ second[i] \in Attempt
                          /\ third[i] \in Attempt
    <3>1. ASSUME NEW i \in 1 .. n
          PROVE  /\ first[i] \in Attempt /\ second[i] \in Attempt
                 /\ third[i] \in Attempt
      <4>1. /\ first[i] = build_tier(msgs, Windows[i])
            /\ second[i] = build_with_stubs(msgs, Windows[i])
            /\ third[i] = build_with_clipped_text(msgs, Windows[i])
            /\ i \in DOMAIN Windows
        BY <1>1
      <4> HIDE DEF first, second, third
      <4>2. QED
        BY <4>1, RaisesWithNothing
    <3>2. QED
      BY <3>1
  <2>2. DOMAIN first = 1 .. n /\ DOMAIN second = 1 .. n /\ DOMAIN third = 1 .. n
    BY <1>1
  <2>3. /\ first = [i \in 1 .. n |-> first[i]] /\ second = [i \in 1 .. n |-> second[i]]
        /\ third = [i \in 1 .. n |-> third[i]]
    BY <1>1
  <2> HIDE DEF Attempt, first, second, third, n
  <2>4. first \in [1 .. n -> Attempt] /\ second \in [1 .. n -> Attempt]
        /\ third \in [1 .. n -> Attempt]
    BY <2>1, <2>3
  <2>5. QED
    BY <1>1, <2>4
<1>4. first[n] = build_tier(msgs, MinRecent)
  BY <1>1
<1> HIDE DEF first, second, third, n
<1>5. \A a \in Attempt : a.raised => a = NameError
  OBVIOUS
<1> HIDE DEF Attempt
<1>6. /\ attempts \in Seq(Attempt) /\ attempts[n] = first[n] /\ n \in DOMAIN attempts
  BY <1>1, <1>3
<1>7. plan(msgs) = IF decisive # {} THEN attempts[Min(decisive)]
                   ELSE build_with_clipped_text(msgs, MinRecent)
  BY DEF plan, first, second, third
<1> HIDE DEF attempts
<1>8. CASE decisive # {}
  <2>1. decisive \in SUBSET Nat
    BY <1>6
  <2>2. PICK k \in decisive : plan(msgs) = attempts[k]
    BY <1>7, <1>8, <2>1, LeastMember
  <2>3. k \in DOMAIN attempts /\ attempts[k] \in Attempt
    BY <1>6
  <2>4. attempts[k].raised \/ measure(attempts[k].messages) <= Total
    OBVIOUS
  <2>5. QED
    BY <1>2, <1>5, <2>2, <2>3, <2>4
<1>9. CASE decisive = {}
  <2>1. ~(measure(build_tier(msgs, MinRecent).messages) <= Total)
    BY <1>4, <1>6, <1>9
  <2>2. build_tier(msgs, MinRecent).messages \in Seq(S)
    BY VerbatimMessages, PolicyAssumption
  <2>3. measure(build_tier(msgs, MinRecent).messages) \in Nat
    BY <2>2, Measured
  <2>4. QED
    BY <1>2, <2>1, <2>3
<1>10. QED
  BY <1>8, <1>9

-----------------------------------------------------------------------------
(***************************************************************************)
(* The store.                                                              *)
(***************************************************************************)
OneRowEach(table) ==
    \A i, j \in DOMAIN table : table[i].proj = table[j].proj => i = j

\* save leaves one row under each key: the new one, and those of other keys.
LEMMA SaveRows ==
    ASSUME NEW S, NEW table \in Seq(S), OneRowEach(table), NEW row \in S
    PROVE  /\ save(table, row) \in Seq(S)
           /\ ToSet(save(table, row)) = {o \in ToSet(table) : o.proj # row.proj} \cup {row}
           /\ OneRowEach(save(table, row))
<1> DEFINE old == {i \in DOMAIN table : table[i].proj = row.proj}
<1>1. DOMAIN table = 1 .. Len(table) /\ Len(table) \in Nat
  OBVIOUS
<1>2. PICK kept \in Seq(S) :
          /\ save(table, row) = Append(kept, row)
          /\ ToSet(kept) = {o \in ToSet(table) : o.proj # row.proj}
          /\ OneRowEach(kept)
  <2>1. CASE old = {}
    <3>1. save(table, row) = Append(table, row)
      BY <2>1 DEF save
    <3>2. ToSet(table) = {o \in ToSet(table) : o.proj # row.proj}
      BY <2>1 DEF ToSet
    <3>3. QED
      BY <3>1, <3>2
  <2>2. CASE old # {}
    <3> DEFINE n == Min(old)
               kept == RemoveAt(table, n)
    <3>1. n \in old /\ n \in 1 .. Len(table)
      <4>1. old \in SUBSET Nat
        BY <1>1
      <4>2. QED
        BY <1>1, <2>2, <4>1, LeastMember
    <3>2. save(table, row) = Append(kept, row)
      BY <2>2 DEF save
    <3>3. /\ kept \in Seq(S) /\ Len(kept) = Len(table) - 1
          /\ \A j \in 1 .. Len(table) - 1 :
                kept[j] = IF j < n THEN table[j] ELSE table[j + 1]
      BY <3>1, TakeOut
    <3> HIDE DEF kept
    <3>4. n \in Nat /\ DOMAIN kept = 1 .. Len(table) - 1
      BY <3>1, <3>3
    <3> HIDE DEF n
    <3>5. table[n].proj = row.proj /\ \A i \in 1 .. Len(table) : i # n => table[i].proj # row.proj
      BY <1>1, <3>1 DEF OneRowEach
    <3>6. ASSUME NEW o \in ToSet(kept)
          PROVE  o \in ToSet(table) /\ o.proj # row.proj
      <4>1. PICK j \in 1 .. Len(table) - 1 : o = kept[j]
        BY <3>4 DEF ToSet
      <4>2. PICK i \in 1 .. Len(table) : i # n /\ o = table[i]
        <5>1. j \in 1 .. Len(table) /\ j + 1 \in 1 .. Len(table)
          BY <1>1
        <5>2. QED
          BY <3>3, <3>4, <4>1, <5>1
      <4>3. QED
        BY <1>1, <3>5, <4>2 DEF ToSet
    <3>7. ASSUME NEW o \in ToSet(table), o.proj # row.proj
          PROVE  o \in ToSet(kept)
      <4>1. PICK i \in 1 .. Len(table) : o = table[i]
        BY <1>1 DEF ToSet
      <4>2. i # n
        BY <3>5, <3>7, <4>1
      <4>3. CASE i < n
        <5>1. i \in 1 .. Len(table) - 1 /\ kept[i] = o
          BY <1>1, <3>1, <3>3, <3>4, <4>1, <4>3
        <5>2. QED
          BY <3>4, <5>1 DEF ToSet
      <4>4. CASE i > n
        <5>1. i - 1 \in 1 .. Len(table) - 1 /\ ~(i - 1 < n) /\ (i - 1) + 1 = i
          BY <1>1, <3>1, <3>4, <4>4
        <5>2. kept[i - 1] = o
          BY <3>3, <4>1, <5>1
        <5>3. QED
          BY <3>4, <5>1, <5>2 DEF ToSet
      <4>5. QED
        BY <3>4, <4>2, <4>3, <4>4
    <3>8. OneRowEach(kept)
      <4>1. ASSUME NEW i \in 1 .. Len(table) - 1, NEW j \in 1 .. Len(table) - 1,
                   kept[i].proj = kept[j].proj
            PROVE  i = j
        <5>1. /\ i \in 1 .. Len(table) /\ i + 1 \in 1 .. Len(table)
              /\ j \in 1 .. Len(table) /\ j + 1 \in 1 .. Len(table)
          BY <1>1
        <5>2. QED
          BY <1>1, <3>3, <3>4, <4>1, <5>1 DEF OneRowEach
      <4>2. QED
        BY <3>4, <4>1 DEF OneRowEach
    <3>9. QED
      BY <3>2, <3>3, <3>6, <3>7, <3>8
  <2>3. QED
    BY <2>1, <2>2
<1>3. /\ save(table, row) \in Seq(S)
      /\ ToSet(save(table, row)) = ToSet(kept) \cup {row}
  BY <1>2, Join
<1>4. OneRowEach(save(table, row))
  <2>1. /\ DOMAIN Append(kept, row) = 1 .. Len(kept) + 1 /\ Len(kept) \in Nat
        /\ \A i \in 1 .. Len(kept) : Append(kept, row)[i] = kept[i]
        /\ Append(kept, row)[Len(kept) + 1] = row /\ DOMAIN kept = 1 .. Len(kept)
    BY <1>2
  <2>2. \A i \in 1 .. Len(kept) : kept[i].proj # row.proj
    BY <1>2, <2>1 DEF ToSet
  <2>3. QED
    BY <1>2, <2>1, <2>2 DEF OneRowEach
<1>5. QED
  BY <1>2, <1>3, <1>4

\* Pruning leaves some of the rows.
LEMMA PruneRows ==
    ASSUME NEW S, NEW table \in Seq(S), OneRowEach(table), NEW n \in 1 .. Len(table)
    PROVE  /\ prune_ttl(table, n) \in Seq(S)
           /\ ToSet(prune_ttl(table, n)) \subseteq ToSet(table)
           /\ OneRowEach(prune_ttl(table, n))
<1> DEFINE left == SubSeq(table, n + 1, Len(table))
<1>1. DOMAIN table = 1 .. Len(table) /\ Len(table) \in Nat /\ n \in Nat
  OBVIOUS
<1>2. \A i \in n + 1 .. Len(table) : table[i] \in S
  BY <1>1
<1>3. /\ left \in Seq(S)
      /\ Len(left) = IF n + 1 <= Len(table) THEN Len(table) - (n + 1) + 1 ELSE 0
      /\ \A i \in 1 .. Len(table) - (n + 1) + 1 : left[i] = table[(n + 1) + i - 1]
  BY <1>1, <1>2, SubSeqProperties
<1> HIDE DEF left
<1>4. /\ DOMAIN left = 1 .. Len(table) - n
      /\ \A i \in 1 .. Len(table) - n : n + i \in 1 .. Len(table) /\ left[i] = table[n + i]
  <2>1. Len(left) = Len(table) - n
    <3>1. n \in Nat /\ Len(table) \in Nat /\ n <= Len(table)
      BY <1>1
    <3>2. (IF n + 1 <= Len(table) THEN Len(table) - (n + 1) + 1 ELSE 0) = Len(table) - n
      BY ONLY <3>1
    <3>3. QED
      BY <1>3, <3>2
  <2>2. DOMAIN left = 1 .. Len(table) - n
    BY <1>3, <2>1
  <2>3. ASSUME NEW i \in 1 .. Len(table) - n
        PROVE  n + i \in 1 .. Len(table) /\ left[i] = table[n + i]
    <3>1. i \in 1 .. Len(table) - (n + 1) + 1 /\ (n + 1) + i - 1 = n + i
      BY <1>1
    <3>2. left[i] = table[n + i]
      BY <1>3, <3>1
    <3>3. QED
      BY <1>1, <3>2
  <2>4. QED
    BY <2>2, <2>3
<1>5. ToSet(left) \subseteq ToSet(table)
  BY <1>1, <1>4 DEF ToSet
<1>6. OneRowEach(left)
  <2>1. ASSUME NEW i \in 1 .. Len(table) - n, NEW j \in 1 .. Len(table) - n,
               left[i].proj = left[j].proj
        PROVE  i = j
    <3>1. n + i = n + j
      BY <1>1, <1>4, <2>1 DEF OneRowEach
    <3>2. QED
      BY <1>1, <3>1
  <2>2. QED
    BY <1>4, <2>1 DEF OneRowEach
<1>7. prune_ttl(table, n) = left
  BY DEF prune_ttl, left
<1>8. QED
  BY <1>3, <1>5, <1>6, <1>7

\* The token that is picked is one of the provider's, the one of the smallest id.
LEMMA PickedToken ==
    ASSUME NEW table, DOMAIN table \subseteq Nat, NEW provider,
           Available(table, provider) # {}
    PROVE  /\ pick_available(table, provider) \in Available(table, provider)
           /\ \A id \in Available(table, provider) : pick_available(table, provider) <= id
<1>1. Available(table, provider) \in SUBSET Nat
  BY DEF Available
<1>2. QED
  BY <1>1, LeastMember DEF pick_available

\* The id of a new token is above all ids in the table.
LEMMA FreshId ==
    ASSUME NEW m \in Nat, NEW table, DOMAIN table \subseteq 1 .. m
    PROVE  LET top == Max(DOMAIN table \cup {0})
           IN  top \in Nat /\ \A id \in DOMAIN table : id <= top
<1> DEFINE ids == DOMAIN table \cup {0}
<1>1. ids \in SUBSET (0 .. m) /\ ids # {}
  OBVIOUS
<1>2. Max(ids) \in ids /\ \A id \in ids : id <= Max(ids)
  BY <1>1, GreatestMember
<1>3. QED
  BY <1>1, <1>2

-----------------------------------------------------------------------------
(***************************************************************************)
(* The keys rows are saved under, and what a lookup finds under them.      *)
(***************************************************************************)
Keys == Projections \cup {NextProjOf[input] : input \in Inputs}

Sessions == [proj : Keys, chat : Nat, parent : Nat, token : Nat]

\* The last messages of a conversation are none only when it has none.
LEMMA LatestOfSome ==
    ASSUME NEW S, NEW msgs \in Seq(S), msgs # <<>>
    PROVE  Latest(msgs, WindowK) # <<>>
<1>1. Len(msgs) \in Nat /\ Len(msgs) > 0 /\ WindowK \in Nat
  BY WindowAssumption
<1>2. CASE WindowK = 0 \/ WindowK >= Len(msgs)
  BY <1>2 DEF Latest
<1>3. CASE ~(WindowK = 0 \/ WindowK >= Len(msgs))
  <2> DEFINE m == Len(msgs) - WindowK + 1
             last == SubSeq(msgs, m, Len(msgs))
  <2>1. m \in Int /\ m <= Len(msgs) /\ \A i \in m .. Len(msgs) : msgs[i] \in S
    BY <1>1, <1>3
  <2>2. last \in Seq(S) /\ Len(last) = Len(msgs) - m + 1 /\ Len(msgs) - m + 1 > 0
    BY <1>1, <1>3, <2>1, SubSeqProperties
  <2>3. Latest(msgs, WindowK) = last
    BY <1>3 DEF Latest
  <2> HIDE DEF last, m
  <2>4. last # <<>>
    BY <2>2
  <2>5. QED
    BY <2>3, <2>4
<1>4. QED
  BY <1>2, <1>3

\* The keys of an input: the conversation's length, or two more.
LEMMA KeysOf ==
    ASSUME NEW input \in Inputs
    PROVE  /\ input.msgs \in Seq(DOMAIN Role) /\ Len(input.msgs) \in Nat
           /\ ProjOf[input] \in Projections /\ ProjOf[input] \in Keys
           /\ ProjOf[input].hist_len = Len(input.msgs)
           /\ ProjOf[input].provider = input.provider
           /\ ProjOf[input].tail = Latest(input.msgs, WindowK)
           /\ ProjOf[input] = Projection(input.msgs, input.msgs, Len(input.msgs), input.provider)
           /\ NextProjOf[input] \in Keys
           /\ NextProjOf[input].hist_len = Len(input.msgs) + 2
           /\ NextProjOf[input].provider = input.provider
           /\ NextProjOf[input].tail = Latest(input.msgs, WindowK)
<1>1. input.msgs \in Seq(DOMAIN Role) /\ Len(input.msgs) \in Nat
  BY InputsAssumption
<1>2. /\ ProjOf[input] = Projection(input.msgs, input.msgs, Len(input.msgs), input.provider)
      /\ NextProjOf[input] =
            Projection(input.msgs, input.msgs, Len(input.msgs) + 2, input.provider)
  BY DEF ProjOf, NextProjOf
<1>3. ProjOf[input] \in Projections /\ NextProjOf[input] \in Keys
  BY DEF Projections, Keys
<1>4. QED
  BY <1>1, <1>2, <1>3 DEF Projection, Keys

\* Only the empty conversation has a key without a tail, and never at length 1.
LEMMA TailOfKeys ==
    ASSUME NEW key \in Keys
    PROVE  key.hist_len \in Nat /\ (key.tail = <<>> => key.hist_len # 1)
<1>1. PICK input \in Inputs : key \in {ProjOf[input], NextProjOf[input]}
  BY DEF Keys, Projections
<1>2. key.hist_len \in Nat /\ key.hist_len \in {Len(input.msgs), Len(input.msgs) + 2}
  BY <1>1, KeysOf
<1>3. key.tail = <<>> => input.msgs = <<>>
  BY <1>1, KeysOf, LatestOfSome
<1>4. input.msgs = <<>> => Len(input.msgs) = 0
  OBVIOUS
<1>5. QED
  BY <1>2, <1>3, <1>4

\* What a lookup finds is a row of the length of the conversation, which has a
\* tail, and is of the request's provider unless the fallback found it.
LEMMA LookupFinds ==
    ASSUME NEW table \in Seq(Sessions), NEW input \in Inputs,
           NEW row \in lookup(table, input.msgs, Len(input.msgs), input.provider)
    PROVE  /\ row \in ToSet(table) /\ row \in Sessions /\ input.msgs # <<>>
           /\ row.proj.hist_len = Len(input.msgs) /\ row.proj.tail # <<>>
           /\ \/ row.proj.provider = input.provider
              \/ TrailingAssistant(input.msgs) /\ row.proj.provider = "deepseek"
<1> DEFINE msgs == input.msgs
           proj == Projection(msgs, msgs, Len(msgs), input.provider)
           matching == {o \in ToSet(table) : structural_match(proj, o.proj)}
           fallback == Projection(msgs, DropAssistant(msgs), Len(msgs), "deepseek")
<1>1. msgs # <<>> /\ msgs \in Seq(DOMAIN Role) /\ Len(msgs) \in Nat /\ Len(msgs) # 0
  <2>1. msgs # <<>>
    <3>1. CASE msgs = <<>>
      BY <3>1 DEF lookup
    <3>2. QED
      BY <3>1
  <2>2. msgs \in Seq(DOMAIN Role) /\ Len(msgs) \in Nat
    BY KeysOf
  <2>3. QED
    BY <2>1, <2>2
<1>2. /\ proj.hist_len = Len(msgs) /\ proj.provider = input.provider
      /\ proj.tail = Latest(msgs, WindowK) /\ proj.tail # <<>>
      /\ fallback.hist_len = Len(msgs) /\ fallback.provider = "deepseek"
      /\ fallback.tail = Latest(DropAssistant(msgs), WindowK)
  BY <1>1, LatestOfSome DEF Projection
<1>3. \/ row \in Under(table, proj)
      \/ row \in matching
      \/ TrailingAssistant(msgs) /\ row \in Under(table, fallback)
  BY <1>1 DEF lookup
<1> HIDE DEF proj, fallback
<1>4. row \in ToSet(table) /\ ToSet(table) \subseteq Sessions
  BY <1>3, Members DEF Under
<1>5. row \in Sessions /\ row.proj \in Keys
  BY <1>4 DEF Sessions
<1>6. CASE row.proj = proj \/ structural_match(proj, row.proj)
  BY <1>1, <1>2, <1>4, <1>5, <1>6 DEF structural_match
<1>7. CASE TrailingAssistant(msgs) /\ row.proj = fallback
  <2>1. row.proj.tail # <<>>
    <3>1. CASE Len(msgs) = 1
      BY <1>2, <1>5, <1>7, <3>1, TailOfKeys
    <3>2. CASE Len(msgs) # 1
      <4>1. /\ Front(msgs) \in Seq(DOMAIN Role) /\ Front(msgs) # <<>>
        <5> DEFINE n == Len(msgs)
                   front == SubSeq(msgs, 1, n - 1)
        <5>1. n \in Nat /\ n # 0 /\ n # 1
          BY <1>1, <3>2
        <5>2. \A i \in 1 .. n - 1 : msgs[i] \in DOMAIN Role
          BY <1>1
        <5> HIDE DEF n
        <5>3. 1 \in Int /\ n - 1 \in Int /\ 1 <= n - 1
          BY <5>1
        <5>4. front \in Seq(DOMAIN Role) /\ Len(front) = n - 1
          <6>1. /\ front \in Seq(DOMAIN Role)
                /\ Len(front) = IF 1 <= n - 1 THEN (n - 1) - 1 + 1 ELSE 0
            BY <5>2, <5>3, SubSeqProperties
          <6>2. QED
            BY <5>3, <6>1
        <5>5. front = Front(msgs)
          BY DEF Front, n
        <5> HIDE DEF front
        <5>6. Len(front) # 0
          BY <5>3, <5>4
        <5>7. QED
          BY <5>4, <5>5, <5>6
      <4>2. DropAssistant(msgs) = Front(msgs)
        BY <1>7 DEF DropAssistant
      <4>3. QED
        BY <1>2, <1>7, <4>1, <4>2, LatestOfSome
    <3>3. QED
      BY <3>1, <3>2
  <2>2. QED
    BY <1>1, <1>2, <1>4, <1>5, <1>7, <2>1
<1>8. QED
  BY <1>3, <1>6, <1>7 DEF Under

\* A lookup that misses leaves no row under the key of the conversation.
LEMMA LookupMisses ==
    ASSUME NEW table, NEW input \in Inputs, input.msgs # <<>>,
           lookup(table, input.msgs, Len(input.msgs), input.provider) = {}
    PROVE  Under(table, ProjOf[input]) = {}
<1>1. CASE Under(table, ProjOf[input]) # {}
  BY <1>1, KeysOf DEF lookup
<1>2. QED
  BY <1>1

-----------------------------------------------------------------------------
(***************************************************************************)
(* The tables and the handlers.  A row, and a handler that goes by one,    *)
(* point at a chat that was opened for a conversation no longer than the   *)
(* row's, and at a message that chat holds, or past its end if DeepSeek    *)
(* may leave messages unanswered and left one there.                       *)
(***************************************************************************)
TokensGood == DOMAIN tokens \subseteq 1 .. MaxTokens /\ \A id \in DOMAIN tokens : tokens[id] \in Secrets

ChatGood(chat) ==
    /\ chat = [account |-> chat.account, token |-> chat.token,
               proj |-> chat.proj, log |-> chat.log]
    /\ chat.proj \in Projections /\ chat.log \in Seq(ToSet(chat.log))
ChatsGood(cs) ==
    /\ cs \in Seq(ToSet(cs)) /\ Len(cs) <= MaxChats
    /\ \A i \in DOMAIN cs : ChatGood(cs[i])

\* The parent is a message of the log, or its beginning; or it was counted past
\* the end behind an empty turn.
Reaches(parent, log) ==
    parent <= Len(log) \/ ("empty" \in Faults /\ Unanswered(log))

RowGood(row, cs, ids) ==
    /\ row.chat \in DOMAIN cs /\ row.token \in ids
    /\ cs[row.chat].proj.hist_len <= row.proj.hist_len
    /\ row.proj.tail # <<>> => Reaches(row.parent, cs[row.chat].log)
RowsGood(rs, cs, ids) ==
    /\ rs \in Seq(Sessions) /\ OneRowEach(rs)
    /\ \A row \in ToSet(rs) : RowGood(row, cs, ids)

\* The store holds a row of a chat that was opened for the projection.
Resumable(proj, rs, cs) ==
    \E row \in Under(rs, proj) : proj.tail # <<>> /\ cs[row.chat].proj = proj

Sent(q) == IF q.pc = "saving" THEN 2 ELSE 0
HandlerGood(q, rs, cs) ==
    /\ q.pc = "idle" => q = Idle
    /\ q.pc # "idle" => q.input \in Inputs
    /\ q.pc \in {"waiting", "opening"} => q.chat = 0
    /\ q.pc \in {"sending", "saving"} => q.chat # 0
    /\ q.chat # 0 =>
          /\ q.chat \in DOMAIN cs
          /\ cs[q.chat].proj.hist_len <= Len(q.input.msgs)
          /\ q.input.msgs # <<>> => Reaches(q.parent + Sent(q), cs[q.chat].log)
    /\ q.pc = "opening" => ~Resumable(ProjOf[q.input], rs, cs)

TableInv ==
    /\ TokensGood /\ ChatsGood(chats)
    /\ RowsGood(rows, chats, DOMAIN tokens)
    /\ reqs \in [Requests -> Handler]
    /\ \A r \in Requests : HandlerGood(reqs[r], rows, chats)

\* Chats only come, and only grow, and what is unanswered stays so.
Grown(cs, ds) ==
    /\ DOMAIN cs \subseteq DOMAIN ds
    /\ \A i \in DOMAIN cs :
          /\ ds[i].proj = cs[i].proj
          /\ Len(cs[i].log) <= Len(ds[i].log)
          /\ Unanswered(cs[i].log) => Unanswered(ds[i].log)

\* Idle is the state of a handler that has no request.
LEMMA IdleGood == Idle \in Handler /\ \A rs, cs : HandlerGood(Idle, rs, cs)
<1>1. 0 \in 0 .. MaxChats /\ 0 \in 0 .. MaxTokens
  BY BoundsAssumption
<1>2. Idle \in Handler
  BY <1>1 DEF Idle, Handler
<1>3. ASSUME NEW rs, NEW cs
      PROVE  HandlerGood(Idle, rs, cs)
  BY DEF HandlerGood, Idle
<1>4. QED
  BY <1>2, <1>3

\* Lengths and numbers of good chats.
LEMMA ChatNumbers ==
    ASSUME NEW cs, ChatsGood(cs)
    PROVE  /\ DOMAIN cs = 1 .. Len(cs) /\ Len(cs) \in Nat
           /\ DOMAIN cs \subseteq 0 .. MaxChats
           /\ \A i \in DOMAIN cs : /\ Len(cs[i].log) \in Nat
                                   /\ cs[i].proj.hist_len \in Nat
<1>1. /\ DOMAIN cs = 1 .. Len(cs) /\ Len(cs) \in Nat /\ Len(cs) <= MaxChats /\ MaxChats \in Nat
  BY BoundsAssumption DEF ChatsGood
<1>2. ASSUME NEW i \in DOMAIN cs
      PROVE  Len(cs[i].log) \in Nat /\ cs[i].proj.hist_len \in Nat
  <2>1. cs[i].log \in Seq(ToSet(cs[i].log)) /\ cs[i].proj \in Keys
    BY DEF ChatsGood, ChatGood, Keys
  <2>2. QED
    BY <2>1, TailOfKeys
<1>3. QED
  BY <1>1, <1>2

\* The beginning of a chat is always reached.
LEMMA ReachesStart ==
    ASSUME NEW log, Len(log) \in Nat
    PROVE  Reaches(0, log)
BY DEF Reaches

\* A good row stays good while its token is in the table.
LEMMA RowStays ==
    ASSUME NEW cs, NEW ds, ChatsGood(cs), ChatsGood(ds), Grown(cs, ds),
           NEW row \in Sessions, NEW ids, NEW jds, RowGood(row, cs, ids), row.token \in jds
    PROVE  RowGood(row, ds, jds)
<1>1. row.parent \in Nat /\ row.chat \in DOMAIN cs /\ row.chat \in DOMAIN ds
  BY DEF RowGood, Grown, Sessions
<1>2. Len(cs[row.chat].log) \in Nat /\ Len(ds[row.chat].log) \in Nat
  BY <1>1, ChatNumbers
<1>3. /\ ds[row.chat].proj = cs[row.chat].proj
      /\ Len(cs[row.chat].log) <= Len(ds[row.chat].log)
      /\ Unanswered(cs[row.chat].log) => Unanswered(ds[row.chat].log)
  BY <1>1 DEF Grown
<1>4. Reaches(row.parent, cs[row.chat].log) => Reaches(row.parent, ds[row.chat].log)
  BY <1>1, <1>2, <1>3 DEF Reaches
<1>5. QED
  BY <1>1, <1>3, <1>4 DEF RowGood

\* A good handler stays good unless its conversation becomes resumable.
LEMMA HandlerStays ==
    ASSUME NEW cs, NEW ds, ChatsGood(cs), ChatsGood(ds), Grown(cs, ds), NEW rs, NEW ss,
           NEW q \in Handler, HandlerGood(q, rs, cs),
           q.pc = "opening" => ~Resumable(ProjOf[q.input], ss, ds)
    PROVE  HandlerGood(q, ss, ds)
<1>1. CASE q.chat = 0
  BY <1>1 DEF HandlerGood
<1>2. CASE q.chat # 0
  <2>1. q.parent \in Nat /\ q.parent + Sent(q) \in Nat
    BY DEF Handler, Sent
  <2>2. q.chat \in DOMAIN cs /\ q.chat \in DOMAIN ds
    BY <1>2 DEF HandlerGood, Grown
  <2>3. Len(cs[q.chat].log) \in Nat /\ Len(ds[q.chat].log) \in Nat
    BY <2>2, ChatNumbers
  <2>4. /\ ds[q.chat].proj = cs[q.chat].proj
        /\ Len(cs[q.chat].log) <= Len(ds[q.chat].log)
        /\ Unanswered(cs[q.chat].log) => Unanswered(ds[q.chat].log)
    BY <2>2 DEF Grown
  <2>5. q.input.msgs # <<>> => Reaches(q.parent + Sent(q), ds[q.chat].log)
    BY <1>2, <2>1, <2>3, <2>4 DEF HandlerGood, Reaches
  <2>6. QED
    BY <1>2, <2>2, <2>4, <2>5 DEF HandlerGood
<1>3. QED
  BY <1>1, <1>2

\* Grown is reflexive.
LEMMA GrownSame == ASSUME NEW cs, ChatsGood(cs) PROVE Grown(cs, cs)
BY ChatNumbers DEF Grown

\* One handler moves, and no table changes.
LEMMA HandlerMoves ==
    ASSUME TableInv, NEW r \in Requests, NEW q \in Handler, HandlerGood(q, rows, chats),
           reqs' = [reqs EXCEPT ![r] = q], UNCHANGED <<tokens, rows, chats>>
    PROVE  TableInv'
<1>1. /\ reqs' \in [Requests -> Handler]
      /\ \A o \in Requests : reqs'[o] = IF o = r THEN q ELSE reqs[o]
  BY DEF TableInv
<1>2. \A o \in Requests : HandlerGood(reqs'[o], rows', chats')
  BY <1>1 DEF TableInv
<1>3. TokensGood' /\ ChatsGood(chats') /\ RowsGood(rows', chats', DOMAIN tokens')
  BY DEF TableInv, TokensGood
<1>4. QED
  BY <1>1, <1>2, <1>3 DEF TableInv

\* A row that is saved, for a token in the table, keeps the rows good.
LEMMA RowSaved ==
    ASSUME NEW rs, NEW cs, NEW ids, RowsGood(rs, cs, ids),
           NEW row \in Sessions, RowGood(row, cs, ids)
    PROVE  RowsGood(save(rs, row), cs, ids)
BY SaveRows DEF RowsGood

\* Saving a row makes only its own conversation resumable.
LEMMA SavedElsewhere ==
    ASSUME NEW rs \in Seq(Sessions), OneRowEach(rs), NEW cs, NEW row \in Sessions, NEW proj,
           ~Resumable(proj, rs, cs), row.proj = proj => cs[row.chat].proj # proj
    PROVE  ~Resumable(proj, save(rs, row), cs)
BY SaveRows DEF Resumable, Under

\* The row that handlers save is a session.
LEMMA SavedIsSession ==
    ASSUME NEW key \in Keys, NEW q \in Handler, NEW parent \in Nat
    PROVE  /\ Row(key, q, parent) \in Sessions
           /\ Row(key, q, parent).proj = key /\ Row(key, q, parent).chat = q.chat
           /\ Row(key, q, parent).parent = parent /\ Row(key, q, parent).token = q.token
BY BoundsAssumption DEF Row, Sessions, Handler

\* While no row is saved, growing chats make nothing resumable.
LEMMA ResumableBefore ==
    ASSUME NEW rs, NEW cs, NEW ds, NEW ids, RowsGood(rs, cs, ids), Grown(cs, ds), NEW proj,
           Resumable(proj, rs, ds)
    PROVE  Resumable(proj, rs, cs)
<1>1. PICK row \in Under(rs, proj) : proj.tail # <<>> /\ ds[row.chat].proj = proj
  BY DEF Resumable
<1>2. row.chat \in DOMAIN cs
  BY <1>1 DEF RowsGood, RowGood, Under
<1>3. QED
  BY <1>1, <1>2 DEF Resumable, Grown

\* Nothing becomes resumable by rows that go.
LEMMA FewerRows ==
    ASSUME NEW rs, NEW ss, ToSet(ss) \subseteq ToSet(rs), NEW cs, NEW proj,
           Resumable(proj, ss, cs)
    PROVE  Resumable(proj, rs, cs)
BY DEF Resumable, Under

-----------------------------------------------------------------------------
(***************************************************************************)
(* The locks: who is in the queue of a projection, and who holds it.       *)
(***************************************************************************)
LockInv ==
    /\ queues \in [Projections -> Seq(Requests)]
    /\ \A p \in Projections : IsInjective(queues[p])
    /\ \A r \in Requests, p \in Projections :
          r \in ToSet(queues[p]) <=> /\ reqs[r].pc \in {"waiting", "opening"}
                                     /\ ProjOf[reqs[r].input] = p
    /\ \A r \in Requests : reqs[r].pc = "opening" => r = Head(queues[ProjOf[reqs[r].input]])

OrchInv == TableInv /\ LockInv

\* What a handler that has a request knows of its key and its queue.
LEMMA InQueue ==
    ASSUME OrchInv, NEW r \in Requests, reqs[r].pc # "idle"
    PROVE  /\ reqs[r].input \in Inputs /\ reqs[r] \in Handler
           /\ ProjOf[reqs[r].input] \in Projections
           /\ queues[ProjOf[reqs[r].input]] \in Seq(Requests)
           /\ IsInjective(queues[ProjOf[reqs[r].input]])
           /\ reqs[r].pc \in {"waiting", "opening"} => queues[ProjOf[reqs[r].input]] # <<>>
<1>1. reqs[r].input \in Inputs /\ reqs[r] \in Handler
  BY DEF OrchInv, TableInv, HandlerGood
<1>2. ProjOf[reqs[r].input] \in Projections
  BY <1>1, KeysOf
<1>3. /\ queues[ProjOf[reqs[r].input]] \in Seq(Requests)
      /\ IsInjective(queues[ProjOf[reqs[r].input]])
  BY <1>2 DEF OrchInv, LockInv
<1>4. ASSUME reqs[r].pc \in {"waiting", "opening"}
      PROVE  queues[ProjOf[reqs[r].input]] # <<>>
  <2>1. r \in ToSet(queues[ProjOf[reqs[r].input]])
    BY <1>2, <1>4 DEF OrchInv, LockInv
  <2>2. QED
    BY <1>3, <2>1, EmptyQueue
<1>5. QED
  BY <1>1, <1>2, <1>3, <1>4

\* A handler that is in no queue moves, and is in none then.
LEMMA LockElsewhere ==
    ASSUME OrchInv, NEW r \in Requests, NEW q,
           reqs[r].pc \notin {"waiting", "opening"}, q.pc \notin {"waiting", "opening"},
           reqs' = [reqs EXCEPT ![r] = q], queues' = queues
    PROVE  LockInv'
<1>1. \A o \in Requests : reqs'[o] = IF o = r THEN q ELSE reqs[o]
  BY DEF OrchInv, TableInv
<1>2. QED
  BY <1>1 DEF OrchInv, LockInv

\* A handler queues up.
LEMMA LockJoined ==
    ASSUME OrchInv, NEW r \in Requests, NEW q, reqs[r].pc = "picking",
           q.pc = "waiting", q.input = reqs[r].input,
           reqs' = [reqs EXCEPT ![r] = q],
           queues' = [queues EXCEPT ![ProjOf[reqs[r].input]] =
                         Append(queues[ProjOf[reqs[r].input]], r)]
    PROVE  LockInv'
<1> DEFINE p == ProjOf[reqs[r].input]
<1>1. \A o \in Requests : reqs'[o] = IF o = r THEN q ELSE reqs[o]
  BY DEF OrchInv, TableInv
<1>2. p \in Projections /\ queues[p] \in Seq(Requests) /\ IsInjective(queues[p])
  BY InQueue
<1>3. r \notin ToSet(queues[p])
  BY <1>2 DEF OrchInv, LockInv
<1>4. /\ Append(queues[p], r) \in Seq(Requests) /\ IsInjective(Append(queues[p], r))
      /\ ToSet(Append(queues[p], r)) = ToSet(queues[p]) \cup {r}
      /\ Head(Append(queues[p], r)) = IF queues[p] = <<>> THEN r ELSE Head(queues[p])
  BY <1>2, <1>3, Join
<1>5. /\ queues' \in [Projections -> Seq(Requests)]
      /\ queues'[p] = Append(queues[p], r)
      /\ \A o \in Projections \ {p} : queues'[o] = queues[o]
  BY <1>2, <1>4 DEF OrchInv, LockInv
<1> HIDE DEF p
<1>6. \A o \in Projections : IsInjective(queues'[o])
  BY <1>4, <1>5 DEF OrchInv, LockInv
<1>7. ASSUME NEW o \in Requests, NEW k \in Projections
      PROVE  o \in ToSet(queues'[k]) <=> /\ reqs'[o].pc \in {"waiting", "opening"}
                                         /\ ProjOf[reqs'[o].input] = k
  <2>1. CASE o = r
    <3>1. r \in ToSet(queues'[k]) <=> k = p
      BY <1>4, <1>5 DEF OrchInv, LockInv
    <3>2. QED
      BY <1>1, <2>1, <3>1 DEF p
  <2>2. CASE o # r
    <3>1. o \in ToSet(queues'[k]) <=> o \in ToSet(queues[k])
      BY <1>4, <1>5, <2>2
    <3>2. QED
      BY <1>1, <2>2, <3>1 DEF OrchInv, LockInv
  <2>3. QED
    BY <2>1, <2>2
<1>8. ASSUME NEW o \in Requests, reqs'[o].pc = "opening"
      PROVE  o = Head(queues'[ProjOf[reqs'[o].input]])
  <2>1. o # r /\ reqs'[o] = reqs[o] /\ reqs[o].pc = "opening"
    BY <1>1, <1>8
  <2>2. /\ o = Head(queues[ProjOf[reqs[o].input]]) /\ ProjOf[reqs[o].input] \in Projections
        /\ queues[ProjOf[reqs[o].input]] # <<>>
    BY <2>1, InQueue DEF OrchInv, LockInv
  <2>3. QED
    BY <1>4, <1>5, <2>1, <2>2
<1>9. QED
  BY <1>5, <1>6, <1>7, <1>8 DEF LockInv

\* The head of the queue begins to open a chat.
LEMMA LockTaken ==
    ASSUME OrchInv, NEW r \in Requests, NEW q, reqs[r].pc = "waiting",
           q.pc = "opening", q.input = reqs[r].input,
           Head(queues[ProjOf[reqs[r].input]]) = r,
           reqs' = [reqs EXCEPT ![r] = q], queues' = queues
    PROVE  LockInv'
<1>1. \A o \in Requests : reqs'[o] = IF o = r THEN q ELSE reqs[o]
  BY DEF OrchInv, TableInv
<1>2. QED
  BY <1>1 DEF OrchInv, LockInv

\* A queue without r, and with the same head if that is another.
Without(queue, r, rest) ==
    /\ rest \in Seq(Requests) /\ IsInjective(rest)
    /\ ToSet(rest) = ToSet(queue) \ {r}
    /\ Head(queue) # r => Head(rest) = Head(queue)

\* A handler leaves its queue for rest, and goes on, or ends, as q.
Quits(r, q, rest) ==
    /\ reqs[r].pc \in {"waiting", "opening"} /\ q.pc \notin {"waiting", "opening"}
    /\ Without(queues[ProjOf[reqs[r].input]], r, rest)
    /\ reqs' = [reqs EXCEPT ![r] = q]
    /\ queues' = [queues EXCEPT ![ProjOf[reqs[r].input]] = rest]

\* A handler may leave its queue wherever in it it stands.
LEMMA LockQuit ==
    ASSUME OrchInv, NEW r \in Requests, NEW q, NEW rest, Quits(r, q, rest)
    PROVE  LockInv'
<1> PICK p : p = ProjOf[reqs[r].input]
  OBVIOUS
<1>0. /\ reqs[r].pc \in {"waiting", "opening"} /\ q.pc \notin {"waiting", "opening"}
      /\ Without(queues[p], r, rest)
      /\ reqs' = [reqs EXCEPT ![r] = q] /\ queues' = [queues EXCEPT ![p] = rest]
  BY DEF Quits
<1>1. \A o \in Requests : reqs'[o] = IF o = r THEN q ELSE reqs[o]
  BY <1>0 DEF OrchInv, TableInv
<1>2. p \in Projections /\ queues[p] \in Seq(Requests)
  BY <1>0, InQueue
<1>3. /\ rest \in Seq(Requests) /\ IsInjective(rest)
      /\ ToSet(rest) = ToSet(queues[p]) \ {r}
      /\ Head(queues[p]) # r => Head(rest) = Head(queues[p])
  BY <1>0 DEF Without
<1>4. /\ queues' \in [Projections -> Seq(Requests)]
      /\ queues'[p] = rest
      /\ \A o \in Projections \ {p} : queues'[o] = queues[o]
  BY <1>0, <1>2, <1>3 DEF OrchInv, LockInv
<1>5. r \notin ToSet(queues'[p]) /\ \A k \in Projections \ {p} : r \notin ToSet(queues'[k])
  BY <1>2, <1>3, <1>4 DEF OrchInv, LockInv
<1>6. \A o \in Projections : IsInjective(queues'[o])
  BY <1>3, <1>4 DEF OrchInv, LockInv
<1>7. ASSUME NEW o \in Requests, NEW k \in Projections
      PROVE  o \in ToSet(queues'[k]) <=> /\ reqs'[o].pc \in {"waiting", "opening"}
                                         /\ ProjOf[reqs'[o].input] = k
  <2>1. CASE o = r
    BY <1>0, <1>1, <1>5, <2>1
  <2>2. CASE o # r
    <3>1. o \in ToSet(queues'[k]) <=> o \in ToSet(queues[k])
      BY <1>3, <1>4, <2>2
    <3>2. QED
      BY <1>1, <2>2, <3>1 DEF OrchInv, LockInv
  <2>3. QED
    BY <2>1, <2>2
<1>8. ASSUME NEW o \in Requests, reqs'[o].pc = "opening"
      PROVE  o = Head(queues'[ProjOf[reqs'[o].input]])
  <2>1. o # r /\ reqs'[o] = reqs[o] /\ reqs[o].pc = "opening"
    BY <1>0, <1>1, <1>8
  <2>2. o = Head(queues[ProjOf[reqs[o].input]]) /\ ProjOf[reqs[o].input] \in Projections
    BY <2>1, InQueue DEF OrchInv, LockInv
  <2>3. CASE ProjOf[reqs[o].input] = p
    BY <1>3, <1>4, <2>1, <2>2, <2>3
  <2>4. CASE ProjOf[reqs[o].input] # p
    BY <1>4, <2>1, <2>2, <2>4
  <2>5. QED
    BY <2>3, <2>4
<1>9. QED
  BY <1>4, <1>6, <1>7, <1>8 DEF LockInv

\* The handler that holds the lock goes on, or ends, as q.
Releases(r, q) ==
    /\ reqs[r].pc \in {"waiting", "opening"} /\ q.pc \notin {"waiting", "opening"}
    /\ Head(queues[ProjOf[reqs[r].input]]) = r
    /\ reqs' = [reqs EXCEPT ![r] = q]
    /\ Release(r)

\* The head of the queue leaves it, and nobody holds the lock then.
LEMMA LockLeft ==
    ASSUME OrchInv, NEW r \in Requests, NEW q, Releases(r, q)
    PROVE  LockInv'
<1>1. PICK queue, rest : queue = queues[ProjOf[reqs[r].input]] /\ rest = Tail(queue)
  OBVIOUS
<1>2. /\ reqs[r].pc \in {"waiting", "opening"} /\ q.pc \notin {"waiting", "opening"}
      /\ Head(queue) = r /\ reqs' = [reqs EXCEPT ![r] = q]
      /\ queues' = [queues EXCEPT ![ProjOf[reqs[r].input]] = rest]
  BY <1>1 DEF Releases, Release
<1>3. queue \in Seq(Requests) /\ IsInjective(queue) /\ queue # <<>>
  BY <1>1, <1>2, InQueue
<1>4. Without(queue, r, rest)
  BY <1>1, <1>2, <1>3, Leave DEF Without
<1>5. Quits(r, q, rest)
  BY <1>1, <1>2, <1>4 DEF Quits
<1>6. QED
  BY <1>5, LockQuit

-----------------------------------------------------------------------------
(***************************************************************************)
(* The steps of a handler.                                                 *)
(***************************************************************************)
\* Going by a row that was found is good.
LEMMA GoByGood ==
    ASSUME TableInv, NEW q \in Handler, q.input \in Inputs, q.chat = 0,
           NEW row \in lookup(rows, q.input.msgs, Len(q.input.msgs), q.input.provider),
           NEW pc \in {"picking", "sending"}
    PROVE  /\ GoBy(q, row, pc) \in Handler /\ HandlerGood(GoBy(q, row, pc), rows, chats)
           /\ GoBy(q, row, pc).pc = pc /\ GoBy(q, row, pc).input = q.input
           /\ GoBy(q, row, pc).token = q.token /\ GoBy(q, row, pc).account = q.account
           /\ GoBy(q, row, pc).chat = row.chat
<1> DEFINE g == GoBy(q, row, pc)
<1>1. rows \in Seq(Sessions) /\ ChatsGood(chats)
  BY DEF TableInv, RowsGood
<1>2. /\ row \in ToSet(rows) /\ row \in Sessions /\ q.input.msgs # <<>>
      /\ row.proj.hist_len = Len(q.input.msgs) /\ row.proj.tail # <<>>
  BY <1>1, LookupFinds
<1>3. RowGood(row, chats, DOMAIN tokens)
  BY <1>2 DEF TableInv, RowsGood
<1>4. row.chat \in DOMAIN chats /\ row.chat \in 0 .. MaxChats /\ row.chat # 0 /\ row.parent \in Nat
  BY <1>1, <1>2, <1>3, ChatNumbers DEF RowGood, Sessions
<1>5. /\ g \in Handler /\ g.pc = pc /\ g.input = q.input /\ g.chat = row.chat
      /\ g.parent = row.parent /\ g.token = q.token /\ g.account = q.account
  BY <1>4 DEF GoBy, Handler
<1>6. g.parent + Sent(g) = row.parent
  BY <1>4, <1>5 DEF Sent
<1> HIDE DEF g
<1>7. HandlerGood(g, rows, chats)
  BY <1>2, <1>3, <1>4, <1>5, <1>6 DEF HandlerGood, RowGood
<1>8. QED
  BY <1>5, <1>7 DEF g

\* The request comes, and is looked up.
LEMMA ArriveKeeps ==
    ASSUME OrchInv, NEW r \in Requests, NEW input \in Inputs, Arrive(r, input)
    PROVE  OrchInv'
<1> DEFINE q == [Idle EXCEPT !.pc = "picking", !.input = input]
           hits == lookup(rows, input.msgs, Len(input.msgs), input.provider)
<1>1. reqs[r] = Idle /\ reqs[r].pc = "idle" /\ UNCHANGED <<tokens, rows, chats, queues>>
  <2>1. reqs[r] = Idle /\ UNCHANGED <<tokens, rows, chats, queues>>
    BY DEF Arrive
  <2>2. Idle.pc = "idle"
    BY DEF Idle
  <2>3. QED
    BY <2>1, <2>2
<1>2. /\ q \in Handler /\ q.pc = "picking" /\ q.input = input /\ q.chat = 0
      /\ HandlerGood(q, rows, chats)
  <2>1. 0 \in 0 .. MaxChats /\ 0 \in 0 .. MaxTokens
    BY BoundsAssumption
  <2>2. q \in Handler /\ q.pc = "picking" /\ q.input = input /\ q.chat = 0
    BY <2>1 DEF Handler, Idle
  <2>3. QED
    BY <2>2 DEF HandlerGood
<1>3. PICK n \in Handler : /\ reqs' = [reqs EXCEPT ![r] = n]
                           /\ n.pc = "picking" /\ HandlerGood(n, rows, chats)
  <2>1. CASE hits = {} /\ reqs' = [reqs EXCEPT ![r] = q]
    BY <1>2, <2>1
  <2>2. CASE \E row \in hits : reqs' = [reqs EXCEPT ![r] = GoBy(q, row, "picking")]
    <3>1. PICK row \in hits : reqs' = [reqs EXCEPT ![r] = GoBy(q, row, "picking")]
      BY <2>2
    <3> HIDE DEF q
    <3>2. /\ GoBy(q, row, "picking") \in Handler /\ GoBy(q, row, "picking").pc = "picking"
          /\ HandlerGood(GoBy(q, row, "picking"), rows, chats)
      BY <1>2, GoByGood DEF OrchInv
    <3>3. QED
      BY <3>1, <3>2
  <2>3. QED
    BY <2>1, <2>2 DEF Arrive
<1>4. TableInv'
  BY <1>1, <1>3, HandlerMoves DEF OrchInv
<1>5. LockInv'
  BY <1>1, <1>3, LockElsewhere
<1>6. QED
  BY <1>4, <1>5 DEF OrchInv

\* A handler that ends where no lock is held keeps the invariant.
LEMMA EndKeeps ==
    ASSUME OrchInv, NEW r \in Requests, reqs[r].pc \notin {"waiting", "opening"},
           reqs' = [reqs EXCEPT ![r] = Idle], UNCHANGED <<tokens, rows, chats, queues>>
    PROVE  OrchInv'
<1>1. Idle.pc = "idle"
  BY DEF Idle
<1>2. QED
  BY <1>1, IdleGood, HandlerMoves, LockElsewhere DEF OrchInv

\* A token is picked, or there is none.
LEMMA PickKeeps ==
    ASSUME OrchInv, NEW r \in Requests, Pick(r)
    PROVE  OrchInv'
<1> DEFINE old == reqs[r]
           id  == pick_available(tokens, old.input.provider)
           q   == [old EXCEPT !.token = id, !.account = tokens[id].account,
                              !.pc = IF old.chat = 0 THEN "waiting" ELSE "sending"]
<1>1. /\ old.pc = "picking" /\ old.input \in Inputs /\ old \in Handler
      /\ HandlerGood(old, rows, chats)
      /\ UNCHANGED <<tokens, rows, chats>>
  BY InQueue DEF Pick, OrchInv, TableInv
<1>2. CASE Available(tokens, old.input.provider) = {}
  BY <1>1, <1>2, EndKeeps DEF Pick
<1>3. CASE Available(tokens, old.input.provider) # {}
  <2>1. /\ reqs' = [reqs EXCEPT ![r] = q]
        /\ queues' = IF old.chat # 0 THEN queues
                     ELSE [queues EXCEPT ![ProjOf[old.input]] =
                              Append(queues[ProjOf[old.input]], r)]
    BY <1>3 DEF Pick
  <2>2. DOMAIN tokens \subseteq Nat /\ DOMAIN tokens \subseteq 1 .. MaxTokens
    BY DEF OrchInv, TableInv, TokensGood
  <2>3. id \in DOMAIN tokens
    BY <1>3, <2>2, PickedToken DEF Available
  <2>4. id \in 0 .. MaxTokens /\ tokens[id].account \in Accounts
    BY <2>2, <2>3, BoundsAssumption DEF OrchInv, TableInv, TokensGood, Accounts
  <2> HIDE DEF id
  <2>5. /\ q \in Handler /\ q.input = old.input /\ q.chat = old.chat /\ q.parent = old.parent
        /\ q.pc = IF old.chat = 0 THEN "waiting" ELSE "sending"
    BY <1>1, <2>4 DEF Handler
  <2>6. HandlerGood(q, rows, chats)
    <3>1. q.parent + Sent(q) = old.parent /\ old.parent + Sent(old) = old.parent
      BY <1>1, <2>5 DEF Sent, Handler
    <3> HIDE DEF q, old
    <3>2. QED
      BY <1>1, <2>5, <3>1 DEF HandlerGood
  <2>7. TableInv'
    BY <1>1, <2>1, <2>5, <2>6, HandlerMoves DEF OrchInv
  <2>8. LockInv'
    <3> HIDE DEF q
    <3>1. CASE old.chat = 0
      <4>1. /\ reqs[r].pc = "picking" /\ q.pc = "waiting" /\ q.input = reqs[r].input
            /\ reqs' = [reqs EXCEPT ![r] = q]
            /\ queues' = [queues EXCEPT ![ProjOf[reqs[r].input]] =
                             Append(queues[ProjOf[reqs[r].input]], r)]
        BY <1>1, <2>1, <2>5, <3>1
      <4>2. QED
        BY <4>1, LockJoined
    <3>2. CASE old.chat # 0
      <4>1. reqs[r].pc = "picking" /\ q.pc = "sending" /\ queues' = queues
        BY <1>1, <2>1, <2>5, <3>2
      <4>2. QED
        BY <2>1, <4>1, LockElsewhere
    <3>3. QED
      BY <3>1, <3>2
  <2>9. QED
    BY <2>7, <2>8 DEF OrchInv
<1>4. QED
  BY <1>2, <1>3

\* The second lookup, under the lock.
LEMMA EnterKeeps ==
    ASSUME OrchInv, NEW r \in Requests, Enter(r)
    PROVE  OrchInv'
<1> DEFINE old == reqs[r]
           hits == lookup(rows, old.input.msgs, Len(old.input.msgs), old.input.provider)
<1>1. /\ old.pc = "waiting" /\ old.input \in Inputs /\ old \in Handler /\ old.chat = 0
      /\ HandlerGood(old, rows, chats) /\ Head(queues[ProjOf[old.input]]) = r
      /\ UNCHANGED <<tokens, rows, chats>>
  BY InQueue DEF Enter, OrchInv, TableInv, HandlerGood
<1>2. CASE hits = {} /\ reqs' = [reqs EXCEPT ![r].pc = "opening"] /\ queues' = queues
  <2> DEFINE q == [old EXCEPT !.pc = "opening"]
  <2>1. reqs' = [reqs EXCEPT ![r] = q] /\ queues' = queues
    BY <1>2
  <2>2. /\ q \in Handler /\ q.input = old.input /\ q.chat = 0 /\ q.pc = "opening"
    BY <1>1 DEF Handler
  <2>3. ~Resumable(ProjOf[old.input], rows, chats)
    <3>1. CASE old.input.msgs = <<>>
      <4>1. ProjOf[old.input].tail = <<>>
        BY <1>1, <3>1, KeysOf, WindowAssumption DEF Latest
      <4>2. QED
        BY <4>1 DEF Resumable
    <3>2. CASE old.input.msgs # <<>>
      BY <1>1, <1>2, <3>2, LookupMisses DEF Resumable
    <3>3. QED
      BY <3>1, <3>2
  <2> HIDE DEF q
  <2>4. HandlerGood(q, rows, chats)
    BY <1>1, <2>2, <2>3 DEF HandlerGood
  <2>5. TableInv'
    BY <1>1, <2>1, <2>2, <2>4, HandlerMoves DEF OrchInv
  <2>6. LockInv'
    BY <1>1, <2>1, <2>2, LockTaken
  <2>7. QED
    BY <2>5, <2>6 DEF OrchInv
<1>3. CASE /\ \E row \in hits : reqs' = [reqs EXCEPT ![r] = GoBy(old, row, "sending")]
           /\ Release(r)
  <2>1. PICK row \in hits : reqs' = [reqs EXCEPT ![r] = GoBy(old, row, "sending")]
    BY <1>3
  <2>2. /\ GoBy(old, row, "sending") \in Handler /\ GoBy(old, row, "sending").pc = "sending"
        /\ HandlerGood(GoBy(old, row, "sending"), rows, chats)
    BY <1>1, GoByGood DEF OrchInv
  <2>3. PICK q \in Handler : /\ reqs' = [reqs EXCEPT ![r] = q] /\ q.pc = "sending"
                             /\ HandlerGood(q, rows, chats)
    BY <2>1, <2>2
  <2>4. TableInv'
    BY <1>1, <2>3, HandlerMoves DEF OrchInv
  <2>5. LockInv'
    <3>1. Releases(r, q)
      BY <1>1, <1>3, <2>3 DEF Releases
    <3>2. QED
      BY <3>1, LockLeft
  <2>6. QED
    BY <2>4, <2>5 DEF OrchInv
<1>4. QED
  BY <1>2, <1>3 DEF Enter

\* One handler moves, chats grow, rows are saved, and no token comes or goes.
LEMMA TablesMove ==
    ASSUME TableInv, NEW r \in Requests, NEW q \in Handler,
           ChatsGood(chats'), Grown(chats, chats'), RowsGood(rows', chats', DOMAIN tokens),
           HandlerGood(q, rows', chats'),
           reqs' = [reqs EXCEPT ![r] = q], tokens' = tokens,
           \A o \in Requests \ {r} : reqs[o].pc = "opening" =>
               ~Resumable(ProjOf[reqs[o].input], rows', chats')
    PROVE  TableInv'
<1>1. /\ reqs' \in [Requests -> Handler]
      /\ \A o \in Requests : reqs'[o] = IF o = r THEN q ELSE reqs[o]
  BY DEF TableInv
<1>2. ASSUME NEW o \in Requests
      PROVE  HandlerGood(reqs'[o], rows', chats')
  <2>1. CASE o = r
    BY <1>1, <2>1
  <2>2. CASE o # r
    <3>1. PICK h \in Handler : h = reqs[o]
      BY DEF TableInv
    <3>2. /\ HandlerGood(h, rows, chats) /\ ChatsGood(chats)
          /\ h.pc = "opening" => ~Resumable(ProjOf[h.input], rows', chats')
      BY <2>2, <3>1 DEF TableInv
    <3>3. HandlerGood(h, rows', chats')
      BY <3>2, HandlerStays
    <3>4. QED
      BY <1>1, <2>2, <3>1, <3>3
  <2>3. QED
    BY <2>1, <2>2
<1>3. TokensGood' /\ RowsGood(rows', chats', DOMAIN tokens')
  BY DEF TableInv, TokensGood
<1>4. QED
  BY <1>1, <1>2, <1>3 DEF TableInv

\* A chat that is opened is the last, has no messages, and leaves the others.
LEMMA ChatComes ==
    ASSUME NEW cs, ChatsGood(cs), Len(cs) < MaxChats, NEW chat, ChatGood(chat)
    PROVE  /\ ChatsGood(Append(cs, chat)) /\ Grown(cs, Append(cs, chat))
           /\ DOMAIN Append(cs, chat) = 1 .. Len(cs) + 1
           /\ Append(cs, chat)[Len(cs) + 1] = chat
<1> DEFINE S == ToSet(cs) \cup {chat}
           ds == Append(cs, chat)
<1>1. /\ cs \in Seq(ToSet(cs)) /\ Len(cs) \in Nat /\ DOMAIN cs = 1 .. Len(cs)
      /\ MaxChats \in Nat
  BY BoundsAssumption DEF ChatsGood
<1>2. cs \in Seq(S) /\ chat \in S
  BY <1>1
<1> HIDE DEF S
<1>3. ds \in Seq(S) /\ ToSet(ds) = S
  BY <1>2, Join DEF S
<1>4. /\ DOMAIN ds = 1 .. Len(cs) + 1 /\ Len(ds) = Len(cs) + 1
      /\ ds[Len(cs) + 1] = chat /\ \A i \in 1 .. Len(cs) : ds[i] = cs[i]
  BY <1>2
<1> HIDE DEF ds
<1>5. \A i \in 1 .. Len(cs) : Len(cs[i].log) \in Nat
  BY <1>1, ChatNumbers
<1>6. Grown(cs, ds)
  BY <1>1, <1>4, <1>5 DEF Grown
<1>7. \A i \in DOMAIN ds : ChatGood(ds[i])
  BY <1>1, <1>4 DEF ChatsGood
<1>8. ChatsGood(ds)
  BY <1>1, <1>3, <1>4, <1>7 DEF ChatsGood
<1>9. QED
  BY <1>4, <1>6, <1>8 DEF ds

\* Two handlers that open a chat do it for different projections: each of them
\* is the head of its queue.
LEMMA OneOpensEach ==
    ASSUME LockInv, NEW r \in Requests, NEW o \in Requests, o # r,
           reqs[r].pc = "opening", reqs[o].pc = "opening"
    PROVE  ProjOf[reqs[o].input] # ProjOf[reqs[r].input]
BY DEF LockInv

\* The chat is open, and its row saved.
LEMMA OpenedKeeps ==
    ASSUME OrchInv, NEW r \in Requests, Opened(r)
    PROVE  OrchInv'
<1>1. PICK old \in Handler : old = reqs[r]
  BY DEF OrchInv, TableInv
<1> DEFINE chat == [account |-> old.account, token |-> old.token,
                    proj |-> ProjOf[old.input], log |-> <<>>]
           n    == Len(chats) + 1
           mine == [old EXCEPT !.pc = "sending", !.chat = n, !.parent = 0]
           new  == Row(ProjOf[old.input], mine, 0)
<1>2. /\ old.pc = "opening" /\ old.input \in Inputs /\ HandlerGood(old, rows, chats)
      /\ Head(queues[ProjOf[old.input]]) = r
  <2>1. old.pc = "opening"
    BY <1>1 DEF Opened
  <2>2. QED
    BY <1>1, <2>1 DEF OrchInv, TableInv, LockInv, HandlerGood
<1>3. /\ Len(chats) < MaxChats /\ chats' = Append(chats, chat) /\ Release(r)
      /\ tokens' = tokens
      /\ \/ /\ old.token \in DOMAIN tokens
            /\ rows' = save(rows, new) /\ reqs' = [reqs EXCEPT ![r] = mine]
         \/ rows' = rows /\ reqs' = [reqs EXCEPT ![r] = Idle]
  BY <1>1 DEF Opened, Exists
<1>4. ChatsGood(chats) /\ RowsGood(rows, chats, DOMAIN tokens) /\ TableInv
  BY DEF OrchInv, TableInv
<1>5. /\ ProjOf[old.input] \in Projections /\ ProjOf[old.input] \in Keys
      /\ ProjOf[old.input].hist_len = Len(old.input.msgs) /\ Len(old.input.msgs) \in Nat
  BY <1>2, KeysOf
<1>6. /\ chat.proj = ProjOf[old.input] /\ chat.log = <<>> /\ ChatGood(chat)
  BY <1>5, EmptyQueue DEF ChatGood
<1> HIDE DEF chat
<1>7. /\ ChatsGood(chats') /\ Grown(chats, chats')
      /\ n \in DOMAIN chats' /\ chats'[n] = chat /\ Len(chats) \in Nat
      /\ n \in 0 .. MaxChats /\ n # 0
  <2>1. Len(chats) \in Nat /\ MaxChats \in Nat
    BY <1>4, ChatNumbers, BoundsAssumption
  <2>2. n \in 1 .. Len(chats) + 1 /\ n \in 0 .. MaxChats /\ n # 0
    BY <1>3, <2>1
  <2> HIDE DEF n
  <2>3. /\ ChatsGood(chats') /\ Grown(chats, chats')
        /\ DOMAIN chats' = 1 .. Len(chats) + 1 /\ chats'[Len(chats) + 1] = chat
    BY <1>3, <1>4, <1>6, ChatComes
  <2>4. QED
    BY <2>1, <2>2, <2>3 DEF n
<1> HIDE DEF n
<1>8. PICK cs : cs = chats'
  OBVIOUS
<1>9. RowsGood(rows, cs, DOMAIN tokens)
  <2>1. ASSUME NEW row \in ToSet(rows)
        PROVE  RowGood(row, cs, DOMAIN tokens)
    <3>1. row \in Sessions
      BY <1>4, Members DEF RowsGood
    <3>2. RowGood(row, chats, DOMAIN tokens) /\ row.token \in DOMAIN tokens
      BY <1>4 DEF RowsGood, RowGood
    <3>3. ChatsGood(cs) /\ Grown(chats, cs)
      BY <1>7, <1>8
    <3>4. QED
      BY <1>4, <3>1, <3>2, <3>3, RowStays
  <2>2. QED
    BY <1>4, <2>1 DEF RowsGood
<1>10. \A o \in Requests \ {r} : reqs[o].pc = "opening" =>
          /\ ProjOf[reqs[o].input] # ProjOf[old.input]
          /\ ~Resumable(ProjOf[reqs[o].input], rows, cs)
  <2>1. ASSUME NEW o \in Requests \ {r}, reqs[o].pc = "opening"
        PROVE  /\ ProjOf[reqs[o].input] # ProjOf[old.input]
               /\ ~Resumable(ProjOf[reqs[o].input], rows, cs)
    <3>1. ~Resumable(ProjOf[reqs[o].input], rows, chats)
      BY <2>1 DEF OrchInv, TableInv, HandlerGood
    <3>2. PICK k : k = ProjOf[reqs[o].input]
      OBVIOUS
    <3>3. Grown(chats, cs)
      BY <1>7, <1>8
    <3>4. ~Resumable(k, rows, cs)
      BY <1>4, <3>1, <3>2, <3>3, ResumableBefore
    <3>5. QED
      BY <1>1, <1>2, <2>1, <3>2, <3>4, OneOpensEach DEF OrchInv
  <2>2. QED
    BY <2>1
<1>11. CASE rows' = rows /\ reqs' = [reqs EXCEPT ![r] = Idle]
  <2>1. Idle \in Handler /\ HandlerGood(Idle, rows', chats') /\ Idle.pc = "idle"
    BY IdleGood DEF Idle
  <2>2. RowsGood(rows', chats', DOMAIN tokens)
    BY <1>8, <1>9, <1>11
  <2>3. \A o \in Requests \ {r} : reqs[o].pc = "opening" =>
            ~Resumable(ProjOf[reqs[o].input], rows', chats')
    BY <1>8, <1>10, <1>11
  <2>4. TableInv'
    BY <1>3, <1>4, <1>7, <1>11, <2>1, <2>2, <2>3, TablesMove
  <2>5. Releases(r, Idle)
    BY <1>1, <1>2, <1>3, <1>11, <2>1 DEF Releases
  <2>6. QED
    BY <2>4, <2>5, LockLeft DEF OrchInv
<1>12. CASE /\ old.token \in DOMAIN tokens
            /\ rows' = save(rows, new) /\ reqs' = [reqs EXCEPT ![r] = mine]
  <2>1. /\ mine \in Handler /\ mine.pc = "sending" /\ mine.input = old.input
        /\ mine.chat = n /\ mine.parent = 0 /\ mine.token = old.token
    BY <1>7 DEF Handler
  <2> HIDE DEF mine
  <2>2. /\ new \in Sessions /\ new.proj = ProjOf[old.input] /\ new.chat = n
        /\ new.parent = 0 /\ new.token = old.token
    BY <1>5, <2>1, SavedIsSession
  <2> HIDE DEF new
  <2>3. cs[n] = chat /\ n \in DOMAIN cs /\ Len(cs[n].log) = 0
    BY <1>6, <1>7, <1>8
  <2>4. RowGood(new, cs, DOMAIN tokens)
    BY <1>5, <1>6, <1>12, <2>2, <2>3, ReachesStart DEF RowGood
  <2>5. RowsGood(save(rows, new), cs, DOMAIN tokens)
    BY <1>9, <2>2, <2>4, RowSaved
  <2>6. ASSUME NEW o \in Requests \ {r}, reqs[o].pc = "opening"
        PROVE  ~Resumable(ProjOf[reqs[o].input], rows', chats')
    <3>1. PICK k : k = ProjOf[reqs[o].input]
      OBVIOUS
    <3>2. k # new.proj /\ ~Resumable(k, rows, cs)
      BY <1>10, <2>2, <2>6, <3>1
    <3>3. rows \in Seq(Sessions) /\ OneRowEach(rows)
      BY <1>4 DEF RowsGood
    <3>4. ~Resumable(k, save(rows, new), cs)
      BY <2>2, <3>2, <3>3, SavedElsewhere
    <3>5. QED
      BY <1>8, <1>12, <3>1, <3>4
  <2>7. mine.parent + Sent(mine) = 0
    BY <2>1 DEF Sent
  <2>8. HandlerGood(mine, rows', cs)
    BY <1>2, <1>5, <1>6, <1>7, <2>1, <2>3, <2>7, ReachesStart DEF HandlerGood
  <2>9. /\ RowsGood(rows', chats', DOMAIN tokens) /\ HandlerGood(mine, rows', chats')
        /\ reqs' = [reqs EXCEPT ![r] = mine]
    BY <1>8, <1>12, <2>5, <2>8
  <2>10. TableInv'
    BY <1>3, <1>4, <1>7, <2>1, <2>6, <2>9, TablesMove
  <2>11. Releases(r, mine)
    BY <1>1, <1>2, <1>3, <2>1, <2>9 DEF Releases
  <2>12. QED
    BY <2>10, <2>11, LockLeft DEF OrchInv
<1>13. QED
  BY <1>3, <1>11, <1>12

\* Opening fails: the lock is left all the same.
LEMMA OpenFailsKeeps ==
    ASSUME OrchInv, NEW r \in Requests, OpenFails(r)
    PROVE  OrchInv'
<1>1. /\ reqs[r].pc = "opening" /\ Release(r) /\ reqs' = [reqs EXCEPT ![r] = Idle]
      /\ UNCHANGED <<tokens, rows, chats>>
  BY DEF OpenFails
<1>2. Idle.pc = "idle" /\ Head(queues[ProjOf[reqs[r].input]]) = r
  BY <1>1 DEF Idle, OrchInv, LockInv
<1>3. TableInv'
  BY <1>1, IdleGood, HandlerMoves DEF OrchInv
<1>4. Releases(r, Idle)
  BY <1>1, <1>2 DEF Releases
<1>5. QED
  BY <1>3, <1>4, LockLeft DEF OrchInv

\* The plan raises: the request ends.
LEMMA PlanRaisesKeeps ==
    ASSUME OrchInv, NEW r \in Requests, PlanRaises(r)
    PROVE  OrchInv'
BY EndKeeps DEF PlanRaises

\* DeepSeek refuses: the request ends.
LEMMA SendFailsKeeps ==
    ASSUME OrchInv, NEW r \in Requests, SendFails(r)
    PROVE  OrchInv'
BY EndKeeps DEF SendFails, Refused, Sending

\* What a chat is told begins with the user's message.
Spoken(messages) ==
    /\ messages \in Seq(ToSet(messages))
    /\ messages # <<>> => messages[1].role = "user"

\* cs when chat i has been told more.
Told(cs, i, messages) == [cs EXCEPT ![i].log = @ \o messages]

\* What a log holds with more messages.
LEMMA More ==
    ASSUME NEW s, s \in Seq(ToSet(s)), NEW m, m \in Seq(ToSet(m)), NEW t, t = s \o m
    PROVE  /\ t \in Seq(ToSet(t)) /\ Len(t) = Len(s) + Len(m)
           /\ Len(s) \in Nat /\ Len(m) \in Nat
           /\ DOMAIN s = 1 .. Len(s) /\ DOMAIN m = 1 .. Len(m)
           /\ DOMAIN t = 1 .. Len(s) + Len(m)
           /\ \A i \in 1 .. Len(s) : t[i] = s[i]
           /\ \A i \in 1 .. Len(m) : t[Len(s) + i] = m[i]
<1> DEFINE S == ToSet(s) \cup ToSet(m)
<1>1. s \in Seq(S) /\ m \in Seq(S)
  <2>1. ASSUME NEW x, x \in Seq(ToSet(x)), ToSet(x) \subseteq S
        PROVE  x \in Seq(S)
    <3>1. \A i \in 1 .. Len(x) : x[i] \in S
      BY <2>1
    <3>2. x = [i \in 1 .. Len(x) |-> x[i]] /\ Len(x) \in Nat
      BY <2>1
    <3>3. QED
      BY <3>1, <3>2
  <2>2. QED
    BY <2>1
<1> HIDE DEF S
<1>2. /\ t \in Seq(S) /\ Len(t) = Len(s) + Len(m)
      /\ Len(s) \in Nat /\ Len(m) \in Nat
      /\ \A i \in 1 .. Len(s) + Len(m) :
            t[i] = IF i <= Len(s) THEN s[i] ELSE m[i - Len(s)]
  BY <1>1, ConcatProperties
<1>3. t \in Seq(ToSet(t))
  BY <1>2, OwnMembers
<1>4. \A i \in 1 .. Len(s) : t[i] = s[i]
  BY <1>2
<1>5. ASSUME NEW i \in 1 .. Len(m)
      PROVE  t[Len(s) + i] = m[i]
  <2>1. /\ Len(s) + i \in 1 .. Len(s) + Len(m) /\ ~(Len(s) + i <= Len(s))
        /\ (Len(s) + i) - Len(s) = i
    BY <1>2
  <2>2. QED
    BY <1>2, <2>1
<1>6. DOMAIN s = 1 .. Len(s) /\ DOMAIN m = 1 .. Len(m) /\ DOMAIN t = 1 .. Len(t)
  BY <1>1, <1>2
<1>7. QED
  BY <1>2, <1>3, <1>4, <1>5, <1>6

\* What was unanswered stays so, and a user message alone is.
LEMMA StaysUnanswered ==
    ASSUME NEW s, s \in Seq(ToSet(s)), NEW m, Spoken(m), NEW t, t = s \o m
    PROVE  /\ Unanswered(s) => Unanswered(t)
           /\ Len(m) = 1 => Unanswered(t)
<1>1. PICK n, k : n = Len(s) /\ k = Len(m)
  OBVIOUS
<1>2. /\ n \in Nat /\ k \in Nat /\ Len(t) = n + k
      /\ DOMAIN s = 1 .. n /\ DOMAIN t = 1 .. n + k
      /\ \A i \in 1 .. n : t[i] = s[i]
      /\ \A i \in 1 .. k : t[n + i] = m[i]
      /\ k # 0 => m[1].role = "user"
  <2>1. m \in Seq(ToSet(m)) /\ (m # <<>> => m[1].role = "user")
    BY DEF Spoken
  <2>2. k # 0 => m # <<>>
    BY <1>1
  <2>3. QED
    BY <1>1, <2>1, <2>2, More
<1>3. ASSUME Unanswered(s)
      PROVE  Unanswered(t)
  <2>1. PICK i \in 1 .. n : /\ s[i].role = "user"
                            /\ i = n \/ s[i + 1].role = "user"
    BY <1>1, <1>2, <1>3 DEF Unanswered
  <2>2. i \in DOMAIN t /\ t[i].role = "user"
    BY <1>2, <2>1
  <2>3. CASE i = n /\ k = 0
    BY <1>2, <2>2, <2>3 DEF Unanswered
  <2>4. CASE i = n /\ k # 0
    <3>1. 1 \in 1 .. k
      BY <1>2, <2>4
    <3>2. t[i + 1].role = "user"
      BY <1>2, <2>4, <3>1
    <3>3. QED
      BY <2>2, <3>2 DEF Unanswered
  <2>5. CASE i # n
    <3>1. i + 1 \in 1 .. n /\ s[i + 1].role = "user"
      BY <1>2, <2>1, <2>5
    <3>2. t[i + 1].role = "user"
      BY <1>2, <3>1
    <3>3. QED
      BY <2>2, <3>2 DEF Unanswered
  <2>6. QED
    BY <2>3, <2>4, <2>5
<1>4. ASSUME k = 1
      PROVE  Unanswered(t)
  <2>1. 1 \in 1 .. k /\ n + 1 \in DOMAIN t /\ n + 1 = Len(t)
    BY <1>2, <1>4
  <2>2. t[n + 1].role = "user"
    BY <1>2, <1>4, <2>1
  <2>3. QED
    BY <2>1, <2>2 DEF Unanswered
<1>5. QED
  BY <1>1, <1>3, <1>4

\* A chat takes messages.
LEMMA ChatGrows ==
    ASSUME NEW cs, ChatsGood(cs), NEW i \in DOMAIN cs, NEW messages, Spoken(messages),
           NEW ds, ds = Told(cs, i, messages)
    PROVE  /\ ChatsGood(ds) /\ Grown(cs, ds)
           /\ Len(ds[i].log) = Len(cs[i].log) + Len(messages)
           /\ Len(messages) = 1 => Unanswered(ds[i].log)
<1>1. PICK chat, log : chat = cs[i] /\ log = chat.log
  OBVIOUS
<1>2. ChatGood(chat) /\ log \in Seq(ToSet(log))
  BY <1>1 DEF ChatsGood, ChatGood
<1>3. PICK long : long = log \o messages
  OBVIOUS
<1>4. /\ long \in Seq(ToSet(long)) /\ Len(long) = Len(log) + Len(messages)
      /\ Len(log) \in Nat /\ Len(messages) \in Nat
      /\ Unanswered(log) => Unanswered(long)
      /\ Len(messages) = 1 => Unanswered(long)
  <2>1. messages \in Seq(ToSet(messages))
    BY DEF Spoken
  <2>2. QED
    BY <1>2, <1>3, <2>1, More, StaysUnanswered
<1>5. PICK new : new = [account |-> chat.account, token |-> chat.token,
                        proj |-> chat.proj, log |-> long]
  OBVIOUS
<1>6. new = [chat EXCEPT !.log = long]
  <2>1. chat = [account |-> chat.account, token |-> chat.token,
                proj |-> chat.proj, log |-> chat.log]
    BY <1>2 DEF ChatGood
  <2>2. QED
    BY <1>5, <2>1
<1>7. ChatGood(new)
  <2>1. chat.proj \in Projections
    BY <1>2 DEF ChatGood
  <2>2. QED
    BY <1>4, <1>5, <2>1 DEF ChatGood
<1>8. ds = Replaced(cs, i, new)
  BY <1>1, <1>3, <1>6 DEF Told, Replaced
<1>9. cs \in Seq(ToSet(cs)) /\ Len(cs) <= MaxChats
  BY DEF ChatsGood
<1>10. /\ ds \in Seq(ToSet(ds)) /\ Len(ds) = Len(cs)
       /\ DOMAIN cs = 1 .. Len(cs) /\ DOMAIN ds = DOMAIN cs
  BY <1>8, <1>9, ReplacesOne
<1>11. ds[i] = new /\ \A j \in DOMAIN cs \ {i} : ds[j] = cs[j]
  BY <1>8, <1>9, ReplacesOne
<1>12. \A j \in DOMAIN ds : ChatGood(ds[j])
  BY <1>7, <1>10, <1>11 DEF ChatsGood
<1>13. ChatsGood(ds)
  BY <1>9, <1>10, <1>12 DEF ChatsGood
<1>14. new.proj = chat.proj /\ new.log = long
  BY <1>5
<1>15. Grown(cs, ds)
  <2>1. \A j \in DOMAIN cs : Len(cs[j].log) \in Nat
    BY ChatNumbers
  <2>2. ASSUME NEW j \in DOMAIN cs
        PROVE  /\ ds[j].proj = cs[j].proj /\ Len(cs[j].log) <= Len(ds[j].log)
               /\ Unanswered(cs[j].log) => Unanswered(ds[j].log)
    <3>1. CASE j = i
      <4>1. ds[j].proj = chat.proj /\ ds[j].log = long /\ cs[j] = chat
        BY <1>1, <1>11, <1>14, <3>1
      <4>2. /\ Len(cs[j].log) = Len(log) /\ Len(ds[j].log) = Len(log) + Len(messages)
            /\ Len(log) \in Nat /\ Len(messages) \in Nat
        BY <1>1, <1>4, <4>1
      <4>3. QED
        BY <1>1, <1>4, <4>1, <4>2
    <3>2. CASE j # i
      BY <1>11, <2>1, <3>2
    <3>3. QED
      BY <3>1, <3>2
  <2>3. QED
    BY <1>10, <2>2 DEF Grown
<1>16. QED
  BY <1>1, <1>4, <1>11, <1>13, <1>14, <1>15

\* Good rows stay good when chats grow.
LEMMA RowsStay ==
    ASSUME NEW rs, NEW cs, NEW ds, NEW ids, RowsGood(rs, cs, ids),
           ChatsGood(cs), ChatsGood(ds), Grown(cs, ds)
    PROVE  RowsGood(rs, ds, ids)
<1>1. ASSUME NEW row \in ToSet(rs)
      PROVE  RowGood(row, ds, ids)
  <2>1. row \in Sessions
    BY Members DEF RowsGood
  <2>2. RowGood(row, cs, ids) /\ row.token \in ids
    BY DEF RowsGood, RowGood
  <2>3. QED
    BY <2>1, <2>2, RowStays
<1>2. QED
  BY <1>1 DEF RowsGood

\* What a handler that sends knows of its chat.
LEMMA SenderKnows ==
    ASSUME OrchInv, NEW r \in Requests, Sending(reqs[r]), ~Unasked(reqs[r].input)
    PROVE  /\ reqs[r] \in Handler /\ reqs[r].input \in Inputs /\ reqs[r].pc = "sending"
           /\ reqs[r].chat # 0 /\ reqs[r].chat \in DOMAIN chats /\ reqs[r].parent \in Nat
           /\ chats[reqs[r].chat].proj.hist_len <= Len(reqs[r].input.msgs)
           /\ Len(chats[reqs[r].chat].log) \in Nat
           /\ Reaches(reqs[r].parent, chats[reqs[r].chat].log)
<1>1. PICK q \in Handler : q = reqs[r]
  BY DEF OrchInv, TableInv
<1>2. q.pc = "sending" /\ q.input.msgs # <<>> /\ HandlerGood(q, rows, chats)
  BY <1>1 DEF Sending, Unasked, OrchInv, TableInv
<1>3. q.parent + Sent(q) = q.parent /\ q.parent \in Nat
  BY <1>2 DEF Sent, Handler
<1>4. q.chat # 0 /\ q.chat \in DOMAIN chats /\ q.input \in Inputs
      /\ chats[q.chat].proj.hist_len <= Len(q.input.msgs)
      /\ Reaches(q.parent, chats[q.chat].log)
  BY <1>2, <1>3 DEF HandlerGood
<1>5. Len(chats[q.chat].log) \in Nat
  BY <1>4, ChatNumbers DEF OrchInv, TableInv
<1>6. QED
  BY <1>1, <1>2, <1>3, <1>4, <1>5

\* The answer is completed: the handler is about to save.
LEMMA CompletedIs ==
    ASSUME NEW q \in Handler
    PROVE  /\ Completed(q) \in Handler /\ Completed(q).pc = "saving"
           /\ Completed(q).input = q.input /\ Completed(q).chat = q.chat
           /\ Completed(q).parent = q.parent /\ Completed(q).token = q.token
           /\ Completed(q).account = q.account
BY DEF Completed, Handler

\* The chat is told something, and the handler goes on as next.
LEMMA TellKeeps ==
    ASSUME OrchInv, NEW r \in Requests, Sending(reqs[r]), ~Unasked(reqs[r].input),
           NEW messages, Spoken(messages), NEW next \in Handler, Tell(r, messages, next),
           next.pc \notin {"waiting", "opening"},
           HandlerGood(next, rows, Told(chats, reqs[r].chat, messages))
    PROVE  OrchInv'
<1>1. PICK i : i = reqs[r].chat
  OBVIOUS
<1>2. i \in DOMAIN chats /\ reqs[r].pc = "sending"
  BY <1>1, SenderKnows
<1>3. PICK cs : cs = Told(chats, i, messages)
  OBVIOUS
<1>4. /\ chats' = cs /\ reqs' = [reqs EXCEPT ![r] = next]
      /\ UNCHANGED <<tokens, rows, queues>>
  BY <1>1, <1>3 DEF Tell, Told
<1>5. ChatsGood(chats) /\ RowsGood(rows, chats, DOMAIN tokens) /\ TableInv
  BY DEF OrchInv, TableInv
<1>6. ChatsGood(cs) /\ Grown(chats, cs)
  BY <1>2, <1>3, <1>5, ChatGrows
<1>7. RowsGood(rows, cs, DOMAIN tokens)
  BY <1>5, <1>6, RowsStay
<1>8. HandlerGood(next, rows, cs)
  BY <1>1, <1>3
<1>9. ASSUME NEW o \in Requests \ {r}, reqs[o].pc = "opening"
      PROVE  ~Resumable(ProjOf[reqs[o].input], rows', chats')
  <2>1. PICK k : k = ProjOf[reqs[o].input]
    OBVIOUS
  <2>2. ~Resumable(k, rows, chats)
    BY <1>9, <2>1 DEF OrchInv, TableInv, HandlerGood
  <2>3. ~Resumable(k, rows, cs)
    BY <1>5, <1>6, <2>2, ResumableBefore
  <2>4. QED
    BY <1>4, <2>1, <2>3
<1>10. /\ ChatsGood(chats') /\ Grown(chats, chats') /\ RowsGood(rows', chats', DOMAIN tokens)
       /\ HandlerGood(next, rows', chats')
  BY <1>4, <1>6, <1>7, <1>8
<1>11. TableInv'
  BY <1>4, <1>5, <1>9, <1>10, TablesMove
<1>12. LockInv'
  BY <1>2, <1>4, LockElsewhere
<1>13. QED
  BY <1>11, <1>12 DEF OrchInv

\* The three things a chat is told.
LEMMA SpokenAre ==
    ASSUME NEW q
    PROVE  /\ Spoken(<<>>) /\ Len(<<>>) = 0
           /\ Spoken(<<UserMessage(q)>>) /\ Len(<<UserMessage(q)>>) = 1
           /\ Spoken(<<UserMessage(q), AnswerTo(q)>>)
           /\ Len(<<UserMessage(q), AnswerTo(q)>>) = 2
<1>1. PICK x, y : x = UserMessage(q) /\ y = AnswerTo(q)
  OBVIOUS
<1>2. x.role = "user"
  BY <1>1 DEF UserMessage
<1>3. /\ <<>> \in Seq({}) /\ <<x>> \in Seq({x}) /\ <<x, y>> \in Seq({x, y})
      /\ Len(<<>>) = 0 /\ Len(<<x>>) = 1 /\ Len(<<x, y>>) = 2
      /\ <<x>>[1] = x /\ <<x, y>>[1] = x
  OBVIOUS
<1>4. /\ <<>> \in Seq(ToSet(<<>>)) /\ <<x>> \in Seq(ToSet(<<x>>))
      /\ <<x, y>> \in Seq(ToSet(<<x, y>>))
  BY <1>3, OwnMembers
<1>5. QED
  BY <1>1, <1>2, <1>3, <1>4 DEF Spoken

\* A handler that has completed is good when its parent, two further, is reached.
LEMMA CompletedGood ==
    ASSUME OrchInv, NEW r \in Requests, Sending(reqs[r]), ~Unasked(reqs[r].input),
           NEW messages, Spoken(messages),
           Reaches(reqs[r].parent + 2, Told(chats, reqs[r].chat, messages)[reqs[r].chat].log)
    PROVE  HandlerGood(Completed(reqs[r]), rows, Told(chats, reqs[r].chat, messages))
<1>1. PICK q \in Handler : q = reqs[r]
  BY SenderKnows
<1>2. PICK next : next = Completed(q)
  OBVIOUS
<1>3. /\ next.pc = "saving" /\ next.input = q.input /\ next.chat = q.chat
      /\ next.parent = q.parent
  BY <1>2, CompletedIs
<1>4. /\ q.chat # 0 /\ q.chat \in DOMAIN chats /\ q.input \in Inputs
      /\ chats[q.chat].proj.hist_len <= Len(q.input.msgs)
  BY <1>1, SenderKnows
<1>5. PICK cs : cs = Told(chats, q.chat, messages)
  OBVIOUS
<1>6. Grown(chats, cs)
  BY <1>4, <1>5, ChatGrows DEF OrchInv, TableInv
<1>7. q.chat \in DOMAIN cs /\ cs[q.chat].proj = chats[q.chat].proj
  BY <1>4, <1>6 DEF Grown
<1>8. next.parent + Sent(next) = q.parent + 2
  BY <1>3 DEF Sent
<1>9. Reaches(q.parent + 2, cs[q.chat].log)
  BY <1>1, <1>5
<1>10. HandlerGood(next, rows, cs)
  BY <1>3, <1>4, <1>7, <1>8, <1>9 DEF HandlerGood
<1>11. QED
  BY <1>1, <1>2, <1>5, <1>10

\* The prompt is sent and answered.
LEMMA SendKeeps ==
    ASSUME OrchInv, NEW r \in Requests, Send(r)
    PROVE  OrchInv'
<1>1. PICK q, messages : /\ q = reqs[r] /\ q \in Handler
                         /\ messages = <<UserMessage(q), AnswerTo(q)>>
  BY DEF OrchInv, TableInv
<1>2. /\ Sending(q) /\ ~Unasked(q.input) /\ q.parent <= Len(chats[q.chat].log)
      /\ Tell(r, messages, Completed(q))
  BY <1>1 DEF Send, KnownParent
<1>3. /\ q.chat \in DOMAIN chats /\ q.parent \in Nat
      /\ Len(chats[q.chat].log) \in Nat
  BY <1>1, <1>2, SenderKnows
<1>4. Spoken(messages) /\ Len(messages) = 2
  BY <1>1, SpokenAre
<1>5. PICK cs : cs = Told(chats, q.chat, messages)
  OBVIOUS
<1>6. Len(cs[q.chat].log) = Len(chats[q.chat].log) + 2
  <2>1. ChatsGood(chats)
    BY DEF OrchInv, TableInv
  <2>2. PICK i \in DOMAIN chats : i = q.chat
    BY <1>3
  <2>3. PICK ds : ds = Told(chats, i, messages)
    OBVIOUS
  <2>4. Spoken(messages)
    BY <1>4
  <2>5. Len(ds[i].log) = Len(chats[i].log) + Len(messages)
    BY <2>1, <2>3, <2>4, ChatGrows
  <2>6. QED
    BY <1>4, <1>5, <2>2, <2>3, <2>5
<1>7. Reaches(q.parent + 2, cs[q.chat].log)
  BY <1>2, <1>3, <1>6 DEF Reaches
<1>8. HandlerGood(Completed(q), rows, Told(chats, q.chat, messages))
  BY <1>1, <1>2, <1>4, <1>5, <1>7, CompletedGood
<1>9. Completed(q) \in Handler /\ Completed(q).pc = "saving"
  BY <1>1, CompletedIs
<1>10. QED
  BY <1>1, <1>2, <1>4, <1>8, <1>9, TellKeeps

\* The answer is empty: the parent is counted past a chat that leaves a message
\* unanswered, or already did.
LEMMA EmptyTurnKeeps ==
    ASSUME OrchInv, NEW r \in Requests, EmptyTurn(r)
    PROVE  OrchInv'
<1>1. PICK q \in Handler : q = reqs[r]
  BY DEF OrchInv, TableInv
<1>2. PICK messages \in {<<UserMessage(q)>>, <<>>} :
          /\ Sending(q) /\ ~Unasked(q.input) /\ Tell(r, messages, Completed(q))
          /\ messages = <<UserMessage(q)>> =>
                "empty" \in Faults \/ ~(q.parent <= Len(chats[q.chat].log))
          /\ messages = <<>> => ~(q.parent <= Len(chats[q.chat].log))
  BY <1>1 DEF EmptyTurn, KnownParent
<1>3. /\ q.chat \in DOMAIN chats /\ q.parent \in Nat
      /\ Reaches(q.parent, chats[q.chat].log)
  BY <1>1, <1>2, SenderKnows
<1>4. /\ "empty" \in Faults
      /\ ~(q.parent <= Len(chats[q.chat].log)) => Unanswered(chats[q.chat].log)
  BY <1>2, <1>3 DEF Reaches
<1>5. Spoken(messages) /\ (messages = <<>> \/ Len(messages) = 1)
  BY <1>2, SpokenAre
<1>6. PICK cs : cs = Told(chats, q.chat, messages)
  OBVIOUS
<1>7. /\ Unanswered(chats[q.chat].log) => Unanswered(cs[q.chat].log)
      /\ Len(messages) = 1 => Unanswered(cs[q.chat].log)
  <2>1. Grown(chats, cs) /\ (Len(messages) = 1 => Unanswered(cs[q.chat].log))
    BY <1>3, <1>5, <1>6, ChatGrows DEF OrchInv, TableInv
  <2>2. QED
    BY <1>3, <2>1 DEF Grown
<1>8. Reaches(q.parent + 2, cs[q.chat].log)
  BY <1>2, <1>4, <1>5, <1>7 DEF Reaches
<1>9. HandlerGood(Completed(q), rows, Told(chats, q.chat, messages))
  BY <1>1, <1>2, <1>5, <1>6, <1>8, CompletedGood
<1>10. Completed(q) \in Handler /\ Completed(q).pc = "saving"
  BY CompletedIs
<1>11. QED
  BY <1>1, <1>2, <1>5, <1>9, <1>10, TellKeeps

\* The answer breaks off: the chat has grown, and the request ends.
LEMMA BreaksOffKeeps ==
    ASSUME OrchInv, NEW r \in Requests, BreaksOff(r)
    PROVE  OrchInv'
<1>1. PICK q : q = reqs[r]
  OBVIOUS
<1>2. PICK messages \in {<<UserMessage(q)>>, <<UserMessage(q), AnswerTo(q)>>} :
          Sending(q) /\ ~Unasked(q.input) /\ Tell(r, messages, Idle)
  BY <1>1 DEF BreaksOff
<1>3. Spoken(messages)
  BY <1>2, SpokenAre
<1>4. Idle.pc = "idle"
  BY DEF Idle
<1>5. QED
  BY <1>1, <1>2, <1>3, <1>4, IdleGood, TellKeeps

\* There is nothing to ask, and the empty text is completed.
LEMMA SendNothingKeeps ==
    ASSUME OrchInv, NEW r \in Requests, SendNothing(r)
    PROVE  OrchInv'
<1>1. PICK q \in Handler : q = reqs[r] /\ HandlerGood(q, rows, chats)
  BY DEF OrchInv, TableInv
<1>2. /\ q.pc = "sending" /\ q.input.msgs = <<>>
      /\ reqs' = [reqs EXCEPT ![r] = Completed(q)] /\ UNCHANGED <<tokens, rows, chats, queues>>
  BY <1>1 DEF SendNothing, Sending, Unasked
<1>3. PICK next : next = Completed(q)
  OBVIOUS
<1>4. /\ next \in Handler /\ next.pc = "saving" /\ next.input = q.input
      /\ next.chat = q.chat
  BY <1>3, CompletedIs
<1>5. HandlerGood(next, rows, chats)
  BY <1>1, <1>2, <1>4 DEF HandlerGood
<1>6. TableInv'
  BY <1>2, <1>3, <1>4, <1>5, HandlerMoves DEF OrchInv
<1>7. LockInv'
  BY <1>1, <1>2, <1>3, <1>4, LockElsewhere
<1>8. QED
  BY <1>6, <1>7 DEF OrchInv

\* The row is saved two messages further, and the request ends.
LEMMA FinishKeeps ==
    ASSUME OrchInv, NEW r \in Requests, Finish(r)
    PROVE  OrchInv'
<1>1. PICK old \in Handler : old = reqs[r]
  BY DEF OrchInv, TableInv
<1> DEFINE new == Row(NextProjOf[old.input], old, old.parent + 2)
<1>2. /\ old.pc = "saving" /\ HandlerGood(old, rows, chats)
      /\ UNCHANGED <<tokens, chats, queues>> /\ reqs' = [reqs EXCEPT ![r] = Idle]
      /\ \/ old.token \in DOMAIN tokens /\ rows' = save(rows, new)
         \/ rows' = rows
  <2>1. old.pc = "saving" /\ HandlerGood(old, rows, chats)
    BY <1>1 DEF Finish, OrchInv, TableInv
  <2>2. QED
    BY <1>1, <2>1 DEF Finish, Exists
<1>3. CASE rows' = rows
  BY <1>1, <1>2, <1>3, EndKeeps
<1>4. CASE old.token \in DOMAIN tokens /\ rows' = save(rows, new)
  <2>1. ChatsGood(chats) /\ RowsGood(rows, chats, DOMAIN tokens) /\ TableInv
    BY DEF OrchInv, TableInv
  <2>2. /\ old.input \in Inputs /\ old.chat \in DOMAIN chats /\ old.parent + 2 \in Nat
        /\ chats[old.chat].proj.hist_len <= Len(old.input.msgs)
        /\ old.input.msgs # <<>> => Reaches(old.parent + 2, chats[old.chat].log)
    <3>1. old.parent + Sent(old) = old.parent + 2 /\ old.parent \in Nat
      BY <1>2 DEF Sent, Handler
    <3>2. QED
      BY <1>2, <3>1 DEF HandlerGood
  <2>3. /\ NextProjOf[old.input] \in Keys
        /\ NextProjOf[old.input].hist_len = Len(old.input.msgs) + 2
        /\ Len(old.input.msgs) \in Nat
        /\ NextProjOf[old.input].tail # <<>> => old.input.msgs # <<>>
    <3>1. Latest(<<>>, WindowK) = <<>>
      BY WindowAssumption DEF Latest
    <3>2. QED
      BY <2>2, <3>1, KeysOf
  <2>4. /\ new \in Sessions /\ new.proj = NextProjOf[old.input] /\ new.chat = old.chat
        /\ new.parent = old.parent + 2 /\ new.token = old.token
    BY <2>2, <2>3, SavedIsSession
  <2> HIDE DEF new
  <2>5. chats[old.chat].proj.hist_len \in Nat
    BY <2>1, <2>2, ChatNumbers
  <2>6. RowGood(new, chats, DOMAIN tokens)
    BY <1>4, <2>2, <2>3, <2>4, <2>5 DEF RowGood
  <2>7. PICK rs : rs = rows'
    OBVIOUS
  <2>8. RowsGood(rs, chats, DOMAIN tokens)
    BY <1>4, <2>1, <2>4, <2>6, <2>7, RowSaved
  <2>9. ASSUME NEW o \in Requests \ {r}, reqs[o].pc = "opening"
        PROVE  ~Resumable(ProjOf[reqs[o].input], rows', chats')
    <3>1. PICK k : k = ProjOf[reqs[o].input]
      OBVIOUS
    <3>2. ~Resumable(k, rows, chats)
      BY <2>9, <3>1 DEF OrchInv, TableInv, HandlerGood
    <3>3. new.proj = k => chats[new.chat].proj # k
      <4>1. new.proj.hist_len # chats[new.chat].proj.hist_len
        BY <2>2, <2>3, <2>4, <2>5
      <4>2. QED
        BY <4>1
    <3>4. rows \in Seq(Sessions) /\ OneRowEach(rows)
      BY <2>1 DEF RowsGood
    <3>5. ~Resumable(k, save(rows, new), chats)
      BY <2>4, <3>2, <3>3, <3>4, SavedElsewhere
    <3>6. QED
      BY <1>2, <1>4, <3>1, <3>5
  <2>10. Idle.pc = "idle" /\ Idle \in Handler /\ HandlerGood(Idle, rows', chats')
    BY IdleGood DEF Idle
  <2>11. ChatsGood(chats') /\ Grown(chats, chats') /\ RowsGood(rows', chats', DOMAIN tokens)
    BY <1>2, <2>1, <2>7, <2>8, GrownSame
  <2>12. TableInv'
    BY <1>2, <2>1, <2>9, <2>10, <2>11, TablesMove
  <2>13. LockInv'
    BY <1>1, <1>2, <2>10, LockElsewhere
  <2>14. QED
    BY <2>12, <2>13 DEF OrchInv
<1>5. QED
  BY <1>2, <1>3, <1>4

-----------------------------------------------------------------------------
(***************************************************************************)
(* The administrator's steps and the restart, and the invariant.           *)
(***************************************************************************)
\* What the handlers and their locks are is untouched by the token table.
LEMMA TokensMove ==
    ASSUME OrchInv, TokensGood', \A row \in ToSet(rows) : row.token \in DOMAIN tokens',
           UNCHANGED <<rows, chats, queues, reqs>>
    PROVE  OrchInv'
<1>1. RowsGood(rows, chats, DOMAIN tokens')
  BY DEF OrchInv, TableInv, RowsGood, RowGood
<1>2. TableInv'
  BY <1>1 DEF OrchInv, TableInv
<1>3. LockInv'
  BY DEF OrchInv, LockInv
<1>4. QED
  BY <1>2, <1>3 DEF OrchInv

\* A token comes, under an id no token has.
LEMMA TokenComes ==
    ASSUME TokensGood, NEW secret \in Secrets, AddToken(secret)
    PROVE  \E id \in 1 .. MaxTokens :
              /\ id \notin DOMAIN tokens /\ DOMAIN tokens' = DOMAIN tokens \cup {id}
              /\ tokens'[id] = secret /\ \A o \in DOMAIN tokens : tokens'[o] = tokens[o]
<1> DEFINE top == Max(DOMAIN tokens \cup {0})
<1>1. /\ top \in Nat /\ \A id \in DOMAIN tokens : id <= top
      /\ DOMAIN tokens \subseteq 1 .. MaxTokens /\ MaxTokens \in Nat
  <2>1. DOMAIN tokens \subseteq 1 .. MaxTokens /\ MaxTokens \in Nat
    BY BoundsAssumption DEF TokensGood
  <2>2. QED
    BY <2>1, FreshId
<1>2. /\ top < MaxTokens
      /\ tokens' = [id \in DOMAIN tokens \cup {top + 1} |->
                       IF id = top + 1 THEN secret ELSE tokens[id]]
  BY DEF AddToken, add
<1> HIDE DEF top
<1>3. top + 1 \in 1 .. MaxTokens /\ top + 1 \notin DOMAIN tokens
  BY <1>1, <1>2
<1>4. /\ DOMAIN tokens' = DOMAIN tokens \cup {top + 1}
      /\ tokens'[top + 1] = secret /\ \A o \in DOMAIN tokens : tokens'[o] = tokens[o]
  BY <1>2, <1>3
<1>5. QED
  BY <1>3, <1>4

\* A token comes.
LEMMA AddTokenKeeps ==
    ASSUME OrchInv, NEW secret \in Secrets, AddToken(secret)
    PROVE  OrchInv'
<1>1. TokensGood
  BY DEF OrchInv, TableInv
<1>2. PICK id \in 1 .. MaxTokens :
              /\ id \notin DOMAIN tokens /\ DOMAIN tokens' = DOMAIN tokens \cup {id}
              /\ tokens'[id] = secret /\ \A o \in DOMAIN tokens : tokens'[o] = tokens[o]
  BY <1>1, TokenComes
<1>3. TokensGood'
  BY <1>1, <1>2 DEF TokensGood
<1>4. \A row \in ToSet(rows) : row.token \in DOMAIN tokens'
  BY <1>2 DEF OrchInv, TableInv, RowsGood, RowGood
<1>5. UNCHANGED <<rows, chats, queues, reqs>>
  BY DEF AddToken
<1>6. QED
  BY <1>3, <1>4, <1>5, TokensMove

\* A token that no row names goes.
LEMMA DeleteTokenKeeps ==
    ASSUME OrchInv, NEW id \in DOMAIN tokens, DeleteToken(id)
    PROVE  OrchInv'
<1>1. /\ UNCHANGED <<rows, chats, queues, reqs>>
      /\ tokens' = [o \in DOMAIN tokens \ {id} |-> tokens[o]]
      /\ \A row \in ToSet(rows) : row.token # id
  BY DEF DeleteToken, delete, Referenced
<1>2. TokensGood'
  BY <1>1 DEF OrchInv, TableInv, TokensGood
<1>3. \A row \in ToSet(rows) : row.token \in DOMAIN tokens'
  BY <1>1 DEF OrchInv, TableInv, RowsGood, RowGood
<1>4. QED
  BY <1>1, <1>2, <1>3, TokensMove

\* Sessions go.
LEMMA PruneSessionsKeeps ==
    ASSUME OrchInv, NEW n \in 1 .. Len(rows), PruneSessions(n)
    PROVE  OrchInv'
<1>1. rows' = prune_ttl(rows, n) /\ UNCHANGED <<tokens, chats, queues, reqs>>
  BY DEF PruneSessions
<1>2. RowsGood(rows, chats, DOMAIN tokens)
  BY DEF OrchInv, TableInv
<1>3. PICK rs : rs = prune_ttl(rows, n)
  OBVIOUS
<1>4. rs \in Seq(Sessions) /\ ToSet(rs) \subseteq ToSet(rows) /\ OneRowEach(rs)
  BY <1>2, <1>3, PruneRows DEF RowsGood
<1>5. RowsGood(rs, chats, DOMAIN tokens)
  BY <1>2, <1>4 DEF RowsGood
<1>6. ASSUME NEW o \in Requests
      PROVE  HandlerGood(reqs[o], rs, chats)
  <2>1. HandlerGood(reqs[o], rows, chats)
    BY DEF OrchInv, TableInv
  <2>2. PICK k : k = ProjOf[reqs[o].input]
    OBVIOUS
  <2>3. ~Resumable(k, rows, chats) => ~Resumable(k, rs, chats)
    BY <1>4, FewerRows
  <2>4. QED
    BY <2>1, <2>2, <2>3 DEF HandlerGood
<1>7. TableInv'
  <2>1. TokensGood'
    BY <1>1 DEF OrchInv, TableInv, TokensGood
  <2>2. QED
    BY <1>1, <1>3, <1>5, <1>6, <2>1 DEF OrchInv, TableInv
<1>8. LockInv'
  BY <1>1 DEF OrchInv, LockInv
<1>9. QED
  BY <1>7, <1>8 DEF OrchInv

\* A client leaves, and its handler the queue it is in.
LEMMA LeavesKeeps ==
    ASSUME OrchInv, NEW r \in Requests, Leaves(r)
    PROVE  OrchInv'
<1>1. /\ reqs' = [reqs EXCEPT ![r] = Idle] /\ UNCHANGED <<tokens, rows, chats>>
      /\ reqs[r].pc # "idle"
  BY DEF Leaves
<1>2. CASE reqs[r].pc \in {"waiting", "opening"}
  <2>1. PICK queue : queue = queues[ProjOf[reqs[r].input]]
    OBVIOUS
  <2>2. PICK i \in DOMAIN queue :
            /\ queue[i] = r
            /\ queues' = [queues EXCEPT ![ProjOf[reqs[r].input]] = RemoveAt(queue, i)]
    BY <1>2, <2>1 DEF Leaves
  <2>3. queue \in Seq(Requests) /\ IsInjective(queue)
    BY <1>1, <2>1, InQueue
  <2>4. PICK rest : rest = RemoveAt(queue, i)
    OBVIOUS
  <2>5. Without(queue, r, rest)
    <3>1. /\ rest \in Seq(Requests) /\ IsInjective(rest)
          /\ ToSet(rest) = ToSet(queue) \ {queue[i]}
          /\ Head(queue) # queue[i] => Head(rest) = Head(queue)
      BY <2>2, <2>3, <2>4, TakenOut
    <3>2. QED
      BY <2>2, <3>1 DEF Without
  <2>6. Idle.pc = "idle"
    BY DEF Idle
  <2>7. LockInv'
    <3>1. Quits(r, Idle, rest)
      BY <1>1, <1>2, <2>1, <2>2, <2>4, <2>5, <2>6 DEF Quits
    <3>2. QED
      BY <3>1, LockQuit
  <2>8. TableInv'
    BY <1>1, IdleGood, HandlerMoves DEF OrchInv
  <2>9. QED
    BY <2>7, <2>8 DEF OrchInv
<1>3. CASE reqs[r].pc \notin {"waiting", "opening"}
  <2>1. queues' = queues
    BY <1>3 DEF Leaves
  <2>2. QED
    BY <1>1, <1>3, <2>1, EndKeeps
<1>4. QED
  BY <1>2, <1>3

\* The process goes down: no handler and no lock is left.
LEMMA RestartKeeps ==
    ASSUME OrchInv, Restart
    PROVE  OrchInv'
<1>1. /\ \A r \in Requests : reqs'[r] = Idle
      /\ reqs' = [r \in Requests |-> Idle]
      /\ queues' = [p \in Projections |-> <<>>] /\ UNCHANGED <<tokens, rows, chats>>
  BY DEF Restart
<1>2. Idle.pc = "idle"
  BY DEF Idle
<1>3. TableInv'
  <2>1. TokensGood'
    BY <1>1 DEF OrchInv, TableInv, TokensGood
  <2>2. QED
    BY <1>1, <2>1, IdleGood DEF OrchInv, TableInv
<1>4. LockInv'
  BY <1>1, <1>2, NoMembers DEF LockInv
<1>5. QED
  BY <1>3, <1>4 DEF OrchInv

\* OrchInv is inductive: no step of a handler, of DeepSeek, of the administrator
\* or of the process breaks it (v2/pipeline/orchestrator.py:78-191, v2/store).
THEOREM Invariance == Spec => []OrchInv
<1>1. ASSUME Init
      PROVE  OrchInv
  <2>1. /\ tokens = <<>> /\ rows = <<>> /\ chats = <<>>
        /\ queues = [p \in Projections |-> <<>>] /\ reqs = [r \in Requests |-> Idle]
    BY <1>1 DEF Init
  <2>2. TokensGood
    BY <2>1 DEF TokensGood
  <2>3. ChatsGood(chats)
    BY <2>1, NoMembers, BoundsAssumption DEF ChatsGood
  <2>4. RowsGood(rows, chats, DOMAIN tokens)
    BY <2>1, NoMembers DEF RowsGood, OneRowEach
  <2>5. TableInv
    BY <2>1, <2>2, <2>3, <2>4, IdleGood DEF TableInv
  <2>6. LockInv
    BY <2>1, NoMembers DEF LockInv, Idle
  <2>7. QED
    BY <2>5, <2>6 DEF OrchInv
<1>2. ASSUME OrchInv, [Next]_vars
      PROVE  OrchInv'
  <2>1. CASE \E r \in Requests, input \in Inputs : Arrive(r, input)
    BY <1>2, <2>1, ArriveKeeps
  <2>2. ASSUME NEW r \in Requests, Handle(r)
        PROVE  OrchInv'
    BY <1>2, <2>2, PickKeeps, EnterKeeps, OpenedKeeps, OpenFailsKeeps, PlanRaisesKeeps,
       SendNothingKeeps, SendKeeps, EmptyTurnKeeps, SendFailsKeeps, BreaksOffKeeps,
       FinishKeeps DEF Handle
  <2>3. CASE \E secret \in Secrets : AddToken(secret)
    BY <1>2, <2>3, AddTokenKeeps
  <2>4. CASE \E id \in DOMAIN tokens : DeleteToken(id)
    BY <1>2, <2>4, DeleteTokenKeeps
  <2>5. CASE \E n \in 1 .. Len(rows) : PruneSessions(n)
    BY <1>2, <2>5, PruneSessionsKeeps
  <2>6. CASE Restart
    BY <1>2, <2>6, RestartKeeps
  <2>7. ASSUME NEW r \in Requests, Leaves(r)
        PROVE  OrchInv'
    BY <1>2, <2>7, LeavesKeeps
  <2>8. CASE UNCHANGED vars
    BY <1>2, <2>8 DEF vars, OrchInv, TableInv, LockInv, TokensGood
  <2>9. QED
    BY <1>2, <2>1, <2>2, <2>3, <2>4, <2>5, <2>6, <2>7, <2>8 DEF Next
<1>3. QED
  BY <1>1, <1>2, PTL DEF Spec

\* Every table, handler and lock has the shape the code gives it: one row for a
\* projection, for a token that exists; and a lock's queue is exactly who opens
\* a chat under it and who waits for it (v2/pipeline/orchestrator.py:91-110, db.py:79).
THEOREM TypeCorrect == Spec => []OrchestratorTypeOK
<1>1. ASSUME OrchInv
      PROVE  OrchestratorTypeOK
  <2>1. DOMAIN tokens \subseteq 1 .. MaxTokens /\ \A id \in DOMAIN tokens : tokens[id] \in Secrets
    BY <1>1 DEF OrchInv, TableInv, TokensGood
  <2>2. /\ Len(chats) <= MaxChats /\ \A i \in DOMAIN chats : chats[i].proj \in Projections
    BY <1>1 DEF OrchInv, TableInv, ChatsGood, ChatGood
  <2>3. ASSUME NEW i \in DOMAIN rows
        PROVE  /\ rows[i].chat \in DOMAIN chats /\ rows[i].parent \in Nat
               /\ rows[i].token \in DOMAIN tokens
               /\ \A j \in DOMAIN rows : rows[i].proj = rows[j].proj => i = j
    <3>1. rows \in Seq(Sessions) /\ OneRowEach(rows)
      BY <1>1 DEF OrchInv, TableInv, RowsGood
    <3>2. rows[i] \in Sessions /\ rows[i] \in ToSet(rows)
      BY <3>1, Members DEF ToSet
    <3>3. RowGood(rows[i], chats, DOMAIN tokens)
      BY <1>1, <3>2 DEF OrchInv, TableInv, RowsGood
    <3>4. QED
      BY <3>1, <3>2, <3>3 DEF OneRowEach, RowGood, Sessions
  <2>4. queues \in [Projections -> Seq(Requests)] /\ reqs \in [Requests -> Handler]
    BY <1>1 DEF OrchInv, TableInv, LockInv
  <2>5. ASSUME NEW p \in Projections
        PROVE  /\ IsInjective(queues[p])
               /\ ToSet(queues[p]) = {r \in Requests :
                      /\ reqs[r].pc \in {"waiting", "opening"} /\ ProjOf[reqs[r].input] = p}
               /\ \A i \in DOMAIN queues[p] : reqs[queues[p][i]].pc = "opening" => i = 1
    <3>1. PICK q \in Seq(Requests) : q = queues[p] /\ IsInjective(q)
      BY <1>1, <2>4 DEF OrchInv, LockInv
    <3>2. /\ DOMAIN q = 1 .. Len(q) /\ Len(q) \in Nat /\ ToSet(q) \subseteq Requests
          /\ \A i \in DOMAIN q : q[i] \in ToSet(q)
      BY <3>1, Members DEF ToSet
    <3>3. \A r \in Requests : r \in ToSet(q) <=> /\ reqs[r].pc \in {"waiting", "opening"}
                                                 /\ ProjOf[reqs[r].input] = p
      BY <1>1, <3>1 DEF OrchInv, LockInv
    <3>4. ToSet(q) = {r \in Requests : /\ reqs[r].pc \in {"waiting", "opening"}
                                       /\ ProjOf[reqs[r].input] = p}
      BY <3>2, <3>3
    <3>5. ASSUME NEW i \in DOMAIN q, reqs[q[i]].pc = "opening"
          PROVE  i = 1
      <4>1. q[i] \in Requests /\ ProjOf[reqs[q[i]].input] = p
        BY <3>2, <3>3
      <4>2. q[i] = Head(q)
        BY <1>1, <3>1, <3>5, <4>1 DEF OrchInv, LockInv
      <4>3. Head(q) = q[1] /\ 1 \in DOMAIN q
        BY <3>1, <3>2
      <4>4. QED
        BY <3>1, <4>2, <4>3 DEF IsInjective
    <3>6. QED
      BY <3>1, <3>4, <3>5
  <2>6. QED
    BY <2>1, <2>2, <2>3, <2>4, <2>5 DEF OrchestratorTypeOK
<1>2. QED
  BY <1>1, Invariance, PTL

\* Where DeepSeek never FINISHes an answer without a fragment, a session points at a
\* message its chat holds, whatever two requests that go by one row, a broken answer,
\* a client that leaves or a restart left undone (v2/pipeline/orchestrator.py:168-175).
THEOREM ParentsExist ==
    ASSUME "empty" \notin Faults
    PROVE  Spec => []SessionParentExists
<1>1. ASSUME OrchInv
      PROVE  SessionParentExists
  BY <1>1 DEF OrchInv, TableInv, RowsGood, RowGood, Reaches, SessionParentExists
<1>2. QED
  BY <1>1, Invariance, PTL

\* With empty turns, and whatever else goes wrong, a session that points past the
\* end of its chat is one of a chat that holds a message no answer follows: where all
\* are answered, nothing counts a parent up too far (v2/pipeline/orchestrator.py:148-175).
THEOREM OverrunsUnanswered == Spec => []OverrunMeansUnanswered
<1>1. ASSUME OrchInv
      PROVE  OverrunMeansUnanswered
  BY <1>1 DEF OrchInv, TableInv, RowsGood, RowGood, Reaches, OverrunMeansUnanswered
<1>2. QED
  BY <1>1, Invariance, PTL

\* The chat that is opened is for a conversation the store holds no chat of.
LEMMA OpensOnce ==
    ASSUME OrchInv, [Next]_vars
    PROVE  \A i \in DOMAIN chats' \ DOMAIN chats : ~OpenedAgain(chats'[i].proj)
<1>1. CASE \E r \in Requests : Opened(r)
  <2>1. PICK r \in Requests : Opened(r)
    BY <1>1
  <2>2. PICK old \in Handler : old = reqs[r]
    BY DEF OrchInv, TableInv
  <2>3. PICK chat : chat = [account |-> old.account, token |-> old.token,
                            proj |-> ProjOf[old.input], log |-> <<>>]
    OBVIOUS
  <2>4. chats' = Append(chats, chat) /\ old.pc = "opening"
    BY <2>1, <2>2, <2>3 DEF Opened
  <2>5. chats \in Seq(ToSet(chats))
    BY DEF OrchInv, TableInv, ChatsGood
  <2>6. \A i \in DOMAIN chats' \ DOMAIN chats : chats'[i] = chat
    BY <2>4, <2>5, GrowsByOne
  <2>7. ~Resumable(ProjOf[old.input], rows, chats)
    BY <2>2, <2>4 DEF OrchInv, TableInv, HandlerGood
  <2>8. QED
    BY <2>3, <2>6, <2>7 DEF Resumable, OpenedAgain
<1>2. CASE DOMAIN chats' = DOMAIN chats
  BY <1>2
<1>3. ASSUME NEW r \in Requests, NEW messages, NEW next, Tell(r, messages, next)
      PROVE  DOMAIN chats' = DOMAIN chats
  BY <1>3 DEF Tell
<1>4. ASSUME NEW r \in Requests, Send(r) \/ EmptyTurn(r) \/ BreaksOff(r)
      PROVE  DOMAIN chats' = DOMAIN chats
  BY <1>3, <1>4 DEF Send, EmptyTurn, BreaksOff
<1>5. ASSUME NEW r \in Requests, Handle(r) \/ Leaves(r), ~Opened(r)
      PROVE  DOMAIN chats' = DOMAIN chats
  BY <1>4, <1>5 DEF Handle, Pick, Enter, OpenFails, PlanRaises, SendNothing, SendFails,
     Finish, Leaves
<1>6. QED
  BY <1>1, <1>2, <1>5
     DEF Next, vars, Arrive, AddToken, DeleteToken, PruneSessions, Restart

\* No chat is opened for a conversation while the store holds one opened for
\* it: the second lookup under the lock is enough (v2/pipeline/orchestrator.py:94-98).
THEOREM OpenedOnce == Spec => OneChatPerConversation
BY Invariance, OpensOnce, PTL DEF Spec, OneChatPerConversation

-----------------------------------------------------------------------------
(***************************************************************************)
(* Whose token a message is sent with.  A token in the table that was      *)
(* picked is still what pick_available would pick: new ids are above the   *)
(* old ones.  So two picks for one provider that both still stand are the  *)
(* same token, and a request, its row and its chat are of one provider:    *)
(* the fallback of the lookup, which is written for "deepseek", crosses to *)
(* no other while the requests are for DeepSeek's models.                  *)
(***************************************************************************)
\* If the token id still has this account, it is the provider's smallest.
StillPicked(ts, id, account, provider) ==
    Exists(ts, id) /\ ts[id].account = account =>
        id \in Available(ts, provider) /\ \A o \in Available(ts, provider) : id <= o

ChatKept(chat, ts) == StillPicked(ts, chat.token, chat.account, chat.proj.provider)
RowKept(row, cs) == row.proj.provider = cs[row.chat].proj.provider
HandlerKept(q, ts, cs) ==
    /\ StillPicked(ts, q.token, q.account, q.input.provider)
    /\ q.chat # 0 => q.input.provider = cs[q.chat].proj.provider

PickInv ==
    /\ \A i \in DOMAIN chats : ChatKept(chats[i], tokens)
    /\ \A row \in ToSet(rows) : RowKept(row, chats)
    /\ \A r \in Requests : HandlerKept(reqs[r], tokens, chats)

\* One handler moves, and no table changes.
LEMMA PickMoves ==
    ASSUME OrchInv, PickInv, NEW r \in Requests, NEW q, HandlerKept(q, tokens, chats),
           reqs' = [reqs EXCEPT ![r] = q], UNCHANGED <<tokens, rows, chats>>
    PROVE  PickInv'
<1>1. \A o \in Requests : reqs'[o] = IF o = r THEN q ELSE reqs[o]
  BY DEF OrchInv, TableInv
<1>2. \A o \in Requests : HandlerKept(reqs'[o], tokens', chats')
  BY <1>1 DEF PickInv
<1>3. /\ \A i \in DOMAIN chats' : ChatKept(chats'[i], tokens')
      /\ \A row \in ToSet(rows') : RowKept(row, chats')
  BY DEF PickInv
<1>4. QED
  BY <1>2, <1>3 DEF PickInv

\* A handler without a request holds nothing.
LEMMA IdleKept ==
    ASSUME TokensGood, NEW cs
    PROVE  HandlerKept(Idle, tokens, cs)
<1>1. DOMAIN tokens \subseteq 1 .. MaxTokens /\ MaxTokens \in Nat
  BY BoundsAssumption DEF TokensGood
<1>2. ~Exists(tokens, 0)
  BY <1>1 DEF Exists
<1>3. Idle.token = 0 /\ Idle.chat = 0
  BY DEF Idle
<1>4. QED
  BY <1>2, <1>3 DEF HandlerKept, StillPicked

\* The row that is found is of the request's provider, and so is its chat.
LEMMA FoundIsKept ==
    ASSUME OrchInv, PickInv, NEW input \in Inputs,
           NEW row \in lookup(rows, input.msgs, Len(input.msgs), input.provider)
    PROVE  input.provider = chats[row.chat].proj.provider
<1>1. rows \in Seq(Sessions)
  BY DEF OrchInv, TableInv, RowsGood
<1>2. /\ row \in ToSet(rows)
      /\ \/ row.proj.provider = input.provider
         \/ TrailingAssistant(input.msgs) /\ row.proj.provider = "deepseek"
  BY <1>1, LookupFinds
<1>3. row.proj.provider = input.provider
  BY <1>2, InputsAssumption
<1>4. QED
  BY <1>2, <1>3 DEF PickInv, RowKept

\* A request comes.
LEMMA ArrivePicks ==
    ASSUME OrchInv, PickInv, NEW r \in Requests, NEW input \in Inputs,
           Arrive(r, input)
    PROVE  PickInv'
<1> DEFINE q == [Idle EXCEPT !.pc = "picking", !.input = input]
           hits == lookup(rows, input.msgs, Len(input.msgs), input.provider)
<1>1. /\ q \in Handler /\ q.token = 0 /\ q.input = input /\ q.chat = 0
      /\ 0 \notin DOMAIN tokens
  <2>0. 0 \in 0 .. MaxChats /\ 0 \in 0 .. MaxTokens
    BY BoundsAssumption
  <2>1. q \in Handler /\ q.token = 0 /\ q.input = input /\ q.chat = 0
    BY <2>0 DEF Handler, Idle
  <2>2. DOMAIN tokens \subseteq 1 .. MaxTokens /\ MaxTokens \in Nat
    BY BoundsAssumption DEF OrchInv, TableInv, TokensGood
  <2>3. 0 \notin DOMAIN tokens
    BY <2>2
  <2>4. QED
    BY <2>1, <2>3
<1>2. PICK n : reqs' = [reqs EXCEPT ![r] = n] /\ HandlerKept(n, tokens, chats)
  <2>1. CASE reqs' = [reqs EXCEPT ![r] = q]
    BY <1>1, <2>1 DEF HandlerKept, StillPicked, Exists
  <2>2. ASSUME NEW row \in hits, reqs' = [reqs EXCEPT ![r] = GoBy(q, row, "picking")]
        PROVE  \E n : reqs' = [reqs EXCEPT ![r] = n] /\ HandlerKept(n, tokens, chats)
    <3>1. PICK n : n = GoBy(q, row, "picking")
      OBVIOUS
    <3>2. n.token = 0 /\ n.input = input /\ n.chat = row.chat
      BY <1>1, <3>1 DEF GoBy, Handler
    <3>3. input.provider = chats[row.chat].proj.provider
      BY <2>2, FoundIsKept
    <3>4. HandlerKept(n, tokens, chats)
      BY <1>1, <3>2, <3>3 DEF HandlerKept, StillPicked, Exists
    <3>5. QED
      BY <2>2, <3>1, <3>4
  <2>3. QED
    BY <2>1, <2>2 DEF Arrive
<1>3. UNCHANGED <<tokens, rows, chats>>
  BY DEF Arrive
<1>4. QED
  BY <1>2, <1>3, PickMoves

\* A token is picked.
LEMMA PickPicks ==
    ASSUME OrchInv, PickInv, NEW r \in Requests, Pick(r)
    PROVE  PickInv'
<1>1. PICK old \in Handler : old = reqs[r] /\ HandlerKept(old, tokens, chats)
  BY DEF OrchInv, TableInv, PickInv
<1>2. UNCHANGED <<tokens, rows, chats>>
  BY DEF Pick
<1>3. CASE Available(tokens, old.input.provider) = {}
  <2>1. reqs' = [reqs EXCEPT ![r] = Idle]
    BY <1>1, <1>3 DEF Pick
  <2>2. HandlerKept(Idle, tokens, chats)
    BY IdleKept DEF OrchInv, TableInv
  <2>3. QED
    BY <1>2, <2>1, <2>2, PickMoves
<1>4. CASE Available(tokens, old.input.provider) # {}
  <2>1. PICK id : id = pick_available(tokens, old.input.provider)
    OBVIOUS
  <2>2. /\ id \in Available(tokens, old.input.provider)
        /\ \A o \in Available(tokens, old.input.provider) : id <= o
    <3>1. DOMAIN tokens \subseteq Nat
      BY DEF OrchInv, TableInv, TokensGood
    <3>2. QED
      BY <1>4, <2>1, <3>1, PickedToken
  <2>3. PICK q : /\ q = [old EXCEPT !.token = id, !.account = tokens[id].account,
                                    !.pc = IF old.chat = 0 THEN "waiting" ELSE "sending"]
    OBVIOUS
  <2>4. q.token = id /\ q.input = old.input /\ q.chat = old.chat
    BY <2>3 DEF Handler
  <2>5. reqs' = [reqs EXCEPT ![r] = q]
    BY <1>1, <1>4, <2>1, <2>3 DEF Pick
  <2>6. HandlerKept(q, tokens, chats)
    BY <1>1, <2>2, <2>4 DEF HandlerKept, StillPicked
  <2>7. QED
    BY <1>2, <2>5, <2>6, PickMoves
<1>5. QED
  BY <1>3, <1>4

\* The second lookup.
LEMMA EnterPicks ==
    ASSUME OrchInv, PickInv, NEW r \in Requests, Enter(r)
    PROVE  PickInv'
<1>1. PICK old \in Handler : old = reqs[r] /\ HandlerKept(old, tokens, chats)
  BY DEF OrchInv, TableInv, PickInv
<1> DEFINE hits == lookup(rows, old.input.msgs, Len(old.input.msgs), old.input.provider)
<1>2. UNCHANGED <<tokens, rows, chats>> /\ old.pc = "waiting" /\ old.input \in Inputs
  <2>1. UNCHANGED <<tokens, rows, chats>> /\ old.pc = "waiting"
    BY <1>1 DEF Enter
  <2>2. QED
    BY <1>1, <2>1 DEF OrchInv, TableInv, HandlerGood
<1>3. CASE reqs' = [reqs EXCEPT ![r].pc = "opening"]
  <2>1. PICK q : q = [old EXCEPT !.pc = "opening"]
    OBVIOUS
  <2>2. q.token = old.token /\ q.account = old.account /\ q.input = old.input /\ q.chat = old.chat
    BY <2>1 DEF Handler
  <2>3. HandlerKept(q, tokens, chats) /\ reqs' = [reqs EXCEPT ![r] = q]
    BY <1>1, <1>3, <2>1, <2>2 DEF HandlerKept
  <2>4. QED
    BY <1>2, <2>3, PickMoves
<1>4. ASSUME NEW row \in hits, reqs' = [reqs EXCEPT ![r] = GoBy(old, row, "sending")]
      PROVE  PickInv'
  <2>1. PICK q : q = GoBy(old, row, "sending")
    OBVIOUS
  <2>2. q.token = old.token /\ q.account = old.account /\ q.input = old.input /\ q.chat = row.chat
    BY <2>1 DEF Handler, GoBy
  <2>3. old.input.provider = chats[row.chat].proj.provider
    BY <1>2, <1>4, FoundIsKept
  <2>4. HandlerKept(q, tokens, chats) /\ reqs' = [reqs EXCEPT ![r] = q]
    BY <1>1, <1>4, <2>1, <2>2, <2>3 DEF HandlerKept
  <2>5. QED
    BY <1>2, <2>4, PickMoves
<1>5. QED
  BY <1>1, <1>3, <1>4 DEF Enter

\* A handler that ends holds nothing.
LEMMA EndPicks ==
    ASSUME OrchInv, PickInv, NEW r \in Requests,
           reqs' = [reqs EXCEPT ![r] = Idle], UNCHANGED <<tokens, rows, chats>>
    PROVE  PickInv'
<1>1. HandlerKept(Idle, tokens, chats)
  BY IdleKept DEF OrchInv, TableInv
<1>2. QED
  BY <1>1, PickMoves

\* The chat is opened with the token that was picked.
LEMMA OpenedPicks ==
    ASSUME OrchInv, PickInv, NEW r \in Requests, Opened(r)
    PROVE  PickInv'
<1>1. PICK old \in Handler : old = reqs[r] /\ HandlerKept(old, tokens, chats)
  BY DEF OrchInv, TableInv, PickInv
<1>2. PICK n : n = Len(chats) + 1
  OBVIOUS
<1>3. PICK chat : chat = [account |-> old.account, token |-> old.token,
                          proj |-> ProjOf[old.input], log |-> <<>>]
  OBVIOUS
<1>4. PICK mine : mine = [old EXCEPT !.pc = "sending", !.chat = n, !.parent = 0]
  OBVIOUS
<1>5. PICK new : new = Row(ProjOf[old.input], mine, 0)
  OBVIOUS
<1>6. /\ chats' = Append(chats, chat) /\ tokens' = tokens /\ old.pc = "opening"
      /\ \/ rows' = save(rows, new) /\ reqs' = [reqs EXCEPT ![r] = mine]
         \/ rows' = rows /\ reqs' = [reqs EXCEPT ![r] = Idle]
  BY <1>1, <1>2, <1>3, <1>4, <1>5 DEF Opened
<1>7. /\ old.input \in Inputs /\ chats \in Seq(ToSet(chats))
      /\ RowsGood(rows, chats, DOMAIN tokens)
  BY <1>1, <1>6 DEF OrchInv, TableInv, ChatsGood, HandlerGood
<1>8. /\ DOMAIN chats = 1 .. Len(chats) /\ DOMAIN chats' = 1 .. n /\ n \in Nat
      /\ chats'[n] = chat /\ \A i \in DOMAIN chats : chats'[i] = chats[i]
  BY <1>2, <1>6, <1>7, GrowsByOne
<1>9. /\ mine.token = old.token /\ mine.account = old.account
      /\ mine.input = old.input /\ mine.chat = n
  BY <1>4 DEF Handler
<1>10. /\ chat.proj = ProjOf[old.input] /\ chat.proj.provider = old.input.provider
       /\ chat.token = old.token /\ chat.account = old.account
  BY <1>3, <1>7, KeysOf
<1>11. new.proj = chat.proj /\ new.chat = n
  BY <1>5, <1>9, <1>10 DEF Row
<1>12. \A i \in DOMAIN chats' : ChatKept(chats'[i], tokens')
  <2>1. ChatKept(chat, tokens)
    BY <1>1, <1>10 DEF ChatKept, HandlerKept
  <2>2. \A i \in DOMAIN chats : ChatKept(chats[i], tokens)
    BY DEF PickInv
  <2>3. \A i \in DOMAIN chats' : i = n \/ i \in DOMAIN chats
    BY <1>2, <1>8
  <2>4. QED
    BY <1>6, <1>8, <2>1, <2>2, <2>3
<1>13. \A row \in ToSet(rows) : RowKept(row, chats')
  BY <1>7, <1>8 DEF RowsGood, RowGood, PickInv, RowKept
<1>14. \A row \in ToSet(rows') : RowKept(row, chats')
  <2>1. CASE rows' = save(rows, new) /\ reqs' = [reqs EXCEPT ![r] = mine]
    <3>1. RowKept(new, chats')
      BY <1>8, <1>11 DEF RowKept
    <3>2. /\ ProjOf[old.input] \in Keys /\ mine \in Handler
      <4>1. MaxChats \in Nat /\ n \in 0 .. MaxChats
        BY <1>1, <1>2, <1>6, <1>7, <1>8, BoundsAssumption DEF Opened
      <4>2. QED
        BY <1>4, <1>7, <4>1, KeysOf DEF Handler
    <3>3. new \in Sessions
      BY <1>5, <3>2, SavedIsSession
    <3>4. ToSet(save(rows, new)) = {o \in ToSet(rows) : o.proj # new.proj} \cup {new}
      BY <1>7, <3>3, SaveRows DEF RowsGood
    <3>5. QED
      BY <1>13, <2>1, <3>1, <3>4
  <2>2. CASE rows' = rows
    BY <1>13, <2>2
  <2>3. QED
    BY <1>6, <2>1, <2>2
<1>15. ASSUME NEW o \in Requests
       PROVE  HandlerKept(reqs'[o], tokens', chats')
  <2>1. HandlerKept(mine, tokens, chats') /\ HandlerKept(Idle, tokens, chats')
    <3>1. HandlerKept(mine, tokens, chats')
      BY <1>1, <1>8, <1>9, <1>10 DEF HandlerKept
    <3>2. PICK cs : cs = chats'
      OBVIOUS
    <3>3. HandlerKept(Idle, tokens, cs)
      BY IdleKept DEF OrchInv, TableInv
    <3>4. QED
      BY <3>1, <3>2, <3>3
  <2>2. HandlerKept(reqs[o], tokens, chats')
    <3>1. HandlerKept(reqs[o], tokens, chats) /\ HandlerGood(reqs[o], rows, chats)
      BY DEF PickInv, OrchInv, TableInv
    <3>2. reqs[o].chat # 0 => reqs[o].chat \in DOMAIN chats
      BY <3>1 DEF HandlerGood
    <3>3. QED
      BY <1>8, <3>1, <3>2 DEF HandlerKept
  <2>3. reqs'[o] \in {reqs[o], mine, Idle}
    BY <1>6 DEF OrchInv, TableInv
  <2>4. QED
    BY <1>6, <2>1, <2>2, <2>3
<1>16. QED
  BY <1>12, <1>14, <1>15 DEF PickInv

\* Completing changes neither what was picked nor the chat.
LEMMA CompletedKept ==
    ASSUME NEW q \in Handler, NEW ts, NEW cs, HandlerKept(q, ts, cs)
    PROVE  HandlerKept(Completed(q), ts, cs)
BY CompletedIs DEF HandlerKept

\* The answer to nothing is completed.
LEMMA SendNothingPicks ==
    ASSUME OrchInv, PickInv, NEW r \in Requests, SendNothing(r)
    PROVE  PickInv'
<1>1. PICK old \in Handler : old = reqs[r] /\ HandlerKept(old, tokens, chats)
  BY DEF OrchInv, TableInv, PickInv
<1>2. reqs' = [reqs EXCEPT ![r] = Completed(old)] /\ UNCHANGED <<tokens, rows, chats>>
  BY <1>1 DEF SendNothing
<1>3. PICK q : q = Completed(old)
  OBVIOUS
<1>4. HandlerKept(q, tokens, chats)
  BY <1>1, <1>3, CompletedKept
<1>5. QED
  BY <1>2, <1>3, <1>4, PickMoves

\* What a chat is told leaves whose it is.
LEMMA TellPicks ==
    ASSUME OrchInv, PickInv, NEW r \in Requests, Sending(reqs[r]), ~Unasked(reqs[r].input),
           NEW messages, NEW next, next \in {Completed(reqs[r]), Idle},
           Tell(r, messages, next)
    PROVE  PickInv'
<1>1. PICK old \in Handler : old = reqs[r] /\ HandlerKept(old, tokens, chats)
  BY DEF OrchInv, TableInv, PickInv
<1>2. /\ chats' = Told(chats, old.chat, messages) /\ UNCHANGED <<tokens, rows>>
      /\ reqs' = [reqs EXCEPT ![r] = next]
  BY <1>1 DEF Tell, Told
<1>3. old.chat \in DOMAIN chats
  BY <1>1, SenderKnows
<1>4. HandlerKept(next, tokens, chats) /\ next.chat \in {0, old.chat}
  <2>1. HandlerKept(Idle, tokens, chats) /\ Idle.chat = 0
    BY IdleKept DEF OrchInv, TableInv, Idle
  <2>2. PICK q : q = Completed(old)
    OBVIOUS
  <2>3. HandlerKept(q, tokens, chats) /\ q.chat = old.chat
    BY <1>1, <2>2, CompletedKept, CompletedIs
  <2>4. next = q \/ next = Idle
    BY <1>1, <2>2
  <2>5. QED
    BY <2>1, <2>3, <2>4
<1>5. /\ DOMAIN chats' = DOMAIN chats
      /\ \A i \in DOMAIN chats : /\ chats'[i].proj = chats[i].proj
                                 /\ chats'[i].token = chats[i].token
                                 /\ chats'[i].account = chats[i].account
  <2>1. ASSUME NEW i \in DOMAIN chats
        PROVE  /\ chats'[i].proj = chats[i].proj
               /\ chats'[i].token = chats[i].token
               /\ chats'[i].account = chats[i].account
    <3>1. PICK chat, log : chat = chats[i] /\ log = chat.log \o messages
      OBVIOUS
    <3>2. chat = [account |-> chat.account, token |-> chat.token,
                  proj |-> chat.proj, log |-> chat.log]
      BY <3>1 DEF OrchInv, TableInv, ChatsGood, ChatGood
    <3>3. chats'[i] = IF i = old.chat THEN [chat EXCEPT !.log = log] ELSE chat
      BY <1>2, <1>3, <3>1 DEF Told
    <3>4. QED
      BY <3>1, <3>2, <3>3
  <2>2. DOMAIN chats' = DOMAIN chats
    BY <1>2 DEF Told
  <2>3. QED
    BY <2>1, <2>2
<1>6. \A i \in DOMAIN chats' : ChatKept(chats'[i], tokens')
  BY <1>2, <1>5 DEF PickInv, ChatKept
<1>7. \A row \in ToSet(rows') : RowKept(row, chats')
  BY <1>2, <1>5 DEF OrchInv, TableInv, RowsGood, RowGood, PickInv, RowKept
<1>8. ASSUME NEW o \in Requests
      PROVE  HandlerKept(reqs'[o], tokens', chats')
  <2>1. PICK h : h = IF o = r THEN next ELSE reqs[o]
    OBVIOUS
  <2>2. h = reqs'[o]
    BY <1>2, <2>1 DEF OrchInv, TableInv
  <2>3. HandlerKept(h, tokens, chats)
    BY <1>4, <2>1 DEF PickInv
  <2>4. h.chat # 0 => h.chat \in DOMAIN chats
    BY <1>3, <1>4, <2>1 DEF OrchInv, TableInv, HandlerGood
  <2>5. HandlerKept(h, tokens, chats')
    BY <1>5, <2>3, <2>4 DEF HandlerKept
  <2>6. QED
    BY <1>2, <2>2, <2>5
<1>9. QED
  BY <1>6, <1>7, <1>8 DEF PickInv

\* The row that is saved is of the chat's provider.
LEMMA FinishPicks ==
    ASSUME OrchInv, PickInv, NEW r \in Requests, Finish(r)
    PROVE  PickInv'
<1>1. PICK old \in Handler : old = reqs[r] /\ HandlerKept(old, tokens, chats)
  BY DEF OrchInv, TableInv, PickInv
<1>2. PICK new : new = Row(NextProjOf[old.input], old, old.parent + 2)
  OBVIOUS
<1>3. /\ old.pc = "saving" /\ UNCHANGED <<tokens, chats>>
      /\ reqs' = [reqs EXCEPT ![r] = Idle]
      /\ rows' = save(rows, new) \/ rows' = rows
  BY <1>1, <1>2 DEF Finish
<1>4. CASE rows' = rows
  BY <1>3, <1>4, EndPicks
<1>5. CASE rows' = save(rows, new)
  <2>1. /\ old.input \in Inputs /\ old.chat # 0 /\ old.parent + 2 \in Nat
        /\ RowsGood(rows, chats, DOMAIN tokens)
    BY <1>1, <1>3 DEF OrchInv, TableInv, HandlerGood, Handler
  <2>2. /\ NextProjOf[old.input] \in Keys
        /\ NextProjOf[old.input].provider = old.input.provider
    BY <2>1, KeysOf
  <2>3. new \in Sessions /\ new.proj = NextProjOf[old.input] /\ new.chat = old.chat
    BY <1>2, <2>1, <2>2, SavedIsSession
  <2>4. RowKept(new, chats)
    BY <1>1, <2>1, <2>2, <2>3 DEF RowKept, HandlerKept
  <2>5. ToSet(save(rows, new)) = {o \in ToSet(rows) : o.proj # new.proj} \cup {new}
    BY <2>1, <2>3, SaveRows DEF RowsGood
  <2>6. \A row \in ToSet(rows') : RowKept(row, chats')
    BY <1>3, <1>5, <2>4, <2>5 DEF PickInv
  <2>7. HandlerKept(Idle, tokens, chats)
    BY IdleKept DEF OrchInv, TableInv
  <2>8. \A o \in Requests : HandlerKept(reqs'[o], tokens', chats')
    BY <1>3, <2>7 DEF PickInv, OrchInv, TableInv
  <2>9. \A i \in DOMAIN chats' : ChatKept(chats'[i], tokens')
    BY <1>3 DEF PickInv
  <2>10. QED
    BY <2>6, <2>8, <2>9 DEF PickInv
<1>6. QED
  BY <1>3, <1>4, <1>5

\* A pick stays good under the tokens ts and us.
LEMMA PickStays ==
    ASSUME PickInv, UNCHANGED <<rows, chats, reqs>>,
           \A i \in DOMAIN chats : ChatKept(chats[i], tokens'),
           \A r \in Requests :
               StillPicked(tokens', reqs[r].token, reqs[r].account, reqs[r].input.provider)
    PROVE  PickInv'
<1>1. \A r \in Requests : HandlerKept(reqs'[r], tokens', chats')
  BY DEF PickInv, HandlerKept
<1>2. /\ \A i \in DOMAIN chats' : ChatKept(chats'[i], tokens')
      /\ \A row \in ToSet(rows') : RowKept(row, chats')
  BY DEF PickInv
<1>3. QED
  BY <1>1, <1>2 DEF PickInv

\* A token that comes is above the others, and nobody goes by its account.
LEMMA AddTokenPicks ==
    ASSUME OrchInv, PickInv, NEW secret \in Secrets, AddToken(secret)
    PROVE  PickInv'
<1> DEFINE top == Max(DOMAIN tokens \cup {0})
<1>1. /\ DOMAIN tokens \subseteq Nat /\ top \in Nat
      /\ \A id \in DOMAIN tokens : id <= top
  <2>1. DOMAIN tokens \subseteq 1 .. MaxTokens /\ MaxTokens \in Nat
    BY BoundsAssumption DEF OrchInv, TableInv, TokensGood
  <2>2. QED
    BY <2>1, FreshId
<1>2. /\ tokens' = [id \in DOMAIN tokens \cup {top + 1} |->
                      IF id = top + 1 THEN secret ELSE tokens[id]]
      /\ ~InUse(secret.account) /\ UNCHANGED <<rows, chats, reqs>>
  BY DEF AddToken, add
<1> HIDE DEF top
<1>3. ASSUME NEW id, NEW account, NEW provider, account # secret.account,
             StillPicked(tokens, id, account, provider)
      PROVE  StillPicked(tokens', id, account, provider)
  <2>1. ASSUME id \in DOMAIN tokens', tokens'[id].account = account
        PROVE  /\ id \in Available(tokens', provider)
               /\ \A o \in Available(tokens', provider) : id <= o
    <3>1. id # top + 1 /\ id \in DOMAIN tokens /\ tokens[id].account = account
      BY <1>2, <1>3, <2>1
    <3>2. id \in Available(tokens, provider) /\ \A o \in Available(tokens, provider) : id <= o
      BY <1>3, <3>1 DEF StillPicked, Exists
    <3>3. id \in Nat /\ id <= top + 1 /\ id \in Available(tokens', provider)
      BY <1>1, <1>2, <3>1, <3>2 DEF Available
    <3>4. \A o \in Available(tokens', provider) : o = top + 1 \/ o \in Available(tokens, provider)
      BY <1>1, <1>2 DEF Available
    <3>5. QED
      BY <3>2, <3>3, <3>4
  <2>2. QED
    BY <2>1 DEF StillPicked, Exists
<1>4. \A i \in DOMAIN chats : ChatKept(chats[i], tokens')
  BY <1>2, <1>3 DEF PickInv, ChatKept, InUse
<1>5. \A r \in Requests :
          StillPicked(tokens', reqs[r].token, reqs[r].account, reqs[r].input.provider)
  BY <1>2, <1>3 DEF PickInv, HandlerKept, InUse
<1>6. QED
  BY <1>2, <1>4, <1>5, PickStays

\* A token that goes leaves the smallest id the smallest, or takes it away.
LEMMA DeleteTokenPicks ==
    ASSUME OrchInv, PickInv, NEW gone \in DOMAIN tokens, DeleteToken(gone)
    PROVE  PickInv'
<1>1. /\ tokens' = [o \in DOMAIN tokens \ {gone} |-> tokens[o]]
      /\ UNCHANGED <<rows, chats, reqs>>
  BY DEF DeleteToken, delete
<1>2. ASSUME NEW id, NEW account, NEW provider, StillPicked(tokens, id, account, provider)
      PROVE  StillPicked(tokens', id, account, provider)
  BY <1>1, <1>2 DEF StillPicked, Exists, Available
<1>3. \A i \in DOMAIN chats : ChatKept(chats[i], tokens')
  BY <1>2 DEF PickInv, ChatKept
<1>4. \A r \in Requests :
          StillPicked(tokens', reqs[r].token, reqs[r].account, reqs[r].input.provider)
  BY <1>2 DEF PickInv, HandlerKept
<1>5. QED
  BY <1>1, <1>3, <1>4, PickStays

\* What the process keeps in memory is gone.
LEMMA RestartPicks ==
    ASSUME OrchInv, PickInv, Restart
    PROVE  PickInv'
<1>1. reqs' = [r \in Requests |-> Idle] /\ UNCHANGED <<tokens, rows, chats>>
  BY DEF Restart
<1>2. HandlerKept(Idle, tokens, chats)
  BY IdleKept DEF OrchInv, TableInv
<1>3. \A r \in Requests : HandlerKept(reqs'[r], tokens', chats')
  BY <1>1, <1>2
<1>4. /\ \A i \in DOMAIN chats' : ChatKept(chats'[i], tokens')
      /\ \A row \in ToSet(rows') : RowKept(row, chats')
  BY <1>1 DEF PickInv
<1>5. QED
  BY <1>3, <1>4 DEF PickInv

\* Rows go.
LEMMA PruneSessionsPicks ==
    ASSUME OrchInv, PickInv, NEW n \in 1 .. Len(rows), PruneSessions(n)
    PROVE  PickInv'
<1>1. rows' = prune_ttl(rows, n) /\ UNCHANGED <<tokens, chats, reqs>>
  BY DEF PruneSessions
<1>2. ToSet(prune_ttl(rows, n)) \subseteq ToSet(rows)
  BY PruneRows DEF OrchInv, TableInv, RowsGood
<1>3. \A row \in ToSet(rows') : RowKept(row, chats')
  BY <1>1, <1>2 DEF PickInv
<1>4. /\ \A r \in Requests : HandlerKept(reqs'[r], tokens', chats')
      /\ \A i \in DOMAIN chats' : ChatKept(chats'[i], tokens')
  BY <1>1 DEF PickInv
<1>5. QED
  BY <1>3, <1>4 DEF PickInv

\* A message only reaches for a chat with another account's credential after the
\* token of one of the two was deleted (v2/pipeline/orchestrator.py:83-137).
THEOREM AccountsKept == Spec => []SentByItsAccount
<1>1. ASSUME Init
      PROVE  PickInv
  <2>1. /\ tokens = <<>> /\ rows = <<>> /\ chats = <<>> /\ reqs = [r \in Requests |-> Idle]
    BY <1>1 DEF Init
  <2>2. ~Exists(tokens, Idle.token) /\ Idle.chat = 0
    BY <2>1, NoMembers DEF Exists, Idle
  <2>3. \A r \in Requests : HandlerKept(reqs[r], tokens, chats)
    BY <2>1, <2>2 DEF HandlerKept, StillPicked, Idle
  <2>4. /\ \A i \in DOMAIN chats : ChatKept(chats[i], tokens)
        /\ \A row \in ToSet(rows) : RowKept(row, chats)
    BY <2>1, NoMembers
  <2>5. QED
    BY <2>3, <2>4 DEF PickInv
<1>2. ASSUME OrchInv, PickInv, [Next]_vars
      PROVE  PickInv'
  <2>1. CASE \E r \in Requests, input \in Inputs : Arrive(r, input)
    BY <1>2, <2>1, ArrivePicks
  <2>2. ASSUME NEW r \in Requests, Handle(r)
        PROVE  PickInv'
    <3>1. CASE Pick(r)
      BY <1>2, <3>1, PickPicks
    <3>2. CASE Enter(r)
      BY <1>2, <3>2, EnterPicks
    <3>3. CASE Opened(r)
      BY <1>2, <3>3, OpenedPicks
    <3>4. CASE OpenFails(r) \/ PlanRaises(r) \/ SendFails(r)
      BY <1>2, <3>4, EndPicks DEF OpenFails, PlanRaises, SendFails
    <3>5. CASE Send(r) \/ EmptyTurn(r) \/ BreaksOff(r)
      BY <1>2, <3>5, TellPicks DEF Send, EmptyTurn, BreaksOff
    <3>6. CASE SendNothing(r)
      BY <1>2, <3>6, SendNothingPicks
    <3>7. CASE Finish(r)
      BY <1>2, <3>7, FinishPicks
    <3>8. QED
      BY <2>2, <3>1, <3>2, <3>3, <3>4, <3>5, <3>6, <3>7 DEF Handle
  <2>3. CASE \E secret \in Secrets : AddToken(secret)
    BY <1>2, <2>3, AddTokenPicks
  <2>4. CASE \E id \in DOMAIN tokens : DeleteToken(id)
    BY <1>2, <2>4, DeleteTokenPicks
  <2>5. CASE \E n \in 1 .. Len(rows) : PruneSessions(n)
    BY <1>2, <2>5, PruneSessionsPicks
  <2>6. CASE Restart
    BY <1>2, <2>6, RestartPicks
  <2>7. ASSUME NEW r \in Requests, Leaves(r)
        PROVE  PickInv'
    BY <1>2, <2>7, EndPicks DEF Leaves
  <2>8. CASE UNCHANGED vars
    BY <1>2, <2>8 DEF vars, PickInv
  <2>9. QED
    BY <1>2, <2>1, <2>2, <2>3, <2>4, <2>5, <2>6, <2>7, <2>8 DEF Next
<1>3. ASSUME OrchInv, PickInv
      PROVE  SentByItsAccount
  <2>1. ASSUME NEW r \in Requests, reqs[r].pc = "sending",
               Holds(reqs[r].token, reqs[r].account),
               Holds(chats[reqs[r].chat].token, chats[reqs[r].chat].account)
        PROVE  reqs[r].account = chats[reqs[r].chat].account
    <3>1. PICK q, chat : q = reqs[r] /\ chat = chats[q.chat]
      OBVIOUS
    <3>2. q.chat # 0 /\ q.chat \in DOMAIN chats
      BY <1>3, <2>1, <3>1 DEF OrchInv, TableInv, HandlerGood
    <3>3. HandlerKept(q, tokens, chats) /\ ChatKept(chat, tokens)
      BY <1>3, <3>1, <3>2 DEF PickInv
    <3>4. /\ Exists(tokens, q.token) /\ tokens[q.token].account = q.account
          /\ Exists(tokens, chat.token) /\ tokens[chat.token].account = chat.account
      BY <2>1, <3>1 DEF Holds
    <3>5. q.input.provider = chat.proj.provider
      BY <3>1, <3>2, <3>3 DEF HandlerKept
    <3>6. q.token <= chat.token /\ chat.token <= q.token
      BY <3>3, <3>4, <3>5 DEF HandlerKept, ChatKept, StillPicked
    <3>7. q.token \in Nat /\ chat.token \in Nat
      BY <1>3, <3>4, BoundsAssumption DEF OrchInv, TableInv, TokensGood, Exists
    <3>8. q.token = chat.token
      BY <3>6, <3>7
    <3>9. QED
      BY <3>1, <3>4, <3>8
  <2>2. QED
    BY <2>1 DEF SentByItsAccount
<1>4. QED
  BY <1>1, <1>2, <1>3, Invariance, PTL DEF Spec

-----------------------------------------------------------------------------
(***************************************************************************)
(* What a chat is asked.  A chat is only ever shown the last user message  *)
(* of a conversation, and where that message can be read off the row, all  *)
(* who go by one row ask the same; so all who ever go by one chat do.      *)
(***************************************************************************)
AskedIn(proj) == AskedOf(proj.anchor, proj.tail)

\* The last messages, each where it was.
LEMMA LatestLeaves ==
    ASSUME NEW S, NEW msgs \in Seq(S), NEW w \in Nat, NEW late, late = Latest(msgs, w),
           NEW n \in Nat, n = Len(msgs), NEW k,
           w = 0 \/ w >= n => k = 0, ~(w = 0 \/ w >= n) => k = n - w
    PROVE  /\ k \in 0 .. n /\ late \in Seq(S) /\ Len(late) = n - k
           /\ \A i \in 1 .. n - k : late[i] = msgs[i + k]
<1>1. CASE w = 0 \/ w >= n
  <2>1. late = msgs /\ k = 0
    BY <1>1 DEF Latest
  <2>2. QED
    BY <2>1
<1>2. CASE ~(w = 0 \/ w >= n)
  <2>1. PICK m \in Int : m = n - w + 1
    OBVIOUS
  <2>2. /\ w \in 1 .. n - 1 /\ m <= n /\ \A i \in m .. n : msgs[i] \in S
        /\ n - m + 1 = n - k /\ k \in 0 .. n /\ m - 1 = k
    BY <1>2, <2>1
  <2>3. late = SubSeq(msgs, m, n)
    BY <1>2, <2>1 DEF Latest
  <2>4. /\ late \in Seq(S)
        /\ Len(late) = IF m <= n THEN n - m + 1 ELSE 0
        /\ \A i \in 1 .. n - m + 1 : late[i] = msgs[m + i - 1]
    BY <2>2, <2>3, SubSeqProperties
  <2>5. ASSUME NEW i \in 1 .. n - k
        PROVE  late[i] = msgs[i + k]
    <3>1. i \in 1 .. n - m + 1 /\ m + i - 1 = i + k
      BY <2>1, <2>2
    <3>2. QED
      BY <2>4, <3>1
  <2>6. QED
    BY <2>2, <2>4, <2>5
<1>3. QED
  BY <1>1, <1>2

\* The last user message of a suffix is the conversation's, if it has one.
LEMMA LatestAsks ==
    ASSUME NEW S, NEW msgs \in Seq(S), NEW w \in Nat, Prompt(Latest(msgs, w)) # <<>>
    PROVE  Prompt(Latest(msgs, w)) = Prompt(msgs)
<1>1. PICK late : late = Latest(msgs, w)
  OBVIOUS
<1>2. PICK k \in 0 .. Len(msgs) :
          /\ late \in Seq(S) /\ Len(late) = Len(msgs) - k
          /\ \A i \in 1 .. Len(msgs) - k : late[i] = msgs[i + k]
  <2>1. PICK n \in Nat : n = Len(msgs)
    OBVIOUS
  <2>2. PICK k : (w = 0 \/ w >= n => k = 0) /\ (~(w = 0 \/ w >= n) => k = n - w)
    OBVIOUS
  <2>3. /\ k \in 0 .. n /\ late \in Seq(S) /\ Len(late) = n - k
        /\ \A i \in 1 .. n - k : late[i] = msgs[i + k]
    BY <1>1, <2>1, <2>2, LatestLeaves
  <2>4. QED
    BY <2>1, <2>3
<1>3. PICK f : f = FinalUser(late)
  OBVIOUS
<1>4. /\ f \in 0 .. Len(late) /\ Len(late) \in Nat /\ Len(msgs) \in Nat
      /\ f # 0 => Role[late[f]] = "user"
      /\ \A j \in 1 .. Len(late) : Role[late[j]] = "user" => j <= f
  BY <1>2, <1>3, FinalUserIs
<1>5. f # 0
  BY <1>1, <1>3 DEF Prompt
<1>6. f + k \in 1 .. Len(msgs) /\ late[f] = msgs[f + k] /\ Role[msgs[f + k]] = "user"
  BY <1>2, <1>4, <1>5
<1>7. ASSUME NEW j \in 1 .. Len(msgs), j > f + k
      PROVE  Role[msgs[j]] # "user"
  <2>1. j - k \in 1 .. Len(late) /\ late[j - k] = msgs[j] /\ ~(j - k <= f)
    <3>1. j - k \in 1 .. Len(msgs) - k /\ (j - k) + k = j /\ ~(j - k <= f)
      BY <1>2, <1>4, <1>7
    <3>2. QED
      BY <1>2, <3>1
  <2>2. QED
    BY <1>4, <2>1
<1>8. FinalUser(msgs) = f + k
  <2>1. f + k \in 0 .. Len(msgs)
    BY <1>6
  <2>2. QED
    BY <1>6, <1>7, <2>1, FinalUserAt
<1>9. f + k # 0
  BY <1>6
<1>10. QED
  BY <1>1, <1>3, <1>5, <1>6, <1>8, <1>9 DEF Prompt

\* Without its trailing assistant message a conversation asks the same.
LEMMA FrontAsks ==
    ASSUME NEW S, NEW msgs \in Seq(S), TrailingAssistant(msgs)
    PROVE  /\ Front(msgs) \in Seq(S) /\ Len(Front(msgs)) = Len(msgs) - 1
           /\ \A i \in 1 .. Len(msgs) - 1 : Front(msgs)[i] = msgs[i]
           /\ Len(msgs) \in Nat \ {0} /\ Role[msgs[Len(msgs)]] # "user"
           /\ Prompt(Front(msgs)) = Prompt(msgs)
<1>1. PICK n \in Nat : n = Len(msgs) /\ n # 0
  <2>1. Len(msgs) \in Nat /\ (msgs # <<>> => Len(msgs) # 0)
    OBVIOUS
  <2>2. QED
    BY <2>1 DEF TrailingAssistant
<1>2. PICK front : front = SubSeq(msgs, 1, n - 1)
  OBVIOUS
<1>3. /\ front \in Seq(S) /\ Len(front) = n - 1
      /\ \A i \in 1 .. n - 1 : front[i] = msgs[i]
  <2>1. \A i \in 1 .. n - 1 : msgs[i] \in S
    BY <1>1
  <2>2. CASE n = 1
    <3>1. front = <<>>
      BY <1>2, <2>2
    <3>2. QED
      BY <2>2, <3>1
  <2>3. CASE n # 1
    <3>1. 1 \in Int /\ n - 1 \in Int /\ 1 <= n - 1 /\ (n - 1) - 1 + 1 = n - 1
      BY <1>1, <2>3
    <3>2. /\ front \in Seq(S)
          /\ Len(front) = IF 1 <= n - 1 THEN (n - 1) - 1 + 1 ELSE 0
          /\ \A i \in 1 .. (n - 1) - 1 + 1 : front[i] = msgs[1 + i - 1]
      BY <1>2, <2>1, <3>1, SubSeqProperties
    <3>3. ASSUME NEW i \in 1 .. n - 1
          PROVE  front[i] = msgs[i]
      <4>1. 1 + i - 1 = i
        OBVIOUS
      <4>2. QED
        BY <3>1, <3>2, <4>1
    <3>4. QED
      BY <3>1, <3>2, <3>3
  <2>4. QED
    BY <2>2, <2>3
<1>4. front = Front(msgs)
  BY <1>1, <1>2 DEF Front
<1>5. Role[msgs[n]] # "user"
  <2>1. Role[Last(msgs)] = "assistant" /\ Last(msgs) = msgs[n]
    BY <1>1 DEF TrailingAssistant, Last
  <2>2. QED
    BY <2>1
<1>6. PICK f : f = FinalUser(front)
  OBVIOUS
<1>7. /\ f \in 0 .. n - 1
      /\ f # 0 => Role[front[f]] = "user"
      /\ \A j \in 1 .. n - 1 : Role[front[j]] = "user" => j <= f
  BY <1>3, <1>6, FinalUserIs
<1>8. FinalUser(msgs) = f
  <2>1. f \in 0 .. Len(msgs) /\ (f # 0 => Role[msgs[f]] = "user")
    BY <1>1, <1>3, <1>7
  <2>2. \A j \in 1 .. Len(msgs) : j > f => Role[msgs[j]] # "user"
    <3>1. ASSUME NEW j \in 1 .. Len(msgs), j > f
          PROVE  Role[msgs[j]] # "user"
      <4>1. CASE j = n
        BY <1>5, <4>1
      <4>2. CASE j # n
        <5>1. j \in 1 .. n - 1 /\ ~(j <= f)
          BY <1>1, <1>7, <3>1, <4>2
        <5>2. QED
          BY <1>3, <1>7, <5>1
      <4>3. QED
        BY <4>1, <4>2
    <3>2. QED
      BY <3>1
  <2>3. QED
    BY <2>1, <2>2, FinalUserAt
<1>9. f # 0 => front[f] = msgs[f]
  BY <1>3, <1>7
<1>10. Prompt(front) = Prompt(msgs)
  BY <1>6, <1>8, <1>9 DEF Prompt
<1>11. QED
  BY <1>1, <1>3, <1>4, <1>5, <1>10

\* A window that shows no user message has none.
LEMMA NobodyAsks ==
    ASSUME NEW S, NEW msgs \in Seq(S)
    PROVE  Prompt(msgs) = <<>> <=> \A i \in 1 .. Len(msgs) : Role[msgs[i]] # "user"
<1>1. PICK f : f = FinalUser(msgs)
  OBVIOUS
<1>2. /\ f \in 0 .. Len(msgs) /\ Len(msgs) \in Nat
      /\ f # 0 => Role[msgs[f]] = "user"
      /\ \A j \in 1 .. Len(msgs) : Role[msgs[j]] = "user" => j <= f
  BY <1>1, FinalUserIs
<1>3. Prompt(msgs) = <<>> <=> f = 0
  BY <1>1 DEF Prompt
<1>4. QED
  BY <1>2, <1>3

\* The row the fallback looks for shows the same question: the window without
\* the trailing assistant message begins earlier, if it begins elsewhere.
LEMMA FallbackAsks ==
    ASSUME NEW S, NEW msgs \in Seq(S), TrailingAssistant(msgs), NEW anchor,
           AskedOf(anchor, Latest(msgs, WindowK)) = Prompt(msgs)
    PROVE  AskedOf(anchor, Latest(Front(msgs), WindowK)) = Prompt(msgs)
<1>1. PICK front, late, early : /\ front = Front(msgs) /\ late = Latest(msgs, WindowK)
                                /\ early = Latest(front, WindowK)
  OBVIOUS
<1>2. PICK n \in Nat \ {0} :
          /\ n = Len(msgs) /\ front \in Seq(S) /\ Len(front) = n - 1
          /\ \A i \in 1 .. n - 1 : front[i] = msgs[i]
          /\ Role[msgs[n]] # "user" /\ Prompt(front) = Prompt(msgs)
  BY <1>1, FrontAsks
<1>3. CASE Prompt(early) # <<>>
  <2>1. Prompt(early) = Prompt(front)
    BY <1>1, <1>2, <1>3, WindowAssumption, LatestAsks
  <2>2. QED
    BY <1>1, <1>2, <1>3, <2>1 DEF AskedOf
<1>4. CASE Prompt(early) = <<>>
  <2>0. PICK k, e :
            /\ WindowK = 0 \/ WindowK >= n => k = 0
            /\ ~(WindowK = 0 \/ WindowK >= n) => k = n - WindowK
            /\ WindowK = 0 \/ WindowK >= n - 1 => e = 0
            /\ ~(WindowK = 0 \/ WindowK >= n - 1) => e = (n - 1) - WindowK
    OBVIOUS
  <2>1. /\ k \in 0 .. n /\ late \in Seq(S) /\ Len(late) = n - k
        /\ \A i \in 1 .. n - k : late[i] = msgs[i + k]
    BY <1>1, <1>2, <2>0, WindowAssumption, LatestLeaves
  <2>2. /\ e \in 0 .. n - 1 /\ early \in Seq(S) /\ Len(early) = (n - 1) - e
        /\ \A i \in 1 .. (n - 1) - e : early[i] = front[i + e]
    <3>1. PICK m \in Nat : m = n - 1
      OBVIOUS
    <3>2. /\ m = Len(front) /\ front \in Seq(S) /\ early = Latest(front, WindowK)
          /\ WindowK = 0 \/ WindowK >= m => e = 0
          /\ ~(WindowK = 0 \/ WindowK >= m) => e = m - WindowK
      BY <1>1, <1>2, <2>0, <3>1
    <3>3. /\ e \in 0 .. m /\ early \in Seq(S) /\ Len(early) = m - e
          /\ \A i \in 1 .. m - e : early[i] = front[i + e]
      BY <3>2, WindowAssumption, LatestLeaves
    <3>4. QED
      BY <3>1, <3>3
  <2>3. e <= k
    BY <2>0, WindowAssumption
  <2>4. ASSUME NEW i \in 1 .. n - k
        PROVE  Role[late[i]] # "user"
    <3>1. late[i] = msgs[i + k]
      BY <2>1
    <3>2. CASE i + k = n
      BY <1>2, <3>1, <3>2
    <3>3. CASE i + k # n
      <4>1. PICK j : j = (i + k) - e
        OBVIOUS
      <4>2. /\ j \in 1 .. (n - 1) - e /\ j + e = i + k /\ i + k \in 1 .. n - 1
        BY <2>1, <2>2, <2>3, <3>3, <4>1
      <4>3. early[j] = msgs[i + k]
        BY <1>2, <2>2, <4>2
      <4>4. Role[early[j]] # "user"
        BY <1>4, <2>2, <4>2, NobodyAsks
      <4>5. QED
        BY <3>1, <4>3, <4>4
    <3>4. QED
      BY <3>2, <3>3
  <2>5. Prompt(late) = <<>>
    BY <2>1, <2>4, NobodyAsks
  <2>6. QED
    BY <1>1, <1>4, <2>5 DEF AskedOf
<1>5. QED
  BY <1>3, <1>4

-----------------------------------------------------------------------------
\* The rows an input saves show what it asks.
LEMMA KeysAsk ==
    ASSUME QuestionsAreCompared, NEW input \in Inputs
    PROVE  /\ AskedIn(ProjOf[input]) = Prompt(input.msgs)
           /\ AskedIn(NextProjOf[input]) = Prompt(input.msgs)
<1>1. /\ ProjOf[input] = Projection(input.msgs, input.msgs, Len(input.msgs), input.provider)
      /\ NextProjOf[input] =
            Projection(input.msgs, input.msgs, Len(input.msgs) + 2, input.provider)
  BY DEF ProjOf, NextProjOf
<1>2. AskedOf(Anchor(input.msgs), Latest(input.msgs, WindowK)) = Prompt(input.msgs)
  BY DEF QuestionsAreCompared
<1>3. QED
  BY <1>1, <1>2 DEF AskedIn, Projection

\* Every row an input finds shows what it asks.
LEMMA FoundAsks ==
    ASSUME QuestionsAreCompared, NEW table, NEW input \in Inputs,
           NEW row \in lookup(table, input.msgs, Len(input.msgs), input.provider)
    PROVE  AskedIn(row.proj) = Prompt(input.msgs)
<1>1. PICK msgs, anchor, proj, fallback :
          /\ msgs = input.msgs /\ anchor = Anchor(msgs)
          /\ proj = Projection(msgs, msgs, Len(msgs), input.provider)
          /\ fallback = Projection(msgs, DropAssistant(msgs), Len(msgs), "deepseek")
  OBVIOUS
<1>2. /\ msgs \in Seq(DOMAIN Role)
      /\ AskedOf(anchor, Latest(msgs, WindowK)) = Prompt(msgs)
  BY <1>1, KeysOf DEF QuestionsAreCompared
<1>3. /\ proj.anchor = anchor /\ proj.tail = Latest(msgs, WindowK)
      /\ fallback.anchor = anchor
      /\ fallback.tail = Latest(DropAssistant(msgs), WindowK)
  BY <1>1 DEF Projection
<1>4. \/ row \in Under(table, proj)
      \/ structural_match(proj, row.proj)
      \/ TrailingAssistant(msgs) /\ row \in Under(table, fallback)
  <2>1. lookup(table, msgs, Len(msgs), input.provider) \subseteq
            Under(table, proj)
               \cup {o \in ToSet(table) : structural_match(proj, o.proj)}
               \cup {o \in Under(table, fallback) : TrailingAssistant(msgs)}
    BY <1>1 DEF lookup
  <2>2. QED
    BY <1>1, <2>1
<1>5. CASE row.proj = proj \/ structural_match(proj, row.proj)
  <2>1. row.proj.anchor = anchor /\ row.proj.tail = Latest(msgs, WindowK)
    BY <1>3, <1>5 DEF structural_match
  <2>2. QED
    BY <1>1, <1>2, <2>1 DEF AskedIn
<1>6. CASE TrailingAssistant(msgs) /\ row.proj = fallback
  <2>1. DropAssistant(msgs) = Front(msgs)
    BY <1>6 DEF DropAssistant
  <2>2. AskedOf(anchor, Latest(Front(msgs), WindowK)) = Prompt(msgs)
    BY <1>2, <1>6, FallbackAsks
  <2>3. QED
    BY <1>1, <1>3, <1>6, <2>1, <2>2 DEF AskedIn
<1>7. QED
  BY <1>4, <1>5, <1>6 DEF Under

\* What plan leaves of an input asks what the input does.
LEMMA RenderedAsks ==
    ASSUME NEW input \in Inputs, ~Rendered[input].raised
    PROVE  Prompt(Rendered[input].messages) = Prompt(input.msgs)
<1>1. Rendered[input] = plan(input.msgs) /\ input.msgs \in Seq(DOMAIN Role)
  BY KeysOf DEF Rendered
<1>2. Answers(plan(input.msgs), input.msgs)
  BY <1>1, PlanAnswers
<1>3. QED
  BY <1>1, <1>2 DEF Answers

-----------------------------------------------------------------------------
(***************************************************************************)
(* Nothing was read in a chat but the one question it is asked and what    *)
(* the model answered; rows and handlers that point to it ask the same.    *)
(***************************************************************************)
Said(proj) == ToSet(AskedIn(proj)) \cup {Answer}

ChatAsks(chat) == \A i \in DOMAIN chat.log : chat.log[i].read \in Seq(Said(chat.proj))
RowAsks(row, cs) == AskedIn(row.proj) = AskedIn(cs[row.chat].proj)
HandlerAsks(q, cs) ==
    q.chat # 0 => Prompt(q.input.msgs) = AskedIn(cs[q.chat].proj)

AskInv ==
    /\ \A i \in DOMAIN chats : ChatAsks(chats[i])
    /\ \A row \in ToSet(rows) : RowAsks(row, chats)
    /\ \A r \in Requests : HandlerAsks(reqs[r], chats)

\* One handler moves, and no table changes.
LEMMA AskMoves ==
    ASSUME OrchInv, AskInv, NEW r \in Requests, NEW q, HandlerAsks(q, chats),
           reqs' = [reqs EXCEPT ![r] = q], UNCHANGED <<rows, chats>>
    PROVE  AskInv'
<1>1. \A o \in Requests : reqs'[o] = IF o = r THEN q ELSE reqs[o]
  BY DEF OrchInv, TableInv
<1>2. \A o \in Requests : HandlerAsks(reqs'[o], chats')
  BY <1>1 DEF AskInv
<1>3. /\ \A i \in DOMAIN chats' : ChatAsks(chats'[i])
      /\ \A row \in ToSet(rows') : RowAsks(row, chats')
  BY DEF AskInv
<1>4. QED
  BY <1>2, <1>3 DEF AskInv

\* A handler without a chat has nothing to show.
LEMMA NoChatAsks ==
    ASSUME NEW q, q.chat = 0, NEW cs
    PROVE  HandlerAsks(q, cs)
BY DEF HandlerAsks

\* A handler ends.
LEMMA EndAsks ==
    ASSUME OrchInv, AskInv, NEW r \in Requests,
           reqs' = [reqs EXCEPT ![r] = Idle], UNCHANGED <<rows, chats>>
    PROVE  AskInv'
<1>1. HandlerAsks(Idle, chats)
  BY NoChatAsks DEF Idle
<1>2. QED
  BY <1>1, AskMoves

\* A request goes by a row that was found.
LEMMA GoByAsks ==
    ASSUME QuestionsAreCompared, OrchInv, AskInv, NEW q \in Handler, q.input \in Inputs,
           NEW row \in lookup(rows, q.input.msgs, Len(q.input.msgs), q.input.provider),
           NEW pc
    PROVE  HandlerAsks(GoBy(q, row, pc), chats)
<1>1. PICK g : g = GoBy(q, row, pc)
  OBVIOUS
<1>2. g.input = q.input /\ g.chat = row.chat
  BY <1>1 DEF GoBy, Handler
<1>3. row \in ToSet(rows) /\ q.input.msgs # <<>>
  <2>1. rows \in Seq(Sessions)
    BY DEF OrchInv, TableInv, RowsGood
  <2>2. QED
    BY <2>1, LookupFinds
<1>4. AskedIn(row.proj) = Prompt(q.input.msgs)
  BY FoundAsks
<1>5. AskedIn(row.proj) = AskedIn(chats[row.chat].proj)
  BY <1>3 DEF AskInv, RowAsks
<1>6. HandlerAsks(g, chats)
  BY <1>2, <1>4, <1>5 DEF HandlerAsks
<1>7. QED
  BY <1>1, <1>6

\* A request comes.
LEMMA ArriveAsks ==
    ASSUME QuestionsAreCompared, OrchInv, AskInv, NEW r \in Requests, NEW input \in Inputs,
           Arrive(r, input)
    PROVE  AskInv'
<1>1. PICK q : q = [Idle EXCEPT !.pc = "picking", !.input = input]
  OBVIOUS
<1>2. q \in Handler /\ q.input = input /\ q.chat = 0
  <2>1. 0 \in 0 .. MaxChats /\ 0 \in 0 .. MaxTokens
    BY BoundsAssumption
  <2>2. QED
    BY <1>1, <2>1 DEF Handler, Idle
<1>3. UNCHANGED <<rows, chats>>
  BY DEF Arrive
<1>4. CASE reqs' = [reqs EXCEPT ![r] = q]
  BY <1>2, <1>3, <1>4, NoChatAsks, AskMoves
<1>5. ASSUME NEW row \in lookup(rows, input.msgs, Len(input.msgs), input.provider),
             reqs' = [reqs EXCEPT ![r] = GoBy(q, row, "picking")]
      PROVE  AskInv'
  <2>1. PICK g : g = GoBy(q, row, "picking")
    OBVIOUS
  <2>2. HandlerAsks(g, chats)
    BY <1>2, <2>1, GoByAsks
  <2>3. QED
    BY <1>3, <1>5, <2>1, <2>2, AskMoves
<1>6. QED
  BY <1>1, <1>4, <1>5 DEF Arrive

\* A token is picked.
LEMMA PickAsks ==
    ASSUME OrchInv, AskInv, NEW r \in Requests, Pick(r)
    PROVE  AskInv'
<1>1. PICK old \in Handler : old = reqs[r] /\ HandlerAsks(old, chats)
  BY DEF OrchInv, TableInv, AskInv
<1>2. UNCHANGED <<rows, chats>>
  BY DEF Pick
<1>3. CASE reqs' = [reqs EXCEPT ![r] = Idle]
  BY <1>2, <1>3, EndAsks
<1>4. ASSUME NEW id,
             reqs' = [reqs EXCEPT ![r] =
                 [[old EXCEPT !.token = id, !.account = tokens[id].account]
                      EXCEPT !.pc = IF old.chat = 0 THEN "waiting" ELSE "sending"]]
      PROVE  AskInv'
  <2>1. PICK q : q = [[old EXCEPT !.token = id, !.account = tokens[id].account]
                          EXCEPT !.pc = IF old.chat = 0 THEN "waiting" ELSE "sending"]
    OBVIOUS
  <2>2. q.input = old.input /\ q.chat = old.chat /\ q.parent = old.parent
    BY <2>1 DEF Handler
  <2>3. HandlerAsks(q, chats)
    BY <1>1, <2>2 DEF HandlerAsks
  <2>4. QED
    BY <1>2, <1>4, <2>1, <2>3, AskMoves
<1>5. QED
  BY <1>1, <1>3, <1>4 DEF Pick

\* The second lookup.
LEMMA EnterAsks ==
    ASSUME QuestionsAreCompared, OrchInv, AskInv, NEW r \in Requests, Enter(r)
    PROVE  AskInv'
<1>1. PICK old \in Handler : old = reqs[r] /\ HandlerAsks(old, chats)
  BY DEF OrchInv, TableInv, AskInv
<1>2. UNCHANGED <<rows, chats>> /\ old.pc = "waiting" /\ old.input \in Inputs
  <2>1. UNCHANGED <<rows, chats>> /\ old.pc = "waiting"
    BY <1>1 DEF Enter
  <2>2. QED
    BY <1>1, <2>1 DEF OrchInv, TableInv, HandlerGood
<1>3. CASE reqs' = [reqs EXCEPT ![r].pc = "opening"]
  <2>1. PICK q : q = [old EXCEPT !.pc = "opening"]
    OBVIOUS
  <2>2. q.input = old.input /\ q.chat = old.chat /\ q.parent = old.parent
    BY <2>1 DEF Handler
  <2>3. HandlerAsks(q, chats) /\ reqs' = [reqs EXCEPT ![r] = q]
    BY <1>1, <1>3, <2>1, <2>2 DEF HandlerAsks
  <2>4. QED
    BY <1>2, <2>3, AskMoves
<1>4. ASSUME NEW row \in lookup(rows, old.input.msgs, Len(old.input.msgs), old.input.provider),
             reqs' = [reqs EXCEPT ![r] = GoBy(old, row, "sending")]
      PROVE  AskInv'
  <2>1. PICK g : g = GoBy(old, row, "sending")
    OBVIOUS
  <2>2. HandlerAsks(g, chats)
    BY <1>2, <2>1, GoByAsks
  <2>3. QED
    BY <1>2, <1>4, <2>1, <2>2, AskMoves
<1>5. QED
  BY <1>1, <1>3, <1>4 DEF Enter

\* The row that is saved asks what its chat is asked.
LEMMA SavedAsks ==
    ASSUME QuestionsAreCompared, OrchInv, AskInv, NEW r \in Requests, Finish(r)
    PROVE  AskInv'
<1>1. PICK old \in Handler : old = reqs[r] /\ HandlerAsks(old, chats)
  BY DEF OrchInv, TableInv, AskInv
<1>2. PICK new : new = Row(NextProjOf[old.input], old, old.parent + 2)
  OBVIOUS
<1>3. /\ old.pc = "saving" /\ UNCHANGED chats
      /\ reqs' = [reqs EXCEPT ![r] = Idle]
      /\ rows' = save(rows, new) \/ rows' = rows
  BY <1>1, <1>2 DEF Finish
<1>4. CASE rows' = rows
  BY <1>3, <1>4, EndAsks
<1>5. CASE rows' = save(rows, new)
  <2>1. /\ old.input \in Inputs /\ old.chat # 0 /\ old.parent + 2 \in Nat
        /\ RowsGood(rows, chats, DOMAIN tokens)
    BY <1>1, <1>3 DEF OrchInv, TableInv, HandlerGood, Handler
  <2>2. NextProjOf[old.input] \in Keys
    BY <2>1, KeysOf
  <2>3. new \in Sessions /\ new.proj = NextProjOf[old.input] /\ new.chat = old.chat
    BY <1>2, <2>1, <2>2, SavedIsSession
  <2>4. AskedIn(NextProjOf[old.input]) = Prompt(old.input.msgs)
    BY <2>1, KeysAsk
  <2>5. RowAsks(new, chats)
    BY <1>1, <2>1, <2>3, <2>4 DEF RowAsks, HandlerAsks
  <2>6. ToSet(save(rows, new)) = {o \in ToSet(rows) : o.proj # new.proj} \cup {new}
    BY <2>1, <2>3, SaveRows DEF RowsGood
  <2>7. \A row \in ToSet(rows') : RowAsks(row, chats')
    BY <1>3, <1>5, <2>5, <2>6 DEF AskInv
  <2>8. HandlerAsks(Idle, chats)
    BY NoChatAsks DEF Idle
  <2>9. \A o \in Requests : HandlerAsks(reqs'[o], chats')
    BY <1>3, <2>8 DEF AskInv, OrchInv, TableInv
  <2>10. \A i \in DOMAIN chats' : ChatAsks(chats'[i])
    BY <1>3 DEF AskInv
  <2>11. QED
    BY <2>7, <2>9, <2>10 DEF AskInv
<1>6. QED
  BY <1>3, <1>4, <1>5

\* The chat that is opened has read nothing yet.
LEMMA OpenedAsks ==
    ASSUME QuestionsAreCompared, OrchInv, AskInv, NEW r \in Requests, Opened(r)
    PROVE  AskInv'
<1>1. PICK old \in Handler : old = reqs[r]
  BY DEF OrchInv, TableInv
<1>2. PICK n : n = Len(chats) + 1
  OBVIOUS
<1>3. PICK chat : chat = [account |-> old.account, token |-> old.token,
                          proj |-> ProjOf[old.input], log |-> <<>>]
  OBVIOUS
<1>4. PICK mine : mine = [old EXCEPT !.pc = "sending", !.chat = n, !.parent = 0]
  OBVIOUS
<1>5. PICK new : new = Row(ProjOf[old.input], mine, 0)
  OBVIOUS
<1>6. /\ chats' = Append(chats, chat) /\ old.pc = "opening"
      /\ \/ rows' = save(rows, new) /\ reqs' = [reqs EXCEPT ![r] = mine]
         \/ rows' = rows /\ reqs' = [reqs EXCEPT ![r] = Idle]
  BY <1>1, <1>2, <1>3, <1>4, <1>5 DEF Opened
<1>7. /\ old.input \in Inputs /\ chats \in Seq(ToSet(chats))
      /\ RowsGood(rows, chats, DOMAIN tokens)
  BY <1>1, <1>6 DEF OrchInv, TableInv, ChatsGood, HandlerGood
<1>8. /\ DOMAIN chats = 1 .. Len(chats) /\ DOMAIN chats' = 1 .. n /\ n \in Nat
      /\ chats'[n] = chat /\ \A i \in DOMAIN chats : chats'[i] = chats[i]
  BY <1>2, <1>6, <1>7, GrowsByOne
<1>9. mine.input = old.input /\ mine.chat = n /\ mine.parent = 0
  BY <1>4 DEF Handler
<1>10. chat.proj = ProjOf[old.input] /\ chat.log = <<>>
  BY <1>3
<1>11. new.proj = chat.proj /\ new.chat = n
  BY <1>5, <1>9, <1>10 DEF Row
<1>12. \A i \in DOMAIN chats' : ChatAsks(chats'[i])
  <2>1. ChatAsks(chat)
    BY <1>10 DEF ChatAsks
  <2>2. \A i \in DOMAIN chats' : i = n \/ i \in DOMAIN chats
    BY <1>2, <1>8
  <2>3. QED
    BY <1>8, <2>1, <2>2 DEF AskInv
<1>13. \A row \in ToSet(rows) : RowAsks(row, chats')
  BY <1>7, <1>8 DEF RowsGood, RowGood, AskInv, RowAsks
<1>14. \A row \in ToSet(rows') : RowAsks(row, chats')
  <2>1. CASE rows' = save(rows, new) /\ reqs' = [reqs EXCEPT ![r] = mine]
    <3>1. RowAsks(new, chats')
      BY <1>8, <1>11 DEF RowAsks
    <3>2. /\ ProjOf[old.input] \in Keys /\ mine \in Handler
      <4>1. MaxChats \in Nat /\ n \in 0 .. MaxChats
        BY <1>1, <1>2, <1>6, <1>7, <1>8, BoundsAssumption DEF Opened
      <4>2. QED
        BY <1>4, <1>7, <4>1, KeysOf DEF Handler
    <3>3. new \in Sessions
      BY <1>5, <3>2, SavedIsSession
    <3>4. ToSet(save(rows, new)) = {o \in ToSet(rows) : o.proj # new.proj} \cup {new}
      BY <1>7, <3>3, SaveRows DEF RowsGood
    <3>5. QED
      BY <1>13, <2>1, <3>1, <3>4
  <2>2. CASE rows' = rows
    BY <1>13, <2>2
  <2>3. QED
    BY <1>6, <2>1, <2>2
<1>15. ASSUME NEW o \in Requests
       PROVE  HandlerAsks(reqs'[o], chats')
  <2>1. HandlerAsks(mine, chats')
    <3>1. AskedIn(ProjOf[old.input]) = Prompt(old.input.msgs)
      BY <1>7, KeysAsk
    <3>2. QED
      BY <1>8, <1>9, <1>10, <3>1 DEF HandlerAsks
  <2>2. HandlerAsks(Idle, chats')
    BY DEF HandlerAsks, Idle
  <2>3. HandlerAsks(reqs[o], chats')
    <3>1. HandlerAsks(reqs[o], chats) /\ HandlerGood(reqs[o], rows, chats)
      BY DEF AskInv, OrchInv, TableInv
    <3>2. reqs[o].chat # 0 => reqs[o].chat \in DOMAIN chats
      BY <3>1 DEF HandlerGood
    <3>3. QED
      BY <1>8, <3>1, <3>2 DEF HandlerAsks
  <2>4. reqs'[o] \in {reqs[o], mine, Idle}
    BY <1>6 DEF OrchInv, TableInv
  <2>5. QED
    BY <2>1, <2>2, <2>3, <2>4
<1>16. QED
  BY <1>12, <1>14, <1>15 DEF AskInv

\* What a handler that sends reads before it asks is the chat's own.
LEMMA ReadsOwn ==
    ASSUME AskInv, NEW i \in DOMAIN chats, NEW parent
    PROVE  ReadUpTo(chats[i], parent) \in Seq(Said(chats[i].proj))
<1>1. ChatAsks(chats[i])
  BY DEF AskInv
<1>2. CASE parent \in DOMAIN chats[i].log
  BY <1>1, <1>2 DEF ChatAsks, ReadUpTo
<1>3. CASE parent \notin DOMAIN chats[i].log
  BY <1>3 DEF ReadUpTo
<1>4. QED
  BY <1>2, <1>3

\* Everything a chat is told it was asked, or answered.
SaysOnly(messages, proj) ==
    /\ messages \in Seq(ToSet(messages))
    /\ \A i \in DOMAIN messages : messages[i].read \in Seq(Said(proj))

\* A chat with more messages, of what it was asked and answered.
LEMMA ToldAsks ==
    ASSUME NEW chat, chat.log \in Seq(ToSet(chat.log)), ChatAsks(chat),
           NEW messages, SaysOnly(messages, chat.proj),
           NEW new, new.proj = chat.proj, new.log = chat.log \o messages
    PROVE  ChatAsks(new)
<1>1. PICK log, n, k, long : /\ log = chat.log /\ n = Len(log) /\ k = Len(messages)
                             /\ long = new.log
  OBVIOUS
<1>2. /\ DOMAIN log = 1 .. n /\ DOMAIN long = 1 .. n + k /\ n \in Nat /\ k \in Nat
      /\ DOMAIN messages = 1 .. k
      /\ \A i \in 1 .. n : long[i] = log[i]
      /\ \A i \in 1 .. k : long[n + i] = messages[i]
  <2>1. /\ log \in Seq(ToSet(log)) /\ messages \in Seq(ToSet(messages))
        /\ long = log \o messages
    BY <1>1 DEF SaysOnly
  <2>2. QED
    BY <1>1, <2>1, More
<1>3. PICK S : S = Seq(Said(chat.proj))
  OBVIOUS
<1>4. /\ \A i \in 1 .. n : log[i].read \in S
      /\ \A i \in 1 .. k : messages[i].read \in S
  BY <1>1, <1>2, <1>3 DEF ChatAsks, SaysOnly
<1>5. ASSUME NEW i \in DOMAIN long
      PROVE  long[i].read \in S
  <2>1. CASE i \in 1 .. n
    BY <1>2, <1>4, <2>1
  <2>2. CASE i \notin 1 .. n
    <3>1. i - n \in 1 .. k /\ n + (i - n) = i
      BY <1>2, <2>2
    <3>2. long[i] = messages[i - n]
      BY <1>2, <3>1
    <3>3. QED
      BY <1>4, <3>1, <3>2
  <2>3. QED
    BY <2>1, <2>2
<1>6. QED
  BY <1>1, <1>3, <1>5 DEF ChatAsks

\* The prompt and its answer are what the chat was always asked and answered.
LEMMA SpokenAsks ==
    ASSUME OrchInv, AskInv, NEW r \in Requests, Sending(reqs[r]), ~Unasked(reqs[r].input),
           NEW proj, proj = chats[reqs[r].chat].proj
    PROVE  /\ SaysOnly(<<>>, proj)
           /\ SaysOnly(<<UserMessage(reqs[r])>>, proj)
           /\ SaysOnly(<<UserMessage(reqs[r]), AnswerTo(reqs[r])>>, proj)
<1>1. PICK q \in Handler : q = reqs[r] /\ HandlerAsks(q, chats)
  BY DEF OrchInv, TableInv, AskInv
<1>2. /\ ~Rendered[q.input].raised /\ q.input \in Inputs
      /\ q.chat # 0 /\ q.chat \in DOMAIN chats
  BY <1>1, SenderKnows DEF Sending
<1>3. PICK S, before, prompt, asked :
          /\ S = Said(proj) /\ before = ReadUpTo(chats[q.chat], q.parent)
          /\ prompt = Prompt(Rendered[q.input].messages) /\ asked = before \o prompt
  OBVIOUS
<1>4. before \in Seq(S)
  BY <1>1, <1>2, <1>3, ReadsOwn
<1>5. prompt = AskedIn(proj)
  <2>1. prompt = Prompt(q.input.msgs)
    BY <1>2, <1>3, RenderedAsks
  <2>2. QED
    BY <1>1, <1>2, <2>1 DEF HandlerAsks
<1>6. prompt \in Seq(S)
  <2>1. prompt = <<>> \/ \E m : prompt = <<m>>
    BY <1>3 DEF Prompt
  <2>2. ToSet(prompt) \subseteq S
    BY <1>3, <1>5 DEF Said
  <2>3. ASSUME NEW m, prompt = <<m>>
        PROVE  prompt \in Seq(S)
    <3>1. m \in ToSet(prompt)
      BY <2>3 DEF ToSet
    <3>2. m \in S
      BY <2>2, <3>1
    <3>3. <<m>> \in Seq(S)
      BY <3>2
    <3>4. QED
      BY <2>3, <3>3
  <2>4. <<>> \in Seq(S)
    OBVIOUS
  <2>5. QED
    BY <2>1, <2>3, <2>4
<1>7. Answer \in S
  BY <1>3 DEF Said
<1>8. asked \in Seq(S) /\ Append(asked, Answer) \in Seq(S)
  <2>1. asked \in Seq(S)
    BY <1>3, <1>4, <1>6
  <2>2. QED
    BY <1>7, <2>1
<1>9. PICK x, y : x = UserMessage(q) /\ y = AnswerTo(q)
  OBVIOUS
<1>10. x.read \in Seq(S) /\ y.read \in Seq(S)
  <2>1. Asked(q) = asked
    BY <1>3 DEF Asked
  <2>2. x.read = asked /\ y.read = Append(asked, Answer)
    BY <1>9, <2>1 DEF UserMessage, AnswerTo
  <2>3. QED
    BY <1>8, <2>2
<1>11. /\ <<>> \in Seq(ToSet(<<>>)) /\ <<x>> \in Seq(ToSet(<<x>>))
       /\ <<x, y>> \in Seq(ToSet(<<x, y>>))
  <2>1. <<>> \in Seq({}) /\ <<x>> \in Seq({x}) /\ <<x, y>> \in Seq({x, y})
    OBVIOUS
  <2>2. QED
    BY <2>1, OwnMembers
<1>12. /\ DOMAIN <<>> = {} /\ DOMAIN <<x>> = {1} /\ DOMAIN <<x, y>> = {1, 2}
       /\ <<x>>[1] = x /\ <<x, y>>[1] = x /\ <<x, y>>[2] = y
  OBVIOUS
<1>13. SaysOnly(<<>>, proj) /\ SaysOnly(<<x>>, proj) /\ SaysOnly(<<x, y>>, proj)
  BY <1>3, <1>10, <1>11, <1>12 DEF SaysOnly
<1>14. QED
  BY <1>1, <1>9, <1>13

\* Completing changes neither the question nor the chat.
LEMMA CompletedAsks ==
    ASSUME NEW q \in Handler, NEW cs, HandlerAsks(q, cs)
    PROVE  HandlerAsks(Completed(q), cs)
BY CompletedIs DEF HandlerAsks

\* The answer to nothing is completed.
LEMMA SendNothingAsks ==
    ASSUME OrchInv, AskInv, NEW r \in Requests, SendNothing(r)
    PROVE  AskInv'
<1>1. PICK old \in Handler : old = reqs[r] /\ HandlerAsks(old, chats)
  BY DEF OrchInv, TableInv, AskInv
<1>2. reqs' = [reqs EXCEPT ![r] = Completed(old)] /\ UNCHANGED <<rows, chats>>
  BY <1>1 DEF SendNothing
<1>3. PICK q : q = Completed(old)
  OBVIOUS
<1>4. HandlerAsks(q, chats)
  BY <1>1, <1>3, CompletedAsks
<1>5. QED
  BY <1>2, <1>3, <1>4, AskMoves

\* A chat is told what it is asked and answered, and the handler goes on or ends.
LEMMA TellAsks ==
    ASSUME OrchInv, AskInv, NEW r \in Requests, Sending(reqs[r]), ~Unasked(reqs[r].input),
           NEW messages, SaysOnly(messages, chats[reqs[r].chat].proj),
           NEW next, next \in {Completed(reqs[r]), Idle}, Tell(r, messages, next)
    PROVE  AskInv'
<1>1. PICK old \in Handler : old = reqs[r] /\ HandlerAsks(old, chats)
  BY DEF OrchInv, TableInv, AskInv
<1>2. /\ chats' = Told(chats, old.chat, messages) /\ UNCHANGED rows
      /\ reqs' = [reqs EXCEPT ![r] = next]
  BY <1>1 DEF Tell, Told
<1>3. old.chat \in DOMAIN chats /\ chats \in Seq(ToSet(chats))
  BY <1>1, SenderKnows DEF OrchInv, TableInv, ChatsGood
<1>4. HandlerAsks(next, chats) /\ next.chat \in {0, old.chat}
  <2>1. HandlerAsks(Idle, chats) /\ Idle.chat = 0
    BY NoChatAsks DEF Idle
  <2>2. PICK q : q = Completed(old)
    OBVIOUS
  <2>3. HandlerAsks(q, chats) /\ q.chat = old.chat
    BY <1>1, <2>2, CompletedAsks, CompletedIs
  <2>4. next = q \/ next = Idle
    BY <1>1, <2>2
  <2>5. QED
    BY <2>1, <2>3, <2>4
<1>5. PICK chat, long : chat = chats[old.chat] /\ long = chat.log \o messages
  OBVIOUS
<1>6. ChatGood(chat) /\ ChatAsks(chat) /\ SaysOnly(messages, chat.proj)
  BY <1>1, <1>3, <1>5 DEF AskInv, OrchInv, TableInv, ChatsGood
<1>7. PICK new : new = [chat EXCEPT !.log = long]
  OBVIOUS
<1>8. new.proj = chat.proj /\ new.log = long
  <2>1. chat = [account |-> chat.account, token |-> chat.token,
                proj |-> chat.proj, log |-> chat.log]
    BY <1>6 DEF ChatGood
  <2>2. QED
    BY <1>7, <2>1
<1>9. PICK cs : cs = chats'
  OBVIOUS
<1>10. cs = Replaced(chats, old.chat, new)
  BY <1>2, <1>5, <1>7, <1>9 DEF Told, Replaced
<1>11. /\ DOMAIN cs = DOMAIN chats /\ cs[old.chat] = new
       /\ \A i \in DOMAIN chats \ {old.chat} : cs[i] = chats[i]
  BY <1>3, <1>10, ReplacesOne
<1>12. \A i \in DOMAIN chats : cs[i].proj = chats[i].proj
  BY <1>5, <1>8, <1>11
<1>13. ChatAsks(new)
  <2>1. chat.log \in Seq(ToSet(chat.log))
    BY <1>6 DEF ChatGood
  <2>2. QED
    BY <1>5, <1>6, <1>8, <2>1, ToldAsks
<1>14. \A i \in DOMAIN chats' : ChatAsks(chats'[i])
  BY <1>9, <1>11, <1>13 DEF AskInv
<1>15. \A row \in ToSet(rows') : RowAsks(row, chats')
  BY <1>2, <1>9, <1>12 DEF OrchInv, TableInv, RowsGood, RowGood, AskInv, RowAsks
<1>16. ASSUME NEW o \in Requests
       PROVE  HandlerAsks(reqs'[o], chats')
  <2>1. PICK h : h = IF o = r THEN next ELSE reqs[o]
    OBVIOUS
  <2>2. h = reqs'[o]
    BY <1>2, <2>1 DEF OrchInv, TableInv
  <2>3. HandlerAsks(h, chats)
    BY <1>4, <2>1 DEF AskInv
  <2>4. h.chat # 0 => h.chat \in DOMAIN chats
    BY <1>3, <1>4, <2>1 DEF OrchInv, TableInv, HandlerGood
  <2>5. HandlerAsks(h, cs)
    BY <1>12, <2>3, <2>4 DEF HandlerAsks
  <2>6. QED
    BY <1>9, <2>2, <2>5
<1>17. QED
  BY <1>14, <1>15, <1>16 DEF AskInv

\* The three ways in which a chat is told.
LEMMA SendAsks ==
    ASSUME OrchInv, AskInv, NEW r \in Requests, Send(r) \/ EmptyTurn(r) \/ BreaksOff(r)
    PROVE  AskInv'
<1>1. PICK q, proj : q = reqs[r] /\ proj = chats[q.chat].proj
  OBVIOUS
<1>2. PICK messages \in {<<>>, <<UserMessage(q)>>, <<UserMessage(q), AnswerTo(q)>>},
           next \in {Completed(q), Idle} :
          Sending(q) /\ ~Unasked(q.input) /\ Tell(r, messages, next)
  <2>1. CASE Send(r)
    BY <1>1, <2>1 DEF Send
  <2>2. CASE EmptyTurn(r)
    BY <1>1, <2>2 DEF EmptyTurn
  <2>3. CASE BreaksOff(r)
    BY <1>1, <2>3 DEF BreaksOff
  <2>4. QED
    BY <2>1, <2>2, <2>3
<1>3. SaysOnly(messages, proj)
  BY <1>1, <1>2, SpokenAsks
<1>4. QED
  BY <1>1, <1>2, <1>3, TellAsks

\* Rows expire.
LEMMA PruneSessionsAsks ==
    ASSUME OrchInv, AskInv, NEW n \in 1 .. Len(rows), PruneSessions(n)
    PROVE  AskInv'
<1>1. rows' = prune_ttl(rows, n) /\ UNCHANGED <<chats, reqs>>
  BY DEF PruneSessions
<1>2. ToSet(prune_ttl(rows, n)) \subseteq ToSet(rows)
  BY PruneRows DEF OrchInv, TableInv, RowsGood
<1>3. \A row \in ToSet(rows') : RowAsks(row, chats')
  BY <1>1, <1>2 DEF AskInv
<1>4. QED
  BY <1>1, <1>3 DEF AskInv

\* Restarting forgets the handlers, and the tables stay.
LEMMA RestartAsks ==
    ASSUME AskInv, Restart
    PROVE  AskInv'
<1>1. reqs' = [r \in Requests |-> Idle] /\ UNCHANGED <<rows, chats>>
  BY DEF Restart
<1>2. HandlerAsks(Idle, chats)
  BY NoChatAsks DEF Idle
<1>3. \A r \in Requests : HandlerAsks(reqs'[r], chats')
  BY <1>1, <1>2
<1>4. QED
  BY <1>1, <1>3 DEF AskInv

\* AskInv is inductive on top of OrchInv (v2/pipeline/orchestrator.py:78-191,
\* v2/store/repo_sessions.py:57-98).
THEOREM AskInvariance ==
    ASSUME QuestionsAreCompared
    PROVE  Spec => []AskInv
<1>1. ASSUME Init
      PROVE  AskInv
  <2>1. rows = <<>> /\ chats = <<>> /\ reqs = [r \in Requests |-> Idle]
    BY <1>1 DEF Init
  <2>2. HandlerAsks(Idle, chats)
    BY NoChatAsks DEF Idle
  <2>3. \A r \in Requests : HandlerAsks(reqs[r], chats)
    BY <2>1, <2>2
  <2>4. /\ \A i \in DOMAIN chats : ChatAsks(chats[i])
        /\ \A row \in ToSet(rows) : RowAsks(row, chats)
    BY <2>1, NoMembers
  <2>5. QED
    BY <2>3, <2>4 DEF AskInv
<1>2. ASSUME OrchInv, AskInv, [Next]_vars
      PROVE  AskInv'
  <2>1. CASE \E r \in Requests, input \in Inputs : Arrive(r, input)
    BY <1>2, <2>1, ArriveAsks
  <2>2. ASSUME NEW r \in Requests, Handle(r)
        PROVE  AskInv'
    <3>1. CASE Pick(r)
      BY <1>2, <3>1, PickAsks
    <3>2. CASE Enter(r)
      BY <1>2, <3>2, EnterAsks
    <3>3. CASE Opened(r)
      BY <1>2, <3>3, OpenedAsks
    <3>4. CASE OpenFails(r) \/ PlanRaises(r) \/ SendFails(r)
      BY <1>2, <3>4, EndAsks DEF OpenFails, PlanRaises, SendFails
    <3>5. CASE Send(r) \/ EmptyTurn(r) \/ BreaksOff(r)
      BY <1>2, <3>5, SendAsks
    <3>6. CASE SendNothing(r)
      BY <1>2, <3>6, SendNothingAsks
    <3>7. CASE Finish(r)
      BY <1>2, <3>7, SavedAsks
    <3>8. QED
      BY <2>2, <3>1, <3>2, <3>3, <3>4, <3>5, <3>6, <3>7 DEF Handle
  <2>3. CASE \E secret \in Secrets : AddToken(secret)
    BY <1>2, <2>3 DEF AddToken, AskInv
  <2>4. CASE \E id \in DOMAIN tokens : DeleteToken(id)
    BY <1>2, <2>4 DEF DeleteToken, AskInv
  <2>5. CASE \E n \in 1 .. Len(rows) : PruneSessions(n)
    BY <1>2, <2>5, PruneSessionsAsks
  <2>6. CASE Restart
    BY <1>2, <2>6, RestartAsks
  <2>7. ASSUME NEW r \in Requests, Leaves(r)
        PROVE  AskInv'
    BY <1>2, <2>7, EndAsks DEF Leaves
  <2>8. CASE UNCHANGED vars
    BY <1>2, <2>8 DEF vars, AskInv
  <2>9. QED
    BY <1>2, <2>1, <2>2, <2>3, <2>4, <2>5, <2>6, <2>7, <2>8 DEF Next
<1>3. QED
  BY <1>1, <1>2, Invariance, PTL DEF Spec

\* A request never continues a branch in which its user did not say every word
\* (v2/pipeline/orchestrator.py:83-137, v2/store/repo_sessions.py:57-98).
THEOREM OwnWords ==
    ASSUME QuestionsAreCompared
    PROVE  Spec => []OwnWordsOnly
<1>1. ASSUME OrchInv, AskInv
      PROVE  OwnWordsOnly
  <2>1. ASSUME NEW r \in Requests, reqs[r].pc = "sending"
        PROVE  ToSet(ReadUpTo(chats[reqs[r].chat], reqs[r].parent)) \subseteq
                   ToSet(reqs[r].input.msgs) \cup {Answer}
    <3>1. PICK q \in Handler : /\ q = reqs[r] /\ HandlerAsks(q, chats)
                               /\ q.chat # 0 /\ q.chat \in DOMAIN chats
                               /\ q.input \in Inputs
      BY <1>1, <2>1 DEF OrchInv, TableInv, HandlerGood, AskInv
    <3>2. PICK read : read = ReadUpTo(chats[q.chat], q.parent)
      OBVIOUS
    <3>3. read \in Seq(Said(chats[q.chat].proj))
      BY <1>1, <3>1, <3>2, ReadsOwn
    <3>4. ToSet(read) \subseteq Said(chats[q.chat].proj)
      BY <3>3, Members
    <3>5. Said(chats[q.chat].proj) = ToSet(Prompt(q.input.msgs)) \cup {Answer}
      BY <3>1 DEF Said, HandlerAsks
    <3>6. ToSet(Prompt(q.input.msgs)) \subseteq ToSet(q.input.msgs)
      <4>1. PICK msgs \in Seq(DOMAIN Role) : msgs = q.input.msgs
        BY <3>1, KeysOf
      <4>2. PICK f : f = FinalUser(msgs)
        OBVIOUS
      <4>3. f \in 0 .. Len(msgs) /\ Len(msgs) \in Nat
        BY <4>2, FinalUserIs
      <4>4. CASE f = 0
        BY <4>1, <4>2, <4>4, NoMembers DEF Prompt
      <4>5. CASE f # 0
        <5>1. Prompt(msgs) = <<msgs[f]>> /\ msgs[f] \in ToSet(msgs)
          BY <4>2, <4>3, <4>5 DEF Prompt, ToSet
        <5>2. ToSet(<<msgs[f]>>) = {msgs[f]}
          BY DEF ToSet
        <5>3. QED
          BY <4>1, <5>1, <5>2
      <4>6. QED
        BY <4>4, <4>5
    <3>7. QED
      BY <3>1, <3>2, <3>4, <3>5, <3>6
  <2>2. QED
    BY <2>1 DEF OwnWordsOnly
<1>2. QED
  BY <1>1, Invariance, AskInvariance, PTL

\* Whoever goes by one chat at one time asks it the same.
OneQuestionPerChat ==
    \A r, s \in Requests :
        reqs[r].chat # 0 /\ reqs[r].chat = reqs[s].chat =>
            Prompt(reqs[r].input.msgs) = Prompt(reqs[s].input.msgs)

\* A session is never taken on to another question, whatever tokens, prunings,
\* races and lengths it was found through: what is saved is the conversation
\* without its answer (v2/pipeline/orchestrator.py:168-175).
THEOREM SessionsNeverMoveOn ==
    ASSUME QuestionsAreCompared
    PROVE  Spec => []OneQuestionPerChat
<1>1. AskInv => OneQuestionPerChat
  BY DEF AskInv, HandlerAsks, OneQuestionPerChat
<1>2. QED
  BY <1>1, AskInvariance, PTL

-----------------------------------------------------------------------------
\* Compaction never costs the message that is to be answered, wherever in the
\* conversation it stands (v2/compaction/budget.py:92-117).
THEOREM FinalMessageKept ==
    ASSUME Plannable \subseteq Seq(DOMAIN Role)
    PROVE  Spec => []FinalUserMessageSent
<1>1. ASSUME NEW msgs \in Plannable
      PROVE  ~plan(msgs).raised => Prompt(plan(msgs).messages) = Prompt(msgs)
  BY PlanAnswers DEF Answers
<1>2. FinalUserMessageSent
  BY <1>1 DEF FinalUserMessageSent
<1>3. QED
  BY <1>2, PTL

\* The provider is sent more than the budget only where the smallest window the
\* policy allows is itself too long.
THEOREM BudgetIsKept ==
    ASSUME Plannable \subseteq Seq(DOMAIN Role), \A m \in DOMAIN Role : Size[m] \in Nat,
           MinRecent <= RecentTurns
    PROVE  Spec => []BudgetKept
<1>1. ASSUME NEW msgs \in Plannable
      PROVE  \/ measure(plan(msgs).messages) <= Total
             \/ measure(build_tier(msgs, MinRecent).messages) > Total
  BY PlanWithinBudget
<1>2. BudgetKept
  BY <1>1 DEF BudgetKept
<1>3. QED
  BY <1>2, PTL
=============================================================================
