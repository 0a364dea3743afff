--------------------------- MODULE SequenceLemmas ---------------------------
(***************************************************************************)
(* Queues and tables are sequences without repetitions: what joining and   *)
(* leaving a queue, and replacing or dropping rows, does to their members. *)
(***************************************************************************)
EXTENDS Integers, Sequences, SequencesExt, FiniteSetsExt, SequenceTheorems,
        WellFoundedInduction, TLAPS

\* The members of a sequence, by position.
LEMMA Members ==
    ASSUME NEW S, NEW q \in Seq(S)
    PROVE  /\ DOMAIN q = 1 .. Len(q) /\ Len(q) \in Nat
           /\ ToSet(q) = {q[i] : i \in 1 .. Len(q)}
           /\ Range(q) = ToSet(q)
           /\ ToSet(q) \subseteq S
BY DEF ToSet, Range

\* One more at the end of a queue: the head changes only if there was none.
LEMMA Join ==
    ASSUME NEW S, NEW q \in Seq(S), NEW r \in S
    PROVE  /\ Append(q, r) \in Seq(S) /\ Append(q, r) # <<>>
           /\ ToSet(Append(q, r)) = ToSet(q) \cup {r}
           /\ Head(Append(q, r)) = IF q = <<>> THEN r ELSE Head(q)
           /\ IsInjective(q) /\ r \notin ToSet(q) => IsInjective(Append(q, r))
<1> DEFINE a == Append(q, r)
<1>1. /\ a \in Seq(S) /\ Len(a) = Len(q) + 1 /\ Len(q) \in Nat
      /\ DOMAIN q = 1 .. Len(q) /\ DOMAIN a = 1 .. Len(q) + 1
      /\ \A i \in 1 .. Len(q) : a[i] = q[i]
      /\ a[Len(q) + 1] = r
  OBVIOUS
<1>2. ToSet(a) = ToSet(q) \cup {r}
  <2>1. \A x \in ToSet(a) : x \in ToSet(q) \cup {r}
    BY <1>1 DEF ToSet
  <2>2. \A x \in ToSet(q) \cup {r} : x \in ToSet(a)
    BY <1>1 DEF ToSet
  <2>3. QED
    BY <2>1, <2>2
<1>3. a # <<>> /\ Head(a) = IF q = <<>> THEN r ELSE Head(q)
  <2>1. a # <<>> /\ Head(a) = a[1]
    BY <1>1
  <2>2. CASE q = <<>>
    BY <1>1, <2>1, <2>2
  <2>3. CASE q # <<>>
    <3>1. Len(q) >= 1 /\ Head(q) = q[1]
      BY <2>3
    <3>2. QED
      BY <1>1, <2>1, <2>3, <3>1
  <2>4. QED
    BY <2>2, <2>3
<1>4. ASSUME IsInjective(q), r \notin ToSet(q)
      PROVE  IsInjective(a)
  BY <1>1, <1>4 DEF IsInjective, ToSet
<1>5. QED
  BY <1>1, <1>2, <1>3, <1>4

\* The head leaves a queue nobody is in twice.
LEMMA Leave ==
    ASSUME NEW S, NEW q \in Seq(S), q # <<>>, IsInjective(q)
    PROVE  /\ Tail(q) \in Seq(S)
           /\ Head(q) \in ToSet(q)
           /\ ToSet(Tail(q)) = ToSet(q) \ {Head(q)}
           /\ IsInjective(Tail(q))
<1>1. /\ Len(q) \in Nat /\ Len(q) >= 1 /\ DOMAIN q = 1 .. Len(q)
      /\ Tail(q) \in Seq(S) /\ Len(Tail(q)) = Len(q) - 1
      /\ DOMAIN Tail(q) = 1 .. Len(q) - 1
      /\ Head(q) = q[1]
      /\ \A i \in 1 .. Len(q) - 1 : Tail(q)[i] = q[i + 1]
  OBVIOUS
<1>2. Head(q) \in ToSet(q)
  BY <1>1 DEF ToSet
<1>3. ASSUME NEW x \in ToSet(Tail(q))
      PROVE  x \in ToSet(q) \ {Head(q)}
  <2>1. PICK i \in 1 .. Len(q) - 1 : x = Tail(q)[i]
    BY <1>1 DEF ToSet
  <2>2. x = q[i + 1] /\ i + 1 \in 1 .. Len(q) /\ i + 1 # 1
    BY <1>1, <2>1
  <2>3. QED
    BY <1>1, <2>2 DEF ToSet, IsInjective
<1>4. ASSUME NEW x \in ToSet(q) \ {Head(q)}
      PROVE  x \in ToSet(Tail(q))
  <2>1. PICK i \in 1 .. Len(q) : x = q[i]
    BY <1>1 DEF ToSet
  <2>2. i # 1 /\ i - 1 \in 1 .. Len(q) - 1
    BY <1>1, <2>1
  <2>3. x = Tail(q)[i - 1]
    BY <1>1, <2>1, <2>2
  <2>4. QED
    BY <1>1, <2>2, <2>3 DEF ToSet
<1>5. IsInjective(Tail(q))
  BY <1>1 DEF IsInjective
<1>6. QED
  BY <1>1, <1>2, <1>3, <1>4, <1>5

\* A queue is empty when nobody is in it.
LEMMA EmptyQueue ==
    ASSUME NEW S, NEW q \in Seq(S)
    PROVE  /\ q = <<>> <=> ToSet(q) = {}
           /\ ToSet(<<>>) = {} /\ IsInjective(<<>>) /\ <<>> \in Seq(S)
BY DEF ToSet, IsInjective

\* Nobody is in the empty queue.
LEMMA NoMembers ==
    ToSet(<<>>) = {} /\ IsInjective(<<>>) /\ DOMAIN <<>> = {} /\ \A S : <<>> \in Seq(S)
BY DEF ToSet, IsInjective

-----------------------------------------------------------------------------
\* Taking one element out shifts those behind it.
LEMMA TakeOut ==
    ASSUME NEW S, NEW s \in Seq(S), NEW i \in 1 .. Len(s)
    PROVE  /\ RemoveAt(s, i) \in Seq(S) /\ Len(RemoveAt(s, i)) = Len(s) - 1
           /\ \A j \in 1 .. Len(s) - 1 :
                 RemoveAt(s, i)[j] = IF j < i THEN s[j] ELSE s[j + 1]
<1> DEFINE f == SubSeq(s, 1, i - 1)
           b == SubSeq(s, i + 1, Len(s))
<1>1. /\ Len(s) \in Nat /\ i \in Nat
      /\ f \in Seq(S) /\ Len(f) = i - 1 /\ \A j \in 1 .. i - 1 : f[j] = s[j]
  OBVIOUS
<1>2. b \in Seq(S) /\ Len(b) = Len(s) - i
      /\ \A j \in 1 .. Len(s) - i : b[j] = s[i + j]
  <2>1. \A j \in i + 1 .. Len(s) : s[j] \in S
    BY <1>1
  <2>2. /\ b \in Seq(S)
        /\ Len(b) = IF i + 1 <= Len(s) THEN Len(s) - (i + 1) + 1 ELSE 0
        /\ \A j \in 1 .. Len(s) - (i + 1) + 1 : b[j] = s[(i + 1) + j - 1]
    BY <1>1, <2>1, SubSeqProperties
  <2>3. QED
    BY <1>1, <2>2
<1> HIDE DEF f, b
<1>3. /\ f \o b \in Seq(S) /\ Len(f \o b) = Len(s) - 1
      /\ \A j \in 1 .. Len(s) - 1 :
            (f \o b)[j] = IF j <= i - 1 THEN f[j] ELSE b[j - (i - 1)]
  <2>1. /\ f \o b \in Seq(S) /\ Len(f \o b) = Len(f) + Len(b)
        /\ \A j \in 1 .. Len(f) + Len(b) :
              (f \o b)[j] = IF j <= Len(f) THEN f[j] ELSE b[j - Len(f)]
    BY <1>1, <1>2, ConcatProperties
  <2>2. Len(f) = i - 1 /\ Len(f) + Len(b) = Len(s) - 1
    BY <1>1, <1>2
  <2>3. QED
    BY <2>1, <2>2
<1>4. ASSUME NEW j \in 1 .. Len(s) - 1
      PROVE  (f \o b)[j] = IF j < i THEN s[j] ELSE s[j + 1]
  <2>1. CASE j < i
    BY <1>1, <1>3, <2>1
  <2>2. CASE ~(j < i)
    <3>1. j - (i - 1) \in 1 .. Len(s) - i /\ i + (j - (i - 1)) = j + 1
      BY <1>1, <2>2
    <3>2. QED
      BY <1>1, <1>2, <1>3, <2>2, <3>1
  <2>3. QED
    BY <2>1, <2>2
<1>5. QED
  BY <1>3, <1>4 DEF RemoveAt, f, b

\* A queue without repetitions, with the one that stands at i taken out.
LEMMA TakenOut ==
    ASSUME NEW S, NEW s \in Seq(S), IsInjective(s), NEW i \in DOMAIN s
    PROVE  /\ RemoveAt(s, i) \in Seq(S) /\ IsInjective(RemoveAt(s, i))
           /\ ToSet(RemoveAt(s, i)) = ToSet(s) \ {s[i]}
           /\ Head(s) # s[i] => Head(RemoveAt(s, i)) = Head(s)
<1>1. PICK n, t : n = Len(s) /\ t = RemoveAt(s, i)
  OBVIOUS
<1>2. /\ n \in Nat /\ DOMAIN s = 1 .. n /\ i \in 1 .. n
      /\ t \in Seq(S) /\ Len(t) = n - 1 /\ DOMAIN t = 1 .. n - 1
      /\ \A j \in 1 .. n - 1 : t[j] = IF j < i THEN s[j] ELSE s[j + 1]
  BY <1>1, TakeOut
<1>3. \A j, k \in 1 .. n : s[j] = s[k] => j = k
  BY <1>2 DEF IsInjective
<1>4. PICK from : from = [j \in 1 .. n - 1 |-> IF j < i THEN j ELSE j + 1]
  OBVIOUS
<1>5. /\ \A j \in 1 .. n - 1 : from[j] \in 1 .. n /\ from[j] # i /\ t[j] = s[from[j]]
      /\ \A j, k \in 1 .. n - 1 : from[j] = from[k] => j = k
      /\ \A k \in 1 .. n : k # i => \E j \in 1 .. n - 1 : from[j] = k
  <2>1. \A j \in 1 .. n - 1 : from[j] = IF j < i THEN j ELSE j + 1
    BY <1>4
  <2>2. /\ \A j \in 1 .. n - 1 : from[j] \in 1 .. n /\ from[j] # i
        /\ \A j, k \in 1 .. n - 1 : from[j] = from[k] => j = k
    BY <1>2, <2>1
  <2>3. \A j \in 1 .. n - 1 : t[j] = s[from[j]]
    BY <1>2, <2>1
  <2>4. ASSUME NEW k \in 1 .. n, k # i
        PROVE  \E j \in 1 .. n - 1 : from[j] = k
    <3>1. CASE k < i
      BY <1>2, <2>1, <3>1
    <3>2. CASE k > i
      <4>1. k - 1 \in 1 .. n - 1 /\ ~(k - 1 < i) /\ (k - 1) + 1 = k
        BY <1>2, <3>2
      <4>2. QED
        BY <2>1, <4>1
    <3>3. QED
      BY <1>2, <2>4, <3>1, <3>2
  <2>5. QED
    BY <2>2, <2>3, <2>4
<1>6. IsInjective(t)
  BY <1>2, <1>3, <1>5 DEF IsInjective
<1>7. ToSet(t) = ToSet(s) \ {s[i]}
  <2>1. ASSUME NEW x \in ToSet(t)
        PROVE  x \in ToSet(s) \ {s[i]}
    BY <1>2, <1>3, <1>5 DEF ToSet
  <2>2. ASSUME NEW x \in ToSet(s) \ {s[i]}
        PROVE  x \in ToSet(t)
    <3>1. PICK k \in 1 .. n : x = s[k] /\ k # i
      BY <1>2 DEF ToSet
    <3>2. PICK j \in 1 .. n - 1 : from[j] = k
      BY <1>5, <3>1
    <3>3. QED
      BY <1>2, <1>5, <3>1, <3>2 DEF ToSet
  <2>3. QED
    BY <2>1, <2>2
<1>8. ASSUME Head(s) # s[i]
      PROVE  Head(t) = Head(s)
  <2>1. Head(s) = s[1] /\ i # 1
    BY <1>2, <1>8
  <2>2. 1 \in 1 .. n - 1 /\ 1 < i
    BY <1>2, <2>1
  <2>3. t[1] = s[1] /\ Head(t) = t[1]
    BY <1>2, <2>2
  <2>4. QED
    BY <2>1, <2>3
<1>9. QED
  BY <1>1, <1>2, <1>6, <1>7, <1>8

\* Every non-empty set of natural numbers has a least member, and Min is it.
LEMMA LeastMember ==
    ASSUME NEW T \in SUBSET Nat, T # {}
    PROVE  Min(T) \in T /\ \A y \in T : Min(T) <= y
<1>1. IsWellFoundedOn(OpToRel(<, Nat), Nat)
  BY NatLessThanWellFounded, Zenon
<1>2. PICK x \in T : \A y \in T : ~(<<y, x>> \in OpToRel(<, Nat))
  BY <1>1, WFMin, Zenon
<1>3. \A y \in T : ~(y < x)
  BY <1>2, Zenon DEF OpToRel
<1>4. \A y \in T : x <= y
  BY <1>3
<1>5. QED
  BY <1>4 DEF Min

\* A bounded one has a greatest member, and Max is it.
LEMMA GreatestMember ==
    ASSUME NEW n \in Nat, NEW T \in SUBSET (0 .. n), T # {}
    PROVE  Max(T) \in T /\ \A y \in T : y <= Max(T)
<1> DEFINE U == {n - y : y \in T}
<1>1. U \in SUBSET Nat /\ U # {}
  <2>1. \A y \in T : y \in Nat /\ y <= n /\ n - y \in Nat
    OBVIOUS
  <2>2. QED
    BY <2>1
<1> HIDE DEF U
<1>2. PICK m \in U : \A u \in U : m <= u
  <2>1. Min(U) \in U /\ \A u \in U : Min(U) <= u
    BY <1>1, LeastMember
  <2>2. QED
    BY <2>1
<1>3. PICK x \in T : m = n - x
  BY DEF U
<1>4. ASSUME NEW y \in T
      PROVE  y <= x
  <2>1. n - y \in U /\ x \in Int /\ y \in Int
    BY DEF U
  <2>2. n - x <= n - y
    BY <1>2, <1>3, <2>1
  <2>3. QED
    BY <2>1, <2>2
<1>5. QED
  BY <1>4 DEF Max

-----------------------------------------------------------------------------
\* A sequence is one over its own members, whatever they are; so it stays when
\* it grows or one of its elements is replaced.
LEMMA OwnMembers ==
    ASSUME NEW S, NEW s \in Seq(S)
    PROVE  s \in Seq(ToSet(s))
<1>1. /\ s = [i \in 1 .. Len(s) |-> s[i]] /\ Len(s) \in Nat
      /\ \A i \in 1 .. Len(s) : s[i] \in ToSet(s)
  BY DEF ToSet
<1>2. QED
  BY <1>1

\* One more at the end.
LEMMA GrowsByOne ==
    ASSUME NEW s, s \in Seq(ToSet(s)), NEW x
    PROVE  /\ Append(s, x) \in Seq(ToSet(Append(s, x)))
           /\ Len(Append(s, x)) = Len(s) + 1 /\ Len(s) \in Nat
           /\ DOMAIN s = 1 .. Len(s) /\ DOMAIN Append(s, x) = 1 .. Len(s) + 1
           /\ \A i \in 1 .. Len(s) : Append(s, x)[i] = s[i]
           /\ Append(s, x)[Len(s) + 1] = x
<1> DEFINE S == ToSet(s) \cup {x}
<1>1. s \in Seq(S) /\ x \in S
  <2>1. \A i \in 1 .. Len(s) : s[i] \in S
    BY DEF ToSet
  <2>2. s = [i \in 1 .. Len(s) |-> s[i]] /\ Len(s) \in Nat
    OBVIOUS
  <2>3. QED
    BY <2>1, <2>2
<1> HIDE DEF S
<1>2. Append(s, x) \in Seq(S)
  BY <1>1
<1>3. Append(s, x) \in Seq(ToSet(Append(s, x)))
  BY <1>2, OwnMembers
<1>4. QED
  BY <1>1, <1>3

\* s with another element at position i.
Replaced(s, i, x) == [s EXCEPT ![i] = x]

\* Another element at one position leaves the length and the other elements.
LEMMA ReplacesOne ==
    ASSUME NEW s, s \in Seq(ToSet(s)), NEW i \in DOMAIN s, NEW x, NEW t, t = Replaced(s, i, x)
    PROVE  /\ t \in Seq(ToSet(t)) /\ Len(t) = Len(s) /\ Len(s) \in Nat
           /\ DOMAIN s = 1 .. Len(s) /\ DOMAIN t = DOMAIN s
           /\ t[i] = x /\ \A j \in DOMAIN s \ {i} : t[j] = s[j]
<1> DEFINE S == ToSet(s) \cup {x}
<1>1. s \in Seq(S) /\ x \in S /\ i \in 1 .. Len(s)
  <2>1. \A j \in 1 .. Len(s) : s[j] \in S
    BY DEF ToSet
  <2>2. s = [j \in 1 .. Len(s) |-> s[j]] /\ Len(s) \in Nat /\ i \in 1 .. Len(s)
    OBVIOUS
  <2>3. QED
    BY <2>1, <2>2
<1> HIDE DEF S
<1>2. t \in Seq(S) /\ Len(t) = Len(s)
  BY <1>1, ExceptSeq DEF Replaced
<1>3. t \in Seq(ToSet(t))
  BY <1>2, OwnMembers
<1>4. t[i] = x /\ \A j \in DOMAIN s \ {i} : t[j] = s[j]
  BY <1>1 DEF Replaced
<1>5. QED
  BY <1>1, <1>2, <1>3, <1>4

-----------------------------------------------------------------------------
(***************************************************************************)
(* Induction.  The predicate is the set of the numbers it holds of, the    *)
(* step of a recursion is a function, so that both are values a lemma can  *)
(* be about.                                                               *)
(***************************************************************************)

\* What holds at 0 and is handed on holds up to the end.
LEMMA UpTo ==
    ASSUME NEW n \in Nat, NEW P \in SUBSET (0 .. n), 0 \in P,
           \A k \in 1 .. n : k - 1 \in P => k \in P
    PROVE  P = 0 .. n
<1> DEFINE T == (0 .. n) \ P
<1>1. SUFFICES ASSUME T # {} PROVE FALSE
  OBVIOUS
<1>2. T \in SUBSET Nat
  OBVIOUS
<1>3. PICK m \in T : \A y \in T : m <= y
  BY <1>1, <1>2, LeastMember
<1>4. m \in 1 .. n /\ m \notin P
  BY <1>3
<1>5. m - 1 \in 0 .. n /\ m - 1 \notin T
  BY <1>3, <1>4
<1> QED
  BY <1>4, <1>5

\* There is a function with values in S that a recursion over 0 .. n describes.
RecursionSolved(S, n, base, step) ==
    \E f \in [0 .. n -> S] :
        f[0] = base /\ \A k \in 1 .. n : f[k] = step[k][f[k - 1]]

\* A recursion over 0 .. n that stays in S has a solution in S: what a function
\* that is defined by recursion returns exists.
LEMMA RecursionExists ==
    ASSUME NEW S, NEW n \in Nat, NEW base \in S, NEW step \in [1 .. n -> [S -> S]]
    PROVE  RecursionSolved(S, n, base, step)
<1> DEFINE Solves(f, m) == f[0] = base /\ \A k \in 1 .. m : f[k] = step[k][f[k - 1]]
           P == {m \in 0 .. n : \E f \in [0 .. m -> S] : Solves(f, m)}
<1>1. 0 \in P
  <2> DEFINE f == [k \in 0 .. 0 |-> base]
  <2>1. f \in [0 .. 0 -> S]
    OBVIOUS
  <2>2. f[0] = base
    OBVIOUS
  <2>3. 1 .. 0 = {}
    OBVIOUS
  <2> HIDE DEF f
  <2>4. Solves(f, 0)
    BY <2>2, <2>3
  <2> QED
    BY <2>1, <2>4
<1>2. ASSUME NEW m \in 1 .. n, m - 1 \in P
      PROVE  m \in P
  <2>1. PICK f \in [0 .. m - 1 -> S] : Solves(f, m - 1)
    BY <1>2
  <2>2. PICK last \in S : last = step[m][f[m - 1]]
    OBVIOUS
  <2> DEFINE g == [k \in 0 .. m |-> IF k = m THEN last ELSE f[k]]
  <2>3. g \in [0 .. m -> S]
    OBVIOUS
  <2>4. g[m] = last /\ \A k \in 0 .. m - 1 : g[k] = f[k]
    OBVIOUS
  <2> HIDE DEF g
  <2>5. g[0] = base
    BY <2>1, <2>4
  <2>6. ASSUME NEW k \in 1 .. m
        PROVE  g[k] = step[k][g[k - 1]]
    <3>1. k - 1 \in 0 .. m - 1
      OBVIOUS
    <3>2. g[k - 1] = f[k - 1]
      BY <2>4, <3>1
    <3>3. CASE k = m
      BY <2>2, <2>4, <3>2, <3>3
    <3>4. CASE k # m
      <4>1. k \in 1 .. m - 1 /\ k \in 0 .. m - 1
        BY <3>4
      <4>2. f[k] = step[k][f[k - 1]]
        BY <2>1, <4>1
      <4> QED
        BY <2>4, <3>2, <4>1, <4>2
    <3> QED
      BY <3>3, <3>4
  <2>7. Solves(g, m)
    BY <2>5, <2>6
  <2>8. m \in 0 .. n
    OBVIOUS
  <2> HIDE DEF Solves
  <2> QED
    BY <2>3, <2>7, <2>8
<1>3. P \in SUBSET (0 .. n)
  OBVIOUS
<1> HIDE DEF P
<1>4. P = 0 .. n
  BY <1>1, <1>2, <1>3, UpTo
<1> QED
  BY <1>4 DEF P, RecursionSolved

-----------------------------------------------------------------------------
(***************************************************************************)
(* A sequence that is another with elements left out.                      *)
(***************************************************************************)

\* f says where in t the elements of s are.
Embeds(f, s, t) ==
    /\ f \in [1 .. Len(s) -> 1 .. Len(t)]
    /\ \A i \in 1 .. Len(s) : s[i] = t[f[i]]
    /\ \A i, j \in 1 .. Len(s) : i < j => f[i] < f[j]

Within(s, t) == \E f : Embeds(f, s, t)

\* A piece of a sequence is within it.
LEMMA PieceWithin ==
    ASSUME NEW S, NEW s \in Seq(S), NEW t \in Seq(S), NEW d \in Nat,
           \A i \in 1 .. Len(s) : d + i <= Len(t) /\ s[i] = t[d + i]
    PROVE  Within(s, t)
<1> DEFINE f == [i \in 1 .. Len(s) |-> d + i]
<1>1. Len(s) \in Nat /\ Len(t) \in Nat
  OBVIOUS
<1>2. \A i \in 1 .. Len(s) : f[i] = d + i /\ f[i] \in 1 .. Len(t)
  BY <1>1
<1>3. f \in [1 .. Len(s) -> 1 .. Len(t)]
  BY <1>2
<1> HIDE DEF f
<1>4. \A i, j \in 1 .. Len(s) : i < j => f[i] < f[j]
  BY <1>1, <1>2
<1>5. \A i \in 1 .. Len(s) : s[i] = t[f[i]]
  BY <1>2
<1>6. QED
  BY <1>3, <1>4, <1>5 DEF Embeds, Within

\* So is the whole of it, and nothing.
LEMMA WithinItself ==
    ASSUME NEW S, NEW t \in Seq(S)
    PROVE  Within(t, t) /\ Within(<<>>, t)
<1>1. \A i \in 1 .. Len(t) : 0 + i <= Len(t) /\ t[i] = t[0 + i]
  OBVIOUS
<1>2. Within(t, t)
  BY <1>1, PieceWithin
<1>3. <<>> \in Seq(S) /\ \A i \in 1 .. Len(<<>>) : 0 + i <= Len(t) /\ <<>>[i] = t[0 + i]
  OBVIOUS
<1>4. Within(<<>>, t)
  BY <1>3, PieceWithin
<1>5. QED
  BY <1>2, <1>4

\* What is within a part is within the whole.
LEMMA WithinPart ==
    ASSUME NEW S, NEW s \in Seq(S), NEW t \in Seq(S), NEW u \in Seq(S),
           Within(s, t), Within(t, u)
    PROVE  Within(s, u)
<1>1. PICK f : Embeds(f, s, t)
  BY DEF Within
<1>2. PICK g : Embeds(g, t, u)
  BY DEF Within
<1> DEFINE h == [i \in 1 .. Len(s) |-> g[f[i]]]
<1>3. /\ \A i \in 1 .. Len(s) : f[i] \in 1 .. Len(t) /\ s[i] = t[f[i]]
      /\ \A i, j \in 1 .. Len(s) : i < j => f[i] < f[j]
      /\ \A i \in 1 .. Len(t) : g[i] \in 1 .. Len(u) /\ t[i] = u[g[i]]
      /\ \A i, j \in 1 .. Len(t) : i < j => g[i] < g[j]
  BY <1>1, <1>2 DEF Embeds
<1>4. \A i \in 1 .. Len(s) : h[i] = g[f[i]]
  OBVIOUS
<1>5. h \in [1 .. Len(s) -> 1 .. Len(u)]
  BY <1>3
<1> HIDE DEF h
<1>6. \A i \in 1 .. Len(s) : s[i] = u[h[i]]
  BY <1>3, <1>4
<1>7. \A i, j \in 1 .. Len(s) : i < j => h[i] < h[j]
  BY <1>3, <1>4
<1>8. QED
  BY <1>5, <1>6, <1>7 DEF Embeds, Within

\* Pieces of two parts, put together, are within the two put together.
LEMMA WithinBoth ==
    ASSUME NEW S, NEW s \in Seq(S), NEW t \in Seq(S), NEW u \in Seq(S), NEW v \in Seq(S),
           Within(s, t), Within(u, v)
    PROVE  Within(s \o u, t \o v)
<1>1. PICK f : Embeds(f, s, t)
  BY DEF Within
<1>2. PICK g : Embeds(g, u, v)
  BY DEF Within
<1>3. /\ Len(s) \in Nat /\ Len(t) \in Nat /\ Len(u) \in Nat /\ Len(v) \in Nat
      /\ Len(s \o u) = Len(s) + Len(u) /\ Len(t \o v) = Len(t) + Len(v)
      /\ \A i \in 1 .. Len(s) + Len(u) :
            (s \o u)[i] = IF i <= Len(s) THEN s[i] ELSE u[i - Len(s)]
      /\ \A i \in 1 .. Len(t) + Len(v) :
            (t \o v)[i] = IF i <= Len(t) THEN t[i] ELSE v[i - Len(t)]
  BY ConcatProperties
<1>4. /\ \A i \in 1 .. Len(s) : f[i] \in 1 .. Len(t) /\ s[i] = t[f[i]]
      /\ \A i, j \in 1 .. Len(s) : i < j => f[i] < f[j]
      /\ \A i \in 1 .. Len(u) : g[i] \in 1 .. Len(v) /\ u[i] = v[g[i]]
      /\ \A i, j \in 1 .. Len(u) : i < j => g[i] < g[j]
  BY <1>1, <1>2 DEF Embeds
<1> DEFINE n == Len(s) + Len(u)
           h == [i \in 1 .. n |-> IF i <= Len(s) THEN f[i] ELSE Len(t) + g[i - Len(s)]]
<1>5. /\ \A i \in 1 .. Len(s) : i \in 1 .. n /\ h[i] = f[i]
      /\ \A i \in 1 .. n : ~(i <= Len(s)) =>
            i - Len(s) \in 1 .. Len(u) /\ h[i] = Len(t) + g[i - Len(s)]
  BY <1>3
<1>6. h \in [1 .. n -> 1 .. Len(t) + Len(v)]
  <2>1. ASSUME NEW i \in 1 .. n
        PROVE  h[i] \in 1 .. Len(t) + Len(v)
    <3> HIDE DEF h
    <3>1. CASE i <= Len(s)
      <4>1. i \in 1 .. Len(s)
        BY <1>3, <3>1
      <4>2. QED
        BY <1>3, <1>4, <1>5, <4>1
    <3>2. CASE ~(i <= Len(s))
      <4>1. i - Len(s) \in 1 .. Len(u) /\ h[i] = Len(t) + g[i - Len(s)]
        BY <1>5, <3>2
      <4>2. g[i - Len(s)] \in 1 .. Len(v)
        BY <1>4, <4>1
      <4>3. QED
        BY <1>3, <4>1, <4>2
    <3>3. QED
      BY <3>1, <3>2
  <2>2. QED
    BY <2>1
<1> HIDE DEF h
<1>7. ASSUME NEW i \in 1 .. n
      PROVE  (s \o u)[i] = (t \o v)[h[i]]
  <2>1. CASE i <= Len(s)
    <3>1. i \in 1 .. Len(s)
      BY <1>3, <2>1
    <3>2. h[i] = f[i] /\ f[i] \in 1 .. Len(t) /\ s[i] = t[f[i]]
      BY <1>4, <1>5, <3>1
    <3>3. QED
      BY <1>3, <2>1, <3>2
  <2>2. CASE ~(i <= Len(s))
    <3> DEFINE j == i - Len(s)
    <3>1. j \in 1 .. Len(u) /\ h[i] = Len(t) + g[j]
      BY <1>5, <2>2
    <3>2. g[j] \in 1 .. Len(v) /\ u[j] = v[g[j]]
      BY <1>4, <3>1
    <3>3. /\ h[i] \in 1 .. Len(t) + Len(v) /\ ~(h[i] <= Len(t))
          /\ h[i] - Len(t) = g[j]
      BY <1>3, <3>1, <3>2
    <3>4. (t \o v)[h[i]] = v[g[j]]
      BY <1>3, <3>3
    <3>5. (s \o u)[i] = u[j]
      BY <1>3, <2>2
    <3>6. QED
      BY <3>2, <3>4, <3>5
  <2>3. QED
    BY <2>1, <2>2
<1>8. ASSUME NEW i \in 1 .. n, NEW j \in 1 .. n, i < j
      PROVE  h[i] < h[j]
  <2>1. CASE j <= Len(s)
    <3>1. i \in 1 .. Len(s) /\ j \in 1 .. Len(s)
      BY <1>3, <1>8, <2>1
    <3>2. QED
      BY <1>4, <1>5, <1>8, <3>1
  <2>2. CASE i <= Len(s) /\ ~(j <= Len(s))
    <3>1. i \in 1 .. Len(s) /\ h[i] = f[i] /\ f[i] \in 1 .. Len(t)
      BY <1>3, <1>4, <1>5, <2>2
    <3>2. j - Len(s) \in 1 .. Len(u) /\ h[j] = Len(t) + g[j - Len(s)]
      BY <1>5, <2>2
    <3>3. g[j - Len(s)] \in 1 .. Len(v)
      BY <1>4, <3>2
    <3>4. QED
      BY <1>3, <3>1, <3>2, <3>3
  <2>3. CASE ~(i <= Len(s))
    <3> DEFINE a == i - Len(s)
               b == j - Len(s)
    <3>1. ~(j <= Len(s))
      BY <1>3, <1>8, <2>3
    <3>2. /\ a \in 1 .. Len(u) /\ h[i] = Len(t) + g[a]
          /\ b \in 1 .. Len(u) /\ h[j] = Len(t) + g[b]
      BY <1>5, <2>3, <3>1
    <3>3. a < b
      BY <1>3, <1>8
    <3> HIDE DEF a, b
    <3>4. g[a] < g[b] /\ g[a] \in 1 .. Len(v) /\ g[b] \in 1 .. Len(v)
      BY <1>4, <3>2, <3>3
    <3>5. QED
      BY <1>3, <3>2, <3>4
  <2>4. QED
    BY <2>1, <2>2, <2>3
<1>9. QED
  BY <1>3, <1>6, <1>7, <1>8 DEF Embeds, Within

-----------------------------------------------------------------------------
\* f is what the first i of a sequence of sequences come to, one behind another.
Flattens(f, seqs, S) ==
    /\ f \in [0 .. Len(seqs) -> Seq(S)]
    /\ f[0] = <<>>
    /\ \A i \in 1 .. Len(seqs) : f[i] = f[i - 1] \o seqs[i]

\* Such an f exists, and its last value is FlattenSeq.
LEMMA Flattened ==
    ASSUME NEW S, NEW seqs \in Seq(Seq(S))
    PROVE  /\ FlattenSeq(seqs) \in Seq(S)
           /\ \E f : Flattens(f, seqs, S) /\ FlattenSeq(seqs) = f[Len(seqs)]
<1> DEFINE n == Len(seqs)
           step == [i \in 1 .. n |-> [x \in Seq(S) |-> x \o seqs[i]]]
           Solves(f) == f = [i \in 1 .. n |-> IF i = 1 THEN seqs[i] ELSE f[i - 1] \o seqs[i]]
<1>1. n \in Nat /\ <<>> \in Seq(S) /\ \A i \in 1 .. n : seqs[i] \in Seq(S)
  OBVIOUS
<1>2. /\ step \in [1 .. n -> [Seq(S) -> Seq(S)]]
      /\ \A i \in 1 .. n, x \in Seq(S) : step[i][x] = x \o seqs[i]
  BY <1>1, ConcatProperties
<1> HIDE DEF step
<1>3. PICK f \in [0 .. n -> Seq(S)] :
          f[0] = <<>> /\ \A i \in 1 .. n : f[i] = step[i][f[i - 1]]
  <2>1. RecursionSolved(Seq(S), n, <<>>, step)
    BY <1>1, <1>2, RecursionExists
  <2>2. QED
    BY <2>1 DEF RecursionSolved
<1>4. ASSUME NEW i \in 1 .. n
      PROVE  f[i] = f[i - 1] \o seqs[i] /\ f[i - 1] \in Seq(S)
  <2>1. i - 1 \in 0 .. n
    BY <1>1
  <2>2. QED
    BY <1>2, <1>3, <2>1
<1>5. Flattens(f, seqs, S)
  BY <1>3, <1>4 DEF Flattens
<1>6. CASE n = 0
  <2>1. seqs = <<>>
    BY <1>6
  <2>2. QED
    BY <1>1, <1>3, <1>5, <1>6, <2>1 DEF FlattenSeq
<1>7. CASE n # 0
  <2> DEFINE h == [i \in 1 .. n |-> f[i]]
  <2>1. Solves(h)
    <3>1. ASSUME NEW i \in 1 .. n
          PROVE  h[i] = IF i = 1 THEN seqs[i] ELSE h[i - 1] \o seqs[i]
      <4>1. CASE i = 1
        <5>1. f[i] = <<>> \o seqs[i] /\ seqs[i] \in Seq(S)
          <6>1. i - 1 = 0
            BY <4>1
          <6>2. QED
            BY <1>1, <1>3, <1>4, <6>1
        <5>2. QED
          BY <4>1, <5>1, ConcatEmptySeq
      <4>2. CASE i # 1
        <5>1. i - 1 \in 1 .. n
          BY <1>1, <4>2
        <5>2. QED
          BY <1>4, <4>2, <5>1
      <4>3. QED
        BY <4>1, <4>2
    <3>2. h = [i \in 1 .. n |-> h[i]]
      OBVIOUS
    <3>3. QED
      BY <3>1, <3>2
  <2> DEFINE g == CHOOSE f1 : Solves(f1)
  <2>2. Solves(g)
    BY <2>1
  <2>3. FlattenSeq(seqs) = g[n]
    BY <1>7 DEF FlattenSeq
  <2> DEFINE P == {i \in 0 .. n : i # 0 => g[i] = f[i]}
  <2> HIDE DEF g, h
  <2>4. 0 \in P
    BY <1>1
  <2>5. ASSUME NEW i \in 1 .. n, i - 1 \in P
        PROVE  i \in P
    <3>1. g[i] = IF i = 1 THEN seqs[i] ELSE g[i - 1] \o seqs[i]
      BY <2>2
    <3>2. CASE i = 1
      <4>1. f[i] = <<>> \o seqs[i] /\ seqs[i] \in Seq(S)
        <5>1. i - 1 = 0
          BY <3>2
        <5>2. QED
          BY <1>1, <1>3, <1>4, <5>1
      <4>2. f[i] = seqs[i]
        BY <4>1, ConcatEmptySeq
      <4>3. QED
        BY <1>1, <3>1, <3>2, <4>2
    <3>3. CASE i # 1
      <4>1. g[i - 1] = f[i - 1]
        BY <2>5, <3>3
      <4>2. g[i] = f[i]
        BY <1>4, <3>1, <3>3, <4>1
      <4>3. QED
        BY <1>1, <4>2
    <3>4. QED
      BY <3>2, <3>3
  <2>6. P \in SUBSET (0 .. n)
    OBVIOUS
  <2> HIDE DEF P
  <2>7. P = 0 .. n
    BY <1>1, <2>4, <2>5, <2>6, UpTo
  <2>8. g[n] = f[n] /\ f[n] \in Seq(S)
    BY <1>1, <1>3, <1>7, <2>7 DEF P
  <2>9. QED
    BY <1>5, <2>3, <2>8
<1>8. QED
  BY <1>6, <1>7

\* One more at the end goes behind all the others.
LEMMA FlattenAppend ==
    ASSUME NEW S, NEW seqs \in Seq(Seq(S)), NEW s \in Seq(S)
    PROVE  /\ Append(seqs, s) \in Seq(Seq(S))
           /\ FlattenSeq(Append(seqs, s)) = FlattenSeq(seqs) \o s
<1> DEFINE n == Len(seqs)
           more == Append(seqs, s)
<1>1. /\ n \in Nat /\ more \in Seq(Seq(S)) /\ Len(more) = n + 1 /\ more[n + 1] = s
      /\ \A i \in 1 .. n : more[i] = seqs[i]
  OBVIOUS
<1>2. PICK f : Flattens(f, seqs, S) /\ FlattenSeq(seqs) = f[n]
  BY Flattened
<1> HIDE DEF more
<1>3. PICK g : Flattens(g, more, S) /\ FlattenSeq(more) = g[n + 1]
  BY <1>1, Flattened
<1> DEFINE P == {i \in 0 .. n : g[i] = f[i]}
<1>4. 0 \in P
  BY <1>1, <1>2, <1>3 DEF Flattens
<1>5. ASSUME NEW i \in 1 .. n, i - 1 \in P
      PROVE  i \in P
  <2>1. i \in 1 .. n + 1
    BY <1>1
  <2>2. g[i] = g[i - 1] \o seqs[i] /\ f[i] = f[i - 1] \o seqs[i]
    BY <1>1, <1>2, <1>3, <2>1 DEF Flattens
  <2>3. g[i - 1] = f[i - 1]
    BY <1>5
  <2>4. g[i] = f[i]
    BY <2>2, <2>3
  <2>5. QED
    BY <1>1, <2>4
<1>6. P \in SUBSET (0 .. n)
  OBVIOUS
<1> HIDE DEF P
<1>7. P = 0 .. n
  BY <1>1, <1>4, <1>5, <1>6, UpTo
<1>8. g[n] = f[n]
  BY <1>1, <1>7 DEF P
<1>9. g[n + 1] = g[n] \o s
  <2>1. n + 1 \in 1 .. Len(more) /\ (n + 1) - 1 = n
    BY <1>1
  <2>2. g[n + 1] = g[(n + 1) - 1] \o more[n + 1]
    BY <1>3, <2>1 DEF Flattens
  <2>3. QED
    BY <1>1, <2>1, <2>2
<1>10. QED
  BY <1>1, <1>2, <1>3, <1>8, <1>9 DEF more

-----------------------------------------------------------------------------
\* Up to n, f adds at every number what bonus says to what it is where jump
\* leads, and is 0 where it stops.
Counts(f, n, stop, bonus, jump) ==
    \A k \in 0 .. n : f[k] = IF k \in stop THEN 0 ELSE bonus[k] + f[jump[k]]

\* A recursion that goes down by any number of steps has a solution.
LEMMA CountExists ==
    ASSUME NEW n \in Nat, NEW stop, NEW bonus \in [0 .. n -> Nat],
           NEW jump \in [0 .. n -> Nat],
           \A k \in 0 .. n : k \notin stop => jump[k] < k
    PROVE  \E f \in [0 .. n -> Nat] : Counts(f, n, stop, bonus, jump)
<1> DEFINE P == {m \in 0 .. n : \E f \in [0 .. m -> Nat] : Counts(f, m, stop, bonus, jump)}
<1>1. 0 \in P
  <2> DEFINE f == [k \in 0 .. 0 |-> 0]
  <2>1. f \in [0 .. 0 -> Nat] /\ f[0] = 0
    OBVIOUS
  <2>2. 0 \in stop /\ 0 .. 0 = {0}
    <3>1. ASSUME 0 \notin stop
          PROVE  FALSE
      <4>1. 0 \in 0 .. n /\ jump[0] \in Nat
        OBVIOUS
      <4>2. QED
        BY <3>1, <4>1
    <3>2. QED
      BY <3>1
  <2> HIDE DEF f
  <2>3. Counts(f, 0, stop, bonus, jump)
    BY <2>1, <2>2 DEF Counts
  <2>4. QED
    BY <2>1, <2>3
<1>2. ASSUME NEW m \in 1 .. n, m - 1 \in P
      PROVE  m \in P
  <2>1. PICK f \in [0 .. m - 1 -> Nat] : Counts(f, m - 1, stop, bonus, jump)
    BY <1>2
  <2> DEFINE last == IF m \in stop THEN 0 ELSE bonus[m] + f[jump[m]]
             g == [k \in 0 .. m |-> IF k = m THEN last ELSE f[k]]
  <2>2. m \in 0 .. n /\ (m \notin stop => jump[m] \in 0 .. m - 1)
    OBVIOUS
  <2>3. last \in Nat
    <3>1. bonus[m] \in Nat
      BY <2>2
    <3>2. m \notin stop => f[jump[m]] \in Nat
      BY <2>1, <2>2
    <3>3. QED
      BY <3>1, <3>2
  <2>4. g \in [0 .. m -> Nat] /\ g[m] = last /\ \A k \in 0 .. m - 1 : g[k] = f[k]
    BY <2>3
  <2> HIDE DEF g
  <2>5. ASSUME NEW k \in 0 .. m
        PROVE  g[k] = IF k \in stop THEN 0 ELSE bonus[k] + g[jump[k]]
    <3>1. CASE k = m
      BY <2>2, <2>4, <3>1
    <3>2. CASE k # m
      <4>1. k \in 0 .. m - 1 /\ k \in 0 .. n
        BY <3>2
      <4>2. k \notin stop => jump[k] \in 0 .. m - 1
        BY <4>1
      <4>3. f[k] = IF k \in stop THEN 0 ELSE bonus[k] + f[jump[k]]
        BY <2>1, <4>1 DEF Counts
      <4>4. QED
        BY <2>4, <4>1, <4>2, <4>3
    <3>3. QED
      BY <3>1, <3>2
  <2>6. Counts(g, m, stop, bonus, jump)
    BY <2>5 DEF Counts
  <2>7. QED
    BY <2>2, <2>4, <2>6
<1>3. P \in SUBSET (0 .. n)
  OBVIOUS
<1> HIDE DEF P
<1>4. n \in P
  <2>1. P = 0 .. n
    BY <1>1, <1>2, <1>3, UpTo
  <2>2. QED
    BY <2>1
<1>5. QED
  BY <1>4 DEF P

\* It has only one.
LEMMA CountsAgree ==
    ASSUME NEW n \in Nat, NEW stop, NEW bonus, NEW jump, NEW f, NEW g,
           Counts(f, n, stop, bonus, jump), Counts(g, n, stop, bonus, jump),
           \A k \in 0 .. n : k \notin stop => jump[k] \in Nat /\ jump[k] < k
    PROVE  f[n] = g[n]
<1> DEFINE P == {k \in 0 .. n : \A j \in 0 .. k : f[j] = g[j]}
<1>1. ASSUME NEW k \in 0 .. n, \A j \in 0 .. n : j < k => f[j] = g[j]
      PROVE  f[k] = g[k]
  <2>1. /\ f[k] = IF k \in stop THEN 0 ELSE bonus[k] + f[jump[k]]
        /\ g[k] = IF k \in stop THEN 0 ELSE bonus[k] + g[jump[k]]
    BY DEF Counts
  <2>2. k \notin stop => jump[k] \in 0 .. n /\ jump[k] < k
    OBVIOUS
  <2>3. k \notin stop => f[jump[k]] = g[jump[k]]
    BY <1>1, <2>2
  <2>4. QED
    BY <2>1, <2>3
<1>2. 0 \in P
  <2>1. \A j \in 0 .. n : ~(j < 0)
    OBVIOUS
  <2>2. f[0] = g[0]
    BY <1>1, <2>1
  <2>3. \A j \in 0 .. 0 : j = 0
    OBVIOUS
  <2>4. QED
    BY <2>2, <2>3
<1>3. ASSUME NEW k \in 1 .. n, k - 1 \in P
      PROVE  k \in P
  <2>1. \A j \in 0 .. n : j < k => j \in 0 .. k - 1
    OBVIOUS
  <2>2. k \in 0 .. n /\ f[k] = g[k]
    BY <1>1, <1>3, <2>1
  <2>3. \A j \in 0 .. k : j = k \/ j \in 0 .. k - 1
    OBVIOUS
  <2>4. QED
    BY <1>3, <2>2, <2>3
<1>4. P \in SUBSET (0 .. n)
  OBVIOUS
<1> HIDE DEF P
<1>5. n \in P
  <2>1. P = 0 .. n
    BY <1>2, <1>3, <1>4, UpTo
  <2>2. QED
    BY <2>1
<1>6. QED
  BY <1>5 DEF P
=============================================================================
