--------------------------- MODULE HookHub_proofs ---------------------------
(***************************************************************************)
(* Proofs about the relay of messages into a session (module HookHub), for *)
(* any messages, listeners, caps and any number of turns and processes.    *)
(***************************************************************************)
EXTENDS HookHub, SequenceTheorems, WellFoundedInduction, NaturalsInduction, TLAPS

---------------------------------------------------------------------------
(* Sequences of messages, and what is picked from them.                    *)

Sorted(s) == \A j, k \in DOMAIN s : j < k => s[j] < s[k]

\* A set of numbers that holds 0, and with each number the next, holds all up to N.
LEMMA UpTo ==
  ASSUME NEW N \in Nat, NEW T, 0 \in T, \A n \in 0..(N - 1) : n \in T => n + 1 \in T
  PROVE  0..N \subseteq T
<1> DEFINE D == {n \in 0..N : n \notin T}
           R == {ss \in Nat \X Nat : ss[1] < ss[2]}
<1>1. IsWellFoundedOn(R, Nat)
  BY NatLessThanWellFounded DEF OpToRel
<1>2. SUFFICES ASSUME D # {} PROVE FALSE
  OBVIOUS
<1>3. D \subseteq Nat
  OBVIOUS
<1>4. PICK n \in D : \A m \in D : ~(<<m, n>> \in R)
  BY <1>1, <1>2, <1>3, WFMin
<1>5. n \in 1..N /\ n - 1 \in 0..(N - 1) /\ n - 1 < n
  BY <1>4
<1>6. n - 1 \notin D
  <2>1. n \in Nat /\ n - 1 \in Nat /\ <<n - 1, n>> \in R
    BY <1>5
  <2> HIDE DEF D, R
  <2> QED BY <1>4, <2>1
<1>7. n - 1 \in T
  BY <1>5, <1>6
<1> QED BY <1>4, <1>5, <1>7

LEMMA ElemsTyped == ASSUME NEW s \in Seq(Messages) PROVE Elems(s) \subseteq Messages
<1>1. \A k \in DOMAIN s : s[k] \in Messages
  OBVIOUS
<1> QED BY <1>1 DEF Elems

\* A message put behind a sequence.
LEMMA PutBehind ==
  ASSUME NEW s \in Seq(Messages), NEW m \in Messages
  PROVE  /\ Append(s, m) \in Seq(Messages) /\ Len(Append(s, m)) = Len(s) + 1
         /\ Elems(Append(s, m)) = Elems(s) \cup {m}
         /\ Sorted(s) /\ (\A x \in Elems(s) : x < m) => Sorted(Append(s, m))
<1> DEFINE t == Append(s, m)
<1>1. /\ t \in Seq(Messages) /\ Len(t) = Len(s) + 1 /\ Len(s) \in Nat
      /\ DOMAIN s = 1..Len(s) /\ DOMAIN t = 1..(Len(s) + 1)
      /\ t[Len(s) + 1] = m /\ \A k \in 1..Len(s) : t[k] = s[k]
  OBVIOUS
<1> HIDE DEF t
<1>2. Elems(t) = Elems(s) \cup {m}
  BY <1>1 DEF Elems
<1>3. ASSUME Sorted(s), \A x \in Elems(s) : x < m PROVE Sorted(t)
  <2>1. ASSUME NEW j \in DOMAIN t, NEW k \in DOMAIN t, j < k PROVE t[j] < t[k]
    <3>1. j \in 1..Len(s)
      BY <1>1, <2>1
    <3>2. CASE k = Len(s) + 1
      BY <1>1, <1>3, <3>1, <3>2 DEF Elems
    <3>3. CASE k \in 1..Len(s)
      BY <1>1, <1>3, <2>1, <3>1, <3>3 DEF Sorted
    <3> QED BY <1>1, <3>2, <3>3
  <2> QED BY <2>1 DEF Sorted
<1> QED BY <1>1, <1>2, <1>3 DEF t

\* The steps by which Only picks.
Picks(f, q, S, n) ==
  /\ f[0] = <<>>
  /\ \A k \in 1..n : f[k] = IF q[k] \in S THEN Append(f[k - 1], q[k]) ELSE f[k - 1]

LEMMA OnlyPicks ==
  ASSUME NEW q \in Seq(Messages), NEW S
  PROVE  \E f : Picks(f, q, S, Len(q)) /\ Only(q, S) = f[Len(q)]
<1> DEFINE N == Len(q)
           T == {n \in 0..N : \E f \in [0..n -> Seq(Messages)] : Picks(f, q, S, n)}
<1>1. N \in Nat /\ \A k \in 1..N : q[k] \in Messages
  OBVIOUS
<1> HIDE DEF N
<1>2. 0 \in T
  <2> DEFINE f == [k \in 0..0 |-> <<>>]
  <2>1. f \in [0..0 -> Seq(Messages)] /\ Picks(f, q, S, 0)
    BY DEF Picks
  <2>2. 0 \in 0..N
    BY <1>1
  <2> HIDE DEF f
  <2> QED BY <2>1, <2>2
<1>3. ASSUME NEW n \in 0..(N - 1), n \in T PROVE n + 1 \in T
  <2>1. PICK f \in [0..n -> Seq(Messages)] : Picks(f, q, S, n)
    BY <1>3
  <2> DEFINE x == IF q[n + 1] \in S THEN Append(f[n], q[n + 1]) ELSE f[n]
             g == [k \in 0..(n + 1) |-> IF k = n + 1 THEN x ELSE f[k]]
  <2>2. n \in Nat /\ n + 1 \in 1..N /\ f[n] \in Seq(Messages) /\ q[n + 1] \in Messages
    BY <1>1
  <2>3. x \in Seq(Messages)
    BY <2>2
  <2>4. \A k \in 0..(n + 1) : k = n + 1 \/ k \in 0..n
    BY <2>2
  <2>5. g \in [0..(n + 1) -> Seq(Messages)]
    <3> HIDE DEF x
    <3> QED BY <2>3, <2>4
  <2>6. Picks(g, q, S, n + 1)
    <3>1. g[0] = <<>>
      BY <2>1, <2>2 DEF Picks
    <3>2. ASSUME NEW k \in 1..(n + 1)
          PROVE  g[k] = IF q[k] \in S THEN Append(g[k - 1], q[k]) ELSE g[k - 1]
      <4>1. CASE k = n + 1
        <5>1. g[k] = x /\ g[k - 1] = f[n]
          BY <2>2, <4>1
        <5> QED BY <4>1, <5>1
      <4>2. CASE k \in 1..n
        <5>1. g[k] = f[k] /\ g[k - 1] = f[k - 1]
          <6> HIDE DEF x
          <6> QED BY <2>2, <4>2
        <5> QED BY <2>1, <4>2, <5>1 DEF Picks
      <4> QED BY <2>2, <4>1, <4>2
    <3> QED BY <3>1, <3>2 DEF Picks
  <2> HIDE DEF g, x
  <2> QED BY <1>1, <2>2, <2>5, <2>6
<1>4. N \in T
  <2> HIDE DEF T
  <2>1. 0..N \subseteq T
    BY <1>1, <1>2, <1>3, UpTo
  <2> QED BY <1>1, <2>1
<1>5. PICK g \in [0..N -> Seq(Messages)] : Picks(g, q, S, N)
  BY <1>4
<1> DEFINE Whole(f) == f = [n \in 0..Len(q) |-> IF n = 0 THEN <<>>
                                               ELSE IF q[n] \in S THEN Append(f[n - 1], q[n])
                                               ELSE f[n - 1]]
<1>6. Whole(g)
  <2>1. \A n \in 0..N : n = 0 \/ n \in 1..N
    BY <1>1
  <2>2. \A n \in 0..N : g[n] = IF n = 0 THEN <<>>
                               ELSE IF q[n] \in S THEN Append(g[n - 1], q[n])
                               ELSE g[n - 1]
    BY <1>5, <2>1 DEF Picks
  <2> QED BY <2>2 DEF N
<1>7. PICK f : Whole(f) /\ Only(q, S) = f[Len(q)]
  <2>1. Only(q, S) = (CHOOSE f : Whole(f))[Len(q)]
    BY DEF Only
  <2>2. Whole(CHOOSE f : Whole(f))
    <3> HIDE DEF Whole
    <3> QED BY <1>6
  <2> HIDE DEF Whole
  <2> QED BY <2>1, <2>2
<1>8. Picks(f, q, S, Len(q))
  <2>1. f[0] = <<>>
    BY <1>1, <1>7 DEF N
  <2>2. ASSUME NEW k \in 1..N PROVE f[k] = IF q[k] \in S THEN Append(f[k - 1], q[k]) ELSE f[k - 1]
    <3>1. k \in 0..Len(q) /\ k # 0
      BY <1>1, <2>2 DEF N
    <3> QED BY <1>7, <3>1
  <2> QED BY <2>1, <2>2 DEF Picks, N
<1> QED BY <1>7, <1>8

\* What is picked from messages in their order are those asked for, in their order.
LEMMA OnlyIs ==
  ASSUME NEW q \in Seq(Messages), Sorted(q), NEW S
  PROVE  /\ Only(q, S) \in Seq(Messages) /\ Len(Only(q, S)) <= Len(q)
         /\ Sorted(Only(q, S)) /\ Elems(Only(q, S)) = Elems(q) \cap S
<1>1. PICK f : Picks(f, q, S, Len(q)) /\ Only(q, S) = f[Len(q)]
  BY OnlyPicks
<1> DEFINE N == Len(q)
           Good(n) == /\ f[n] \in Seq(Messages) /\ Len(f[n]) <= n
                      /\ Sorted(f[n]) /\ Elems(f[n]) = {q[k] : k \in 1..n} \cap S
           T == {n \in 0..N : Good(n)}
<1>2. N \in Nat /\ DOMAIN q = 1..N /\ \A k \in 1..N : q[k] \in Messages
  OBVIOUS
<1> HIDE DEF N
<1>3. Good(0)
  <2>1. f[0] = <<>>
    BY <1>1 DEF Picks
  <2>2. Sorted(<<>>) /\ Elems(<<>>) = {}
    BY DEF Sorted, Elems
  <2>3. {q[k] : k \in 1..0} = {}
    OBVIOUS
  <2> QED BY <2>1, <2>2, <2>3
<1>4. ASSUME NEW n \in 0..(N - 1), Good(n) PROVE Good(n + 1)
  <2>1. n \in Nat /\ n + 1 \in 1..N /\ q[n + 1] \in Messages
    BY <1>2
  <2>2. f[n + 1] = IF q[n + 1] \in S THEN Append(f[n], q[n + 1]) ELSE f[n]
    BY <1>1, <2>1 DEF Picks, N
  <2>3. {q[k] : k \in 1..(n + 1)} = {q[k] : k \in 1..n} \cup {q[n + 1]}
    <3>1. \A k : k \in 1..(n + 1) <=> k \in 1..n \/ k = n + 1
      BY <2>1
    <3> QED BY <3>1
  <2>4. CASE q[n + 1] \in S
    <3>1. \A x \in Elems(f[n]) : x < q[n + 1]
      <4>1. ASSUME NEW k \in 1..n PROVE q[k] < q[n + 1]
        BY <1>2, <2>1, <4>1 DEF Sorted
      <4> QED BY <1>4, <4>1
    <3> QED BY <1>4, <2>1, <2>2, <2>3, <2>4, <3>1, PutBehind
  <2>5. CASE q[n + 1] \notin S
    BY <1>4, <2>1, <2>2, <2>3, <2>5
  <2> QED BY <2>4, <2>5
<1>5. Good(N)
  <2>1. 0 \in T
    BY <1>2, <1>3
  <2>2. \A n \in 0..(N - 1) : n \in T => n + 1 \in T
    <3> HIDE DEF Good
    <3> QED BY <1>2, <1>4
  <2>3. 0..N \subseteq T
    <3> HIDE DEF T
    <3> QED BY <1>2, <2>1, <2>2, UpTo
  <2> HIDE DEF Good
  <2> QED BY <1>2, <2>3
<1>6. {q[k] : k \in 1..N} = Elems(q)
  BY <1>2 DEF Elems
<1> QED BY <1>1, <1>5, <1>6 DEF N

\* The first n messages of a queue, and the others.
LEMMA Split ==
  ASSUME NEW q \in Seq(Messages), Sorted(q), NEW n \in 0..Len(q)
  PROVE  LET b == SubSeq(q, 1, n)
             r == SubSeq(q, n + 1, Len(q))
         IN  /\ b \in Seq(Messages) /\ Len(b) = n /\ Sorted(b)
             /\ r \in Seq(Messages) /\ Len(r) = Len(q) - n /\ Sorted(r)
             /\ Elems(b) \cup Elems(r) = Elems(q)
             /\ \A x \in Elems(b), y \in Elems(r) : x < y
             /\ b \o r = q
<1> DEFINE b == SubSeq(q, 1, n)
           r == SubSeq(q, n + 1, Len(q))
           N == Len(q)
<1>1. /\ N \in Nat /\ n \in 0..N /\ n \in Nat /\ N - n \in Nat
      /\ DOMAIN q = 1..N /\ \A k \in 1..N : q[k] \in Messages
  OBVIOUS
<1>2. /\ b \in Seq(Messages) /\ Len(b) = n /\ DOMAIN b = 1..n
      /\ \A k \in 1..n : b[k] = q[k]
  OBVIOUS
<1>3. /\ r \in Seq(Messages) /\ Len(r) = N - n /\ DOMAIN r = 1..(N - n)
      /\ \A k \in 1..(N - n) : r[k] = q[n + k]
  OBVIOUS
<1> HIDE DEF b, r
<1>4. b \o r = q
  <2>1. SubSeq(q, 1, n) \o SubSeq(q, n + 1, N) = SubSeq(q, 1, N)
    <3>1. 1 \in 1..(Len(q) + 1) /\ n \in (1 - 1)..Len(q) /\ Len(q) \in n..Len(q)
      BY <1>1
    <3> QED BY <3>1, ConcatAdjacentSubSeq
  <2>2. SubSeq(q, 1, N) = q
    BY SubSeqFull
  <2> QED BY <2>1, <2>2 DEF b, r
<1> HIDE DEF N
<1>5. \A k \in 1..n : k \in 1..N
  BY <1>1
<1>6. \A k \in 1..(N - n) : n + k \in 1..N
  BY <1>1
<1>7. Sorted(b)
  BY <1>1, <1>2, <1>5 DEF Sorted
<1>8. Sorted(r)
  <2>1. ASSUME NEW j \in 1..(N - n), NEW k \in 1..(N - n), j < k PROVE r[j] < r[k]
    <3>1. n + j < n + k
      BY <1>1, <2>1
    <3> QED BY <1>1, <1>3, <1>6, <3>1 DEF Sorted
  <2> QED BY <1>3, <2>1 DEF Sorted
<1>9. Elems(b) \cup Elems(r) = Elems(q)
  <2>1. ASSUME NEW k \in 1..N PROVE q[k] \in Elems(b) \cup Elems(r)
    <3>1. CASE k \in 1..n
      BY <1>2, <3>1 DEF Elems
    <3>2. CASE k - n \in 1..(N - n)
      <4>1. r[k - n] = q[n + (k - n)] /\ n + (k - n) = k
        BY <1>1, <1>3, <3>2
      <4> QED BY <1>3, <3>2, <4>1 DEF Elems
    <3> QED BY <1>1, <3>1, <3>2
  <2>2. \A x \in Elems(b) : x \in Elems(q)
    BY <1>1, <1>2, <1>5 DEF Elems
  <2>3. \A y \in Elems(r) : y \in Elems(q)
    BY <1>1, <1>3, <1>6 DEF Elems
  <2>4. \A x \in Elems(q) : x \in Elems(b) \cup Elems(r)
    BY <1>1, <2>1 DEF Elems
  <2> QED BY <2>2, <2>3, <2>4
<1>10. ASSUME NEW x \in Elems(b), NEW y \in Elems(r) PROVE x < y
  <2>1. PICK j \in 1..n : x = q[j]
    BY <1>2 DEF Elems
  <2>2. PICK k \in 1..(N - n) : y = q[n + k]
    BY <1>3 DEF Elems
  <2>3. j < n + k
    BY <1>1
  <2> QED BY <1>1, <1>5, <1>6, <2>1, <2>2, <2>3 DEF Sorted
<1> QED BY <1>2, <1>3, <1>4, <1>7, <1>8, <1>9, <1>10 DEF b, r, N

\* Messages put behind earlier ones.
LEMMA Joined ==
  ASSUME NEW h \in Seq(Messages), NEW b \in Seq(Messages), Sorted(h), Sorted(b),
         \A x \in Elems(h), y \in Elems(b) : x < y
  PROVE  h \o b \in Seq(Messages) /\ Sorted(h \o b) /\ Elems(h \o b) = Elems(h) \cup Elems(b)
<1> DEFINE t == h \o b
           H == Len(h)
           B == Len(b)
<1>1. /\ H \in Nat /\ B \in Nat /\ t \in Seq(Messages) /\ DOMAIN t = 1..(H + B)
      /\ DOMAIN h = 1..H /\ DOMAIN b = 1..B
      /\ \A k \in 1..(H + B) : t[k] = IF k <= H THEN h[k] ELSE b[k - H]
  OBVIOUS
<1> HIDE DEF t, H, B
<1>2. ASSUME NEW k \in 1..(H + B)
      PROVE  /\ k <= H => k \in 1..H /\ t[k] = h[k] /\ t[k] \in Elems(h)
             /\ k > H => k - H \in 1..B /\ t[k] = b[k - H] /\ t[k] \in Elems(b)
  <2>1. k <= H => k \in 1..H /\ t[k] = h[k]
    BY <1>1
  <2>2. k > H => k - H \in 1..B /\ t[k] = b[k - H]
    BY <1>1
  <2> QED BY <1>1, <2>1, <2>2 DEF Elems
<1>3. Elems(t) = Elems(h) \cup Elems(b)
  <2>1. \A x \in Elems(t) : x \in Elems(h) \cup Elems(b)
    BY <1>1, <1>2 DEF Elems
  <2>2. ASSUME NEW k \in 1..H PROVE h[k] \in Elems(t)
    <3>1. k \in 1..(H + B) /\ t[k] = h[k]
      BY <1>1
    <3> QED BY <1>1, <3>1 DEF Elems
  <2>3. ASSUME NEW k \in 1..B PROVE b[k] \in Elems(t)
    <3>1. H + k \in 1..(H + B) /\ t[H + k] = b[k]
      BY <1>1
    <3> QED BY <1>1, <3>1 DEF Elems
  <2>4. \A x \in Elems(h) \cup Elems(b) : x \in Elems(t)
    BY <1>1, <2>2, <2>3 DEF Elems
  <2> QED BY <2>1, <2>4
<1>4. Sorted(t)
  <2>1. ASSUME NEW j \in 1..(H + B), NEW k \in 1..(H + B), j < k PROVE t[j] < t[k]
    <3>1. CASE k <= H
      <4>1. j \in 1..H /\ k \in 1..H
        BY <1>1, <2>1, <3>1
      <4>2. t[j] = h[j] /\ t[k] = h[k]
        BY <1>1, <4>1
      <4> QED BY <1>1, <2>1, <4>1, <4>2 DEF Sorted
    <3>2. CASE j <= H /\ k > H
      BY <1>1, <1>2, <3>2
    <3>3. CASE j > H
      <4>1. k > H /\ j - H < k - H
        BY <1>1, <2>1, <3>3
      <4> QED BY <1>1, <1>2, <3>3, <4>1 DEF Sorted
    <3> QED BY <1>1, <3>1, <3>2, <3>3
  <2> QED BY <1>1, <2>1 DEF Sorted
<1> QED BY <1>1, <1>3, <1>4 DEF t

---------------------------------------------------------------------------
(* The queue and the messages handed over.                                 *)

Statuses == {"new", "refused", "queued", "delivered", "failed", "cancelled"}

\* h is what was handed over and q what is queued, both in their order, and the
\* messages still to come are the last ones.
Filed(h, q, st) ==
  /\ h \in Seq(Messages) /\ q \in Seq(Messages) /\ Sorted(h) /\ Sorted(q)
  /\ \A x \in Elems(h), y \in Elems(q) : x < y
  /\ st \in [Messages -> Statuses]
  /\ Elems(h) = {m \in Messages : st[m] = "delivered"}
  /\ Elems(q) = {m \in Messages : st[m] = "queued"}
  /\ \A m, n \in Messages : st[m] = "new" /\ m < n => st[n] = "new"

\* What became of a message stays: only one that is new or queued moves on.
Later(st, then) == \A m \in Messages : st[m] \notin {"new", "queued"} => then[m] = st[m]

\* The messages still to come are the same ones.
SameNew(st, then) == \A m \in Messages : st[m] = "new" <=> then[m] = "new"

\* Pruning takes from the queue what may not go now, and nothing else (prune_queue).
LEMMA Prunes ==
  ASSUME NEW h, NEW q, NEW st, NEW md, Filed(h, q, st)
  PROVE  /\ Filed(h, Kept(q, md), Pruned(q, st, md))
         /\ Len(Kept(q, md)) <= Len(q) /\ Len(q) \in Nat
         /\ Elems(Kept(q, md)) \subseteq Elems(q)
         /\ md = "bypass" => Elems(Kept(q, md)) \subseteq Privileged
         /\ Later(st, Pruned(q, st, md))
         /\ SameNew(st, Pruned(q, st, md))
<1> DEFINE S == {m \in Messages \ aged : md = "bypass" => m \in Privileged}
           kept == Kept(q, md)
           then == Pruned(q, st, md)
<1>1. /\ kept \in Seq(Messages) /\ Len(kept) <= Len(q) /\ Sorted(kept)
      /\ Elems(kept) = Elems(q) \cap S
  BY OnlyIs DEF Kept, Filed
<1>2. md = "bypass" => S \subseteq Privileged
  OBVIOUS
<1>3. \A m \in Messages : then[m] = IF m \notin Elems(q) \ Elems(kept) THEN st[m]
                                    ELSE IF m \in aged THEN "failed" ELSE "cancelled"
  BY DEF Pruned
<1>4. then \in [Messages -> Statuses]
  BY <1>3 DEF Pruned, Filed, Statuses
<1> HIDE DEF kept, then, S
<1>5. Filed(h, kept, then)
  BY <1>1, <1>3, <1>4 DEF Filed
<1>6. Later(st, then) /\ SameNew(st, then)
  BY <1>3 DEF Filed, Later, SameNew
<1>7. Len(q) \in Nat
  BY DEF Filed
<1> QED BY <1>1, <1>2, <1>5, <1>6, <1>7 DEF kept, then

\* Handing over the first n of a queue puts them behind what was handed over.
LEMMA Hands ==
  ASSUME NEW h, NEW q, NEW st, Filed(h, q, st), NEW n \in 0..Len(q)
  PROVE  LET b == SubSeq(q, 1, n)
             then == [m \in Messages |-> IF m \in Elems(b) THEN "delivered" ELSE st[m]]
         IN  /\ Filed(h \o b, SubSeq(q, n + 1, Len(q)), then)
             /\ Later(st, then)
             /\ Elems(b) \subseteq Elems(q) /\ b \in Seq(Messages) /\ Len(b) = n
<1> DEFINE b == SubSeq(q, 1, n)
           r == SubSeq(q, n + 1, Len(q))
           then == [m \in Messages |-> IF m \in Elems(b) THEN "delivered" ELSE st[m]]
<1>1. /\ b \in Seq(Messages) /\ Len(b) = n /\ Sorted(b) /\ r \in Seq(Messages) /\ Sorted(r)
      /\ Elems(b) \cup Elems(r) = Elems(q)
      /\ \A x \in Elems(b), y \in Elems(r) : x < y
  BY Split DEF Filed
<1> HIDE DEF b, r
<1>2. \A x \in Elems(h), y \in Elems(b) : x < y
  BY <1>1 DEF Filed
<1>3. h \o b \in Seq(Messages) /\ Sorted(h \o b) /\ Elems(h \o b) = Elems(h) \cup Elems(b)
  BY <1>1, <1>2, Joined DEF Filed
<1>4. \A m \in Messages : then[m] = IF m \in Elems(b) THEN "delivered" ELSE st[m]
  OBVIOUS
<1>5. then \in [Messages -> Statuses]
  BY DEF Filed, Statuses
<1> HIDE DEF then
<1>6. \A x \in Elems(r) : x \notin Elems(b)
  <2>1. Elems(b) \subseteq Nat
    <3>1. Elems(b) \subseteq Messages
      BY <1>1, ElemsTyped
    <3> QED BY <3>1 DEF Messages
  <2> QED BY <1>1, <2>1
<1>7. Elems(h \o b) = {m \in Messages : then[m] = "delivered"}
  BY <1>1, <1>3, <1>4 DEF Filed
<1>8. Elems(r) = {m \in Messages : then[m] = "queued"}
  BY <1>1, <1>4, <1>6 DEF Filed
<1>9. \A m, k \in Messages : then[m] = "new" /\ m < k => then[k] = "new"
  BY <1>1, <1>4 DEF Filed
<1>10. Filed(h \o b, r, then)
  BY <1>1, <1>3, <1>5, <1>7, <1>8, <1>9 DEF Filed
<1>11. Later(st, then)
  BY <1>1, <1>4 DEF Filed, Later
<1> QED BY <1>1, <1>10, <1>11 DEF b, r, then

\* A message that comes goes behind all others (enqueue_inner).
LEMMA Comes ==
  ASSUME NEW h, NEW q, NEW st, Filed(h, q, st), NEW m \in Messages, st[m] = "new",
         \A n \in 1..(m - 1) : st[n] # "new"
  PROVE  /\ Filed(h, Append(q, m), [st EXCEPT ![m] = "queued"])
         /\ Filed(h, q, [st EXCEPT ![m] = "refused"])
         /\ Later(st, [st EXCEPT ![m] = "queued"]) /\ Later(st, [st EXCEPT ![m] = "refused"])
         /\ Len(Append(q, m)) = Len(q) + 1
<1>1. /\ st \in [Messages -> Statuses] /\ Elems(h) \subseteq Messages /\ Elems(q) \subseteq Messages
      /\ m \in Nat /\ \A n \in Messages : n < m => n \in 1..(m - 1)
  BY DEF Filed, Messages
<1>2. \A x \in Elems(h) \cup Elems(q) : x < m
  <2>1. ASSUME NEW x \in Messages, st[x] # "new" PROVE x < m
    <3>1. ~(m < x) /\ x # m
      BY <2>1 DEF Filed
    <3>2. x \in Nat
      BY DEF Messages
    <3> QED BY <1>1, <3>1, <3>2
  <2> QED BY <2>1 DEF Filed
<1>3. /\ Append(q, m) \in Seq(Messages) /\ Len(Append(q, m)) = Len(q) + 1
      /\ Elems(Append(q, m)) = Elems(q) \cup {m} /\ Sorted(Append(q, m))
  BY <1>2, PutBehind DEF Filed
<1>4. ASSUME NEW s \in {"queued", "refused"}
      PROVE  LET then == [st EXCEPT ![m] = s] IN
             /\ then \in [Messages -> Statuses] /\ Later(st, then)
             /\ Elems(h) = {n \in Messages : then[n] = "delivered"}
             /\ \A k, n \in Messages : then[k] = "new" /\ k < n => then[n] = "new"
  <2> DEFINE then == [st EXCEPT ![m] = s]
  <2>1. then \in [Messages -> Statuses] /\ Later(st, then)
    BY <1>1 DEF Statuses, Later
  <2>2. Elems(h) = {n \in Messages : then[n] = "delivered"}
    BY <1>1 DEF Filed
  <2>3. ASSUME NEW k \in Messages, NEW n \in Messages, then[k] = "new", k < n PROVE then[n] = "new"
    <3>1. k # m /\ st[k] = "new"
      BY <1>1, <2>3
    <3>2. ~(k < m)
      BY <1>1, <3>1
    <3>3. n # m
      BY <2>3, <3>2
    <3> QED BY <1>1, <2>3, <3>1, <3>3 DEF Filed
  <2> QED BY <2>1, <2>2, <2>3
<1>5. Elems(Append(q, m)) = {n \in Messages : [st EXCEPT ![m] = "queued"][n] = "queued"}
  BY <1>1, <1>3 DEF Filed
<1>6. Elems(q) = {n \in Messages : [st EXCEPT ![m] = "refused"][n] = "queued"}
  BY <1>1 DEF Filed
<1>7. Filed(h, Append(q, m), [st EXCEPT ![m] = "queued"])
  BY <1>2, <1>3, <1>4, <1>5 DEF Filed
<1>8. Filed(h, q, [st EXCEPT ![m] = "refused"])
  BY <1>4, <1>6 DEF Filed
<1> QED BY <1>3, <1>4, <1>7, <1>8

\* A hand-over takes the first of what pruning leaves, or nothing (claim_raw).
LEMMA HandOverKeeps ==
  ASSUME NEW q, NEW st, NEW md, NEW batch, NEW byHook, Filed(handed, q, st), HubAssumption,
         batch = <<>> \/ batch = Batch(Kept(q, md)), HandOver(q, st, md, batch, byHook)
  PROVE  /\ Filed(handed', queue', status') /\ Len(queue') <= Len(q)
         /\ Later(st, status')
         /\ batch \in Seq(Messages) /\ Elems(batch) \subseteq Messages
         /\ bypassed \subseteq Privileged => bypassed' \subseteq Privileged
         /\ Elems(queue') \subseteq Elems(q)
<1> DEFINE kept == Kept(q, md)
           then == Pruned(q, st, md)
<1>1. /\ Filed(handed, kept, then) /\ Len(kept) <= Len(q) /\ Len(q) \in Nat
      /\ Elems(kept) \subseteq Elems(q)
      /\ md = "bypass" => Elems(kept) \subseteq Privileged
      /\ Later(st, then)
  BY Prunes
<1>2. /\ queue' = SubSeq(kept, Len(batch) + 1, Len(kept))
      /\ status' = [m \in Messages |-> IF m \in Elems(batch) THEN "delivered" ELSE then[m]]
      /\ handed' = handed \o batch
      /\ bypassed' = IF byHook /\ md = "bypass" THEN bypassed \cup Elems(batch) ELSE bypassed
  BY DEF HandOver
<1>3. kept \in Seq(Messages) /\ Sorted(kept)
  BY <1>1 DEF Filed
<1>4. PICK n \in 0..Len(kept) : batch = SubSeq(kept, 1, n)
  <2>1. CASE batch = <<>>
    <3>1. batch = SubSeq(kept, 1, 0) /\ 0 \in 0..Len(kept)
      BY <1>3, <2>1
    <3> QED BY <3>1
  <2>2. CASE batch = Batch(kept)
    <3>1. (IF Len(kept) < Fits THEN Len(kept) ELSE Fits) \in 0..Len(kept)
      <4>1. Len(kept) \in Nat
        BY <1>3
      <4> HIDE DEF kept
      <4> QED BY <4>1 DEF HubAssumption
    <3> QED BY <2>2, <3>1 DEF Batch
  <2> QED BY <2>1, <2>2
<1> HIDE DEF kept, then
<1>5. /\ Filed(handed \o batch, SubSeq(kept, n + 1, Len(kept)),
               [m \in Messages |-> IF m \in Elems(batch) THEN "delivered" ELSE then[m]])
      /\ Later(then, [m \in Messages |-> IF m \in Elems(batch) THEN "delivered" ELSE then[m]])
      /\ Elems(batch) \subseteq Elems(kept) /\ batch \in Seq(Messages) /\ Len(batch) = n
  BY <1>1, <1>4, Hands
<1>6. Filed(handed', queue', status') /\ Later(then, status')
  BY <1>2, <1>5
<1>7. Later(st, status')
  BY <1>1, <1>6 DEF Later, Filed, Pruned
<1>8. Len(queue') <= Len(q) /\ Elems(queue') \subseteq Elems(q)
  <2> DEFINE r == SubSeq(kept, n + 1, Len(kept))
  <2>1. Len(kept) \in Nat
    BY <1>3
  <2>2. Len(batch) = n
    BY <1>5
  <2>3. queue' = r
    BY <1>2, <2>2
  <2>4. Len(r) = Len(kept) - n /\ Elems(r) \subseteq Elems(kept)
    <3>1. n \in 0..Len(kept)
      OBVIOUS
    <3>2. /\ Len(r) = Len(kept) - n
          /\ Elems(SubSeq(kept, 1, n)) \cup Elems(r) = Elems(kept)
      BY <1>3, <3>1, Split
    <3> HIDE DEF r
    <3> QED BY <3>2
  <2>5. Len(r) <= Len(q)
    <3>1. n \in Nat /\ Len(r) = Len(kept) - n /\ Len(kept) <= Len(q)
      BY <1>1, <2>4
    <3> HIDE DEF r
    <3> QED BY <1>1, <2>1, <3>1
  <2> HIDE DEF r
  <2> QED BY <1>1, <2>3, <2>4, <2>5
<1>9. Elems(batch) \subseteq Messages
  BY <1>5, ElemsTyped
<1>10. bypassed \subseteq Privileged => bypassed' \subseteq Privileged
  <2>1. CASE byHook /\ md = "bypass"
    <3>1. bypassed' = bypassed \cup Elems(batch) /\ Elems(batch) \subseteq Privileged
      BY <1>1, <1>2, <1>5, <2>1
    <3> QED BY <3>1
  <2>2. CASE ~(byHook /\ md = "bypass")
    <3>1. bypassed' = bypassed
      BY <1>2, <2>2
    <3> QED BY <3>1
  <2> QED BY <2>1, <2>2
<1> QED BY <1>5, <1>6, <1>7, <1>8, <1>9, <1>10

\* What a channel can hold.
Signals == [kind : {"nothing", "gone", "superseded", "release"}, text : Seq(Messages)]
Sound(c) == c \in Signals /\ (c.kind = "release" <=> c.text # <<>>)

\* A claim for a listener is handed to it or undone (try_release).
LEMMA TryReleaseKeeps ==
  ASSUME NEW q, NEW st, NEW md, NEW busy \in BOOLEAN, Filed(handed, q, st), HubAssumption,
         TryRelease(q, st, md, busy)
  PROVE  /\ Filed(handed', queue', status') /\ Len(queue') <= Len(q)
         /\ Later(st, status') /\ bypassed' = bypassed
         /\ active' \in {active, "no", "yes"} /\ waiter' \in {waiter, NoPoll}
         /\ \/ signal' = signal
            \/ \E b \in Seq(Messages) : b # <<>> /\ signal' = Tell(waiter, Release(b))
<1> DEFINE kept == Kept(q, md)
           then == Pruned(q, st, md)
           batch == Batch(kept)
<1>1. /\ Filed(handed, kept, then) /\ Len(kept) <= Len(q) /\ Len(q) \in Nat /\ Later(st, then)
  BY Prunes
<1>2. CASE busy \/ q = <<>> \/ waiter = NoPoll
  <2>1. /\ UNCHANGED <<waiter, signal, handed, bypassed>> /\ queue' = q /\ status' = st
        /\ active' = IF busy THEN active ELSE "no"
    BY <1>2 DEF TryRelease
  <2>2. Later(st, st)
    BY DEF Later
  <2> QED BY <1>1, <2>1, <2>2
<1>3. CASE ~(busy \/ q = <<>> \/ waiter = NoPoll) /\ batch # <<>> /\ HasReceiver(waiter)
  <2>1. /\ HandOver(q, st, md, batch, FALSE) /\ signal' = Tell(waiter, Release(batch))
        /\ active' = "yes" /\ waiter' = NoPoll
    BY <1>3 DEF TryRelease, TurnStarts
  <2>2. /\ Filed(handed', queue', status') /\ Len(queue') <= Len(q) /\ Later(st, status')
        /\ batch \in Seq(Messages)
    BY <2>1, HandOverKeeps
  <2>3. bypassed' = bypassed
    BY <2>1 DEF HandOver
  <2> HIDE DEF batch
  <2> QED BY <1>3, <2>1, <2>2, <2>3
<1>4. CASE ~(busy \/ q = <<>> \/ waiter = NoPoll) /\ ~(batch # <<>> /\ HasReceiver(waiter))
  <2>1. /\ queue' = Undone(kept, batch) /\ status' = then /\ active' = "no"
        /\ waiter' \in {waiter, NoPoll} /\ UNCHANGED <<signal, handed, bypassed>>
    BY <1>4 DEF TryRelease
  <2>2. queue' = kept
    <3>1. kept \in Seq(Messages) /\ Sorted(kept)
      BY <1>1 DEF Filed
    <3> DEFINE n == IF Len(kept) < Fits THEN Len(kept) ELSE Fits
    <3>2. n \in 0..Len(kept)
      <4>1. Len(kept) \in Nat
        BY <3>1
      <4> HIDE DEF kept
      <4> QED BY <4>1 DEF HubAssumption
    <3>3. batch = SubSeq(kept, 1, n)
      BY DEF Batch
    <3> HIDE DEF n, kept, batch
    <3>4. Len(batch) = n /\ batch \o SubSeq(kept, n + 1, Len(kept)) = kept
      BY <3>1, <3>2, <3>3, Split
    <3> QED BY <2>1, <3>4 DEF Undone
  <2> QED BY <1>1, <2>1, <2>2
<1> QED BY <1>2, <1>3, <1>4

---------------------------------------------------------------------------
(* What every step keeps of the queue.                                     *)

QueueInv ==
  /\ Filed(handed, queue, status) /\ Len(queue) <= QueueCap
  /\ bypassed \subseteq Privileged

\* A message whose cancel succeeded is over, and one told so was delivered.
AckInv ==
  \A m \in Messages : /\ ack[m] = "cancelled" => status[m] \in {"refused", "failed", "cancelled"}
                      /\ ack[m] = "already_delivered" => status[m] = "delivered"

LEMMA LaterTwice ==
  ASSUME NEW a, NEW b, NEW c, Later(a, b), Later(b, c)
  PROVE  Later(a, c)
BY DEF Later

LEMMA EnqueueKeeps ==
  ASSUME HubAssumption, QueueInv, NEW m \in Messages, Enqueue(m)
  PROVE  QueueInv' /\ Later(status, status')
<1>1. /\ Filed(handed, queue, status) /\ Len(queue) <= QueueCap /\ bypassed \subseteq Privileged
      /\ status[m] = "new" /\ \A n \in 1..(m - 1) : status[n] # "new"
      /\ QueueCap \in Nat /\ Len(queue) \in Nat
  BY DEF QueueInv, Enqueue, HubAssumption, Filed
<1>2. \A d : /\ Filed(handed, Kept(queue, d), Pruned(queue, status, d))
             /\ Len(Kept(queue, d)) <= Len(queue) /\ Later(status, Pruned(queue, status, d))
             /\ SameNew(status, Pruned(queue, status, d))
  BY <1>1, Prunes
<1>3. PICK known \in {FALSE, cliMode = "bypass"} :
        LET md == IF known THEN "bypass" ELSE mode
            kept == Kept(queue, md)
            pruned == Pruned(queue, status, md)
        IN  IF known /\ m \notin Privileged
            THEN /\ status' = [status EXCEPT ![m] = "refused"]
                 /\ UNCHANGED <<mode, queue, active, waiter, signal, handed, bypassed>>
            ELSE /\ mode' = md
                 /\ IF ended
                    THEN /\ status' = [status EXCEPT ![m] = "refused"]
                         /\ UNCHANGED <<queue, active, waiter, signal, handed, bypassed>>
                    ELSE IF Full(kept)
                         THEN /\ queue' = kept /\ status' = [pruned EXCEPT ![m] = "refused"]
                              /\ UNCHANGED <<active, waiter, signal, handed, bypassed>>
                         ELSE TryRelease(Append(kept, m), [pruned EXCEPT ![m] = "queued"],
                                         md, TurnActive)
  BY DEF Enqueue
<1> DEFINE md == IF known THEN "bypass" ELSE mode
           kept == Kept(queue, md)
           pruned == Pruned(queue, status, md)
<1>4. /\ Filed(handed, kept, pruned) /\ Len(kept) <= Len(queue)
      /\ Later(status, pruned) /\ pruned[m] = "new"
      /\ \A n \in 1..(m - 1) : pruned[n] # "new"
  <2>1. /\ Filed(handed, kept, pruned) /\ Len(kept) <= Len(queue) /\ Later(status, pruned)
        /\ SameNew(status, pruned)
    <3> HIDE DEF md
    <3> QED BY <1>2
  <2>2. \A n \in 1..(m - 1) : n \in Messages
    BY DEF Messages, HubAssumption
  <2> HIDE DEF kept, pruned
  <2> QED BY <1>1, <2>1, <2>2 DEF SameNew
<1>5. CASE (known /\ m \notin Privileged) \/ ended
  <2>1. status' = [status EXCEPT ![m] = "refused"] /\ UNCHANGED <<queue, handed, bypassed>>
    BY <1>3, <1>5
  <2>2. Filed(handed, queue, [status EXCEPT ![m] = "refused"])
        /\ Later(status, [status EXCEPT ![m] = "refused"])
    BY <1>1, Comes
  <2> QED BY <1>1, <2>1, <2>2 DEF QueueInv
<1>6. CASE ~(known /\ m \notin Privileged) /\ ~ended /\ Full(kept)
  <2>1. /\ queue' = kept /\ status' = [pruned EXCEPT ![m] = "refused"]
        /\ UNCHANGED <<handed, bypassed>>
    BY <1>3, <1>6
  <2>2. Filed(handed, kept, [pruned EXCEPT ![m] = "refused"])
        /\ Later(pruned, [pruned EXCEPT ![m] = "refused"])
    <3> HIDE DEF kept, pruned
    <3> QED BY <1>4, Comes
  <2>3. Len(kept) <= QueueCap
    <3>1. Len(kept) \in Nat
      BY <1>4 DEF Filed
    <3> HIDE DEF kept
    <3> QED BY <1>1, <1>4, <3>1
  <2> HIDE DEF kept, pruned
  <2>4. Later(status, status')
    BY <1>4, <2>1, <2>2, LaterTwice
  <2> QED BY <1>1, <2>1, <2>2, <2>3, <2>4 DEF QueueInv
<1>7. CASE ~(known /\ m \notin Privileged) /\ ~ended /\ ~Full(kept)
  <2> DEFINE q == Append(kept, m)
             st == [pruned EXCEPT ![m] = "queued"]
  <2>1. TryRelease(q, st, md, TurnActive)
    BY <1>3, <1>7
  <2>2. Filed(handed, q, st) /\ Later(pruned, st) /\ Len(q) = Len(kept) + 1
    <3> HIDE DEF kept, pruned
    <3> QED BY <1>4, Comes
  <2>3. Len(q) <= QueueCap /\ Len(q) \in Nat
    <3>1. Len(kept) \in Nat
      BY <1>4 DEF Filed
    <3>2. ~(Len(kept) >= QueueCap)
      BY <1>7 DEF Full
    <3> HIDE DEF kept, q
    <3> QED BY <1>1, <2>2, <3>1, <3>2
  <2> HIDE DEF q, st, md, kept, pruned
  <2>4. TurnActive \in BOOLEAN
    BY DEF TurnActive
  <2>5. /\ Filed(handed', queue', status') /\ Len(queue') <= Len(q)
        /\ Later(st, status') /\ bypassed' = bypassed
    BY <2>1, <2>2, <2>4, TryReleaseKeeps
  <2>6. Later(status, status')
    BY <1>4, <2>2, <2>5, LaterTwice
  <2>7. Len(queue') \in Nat
    BY <2>5 DEF Filed
  <2> QED BY <1>1, <2>3, <2>5, <2>6, <2>7 DEF QueueInv
<1> QED BY <1>5, <1>6, <1>7

LEMMA CancelKeeps ==
  ASSUME HubAssumption, QueueInv, NEW m \in Messages, Cancel(m)
  PROVE  QueueInv' /\ Later(status, status')
<1>1. Filed(handed, queue, status) /\ Len(queue) <= QueueCap /\ QueueCap \in Nat /\ Len(queue) \in Nat
  BY DEF QueueInv, HubAssumption, Filed
<1>2. CASE m \in Elems(queue)
  <2> DEFINE q == Only(queue, Messages \ {m})
             st == [status EXCEPT ![m] = "cancelled"]
  <2>1. queue' = q /\ status' = st /\ UNCHANGED <<handed, bypassed>>
    BY <1>2 DEF Cancel
  <2>2. /\ q \in Seq(Messages) /\ Len(q) <= Len(queue)
        /\ Sorted(q) /\ Elems(q) = Elems(queue) \cap (Messages \ {m})
    BY <1>1, OnlyIs DEF Filed
  <2>3. /\ st \in [Messages -> Statuses] /\ st[m] = "cancelled"
        /\ \A n \in Messages \ {m} : st[n] = status[n]
    BY <1>1 DEF Filed, Statuses
  <2>4. status[m] = "queued"
    BY <1>1, <1>2 DEF Filed
  <2> HIDE DEF q, st
  <2>5. Filed(handed, q, st)
    <3>1. Elems(handed) = {n \in Messages : st[n] = "delivered"}
      BY <1>1, <2>3, <2>4 DEF Filed
    <3>2. Elems(q) = {n \in Messages : st[n] = "queued"}
      BY <1>1, <2>2, <2>3 DEF Filed
    <3>3. \A k, n \in Messages : st[k] = "new" /\ k < n => st[n] = "new"
      BY <1>1, <2>3, <2>4 DEF Filed
    <3> QED BY <1>1, <2>2, <2>3, <3>1, <3>2, <3>3 DEF Filed
  <2>6. Later(status, st)
    BY <2>3, <2>4 DEF Later
  <2>7. Len(q) <= QueueCap
    <3>1. Len(q) \in Nat
      BY <2>2
    <3> QED BY <1>1, <2>2, <3>1
  <2> QED BY <2>1, <2>5, <2>6, <2>7 DEF QueueInv
<1>3. CASE m \notin Elems(queue)
  <2>1. UNCHANGED <<queue, status, handed, bypassed>>
    BY <1>3 DEF Cancel
  <2> QED BY <2>1 DEF QueueInv, Later, Filed
<1> QED BY <1>2, <1>3

\* What SessionEnd leaves of the queue fails.
LEMMA EndsKeeps ==
  ASSUME HubAssumption, QueueInv, Ends
  PROVE  QueueInv' /\ Later(status, status')
<1> DEFINE st == [m \in Messages |-> IF m \in Elems(queue) THEN "failed" ELSE status[m]]
<1>1. queue' = <<>> /\ status' = st /\ UNCHANGED <<handed, bypassed>>
  BY DEF Ends
<1>2. Filed(handed, queue, status)
  BY DEF QueueInv
<1>3. \A m \in Messages : st[m] = IF m \in Elems(queue) THEN "failed" ELSE status[m]
  OBVIOUS
<1>4. st \in [Messages -> Statuses]
  BY <1>2 DEF Filed, Statuses
<1> HIDE DEF st
<1>5. <<>> \in Seq(Messages) /\ Sorted(<<>>) /\ Elems(<<>>) = {} /\ Len(<<>>) = 0
  BY DEF Sorted, Elems
<1>6. Filed(handed, <<>>, st)
  BY <1>2, <1>3, <1>4, <1>5 DEF Filed
<1>7. Later(status, st)
  BY <1>2, <1>3 DEF Filed, Later
<1> QED BY <1>1, <1>5, <1>6, <1>7 DEF QueueInv, HubAssumption

\* A hand-over keeps what every step must, and so does a claim for a listener.
LEMMA HandOverStep ==
  ASSUME HubAssumption, QueueInv, NEW md, NEW batch, NEW byHook,
         batch = <<>> \/ batch = Batch(Kept(queue, md)),
         HandOver(queue, status, md, batch, byHook)
  PROVE  /\ QueueInv' /\ Later(status, status')
         /\ batch \in Seq(Messages) /\ Elems(batch) \subseteq Messages
         /\ Len(queue') <= Len(queue)
<1>1. Filed(handed, queue, status) /\ Len(queue) <= QueueCap /\ QueueCap \in Nat /\ Len(queue) \in Nat
  BY DEF QueueInv, HubAssumption, Filed
<1>2. /\ Filed(handed', queue', status') /\ Len(queue') <= Len(queue) /\ Later(status, status')
      /\ batch \in Seq(Messages) /\ Elems(batch) \subseteq Messages
      /\ bypassed \subseteq Privileged => bypassed' \subseteq Privileged
  BY <1>1, HandOverKeeps
<1>3. Len(queue') \in Nat
  BY <1>2 DEF Filed
<1> QED BY <1>1, <1>2, <1>3 DEF QueueInv

LEMMA TryReleaseStep ==
  ASSUME HubAssumption, QueueInv, NEW md, NEW busy \in BOOLEAN,
         TryRelease(queue, status, md, busy)
  PROVE  QueueInv' /\ Later(status, status')
<1>1. Filed(handed, queue, status) /\ Len(queue) <= QueueCap /\ QueueCap \in Nat /\ Len(queue) \in Nat
  BY DEF QueueInv, HubAssumption, Filed
<1>2. /\ Filed(handed', queue', status') /\ Len(queue') <= Len(queue) /\ Later(status, status')
      /\ bypassed' = bypassed
  BY <1>1, TryReleaseKeeps
<1>3. Len(queue') \in Nat
  BY <1>2 DEF Filed
<1> QED BY <1>1, <1>2, <1>3 DEF QueueInv

LEMMA QueueNext ==
  ASSUME HubAssumption, QueueInv, [Next]_vars
  PROVE  QueueInv' /\ Later(status, status')
<1>1. ASSUME UNCHANGED <<queue, status, handed, bypassed>>
      PROVE  QueueInv' /\ Later(status, status')
  BY <1>1 DEF QueueInv, Filed, Later
<1>2. ASSUME NEW m \in Messages, Enqueue(m) PROVE QueueInv' /\ Later(status, status')
  BY <1>2, EnqueueKeeps
<1>3. ASSUME NEW m \in Messages, Cancel(m) PROVE QueueInv' /\ Later(status, status')
  BY <1>3, CancelKeeps
<1>4. CASE \E m \in Messages : Ages(m)
  BY <1>1, <1>4 DEF Ages, hubVars
<1>5. CASE RequestInterrupt \/ TurnOff
  BY <1>1, <1>5 DEF RequestInterrupt, TurnOff
<1>6. CASE Gc
  BY <1>6, HandOverStep DEF Gc
<1>7. CASE Prompt \/ UserPromptSubmit \/ PreToolUse \/ Escape \/ SwitchMode
  BY <1>1, <1>7 DEF Prompt, UserPromptSubmit, PreToolUse, Escape, SwitchMode, hubVars
<1>8. CASE PostToolUse
  <2>1. CASE UNCHANGED <<queue, status, handed, bypassed>>
    BY <1>1, <2>1
  <2>2. CASE HandOver(queue, status, cliMode, Batch(Kept(queue, cliMode)), TRUE)
    BY <2>2, HandOverStep
  <2> QED BY <1>8, <2>1, <2>2 DEF PostToolUse
<1>9. CASE Stop
  <2>1. HandOver(queue, status, cliMode, Batch(Kept(queue, cliMode)), TRUE)
    BY <1>9 DEF Stop
  <2> QED BY <2>1, HandOverStep
<1>10. CASE StopFailure \/ ObserveIdle
  <2>1. PICK md : TryRelease(queue, status, md, FALSE)
    BY <1>10 DEF StopFailure, ObserveIdle
  <2> QED BY <2>1, TryReleaseStep
<1>11. CASE SessionEnd \/ WatchEnds
  BY <1>11, EndsKeeps DEF SessionEnd, WatchEnds
<1>12. CASE Dies \/ Resume \/ WatchSeesDead
  BY <1>1, <1>12 DEF Dies, Resume, WatchSeesDead, hubVars
<1>13. ASSUME NEW w \in Polls, Arm(w) PROVE QueueInv' /\ Later(status, status')
  <2> DEFINE md == poll[w].body
             idle == ResetBy(poll[w].owner) \/ ~TurnActive
             batch == IF idle THEN Batch(Kept(queue, md)) ELSE <<>>
  <2>1. CASE idle
    <3>1. HandOver(queue, status, md, batch, FALSE) /\ batch = Batch(Kept(queue, md))
      BY <1>13, <2>1 DEF Arm
    <3> HIDE DEF md, batch
    <3> QED BY <3>1, HandOverStep
  <2>2. CASE ~idle
    <3>1. UNCHANGED <<queue, status, handed, bypassed>>
      BY <1>13, <2>2 DEF Arm
    <3> QED BY <1>1, <3>1
  <2> QED BY <2>1, <2>2
<1>14. ASSUME NEW w \in Polls, PollStep(w), ~Arm(w) PROVE QueueInv' /\ Later(status, status')
  BY <1>1, <1>14 DEF PollStep, Admit, Answers, TimesOut, HangsUp, Drops, Disarm, Wakes, hubVars
<1>15. CASE UNCHANGED vars
  BY <1>1, <1>15 DEF vars, hubVars
<1> QED BY <1>2, <1>3, <1>4, <1>5, <1>6, <1>7, <1>8, <1>9, <1>10, <1>11, <1>12, <1>13, <1>14,
           <1>15 DEF Next

\* Only Cancel writes an answer, and what it says stays true.
LEMMA AckNext ==
  ASSUME HubAssumption, QueueInv, AckInv, [Next]_vars,
         ack \in [Messages -> {"none", "cancelled", "already_delivered", "not_found"}]
  PROVE  AckInv' /\ (ack \in [Messages -> {"none", "cancelled", "already_delivered", "not_found"}])'
<1>1. Later(status, status') /\ QueueInv'
  BY QueueNext
<1>2. CASE ack' = ack
  BY <1>1, <1>2 DEF AckInv, Later
<1>3. ASSUME NEW m \in Messages, Cancel(m)
      PROVE  AckInv' /\ (ack \in [Messages -> {"none", "cancelled", "already_delivered", "not_found"}])'
  <2>1. CASE m \in Elems(queue)
    <3>1. status' = [status EXCEPT ![m] = "cancelled"] /\ ack' = [ack EXCEPT ![m] = "cancelled"]
      BY <1>3, <2>1 DEF Cancel
    <3>2. status'[m] = "cancelled"
      BY <3>1 DEF QueueInv, Filed
    <3> QED BY <1>1, <3>1, <3>2 DEF AckInv, Later
  <2>2. CASE m \notin Elems(queue)
    <3>1. /\ ack' = [ack EXCEPT ![m] = IF status[m] = "delivered"
                                       THEN "already_delivered" ELSE "not_found"]
          /\ status' = status
      BY <1>3, <2>2 DEF Cancel
    <3> QED BY <3>1 DEF AckInv
  <2> QED BY <2>1, <2>2
<1>4. CASE \A m \in Messages : ~Cancel(m)
  <2>1. ack' = ack
    BY <1>4 DEF Next, vars, Enqueue, Ages, RequestInterrupt, TurnOff, Gc, Prompt, UserPromptSubmit,
                PreToolUse, PostToolUse, Stop, StopFailure, Escape, SwitchMode, SessionEnd, Dies,
                Resume, WatchSeesDead, WatchEnds, ObserveIdle, PollStep, Admit, Arm, Answers,
                TimesOut, HangsUp, Drops, Disarm, Wakes
  <2> QED BY <1>2, <2>1
<1> QED BY <1>3, <1>4

---------------------------------------------------------------------------
(* The types of everything else.                                           *)

Places == {"off", "calling", "admitted", "parked", "leaving", "left", "waking"}
PollStates == [at : Places, owner : 1..MaxProcesses, body : Modes]

SessionInv ==
  /\ pid \in 1..MaxProcesses /\ ended \in BOOLEAN /\ mode \in Modes
  /\ active \in {"no", "yes", "idle_since"}
  /\ interrupt \in Nat \cup {NoTurn} /\ waiter \in Polls \cup {NoPoll}
SignalInv == /\ signal \in [Polls -> Signals]
             /\ \A w \in Polls : signal[w].kind = "release" <=> signal[w].text # <<>>
CliInv ==
  /\ cli \in {"idle", "starting", "busy", "ending", "dead"}
  /\ process \in 1..MaxProcesses /\ turn \in Nat /\ cliMode \in Modes
  /\ disabled \in BOOLEAN /\ sawDead \in BOOLEAN
SeenInv == aged \subseteq Messages /\ got \subseteq Messages
RestInv == SessionInv /\ poll \in [Polls -> PollStates] /\ SignalInv /\ CliInv /\ SeenInv

HubInv ==
  /\ QueueInv /\ AckInv /\ RestInv
  /\ ack \in [Messages -> {"none", "cancelled", "already_delivered", "not_found"}]

\* Telling a listener leaves every channel sound.
LEMMA TellKeeps ==
  ASSUME SignalInv, NEW x, NEW c, Sound(c)
  PROVE  /\ Tell(x, c) \in [Polls -> Signals]
         /\ \A w \in Polls : Tell(x, c)[w].kind = "release" <=> Tell(x, c)[w].text # <<>>
<1>1. ASSUME NEW w \in Polls PROVE Tell(x, c)[w] = c \/ Tell(x, c)[w] = signal[w]
  BY DEF Tell
<1>2. Tell(x, c) \in [Polls -> Signals]
  BY DEF Tell, SignalInv, Sound
<1> QED BY <1>1, <1>2 DEF SignalInv, Sound

LEMMA SoundOnes ==
  /\ Sound(Nothing) /\ Sound(Gone) /\ Sound(Superseded)
  /\ \A b \in Seq(Messages) : b # <<>> => Sound(Release(b))
<1>1. <<>> \in Seq(Messages)
  OBVIOUS
<1> QED BY <1>1 DEF Sound, Signals, Nothing, Gone, Superseded, Release

\* A channel that is read, told or left as it was stays sound.
LEMMA SignalKept ==
  ASSUME SignalInv, signal' = signal
         \/ (\E w \in Polls : signal' = [signal EXCEPT ![w] = Nothing])
         \/ (\E x : signal' = Tell(x, Gone) \/ signal' = Tell(x, Superseded))
         \/ (\E x, b : b \in Seq(Messages) /\ b # <<>> /\ signal' = Tell(x, Release(b)))
  PROVE  SignalInv'
<1>1. CASE signal' = signal
  BY <1>1 DEF SignalInv
<1>2. ASSUME NEW w \in Polls, signal' = [signal EXCEPT ![w] = Nothing] PROVE SignalInv'
  <2>1. signal' \in [Polls -> Signals]
    BY <1>2, SoundOnes DEF SignalInv, Sound
  <2>2. signal'[w] = Nothing /\ \A x \in Polls : x # w => signal'[x] = signal[x]
    BY <1>2 DEF SignalInv
  <2> QED BY <2>1, <2>2, SoundOnes DEF SignalInv, Sound
<1>3. ASSUME NEW x, signal' = Tell(x, Gone) \/ signal' = Tell(x, Superseded) PROVE SignalInv'
  BY <1>3, SoundOnes, TellKeeps DEF SignalInv
<1>4. ASSUME NEW x, NEW b, b \in Seq(Messages), b # <<>>, signal' = Tell(x, Release(b)) PROVE SignalInv'
  BY <1>4, SoundOnes, TellKeeps DEF SignalInv
<1> QED BY <1>1, <1>2, <1>3, <1>4

LEMMA GotoKeeps ==
  ASSUME poll \in [Polls -> PollStates], NEW w \in Polls, NEW l \in Places, PollGoto(w, l), HubAssumption
  PROVE  poll' \in [Polls -> PollStates]
<1>1. Off \in PollStates
  BY DEF Off, PollStates, Places, Modes, HubAssumption
<1>2. poll' = [poll EXCEPT ![w] = IF l = "off" THEN Off ELSE [poll[w] EXCEPT !.at = l]]
  BY DEF PollGoto
<1>3. [poll[w] EXCEPT !.at = l] \in PollStates
  BY DEF PollStates
<1> QED BY <1>1, <1>2, <1>3

LEMMA TryReleaseRest ==
  ASSUME HubAssumption, QueueInv, RestInv, NEW q, NEW st, NEW md, NEW busy \in BOOLEAN,
         Filed(handed, q, st), TryRelease(q, st, md, busy)
  PROVE  /\ SignalInv' /\ active' \in {"no", "yes", "idle_since"} /\ waiter' \in Polls \cup {NoPoll}
<1>1. /\ active' \in {active, "no", "yes"} /\ waiter' \in {waiter, NoPoll}
      /\ signal' = signal \/ \E b \in Seq(Messages) : b # <<>> /\ signal' = Tell(waiter, Release(b))
  BY TryReleaseKeeps
<1>2. SignalInv'
  BY <1>1, SignalKept DEF RestInv
<1> QED BY <1>1, <1>2 DEF RestInv, SessionInv
\* One step per action of the dashboard, the hooks, the watch and the listeners.
LEMMA RestNext ==
  ASSUME HubAssumption, QueueInv, RestInv, [Next]_vars
  PROVE  RestInv'
<1> USE DEF SessionInv, CliInv, SeenInv
<1>1. /\ SessionInv /\ poll \in [Polls -> PollStates] /\ SignalInv /\ CliInv /\ SeenInv
      /\ Filed(handed, queue, status)
  BY DEF RestInv, QueueInv
<1>2. ASSUME NEW m \in Messages, Enqueue(m) PROVE RestInv'
  <2>1. /\ UNCHANGED <<pid, ended, interrupt, poll, cliVars, disabled, sawDead, aged, got>>
        /\ mode' \in Modes
    BY <1>1, <1>2 DEF Enqueue, Modes
  <2>2. CASE UNCHANGED <<active, waiter, signal>>
    <3>1. SignalInv'
      BY <1>1, <2>2, SignalKept
    <3> QED BY <1>1, <2>1, <2>2, <3>1 DEF RestInv, cliVars
  <2>3. ASSUME NEW d, ~UNCHANGED <<active, waiter, signal>>,
               TryRelease(Append(Kept(queue, d), m), [Pruned(queue, status, d) EXCEPT ![m] = "queued"],
                          d, TurnActive)
        PROVE  RestInv'
    <3>1. /\ Filed(handed, Kept(queue, d), Pruned(queue, status, d))
          /\ SameNew(status, Pruned(queue, status, d))
      BY <1>1, Prunes
    <3>2. Pruned(queue, status, d)[m] = "new" /\ \A n \in 1..(m - 1) : Pruned(queue, status, d)[n] # "new"
      <4>1. \A n \in 1..(m - 1) : n \in Messages
        BY DEF Messages, HubAssumption
      <4>2. status[m] = "new" /\ \A n \in 1..(m - 1) : status[n] # "new"
        BY <1>2 DEF Enqueue
      <4> QED BY <3>1, <4>1, <4>2 DEF SameNew
    <3> DEFINE q == Append(Kept(queue, d), m)
               st == [Pruned(queue, status, d) EXCEPT ![m] = "queued"]
    <3>3. Filed(handed, q, st)
      BY <3>1, <3>2, Comes
    <3>4. TurnActive \in BOOLEAN
      BY DEF TurnActive
    <3> HIDE DEF q, st
    <3>5. TryRelease(q, st, d, TurnActive)
      BY <2>3 DEF q, st
    <3>6. SignalInv' /\ active' \in {"no", "yes", "idle_since"} /\ waiter' \in Polls \cup {NoPoll}
      BY <3>3, <3>4, <3>5, TryReleaseRest
    <3> QED BY <1>1, <2>1, <3>6 DEF RestInv, cliVars
  <2>4. \/ UNCHANGED <<active, waiter, signal>>
        \/ \E d : TryRelease(Append(Kept(queue, d), m),
                             [Pruned(queue, status, d) EXCEPT ![m] = "queued"], d, TurnActive)
    BY <1>2, Zenon DEF Enqueue
  <2> QED BY <2>2, <2>3, <2>4
<1>3. ASSUME NEW m \in Messages, Cancel(m) \/ Ages(m) PROVE RestInv'
  <2>1. /\ UNCHANGED <<pid, ended, mode, active, interrupt, waiter, poll, signal, cliVars,
                       disabled, sawDead, got>>
        /\ aged' \subseteq Messages
    BY <1>1, <1>3 DEF Cancel, Ages, hubVars, pollVars
  <2> QED BY <1>1, <2>1, SignalKept DEF RestInv, cliVars
<1>4. CASE RequestInterrupt
  <2>1. SignalInv'
    BY <1>1, <1>4, SignalKept DEF RequestInterrupt, pollVars
  <2> QED BY <1>1, <1>4, <2>1 DEF RequestInterrupt, RestInv, pollVars, cliVars
<1>5. CASE TurnOff
  <2>1. SignalInv'
    BY <1>1, <1>5, SignalKept DEF TurnOff
  <2> QED BY <1>1, <1>5, <2>1 DEF TurnOff, RestInv, cliVars
<1>6. CASE Gc
  <2>1. SignalInv'
    BY <1>1, <1>6, SignalKept DEF Gc, pollVars
  <2> QED BY <1>1, <1>6, <2>1 DEF Gc, RestInv, pollVars, cliVars
<1>7. CASE Prompt \/ UserPromptSubmit \/ PreToolUse \/ Escape \/ SwitchMode \/ Dies \/ WatchSeesDead
  <2>1. SignalInv'
    BY <1>1, <1>7, SignalKept DEF Prompt, UserPromptSubmit, PreToolUse, Escape, SwitchMode, Dies,
                               WatchSeesDead, pollVars
  <2>2. UNCHANGED poll
    BY <1>7 DEF Prompt, UserPromptSubmit, PreToolUse, Escape, SwitchMode, Dies, WatchSeesDead, pollVars
  <2>3. CASE Prompt
    BY <1>1, <2>1, <2>2, <2>3 DEF Prompt, RestInv, hubVars
  <2>4. CASE UserPromptSubmit
    BY <1>1, <2>1, <2>2, <2>4 DEF UserPromptSubmit, RestInv, Event, TurnStarts
  <2>5. CASE PreToolUse
    BY <1>1, <2>1, <2>2, <2>5 DEF PreToolUse, RestInv, Event, Interrupted, TurnRuns, ReturnsToPrompt, cliVars
  <2>6. CASE Escape \/ SwitchMode
    BY <1>1, <2>1, <2>2, <2>6 DEF Escape, SwitchMode, RestInv, ReturnsToPrompt, hubVars
  <2>7. CASE Dies \/ WatchSeesDead
    BY <1>1, <2>1, <2>2, <2>7 DEF Dies, WatchSeesDead, RestInv, hubVars, cliVars
  <2> QED BY <1>7, <2>3, <2>4, <2>5, <2>6, <2>7
<1>8. CASE PostToolUse
  <2> DEFINE batch == Batch(Kept(queue, cliMode))
  <2>1. SignalInv' /\ UNCHANGED <<poll, interrupt, waiter, disabled, sawDead, aged, process, turn, cliMode>>
    BY <1>1, <1>8, SignalKept DEF PostToolUse, pollVars, Interrupted, ReturnsToPrompt, cliVars
  <2>2. got' \subseteq Messages
    <3>1. CASE got' = got
      BY <1>1, <3>1
    <3>2. CASE HandOver(queue, status, cliMode, batch, TRUE) /\ got' \subseteq got \cup Elems(batch)
      <4>1. Elems(batch) \subseteq Messages
        BY <3>2, HandOverStep
      <4> HIDE DEF batch
      <4> QED BY <1>1, <3>2, <4>1
    <3> QED BY <1>8, <3>1, <3>2 DEF PostToolUse
  <2>3. /\ pid' \in 1..MaxProcesses /\ ended' \in BOOLEAN /\ mode' \in Modes
        /\ active' \in {"no", "yes", "idle_since"} /\ cli' \in {"idle", "busy"}
    BY <1>1, <1>8 DEF PostToolUse, Event, Interrupted, TurnRuns, ReturnsToPrompt, cliVars
  <2> QED BY <1>1, <2>1, <2>2, <2>3 DEF RestInv
<1>9. CASE Stop
  <2> DEFINE batch == Batch(Kept(queue, cliMode))
  <2>1. SignalInv' /\ UNCHANGED <<waiter, disabled, sawDead, aged, process, turn, cliMode>>
    BY <1>1, <1>9, SignalKept DEF Stop, ReturnsToPrompt, cliVars
  <2>2. HandOver(queue, status, cliMode, batch, TRUE) /\ got' \subseteq got \cup Elems(batch)
    BY <1>9 DEF Stop
  <2>3. got' \subseteq Messages
    <3>1. Elems(batch) \subseteq Messages
      BY <2>2, HandOverStep
    <3> HIDE DEF batch
    <3> QED BY <1>1, <2>2, <3>1
  <2>4. /\ pid' \in 1..MaxProcesses /\ ended' \in BOOLEAN /\ mode' \in Modes /\ interrupt' = NoTurn
        /\ active' \in {"no", "yes", "idle_since"} /\ cli' \in {"idle", "busy"}
    BY <1>1, <1>9 DEF Stop, Event, ReturnsToPrompt, cliVars
  <2>5. poll' \in [Polls -> PollStates]
    <3>1. [at |-> "calling", owner |-> process, body |-> cliMode] \in PollStates
      BY <1>1 DEF PollStates, Places
    <3>2. Listen
      BY <1>9 DEF Stop
    <3> QED BY <1>1, <3>1, <3>2 DEF Listen
  <2> QED BY <1>1, <2>1, <2>3, <2>4, <2>5 DEF RestInv
<1>10. CASE StopFailure
  <2>1. TryRelease(queue, status, cliMode, FALSE)
    BY <1>10 DEF StopFailure
  <2>2. SignalInv' /\ active' \in {"no", "yes", "idle_since"} /\ waiter' \in Polls \cup {NoPoll}
    BY <1>1, <2>1, TryReleaseRest
  <2> QED BY <1>1, <1>10, <2>2 DEF StopFailure, Event, ReturnsToPrompt, RestInv
<1>11. CASE ObserveIdle
  <2>1. TryRelease(queue, status, mode, FALSE)
    BY <1>11 DEF ObserveIdle
  <2>2. SignalInv' /\ active' \in {"no", "yes", "idle_since"} /\ waiter' \in Polls \cup {NoPoll}
    BY <1>1, <2>1, TryReleaseRest
  <2> QED BY <1>1, <1>11, <2>2 DEF ObserveIdle, RestInv, cliVars
<1>12. CASE SessionEnd
  <2>1. SignalInv'
    BY <1>1, <1>12, SignalKept DEF SessionEnd, Ends
  <2> QED BY <1>1, <1>12, <2>1 DEF SessionEnd, Ends, RestInv
<1>13. CASE WatchEnds
  <2>1. SignalInv'
    BY <1>1, <1>13, SignalKept DEF WatchEnds, Ends
  <2> QED BY <1>1, <1>13, <2>1 DEF WatchEnds, Ends, RestInv, cliVars
<1>14. CASE Resume
  <2>1. SignalInv'
    BY <1>1, <1>14, SignalKept DEF Resume
  <2>2. process + 1 \in 1..MaxProcesses
    BY <1>1, <1>14 DEF Resume, HubAssumption
  <2> QED BY <1>1, <1>14, <2>1, <2>2 DEF Resume, RestInv
<1>15. ASSUME NEW w \in Polls, Arm(w) PROVE RestInv'
  <2> DEFINE reset == ResetBy(poll[w].owner)
             idle == reset \/ ~TurnActive
             batch == IF idle THEN Batch(Kept(queue, poll[w].body)) ELSE <<>>
             told == Tell(waiter, IF reset THEN Gone ELSE Superseded)
  <2>1. poll[w] \in PollStates
    BY <1>1
  <2>2. /\ pid' = poll[w].owner /\ mode' = poll[w].body /\ ended' = FALSE
        /\ interrupt' \in {NoTurn, interrupt}
        /\ UNCHANGED <<cliVars, disabled, sawDead, aged, got>>
    BY <1>15 DEF Arm
  <2>3. batch \in Seq(Messages)
    <3>1. CASE idle
      <4>1. HandOver(queue, status, poll[w].body, batch, FALSE) /\ batch = Batch(Kept(queue, poll[w].body))
        BY <1>15, <3>1 DEF Arm
      <4> HIDE DEF batch
      <4> QED BY <4>1, HandOverStep
    <3>2. CASE ~idle
      BY <3>2
    <3> QED BY <3>1, <3>2
  <2>4. told \in [Polls -> Signals] /\ \A x \in Polls : told[x].kind = "release" <=> told[x].text # <<>>
    BY <1>1, TellKeeps, SoundOnes
  <2>5. \/ /\ batch # <<>> /\ active' = "yes" /\ waiter' = NoPoll
           /\ signal' = [told EXCEPT ![w] = Release(batch)] /\ PollGoto(w, "waking")
        \/ /\ active' \in {active, "no"} /\ waiter' = w /\ signal' = told /\ PollGoto(w, "parked")
    BY <1>15 DEF Arm, TurnStarts
  <2> HIDE DEF batch, told
  <2>6. SignalInv'
    <3>1. CASE signal' = told
      BY <2>4, <3>1 DEF SignalInv
    <3>2. CASE batch # <<>> /\ signal' = [told EXCEPT ![w] = Release(batch)]
      <4>1. Sound(Release(batch))
        BY <2>3, <3>2, SoundOnes
      <4>2. signal' \in [Polls -> Signals]
        BY <2>4, <3>2, <4>1 DEF Sound
      <4>3. signal'[w] = Release(batch) /\ \A x \in Polls : x # w => signal'[x] = told[x]
        BY <2>4, <3>2
      <4> QED BY <2>4, <4>1, <4>2, <4>3 DEF SignalInv, Sound
    <3> QED BY <2>5, <3>1, <3>2
  <2>7. poll' \in [Polls -> PollStates]
    BY <1>1, <2>5, GotoKeeps DEF Places
  <2> QED BY <1>1, <2>1, <2>2, <2>5, <2>6, <2>7 DEF RestInv, PollStates, cliVars
<1>16. ASSUME NEW w \in Polls, Admit(w) \/ Answers(w) \/ TimesOut(w) \/ HangsUp(w) \/ Drops(w) \/ Disarm(w)
       PROVE  RestInv'
  <2>1. SignalInv'
    BY <1>1, <1>16, SignalKept DEF Admit, Answers, TimesOut, HangsUp, Drops, Disarm
  <2>2. \E l \in Places : PollGoto(w, l)
    BY <1>16 DEF Admit, Answers, TimesOut, HangsUp, Drops, Disarm, Places
  <2>3. poll' \in [Polls -> PollStates]
    BY <1>1, <2>2, GotoKeeps
  <2>4. /\ UNCHANGED <<pid, ended, mode, active, interrupt, cliVars, disabled, sawDead, aged, got>>
        /\ waiter' \in {waiter, NoPoll}
    BY <1>16 DEF Admit, Answers, TimesOut, HangsUp, Drops, Disarm, hubVars
  <2> QED BY <1>1, <2>1, <2>3, <2>4 DEF RestInv, cliVars
<1>17. ASSUME NEW w \in Polls, Wakes(w) PROVE RestInv'
  <2>1. SignalInv'
    BY <1>1, <1>17, SignalKept DEF Wakes
  <2>2. poll' \in [Polls -> PollStates]
    <3>1. PollGoto(w, "off") /\ "off" \in Places
      BY <1>17 DEF Wakes, Places
    <3> QED BY <1>1, <3>1, GotoKeeps
  <2>3. Elems(signal[w].text) \subseteq Messages
    <3>1. signal[w] \in Signals
      BY <1>1 DEF SignalInv
    <3>2. signal[w].text \in Seq(Messages)
      BY <3>1 DEF Signals
    <3> QED BY <3>2, ElemsTyped
  <2>4. /\ UNCHANGED <<pid, ended, mode, active, interrupt, waiter, disabled, sawDead, aged>>
        /\ got' \subseteq got \cup Elems(signal[w].text)
        /\ cli' \in {cli, "starting"} /\ turn' \in {turn, turn + 1} /\ UNCHANGED <<process, cliMode>>
    BY <1>17 DEF Wakes, hubVars, cliVars
  <2> QED BY <1>1, <2>1, <2>2, <2>3, <2>4 DEF RestInv
<1>18. CASE UNCHANGED vars
  <2>1. SignalInv'
    BY <1>1, <1>18, SignalKept DEF vars, pollVars
  <2> QED BY <1>1, <1>18, <2>1 DEF RestInv, vars, hubVars, pollVars, cliVars
<1> QED BY <1>2, <1>3, <1>4, <1>5, <1>6, <1>7, <1>8, <1>9, <1>10, <1>11, <1>12, <1>13, <1>14,
           <1>15, <1>16, <1>17, <1>18 DEF Next, PollStep
---------------------------------------------------------------------------
(* The theorems.                                                           *)

LEMMA HubInit ==
  ASSUME HubAssumption, Init
  PROVE  HubInv
<1> USE DEF Init
<1>1. QueueInv
  <2>1. <<>> \in Seq(Messages) /\ Sorted(<<>>) /\ Elems(<<>>) = {} /\ Len(<<>>) = 0
    BY DEF Sorted, Elems
  <2>2. Filed(<<>>, <<>>, status)
    BY <2>1 DEF Filed, Statuses
  <2> QED BY <2>1, <2>2 DEF QueueInv, HubAssumption
<1>2. AckInv
  BY DEF AckInv
<1>3. SignalInv
  BY SoundOnes DEF SignalInv, Sound
<1>4. poll \in [Polls -> PollStates]
  BY DEF Off, PollStates, Places, Modes, HubAssumption
<1>5. 1 \in 1..MaxProcesses /\ "default" \in Modes
  BY DEF Modes, HubAssumption
<1>6. SessionInv
  BY <1>5 DEF SessionInv
<1>7. CliInv /\ SeenInv
  BY <1>5 DEF CliInv, SeenInv
<1> QED BY <1>1, <1>2, <1>3, <1>4, <1>6, <1>7 DEF HubInv, RestInv

LEMMA HubNext ==
  ASSUME HubAssumption, HubInv, [Next]_vars
  PROVE  HubInv'
<1>1. /\ QueueInv /\ AckInv /\ RestInv
      /\ ack \in [Messages -> {"none", "cancelled", "already_delivered", "not_found"}]
  BY DEF HubInv
<1> QED BY <1>1, QueueNext, AckNext, RestNext DEF HubInv

LEMMA HubAlways == Spec => []HubInv
<1>1. Init => HubInv
  BY HubInit, HubAssumption
<1>2. HubInv /\ [Next]_vars => HubInv'
  BY HubNext, HubAssumption
<1> QED BY <1>1, <1>2, PTL DEF Spec

\* Every variable keeps its type: a queue no longer than QUEUE_CAP, a channel that
\* holds a text exactly when it holds a release.
THEOREM TypeCorrect == Spec => []TypeOK
<1>1. HubInv => TypeOK
  BY HubAssumption DEF HubInv, QueueInv, RestInv, SessionInv, SignalInv, CliInv, SeenInv, Filed, Statuses,
                       Signals, PollStates, Places, TypeOK
<1> QED BY <1>1, HubAlways, PTL

\* The messages handed over are the delivered ones, the queue is the rest, both in
\* their order, and a cancel's answer stays true (machine.rs claim_raw, unclaim, cancel).
THEOREM HandedInOrderCorrect == Spec => []HandedInOrder
<1>1. ASSUME HubInv PROVE HandedInOrder
  <2>1. Filed(handed, queue, status) /\ AckInv
    BY <1>1 DEF HubInv, QueueInv
  <2>2. InOrder(handed, "delivered") /\ InOrder(queue, "queued")
    BY <2>1 DEF Filed, Sorted, InOrder
  <2>3. ASSUME NEW m \in Messages
        PROVE  /\ ack[m] = "cancelled" => m \notin Elems(handed)
               /\ ack[m] = "already_delivered" => m \in Elems(handed)
    BY <2>1 DEF Filed, AckInv
  <2> QED BY <2>2, <2>3 DEF HandedInOrder
<1> QED BY <1>1, HubAlways, PTL

\* What a hook takes in bypassPermissions is from a privileged sender (prune_queue).
THEOREM BypassTakesPrivilegedCorrect == Spec => []BypassTakesPrivileged
<1>1. HubInv => BypassTakesPrivileged
  BY DEF HubInv, QueueInv, BypassTakesPrivileged
<1> QED BY <1>1, HubAlways, PTL

LEMMA OutlivesNext ==
  ASSUME HubAssumption, HubInv, NothingOutlives, [Next]_vars
  PROVE  NothingOutlives'
<1> DEFINE Asked == cli = "busy" /\ interrupt # NoTurn => interrupt \in {0, turn}
           Over == ended => queue = <<>> /\ waiter = NoPoll /\ active = "no"
<1>1. Asked /\ Over /\ QueueInv
  BY DEF NothingOutlives, TurnActive, HubInv
<1>2. Asked'
  <2>1. CASE cli' # "busy" \/ interrupt' = NoTurn
    BY <2>1
  <2>2. CASE UNCHANGED <<interrupt, turn>> /\ cli = "busy"
    BY <1>1, <2>2
  <2>3. CASE RequestInterrupt
    BY <2>3 DEF RequestInterrupt, cliVars
  <2>4. ASSUME cli' = "busy", interrupt' # NoTurn, ~RequestInterrupt
        PROVE  UNCHANGED <<interrupt, turn>> /\ cli = "busy"
    BY <2>4 DEF Next, vars, hubVars, cliVars, Enqueue, Cancel, Ages, TurnOff, Gc, Prompt,
                UserPromptSubmit, PreToolUse, PostToolUse, Interrupted, ReturnsToPrompt, Stop, StopFailure,
                Escape, SwitchMode, SessionEnd, Dies, Resume, WatchSeesDead, WatchEnds, Ends,
                ObserveIdle, PollStep, Admit, Arm, Answers, TimesOut, HangsUp, Drops, Disarm, Wakes
  <2> QED BY <2>1, <2>2, <2>3, <2>4
<1>3. Over'
  <2>1. CASE ~ended' \/ (queue' = <<>> /\ waiter' = NoPoll /\ active' = "no")
    BY <2>1
  <2>2. CASE ended' /\ ended /\ UNCHANGED <<queue, waiter, active>>
    BY <1>1, <2>2
  <2>3. CASE UserPromptSubmit \/ PreToolUse \/ PostToolUse \/ Stop \/ StopFailure \/ Resume
             \/ \E w \in Polls : Arm(w)
    <3>1. ended' = FALSE
      BY <2>3 DEF UserPromptSubmit, PreToolUse, PostToolUse, Stop, StopFailure, Resume, Event, Arm
    <3> QED BY <2>1, <3>1
  <2>4. CASE SessionEnd \/ WatchEnds
    BY <2>1, <2>4 DEF SessionEnd, WatchEnds, Ends
  <2>5. ASSUME ended', NEW m \in Messages, Enqueue(m) PROVE Over'
    <3>1. ended
      BY <2>5 DEF Enqueue
    <3>2. UNCHANGED <<queue, waiter, active>>
      BY <2>5, <3>1, Zenon DEF Enqueue
    <3> QED BY <1>1, <3>1, <3>2
  <2>6. ASSUME ended', NEW m \in Messages, Cancel(m) PROVE Over'
    <3>1. ended /\ UNCHANGED <<waiter, active>>
      BY <2>6 DEF Cancel
    <3>2. Elems(<<>>) = {}
      BY DEF Elems
    <3>3. queue' = queue
      BY <1>1, <2>6, <3>1, <3>2 DEF Cancel
    <3> QED BY <1>1, <3>1, <3>3
  <2>7. CASE ended' /\ Gc
    <3>1. ended /\ UNCHANGED <<waiter, active>> /\ HandOver(queue, status, mode, <<>>, FALSE)
      BY <2>7 DEF Gc
    <3>2. Len(queue') <= Len(queue) /\ queue' \in Seq(Messages)
      BY <1>1, <3>1, HandOverStep DEF QueueInv, Filed
    <3>3. queue' = <<>>
      BY <1>1, <3>1, <3>2
    <3> QED BY <1>1, <3>1, <3>3
  <2>8. CASE ended' /\ Escape
    BY <1>1, <2>8 DEF Escape, TurnActive
  <2>9. CASE ended' /\ ObserveIdle
    BY <1>1, <2>9 DEF ObserveIdle
  <2>10. CASE ended' /\ TurnOff
    BY <1>1, <2>10 DEF TurnOff
  <2>11. ASSUME ended', NEW w \in Polls, Disarm(w) PROVE Over'
    BY <1>1, <2>11 DEF Disarm
  <2>12. CASE \/ \E m \in Messages : Ages(m)
              \/ RequestInterrupt \/ Prompt \/ SwitchMode \/ Dies \/ WatchSeesDead \/ UNCHANGED vars
              \/ \E w \in Polls : Admit(w) \/ Answers(w) \/ TimesOut(w) \/ HangsUp(w) \/ Drops(w) \/ Wakes(w)
    <3>1. UNCHANGED <<ended, queue, waiter, active>>
      BY <2>12 DEF Ages, RequestInterrupt, Prompt, SwitchMode, Dies, WatchSeesDead, Admit, Answers, TimesOut,
                   HangsUp, Drops, Wakes, hubVars, vars
    <3> QED BY <1>1, <3>1
  <2> QED BY <2>1, <2>3, <2>4, <2>5, <2>6, <2>7, <2>8, <2>9, <2>10, <2>11, <2>12 DEF Next, PollStep
<1> QED BY <1>2, <1>3 DEF NothingOutlives, TurnActive

\* No interrupt outlives its turn, and a session that ended holds no message, no
\* listener and no turn for a resume (machine.rs session_end, arm_waiter, gc).
THEOREM NothingOutlivesCorrect == Spec => []NothingOutlives
<1>1. Init => NothingOutlives
  BY DEF Init, NothingOutlives, TurnActive
<1>2. HubInv /\ NothingOutlives /\ [Next]_vars => NothingOutlives'
  BY OutlivesNext, HubAssumption
<1> QED BY <1>1, <1>2, HubAlways, PTL DEF Spec
=============================================================================
