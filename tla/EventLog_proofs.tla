--------------------------- MODULE EventLog_proofs ---------------------------
(***************************************************************************)
(* Proofs about the replay log of the HTTP bridge (module EventLog), for   *)
(* any caps, any sizes of events, any number of appends and of streams.    *)
(***************************************************************************)
EXTENDS EventLog, SequenceTheorems, WellFoundedInduction, NaturalsInduction, TLAPS

Event == [seq : 1..MaxAppends, size : Sizes]

\* The log is the newest events without a hole.
LogInv ==
  /\ events \in Seq(Event)
  /\ sequence \in 0..MaxAppends /\ Len(events) <= sequence
  /\ \A k \in 1..Len(events) : events[k].seq = sequence - Len(events) + k
  /\ sequence > 0 => events # <<>>
  /\ Len(events) > 1 => Fit(events)
  /\ closed \in BOOLEAN

\* Every append, and the close, notifies once.
NoticeInv ==
  /\ version \in Nat /\ notices \in Nat
  /\ version + notices = sequence + IF closed THEN 1 ELSE 0

Started(s) == at[s] \notin {"off", "validating", "ahead"}

\* The numbers that follow a, up to b.
Run(a, b) == [k \in 1..(b - a) |-> a + k]

\* A stream that started has sent what lies between its two cursors, which are
\* not ahead of the log; one that was told of an expiry lacks more than the log has.
StreamInv(s) ==
  /\ at[s] \in {"off"} \cup Running \cup Ended
  /\ first[s] \in 0..MaxAppends /\ cursor[s] \in 0..MaxAppends
  /\ seen[s] \in 0..version
  /\ ~Started(s) => got[s] = <<>>
  /\ at[s] = "validating" => cursor[s] = first[s]
  /\ Started(s) => /\ first[s] <= cursor[s] /\ cursor[s] <= sequence
                   /\ got[s] = Run(first[s], cursor[s])
  /\ at[s] = "expired" => cursor[s] + Len(events) < sequence

StreamTypes ==
  /\ at = [s \in Streams |-> at[s]] /\ first = [s \in Streams |-> first[s]]
  /\ cursor = [s \in Streams |-> cursor[s]] /\ seen = [s \in Streams |-> seen[s]]
  /\ got = [s \in Streams |-> got[s]]

IInv == LogInv /\ NoticeInv /\ StreamTypes /\ \A s \in Streams : StreamInv(s)

USE LogAssumption

---------------------------------------------------------------------------
(* What the operators of the log compute.                                  *)

\* A set of numbers that is not empty has a least one.
LEMMA LeastNumber ==
  ASSUME NEW T \in SUBSET Nat, T # {}
  PROVE  \E n \in T : \A m \in T : n <= m
<1> DEFINE R == {ss \in Nat \X Nat : ss[1] < ss[2]}
<1>1. IsWellFoundedOn(R, Nat)
  BY NatLessThanWellFounded DEF OpToRel
<1>2. PICK n \in T : \A m \in T : ~(<<m, n>> \in R)
  BY <1>1, WFMin
<1>3. \A m \in T : m < n => <<m, n>> \in R
  OBVIOUS
<1>4. ASSUME NEW m \in T PROVE n <= m
  <2>1. m \in Nat /\ n \in Nat
    OBVIOUS
  <2>2. ~(m < n)
    BY <1>2, <1>3
  <2> QED BY <2>1, <2>2
<1> QED BY <1>4

\* What an append keeps is the end of the log, at least its last event.
LEMMA RetainedIsTail ==
  ASSUME NEW es \in Seq(Event), es # <<>>
  PROVE  \E n \in 0..(Len(es) - 1) :
           /\ Retained(es) = SubSeq(es, n + 1, Len(es))
           /\ n = Len(es) - 1 \/ Fit(Retained(es))
<1> DEFINE Ok(k) == k = Len(es) - 1 \/ Fit(SubSeq(es, k + 1, Len(es)))
           T == {k \in 0..(Len(es) - 1) : Ok(k)}
<1>1. Len(es) \in Nat \ {0}
  BY EmptySeq
<1>2. T \subseteq Nat /\ Len(es) - 1 \in T
  BY <1>1
<1>3. PICK n \in T : \A m \in T : n <= m
  BY <1>2, LeastNumber
<1>4. \A j \in 0..(n - 1) : ~Fit(SubSeq(es, j + 1, Len(es)))
  BY <1>1, <1>3
<1>5. \E k \in 0..(Len(es) - 1) :
         /\ k = Len(es) - 1 \/ Fit(SubSeq(es, k + 1, Len(es)))
         /\ \A j \in 0..(k - 1) : ~Fit(SubSeq(es, j + 1, Len(es)))
  BY <1>3, <1>4
<1> DEFINE k == CHOOSE k \in 0..(Len(es) - 1) :
             /\ k = Len(es) - 1 \/ Fit(SubSeq(es, k + 1, Len(es)))
             /\ \A j \in 0..(k - 1) : ~Fit(SubSeq(es, j + 1, Len(es)))
<1>6. k \in 0..(Len(es) - 1) /\ (k = Len(es) - 1 \/ Fit(SubSeq(es, k + 1, Len(es))))
  BY <1>5
<1>7. Retained(es) = SubSeq(es, k + 1, Len(es))
  BY DEF Retained
<1> QED BY <1>6, <1>7

\* The events past a cursor within the window are those up to the newest.
LEMMA AfterIsTail ==
  ASSUME LogInv, NEW c \in 0..MaxAppends, ~Ahead(c), ~Expired(c), NEW es, es = After(c)
  PROVE  /\ es \in Seq(Event) /\ Len(es) = sequence - c
         /\ \A k \in 1..Len(es) : es[k].seq = c + k
<1> DEFINE n == c - (sequence - Len(events))
           P(k) == \A j \in DOMAIN events : events[j].seq > c <=> j > k
<1>1. Len(events) \in Nat /\ DOMAIN events = 1..Len(events)
      /\ sequence \in Nat /\ c <= sequence
  BY LenProperties DEF LogInv, Ahead
<1>2. n \in 0..Len(events)
  <2>1. CASE events = <<>>
    BY <2>1, <1>1, EmptySeq DEF LogInv
  <2>2. CASE events # <<>>
    <3>1. Len(events) > 0 /\ Head(events) = events[1]
      BY <2>2, <1>1, EmptySeq DEF LogInv
    <3>2. c >= events[1].seq - 1
      BY <2>2, <3>1, <1>1 DEF Expired, LogInv
    <3> QED BY <3>1, <3>2, <1>1 DEF LogInv
  <2> QED BY <2>1, <2>2
<1>3. P(n)
  BY <1>1, <1>2 DEF LogInv
<1>4. \A k \in 0..Len(events) : P(k) => k = n
  <2> SUFFICES ASSUME NEW k \in 0..Len(events), P(k), k # n PROVE FALSE
    OBVIOUS
  <2>1. CASE k < n
    BY <2>1, <1>1, <1>2, <1>3
  <2>2. CASE k > n
    BY <2>2, <1>1, <1>2, <1>3
  <2> QED BY <2>1, <2>2, <1>2
<1>5. es = SubSeq(events, n + 1, Len(events))
  <2> DEFINE m == CHOOSE k \in 0..Len(events) : P(k)
  <2>1. m = n
    BY <1>2, <1>3, <1>4
  <2> HIDE DEF n
  <2>2. After(c) = SubSeq(events, m + 1, Len(events))
    BY DEF After
  <2> QED BY <2>1, <2>2
<1>6. \A i \in (n + 1)..Len(events) : events[i] \in Event
  BY <1>1, <1>2, ElementOfSeq DEF LogInv
<1>7. /\ es \in Seq(Event) /\ Len(es) = Len(events) - n
      /\ \A i \in 1..(Len(events) - n) : es[i] = events[n + i]
  BY <1>1, <1>2, <1>5, <1>6, SubSeqProperties
<1>8. \A k \in 1..(Len(events) - n) : events[n + k].seq = c + k
  <2> SUFFICES ASSUME NEW k \in 1..(Len(events) - n) PROVE events[n + k].seq = c + k
    OBVIOUS
  <2>1. n + k \in 1..Len(events)
    BY <1>1, <1>2
  <2> QED BY <1>1, <1>2, <2>1 DEF LogInv
<1>9. Len(events) - n = sequence - c
  BY <1>1, <1>2
<1> HIDE DEF P, n
<1> QED BY <1>1, <1>7, <1>8, <1>9

\* A cursor that expired lacks more than the log has.
LEMMA ExpiredLacks ==
  ASSUME LogInv, NEW c \in 0..MaxAppends, Expired(c)
  PROVE  c + Len(events) < sequence
<1>1. Len(events) \in Nat \ {0} /\ Head(events) = events[1]
  BY EmptySeq DEF Expired, LogInv
<1> QED BY <1>1 DEF Expired, LogInv

\* Two runs one after the other are one run.
LEMMA RunsJoin ==
  ASSUME NEW a \in Nat, NEW b \in Nat, NEW c \in Nat, a <= b, b <= c
  PROVE  Run(a, b) \o Run(b, c) = Run(a, c)
<1>1. /\ Run(a, b) \in Seq(Nat) /\ Len(Run(a, b)) = b - a
      /\ Run(b, c) \in Seq(Nat) /\ Len(Run(b, c)) = c - b
      /\ Run(a, c) \in Seq(Nat) /\ Len(Run(a, c)) = c - a
  BY DEF Run
<1>2. \A i \in 1..(c - a) : (Run(a, b) \o Run(b, c))[i] = Run(a, c)[i]
  BY <1>1, ConcatProperties DEF Run
<1>3. Run(a, b) \o Run(b, c) \in Seq(Nat) /\ Len(Run(a, b) \o Run(b, c)) = c - a
  BY <1>1, ConcatProperties
<1> QED BY <1>1, <1>2, <1>3, SeqEqual

---------------------------------------------------------------------------
(* The log.                                                                *)

\* An append keeps the log in order, and it grows by one event at most.
LEMMA AppendLog ==
  ASSUME LogInv, NEW size \in Sizes, AppendRaw(size)
  PROVE  LogInv' /\ Len(events') <= Len(events) + 1
<1> DEFINE e == [seq |-> sequence + 1, size |-> size]
           es == Append(events, e)
<1>1. /\ Len(events) \in Nat /\ sequence \in Nat /\ sequence < MaxAppends
      /\ events \in Seq(Event) /\ e \in Event
  BY LenProperties DEF LogInv, AppendRaw, Event
<1>2. /\ es \in Seq(Event) /\ es # <<>> /\ Len(es) = Len(events) + 1
      /\ \A k \in 1..Len(es) : es[k] = IF k <= Len(events) THEN events[k] ELSE e
  BY <1>1, AppendProperties
<1>3. \A k \in 1..Len(es) : es[k].seq = sequence - Len(events) + k
  BY <1>1, <1>2 DEF LogInv
<1> HIDE DEF e, es
<1>4. PICK n \in 0..(Len(es) - 1) : /\ Retained(es) = SubSeq(es, n + 1, Len(es))
                                    /\ n = Len(es) - 1 \/ Fit(Retained(es))
  BY <1>2, RetainedIsTail
<1>5. events' = Retained(es) /\ sequence' = sequence + 1 /\ closed' = closed
  BY DEF AppendRaw, es, e
<1>6. \A k \in (n + 1)..Len(es) : es[k] \in Event
  BY <1>1, <1>2, ElementOfSeq
<1>7. /\ events' \in Seq(Event) /\ Len(events') = Len(es) - n
      /\ \A k \in 1..(Len(es) - n) : events'[k] = es[n + k]
  BY <1>1, <1>2, <1>4, <1>5, <1>6, SubSeqProperties
<1>8. \A k \in 1..Len(events') : events'[k].seq = sequence' - Len(events') + k
  <2> SUFFICES ASSUME NEW k \in 1..Len(events')
               PROVE  events'[k].seq = sequence' - Len(events') + k
    OBVIOUS
  <2>1. n + k \in 1..Len(es)
    BY <1>1, <1>2, <1>7
  <2>2. events'[k].seq = sequence - Len(events) + (n + k)
    BY <1>3, <1>7, <2>1
  <2> QED BY <1>1, <1>2, <1>5, <1>7, <2>2
<1>9. events' # <<>> /\ Len(events') <= sequence'
  BY <1>1, <1>2, <1>5, <1>7, EmptySeq DEF LogInv
<1>10. Len(events') > 1 => Fit(events')
  BY <1>1, <1>2, <1>4, <1>5, <1>7
<1>11. Fit(events)' = Fit(events')
  OBVIOUS
<1>12. sequence' \in 0..MaxAppends /\ closed' \in BOOLEAN
  BY <1>1, <1>5 DEF LogInv
<1>13. LogInv'
  BY <1>5, <1>7, <1>8, <1>9, <1>10, <1>11, <1>12 DEF LogInv, Event
<1>14. Len(events') <= Len(events) + 1
  BY <1>1, <1>2, <1>7
<1> QED BY <1>13, <1>14

\* Newer events take nothing from what a stream was told.
LEMMA AppendStreams ==
  ASSUME IInv, LogInv', Len(events') <= Len(events) + 1,
         NEW size \in Sizes, AppendRaw(size), NEW s \in Streams
  PROVE  StreamInv(s)'
<1>1. /\ UNCHANGED <<version, at, first, cursor, seen, got>>
      /\ sequence' = sequence + 1 /\ sequence \in Nat
  BY DEF AppendRaw, IInv, LogInv, streamVars
<1>2. Len(events) \in Nat /\ Len(events') \in Nat
  BY LenProperties DEF IInv, LogInv
<1> QED BY <1>1, <1>2 DEF IInv, StreamInv, Started, Run

\* An append.
LEMMA AppendStep ==
  ASSUME IInv, NEW size \in Sizes, AppendRaw(size)
  PROVE  IInv'
<1>1. LogInv' /\ Len(events') <= Len(events) + 1
  BY AppendLog DEF IInv
<1>2. \A s \in Streams : StreamInv(s)'
  BY <1>1, AppendStreams
<1>3. NoticeInv'
  BY DEF IInv, NoticeInv, LogInv, AppendRaw
<1>4. StreamTypes'
  BY DEF IInv, StreamTypes, AppendRaw, streamVars
<1> QED BY <1>1, <1>2, <1>3, <1>4 DEF IInv

\* The close.
LEMMA CloseStep ==
  ASSUME IInv, Close
  PROVE  IInv'
<1>1. LogInv'
  BY DEF IInv, LogInv, Close
<1>2. NoticeInv'
  BY DEF IInv, LogInv, NoticeInv, Close
<1>3. StreamTypes' /\ \A s \in Streams : StreamInv(s)'
  BY DEF IInv, StreamTypes, StreamInv, Started, Close, streamVars
<1> QED BY <1>1, <1>2, <1>3 DEF IInv

\* A writer notifies the readers.
LEMMA NotifyStep ==
  ASSUME IInv, Notify
  PROVE  IInv'
<1>1. LogInv'
  BY DEF IInv, LogInv, Notify, logVars
<1>2. NoticeInv'
  BY DEF IInv, NoticeInv, Notify, logVars
<1>3. StreamTypes' /\ \A s \in Streams : StreamInv(s)'
  BY DEF IInv, NoticeInv, StreamTypes, StreamInv, Started, Notify, logVars, streamVars
<1> QED BY <1>1, <1>2, <1>3 DEF IInv

---------------------------------------------------------------------------
(* A stream.                                                               *)

\* A step of a stream touches neither the log nor another stream.
Only(s) ==
  /\ UNCHANGED <<events, sequence, closed, version, notices>>
  /\ StreamTypes'
  /\ \A r \in Streams : r # s => /\ at'[r] = at[r] /\ first'[r] = first[r]
                                 /\ cursor'[r] = cursor[r] /\ seen'[r] = seen[r]
                                 /\ got'[r] = got[r]

\* It is enough to look at the stream that took the step.
LEMMA OthersKept ==
  ASSUME IInv, NEW s \in Streams, Only(s), StreamInv(s)'
  PROVE  IInv'
<1>1. LogInv' /\ NoticeInv'
  BY DEF Only, IInv, LogInv, NoticeInv
<1>2. ASSUME NEW r \in Streams, r # s PROVE StreamInv(r)'
  BY <1>2 DEF Only, IInv, StreamInv, Started
<1>3. StreamTypes'
  BY DEF Only, StreamTypes
<1> QED BY <1>1, <1>2, <1>3 DEF IInv

\* A request names its cursor.
LEMMA RequestStep ==
  ASSUME IInv, NEW s \in Streams, Request(s)
  PROVE  IInv'
<1>1. PICK c \in {OldestCursor} \cup 0..MaxAppends :
         cursor' = [cursor EXCEPT ![s] = c] /\ first' = [first EXCEPT ![s] = c]
  BY DEF Request
<1>2. OldestCursor \in 0..MaxAppends
  <2>1. CASE events = <<>>
    BY <2>1 DEF OldestCursor, IInv, LogInv
  <2>2. CASE events # <<>>
    <3>1. Len(events) \in Nat \ {0} /\ Head(events) = events[1]
      BY <2>2, EmptySeq DEF IInv, LogInv
    <3> QED BY <2>2, <3>1 DEF OldestCursor, IInv, LogInv
  <2> QED BY <2>1, <2>2
<1>3. Only(s)
  BY <1>1 DEF Request, Goto, Only, IInv, StreamTypes, logVars
<1>4. StreamInv(s)'
  BY <1>1, <1>2 DEF Request, Goto, IInv, StreamTypes, StreamInv, Started, Running, Ended
<1> QED BY <1>3, <1>4, OthersKept

\* The cursor is accepted or refused.
LEMMA ValidateStep ==
  ASSUME IInv, NEW s \in Streams, Validate(s)
  PROVE  IInv'
<1>1. Only(s)
  BY DEF Validate, Goto, Only, IInv, StreamTypes, logVars
<1>2. /\ UNCHANGED <<first, cursor, seen, got, version, events, sequence>>
      /\ at[s] = "validating"
      /\ at'[s] = IF Ahead(cursor[s]) THEN "ahead" ELSE IF Expired(cursor[s]) THEN "expired"
                  ELSE "reading"
  BY DEF Validate, Goto, IInv, StreamTypes, logVars
<1>3. StreamInv(s) /\ sequence \in Nat
  BY DEF IInv, LogInv
<1>4. Run(first[s], first[s]) = <<>>
  BY <1>3 DEF StreamInv, Run
<1>5. Expired(cursor[s]) => cursor[s] + Len(events) < sequence
  BY <1>3, ExpiredLacks DEF IInv, StreamInv
<1>6. StreamInv(s)'
  BY <1>2, <1>3, <1>4, <1>5 DEF StreamInv, Started, Running, Ended, Ahead
<1> QED BY <1>1, <1>6, OthersKept

\* A read subscribes.
LEMMA SubscribeStep ==
  ASSUME IInv, NEW s \in Streams, Subscribe(s)
  PROVE  IInv'
<1>1. Only(s)
  BY DEF Subscribe, Goto, Only, IInv, StreamTypes, logVars
<1>2. /\ Started(s) /\ StreamInv(s) /\ version \in Nat
      /\ at'[s] = "looking" /\ seen'[s] = version
      /\ UNCHANGED <<first, cursor, got, events, sequence, version>>
  BY DEF Subscribe, Goto, Started, IInv, StreamTypes, NoticeInv, logVars
<1>3. StreamInv(s)'
  BY <1>2 DEF StreamInv, Started, Running, Ended
<1> QED BY <1>1, <1>3, OthersKept

\* A waiting read is woken.
LEMMA ChangedStep ==
  ASSUME IInv, NEW s \in Streams, Changed(s)
  PROVE  IInv'
<1>1. Only(s)
  BY DEF Changed, Goto, Only, IInv, StreamTypes, logVars
<1>2. /\ Started(s) /\ StreamInv(s) /\ version \in Nat
      /\ at'[s] = "looking" /\ seen'[s] = version
      /\ UNCHANGED <<first, cursor, got, events, sequence, version>>
  BY DEF Changed, Goto, Started, IInv, StreamTypes, NoticeInv, logVars
<1>3. StreamInv(s)'
  BY <1>2 DEF StreamInv, Started, Running, Ended
<1> QED BY <1>1, <1>3, OthersKept

\* A heartbeat elapses.
LEMMA ElapsesStep ==
  ASSUME IInv, NEW s \in Streams, Elapses(s)
  PROVE  IInv'
<1>1. Only(s)
  BY DEF Elapses, Goto, Only, IInv, StreamTypes, logVars
<1>2. StreamInv(s)'
  BY DEF Elapses, Goto, IInv, StreamTypes, StreamInv, Started, logVars, Running, Ended
<1> QED BY <1>1, <1>2, OthersKept

\* The cursor is checked again after it.
LEMMA TimesOutStep ==
  ASSUME IInv, NEW s \in Streams, TimesOut(s)
  PROVE  IInv'
<1>1. Only(s)
  BY DEF TimesOut, Goto, Only, IInv, StreamTypes, logVars
<1>2. Expired(cursor[s]) => cursor[s] + Len(events) < sequence
  BY ExpiredLacks DEF IInv, StreamInv
<1>3. StreamInv(s)'
  BY <1>2 DEF TimesOut, Goto, IInv, StreamTypes, StreamInv, Started, logVars, Running, Ended
<1> QED BY <1>1, <1>3, OthersKept

\* A look under the mutex: what it sends continues what was sent.
LEMMA LookStep ==
  ASSUME IInv, NEW s \in Streams, Look(s)
  PROVE  IInv'
<1> DEFINE c == cursor[s]
           es == After(c)
<1>1. Only(s)
  BY DEF Look, Deliver, Goto, Only, IInv, StreamTypes, logVars
<1>2. /\ LogInv /\ StreamInv(s) /\ Started(s) /\ ~Ahead(c) /\ c \in 0..MaxAppends
      /\ first[s] \in Nat /\ sequence \in Nat
  BY DEF Look, IInv, StreamInv, Started, Ahead, LogInv
<1>3. UNCHANGED <<first, seen, version, events, sequence, closed>>
  BY DEF Look, logVars
<1>4. CASE Expired(c)
  <2>1. c + Len(events) < sequence
    BY <1>2, <1>4, ExpiredLacks
  <2>2. at' = [at EXCEPT ![s] = "expired"] /\ UNCHANGED <<cursor, got>>
    BY <1>4 DEF Look, Goto
  <2>3. StreamInv(s)'
    BY <1>2, <1>3, <2>1, <2>2 DEF IInv, StreamTypes, StreamInv, Started, Running, Ended
  <2> QED BY <1>1, <2>3, OthersKept
<1>5. CASE ~Expired(c) /\ es = <<>>
  <2>1. at'[s] \in {"done", "waiting"} /\ UNCHANGED <<cursor, got>>
    BY <1>2, <1>5 DEF Look, Goto, IInv, StreamTypes
  <2>2. StreamInv(s)'
    BY <1>2, <1>3, <2>1 DEF StreamInv, Started, Running, Ended
  <2> QED BY <1>1, <2>2, OthersKept
<1>6. CASE ~Expired(c) /\ es # <<>>
  <2>1. /\ at'[s] = "reading"
        /\ got'[s] = got[s] \o [k \in DOMAIN es |-> es[k].seq]
        /\ cursor'[s] = Last(es).seq
    BY <1>2, <1>6 DEF Look, Goto, Deliver, IInv, StreamTypes
  <2>2. /\ es \in Seq(Event) /\ Len(es) = sequence - c
        /\ \A k \in 1..Len(es) : es[k].seq = c + k
    BY <1>2, <1>6, AfterIsTail
  <2>3. Len(es) \in Nat \ {0} /\ DOMAIN es = 1..Len(es)
    BY <1>6, <2>2, EmptySeq, LenProperties
  <2>4. Last(es).seq = sequence
    BY <1>2, <2>2, <2>3 DEF Last
  <2>5. [k \in DOMAIN es |-> es[k].seq] = Run(c, sequence)
    BY <2>2, <2>3 DEF Run
  <2>6. got[s] = Run(first[s], c) /\ first[s] <= c /\ c <= sequence
    BY <1>2 DEF StreamInv
  <2>7. got'[s] = Run(first[s], sequence)
    <3> HIDE DEF c
    <3>1. first[s] \in Nat /\ c \in Nat /\ sequence \in Nat /\ first[s] <= c /\ c <= sequence
      BY <1>2, <2>6
    <3>2. Run(first[s], c) \o Run(c, sequence) = Run(first[s], sequence)
      BY <3>1, RunsJoin
    <3> QED BY <2>1, <2>5, <2>6, <3>2
  <2> HIDE DEF c, es
  <2>8. StreamInv(s)'
    <3>1. first'[s] = first[s] /\ seen'[s] = seen[s] /\ version' = version /\ sequence' = sequence
      BY <1>3
    <3>2. first[s] \in 0..MaxAppends /\ sequence \in 0..MaxAppends /\ seen[s] \in 0..version
          /\ first[s] <= sequence
      BY <1>2, <2>6 DEF StreamInv, LogInv
    <3>3. at'[s] = "reading" /\ cursor'[s] = sequence /\ got'[s] = Run(first'[s], cursor'[s])
      BY <2>1, <2>4, <2>7, <3>1
    <3> QED BY <3>1, <3>2, <3>3 DEF StreamInv, Started, Running, Ended
  <2> QED BY <1>1, <2>8, OthersKept
<1> QED BY <1>4, <1>5, <1>6

---------------------------------------------------------------------------
\* The invariant holds at the start.
LEMMA InitInv == Init => IInv
<1> SUFFICES ASSUME Init PROVE IInv
  OBVIOUS
<1>1. LogInv
  <2>1. events = <<>> /\ sequence = 0 /\ closed = FALSE
    BY DEF Init
  <2>2. events \in Seq(Event) /\ Len(events) = 0
    BY <2>1, EmptySeq
  <2>3. closed \in BOOLEAN
    BY <2>1
  <2>4. sequence \in 0..MaxAppends /\ Len(events) <= sequence
    BY <2>1, <2>2
  <2>5. \A k \in 1..Len(events) : events[k].seq = sequence - Len(events) + k
    BY <2>2
  <2>6. sequence > 0 => events # <<>>
    BY <2>1
  <2>7. Len(events) > 1 => Fit(events)
    BY <2>2
  <2> QED BY <2>2, <2>3, <2>4, <2>5, <2>6, <2>7 DEF LogInv
<1>2. NoticeInv /\ StreamTypes
  BY DEF Init, NoticeInv, StreamTypes
<1>3. \A s \in Streams : StreamInv(s)
  BY DEF Init, StreamInv, Started
<1> QED BY <1>1, <1>2, <1>3 DEF IInv

\* Every step keeps the invariant.
LEMMA NextStep == IInv /\ [Next]_vars => IInv'
<1> SUFFICES ASSUME IInv, [Next]_vars PROVE IInv'
  OBVIOUS
<1>1. CASE UNCHANGED vars
  BY <1>1 DEF IInv, vars, logVars, streamVars, LogInv, NoticeInv, StreamTypes, StreamInv, Started
<1>2. ASSUME NEW size \in Sizes, AppendRaw(size) PROVE IInv'
  BY <1>2, AppendStep
<1>3. ASSUME NEW s \in Streams, StreamStep(s) PROVE IInv'
  BY <1>3, RequestStep, ValidateStep, SubscribeStep, LookStep, ChangedStep, ElapsesStep,
     TimesOutStep DEF StreamStep
<1> QED BY <1>1, <1>2, <1>3, CloseStep, NotifyStep DEF Next

\* In every state of every run: the log, the notifications and the streams
\* (events.rs, sse_filtered).
THEOREM Invariance == Spec => []IInv
<1> QED BY InitInv, NextStep, PTL DEF Spec

\* A stream skips nothing and repeats nothing, however the log evicts between
\* two of its reads (append_raw and read in events.rs).
THEOREM NoGapCorrect == Spec => []NoGap
<1>1. IInv => NoGap
  <2> SUFFICES ASSUME IInv, NEW s \in Streams
               PROVE  /\ Started(s) => got[s] = Run(first[s], cursor[s])
                      /\ at[s] = "expired" =>
                           \A k \in DOMAIN events : events[k].seq > cursor[s] + 1
    BY DEF NoGap, Started, Run
  <2>1. Len(events) \in Nat /\ DOMAIN events = 1..Len(events) /\ sequence \in Nat
    BY LenProperties DEF IInv, LogInv
  <2>2. ASSUME at[s] = "expired", NEW k \in 1..Len(events)
        PROVE  events[k].seq > cursor[s] + 1
    BY <2>1, <2>2 DEF IInv, LogInv, StreamInv
  <2> QED BY <2>1, <2>2 DEF IInv, StreamInv
<1> QED BY <1>1, Invariance, PTL

\* Every variable keeps its type, and the log its newest events.
THEOREM TypeCorrect == Spec => []TypeOK
<1>1. IInv => TypeOK
  <2> SUFFICES ASSUME IInv PROVE TypeOK
    OBVIOUS
  <2>1. \A s \in Streams : got[s] \in Seq(1..MaxAppends)
    <3> SUFFICES ASSUME NEW s \in Streams PROVE got[s] \in Seq(1..MaxAppends)
      OBVIOUS
    <3>1. CASE ~Started(s)
      BY <3>1, EmptySeq DEF IInv, StreamInv
    <3>2. CASE Started(s)
      <4>1. /\ first[s] \in Nat /\ cursor[s] \in 0..MaxAppends /\ first[s] <= cursor[s]
            /\ got[s] = Run(first[s], cursor[s])
        BY <3>2 DEF IInv, StreamInv
      <4>2. Run(first[s], cursor[s]) \in Seq(1..MaxAppends)
        BY <4>1 DEF Run
      <4> QED BY <4>1, <4>2
    <3> QED BY <3>1, <3>2
  <2>2. /\ events \in Seq(Event) /\ DOMAIN events = 1..Len(events)
        /\ sequence \in 0..MaxAppends /\ closed \in BOOLEAN
    BY LenProperties DEF IInv, LogInv
  <2>3. version \in 0..(MaxAppends + 1) /\ notices \in 0..(MaxAppends + 1)
    BY <2>2 DEF IInv, NoticeInv
  <2>4. /\ at \in [Streams -> {"off"} \cup Running \cup Ended]
        /\ first \in [Streams -> 0..MaxAppends] /\ cursor \in [Streams -> 0..MaxAppends]
        /\ seen \in [Streams -> 0..(MaxAppends + 1)] /\ got \in [Streams -> Seq(1..MaxAppends)]
    <3>1. \A s \in Streams : seen[s] \in 0..(MaxAppends + 1)
      BY <2>3 DEF IInv, StreamInv
    <3> QED BY <2>1, <3>1 DEF IInv, StreamTypes, StreamInv
  <2> QED BY <2>2, <2>3, <2>4 DEF TypeOK, IInv, LogInv, Event
<1> QED BY <1>1, Invariance, PTL
===========================================================================
