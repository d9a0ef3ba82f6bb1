------------------------------ MODULE EventLog ------------------------------
(***************************************************************************)
(* One replay log of the HTTP bridge, bridge/events.rs, its writers, and   *)
(* the SSE streams that read it, sse_filtered in bridge/routes/mod.rs.     *)
(*                                                                         *)
(* append and close change the log under its mutex and notify the readers  *)
(* after they left it; a reader subscribes, looks under the mutex, and     *)
(* waits outside it.  Each of these is an action.                          *)
(***************************************************************************)
EXTENDS Naturals, Sequences, FiniteSets, SequencesExt

CONSTANTS
  MaxEvents,   \* max_events: retained events
  MaxBytes,    \* max_bytes: retained bytes
  Sizes,       \* sizes an event can have
  MaxAppends,  \* events ever appended (bound)
  Streams      \* SSE requests

ASSUME LogAssumption ==
  /\ MaxEvents \in Nat \ {0} /\ MaxBytes \in Nat /\ MaxAppends \in Nat
  /\ Sizes \subseteq Nat \ {0} /\ Sizes # {}

VARIABLES
  events,    \* Inner.events, oldest first: [seq, size]
  sequence,
  closed,
  version,   \* the watch channel: how often readers were notified
  notices,   \* notifications not yet sent: writers that left the mutex
  at,        \* where each stream is
  first,     \* the cursor it began with
  cursor,
  seen,      \* the version its receiver has seen
  got        \* events it sent its client

logVars == <<events, sequence, closed>>
streamVars == <<at, first, cursor, seen, got>>
vars == <<logVars, version, notices, streamVars>>

---------------------------------------------------------------------------
(* The log.                                                                *)

Bytes(es) == FoldLeft(LAMBDA sum, e : sum + e.size, 0, es)

Fit(es) == Len(es) <= MaxEvents /\ Bytes(es) <= MaxBytes

\* append_raw drops the oldest events beyond the caps, but never the last one.
Retained(es) ==
  LET n == CHOOSE k \in 0..(Len(es) - 1) :
             /\ k = Len(es) - 1 \/ Fit(SubSeq(es, k + 1, Len(es)))
             /\ \A j \in 0..(k - 1) : ~Fit(SubSeq(es, j + 1, Len(es)))
  IN SubSeq(es, n + 1, Len(es))

\* MUTANT: an event wakes nobody while another one is retained.
AppendRawSilently(size) ==
  /\ ~closed /\ sequence < MaxAppends
  /\ sequence' = sequence + 1
  /\ events' = Retained(Append(events, [seq |-> sequence + 1, size |-> size]))
  /\ notices' = IF events = <<>> THEN notices + 1 ELSE notices
  /\ UNCHANGED <<closed, version, streamVars>>

AppendRaw(size) ==
  /\ ~closed /\ sequence < MaxAppends
  /\ sequence' = sequence + 1
  /\ events' = Retained(Append(events, [seq |-> sequence + 1, size |-> size]))
  /\ notices' = notices + 1
  /\ UNCHANGED <<closed, version, streamVars>>

\* MUTANT: closing wakes nobody.
CloseSilently ==
  /\ ~closed /\ closed' = TRUE
  /\ UNCHANGED <<events, sequence, version, notices, streamVars>>

\* MUTANT: a closed log can be closed again.
CloseAgain ==
  /\ closed' = TRUE
  /\ notices' = notices + 1
  /\ UNCHANGED <<events, sequence, version, streamVars>>

Close ==
  /\ ~closed /\ closed' = TRUE
  /\ notices' = notices + 1
  /\ UNCHANGED <<events, sequence, version, streamVars>>

\* tx.send, tx.send_modify
Notify ==
  /\ notices > 0 /\ notices' = notices - 1
  /\ version' = version + 1
  /\ UNCHANGED <<logVars, streamVars>>

OldestCursor == IF events = <<>> THEN sequence ELSE Head(events).seq - 1

\* MUTANT: a cursor one event behind the window is let through.
ExpiredOneLate(c) == events # <<>> /\ c + 1 < Head(events).seq - 1

\* check_cursor
Ahead(c) == c > sequence
Expired(c) == events # <<>> /\ c < Head(events).seq - 1

\* The events past the cursor: they are in order, so the filter keeps the last ones.
After(c) ==
  LET n == CHOOSE k \in 0..Len(events) :
             \A j \in DOMAIN events : events[j].seq > c <=> j > k
  IN SubSeq(events, n + 1, Len(events))

---------------------------------------------------------------------------
(* A stream.                                                               *)

Goto(s, l) == at' = [at EXCEPT ![s] = l]

\* The request names a cursor, or takes the oldest retained event's.
Request(s) ==
  /\ at[s] = "off"
  /\ \E c \in {OldestCursor} \cup 0..MaxAppends :
       cursor' = [cursor EXCEPT ![s] = c] /\ first' = [first EXCEPT ![s] = c]
  /\ Goto(s, "validating")
  /\ UNCHANGED <<logVars, version, notices, seen, got>>

\* The cursor is validated before the response starts: 422, 410 or a stream.
Validate(s) ==
  /\ at[s] = "validating"
  /\ Goto(s, IF Ahead(cursor[s]) THEN "ahead" ELSE IF Expired(cursor[s]) THEN "expired"
             ELSE "reading")
  /\ UNCHANGED <<logVars, version, notices, first, cursor, seen, got>>

\* read: subscribe before the first look.
Subscribe(s) ==
  /\ at[s] = "reading"
  /\ seen' = [seen EXCEPT ![s] = version]
  /\ Goto(s, "looking")
  /\ UNCHANGED <<logVars, version, notices, first, cursor, got>>

Deliver(s, es) ==
  /\ got' = [got EXCEPT ![s] = @ \o [k \in DOMAIN es |-> es[k].seq]]
  /\ cursor' = [cursor EXCEPT ![s] = Last(es).seq]

\* One look: an error ends the stream, events go to the client and the next read
\* begins, a closed log with nothing left ends it, and otherwise it waits.
Look(s) ==
  /\ at[s] = "looking"
  /\ LET es == After(cursor[s]) IN
       IF Ahead(cursor[s]) \/ Expired(cursor[s])
       THEN Goto(s, "expired") /\ UNCHANGED <<cursor, got>>
       ELSE IF es # <<>> THEN Goto(s, "reading") /\ Deliver(s, es)
       ELSE Goto(s, IF closed THEN "done" ELSE "waiting") /\ UNCHANGED <<cursor, got>>
  /\ UNCHANGED <<logVars, version, notices, first, seen>>

\* rx.changed
Changed(s) ==
  /\ at[s] = "waiting" /\ seen[s] # version
  /\ seen' = [seen EXCEPT ![s] = version]
  /\ Goto(s, "looking")
  /\ UNCHANGED <<logVars, version, notices, first, cursor, got>>

\* The heartbeat elapses with nothing new to see ...
Elapses(s) ==
  /\ at[s] = "waiting" /\ seen[s] = version
  /\ Goto(s, "elapsed")
  /\ UNCHANGED <<logVars, version, notices, first, cursor, seen, got>>

\* ... and then, under the mutex, the cursor is checked again and an empty batch
\* returned: the stream reads anew or, on a closed log, ends.
TimesOut(s) ==
  /\ at[s] = "elapsed"
  /\ Goto(s, IF Expired(cursor[s]) THEN "expired" ELSE IF closed THEN "done" ELSE "reading")
  /\ UNCHANGED <<logVars, version, notices, first, cursor, seen, got>>

Init ==
  /\ events = <<>> /\ sequence = 0 /\ closed = FALSE
  /\ version = 0 /\ notices = 0
  /\ at = [s \in Streams |-> "off"]
  /\ first = [s \in Streams |-> 0] /\ cursor = [s \in Streams |-> 0]
  /\ seen = [s \in Streams |-> 0] /\ got = [s \in Streams |-> <<>>]

StreamStep(s) ==
  Request(s) \/ Validate(s) \/ Subscribe(s) \/ Look(s) \/ Changed(s)
  \/ Elapses(s) \/ TimesOut(s)

Next ==
  \/ \E size \in Sizes : AppendRaw(size)
  \/ Close \/ Notify
  \/ \E s \in Streams : StreamStep(s)

Spec == Init /\ [][Next]_vars

\* A writer that left the mutex notifies, and a stream is polled when it can go
\* on.  Nothing is assumed of the heartbeat.
Fairness ==
  /\ WF_vars(Notify)
  /\ \A s \in Streams : /\ WF_vars(Validate(s)) /\ WF_vars(Subscribe(s))
                        /\ WF_vars(Look(s)) /\ WF_vars(Changed(s)) /\ WF_vars(TimesOut(s))

FairSpec == Spec /\ Fairness

---------------------------------------------------------------------------
(* Properties.                                                             *)

Running == {"validating", "reading", "looking", "waiting", "elapsed"}
Ended == {"ahead", "expired", "done"}

\* Every variable keeps its type; the log is the newest events without a hole, the
\* newest one always, within its caps unless that one alone exceeds them.
TypeOK ==
  /\ events \in Seq([seq : 1..MaxAppends, size : Sizes])
  /\ \A k \in DOMAIN events : events[k].seq = sequence - Len(events) + k
  /\ sequence > 0 => events # <<>>
  /\ Len(events) > 1 => Fit(events)
  /\ sequence \in 0..MaxAppends /\ closed \in BOOLEAN
  /\ version \in 0..(MaxAppends + 1) /\ notices \in 0..(MaxAppends + 1)
  /\ at \in [Streams -> {"off"} \cup Running \cup Ended]
  /\ first \in [Streams -> 0..MaxAppends] /\ cursor \in [Streams -> 0..MaxAppends]
  /\ seen \in [Streams -> 0..(MaxAppends + 1)] /\ got \in [Streams -> Seq(1..MaxAppends)]

\* A stream sends its client every event after the cursor it began with, once and
\* in order, however the log was evicted between two of its reads; it is told that
\* events expired only when one it has not seen was evicted.
NoGap ==
  \A s \in Streams :
    /\ at[s] \notin {"off", "validating", "ahead"} =>
         got[s] = [k \in 1..(cursor[s] - first[s]) |-> first[s] + k]
    /\ at[s] = "expired" => \A k \in DOMAIN events : events[k].seq > cursor[s] + 1

\* A stream that ends as complete has sent everything.
EndsComplete == \A s \in Streams : at[s] = "done" => cursor[s] = sequence

\* Once the log is closed every stream ends, without the help of a heartbeat.
StreamsEnd == \A s \in Streams : closed /\ at[s] \in Running ~> at[s] \in Ended

\* An event reaches every stream that runs, unless the stream ends.
EventsReach ==
  \A s \in Streams, n \in 1..MaxAppends :
    sequence >= n /\ at[s] \in Running ~> cursor[s] >= n \/ at[s] \in Ended
=============================================================================
