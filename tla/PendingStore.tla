---------------------------- MODULE PendingStore ----------------------------
(***************************************************************************)
(* The pending-decision store, src/src-tauri/src/pending.rs, and the tasks *)
(* that call it.  Every prompt a human must answer is one item: a raiser   *)
(* registers it and waits on a oneshot channel, a responder (an HTTP call  *)
(* of the desktop or of a paired device) answers it, a withdrawer (a tool  *)
(* that finished, a session that stopped) takes it back, and the raiser's  *)
(* guard withdraws it however the wait ends.                               *)
(*                                                                         *)
(* The store's mutex is held for one map operation at a time, so an action *)
(* below is one critical section (or one poll of a future); the steps of   *)
(* a call interleave freely with those of every other call.                *)
(***************************************************************************)
EXTENDS Naturals, Sequences, FiniteSets

CONSTANTS
  Raisers,      \* calls of raise: one item, one channel and one guard each
  Responders,   \* calls of respond
  Withdrawers,  \* calls of withdraw and withdraw_session
  Sessions,
  HostIds,      \* ids a channel brings with its item (the bridge host's request ids)
  FinishedCap,  \* FINISHED_CAP: decided and withdrawn ids that are remembered
  Home,         \* the session of each raiser's item
  Wanted,       \* the id its channel gave the item, or NoId
  Dangerous,    \* raisers whose item is classified dangerous
  Allows,       \* responders whose verdict is allow (the others deny)
  Trusted,      \* responders with the right to approve dangerous actions
  Malformed,    \* responders whose body does not fit the item
  Reason,       \* why each withdrawer takes an item back
  Named,        \* responders on a paired device that has a name
  Patient,      \* raisers nothing cuts short: no timeout, no other branch, no dropped call
  Nobody,       \* no raiser / no responder
  NoId

Actors == Raisers \cup Responders \cup Withdrawers

\* An id is brought by the channel, or is the uuid drawn for the raiser.
Ids == HostIds \cup Raisers

ASSUME StoreAssumption ==
  /\ FinishedCap \in Nat \ {0}
  /\ Home \in [Raisers -> Sessions]
  /\ Wanted \in [Raisers -> HostIds \cup {NoId}]
  /\ Reason \in [Withdrawers -> {"session_stopped", "answered_elsewhere"}]
  /\ Nobody \notin Raisers \cup Responders
  /\ NoId \notin Ids
  /\ HostIds \cap Raisers = {}
  /\ Raisers \cap Responders = {}
  /\ Raisers \cap Withdrawers = {}
  /\ Responders \cap Withdrawers = {}
  /\ Responders \cap {"none", "open", "closed", "withdrawn"} = {}

\* What is remembered of an item that left the store, and published.
Resolution ==
  [of : Raisers, outcome : {"decided", "expired", "cancelled", "withdrawn"},
   by : Responders \cup {Nobody}, named : BOOLEAN]
NoResolution == [outcome |-> "none"]

VARIABLES
  slots,        \* Inner.slots: id -> the raiser whose item it is, or Nobody
  finished,     \* Inner.finished (finished_set is its range)
  resolutions,  \* Inner.resolutions
  chan,         \* per item, its sender: "none", "open", "closed" or the answer sent
  rx,           \* per item, whether its receiver still exists
  idOf,         \* the id register returned to each raiser
  pc,           \* where each call is
  why,          \* how each raiser's wait ended
  ask,          \* what each responder's call names: [id, session]
  result,       \* what it answered its client
  answers,      \* the item it removed
  targets,      \* ids a withdrawer has still to withdraw
  unpublished,  \* ids each call removed and has still to publish
  published,    \* pendingResolved frames sent: [actor, res]
  forgotten     \* ids that ever fell out of finished (history)

vars == <<slots, finished, resolutions, chan, rx, idOf, pc, why, ask, result,
          answers, targets, unpublished, published, forgotten>>

store == <<slots, finished, resolutions, forgotten>>
callVars == <<why, ask, result, answers, targets>>

FinishedSet == {finished[k] : k \in DOMAIN finished}

---------------------------------------------------------------------------
(* The store's operations, each one critical section.                      *)

\* register: a supplied id is replaced when a live or remembered item has it.
Collides(i) == slots[i] # Nobody \/ i \in FinishedSet

\* MUTANT: a supplied id is always taken.
RegisteredIdAsGiven(r) == IF Wanted[r] = NoId THEN r ELSE Wanted[r]

RegisteredId(r) ==
  IF Wanted[r] = NoId THEN r ELSE IF Collides(Wanted[r]) THEN r ELSE Wanted[r]

\* Inner::finish drops the oldest remembered id when the cap is passed.
Evicted(i) ==
  IF i \notin FinishedSet /\ Len(finished) >= FinishedCap
  THEN {Head(Append(finished, i))} ELSE {}

\* MUTANT: one id less is remembered.
FinishOneShort(i) ==
  IF i \in FinishedSet THEN finished
  ELSE IF Len(finished) >= FinishedCap - 1 THEN Tail(Append(finished, i))
  ELSE Append(finished, i)

Finish(i) ==
  IF i \in FinishedSet THEN finished
  ELSE IF Len(finished) >= FinishedCap THEN Tail(Append(finished, i))
  ELSE Append(finished, i)

\* Remove the item at i, remember it as finished with resolution res.
Remove(i, res) ==
  /\ slots' = [slots EXCEPT ![i] = Nobody]
  /\ finished' = Finish(i)
  /\ resolutions' = [j \in Ids |-> IF j = i THEN res
                                   ELSE IF j \in Evicted(i) THEN NoResolution
                                   ELSE resolutions[j]]
  /\ forgotten' = forgotten \cup Evicted(i)

\* outcome_for_reason
OutcomeFor(reason) ==
  CASE reason = "timeout" -> "expired"
    [] reason \in {"request_ended", "session_stopped"} -> "cancelled"
    [] OTHER -> "withdrawn"

Resolved(r, outcome, p) == [of |-> r, outcome |-> outcome, by |-> p, named |-> FALSE]

\* PendingStore::withdraw of a live item; its raiser's sender is dropped.
Withdraw(i, reason) ==
  /\ Remove(i, Resolved(slots[i], OutcomeFor(reason), Nobody))
  /\ chan' = [chan EXCEPT ![slots[i]] = "closed"]

\* Allowing a dangerous item needs the right (resolve_detailed).
Forbidden(r, p) == r \in Dangerous /\ p \in Allows /\ p \notin Trusted


---------------------------------------------------------------------------
(* Raisers: raise, wait_end and the guard (the hooks, owned, bridge and    *)
(* sidecar channels all wait this way).                                    *)

Goto(a, l) == pc' = [pc EXCEPT ![a] = l]

Register(r) ==
  /\ pc[r] = "idle"
  /\ LET i == RegisteredId(r) IN
       /\ slots' = [slots EXCEPT ![i] = r]
       /\ idOf' = [idOf EXCEPT ![r] = i]
  /\ chan' = [chan EXCEPT ![r] = "open"]
  /\ rx' = [rx EXCEPT ![r] = TRUE]
  /\ Goto(r, "raising")
  /\ UNCHANGED <<finished, resolutions, forgotten, callVars, unpublished, published>>

\* The card is on every client: raise returns the guard and the receiver.
Raised(r) ==
  /\ pc[r] = "raising"
  /\ Goto(r, "waiting")
  /\ UNCHANGED <<store, chan, rx, idOf, callVars, unpublished, published>>

StopWaiting(r, reason) ==
  /\ rx' = [rx EXCEPT ![r] = FALSE]
  /\ why' = [why EXCEPT ![r] = reason]
  /\ Goto(r, "leaving")
  /\ UNCHANGED <<store, chan, idOf, ask, result, answers, targets, unpublished, published>>

Decided(r) == pc[r] = "waiting" /\ chan[r] \in Responders /\ StopWaiting(r, "decided")

Closed(r) == pc[r] = "waiting" /\ chan[r] = "closed" /\ StopWaiting(r, "closed")

\* tokio::time::timeout polls the receiver, finds it empty and drops it a
\* little later: an answer sent in between is lost.
TimedOut(r) == r \notin Patient /\ pc[r] = "waiting" /\ StopWaiting(r, "timeout")

\* The other branch of the raiser's select fires (an interrupt, a cancel, the
\* bridge's own answer), or the raiser's future is dropped.
Abandon(r) ==
  r \notin Patient /\ pc[r] \in {"raising", "waiting"} /\ StopWaiting(r, "request_ended")

\* MUTANT: a guard does not withdraw on a timeout.
DropGuardKeepingExpired(r) ==
  /\ pc[r] = "leaving"
  /\ IF slots[idOf[r]] = Nobody \/ why[r] = "timeout"
     THEN /\ Goto(r, "done")
          /\ UNCHANGED <<store, chan, unpublished>>
     ELSE /\ Withdraw(idOf[r], "request_ended")
          /\ unpublished' = [unpublished EXCEPT ![r] = {idOf[r]}]
          /\ Goto(r, "publishing")
  /\ UNCHANGED <<rx, idOf, callVars, published>>

\* MUTANT: a guard publishes although somebody else removed the item.
DropGuardPublishingAnyway(r) ==
  /\ pc[r] = "leaving"
  /\ IF slots[idOf[r]] = Nobody
     THEN UNCHANGED <<store, chan>>
     ELSE Withdraw(idOf[r], "request_ended")
  /\ unpublished' = [unpublished EXCEPT ![r] = {idOf[r]}]
  /\ Goto(r, "publishing")
  /\ UNCHANGED <<rx, idOf, callVars, published>>

\* PendingGuard::drop: withdraw the item unless somebody already removed it.
DropGuard(r) ==
  /\ pc[r] = "leaving"
  /\ IF slots[idOf[r]] = Nobody
     THEN /\ Goto(r, "done")
          /\ UNCHANGED <<store, chan, unpublished>>
     ELSE /\ Withdraw(idOf[r], IF why[r] = "timeout" THEN "timeout" ELSE "request_ended")
          /\ unpublished' = [unpublished EXCEPT ![r] = {idOf[r]}]
          /\ Goto(r, "publishing")
  /\ UNCHANGED <<rx, idOf, callVars, published>>

---------------------------------------------------------------------------
(* Responders: respond.                                                    *)

Finishes(p, answer, l) ==
  /\ result' = [result EXCEPT ![p] = answer]
  /\ Goto(p, l)

\* The lookup and the session check, before the store is asked to resolve.
\* A client names ids of cards it has been shown.
Ask(p) ==
  /\ pc[p] = "idle"
  /\ \E r \in Raisers, s \in Sessions :
       /\ idOf[r] # NoId
       /\ ask' = [ask EXCEPT ![p] = [id |-> idOf[r], session |-> s]]
       /\ LET item == slots[idOf[r]] IN
            IF item # Nobody /\ Home[item] # s
            THEN Finishes(p, "not_found", "done")
            ELSE Goto(p, "resolving") /\ UNCHANGED result
  /\ UNCHANGED <<store, chan, rx, idOf, why, answers, targets, unpublished, published>>

\* The item has gone: 409 while its id is remembered, else 404.
ResolveGone(p) ==
  /\ pc[p] = "resolving"
  /\ slots[ask[p].id] = Nobody
  /\ Finishes(p, IF ask[p].id \in FinishedSet THEN "already_decided" ELSE "not_found", "done")
  /\ UNCHANGED <<store, chan, rx, idOf, why, ask, answers, targets, unpublished, published>>

ResolveRefused(p) ==
  /\ pc[p] = "resolving"
  /\ LET r == slots[ask[p].id] IN
       /\ r # Nobody
       /\ p \in Malformed \/ Forbidden(r, p)
       /\ Finishes(p, IF p \in Malformed THEN "invalid" ELSE "forbidden", "done")
  /\ UNCHANGED <<store, chan, rx, idOf, why, ask, answers, targets, unpublished, published>>

\* MUTANT: a decision nobody received is answered with ok.
ResolveIgnoringReceiver(p) ==
  /\ pc[p] = "resolving"
  /\ LET i == ask[p].id
         r == slots[i]
     IN /\ r # Nobody
        /\ p \notin Malformed /\ ~Forbidden(r, p)
        /\ answers' = [answers EXCEPT ![p] = r]
        /\ unpublished' = [unpublished EXCEPT ![p] = {i}]
        /\ Remove(i, Resolved(r, "decided", p))
        /\ chan' = [chan EXCEPT ![r] = IF rx[r] THEN p ELSE "closed"]
        /\ Finishes(p, "ok", "publishing")
  /\ UNCHANGED <<rx, idOf, why, ask, targets, published>>

\* The item is removed and the decision sent.  When the raiser's receiver is
\* gone the item is remembered as cancelled, and this call publishes that.
Resolve(p) ==
  /\ pc[p] = "resolving"
  /\ LET i == ask[p].id
         r == slots[i]
     IN /\ r # Nobody
        /\ p \notin Malformed /\ ~Forbidden(r, p)
        /\ answers' = [answers EXCEPT ![p] = r]
        /\ unpublished' = [unpublished EXCEPT ![p] = {i}]
        /\ IF rx[r]
           THEN /\ Remove(i, Resolved(r, "decided", p))
                /\ chan' = [chan EXCEPT ![r] = p]
                /\ Finishes(p, "ok", IF p \in Named THEN "naming" ELSE "publishing")
           ELSE /\ Remove(i, Resolved(r, "cancelled", Nobody))
                /\ chan' = [chan EXCEPT ![r] = "closed"]
                /\ Finishes(p, "already_decided", "publishing")
  /\ UNCHANGED <<rx, idOf, why, ask, targets, published>>

\* set_resolution: the device's name, which only the async layer can look up.
Name(p) ==
  /\ pc[p] = "naming"
  /\ resolutions' =
       IF ask[p].id \in FinishedSet
       THEN [resolutions EXCEPT ![ask[p].id] =
               [Resolved(answers[p], "decided", p) EXCEPT !.named = TRUE]]
       ELSE resolutions
  /\ Goto(p, "publishing")
  /\ UNCHANGED <<slots, finished, forgotten, chan, rx, idOf, callVars, unpublished, published>>

---------------------------------------------------------------------------
(* Withdrawers: withdraw of one id, or withdraw_session, which lists the   *)
(* session's ids under one lock and withdraws them one by one.             *)

ItemsOf(s) == {i \in Ids : slots[i] # Nobody /\ Home[slots[i]] = s}

List(w) ==
  /\ pc[w] = "idle"
  /\ \/ \E r \in Raisers : idOf[r] # NoId /\ targets' = [targets EXCEPT ![w] = {idOf[r]}]
     \/ \E s \in Sessions : ItemsOf(s) # {} /\ targets' = [targets EXCEPT ![w] = ItemsOf(s)]
  /\ Goto(w, "withdrawing")
  /\ UNCHANGED <<store, chan, rx, idOf, why, ask, result, answers, unpublished, published>>

WithdrawOne(w) ==
  /\ pc[w] = "withdrawing"
  /\ \E i \in targets[w] :
       /\ targets' = [targets EXCEPT ![w] = @ \ {i}]
       /\ IF slots[i] = Nobody
          THEN UNCHANGED <<store, chan, unpublished>>
          ELSE /\ Withdraw(i, Reason[w])
               /\ unpublished' = [unpublished EXCEPT ![w] = @ \cup {i}]
  /\ UNCHANGED <<rx, idOf, pc, why, ask, result, answers, published>>

WithdrawnAll(w) ==
  /\ pc[w] = "withdrawing" /\ targets[w] = {}
  /\ Goto(w, IF unpublished[w] = {} THEN "done" ELSE "publishing")
  /\ UNCHANGED <<store, chan, rx, idOf, callVars, unpublished, published>>

---------------------------------------------------------------------------
(* Whoever removed an item publishes what is remembered of it.  (It then   *)
(* re-publishes the session's cards, which module PendingCards models.)    *)

Publish(a) ==
  /\ pc[a] = "publishing"
  /\ \E i \in unpublished[a] :
       /\ published' = IF resolutions[i] = NoResolution THEN published
                       ELSE published \cup {[actor |-> a, res |-> resolutions[i]]}
       /\ unpublished' = [unpublished EXCEPT ![a] = @ \ {i}]
       /\ Goto(a, IF unpublished[a] = {i} THEN "done" ELSE "publishing")
  /\ UNCHANGED <<store, chan, rx, idOf, callVars>>

---------------------------------------------------------------------------
Init ==
  /\ slots = [i \in Ids |-> Nobody]
  /\ finished = <<>>
  /\ resolutions = [i \in Ids |-> NoResolution]
  /\ chan = [r \in Raisers |-> "none"]
  /\ rx = [r \in Raisers |-> FALSE]
  /\ idOf = [r \in Raisers |-> NoId]
  /\ pc = [a \in Actors |-> "idle"]
  /\ why = [r \in Raisers |-> "none"]
  /\ ask = [p \in Responders |-> [id |-> NoId, session |-> Nobody]]
  /\ result = [p \in Responders |-> "none"]
  /\ answers = [p \in Responders |-> Nobody]
  /\ targets = [w \in Withdrawers |-> {}]
  /\ unpublished = [a \in Actors |-> {}]
  /\ published = {}
  /\ forgotten = {}

RaiserStep(r) ==
  \/ Register(r) \/ Raised(r) \/ Decided(r) \/ Closed(r)
  \/ TimedOut(r) \/ Abandon(r) \/ DropGuard(r)

ResponderStep(p) == Ask(p) \/ ResolveGone(p) \/ ResolveRefused(p) \/ Resolve(p) \/ Name(p)

WithdrawerStep(w) == List(w) \/ WithdrawOne(w) \/ WithdrawnAll(w)

Next ==
  \/ \E r \in Raisers : RaiserStep(r)
  \/ \E p \in Responders : ResponderStep(p)
  \/ \E w \in Withdrawers : WithdrawerStep(w)
  \/ \E a \in Actors : Publish(a)

Spec == Init /\ [][Next]_vars

\* Every call that has begun runs on: awaits return, channels wake their
\* raiser, guards drop.  Nobody is bound to answer, to withdraw, to abandon or
\* (within the hour a prompt is held) to time out.
Fairness ==
  /\ \A r \in Raisers : /\ WF_vars(Raised(r)) /\ WF_vars(DropGuard(r))
                        /\ WF_vars(Decided(r)) /\ WF_vars(Closed(r))
  /\ \A p \in Responders : /\ WF_vars(ResolveGone(p)) /\ WF_vars(ResolveRefused(p))
                           /\ WF_vars(Resolve(p)) /\ WF_vars(Name(p))
  /\ \A w \in Withdrawers : WF_vars(WithdrawOne(w)) /\ WF_vars(WithdrawnAll(w))
  /\ \A a \in Actors : WF_vars(Publish(a))

FairSpec == Spec /\ Fairness

---------------------------------------------------------------------------
(* Properties.                                                             *)

\* Every variable keeps its type.
TypeOK ==
  /\ slots \in [Ids -> Raisers \cup {Nobody}]
  /\ finished \in Seq(Ids) /\ Len(finished) <= FinishedCap
  /\ resolutions \in [Ids -> Resolution \cup {NoResolution}]
  /\ chan \in [Raisers -> {"none", "open", "closed"} \cup Responders]
  /\ rx \in [Raisers -> BOOLEAN]
  /\ idOf \in [Raisers -> Ids \cup {NoId}]
  /\ pc \in [Actors -> {"idle", "raising", "waiting", "leaving", "resolving", "naming",
                        "withdrawing", "publishing", "done"}]
  /\ why \in [Raisers -> {"none", "decided", "closed", "timeout", "request_ended"}]
  /\ ask \in [Responders -> [id : Ids \cup {NoId}, session : Sessions \cup {Nobody}]]
  /\ result \in [Responders -> {"none", "ok", "not_found", "already_decided", "invalid", "forbidden"}]
  /\ answers \in [Responders -> Raisers \cup {Nobody}]
  /\ targets \in [Withdrawers -> SUBSET Ids]
  /\ unpublished \in [Actors -> SUBSET Ids]
  /\ published \subseteq [actor : Actors, res : Resolution]
  /\ forgotten \subseteq Ids

\* An item keeps its place until it is settled: no other registration takes
\* its id, and it is in the store exactly while its raiser can be answered
\* (register: "a caller must never be able to replace someone else's blocked
\* request").
ItemsKept ==
  /\ \A r \in Raisers : chan[r] = "open" => idOf[r] \in Ids /\ slots[idOf[r]] = r
  /\ \A i \in Ids : slots[i] # Nobody => chan[slots[i]] = "open" /\ idOf[slots[i]] = i

\* A caller that is told its answer was taken is the only one for that item,
\* had the right to give it, and named the item's session -- although the
\* session is looked up before the lock that resolves (respond).
AnswerStands ==
  \A p \in Responders : result[p] = "ok" =>
    /\ chan[answers[p]] = p
    /\ ~Forbidden(answers[p], p)
    /\ ask[p].id \notin forgotten => Home[answers[p]] = ask[p].session

\* "a late answer to a decided/withdrawn item is 409 already_decided": while
\* the id is remembered, 404 is only for a caller that named another session.
LateAnswerIsConflict ==
  \A p \in Responders : result[p] = "not_found" =>
    \/ ask[p].id \in forgotten
    \/ \E r \in Raisers : idOf[r] = ask[p].id /\ Home[r] # ask[p].session

\* Of all the calls racing to end a request (answers, withdrawals, its guard)
\* exactly one publishes it, for as long as its id is remembered: as answered by
\* the caller that was told ok, with its device name, although the name is filled
\* in after the item was removed.
PublishedOnce ==
  /\ \A e, f \in published :
       e.res.of = f.res.of /\ idOf[e.res.of] \notin forgotten => e = f
  /\ \A e \in published : e.res.outcome = "decided" =>
       /\ result[e.res.by] = "ok"
       /\ answers[e.res.by] = e.res.of
       /\ idOf[e.res.of] \notin forgotten => (e.res.named <=> e.res.by \in Named)

\* "On success the item is removed, the decision is delivered to its raiser"
\* (PendingStore::resolve): a raiser whose answer was taken acts on it.
AnswerReachesRaiser ==
  \A p \in Responders :
    result[p] = "ok" /\ pc[answers[p]] = "done" => why[answers[p]] = "decided"

\* However a raiser's wait ends -- an answer, a withdrawal, a timeout, a
\* dropped connection -- its request is eventually published as settled: no
\* card is left behind by a raiser that goes away (PendingGuard).
EndedIsPublished ==
  \A r \in Raisers :
    (pc[r] = "leaving") ~> (idOf[r] \in forgotten \/ \E e \in published : e.res.of = r)

\* The store implements the abstract one: an item is settled once, and what
\* is announced is how it was settled.
Abs == INSTANCE DecisionOnce WITH
  outcome <- [r \in Raisers |-> IF chan[r] = "closed" THEN "withdrawn" ELSE chan[r]],
  announced <- [r \in Raisers |->
    IF \E e \in published : e.res.of = r
    THEN IF \E e \in published : e.res.of = r /\ e.res.outcome = "decided"
         THEN (CHOOSE e \in published : e.res.of = r /\ e.res.outcome = "decided").res.by
         ELSE "withdrawn"
    ELSE "none"]

Implements == Abs!Spec
=============================================================================
