---------------------------- MODULE PendingCards ----------------------------
(***************************************************************************)
(* The cards clients see.  Each call that changes the pending store ends   *)
(* by re-publishing its session (pending::changed, which is sync_pending   *)
(* in src/src-tauri/src/server/ws.rs): it lists the session's items, waits *)
(* for the snapshot's write lock, replaces the session's previews, reads   *)
(* the store again, waits for the lock again, and sends a pending frame    *)
(* for each listed item that was not announced.  The monitor's refresh      *)
(* (server/monitor.rs) rewrites every session's previews the same way:     *)
(* lists first, the lock later.  The store may change at every wait.       *)
(***************************************************************************)
EXTENDS PendingStore

VARIABLES
  cards,     \* Snapshot.sessions[..].pending: the items previewed per session
  announced, \* Snapshot.announced: ids a pending frame was sent for
  frames,    \* pending frames sent per item
  sync,      \* each call's sync_pending: [at, session, live, all]
  refresh    \* the monitor's cycle: what it has listed per session so far

cardVars == <<cards, announced, frames, sync, refresh>>
allVars == <<vars, cardVars>>

\* Ids that fall out of the store's memory are PendingStore's business.
ASSUME NothingForgotten == IsFiniteSet(Raisers) /\ Cardinality(Raisers) <= FinishedCap

NoList == [listed |-> FALSE, items |-> {}]
NotSyncing == [at |-> "off", session |-> Nobody, live |-> {}, all |-> {}]

\* PendingStore::list
Listed(s) == {r \in Raisers : chan[r] = "open" /\ Home[r] = s}

StartSync(a, s) == sync' = [sync EXCEPT ![a] = [NotSyncing EXCEPT !.at = "list", !.session = s]]

---------------------------------------------------------------------------
(* The store's steps.  Registering an item and publishing the last of the  *)
(* removed ones are followed by changed(session).                          *)

RegisterAndSync(r) == Register(r) /\ StartSync(r, Home[r]) /\ UNCHANGED <<cards, announced, frames, refresh>>

\* raise returns once its changed has.
RaisedAfterSync(r) == Raised(r) /\ sync[r].at = "off" /\ UNCHANGED cardVars

\* A raiser whose future is dropped while it publishes drops its sync too, at
\* one of its waits.
AbandonAnywhere(r) ==
  /\ Abandon(r) /\ sync[r].at # "send"
  /\ sync' = [sync EXCEPT ![r] = NotSyncing]
  /\ UNCHANGED <<cards, announced, frames, refresh>>

PublishAndSync(a) ==
  /\ Publish(a)
  /\ IF unpublished'[a] = {}
     THEN StartSync(a, Home[(CHOOSE e \in published' : e.actor = a).res.of])
     ELSE UNCHANGED sync
  /\ UNCHANGED <<cards, announced, frames, refresh>>

\* Steps of the store after which nothing is re-published.
Elsewhere ==
  /\ \/ \E r \in Raisers : Decided(r) \/ Closed(r) \/ TimedOut(r) \/ DropGuard(r)
     \/ \E p \in Responders : ResponderStep(p)
     \/ \E w \in Withdrawers : WithdrawerStep(w)
  /\ UNCHANGED cardVars

---------------------------------------------------------------------------
(* sync_pending.                                                           *)

SyncList(a) ==
  /\ sync[a].at = "list"
  /\ sync' = [sync EXCEPT ![a].at = "patch", ![a].live = Listed(sync[a].session)]
  /\ UNCHANGED <<vars, cards, announced, frames, refresh>>

\* The store is read again for the announcement as soon as the previews are in.
CountStore(a) == sync' = [sync EXCEPT ![a].at = "announce", ![a].all = {i \in Ids : slots[i] # Nobody}]

\* patch_session: the listed items replace the session's previews.
SyncPatch(a) ==
  /\ sync[a].at = "patch"
  /\ cards' = [cards EXCEPT ![sync[a].session] = sync[a].live]
  /\ CountStore(a)
  /\ UNCHANGED <<vars, announced, frames, refresh>>

\* Forget announced ids that left the store, then note the listed items that
\* are new as announced.
Fresh(a) == {r \in sync[a].live : idOf[r] \notin announced \cap sync[a].all}
ToSend(a) ==
  IF Fresh(a) = {} THEN NotSyncing ELSE [NotSyncing EXCEPT !.at = "send", !.live = Fresh(a)]

\* MUTANT: everything the store holds counts as announced.
SyncAnnounceCountingAll(a) ==
  /\ sync[a].at = "announce"
  /\ announced' = sync[a].all \cup {idOf[r] : r \in sync[a].live}
  /\ sync' = [sync EXCEPT ![a] = ToSend(a)]
  /\ UNCHANGED <<vars, cards, frames, refresh>>

SyncAnnounce(a) ==
  /\ sync[a].at = "announce"
  /\ announced' = (announced \cap sync[a].all) \cup {idOf[r] : r \in sync[a].live}
  /\ sync' = [sync EXCEPT ![a] = ToSend(a)]
  /\ UNCHANGED <<vars, cards, frames, refresh>>

\* publish_pending: their frames go out once the lock is left.
SyncSend(a) ==
  /\ sync[a].at = "send"
  /\ frames' = [r \in Raisers |-> IF r \in sync[a].live THEN frames[r] + 1 ELSE frames[r]]
  /\ sync' = [sync EXCEPT ![a] = NotSyncing]
  /\ UNCHANGED <<vars, cards, announced, refresh>>

---------------------------------------------------------------------------
(* The monitor's refresh: build_summary lists each session's items while   *)
(* the summaries are built, publish_sessions replaces the snapshot.        *)

RefreshList(s) ==
  /\ ~refresh[s].listed
  /\ refresh' = [refresh EXCEPT ![s] = [listed |-> TRUE, items |-> Listed(s)]]
  /\ UNCHANGED <<vars, cards, announced, frames, sync>>

\* MUTANT: a refresh adds previews and drops none.
RefreshPublishAdding ==
  /\ \A s \in Sessions : refresh[s].listed
  /\ cards' = [s \in Sessions |-> cards[s] \cup refresh[s].items]
  /\ refresh' = [s \in Sessions |-> NoList]
  /\ UNCHANGED <<vars, announced, frames, sync>>

RefreshPublish ==
  /\ \A s \in Sessions : refresh[s].listed
  /\ cards' = [s \in Sessions |-> refresh[s].items]
  /\ refresh' = [s \in Sessions |-> NoList]
  /\ UNCHANGED <<vars, announced, frames, sync>>

---------------------------------------------------------------------------
CardsInit ==
  /\ Init
  /\ cards = [s \in Sessions |-> {}]
  /\ announced = {}
  /\ frames = [r \in Raisers |-> 0]
  /\ sync = [a \in Actors |-> NotSyncing]
  /\ refresh = [s \in Sessions |-> NoList]

Sync(a) == SyncList(a) \/ SyncPatch(a) \/ SyncAnnounce(a) \/ SyncSend(a)

CardsNext ==
  \/ \E r \in Raisers : RegisterAndSync(r) \/ RaisedAfterSync(r) \/ AbandonAnywhere(r)
  \/ \E a \in Actors : PublishAndSync(a) \/ Sync(a)
  \/ Elsewhere
  \/ \E s \in Sessions : RefreshList(s)
  \/ RefreshPublish

CardsSpec == CardsInit /\ [][CardsNext]_allVars

\* Calls that have begun run on, as in PendingStore; the monitor ticks for ever.
CardsFairness ==
  /\ \A r \in Raisers :
       /\ WF_allVars(RaisedAfterSync(r))
       /\ WF_allVars((Decided(r) \/ Closed(r) \/ DropGuard(r)) /\ UNCHANGED cardVars)
  /\ \A p \in Responders :
       WF_allVars((ResolveGone(p) \/ ResolveRefused(p) \/ Resolve(p) \/ Name(p)) /\ UNCHANGED cardVars)
  /\ \A w \in Withdrawers :
       WF_allVars((WithdrawOne(w) \/ WithdrawnAll(w)) /\ UNCHANGED cardVars)
  /\ \A a \in Actors : WF_allVars(PublishAndSync(a)) /\ WF_allVars(Sync(a))
  /\ \A s \in Sessions : WF_allVars(RefreshList(s))
  /\ WF_allVars(RefreshPublish)

FairCardsSpec == CardsSpec /\ CardsFairness

---------------------------------------------------------------------------
(* Properties.                                                             *)

\* A raiser that waits has had its card sent in full to the clients, or another
\* call is at the point of sending it, although other calls announce, list and
\* forget ids while it publishes (raise).
Sending(r) == \E a \in Actors : sync[a].at = "send" /\ r \in sync[a].live
NoSilentCard ==
  \A r \in Raisers : pc[r] = "waiting" /\ chan[r] = "open" => frames[r] > 0 \/ Sending(r)

\* Once no call changes the store any more, the previews settle on exactly the
\* items that are waiting, and stay there: no ghost card, no missing card.
CardsConverge == <>[](\A s \in Sessions : cards[s] = Listed(s))
=============================================================================
