------------------------ MODULE PendingStore_proofs ------------------------
(***************************************************************************)
(* Proofs about the pending-decision store (module PendingStore) and the   *)
(* cards shown of it (PendingCards), for any number of raisers, responders *)
(* and withdrawers, any session and id assignment, and any cap on what is  *)
(* remembered; only the cards assume that the cap is never passed          *)
(* (NothingForgotten).                                                     *)
(***************************************************************************)
EXTENDS PendingCards, FiniteSetTheorems, TLAPS

\* What the cap keeps of the remembered ids: removing an item never loses an id
\* other than the evicted one, and the removed id itself is kept or evicted.
LEMMA FinishKeeps ==
  ASSUME finished \in Seq(Ids), Len(finished) <= FinishedCap, FinishedCap \in Nat \ {0}, NEW i \in Ids,
         finished' = Finish(i)
  PROVE  /\ finished' \in Seq(Ids) /\ Len(finished') <= FinishedCap
         /\ Evicted(i) \subseteq Ids
         /\ FinishedSet' \subseteq FinishedSet \cup {i}
         /\ FinishedSet \cup {i} \subseteq FinishedSet' \cup Evicted(i)
<1>1. CASE i \in FinishedSet
  <2>1. finished' = finished /\ Evicted(i) = {}
    BY <1>1 DEF Finish, Evicted
  <2> QED BY <1>1, <2>1 DEF FinishedSet
<1>2. CASE i \notin FinishedSet /\ Len(finished) < FinishedCap
  <2>1. finished' = Append(finished, i)
    BY <1>2 DEF Finish
  <2>2. Evicted(i) = {}
    BY <1>2 DEF Evicted
  <2>3. /\ DOMAIN finished = 1..Len(finished)
        /\ DOMAIN finished' = 1..(Len(finished) + 1)
        /\ finished'[Len(finished) + 1] = i
        /\ \A k \in 1..Len(finished) : finished'[k] = finished[k]
    BY <2>1
  <2>4. FinishedSet' = FinishedSet \cup {i}
    BY <2>3, Len(finished) \in Nat, SMT DEF FinishedSet
  <2>5. finished' \in Seq(Ids) /\ Len(finished') <= FinishedCap
    <3>1. Len(finished') = Len(finished) + 1 /\ Len(finished) \in Nat
      BY <2>1
    <3> QED BY <1>2, <2>1, <3>1
  <2> QED BY <2>2, <2>4, <2>5
<1>3. CASE i \notin FinishedSet /\ Len(finished) >= FinishedCap
  <2> DEFINE longer == Append(finished, i)
  <2>1. finished' = Tail(longer) /\ Evicted(i) = {Head(longer)}
    BY <1>3 DEF Finish, Evicted
  <2>2. /\ Len(finished) \in Nat \ {0}
        /\ longer \in Seq(Ids)
        /\ DOMAIN finished = 1..Len(finished)
        /\ Len(longer) = Len(finished) + 1
        /\ DOMAIN longer = 1..(Len(finished) + 1)
        /\ longer[Len(finished) + 1] = i
        /\ \A k \in 1..Len(finished) : longer[k] = finished[k]
    BY <1>3
  <2>3. /\ Head(longer) = longer[1]
        /\ Tail(longer) \in Seq(Ids) /\ Len(Tail(longer)) = Len(finished)
        /\ DOMAIN Tail(longer) = 1..Len(finished)
        /\ \A k \in 1..Len(finished) : Tail(longer)[k] = longer[k + 1]
    BY <2>2
  <2> HIDE DEF longer
  <2>4. \A x \in FinishedSet' : x \in FinishedSet \cup {i}
    <3> TAKE x \in FinishedSet'
    <3>1. PICK k \in 1..Len(finished) : x = longer[k + 1]
      BY <2>1, <2>3 DEF FinishedSet
    <3>2. k < Len(finished) => longer[k + 1] = finished[k + 1] /\ k + 1 \in 1..Len(finished)
      BY <2>2
    <3>3. k = Len(finished) \/ k < Len(finished)
      <4>1. Len(finished) \in Nat
        BY <2>2
      <4> QED BY <4>1, SMT
    <3> QED BY <3>1, <3>2, <3>3, <2>2 DEF FinishedSet
  <2>5. \A x \in FinishedSet \cup {i} : x \in FinishedSet' \cup Evicted(i)
    <3> TAKE x \in FinishedSet \cup {i}
    <3>1. PICK k \in 1..(Len(finished) + 1) : x = longer[k]
      BY <2>2 DEF FinishedSet
    <3>2. CASE k = 1
      BY <3>1, <3>2, <2>1, <2>3
    <3>3. CASE k # 1
      <4>1. k - 1 \in 1..Len(finished) /\ Tail(longer)[k - 1] = longer[k]
        BY <3>3, <2>2, <2>3
      <4> QED BY <4>1, <3>1, <2>1, <2>3 DEF FinishedSet
    <3> QED BY <3>2, <3>3
  <2>6. Evicted(i) \subseteq Ids
    BY <2>1, <2>2, <2>3
  <2> QED BY <2>1, <2>3, <2>4, <2>5, <2>6
<1>4. Len(finished) < FinishedCap \/ Len(finished) >= FinishedCap
  OBVIOUS
<1> QED BY <1>1, <1>2, <1>3, <1>4

---------------------------------------------------------------------------
(* The inductive invariant.  TypeOK is not inductive alone: a guard that   *)
(* drops looks its item up by an id, so a call that has begun must have    *)
(* one.  ItemsKept needs that a uuid is nobody else's id and that an id    *)
(* that was used is held, remembered or forgotten; AnswerStands needs that *)
(* the session checked before the lock still fits the item found under it. *)

\* A call that has begun names an id, and only a named decision has an item.
Begun ==
  /\ \A r \in Raisers : pc[r] = "idle" <=> idOf[r] = NoId
  /\ \A p \in Responders : /\ pc[p] # "idle" => ask[p].id \in Ids
                           /\ pc[p] = "naming" => answers[p] \in Raisers

TypeInv == TypeOK /\ Begun

UuidsOwn == \A q, r \in Raisers : idOf[q] = r => q = r

Registered == \A r \in Raisers : idOf[r] = NoId <=> chan[r] = "none"

KeptInv == ItemsKept /\ UuidsOwn /\ Registered

\* The id of a settled item is remembered, or fell out of memory.
Remembered ==
  \A r \in Raisers : chan[r] \notin {"none", "open"} => idOf[r] \in FinishedSet \cup forgotten

OneHolder ==
  \A q, r \in Raisers : idOf[q] = idOf[r] /\ idOf[q] \notin forgotten \cup {NoId} => q = r

MemoryInv == Remembered /\ OneHolder

\* What the look-up before the lock has established.
Asked ==
  \A p \in Responders : pc[p] = "resolving" =>
    /\ \E r \in Raisers : idOf[r] = ask[p].id
    /\ result[p] = "none"
    /\ ask[p].id \notin forgotten =>
         \A r \in Raisers : idOf[r] = ask[p].id /\ chan[r] = "open" => Home[r] = ask[p].session

\* A caller that was answered with ok holds an item; one that was not begun has no answer.
Answered ==
  \A p \in Responders : /\ result[p] = "ok" => answers[p] \in Raisers
                        /\ pc[p] = "idle" => result[p] = "none"

AnswerInv == Asked /\ Answered /\ AnswerStands /\ LateAnswerIsConflict

---------------------------------------------------------------------------
(* Type correctness.                                                       *)

\* What is remembered of a removed item is a resolution record (resolved, pending.rs).
LEMMA ResolvedTyped ==
  ASSUME NEW r \in Raisers, NEW p \in Responders \cup {Nobody},
         NEW o \in {"decided", "expired", "cancelled", "withdrawn"}
  PROVE  /\ Resolved(r, o, p) \in Resolution
         /\ [Resolved(r, o, p) EXCEPT !.named = TRUE] \in Resolution
BY DEF Resolved, Resolution

\* Removing an item keeps the types of the three maps of Inner (Inner::finish).
LEMMA RemoveTyped ==
  ASSUME TypeOK, NEW i \in Ids, NEW res \in Resolution, Remove(i, res)
  PROVE  /\ slots' \in [Ids -> Raisers \cup {Nobody}]
         /\ finished' \in Seq(Ids) /\ Len(finished') <= FinishedCap
         /\ resolutions' \in [Ids -> Resolution \cup {NoResolution}]
         /\ forgotten' \subseteq Ids
         /\ Evicted(i) \subseteq Ids
         /\ FinishedSet' \subseteq FinishedSet \cup {i}
         /\ FinishedSet \cup {i} \subseteq FinishedSet' \cup Evicted(i)
<1>1. /\ finished \in Seq(Ids) /\ Len(finished) <= FinishedCap
      /\ FinishedCap \in Nat \ {0}
      /\ finished' = Finish(i)
  BY StoreAssumption DEF TypeOK, Remove
<1>2. /\ finished' \in Seq(Ids) /\ Len(finished') <= FinishedCap
      /\ Evicted(i) \subseteq Ids
      /\ FinishedSet' \subseteq FinishedSet \cup {i}
      /\ FinishedSet \cup {i} \subseteq FinishedSet' \cup Evicted(i)
  BY <1>1, FinishKeeps
<1>3. slots' \in [Ids -> Raisers \cup {Nobody}]
  BY DEF TypeOK, Remove
<1>4. resolutions' \in [Ids -> Resolution \cup {NoResolution}]
  BY DEF TypeOK, Remove
<1>5. forgotten' \subseteq Ids
  BY <1>2 DEF TypeOK, Remove
<1> QED BY <1>2, <1>3, <1>4, <1>5

\* An item is withdrawn at an id that holds one.
LEMMA WithdrawTyped ==
  ASSUME TypeOK, NEW i \in Ids, slots[i] # Nobody, NEW reason, Withdraw(i, reason)
  PROVE  /\ slots[i] \in Raisers
         /\ slots' = [slots EXCEPT ![i] = Nobody]
         /\ slots' \in [Ids -> Raisers \cup {Nobody}]
         /\ finished' \in Seq(Ids) /\ Len(finished') <= FinishedCap
         /\ resolutions' \in [Ids -> Resolution \cup {NoResolution}]
         /\ chan' = [chan EXCEPT ![slots[i]] = "closed"]
         /\ chan' \in [Raisers -> {"none", "open", "closed"} \cup Responders]
         /\ forgotten' = forgotten \cup Evicted(i)
         /\ forgotten' \subseteq Ids
         /\ finished' = Finish(i)
         /\ FinishedSet' \subseteq FinishedSet \cup {i}
         /\ FinishedSet \cup {i} \subseteq FinishedSet' \cup Evicted(i)
<1>1. slots[i] \in Raisers
  BY DEF TypeOK
<1>2. OutcomeFor(reason) \in {"decided", "expired", "cancelled", "withdrawn"}
  BY DEF OutcomeFor
<1> DEFINE res == Resolved(slots[i], OutcomeFor(reason), Nobody)
<1>3. res \in Resolution
  BY <1>1, <1>2, ResolvedTyped
<1>4. Remove(i, res) /\ chan' = [chan EXCEPT ![slots[i]] = "closed"]
  BY DEF Withdraw
<1> HIDE DEF res
<1>5. chan' \in [Raisers -> {"none", "open", "closed"} \cup Responders]
  BY <1>4 DEF TypeOK
<1>6. /\ slots' = [slots EXCEPT ![i] = Nobody]
      /\ forgotten' = forgotten \cup Evicted(i) /\ finished' = Finish(i)
  BY <1>4 DEF Remove
<1> QED BY <1>1, <1>3, <1>4, <1>5, <1>6, RemoveTyped

\* A uuid is nobody else's id and a supplied id is taken only while it is free.
LEMMA RegisteredIdFree ==
  ASSUME TypeOK, NEW r \in Raisers
  PROVE  /\ RegisteredId(r) \in Ids
         /\ \/ RegisteredId(r) = r
            \/ RegisteredId(r) \in HostIds /\ ~Collides(RegisteredId(r))
<1>1. Wanted[r] \in HostIds \cup {NoId} /\ NoId \notin HostIds
  BY StoreAssumption DEF Ids
<1>2. CASE Wanted[r] = NoId \/ Collides(Wanted[r])
  <2>1. RegisteredId(r) = r
    BY <1>2 DEF RegisteredId
  <2> QED BY <2>1 DEF Ids
<1>3. CASE Wanted[r] # NoId /\ ~Collides(Wanted[r])
  <2>1. RegisteredId(r) = Wanted[r]
    BY <1>3 DEF RegisteredId
  <2> QED BY <1>1, <1>3, <2>1 DEF Ids
<1> QED BY <1>2, <1>3

\* Replacing one entry of a function into sets of ids keeps its type.
LEMMA UpdatedSetTyped ==
  ASSUME NEW D, NEW S, NEW f \in [D -> SUBSET S], NEW x, NEW v \in SUBSET S
  PROVE  [f EXCEPT ![x] = v] \in [D -> SUBSET S]
OBVIOUS

\* The empty store is well typed.
LEMMA TypeInit == Init => TypeInv
<1> SUFFICES ASSUME Init PROVE TypeInv
  OBVIOUS
<1>1. /\ NoId \notin Ids
      /\ Raisers \subseteq Actors
      /\ Responders \subseteq Actors
  BY StoreAssumption DEF Actors
<1>2. finished \in Seq(Ids) /\ Len(finished) <= FinishedCap
  <2>1. finished = <<>> /\ FinishedCap \in Nat
    BY StoreAssumption DEF Init
  <2> QED BY <2>1
<1>3. TypeOK
  BY <1>1, <1>2 DEF Init, TypeOK
<1>4. Begun
  BY <1>1 DEF Init, Begun
<1> QED BY <1>3, <1>4 DEF TypeInv

\* The facts about the names of calls and ids that the steps rest on.
LEMMA Names ==
  /\ Raisers \subseteq Actors /\ Responders \subseteq Actors /\ Withdrawers \subseteq Actors
  /\ Raisers \cap Responders = {} /\ Raisers \cap Withdrawers = {}
  /\ Responders \cap Withdrawers = {}
  /\ Nobody \notin Raisers \cup Responders /\ NoId \notin Ids
  /\ Responders \cap {"none", "open", "closed", "withdrawn"} = {}
BY StoreAssumption DEF Actors

\* Whoever moves, every variable keeps its type, and calls that have begun
\* keep the id they work on.
LEMMA TypeNext == TypeInv /\ [Next]_vars => TypeInv'
<1> SUFFICES ASSUME TypeInv, [Next]_vars PROVE TypeInv'
  OBVIOUS
<1> USE DEF store, callVars, Goto
<1>1. ASSUME NEW r \in Raisers, Register(r) PROVE TypeInv'
  <2>1. RegisteredId(r) \in Ids
    BY RegisteredIdFree DEF TypeInv
  <2> QED BY Names, <1>1, <2>1 DEF TypeInv, TypeOK, Begun, Register
<1>2. ASSUME NEW r \in Raisers, Raised(r) PROVE TypeInv'
  BY Names, <1>2 DEF TypeInv, TypeOK, Begun, Raised
<1>3. ASSUME NEW r \in Raisers, Decided(r) \/ Closed(r) \/ TimedOut(r) \/ Abandon(r)
      PROVE  TypeInv'
  <2>1. PICK reason \in {"decided", "closed", "timeout", "request_ended"} :
          pc[r] # "idle" /\ StopWaiting(r, reason)
    BY <1>3 DEF Decided, Closed, TimedOut, Abandon
  <2> QED BY Names, <2>1 DEF TypeInv, TypeOK, Begun, StopWaiting
<1>4. ASSUME NEW r \in Raisers, DropGuard(r) PROVE TypeInv'
  <2>1. /\ pc[r] # "idle" /\ idOf[r] \in Ids
        /\ UNCHANGED <<rx, idOf, why, ask, result, answers, targets, published>>
    BY <1>4, ZenonT(40) DEF TypeInv, TypeOK, Begun, DropGuard
  <2>2. /\ slots' \in [Ids -> Raisers \cup {Nobody}]
        /\ finished' \in Seq(Ids) /\ Len(finished') <= FinishedCap
        /\ resolutions' \in [Ids -> Resolution \cup {NoResolution}]
        /\ chan' \in [Raisers -> {"none", "open", "closed"} \cup Responders]
        /\ forgotten' \subseteq Ids
    <3>1. CASE slots[idOf[r]] = Nobody
      BY <1>4, <3>1 DEF TypeInv, TypeOK, DropGuard
    <3>2. CASE slots[idOf[r]] # Nobody
      <4>1. PICK reason : Withdraw(idOf[r], reason)
        BY <1>4, <3>2 DEF DropGuard
      <4> QED BY <2>1, <3>2, <4>1, WithdrawTyped DEF TypeInv
    <3> QED BY <3>1, <3>2
  <2>3. PICK l \in {"done", "publishing"} : pc' = [pc EXCEPT ![r] = l]
    BY <1>4 DEF DropGuard
  <2>4. unpublished' = unpublished \/ unpublished' = [unpublished EXCEPT ![r] = {idOf[r]}]
    BY <1>4 DEF DropGuard
  <2>5. unpublished' \in [Actors -> SUBSET Ids]
    <3>1. unpublished \in [Actors -> SUBSET Ids] /\ {idOf[r]} \in SUBSET Ids
      BY <2>1 DEF TypeInv, TypeOK
    <3> QED BY <2>4, <3>1, UpdatedSetTyped
  <2>6. TypeOK'
    BY Names, <2>1, <2>2, <2>3, <2>5 DEF TypeInv, TypeOK
  <2>7. Begun'
    BY Names, <2>1, <2>3 DEF TypeInv, TypeOK, Begun
  <2> QED BY <2>6, <2>7 DEF TypeInv
<1>5. ASSUME NEW p \in Responders, Ask(p) PROVE TypeInv'
  <2>1. PICK r \in Raisers, s \in Sessions :
          /\ idOf[r] # NoId
          /\ ask' = [ask EXCEPT ![p] = [id |-> idOf[r], session |-> s]]
          /\ \/ Finishes(p, "not_found", "done")
             \/ Goto(p, "resolving") /\ UNCHANGED result
    BY <1>5 DEF Ask
  <2>2. /\ idOf[r] \in Ids
        /\ ask' \in [Responders -> [id : Ids \cup {NoId}, session : Sessions \cup {Nobody}]]
        /\ ask'[p].id \in Ids
        /\ \A q \in Responders \ {p} : ask'[q] = ask[q]
    BY <2>1 DEF TypeInv, TypeOK
  <2>3. PICK l \in {"done", "resolving"} : pc' = [pc EXCEPT ![p] = l]
    BY <2>1 DEF Finishes
  <2>4. result' \in [Responders -> {"none", "ok", "not_found", "already_decided", "invalid", "forbidden"}]
    BY <2>1 DEF Finishes, TypeInv, TypeOK
  <2>5. /\ UNCHANGED <<slots, finished, resolutions, forgotten, chan, rx, idOf, why, answers>>
        /\ UNCHANGED <<targets, unpublished, published>>
    BY <1>5 DEF Ask
  <2>6. TypeOK'
    BY Names, <2>2, <2>3, <2>4, <2>5 DEF TypeInv, TypeOK
  <2>7. Begun'
    BY Names, <2>2, <2>3, <2>5, ZenonT(40) DEF TypeInv, TypeOK, Begun
  <2> QED BY <2>6, <2>7 DEF TypeInv
<1>6. ASSUME NEW p \in Responders, ResolveGone(p) \/ ResolveRefused(p) PROVE TypeInv'
  <2>1. PICK answer \in {"not_found", "already_decided", "invalid", "forbidden"} :
          Finishes(p, answer, "done")
    BY <1>6 DEF ResolveGone, ResolveRefused
  <2> QED BY Names, <1>6, <2>1 DEF TypeInv, TypeOK, Begun, ResolveGone, ResolveRefused, Finishes
<1>7. ASSUME NEW p \in Responders, Resolve(p) PROVE TypeInv'
  <2> DEFINE i == ask[p].id
             r == slots[i]
  <2>1. i \in Ids /\ r \in Raisers
    BY Names, <1>7, ZenonT(40) DEF TypeInv, TypeOK, Begun, Resolve
  <2>2. PICK res \in Resolution : Remove(i, res)
    BY <1>7, <2>1, ResolvedTyped DEF Resolve
  <2> HIDE DEF i, r
  <2>3. /\ slots' \in [Ids -> Raisers \cup {Nobody}]
        /\ finished' \in Seq(Ids) /\ Len(finished') <= FinishedCap
        /\ resolutions' \in [Ids -> Resolution \cup {NoResolution}]
        /\ forgotten' \subseteq Ids
    BY <2>1, <2>2, RemoveTyped DEF TypeInv
  <2>4. PICK answer \in {"ok", "already_decided"}, l \in {"naming", "publishing"},
             sent \in {p, "closed"} :
          /\ Finishes(p, answer, l)
          /\ chan' = [chan EXCEPT ![r] = sent]
          /\ answers' = [answers EXCEPT ![p] = r]
          /\ unpublished' = [unpublished EXCEPT ![p] = {i}]
    BY <1>7 DEF Resolve, i, r
  <2>5. UNCHANGED <<rx, idOf, why, ask, targets, published>>
    BY <1>7 DEF Resolve
  <2>6. pc[p] = "resolving"
    BY <1>7 DEF Resolve
  <2>7. /\ chan' \in [Raisers -> {"none", "open", "closed"} \cup Responders]
        /\ answers' \in [Responders -> Raisers \cup {Nobody}]
        /\ unpublished' \in [Actors -> SUBSET Ids]
        /\ result' \in [Responders -> {"none", "ok", "not_found", "already_decided", "invalid", "forbidden"}]
    BY Names, <2>1, <2>4, ZenonT(40) DEF TypeInv, TypeOK, Finishes
  <2>8. pc' = [pc EXCEPT ![p] = l]
    BY <2>4 DEF Finishes
  <2>9. TypeOK'
    BY Names, <2>3, <2>5, <2>7, <2>8 DEF TypeInv, TypeOK
  <2>10. Begun'
    BY Names, <2>1, <2>4, <2>5, <2>6, <2>8 DEF TypeInv, TypeOK, Begun
  <2> QED BY <2>9, <2>10 DEF TypeInv
<1>8. ASSUME NEW p \in Responders, Name(p) PROVE TypeInv'
  <2>1. [Resolved(answers[p], "decided", p) EXCEPT !.named = TRUE] \in Resolution
    BY <1>8, ResolvedTyped DEF TypeInv, Begun, Name
  <2>2. resolutions' \in [Ids -> Resolution \cup {NoResolution}]
    BY <1>8, <2>1 DEF TypeInv, TypeOK, Name
  <2> QED BY Names, <1>8, <2>2 DEF TypeInv, TypeOK, Begun, Name
<1>9. ASSUME NEW w \in Withdrawers, List(w) PROVE TypeInv'
  <2>1. PICK ids : targets' = [targets EXCEPT ![w] = ids] /\ ids \subseteq Ids
    <3>1. CASE \E r \in Raisers : idOf[r] # NoId /\ targets' = [targets EXCEPT ![w] = {idOf[r]}]
      <4>1. PICK r \in Raisers : idOf[r] # NoId /\ targets' = [targets EXCEPT ![w] = {idOf[r]}]
        BY <3>1
      <4>2. {idOf[r]} \subseteq Ids
        BY <4>1 DEF TypeInv, TypeOK
      <4> QED BY <4>1, <4>2
    <3>2. CASE \E s \in Sessions : targets' = [targets EXCEPT ![w] = ItemsOf(s)]
      BY <3>2 DEF ItemsOf
    <3> QED BY <1>9, <3>1, <3>2 DEF List
  <2>2. targets' \in [Withdrawers -> SUBSET Ids]
    <3>1. targets \in [Withdrawers -> SUBSET Ids]
      BY DEF TypeInv, TypeOK
    <3> QED BY <2>1, <3>1, UpdatedSetTyped
  <2>3. pc' = [pc EXCEPT ![w] = "withdrawing"]
    BY <1>9 DEF List
  <2>4. /\ UNCHANGED <<slots, finished, resolutions, forgotten, chan, rx, idOf, why, answers>>
        /\ UNCHANGED <<ask, result, unpublished, published>>
    BY <1>9 DEF List
  <2>5. TypeOK'
    BY Names, <2>2, <2>3, <2>4 DEF TypeInv, TypeOK
  <2>6. Begun'
    <3>1. \A a \in Raisers \cup Responders : pc'[a] = pc[a]
      BY Names, <2>3, ZenonT(40) DEF TypeInv, TypeOK
    <3> QED BY <2>4, <3>1 DEF TypeInv, Begun
  <2> QED BY <2>5, <2>6 DEF TypeInv
<1>10. ASSUME NEW w \in Withdrawers, WithdrawOne(w) PROVE TypeInv'
  <2>1. PICK i \in targets[w] :
          /\ targets' = [targets EXCEPT ![w] = @ \ {i}]
          /\ IF slots[i] = Nobody
             THEN UNCHANGED <<store, chan, unpublished>>
             ELSE /\ Withdraw(i, Reason[w])
                  /\ unpublished' = [unpublished EXCEPT ![w] = @ \cup {i}]
    BY <1>10 DEF WithdrawOne
  <2>2. i \in Ids
    BY <2>1 DEF TypeInv, TypeOK
  <2>3. UNCHANGED <<rx, idOf, pc, why, ask, result, answers, published>>
    BY <1>10 DEF WithdrawOne
  <2>4. CASE slots[i] = Nobody
    BY Names, <2>1, <2>2, <2>3, <2>4 DEF TypeInv, TypeOK, Begun
  <2>5. CASE slots[i] # Nobody
    <3>1. /\ slots' \in [Ids -> Raisers \cup {Nobody}]
          /\ finished' \in Seq(Ids) /\ Len(finished') <= FinishedCap
          /\ resolutions' \in [Ids -> Resolution \cup {NoResolution}]
          /\ chan' \in [Raisers -> {"none", "open", "closed"} \cup Responders]
          /\ forgotten' \subseteq Ids
      BY <2>1, <2>2, <2>5, WithdrawTyped DEF TypeInv
    <3>2. /\ targets' \in [Withdrawers -> SUBSET Ids]
          /\ unpublished' \in [Actors -> SUBSET Ids]
      <4>1. /\ targets \in [Withdrawers -> SUBSET Ids] /\ unpublished \in [Actors -> SUBSET Ids]
            /\ targets[w] \ {i} \in SUBSET Ids /\ unpublished[w] \cup {i} \in SUBSET Ids
        BY Names, <2>2 DEF TypeInv, TypeOK
      <4>2. /\ targets' = [targets EXCEPT ![w] = targets[w] \ {i}]
            /\ unpublished' = [unpublished EXCEPT ![w] = unpublished[w] \cup {i}]
        BY <2>1, <2>5
      <4> QED BY <4>1, <4>2, UpdatedSetTyped
    <3>3. TypeOK'
      BY <2>3, <3>1, <3>2 DEF TypeInv, TypeOK
    <3>4. Begun'
      BY <2>3 DEF TypeInv, Begun
    <3> QED BY <3>3, <3>4 DEF TypeInv
  <2> QED BY <2>4, <2>5
<1>11. ASSUME NEW w \in Withdrawers, WithdrawnAll(w) PROVE TypeInv'
  BY Names, <1>11 DEF TypeInv, TypeOK, Begun, WithdrawnAll
<1>12. ASSUME NEW a \in Actors, Publish(a) PROVE TypeInv'
  <2>1. PICK i \in unpublished[a] :
          /\ published' = IF resolutions[i] = NoResolution THEN published
                          ELSE published \cup {[actor |-> a, res |-> resolutions[i]]}
          /\ unpublished' = [unpublished EXCEPT ![a] = @ \ {i}]
          /\ Goto(a, IF unpublished[a] = {i} THEN "done" ELSE "publishing")
    BY <1>12 DEF Publish
  <2>2. i \in Ids
    BY <2>1 DEF TypeInv, TypeOK
  <2>3. published' \subseteq [actor : Actors, res : Resolution]
    <3>1. published \subseteq [actor : Actors, res : Resolution]
      BY DEF TypeInv, TypeOK
    <3>2. CASE resolutions[i] = NoResolution
      BY <2>1, <3>1, <3>2
    <3>3. CASE resolutions[i] # NoResolution
      <4>1. resolutions[i] \in Resolution
        BY <2>2, <3>3 DEF TypeInv, TypeOK
      <4>2. published' = published \cup {[actor |-> a, res |-> resolutions[i]]}
        BY <2>1, <3>3
      <4> QED BY <3>1, <4>1, <4>2
    <3> QED BY <3>2, <3>3
  <2> QED BY Names, <1>12, <2>1, <2>3 DEF TypeInv, TypeOK, Begun, Publish
<1>13. CASE UNCHANGED vars
  BY <1>13 DEF TypeInv, TypeOK, Begun, vars
<1> QED
  BY <1>1, <1>2, <1>3, <1>4, <1>5, <1>6, <1>7, <1>8, <1>9, <1>10, <1>11, <1>12, <1>13
  DEF Next, RaiserStep, ResponderStep, WithdrawerStep

\* Every variable of the store and of its callers keeps its type, in every
\* interleaving of any number of calls (pending.rs).
THEOREM TypeCorrect == Spec => []TypeOK
<1>1. Init => TypeInv
  BY TypeInit
<1>2. TypeInv /\ [Next]_vars => TypeInv'
  BY TypeNext
<1>3. TypeInv => TypeOK
  BY DEF TypeInv
<1> QED BY <1>1, <1>2, <1>3, PTL DEF Spec

---------------------------------------------------------------------------
(* Items keep their place.  The store changes in three ways only: an item  *)
(* is registered, an item is removed, or nothing happens to it.            *)

\* The item at i leaves with the outcome o: a decision, or "closed".
Removal(i, o) ==
  /\ slots[i] \in Raisers
  /\ slots' = [slots EXCEPT ![i] = Nobody]
  /\ chan' = [chan EXCEPT ![slots[i]] = o]
  /\ idOf' = idOf
  /\ forgotten' = forgotten \cup Evicted(i)
  /\ finished' = Finish(i)
  /\ FinishedSet \cup {i} \subseteq FinishedSet' \cup Evicted(i)

Untouched == UNCHANGED <<slots, chan, idOf, finished, forgotten>>

\* What every step does to the senders and the map of items: it leaves both alone,
\* or registers one item, or removes one.
LEMMA StoreSteps ==
  ASSUME TypeInv, [Next]_vars
  PROVE  \/ \E r \in Raisers : Register(r)
         \/ Untouched
         \/ \E i \in Ids, o \in {"closed"} \cup Responders : Removal(i, o)
<1> USE DEF store, callVars
<1>1. ASSUME NEW r \in Raisers, DropGuard(r)
      PROVE  Untouched \/ \E i \in Ids, o \in {"closed"} \cup Responders : Removal(i, o)
  <2>1. CASE slots[idOf[r]] = Nobody
    BY <1>1, <2>1 DEF DropGuard, Untouched
  <2>2. CASE slots[idOf[r]] # Nobody
    <3>1. idOf[r] \in Ids /\ idOf' = idOf
      BY <1>1 DEF TypeInv, TypeOK, Begun, DropGuard
    <3>2. PICK reason : Withdraw(idOf[r], reason)
      BY <1>1, <2>2 DEF DropGuard
    <3>3. Removal(idOf[r], "closed")
      BY <2>2, <3>1, <3>2, WithdrawTyped DEF TypeInv, Removal
    <3> QED BY <3>1, <3>3
  <2> QED BY <2>1, <2>2
<1>2. ASSUME NEW w \in Withdrawers, WithdrawOne(w)
      PROVE  Untouched \/ \E i \in Ids, o \in {"closed"} \cup Responders : Removal(i, o)
  <2>1. PICK i \in targets[w] :
          IF slots[i] = Nobody THEN UNCHANGED <<store, chan>> ELSE Withdraw(i, Reason[w])
    BY <1>2 DEF WithdrawOne
  <2>2. i \in Ids /\ idOf' = idOf
    BY <1>2 DEF TypeInv, TypeOK, WithdrawOne
  <2>3. CASE slots[i] = Nobody
    BY <2>1, <2>2, <2>3 DEF Untouched
  <2>4. CASE slots[i] # Nobody
    <3>1. Removal(i, "closed")
      BY <2>1, <2>2, <2>4, WithdrawTyped DEF TypeInv, Removal
    <3> QED BY <2>2, <3>1
  <2> QED BY <2>3, <2>4
<1>3. ASSUME NEW p \in Responders, Resolve(p)
      PROVE  \E i \in Ids, o \in {"closed"} \cup Responders : Removal(i, o)
  <2> DEFINE i == ask[p].id
  <2>1. /\ i \in Ids /\ slots[i] \in Raisers /\ idOf' = idOf
    BY Names, <1>3, ZenonT(40) DEF TypeInv, TypeOK, Begun, Resolve
  <2>2. PICK res \in Resolution, o \in {"closed"} \cup Responders :
          Remove(i, res) /\ chan' = [chan EXCEPT ![slots[i]] = o]
    BY <1>3, <2>1, ResolvedTyped DEF Resolve
  <2> HIDE DEF i
  <2>3. Removal(i, o)
    BY <2>1, <2>2, RemoveTyped, ZenonT(40) DEF TypeInv, Removal, Remove
  <2> QED BY <2>1, <2>3
<1>4. ASSUME NEW r \in Raisers, Raised(r) \/ Decided(r) \/ Closed(r) \/ TimedOut(r) \/ Abandon(r)
      PROVE  Untouched
  BY <1>4 DEF Raised, Decided, Closed, TimedOut, Abandon, StopWaiting, Untouched
<1>5. ASSUME NEW p \in Responders, Ask(p) \/ ResolveGone(p) \/ ResolveRefused(p) \/ Name(p)
      PROVE  Untouched
  BY <1>5 DEF Ask, ResolveGone, ResolveRefused, Name, Untouched
<1>6. ASSUME NEW w \in Withdrawers, List(w) \/ WithdrawnAll(w) PROVE Untouched
  BY <1>6 DEF List, WithdrawnAll, Untouched
<1>7. ASSUME NEW a \in Actors, Publish(a) PROVE Untouched
  BY <1>7 DEF Publish, Untouched
<1>8. CASE UNCHANGED vars
  BY <1>8 DEF vars, Untouched
<1> QED BY <1>1, <1>2, <1>3, <1>4, <1>5, <1>6, <1>7, <1>8
        DEF Next, RaiserStep, ResponderStep, WithdrawerStep

\* What a registration does: a free id, a fresh channel.
LEMMA RegisterStep ==
  ASSUME TypeInv, KeptInv, NEW r \in Raisers, Register(r)
  PROVE  LET i == RegisteredId(r) IN
         /\ i \in Ids /\ slots[i] = Nobody
         /\ i = r \/ i \in HostIds \ FinishedSet
         /\ idOf[r] = NoId /\ chan[r] = "none"
         /\ slots' = [slots EXCEPT ![i] = r]
         /\ idOf' = [idOf EXCEPT ![r] = i]
         /\ chan' = [chan EXCEPT ![r] = "open"]
         /\ UNCHANGED <<finished, forgotten>>
<1> DEFINE i == RegisteredId(r)
<1>1. /\ i \in Ids
      /\ i = r \/ (i \in HostIds /\ ~Collides(i))
  BY RegisteredIdFree DEF TypeInv
<1>2. /\ slots' = [slots EXCEPT ![i] = r]
      /\ idOf' = [idOf EXCEPT ![r] = i]
      /\ chan' = [chan EXCEPT ![r] = "open"]
      /\ UNCHANGED <<finished, forgotten>>
      /\ pc[r] = "idle"
  BY DEF Register
<1> HIDE DEF i
<1>3. idOf[r] = NoId /\ chan[r] = "none"
  BY <1>2 DEF TypeInv, Begun, KeptInv, Registered
<1>4. slots[i] = Nobody
  <2>1. CASE i = r
    <3>1. slots[r] \in Raisers \cup {Nobody}
      BY <1>1, <2>1 DEF TypeInv, TypeOK
    <3>2. ASSUME slots[r] \in Raisers PROVE FALSE
      <4>1. idOf[slots[r]] = r /\ chan[slots[r]] = "open"
        BY Names, <1>1, <2>1, <3>2 DEF KeptInv, ItemsKept
      <4>2. slots[r] = r
        BY <3>2, <4>1 DEF KeptInv, UuidsOwn
      <4> QED BY <1>3, <4>1, <4>2
    <3> QED BY <2>1, <3>1, <3>2
  <2>2. CASE ~Collides(i)
    BY <2>2 DEF Collides
  <2> QED BY <1>1, <2>1, <2>2
<1>5. i = r \/ i \in HostIds \ FinishedSet
  BY <1>1 DEF Collides
<1> QED BY <1>1, <1>2, <1>3, <1>4, <1>5 DEF i

\* The empty store keeps every item.
LEMMA KeptInit == Init => KeptInv
<1> SUFFICES ASSUME Init PROVE KeptInv
  OBVIOUS
<1>1. NoId \notin Raisers
  BY StoreAssumption DEF Ids
<1> QED BY <1>1 DEF Init, KeptInv, ItemsKept, UuidsOwn, Registered

\* No step of any call displaces an item (register, resolve_detailed, withdraw).
LEMMA KeptNext == TypeInv /\ KeptInv /\ [Next]_vars => KeptInv'
<1> SUFFICES ASSUME TypeInv, KeptInv, [Next]_vars PROVE KeptInv'
  OBVIOUS
<1>0. /\ slots \in [Ids -> Raisers \cup {Nobody}]
      /\ chan \in [Raisers -> {"none", "open", "closed"} \cup Responders]
      /\ idOf \in [Raisers -> Ids \cup {NoId}]
  BY DEF TypeInv, TypeOK
<1>1. ASSUME NEW r \in Raisers, Register(r) PROVE KeptInv'
  <2> DEFINE i == RegisteredId(r)
  <2>1. /\ i \in Ids /\ slots[i] = Nobody
        /\ i = r \/ i \in HostIds
        /\ idOf[r] = NoId /\ chan[r] = "none"
        /\ slots' = [slots EXCEPT ![i] = r]
        /\ idOf' = [idOf EXCEPT ![r] = i]
        /\ chan' = [chan EXCEPT ![r] = "open"]
    BY <1>1, RegisterStep
  <2> HIDE DEF i
  <2>2. ItemsKept'
    <3>1. ASSUME NEW q \in Raisers, chan'[q] = "open" PROVE idOf'[q] \in Ids /\ slots'[idOf'[q]] = q
      BY Names, <1>0, <2>1, <3>1 DEF KeptInv, ItemsKept
    <3>2. ASSUME NEW j \in Ids, slots'[j] # Nobody
          PROVE  chan'[slots'[j]] = "open" /\ idOf'[slots'[j]] = j
      BY Names, <1>0, <2>1, <3>2 DEF KeptInv, ItemsKept
    <3> QED BY <3>1, <3>2 DEF ItemsKept
  <2>3. UuidsOwn'
    <3>1. HostIds \cap Raisers = {}
      BY StoreAssumption
    <3> QED BY <1>0, <2>1, <3>1 DEF KeptInv, UuidsOwn
  <2>4. Registered'
    BY Names, <1>0, <2>1 DEF KeptInv, Registered
  <2> QED BY <2>2, <2>3, <2>4 DEF KeptInv
<1>2. CASE Untouched
  BY <1>2 DEF Untouched, KeptInv, ItemsKept, UuidsOwn, Registered
<1>3. ASSUME NEW i \in Ids, NEW o \in {"closed"} \cup Responders, Removal(i, o) PROVE KeptInv'
  <2>1. /\ slots[i] \in Raisers
        /\ slots' = [slots EXCEPT ![i] = Nobody]
        /\ chan' = [chan EXCEPT ![slots[i]] = o]
        /\ idOf' = idOf
        /\ o \notin {"none", "open"}
    BY Names, <1>3 DEF Removal
  <2>2. chan[slots[i]] = "open" /\ idOf[slots[i]] = i
    BY Names, <2>1 DEF KeptInv, ItemsKept
  <2>3. ItemsKept'
    <3>1. ASSUME NEW q \in Raisers, chan'[q] = "open" PROVE idOf'[q] \in Ids /\ slots'[idOf'[q]] = q
      BY Names, <1>0, <2>1, <2>2, <3>1 DEF KeptInv, ItemsKept
    <3>2. ASSUME NEW j \in Ids, slots'[j] # Nobody
          PROVE  chan'[slots'[j]] = "open" /\ idOf'[slots'[j]] = j
      BY Names, <1>0, <2>1, <2>2, <3>2 DEF KeptInv, ItemsKept
    <3> QED BY <3>1, <3>2 DEF ItemsKept
  <2>4. UuidsOwn'
    BY <2>1 DEF KeptInv, UuidsOwn
  <2>5. Registered'
    BY Names, <1>0, <2>1, <2>2 DEF KeptInv, Registered
  <2> QED BY <2>3, <2>4, <2>5 DEF KeptInv
<1> QED BY <1>1, <1>2, <1>3, StoreSteps

\* "A caller must never be able to replace someone else's blocked request":
\* whatever ids channels bring and however calls interleave, an item that is
\* open has its place, and a place holds an item that is open (register).
THEOREM ItemsKeptCorrect == Spec => []ItemsKept
<1>1. Init => TypeInv /\ KeptInv
  BY TypeInit, KeptInit
<1>2. TypeInv /\ KeptInv /\ [Next]_vars => (TypeInv /\ KeptInv)'
  BY TypeNext, KeptNext
<1>3. KeptInv => ItemsKept
  BY DEF KeptInv
<1> QED BY <1>1, <1>2, <1>3, PTL DEF Spec

---------------------------------------------------------------------------
(* What is remembered, and the answers it gives.                           *)

\* Nothing was registered, so nothing has to be remembered.
LEMMA MemoryInit == Init => MemoryInv
BY DEF Init, MemoryInv, Remembered, OneHolder

\* Every step leaves an id that was handed out in the store, remembered, or forgotten
\* for good (Inner::finish).
LEMMA MemoryNext == TypeInv /\ KeptInv /\ MemoryInv /\ [Next]_vars => MemoryInv'
<1> SUFFICES ASSUME TypeInv, KeptInv, MemoryInv, [Next]_vars PROVE MemoryInv'
  OBVIOUS
<1>0. /\ slots \in [Ids -> Raisers \cup {Nobody}]
      /\ chan \in [Raisers -> {"none", "open", "closed"} \cup Responders]
      /\ idOf \in [Raisers -> Ids \cup {NoId}]
  BY DEF TypeInv, TypeOK
<1>1. ASSUME NEW r \in Raisers, Register(r) PROVE MemoryInv'
  <2> DEFINE i == RegisteredId(r)
  <2>1. /\ i \in Ids /\ slots[i] = Nobody
        /\ i = r \/ i \in HostIds \ FinishedSet
        /\ idOf' = [idOf EXCEPT ![r] = i]
        /\ chan' = [chan EXCEPT ![r] = "open"]
        /\ UNCHANGED <<finished, forgotten>>
    BY <1>1, RegisterStep
  <2> HIDE DEF i
  <2>2. FinishedSet' = FinishedSet
    BY <2>1 DEF FinishedSet
  <2>3. Remembered'
    BY <1>0, <2>1, <2>2 DEF MemoryInv, Remembered
  <2>4. ASSUME NEW q \in Raisers, idOf[q] = i, i \notin forgotten PROVE q = r
    <3>1. CASE i = r
      BY <2>4, <3>1 DEF KeptInv, UuidsOwn
    <3>2. CASE i \notin FinishedSet
      <4>1. chan[q] # "none"
        BY Names, <2>1, <2>4 DEF KeptInv, Registered
      <4>2. chan[q] # "open"
        BY Names, <2>1, <2>4 DEF KeptInv, ItemsKept
      <4> QED BY <2>4, <3>2, <4>1, <4>2 DEF MemoryInv, Remembered
    <3> QED BY <2>1, <3>1, <3>2
  <2>5. OneHolder'
    BY <1>0, <2>1, <2>4 DEF MemoryInv, OneHolder
  <2> QED BY <2>3, <2>5 DEF MemoryInv
<1>2. CASE Untouched
  BY <1>2 DEF Untouched, MemoryInv, Remembered, OneHolder, FinishedSet
<1>3. ASSUME NEW i \in Ids, NEW o \in {"closed"} \cup Responders, Removal(i, o)
      PROVE  MemoryInv'
  <2>1. idOf[slots[i]] = i
    BY Names, <1>3 DEF Removal, KeptInv, ItemsKept
  <2>2. Remembered'
    BY <1>0, <1>3, <2>1 DEF Removal, MemoryInv, Remembered
  <2>3. OneHolder'
    BY <1>3 DEF Removal, MemoryInv, OneHolder
  <2> QED BY <2>2, <2>3 DEF MemoryInv
<1> QED BY <1>1, <1>2, <1>3, StoreSteps

\* A responder moves by one of its own steps up to its answer, or its answer is
\* settled (it may still publish it).
LEMMA ResponderSteps ==
  ASSUME TypeInv, [Next]_vars, NEW p \in Responders
  PROVE  \/ Ask(p) \/ ResolveGone(p) \/ ResolveRefused(p) \/ Resolve(p)
         \/ /\ ask'[p] = ask[p] /\ result'[p] = result[p] /\ answers'[p] = answers[p]
            /\ pc'[p] = pc[p] \/ (pc[p] \notin {"idle", "resolving"} /\ pc'[p] \notin {"idle", "resolving"})
<1> DEFINE Settled == /\ ask'[p] = ask[p] /\ result'[p] = result[p] /\ answers'[p] = answers[p]
                      /\ pc'[p] = pc[p] \/ (pc[p] \notin {"idle", "resolving"} /\ pc'[p] \notin {"idle", "resolving"})
<1>0. pc \in [Actors -> {"idle", "raising", "waiting", "leaving", "resolving", "naming",
                         "withdrawing", "publishing", "done"}]
      /\ ask \in [Responders -> [id : Ids \cup {NoId}, session : Sessions \cup {Nobody}]]
      /\ result \in [Responders -> {"none", "ok", "not_found", "already_decided", "invalid", "forbidden"}]
      /\ answers \in [Responders -> Raisers \cup {Nobody}]
  BY DEF TypeInv, TypeOK
<1> USE DEF store, callVars, Goto
<1>1. ASSUME NEW r \in Raisers, RaiserStep(r) PROVE Settled
  <2>1. UNCHANGED <<ask, result, answers>> /\ \E l : pc' = [pc EXCEPT ![r] = l]
    BY <1>1 DEF RaiserStep, Register, Raised, Decided, Closed, TimedOut, Abandon, StopWaiting, DropGuard
  <2> QED BY Names, <1>0, <2>1
<1>2. ASSUME NEW q \in Responders, ResponderStep(q), q # p PROVE Settled
  <2>1. /\ \E x : ask' = [ask EXCEPT ![q] = x]
        /\ \E x : result' = [result EXCEPT ![q] = x]
        /\ \E x : answers' = [answers EXCEPT ![q] = x]
        /\ \E x : pc' = [pc EXCEPT ![q] = x]
    <3>0. /\ ask = [ask EXCEPT ![q] = ask[q]] /\ result = [result EXCEPT ![q] = result[q]]
          /\ answers = [answers EXCEPT ![q] = answers[q]]
      BY <1>0
    <3>1. CASE Ask(q)
      <4>1. PICK r \in Raisers, s \in Sessions :
              /\ ask' = [ask EXCEPT ![q] = [id |-> idOf[r], session |-> s]]
              /\ \/ Finishes(q, "not_found", "done")
                 \/ Goto(q, "resolving") /\ UNCHANGED result
        BY <3>1 DEF Ask
      <4>2. answers' = answers
        BY <3>1 DEF Ask
      <4>3. \E x : result' = [result EXCEPT ![q] = x]
        BY <3>0, <4>1 DEF Finishes
      <4>4. \E x : pc' = [pc EXCEPT ![q] = x]
        BY <4>1 DEF Finishes
      <4> QED BY <3>0, <4>1, <4>2, <4>3, <4>4
    <3>2. CASE ResolveGone(q)
      BY <3>0, <3>2 DEF ResolveGone, Finishes
    <3>3. CASE ResolveRefused(q)
      BY <3>0, <3>3 DEF ResolveRefused, Finishes
    <3>4. CASE Resolve(q)
      <4>1. PICK answer, l : Finishes(q, answer, l)
        BY <3>4 DEF Resolve
      <4>2. ask' = ask /\ answers' = [answers EXCEPT ![q] = slots[ask[q].id]]
        BY <3>4 DEF Resolve
      <4> QED BY <3>0, <4>1, <4>2 DEF Finishes
    <3>5. CASE Name(q)
      BY <3>0, <3>5 DEF Name
    <3> QED BY <1>2, <3>1, <3>2, <3>3, <3>4, <3>5 DEF ResponderStep
  <2> QED BY Names, <1>0, <1>2, <2>1
<1>3. ASSUME Name(p) PROVE Settled
  BY Names, <1>0, <1>3 DEF Name
<1>4. ASSUME NEW w \in Withdrawers, WithdrawerStep(w) PROVE Settled
  <2>1. UNCHANGED <<ask, result, answers>> /\ \E l : pc' = [pc EXCEPT ![w] = l]
    <3>1. CASE List(w)
      BY <3>1 DEF List
    <3>2. CASE WithdrawOne(w)
      BY <1>0, Names, <3>2 DEF WithdrawOne
    <3>3. CASE WithdrawnAll(w)
      BY <3>3 DEF WithdrawnAll
    <3> QED BY <1>4, <3>1, <3>2, <3>3 DEF WithdrawerStep
  <2> QED BY Names, <1>0, <2>1
<1>5. ASSUME NEW a \in Actors, Publish(a) PROVE Settled
  <2>1. PICK l \in {"done", "publishing"} : pc' = [pc EXCEPT ![a] = l]
    BY <1>5 DEF Publish
  <2>2. UNCHANGED <<ask, result, answers>> /\ pc[a] = "publishing"
    BY <1>5 DEF Publish
  <2> QED BY Names, <1>0, <2>1, <2>2
<1>6. ASSUME UNCHANGED vars PROVE Settled
  BY <1>6 DEF vars
<1> HIDE DEF Settled
<1>7. Ask(p) \/ ResolveGone(p) \/ ResolveRefused(p) \/ Resolve(p) \/ Settled
  <2>1. CASE \E q \in Responders : ResponderStep(q)
    <3>1. PICK q \in Responders : ResponderStep(q)
      BY <2>1
    <3> QED BY <3>1, <1>2, <1>3 DEF ResponderStep
  <2>2. CASE \E r \in Raisers : RaiserStep(r)
    BY <2>2, <1>1
  <2>3. CASE \E w \in Withdrawers : WithdrawerStep(w)
    BY <2>3, <1>4
  <2>4. CASE \E a \in Actors : Publish(a)
    BY <2>4, <1>5
  <2>5. CASE UNCHANGED vars
    BY <2>5, <1>6
  <2> QED BY <2>1, <2>2, <2>3, <2>4, <2>5 DEF Next
<1> QED BY <1>7 DEF Settled

\* What a step leaves as it is: the ids handed out, the outcome of a settled
\* item, what was forgotten, and the answer of a caller told ok.
LEMMA Stays ==
  ASSUME TypeInv, KeptInv, AnswerInv, [Next]_vars
  PROVE  /\ \A r \in Raisers : /\ idOf[r] # NoId => idOf'[r] = idOf[r]
                               /\ chan[r] \in Responders \cup {"closed"} => chan'[r] = chan[r]
                               /\ chan'[r] = "open" /\ idOf[r] # NoId => chan[r] = "open"
         /\ forgotten \subseteq forgotten'
         /\ \A p \in Responders : result[p] = "ok" =>
              result'[p] = "ok" /\ answers'[p] = answers[p] /\ ask'[p] = ask[p]
<1>0. /\ slots \in [Ids -> Raisers \cup {Nobody}]
      /\ chan \in [Raisers -> {"none", "open", "closed"} \cup Responders]
      /\ idOf \in [Raisers -> Ids \cup {NoId}]
  BY DEF TypeInv, TypeOK
<1>1. ASSUME NEW r \in Raisers
      PROVE  /\ idOf[r] # NoId => idOf'[r] = idOf[r]
             /\ chan[r] \in Responders \cup {"closed"} => chan'[r] = chan[r]
             /\ chan'[r] = "open" /\ idOf[r] # NoId => chan[r] = "open"
  <2>1. ASSUME NEW q \in Raisers, Register(q)
        PROVE  /\ idOf[r] # NoId => idOf'[r] = idOf[r]
               /\ chan[r] \in Responders \cup {"closed"} => chan'[r] = chan[r]
               /\ chan'[r] = "open" /\ idOf[r] # NoId => chan[r] = "open"
    <3> DEFINE i == RegisteredId(q)
    <3>1. /\ idOf[q] = NoId /\ chan[q] = "none"
          /\ idOf' = [idOf EXCEPT ![q] = i]
          /\ chan' = [chan EXCEPT ![q] = "open"]
      BY <2>1, RegisterStep
    <3> HIDE DEF i
    <3> QED BY Names, <1>0, <3>1
  <2>2. ASSUME NEW i \in Ids, NEW o \in {"closed"} \cup Responders, Removal(i, o)
        PROVE  /\ idOf[r] # NoId => idOf'[r] = idOf[r]
               /\ chan[r] \in Responders \cup {"closed"} => chan'[r] = chan[r]
               /\ chan'[r] = "open" /\ idOf[r] # NoId => chan[r] = "open"
    <3>1. chan[slots[i]] = "open"
      BY Names, <2>2 DEF Removal, KeptInv, ItemsKept
    <3> QED BY Names, <1>0, <2>2, <3>1 DEF Removal
  <2>3. CASE Untouched
    BY <2>3 DEF Untouched
  <2> QED BY <2>1, <2>2, <2>3, StoreSteps
<1>2. forgotten \subseteq forgotten'
  <2>1. ASSUME NEW q \in Raisers, Register(q) PROVE forgotten' = forgotten
    BY <2>1 DEF Register
  <2> QED BY <2>1, StoreSteps DEF Untouched, Removal
<1>3. ASSUME NEW p \in Responders, result[p] = "ok"
      PROVE  result'[p] = "ok" /\ answers'[p] = answers[p] /\ ask'[p] = ask[p]
  <2>1. pc[p] # "idle" /\ pc[p] # "resolving"
    BY <1>3 DEF AnswerInv, Asked, Answered
  <2>2. ~Ask(p) /\ ~ResolveGone(p) /\ ~ResolveRefused(p) /\ ~Resolve(p)
    BY <2>1 DEF Ask, ResolveGone, ResolveRefused, Resolve
  <2> QED BY <1>3, <2>2, ResponderSteps
<1> QED BY <1>1, <1>2, <1>3

\* What the answer of a call that resolves is: nothing is there any more, the
\* caller may not, or the item is its own to settle.
LEMMA AnswerInit == Init => AnswerInv
BY Names DEF Init, AnswerInv, Asked, Answered, AnswerStands, LateAnswerIsConflict

\* No step of any call takes back, overwrites or doubles an answer that was taken
\* (resolve_detailed, respond).
LEMMA AnswerNext ==
  /\ TypeInv /\ KeptInv /\ MemoryInv /\ AnswerInv
  /\ TypeInv' /\ KeptInv' /\ MemoryInv'
  /\ [Next]_vars
  => AnswerInv'
<1> SUFFICES ASSUME TypeInv, KeptInv, MemoryInv, AnswerInv,
                    TypeInv', KeptInv', MemoryInv', [Next]_vars
             PROVE  AnswerInv'
  OBVIOUS
<1>0. /\ slots \in [Ids -> Raisers \cup {Nobody}]
      /\ chan \in [Raisers -> {"none", "open", "closed"} \cup Responders]
      /\ idOf \in [Raisers -> Ids \cup {NoId}]
      /\ pc \in [Actors -> {"idle", "raising", "waiting", "leaving", "resolving", "naming",
                            "withdrawing", "publishing", "done"}]
      /\ ask \in [Responders -> [id : Ids \cup {NoId}, session : Sessions \cup {Nobody}]]
      /\ result \in [Responders -> {"none", "ok", "not_found", "already_decided", "invalid", "forbidden"}]
      /\ answers \in [Responders -> Raisers \cup {Nobody}]
  BY DEF TypeInv, TypeOK
\* How a step treats the items: ids stay, settled items stay as they are, and
\* what was forgotten stays forgotten.
<1>1. \A r \in Raisers : /\ idOf[r] # NoId => idOf'[r] = idOf[r]
                         /\ chan[r] \in Responders \cup {"closed"} => chan'[r] = chan[r]
                         /\ chan'[r] = "open" /\ idOf[r] # NoId => chan[r] = "open"
  BY Stays
<1>2. forgotten \subseteq forgotten'
  BY Stays
<1>3. ASSUME NEW p \in Responders, Ask(p)
      PROVE  /\ pc'[p] = "resolving" =>
                  /\ \E r \in Raisers : idOf'[r] = ask'[p].id
                  /\ result'[p] = "none"
                  /\ \A r \in Raisers : idOf'[r] = ask'[p].id /\ chan'[r] = "open" => Home[r] = ask'[p].session
             /\ result'[p] # "ok" /\ pc'[p] # "idle"
             /\ result'[p] = "not_found" =>
                  \E r \in Raisers : idOf'[r] = ask'[p].id /\ Home[r] # ask'[p].session
  <2>1. PICK q \in Raisers, s \in Sessions :
          /\ idOf[q] # NoId
          /\ ask' = [ask EXCEPT ![p] = [id |-> idOf[q], session |-> s]]
          /\ LET item == slots[idOf[q]] IN
               IF item # Nobody /\ Home[item] # s
               THEN Finishes(p, "not_found", "done")
               ELSE Goto(p, "resolving") /\ UNCHANGED result
    BY <1>3 DEF Ask
  <2>2. /\ ask'[p].id = idOf[q] /\ ask'[p].session = s
        /\ idOf' = idOf /\ chan' = chan
        /\ result[p] = "none"
        /\ idOf[q] \in Ids
    <3>1. pc[p] = "idle" /\ idOf' = idOf /\ chan' = chan
      BY <1>3 DEF Ask
    <3>2. ask'[p] = [id |-> idOf[q], session |-> s]
      BY <1>0, <2>1
    <3>3. result[p] = "none"
      BY <3>1 DEF AnswerInv, Answered
    <3>4. idOf[q] \in Ids
      BY <1>0, <2>1
    <3> QED BY <3>1, <3>2, <3>3, <3>4
  <2>3. CASE slots[idOf[q]] # Nobody /\ Home[slots[idOf[q]]] # s
    <3>1. result'[p] = "not_found" /\ pc'[p] = "done"
      BY Names, <1>0, <2>1, <2>3 DEF Finishes, Goto
    <3>2. slots[idOf[q]] \in Raisers /\ idOf[slots[idOf[q]]] = idOf[q]
      BY <1>0, <2>2, <2>3 DEF KeptInv, ItemsKept
    <3> QED BY <2>2, <2>3, <3>1, <3>2
  <2>4. CASE ~(slots[idOf[q]] # Nobody /\ Home[slots[idOf[q]]] # s)
    <3>1. result'[p] = "none" /\ pc'[p] = "resolving"
      BY Names, <1>0, <2>1, <2>2, <2>4 DEF Goto
    <3>2. \A r \in Raisers : idOf[r] = idOf[q] /\ chan[r] = "open" => Home[r] = s
      BY Names, <2>4 DEF KeptInv, ItemsKept
    <3> QED BY <2>2, <3>1, <3>2
  <2> QED BY <2>3, <2>4
<1>4. ASSUME NEW p \in Responders, ResolveGone(p)
      PROVE  /\ pc'[p] = "done" /\ ask'[p] = ask[p]
             /\ result'[p] \in {"not_found", "already_decided"}
             /\ result'[p] = "not_found" => ask[p].id \in forgotten
  <2>1. /\ pc[p] = "resolving" /\ slots[ask[p].id] = Nobody
        /\ pc'[p] = "done" /\ ask'[p] = ask[p]
        /\ result'[p] = IF ask[p].id \in FinishedSet THEN "already_decided" ELSE "not_found"
    BY Names, <1>0, <1>4 DEF ResolveGone, Finishes, Goto
  <2>2. PICK r \in Raisers : idOf[r] = ask[p].id
    BY <2>1 DEF AnswerInv, Asked
  <2>3. ask[p].id \in Ids
    BY <2>1 DEF TypeInv, Begun
  <2>4. chan[r] # "open" /\ chan[r] # "none"
    BY Names, <2>1, <2>2, <2>3 DEF KeptInv, ItemsKept, Registered
  <2>5. ask[p].id \in FinishedSet \cup forgotten
    BY <2>2, <2>4 DEF MemoryInv, Remembered
  <2> QED BY <2>1, <2>5
<1>5. ASSUME NEW p \in Responders, ResolveRefused(p)
      PROVE  pc'[p] = "done" /\ ask'[p] = ask[p] /\ result'[p] \in {"invalid", "forbidden"}
  BY Names, <1>0, <1>5 DEF ResolveRefused, Finishes, Goto
<1>6. ASSUME NEW p \in Responders, Resolve(p)
      PROVE  /\ pc'[p] \in {"naming", "publishing"} /\ ask'[p] = ask[p]
             /\ result'[p] \in {"ok", "already_decided"}
             /\ result'[p] = "ok" =>
                  /\ answers'[p] \in Raisers /\ chan'[answers'[p]] = p
                  /\ ~Forbidden(answers'[p], p)
                  /\ ask[p].id \notin forgotten => Home[answers'[p]] = ask[p].session
  <2> DEFINE r == slots[ask[p].id]
  <2>1. /\ pc[p] = "resolving" /\ ask[p].id \in Ids /\ r \in Raisers
        /\ ~Forbidden(r, p) /\ ask'[p] = ask[p]
        /\ answers' = [answers EXCEPT ![p] = r]
    BY Names, <1>0, <1>6 DEF Resolve, TypeInv, Begun
  <2>2. \/ /\ Finishes(p, "ok", IF p \in Named THEN "naming" ELSE "publishing")
           /\ chan' = [chan EXCEPT ![r] = p]
        \/ Finishes(p, "already_decided", "publishing")
    BY <1>6 DEF Resolve
  <2>3. idOf[r] = ask[p].id /\ chan[r] = "open"
    BY Names, <2>1 DEF KeptInv, ItemsKept
  <2> HIDE DEF r
  <2>4. ask[p].id \notin forgotten => Home[r] = ask[p].session
    BY <2>1, <2>3 DEF AnswerInv, Asked
  <2>5. answers'[p] = r
    BY <1>0, <2>1
  <2>6. \/ result'[p] = "ok" /\ pc'[p] \in {"naming", "publishing"} /\ chan'[r] = p
        \/ result'[p] = "already_decided" /\ pc'[p] = "publishing"
    BY Names, <1>0, <2>1, <2>2 DEF Finishes, Goto
  <2> QED BY <2>1, <2>4, <2>5, <2>6
<1>7. Asked'
  <2> SUFFICES ASSUME NEW p \in Responders, pc'[p] = "resolving"
               PROVE  /\ \E r \in Raisers : idOf'[r] = ask'[p].id
                      /\ result'[p] = "none"
                      /\ ask'[p].id \notin forgotten' =>
                           \A r \in Raisers : idOf'[r] = ask'[p].id /\ chan'[r] = "open"
                                               => Home[r] = ask'[p].session
    BY DEF Asked
  <2>1. CASE Ask(p)
    BY <1>3, <2>1
  <2>2. CASE pc[p] = "resolving" /\ ask'[p] = ask[p] /\ result'[p] = result[p]
    <3>1. PICK q \in Raisers : idOf[q] = ask[p].id
      BY <2>2 DEF AnswerInv, Asked
    <3>2. ask[p].id \in Ids /\ idOf'[q] = ask[p].id
      BY Names, <1>1, <2>2, <3>1 DEF TypeInv, Begun
    <3>3. ASSUME ask[p].id \notin forgotten', NEW r \in Raisers, idOf'[r] = ask[p].id, chan'[r] = "open"
          PROVE  Home[r] = ask[p].session
      <4>1. r = q
        BY Names, <3>2, <3>3 DEF MemoryInv, OneHolder
      <4>2. chan[r] = "open"
        BY Names, <1>1, <3>1, <3>2, <3>3, <4>1
      <4> QED BY <1>2, <2>2, <3>1, <3>3, <4>1, <4>2 DEF AnswerInv, Asked
    <3> QED BY <2>2, <3>2, <3>3 DEF AnswerInv, Asked
  <2> QED BY <1>4, <1>5, <1>6, <2>1, <2>2, ResponderSteps
<1>8. Answered'
  <2> SUFFICES ASSUME NEW p \in Responders
               PROVE  /\ result'[p] = "ok" => answers'[p] \in Raisers
                      /\ pc'[p] = "idle" => result'[p] = "none"
    BY DEF Answered
  <2>1. CASE Ask(p) \/ ResolveGone(p) \/ ResolveRefused(p) \/ Resolve(p)
    BY <1>3, <1>4, <1>5, <1>6, <2>1
  <2>2. CASE /\ result'[p] = result[p] /\ answers'[p] = answers[p]
             /\ pc'[p] = pc[p] \/ (pc[p] \notin {"idle", "resolving"} /\ pc'[p] \notin {"idle", "resolving"})
    BY <2>2 DEF AnswerInv, Answered
  <2> QED BY <2>1, <2>2, ResponderSteps
<1>9. AnswerStands'
  <2> SUFFICES ASSUME NEW p \in Responders, result'[p] = "ok"
               PROVE  /\ chan'[answers'[p]] = p
                      /\ ~Forbidden(answers'[p], p)
                      /\ ask'[p].id \notin forgotten' => Home[answers'[p]] = ask'[p].session
    BY DEF AnswerStands, Forbidden
  <2>1. CASE Resolve(p)
    BY <1>2, <1>6, <2>1
  <2>2. CASE ask'[p] = ask[p] /\ result'[p] = result[p] /\ answers'[p] = answers[p]
    <3>1. answers[p] \in Raisers /\ chan[answers[p]] = p
      <4>1. result[p] = "ok"
        BY <2>2
      <4>2. answers[p] \in Raisers
        BY <4>1 DEF AnswerInv, Answered
      <4> QED BY <4>1, <4>2 DEF AnswerInv, AnswerStands
    <3>2. chan'[answers[p]] = p
      BY <1>1, <3>1
    <3> QED BY <1>2, <2>2, <3>2 DEF AnswerInv, AnswerStands
  <2> QED BY <1>3, <1>4, <1>5, <2>1, <2>2, ResponderSteps
<1>10. LateAnswerIsConflict'
  <2> SUFFICES ASSUME NEW p \in Responders, result'[p] = "not_found"
               PROVE  \/ ask'[p].id \in forgotten'
                      \/ \E r \in Raisers : idOf'[r] = ask'[p].id /\ Home[r] # ask'[p].session
    BY DEF LateAnswerIsConflict
  <2>1. CASE Ask(p)
    BY <1>3, <2>1
  <2>2. CASE ResolveGone(p)
    BY <1>2, <1>4, <2>2
  <2>3. CASE ask'[p] = ask[p] /\ result'[p] = result[p]
    <3>1. pc[p] # "idle"
      BY <2>3 DEF AnswerInv, Answered
    <3>2. ask[p].id # NoId
      BY Names, <3>1 DEF TypeInv, Begun
    <3> QED BY <1>1, <1>2, <2>3, <3>2 DEF AnswerInv, LateAnswerIsConflict
  <2> QED BY <1>5, <1>6, <2>1, <2>2, <2>3, ResponderSteps
<1> QED BY <1>7, <1>8, <1>9, <1>10 DEF AnswerInv

\* The inductive invariant about answers holds in every behaviour.
LEMMA AnswersInvariant == Spec => []AnswerInv
<1> DEFINE IInv == TypeInv /\ KeptInv /\ MemoryInv /\ AnswerInv
<1>1. Init => IInv
  BY TypeInit, KeptInit, MemoryInit, AnswerInit
<1>2. IInv /\ [Next]_vars => IInv'
  BY TypeNext, KeptNext, MemoryNext, AnswerNext
<1>3. IInv => AnswerInv
  OBVIOUS
<1> QED BY <1>1, <1>2, <1>3, PTL DEF Spec

\* A caller that is told its answer was taken is the only one for that item, had
\* the right to give it, and named the item's session -- although the session is
\* looked up before the lock under which the answer is taken (respond).
THEOREM AnswerStandsCorrect == Spec => []AnswerStands
<1>1. AnswerInv => AnswerStands
  BY DEF AnswerInv
<1> QED BY <1>1, AnswersInvariant, PTL

\* "A late answer to a decided/withdrawn item is 409": whoever is told 404 named
\* another session's item, or an id that more than FinishedCap later ones pushed
\* out of memory (resolve_detailed).
THEOREM LateAnswerIsConflictCorrect == Spec => []LateAnswerIsConflict
<1>1. AnswerInv => LateAnswerIsConflict
  BY DEF AnswerInv
<1> QED BY <1>1, AnswersInvariant, PTL
---------------------------------------------------------------------------
(* What is published.  A record of a settled item says how it was settled, *)
(* whether the store remembers it or clients were told; and of the calls   *)
(* that race to end an item one removes it, and that one alone still has   *)
(* to publish it.  This is what PublishedOnce and the refinement rest on.  *)

\* A resolution says of its item how it was settled.
IsTrue(res) ==
  IF res.outcome = "decided"
  THEN /\ res.by \in Responders /\ chan[res.of] = res.by
       /\ result[res.by] = "ok" /\ answers[res.by] = res.of
  ELSE chan[res.of] = "closed"

RecordsTrue ==
  /\ \A i \in Ids : resolutions[i] # NoResolution =>
       idOf[resolutions[i].of] = i /\ IsTrue(resolutions[i])
  /\ \A e \in published : IsTrue(e.res)

\* Only a named device's decision waits for its name, and it holds its item.
Naming ==
  \A p \in Responders :
    /\ pc[p] = "naming" => p \in Named /\ result[p] = "ok"
    /\ result[p] = "ok" => idOf[answers[p]] = ask[p].id

\* The record of a decision has the device's name once that is looked up.
NameFilled ==
  \A i \in Ids \ forgotten : resolutions[i].outcome = "decided" =>
    LET p == resolutions[i].by IN resolutions[i].named <=> p \in Named /\ pc[p] # "naming"

\* A call with an id to publish has settled its item, and no other call has
\* published it or will; the record says so.
OnePublisher ==
  \A a \in Actors : \A i \in unpublished[a] :
    /\ \E r \in Raisers : idOf[r] = i /\ chan[r] \in Responders \cup {"closed"}
    /\ i \notin forgotten =>
         /\ \A b \in Actors : i \in unpublished[b] => a = b
         /\ \A e \in published : idOf[e.res.of] # i
         /\ resolutions[i] # NoResolution
         /\ resolutions[i].outcome = "decided" => resolutions[i].by = a

PublishInv == RecordsTrue /\ Naming /\ NameFilled /\ OnePublisher /\ PublishedOnce

\* The item at i is settled by call a with the outcome o, "closed" or a itself,
\* is remembered as such, and a is left to publish it.
Settles(a, i, o) ==
  /\ slots[i] \in Raisers
  /\ chan' = [chan EXCEPT ![slots[i]] = o]
  /\ UNCHANGED <<idOf, published>>
  /\ \E S \in SUBSET (unpublished[a] \cup {i}) : unpublished' = [unpublished EXCEPT ![a] = S]
  /\ \/ /\ o = "closed"
        /\ \E outcome \in {"expired", "cancelled", "withdrawn"} :
             Remove(i, Resolved(slots[i], outcome, Nobody))
     \/ /\ o = a /\ a \in Responders /\ i = ask[a].id
        /\ Remove(i, Resolved(slots[i], "decided", a))
        /\ result'[a] = "ok" /\ answers'[a] = slots[i]
        /\ pc'[a] = IF a \in Named THEN "naming" ELSE "publishing"

\* Nothing of what is remembered or published changes.
Quiet == UNCHANGED <<slots, chan, idOf, forgotten, resolutions, unpublished, published>>

\* What every step does to the records and to what is still to be published.
LEMMA PublishSteps ==
  ASSUME TypeInv, [Next]_vars
  PROVE  \/ \E r \in Raisers : Register(r)
         \/ Quiet
         \/ \E a \in Actors, i \in Ids, o \in {"closed"} \cup Responders : Settles(a, i, o)
         \/ \E p \in Responders : Name(p)
         \/ \E a \in Actors : Publish(a)
<1> USE DEF store, callVars
<1> DEFINE Some == \E a \in Actors, i \in Ids, o \in {"closed"} \cup Responders : Settles(a, i, o)
<1>0. /\ unpublished \in [Actors -> SUBSET Ids] /\ slots \in [Ids -> Raisers \cup {Nobody}]
      /\ pc \in [Actors -> {"idle", "raising", "waiting", "leaving", "resolving", "naming",
                            "withdrawing", "publishing", "done"}]
      /\ result \in [Responders -> {"none", "ok", "not_found", "already_decided", "invalid", "forbidden"}]
      /\ answers \in [Responders -> Raisers \cup {Nobody}]
  BY DEF TypeInv, TypeOK
<1>1. ASSUME NEW a \in Actors, NEW i \in Ids, slots[i] # Nobody,
             NEW reason \in {"timeout", "request_ended", "session_stopped", "answered_elsewhere"},
             Withdraw(i, reason), UNCHANGED <<idOf, published>>,
             NEW S \in SUBSET (unpublished[a] \cup {i}), unpublished' = [unpublished EXCEPT ![a] = S]
      PROVE  Some
  <2>1. OutcomeFor(reason) \in {"expired", "cancelled", "withdrawn"}
    BY DEF OutcomeFor
  <2>2. slots[i] \in Raisers
    BY <1>0, <1>1
  <2>3. Settles(a, i, "closed")
    BY <1>1, <2>1, <2>2 DEF Withdraw, Settles
  <2> QED BY <2>3
<1>2. ASSUME NEW r \in Raisers, DropGuard(r) PROVE Quiet \/ Some
  <2>1. CASE slots[idOf[r]] = Nobody
    BY <1>2, <2>1 DEF DropGuard, Quiet
  <2>2. CASE slots[idOf[r]] # Nobody
    <3>1. idOf[r] \in Ids /\ UNCHANGED <<idOf, published>> /\ r \in Actors
      BY Names, <1>2, ZenonT(40) DEF TypeInv, TypeOK, Begun, DropGuard
    <3>2. PICK reason \in {"timeout", "request_ended"} : Withdraw(idOf[r], reason)
      BY <1>2, <2>2 DEF DropGuard
    <3>3. unpublished' = [unpublished EXCEPT ![r] = {idOf[r]}]
      BY <1>2, <2>2 DEF DropGuard
    <3> HIDE DEF Some
    <3> QED BY <1>1, <2>2, <3>1, <3>2, <3>3
  <2> QED BY <2>1, <2>2
<1>3. ASSUME NEW w \in Withdrawers, WithdrawOne(w) PROVE Quiet \/ Some
  <2>1. PICK i \in targets[w] :
          IF slots[i] = Nobody THEN UNCHANGED <<store, chan, unpublished>>
          ELSE /\ Withdraw(i, Reason[w])
               /\ unpublished' = [unpublished EXCEPT ![w] = unpublished[w] \cup {i}]
    BY <1>3 DEF WithdrawOne
  <2>2. i \in Ids /\ UNCHANGED <<idOf, published>> /\ w \in Actors
    BY Names, <1>3 DEF TypeInv, TypeOK, WithdrawOne
  <2>3. Reason[w] \in {"session_stopped", "answered_elsewhere"}
    BY StoreAssumption
  <2>4. CASE slots[i] = Nobody
    BY <2>1, <2>2, <2>4 DEF Quiet
  <2>5. CASE slots[i] # Nobody
    <3>1. unpublished[w] \cup {i} \in SUBSET (unpublished[w] \cup {i})
      OBVIOUS
    <3>2. Withdraw(i, Reason[w]) /\ unpublished' = [unpublished EXCEPT ![w] = unpublished[w] \cup {i}]
      BY <2>1, <2>5
    <3> HIDE DEF Some
    <3> QED BY <1>1, <2>2, <2>3, <2>5, <3>1, <3>2
  <2> QED BY <2>4, <2>5
<1>4. ASSUME NEW p \in Responders, Resolve(p) PROVE Some
  <2> DEFINE i == ask[p].id
  <2>1. /\ i \in Ids /\ slots[i] \in Raisers /\ p \in Actors
        /\ UNCHANGED <<idOf, published>>
    BY Names, <1>4, ZenonT(40) DEF TypeInv, TypeOK, Begun, Resolve
  <2>2. /\ unpublished' = [unpublished EXCEPT ![p] = {i}]
        /\ answers' = [answers EXCEPT ![p] = slots[i]]
    BY <1>4 DEF Resolve
  <2>3. CASE rx[slots[i]]
    <3>1. /\ Remove(i, Resolved(slots[i], "decided", p))
          /\ chan' = [chan EXCEPT ![slots[i]] = p]
          /\ result' = [result EXCEPT ![p] = "ok"]
          /\ pc' = [pc EXCEPT ![p] = IF p \in Named THEN "naming" ELSE "publishing"]
      BY <1>4, <2>3 DEF Resolve, Finishes, Goto
    <3> HIDE DEF i
    <3>2. /\ result'[p] = "ok" /\ answers'[p] = slots[i]
          /\ pc'[p] = IF p \in Named THEN "naming" ELSE "publishing"
      BY <1>0, <2>1, <2>2, <3>1
    <3>3. Settles(p, i, p)
      BY <2>1, <2>2, <3>1, <3>2 DEF Settles, i
    <3> QED BY <2>1, <3>3
  <2>4. CASE ~rx[slots[i]]
    <3>1. /\ Remove(i, Resolved(slots[i], "cancelled", Nobody))
          /\ chan' = [chan EXCEPT ![slots[i]] = "closed"]
      BY <1>4, <2>4 DEF Resolve
    <3> HIDE DEF i
    <3>2. Settles(p, i, "closed")
      BY <2>1, <2>2, <3>1 DEF Settles
    <3> QED BY <2>1, <3>2
  <2> QED BY <2>3, <2>4
<1>5. ASSUME NEW r \in Raisers, Raised(r) \/ Decided(r) \/ Closed(r) \/ TimedOut(r) \/ Abandon(r)
      PROVE  Quiet
  BY <1>5 DEF Raised, Decided, Closed, TimedOut, Abandon, StopWaiting, Quiet
<1>6. ASSUME NEW p \in Responders, Ask(p) \/ ResolveGone(p) \/ ResolveRefused(p)
      PROVE  Quiet
  BY <1>6 DEF Ask, ResolveGone, ResolveRefused, Quiet
<1>7. ASSUME NEW w \in Withdrawers, List(w) \/ WithdrawnAll(w) PROVE Quiet
  BY <1>7 DEF List, WithdrawnAll, Quiet
<1>8. ASSUME UNCHANGED vars PROVE Quiet
  BY <1>8 DEF vars, Quiet
<1> HIDE DEF Some
<1>9. \/ \E r \in Raisers : Register(r)
      \/ Quiet \/ Some
      \/ \E p \in Responders : Name(p)
      \/ \E a \in Actors : Publish(a)
  <2>1. ASSUME NEW r \in Raisers, RaiserStep(r) PROVE Register(r) \/ Quiet \/ Some
    BY <1>2, <1>5, <2>1 DEF RaiserStep
  <2>2. ASSUME NEW p \in Responders, ResponderStep(p) PROVE Quiet \/ Some \/ Name(p)
    BY <1>4, <1>6, <2>2 DEF ResponderStep
  <2>3. ASSUME NEW w \in Withdrawers, WithdrawerStep(w) PROVE Quiet \/ Some
    BY <1>3, <1>7, <2>3 DEF WithdrawerStep
  <2> QED BY <1>8, <2>1, <2>2, <2>3 DEF Next
<1> QED BY <1>9 DEF Some

\* A device's name is looked up from the moment its decision is taken to the step
\* that fills it in (set_resolution).
LEMMA NamingSteps ==
  ASSUME TypeInv, [Next]_vars, NEW p \in Responders
  PROVE  (pc'[p] = "naming" <=> pc[p] = "naming") \/ Resolve(p) \/ Name(p)
<1>0. pc \in [Actors -> {"idle", "raising", "waiting", "leaving", "resolving", "naming",
                         "withdrawing", "publishing", "done"}]
  BY DEF TypeInv, TypeOK
<1> USE DEF Goto
<1>1. ASSUME NEW a \in Actors, NEW l, pc' = [pc EXCEPT ![a] = l],
             a # p \/ (pc[p] # "naming" /\ l # "naming")
      PROVE  pc'[p] = "naming" <=> pc[p] = "naming"
  BY Names, <1>0, <1>1
<1>2. ASSUME NEW r \in Raisers, RaiserStep(r) PROVE pc'[p] = "naming" <=> pc[p] = "naming"
  <2>1. \E l : pc' = [pc EXCEPT ![r] = l]
    BY <1>2 DEF RaiserStep, Register, Raised, Decided, Closed, TimedOut, Abandon, StopWaiting, DropGuard
  <2> QED BY Names, <1>1, <2>1
<1>3. ASSUME NEW w \in Withdrawers, WithdrawerStep(w)
      PROVE  pc'[p] = "naming" <=> pc[p] = "naming"
  <2>1. pc' = pc \/ \E l : pc' = [pc EXCEPT ![w] = l]
    BY <1>3 DEF WithdrawerStep, List, WithdrawOne, WithdrawnAll
  <2> QED BY Names, <1>1, <2>1
<1>4. ASSUME NEW q \in Responders, Ask(q) \/ ResolveGone(q) \/ ResolveRefused(q)
      PROVE  pc'[p] = "naming" <=> pc[p] = "naming"
  <2>1. pc[q] # "naming"
    BY <1>4 DEF Ask, ResolveGone, ResolveRefused
  <2>2. PICK l \in {"done", "resolving"} : pc' = [pc EXCEPT ![q] = l]
    BY <1>4 DEF Ask, ResolveGone, ResolveRefused, Finishes
  <2> QED BY Names, <1>1, <2>1, <2>2
<1>5. ASSUME NEW q \in Responders, q # p, Resolve(q) \/ Name(q)
      PROVE  pc'[p] = "naming" <=> pc[p] = "naming"
  <2>1. \E l : pc' = [pc EXCEPT ![q] = l]
    BY <1>5 DEF Resolve, Name, Finishes
  <2> QED BY Names, <1>1, <1>5, <2>1
<1>6. ASSUME NEW a \in Actors, Publish(a) PROVE pc'[p] = "naming" <=> pc[p] = "naming"
  <2>1. pc[a] # "naming"
    BY <1>6 DEF Publish
  <2>2. PICK l \in {"done", "publishing"} : pc' = [pc EXCEPT ![a] = l]
    BY <1>6 DEF Publish
  <2> QED BY <1>1, <2>1, <2>2
<1>7. CASE UNCHANGED vars
  BY <1>7 DEF vars
<1> QED BY <1>2, <1>3, <1>4, <1>5, <1>6, <1>7 DEF Next, ResponderStep

\* Nothing was published, and nothing is to be.
LEMMA PublishInit == Init => PublishInv
<1> SUFFICES ASSUME Init PROVE PublishInv
  OBVIOUS
<1>1. \A p \in Responders : pc[p] = "idle" /\ result[p] = "none"
  BY Names DEF Init
<1>2. \A i \in Ids : resolutions[i] = NoResolution /\ NoResolution.outcome # "decided"
  BY DEF Init, NoResolution
<1>3. published = {} /\ \A a \in Actors : unpublished[a] = {}
  BY DEF Init
<1> QED BY <1>1, <1>2, <1>3
        DEF PublishInv, RecordsTrue, Naming, NameFilled, OnePublisher, PublishedOnce

\* What is true of a settled item stays true.
LEMMA TruthStays ==
  ASSUME TypeInv, KeptInv, AnswerInv, [Next]_vars
  PROVE  \A res \in Resolution : IsTrue(res) =>
           /\ idOf'[res.of] = idOf[res.of]
           /\ IF res.outcome = "decided"
              THEN /\ res.by \in Responders /\ chan'[res.of] = res.by
                   /\ result'[res.by] = "ok" /\ answers'[res.by] = res.of
              ELSE chan'[res.of] = "closed"
<1> SUFFICES ASSUME NEW res \in Resolution, IsTrue(res)
             PROVE  /\ idOf'[res.of] = idOf[res.of]
                    /\ IF res.outcome = "decided"
                       THEN /\ res.by \in Responders /\ chan'[res.of] = res.by
                            /\ result'[res.by] = "ok" /\ answers'[res.by] = res.of
                       ELSE chan'[res.of] = "closed"
  OBVIOUS
<1>1. res.of \in Raisers
  BY DEF Resolution
<1>2. chan[res.of] \in Responders \cup {"closed"}
  BY DEF IsTrue
<1>3. idOf[res.of] # NoId
  BY Names, <1>1, <1>2 DEF KeptInv, Registered
<1>4. idOf'[res.of] = idOf[res.of] /\ chan'[res.of] = chan[res.of]
  BY <1>1, <1>2, <1>3, Stays
<1>5. ASSUME NEW p \in Responders, result[p] = "ok"
      PROVE  result'[p] = "ok" /\ answers'[p] = answers[p]
  BY <1>5, Stays
<1> QED BY <1>4, <1>5 DEF IsTrue

\* What a removal does to the records: the item's own is new, and an id that is
\* remembered no more has none.
LEMMA SettlesRecords ==
  ASSUME TypeInv, KeptInv, AnswerInv, PublishInv, [Next]_vars,
         NEW a \in Actors, NEW i \in Ids, NEW o \in {"closed"} \cup Responders, Settles(a, i, o)
  PROVE  /\ resolutions'[i] \in Resolution
         /\ resolutions'[i].of = slots[i] /\ idOf'[slots[i]] = i
         /\ chan'[slots[i]] = o /\ chan[slots[i]] = "open" /\ slots[i] \in Raisers
         /\ \/ resolutions'[i].outcome # "decided" /\ o = "closed"
            \/ /\ resolutions'[i].outcome = "decided" /\ resolutions'[i].by = a
               /\ ~resolutions'[i].named /\ o = a /\ a \in Responders
               /\ result'[a] = "ok" /\ answers'[a] = slots[i] /\ i = ask[a].id
               /\ pc'[a] = "naming" <=> a \in Named
         /\ \A j \in Ids : j # i => \/ resolutions'[j] = resolutions[j]
                                    \/ resolutions'[j] = NoResolution /\ j \in forgotten'
<1>1. /\ slots[i] \in Raisers /\ idOf' = idOf
      /\ chan' = [chan EXCEPT ![slots[i]] = o]
      /\ chan \in [Raisers -> {"none", "open", "closed"} \cup Responders]
  BY DEF Settles, TypeInv, TypeOK
<1>2. chan[slots[i]] = "open" /\ idOf[slots[i]] = i
  BY Names, <1>1 DEF KeptInv, ItemsKept
<1>3. PICK outcome \in {"decided", "expired", "cancelled", "withdrawn"}, by \in Responders \cup {Nobody} :
        /\ Remove(i, Resolved(slots[i], outcome, by))
        /\ \/ outcome # "decided" /\ o = "closed"
           \/ /\ outcome = "decided" /\ by = a /\ o = a /\ a \in Responders
              /\ result'[a] = "ok" /\ answers'[a] = slots[i] /\ i = ask[a].id
              /\ pc'[a] = "naming" <=> a \in Named
  <2>1. CASE \E outcome \in {"expired", "cancelled", "withdrawn"} :
               Remove(i, Resolved(slots[i], outcome, Nobody)) /\ o = "closed"
    <3>1. PICK outcome \in {"expired", "cancelled", "withdrawn"} :
            Remove(i, Resolved(slots[i], outcome, Nobody)) /\ o = "closed"
      BY <2>1
    <3>2. outcome # "decided" /\ Nobody \in Responders \cup {Nobody}
      OBVIOUS
    <3> QED BY <3>1, <3>2
  <2>2. CASE /\ o = a /\ a \in Responders /\ i = ask[a].id
             /\ Remove(i, Resolved(slots[i], "decided", a))
             /\ result'[a] = "ok" /\ answers'[a] = slots[i]
             /\ pc'[a] = IF a \in Named THEN "naming" ELSE "publishing"
    <3>1. pc'[a] = "naming" <=> a \in Named
      BY <2>2
    <3> QED BY <2>2, <3>1
  <2> QED BY <2>1, <2>2 DEF Settles
<1> DEFINE res == Resolved(slots[i], outcome, by)
<1>4. /\ res \in Resolution /\ res.of = slots[i] /\ res.outcome = outcome
      /\ res.by = by /\ ~res.named
  BY <1>1 DEF Resolved, Resolution
<1> HIDE DEF res
<1>5. \A j \in Ids : resolutions'[j] = IF j = i THEN res
                                       ELSE IF j \in Evicted(i) THEN NoResolution
                                       ELSE resolutions[j]
  BY <1>3 DEF Remove, res
<1>6. forgotten' = forgotten \cup Evicted(i)
  BY <1>3 DEF Remove
<1>7. resolutions'[i] = res
  BY <1>5
<1>8. chan'[slots[i]] = o
  BY <1>1
<1>9. \A j \in Ids : j # i => \/ resolutions'[j] = resolutions[j]
                              \/ resolutions'[j] = NoResolution /\ j \in forgotten'
  BY <1>5, <1>6
<1> QED BY <1>1, <1>2, <1>3, <1>4, <1>7, <1>8, <1>9

\* What filling in a name does to the records.
LEMMA NameRecords ==
  ASSUME TypeInv, KeptInv, MemoryInv, AnswerInv, PublishInv, [Next]_vars,
         NEW p \in Responders, Name(p)
  PROVE  /\ p \in Named /\ result[p] = "ok" /\ answers[p] \in Raisers
         /\ chan[answers[p]] = p /\ idOf[answers[p]] = ask[p].id
         /\ UNCHANGED <<slots, finished, forgotten, chan, idOf, result, answers, unpublished, published>>
         /\ pc'[p] = "publishing"
         /\ \A i \in Ids :
              \/ resolutions'[i] = resolutions[i] /\ (i = ask[p].id => i \in forgotten)
              \/ /\ i = ask[p].id /\ resolutions'[i] \in Resolution
                 /\ resolutions'[i].of = answers[p] /\ resolutions'[i].outcome = "decided"
                 /\ resolutions'[i].by = p /\ resolutions'[i].named
<1>1. /\ pc[p] = "naming" /\ pc' = [pc EXCEPT ![p] = "publishing"]
      /\ UNCHANGED <<slots, finished, forgotten, chan, idOf, result, answers, unpublished, published>>
  BY DEF Name, Goto, callVars
<1>2. pc'[p] = "publishing"
  BY Names, <1>1 DEF TypeInv, TypeOK
<1>3. p \in Named /\ result[p] = "ok" /\ idOf[answers[p]] = ask[p].id
  BY <1>1 DEF PublishInv, Naming
<1>4. answers[p] \in Raisers /\ chan[answers[p]] = p
  BY <1>3 DEF AnswerInv, Answered, AnswerStands
<1> DEFINE i == ask[p].id
           res == [Resolved(answers[p], "decided", p) EXCEPT !.named = TRUE]
<1>5. /\ res \in Resolution /\ res.of = answers[p] /\ res.outcome = "decided"
      /\ res.by = p /\ res.named
  BY <1>4 DEF Resolved, Resolution
<1> HIDE DEF res
<1>6. CASE i \in FinishedSet
  <2>1. resolutions' = [resolutions EXCEPT ![i] = res]
    BY <1>6 DEF Name, res
  <2>2. resolutions \in [Ids -> Resolution \cup {NoResolution}]
    BY DEF TypeInv, TypeOK
  <2>3. \A j \in Ids : resolutions'[j] = IF j = i THEN res ELSE resolutions[j]
    BY <2>1, <2>2
  <2> QED BY <1>1, <1>2, <1>3, <1>4, <1>5, <2>3
<1>7. CASE i \notin FinishedSet
  <2>1. resolutions' = resolutions
    BY <1>7 DEF Name
  <2>2. i \in forgotten
    BY Names, <1>3, <1>4, <1>7 DEF MemoryInv, Remembered
  <2> QED BY <1>1, <1>2, <1>3, <1>4, <2>1, <2>2
<1> QED BY <1>6, <1>7

\* What one publication does: it tells clients what is remembered of an id that
\* the call removed.
LEMMA PublishRecords ==
  ASSUME TypeInv, NEW a \in Actors, Publish(a)
  PROVE  \E i \in Ids :
           /\ i \in unpublished[a] /\ i \notin unpublished'[a]
           /\ \A b \in Actors : unpublished'[b] \subseteq unpublished[b]
           /\ \/ resolutions[i] = NoResolution /\ published' = published
              \/ /\ resolutions[i] \in Resolution
                 /\ published' = published \cup {[actor |-> a, res |-> resolutions[i]]}
           /\ UNCHANGED <<slots, finished, forgotten, chan, idOf, result, answers, resolutions>>
           /\ pc[a] = "publishing"
<1>1. PICK i \in unpublished[a] :
        /\ published' = IF resolutions[i] = NoResolution THEN published
                        ELSE published \cup {[actor |-> a, res |-> resolutions[i]]}
        /\ unpublished' = [unpublished EXCEPT ![a] = unpublished[a] \ {i}]
  BY DEF Publish
<1>2. unpublished \in [Actors -> SUBSET Ids] /\ resolutions \in [Ids -> Resolution \cup {NoResolution}]
  BY DEF TypeInv, TypeOK
<1>3. i \in Ids /\ i \notin unpublished'[a]
  BY <1>1, <1>2
<1>4. \A b \in Actors : unpublished'[b] \subseteq unpublished[b]
  BY <1>1, <1>2
<1>5. \/ resolutions[i] = NoResolution /\ published' = published
      \/ /\ resolutions[i] \in Resolution
         /\ published' = published \cup {[actor |-> a, res |-> resolutions[i]]}
  BY <1>1, <1>2, <1>3
<1>6. /\ UNCHANGED <<slots, finished, forgotten, chan, idOf, result, answers, resolutions>>
      /\ pc[a] = "publishing"
  BY DEF Publish, store, callVars
<1> QED BY <1>1, <1>3, <1>4, <1>5, <1>6

\* Whatever a call records or publishes is how the item was settled
\* (resolve_detailed, withdraw, set_resolution, publish_resolved).
LEMMA RecordsNext ==
  ASSUME TypeInv, KeptInv, MemoryInv, AnswerInv, PublishInv, [Next]_vars
  PROVE  RecordsTrue'
<1>0. /\ resolutions \in [Ids -> Resolution \cup {NoResolution}]
      /\ published \subseteq [actor : Actors, res : Resolution]
      /\ slots \in [Ids -> Raisers \cup {Nobody}]
  BY DEF TypeInv, TypeOK
<1>1. \A res \in Resolution : IsTrue(res) =>
        /\ idOf'[res.of] = idOf[res.of]
        /\ IF res.outcome = "decided"
           THEN /\ res.by \in Responders /\ chan'[res.of] = res.by
                /\ result'[res.by] = "ok" /\ answers'[res.by] = res.of
           ELSE chan'[res.of] = "closed"
  BY TruthStays
<1>2. ASSUME NEW i \in Ids, resolutions'[i] # NoResolution, resolutions'[i] = resolutions[i]
      PROVE  idOf'[resolutions'[i].of] = i /\ IsTrue(resolutions[i])'
  <2>1. resolutions[i] \in Resolution /\ idOf[resolutions[i].of] = i /\ IsTrue(resolutions[i])
    BY <1>0, <1>2 DEF PublishInv, RecordsTrue
  <2> QED BY <1>1, <1>2, <2>1 DEF IsTrue
<1>3. ASSUME NEW e \in published PROVE IsTrue(e.res)'
  <2>1. e.res \in Resolution /\ IsTrue(e.res)
    BY <1>0 DEF PublishInv, RecordsTrue
  <2> QED BY <1>1, <2>1 DEF IsTrue
<1>4. ASSUME NEW i \in Ids, resolutions'[i] # NoResolution
      PROVE  idOf'[resolutions'[i].of] = i /\ IsTrue(resolutions[i])'
  <2>1. CASE resolutions' = resolutions
    BY <1>2, <1>4, <2>1
  <2>2. ASSUME NEW a \in Actors, NEW j \in Ids, NEW o \in {"closed"} \cup Responders, Settles(a, j, o)
        PROVE  idOf'[resolutions'[i].of] = i /\ IsTrue(resolutions[i])'
    <3>1. CASE i = j
      <4>1. /\ resolutions'[i].of = slots[i] /\ idOf'[slots[i]] = i /\ chan'[slots[i]] = o
            /\ \/ resolutions'[i].outcome # "decided" /\ o = "closed"
               \/ /\ resolutions'[i].outcome = "decided" /\ resolutions'[i].by = a
                  /\ o = a /\ a \in Responders /\ result'[a] = "ok" /\ answers'[a] = slots[i]
        BY <2>2, <3>1, SettlesRecords
      <4> QED BY <4>1 DEF IsTrue
    <3>2. CASE i # j
      <4>1. resolutions'[i] = resolutions[i]
        BY <1>4, <2>2, <3>2, SettlesRecords
      <4> QED BY <1>2, <1>4, <4>1
    <3> QED BY <3>1, <3>2
  <2>3. ASSUME NEW p \in Responders, Name(p)
        PROVE  idOf'[resolutions'[i].of] = i /\ IsTrue(resolutions[i])'
    <3>1. CASE resolutions'[i] = resolutions[i]
      BY <1>2, <1>4, <3>1
    <3>2. CASE /\ i = ask[p].id /\ resolutions'[i].of = answers[p]
               /\ resolutions'[i].outcome = "decided" /\ resolutions'[i].by = p
      <4>1. /\ result[p] = "ok" /\ chan[answers[p]] = p /\ idOf[answers[p]] = ask[p].id
            /\ UNCHANGED <<chan, idOf, result, answers>>
        BY <2>3, NameRecords
      <4> QED BY <3>2, <4>1 DEF IsTrue
    <3> QED BY <2>3, <3>1, <3>2, NameRecords
  <2>4. ASSUME NEW r \in Raisers, Register(r) PROVE resolutions' = resolutions
    BY <2>4 DEF Register
  <2>5. ASSUME NEW a \in Actors, Publish(a) PROVE resolutions' = resolutions
    BY <2>5 DEF Publish, store
  <2> QED BY <2>1, <2>2, <2>3, <2>4, <2>5, PublishSteps DEF Quiet
<1>5. ASSUME NEW e \in published' PROVE IsTrue(e.res)'
  <2>1. CASE e \in published
    BY <1>3, <2>1
  <2>2. CASE e \notin published
    <3>1. PICK a \in Actors : Publish(a)
      <4>1. published' # published
        BY <1>5, <2>2
      <4>2. ASSUME NEW r \in Raisers, Register(r) PROVE published' = published
        BY <4>2 DEF Register
      <4>3. ASSUME NEW p \in Responders, Name(p) PROVE published' = published
        BY <4>3 DEF Name
      <4> QED BY <4>1, <4>2, <4>3, PublishSteps DEF Quiet, Settles
    <3>2. PICK i \in Ids : /\ resolutions[i] \in Resolution
                           /\ published' = published \cup {[actor |-> a, res |-> resolutions[i]]}
      BY <1>5, <2>2, <3>1, PublishRecords
    <3>3. e.res = resolutions[i]
      BY <1>5, <2>2, <3>2
    <3>4. resolutions[i] # NoResolution
      BY <3>2 DEF Resolution, NoResolution
    <3>5. IsTrue(resolutions[i])
      BY <3>4 DEF PublishInv, RecordsTrue
    <3> QED BY <1>1, <3>2, <3>3, <3>5 DEF IsTrue
  <2> QED BY <2>1, <2>2
<1> QED BY <1>4, <1>5 DEF RecordsTrue

\* A decision that waits for its device's name is one that was taken from a named
\* device, and its record gets the name before it is published (respond).
LEMMA NamesNext ==
  ASSUME TypeInv, KeptInv, MemoryInv, AnswerInv, PublishInv, [Next]_vars
  PROVE  Naming' /\ NameFilled'
<1>0. /\ resolutions \in [Ids -> Resolution \cup {NoResolution}]
      /\ slots \in [Ids -> Raisers \cup {Nobody}]
      /\ idOf \in [Raisers -> Ids \cup {NoId}]
      /\ ask \in [Responders -> [id : Ids \cup {NoId}, session : Sessions \cup {Nobody}]]
  BY DEF TypeInv, TypeOK
<1>1. ASSUME NEW p \in Responders
      PROVE  /\ pc'[p] = "naming" => p \in Named /\ result'[p] = "ok"
             /\ result'[p] = "ok" => idOf'[answers'[p]] = ask'[p].id
  <2>1. CASE Resolve(p)
    <3> DEFINE i == ask[p].id
    <3>1. /\ pc[p] = "resolving" /\ UNCHANGED <<idOf, ask>> /\ i \in Ids /\ slots[i] \in Raisers
          /\ answers'[p] = slots[i]
      BY Names, <1>0, <2>1, ZenonT(40) DEF Resolve, TypeInv, TypeOK, Begun
    <3>2. idOf[slots[i]] = i
      BY Names, <3>1 DEF KeptInv, ItemsKept
    <3>3. pc'[p] = "naming" => p \in Named /\ result'[p] = "ok"
      BY Names, <2>1 DEF Resolve, Finishes, Goto, TypeInv, TypeOK
    <3> QED BY <3>1, <3>2, <3>3
  <2>2. CASE Name(p)
    <3>1. /\ result[p] = "ok" /\ idOf[answers[p]] = ask[p].id
          /\ UNCHANGED <<idOf, result, answers>> /\ pc'[p] = "publishing"
      BY <2>2, NameRecords
    <3>2. ask' = ask
      BY <2>2 DEF Name, callVars
    <3> QED BY <3>1, <3>2
  <2>3. CASE (pc'[p] = "naming" <=> pc[p] = "naming") /\ ~Resolve(p)
    <3>1. result'[p] = "ok" => result[p] = "ok"
      <4>1. Ask(p) => result'[p] = "not_found" \/ result'[p] = result[p]
        BY DEF Ask, Finishes, TypeInv, TypeOK
      <4>2. ResolveGone(p) => result'[p] # "ok"
        BY DEF ResolveGone, Finishes, TypeInv, TypeOK
      <4>3. ResolveRefused(p) => result'[p] # "ok"
        BY DEF ResolveRefused, Finishes, TypeInv, TypeOK
      <4> QED BY <2>3, <4>1, <4>2, <4>3, ResponderSteps
    <3>2. ASSUME result[p] = "ok"
          PROVE  result'[p] = "ok" /\ idOf'[answers'[p]] = ask'[p].id
      <4>1. result'[p] = "ok" /\ answers'[p] = answers[p] /\ ask'[p] = ask[p]
        BY <3>2, Stays
      <4>2. answers[p] \in Raisers /\ idOf[answers[p]] = ask[p].id
        BY <3>2 DEF AnswerInv, Answered, PublishInv, Naming
      <4>3. ask[p].id # NoId
        <5>1. pc[p] # "idle"
          BY <3>2 DEF AnswerInv, Answered
        <5> QED BY Names, <5>1 DEF TypeInv, Begun
      <4> QED BY <4>1, <4>2, <4>3, Stays
    <3>3. pc[p] = "naming" => p \in Named /\ result[p] = "ok"
      BY DEF PublishInv, Naming
    <3> QED BY <2>3, <3>1, <3>2, <3>3
  <2> QED BY <2>1, <2>2, <2>3, NamingSteps
<1>2. ASSUME NEW i \in Ids, i \notin forgotten', resolutions'[i].outcome = "decided"
      PROVE  resolutions'[i].named <=>
               resolutions'[i].by \in Named /\ pc'[resolutions'[i].by] # "naming"
  <2>1. i \notin forgotten
    BY <1>2, Stays
  <2>2. ASSUME NEW a \in Actors, NEW j \in Ids, NEW o \in {"closed"} \cup Responders, Settles(a, j, o),
               i = j
        PROVE  resolutions'[i].named <=>
                 resolutions'[i].by \in Named /\ pc'[resolutions'[i].by] # "naming"
    BY <1>2, <2>2, SettlesRecords
  <2>3. ASSUME NEW p \in Responders, Name(p), i = ask[p].id
        PROVE  resolutions'[i].named <=>
                 resolutions'[i].by \in Named /\ pc'[resolutions'[i].by] # "naming"
    BY <2>1, <2>3, NameRecords
  <2>4. CASE /\ resolutions'[i] = resolutions[i]
             /\ \A p \in Responders : Name(p) => i # ask[p].id
    <3> DEFINE p == resolutions[i].by
    <3>1. resolutions[i].outcome = "decided" /\ resolutions[i] # NoResolution
      BY <1>2, <2>4 DEF NoResolution
    <3>2. resolutions[i].named <=> p \in Named /\ pc[p] # "naming"
      BY <2>1, <3>1 DEF PublishInv, NameFilled
    <3>3. /\ p \in Responders /\ result[p] = "ok" /\ answers[p] = resolutions[i].of
          /\ idOf[resolutions[i].of] = i
      BY <3>1 DEF PublishInv, RecordsTrue, IsTrue
    <3> HIDE DEF p
    <3>4. ask[p].id = i
      BY <3>3 DEF PublishInv, Naming
    <3>5. ~Resolve(p)
      BY <3>3 DEF Resolve, AnswerInv, Asked
    <3>6. pc'[p] = "naming" <=> pc[p] = "naming"
      BY <2>4, <3>3, <3>4, <3>5, NamingSteps
    <3> QED BY <2>4, <3>2, <3>6 DEF p
  <2>5. \/ resolutions'[i] = resolutions[i]
        \/ \E a \in Actors, o \in {"closed"} \cup Responders : Settles(a, i, o)
        \/ \E p \in Responders : Name(p) /\ i = ask[p].id
    <3>1. ASSUME NEW r \in Raisers, Register(r) PROVE resolutions' = resolutions
      BY <3>1 DEF Register
    <3>2. ASSUME NEW a \in Actors, Publish(a) PROVE resolutions' = resolutions
      BY <3>2 DEF Publish, store
    <3>3. ASSUME NEW a \in Actors, NEW j \in Ids, NEW o \in {"closed"} \cup Responders, Settles(a, j, o), j # i
          PROVE  resolutions'[i] = resolutions[i]
      <4>1. resolutions'[i] = resolutions[i] \/ i \in forgotten'
        BY <3>3, SettlesRecords
      <4> QED BY <1>2, <4>1
    <3>4. ASSUME NEW p \in Responders, Name(p), i # ask[p].id
          PROVE  resolutions'[i] = resolutions[i]
      BY <3>4, NameRecords
    <3>5. CASE \E a \in Actors, j \in Ids, o \in {"closed"} \cup Responders : Settles(a, j, o)
      <4>1. PICK a \in Actors, j \in Ids, o \in {"closed"} \cup Responders : Settles(a, j, o)
        BY <3>5
      <4> QED BY <3>3, <4>1
    <3>6. CASE \E p \in Responders : Name(p)
      BY <3>4, <3>6
    <3>7. CASE Quiet
      BY <3>7 DEF Quiet
    <3>8. CASE (\E r \in Raisers : Register(r)) \/ (\E a \in Actors : Publish(a))
      BY <3>1, <3>2, <3>8
    <3> QED BY <3>5, <3>6, <3>7, <3>8, PublishSteps
  <2> QED BY <2>2, <2>3, <2>4, <2>5
<1>3. Naming'
  BY <1>1 DEF Naming
<1>4. NameFilled'
  BY <1>2 DEF NameFilled
<1> QED BY <1>3, <1>4

\* An item is removed by one call, and that call publishes it once: between the
\* two nobody else can, unless its id was forgotten (PendingGuard::drop, withdraw).
LEMMA OnePublisherNext ==
  ASSUME TypeInv, KeptInv, MemoryInv, AnswerInv, PublishInv, [Next]_vars
  PROVE  OnePublisher'
<1>0. /\ resolutions \in [Ids -> Resolution \cup {NoResolution}]
      /\ published \subseteq [actor : Actors, res : Resolution]
      /\ slots \in [Ids -> Raisers \cup {Nobody}]
      /\ unpublished \in [Actors -> SUBSET Ids]
      /\ unpublished' \in [Actors -> SUBSET Ids]
  <2>1. unpublished' \in [Actors -> SUBSET Ids]
    BY TypeNext DEF TypeInv, TypeOK
  <2> QED BY <2>1 DEF TypeInv, TypeOK
\* An id that was to be published stays so, and so does what is told of it.
<1>1. ASSUME NEW i \in Ids, NEW a \in Actors, i \in unpublished[a]
      PROVE  \E r \in Raisers : idOf'[r] = i /\ chan'[r] \in Responders \cup {"closed"}
  <2>1. PICK r \in Raisers : idOf[r] = i /\ chan[r] \in Responders \cup {"closed"}
    BY <1>1 DEF PublishInv, OnePublisher
  <2>2. idOf'[r] = i /\ chan'[r] \in Responders \cup {"closed"}
    BY Names, <2>1, Stays
  <2> QED BY <2>2
<1>2. ASSUME NEW e \in published PROVE idOf'[e.res.of] = idOf[e.res.of]
  <2>1. e.res \in Resolution /\ IsTrue(e.res)
    BY <1>0 DEF PublishInv, RecordsTrue
  <2> QED BY <2>1, TruthStays
<1>3. ASSUME NEW a \in Actors, NEW j \in Ids, NEW o \in {"closed"} \cup Responders, Settles(a, j, o),
             j \notin forgotten
      PROVE  /\ \A b \in Actors : j \notin unpublished[b]
             /\ \A e \in published : idOf[e.res.of] # j
  <2>1. slots[j] \in Raisers /\ chan[slots[j]] = "open" /\ idOf[slots[j]] = j
    BY Names, <1>3 DEF Settles, KeptInv, ItemsKept
  <2>2. \A r \in Raisers : idOf[r] = j => r = slots[j]
    BY Names, <1>3, <2>1 DEF MemoryInv, OneHolder
  <2>3. \A b \in Actors : j \notin unpublished[b]
    BY Names, <2>1, <2>2 DEF PublishInv, OnePublisher
  <2>4. ASSUME NEW e \in published PROVE idOf[e.res.of] # j
    <3>1. e.res.of \in Raisers /\ IsTrue(e.res)
      BY <1>0 DEF Resolution, PublishInv, RecordsTrue
    <3>2. chan[e.res.of] # "open"
      BY Names, <3>1 DEF IsTrue
    <3> QED BY <2>1, <2>2, <3>1, <3>2
  <2> QED BY <2>3, <2>4
<1>4. ASSUME NEW a \in Actors, NEW i \in unpublished'[a]
      PROVE  /\ \E r \in Raisers : idOf'[r] = i /\ chan'[r] \in Responders \cup {"closed"}
             /\ i \notin forgotten' =>
                  /\ \A b \in Actors : i \in unpublished'[b] => a = b
                  /\ \A e \in published' : idOf'[e.res.of] # i
                  /\ resolutions'[i] # NoResolution
                  /\ resolutions'[i].outcome = "decided" => resolutions'[i].by = a
  <2>0. i \in Ids
    BY <1>0
  <2>1. CASE UNCHANGED <<unpublished, published, resolutions>>
    <3>1. i \in unpublished[a]
      BY <2>1
    <3>2. i \notin forgotten' => i \notin forgotten
      BY Stays
    <3>3. i \notin forgotten' => \A e \in published' : idOf'[e.res.of] # i
      BY <1>2, <2>1, <3>1, <3>2 DEF PublishInv, OnePublisher
    <3> QED BY <1>1, <2>0, <2>1, <3>1, <3>2, <3>3 DEF PublishInv, OnePublisher
  <2>2. CASE \E b \in Actors, j \in Ids, o \in {"closed"} \cup Responders : Settles(b, j, o)
    <3>1. PICK b \in Actors, j \in Ids, o \in {"closed"} \cup Responders : Settles(b, j, o)
      BY <2>2
    <3>2. /\ \A c \in Actors : unpublished'[c] \subseteq unpublished[c] \cup {j}
          /\ \A c \in Actors : c # b => unpublished'[c] = unpublished[c]
          /\ published' = published
      BY <1>0, <3>1 DEF Settles
    <3>3. /\ idOf'[slots[j]] = j /\ slots[j] \in Raisers
          /\ chan'[slots[j]] \in Responders \cup {"closed"}
          /\ resolutions'[j] \in Resolution
          /\ resolutions'[j].outcome = "decided" => resolutions'[j].by = b
      BY <3>1, SettlesRecords
    <3>4. CASE i = j
      <4>1. ASSUME i \notin forgotten'
            PROVE  /\ a = b /\ \A c \in Actors : i \in unpublished'[c] => a = c
                   /\ \A e \in published' : idOf'[e.res.of] # i
        <5>1. i \notin forgotten
          BY <4>1, Stays
        <5>2. /\ \A c \in Actors : j \notin unpublished[c]
              /\ \A e \in published : idOf[e.res.of] # j
          BY <1>3, <3>1, <3>4, <5>1
        <5>3. \A c \in Actors : i \in unpublished'[c] => c = b
          BY <3>2, <3>4, <5>2
        <5> QED BY <1>2, <3>2, <3>4, <5>2, <5>3
      <4>2. resolutions'[i] # NoResolution
        BY <3>3, <3>4 DEF Resolution, NoResolution
      <4> QED BY <3>3, <3>4, <4>1, <4>2
    <3>5. CASE i # j
      <4>1. i \in unpublished[a] /\ \A c \in Actors : i \in unpublished'[c] => i \in unpublished[c]
        BY <3>2, <3>5
      <4>2. ASSUME i \notin forgotten'
            PROVE  /\ \A c \in Actors : i \in unpublished'[c] => a = c
                   /\ \A e \in published' : idOf'[e.res.of] # i
                   /\ resolutions'[i] # NoResolution
                   /\ resolutions'[i].outcome = "decided" => resolutions'[i].by = a
        <5>1. i \notin forgotten
          BY <4>2, Stays
        <5>2. resolutions'[i] = resolutions[i]
          BY <2>0, <3>1, <3>5, <4>2, SettlesRecords
        <5>3. /\ \A c \in Actors : i \in unpublished[c] => a = c
              /\ \A e \in published : idOf[e.res.of] # i
              /\ resolutions[i] # NoResolution
              /\ resolutions[i].outcome = "decided" => resolutions[i].by = a
          BY <4>1, <5>1 DEF PublishInv, OnePublisher
        <5> QED BY <1>2, <3>2, <4>1, <5>2, <5>3
      <4> QED BY <1>1, <2>0, <4>1, <4>2
    <3> QED BY <3>4, <3>5
  <2>3. ASSUME NEW p \in Responders, Name(p)
        PROVE  /\ \E r \in Raisers : idOf'[r] = i /\ chan'[r] \in Responders \cup {"closed"}
               /\ i \notin forgotten' =>
                    /\ \A b \in Actors : i \in unpublished'[b] => a = b
                    /\ \A e \in published' : idOf'[e.res.of] # i
                    /\ resolutions'[i] # NoResolution
                    /\ resolutions'[i].outcome = "decided" => resolutions'[i].by = a
    <3>1. /\ UNCHANGED <<forgotten, chan, idOf, unpublished, published>>
          /\ result[p] = "ok" /\ answers[p] \in Raisers /\ chan[answers[p]] = p /\ idOf[answers[p]] = ask[p].id
          /\ \/ resolutions'[i] = resolutions[i] /\ (i = ask[p].id => i \in forgotten)
             \/ i = ask[p].id /\ resolutions'[i] \in Resolution /\ resolutions'[i].by = p
      BY <2>0, <2>3, NameRecords
    <3>2. /\ \E r \in Raisers : idOf'[r] = i /\ chan'[r] \in Responders \cup {"closed"}
          /\ i \notin forgotten' =>
               /\ \A b \in Actors : i \in unpublished'[b] => a = b
               /\ \A e \in published' : idOf'[e.res.of] # i
               /\ resolutions[i] # NoResolution
               /\ resolutions[i].outcome = "decided" => resolutions[i].by = a
      BY <3>1 DEF PublishInv, OnePublisher
    <3>3. ASSUME i \notin forgotten, i = ask[p].id
          PROVE  p = a /\ resolutions'[i] # NoResolution
      <4>1. resolutions[i] # NoResolution
        BY <3>1, <3>2, <3>3
      <4>2. /\ resolutions[i] \in Resolution /\ resolutions[i].of \in Raisers
            /\ idOf[resolutions[i].of] = i /\ IsTrue(resolutions[i])
        BY <1>0, <2>0, <4>1 DEF Resolution, PublishInv, RecordsTrue
      <4>3. resolutions[i].of = answers[p]
        BY Names, <2>0, <3>1, <3>3, <4>2 DEF MemoryInv, OneHolder
      <4>4. resolutions[i].outcome = "decided" /\ resolutions[i].by = p
        BY Names, <3>1, <4>2, <4>3 DEF IsTrue
      <4>5. resolutions'[i] # NoResolution
        BY <3>1, <3>3 DEF Resolution, NoResolution
      <4> QED BY <3>1, <3>2, <3>3, <4>4, <4>5
    <3> QED BY <3>1, <3>2, <3>3
  <2>4. ASSUME NEW b \in Actors, Publish(b)
        PROVE  /\ \E r \in Raisers : idOf'[r] = i /\ chan'[r] \in Responders \cup {"closed"}
               /\ i \notin forgotten' =>
                    /\ \A c \in Actors : i \in unpublished'[c] => a = c
                    /\ \A e \in published' : idOf'[e.res.of] # i
                    /\ resolutions'[i] # NoResolution
                    /\ resolutions'[i].outcome = "decided" => resolutions'[i].by = a
    <3>1. PICK j \in Ids :
            /\ j \in unpublished[b] /\ j \notin unpublished'[b]
            /\ \A c \in Actors : unpublished'[c] \subseteq unpublished[c]
            /\ \/ published' = published
               \/ /\ resolutions[j] \in Resolution
                  /\ published' = published \cup {[actor |-> b, res |-> resolutions[j]]}
            /\ UNCHANGED <<forgotten, idOf, resolutions>>
      BY <2>4, PublishRecords
    <3>2. i \in unpublished[a] /\ \A c \in Actors : i \in unpublished'[c] => i \in unpublished[c]
      BY <3>1
    <3>3. ASSUME i \notin forgotten, NEW e \in published' PROVE idOf[e.res.of] # i
      <4>1. CASE e \in published
        BY <3>2, <3>3, <4>1 DEF PublishInv, OnePublisher
      <4>2. CASE e \notin published
        <5>1. resolutions[j] \in Resolution /\ e.res = resolutions[j]
          BY <3>1, <3>3, <4>2
        <5>2. idOf[e.res.of] = j
          BY <5>1 DEF Resolution, NoResolution, PublishInv, RecordsTrue
        <5>3. i # j
          BY <3>1, <3>2, <3>3 DEF PublishInv, OnePublisher
        <5> QED BY <5>2, <5>3
      <4> QED BY <4>1, <4>2
    <3>4. i \notin forgotten =>
            /\ \A c \in Actors : i \in unpublished'[c] => a = c
            /\ resolutions[i] # NoResolution
            /\ resolutions[i].outcome = "decided" => resolutions[i].by = a
      BY <3>2 DEF PublishInv, OnePublisher
    <3> QED BY <1>1, <2>0, <3>1, <3>2, <3>3, <3>4
  <2>5. ASSUME NEW r \in Raisers, Register(r) PROVE UNCHANGED <<unpublished, published, resolutions>>
    BY <2>5 DEF Register
  <2> QED BY <2>1, <2>2, <2>3, <2>4, <2>5, PublishSteps DEF Quiet
<1> QED BY <1>4 DEF OnePublisher

\* Of all the calls that race to end a request one publishes it (publish_resolved).
LEMMA OnceNext ==
  ASSUME TypeInv, KeptInv, MemoryInv, AnswerInv, PublishInv, [Next]_vars
  PROVE  PublishedOnce'
<1>0. /\ published \subseteq [actor : Actors, res : Resolution]
      /\ resolutions \in [Ids -> Resolution \cup {NoResolution}]
  BY DEF TypeInv, TypeOK
\* What was published before is told as it was.
<1>1. ASSUME NEW e \in published
      PROVE  /\ idOf'[e.res.of] = idOf[e.res.of]
             /\ e.res.outcome = "decided" =>
                  result'[e.res.by] = "ok" /\ answers'[e.res.by] = e.res.of
  <2>1. e.res \in Resolution /\ IsTrue(e.res)
    BY <1>0 DEF PublishInv, RecordsTrue
  <2> QED BY <2>1, TruthStays
<1>2. ASSUME NEW e \in published, e.res.outcome = "decided", idOf'[e.res.of] \notin forgotten'
      PROVE  e.res.named <=> e.res.by \in Named
  BY <1>1, <1>2, Stays DEF PublishInv, PublishedOnce
<1>3. ASSUME NEW e \in published, NEW f \in published, e.res.of = f.res.of,
             idOf'[e.res.of] \notin forgotten'
      PROVE  e = f
  BY <1>1, <1>3, Stays DEF PublishInv, PublishedOnce
<1>4. CASE published' = published
  BY <1>1, <1>2, <1>3, <1>4 DEF PublishedOnce
<1>5. CASE \E a \in Actors : Publish(a)
  <2>1. PICK a \in Actors : Publish(a)
    BY <1>5
  <2>2. PICK i \in Ids :
          /\ i \in unpublished[a]
          /\ \/ published' = published
             \/ /\ resolutions[i] \in Resolution
                /\ published' = published \cup {[actor |-> a, res |-> resolutions[i]]}
          /\ UNCHANGED <<forgotten, idOf, result, answers>>
          /\ pc[a] = "publishing"
    BY <2>1, PublishRecords
  <2>3. CASE /\ resolutions[i] \in Resolution
             /\ published' = published \cup {[actor |-> a, res |-> resolutions[i]]}
    <3> DEFINE res == resolutions[i]
               new == [actor |-> a, res |-> res]
    <3>1. idOf[res.of] = i /\ IsTrue(res)
      BY <2>3 DEF Resolution, NoResolution, PublishInv, RecordsTrue
    <3>2. ASSUME i \notin forgotten
          PROVE  /\ \A e \in published : idOf[e.res.of] # i
                 /\ res.outcome = "decided" => res.by = a
      BY <2>2, <3>2 DEF PublishInv, OnePublisher
    <3>3. ASSUME i \notin forgotten, res.outcome = "decided" PROVE res.named <=> res.by \in Named
      <4>1. res.by = a /\ pc[a] # "naming"
        BY <2>2, <3>2, <3>3
      <4> QED BY <3>3, <4>1 DEF PublishInv, NameFilled
    <3>4. new.res = res /\ published' = published \cup {new}
      BY <2>3
    <3>5. res.outcome = "decided" => result[res.by] = "ok" /\ answers[res.by] = res.of
      BY <3>1 DEF IsTrue
    <3> HIDE DEF res, new
    <3>6. ASSUME NEW e \in published', NEW f \in published', e.res.of = f.res.of,
                 idOf'[e.res.of] \notin forgotten'
          PROVE  e = f
      BY <1>3, <2>2, <3>1, <3>2, <3>4, <3>6
    <3>7. ASSUME NEW e \in published', e.res.outcome = "decided"
          PROVE  /\ result'[e.res.by] = "ok"
                 /\ answers'[e.res.by] = e.res.of
                 /\ idOf'[e.res.of] \notin forgotten' => (e.res.named <=> e.res.by \in Named)
      BY <1>1, <1>2, <2>2, <3>1, <3>3, <3>4, <3>5, <3>7
    <3> QED BY <3>6, <3>7 DEF PublishedOnce
  <2> QED BY <1>4, <2>2, <2>3
<1>6. published' = published \/ \E a \in Actors : Publish(a)
  <2>1. ASSUME NEW r \in Raisers, Register(r) PROVE published' = published
    BY <2>1 DEF Register
  <2>2. ASSUME NEW p \in Responders, Name(p) PROVE published' = published
    BY <2>2 DEF Name
  <2> QED BY <2>1, <2>2, PublishSteps DEF Quiet, Settles
<1> QED BY <1>4, <1>5, <1>6

\* The records are true, a name is filled in and an item has one publisher in
\* every behaviour.
LEMMA PublishInvariant == Spec => [](TypeInv /\ KeptInv /\ MemoryInv /\ AnswerInv /\ PublishInv)
<1> DEFINE IInv == TypeInv /\ KeptInv /\ MemoryInv /\ AnswerInv /\ PublishInv
<1>1. Init => IInv
  BY TypeInit, KeptInit, MemoryInit, AnswerInit, PublishInit
<1>2. IInv /\ [Next]_vars => IInv'
  <2> SUFFICES ASSUME IInv, [Next]_vars PROVE IInv'
    OBVIOUS
  <2>1. TypeInv' /\ KeptInv' /\ MemoryInv' /\ AnswerInv'
    BY TypeNext, KeptNext, MemoryNext, AnswerNext
  <2>2. PublishInv'
    BY RecordsNext, NamesNext, OnePublisherNext, OnceNext DEF PublishInv
  <2> QED BY <2>1, <2>2
<1> QED BY <1>1, <1>2, PTL DEF Spec

\* Of all the calls racing to end a request (answers, withdrawals, its guard) one
\* publishes it, as it was settled, with the name of the device that answered it
\* although that is filled in later (PendingGuard::drop, set_resolution).
THEOREM PublishedOnceCorrect == Spec => []PublishedOnce
<1>1. PublishInv => PublishedOnce
  BY DEF PublishInv
<1> QED BY <1>1, PublishInvariant, PTL

---------------------------------------------------------------------------
(* The store implements DecisionOnce.  A record is true of its item, so an *)
(* item is announced as it was settled, also when its id is forgotten and  *)
(* used again.                                                             *)

\* What a client makes of the frames P about request r, and how r was settled.
ToldBy(P, r) ==
  IF \E e \in P : e.res.of = r
  THEN IF \E e \in P : e.res.of = r /\ e.res.outcome = "decided"
       THEN (CHOOSE e \in P : e.res.of = r /\ e.res.outcome = "decided").res.by
       ELSE "withdrawn"
  ELSE "none"

Outcome == [r \in Raisers |-> IF chan[r] = "closed" THEN "withdrawn" ELSE chan[r]]
Announced == [r \in Raisers |-> ToldBy(published, r)]

\* True frames about a request tell its outcome.
LEMMA ToldAsSettled ==
  ASSUME NEW P, \A e \in P : IsTrue(e.res), NEW r \in Raisers, \E e \in P : e.res.of = r
  PROVE  ToldBy(P, r) = Outcome[r] /\ Outcome[r] \in Responders \cup {"withdrawn"}
<1>1. ASSUME NEW e \in P, e.res.of = r
      PROVE  IF e.res.outcome = "decided" THEN chan[r] = e.res.by /\ e.res.by \in Responders
             ELSE chan[r] = "closed"
  BY <1>1 DEF IsTrue
<1>2. CASE \E e \in P : e.res.of = r /\ e.res.outcome = "decided"
  <2> DEFINE c == CHOOSE e \in P : e.res.of = r /\ e.res.outcome = "decided"
  <2>1. c \in P /\ c.res.of = r /\ c.res.outcome = "decided"
    BY <1>2
  <2>2. ToldBy(P, r) = c.res.by
    BY <1>2 DEF ToldBy
  <2> HIDE DEF c
  <2>3. chan[r] = c.res.by /\ c.res.by \in Responders /\ chan[r] # "closed"
    <3>1. chan[r] = c.res.by /\ c.res.by \in Responders
      BY <1>1, <2>1
    <3> QED BY Names, <3>1
  <2> QED BY <2>2, <2>3 DEF Outcome
<1>3. CASE ~\E e \in P : e.res.of = r /\ e.res.outcome = "decided"
  <2>1. chan[r] = "closed"
    BY <1>1, <1>3
  <2>2. ToldBy(P, r) = "withdrawn"
    BY <1>3 DEF ToldBy
  <2> QED BY <2>1, <2>2 DEF Outcome
<1> QED BY <1>2, <1>3

\* A step opens one request, settles one, announces one, or does none of these.
LEMMA RefineSteps ==
  ASSUME TypeInv, KeptInv, PublishInv, [Next]_vars
  PROVE  \/ UNCHANGED <<Outcome, Announced>>
         \/ \E r \in Raisers :
              \/ /\ Outcome[r] = "none" /\ Outcome' = [Outcome EXCEPT ![r] = "open"]
                 /\ Announced' = Announced
              \/ /\ Outcome[r] = "open"
                 /\ \E o \in Responders \cup {"withdrawn"} : Outcome' = [Outcome EXCEPT ![r] = o]
                 /\ Announced' = Announced
              \/ /\ Outcome[r] \in Responders \cup {"withdrawn"} /\ Announced[r] = "none"
                 /\ Announced' = [Announced EXCEPT ![r] = Outcome[r]]
                 /\ Outcome' = Outcome
<1>0. /\ chan \in [Raisers -> {"none", "open", "closed"} \cup Responders]
      /\ published \subseteq [actor : Actors, res : Resolution]
  BY DEF TypeInv, TypeOK
<1>1. ASSUME NEW r \in Raisers, Register(r)
      PROVE  /\ Outcome[r] = "none" /\ Outcome' = [Outcome EXCEPT ![r] = "open"]
             /\ Announced' = Announced
  <2>1. chan[r] = "none" /\ chan' = [chan EXCEPT ![r] = "open"]
    BY <1>1, RegisterStep
  <2>2. published' = published
    BY <1>1 DEF Register
  <2> QED BY <1>0, <2>1, <2>2 DEF Outcome, Announced
<1>2. ASSUME NEW a \in Actors, NEW i \in Ids, NEW o \in {"closed"} \cup Responders, Settles(a, i, o)
      PROVE  LET r == slots[i] IN
             /\ r \in Raisers /\ Outcome[r] = "open"
             /\ \E q \in Responders \cup {"withdrawn"} : Outcome' = [Outcome EXCEPT ![r] = q]
             /\ Announced' = Announced
  <2> DEFINE r == slots[i]
             q == IF o = "closed" THEN "withdrawn" ELSE o
  <2>1. r \in Raisers /\ chan' = [chan EXCEPT ![r] = o] /\ published' = published
    BY <1>2 DEF Settles
  <2>2. chan[r] = "open"
    BY Names, <2>1 DEF KeptInv, ItemsKept
  <2> HIDE DEF r
  <2>3. Outcome' = [Outcome EXCEPT ![r] = q]
    BY <1>0, <2>1 DEF Outcome
  <2>4. q \in Responders \cup {"withdrawn"}
    OBVIOUS
  <2>5. Outcome[r] = "open" /\ Announced' = Announced
    BY <2>1, <2>2 DEF Outcome, Announced
  <2> QED BY <2>1, <2>3, <2>4, <2>5 DEF r
<1>3. ASSUME NEW a \in Actors, Publish(a)
      PROVE  \/ UNCHANGED <<Outcome, Announced>>
             \/ \E r \in Raisers :
                  /\ Outcome[r] \in Responders \cup {"withdrawn"} /\ Announced[r] = "none"
                  /\ Announced' = [Announced EXCEPT ![r] = Outcome[r]]
                  /\ Outcome' = Outcome
  <2>1. PICK i \in Ids :
          /\ \/ published' = published
             \/ /\ resolutions[i] \in Resolution
                /\ published' = published \cup {[actor |-> a, res |-> resolutions[i]]}
          /\ chan' = chan
    BY <1>3, PublishRecords
  <2>2. Outcome' = Outcome
    BY <2>1 DEF Outcome
  <2>3. CASE published' = published
    BY <2>2, <2>3 DEF Announced
  <2>4. CASE /\ resolutions[i] \in Resolution
             /\ published' = published \cup {[actor |-> a, res |-> resolutions[i]]}
    <3> DEFINE new == [actor |-> a, res |-> resolutions[i]]
               r == resolutions[i].of
    <3>1. new.res.of = r /\ r \in Raisers /\ IsTrue(new.res)
      BY <2>4 DEF Resolution, NoResolution, PublishInv, RecordsTrue
    <3>2. published' = published \cup {new}
      BY <2>4
    <3> HIDE DEF new, r
    <3>3. (\A e \in published : IsTrue(e.res)) /\ (\A e \in published' : IsTrue(e.res))
      BY <3>1, <3>2 DEF PublishInv, RecordsTrue
    <3>4. \A q \in Raisers : q # r => ToldBy(published', q) = ToldBy(published, q)
      <4>1. ASSUME NEW q \in Raisers, q # r
            PROVE  ToldBy(published', q) = ToldBy(published, q)
        <5>1. (\E e \in published' : e.res.of = q) <=> (\E e \in published : e.res.of = q)
          BY <3>1, <3>2, <4>1
        <5>2. CASE \E e \in published : e.res.of = q
          <6>1. ToldBy(published', q) = Outcome[q]
            BY <3>3, <5>1, <5>2, ToldAsSettled
          <6>2. ToldBy(published, q) = Outcome[q]
            BY <3>3, <5>2, ToldAsSettled
          <6> QED BY <6>1, <6>2
        <5>3. CASE ~\E e \in published : e.res.of = q
          BY <5>1, <5>3 DEF ToldBy
        <5> QED BY <5>2, <5>3
      <4> QED BY <4>1
    <3>5. /\ ToldBy(published', r) = Outcome[r]
          /\ Outcome[r] \in Responders \cup {"withdrawn"}
      BY <3>1, <3>2, <3>3, ToldAsSettled
    <3>6. Announced' = [Announced EXCEPT ![r] = Outcome[r]]
      BY <3>1, <3>4, <3>5 DEF Announced
    <3>7. ToldBy(published, r) \in {"none", Outcome[r]}
      <4>1. CASE \E e \in published : e.res.of = r
        BY <3>1, <3>3, <4>1, ToldAsSettled
      <4>2. CASE ~\E e \in published : e.res.of = r
        BY <4>2 DEF ToldBy
      <4> QED BY <4>1, <4>2
    <3>8. Announced[r] = ToldBy(published, r)
      BY <3>1 DEF Announced
    <3>9. CASE Announced[r] = "none"
      BY <2>2, <3>1, <3>5, <3>6, <3>9
    <3>10. CASE Announced[r] = Outcome[r]
      <4>1. Announced' = Announced
        BY <3>6, <3>10 DEF Announced
      <4> QED BY <2>2, <4>1
    <3> QED BY <3>7, <3>8, <3>9, <3>10
  <2> QED BY <2>1, <2>3, <2>4
<1>4. ASSUME NEW p \in Responders, Name(p) PROVE UNCHANGED <<Outcome, Announced>>
  <2>1. chan' = chan /\ published' = published
    BY <1>4 DEF Name
  <2> QED BY <2>1 DEF Outcome, Announced
<1>5. CASE Quiet
  BY <1>5 DEF Quiet, Outcome, Announced
<1>6. CASE \E a \in Actors, i \in Ids, o \in {"closed"} \cup Responders : Settles(a, i, o)
  <2>1. PICK a \in Actors, i \in Ids, o \in {"closed"} \cup Responders : Settles(a, i, o)
    BY <1>6
  <2> QED BY <1>2, <2>1
<1>7. CASE \E a \in Actors : Publish(a)
  <2>1. PICK a \in Actors : Publish(a)
    BY <1>7
  <2> QED BY <1>3, <2>1
<1>8. CASE \E r \in Raisers : Register(r)
  BY <1>1, <1>8
<1>9. CASE \E p \in Responders : Name(p)
  BY <1>4, <1>9
<1> QED BY <1>5, <1>6, <1>7, <1>8, <1>9, PublishSteps

\* The store settles every request once, by one answer or by a withdrawal, and
\* what is announced of it is how it was settled: whatever the calls, their
\* interleaving, the ids and the cap, pending.rs implements DecisionOnce.
THEOREM ImplementsCorrect == Spec => Implements
<1> DEFINE IInv == TypeInv /\ KeptInv /\ MemoryInv /\ AnswerInv /\ PublishInv
<1>1. Init => Abs!Init
  <2> SUFFICES ASSUME Init PROVE Abs!Init
    OBVIOUS
  <2>1. chan = [r \in Raisers |-> "none"] /\ published = {}
    BY DEF Init
  <2> QED BY <2>1 DEF Abs!Init
<1>2. IInv /\ [Next]_vars => [Abs!Next]_(Abs!absVars)
  <2> SUFFICES ASSUME IInv, [Next]_vars PROVE [Abs!Next]_(Abs!absVars)
    OBVIOUS
  <2>1. CASE UNCHANGED <<Outcome, Announced>>
    BY <2>1 DEF Outcome, Announced, ToldBy, Abs!absVars
  <2>2. ASSUME NEW r \in Raisers, Outcome[r] = "none", Outcome' = [Outcome EXCEPT ![r] = "open"],
               Announced' = Announced
        PROVE  Abs!Next
    BY <2>2 DEF Outcome, Announced, ToldBy, Abs!Next, Abs!Open
  <2>3. ASSUME NEW r \in Raisers, Outcome[r] = "open", Announced' = Announced,
               NEW o \in Responders \cup {"withdrawn"}, Outcome' = [Outcome EXCEPT ![r] = o]
        PROVE  Abs!Next
    BY <2>3 DEF Outcome, Announced, ToldBy, Abs!Next, Abs!Settle, Abs!Settled
  <2>4. ASSUME NEW r \in Raisers, Outcome[r] \in Responders \cup {"withdrawn"},
               Announced[r] = "none", Announced' = [Announced EXCEPT ![r] = Outcome[r]],
               Outcome' = Outcome
        PROVE  Abs!Next
    BY <2>4 DEF Outcome, Announced, ToldBy, Abs!Next, Abs!Announce, Abs!Settled
  <2> QED BY <2>1, <2>2, <2>3, <2>4, RefineSteps
<1>3. Spec => []IInv
  BY PublishInvariant
<1> QED BY <1>1, <1>2, <1>3, PTL DEF Spec, Implements, Abs!Spec

---------------------------------------------------------------------------
(* The cards of module PendingCards.  An id that is not forgotten is one   *)
(* item's for good, so an id that counts as announced had its frame sent.  *)

\* Whatever the card calls do beside it, the store takes its own steps.
LEMMA StoreGoesOn == [CardsNext]_allVars => [Next]_vars
<1> SUFFICES ASSUME [CardsNext]_allVars PROVE [Next]_vars
  OBVIOUS
<1>1. ASSUME NEW r \in Raisers, RegisterAndSync(r) \/ RaisedAfterSync(r) \/ AbandonAnywhere(r)
      PROVE  Next
  BY <1>1 DEF RegisterAndSync, RaisedAfterSync, AbandonAnywhere, Next, RaiserStep
<1>2. ASSUME NEW a \in Actors, PublishAndSync(a) PROVE Next
  BY <1>2 DEF PublishAndSync, Next
<1>3. ASSUME NEW a \in Actors, Sync(a) PROVE UNCHANGED vars
  BY <1>3 DEF Sync, SyncList, SyncPatch, SyncAnnounce, SyncSend
<1>4. CASE Elsewhere
  BY <1>4 DEF Elsewhere, Next, RaiserStep
<1>5. CASE RefreshPublish \/ \E s \in Sessions : RefreshList(s)
  BY <1>5 DEF RefreshPublish, RefreshList
<1>6. CASE UNCHANGED allVars
  BY <1>6 DEF allVars
<1> QED BY <1>1, <1>2, <1>3, <1>4, <1>5, <1>6 DEF CardsNext

\* A call that re-publishes is at one of three waits, or sends, with items it
\* has listed.
SyncInv ==
  /\ sync = [a \in Actors |-> sync[a]]
  /\ \A a \in Actors :
       /\ sync[a] \in [at : {"off", "list", "patch", "announce", "send"}, session : {sync[a].session},
                       live : SUBSET Raisers, all : SUBSET Ids]
       /\ \A q \in sync[a].live : idOf[q] # NoId
  /\ frames \in [Raisers -> Nat]

\* It does so as the last thing it does, or before its raiser waits.
OwnSync == \A a \in Actors : sync[a].at # "off" => pc[a] \in {"raising", "done"}

\* An id that counts as announced is that of an item whose frame was sent, or
\* is about to be.
Sent(r) == frames[r] > 0 \/ Sending(r)
Shown(r) == idOf[r] \in announced => Sent(r)

\* The raiser that publishes its own card has listed it, once it has listed.
Carried(r) ==
  /\ sync[r].at = "list" => sync[r].session = Home[r]
  /\ sync[r].at \in {"patch", "announce"} => r \in sync[r].live
  /\ sync[r].at \in {"send", "off"} /\ idOf[r] \notin forgotten => Sent(r)

CardInv ==
  \A r \in Raisers : chan[r] = "open" =>
    /\ idOf[r] \notin forgotten => Shown(r)
    /\ pc[r] = "raising" => Carried(r)
    /\ pc[r] = "waiting" /\ idOf[r] \notin forgotten => Sent(r)

StoreInv == TypeInv /\ KeptInv /\ MemoryInv

\* An item that is open was open, with its id, or is registered by this step.
LEMMA OpenStays ==
  ASSUME StoreInv, [Next]_vars
  PROVE  /\ \A r \in Raisers : chan'[r] = "open" => (chan[r] = "open" /\ idOf'[r] = idOf[r]) \/ Register(r)
         /\ \A r \in Raisers : idOf[r] # NoId => idOf'[r] = idOf[r]
         /\ forgotten \subseteq forgotten'
<1>0. /\ chan \in [Raisers -> {"none", "open", "closed"} \cup Responders]
      /\ idOf \in [Raisers -> Ids \cup {NoId}]
  BY DEF StoreInv, TypeInv, TypeOK
<1>1. ASSUME NEW r \in Raisers, Register(r)
      PROVE  /\ \A q \in Raisers : chan'[q] = "open" => (chan[q] = "open" /\ idOf'[q] = idOf[q]) \/ q = r
             /\ \A q \in Raisers : idOf[q] # NoId => idOf'[q] = idOf[q]
             /\ forgotten' = forgotten
  <2> DEFINE i == RegisteredId(r)
  <2>1. i \in Ids /\ idOf[r] = NoId /\ idOf' = [idOf EXCEPT ![r] = i] /\ chan' = [chan EXCEPT ![r] = "open"]
        /\ forgotten' = forgotten
    BY <1>1, RegisterStep DEF StoreInv
  <2> HIDE DEF i
  <2> QED BY <1>0, <2>1, Names
<1>2. CASE Untouched
  BY <1>2 DEF Untouched
<1>3. ASSUME NEW i \in Ids, NEW o \in {"closed"} \cup Responders, Removal(i, o)
      PROVE  /\ \A q \in Raisers : chan'[q] = "open" => chan[q] = "open"
             /\ idOf' = idOf /\ forgotten \subseteq forgotten'
  <2>1. o # "open"
    BY Names
  <2> QED BY <1>0, <1>3, <2>1 DEF Removal
<1> QED BY <1>1, <1>2, <1>3, StoreSteps DEF StoreInv

\* A raiser starts to publish only as it registers, and waits only once it has published.
LEMMA RaiserGoesOn ==
  ASSUME TypeInv, Elsewhere \/ \E a \in Actors : Publish(a) \/ AbandonAnywhere(a)
  PROVE  \A r \in Raisers : pc'[r] \in {"raising", "waiting"} => pc'[r] = pc[r]
<1>0. pc = [a \in Actors |-> pc[a]]
  BY DEF TypeInv, TypeOK
<1> USE <1>0, Names DEF Goto
<1>1. ASSUME NEW r \in Raisers, Decided(r) \/ Closed(r) \/ TimedOut(r) \/ DropGuard(r) \/ Abandon(r)
      PROVE  \E l \in {"leaving", "publishing", "done"} : pc' = [pc EXCEPT ![r] = l]
  BY <1>1 DEF Decided, Closed, TimedOut, DropGuard, Abandon, StopWaiting
<1>2. ASSUME NEW p \in Responders, ResponderStep(p)
      PROVE  \E l : pc' = [pc EXCEPT ![p] = l]
  <2>1. CASE Ask(p)
    BY <2>1, Zenon DEF Ask, Finishes
  <2>2. CASE ResolveGone(p) \/ ResolveRefused(p)
    BY <2>2, Zenon DEF ResolveGone, ResolveRefused, Finishes
  <2>3. CASE Resolve(p)
    BY <2>3, Zenon DEF Resolve, Finishes
  <2>4. CASE Name(p)
    BY <2>4, Zenon DEF Name
  <2> QED BY <1>2, <2>1, <2>2, <2>3, <2>4 DEF ResponderStep
<1>3. ASSUME NEW w \in Withdrawers, WithdrawerStep(w)
      PROVE  \E l : pc' = [pc EXCEPT ![w] = l]
  <2>1. CASE List(w)
    BY <2>1 DEF List
  <2>2. CASE WithdrawOne(w)
    <3>1. pc' = [pc EXCEPT ![w] = pc[w]]
      BY <2>2 DEF WithdrawOne
    <3> QED BY <3>1
  <2>3. CASE WithdrawnAll(w)
    BY <2>3 DEF WithdrawnAll
  <2> QED BY <1>3, <2>1, <2>2, <2>3 DEF WithdrawerStep
<1>4. ASSUME NEW a \in Actors, Publish(a)
      PROVE  \E l \in {"publishing", "done"} : pc' = [pc EXCEPT ![a] = l]
  BY <1>4 DEF Publish
<1>5. ASSUME NEW a \in Actors, AbandonAnywhere(a) PROVE pc' = [pc EXCEPT ![a] = "leaving"]
  BY <1>5 DEF AbandonAnywhere, Abandon, StopWaiting
<1> QED BY <1>1, <1>2, <1>3, <1>4, <1>5 DEF Elsewhere

\* What is announced is an id that was handed out.
AnnouncedInv == \A i \in announced : \E q \in Raisers : idOf[q] = i /\ idOf[q] # NoId

PreviewInv == SyncInv /\ OwnSync /\ AnnouncedInv /\ CardInv

LEMMA PreviewInit == CardsInit => PreviewInv
<1> SUFFICES ASSUME CardsInit PROVE PreviewInv
  OBVIOUS
<1>1. \A a \in Actors : sync[a] = [at |-> "off", session |-> Nobody, live |-> {}, all |-> {}]
  BY DEF CardsInit, NotSyncing
<1>2. SyncInv
  BY <1>1 DEF CardsInit, SyncInv, NotSyncing
<1>3. AnnouncedInv /\ CardInv
  BY DEF CardsInit, Init, AnnouncedInv, CardInv
<1>4. OwnSync
  BY <1>1 DEF OwnSync
<1> QED BY <1>2, <1>3, <1>4 DEF PreviewInv

\* Each step of a call's sync_pending leaves the others' alone.
LEMMA SyncNext == StoreInv /\ PreviewInv /\ [CardsNext]_allVars => SyncInv' /\ AnnouncedInv'
<1> SUFFICES ASSUME StoreInv, PreviewInv, [CardsNext]_allVars PROVE SyncInv' /\ AnnouncedInv'
  OBVIOUS
<1>0. /\ \A r \in Raisers : idOf[r] # NoId => idOf'[r] = idOf[r]
      /\ \A r \in Raisers : chan[r] = "open" => idOf[r] # NoId
      /\ slots \in [Ids -> Raisers \cup {Nobody}]
      /\ sync = [a \in Actors |-> sync[a]]
      /\ frames \in [Raisers -> Nat]
  BY OpenStays, StoreGoesOn DEF StoreInv, KeptInv, Registered, TypeInv, TypeOK, PreviewInv, SyncInv
<1> DEFINE Typed(c) == /\ c \in [at : {"off", "list", "patch", "announce", "send"}, session : {c.session},
                                 live : SUBSET Raisers, all : SUBSET Ids]
                       /\ \A q \in c.live : idOf[q] # NoId
<1>1. \A a \in Actors : Typed(sync[a])
  BY DEF PreviewInv, SyncInv
<1>2. ASSUME NEW a \in Actors, NEW s, StartSync(a, s) \/ sync' = [sync EXCEPT ![a] = NotSyncing] \/ sync' = sync,
             UNCHANGED <<announced, frames>>
      PROVE  SyncInv' /\ AnnouncedInv'
  <2>1. sync' = sync \/ \E c : sync' = [sync EXCEPT ![a] = c] /\ Typed(c) /\ c.live = {}
    <3> DEFINE c == [NotSyncing EXCEPT !.at = "list", !.session = s]
    <3>1. /\ c.at = "list" /\ c.session = s /\ c.live = {} /\ c.all = {}
          /\ c \in [at : {"list"}, session : {s}, live : {{}}, all : {{}}]
      BY DEF NotSyncing
    <3>2. StartSync(a, s) => sync' = [sync EXCEPT ![a] = c]
      BY DEF StartSync
    <3> HIDE DEF c
    <3>3. Typed(c)
      BY <3>1
    <3>4. Typed(NotSyncing) /\ NotSyncing.live = {}
      BY DEF NotSyncing
    <3> HIDE DEF Typed
    <3> QED BY <1>2, <3>1, <3>2, <3>3, <3>4
  <2>2. sync' = [b \in Actors |-> sync'[b]] /\ \A b \in Actors : sync'[b] = sync[b] \/ (Typed(sync'[b]) /\ sync'[b].live = {})
    <3> HIDE DEF Typed
    <3> QED BY <1>0, <2>1
  <2>3. SyncInv'
    BY <1>0, <1>1, <1>2, <2>2 DEF SyncInv
  <2>4. AnnouncedInv'
    BY <1>0, <1>2 DEF PreviewInv, AnnouncedInv
  <2> QED BY <2>3, <2>4
<1>3. ASSUME NEW a \in Actors, SyncList(a) PROVE SyncInv' /\ AnnouncedInv'
  <2>1. UNCHANGED <<idOf, announced, frames>> /\ Listed(sync[a].session) \subseteq {r \in Raisers : idOf[r] # NoId}
    BY <1>0, <1>3 DEF SyncList, Listed, vars
  <2> DEFINE L == Listed(sync[a].session)
  <2>2. sync' = [sync EXCEPT ![a].at = "patch", ![a].live = L]
    BY <1>3 DEF SyncList
  <2> HIDE DEF L
  <2> QED BY <1>0, <1>1, <2>1, <2>2 DEF SyncInv, PreviewInv, AnnouncedInv, L
<1>4. ASSUME NEW a \in Actors, SyncPatch(a) PROVE SyncInv' /\ AnnouncedInv'
  <2> DEFINE L == {i \in Ids : slots[i] # Nobody}
  <2>1. UNCHANGED <<idOf, announced, frames>> /\ sync' = [sync EXCEPT ![a].at = "announce", ![a].all = L]
    BY <1>4 DEF SyncPatch, CountStore, vars
  <2>2. L \subseteq Ids
    OBVIOUS
  <2> HIDE DEF L
  <2>3. SyncInv'
    BY <1>0, <1>1, <2>1, <2>2 DEF SyncInv
  <2> QED BY <2>1, <2>3 DEF PreviewInv, AnnouncedInv
<1>5. ASSUME NEW a \in Actors, SyncAnnounce(a) PROVE SyncInv' /\ AnnouncedInv'
  <2> DEFINE c == ToSend(a)
  <2>0. UNCHANGED <<idOf, frames>> /\ sync' = [sync EXCEPT ![a] = c]
    BY <1>5 DEF SyncAnnounce, vars
  <2>6. Fresh(a) \subseteq sync[a].live
    BY DEF Fresh
  <2>3. Typed(c)
    <3>1. Fresh(a) \subseteq Raisers /\ \A q \in Fresh(a) : idOf[q] # NoId
      BY <1>1, <2>6
    <3> QED BY <3>1 DEF NotSyncing, ToSend
  <2> HIDE DEF c
  <2>4. \A b \in Actors : Typed(sync'[b])
    <3> HIDE DEF Typed
    <3> QED BY <1>0, <1>1, <2>0, <2>3
  <2>5. frames' \in [Raisers -> Nat]
    BY <1>0, <2>0
  <2>1. SyncInv'
    BY <1>0, <2>0, <2>4, <2>5 DEF SyncInv
  <2>2. AnnouncedInv'
    BY <1>0, <1>1, <1>5 DEF SyncAnnounce, PreviewInv, AnnouncedInv, vars
  <2> QED BY <2>1, <2>2
<1>6. ASSUME NEW r \in Raisers, RegisterAndSync(r) \/ RaisedAfterSync(r) \/ AbandonAnywhere(r)
      PROVE  SyncInv' /\ AnnouncedInv'
  BY <1>2, <1>6, Names DEF RegisterAndSync, RaisedAfterSync, AbandonAnywhere, cardVars
<1>7. ASSUME NEW a \in Actors, PublishAndSync(a) PROVE SyncInv' /\ AnnouncedInv'
  BY <1>2, <1>7 DEF PublishAndSync
<1>8. CASE UNCHANGED <<sync, announced, frames>>
  BY <1>0, <1>1, <1>8 DEF SyncInv, PreviewInv, AnnouncedInv
<1>9. ASSUME NEW a \in Actors, SyncSend(a) PROVE SyncInv' /\ AnnouncedInv'
  <2>1. UNCHANGED <<idOf, announced>> /\ sync' = [sync EXCEPT ![a] = NotSyncing]
    BY <1>9 DEF SyncSend, vars
  <2>2. Typed(NotSyncing)
    BY DEF NotSyncing
  <2>3. \A b \in Actors : Typed(sync'[b])
    <3> HIDE DEF Typed
    <3> QED BY <1>0, <1>1, <2>1, <2>2
  <2>4. frames' \in [Raisers -> Nat]
    BY <1>0, <1>9 DEF SyncSend
  <2>5. SyncInv'
    BY <1>0, <2>1, <2>3, <2>4 DEF SyncInv
  <2> QED BY <2>1, <2>5 DEF PreviewInv, AnnouncedInv
<1> QED BY <1>3, <1>4, <1>5, <1>6, <1>7, <1>8, <1>9 DEF CardsNext, Sync, Elsewhere, RefreshList, RefreshPublish, cardVars, allVars

\* A call that has come to its end, or a raiser that publishes, goes on only as
\* its own sync allows.
LEMMA OwnSyncNext == StoreInv /\ PreviewInv /\ [CardsNext]_allVars => OwnSync'
<1> SUFFICES ASSUME StoreInv, PreviewInv, [CardsNext]_allVars PROVE OwnSync'
  OBVIOUS
<1>0. /\ pc = [a \in Actors |-> pc[a]] /\ sync = [a \in Actors |-> sync[a]]
      /\ \A a \in Actors : sync[a].at # "off" => pc[a] \in {"raising", "done"}
  BY DEF StoreInv, TypeInv, TypeOK, PreviewInv, SyncInv, OwnSync
<1>1. ASSUME sync' = sync, NEW a \in Actors, NEW l, pc' = pc \/ pc' = [pc EXCEPT ![a] = l],
             pc' # pc => pc[a] \notin {"raising", "done"} \/ sync[a].at = "off"
      PROVE  OwnSync'
  BY <1>0, <1>1 DEF OwnSync
<1>2. ASSUME NEW a \in Actors, pc' = pc, \A b \in Actors : b # a => sync'[b] = sync[b],
             sync'[a].at # "off" => sync[a].at # "off"
      PROVE  OwnSync'
  BY <1>0, <1>2 DEF OwnSync
<1>3. ASSUME NEW a \in Actors, NEW l, pc' = [pc EXCEPT ![a] = l],
             \A b \in Actors : b # a => sync'[b] = sync[b],
             sync'[a].at # "off" => l \in {"raising", "done"}
      PROVE  OwnSync'
  BY <1>0, <1>3 DEF OwnSync
<1>4. ASSUME NEW r \in Raisers, RegisterAndSync(r) PROVE OwnSync'
  <2>1. pc' = [pc EXCEPT ![r] = "raising"]
    BY <1>4 DEF RegisterAndSync, Register, Goto
  <2>2. \A b \in Actors : b # r => sync'[b] = sync[b]
    BY <1>0, <1>4 DEF RegisterAndSync, StartSync
  <2> QED BY <1>3, <2>1, <2>2, Names
<1>5. ASSUME NEW r \in Raisers, RaisedAfterSync(r) PROVE OwnSync'
  BY <1>1, <1>5, Names DEF RaisedAfterSync, Raised, Goto, cardVars
<1>6. ASSUME NEW r \in Raisers, AbandonAnywhere(r) PROVE OwnSync'
  <2>1. pc' = [pc EXCEPT ![r] = "leaving"] /\ sync' = [sync EXCEPT ![r] = NotSyncing]
    BY <1>6 DEF AbandonAnywhere, Abandon, StopWaiting, Goto
  <2>2. sync'[r].at = "off" /\ \A b \in Actors : b # r => sync'[b] = sync[b]
    BY <1>0, <2>1, Names DEF NotSyncing
  <2> QED BY <1>3, <2>1, <2>2, Names
<1>7. ASSUME NEW a \in Actors, PublishAndSync(a) PROVE OwnSync'
  <2>1. PICK i \in unpublished[a] :
             /\ unpublished' = [unpublished EXCEPT ![a] = @ \ {i}]
             /\ pc' = [pc EXCEPT ![a] = IF unpublished[a] = {i} THEN "done" ELSE "publishing"]
             /\ pc[a] = "publishing"
    BY <1>7 DEF PublishAndSync, Publish, Goto
  <2>2. CASE unpublished'[a] = {}
    <3>1. unpublished[a] = {i}
      <4>1. a \in DOMAIN unpublished
        BY DEF StoreInv, TypeInv, TypeOK
      <4> QED BY <2>1, <2>2, <4>1
    <3>2. pc' = [pc EXCEPT ![a] = "done"]
      BY <2>1, <3>1
    <3>3. \A b \in Actors : b # a => sync'[b] = sync[b]
      BY <1>0, <1>7, <2>2 DEF PublishAndSync, StartSync
    <3> QED BY <1>3, <3>2, <3>3
  <2>3. CASE unpublished'[a] # {}
    <3>1. sync' = sync
      BY <1>7, <2>3 DEF PublishAndSync
    <3> QED BY <1>1, <2>1, <3>1
  <2> QED BY <2>2, <2>3
<1>8. ASSUME NEW a \in Actors, Sync(a) PROVE OwnSync'
  <2>1. pc' = pc /\ sync[a].at # "off" /\ \A b \in Actors : b # a => sync'[b] = sync[b]
    BY <1>0, <1>8 DEF Sync, SyncList, SyncPatch, CountStore, SyncAnnounce, SyncSend, vars
  <2> QED BY <1>2, <2>1
<1>9. CASE Elsewhere
  <2>0. sync' = sync
    BY <1>9 DEF Elsewhere, cardVars
  <2> USE DEF Goto
  <2>1. ASSUME NEW r \in Raisers, Decided(r) \/ Closed(r) \/ TimedOut(r) \/ DropGuard(r) PROVE OwnSync'
    <3>1. pc[r] \in {"waiting", "leaving"} /\ \E l : pc' = [pc EXCEPT ![r] = l]
      BY <2>1 DEF Decided, Closed, TimedOut, DropGuard, StopWaiting
    <3> QED BY <1>1, <2>0, <3>1, Names
  <2>2. ASSUME NEW p \in Responders, ResponderStep(p) PROVE OwnSync'
    <3>1. pc[p] \in {"idle", "resolving", "naming"} /\ \E l : pc' = [pc EXCEPT ![p] = l]
      <4>1. CASE Ask(p)
        BY <4>1, Zenon DEF Ask, Finishes
      <4>2. CASE ResolveGone(p) \/ ResolveRefused(p)
        BY <4>2, Zenon DEF ResolveGone, ResolveRefused, Finishes
      <4>3. CASE Resolve(p)
        BY <4>3, Zenon DEF Resolve, Finishes
      <4>4. CASE Name(p)
        BY <4>4, Zenon DEF Name
      <4> QED BY <2>2, <4>1, <4>2, <4>3, <4>4 DEF ResponderStep
    <3> QED BY <1>1, <2>0, <3>1, Names
  <2>3. ASSUME NEW w \in Withdrawers, WithdrawerStep(w) PROVE OwnSync'
    <3>1. pc[w] \in {"idle", "withdrawing"} /\ (pc' = pc \/ \E l : pc' = [pc EXCEPT ![w] = l])
      BY <2>3 DEF WithdrawerStep, List, WithdrawOne, WithdrawnAll
    <3> QED BY <1>1, <2>0, <3>1, Names
  <2> QED BY <1>9, <2>1, <2>2, <2>3 DEF Elsewhere
<1>10. CASE UNCHANGED <<pc, sync>>
  BY <1>0, <1>10 DEF OwnSync
<1> QED BY <1>4, <1>5, <1>6, <1>7, <1>8, <1>9, <1>10
        DEF CardsNext, RefreshList, RefreshPublish, cardVars, allVars, vars

\* A frame that is sent, or about to be, is sent in the end: the sync that has
\* announced it is not dropped.
LEMMA SentStays ==
  ASSUME StoreInv, PreviewInv, [CardsNext]_allVars, NEW r \in Raisers, Sent(r)
  PROVE  Sent(r)'
<1>0. /\ sync = [a \in Actors |-> sync[a]] /\ frames \in [Raisers -> Nat]
      /\ \A a \in Actors : sync[a].at # "off" => pc[a] \in {"raising", "done"}
  BY DEF PreviewInv, SyncInv, OwnSync
<1>1. ASSUME frames' = frames, NEW a \in Actors, sync[a].at # "send",
             \A b \in Actors : b # a => sync'[b] = sync[b]
      PROVE  Sent(r)'
  BY <1>1 DEF Sent, Sending
<1>2. ASSUME NEW q \in Raisers, RegisterAndSync(q) PROVE Sent(r)'
  <2>1. frames' = frames /\ pc[q] = "idle" /\ \A b \in Actors : b # q => sync'[b] = sync[b]
    BY <1>0, <1>2 DEF RegisterAndSync, Register, StartSync
  <2> QED BY <1>0, <1>1, <2>1, Names
<1>3. ASSUME NEW q \in Raisers, AbandonAnywhere(q) PROVE Sent(r)'
  <2>1. frames' = frames /\ sync[q].at # "send" /\ \A b \in Actors : b # q => sync'[b] = sync[b]
    BY <1>0, <1>3 DEF AbandonAnywhere
  <2> QED BY <1>1, <2>1, Names
<1>4. ASSUME NEW a \in Actors, PublishAndSync(a) PROVE Sent(r)'
  <2>1. frames' = frames /\ pc[a] = "publishing" /\ \A b \in Actors : b # a => sync'[b] = sync[b]
    BY <1>0, <1>4 DEF PublishAndSync, Publish, StartSync
  <2> QED BY <1>0, <1>1, <2>1
<1>5. ASSUME NEW a \in Actors, SyncList(a) \/ SyncPatch(a) \/ SyncAnnounce(a) PROVE Sent(r)'
  <2>1. frames' = frames /\ sync[a].at # "send" /\ \A b \in Actors : b # a => sync'[b] = sync[b]
    BY <1>0, <1>5 DEF SyncList, SyncPatch, CountStore, SyncAnnounce
  <2> QED BY <1>1, <2>1
<1>6. ASSUME NEW a \in Actors, SyncSend(a) PROVE Sent(r)'
  <2>1. /\ frames' = [q \in Raisers |-> IF q \in sync[a].live THEN frames[q] + 1 ELSE frames[q]]
        /\ \A b \in Actors : b # a => sync'[b] = sync[b]
    BY <1>0, <1>6 DEF SyncSend
  <2>2. CASE frames[r] > 0 \/ r \in sync[a].live
    BY <1>0, <2>1, <2>2 DEF Sent
  <2> QED BY <2>1, <2>2 DEF Sent, Sending
<1>7. CASE UNCHANGED <<frames, sync>>
  BY <1>7 DEF Sent, Sending
<1> QED BY <1>2, <1>3, <1>4, <1>5, <1>6, <1>7
        DEF CardsNext, RaisedAfterSync, Sync, Elsewhere, RefreshList, RefreshPublish, cardVars, allVars

\* A listed item is announced unless it was, and no other item can have its id.
LEMMA AnnounceShows ==
  ASSUME StoreInv, PreviewInv, NEW a \in Actors, SyncAnnounce(a),
         NEW r \in Raisers, chan[r] = "open", idOf[r] \notin forgotten
  PROVE  /\ Sent(r) => Sent(r)'
         /\ Shown(r)'
         /\ r \in sync[a].live => Sent(r)'
<1>1. /\ sync = [b \in Actors |-> sync[b]] /\ idOf' = idOf /\ frames' = frames
      /\ sync' = [sync EXCEPT ![a] = ToSend(a)]
      /\ announced' = (announced \cap sync[a].all) \cup {idOf[q] : q \in sync[a].live}
      /\ sync[a].live \subseteq Raisers /\ \A q \in sync[a].live : idOf[q] # NoId
      /\ sync[a].at = "announce"
  BY DEF PreviewInv, SyncInv, SyncAnnounce, vars
<1>2. Shown(r)
  BY DEF PreviewInv, CardInv
<1>3. /\ Fresh(a) # {} => sync'[a].at = "send" /\ sync'[a].live = Fresh(a)
      /\ \A b \in Actors : b # a => sync'[b] = sync[b]
  BY <1>1 DEF NotSyncing, ToSend
<1>4. Sent(r) => Sent(r)'
  BY <1>1, <1>3 DEF Sent, Sending
<1>5. r \in sync[a].live => Sent(r)'
  <2>1. CASE r \in Fresh(a)
    BY <1>3, <2>1 DEF Sent, Sending
  <2>2. CASE r \notin Fresh(a)
    BY <1>2, <1>4, <2>2 DEF Fresh, Shown
  <2> QED BY <2>1, <2>2
<1>6. ASSUME NEW q \in sync[a].live, idOf[q] = idOf[r] PROVE q = r
  BY <1>1, <1>6 DEF StoreInv, MemoryInv, OneHolder
<1>7. Shown(r)'
  BY <1>1, <1>2, <1>4, <1>5, <1>6 DEF Shown
<1> QED BY <1>4, <1>5, <1>7

\* Whoever lists, previews and announces while a raiser publishes, its card goes out
\* before it waits (raise, sync_pending).
LEMMA CardNext == StoreInv /\ StoreInv' /\ PreviewInv /\ [CardsNext]_allVars => CardInv'
<1> SUFFICES ASSUME StoreInv, StoreInv', PreviewInv, [CardsNext]_allVars,
                    NEW r \in Raisers, chan'[r] = "open"
             PROVE  /\ idOf'[r] \notin forgotten' => Shown(r)'
                    /\ pc'[r] = "raising" => Carried(r)'
                    /\ pc'[r] = "waiting" /\ idOf'[r] \notin forgotten' => Sent(r)'
  BY DEF CardInv
<1> DEFINE Claim == /\ idOf'[r] \notin forgotten' => Shown(r)'
                    /\ pc'[r] = "raising" => Carried(r)'
                    /\ pc'[r] = "waiting" /\ idOf'[r] \notin forgotten' => Sent(r)'
<1>0. /\ \A q \in Raisers : idOf[q] # NoId => idOf'[q] = idOf[q]
      /\ forgotten \subseteq forgotten'
      /\ (chan[r] = "open" /\ idOf'[r] = idOf[r]) \/ Register(r)
      /\ sync = [a \in Actors |-> sync[a]] /\ r \in Actors
      /\ pc = [a \in Actors |-> pc[a]]
  BY OpenStays, StoreGoesOn, Names DEF PreviewInv, SyncInv, StoreInv, TypeInv, TypeOK
<1>1. chan[r] = "open" => /\ idOf[r] \notin forgotten => Shown(r)
                          /\ pc[r] = "raising" => Carried(r)
                          /\ pc[r] = "waiting" /\ idOf[r] \notin forgotten => Sent(r)
  BY DEF PreviewInv, CardInv
<1>11. Sent(r) => Sent(r)'
  BY SentStays
<1>2. CASE RegisterAndSync(r)
  <2>1. pc'[r] = "raising" /\ sync'[r].at = "list" /\ sync'[r].session = Home[r] /\ announced' = announced
    BY <1>0, <1>2 DEF RegisterAndSync, Register, Goto, StartSync, NotSyncing
  <2>2. idOf[r] = NoId /\ idOf'[r] # NoId
    BY <1>2, RegisterStep DEF RegisterAndSync, StoreInv, KeptInv, Registered
  <2>3. idOf'[r] \notin forgotten' => idOf'[r] \notin announced
    <3>1. SUFFICES ASSUME NEW q \in Raisers, idOf[q] = idOf'[r], idOf[q] # NoId, idOf'[r] \notin forgotten'
                   PROVE  FALSE
      BY DEF PreviewInv, AnnouncedInv
    <3>2. idOf'[q] = idOf'[r] /\ q # r
      BY <1>0, <2>2, <3>1
    <3> QED BY <2>2, <3>1, <3>2 DEF StoreInv, MemoryInv, OneHolder
  <2> QED BY <2>1, <2>3 DEF Shown, Carried
<1>3. CASE /\ ~Register(r) /\ UNCHANGED announced
           /\ pc'[r] \in {"raising", "waiting"} => pc'[r] = pc[r] /\ sync'[r] = sync[r]
  BY <1>0, <1>1, <1>11, <1>3 DEF Shown, Carried
<1>4. ASSUME NEW q \in Raisers, q # r, RegisterAndSync(q) \/ RaisedAfterSync(q) PROVE Claim
  <2>1. pc'[r] = pc[r] /\ sync'[r] = sync[r] /\ UNCHANGED <<announced, frames>>
    BY <1>0, <1>4, Names DEF RegisterAndSync, RaisedAfterSync, Register, Raised, Goto, StartSync, cardVars
  <2>2. chan[r] = "open" /\ idOf'[r] = idOf[r]
    BY <1>0, <2>1 DEF Register, Goto
  <2> QED BY <1>0, <1>1, <1>11, <2>1, <2>2 DEF Shown, Carried
<1>5. CASE RaisedAfterSync(r)
  BY <1>0, <1>1, <1>11, <1>5 DEF RaisedAfterSync, Raised, Goto, Shown, Carried, cardVars, store
<1>6. ASSUME NEW a \in Actors, SyncAnnounce(a) PROVE Claim
  <2>1. UNCHANGED <<chan, idOf, forgotten, pc>>
    BY <1>6 DEF SyncAnnounce, vars
  <2>2. idOf[r] \notin forgotten => Shown(r)' /\ (r \in sync[a].live => Sent(r)')
    BY <1>6, <2>1, AnnounceShows
  <2>3. CASE a = r
    <3>1. sync[r].at = "announce" /\ sync'[r].at \in {"send", "off"}
      BY <1>0, <1>6, <2>3 DEF SyncAnnounce, NotSyncing, ToSend
    <3> QED BY <1>1, <1>11, <2>1, <2>2, <2>3, <3>1 DEF Carried
  <2>4. CASE a # r
    <3>1. sync'[r] = sync[r]
      BY <1>0, <1>6, <2>4 DEF SyncAnnounce
    <3> QED BY <1>1, <1>11, <2>1, <2>2, <3>1 DEF Carried
  <2> QED BY <2>3, <2>4
<1>7. ASSUME NEW a \in Actors, SyncList(a) \/ SyncPatch(a) PROVE Claim
  <2>1. UNCHANGED <<chan, idOf, forgotten, pc, announced, frames>>
    BY <1>7 DEF SyncList, SyncPatch, vars
  <2>2. CASE a = r
    <3>1. sync[r] \in [at : {"off", "list", "patch", "announce", "send"}, session : {sync[r].session},
                       live : SUBSET Raisers, all : SUBSET Ids]
      BY <1>0 DEF PreviewInv, SyncInv
    <3>2. CASE SyncList(r)
      <4>1. sync[r].at = "list" /\ sync'[r].at = "patch" /\ sync'[r].live = Listed(sync[r].session)
        BY <1>0, <3>1, <3>2 DEF SyncList
      <4> QED BY <1>1, <1>11, <2>1, <4>1 DEF Shown, Carried, Listed
    <3>3. CASE SyncPatch(r)
      <4>1. sync[r].at = "patch" /\ sync'[r].at = "announce" /\ sync'[r].live = sync[r].live
        BY <1>0, <3>1, <3>3 DEF SyncPatch, CountStore
      <4> QED BY <1>1, <1>11, <2>1, <4>1 DEF Shown, Carried
    <3> QED BY <1>7, <2>2, <3>2, <3>3
  <2>3. CASE a # r
    <3>1. sync'[r] = sync[r]
      BY <1>0, <1>7, <2>3 DEF SyncList, SyncPatch, CountStore
    <3> QED BY <1>1, <1>11, <2>1, <3>1 DEF Shown, Carried
  <2> QED BY <2>2, <2>3
<1>8. ASSUME Elsewhere \/ \E a \in Actors : PublishAndSync(a) \/ AbandonAnywhere(a) PROVE Claim
  <2>1. pc'[r] \in {"raising", "waiting"} => pc'[r] = pc[r]
    BY <1>8, RaiserGoesOn DEF StoreInv, PublishAndSync
  <2>2. ~Register(r)
    BY <1>0, <2>1 DEF Register, Goto
  <2>3. UNCHANGED <<announced, frames>>
    BY <1>8 DEF Elsewhere, PublishAndSync, AbandonAnywhere, cardVars
  <2>4. pc'[r] \in {"raising", "waiting"} => sync'[r] = sync[r]
    <3>1. CASE Elsewhere
      BY <3>1 DEF Elsewhere, cardVars
    <3>2. ASSUME NEW a \in Actors, PublishAndSync(a), pc'[r] \in {"raising", "waiting"}
          PROVE  sync'[r] = sync[r]
      <4>1. a # r
        BY <1>0, <3>2 DEF PublishAndSync, Publish, Goto
      <4> QED BY <1>0, <3>2, <4>1 DEF PublishAndSync, StartSync
    <3>3. ASSUME NEW a \in Actors, AbandonAnywhere(a), pc'[r] \in {"raising", "waiting"}
          PROVE  sync'[r] = sync[r]
      <4>1. a # r
        BY <1>0, <3>3 DEF AbandonAnywhere, Abandon, StopWaiting, Goto
      <4> QED BY <1>0, <3>3, <4>1 DEF AbandonAnywhere
    <3> QED BY <1>8, <3>1, <3>2, <3>3
  <2> QED BY <1>3, <2>1, <2>2, <2>3, <2>4
<1>9. ASSUME RefreshPublish \/ (\E s \in Sessions : RefreshList(s)) \/ UNCHANGED allVars PROVE Claim
  <2>1. UNCHANGED <<pc, chan, announced, frames, sync>>
    BY <1>9 DEF RefreshPublish, RefreshList, allVars, vars, cardVars
  <2>2. ~Register(r)
    BY <1>0, <2>1 DEF Register, Goto
  <2> QED BY <1>3, <2>1, <2>2
<1>10. ASSUME NEW a \in Actors, SyncSend(a) PROVE Claim
  <2>1. UNCHANGED <<chan, idOf, forgotten, pc, announced>>
    BY <1>10 DEF SyncSend, vars
  <2>2. sync'[r] = sync[r] \/ (sync[r].at = "send" /\ sync'[r].at = "off")
    BY <1>0, <1>10 DEF SyncSend, NotSyncing
  <2> QED BY <1>1, <1>11, <2>1, <2>2 DEF Shown, Carried
<1> QED BY <1>2, <1>4, <1>5, <1>6, <1>7, <1>8, <1>9, <1>10, Names DEF CardsNext, Sync

---------------------------------------------------------------------------
(* A store that never had more requests than it remembers forgets none.    *)

\* Every remembered id is that of a settled item, and is remembered once.
FinishedInv ==
  /\ forgotten = {}
  /\ IsFiniteSet(FinishedSet) /\ Cardinality(FinishedSet) = Len(finished)
  /\ \A i \in FinishedSet : \E r \in Raisers : idOf[r] = i /\ i # NoId

LEMMA FinishedInit == Init => FinishedInv
<1> SUFFICES ASSUME Init PROVE FinishedInv
  OBVIOUS
<1>1. finished = <<>> /\ forgotten = {}
  BY DEF Init
<1>2. FinishedSet = {} /\ Len(finished) = 0
  BY <1>1 DEF FinishedSet
<1> QED BY <1>1, <1>2, FS_EmptySet DEF FinishedInv

\* As many ids as there are requests fit.
LEMMA FewIds ==
  ASSUME StoreInv, NEW I, \A i \in I : \E r \in Raisers : idOf[r] = i
  PROVE  IsFiniteSet(I) /\ Cardinality(I) <= FinishedCap
<1> DEFINE All == {idOf[r] : r \in Raisers}
<1>1. IsFiniteSet(All) /\ Cardinality(All) <= Cardinality(Raisers)
  <2>1. idOf \in [Raisers -> Ids \cup {NoId}]
    BY DEF StoreInv, TypeInv, TypeOK
  <2>2. idOf \in Surjection(Raisers, All)
    BY <2>1 DEF Surjection
  <2> QED BY <2>2, NothingForgotten, FS_Surjection
<1>2. I \subseteq All
  OBVIOUS
<1>3. IsFiniteSet(I) /\ Cardinality(I) <= Cardinality(All)
  BY <1>1, <1>2, FS_Subset
<1>4. Cardinality(I) \in Nat /\ Cardinality(All) \in Nat /\ Cardinality(Raisers) \in Nat /\ FinishedCap \in Nat
  BY <1>1, <1>3, NothingForgotten, StoreAssumption, FS_CardinalityType
<1> QED BY <1>1, <1>3, <1>4, NothingForgotten

LEMMA FinishedNext == StoreInv /\ FinishedInv /\ [Next]_vars => FinishedInv'
<1> SUFFICES ASSUME StoreInv, FinishedInv, [Next]_vars PROVE FinishedInv'
  OBVIOUS
<1>0. \A r \in Raisers : idOf[r] # NoId => idOf'[r] = idOf[r]
  BY OpenStays
<1>1. CASE UNCHANGED <<finished, forgotten>>
  <2>1. FinishedSet' = FinishedSet
    BY <1>1 DEF FinishedSet
  <2> QED BY <1>0, <1>1, <2>1 DEF FinishedInv
<1>2. ASSUME NEW i \in Ids, NEW o \in {"closed"} \cup Responders, Removal(i, o)
      PROVE  FinishedInv'
  <2>1. /\ slots[i] \in Raisers /\ idOf[slots[i]] = i /\ i # NoId
        /\ idOf' = idOf /\ forgotten' = forgotten \cup Evicted(i) /\ finished' = Finish(i)
    BY Names, <1>2 DEF Removal, StoreInv, KeptInv, ItemsKept
  <2>2. CASE i \in FinishedSet
    <3>1. finished' = finished /\ Evicted(i) = {}
      BY <2>1, <2>2 DEF Finish, Evicted
    <3> QED BY <1>1, <2>1, <3>1 DEF FinishedInv
  <2>3. CASE i \notin FinishedSet
    <3> DEFINE I == FinishedSet \cup {i}
    <3>1. IsFiniteSet(I) /\ Cardinality(I) = Len(finished) + 1
      BY <2>3, FS_AddElement DEF FinishedInv
    <3>2. \A j \in I : \E r \in Raisers : idOf[r] = j /\ j # NoId
      BY <2>1 DEF FinishedInv
    <3>3. Cardinality(I) <= FinishedCap
      BY <3>2, FewIds
    <3>4. finished \in Seq(Ids) /\ Len(finished) \in Nat /\ FinishedCap \in Nat
      <4>1. finished \in Seq(Ids)
        BY DEF StoreInv, TypeInv, TypeOK
      <4> QED BY <4>1, StoreAssumption
    <3>5. finished' = Append(finished, i) /\ Evicted(i) = {}
      <4>1. ~(Len(finished) >= FinishedCap)
        <5> HIDE DEF I
        <5> QED BY <3>1, <3>3, <3>4
      <4> QED BY <2>1, <2>3, <4>1 DEF Finish, Evicted
    <3>6. FinishedSet' = I /\ Len(finished') = Len(finished) + 1
      <4>1. /\ DOMAIN finished = 1..Len(finished)
            /\ DOMAIN finished' = 1..(Len(finished) + 1)
            /\ finished'[Len(finished) + 1] = i
            /\ \A k \in 1..Len(finished) : finished'[k] = finished[k]
            /\ Len(finished') = Len(finished) + 1
        BY <3>4, <3>5
      <4> QED BY <3>4, <4>1 DEF FinishedSet
    <3> QED BY <2>1, <3>1, <3>2, <3>5, <3>6 DEF FinishedInv
  <2> QED BY <2>2, <2>3
<1>3. ASSUME NEW r \in Raisers, Register(r) PROVE UNCHANGED <<finished, forgotten>>
  BY <1>3, RegisterStep DEF StoreInv
<1> QED BY <1>1, <1>2, <1>3, StoreSteps DEF StoreInv, Untouched

\* raise returns once the card of its item is on every client: whatever other calls
\* list, announce and forget while it publishes, a raiser that waits is one whose
\* pending frame was sent or is being sent (raise, sync_pending).
THEOREM NoSilentCardCorrect == CardsSpec => []NoSilentCard
<1> DEFINE IInv == StoreInv /\ FinishedInv /\ PreviewInv
<1>1. CardsInit => IInv
  BY TypeInit, KeptInit, MemoryInit, FinishedInit, PreviewInit DEF CardsInit, StoreInv
<1>2. IInv /\ [CardsNext]_allVars => IInv'
  <2> SUFFICES ASSUME IInv, [CardsNext]_allVars PROVE IInv'
    OBVIOUS
  <2>1. [Next]_vars
    BY StoreGoesOn
  <2>2. StoreInv' /\ FinishedInv'
    BY <2>1, TypeNext, KeptNext, MemoryNext, FinishedNext DEF StoreInv
  <2>3. PreviewInv'
    BY <2>2, SyncNext, OwnSyncNext, CardNext DEF PreviewInv
  <2> QED BY <2>2, <2>3
<1>3. IInv => NoSilentCard
  BY DEF FinishedInv, PreviewInv, CardInv, NoSilentCard, Sent
<1> QED BY <1>1, <1>2, <1>3, PTL DEF CardsSpec
=============================================================================
