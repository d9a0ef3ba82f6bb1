------------------------------ MODULE Pairing ------------------------------
(***************************************************************************)
(* How a phone becomes a paired device and how it stops being one: the     *)
(* codes and the pending requests of server/pairing.rs (in memory), the    *)
(* device registry of server/devices.rs with its file devices.json, and    *)
(* the long requests of the bridge that end when their device is revoked   *)
(* (bridge/mod.rs).                                                        *)
(*                                                                         *)
(* A step is what the code does under one lock.  An exchange that pairs at *)
(* once marks its code under the pairing lock and mints the token under    *)
(* the device lock, so it takes several steps; approving holds both.       *)
(* Every function of pairing.rs prunes before it looks, so a code or a     *)
(* request that has expired is modelled as gone from the moment it does.   *)
(* Codes are numbered in the order they are created and a pending request  *)
(* carries the number of its code.  The rate limits are left out: they     *)
(* only refuse calls.                                                      *)
(***************************************************************************)
EXTENDS Naturals, Sequences, FiniteSets

CONSTANTS
    Phones,      \* the clients that present codes
    Lan,         \* those of them that reach the LAN listener directly
    MaxCode,     \* codes created in one behaviour (bound)
    MaxDevice,   \* device records made in one behaviour (bound)
    MaxTok,      \* extra tokens minted per device (bound)
    MAX_ACTIVE_CODES,
    MAX_PENDING,
    MAX_FINGERPRINT_ATTEMPTS,
    MaxExtra,    \* extra tokens a device keeps, 4 in add_token
    MaxRestart   \* restarts of the app (bound)

ASSUME PairingAssumption ==
    /\ Lan \subseteq Phones
    /\ {MaxCode, MAX_ACTIVE_CODES, MAX_PENDING, MAX_FINGERPRINT_ATTEMPTS}
         \subseteq Nat \ {0}
    /\ {MaxDevice, MaxTok, MaxExtra, MaxRestart} \subseteq Nat

VARIABLES
    codes,      \* Inner.codes of PairingState
    pairs,      \* Inner.pending, by the number of the code
    devs,       \* the device registry in memory
    file,       \* devices.json
    saveFailed, \* the last write of devices.json failed
    revoking,   \* devices whose revocation is recorded, not yet announced
    req,        \* the request of each phone the server works on
    made,       \* history: the tokens minted for a code
    given,      \* history: the tokens that were put into an answer
    restarts

pairing == <<codes, pairs>>
store   == <<devs, file, saveFailed>>
history == <<made, given>>
vars == <<codes, pairs, devs, file, saveFailed, revoking, req,
          made, given, restarts>>

Codes   == 1..MaxCode
Devices == 1..MaxDevice
Tokens  == Devices \X (0..MaxTok)
NoDev   == 0
NoTok   == <<"no_token">>
Targets == {"lan", "internet", "self"}

NoCode == [st |-> "none", target |-> "lan", dev |-> NoDev]
Gone   == [NoCode EXCEPT !.st = "gone"]
NoPair == [st |-> "none", contested |-> FALSE, attempts |-> 0,
           dev |-> NoDev, token |-> NoTok]
NoRecord == [st |-> "none", extra |-> <<>>]
Idle   == [at |-> "idle", code |-> 0, dev |-> NoDev, token |-> NoTok,
           woken |-> FALSE]

TypeOK ==
    /\ codes \in [Codes -> [st : {"none", "free", "used", "gone"},
                            target : Targets, dev : Devices \cup {NoDev}]]
    /\ pairs \in [Codes -> [st : {"none", "pending", "approved", "denied"},
                            contested : BOOLEAN,
                            attempts : 0..(MAX_FINGERPRINT_ATTEMPTS - 1),
                            dev : Devices \cup {NoDev},
                            token : Tokens \cup {NoTok}]]
    /\ \A r \in {devs, file} :
         /\ DOMAIN r = Devices
         /\ \A d \in Devices : /\ r[d].st \in {"none", "active", "revoked"}
                               /\ r[d].extra \in Seq(1..MaxTok)
                               /\ Len(r[d].extra) <= MaxExtra
    /\ saveFailed \in BOOLEAN
    /\ revoking \in [Devices -> BOOLEAN]
    /\ \A p \in Phones :
         /\ req[p].at \in {"idle", "auto", "issued", "self", "started",
                           "watching"}
    /\ made \in [Codes -> SUBSET Tokens]
    /\ given \subseteq Tokens
    /\ restarts \in 0..MaxRestart

Init ==
    /\ codes = [c \in Codes |-> NoCode]
    /\ pairs = [c \in Codes |-> NoPair]
    /\ devs = [d \in Devices |-> NoRecord]
    /\ file = devs
    /\ saveFailed = FALSE
    /\ revoking = [d \in Devices |-> FALSE]
    /\ req = [p \in Phones |-> Idle]
    /\ made = [c \in Codes |-> {}]
    /\ given = {}
    /\ restarts = 0

----------------------------------------------------------------------------
(* The device registry                                                     *)

\* persist_locked writes the whole registry; a failed write is only logged.
Save(r) ==
    /\ devs' = r
    /\ \/ file' = r /\ saveFailed' = FALSE
       \/ file' = file /\ saveFailed' = TRUE

\* A token that authenticate accepts.
Valid(t) ==
    /\ devs[t[1]].st = "active"
    /\ t[2] = 0 \/ \E i \in DOMAIN devs[t[1]].extra : devs[t[1]].extra[i] = t[2]

Minted == UNION {made[c] : c \in Codes}

\* A fresh id (they are numbered as they come); issue gives it a record with
\* its first token.
Fresh(d) == /\ \A t \in Minted : t[1] # d
            /\ \A x \in Devices : x < d => \E t \in Minted : t[1] = x

Issue(d) == Save([devs EXCEPT ![d] = [st |-> "active", extra |-> <<>>]])

\* AddToken: the list of extra tokens stays short, the oldest goes.
Extra(s, k) == LET t == Append(s, k)
               IN  IF Len(t) > MaxExtra THEN Tail(t) ELSE t

AddToken(d, k) == Save([devs EXCEPT ![d].extra = Extra(@, k)])

\* rename and set_grants save, and so does an authentication, at once or with
\* the next flush; what they change is not modelled.
SaveAgain(d) ==
    /\ devs[d].st = "active"
    /\ file # devs
    /\ Save(devs)
    /\ UNCHANGED <<pairing, revoking, req, history, restarts>>

----------------------------------------------------------------------------
(* The desktop                                                             *)

Unused == {c \in Codes : codes[c].st = "free"}

Oldest(S) == CHOOSE c \in S : \A x \in S : c <= x

\* A code for a new device, or for a second token of a paired one.  When
\* MAX_ACTIVE_CODES are unused the oldest of them goes first.
CreateCode(c, target, d) ==
    /\ codes[c].st = "none"
    /\ \A x \in Codes : x < c => codes[x].st # "none"
    /\ IF target = "self" THEN devs[d].st = "active" ELSE d = NoDev
    /\ codes' = [x \in Codes |->
         IF x = c THEN [st |-> "free", target |-> target, dev |-> d]
         ELSE IF /\ Cardinality(Unused) >= MAX_ACTIVE_CODES
                 /\ x = Oldest(Unused)
              THEN Gone
              ELSE codes[x]]
    /\ UNCHANGED <<pairs, store, revoking, req, history, restarts>>

\* Once a request is decided nobody reads its attempts again.
Decided(r, st) == [r EXCEPT !.st = st, !.attempts = 0]

\* MUTANT: an approval that does not look for a replay.
ApproveContested(c, d) ==
    /\ pairs[c].st = "pending"
    /\ Fresh(d)
    /\ Issue(d)
    /\ pairs' = [pairs EXCEPT ![c] =
         [Decided(pairs[c], "approved") EXCEPT !.dev = d, !.token = <<d, 0>>]]
    /\ made' = [made EXCEPT ![c] = @ \cup {<<d, 0>>}]
    /\ UNCHANGED <<codes, revoking, req, given, restarts>>

\* The right digits: the device is issued with the pairing lock still held.
Approve(c, d) ==
    /\ pairs[c].st = "pending"
    /\ ~pairs[c].contested
    /\ Fresh(d)
    /\ Issue(d)
    /\ pairs' = [pairs EXCEPT ![c] =
         [Decided(pairs[c], "approved") EXCEPT !.dev = d, !.token = <<d, 0>>]]
    /\ made' = [made EXCEPT ![c] = @ \cup {<<d, 0>>}]
    /\ UNCHANGED <<codes, revoking, req, given, restarts>>

\* Wrong digits; the last attempt denies the request.
Mistype(c) ==
    /\ pairs[c].st = "pending"
    /\ ~pairs[c].contested
    /\ pairs' = [pairs EXCEPT ![c] =
         IF @.attempts + 1 = MAX_FINGERPRINT_ATTEMPTS THEN Decided(@, "denied")
         ELSE [@ EXCEPT !.attempts = @ + 1]]
    /\ UNCHANGED <<codes, store, revoking, req, history, restarts>>

Deny(c) ==
    /\ pairs[c].st = "pending"
    /\ pairs' = [pairs EXCEPT ![c] = Decided(@, "denied")]
    /\ UNCHANGED <<codes, store, revoking, req, history, restarts>>

----------------------------------------------------------------------------
(* Expiry: what the next prune finds                                       *)

CodeExpires(c) ==
    /\ codes[c].st \in {"free", "used"}
    /\ codes' = [codes EXCEPT ![c] = Gone]
    /\ UNCHANGED <<pairs, store, revoking, req, history, restarts>>

\* An expired request is as closed as a denied one.  It outlives its code:
\* ten minutes from the exchange, the code five from its creation.
PairExpires(c) ==
    /\ pairs[c].st = "pending"
    /\ codes[c].st = "gone"
    /\ pairs' = [pairs EXCEPT ![c] = Decided(@, "denied")]
    /\ UNCHANGED <<codes, store, revoking, req, history, restarts>>

\* A decided request stays pollable for a while, then it is dropped, with a
\* token nobody fetched.
PairDropped(c) ==
    /\ pairs[c].st \in {"approved", "denied"}
    /\ codes[c].st = "gone"
    /\ pairs' = [pairs EXCEPT ![c] = NoPair]
    /\ UNCHANGED <<codes, store, revoking, req, history, restarts>>

----------------------------------------------------------------------------
(* The exchange.  An answer that is lost on its way is one whose token or  *)
(* poll secret nobody ever uses, and whose phone presents the code again.  *)

Begin(p, r) == req' = [req EXCEPT ![p] = r]
End(p)      == req' = [req EXCEPT ![p] = Idle]

\* The answer that carries token t.
Hand(t) == given' = given \cup {t}

\* A used code presented again within its lifetime, by another phone or by
\* one whose answer was lost: its waiting request becomes contested.
ReplayCode(p, c) ==
    /\ req[p].at = "idle"
    /\ codes[c].st = "used"
    /\ pairs[c].st = "pending"
    /\ pairs' = [pairs EXCEPT ![c].contested = TRUE]
    /\ UNCHANGED <<codes, store, revoking, req, history, restarts>>

\* MUTANT: the code is checked, and marked only when its token is minted.
TakeLanCodeUnmarked(p, c) ==
    /\ req[p].at = "idle"
    /\ codes[c].st = "free" /\ codes[c].target = "lan"
    /\ p \in Lan
    /\ Begin(p, [Idle EXCEPT !.at = "auto", !.code = c])
    /\ UNCHANGED <<pairing, store, revoking, history, restarts>>

\* Under the pairing lock the code is marked used; the token comes later.
TakeLanCode(p, c) ==
    /\ req[p].at = "idle"
    /\ codes[c].st = "free" /\ codes[c].target = "lan"
    /\ p \in Lan
    /\ codes' = [codes EXCEPT ![c].st = "used"]
    /\ Begin(p, [Idle EXCEPT !.at = "auto", !.code = c])
    /\ UNCHANGED <<pairs, store, revoking, history, restarts>>

TakeSelfCode(p, c) ==
    /\ req[p].at = "idle"
    /\ codes[c].st = "free" /\ codes[c].target = "self"
    /\ codes' = [codes EXCEPT ![c].st = "used"]
    /\ Begin(p, [Idle EXCEPT !.at = "self", !.code = c, !.dev = codes[c].dev])
    /\ UNCHANGED <<pairs, store, revoking, history, restarts>>

\* An internet code becomes a pending request; its answer carries the poll
\* secret, once.
TakeInternetCode(p, c) ==
    /\ req[p].at = "idle"
    /\ codes[c].st = "free" /\ codes[c].target = "internet"
    /\ Cardinality({x \in Codes : pairs[x].st = "pending"}) < MAX_PENDING
    /\ codes' = [codes EXCEPT ![c].st = "used"]
    /\ pairs' = [pairs EXCEPT ![c] = [NoPair EXCEPT !.st = "pending"]]
    /\ UNCHANGED <<store, revoking, req, history, restarts>>

IssueAuto(p, d) ==
    /\ req[p].at = "auto"
    /\ Fresh(d)
    /\ Issue(d)
    /\ made' = [made EXCEPT ![req[p].code] = @ \cup {<<d, 0>>}]
    /\ Begin(p, [req[p] EXCEPT !.at = "issued", !.dev = d,
                               !.token = <<d, 0>>])
    /\ UNCHANGED <<pairing, revoking, given, restarts>>

\* The answer leaves; the code remembers the device for the audit log only.
AnswerAuto(p) ==
    /\ req[p].at = "issued"
    /\ Hand(req[p].token)
    /\ End(p)
    /\ UNCHANGED <<codes, pairs, store, revoking, made, restarts>>

\* add_token fails when the device was revoked since the code was taken.
AnswerSelf(p, k) ==
    /\ req[p].at = "self"
    /\ End(p)
    /\ IF devs[req[p].dev].st = "active"
       THEN LET t == <<req[p].dev, k>> IN
            /\ t \notin Minted
            /\ AddToken(req[p].dev, k)
            /\ made' = [made EXCEPT ![req[p].code] = @ \cup {t}]
            /\ Hand(t)
       ELSE /\ k = 1
            /\ UNCHANGED <<store, history>>
    /\ UNCHANGED <<pairing, revoking, restarts>>

\* The phone asks how its request stands; an approved one gives its token
\* away with the first answer.
Poll(c) ==
    /\ pairs[c].st = "approved"
    /\ ~pairs[c].contested
    /\ pairs[c].token # NoTok
    /\ pairs' = [pairs EXCEPT ![c].token = NoTok]
    /\ Hand(pairs[c].token)
    /\ UNCHANGED <<codes, store, revoking, req, made, restarts>>

----------------------------------------------------------------------------
(* Requests of a paired device that are still running when it is revoked   *)

\* A long request of the bridge: it runs, and beside it until_revoked
\* subscribes to the counter before it looks at the registry.
StartRun(p, t) ==
    /\ req[p].at = "idle"
    /\ t \in given /\ Valid(t)
    /\ Begin(p, [Idle EXCEPT !.at = "started", !.dev = t[1]])
    /\ UNCHANGED <<pairing, store, revoking, history, restarts>>

\* MUTANT: a watch that waits for the next change before it looks.
WatchNextChange(p) ==
    /\ req[p].at = "started"
    /\ Begin(p, [req[p] EXCEPT !.at = "watching"])
    /\ UNCHANGED <<pairing, store, revoking, history, restarts>>

WatchRevocations(p) ==
    /\ req[p].at = "started"
    /\ Begin(p, [req[p] EXCEPT !.at = "watching", !.woken = TRUE])
    /\ UNCHANGED <<pairing, store, revoking, history, restarts>>

\* is_active is looked at after subscribing and after every change; a change
\* that falls between the two wakes the watch once more.
CheckRevoked(p) ==
    /\ req[p].at = "watching"
    /\ req[p].woken
    /\ IF devs[req[p].dev].st = "active"
       THEN Begin(p, [req[p] EXCEPT !.woken = FALSE])
       ELSE End(p)
    /\ UNCHANGED <<pairing, store, revoking, history, restarts>>

\* The request ends by itself.
RunEnds(p) ==
    /\ req[p].at \in {"started", "watching"}
    /\ End(p)
    /\ UNCHANGED <<pairing, store, revoking, history, restarts>>

----------------------------------------------------------------------------
(* devices::revoke: on the desktop, by the device itself, or when idle     *)

\* The counter `revocations` changes: every watch that waits on it wakes.
Bump == req' = [p \in Phones |->
                 [req[p] EXCEPT !.woken = @ \/ req[p].at = "watching"]]

\* MUTANT: revoked in memory, left to the next save of the registry.
RevokeUnsaved(d) ==
    /\ devs[d].st = "active"
    /\ devs' = [devs EXCEPT ![d] = [st |-> "revoked", extra |-> <<>>]]
    /\ UNCHANGED <<file, saveFailed>>
    /\ revoking' = [revoking EXCEPT ![d] = TRUE]
    /\ UNCHANGED <<pairing, req, history, restarts>>

RevokeRecord(d) ==
    /\ devs[d].st = "active"
    /\ Save([devs EXCEPT ![d] = [st |-> "revoked", extra |-> <<>>]])
    /\ revoking' = [revoking EXCEPT ![d] = TRUE]
    /\ UNCHANGED <<pairing, req, history, restarts>>

AnnounceRevoked(d) ==
    /\ revoking[d]
    /\ revoking' = [revoking EXCEPT ![d] = FALSE]
    /\ Bump
    /\ UNCHANGED <<pairing, store, history, restarts>>

\* Deleting a revoked device again forgets its record.
Forget(d) ==
    /\ devs[d].st = "revoked"
    /\ Save([devs EXCEPT ![d] = NoRecord])
    /\ Bump
    /\ UNCHANGED <<pairing, revoking, history, restarts>>

----------------------------------------------------------------------------
\* Codes and requests live in memory only; the registry is read back.
Restart ==
    /\ restarts < MaxRestart
    /\ restarts' = restarts + 1
    /\ codes' = [c \in Codes |-> IF codes[c].st = "none" THEN NoCode ELSE Gone]
    /\ pairs' = [c \in Codes |-> NoPair]
    /\ devs' = file
    /\ saveFailed' = FALSE
    /\ revoking' = [d \in Devices |-> FALSE]
    /\ req' = [p \in Phones |-> Idle]
    /\ UNCHANGED <<file, history>>

Next ==
    \/ \E c \in Codes, target \in Targets, d \in Devices \cup {NoDev} :
          (d = NoDev) = (target # "self") /\ CreateCode(c, target, d)
    \/ \E c \in Codes : Mistype(c) \/ Deny(c) \/ CodeExpires(c)
                        \/ PairExpires(c) \/ PairDropped(c)
                        \/ Poll(c)
    \/ \E c \in Codes, d \in Devices : Approve(c, d)
    \/ \E p \in Phones, c \in Codes :
          \/ ReplayCode(p, c) \/ TakeLanCode(p, c) \/ TakeSelfCode(p, c)
          \/ TakeInternetCode(p, c)
    \/ \E p \in Phones, d \in Devices : IssueAuto(p, d)
    \/ \E p \in Phones, k \in 1..MaxTok : AnswerSelf(p, k)
    \/ \E p \in Phones, t \in Tokens : StartRun(p, t)
    \/ \E p \in Phones : \/ AnswerAuto(p) \/ WatchRevocations(p)
                         \/ CheckRevoked(p) \/ RunEnds(p)
    \/ \E d \in Devices : \/ RevokeRecord(d) \/ AnnounceRevoked(d) \/ Forget(d)
                          \/ SaveAgain(d)
    \/ Restart

----------------------------------------------------------------------------
\* The watch of a running request and the thread that revokes keep running.
Fairness ==
    /\ \A p \in Phones : WF_vars(WatchRevocations(p)) /\ WF_vars(CheckRevoked(p))
    /\ \A d \in Devices : WF_vars(AnnounceRevoked(d))

Spec == Init /\ [][Next]_vars /\ Fairness

----------------------------------------------------------------------------
(* Properties                                                              *)

\* A code pairs one device or adds one token, whoever presents it again and
\* however the steps of two exchanges, an approval and an expiry interleave
\* (exchange and approve in pairing.rs).
OneTokenPerCode == \A c \in Codes : Cardinality(made[c]) <= 1

\* A request whose code was presented twice while it waited never becomes a
\* device (the replay branch of exchange against approve).
ContestedNeverPairs == \A c \in Codes : pairs[c].contested => made[c] = {}

\* A revocation is undone by nothing but a restart that reads a devices.json
\* whose last write had failed (revoke_record persists before it returns).
RevokedStays ==
    [][\A d \in Devices :
         devs[d].st = "revoked" /\ devs'[d].st = "active" => saveFailed]_vars

\* A request of the bridge does not outlive the pairing of its device: the
\* watch beside it cannot miss the revocation (until_revoked in devices.rs).
Outlives(p) == /\ req[p].at \in {"started", "watching"}
               /\ devs[req[p].dev].st # "active"

RunsEnd == \A p \in Phones : Outlives(p) ~> ~Outlives(p)
=============================================================================
