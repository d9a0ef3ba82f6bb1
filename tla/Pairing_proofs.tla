-------------------------- MODULE Pairing_proofs --------------------------
(***************************************************************************)
(* Proofs about device pairing (module Pairing), for any phones and any    *)
(* number of codes, devices, tokens and restarts, and any caps.            *)
(***************************************************************************)
EXTENDS Pairing, FiniteSetTheorems, TLAPS

\* A code that was presented, and a phone's request between its code and its token.
Taken(c)   == codes[c].st \in {"used", "gone"}
Minting(p) == req[p].at \in {"auto", "self"}

Fields ==
    /\ DOMAIN codes = Codes /\ DOMAIN pairs = Codes /\ DOMAIN made = Codes
    /\ \A c \in Codes : /\ DOMAIN codes[c] = {"st", "target", "dev"}
                        /\ codes[c].st \in {"none", "free", "used", "gone"}
                        /\ DOMAIN pairs[c] = {"st", "contested", "attempts", "dev", "token"}
                        /\ pairs[c].contested \in BOOLEAN
    /\ DOMAIN req = Phones
    /\ \A p \in Phones : /\ DOMAIN req[p] = {"at", "code", "dev", "token", "woken"}
                         /\ Minting(p) => req[p].code \in Codes
    /\ DOMAIN devs = Devices /\ DOMAIN file = Devices
    /\ \A d \in Devices : DOMAIN devs[d] = {"st", "extra"} /\ DOMAIN file[d] = {"st", "extra"}

\* A code nobody took has made nothing; one that was taken is with one request
\* of a phone, or with one that waits for the desktop, and made nothing yet.
Free       == \A c \in Codes : ~Taken(c) => made[c] = {} /\ pairs[c].st = "none"
MintsFirst == \A p \in Phones : Minting(p) => /\ Taken(req[p].code)
                                               /\ made[req[p].code] = {}
                                               /\ pairs[req[p].code].st = "none"
Alone      == \A p, q \in Phones : Minting(p) /\ Minting(q) /\ req[p].code = req[q].code => p = q
Waits      == \A c \in Codes : /\ pairs[c].st = "none" => ~pairs[c].contested
                               /\ pairs[c].st = "pending" \/ pairs[c].contested => made[c] = {}
Once       == \A c \in Codes : \A t, u \in made[c] : t = u
CodeInv == Free /\ MintsFirst /\ Alone /\ Waits /\ Once

\* Every device on record got a token, and the file is the registry unless
\* its last write failed.
Recorded(d) == \E c \in Codes : \E t \in made[c] : t[1] = d
FileInv ==
    /\ \A d \in Devices : devs[d].st # "none" \/ file[d].st # "none" => Recorded(d)
    /\ ~saveFailed => file = devs

IInv == Fields /\ CodeInv /\ FileInv

\* What the steps that mint nothing may change of a code: nothing goes back.
LEMMA CodeKept ==
  ASSUME IInv, UNCHANGED made,
         \A c \in Codes : Taken(c) => Taken(c)',
         \A c \in Codes : /\ pairs'[c].st = "none" => ~pairs'[c].contested
                          /\ pairs[c].st = "none" => pairs'[c].st = "none"
                          /\ pairs'[c].st = "pending" => pairs[c].st = "pending"
                          /\ pairs'[c].contested => pairs[c].contested \/ pairs[c].st = "pending",
         \A p \in Phones : Minting(p)' => Minting(p) /\ req'[p].code = req[p].code
  PROVE  CodeInv'
<1>1. Free'
  BY DEF IInv, CodeInv, Free
<1>2. MintsFirst'
  BY DEF IInv, Fields, CodeInv, MintsFirst
<1>3. Alone'
  BY DEF IInv, CodeInv, Alone
<1>4. Waits'
  BY DEF IInv, CodeInv, Waits
<1>5. Once'
  BY DEF IInv, CodeInv, Once
<1> QED BY <1>1, <1>2, <1>3, <1>4, <1>5 DEF CodeInv

\* Tokens are only ever added to what a code made.
LEMMA FileKept ==
  ASSUME IInv, UNCHANGED <<devs, file, saveFailed>>,
         \A c \in Codes : made[c] \subseteq made'[c]
  PROVE  FileInv'
<1>1. \A d \in Devices : Recorded(d) => Recorded(d)'
  BY DEF Recorded
<1> QED BY <1>1 DEF IInv, FileInv

\* A save of a registry whose new records got tokens.
LEMMA Saved ==
  ASSUME IInv, NEW r, Save(r), DOMAIN r = Devices,
         \A d \in Devices : DOMAIN r[d] = {"st", "extra"},
         \A c \in Codes : made[c] \subseteq made'[c],
         \A d \in Devices : r[d].st # "none" => devs[d].st # "none" \/ Recorded(d)'
  PROVE  /\ FileInv'
         /\ DOMAIN devs' = Devices /\ DOMAIN file' = Devices
         /\ \A d \in Devices : /\ DOMAIN devs'[d] = {"st", "extra"}
                               /\ DOMAIN file'[d] = {"st", "extra"}
<1>1. \A d \in Devices : Recorded(d) => Recorded(d)'
  BY DEF Recorded
<1>2. devs' = r /\ (file' = r \/ file' = file) /\ (saveFailed' = FALSE => file' = r)
  BY DEF Save
<1>3. \A d \in Devices : devs'[d].st # "none" \/ file'[d].st # "none" => Recorded(d)'
  BY <1>1, <1>2 DEF IInv, FileInv
<1>4. saveFailed' = FALSE => file' = devs'
  BY <1>2
<1> QED BY <1>2, <1>3, <1>4 DEF IInv, Fields, FileInv

\* A new code; the oldest unused one may go.
LEMMA CreateCodeStep ==
  ASSUME IInv, NEW c \in Codes, NEW target \in Targets, NEW d \in Devices \cup {NoDev},
         (d = NoDev) = (target # "self"), CreateCode(c, target, d)
  PROVE  IInv'
<1>1. UNCHANGED <<pairs, req, devs, file, saveFailed, made>>
  BY DEF CreateCode, pairing, store, history
<1>2. DOMAIN codes' = Codes
      /\ \A x \in Codes : /\ DOMAIN codes'[x] = {"st", "target", "dev"}
                          /\ codes'[x].st \in {"none", "free", "used", "gone"}
                          /\ Taken(x) => Taken(x)'
  BY DEF CreateCode, Gone, NoCode, IInv, Fields, Taken
<1>3. CodeInv'
  BY <1>1, <1>2, CodeKept DEF IInv, Fields, CodeInv, Waits, Taken, Minting
<1>4. FileInv'
  BY <1>1, FileKept
<1>5. Fields'
  BY <1>1, <1>2 DEF IInv, Fields, Minting
<1> QED BY <1>3, <1>4, <1>5 DEF IInv

\* Wrong digits.
LEMMA MistypeStep ==
  ASSUME IInv, NEW c \in Codes, Mistype(c)
  PROVE  IInv'
<1>1. UNCHANGED <<codes, req, devs, file, saveFailed, made>>
  BY DEF Mistype, pairing, store, history
<1>2. DOMAIN pairs' = Codes
      /\ \A x \in Codes : /\ DOMAIN pairs'[x] = {"st", "contested", "attempts", "dev", "token"}
                          /\ pairs'[x].contested \in BOOLEAN
                          /\ pairs'[x].st = "none" => ~pairs'[x].contested
                          /\ pairs[x].st = "none" => pairs'[x].st = "none"
                          /\ pairs'[x].st = "pending" => pairs[x].st = "pending"
                          /\ pairs'[x].contested => pairs[x].contested \/ pairs[x].st = "pending"
  BY DEF Mistype, Decided, IInv, Fields, CodeInv, Waits
<1>3. CodeInv'
  BY <1>1, <1>2, CodeKept DEF IInv, Fields, CodeInv, Waits, Taken, Minting
<1>4. FileInv'
  BY <1>1, FileKept
<1>5. Fields'
  BY <1>1, <1>2 DEF IInv, Fields, Minting
<1> QED BY <1>3, <1>4, <1>5 DEF IInv

\* The desktop denies a request.
LEMMA DenyStep ==
  ASSUME IInv, NEW c \in Codes, Deny(c)
  PROVE  IInv'
<1>1. UNCHANGED <<codes, req, devs, file, saveFailed, made>>
  BY DEF Deny, pairing, store, history
<1>2. DOMAIN pairs' = Codes
      /\ \A x \in Codes : /\ DOMAIN pairs'[x] = {"st", "contested", "attempts", "dev", "token"}
                          /\ pairs'[x].contested \in BOOLEAN
                          /\ pairs'[x].st = "none" => ~pairs'[x].contested
                          /\ pairs[x].st = "none" => pairs'[x].st = "none"
                          /\ pairs'[x].st = "pending" => pairs[x].st = "pending"
                          /\ pairs'[x].contested => pairs[x].contested \/ pairs[x].st = "pending"
  BY DEF Deny, Decided, IInv, Fields, CodeInv, Waits
<1>3. CodeInv'
  BY <1>1, <1>2, CodeKept DEF IInv, Fields, CodeInv, Waits, Taken, Minting
<1>4. FileInv'
  BY <1>1, FileKept
<1>5. Fields'
  BY <1>1, <1>2 DEF IInv, Fields, Minting
<1> QED BY <1>3, <1>4, <1>5 DEF IInv

\* A code expires.
LEMMA CodeExpiresStep ==
  ASSUME IInv, NEW c \in Codes, CodeExpires(c)
  PROVE  IInv'
<1>1. UNCHANGED <<pairs, req, devs, file, saveFailed, made>>
  BY DEF CodeExpires, pairing, store, history
<1>2. DOMAIN codes' = Codes
      /\ \A x \in Codes : /\ DOMAIN codes'[x] = {"st", "target", "dev"}
                          /\ codes'[x].st \in {"none", "free", "used", "gone"}
                          /\ Taken(x) => Taken(x)'
  BY DEF CodeExpires, Gone, NoCode, IInv, Fields, Taken
<1>3. CodeInv'
  BY <1>1, <1>2, CodeKept DEF IInv, Fields, CodeInv, Waits, Taken, Minting
<1>4. FileInv'
  BY <1>1, FileKept
<1>5. Fields'
  BY <1>1, <1>2 DEF IInv, Fields, Minting
<1> QED BY <1>3, <1>4, <1>5 DEF IInv

\* A waiting request expires.
LEMMA PairExpiresStep ==
  ASSUME IInv, NEW c \in Codes, PairExpires(c)
  PROVE  IInv'
<1>1. UNCHANGED <<codes, req, devs, file, saveFailed, made>>
  BY DEF PairExpires, pairing, store, history
<1>2. DOMAIN pairs' = Codes
      /\ \A x \in Codes : /\ DOMAIN pairs'[x] = {"st", "contested", "attempts", "dev", "token"}
                          /\ pairs'[x].contested \in BOOLEAN
                          /\ pairs'[x].st = "none" => ~pairs'[x].contested
                          /\ pairs[x].st = "none" => pairs'[x].st = "none"
                          /\ pairs'[x].st = "pending" => pairs[x].st = "pending"
                          /\ pairs'[x].contested => pairs[x].contested \/ pairs[x].st = "pending"
  BY DEF PairExpires, Decided, IInv, Fields, CodeInv, Waits
<1>3. CodeInv'
  BY <1>1, <1>2, CodeKept DEF IInv, Fields, CodeInv, Waits, Taken, Minting
<1>4. FileInv'
  BY <1>1, FileKept
<1>5. Fields'
  BY <1>1, <1>2 DEF IInv, Fields, Minting
<1> QED BY <1>3, <1>4, <1>5 DEF IInv

\* A decided request is dropped.
LEMMA PairDroppedStep ==
  ASSUME IInv, NEW c \in Codes, PairDropped(c)
  PROVE  IInv'
<1>1. UNCHANGED <<codes, req, devs, file, saveFailed, made>>
  BY DEF PairDropped, pairing, store, history
<1>2. DOMAIN pairs' = Codes
      /\ \A x \in Codes : /\ DOMAIN pairs'[x] = {"st", "contested", "attempts", "dev", "token"}
                          /\ pairs'[x].contested \in BOOLEAN
                          /\ pairs'[x].st = "none" => ~pairs'[x].contested
                          /\ pairs[x].st = "none" => pairs'[x].st = "none"
                          /\ pairs'[x].st = "pending" => pairs[x].st = "pending"
                          /\ pairs'[x].contested => pairs[x].contested \/ pairs[x].st = "pending"
  BY DEF PairDropped, NoPair, IInv, Fields, CodeInv, Waits
<1>3. CodeInv'
  BY <1>1, <1>2, CodeKept DEF IInv, Fields, CodeInv, Waits, Taken, Minting
<1>4. FileInv'
  BY <1>1, FileKept
<1>5. Fields'
  BY <1>1, <1>2 DEF IInv, Fields, Minting
<1> QED BY <1>3, <1>4, <1>5 DEF IInv

\* An approved request gives its token away.
LEMMA PollStep ==
  ASSUME IInv, NEW c \in Codes, Poll(c)
  PROVE  IInv'
<1>1. UNCHANGED <<codes, req, devs, file, saveFailed, made>>
  BY DEF Poll, pairing, store, history
<1>2. DOMAIN pairs' = Codes
      /\ \A x \in Codes : /\ DOMAIN pairs'[x] = {"st", "contested", "attempts", "dev", "token"}
                          /\ pairs'[x].contested \in BOOLEAN
                          /\ pairs'[x].st = "none" => ~pairs'[x].contested
                          /\ pairs[x].st = "none" => pairs'[x].st = "none"
                          /\ pairs'[x].st = "pending" => pairs[x].st = "pending"
                          /\ pairs'[x].contested => pairs[x].contested \/ pairs[x].st = "pending"
  BY DEF Poll, IInv, Fields, CodeInv, Waits
<1>3. CodeInv'
  BY <1>1, <1>2, CodeKept DEF IInv, Fields, CodeInv, Waits, Taken, Minting
<1>4. FileInv'
  BY <1>1, FileKept
<1>5. Fields'
  BY <1>1, <1>2 DEF IInv, Fields, Minting
<1> QED BY <1>3, <1>4, <1>5 DEF IInv

\* A code presented again contests its waiting request.
LEMMA ReplayCodeStep ==
  ASSUME IInv, NEW p \in Phones, NEW c \in Codes, ReplayCode(p, c)
  PROVE  IInv'
<1>1. UNCHANGED <<codes, req, devs, file, saveFailed, made>>
  BY DEF ReplayCode, pairing, store, history
<1>2. DOMAIN pairs' = Codes
      /\ \A x \in Codes : /\ DOMAIN pairs'[x] = {"st", "contested", "attempts", "dev", "token"}
                          /\ pairs'[x].contested \in BOOLEAN
                          /\ pairs'[x].st = "none" => ~pairs'[x].contested
                          /\ pairs[x].st = "none" => pairs'[x].st = "none"
                          /\ pairs'[x].st = "pending" => pairs[x].st = "pending"
                          /\ pairs'[x].contested => pairs[x].contested \/ pairs[x].st = "pending"
  BY ZenonT(40) DEF ReplayCode, IInv, Fields, CodeInv, Waits
<1>3. CodeInv'
  BY <1>1, <1>2, CodeKept DEF IInv, Fields, CodeInv, Waits, Taken, Minting
<1>4. FileInv'
  BY <1>1, FileKept
<1>5. Fields'
  BY <1>1, <1>2 DEF IInv, Fields, Minting
<1> QED BY <1>3, <1>4, <1>5 DEF IInv

\* A request of a paired device starts.
LEMMA StartRunStep ==
  ASSUME IInv, NEW p \in Phones, NEW t \in Tokens, StartRun(p, t)
  PROVE  IInv'
<1>1. UNCHANGED <<codes, pairs, devs, file, saveFailed, made>>
  BY DEF StartRun, pairing, store, history
<1>2. DOMAIN req' = Phones
      /\ \A x \in Phones : /\ DOMAIN req'[x] = {"at", "code", "dev", "token", "woken"}
                           /\ Minting(x)' => Minting(x) /\ req'[x].code = req[x].code
  BY DEF StartRun, Begin, Idle, IInv, Fields, Minting
<1>3. CodeInv'
  BY <1>1, <1>2, CodeKept DEF IInv, Fields, CodeInv, Waits, Taken, Minting
<1>4. FileInv'
  BY <1>1, FileKept
<1>5. Fields'
  BY <1>1, <1>2 DEF IInv, Fields, Minting
<1> QED BY <1>3, <1>4, <1>5 DEF IInv

\* The answer with a new device's token leaves.
LEMMA AnswerAutoStep ==
  ASSUME IInv, NEW p \in Phones, AnswerAuto(p)
  PROVE  IInv'
<1>1. UNCHANGED <<codes, pairs, devs, file, saveFailed, made>>
  BY DEF AnswerAuto, pairing, store, history
<1>2. DOMAIN req' = Phones
      /\ \A x \in Phones : /\ DOMAIN req'[x] = {"at", "code", "dev", "token", "woken"}
                           /\ Minting(x)' => Minting(x) /\ req'[x].code = req[x].code
  BY DEF AnswerAuto, End, Idle, IInv, Fields, Minting
<1>3. CodeInv'
  BY <1>1, <1>2, CodeKept DEF IInv, Fields, CodeInv, Waits, Taken, Minting
<1>4. FileInv'
  BY <1>1, FileKept
<1>5. Fields'
  BY <1>1, <1>2 DEF IInv, Fields, Minting
<1> QED BY <1>3, <1>4, <1>5 DEF IInv

\* The watch beside a request subscribes.
LEMMA WatchRevocationsStep ==
  ASSUME IInv, NEW p \in Phones, WatchRevocations(p)
  PROVE  IInv'
<1>1. UNCHANGED <<codes, pairs, devs, file, saveFailed, made>>
  BY DEF WatchRevocations, pairing, store, history
<1>2. DOMAIN req' = Phones
      /\ \A x \in Phones : /\ DOMAIN req'[x] = {"at", "code", "dev", "token", "woken"}
                           /\ Minting(x)' => Minting(x) /\ req'[x].code = req[x].code
  BY DEF WatchRevocations, Begin, IInv, Fields, Minting
<1>3. CodeInv'
  BY <1>1, <1>2, CodeKept DEF IInv, Fields, CodeInv, Waits, Taken, Minting
<1>4. FileInv'
  BY <1>1, FileKept
<1>5. Fields'
  BY <1>1, <1>2 DEF IInv, Fields, Minting
<1> QED BY <1>3, <1>4, <1>5 DEF IInv

\* The watch looks at the registry.
LEMMA CheckRevokedStep ==
  ASSUME IInv, NEW p \in Phones, CheckRevoked(p)
  PROVE  IInv'
<1>1. UNCHANGED <<codes, pairs, devs, file, saveFailed, made>>
  BY DEF CheckRevoked, pairing, store, history
<1>2. DOMAIN req' = Phones
      /\ \A x \in Phones : /\ DOMAIN req'[x] = {"at", "code", "dev", "token", "woken"}
                           /\ Minting(x)' => Minting(x) /\ req'[x].code = req[x].code
  BY DEF CheckRevoked, Begin, End, Idle, IInv, Fields, Minting
<1>3. CodeInv'
  BY <1>1, <1>2, CodeKept DEF IInv, Fields, CodeInv, Waits, Taken, Minting
<1>4. FileInv'
  BY <1>1, FileKept
<1>5. Fields'
  BY <1>1, <1>2 DEF IInv, Fields, Minting
<1> QED BY <1>3, <1>4, <1>5 DEF IInv

\* A request ends by itself.
LEMMA RunEndsStep ==
  ASSUME IInv, NEW p \in Phones, RunEnds(p)
  PROVE  IInv'
<1>1. UNCHANGED <<codes, pairs, devs, file, saveFailed, made>>
  BY DEF RunEnds, pairing, store, history
<1>2. DOMAIN req' = Phones
      /\ \A x \in Phones : /\ DOMAIN req'[x] = {"at", "code", "dev", "token", "woken"}
                           /\ Minting(x)' => Minting(x) /\ req'[x].code = req[x].code
  BY DEF RunEnds, End, Idle, IInv, Fields, Minting
<1>3. CodeInv'
  BY <1>1, <1>2, CodeKept DEF IInv, Fields, CodeInv, Waits, Taken, Minting
<1>4. FileInv'
  BY <1>1, FileKept
<1>5. Fields'
  BY <1>1, <1>2 DEF IInv, Fields, Minting
<1> QED BY <1>3, <1>4, <1>5 DEF IInv

\* The counter of revocations changes.
LEMMA AnnounceRevokedStep ==
  ASSUME IInv, NEW d \in Devices, AnnounceRevoked(d)
  PROVE  IInv'
<1>1. UNCHANGED <<codes, pairs, devs, file, saveFailed, made>>
  BY DEF AnnounceRevoked, pairing, store, history
<1>2. DOMAIN req' = Phones
      /\ \A x \in Phones : /\ DOMAIN req'[x] = {"at", "code", "dev", "token", "woken"}
                           /\ Minting(x)' => Minting(x) /\ req'[x].code = req[x].code
  BY DEF AnnounceRevoked, Bump, IInv, Fields, Minting
<1>3. CodeInv'
  BY <1>1, <1>2, CodeKept DEF IInv, Fields, CodeInv, Waits, Taken, Minting
<1>4. FileInv'
  BY <1>1, FileKept
<1>5. Fields'
  BY <1>1, <1>2 DEF IInv, Fields, Minting
<1> QED BY <1>3, <1>4, <1>5 DEF IInv

\* A device is revoked and the registry saved.
LEMMA RevokeRecordStep ==
  ASSUME IInv, NEW d \in Devices, RevokeRecord(d)
  PROVE  IInv'
<1> DEFINE r == [devs EXCEPT ![d] = [st |-> "revoked", extra |-> <<>>]]
<1>1. UNCHANGED <<codes, pairs, made, req>> /\ Save(r)
  BY DEF RevokeRecord, pairing, history
<1>2. DOMAIN r = Devices
      /\ \A x \in Devices : /\ DOMAIN r[x] = {"st", "extra"}
                            /\ (r[x].st # "none" => devs[x].st # "none")
  BY DEF RevokeRecord, IInv, Fields
<1> HIDE DEF r
<1>3. /\ FileInv' /\ DOMAIN devs' = Devices /\ DOMAIN file' = Devices
      /\ \A x \in Devices : DOMAIN devs'[x] = {"st", "extra"} /\ DOMAIN file'[x] = {"st", "extra"}
  BY <1>1, <1>2, Saved
<1>4. UNCHANGED req
  BY <1>1
<1>5. CodeInv'
  BY <1>1, <1>4, CodeKept DEF IInv, Fields, CodeInv, Waits, Taken, Minting
<1>6. Fields'
  BY <1>1, <1>3, <1>4 DEF IInv, Fields, Minting
<1> QED BY <1>3, <1>5, <1>6 DEF IInv

\* The registry is saved again.
LEMMA SaveAgainStep ==
  ASSUME IInv, NEW d \in Devices, SaveAgain(d)
  PROVE  IInv'
<1> DEFINE r == devs
<1>1. UNCHANGED <<codes, pairs, made, req>> /\ Save(r)
  BY DEF SaveAgain, pairing, history
<1>2. DOMAIN r = Devices
      /\ \A x \in Devices : /\ DOMAIN r[x] = {"st", "extra"}
                            /\ (r[x].st # "none" => devs[x].st # "none")
  BY DEF SaveAgain, IInv, Fields
<1> HIDE DEF r
<1>3. /\ FileInv' /\ DOMAIN devs' = Devices /\ DOMAIN file' = Devices
      /\ \A x \in Devices : DOMAIN devs'[x] = {"st", "extra"} /\ DOMAIN file'[x] = {"st", "extra"}
  BY <1>1, <1>2, Saved
<1>4. UNCHANGED req
  BY <1>1
<1>5. CodeInv'
  BY <1>1, <1>4, CodeKept DEF IInv, Fields, CodeInv, Waits, Taken, Minting
<1>6. Fields'
  BY <1>1, <1>3, <1>4 DEF IInv, Fields, Minting
<1> QED BY <1>3, <1>5, <1>6 DEF IInv

\* A revoked device is forgotten.
LEMMA ForgetStep ==
  ASSUME IInv, NEW d \in Devices, Forget(d)
  PROVE  IInv'
<1> DEFINE r == [devs EXCEPT ![d] = NoRecord]
<1>1. UNCHANGED <<codes, pairs, made>> /\ Save(r)
  BY DEF Forget, pairing, history
<1>2. DOMAIN r = Devices
      /\ \A x \in Devices : /\ DOMAIN r[x] = {"st", "extra"}
                            /\ (r[x].st # "none" => devs[x].st # "none")
  BY DEF Forget, NoRecord, IInv, Fields
<1> HIDE DEF r
<1>3. /\ FileInv' /\ DOMAIN devs' = Devices /\ DOMAIN file' = Devices
      /\ \A x \in Devices : DOMAIN devs'[x] = {"st", "extra"} /\ DOMAIN file'[x] = {"st", "extra"}
  BY <1>1, <1>2, Saved
<1>4. DOMAIN req' = Phones
      /\ \A x \in Phones : /\ DOMAIN req'[x] = {"at", "code", "dev", "token", "woken"}
                           /\ Minting(x)' => Minting(x) /\ req'[x].code = req[x].code
  BY DEF Forget, Bump, IInv, Fields, Minting
<1>5. CodeInv'
  BY <1>1, <1>4, CodeKept DEF IInv, Fields, CodeInv, Waits, Taken, Minting
<1>6. Fields'
  BY <1>1, <1>3, <1>4 DEF IInv, Fields, Minting
<1> QED BY <1>3, <1>5, <1>6 DEF IInv

\* Codes and requests are gone; the registry is the file.
LEMMA RestartStep ==
  ASSUME IInv, Restart
  PROVE  IInv'
<1>1. UNCHANGED <<made, file>> /\ devs' = file /\ saveFailed' = FALSE
  BY DEF Restart, history
<1>2. DOMAIN codes' = Codes
      /\ \A x \in Codes : /\ DOMAIN codes'[x] = {"st", "target", "dev"}
                          /\ codes'[x].st \in {"none", "free", "used", "gone"}
                          /\ Taken(x) => Taken(x)'
  BY DEF Restart, Gone, NoCode, IInv, Fields, Taken
<1>3. /\ pairs' = [c \in Codes |-> NoPair] /\ req' = [p \in Phones |-> Idle]
  BY DEF Restart
<1>4. CodeInv'
  <2>1. Free'
    BY <1>1, <1>2, <1>3 DEF IInv, CodeInv, Free, NoPair
  <2>2. \A p \in Phones : ~Minting(p)'
    BY <1>3 DEF Minting, Idle
  <2>3. Waits'
    BY <1>3 DEF Waits, NoPair
  <2>4. Once'
    BY <1>1 DEF IInv, CodeInv, Once
  <2> QED BY <2>1, <2>2, <2>3, <2>4 DEF CodeInv, MintsFirst, Alone
<1>5. FileInv'
  <2>1. \A d \in Devices : Recorded(d) => Recorded(d)'
    BY <1>1 DEF Recorded
  <2> QED BY <1>1, <2>1 DEF IInv, FileInv
<1>6. Fields'
  BY <1>1, <1>2, <1>3 DEF IInv, Fields, Minting, NoPair, Idle
<1> QED BY <1>4, <1>5, <1>6 DEF IInv

\* Nothing changes.
LEMMA StutterStep ==
  ASSUME IInv, UNCHANGED vars
  PROVE  IInv'
<1>1. UNCHANGED <<codes, pairs, req, made, devs, file, saveFailed>>
  BY DEF vars
<1>2. CodeInv'
  BY <1>1, CodeKept DEF IInv, CodeInv, Waits, Taken, Minting
<1>3. FileInv'
  BY <1>1, FileKept
<1>4. Fields'
  BY <1>1 DEF IInv, Fields, Minting
<1> QED BY <1>2, <1>3, <1>4 DEF IInv

\* A phone's request takes an unused code, and is its only one.
LEMMA CodeTaken ==
  ASSUME IInv, NEW p \in Phones, NEW c \in Codes,
         UNCHANGED <<pairs, devs, file, saveFailed, made>>,
         codes[c].st = "free", Taken(c)', ~Minting(p), Minting(p)', req'[p].code = c,
         DOMAIN codes' = Codes,
         \A x \in Codes : /\ DOMAIN codes'[x] = {"st", "target", "dev"}
                          /\ codes'[x].st \in {"none", "free", "used", "gone"}
                          /\ Taken(x) => Taken(x)',
         DOMAIN req' = Phones,
         \A q \in Phones : /\ DOMAIN req'[q] = {"at", "code", "dev", "token", "woken"}
                           /\ q # p => req'[q] = req[q]
  PROVE  IInv'
<1>1. ~Taken(c)
  BY DEF Taken
<1>2. made[c] = {} /\ pairs[c].st = "none"
  BY <1>1 DEF IInv, CodeInv, Free
<1>3. \A q \in Phones : Minting(q) => req[q].code # c
  BY <1>1 DEF IInv, CodeInv, MintsFirst
<1>4. \A q \in Phones : q # p => (Minting(q)' <=> Minting(q))
  BY DEF Minting
<1>5. Free'
  BY DEF IInv, CodeInv, Free
<1>6. MintsFirst'
  BY <1>2, <1>4 DEF IInv, Fields, CodeInv, MintsFirst
<1>7. Alone'
  BY <1>3, <1>4 DEF IInv, CodeInv, Alone
<1>8. Waits' /\ Once'
  BY DEF IInv, CodeInv, Waits, Once
<1>9. FileInv'
  BY FileKept
<1>10. Fields'
  BY <1>4 DEF IInv, Fields
<1> QED BY <1>5, <1>6, <1>7, <1>8, <1>9, <1>10 DEF IInv, CodeInv

\* A code makes its token, and nobody else makes one for it.
LEMMA TokenMade ==
  ASSUME IInv, NEW c \in Codes, NEW t, UNCHANGED codes, Taken(c), made[c] = {},
         made' = [made EXCEPT ![c] = @ \cup {t}],
         pairs'[c].st # "pending" /\ ~pairs'[c].contested,
         \A x \in Codes : x # c => pairs'[x] = pairs[x],
         \A q \in Phones : Minting(q)' => /\ Minting(q) /\ req'[q].code = req[q].code
                                          /\ req[q].code # c
  PROVE  CodeInv'
<1>1. made'[c] = {t} /\ \A x \in Codes : x # c => made'[x] = made[x]
  BY DEF IInv, Fields
<1>2. Free'
  BY <1>1 DEF IInv, CodeInv, Free, Taken
<1>3. MintsFirst'
  BY <1>1 DEF IInv, Fields, CodeInv, MintsFirst, Taken
<1>4. Alone'
  BY DEF IInv, CodeInv, Alone
<1>5. Waits'
  BY <1>1 DEF IInv, CodeInv, Waits
<1>6. Once'
  BY <1>1 DEF IInv, CodeInv, Once
<1> QED BY <1>2, <1>3, <1>4, <1>5, <1>6 DEF CodeInv

\* A phone on the local network takes a code.
LEMMA TakeLanCodeStep ==
  ASSUME IInv, NEW p \in Phones, NEW c \in Codes, TakeLanCode(p, c)
  PROVE  IInv'
<1>1. UNCHANGED <<pairs, devs, file, saveFailed, made>> /\ codes[c].st = "free" /\ req[p].at = "idle"
  BY DEF TakeLanCode, store, history
<1>2. DOMAIN codes' = Codes
      /\ \A x \in Codes : /\ DOMAIN codes'[x] = {"st", "target", "dev"}
                          /\ codes'[x].st \in {"none", "free", "used", "gone"}
                          /\ Taken(x) => Taken(x)'
  BY DEF TakeLanCode, IInv, Fields, Taken
<1>3. Taken(c)'
  BY DEF TakeLanCode, IInv, Fields, Taken
<1>4. DOMAIN req' = Phones
      /\ \A q \in Phones : /\ DOMAIN req'[q] = {"at", "code", "dev", "token", "woken"}
                           /\ q # p => req'[q] = req[q]
  BY DEF TakeLanCode, Begin, Idle, IInv, Fields
<1>5. ~Minting(p) /\ Minting(p)' /\ req'[p].code = c
  BY DEF TakeLanCode, Begin, Idle, IInv, Fields, Minting
<1> QED BY <1>1, <1>2, <1>3, <1>4, <1>5, CodeTaken

\* A paired device's second client takes a code.
LEMMA TakeSelfCodeStep ==
  ASSUME IInv, NEW p \in Phones, NEW c \in Codes, TakeSelfCode(p, c)
  PROVE  IInv'
<1>1. UNCHANGED <<pairs, devs, file, saveFailed, made>> /\ codes[c].st = "free" /\ req[p].at = "idle"
  BY DEF TakeSelfCode, store, history
<1>2. DOMAIN codes' = Codes
      /\ \A x \in Codes : /\ DOMAIN codes'[x] = {"st", "target", "dev"}
                          /\ codes'[x].st \in {"none", "free", "used", "gone"}
                          /\ Taken(x) => Taken(x)'
  BY DEF TakeSelfCode, IInv, Fields, Taken
<1>3. Taken(c)'
  BY DEF TakeSelfCode, IInv, Fields, Taken
<1>4. DOMAIN req' = Phones
      /\ \A q \in Phones : /\ DOMAIN req'[q] = {"at", "code", "dev", "token", "woken"}
                           /\ q # p => req'[q] = req[q]
  BY DEF TakeSelfCode, Begin, Idle, IInv, Fields
<1>5. ~Minting(p) /\ Minting(p)' /\ req'[p].code = c
  BY DEF TakeSelfCode, Begin, Idle, IInv, Fields, Minting
<1> QED BY <1>1, <1>2, <1>3, <1>4, <1>5, CodeTaken

\* A code from the internet becomes a request that waits for the desktop.
LEMMA TakeInternetCodeStep ==
  ASSUME IInv, NEW p \in Phones, NEW c \in Codes, TakeInternetCode(p, c)
  PROVE  IInv'
<1>1. UNCHANGED <<req, devs, file, saveFailed, made>> /\ codes[c].st = "free" /\ ~Taken(c)
  BY DEF TakeInternetCode, store, history, Taken
<1>2. DOMAIN codes' = Codes
      /\ \A x \in Codes : /\ DOMAIN codes'[x] = {"st", "target", "dev"}
                          /\ codes'[x].st \in {"none", "free", "used", "gone"}
                          /\ Taken(x) => Taken(x)'
  BY DEF TakeInternetCode, IInv, Fields, Taken
<1>3. Taken(c)'
  BY DEF TakeInternetCode, IInv, Fields, Taken
<1>4. /\ DOMAIN pairs' = Codes
      /\ \A x \in Codes : /\ DOMAIN pairs'[x] = {"st", "contested", "attempts", "dev", "token"}
                          /\ pairs'[x].contested \in BOOLEAN
                          /\ x # c => pairs'[x] = pairs[x]
      /\ pairs'[c].contested = FALSE
  BY DEF TakeInternetCode, NoPair, IInv, Fields
<1>5. made[c] = {}
  BY <1>1 DEF IInv, CodeInv, Free
<1>6. Free'
  BY <1>1, <1>2, <1>3, <1>4 DEF IInv, CodeInv, Free
<1>7. MintsFirst'
  BY <1>1, <1>2, <1>4 DEF IInv, Fields, CodeInv, MintsFirst, Minting
<1>8. Alone'
  BY <1>1 DEF IInv, CodeInv, Alone, Minting
<1>9. Waits' /\ Once'
  BY <1>1, <1>4, <1>5 DEF IInv, CodeInv, Waits, Once
<1>10. FileInv'
  BY <1>1, FileKept
<1>11. Fields'
  BY <1>1, <1>2, <1>4 DEF IInv, Fields, Minting
<1> QED BY <1>6, <1>7, <1>8, <1>9, <1>10, <1>11 DEF IInv, CodeInv

\* The right digits: the code makes a device.
LEMMA ApproveStep ==
  ASSUME IInv, NEW c \in Codes, NEW d \in Devices, Approve(c, d)
  PROVE  IInv'
<1> DEFINE r == [devs EXCEPT ![d] = [st |-> "active", extra |-> <<>>]]
<1>1. /\ UNCHANGED <<codes, req>> /\ Save(r) /\ made' = [made EXCEPT ![c] = @ \cup {<<d, 0>>}]
      /\ pairs[c].st = "pending" /\ ~pairs[c].contested
  BY DEF Approve, Issue
<1>2. DOMAIN r = Devices
      /\ \A x \in Devices : DOMAIN r[x] = {"st", "extra"} /\ (x # d => r[x] = devs[x])
  BY DEF IInv, Fields
<1> HIDE DEF r
<1>3. /\ DOMAIN pairs' = Codes
      /\ \A x \in Codes : /\ DOMAIN pairs'[x] = {"st", "contested", "attempts", "dev", "token"}
                          /\ pairs'[x].contested \in BOOLEAN
                          /\ x # c => pairs'[x] = pairs[x]
      /\ pairs'[c].st = "approved" /\ ~pairs'[c].contested
  BY DEF Approve, Decided, IInv, Fields
<1>4. made[c] = {} /\ Taken(c)
  BY <1>1 DEF IInv, CodeInv, Free, Waits
<1>5. \A q \in Phones : Minting(q)' => /\ Minting(q) /\ req'[q].code = req[q].code
                                        /\ req[q].code # c
  BY <1>1 DEF IInv, CodeInv, MintsFirst, Minting
<1>6. CodeInv'
  BY <1>1, <1>3, <1>4, <1>5, TokenMade
<1>7. DOMAIN made' = Codes /\ <<d, 0>> \in made'[c] /\ \A x \in Codes : made[x] \subseteq made'[x]
  BY <1>1 DEF IInv, Fields
<1>8. Recorded(d)'
  BY <1>7 DEF Recorded
<1>9. /\ FileInv' /\ DOMAIN devs' = Devices /\ DOMAIN file' = Devices
      /\ \A x \in Devices : DOMAIN devs'[x] = {"st", "extra"} /\ DOMAIN file'[x] = {"st", "extra"}
  BY <1>1, <1>2, <1>7, <1>8, Saved
<1>10. Fields'
  BY <1>1, <1>3, <1>7, <1>9 DEF IInv, Fields, Minting
<1> QED BY <1>6, <1>9, <1>10 DEF IInv

\* The code of a phone on the local network makes a device.
LEMMA IssueAutoStep ==
  ASSUME IInv, NEW p \in Phones, NEW d \in Devices, IssueAuto(p, d)
  PROVE  IInv'
<1> DEFINE c == req[p].code
           r == [devs EXCEPT ![d] = [st |-> "active", extra |-> <<>>]]
<1>1. /\ UNCHANGED <<codes, pairs>> /\ Save(r) /\ made' = [made EXCEPT ![c] = @ \cup {<<d, 0>>}]
      /\ Minting(p)
  BY DEF IssueAuto, Issue, pairing, Minting
<1>2. DOMAIN r = Devices
      /\ \A x \in Devices : DOMAIN r[x] = {"st", "extra"} /\ (x # d => r[x] = devs[x])
  BY DEF IInv, Fields
<1>3. DOMAIN req' = Phones
      /\ \A q \in Phones : /\ DOMAIN req'[q] = {"at", "code", "dev", "token", "woken"}
                           /\ q # p => req'[q] = req[q]
      /\ ~Minting(p)'
  BY DEF IssueAuto, Begin, IInv, Fields, Minting
<1>4. c \in Codes /\ made[c] = {} /\ Taken(c) /\ pairs[c].st = "none" /\ ~pairs[c].contested
  BY <1>1 DEF IInv, Fields, CodeInv, MintsFirst, Waits
<1>5. \A q \in Phones : Minting(q)' => /\ Minting(q) /\ req'[q].code = req[q].code
                                        /\ req[q].code # c
  BY <1>1, <1>3 DEF IInv, CodeInv, Alone, Minting
<1> HIDE DEF r, c
<1>6. CodeInv'
  BY <1>1, <1>4, <1>5, TokenMade
<1>7. DOMAIN made' = Codes /\ <<d, 0>> \in made'[c] /\ \A x \in Codes : made[x] \subseteq made'[x]
  BY <1>1, <1>4 DEF IInv, Fields
<1>8. Recorded(d)'
  BY <1>4, <1>7 DEF Recorded
<1>9. /\ FileInv' /\ DOMAIN devs' = Devices /\ DOMAIN file' = Devices
      /\ \A x \in Devices : DOMAIN devs'[x] = {"st", "extra"} /\ DOMAIN file'[x] = {"st", "extra"}
  BY <1>1, <1>2, <1>7, <1>8, Saved
<1>10. Fields'
  BY <1>1, <1>3, <1>5, <1>7, <1>9 DEF IInv, Fields
<1> QED BY <1>6, <1>9, <1>10 DEF IInv

\* The code of a paired device makes a token of it, unless the device is gone.
LEMMA AnswerSelfStep ==
  ASSUME IInv, NEW p \in Phones, NEW k \in 1..MaxTok, AnswerSelf(p, k)
  PROVE  IInv'
<1> DEFINE c == req[p].code
           e == req[p].dev
           t == <<e, k>>
           r == [devs EXCEPT ![e].extra = Extra(@, k)]
<1>1. UNCHANGED <<codes, pairs>> /\ Minting(p)
  BY DEF AnswerSelf, pairing, Minting
<1>2. DOMAIN req' = Phones
      /\ \A q \in Phones : /\ DOMAIN req'[q] = {"at", "code", "dev", "token", "woken"}
                           /\ q # p => req'[q] = req[q]
      /\ ~Minting(p)'
  BY DEF AnswerSelf, End, Idle, IInv, Fields, Minting
<1>3. c \in Codes /\ made[c] = {} /\ Taken(c) /\ pairs[c].st = "none" /\ ~pairs[c].contested
  BY <1>1 DEF IInv, Fields, CodeInv, MintsFirst, Waits
<1>4. \A q \in Phones : Minting(q)' => /\ Minting(q) /\ req'[q].code = req[q].code
                                        /\ req[q].code # c
  BY <1>1, <1>2 DEF IInv, CodeInv, Alone, Minting
<1>5. CASE Save(r) /\ made' = [made EXCEPT ![c] = @ \cup {t}]
  <2>1. DOMAIN r = Devices
        /\ \A x \in Devices : DOMAIN r[x] = {"st", "extra"} /\ r[x].st = devs[x].st
    BY DEF IInv, Fields
  <2> HIDE DEF r, c, t
  <2>2. CodeInv'
    BY <1>1, <1>3, <1>4, <1>5, TokenMade
  <2>3. DOMAIN made' = Codes /\ \A x \in Codes : made[x] \subseteq made'[x]
    BY <1>3, <1>5 DEF IInv, Fields
  <2>4. /\ FileInv' /\ DOMAIN devs' = Devices /\ DOMAIN file' = Devices
        /\ \A x \in Devices : DOMAIN devs'[x] = {"st", "extra"} /\ DOMAIN file'[x] = {"st", "extra"}
    BY <1>5, <2>1, <2>3, Saved
  <2>5. Fields'
    BY <1>1, <1>2, <1>4, <2>3, <2>4 DEF IInv, Fields
  <2> QED BY <2>2, <2>4, <2>5 DEF IInv
<1>6. CASE UNCHANGED <<devs, file, saveFailed, made>>
  <2>1. CodeInv'
    BY <1>1, <1>4, <1>6, CodeKept DEF IInv, Fields, CodeInv, Waits, Taken
  <2>2. FileInv'
    BY <1>6, FileKept
  <2>3. Fields'
    BY <1>1, <1>2, <1>4, <1>6 DEF IInv, Fields
  <2> QED BY <2>1, <2>2, <2>3 DEF IInv
<1> QED BY <1>5, <1>6 DEF AnswerSelf, AddToken, store, history

\* The invariant holds at the start.
LEMMA InitInv ==
  ASSUME Init
  PROVE  IInv
<1>1. Fields
  BY DEF Init, Fields, NoCode, NoPair, Idle, NoRecord, Minting
<1>2. /\ \A c \in Codes : codes[c].st = "none" /\ made[c] = {}
                          /\ pairs[c].st = "none" /\ pairs[c].contested = FALSE
      /\ \A p \in Phones : req[p].at = "idle"
  BY DEF Init, NoCode, NoPair, Idle
<1>3. CodeInv
  BY <1>2 DEF CodeInv, Free, MintsFirst, Alone, Waits, Once, Minting
<1>4. FileInv
  BY DEF Init, FileInv, NoRecord
<1> QED BY <1>1, <1>3, <1>4 DEF IInv

\* Every step keeps the invariant.
LEMMA NextStep ==
  ASSUME IInv, [Next]_vars
  PROVE  IInv'
<1>1. ASSUME NEW c \in Codes, NEW target \in Targets, NEW d \in Devices \cup {NoDev},
             (d = NoDev) = (target # "self"), CreateCode(c, target, d)
      PROVE IInv'
  BY <1>1, CreateCodeStep
<1>2. ASSUME NEW c \in Codes,
             Mistype(c) \/ Deny(c) \/ CodeExpires(c) \/ PairExpires(c) \/ PairDropped(c) \/ Poll(c)
      PROVE IInv'
  BY <1>2, MistypeStep, DenyStep, CodeExpiresStep, PairExpiresStep, PairDroppedStep,
     PollStep
<1>3. ASSUME NEW c \in Codes, NEW d \in Devices, Approve(c, d) PROVE IInv'
  BY <1>3, ApproveStep
<1>4. ASSUME NEW p \in Phones, NEW c \in Codes,
             ReplayCode(p, c) \/ TakeLanCode(p, c) \/ TakeSelfCode(p, c) \/ TakeInternetCode(p, c)
      PROVE IInv'
  BY <1>4, ReplayCodeStep, TakeLanCodeStep, TakeSelfCodeStep, TakeInternetCodeStep
<1>5. ASSUME NEW p \in Phones, NEW d \in Devices, IssueAuto(p, d) PROVE IInv'
  BY <1>5, IssueAutoStep
<1>6. ASSUME NEW p \in Phones, NEW k \in 1..MaxTok, AnswerSelf(p, k) PROVE IInv'
  BY <1>6, AnswerSelfStep
<1>7. ASSUME NEW p \in Phones, NEW t \in Tokens, StartRun(p, t) PROVE IInv'
  BY <1>7, StartRunStep
<1>8. ASSUME NEW p \in Phones,
             AnswerAuto(p) \/ WatchRevocations(p) \/ CheckRevoked(p) \/ RunEnds(p)
      PROVE IInv'
  BY <1>8, AnswerAutoStep, WatchRevocationsStep, CheckRevokedStep, RunEndsStep
<1>9. ASSUME NEW d \in Devices,
             RevokeRecord(d) \/ AnnounceRevoked(d) \/ Forget(d) \/ SaveAgain(d)
      PROVE IInv'
  BY <1>9, RevokeRecordStep, AnnounceRevokedStep, ForgetStep, SaveAgainStep
<1>10. CASE Restart
  BY <1>10, RestartStep
<1>11. CASE UNCHANGED vars
  BY <1>11, StutterStep
<1> QED BY <1>1, <1>2, <1>3, <1>4, <1>5, <1>6, <1>7, <1>8, <1>9, <1>10, <1>11 DEF Next

\* The inductive invariant: what a code made, who still holds it, and what of
\* it is on disk (exchange, approve, issue and persist_locked).
THEOREM Invariance == Spec => []IInv
<1>1. Init => IInv
  BY InitInv
<1>2. IInv /\ [Next]_vars => IInv'
  BY NextStep
<1> QED BY <1>1, <1>2, PTL DEF Spec

\* A code makes one token at most: the exchange marks it used under the lock,
\* and whoever holds it then is the only one to mint for it.
THEOREM OneTokenPerCodeCorrect == Spec => []OneTokenPerCode
<1>1. IInv => OneTokenPerCode
  <2> SUFFICES ASSUME IInv, NEW c \in Codes PROVE Cardinality(made[c]) <= 1
    BY DEF OneTokenPerCode
  <2>1. CASE made[c] = {}
    BY <2>1, FS_EmptySet
  <2>2. CASE made[c] # {}
    <3>1. PICK t : t \in made[c]
      BY <2>2
    <3>2. made[c] = {t}
      BY <3>1 DEF IInv, CodeInv, Once
    <3>3. Cardinality({t}) = 1
      BY FS_Singleton
    <3> QED BY <3>2, <3>3
  <2> QED BY <2>1, <2>2
<1> QED BY <1>1, Invariance, PTL

\* A contested request made nothing when it was contested, and approve refuses
\* it from then on.
THEOREM ContestedNeverPairsCorrect == Spec => []ContestedNeverPairs
<1>1. IInv => ContestedNeverPairs
  BY DEF IInv, CodeInv, Waits, ContestedNeverPairs
<1> QED BY <1>1, Invariance, PTL

\* A fresh id is nobody's.
LEMMA FreshIsNew ==
  ASSUME IInv, NEW d \in Devices, Fresh(d)
  PROVE  devs[d].st = "none"
<1>1. \A c \in Codes : \A t \in made[c] : t \in Minted
  BY DEF Minted
<1>2. ~Recorded(d)
  BY <1>1 DEF Fresh, Recorded
<1> QED BY <1>2 DEF IInv, FileInv

\* A revoked device is active again only when the registry is read back from a
\* file that does not hold the last write (revoke_record, load_at).  An id is
\* never given to a second device, so issuing one cannot bring it back.
THEOREM RevokedStaysCorrect == Spec => RevokedStays
<1> DEFINE Stays == \A d \in Devices :
                       devs[d].st = "revoked" /\ devs'[d].st = "active" => saveFailed
<1>1. ASSUME IInv, [Next]_vars PROVE Stays
  <2>1. CASE UNCHANGED devs
    BY <2>1
  <2>2. ASSUME NEW d \in Devices, Fresh(d), Issue(d) PROVE Stays
    <3>1. devs[d].st = "none"
      BY <1>1, <2>2, FreshIsNew
    <3>2. \A x \in Devices : x # d => devs'[x] = devs[x]
      BY <1>1, <2>2 DEF Issue, Save, IInv, Fields
    <3> QED BY <3>1, <3>2
  <2>3. ASSUME NEW p \in Phones, NEW k \in 1..MaxTok, AnswerSelf(p, k) PROVE Stays
    <3>1. CASE AddToken(req[p].dev, k)
      BY <1>1, <2>3, <3>1 DEF AddToken, Save, IInv, Fields
    <3>2. CASE UNCHANGED store
      BY <3>2 DEF store
    <3> QED BY <2>3, <3>1, <3>2 DEF AnswerSelf
  <2>4. ASSUME NEW d \in Devices, RevokeRecord(d) \/ Forget(d) \/ SaveAgain(d) PROVE Stays
    <3>1. CASE RevokeRecord(d)
      BY <1>1, <3>1 DEF RevokeRecord, Save, IInv, Fields
    <3>2. CASE Forget(d)
      BY <1>1, <3>2 DEF Forget, Save, NoRecord, IInv, Fields
    <3>3. CASE SaveAgain(d)
      BY <2>1, <3>3 DEF SaveAgain, Save
    <3> QED BY <2>4, <3>1, <3>2, <3>3
  <2>5. CASE Restart
    <3>1. devs' = file
      BY <2>5 DEF Restart
    <3>2. ~saveFailed => devs' = devs
      BY <1>1, <3>1 DEF IInv, FileInv
    <3> QED BY <3>2
  <2>6. ASSUME NEW c \in Codes, NEW d \in Devices, Approve(c, d) PROVE Stays
    BY <2>2, <2>6 DEF Approve
  <2>7. ASSUME NEW p \in Phones, NEW d \in Devices, IssueAuto(p, d) PROVE Stays
    BY <2>2, <2>7 DEF IssueAuto
  <2>8. CASE Next
    <3>1. ASSUME NEW c \in Codes, NEW target \in Targets, NEW d \in Devices \cup {NoDev},
                 CreateCode(c, target, d)
          PROVE Stays
      BY <2>1, <3>1 DEF CreateCode, store
    <3>2. ASSUME NEW c \in Codes,
                 Mistype(c) \/ Deny(c) \/ CodeExpires(c) \/ PairExpires(c) \/ PairDropped(c)
                 \/ Poll(c)
          PROVE Stays
      BY <2>1, <3>2 DEF Mistype, Deny, CodeExpires, PairExpires, PairDropped, Poll, store
    <3>3. ASSUME NEW p \in Phones, NEW c \in Codes,
                 ReplayCode(p, c) \/ TakeLanCode(p, c) \/ TakeSelfCode(p, c)
                 \/ TakeInternetCode(p, c)
          PROVE Stays
      BY <2>1, <3>3 DEF ReplayCode, TakeLanCode, TakeSelfCode, TakeInternetCode, store
    <3>4. ASSUME NEW p \in Phones, NEW t \in Tokens, StartRun(p, t) PROVE Stays
      BY <2>1, <3>4 DEF StartRun, store
    <3>5. ASSUME NEW p \in Phones,
                 AnswerAuto(p) \/ WatchRevocations(p) \/ CheckRevoked(p) \/ RunEnds(p)
          PROVE Stays
      BY <2>1, <3>5 DEF AnswerAuto, WatchRevocations, CheckRevoked, RunEnds, store
    <3>6. ASSUME NEW d \in Devices, AnnounceRevoked(d) PROVE Stays
      BY <2>1, <3>6 DEF AnnounceRevoked, store
    <3> HIDE DEF Stays
    <3> QED BY <2>3, <2>4, <2>5, <2>6, <2>7, <2>8, <3>1, <3>2, <3>3, <3>4, <3>5, <3>6
       DEF Next
  <2>9. CASE UNCHANGED vars
    BY <2>1, <2>9 DEF vars
  <2> QED BY <1>1, <2>8, <2>9
<1>2. IInv /\ [Next]_vars => [Stays]_vars
  BY <1>1
<1> QED BY <1>2, Invariance, PTL DEF Spec, RevokedStays
=============================================================================
