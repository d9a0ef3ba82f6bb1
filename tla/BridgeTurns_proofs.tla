------------------------- MODULE BridgeTurns_proofs -------------------------
(***************************************************************************)
(* Proofs about turns, hosts and the account switch of a conversation of   *)
(* the HTTP API (module BridgeTurns), for any number of calls of each kind *)
(* and of host processes.                                                  *)
(***************************************************************************)
EXTENDS BridgeTurns, FiniteSetTheorems, TLAPS

(* The inductive invariant.                                                *)

\* The terminal frames in the log of an operation.
Ends(t) == {k \in DOMAIN log[t] : log[t][k] = "terminal"}

Typed ==
  /\ registered \subseteq Turns /\ closed \subseteq Turns
  /\ status \in [Turns -> {"none", "running", "ended", "lost"}]
  /\ DOMAIN untold = Turns
  /\ DOMAIN log = Turns /\ \A t \in Turns : log[t] \in Seq(Frames)
  /\ underway \in Switches \cup {Nobody}
  /\ installed \in Hosts \cup {0} /\ alive \subseteq Hosts
  /\ reader \in [Hosts -> {"none", "reading", "retiring", "done"}]
  /\ proc \in [Hosts -> {"none", "up", "dead"}]
  /\ gen \in [Callers -> Hosts \cup {0}]
  /\ DOMAIN pc = Callers

\* Where an operation stands: not finished; finished and one party has to tell
\* it; told, and that party has to close the log; closed.
Unfinished(t) == /\ status[t] \in {"none", "running"} /\ untold[t] = {}
                 /\ Ends(t) = {} /\ t \notin closed
ToTell(t) == /\ status[t] \in {"ended", "lost"} /\ \E x \in Hosts \cup Callers : untold[t] = {<<x, "frame">>}
             /\ Ends(t) = {} /\ t \notin closed
ToClose(t) == /\ status[t] \in {"ended", "lost"} /\ \E x \in Hosts \cup Callers : untold[t] = {<<x, "close">>}
              /\ (\E k \in DOMAIN log[t] : Ends(t) = {k}) /\ t \notin closed
Over(t) == /\ status[t] \in {"ended", "lost"} /\ untold[t] = {}
           /\ (\E k \in DOMAIN log[t] : Ends(t) = {k}) /\ t \in closed

ToldOnce == \A t \in Turns : Unfinished(t) \/ ToTell(t) \/ ToClose(t) \/ Over(t)

\* A call that has not created its operation has done nothing with a host.
Unborn == \A t \in Turns : pc[t] \in {"idle", "creating"} => status[t] = "none" /\ gen[t] = 0

\* Hosts are numbered in the order of their starts; one whose process runs counts
\* as alive, and one whose reader is through is dead and was taken down.
Numbered == \A g \in Hosts : proc[g] # "none" => \A h \in 1..g : proc[h] # "none"
HostsInv ==
  /\ Numbered
  /\ installed # 0 => proc[installed] # "none"
  /\ \A g \in Hosts : /\ proc[g] = "up" => g \in alive
                      /\ reader[g] \in {"retiring", "done"} => proc[g] = "dead"
                      /\ reader[g] = "done" => installed # g
  /\ \A c \in Callers : gen[c] # 0 => proc[gen[c]] # "none"

\* An operation that runs was started on the host that is installed.
OnInstalled == \A t \in Turns : Running(t) /\ gen[t] # 0 => gen[t] = installed

IInv == Typed /\ ToldOnce /\ Unborn /\ HostsInv /\ OnInstalled /\ SwitchExcludesTurns


---------------------------------------------------------------------------
(* What the pieces of a step do.                                           *)

\* The kinds of callers are apart, and no host is numbered 0.
LEMMA Apart ==
  /\ Turns \subseteq Callers /\ Steers \subseteq Callers /\ Interrupts \subseteq Callers
  /\ Switches \subseteq Callers /\ Nobody \notin Callers
  /\ Turns \cap Switches = {} /\ Turns \cap Steers = {} /\ Turns \cap Interrupts = {}
  /\ Switches \cap Steers = {} /\ Switches \cap Interrupts = {}
  /\ \A c \in Steers \cup Interrupts : Names[c] \in Turns
  /\ Hosts \subseteq Nat \ {0} /\ 0 \notin Hosts
BY TurnsAssumption DEF Callers, Hosts

\* What an append does to the terminal frames of a log.
LEMMA EndsAppend ==
  ASSUME NEW s \in Seq(Frames), NEW f \in Frames
  PROVE  /\ Append(s, f) \in Seq(Frames)
         /\ f # "terminal" => {k \in DOMAIN Append(s, f) : Append(s, f)[k] = "terminal"}
                                = {k \in DOMAIN s : s[k] = "terminal"}
         /\ {k \in DOMAIN s : s[k] = "terminal"} = {}
              => {k \in DOMAIN Append(s, "terminal") : Append(s, "terminal")[k] = "terminal"}
                   = {Len(s) + 1}
         /\ Len(s) + 1 \in DOMAIN Append(s, "terminal")
<1>1. \A e \in Frames : /\ Append(s, e) \in Seq(Frames)
                        /\ DOMAIN Append(s, e) = 1..(Len(s) + 1)
                        /\ \A k \in 1..Len(s) : Append(s, e)[k] = s[k]
                        /\ Append(s, e)[Len(s) + 1] = e
  OBVIOUS
<1>2. DOMAIN s = 1..Len(s) /\ Len(s) \in Nat
  OBVIOUS
<1>3. 1..(Len(s) + 1) = 1..Len(s) \cup {Len(s) + 1} /\ Len(s) + 1 \notin 1..Len(s)
  BY <1>2
<1>4. "terminal" \in Frames
  BY DEF Frames
<1> QED BY <1>1, <1>2, <1>3, <1>4

\* The only appends of an action are of frames that are not terminal.
LogGrows ==
  \/ log' = log
  \/ \E t \in Turns, f \in {"started", "steered"} : log' = [log EXCEPT ![t] = Append(@, f)]

\* Such an append leaves the terminal frames where they are.
LEMMA EndsStay ==
  ASSUME Typed, LogGrows
  PROVE  /\ DOMAIN log' = Turns
         /\ \A t \in Turns : log'[t] \in Seq(Frames) /\ Ends(t)' = Ends(t)
<1>1. CASE log' = log
  BY <1>1 DEF Typed, Ends
<1>2. CASE \E t \in Turns, f \in {"started", "steered"} : log' = [log EXCEPT ![t] = Append(@, f)]
  <2>1. PICK u \in Turns, f \in {"started", "steered"} : log' = [log EXCEPT ![u] = Append(@, f)]
    BY <1>2
  <2>2. DOMAIN log = Turns /\ \A t \in Turns : log[t] \in Seq(Frames)
    BY DEF Typed
  <2>3. f \in Frames /\ f # "terminal"
    BY DEF Frames
  <2>4. \A t \in Turns : log'[t] = IF t = u THEN Append(log[u], f) ELSE log[t]
    BY <2>1, <2>2
  <2>5. DOMAIN log' = Turns
    BY <2>1, <2>2
  <2> SUFFICES ASSUME NEW t \in Turns
               PROVE  log'[t] \in Seq(Frames) /\ Ends(t)' = Ends(t)
    BY <2>5
  <2>6. CASE t = u
    <3>1. log[u] \in Seq(Frames) /\ log'[t] = Append(log[u], f)
      BY <2>2, <2>4, <2>6
    <3>2. /\ Append(log[u], f) \in Seq(Frames)
          /\ {k \in DOMAIN Append(log[u], f) : Append(log[u], f)[k] = "terminal"}
               = {k \in DOMAIN log[u] : log[u][k] = "terminal"}
      BY <2>3, <3>1, EndsAppend
    <3> QED BY <2>6, <3>1, <3>2, Zenon DEF Ends
  <2>7. CASE t # u
    BY <2>2, <2>4, <2>7 DEF Ends
  <2> QED BY <2>6, <2>7
<1> QED BY <1>1, <1>2 DEF LogGrows

\* What is said of the telling of operations stays so while only logs grow.
LEMMA ToldStays ==
  ASSUME Typed, ToldOnce, LogGrows, UNCHANGED <<status, untold, closed>>
  PROVE  ToldOnce'
<1> SUFFICES ASSUME NEW t \in Turns
             PROVE  (Unfinished(t) \/ ToTell(t) \/ ToClose(t) \/ Over(t))'
  BY DEF ToldOnce
<1>1. Ends(t)' = Ends(t)
  BY EndsStay
<1>2. Unfinished(t) \/ ToTell(t) \/ ToClose(t) \/ Over(t)
  BY DEF ToldOnce
<1>3. status'[t] = status[t] /\ untold'[t] = untold[t] /\ closed' = closed
  OBVIOUS
<1>4. CASE Unfinished(t)
  BY <1>1, <1>3, <1>4 DEF Unfinished
<1>5. CASE ToTell(t)
  BY <1>1, <1>3, <1>5 DEF ToTell
<1>6. Ends(t) \subseteq DOMAIN log[t] /\ Ends(t)' \subseteq (DOMAIN log[t])'
  BY DEF Ends
<1>7. CASE ToClose(t)
  BY <1>1, <1>3, <1>6, <1>7 DEF ToClose
<1>8. CASE Over(t)
  BY <1>1, <1>3, <1>6, <1>8 DEF Over
<1> QED BY <1>2, <1>4, <1>5, <1>7, <1>8

\* Whoever finishes operations is the one who will tell those that ran, and has
\* changed nothing else (OperationRegistry::finish, ops.rs).
LEMMA FinishedOnce ==
  ASSUME Typed, ToldOnce, NEW ts \in SUBSET Turns, NEW st \in {"ended", "lost"},
         NEW who \in Hosts \cup Callers, Finished(ts, st, who), UNCHANGED <<log, closed>>
  PROVE  /\ ToldOnce'
         /\ status' \in [Turns -> {"none", "running", "ended", "lost"}]
         /\ DOMAIN untold' = Turns
         /\ \A t \in Turns : status[t] # "running" => status'[t] = status[t]
         /\ \A t \in Turns : status'[t] = "running" => status[t] = "running" /\ t \notin ts
         /\ \A t \in Turns : status'[t] # status[t] => status[t] = "running" /\ t \in ts
<1> DEFINE won == {t \in ts : status[t] = "running"}
<1>1. status' = [t \in Turns |-> IF t \in won THEN st ELSE status[t]]
  BY DEF Finished
<1>2. untold' = [t \in Turns |-> IF t \in won THEN untold[t] \cup {<<who, "frame">>} ELSE untold[t]]
  BY DEF Finished
<1>3. \A t \in Turns : /\ status'[t] = IF t \in won THEN st ELSE status[t]
                       /\ untold'[t] = IF t \in won THEN untold[t] \cup {<<who, "frame">>}
                                       ELSE untold[t]
  BY <1>1, <1>2
<1>4. ToldOnce'
  <2> SUFFICES ASSUME NEW t \in Turns
               PROVE  (Unfinished(t) \/ ToTell(t) \/ ToClose(t) \/ Over(t))'
    BY DEF ToldOnce
  <2>1. Unfinished(t) \/ ToTell(t) \/ ToClose(t) \/ Over(t)
    BY DEF ToldOnce
  <2>2. Ends(t)' = Ends(t) /\ closed' = closed /\ log'[t] = log[t]
    BY DEF Ends
  <2>3. CASE t \in won
    <3>1. Unfinished(t)
      BY <2>1, <2>3 DEF ToTell, ToClose, Over
    <3>2. status'[t] = st /\ untold'[t] = {<<who, "frame">>}
      BY <1>3, <2>3, <3>1 DEF Unfinished
    <3>3. ToTell(t)'
      BY <2>2, <3>1, <3>2 DEF ToTell, Unfinished
    <3> QED BY <3>3
  <2>4. CASE t \notin won
    <3>1. status'[t] = status[t] /\ untold'[t] = untold[t]
      BY <1>3, <2>4
    <3> QED BY <2>1, <2>2, <3>1 DEF Unfinished, ToTell, ToClose, Over
  <2> QED BY <2>3, <2>4
<1> HIDE DEF won
<1>5. status' \in [Turns -> {"none", "running", "ended", "lost"}]
  BY <1>1 DEF Typed
<1>6. DOMAIN untold' = Turns
  BY <1>2
<1>7. \A t \in Turns : /\ status[t] # "running" => status'[t] = status[t]
                       /\ status'[t] = "running" => status[t] = "running" /\ t \notin ts
                       /\ status'[t] # status[t] => status[t] = "running" /\ t \in ts
  BY <1>3 DEF won
<1> QED BY <1>4, <1>5, <1>6, <1>7

---------------------------------------------------------------------------
(* What each step keeps.                                                   *)

\* A host whose process runs is still counted as alive.
AliveKept == alive' \subseteq alive /\ \A g \in Hosts : proc[g] = "up" /\ g \in alive => g \in alive'

\* Nothing but the logs, and which dead hosts are known to be dead, changes of
\* what the invariant is about.
Unmoved == /\ UNCHANGED <<registered, status, untold, closed, underway, installed, reader, proc, gen>>
           /\ LogGrows /\ AliveKept

LEMMA UnmovedKeeps ==
  ASSUME IInv, Unmoved
  PROVE  /\ DOMAIN pc' = Callers => Typed'
         /\ ToldOnce' /\ HostsInv' /\ OnInstalled'
<1>1. DOMAIN pc' = Callers => Typed'
  BY EndsStay DEF IInv, Typed, Unmoved, AliveKept
<1>2. ToldOnce'
  BY ToldStays DEF IInv, Unmoved
<1>3. HostsInv'
  BY DEF IInv, HostsInv, Numbered, Unmoved, AliveKept
<1>4. OnInstalled'
  BY DEF IInv, OnInstalled, Running, Unmoved
<1> QED BY <1>1, <1>2, <1>3, <1>4

\* A step that touches nothing of that, and no caller.
LEMMA Still ==
  ASSUME IInv, Unmoved, UNCHANGED pc
  PROVE  IInv'
<1>1. Typed' /\ ToldOnce' /\ HostsInv' /\ OnInstalled'
  BY UnmovedKeeps DEF IInv, Typed
<1>2. Unborn'
  BY DEF IInv, Unborn, Unmoved
<1>3. SwitchExcludesTurns'
  BY DEF IInv, SwitchExcludesTurns, PastLook, Running, Unmoved
<1> QED BY <1>1, <1>2, <1>3 DEF IInv

\* A caller moves on.  A turn that was registered has looked for a switch when it
\* does, and a switch that goes on has looked for turns.
LEMMA Moves ==
  ASSUME IInv, Unmoved, NEW c \in Callers, NEW l, Goto(c, l),
         l \in {"idle", "creating"} => pc[c] = "idle",
         c \in Turns => pc[c] # "checking",
         c \in Switches => \/ pc[c] \notin {"looking", "finishing", "dropped"}
                           \/ l \in {"looking", "finishing", "dropped"}
                           \/ \A t \in Turns : ~Running(t)
                           \/ underway # c
  PROVE  IInv'
<1>1. DOMAIN pc = Callers /\ pc' = [pc EXCEPT ![c] = l]
  BY DEF IInv, Typed, Goto
<1>2. DOMAIN pc' = Callers /\ \A d \in Callers : pc'[d] = IF d = c THEN l ELSE pc[d]
  BY <1>1
<1>3. Typed' /\ ToldOnce' /\ HostsInv' /\ OnInstalled'
  BY <1>2, UnmovedKeeps
<1>4. Unborn'
  BY <1>2, Apart DEF IInv, Unborn, Unmoved
<1>5. SwitchExcludesTurns'
  <2> SUFFICES ASSUME PastLook', NEW t \in Turns, Running(t)'
               PROVE  pc'[t] = "checking"
    BY DEF SwitchExcludesTurns
  <2>1. underway' = underway /\ underway \in Switches /\ Running(t)
    BY DEF PastLook, IInv, Typed, Running, Unmoved
  <2>2. PastLook
    <3>1. CASE underway = c
      BY <1>2, <2>1, <3>1, Apart DEF PastLook
    <3>2. CASE underway # c
      BY <1>2, <2>1, <3>2, Apart DEF PastLook
    <3> QED BY <3>1, <3>2
  <2>3. pc[t] = "checking"
    BY <2>1, <2>2 DEF IInv, SwitchExcludesTurns
  <2>4. t # c
    BY <2>3
  <2> QED BY <1>2, <2>3, <2>4, Apart
<1> QED BY <1>3, <1>4, <1>5 DEF IInv

\* An operation is taken out of the registry when its turn is refused.
LEMMA Discards ==
  ASSUME IInv, NEW t \in Turns, NEW l \in {"done", "announcing"}, Goto(t, l),
         pc[t] \notin {"idle"},
         registered' \subseteq registered,
         pc[t] = "checking" => underway = Nobody \/ registered' = registered \ {t},
         UNCHANGED <<status, untold, log, closed, underway, installed, alive, reader, proc, gen>>
  PROVE  IInv'
<1>1. DOMAIN pc = Callers /\ pc' = [pc EXCEPT ![t] = l] /\ t \in Callers
  BY Apart DEF IInv, Typed, Goto
<1>2. DOMAIN pc' = Callers /\ \A d \in Callers : pc'[d] = IF d = t THEN l ELSE pc[d]
  BY <1>1
<1>3. Typed'
  BY <1>2 DEF IInv, Typed
<1>4. ToldOnce'
  BY ToldStays DEF IInv, LogGrows
<1>5. HostsInv'
  BY DEF IInv, HostsInv, Numbered
<1>6. \A u \in Turns : Running(u)' => Running(u)
  BY DEF Running
<1>7. OnInstalled'
  BY <1>6 DEF IInv, OnInstalled
<1>8. Unborn'
  BY <1>2, Apart DEF IInv, Unborn
<1>9. SwitchExcludesTurns'
  <2> SUFFICES ASSUME PastLook', NEW u \in Turns, Running(u)'
               PROVE  pc'[u] = "checking"
    BY DEF SwitchExcludesTurns
  <2>1. underway \in Switches /\ underway # Nobody
    BY DEF PastLook, IInv, Typed
  <2>2. PastLook
    BY <1>2, <2>1, Apart DEF PastLook
  <2>3. pc[u] = "checking"
    BY <1>6, <2>2 DEF IInv, SwitchExcludesTurns
  <2>4. u # t
    BY <2>1, <2>3 DEF Running
  <2> QED BY <1>2, <2>3, <2>4, Apart
<1> QED BY <1>3, <1>4, <1>5, <1>7, <1>8, <1>9 DEF IInv

---------------------------------------------------------------------------
(* The steps of begin_turn.                                                *)

LEMMA CreateKeeps == ASSUME IInv, NEW t \in Turns, Create(t) PROVE IInv'
<1>1. /\ registered' = registered \cup {t}
      /\ status' = [status EXCEPT ![t] = "running"]
      /\ pc[t] = "creating" /\ pc' = [pc EXCEPT ![t] = "checking"]
      /\ UNCHANGED <<untold, log, closed, underway, installed, alive, reader, proc, gen>>
  BY DEF Create, Goto, switchVars, hostVars
<1>2. status[t] = "none" /\ gen[t] = 0
  BY <1>1 DEF IInv, Unborn
<1>3. /\ DOMAIN pc' = Callers
      /\ \A d \in Callers : pc'[d] = IF d = t THEN "checking" ELSE pc[d]
      /\ \A u \in Turns : status'[u] = IF u = t THEN "running" ELSE status[u]
  BY <1>1, Apart DEF IInv, Typed
<1>4. Typed'
  BY <1>1, <1>3 DEF IInv, Typed
<1>5. ToldOnce'
  <2> SUFFICES ASSUME NEW u \in Turns
               PROVE  (Unfinished(u) \/ ToTell(u) \/ ToClose(u) \/ Over(u))'
    BY DEF ToldOnce
  <2>1. Ends(u)' = Ends(u) /\ untold'[u] = untold[u] /\ closed' = closed /\ log'[u] = log[u]
    BY <1>1 DEF Ends
  <2>2. Unfinished(u) \/ ToTell(u) \/ ToClose(u) \/ Over(u)
    BY DEF IInv, ToldOnce
  <2>3. CASE u = t
    BY <1>2, <1>3, <2>1, <2>2, <2>3 DEF Unfinished, ToTell, ToClose, Over
  <2>4. CASE u # t
    BY <1>3, <2>1, <2>2, <2>4 DEF Unfinished, ToTell, ToClose, Over
  <2> QED BY <2>3, <2>4
<1>6. HostsInv'
  BY <1>1 DEF IInv, HostsInv, Numbered
<1>7. \A u \in Turns : Running(u)' => u = t \/ Running(u)
  BY <1>1, <1>3 DEF Running
<1>8. OnInstalled'
  BY <1>1, <1>2, <1>7 DEF IInv, OnInstalled
<1>9. Unborn'
  BY <1>1, <1>3, Apart DEF IInv, Unborn
<1>10. SwitchExcludesTurns'
  <2>1. PastLook' => PastLook
    BY <1>1, <1>3, Apart DEF PastLook, IInv, Typed
  <2> QED BY <1>3, <1>7, <2>1, Apart DEF IInv, SwitchExcludesTurns
<1> QED BY <1>4, <1>5, <1>6, <1>8, <1>9, <1>10 DEF IInv

LEMMA BeginTurnKeeps == ASSUME IInv, NEW t \in Turns, BeginTurn(t) PROVE IInv'
<1> t \in Callers /\ t \notin Switches
  BY Apart
<1>1. CASE Count(t)
  <2>1. Unmoved
    BY <1>1 DEF Count, Unmoved, registry, switchVars, hostVars, LogGrows, AliveKept
  <2>2. pc[t] = "idle" /\ (Goto(t, "done") \/ Goto(t, "creating"))
    BY <1>1 DEF Count
  <2> QED BY <2>1, <2>2, Moves
<1>2. CASE Create(t)
  BY <1>2, CreateKeeps
<1>3. CASE CheckSwitch(t)
  <2>1. /\ pc[t] = "checking"
        /\ \/ underway # Nobody /\ registered' = registered \ {t} /\ Goto(t, "done")
           \/ underway = Nobody /\ registered' = registered /\ Goto(t, "announcing")
        /\ UNCHANGED <<status, untold, log, closed, underway, installed, alive, reader, proc, gen>>
    BY <1>3 DEF CheckSwitch, switchVars, hostVars
  <2> QED BY <2>1, Discards
<1>4. CASE Announce(t)
  <2>1. Unmoved
    BY <1>4 DEF Announce, Append1, Unmoved, switchVars, hostVars, LogGrows, AliveKept
  <2>2. pc[t] = "announcing" /\ Goto(t, "calling")
    BY <1>4 DEF Announce, Call
  <2> QED BY <2>1, <2>2, Moves
<1>5. CASE Begun(t)
  <2>1. pc[t] \in {"awaiting", "unavailable"}
    BY <1>5 DEF Begun, Returns
  <2>2. /\ registered' = registered \/ registered' = registered \ {t}
        /\ Goto(t, "done")
        /\ UNCHANGED <<status, untold, log, closed, underway, installed, alive, reader, proc, gen>>
    BY <1>5 DEF Begun, switchVars
  <2> QED BY <2>1, <2>2, Discards
<1> QED BY <1>1, <1>2, <1>3, <1>4, <1>5 DEF BeginTurn

---------------------------------------------------------------------------
(* The steps that tell of an operation that is finished.                   *)

\* The operation is told of in the one frame that is due.
LEMMA TellTells ==
  ASSUME IInv, NEW t \in Turns, Tell(t)
  PROVE  /\ DOMAIN untold' = Turns /\ DOMAIN log' = Turns
         /\ \A u \in Turns : log'[u] \in Seq(Frames)
         /\ ToldOnce'
<1>1. PICK x \in untold[t] : /\ x[2] = "frame"
                             /\ untold' = [untold EXCEPT ![t] = (@ \ {x}) \cup {<<x[1], "close">>}]
  BY DEF Tell
<1>2. DOMAIN untold = Turns /\ DOMAIN log = Turns /\ \A u \in Turns : log[u] \in Seq(Frames)
  BY DEF IInv, Typed
<1>3. \A u \in Turns : Unfinished(u) \/ ToTell(u) \/ ToClose(u) \/ Over(u)
  BY DEF IInv, ToldOnce
<1>4. ToTell(t)
  BY <1>1, <1>3 DEF Unfinished, ToClose, Over
<1>5. PICK w \in Hosts \cup Callers : untold[t] = {<<w, "frame">>}
  BY <1>4 DEF ToTell
<1>6. x = <<w, "frame">>
  BY <1>1, <1>5
<1>7. DOMAIN untold' = Turns /\ \A u \in Turns : u # t => untold'[u] = untold[u]
  BY <1>1, <1>2
<1>8. untold'[t] = {<<w, "close">>}
  BY <1>1, <1>2, <1>5, <1>6
<1>9. t \notin closed /\ status' = status /\ closed' = closed
  BY <1>4 DEF Tell, ToTell
<1>10. log' = [log EXCEPT ![t] = Append(@, "terminal")]
  BY <1>9 DEF Tell, Append1
<1>11. DOMAIN log' = Turns /\ \A u \in Turns : u # t => log'[u] = log[u]
  BY <1>2, <1>10
<1>12. log[t] \in Seq(Frames) /\ log'[t] = Append(log[t], "terminal")
  BY <1>2, <1>10
<1>13. log'[t] \in Seq(Frames)
  BY <1>12, EndsAppend DEF Frames
<1>14. Ends(t)' = {Len(log[t]) + 1} /\ Len(log[t]) + 1 \in DOMAIN log'[t]
  <2>1. "terminal" \in Frames
    BY DEF Frames
  <2>2. {k \in DOMAIN log[t] : log[t][k] = "terminal"} = {}
    BY <1>4 DEF ToTell, Ends
  <2>3. /\ {k \in DOMAIN Append(log[t], "terminal") : Append(log[t], "terminal")[k] = "terminal"}
             = {Len(log[t]) + 1}
        /\ Len(log[t]) + 1 \in DOMAIN Append(log[t], "terminal")
    BY <1>12, <2>1, <2>2, EndsAppend
  <2> QED BY <1>12, <2>3, Zenon DEF Ends
<1>15. ToldOnce'
  <2> SUFFICES ASSUME NEW u \in Turns
               PROVE  (Unfinished(u) \/ ToTell(u) \/ ToClose(u) \/ Over(u))'
    BY DEF ToldOnce
  <2>1. CASE u = t
    <3>1. ToClose(t)'
      BY <1>4, <1>8, <1>9, <1>14 DEF ToClose, ToTell
    <3> QED BY <2>1, <3>1
  <2>2. CASE u # t
    <3>1. untold'[u] = untold[u] /\ log'[u] = log[u] /\ Ends(u)' = Ends(u)
      BY <1>7, <1>11, <2>2 DEF Ends
    <3> QED BY <1>3, <1>9, <3>1 DEF Unfinished, ToTell, ToClose, Over
  <2> QED BY <2>1, <2>2
<1>16. \A u \in Turns : log'[u] \in Seq(Frames)
  BY <1>2, <1>11, <1>13
<1> QED BY <1>7, <1>11, <1>15, <1>16

\* A log is closed that holds its terminal frame.
LEMMA CloseLogCloses ==
  ASSUME IInv, NEW t \in Turns, CloseLog(t)
  PROVE  DOMAIN untold' = Turns /\ closed' \subseteq Turns /\ ToldOnce'
<1>1. PICK x \in untold[t] : x[2] = "close" /\ untold' = [untold EXCEPT ![t] = @ \ {x}]
  BY DEF CloseLog
<1>2. closed' = closed \cup {t} /\ status' = status /\ log' = log
  BY DEF CloseLog
<1>3. DOMAIN untold = Turns /\ closed \subseteq Turns
  BY DEF IInv, Typed
<1>4. \A u \in Turns : Unfinished(u) \/ ToTell(u) \/ ToClose(u) \/ Over(u)
  BY DEF IInv, ToldOnce
<1>5. ToClose(t)
  BY <1>1, <1>4 DEF Unfinished, ToTell, Over
<1>6. PICK w \in Hosts \cup Callers : untold[t] = {<<w, "close">>}
  BY <1>5 DEF ToClose
<1>7. DOMAIN untold' = Turns /\ untold'[t] = {} /\ \A u \in Turns : u # t => untold'[u] = untold[u]
  BY <1>1, <1>3, <1>6
<1>8. \A u \in Turns : Ends(u)' = Ends(u) /\ log'[u] = log[u]
  BY <1>2 DEF Ends
<1>9. ToldOnce'
  <2> SUFFICES ASSUME NEW u \in Turns
               PROVE  (Unfinished(u) \/ ToTell(u) \/ ToClose(u) \/ Over(u))'
    BY DEF ToldOnce
  <2>1. CASE u = t
    <3>1. Over(t)'
      BY <1>2, <1>5, <1>7, <1>8 DEF Over, ToClose
    <3> QED BY <2>1, <3>1
  <2>2. CASE u # t
    <3>1. untold'[u] = untold[u] /\ status'[u] = status[u] /\ (u \in closed' <=> u \in closed)
      BY <1>2, <1>7, <2>2
    <3> QED BY <1>4, <1>8, <3>1 DEF Unfinished, ToTell, ToClose, Over
  <2> QED BY <2>1, <2>2
<1> QED BY <1>2, <1>3, <1>7, <1>9

LEMMA ToldKeeps == ASSUME IInv, NEW t \in Turns, Told(t) PROVE IInv'
<1>1. UNCHANGED <<registered, status, underway, installed, alive, reader, proc, gen, pc>>
  BY DEF Told, Tell, CloseLog, switchVars, hostVars, callVars
<1>2. Typed' /\ ToldOnce'
  <2>1. CASE Tell(t)
    <3>1. closed' = closed
      BY <2>1 DEF Tell
    <3> QED BY <1>1, <2>1, <3>1, TellTells DEF IInv, Typed
  <2>2. CASE CloseLog(t)
    <3>1. log' = log
      BY <2>2 DEF CloseLog
    <3> QED BY <1>1, <2>2, <3>1, CloseLogCloses DEF IInv, Typed
  <2> QED BY <2>1, <2>2 DEF Told
<1>3. HostsInv'
  BY <1>1 DEF IInv, HostsInv, Numbered
<1>4. Unborn' /\ OnInstalled' /\ SwitchExcludesTurns'
  BY <1>1 DEF IInv, Unborn, OnInstalled, SwitchExcludesTurns, PastLook, Running
<1> QED BY <1>2, <1>3, <1>4 DEF IInv

---------------------------------------------------------------------------
(* The steps of steers, interrupts and switches.                           *)

LEMMA SteerOrInterruptKeeps ==
  ASSUME IInv, NEW c \in Steers \cup Interrupts, SteerOrInterrupt(c) PROVE IInv'
<1> c \in Callers /\ c \notin Turns /\ c \notin Switches /\ Names[c] \in Turns
  BY Apart
<1>1. CASE Lookup(c)
  <2>1. Unmoved
    BY <1>1 DEF Lookup, Unmoved, registry, switchVars, hostVars, LogGrows, AliveKept
  <2>2. Goto(c, "calling") \/ Goto(c, "done")
    BY <1>1 DEF Lookup, Call
  <2> QED BY <2>1, <2>2, Moves
<1>2. CASE Steered(c)
  <2>1. Unmoved
    BY <1>2 DEF Steered, Append1, Unmoved, switchVars, LogGrows, AliveKept
  <2>2. Goto(c, "done")
    BY <1>2 DEF Steered
  <2> QED BY <2>1, <2>2, Moves
<1> QED BY <1>1, <1>2 DEF SteerOrInterrupt

LEMMA BeginKeeps == ASSUME IInv, NEW w \in Switches, Begin(w) PROVE IInv'
<1> w \in Callers /\ w \notin Turns /\ w # Nobody
  BY Apart
<1>1. CASE underway # Nobody
  <2>1. Unmoved /\ Goto(w, "done")
    BY <1>1 DEF Begin, Unmoved, registry, hostVars, LogGrows, AliveKept
  <2>2. pc[w] = "idle"
    BY DEF Begin
  <2> QED BY <2>1, <2>2, Moves
<1>2. CASE underway = Nobody
  <2>1. /\ underway' = w /\ pc' = [pc EXCEPT ![w] = "looking"]
        /\ UNCHANGED <<registered, status, untold, log, closed, installed, alive, reader, proc, gen>>
    BY <1>2 DEF Begin, Goto, registry, hostVars
  <2>2. DOMAIN pc' = Callers /\ \A d \in Callers : pc'[d] = IF d = w THEN "looking" ELSE pc[d]
    BY <2>1 DEF IInv, Typed
  <2>3. Typed'
    BY <2>1, <2>2 DEF IInv, Typed
  <2>4. ToldOnce'
    BY <2>1, ToldStays DEF IInv, LogGrows
  <2>5. HostsInv'
    BY <2>1 DEF IInv, HostsInv, Numbered
  <2>6. OnInstalled' /\ Unborn'
    BY <2>1, <2>2, Apart DEF IInv, OnInstalled, Unborn, Running
  <2>7. SwitchExcludesTurns'
    BY <2>1, <2>2 DEF SwitchExcludesTurns, PastLook
  <2> QED BY <2>3, <2>4, <2>5, <2>6, <2>7 DEF IInv
<1> QED BY <1>1, <1>2

LEMMA FinishKeeps == ASSUME IInv, NEW w \in Switches, Finish(w) PROVE IInv'
<1>1. /\ underway' = Nobody /\ pc' = [pc EXCEPT ![w] = "done"]
      /\ UNCHANGED <<registered, status, untold, log, closed, installed, alive, reader, proc, gen>>
  BY DEF Finish, Goto, registry, hostVars
<1>2. DOMAIN pc' = Callers /\ \A d \in Callers : pc'[d] = IF d = w THEN "done" ELSE pc[d]
  BY <1>1 DEF IInv, Typed
<1>3. Typed'
  BY <1>1, <1>2 DEF IInv, Typed
<1>4. ToldOnce'
  BY <1>1, ToldStays DEF IInv, LogGrows
<1>5. HostsInv'
  BY <1>1 DEF IInv, HostsInv, Numbered
<1>6. OnInstalled' /\ Unborn'
  BY <1>1, <1>2, Apart DEF IInv, OnInstalled, Unborn, Running
<1>7. SwitchExcludesTurns'
  BY <1>1 DEF SwitchExcludesTurns, PastLook
<1> QED BY <1>3, <1>4, <1>5, <1>6, <1>7 DEF IInv

LEMMA SwitchKeeps == ASSUME IInv, NEW w \in Switches, Switch(w) PROVE IInv'
<1> w \in Callers /\ w \notin Turns
  BY Apart
<1> USE DEF Unmoved, registry, switchVars, hostVars, callVars, LogGrows, AliveKept
<1>1. CASE LookForTurns(w)
  <2>1. /\ Unmoved
        /\ Goto(w, "finishing") \/ (Goto(w, "closing") /\ \A t \in Turns : ~Running(t))
    BY <1>1 DEF LookForTurns
  <2> HIDE DEF Unmoved, registry, switchVars, hostVars, callVars, LogGrows, AliveKept
  <2> QED BY <2>1, Moves
<1>2. CASE CloseForSwitch(w)
  <2>1. Unmoved /\ pc[w] = "closing" /\ Goto(w, "calling")
    BY <1>2 DEF CloseForSwitch, Reopen, Call
  <2> HIDE DEF Unmoved, registry, switchVars, hostVars, callVars, LogGrows, AliveKept
  <2> QED BY <2>1, Moves
<1>3. CASE CloseReturns(w)
  <2>1. pc[w] \in {"awaiting", "unavailable"}
    BY <1>3 DEF CloseReturns, Returns
  <2>2. Unmoved /\ \E l \in {"ending", "calling", "finishing"} : Goto(w, l)
    BY <1>3 DEF CloseReturns, Reopen, Call
  <2> HIDE DEF Unmoved, registry, switchVars, hostVars, callVars, LogGrows, AliveKept
  <2> QED BY <2>1, <2>2, Moves
<1>4. CASE StreamEnded(w)
  <2>1. Unmoved /\ pc[w] = "ending" /\ \E l \in {"calling", "finishing"} : Goto(w, l)
    BY <1>4 DEF StreamEnded, Reopen, Call
  <2> HIDE DEF Unmoved, registry, switchVars, hostVars, callVars, LogGrows, AliveKept
  <2> QED BY <2>1, Moves
<1>5. CASE ReopenReturns(w)
  <2>1. pc[w] \in {"awaiting", "unavailable"}
    BY <1>5 DEF ReopenReturns, Returns
  <2>2. Unmoved /\ \E l \in {"calling", "finishing"} : Goto(w, l)
    BY <1>5 DEF ReopenReturns, Call
  <2> HIDE DEF Unmoved, registry, switchVars, hostVars, callVars, LogGrows, AliveKept
  <2> QED BY <2>1, <2>2, Moves
<1>6. CASE Finish(w)
  BY <1>6, FinishKeeps
<1> QED BY <1>1, <1>2, <1>3, <1>4, <1>5, <1>6 DEF Switch

---------------------------------------------------------------------------
(* The steps of calls and of hosts.                                        *)

\* Hosts are numbered as they are started, so the next number is free, and those
\* below it are taken.
LEMMA NextHost ==
  ASSUME Typed, Numbered, NEW g, g = Cardinality(Started) + 1, g \in Hosts
  PROVE  proc[g] = "none" /\ \A h \in 1..g : h # g => proc[h] # "none"
<1> USE TurnsAssumption
<1>1. /\ Hosts = 1..MaxHosts /\ MaxHosts \in Nat /\ Started \subseteq Hosts
      /\ \A h \in Hosts : h \in Started <=> proc[h] # "none"
  BY DEF Hosts, Started
<1>2. IsFiniteSet(Hosts)
  BY <1>1, FS_Interval
<1>3. IsFiniteSet(Started) /\ Cardinality(Started) \in Nat
  BY <1>1, <1>2, FS_Subset, FS_CardinalityType
<1>4. \A n \in Nat : IsFiniteSet(1..n) /\ Cardinality(1..n) = n
  <2> SUFFICES ASSUME NEW n \in Nat PROVE IsFiniteSet(1..n) /\ Cardinality(1..n) = n
    OBVIOUS
  <2>1. CASE n = 0
    <3>1. 1..n = {}
      BY <2>1
    <3> QED BY <2>1, <3>1, FS_EmptySet
  <2>2. CASE n > 0
    BY <2>2, FS_Interval
  <2> QED BY <2>1, <2>2
<1>5. proc[g] = "none"
  <2> SUFFICES ASSUME proc[g] # "none" PROVE FALSE
    OBVIOUS
  <2>1. 1..g \subseteq Started
    BY <1>1 DEF Numbered
  <2>2. Cardinality(1..g) <= Cardinality(Started)
    BY <1>3, <2>1, FS_Subset
  <2> QED BY <1>1, <1>3, <1>4, <2>2
<1>6. ASSUME NEW h \in 1..g, h # g, proc[h] = "none"
      PROVE  FALSE
  <2>1. h \in Hosts /\ h - 1 \in Nat /\ h < g
    BY <1>1, <1>6
  <2>2. Started \subseteq 1..(h - 1)
    <3> SUFFICES ASSUME NEW k \in Started, k \notin 1..(h - 1) PROVE FALSE
      OBVIOUS
    <3>1. k \in Hosts /\ proc[k] # "none" /\ h \in 1..k
      BY <1>1, <2>1
    <3> QED BY <1>6, <3>1 DEF Numbered
  <2>3. IsFiniteSet(1..(h - 1)) /\ Cardinality(1..(h - 1)) = h - 1
    BY <1>4, <2>1
  <2>4. Cardinality(Started) <= Cardinality(1..(h - 1))
    BY <2>2, <2>3, FS_Subset
  <2> QED BY <1>1, <1>3, <2>1, <2>3, <2>4
<1> QED BY <1>5, <1>6

\* What a host that is taken down leaves: no operation that was started on it
\* runs on, and only operations that ran are failed.
TakenDown(g) ==
  /\ ToldOnce'
  /\ status' \in [Turns -> {"none", "running", "ended", "lost"}]
  /\ DOMAIN untold' = Turns
  /\ \A t \in Turns : status[t] # "running" => status'[t] = status[t]
  /\ \A t \in Turns : status'[t] = "running" => status[t] = "running"
  /\ \A t \in Turns : status'[t] # status[t] => Running(t)
  /\ g # 0 => \A t \in registered : status'[t] # "running"
  /\ g = 0 => status' = status

LEMMA RetireTakesDown ==
  ASSUME IInv, NEW g \in Hosts \cup {0}, NEW who \in Hosts \cup Callers, RetireIn(g, who),
         UNCHANGED <<log, closed>>
  PROVE  TakenDown(g)
<1>1. CASE g = 0
  <2>1. UNCHANGED <<status, untold>>
    BY <1>1 DEF RetireIn
  <2>2. ToldOnce'
    BY <2>1, ToldStays DEF IInv, LogGrows
  <2> QED BY <1>1, <2>1, <2>2 DEF TakenDown, IInv, Typed
<1>2. CASE g # 0
  <2>1. Finished(registered, "lost", who)
    BY <1>2 DEF RetireIn, RetireLocked
  <2>2. registered \in SUBSET Turns /\ Typed /\ ToldOnce
    BY DEF IInv, Typed
  <2>3. /\ ToldOnce'
        /\ status' \in [Turns -> {"none", "running", "ended", "lost"}]
        /\ DOMAIN untold' = Turns
        /\ \A t \in Turns : status[t] # "running" => status'[t] = status[t]
        /\ \A t \in Turns : status'[t] = "running" => status[t] = "running" /\ t \notin registered
        /\ \A t \in Turns : status'[t] # status[t] => status[t] = "running" /\ t \in registered
    BY <2>1, <2>2, FinishedOnce
  <2> QED BY <1>2, <2>2, <2>3 DEF TakenDown, Running
<1> QED BY <1>1, <1>2

\* A call that finds no live host takes down the one that was installed, and
\* installs a new one or none.
LEMMA EnsureReplaces ==
  ASSUME IInv, NEW c \in Callers, Ensure(c), installed \notin alive
  PROVE  IInv'
<1> DEFINE g == Cardinality(Started) + 1
<1>1. /\ UNCHANGED <<registered, log, closed, underway>>
      /\ pc[c] = "calling" /\ RetireIn(installed, c)
  BY Apart DEF Ensure, switchVars
<1>2. TakenDown(installed)
  BY <1>1, RetireTakesDown DEF IInv, Typed
<1>3. \A t \in Turns : Running(t)' => Running(t) /\ gen[t] = 0
  <2> SUFFICES ASSUME NEW t \in Turns, Running(t)' PROVE Running(t) /\ gen[t] = 0
    OBVIOUS
  <2>1. Running(t) /\ installed = 0
    BY <1>1, <1>2 DEF Running, TakenDown
  <2> QED BY <2>1 DEF IInv, OnInstalled
<1>4. \A l : Goto(c, l) => /\ DOMAIN pc' = Callers
                           /\ \A d \in Callers : pc'[d] = IF d = c THEN l ELSE pc[d]
  BY DEF Goto, IInv, Typed
<1>5. \E l \in {"sending", "unavailable"} : Goto(c, l)
  BY DEF Ensure
<1>6. SwitchExcludesTurns'
  <2> SUFFICES ASSUME PastLook', NEW t \in Turns, Running(t)'
               PROVE  pc'[t] = "checking"
    BY DEF SwitchExcludesTurns
  <2>1. underway \in Switches /\ underway # Nobody /\ underway' = underway
    BY <1>1 DEF PastLook, IInv, Typed
  <2>2. PastLook
    BY <1>1, <1>4, <1>5, <2>1, Apart DEF PastLook
  <2>3. pc[t] = "checking"
    BY <1>3, <2>2 DEF IInv, SwitchExcludesTurns
  <2> QED BY <1>1, <1>4, <1>5, <2>3, Apart
<1>7. CASE g \in Hosts
  <2>1. /\ installed' = g /\ alive' = alive \cup {g}
        /\ proc' = [proc EXCEPT ![g] = "up"]
        /\ reader' = [reader EXCEPT ![g] = "reading"]
        /\ gen' = [gen EXCEPT ![c] = g]
        /\ Goto(c, "sending")
    BY <1>7 DEF Ensure
  <2>2. proc[g] = "none" /\ \A h \in 1..g : h # g => proc[h] # "none"
    BY <1>7, NextHost DEF IInv, HostsInv
  <2> HIDE DEF g
  <2>3. /\ proc' \in [Hosts -> {"none", "up", "dead"}]
        /\ reader' \in [Hosts -> {"none", "reading", "retiring", "done"}]
        /\ gen' \in [Callers -> Hosts \cup {0}]
        /\ \A h \in Hosts : /\ proc'[h] = IF h = g THEN "up" ELSE proc[h]
                            /\ reader'[h] = IF h = g THEN "reading" ELSE reader[h]
        /\ \A d \in Callers : gen'[d] = IF d = c THEN g ELSE gen[d]
    BY <1>7, <2>1 DEF IInv, Typed
  <2>4. Typed'
    BY <1>1, <1>2, <1>4, <1>7, <2>1, <2>3 DEF IInv, Typed, TakenDown
  <2>5. HostsInv'
    <3>1. Numbered'
      <4> SUFFICES ASSUME NEW h \in Hosts, proc'[h] # "none", NEW k \in 1..h
                   PROVE  proc'[k] # "none"
        BY DEF Numbered
      <4>1. k \in Hosts
        BY TurnsAssumption DEF Hosts
      <4>2. CASE h = g
        BY <1>7, <2>2, <2>3, <4>1, <4>2
      <4>3. CASE h # g
        <5>1. proc[k] # "none"
          BY <2>3, <4>3 DEF IInv, HostsInv, Numbered
        <5> QED BY <2>3, <4>1, <5>1
      <4> QED BY <4>2, <4>3
    <3>2. \A h \in Hosts : /\ proc'[h] = "up" => h \in alive'
                           /\ reader'[h] \in {"retiring", "done"} => proc'[h] = "dead"
                           /\ reader'[h] = "done" => installed' # h
      BY <2>1, <2>3 DEF IInv, HostsInv
    <3>3. installed' # 0 => proc'[installed'] # "none"
      BY <1>7, <2>1, <2>3
    <3>4. \A d \in Callers : gen'[d] # 0 => proc'[gen'[d]] # "none"
      BY <1>7, <2>3 DEF IInv, HostsInv, Typed
    <3> QED BY <3>1, <3>2, <3>3, <3>4 DEF HostsInv
  <2>6. OnInstalled'
    BY <1>3, <2>1, <2>3, Apart DEF OnInstalled
  <2>7. Unborn'
    BY <1>1, <1>2, <1>4, <2>1, <2>3, Apart DEF IInv, Unborn, TakenDown
  <2> QED BY <1>2, <1>6, <2>4, <2>5, <2>6, <2>7 DEF IInv, TakenDown
<1>8. CASE g \notin Hosts
  <2>1. installed' = 0 /\ UNCHANGED <<alive, reader, gen, proc>> /\ Goto(c, "unavailable")
    BY <1>8 DEF Ensure
  <2> HIDE DEF g
  <2>2. Typed'
    BY <1>1, <1>2, <1>4, <2>1 DEF IInv, Typed, TakenDown
  <2>3. HostsInv'
    BY <2>1, Apart DEF IInv, HostsInv, Numbered
  <2>4. OnInstalled'
    BY <1>3, <2>1 DEF OnInstalled
  <2>5. Unborn'
    BY <1>1, <1>2, <1>4, <2>1, Apart DEF IInv, Unborn, TakenDown
  <2> QED BY <1>2, <1>6, <2>2, <2>3, <2>4, <2>5 DEF IInv, TakenDown
<1> QED BY <1>7, <1>8

\* A call that finds a live host goes to it.
LEMMA EnsureTakes ==
  ASSUME IInv, NEW c \in Callers, Ensure(c), installed \in alive
  PROVE  IInv'
<1>1. /\ gen' = [gen EXCEPT ![c] = installed] /\ pc[c] = "calling"
      /\ pc' = [pc EXCEPT ![c] = "sending"]
      /\ UNCHANGED <<registered, status, untold, log, closed, underway, installed, alive, reader, proc>>
  BY DEF Ensure, Goto, switchVars, hostVars
<1>2. /\ DOMAIN pc' = Callers /\ \A d \in Callers : pc'[d] = IF d = c THEN "sending" ELSE pc[d]
      /\ gen' \in [Callers -> Hosts \cup {0}]
      /\ \A d \in Callers : gen'[d] = IF d = c THEN installed ELSE gen[d]
  BY <1>1 DEF IInv, Typed
<1>3. Typed'
  BY <1>1, <1>2 DEF IInv, Typed
<1>4. ToldOnce'
  BY <1>1, ToldStays DEF IInv, LogGrows
<1>5. HostsInv'
  BY <1>1, <1>2 DEF IInv, HostsInv, Numbered
<1>6. OnInstalled' /\ Unborn'
  BY <1>1, <1>2, Apart DEF IInv, OnInstalled, Unborn, Running
<1>7. SwitchExcludesTurns'
  <2> SUFFICES ASSUME PastLook', NEW t \in Turns, Running(t)'
               PROVE  pc'[t] = "checking"
    BY DEF SwitchExcludesTurns
  <2>1. underway \in Switches /\ underway # Nobody /\ underway' = underway /\ Running(t)
    BY <1>1 DEF PastLook, IInv, Typed, Running
  <2>2. PastLook
    BY <1>1, <1>2, <2>1, Apart DEF PastLook
  <2>3. pc[t] = "checking"
    BY <2>1, <2>2 DEF IInv, SwitchExcludesTurns
  <2> QED BY <1>1, <1>2, <2>3, Apart
<1> QED BY <1>3, <1>4, <1>5, <1>6, <1>7 DEF IInv

LEMMA CallHostKeeps == ASSUME IInv, NEW c \in Callers, CallHost(c) PROVE IInv'
<1>1. CASE Ensure(c)
  BY <1>1, EnsureReplaces, EnsureTakes
<1>2. CASE Send(c)
  <2>1. pc[c] = "sending" /\ \E l \in {"awaiting", "unavailable"} : Goto(c, l)
    BY <1>2 DEF Send
  <2>2. Unmoved
    BY <1>2 DEF Send, Unmoved, registry, switchVars, LogGrows, AliveKept
  <2> QED BY <2>1, <2>2, Moves
<1> QED BY <1>1, <1>2 DEF CallHost

LEMMA HangUpKeeps == ASSUME IInv, NEW c \in Callers, HangUp(c) PROVE IInv'
<1>1. pc[c] \in {"calling", "sending", "awaiting", "ending"} /\ Goto(c, "dropped")
  BY DEF HangUp
<1>2. Unmoved
  BY DEF HangUp, Unmoved, registry, switchVars, hostVars, LogGrows, AliveKept
<1> QED BY <1>1, <1>2, Moves

\* The tasks that follow a host: the end of its output, its retirement, its
\* exit, and a frame of it.
LEMMA FollowKeeps == ASSUME IInv, NEW g \in Hosts, Follow(g) PROVE IInv'
<1> g # 0
  BY Apart
<1>1. CASE Eof(g)
  <2>1. /\ reader' = [reader EXCEPT ![g] = "retiring"] /\ alive' = alive \ {g}
        /\ reader[g] = "reading" /\ proc[g] = "dead"
        /\ UNCHANGED <<registered, status, untold, log, closed, underway, installed, proc, gen, pc>>
    BY <1>1 DEF Eof, registry, switchVars, callVars
  <2>2. /\ reader' \in [Hosts -> {"none", "reading", "retiring", "done"}]
        /\ \A h \in Hosts : reader'[h] = IF h = g THEN "retiring" ELSE reader[h]
    BY <2>1 DEF IInv, Typed
  <2>3. Typed'
    BY <2>1, <2>2 DEF IInv, Typed
  <2>4. ToldOnce'
    BY <2>1, ToldStays DEF IInv, LogGrows
  <2>5. HostsInv'
    BY <2>1, <2>2 DEF IInv, HostsInv, Numbered
  <2>6. OnInstalled' /\ Unborn' /\ SwitchExcludesTurns'
    BY <2>1 DEF IInv, OnInstalled, Unborn, Running, SwitchExcludesTurns, PastLook
  <2> QED BY <2>3, <2>4, <2>5, <2>6 DEF IInv
<1>2. CASE Retire(g)
  <2>1. /\ reader' = [reader EXCEPT ![g] = "done"] /\ reader[g] = "retiring"
        /\ UNCHANGED <<registered, log, closed, underway, alive, proc, gen, pc>>
        /\ \/ installed = g /\ installed' = 0 /\ RetireIn(g, g)
           \/ installed # g /\ UNCHANGED <<installed, status, untold>>
    BY <1>2 DEF Retire, RetireIn, switchVars, callVars
  <2>2. TakenDown(IF installed = g THEN g ELSE 0)
    <3>1. CASE installed = g
      BY <2>1, <3>1, RetireTakesDown
    <3>2. CASE installed # g
      <4>1. ToldOnce'
        BY <2>1, <3>2, ToldStays DEF IInv, LogGrows
      <4> QED BY <2>1, <3>2, <4>1 DEF TakenDown, IInv, Typed
    <3> QED BY <3>1, <3>2
  <2>3. /\ reader' \in [Hosts -> {"none", "reading", "retiring", "done"}]
        /\ \A h \in Hosts : reader'[h] = IF h = g THEN "done" ELSE reader[h]
    BY <2>1 DEF IInv, Typed
  <2>4. Typed'
    BY <2>1, <2>2, <2>3 DEF IInv, Typed, TakenDown
  <2>5. HostsInv'
    <3>1. Numbered'
      BY <2>1 DEF IInv, HostsInv, Numbered
    <3>2. installed' # g /\ installed' \in {0, installed}
      BY <2>1
    <3>3. \A h \in Hosts : /\ reader'[h] \in {"retiring", "done"} => proc[h] = "dead"
                           /\ reader'[h] = "done" => installed' # h
      BY <2>1, <2>3, <3>2, Apart DEF IInv, HostsInv
    <3> QED BY <2>1, <3>1, <3>2, <3>3 DEF IInv, HostsInv
  <2>6. \A t \in Turns : Running(t)' => Running(t)
    BY <2>1, <2>2 DEF Running, TakenDown
  <2>7. OnInstalled'
    BY <2>1, <2>2, <2>6 DEF IInv, OnInstalled, Running, TakenDown
  <2>8. Unborn' /\ SwitchExcludesTurns'
    BY <2>1, <2>2, <2>6 DEF IInv, Unborn, SwitchExcludesTurns, PastLook, TakenDown
  <2> QED BY <2>2, <2>4, <2>5, <2>7, <2>8 DEF IInv, TakenDown
<1>3. CASE Reap(g)
  <2>1. Unmoved /\ UNCHANGED pc
    BY <1>3 DEF Reap, Unmoved, registry, switchVars, callVars, LogGrows, AliveKept
  <2> QED BY <2>1, Still
<1>4. CASE Read(g)
  <2>1. UNCHANGED <<registered, log, closed, underway, installed, alive, reader, proc, gen, pc>>
    BY <1>4 DEF Read, callVars
  <2>2. CASE UNCHANGED <<status, untold>>
    <3>1. Unmoved
      BY <2>1, <2>2 DEF Unmoved, LogGrows, AliveKept
    <3> QED BY <2>1, <3>1, Still
  <2>3. CASE Finished({Head(fromHost[g]).turn} \cap registered, "ended", g)
    <3> DEFINE ts == {Head(fromHost[g]).turn} \cap registered
    <3>1. ts \in SUBSET Turns /\ Typed /\ ToldOnce
      BY DEF IInv, Typed
    <3>2. Finished(ts, "ended", g)
      BY <2>3
    <3> HIDE DEF ts
    <3>3. /\ ToldOnce'
          /\ status' \in [Turns -> {"none", "running", "ended", "lost"}]
          /\ DOMAIN untold' = Turns
          /\ \A t \in Turns : status[t] # "running" => status'[t] = status[t]
          /\ \A t \in Turns : status'[t] = "running" => status[t] = "running"
      BY <2>1, <3>1, <3>2, FinishedOnce
    <3>4. \A t \in Turns : Running(t)' => Running(t)
      BY <2>1, <3>3 DEF Running
    <3>5. Typed'
      BY <2>1, <3>3 DEF IInv, Typed
    <3>6. HostsInv'
      BY <2>1 DEF IInv, HostsInv, Numbered
    <3>7. OnInstalled' /\ Unborn' /\ SwitchExcludesTurns'
      BY <2>1, <3>3, <3>4 DEF IInv, OnInstalled, Unborn, SwitchExcludesTurns, PastLook
    <3> QED BY <3>3, <3>5, <3>6, <3>7 DEF IInv
  <2> QED BY <1>4, <2>2, <2>3 DEF Read
<1> QED BY <1>1, <1>2, <1>3, <1>4 DEF Follow

\* What the host process does reaches the rest by its pipe only; it can die.
LEMMA HostKeeps == ASSUME IInv, NEW g \in Hosts, Host(g) PROVE IInv'
<1>1. CASE Dies(g)
  <2>1. /\ proc' = [proc EXCEPT ![g] = "dead"] /\ proc[g] = "up"
        /\ UNCHANGED <<registered, status, untold, log, closed, underway, installed, alive, reader,
                       gen, pc>>
    BY <1>1 DEF Dies, registry, switchVars, hostVars, callVars
  <2>2. /\ proc' \in [Hosts -> {"none", "up", "dead"}]
        /\ \A h \in Hosts : proc'[h] = IF h = g THEN "dead" ELSE proc[h]
    BY <2>1 DEF IInv, Typed
  <2>3. Typed'
    BY <2>1, <2>2 DEF IInv, Typed
  <2>4. ToldOnce'
    BY <2>1, ToldStays DEF IInv, LogGrows
  <2>5. \A h \in Hosts : proc'[h] # "none" <=> proc[h] # "none"
    BY <2>1, <2>2
  <2>6. Numbered'
    <3>1. \A h \in Hosts : 1..h \subseteq Hosts
      BY TurnsAssumption DEF Hosts
    <3> QED BY <2>5, <3>1 DEF IInv, HostsInv, Numbered
  <2>7. HostsInv'
    BY <2>1, <2>2, <2>5, <2>6 DEF IInv, HostsInv, Typed
  <2>8. OnInstalled' /\ Unborn' /\ SwitchExcludesTurns'
    BY <2>1 DEF IInv, OnInstalled, Unborn, Running, SwitchExcludesTurns, PastLook
  <2> QED BY <2>3, <2>4, <2>7, <2>8 DEF IInv
<1>2. CASE ~Dies(g)
  <2>1. UNCHANGED <<registry, switchVars, hostVars, callVars, proc>>
    BY <1>2 DEF Host, Input, Interrupt, Interrupted, Closes, Opens, Result, StreamFails, StreamEnds,
                Takes
  <2>2. Unmoved /\ UNCHANGED pc
    BY <2>1 DEF Unmoved, registry, switchVars, hostVars, callVars, LogGrows, AliveKept
  <2> QED BY <2>2, Still
<1> QED BY <1>1, <1>2

---------------------------------------------------------------------------
(* The invariant.                                                          *)

LEMMA InitHolds == Init => IInv
<1> SUFFICES ASSUME Init PROVE IInv
  OBVIOUS
<1>1. /\ registered = {} /\ closed = {} /\ underway = Nobody /\ installed = 1 /\ alive = {1}
      /\ status = [t \in Turns |-> "none"] /\ untold = [t \in Turns |-> {}]
      /\ log = [t \in Turns |-> <<>>]
      /\ reader = [g \in Hosts |-> IF g = 1 THEN "reading" ELSE "none"]
      /\ proc = [g \in Hosts |-> IF g = 1 THEN "up" ELSE "none"]
      /\ pc = [c \in Callers |-> "idle"] /\ gen = [c \in Callers |-> 0]
  BY DEF Init
<1>2. 1 \in Hosts /\ \A g \in Hosts : g \in Nat /\ g >= 1 /\ 1..g \subseteq Hosts
  BY TurnsAssumption DEF Hosts
<1>3. Typed
  BY <1>1, <1>2 DEF Typed
<1>4. ToldOnce
  BY <1>1 DEF ToldOnce, Unfinished, Ends
<1>5. HostsInv
  BY <1>1, <1>2, Apart DEF HostsInv, Numbered
<1>6. Unborn /\ OnInstalled /\ SwitchExcludesTurns
  BY <1>1, Apart DEF Unborn, OnInstalled, SwitchExcludesTurns, PastLook, Running
<1> QED BY <1>3, <1>4, <1>5, <1>6 DEF IInv

LEMMA NextKeeps == IInv /\ [Next]_vars => IInv'
<1> SUFFICES ASSUME IInv, [Next]_vars PROVE IInv'
  OBVIOUS
<1>1. CASE UNCHANGED vars
  <2>1. Unmoved /\ UNCHANGED pc
    BY <1>1 DEF vars, Unmoved, registry, switchVars, hostVars, callVars, LogGrows, AliveKept
  <2> QED BY <2>1, Still
<1>2. CASE Next
  <2>1. CASE \E t \in Turns : BeginTurn(t) \/ Told(t)
    BY <2>1, BeginTurnKeeps, ToldKeeps
  <2>2. CASE \E c \in Steers \cup Interrupts : SteerOrInterrupt(c)
    BY <2>2, SteerOrInterruptKeeps
  <2>3. CASE \E w \in Switches : Begin(w) \/ Switch(w)
    BY <2>3, BeginKeeps, SwitchKeeps
  <2>4. CASE \E c \in Callers : CallHost(c) \/ HangUp(c)
    BY <2>4, CallHostKeeps, HangUpKeeps
  <2>5. CASE \E g \in Hosts : Follow(g) \/ Host(g)
    BY <2>5, FollowKeeps, HostKeeps
  <2> QED BY <1>2, <2>1, <2>2, <2>3, <2>4, <2>5 DEF Next
<1> QED BY <1>1, <1>2

LEMMA Invariance == Spec => []IInv
BY InitHolds, NextKeeps, PTL DEF Spec

\* However the host's frames, a dead host and its successor race to finish an
\* operation, its log gets one terminal frame and is closed after that (finish,
\* ops.rs).
THEOREM OneTerminalCorrect == Spec => []OneTerminal
<1>1. IInv => OneTerminal
  <2> SUFFICES ASSUME IInv, NEW t \in Turns
               PROVE  Cardinality(Ends(t)) <= 1 /\ (t \in closed => Cardinality(Ends(t)) = 1)
    BY Zenon DEF OneTerminal, Ends
  <2>1. Unfinished(t) \/ ToTell(t) \/ ToClose(t) \/ Over(t)
    BY DEF IInv, ToldOnce
  <2>2. Cardinality({}) = 0 /\ \A k : Cardinality({k}) = 1
    BY FS_EmptySet, FS_Singleton
  <2>3. CASE Unfinished(t) \/ ToTell(t)
    BY <2>2, <2>3 DEF Unfinished, ToTell
  <2>4. CASE ToClose(t) \/ Over(t)
    <3>1. PICK k : Ends(t) = {k}
      BY <2>4 DEF ToClose, Over
    <3>2. Cardinality(Ends(t)) = 1
      BY <2>2, <3>1
    <3> QED BY <3>2
  <2> QED BY <2>1, <2>3, <2>4
<1> QED BY <1>1, Invariance, PTL

\* While a switch goes on past its look for turns, the only operations that run
\* are of turns that will be refused (begin_turn, turns.rs; switch_bridge,
\* switch.rs).
THEOREM SwitchExcludesTurnsCorrect == Spec => []SwitchExcludesTurns
<1>1. IInv => SwitchExcludesTurns
  BY DEF IInv
<1> QED BY <1>1, Invariance, PTL

\* Once the reader of a dead host is through, no operation that was started on it
\* runs on (retire, host.rs).
THEOREM HostDeathEndsOpsCorrect == Spec => []HostDeathEndsOps
<1>1. IInv => HostDeathEndsOps
  BY Apart DEF IInv, HostsInv, OnInstalled, HostDeathEndsOps
<1> QED BY <1>1, Invariance, PTL

\* The late clean-up of a dead host leaves the operations of its successor alone
\* (retire and ensure, host.rs).
THEOREM NewHostUnharmedCorrect == Spec => NewHostUnharmed
<1>1. ASSUME IInv, [Next]_vars, NEW t \in Turns, status'[t] = "lost", status[t] # "lost", gen[t] # 0
      PROVE  proc[gen[t]] = "dead"
  <2>1. gen[t] \in Hosts /\ proc[gen[t]] \in {"up", "dead"}
    <3>1. t \in Callers
      BY Apart
    <3>2. gen[t] \in Hosts /\ proc[gen[t]] # "none"
      BY <1>1, <3>1 DEF IInv, Typed, HostsInv
    <3>3. proc[gen[t]] \in {"none", "up", "dead"}
      BY <1>1, <3>2 DEF IInv, Typed
    <3> QED BY <3>2, <3>3
  <2>2. Running(t) => gen[t] = installed
    BY <1>1 DEF IInv, OnInstalled
  <2>3. CASE \E c \in Callers : Ensure(c)
    <3>1. PICK c \in Callers : Ensure(c)
      BY <2>3
    <3>2. installed \notin alive /\ RetireIn(installed, c) /\ UNCHANGED <<log, closed>>
      BY <1>1, <3>1 DEF Ensure
    <3>3. Running(t)
      BY <1>1, <3>2, RetireTakesDown DEF IInv, Typed, TakenDown
    <3> QED BY <1>1, <2>1, <2>2, <3>2, <3>3 DEF IInv, HostsInv
  <2>4. CASE \E g \in Hosts : Retire(g)
    <3>1. PICK g \in Hosts : Retire(g)
      BY <2>4
    <3>2. /\ installed = g /\ reader[g] = "retiring" /\ RetireIn(g, g)
          /\ UNCHANGED <<log, closed>>
      BY <1>1, <3>1, Apart DEF Retire, RetireIn
    <3>3. Running(t)
      BY <1>1, <3>2, RetireTakesDown DEF TakenDown
    <3> QED BY <1>1, <2>2, <3>2, <3>3 DEF IInv, HostsInv
  <2>5. CASE \E g \in Hosts : Read(g)
    <3>1. PICK g \in Hosts, ts \in SUBSET registered : Finished(ts, "ended", g)
      BY <1>1, <2>5 DEF Read
    <3> QED BY <1>1, <3>1 DEF Finished
  <2>6. CASE \E u \in Turns : Create(u)
    BY <1>1, <2>6 DEF Create, IInv, Typed
  <2>7. CASE status' = status
    BY <1>1, <2>7
  <2> USE DEF registry
  <2>8. CASE \E u \in Turns : Told(u) \/ Count(u) \/ CheckSwitch(u) \/ Announce(u) \/ Begun(u)
    BY <2>7, <2>8 DEF Told, Tell, CloseLog, Count, CheckSwitch, Announce, Begun
  <2>9. CASE \E c \in Callers : SteerOrInterrupt(c) \/ Send(c) \/ HangUp(c)
    BY <2>7, <2>9 DEF SteerOrInterrupt, Lookup, Steered, Send, HangUp
  <2>10. CASE \E w \in Switches : Begin(w) \/ Switch(w)
    BY <2>7, <2>10 DEF Begin, Switch, LookForTurns, CloseForSwitch, CloseReturns, StreamEnded,
                       ReopenReturns, Finish
  <2>11. CASE \E g \in Hosts : Eof(g) \/ Reap(g) \/ Host(g)
    BY <2>7, <2>11, ZenonT(40) DEF Eof, Reap, Host, Input, Interrupt, Interrupted, Closes, Opens, Result,
                       StreamFails, StreamEnds, Dies, Takes
  <2>12. CASE UNCHANGED vars
    BY <2>7, <2>12 DEF vars
  <2> QED BY <1>1, <2>3, <2>4, <2>5, <2>6, <2>8, <2>9, <2>10, <2>11, <2>12, Apart
          DEF Next, BeginTurn, Follow, CallHost
<1>2. IInv /\ [Next]_vars => \A t \in Turns :
        (status'[t] = "lost" /\ status[t] # "lost" /\ gen[t] # 0) => proc[gen[t]] = "dead"
  BY <1>1
<1> QED BY <1>2, Invariance, PTL DEF Spec, NewHostUnharmed

---------------------------------------------------------------------------
(* What the calls and the pipes carry: the types, and who sends what.      *)

Places == {"idle", "creating", "checking", "announcing", "looking", "closing", "ending",
           "finishing", "calling", "sending", "awaiting", "unavailable", "dropped", "done"}
OpenOps == {"create", "create_back"}
CloseOps == {"close", "close_for_good"}

\* Which commands a caller calls the host with.
Fits(op, c) == /\ op = "input" => c \in Turns \cup Steers
               /\ op = "interrupt" => c \in Interrupts
               /\ op \in OpenOps \cup CloseOps => c \in Switches

\* What goes to a host, and what comes from one.
Requests == {m \in CallIds : Fits(m.op, m.by)}
Said == {"ok", "already", "busy", "not_found", "invalid", "claude_error"}
Spoken == {f \in HostFrames : f.kind = "reply" => f.answer \in Said}
Claims == {m \in CallIds : m.by \in Interrupts}

Calls ==
  /\ hostClosed \in BOOLEAN /\ listed \in BOOLEAN
  /\ inflight \in [Callers -> Nat] /\ answer \in [Callers -> Answers \cup {"none"}]
  /\ pc \in [Callers -> Places]
  /\ doing \in [Callers -> Commands] /\ \A c \in Callers : Fits(doing[c], c)
  /\ calls \in [Callers -> Nat]
  /\ result \in [Turns -> Answers \cup {"none", "too_many", "switching"}]

Pipes ==
  /\ toHost \in [Hosts -> Seq(Requests)] /\ fromHost \in [Hosts -> Seq(Spoken)]
  /\ conv \in [Hosts -> BOOLEAN] /\ turn \in [Hosts -> Turns \cup {Nobody}]
  /\ work \in [Hosts -> Seq(Turns \cup Steers)]
  /\ claims \in [Hosts -> SUBSET Claims]
  /\ endings \in [Hosts -> Nat]

\* What a host that does not run had is gone.
Empty == \A g \in Hosts : proc[g] # "up" => toHost[g] = <<>> /\ conv[g] = FALSE /\ endings[g] = 0

\* A call goes to a host, and is told that its host is gone only when it is.
Aimed == \A c \in Callers :
  /\ pc[c] \in {"sending", "awaiting"} => gen[c] \in Hosts
  /\ pc[c] = "awaiting" /\ answer[c] = "unavailable" => proc[gen[c]] = "dead"

WInv == IInv /\ Calls /\ Pipes /\ Empty /\ Aimed

LEMMA SeqFacts ==
  ASSUME NEW S, NEW s \in Seq(S)
  PROVE  /\ <<>> \in Seq(S) /\ \A e \in S : <<e>> \in Seq(S) /\ Append(s, e) \in Seq(S)
         /\ \A d, e \in S : <<d, e>> \in Seq(S)
         /\ s # <<>> => Head(s) \in S /\ Tail(s) \in Seq(S)
         /\ \A t \in Seq(S) : s \o t \in Seq(S)
OBVIOUS

LEMMA FrameFacts ==
  /\ \A t \in Turns : TurnFrame(t) \in Spoken /\ TurnFrame(t).kind = "turn"
  /\ SessionFrame \in Spoken /\ SessionFrame.kind = "session"
  /\ \A m \in CallIds, a \in Said : /\ Reply(m, a) \in Spoken
                                    /\ Reply(m, a).kind = "reply" /\ Reply(m, a).by = m.by
                                    /\ Reply(m, a).answer = a
  /\ \A f \in Spoken : /\ f.kind \in {"turn", "session", "reply"}
                       /\ f.kind = "turn" => f.turn \in Turns
                       /\ f.kind = "reply" => f.by \in Callers /\ f.n \in Nat /\ f.answer \in Said
<1>1. Said \subseteq Answers
  BY DEF Said, Answers
<1> QED BY <1>1 DEF TurnFrame, SessionFrame, Reply, Spoken, HostFrames, CallIds

\* What a host does with its pipes: it may take a request, and says some frames.
Takes1(g) == toHost[g] # <<>> /\ toHost' = [toHost EXCEPT ![g] = Tail(@)]

LEMMA TakesOne ==
  ASSUME Pipes, NEW g \in Hosts, NEW op, Takes(g, op)
  PROVE  /\ Takes1(g) /\ toHost' \in [Hosts -> Seq(Requests)]
         /\ Head(toHost[g]) \in Requests /\ Head(toHost[g]).op = op
         /\ Head(toHost[g]) \in CallIds
<1>1. toHost[g] \in Seq(Requests) /\ toHost[g] # <<>>
  BY DEF Pipes, Takes
<1>2. Head(toHost[g]) \in Requests /\ Tail(toHost[g]) \in Seq(Requests)
  BY <1>1, SeqFacts
<1> QED BY <1>1, <1>2 DEF Takes, Takes1, Pipes, Requests

LEMMA SaysSome ==
  ASSUME Pipes, NEW g \in Hosts, NEW frames \in Seq(Spoken), Says(g, frames)
  PROVE  /\ fromHost' \in [Hosts -> Seq(Spoken)]
         /\ fromHost'[g] = fromHost[g] \o frames
         /\ \A h \in Hosts \ {g} : fromHost'[h] = fromHost[h]
<1>1. fromHost[g] \o frames \in Seq(Spoken)
  BY SeqFacts DEF Pipes
<1> QED BY <1>1 DEF Says, Pipes

\* What is neither said to a switch nor of a stream that ended.
Chat == {f \in Spoken : f.kind # "session" /\ (f.kind = "reply" => f.by \notin Switches)}

LEMMA ChatFacts ==
  /\ Chat \subseteq Spoken
  /\ \A t \in Turns : TurnFrame(t) \in Chat
  /\ \A m \in CallIds, a \in Said : m.by \notin Switches => Reply(m, a) \in Chat
BY FrameFacts DEF Chat

\* The frame a turn that is cut off ends with.
LEMMA SettlesTyped ==
  ASSUME Pipes, NEW g \in Hosts
  PROVE  Settles(g) \in Seq(Chat) /\ Settles(g) \in Seq(Spoken)
<1>1. turn[g] \in Turns \cup {Nobody}
  BY DEF Pipes
<1>2. CASE turn[g] = Nobody
  BY <1>2 DEF Settles
<1>3. CASE turn[g] # Nobody
  <2>1. TurnFrame(turn[g]) \in Chat /\ TurnFrame(turn[g]) \in Spoken
    BY <1>1, <1>3, ChatFacts
  <2>2. Settles(g) = <<TurnFrame(turn[g])>>
    BY <1>3 DEF Settles
  <2> QED BY <2>1, <2>2
<1> QED BY <1>2, <1>3

\* Steps of a host that have to do with inputs and interrupts only.
Chatters(g) ==
  /\ UNCHANGED <<registry, switchVars, hostVars, callVars, proc, conv, endings>>
  /\ toHost' = toHost \/ Takes1(g)
  /\ fromHost' = fromHost \/ \E frames \in Seq(Chat) : Says(g, frames)

LEMMA InputChatters ==
  ASSUME WInv, NEW g \in Hosts, Input(g)
  PROVE  Chatters(g) /\ Pipes'
<1> DEFINE m == Head(toHost[g])
<1>1. /\ Takes1(g) /\ toHost' \in [Hosts -> Seq(Requests)] /\ m \in Requests /\ m.op = "input"
      /\ m \in CallIds
  BY TakesOne DEF WInv, Input
<1>2. m.by \in Turns \cup Steers
  BY <1>1 DEF Requests, Fits
<1>3. TurnOf(m.by) \in Turns
  BY <1>2, Apart DEF TurnOf
<1>4. m.by \notin Switches
  BY <1>2, Apart
<1>5. PICK a \in {"ok", "busy", "not_found"} :
        /\ Says(g, <<Reply(m, a)>>)
        /\ \/ UNCHANGED <<turn, work>>
           \/ turn' = [turn EXCEPT ![g] = TurnOf(m.by)] /\ work' = [work EXCEPT ![g] = Append(@, m.by)]
  BY DEF Input
<1> HIDE DEF m
<1>6. Reply(m, a) \in Chat
  BY <1>1, <1>4, ChatFacts DEF Said
<1>7. <<Reply(m, a)>> \in Seq(Chat) /\ <<Reply(m, a)>> \in Seq(Spoken)
  BY <1>6, ChatFacts
<1>8. turn' \in [Hosts -> Turns \cup {Nobody}]
  BY <1>3, <1>5 DEF WInv, Pipes
<1>9. work' \in [Hosts -> Seq(Turns \cup Steers)]
  <2>1. Append(work[g], m.by) \in Seq(Turns \cup Steers)
    BY <1>2, SeqFacts DEF WInv, Pipes
  <2> QED BY <1>5, <2>1 DEF WInv, Pipes
<1>10. fromHost' \in [Hosts -> Seq(Spoken)]
  BY <1>5, <1>7, SaysSome DEF WInv
<1>11. UNCHANGED <<conv, claims, endings, registry, switchVars, hostVars, callVars, proc>>
  BY DEF Input, Takes
<1>12. Pipes'
  BY <1>1, <1>8, <1>9, <1>10, <1>11 DEF WInv, Pipes
<1>13. \E frames \in Seq(Chat) : Says(g, frames)
  BY <1>5, <1>7
<1> QED BY <1>1, <1>11, <1>12, <1>13 DEF Chatters

LEMMA InterruptChatters ==
  ASSUME WInv, NEW g \in Hosts, Interrupt(g)
  PROVE  Chatters(g) /\ Pipes'
<1> DEFINE m == Head(toHost[g])
<1>1. /\ Takes1(g) /\ toHost' \in [Hosts -> Seq(Requests)] /\ m \in Requests /\ m.op = "interrupt"
      /\ m \in CallIds
  BY TakesOne DEF WInv, Interrupt
<1>2. m.by \in Interrupts /\ m.by \notin Switches
  BY <1>1, Apart DEF Requests, Fits
<1>3. UNCHANGED <<conv, work, endings, registry, switchVars, hostVars, callVars, proc>>
  BY DEF Interrupt, Takes
<1>4. \/ /\ turn' = [turn EXCEPT ![g] = Nobody]
         /\ claims' = [claims EXCEPT ![g] = @ \cup {m}]
         /\ UNCHANGED fromHost
      \/ /\ \E a \in Said : Says(g, <<Reply(m, a)>>)
         /\ UNCHANGED <<turn, claims>>
  BY DEF Interrupt, Said
<1> HIDE DEF m
<1>5. ASSUME NEW a \in Said PROVE <<Reply(m, a)>> \in Seq(Chat) /\ <<Reply(m, a)>> \in Seq(Spoken)
  <2>1. Reply(m, a) \in Chat /\ Reply(m, a) \in Spoken
    BY <1>1, <1>2, ChatFacts
  <2> QED BY <2>1
<1>6. turn' \in [Hosts -> Turns \cup {Nobody}]
  BY <1>4 DEF WInv, Pipes
<1>7. claims' \in [Hosts -> SUBSET Claims]
  <2>1. m \in Claims
    BY <1>1, <1>2 DEF Claims
  <2>2. claims \in [Hosts -> SUBSET Claims]
    BY DEF WInv, Pipes
  <2>3. claims[g] \cup {m} \in SUBSET Claims
    BY <2>1, <2>2
  <2> QED BY <1>4, <2>2, <2>3
<1>8. fromHost' \in [Hosts -> Seq(Spoken)]
  BY <1>4, <1>5, SaysSome DEF WInv, Pipes
<1>9. Pipes'
  BY <1>1, <1>3, <1>6, <1>7, <1>8 DEF WInv, Pipes
<1>10. fromHost' = fromHost \/ \E frames \in Seq(Chat) : Says(g, frames)
  BY <1>4, <1>5
<1> QED BY <1>1, <1>3, <1>9, <1>10 DEF Chatters

LEMMA InterruptedChatters ==
  ASSUME WInv, NEW g \in Hosts, Interrupted(g)
  PROVE  Chatters(g) /\ Pipes'
<1>1. PICK m \in claims[g] :
        /\ claims' = [claims EXCEPT ![g] = @ \ {m}]
        /\ \/ Says(g, <<TurnFrame(Names[m.by]), Reply(m, "ok")>>)
           \/ Says(g, <<Reply(m, "claude_error")>>)
  BY DEF Interrupted
<1>2. /\ UNCHANGED <<registry, switchVars, hostVars, callVars, proc, conv, endings, toHost>>
      /\ UNCHANGED <<turn, work>>
  BY DEF Interrupted
<1>3. claims \in [Hosts -> SUBSET Claims]
  BY DEF WInv, Pipes
<1>4. m \in CallIds /\ m.by \in Interrupts
  BY <1>1, <1>3 DEF Claims
<1>5. m.by \notin Switches /\ Names[m.by] \in Turns
  BY <1>4, Apart
<1>6. TurnFrame(Names[m.by]) \in Chat /\ Reply(m, "ok") \in Chat /\ Reply(m, "claude_error") \in Chat
  BY <1>4, <1>5, ChatFacts DEF Said
<1>7. /\ <<TurnFrame(Names[m.by]), Reply(m, "ok")>> \in Seq(Chat)
      /\ <<Reply(m, "claude_error")>> \in Seq(Chat)
  BY <1>6
<1>8. PICK frames \in Seq(Chat) : Says(g, frames)
  BY <1>1, <1>7
<1>9. fromHost' \in [Hosts -> Seq(Spoken)]
  BY <1>8, SaysSome, ChatFacts DEF WInv
<1>10. claims' \in [Hosts -> SUBSET Claims]
  BY <1>1, <1>3
<1>11. Pipes'
  BY <1>2, <1>9, <1>10 DEF WInv, Pipes
<1> QED BY <1>2, <1>8, <1>11 DEF Chatters

LEMMA ResultChatters ==
  ASSUME WInv, NEW g \in Hosts, Result(g)
  PROVE  Chatters(g) /\ Pipes'
<1>1. PICK k \in 1..Len(work[g]) : work' = [work EXCEPT ![g] = SubSeq(@, k + 1, Len(@))]
  BY DEF Result
<1>2. /\ UNCHANGED <<registry, switchVars, hostVars, callVars, proc, conv, endings, toHost, claims>>
      /\ Says(g, Settles(g)) /\ turn' = [turn EXCEPT ![g] = Nobody]
  BY DEF Result
<1>3. Settles(g) \in Seq(Chat)
  BY SettlesTyped, ChatFacts DEF WInv
<1>4. fromHost' \in [Hosts -> Seq(Spoken)]
  BY <1>2, <1>3, SaysSome, ChatFacts DEF WInv
<1>5. work' \in [Hosts -> Seq(Turns \cup Steers)]
  <2>1. work[g] \in Seq(Turns \cup Steers)
    BY DEF WInv, Pipes
  <2>2. SubSeq(work[g], k + 1, Len(work[g])) \in Seq(Turns \cup Steers)
    BY <2>1
  <2> QED BY <1>1, <2>2 DEF WInv, Pipes
<1>6. Pipes'
  BY <1>2, <1>4, <1>5 DEF WInv, Pipes
<1> QED BY <1>2, <1>3, <1>6 DEF Chatters

\* session.close: an open conversation is closed, and its stream has to end.
ClosesIt(g, m) ==
  /\ UNCHANGED <<registry, switchVars, hostVars, callVars, proc>>
  /\ Takes1(g) /\ m = Head(toHost[g]) /\ m \in Requests /\ m.op \in CloseOps
  /\ \/ /\ conv[g] = FALSE /\ UNCHANGED <<conv, endings>>
        /\ Says(g, <<Reply(m, "already")>>)
     \/ /\ conv[g] = TRUE /\ conv' = [conv EXCEPT ![g] = FALSE]
        /\ endings' = [endings EXCEPT ![g] = @ + 1]
        /\ Says(g, Settles(g) \o <<Reply(m, "ok")>>)

LEMMA ClosesDoes ==
  ASSUME WInv, NEW g \in Hosts, Closes(g)
  PROVE  ClosesIt(g, Head(toHost[g])) /\ Pipes'
<1> DEFINE m == Head(toHost[g])
<1>0. PICK op \in CloseOps : Takes(g, op)
  BY Zenon DEF Closes, CloseOps
<1>1. /\ Takes1(g) /\ toHost' \in [Hosts -> Seq(Requests)] /\ m \in Requests /\ m.op \in CloseOps
      /\ m \in CallIds
  BY <1>0, TakesOne DEF WInv
<1>2. UNCHANGED <<claims, registry, switchVars, hostVars, callVars, proc>>
  BY <1>0, Zenon DEF Closes, Takes
<1>3. conv \in [Hosts -> BOOLEAN] /\ endings \in [Hosts -> Nat]
  BY DEF WInv, Pipes
<1>4. \/ /\ conv[g] = FALSE /\ UNCHANGED <<conv, turn, work, endings>>
         /\ Says(g, <<Reply(m, "already")>>)
      \/ /\ conv[g] = TRUE /\ conv' = [conv EXCEPT ![g] = FALSE]
         /\ endings' = [endings EXCEPT ![g] = @ + 1]
         /\ Says(g, Settles(g) \o <<Reply(m, "ok")>>)
         /\ turn' = [turn EXCEPT ![g] = Nobody] /\ work' = [work EXCEPT ![g] = <<>>]
  BY <1>3, Zenon DEF Closes
<1> HIDE DEF m
<1>5. <<Reply(m, "already")>> \in Seq(Spoken) /\ Settles(g) \o <<Reply(m, "ok")>> \in Seq(Spoken)
  <2>1. Reply(m, "already") \in Spoken /\ Reply(m, "ok") \in Spoken
    BY <1>1, FrameFacts DEF Said
  <2>2. Settles(g) \in Seq(Spoken)
    BY SettlesTyped DEF WInv
  <2>3. <<Reply(m, "already")>> \in Seq(Spoken) /\ <<Reply(m, "ok")>> \in Seq(Spoken)
    BY <2>1
  <2> QED BY <2>2, <2>3, SeqFacts
<1>6. fromHost' \in [Hosts -> Seq(Spoken)]
  BY <1>4, <1>5, SaysSome DEF WInv
<1>7. /\ conv' \in [Hosts -> BOOLEAN] /\ endings' \in [Hosts -> Nat]
      /\ turn' \in [Hosts -> Turns \cup {Nobody}] /\ work' \in [Hosts -> Seq(Turns \cup Steers)]
  <2>1. /\ turn \in [Hosts -> Turns \cup {Nobody}] /\ work \in [Hosts -> Seq(Turns \cup Steers)]
    BY DEF WInv, Pipes
  <2>2. turn' = turn \/ turn' = [turn EXCEPT ![g] = Nobody]
    BY <1>4
  <2>3. work' = work \/ work' = [work EXCEPT ![g] = <<>>]
    BY <1>4
  <2>4. <<>> \in Seq(Turns \cup Steers)
    OBVIOUS
  <2>5. conv' = conv \/ conv' = [conv EXCEPT ![g] = FALSE]
    BY <1>4
  <2>6. endings' = endings \/ endings' = [endings EXCEPT ![g] = @ + 1]
    BY <1>4
  <2>7. turn' \in [Hosts -> Turns \cup {Nobody}]
    BY <2>1, <2>2
  <2>8. work' \in [Hosts -> Seq(Turns \cup Steers)]
    BY <2>1, <2>3, <2>4
  <2>9. conv' \in [Hosts -> BOOLEAN]
    BY <1>3, <2>5
  <2>10. endings' \in [Hosts -> Nat]
    BY <1>3, <2>6
  <2> QED BY <2>7, <2>8, <2>9, <2>10
<1>8. Pipes'
  BY <1>1, <1>2, <1>6, <1>7 DEF WInv, Pipes
<1>9. ClosesIt(g, m)
  BY <1>1, <1>2, <1>4, Zenon DEF ClosesIt, m
<1> QED BY <1>8, <1>9 DEF m

\* session.create: nothing but whether the conversation is open changes.
OpensIt(g, m) ==
  /\ UNCHANGED <<registry, switchVars, hostVars, callVars, proc, endings>>
  /\ Takes1(g) /\ m = Head(toHost[g]) /\ m \in Requests /\ m.op \in OpenOps
  /\ \A h \in Hosts \ {g} : conv'[h] = conv[h]
  /\ \E frames \in Seq(Spoken) : Says(g, frames)

LEMMA OpensDoes ==
  ASSUME WInv, NEW g \in Hosts, Opens(g)
  PROVE  OpensIt(g, Head(toHost[g])) /\ Pipes'
<1> DEFINE m == Head(toHost[g])
<1>0. PICK op \in OpenOps : Takes(g, op)
  BY Zenon DEF Opens, OpenOps
<1>1. /\ Takes1(g) /\ toHost' \in [Hosts -> Seq(Requests)] /\ m \in Requests /\ m.op \in OpenOps
      /\ m \in CallIds
  BY <1>0, TakesOne DEF WInv
<1>2. UNCHANGED <<turn, work, claims, endings, registry, switchVars, hostVars, callVars, proc>>
  BY <1>0, Zenon DEF Opens, Takes
<1>3. \/ Says(g, <<Reply(m, "invalid")>>) /\ UNCHANGED conv
      \/ Says(g, <<Reply(m, "ok")>>) /\ conv' = [conv EXCEPT ![g] = TRUE]
      \/ Says(g, <<SessionFrame, Reply(m, "claude_error")>>) /\ UNCHANGED conv
  BY Zenon DEF Opens
<1> HIDE DEF m
<1>4. conv \in [Hosts -> BOOLEAN]
  BY DEF WInv, Pipes
<1>5. conv' \in [Hosts -> BOOLEAN] /\ \A h \in Hosts \ {g} : conv'[h] = conv[h]
  BY <1>3, <1>4
<1>6. \E frames \in Seq(Spoken) : Says(g, frames)
  <2>1. /\ Reply(m, "invalid") \in Spoken /\ Reply(m, "ok") \in Spoken
        /\ Reply(m, "claude_error") \in Spoken /\ SessionFrame \in Spoken
    BY <1>1, FrameFacts DEF Said
  <2>2. /\ <<Reply(m, "invalid")>> \in Seq(Spoken) /\ <<Reply(m, "ok")>> \in Seq(Spoken)
        /\ <<SessionFrame, Reply(m, "claude_error")>> \in Seq(Spoken)
    BY <2>1
  <2> QED BY <1>3, <2>2
<1>7. fromHost' \in [Hosts -> Seq(Spoken)]
  BY <1>6, SaysSome DEF WInv
<1>8. Pipes'
  BY <1>1, <1>2, <1>5, <1>7 DEF WInv, Pipes
<1>9. OpensIt(g, m)
  BY <1>1, <1>2, <1>5, <1>6, Zenon DEF OpensIt, m
<1> QED BY <1>8, <1>9 DEF m

\* The stream of a conversation is over, that of an open one or of a closed one.
Quiet == {f \in Spoken : f.kind # "reply"}

EndsIt(g) ==
  /\ UNCHANGED <<registry, switchVars, hostVars, callVars, proc, toHost>>
  /\ conv' = [conv EXCEPT ![g] = FALSE]
  /\ \/ conv[g] = TRUE /\ UNCHANGED endings
     \/ endings[g] > 0 /\ endings' = [endings EXCEPT ![g] = @ - 1]
  /\ \E frames \in Seq(Quiet) : Says(g, frames)

LEMMA StreamDoes ==
  ASSUME WInv, NEW g \in Hosts, StreamFails(g) \/ StreamEnds(g)
  PROVE  EndsIt(g) /\ Pipes'
<1>1. /\ UNCHANGED <<registry, switchVars, hostVars, callVars, proc, toHost, claims>>
      /\ conv' = [conv EXCEPT ![g] = FALSE]
      /\ \/ UNCHANGED <<turn, work>>
         \/ turn' = [turn EXCEPT ![g] = Nobody] /\ work' = [work EXCEPT ![g] = <<>>]
  BY DEF StreamFails, StreamEnds
<1>2. conv \in [Hosts -> BOOLEAN] /\ endings \in [Hosts -> Nat]
  BY DEF WInv, Pipes
<1>3. \/ conv[g] = TRUE /\ UNCHANGED endings
      \/ endings[g] > 0 /\ endings' = [endings EXCEPT ![g] = @ - 1]
  BY <1>2, Zenon DEF StreamFails, StreamEnds
<1>4. Says(g, Settles(g) \o <<SessionFrame>>) \/ Says(g, <<SessionFrame>>)
  BY DEF StreamFails, StreamEnds
<1>5. <<SessionFrame>> \in Seq(Quiet)
  <2>1. SessionFrame \in Quiet
    BY FrameFacts DEF Quiet
  <2> QED BY <2>1
<1>6. Settles(g) \in Seq(Quiet)
  <2>1. turn[g] \in Turns \cup {Nobody}
    BY DEF WInv, Pipes
  <2>2. CASE turn[g] = Nobody
    BY <2>2 DEF Settles
  <2>3. CASE turn[g] # Nobody
    <3>1. TurnFrame(turn[g]) \in Quiet
      BY <2>1, <2>3, FrameFacts DEF Quiet
    <3>2. Settles(g) = <<TurnFrame(turn[g])>>
      BY <2>3 DEF Settles
    <3> QED BY <3>1, <3>2
  <2> QED BY <2>2, <2>3
<1>7. PICK frames \in Seq(Quiet) : Says(g, frames)
  BY <1>4, <1>5, <1>6, SeqFacts
<1>8. frames \in Seq(Spoken)
  BY <1>7 DEF Quiet
<1>9. fromHost' \in [Hosts -> Seq(Spoken)]
  BY <1>7, <1>8, SaysSome DEF WInv
<1>10. /\ conv' \in [Hosts -> BOOLEAN] /\ endings' \in [Hosts -> Nat]
      /\ turn' \in [Hosts -> Turns \cup {Nobody}] /\ work' \in [Hosts -> Seq(Turns \cup Steers)]
  <2>1. /\ turn \in [Hosts -> Turns \cup {Nobody}] /\ work \in [Hosts -> Seq(Turns \cup Steers)]
    BY DEF WInv, Pipes
  <2>4. turn' = turn \/ turn' = [turn EXCEPT ![g] = Nobody]
    BY <1>1
  <2>5. work' = work \/ work' = [work EXCEPT ![g] = <<>>]
    BY <1>1
  <2>6. <<>> \in Seq(Turns \cup Steers)
    OBVIOUS
  <2>2. turn' \in [Hosts -> Turns \cup {Nobody}] /\ work' \in [Hosts -> Seq(Turns \cup Steers)]
    BY <2>1, <2>4, <2>5, <2>6
  <2>3. conv' \in [Hosts -> BOOLEAN] /\ endings' \in [Hosts -> Nat]
    BY <1>1, <1>2, <1>3
  <2> QED BY <2>2, <2>3
<1>11. Pipes'
  BY <1>1, <1>9, <1>10 DEF WInv, Pipes
<1> QED BY <1>1, <1>3, <1>7, <1>11 DEF EndsIt

\* A host that dies takes everything along but what it has said.
LEMMA DiesTyped == ASSUME WInv, NEW g \in Hosts, Dies(g) PROVE Pipes'
BY DEF WInv, Pipes, Dies

\* A caller takes a step of its own, which touches no host and no pipe; no call
\* begins anew.
Results == Answers \cup {"none", "too_many", "switching"}
Steps(c) ==
  /\ \E l \in Places \ {"idle", "sending", "awaiting"} : Goto(c, l)
  /\ \/ doing' = doing
     \/ \E op \in Commands : Fits(op, c) /\ doing' = [doing EXCEPT ![c] = op]
  /\ inflight' = inflight \/ inflight' = [inflight EXCEPT ![c] = 0]
  /\ hostClosed' \in BOOLEAN /\ listed' \in BOOLEAN
  /\ result' \in [Turns -> Results]
  /\ UNCHANGED <<answer, calls, gen, proc, pipes, convVars>>

LEMMA StepsKeep ==
  ASSUME WInv, IInv', NEW c \in Callers, Steps(c)
  PROVE  WInv'
<1>1. PICK l \in Places \ {"idle", "sending", "awaiting"} : pc' = [pc EXCEPT ![c] = l]
  BY DEF Steps, Goto
<1>2. /\ pc \in [Callers -> Places] /\ doing \in [Callers -> Commands]
      /\ inflight \in [Callers -> Nat] /\ \A d \in Callers : Fits(doing[d], d)
  BY DEF WInv, Calls
<1>3. /\ pc' \in [Callers -> Places]
      /\ \A d \in Callers : pc'[d] \in {"sending", "awaiting"} => pc'[d] = pc[d]
  BY <1>1, <1>2
<1>4. inflight' \in [Callers -> Nat]
  BY <1>2 DEF Steps
<1>5. doing' \in [Callers -> Commands] /\ \A d \in Callers : Fits(doing'[d], d)
  BY <1>2 DEF Steps
<1>6. /\ hostClosed' \in BOOLEAN /\ listed' \in BOOLEAN /\ result' \in [Turns -> Results]
      /\ UNCHANGED <<answer, calls, gen, proc, pipes, convVars>>
  BY DEF Steps
<1>7. Calls'
  BY <1>3, <1>4, <1>5, <1>6 DEF WInv, Calls, Results
<1>8. Pipes' /\ Empty'
  BY <1>6 DEF WInv, Pipes, Empty, pipes, convVars
<1>9. Aimed'
  BY <1>3, <1>6 DEF WInv, Aimed
<1> QED BY <1>7, <1>8, <1>9 DEF WInv

\* The commands each kind of caller uses.
LEMMA FitFacts ==
  /\ \A c \in Turns \cup Steers : Fits("input", c) /\ "input" \in Commands
  /\ \A c \in Interrupts : Fits("interrupt", c) /\ "interrupt" \in Commands
  /\ \A c \in Switches : \A op \in OpenOps \cup CloseOps : Fits(op, c) /\ op \in Commands
BY DEF Fits, Commands, OpenOps, CloseOps

LEMMA BeginTurnSteps == ASSUME WInv, NEW t \in Turns, BeginTurn(t) PROVE Steps(t)
<1>0. /\ t \in Callers /\ hostClosed \in BOOLEAN /\ listed \in BOOLEAN
      /\ result \in [Turns -> Results]
  BY Apart DEF WInv, Calls, Results
<1>1. CASE Count(t)
  <2>1. (\E l \in {"done", "creating"} : Goto(t, l)) /\ result' \in [Turns -> Results]
    BY <1>0, <1>1 DEF Count, Results
  <2> QED BY <1>0, <1>1, <2>1 DEF Count, Steps, Places, switchVars, hostVars
<1>2. CASE Create(t)
  BY <1>0, <1>2 DEF Create, Steps, Places, switchVars, hostVars
<1>3. CASE CheckSwitch(t)
  <2>1. (\E l \in {"done", "announcing"} : Goto(t, l)) /\ result' \in [Turns -> Results]
    BY <1>0, <1>3 DEF CheckSwitch, Results
  <2> QED BY <1>0, <1>3, <2>1 DEF CheckSwitch, Steps, Places, switchVars, hostVars
<1>4. CASE Announce(t)
  <2>1. Goto(t, "calling") /\ doing' = [doing EXCEPT ![t] = "input"]
    BY <1>4 DEF Announce, Call
  <2>2. UNCHANGED <<hostClosed, listed, inflight, answer, calls, gen, proc, result, pipes, convVars>>
    BY <1>4 DEF Announce, switchVars, hostVars
  <2> QED BY <1>0, <2>1, <2>2, FitFacts DEF Steps, Places
<1>5. CASE Begun(t)
  <2>1. PICK a \in Answers : Returns(t, a) /\ result' = [result EXCEPT ![t] = a]
    BY <1>5 DEF Begun
  <2>2. inflight' = inflight \/ inflight' = [inflight EXCEPT ![t] = 0]
    BY <2>1 DEF Returns
  <2>3. /\ UNCHANGED <<hostClosed, listed, answer, calls, gen, proc, doing, pipes, convVars>>
        /\ Goto(t, "done")
    BY <1>5 DEF Begun, switchVars
  <2>4. result' \in [Turns -> Results]
    BY <1>0, <2>1 DEF Results
  <2> QED BY <1>0, <2>2, <2>3, <2>4 DEF Steps, Places
<1> QED BY <1>1, <1>2, <1>3, <1>4, <1>5 DEF BeginTurn

LEMMA SteerOrInterruptSteps ==
  ASSUME WInv, NEW c \in Steers \cup Interrupts, SteerOrInterrupt(c)
  PROVE  Steps(c)
<1>0. /\ hostClosed \in BOOLEAN /\ listed \in BOOLEAN /\ result \in [Turns -> Results]
  BY DEF WInv, Calls, Results
<1>1. CASE Lookup(c)
  <2>1. \/ \E op \in Commands : Fits(op, c) /\ Call(c, op)
        \/ Goto(c, "done") /\ UNCHANGED doing
    BY <1>1, FitFacts DEF Lookup
  <2>2. UNCHANGED <<hostClosed, listed, inflight, answer, calls, gen, proc, result, pipes, convVars>>
    BY <1>1 DEF Lookup, switchVars, hostVars
  <2> QED BY <1>0, <2>1, <2>2 DEF Steps, Places, Call
<1>2. CASE Steered(c)
  <2>1. inflight' = inflight \/ inflight' = [inflight EXCEPT ![c] = 0]
    BY <1>2 DEF Steered, Returns
  <2>2. /\ UNCHANGED <<hostClosed, listed, answer, calls, gen, proc, doing, result, pipes, convVars>>
        /\ Goto(c, "done")
    BY <1>2 DEF Steered, switchVars
  <2> QED BY <1>0, <2>1, <2>2 DEF Steps, Places
<1> QED BY <1>1, <1>2 DEF SteerOrInterrupt

LEMMA SwitchSteps ==
  ASSUME WInv, NEW w \in Switches, Begin(w) \/ Switch(w)
  PROVE  Steps(w)
<1>0. /\ hostClosed \in BOOLEAN /\ listed \in BOOLEAN /\ result \in [Turns -> Results]
  BY DEF WInv, Calls, Results
<1>8. \A op \in OpenOps \cup CloseOps : Fits(op, w) /\ op \in Commands
  BY FitFacts
<1>9. "close" \in CloseOps /\ "close_for_good" \in CloseOps /\ "create" \in OpenOps /\ "create_back" \in OpenOps
  BY DEF OpenOps, CloseOps
<1>1. CASE Begin(w)
  <2>1. \E l \in {"done", "looking"} : Goto(w, l)
    BY <1>1 DEF Begin
  <2>2. hostClosed' \in BOOLEAN /\ listed' \in BOOLEAN
    BY <1>0, <1>1 DEF Begin
  <2>3. UNCHANGED <<inflight, answer, doing, calls, gen, proc, result, pipes, convVars>>
    BY <1>1 DEF Begin, hostVars
  <2> QED BY <1>0, <2>1, <2>2, <2>3 DEF Steps, Places
<1>2. CASE LookForTurns(w)
  <2>1. \E l \in {"finishing", "closing"} : Goto(w, l)
    BY <1>2 DEF LookForTurns
  <2> QED BY <1>0, <1>2, <2>1 DEF LookForTurns, Steps, Places, switchVars, hostVars
<1>3. CASE CloseForSwitch(w)
  <2>0. Call(w, "close") \/ Call(w, "create")
    BY <1>3, Zenon DEF CloseForSwitch, Reopen
  <2>1. \E op \in OpenOps \cup CloseOps : Call(w, op)
    BY <1>9, <2>0, Zenon
  <2>2. listed' \in BOOLEAN
    BY <1>0, <1>3 DEF CloseForSwitch, Reopen
  <2>3. UNCHANGED <<hostClosed, inflight, answer, calls, gen, proc, result, pipes, convVars>>
    BY <1>3 DEF CloseForSwitch, hostVars
  <2> QED BY <1>0, <1>8, <2>1, <2>2, <2>3 DEF Steps, Places, Call
<1>4. CASE CloseReturns(w)
  <2>1. \/ \E op \in OpenOps : Call(w, op)
        \/ (\E l \in {"ending", "finishing"} : Goto(w, l)) /\ UNCHANGED doing
    BY <1>4, Zenon DEF CloseReturns, Reopen, OpenOps
  <2>2. inflight' = inflight \/ inflight' = [inflight EXCEPT ![w] = 0]
    BY <1>4, Zenon DEF CloseReturns, Returns
  <2>3. listed' \in BOOLEAN
    <3>1. listed' = FALSE \/ listed' = listed
      BY <1>4, Zenon DEF CloseReturns, Reopen
    <3> QED BY <1>0, <3>1
  <2>4. UNCHANGED <<hostClosed, answer, calls, gen, proc, result, pipes, convVars>>
    BY <1>4 DEF CloseReturns
  <2> QED BY <1>0, <1>8, <2>1, <2>2, <2>3, <2>4 DEF Steps, Places, Call
<1>5. CASE StreamEnded(w)
  <2>0. \/ Call(w, "create") \/ Call(w, "close_for_good")
        \/ Goto(w, "finishing") /\ UNCHANGED doing
    BY <1>5, Zenon DEF StreamEnded, Reopen
  <2>1. \/ \E op \in OpenOps \cup CloseOps : Call(w, op)
        \/ Goto(w, "finishing") /\ UNCHANGED doing
    BY <1>9, <2>0, Zenon
  <2>2. listed' \in BOOLEAN
    <3>1. listed' = FALSE \/ listed' = listed
      BY <1>5, Zenon DEF StreamEnded, Reopen
    <3> QED BY <1>0, <3>1
  <2>3. UNCHANGED <<hostClosed, inflight, answer, calls, gen, proc, result, pipes, convVars>>
    BY <1>5, Zenon DEF StreamEnded, hostVars
  <2> QED BY <1>0, <1>8, <2>1, <2>2, <2>3 DEF Steps, Places, Call
<1>6. CASE ReopenReturns(w)
  <2>0. PICK a \in Answers :
          /\ Returns(w, a)
          /\ \/ /\ Goto(w, "finishing")
                /\ listed' = (a = "ok" /\ doing[w] # "close_for_good")
                /\ UNCHANGED doing
             \/ a # "ok" /\ doing[w] = "create" /\ Call(w, "create_back") /\ UNCHANGED listed
    BY <1>6, Zenon DEF ReopenReturns
  <2>1. \/ \E op \in OpenOps : Call(w, op)
        \/ Goto(w, "finishing") /\ UNCHANGED doing
    BY <1>9, <2>0, Zenon
  <2>2. inflight' = inflight \/ inflight' = [inflight EXCEPT ![w] = 0]
    BY <2>0, Zenon DEF Returns
  <2>3. listed' \in BOOLEAN
    BY <1>0, <2>0, Zenon
  <2>4. UNCHANGED <<hostClosed, answer, calls, gen, proc, result, pipes, convVars>>
    BY <1>6, Zenon DEF ReopenReturns
  <2> QED BY <1>0, <1>8, <2>1, <2>2, <2>3, <2>4 DEF Steps, Places, Call
<1>7. CASE Finish(w)
  BY <1>0, <1>7 DEF Finish, Steps, Places, hostVars
<1> QED BY <1>1, <1>2, <1>3, <1>4, <1>5, <1>6, <1>7 DEF Switch

LEMMA HangUpSteps == ASSUME WInv, NEW c \in Callers, HangUp(c) PROVE Steps(c)
<1>0. /\ hostClosed \in BOOLEAN /\ listed \in BOOLEAN /\ result \in [Turns -> Results]
  BY DEF WInv, Calls, Results
<1> QED BY <1>0 DEF HangUp, Steps, Places, switchVars, hostVars

---------------------------------------------------------------------------
(* The steps of calls and of hosts, once more.                             *)

\* Calls that are abandoned were in flight to a dead host.
Abandons ==
  \A d \in Callers : \/ inflight'[d] = inflight[d] /\ answer'[d] = answer[d]
                     \/ /\ inflight[d] # 0 /\ inflight'[d] = 0
                        /\ answer'[d] = "unavailable" /\ proc[gen[d]] = "dead"

LEMMA AbandonDoes ==
  ASSUME WInv, NEW g \in Hosts, proc[g] = "dead", Abandon(g)
  PROVE  /\ Abandons
         /\ inflight' \in [Callers -> Nat] /\ answer' \in [Callers -> Answers \cup {"none"}]
<1>1. inflight \in [Callers -> Nat] /\ answer \in [Callers -> Answers \cup {"none"}]
  BY DEF WInv, Calls
<1>2. "unavailable" \in Answers
  BY DEF Answers
<1>3. \A d \in Callers : d \in Abandoned(g) => inflight[d] # 0 /\ proc[gen[d]] = "dead"
  BY DEF Abandoned
<1>4. /\ inflight' = [c \in Callers |-> IF c \in Abandoned(g) THEN 0 ELSE inflight[c]]
      /\ answer' = [c \in Callers |-> IF c \in Abandoned(g) THEN "unavailable" ELSE answer[c]]
  BY DEF Abandon
<1>5. Abandons
  BY <1>3, <1>4 DEF Abandons
<1>6. inflight' \in [Callers -> Nat] /\ answer' \in [Callers -> Answers \cup {"none"}]
  BY <1>1, <1>2, <1>4
<1> QED BY <1>5, <1>6

\* What ensure does besides taking down the host that was installed.
Ensures(c) ==
  /\ pc[c] = "calling"
  /\ \/ Goto(c, "sending") /\ gen'[c] \in Hosts
     \/ Goto(c, "unavailable")
  /\ Abandons
  /\ \A d \in Callers \ {c} : gen'[d] = gen[d]
  /\ \A h \in Hosts : proc[h] # "none" => proc'[h] = proc[h]
  /\ UNCHANGED <<hostClosed, listed, doing, calls, result, pipes, convVars>>

LEMMA EnsureDoes ==
  ASSUME WInv, NEW c \in Callers, Ensure(c)
  PROVE  /\ Ensures(c)
         /\ inflight' \in [Callers -> Nat] /\ answer' \in [Callers -> Answers \cup {"none"}]
<1>1. /\ pc[c] = "calling"
      /\ UNCHANGED <<hostClosed, listed, doing, calls, result, pipes, convVars>>
  BY DEF Ensure, switchVars
<1>2. /\ inflight \in [Callers -> Nat] /\ answer \in [Callers -> Answers \cup {"none"}]
      /\ installed \in Hosts \cup {0} /\ alive \subseteq Hosts /\ 0 \notin Hosts
      /\ gen \in [Callers -> Hosts \cup {0}] /\ proc \in [Hosts -> {"none", "up", "dead"}]
  BY Apart DEF WInv, Calls, IInv, Typed
<1>3. CASE installed \in alive
  <2>1. /\ gen' = [gen EXCEPT ![c] = installed] /\ Goto(c, "sending")
        /\ UNCHANGED <<hostVars, proc>>
    BY <1>3 DEF Ensure
  <2>2. installed \in Hosts /\ UNCHANGED <<inflight, answer, proc>>
    BY <1>2, <1>3, <2>1 DEF hostVars
  <2>3. gen'[c] \in Hosts /\ \A d \in Callers \ {c} : gen'[d] = gen[d]
    BY <1>2, <2>1, <2>2
  <2>4. Abandons
    BY <2>2 DEF Abandons
  <2> QED BY <1>1, <1>2, <2>1, <2>2, <2>3, <2>4 DEF Ensures
<1>4. CASE installed \notin alive
  <2> DEFINE g == Cardinality(Started) + 1
  <2>1. RetireIn(installed, c)
    BY <1>4 DEF Ensure
  <2>2. /\ Abandons
        /\ inflight' \in [Callers -> Nat] /\ answer' \in [Callers -> Answers \cup {"none"}]
    <3>1. CASE installed = 0
      BY <1>2, <2>1, <3>1 DEF RetireIn, Abandons
    <3>2. CASE installed # 0
      <4>1. Abandon(installed) /\ installed \in Hosts
        BY <1>2, <2>1, <3>2 DEF RetireIn, RetireLocked
      <4>2. proc[installed] = "dead"
        BY <1>2, <1>4, <3>2, <4>1 DEF WInv, IInv, HostsInv
      <4> QED BY <4>1, <4>2, AbandonDoes
    <3> QED BY <3>1, <3>2
  <2>3. CASE g \in Hosts
    <3>1. /\ proc' = [proc EXCEPT ![g] = "up"] /\ gen' = [gen EXCEPT ![c] = g] /\ Goto(c, "sending")
      BY <1>4, <2>3 DEF Ensure
    <3>2. proc[g] = "none"
      BY <2>3, NextHost DEF WInv, IInv, HostsInv
    <3> HIDE DEF g
    <3>3. \A h \in Hosts : proc[h] # "none" => proc'[h] = proc[h]
      BY <1>2, <2>3, <3>1, <3>2
    <3>4. gen'[c] \in Hosts /\ \A d \in Callers \ {c} : gen'[d] = gen[d]
      BY <1>2, <2>3, <3>1
    <3> QED BY <1>1, <2>2, <3>1, <3>3, <3>4 DEF Ensures
  <2>4. CASE g \notin Hosts
    <3>1. Goto(c, "unavailable") /\ UNCHANGED <<gen, proc>>
      BY <1>4, <2>4 DEF Ensure
    <3> QED BY <1>1, <2>2, <3>1 DEF Ensures
  <2> QED BY <2>3, <2>4
<1> QED BY <1>3, <1>4

LEMMA EnsureKeepsWires ==
  ASSUME WInv, IInv', NEW c \in Callers, Ensure(c)
  PROVE  WInv'
<1>1. /\ Ensures(c)
      /\ inflight' \in [Callers -> Nat] /\ answer' \in [Callers -> Answers \cup {"none"}]
  BY EnsureDoes
<1>2. pc \in [Callers -> Places] /\ \A d \in Callers : gen[d] # 0 => proc[gen[d]] # "none"
  BY DEF WInv, Calls, IInv, HostsInv
<1>3. /\ pc' \in [Callers -> Places]
      /\ \A d \in Callers \ {c} : pc'[d] = pc[d]
      /\ (pc'[c] = "sending" /\ gen'[c] \in Hosts) \/ pc'[c] = "unavailable"
  BY <1>1, <1>2 DEF Ensures, Goto, Places
<1>4. Calls'
  BY <1>1, <1>3 DEF WInv, Calls, Ensures
<1>5. Pipes'
  BY <1>1 DEF WInv, Pipes, Ensures, pipes, convVars
<1>6. Empty'
  <2>1. \A h \in Hosts : proc'[h] # "up" => proc[h] # "up"
    BY <1>1 DEF Ensures
  <2> QED BY <1>1, <2>1 DEF WInv, Empty, Ensures, pipes, convVars
<1>7. Aimed'
  <2> SUFFICES ASSUME NEW d \in Callers
               PROVE  /\ pc'[d] \in {"sending", "awaiting"} => gen'[d] \in Hosts
                      /\ pc'[d] = "awaiting" /\ answer'[d] = "unavailable" => proc'[gen'[d]] = "dead"
    BY DEF Aimed
  <2>1. CASE d = c
    BY <1>3, <2>1
  <2>2. CASE d # c
    <3>1. pc'[d] = pc[d] /\ gen'[d] = gen[d]
      BY <1>1, <1>3, <2>2 DEF Ensures
    <3>2. ASSUME pc[d] = "awaiting", answer'[d] = "unavailable" PROVE proc'[gen[d]] = "dead"
      <4>1. gen[d] \in Hosts
        BY <3>2 DEF WInv, Aimed
      <4>2. proc[gen[d]] = "dead"
        BY <1>1, <3>2 DEF WInv, Aimed, Ensures, Abandons
      <4> QED BY <1>1, <4>1, <4>2 DEF Ensures
    <3> QED BY <3>1, <3>2 DEF WInv, Aimed
  <2> QED BY <2>1, <2>2
<1> QED BY <1>4, <1>5, <1>6, <1>7 DEF WInv

\* A command is written to a host that runs, or the call has none.
Request(c) == [op |-> doing[c], by |-> c, n |-> calls[c] + 1]
Sends(c) ==
  /\ pc[c] = "sending" /\ gen[c] \in Hosts /\ Request(c) \in Requests
  /\ \A d \in Callers : calls'[d] = IF d = c THEN calls[c] + 1 ELSE calls[d]
  /\ \/ /\ proc[gen[c]] = "up" /\ Goto(c, "awaiting")
        /\ inflight' = [inflight EXCEPT ![c] = calls[c] + 1]
        /\ answer' = [answer EXCEPT ![c] = "none"]
        /\ toHost' = [toHost EXCEPT ![gen[c]] = Append(@, Request(c))]
     \/ proc[gen[c]] # "up" /\ Goto(c, "unavailable") /\ UNCHANGED <<inflight, answer, toHost>>
  /\ UNCHANGED <<hostClosed, listed, doing, gen, result, proc, fromHost, convVars>>

LEMMA SendDoes == ASSUME WInv, NEW c \in Callers, Send(c) PROVE Sends(c) /\ calls' \in [Callers -> Nat]
<1>1. /\ pc[c] = "sending" /\ calls' = [calls EXCEPT ![c] = @ + 1]
      /\ UNCHANGED <<hostClosed, listed, doing, gen, result, proc, fromHost, convVars>>
  BY DEF Send, switchVars
<1>2. calls \in [Callers -> Nat] /\ doing[c] \in Commands /\ Fits(doing[c], c)
  BY DEF WInv, Calls
<1>3. /\ calls' \in [Callers -> Nat] /\ calls'[c] = calls[c] + 1
      /\ \A d \in Callers : calls'[d] = IF d = c THEN calls[c] + 1 ELSE calls[d]
  BY <1>1, <1>2
<1>4. gen[c] \in Hosts
  BY <1>1 DEF WInv, Aimed
<1>5. Request(c) \in Requests
  BY <1>2 DEF Request, Requests, CallIds
<1>6. [op |-> doing[c], by |-> c, n |-> calls'[c]] = Request(c)
  BY <1>3 DEF Request
<1>7. \/ /\ proc[gen[c]] = "up" /\ Goto(c, "awaiting")
         /\ inflight' = [inflight EXCEPT ![c] = calls[c] + 1]
         /\ answer' = [answer EXCEPT ![c] = "none"]
         /\ toHost' = [toHost EXCEPT ![gen[c]] = Append(@, Request(c))]
      \/ proc[gen[c]] # "up" /\ Goto(c, "unavailable") /\ UNCHANGED <<inflight, answer, toHost>>
  BY <1>3, <1>6 DEF Send
<1> QED BY <1>1, <1>3, <1>4, <1>5, <1>7 DEF Sends

LEMMA SendKeepsWires ==
  ASSUME WInv, IInv', NEW c \in Callers, Send(c)
  PROVE  WInv'
<1>1. Sends(c) /\ calls' \in [Callers -> Nat]
  BY SendDoes
<1>2. /\ pc \in [Callers -> Places] /\ inflight \in [Callers -> Nat] /\ calls \in [Callers -> Nat]
      /\ answer \in [Callers -> Answers \cup {"none"}] /\ toHost \in [Hosts -> Seq(Requests)]
      /\ proc \in [Hosts -> {"none", "up", "dead"}]
  BY DEF WInv, Calls, Pipes, IInv, Typed
<1>3. /\ pc' \in [Callers -> Places] /\ pc'[c] \in {"awaiting", "unavailable"}
      /\ \A d \in Callers \ {c} : pc'[d] = pc[d]
  BY <1>1, <1>2 DEF Sends, Goto, Places
<1>4. /\ inflight' \in [Callers -> Nat] /\ answer' \in [Callers -> Answers \cup {"none"}]
      /\ \A d \in Callers \ {c} : answer'[d] = answer[d]
      /\ pc'[c] = "awaiting" => answer'[c] = "none"
  <2>1. CASE /\ inflight' = [inflight EXCEPT ![c] = calls[c] + 1]
             /\ answer' = [answer EXCEPT ![c] = "none"]
    BY <1>2, <2>1
  <2>2. CASE Goto(c, "unavailable") /\ UNCHANGED <<inflight, answer>>
    BY <1>2, <2>2 DEF Goto
  <2> QED BY <1>1, <2>1, <2>2 DEF Sends
<1>5. toHost' \in [Hosts -> Seq(Requests)]
  <2>1. Append(toHost[gen[c]], Request(c)) \in Seq(Requests)
    BY <1>1, <1>2, SeqFacts DEF Sends
  <2> QED BY <1>1, <1>2, <2>1 DEF Sends
<1>6. Calls'
  BY <1>1, <1>3, <1>4 DEF WInv, Calls, Sends
<1>7. Pipes'
  BY <1>1, <1>5 DEF WInv, Pipes, Sends, convVars
<1>8. Empty'
  <2>1. \A h \in Hosts : proc[h] # "up" => toHost'[h] = toHost[h]
    BY <1>1, <1>2 DEF Sends
  <2> QED BY <1>1, <2>1 DEF WInv, Empty, Sends, convVars
<1>9. Aimed'
  BY <1>1, <1>3, <1>4 DEF WInv, Aimed, Sends
<1> QED BY <1>6, <1>7, <1>8, <1>9 DEF WInv

\* What a reader takes from the output of its host reaches the calls, or is the
\* end of a stream.
Reads(g) ==
  /\ fromHost[g] # <<>> /\ fromHost' = [fromHost EXCEPT ![g] = Tail(@)]
  /\ LET f == Head(fromHost[g]) IN
     \/ /\ f.kind = "reply" /\ f.answer \in Said /\ UNCHANGED <<hostClosed, listed>>
        /\ \A d \in Callers : \/ inflight'[d] = inflight[d] /\ answer'[d] = answer[d]
                              \/ d = f.by /\ inflight'[d] = 0 /\ answer'[d] = f.answer
     \/ f.kind = "turn" /\ UNCHANGED <<inflight, answer, hostClosed, listed>>
     \/ /\ f.kind = "session" /\ UNCHANGED <<inflight, answer>>
        /\ \/ hostClosed' = TRUE /\ UNCHANGED listed
           \/ listed' = FALSE /\ UNCHANGED hostClosed
  /\ UNCHANGED <<proc, callVars, toHost, convVars>>

LEMMA ReadDoes ==
  ASSUME WInv, NEW g \in Hosts, Read(g)
  PROVE  /\ Reads(g)
         /\ inflight' \in [Callers -> Nat] /\ answer' \in [Callers -> Answers \cup {"none"}]
<1> DEFINE f == Head(fromHost[g])
<1>1. fromHost[g] # <<>> /\ fromHost' = [fromHost EXCEPT ![g] = Tail(@)]
  BY DEF Read
<1>2. UNCHANGED <<proc, callVars, toHost, convVars>>
  BY DEF Read
<1>3. \/ /\ f.kind = "reply" /\ UNCHANGED <<hostClosed, listed>>
         /\ \/ UNCHANGED <<inflight, answer>>
            \/ /\ inflight' = [inflight EXCEPT ![f.by] = 0]
               /\ answer' = [answer EXCEPT ![f.by] = f.answer]
      \/ f.kind = "turn" /\ UNCHANGED <<inflight, answer, hostClosed, listed>>
      \/ /\ f.kind = "session" /\ UNCHANGED <<inflight, answer>>
         /\ \/ hostClosed' = TRUE /\ UNCHANGED listed
            \/ listed' = FALSE /\ UNCHANGED hostClosed
  BY Zenon DEF Read
<1>4. f \in Spoken
  BY <1>1, SeqFacts DEF WInv, Pipes
<1> HIDE DEF f
<1>5. /\ inflight \in [Callers -> Nat] /\ answer \in [Callers -> Answers \cup {"none"}]
      /\ Said \subseteq Answers
  BY DEF WInv, Calls, Said, Answers
<1>6. f.kind = "reply" => f.by \in Callers /\ f.answer \in Said
  BY <1>4, FrameFacts
<1>7. /\ inflight' \in [Callers -> Nat] /\ answer' \in [Callers -> Answers \cup {"none"}]
      /\ f.kind = "reply" =>
           \A d \in Callers : \/ inflight'[d] = inflight[d] /\ answer'[d] = answer[d]
                              \/ d = f.by /\ inflight'[d] = 0 /\ answer'[d] = f.answer
  <2>1. CASE UNCHANGED <<inflight, answer>>
    BY <1>5, <2>1
  <2>2. CASE /\ f.kind = "reply" /\ inflight' = [inflight EXCEPT ![f.by] = 0]
             /\ answer' = [answer EXCEPT ![f.by] = f.answer]
    BY <1>5, <1>6, <2>2
  <2> QED BY <1>3, <2>1, <2>2
<1>8. Reads(g)
  BY <1>1, <1>2, <1>3, <1>6, <1>7, Zenon DEF Reads, f
<1> QED BY <1>7, <1>8

LEMMA FollowKeepsWires ==
  ASSUME WInv, IInv', NEW g \in Hosts, Follow(g)
  PROVE  WInv'
<1>1. CASE Eof(g) \/ Reap(g)
  <2>1. UNCHANGED <<switchVars, inflight, answer, callVars, proc, pipes, convVars>>
    BY <1>1 DEF Eof, Reap
  <2> QED BY <2>1 DEF WInv, Calls, Pipes, Empty, Aimed, switchVars, callVars, pipes, convVars
<1>2. CASE Retire(g)
  <2>1. UNCHANGED <<switchVars, callVars, proc, pipes, convVars>>
    BY <1>2 DEF Retire
  <2>2. Abandon(g) /\ proc[g] = "dead"
    BY <1>2 DEF Retire, RetireLocked, WInv, IInv, HostsInv
  <2>3. /\ Abandons /\ inflight' \in [Callers -> Nat] /\ answer' \in [Callers -> Answers \cup {"none"}]
    BY <2>2, AbandonDoes
  <2>4. Calls' /\ Pipes' /\ Empty'
    BY <2>1, <2>3 DEF WInv, Calls, Pipes, Empty, switchVars, callVars, pipes, convVars
  <2>5. Aimed'
    BY <2>1, <2>3 DEF WInv, Aimed, Abandons, callVars
  <2> QED BY <2>4, <2>5 DEF WInv
<1>3. CASE Read(g)
  <2>1. /\ Reads(g) /\ inflight' \in [Callers -> Nat] /\ answer' \in [Callers -> Answers \cup {"none"}]
    BY <1>3, ReadDoes
  <2>2. hostClosed' \in BOOLEAN /\ listed' \in BOOLEAN
    BY <2>1 DEF Reads, WInv, Calls
  <2>3. UNCHANGED <<proc, pc, doing, calls, gen, result, toHost, conv, turn, work, claims, endings>>
    BY <2>1 DEF Reads, callVars, convVars
  <2>4. Calls'
    BY <2>1, <2>2, <2>3 DEF WInv, Calls
  <2>5. fromHost' \in [Hosts -> Seq(Spoken)]
    <3>1. fromHost \in [Hosts -> Seq(Spoken)] /\ fromHost[g] # <<>>
      BY <2>1 DEF WInv, Pipes, Reads
    <3>2. Tail(fromHost[g]) \in Seq(Spoken)
      BY <3>1, SeqFacts
    <3> QED BY <2>1, <3>1, <3>2 DEF Reads
  <2>6. Pipes' /\ Empty'
    BY <2>3, <2>5 DEF WInv, Pipes, Empty
  <2>7. \A d \in Callers : answer'[d] = "unavailable" => answer[d] = "unavailable"
    BY <2>1 DEF Reads, Said
  <2>8. Aimed'
    BY <2>3, <2>7 DEF WInv, Aimed
  <2> QED BY <2>4, <2>6, <2>8 DEF WInv
<1> QED BY <1>1, <1>2, <1>3 DEF Follow

LEMMA HostKeepsWires ==
  ASSUME WInv, IInv', NEW g \in Hosts, Host(g)
  PROVE  WInv'
<1>1. CASE Dies(g)
  <2>1. /\ UNCHANGED <<registry, switchVars, hostVars, callVars, fromHost>>
        /\ \A h \in Hosts : proc'[h] = IF h = g THEN "dead" ELSE proc[h]
        /\ toHost'[g] = <<>> /\ conv'[g] = FALSE /\ endings'[g] = 0
        /\ \A h \in Hosts \ {g} : toHost'[h] = toHost[h] /\ conv'[h] = conv[h] /\ endings'[h] = endings[h]
    BY <1>1 DEF Dies, WInv, Pipes, IInv, Typed
  <2>2. Pipes'
    BY <1>1, DiesTyped
  <2>3. Calls'
    BY <2>1 DEF WInv, Calls, switchVars, hostVars, callVars
  <2>4. Empty'
    BY <2>1 DEF WInv, Empty
  <2>5. Aimed'
    BY <2>1 DEF WInv, Aimed, hostVars, callVars
  <2> QED BY <2>2, <2>3, <2>4, <2>5 DEF WInv
<1>2. CASE ~Dies(g)
  <2>1. CASE Input(g) \/ Interrupt(g) \/ Interrupted(g) \/ Result(g)
    <3>1. Chatters(g) /\ Pipes'
      BY <2>1, InputChatters, InterruptChatters, InterruptedChatters, ResultChatters
    <3>2. toHost'[g] = toHost[g] \/ toHost[g] # <<>>
      BY <3>1 DEF Chatters, Takes1
    <3>3. \A h \in Hosts : proc[h] # "up" => toHost'[h] = <<>>
      BY <3>1, <3>2 DEF Chatters, Takes1, WInv, Empty, Pipes
    <3>4. Empty'
      BY <3>1, <3>3 DEF Chatters, WInv, Empty
    <3> QED BY <3>1, <3>4 DEF Chatters, WInv, Calls, Aimed, switchVars, hostVars, callVars
  <2>2. CASE Closes(g)
    <3>1. ClosesIt(g, Head(toHost[g])) /\ Pipes'
      BY <2>2, ClosesDoes
    <3>2. proc[g] = "up"
      BY <3>1 DEF ClosesIt, Takes1, WInv, Empty
    <3>3. /\ \A h \in Hosts \ {g} : toHost'[h] = toHost[h] /\ conv'[h] = conv[h] /\ endings'[h] = endings[h]
          /\ UNCHANGED <<switchVars, hostVars, callVars, proc>>
      <4>1. Takes1(g) /\ UNCHANGED <<switchVars, hostVars, callVars, proc>>
        BY <3>1 DEF ClosesIt
      <4>2. conv' = conv \/ conv' = [conv EXCEPT ![g] = FALSE]
        BY <3>1, Zenon DEF ClosesIt
      <4>3. endings' = endings \/ endings' = [endings EXCEPT ![g] = @ + 1]
        BY <3>1, Zenon DEF ClosesIt
      <4> QED BY <4>1, <4>2, <4>3 DEF Takes1, WInv, Pipes
    <3>4. Empty'
      BY <3>2, <3>3 DEF WInv, Empty
    <3> QED BY <3>1, <3>3, <3>4 DEF WInv, Calls, Aimed, switchVars, hostVars, callVars
  <2>3. CASE Opens(g)
    <3>1. OpensIt(g, Head(toHost[g])) /\ Pipes'
      BY <2>3, OpensDoes
    <3>2. proc[g] = "up"
      BY <3>1 DEF OpensIt, Takes1, WInv, Empty
    <3>3. /\ \A h \in Hosts \ {g} : toHost'[h] = toHost[h] /\ conv'[h] = conv[h]
          /\ UNCHANGED <<switchVars, hostVars, callVars, proc, endings>>
      BY <3>1 DEF OpensIt, Takes1, WInv, Pipes
    <3>4. Empty'
      BY <3>2, <3>3 DEF WInv, Empty
    <3> QED BY <3>1, <3>3, <3>4 DEF WInv, Calls, Aimed, switchVars, hostVars, callVars
  <2>4. CASE StreamFails(g) \/ StreamEnds(g)
    <3>1. EndsIt(g) /\ Pipes'
      BY <2>4, StreamDoes
    <3>2. proc[g] = "up"
      BY <3>1 DEF EndsIt, WInv, Empty
    <3>3. /\ \A h \in Hosts \ {g} : toHost'[h] = toHost[h] /\ conv'[h] = conv[h] /\ endings'[h] = endings[h]
          /\ UNCHANGED <<switchVars, hostVars, callVars, proc>>
      BY <3>1 DEF EndsIt, WInv, Pipes
    <3>4. Empty'
      BY <3>2, <3>3 DEF WInv, Empty
    <3> QED BY <3>1, <3>3, <3>4 DEF WInv, Calls, Aimed, switchVars, hostVars, callVars
  <2> QED BY <1>2, <2>1, <2>2, <2>3, <2>4 DEF Host
<1> QED BY <1>1, <1>2

LEMMA WInvInit == Init => WInv
<1> SUFFICES ASSUME Init PROVE WInv
  OBVIOUS
<1>1. <<>> \in Seq(Requests) /\ <<>> \in Seq(Spoken) /\ <<>> \in Seq(Turns \cup Steers)
  OBVIOUS
<1>2. "idle" \in Places /\ "none" \in Commands /\ \A c \in Callers : Fits("none", c)
  BY DEF Places, Commands, Fits, OpenOps, CloseOps
<1>3. /\ hostClosed = FALSE /\ listed = TRUE
      /\ inflight = [c \in Callers |-> 0] /\ answer = [c \in Callers |-> "none"]
      /\ pc = [c \in Callers |-> "idle"] /\ doing = [c \in Callers |-> "none"]
      /\ calls = [c \in Callers |-> 0] /\ gen = [c \in Callers |-> 0]
      /\ result = [t \in Turns |-> "none"]
      /\ proc = [g \in Hosts |-> IF g = 1 THEN "up" ELSE "none"]
      /\ toHost = [g \in Hosts |-> <<>>] /\ fromHost = [g \in Hosts |-> <<>>]
      /\ conv = [g \in Hosts |-> g = 1] /\ turn = [g \in Hosts |-> Nobody]
      /\ work = [g \in Hosts |-> <<>>] /\ claims = [g \in Hosts |-> {}]
      /\ endings = [g \in Hosts |-> 0]
  BY DEF Init
<1>4. Calls
  BY <1>2, <1>3 DEF Calls
<1>5. Pipes
  BY <1>1, <1>3 DEF Pipes
<1>6. Empty /\ Aimed
  BY <1>3 DEF Empty, Aimed
<1> QED BY <1>4, <1>5, <1>6, InitHolds DEF WInv

LEMMA WInvNext == WInv /\ [Next]_vars => WInv'
<1> SUFFICES ASSUME WInv, [Next]_vars PROVE WInv'
  OBVIOUS
<1>1. IInv'
  BY NextKeeps DEF WInv
<1>2. CASE UNCHANGED <<switchVars, hostVars, callVars, proc, pipes, convVars>>
  BY <1>1, <1>2 DEF WInv, Calls, Pipes, Empty, Aimed, switchVars, hostVars, callVars, pipes, convVars
<1>3. CASE UNCHANGED vars
  BY <1>2, <1>3 DEF vars
<1>4. ASSUME NEW t \in Turns, BeginTurn(t) \/ Told(t) PROVE WInv'
  <2>1. CASE BeginTurn(t)
    BY <1>1, <2>1, BeginTurnSteps, StepsKeep, Apart
  <2>2. CASE Told(t)
    BY <1>2, <2>2 DEF Told, Tell, CloseLog
  <2> QED BY <1>4, <2>1, <2>2
<1>5. ASSUME NEW c \in Steers \cup Interrupts, SteerOrInterrupt(c) PROVE WInv'
  BY <1>1, <1>5, SteerOrInterruptSteps, StepsKeep, Apart
<1>6. ASSUME NEW w \in Switches, Begin(w) \/ Switch(w) PROVE WInv'
  BY <1>1, <1>6, SwitchSteps, StepsKeep, Apart
<1>7. ASSUME NEW c \in Callers, CallHost(c) \/ HangUp(c) PROVE WInv'
  BY <1>1, <1>7, HangUpSteps, StepsKeep, EnsureKeepsWires, SendKeepsWires DEF CallHost
<1>8. ASSUME NEW g \in Hosts, Follow(g) \/ Host(g) PROVE WInv'
  BY <1>1, <1>8, FollowKeepsWires, HostKeepsWires
<1> QED BY <1>3, <1>4, <1>5, <1>6, <1>7, <1>8 DEF Next

LEMMA WInvariance == Spec => []WInv
BY WInvInit, WInvNext, PTL DEF Spec

\* Every variable keeps its type: in particular a steer and an interrupt, and
\* nobody else, give the host an input or an interrupt of a turn that exists
\* (bridge/routes/turns.rs), and every reply is to a call (bridge/host.rs).
THEOREM TypeCorrect == Spec => []TypeOK
<1>1. WInv => TypeOK
  <2> SUFFICES ASSUME WInv PROVE TypeOK
    OBVIOUS
  <2>1. \A t \in Turns : untold[t] \subseteq (Hosts \cup Callers) \X {"frame", "close"}
    <3> SUFFICES ASSUME NEW t \in Turns
                 PROVE  untold[t] \subseteq (Hosts \cup Callers) \X {"frame", "close"}
      OBVIOUS
    <3>1. \/ untold[t] = {}
          \/ \E x \in Hosts \cup Callers : untold[t] = {<<x, "frame">>} \/ untold[t] = {<<x, "close">>}
      BY DEF WInv, IInv, ToldOnce, Unfinished, ToTell, ToClose, Over
    <3> QED BY <3>1
  <2>2. \A g \in Hosts : toHost[g] \in Seq(CallIds) /\ fromHost[g] \in Seq(HostFrames)
    <3>1. Requests \subseteq CallIds /\ Spoken \subseteq HostFrames
      BY DEF Requests, Spoken
    <3> QED BY <3>1 DEF WInv, Pipes
  <2>3. \A g \in Hosts : work[g] \in Seq(Turns \cup Steers) /\ claims[g] \subseteq CallIds
    BY DEF WInv, Pipes, Claims
  <2> QED BY <2>1, <2>2, <2>3 DEF WInv, Calls, Pipes, Places, IInv, Typed, TypeOK
<1> QED BY <1>1, WInvariance, PTL

---------------------------------------------------------------------------
(* The first switch of a conversation.  What it needs is said of a switch   *)
(* while no other one has begun.                                           *)

NoOpens == {m \in Requests : m.op \notin OpenOps}
NoCloses == {m \in Requests : m.op \notin CloseOps}
NoEnds == {f \in Spoken : f.kind # "session"}
Unheard(w) == {f \in Spoken : f.kind = "reply" => f.by # w}
NotAlready(w) == {f \in Spoken : f.kind = "reply" /\ f.by = w => f.answer # "already"}

\* No stream has still to end, and no request to close is under way.
NoStream == \A g \in Hosts : endings[g] = 0
NonePending == \A g \in Hosts : toHost[g] \in Seq(NoCloses)

First(w) == \A v \in Switches : v # w => pc[v] = "idle"

\* A conversation that is open has no stream of before that has still to end.
OneStream == \A g \in Hosts : conv[g] = TRUE => endings[g] = 0

\* Until it opens the conversation, only the first host has had it ...
Before(w) == doing[w] \notin OpenOps =>
  \A g \in Hosts : /\ toHost[g] \in Seq(NoOpens)
                   /\ g # 1 => conv[g] = FALSE /\ endings[g] = 0

\* ... and then the old stream is over, and nothing that closes is under way.
After(w) == doing[w] \in OpenOps => NoStream /\ NonePending

\* Until it calls the host, nobody opens or closes the conversation.
Uncalled(w) ==
  /\ pc[w] \in {"idle", "looking", "closing"} => doing[w] = "none"
  /\ pc[w] \in {"calling", "sending"} => doing[w] # "none"
  /\ pc[w] = "ending" => doing[w] = "close"
  /\ doing[w] = "none" => calls[w] = 0
  /\ doing[w] = "close" /\ pc[w] \in {"calling", "sending"} => calls[w] = 0
  /\ calls[w] = 0 => /\ NoStream /\ NonePending
                     /\ \A g \in Hosts : /\ toHost[g] \in Seq(NoOpens)
                                         /\ fromHost[g] \in Seq(Unheard(w))
                     /\ answer[w] = "none" /\ inflight[w] = 0

\* The end of the stream is reported when it has ended.
Reported(w) == doing[w] \in {"none", "close"} =>
  /\ endings[1] <= 1
  /\ hostClosed = TRUE \/ (\E g \in Hosts : fromHost[g] \notin Seq(NoEnds))
       => conv[1] = FALSE /\ endings[1] = 0

\* It asks once for the close: an answer says that the request was taken.
Once(w) == doing[w] = "close" /\ calls[w] # 0 =>
  /\ \A g \in Hosts : /\ endings[g] # 0 => g = gen[w]
                      /\ toHost[g] \notin Seq(NoCloses) => g = gen[w]
                      /\ \A i, j \in DOMAIN toHost[g] :
                           toHost[g][i].op \in CloseOps /\ toHost[g][j].op \in CloseOps => i = j
  /\ ~NonePending => /\ NoStream /\ answer[w] \in {"none", "unavailable"}
                     /\ \A g \in Hosts : fromHost[g] \in Seq(Unheard(w))
  /\ pc[w] = "ending" => NonePending
  /\ pc[w] = "unavailable" => NonePending /\ NoStream
  /\ answer[w] = "already" \/ (\E g \in Hosts : fromHost[g] \notin Seq(NotAlready(w))) => NoStream

Orderly(w) == OneStream /\ Before(w) /\ After(w) /\ Uncalled(w) /\ Reported(w) /\ Once(w)

RInv == /\ \A w \in Switches : First(w) => Orderly(w)
        /\ Switches = {} => NoStream

---------------------------------------------------------------------------

LEMMA OneIsHost == 1 \in Hosts
BY TurnsAssumption DEF Hosts

\* A command opens or closes, not both.
LEMMA OrdersApart ==
  /\ "none" \notin OpenOps \cup CloseOps
  /\ "close" \in CloseOps \ OpenOps /\ "close_for_good" \in CloseOps \ OpenOps
  /\ "create" \in OpenOps \ CloseOps /\ "create_back" \in OpenOps \ CloseOps
  /\ \A op \in OpenOps : op \notin CloseOps /\ op # "none" /\ op # "close"
BY DEF OpenOps, CloseOps

\* How a pipe changes: by its first element, or at its end.
Shorter(s, t) == s # <<>> /\ t = Tail(s)

LEMMA PipeKept ==
  ASSUME NEW S, NEW s \in Seq(S), NEW t,
         \/ t = s \/ Shorter(s, t)
         \/ \E e \in S : t = Append(s, e)
         \/ \E x \in Seq(S) : t = s \o x
  PROVE  t \in Seq(S)
BY SeqFacts DEF Shorter

LEMMA SubSeqs == ASSUME NEW S, NEW T \in SUBSET S, NEW s \in Seq(T) PROVE s \in Seq(S)
OBVIOUS

LEMMA HeadIn == ASSUME NEW S, NEW s \in Seq(S), s # <<>> PROVE Head(s) \in S
OBVIOUS

\* What is not a switch's is in all the sets above.
Plain == NoOpens \cap NoCloses

LEMMA PlainFacts ==
  ASSUME NEW w \in Switches
  PROVE  /\ Plain \subseteq NoOpens /\ Plain \subseteq NoCloses
         /\ Chat \subseteq NoEnds /\ Chat \subseteq Unheard(w) /\ Chat \subseteq NotAlready(w)
         /\ Quiet \subseteq Unheard(w) /\ Unheard(w) \subseteq NotAlready(w)
BY DEF Plain, Chat, NoEnds, Unheard, NotAlready, Quiet

\* One request to close at most stays one when a pipe is read, or gets a request
\* of another kind.
AtMostOne(s) == \A i, j \in DOMAIN s : s[i].op \in CloseOps /\ s[j].op \in CloseOps => i = j

LEMMA AtMostOneKept ==
  ASSUME NEW s \in Seq(Requests), AtMostOne(s), NEW t,
         \/ t = s \/ Shorter(s, t)
         \/ \E e \in NoCloses : t = Append(s, e)
  PROVE  AtMostOne(t)
<1>1. CASE t = s
  BY <1>1
<1>2. CASE Shorter(s, t)
  <2>1. /\ t \in Seq(Requests) /\ Len(t) = Len(s) - 1 /\ Len(s) \in Nat /\ Len(s) > 0
        /\ \A i \in 1..Len(t) : t[i] = s[i + 1]
    BY <1>2 DEF Shorter
  <2>2. DOMAIN t = 1..Len(t) /\ DOMAIN s = 1..Len(s)
    BY <2>1
  <2>3. \A i \in DOMAIN t : i \in Int /\ i + 1 \in DOMAIN s
    BY <2>1, <2>2
  <2> SUFFICES ASSUME NEW i \in DOMAIN t, NEW j \in DOMAIN t, t[i].op \in CloseOps, t[j].op \in CloseOps
               PROVE  i = j
    BY DEF AtMostOne
  <2>4. i + 1 = j + 1
    BY <2>1, <2>2, <2>3 DEF AtMostOne
  <2> QED BY <2>3, <2>4
<1>3. CASE \E e \in NoCloses : t = Append(s, e)
  <2>1. PICK e \in NoCloses : t = Append(s, e)
    BY <1>3
  <2>2. /\ DOMAIN t = 1..(Len(s) + 1) /\ DOMAIN s = 1..Len(s) /\ Len(s) \in Nat
        /\ \A i \in 1..Len(s) : t[i] = s[i]
        /\ t[Len(s) + 1] = e
    <3>1. e \in Requests
      BY <2>1 DEF NoCloses
    <3> QED BY <2>1, <3>1
  <2>3. e.op \notin CloseOps
    BY <2>1 DEF NoCloses
  <2>4. \A i \in DOMAIN t : t[i].op \in CloseOps => i \in DOMAIN s /\ s[i].op \in CloseOps
    BY <2>2, <2>3
  <2> QED BY <2>4 DEF AtMostOne
<1> QED BY <1>1, <1>2, <1>3

\* A pipe with at most one request to close has none behind it.
LEMMA TakenOut ==
  ASSUME NEW s \in Seq(Requests), AtMostOne(s), s # <<>>, Head(s).op \in CloseOps
  PROVE  Tail(s) \in Seq(NoCloses)
<1>1. /\ Tail(s) \in Seq(Requests) /\ Len(Tail(s)) = Len(s) - 1 /\ Len(s) \in Nat /\ Len(s) > 0
      /\ \A i \in 1..Len(Tail(s)) : Tail(s)[i] = s[i + 1]
      /\ Head(s) = s[1] /\ DOMAIN s = 1..Len(s)
  OBVIOUS
<1>2. ASSUME NEW i \in 1..Len(Tail(s)) PROVE Tail(s)[i] \in NoCloses
  <2>1. i \in Nat /\ 1 \in DOMAIN s /\ i + 1 \in DOMAIN s /\ i + 1 # 1
    BY <1>1
  <2>2. s[i + 1].op \notin CloseOps
    BY <1>1, <2>1 DEF AtMostOne
  <2> QED BY <1>1, <2>2 DEF NoCloses
<1>3. \A x \in Seq(Requests) : (\A i \in 1..Len(x) : x[i] \in NoCloses) => x \in Seq(NoCloses)
  <2> SUFFICES ASSUME NEW x \in Seq(Requests), \A i \in 1..Len(x) : x[i] \in NoCloses
               PROVE  x \in Seq(NoCloses)
    OBVIOUS
  <2>1. x = [i \in 1..Len(x) |-> x[i]] /\ Len(x) \in Nat
    OBVIOUS
  <2>2. [i \in 1..Len(x) |-> x[i]] \in [1..Len(x) -> NoCloses]
    OBVIOUS
  <2>3. x \in [1..Len(x) -> NoCloses]
    BY <2>1, <2>2
  <2>4. \A n \in Nat : \A y \in [1..n -> NoCloses] : y \in Seq(NoCloses)
    OBVIOUS
  <2> QED BY <2>1, <2>3, <2>4
<1> QED BY <1>1, <1>2, <1>3

\* A step that leaves the switch and the conversation alone: others may send
\* their requests, hosts may take them and answer them, and the reader may pass
\* on what it read.
Beside(w) ==
  /\ UNCHANGED <<conv, endings>>
  /\ pc'[w] = pc[w] /\ doing'[w] = doing[w] /\ calls'[w] = calls[w] /\ gen'[w] = gen[w]
  /\ \A g \in Hosts :
       /\ \/ toHost'[g] = toHost[g] \/ Shorter(toHost[g], toHost'[g])
          \/ \E m \in Plain : toHost'[g] = Append(toHost[g], m)
       /\ \/ fromHost'[g] = fromHost[g] \/ Shorter(fromHost[g], fromHost'[g])
          \/ \E x \in Seq(Chat) : fromHost'[g] = fromHost[g] \o x
  /\ \/ hostClosed' = hostClosed
     \/ \E g \in Hosts : fromHost[g] # <<>> /\ Head(fromHost[g]).kind = "session"
  /\ \/ answer'[w] = answer[w] /\ inflight'[w] = inflight[w]
     \/ inflight[w] # 0 /\ inflight'[w] = 0 /\ answer'[w] = "unavailable"
     \/ \E g \in Hosts : /\ fromHost[g] # <<>> /\ Head(fromHost[g]).kind = "reply"
                         /\ Head(fromHost[g]).by = w /\ answer'[w] = Head(fromHost[g]).answer

\* Nothing new comes into the pipes that matters.
LEMMA BesidePipes ==
  ASSUME WInv, NEW w \in Switches, Beside(w), NEW g \in Hosts
  PROVE  /\ \A S : Plain \subseteq S /\ toHost[g] \in Seq(S) => toHost'[g] \in Seq(S)
         /\ \A S : Chat \subseteq S /\ fromHost[g] \in Seq(S) => fromHost'[g] \in Seq(S)
         /\ AtMostOne(toHost[g]) => AtMostOne(toHost'[g])
<1>1. ASSUME NEW S, Plain \subseteq S, toHost[g] \in Seq(S) PROVE toHost'[g] \in Seq(S)
  <2>1. \/ toHost'[g] = toHost[g] \/ Shorter(toHost[g], toHost'[g])
        \/ \E m \in S : toHost'[g] = Append(toHost[g], m)
    BY <1>1 DEF Beside
  <2> QED BY <1>1, <2>1, PipeKept
<1>2. ASSUME NEW S, Chat \subseteq S, fromHost[g] \in Seq(S) PROVE fromHost'[g] \in Seq(S)
  <2>1. \A x \in Seq(Chat) : x \in Seq(S)
    BY <1>2, SubSeqs
  <2>2. \/ fromHost'[g] = fromHost[g] \/ Shorter(fromHost[g], fromHost'[g])
        \/ \E x \in Seq(S) : fromHost'[g] = fromHost[g] \o x
    BY <2>1 DEF Beside
  <2> QED BY <1>2, <2>2, PipeKept
<1>3. ASSUME AtMostOne(toHost[g]) PROVE AtMostOne(toHost'[g])
  <2>1. toHost[g] \in Seq(Requests)
    BY DEF WInv, Pipes
  <2>2. \/ toHost'[g] = toHost[g] \/ Shorter(toHost[g], toHost'[g])
        \/ \E m \in NoCloses : toHost'[g] = Append(toHost[g], m)
    BY DEF Beside, Plain
  <2> QED BY <1>3, <2>1, <2>2, AtMostOneKept
<1> QED BY <1>1, <1>2, <1>3

LEMMA BesideKeeps ==
  ASSUME WInv, NEW w \in Switches, Orderly(w), Beside(w)
  PROVE  Orderly(w)'
<1>1. /\ UNCHANGED <<conv, endings>> /\ pc'[w] = pc[w] /\ doing'[w] = doing[w]
      /\ calls'[w] = calls[w] /\ gen'[w] = gen[w]
  BY DEF Beside
<1>2. \A g \in Hosts : toHost[g] \in Seq(NoCloses) => toHost'[g] \in Seq(NoCloses)
  BY BesidePipes, PlainFacts
<1>3. \A g \in Hosts : toHost[g] \in Seq(NoOpens) => toHost'[g] \in Seq(NoOpens)
  BY BesidePipes, PlainFacts
<1>4. \A g \in Hosts : fromHost[g] \in Seq(NoEnds) => fromHost'[g] \in Seq(NoEnds)
  BY BesidePipes, PlainFacts
<1>5. \A g \in Hosts : fromHost[g] \in Seq(Unheard(w)) => fromHost'[g] \in Seq(Unheard(w))
  BY BesidePipes, PlainFacts
<1>6. \A g \in Hosts : fromHost[g] \in Seq(NotAlready(w)) => fromHost'[g] \in Seq(NotAlready(w))
  BY BesidePipes, PlainFacts
<1>7. NonePending => NonePending'
  BY <1>2 DEF NonePending
<1>8. NoStream' <=> NoStream
  BY <1>1 DEF NoStream
<1>9. \A g \in Hosts : fromHost[g] # <<>> =>
        /\ fromHost[g] \in Seq(NoEnds) => Head(fromHost[g]).kind # "session"
        /\ fromHost[g] \in Seq(Unheard(w)) => ~(Head(fromHost[g]).kind = "reply" /\ Head(fromHost[g]).by = w)
        /\ fromHost[g] \in Seq(NotAlready(w)) =>
             ~(Head(fromHost[g]).kind = "reply" /\ Head(fromHost[g]).by = w /\ Head(fromHost[g]).answer = "already")
  BY HeadIn DEF NoEnds, Unheard, NotAlready
<1>10. (\A g \in Hosts : fromHost[g] \in Seq(Unheard(w))) =>
         \/ answer'[w] = answer[w] /\ inflight'[w] = inflight[w]
         \/ inflight[w] # 0 /\ inflight'[w] = 0 /\ answer'[w] = "unavailable"
  BY <1>9 DEF Beside
<1>11. OneStream' /\ Before(w)' /\ After(w)'
  BY <1>1, <1>3, <1>7, <1>8 DEF Orderly, OneStream, Before, After
<1>12. Uncalled(w)'
  <2>1. ASSUME calls[w] = 0
        PROVE  /\ NoStream' /\ NonePending'
               /\ \A g \in Hosts : toHost'[g] \in Seq(NoOpens) /\ fromHost'[g] \in Seq(Unheard(w))
               /\ answer'[w] = "none" /\ inflight'[w] = 0
    BY <1>3, <1>5, <1>7, <1>8, <1>10, <2>1 DEF Orderly, Uncalled
  <2> QED BY <1>1, <2>1 DEF Orderly, Uncalled
<1>13. Reported(w)'
  <2>1. hostClosed' = TRUE \/ (\E g \in Hosts : fromHost'[g] \notin Seq(NoEnds))
          => hostClosed = TRUE \/ (\E g \in Hosts : fromHost[g] \notin Seq(NoEnds))
    BY <1>4, <1>9 DEF Beside
  <2> QED BY <1>1, <2>1 DEF Orderly, Reported
<1>14. Once(w)'
  <2> SUFFICES ASSUME doing[w] = "close", calls[w] # 0
               PROVE  Once(w)'
    BY <1>1 DEF Once
  <2>1. Once(w)
    BY DEF Orderly
  <2>2. \A g \in Hosts : /\ endings[g] # 0 => g = gen[w]
                         /\ toHost[g] \notin Seq(NoCloses) => g = gen[w]
                         /\ AtMostOne(toHost[g])
    BY <2>1, Zenon DEF Once, AtMostOne
  <2>3. \A g \in Hosts : /\ endings'[g] # 0 => g = gen'[w]
                         /\ toHost'[g] \notin Seq(NoCloses) => g = gen'[w]
                         /\ AtMostOne(toHost'[g])
    BY <1>1, <1>2, <2>2, BesidePipes
  <2>4. ~NonePending' => /\ NoStream' /\ answer'[w] \in {"none", "unavailable"}
                         /\ \A g \in Hosts : fromHost'[g] \in Seq(Unheard(w))
    BY <1>5, <1>7, <1>8, <1>10, <2>1 DEF Once
  <2>5. pc'[w] = "ending" => NonePending'
    BY <1>1, <1>7, <2>1 DEF Once
  <2>6. pc'[w] = "unavailable" => NonePending' /\ NoStream'
    BY <1>1, <1>7, <1>8, <2>1 DEF Once
  <2>7. answer'[w] = "already" => NoStream'
    <3>1. CASE \A g \in Hosts : fromHost[g] \in Seq(NotAlready(w))
      BY <1>8, <1>9, <2>1, <3>1 DEF Beside, Once
    <3>2. CASE \E g \in Hosts : fromHost[g] \notin Seq(NotAlready(w))
      BY <1>8, <2>1, <3>2 DEF Once
    <3> QED BY <3>1, <3>2
  <2>8. (\E g \in Hosts : fromHost'[g] \notin Seq(NotAlready(w))) => NoStream'
    BY <1>6, <1>8, <2>1 DEF Once
  <2> QED BY <2>3, <2>4, <2>5, <2>6, <2>7, <2>8, Zenon DEF Once, AtMostOne
<1> QED BY <1>11, <1>12, <1>13, <1>14 DEF Orderly

\* The switch itself calls, and its command is written.
LEMMA EnsureOrders ==
  ASSUME WInv, NEW w \in Switches, Orderly(w), Ensure(w)
  PROVE  Orderly(w)'
<1>1. Ensures(w) /\ w \in Callers
  BY EnsureDoes, Apart
<1>2. /\ pc[w] = "calling" /\ pc'[w] \in {"sending", "unavailable"}
      /\ UNCHANGED <<hostClosed, doing, calls, toHost, fromHost, conv, endings>>
  BY <1>1 DEF Ensures, Goto, pipes, convVars, WInv, Calls
<1>3. doing[w] # "none" /\ (doing[w] = "close" => calls[w] = 0)
  BY <1>2 DEF Orderly, Uncalled
<1>4. OneStream' /\ Before(w)' /\ After(w)' /\ Reported(w)'
  BY <1>2 DEF Orderly, OneStream, Before, After, Reported, NoStream, NonePending
<1>5. calls[w] = 0 => answer'[w] = "none" /\ inflight'[w] = 0
  BY <1>1 DEF Orderly, Uncalled, Ensures, Abandons
<1>6. Uncalled(w)'
  BY <1>2, <1>3, <1>5 DEF Orderly, Uncalled, NoStream, NonePending
<1>7. Once(w)'
  BY <1>2, <1>3 DEF Once
<1> QED BY <1>4, <1>6, <1>7 DEF Orderly

LEMMA SendOrders ==
  ASSUME WInv, NEW w \in Switches, Orderly(w), Send(w)
  PROVE  Orderly(w)'
<1> DEFINE m == Request(w)
<1>1. Sends(w) /\ w \in Callers
  BY SendDoes, Apart
<1>2. /\ pc[w] = "sending" /\ pc'[w] \in {"awaiting", "unavailable"}
      /\ UNCHANGED <<hostClosed, doing, gen, fromHost, conv, endings>>
      /\ gen[w] \in Hosts /\ m \in Requests /\ m.op = doing[w]
      /\ calls'[w] = calls[w] + 1 /\ calls[w] \in Nat
  BY <1>1 DEF Sends, Goto, convVars, WInv, Calls, Request
<1>3. doing[w] # "none" /\ (doing[w] = "close" => calls[w] = 0)
  BY <1>2 DEF Orderly, Uncalled
<1>4. calls'[w] # 0
  BY <1>2
<1>5. \/ pc'[w] = "unavailable" /\ UNCHANGED <<answer, toHost>>
      \/ /\ pc'[w] = "awaiting" /\ answer'[w] = "none"
         /\ toHost' = [toHost EXCEPT ![gen[w]] = Append(@, m)]
  BY <1>1 DEF Sends, Goto, WInv, Calls
<1> HIDE DEF m
<1>6. toHost \in [Hosts -> Seq(Requests)]
  BY DEF WInv, Pipes
<1>7. /\ \A g \in Hosts : g # gen[w] => toHost'[g] = toHost[g]
      /\ toHost'[gen[w]] = toHost[gen[w]] \/ toHost'[gen[w]] = Append(toHost[gen[w]], m)
  BY <1>2, <1>5, <1>6
<1>8. doing[w] \notin OpenOps =>
        \A g \in Hosts : toHost[g] \in Seq(NoOpens) => toHost'[g] \in Seq(NoOpens)
  <2>1. doing[w] \notin OpenOps => m \in NoOpens
    BY <1>2 DEF NoOpens
  <2>2. \A s \in Seq(NoOpens) : m \in NoOpens => Append(s, m) \in Seq(NoOpens)
    OBVIOUS
  <2> QED BY <1>7, <2>1, <2>2
<1>9. doing[w] \notin CloseOps =>
        \A g \in Hosts : toHost[g] \in Seq(NoCloses) => toHost'[g] \in Seq(NoCloses)
  <2>1. doing[w] \notin CloseOps => m \in NoCloses
    BY <1>2 DEF NoCloses
  <2>2. \A s \in Seq(NoCloses) : m \in NoCloses => Append(s, m) \in Seq(NoCloses)
    OBVIOUS
  <2> QED BY <1>7, <2>1, <2>2
<1>10. OneStream' /\ Reported(w)'
  BY <1>2 DEF Orderly, OneStream, Reported
<1>11. Before(w)'
  BY <1>2, <1>8 DEF Orderly, Before
<1>12. After(w)'
  <2>1. doing[w] \in OpenOps => doing[w] \notin CloseOps
    BY OrdersApart
  <2> QED BY <1>2, <1>9, <2>1 DEF Orderly, After, NoStream, NonePending
<1>13. Uncalled(w)'
  BY <1>2, <1>3, <1>4 DEF Uncalled
<1>14. Once(w)'
  <2> SUFFICES ASSUME doing[w] = "close" PROVE Once(w)'
    BY <1>2 DEF Once
  <2>1. /\ NoStream /\ NonePending /\ answer[w] = "none"
        /\ \A g \in Hosts : fromHost[g] \in Seq(Unheard(w))
    BY <1>3 DEF Orderly, Uncalled
  <2>2. NoStream' /\ answer'[w] = "none" /\ \A g \in Hosts : fromHost'[g] \in Seq(Unheard(w))
    BY <1>2, <1>5, <2>1 DEF NoStream
  <2>3. \A g \in Hosts : fromHost'[g] \in Seq(NotAlready(w))
    BY <2>2, PlainFacts, SubSeqs
  <2>4. pc'[w] = "unavailable" => NonePending'
    BY <1>2, <1>5, <2>1 DEF NonePending
  <2>5. \A g \in Hosts : toHost'[g] \notin Seq(NoCloses) => g = gen'[w]
    BY <1>2, <1>7, <2>1 DEF NonePending
  <2>6. \A s \in Seq(NoCloses) : AtMostOne(s) /\ AtMostOne(Append(s, m))
    <3> SUFFICES ASSUME NEW s \in Seq(NoCloses) PROVE AtMostOne(s) /\ AtMostOne(Append(s, m))
      OBVIOUS
    <3>1. /\ DOMAIN s = 1..Len(s) /\ Len(s) \in Nat
          /\ \A i \in DOMAIN s : s[i] \in NoCloses
          /\ DOMAIN Append(s, m) = 1..(Len(s) + 1)
          /\ \A i \in 1..Len(s) : Append(s, m)[i] = s[i]
      <4>1. s \in Seq(Requests)
        BY SubSeqs DEF NoCloses
      <4>2. /\ DOMAIN s = 1..Len(s) /\ Len(s) \in Nat
            /\ \A i \in DOMAIN s : s[i] \in NoCloses
        OBVIOUS
      <4> QED BY <1>2, <4>1, <4>2
    <3>2. \A i \in DOMAIN s : s[i].op \notin CloseOps
      BY <3>1 DEF NoCloses
    <3>3. \A i \in DOMAIN Append(s, m) : Append(s, m)[i].op \in CloseOps => i = Len(s) + 1
      BY <3>1, <3>2
    <3> QED BY <3>2, <3>3 DEF AtMostOne
  <2>7. \A g \in Hosts : AtMostOne(toHost'[g])
    BY <1>2, <1>7, <2>1, <2>6 DEF NonePending
  <2> QED BY <1>2, <2>2, <2>3, <2>4, <2>5, <2>7, Zenon DEF Once, AtMostOne, NoStream
<1> QED BY <1>10, <1>11, <1>12, <1>13, <1>14 DEF Orderly

\* Where the switch goes next, the pipes and the conversation left alone.
Goes(w) ==
  /\ UNCHANGED <<conv, endings, toHost, fromHost, answer, calls, gen>>
  /\ calls[w] = 0 => inflight'[w] = inflight[w] \/ inflight'[w] = 0
  /\ hostClosed' = hostClosed \/ hostClosed' = FALSE

LEMMA GoesOn ==
  ASSUME WInv, NEW w \in Switches, Orderly(w), Goes(w), doing'[w] = doing[w],
         pc'[w] \in {"idle", "looking", "closing"} => doing[w] = "none",
         pc'[w] \notin {"calling", "sending", "unavailable"},
         pc'[w] = "ending" => doing[w] = "close" /\ (calls[w] # 0 => NonePending)
  PROVE  Orderly(w)'
<1>1. UNCHANGED <<conv, endings, toHost, fromHost, answer, calls, gen>> /\ doing'[w] = doing[w]
  BY DEF Goes
<1>2. OneStream' /\ Before(w)' /\ After(w)'
  BY <1>1 DEF Orderly, OneStream, Before, After, NoStream, NonePending
<1>3. Uncalled(w)'
  BY <1>1 DEF Orderly, Uncalled, NoStream, NonePending, Goes
<1>4. Reported(w)'
  BY <1>1 DEF Orderly, Reported, Goes
<1>5. Once(w)'
  BY <1>1 DEF Orderly, Once, NoStream, NonePending
<1> QED BY <1>2, <1>3, <1>4, <1>5 DEF Orderly

\* It calls the host next.
LEMMA CallsNext ==
  ASSUME WInv, NEW w \in Switches, Orderly(w), Goes(w), pc'[w] = "calling", NEW op,
         doing'[w] = op,
         \/ op = "close" /\ doing[w] = "none"
         \/ op = "close_for_good" /\ doing[w] = "close"
         \/ op \in OpenOps /\ NoStream /\ NonePending
  PROVE  Orderly(w)'
<1>1. UNCHANGED <<conv, endings, toHost, fromHost, answer, calls, gen>>
  BY DEF Goes
<1>2. op # "none" /\ (op = "close" => calls[w] = 0)
  BY OrdersApart DEF Orderly, Uncalled
<1>3. /\ op \notin OpenOps => doing[w] \notin OpenOps
      /\ op \in OpenOps => NoStream /\ NonePending
      /\ op \in {"none", "close"} => doing[w] = "none"
  BY OrdersApart
<1>4. OneStream' /\ Before(w)' /\ After(w)'
  BY <1>1, <1>3 DEF Orderly, OneStream, Before, After, NoStream, NonePending
<1>5. Uncalled(w)'
  BY <1>1, <1>2 DEF Orderly, Uncalled, NoStream, NonePending, Goes
<1>6. Reported(w)'
  BY <1>1, <1>3 DEF Orderly, Reported, Goes
<1>7. Once(w)'
  BY <1>1, <1>2 DEF Once
<1> QED BY <1>4, <1>5, <1>6, <1>7 DEF Orderly

\* Each step of the switch itself (claude/switch.rs, switch_bridge).
LEMMA OwnOrders ==
  ASSUME WInv, NEW w \in Switches, Orderly(w), Begin(w) \/ Switch(w) \/ HangUp(w)
  PROVE  Orderly(w)'
<1>1. /\ w \in Callers /\ pc \in [Callers -> Places] /\ doing \in [Callers -> Commands]
      /\ inflight \in [Callers -> Nat] /\ hostClosed \in BOOLEAN
  BY Apart DEF WInv, Calls
<1>2. /\ pc[w] \in {"idle", "looking", "closing"} => doing[w] = "none" /\ calls[w] = 0
      /\ pc[w] = "ending" => doing[w] = "close"
      /\ calls[w] = 0 => NoStream /\ NonePending /\ answer[w] = "none"
  BY DEF Orderly, Uncalled
<1>3. \A l \in {"looking", "closing", "ending", "finishing", "dropped", "done"} :
        Goto(w, l) => pc'[w] = l
  BY <1>1 DEF Goto
<1>4. \A op : Call(w, op) => pc'[w] = "calling" /\ doing'[w] = op
  BY <1>1 DEF Call, Goto
<1>5. ASSUME NEW a, Returns(w, a)
      PROVE  calls[w] = 0 => inflight'[w] = inflight[w] \/ inflight'[w] = 0
  <2>1. inflight' = inflight \/ inflight' = [inflight EXCEPT ![w] = 0]
    BY <1>5, Zenon DEF Returns
  <2> QED BY <1>1, <2>1
<1>6. CASE Begin(w)
  <2>1. pc[w] = "idle" /\ Goes(w) /\ UNCHANGED doing
    BY <1>6 DEF Begin, Goes, hostVars, pipes, convVars
  <2>2. pc'[w] \in {"looking", "done"}
    BY <1>3, <1>6 DEF Begin
  <2> QED BY <1>2, <2>1, <2>2, GoesOn
<1>7. CASE LookForTurns(w)
  <2>1. pc[w] = "looking" /\ Goes(w) /\ UNCHANGED doing
    BY <1>7 DEF LookForTurns, Goes, switchVars, hostVars, pipes, convVars
  <2>2. pc'[w] \in {"finishing", "closing"}
    BY <1>3, <1>7 DEF LookForTurns
  <2> QED BY <1>2, <2>1, <2>2, GoesOn
<1>8. CASE CloseForSwitch(w)
  <2>1. pc[w] = "closing" /\ Goes(w) /\ NoStream /\ NonePending /\ doing[w] = "none"
    BY <1>2, <1>8 DEF CloseForSwitch, Goes, hostVars, pipes, convVars
  <2>2. Call(w, "close") \/ Call(w, "create")
    BY <1>8, Zenon DEF CloseForSwitch, Reopen
  <2>3. pc'[w] = "calling" /\ (doing'[w] = "close" \/ doing'[w] = "create")
    BY <1>4, <2>2
  <2> QED BY <2>1, <2>3, OrdersApart, CallsNext
<1>9. CASE CloseReturns(w)
  <2>1. PICK a \in Answers :
          /\ Returns(w, a)
          /\ CASE a = "ok" -> Goto(w, "ending") /\ UNCHANGED <<doing, listed>>
               [] a \in {"already", "unavailable"} -> Reopen(w)
               [] OTHER -> Goto(w, "finishing") /\ UNCHANGED <<doing, listed>>
    BY <1>9, Zenon DEF CloseReturns
  <2>2. doing[w] = "close" /\ Goes(w)
    BY <1>5, <1>9, <2>1 DEF CloseReturns, Goes, pipes, convVars
  <2>3. \/ pc[w] = "awaiting" /\ a = answer[w] /\ a # "none"
        \/ pc[w] = "unavailable" /\ a = "unavailable"
        \/ a = "timeout"
    BY <2>1, Zenon DEF Returns
  <2>4. CASE a = "ok"
    <3>1. pc'[w] = "ending" /\ UNCHANGED doing
      BY <1>3, <2>1, <2>4
    <3>2. calls[w] # 0 => NonePending
      BY <2>2, <2>3, <2>4 DEF Orderly, Once
    <3> QED BY <2>2, <3>1, <3>2, GoesOn
  <2>5. CASE a \in {"already", "unavailable"}
    <3>1. Call(w, "create")
      BY <2>1, <2>5 DEF Reopen
    <3>2. pc'[w] = "calling" /\ doing'[w] = "create"
      BY <1>4, <3>1
    <3>3. NoStream /\ NonePending
      <4>1. CASE calls[w] = 0
        BY <1>2, <4>1
      <4>2. CASE calls[w] # 0 /\ pc[w] = "unavailable"
        BY <2>2, <4>2 DEF Orderly, Once
      <4>3. CASE calls[w] # 0 /\ a = answer[w] /\ a = "already"
        BY <2>2, <4>3 DEF Orderly, Once
      <4>4. CASE calls[w] # 0 /\ pc[w] = "awaiting" /\ a = answer[w] /\ a = "unavailable"
        <5>1. gen[w] \in Hosts /\ proc[gen[w]] = "dead"
          BY <1>1, <4>4 DEF WInv, Aimed
        <5>2. toHost[gen[w]] = <<>> /\ endings[gen[w]] = 0
          BY <5>1 DEF WInv, Empty
        <5>3. toHost[gen[w]] \in Seq(NoCloses)
          BY <5>2
        <5> QED BY <2>2, <4>4, <5>2, <5>3 DEF Orderly, Once, NoStream, NonePending
      <4> QED BY <2>3, <2>5, <4>1, <4>2, <4>3, <4>4
    <3> QED BY <2>2, <3>2, <3>3, OrdersApart, CallsNext
  <2>6. CASE a \notin {"ok", "already", "unavailable"}
    <3>1. pc'[w] = "finishing" /\ UNCHANGED doing
      BY <1>3, <2>1, <2>6
    <3> QED BY <2>2, <3>1, GoesOn
  <2> QED BY <2>4, <2>5, <2>6
<1>10. CASE StreamEnded(w)
  <2>1. pc[w] = "ending" /\ doing[w] = "close" /\ Goes(w)
    BY <1>2, <1>10 DEF StreamEnded, Goes, hostVars, pipes, convVars
  <2>2. \/ hostClosed = TRUE /\ Call(w, "create")
        \/ Call(w, "close_for_good")
        \/ Goto(w, "finishing") /\ UNCHANGED doing
    BY <1>1, <1>10, Zenon DEF StreamEnded, Reopen
  <2>3. CASE hostClosed = TRUE /\ Call(w, "create")
    <3>1. pc'[w] = "calling" /\ doing'[w] = "create"
      BY <1>4, <2>3
    <3>2. NonePending
      BY <1>2, <2>1 DEF Orderly, Once
    <3>3. endings[1] = 0 /\ \A g \in Hosts : g # 1 => endings[g] = 0
      BY <2>1, <2>3, OrdersApart DEF Orderly, Reported, Before
    <3>4. NoStream
      BY <3>3 DEF NoStream
    <3> QED BY <2>1, <3>1, <3>2, <3>4, OrdersApart, CallsNext
  <2>4. CASE Call(w, "close_for_good")
    <3>1. pc'[w] = "calling" /\ doing'[w] = "close_for_good"
      BY <1>4, <2>4
    <3> QED BY <2>1, <3>1, CallsNext
  <2>5. CASE Goto(w, "finishing") /\ UNCHANGED doing
    BY <1>3, <2>1, <2>5, GoesOn
  <2> QED BY <2>2, <2>3, <2>4, <2>5
<1>11. CASE ReopenReturns(w)
  <2>1. PICK a \in Answers :
          /\ Returns(w, a)
          /\ \/ Goto(w, "finishing") /\ UNCHANGED doing
             \/ doing[w] = "create" /\ Call(w, "create_back")
    BY <1>11, Zenon DEF ReopenReturns
  <2>2. Goes(w)
    BY <1>5, <1>11, <2>1 DEF ReopenReturns, Goes, pipes, convVars
  <2>3. CASE Goto(w, "finishing") /\ UNCHANGED doing
    BY <1>3, <2>2, <2>3, GoesOn
  <2>4. CASE doing[w] = "create" /\ Call(w, "create_back")
    <3>1. pc'[w] = "calling" /\ doing'[w] = "create_back"
      BY <1>4, <2>4
    <3>2. NoStream /\ NonePending
      BY <2>4, OrdersApart DEF Orderly, After
    <3> QED BY <2>2, <3>1, <3>2, OrdersApart, CallsNext
  <2> QED BY <2>1, <2>3, <2>4
<1>12. CASE Finish(w) \/ HangUp(w)
  <2>1. Goes(w) /\ UNCHANGED doing
    BY <1>12 DEF Finish, HangUp, Goes, switchVars, hostVars, pipes, convVars
  <2>2. pc'[w] \in {"done", "dropped"}
    BY <1>3, <1>12 DEF Finish, HangUp
  <2> QED BY <2>1, <2>2, GoesOn
<1> QED BY <1>6, <1>7, <1>8, <1>9, <1>10, <1>11, <1>12 DEF Switch

\* Steps of others leave the switch alone.
LEMMA StepsBeside ==
  ASSUME WInv, NEW w \in Switches, NEW c \in Callers \ {w}, Steps(c), hostClosed' = hostClosed
  PROVE  Beside(w)
<1>1. /\ w \in Callers /\ pc \in [Callers -> Places] /\ doing \in [Callers -> Commands]
      /\ inflight \in [Callers -> Nat]
  BY Apart DEF WInv, Calls
<1>2. pc'[w] = pc[w] /\ doing'[w] = doing[w] /\ inflight'[w] = inflight[w]
  BY <1>1 DEF Steps, Goto
<1> QED BY <1>2 DEF Steps, Beside, pipes, convVars

LEMMA TurnsBeside ==
  ASSUME WInv, NEW w \in Switches, NEW c \in Callers \ Switches,
         \/ c \in Turns /\ BeginTurn(c)
         \/ c \in Steers \cup Interrupts /\ SteerOrInterrupt(c)
         \/ HangUp(c)
  PROVE  Beside(w)
<1>1. CASE c \in Turns /\ BeginTurn(c)
  <2>1. Steps(c)
    BY <1>1, BeginTurnSteps
  <2>2. UNCHANGED switchVars
    BY <1>1 DEF BeginTurn, Count, Create, CheckSwitch, Announce, Begun
  <2> QED BY <2>1, <2>2, StepsBeside DEF switchVars
<1>2. CASE c \in Steers \cup Interrupts /\ SteerOrInterrupt(c)
  <2>1. Steps(c)
    BY <1>2, SteerOrInterruptSteps
  <2>2. UNCHANGED switchVars
    BY <1>2 DEF SteerOrInterrupt, Lookup, Steered
  <2> QED BY <2>1, <2>2, StepsBeside DEF switchVars
<1>3. CASE HangUp(c)
  <2>1. Steps(c)
    BY <1>3, HangUpSteps
  <2>2. UNCHANGED switchVars
    BY <1>3 DEF HangUp
  <2> QED BY <2>1, <2>2, StepsBeside DEF switchVars
<1> QED BY <1>1, <1>2, <1>3

LEMMA AbandonsBeside ==
  ASSUME WInv, NEW w \in Switches, Abandons,
         pc'[w] = pc[w] /\ doing'[w] = doing[w] /\ gen'[w] = gen[w],
         UNCHANGED <<hostClosed, calls, pipes, convVars>>
  PROVE  Beside(w)
<1>1. w \in Callers
  BY Apart
<1> QED BY <1>1 DEF Abandons, Beside, pipes, convVars

LEMMA CallHostBeside ==
  ASSUME WInv, NEW w \in Switches, NEW c \in Callers \ Switches, CallHost(c)
  PROVE  Beside(w)
<1>1. /\ w \in Callers /\ pc \in [Callers -> Places] /\ calls \in [Callers -> Nat]
      /\ inflight \in [Callers -> Nat] /\ answer \in [Callers -> Answers \cup {"none"}]
      /\ toHost \in [Hosts -> Seq(Requests)]
  BY Apart DEF WInv, Calls, Pipes
<1>2. CASE Ensure(c)
  <2>1. Ensures(c)
    BY <1>2, EnsureDoes
  <2>2. pc'[w] = pc[w] /\ gen'[w] = gen[w]
    BY <1>1, <2>1 DEF Ensures, Goto
  <2> QED BY <2>1, <2>2, AbandonsBeside DEF Ensures
<1>3. CASE Send(c)
  <2>1. Sends(c)
    BY <1>3, SendDoes
  <2>2. pc'[w] = pc[w] /\ calls'[w] = calls[w] /\ inflight'[w] = inflight[w] /\ answer'[w] = answer[w]
    BY <1>1, <2>1 DEF Sends, Goto
  <2>3. Request(c) \in Plain
    <3>1. Request(c) \in Requests /\ Request(c).by = c
      BY <2>1 DEF Sends, Request
    <3>2. Request(c).op \notin OpenOps \cup CloseOps
      BY <3>1 DEF Requests, Fits
    <3> QED BY <3>1, <3>2 DEF Plain, NoOpens, NoCloses
  <2>4. \A g \in Hosts : \/ toHost'[g] = toHost[g]
                         \/ \E m \in Plain : toHost'[g] = Append(toHost[g], m)
    <3>1. \/ toHost' = toHost
          \/ toHost' = [toHost EXCEPT ![gen[c]] = Append(@, Request(c))]
      BY <2>1 DEF Sends
    <3>2. \A g \in Hosts : toHost'[g] = toHost[g] \/ toHost'[g] = Append(toHost[g], Request(c))
      BY <1>1, <3>1
    <3> QED BY <2>3, <3>2
  <2>5. UNCHANGED <<hostClosed, doing, gen, fromHost, conv, endings>>
    BY <2>1 DEF Sends, convVars
  <2> QED BY <2>2, <2>4, <2>5 DEF Beside
<1> QED BY <1>2, <1>3 DEF CallHost

\* The tasks that follow a host, and what a host does about inputs and interrupts.
LEMMA FollowBeside ==
  ASSUME WInv, NEW w \in Switches, NEW g \in Hosts, Follow(g)
  PROVE  Beside(w)
<1>1. CASE Eof(g) \/ Reap(g)
  BY <1>1 DEF Eof, Reap, Beside, switchVars, callVars, pipes, convVars
<1>2. CASE Retire(g)
  <2>1. Abandon(g) /\ proc[g] = "dead"
    BY <1>2 DEF Retire, RetireLocked, WInv, IInv, HostsInv
  <2>2. Abandons
    BY <2>1, AbandonDoes
  <2>3. UNCHANGED <<switchVars, callVars, pipes, convVars>>
    BY <1>2 DEF Retire
  <2> QED BY <2>2, <2>3, AbandonsBeside DEF switchVars, callVars
<1>3. CASE Read(g)
  <2> DEFINE f == Head(fromHost[g])
  <2>1. Reads(g) /\ w \in Callers /\ fromHost \in [Hosts -> Seq(Spoken)]
    BY <1>3, ReadDoes, Apart DEF WInv, Pipes
  <2>2. UNCHANGED <<pc, doing, calls, gen, toHost, conv, endings>>
    BY <2>1 DEF Reads, callVars, convVars
  <2>3. \A h \in Hosts : fromHost'[h] = fromHost[h] \/ Shorter(fromHost[h], fromHost'[h])
    BY <2>1 DEF Reads, Shorter
  <2>4. fromHost[g] # <<>>
    BY <2>1 DEF Reads
  <2>5. \/ f.kind = "reply" /\ hostClosed' = hostClosed
           /\ \/ inflight'[w] = inflight[w] /\ answer'[w] = answer[w]
              \/ w = f.by /\ inflight'[w] = 0 /\ answer'[w] = f.answer
        \/ f.kind = "turn" /\ UNCHANGED <<inflight, answer, hostClosed>>
        \/ f.kind = "session" /\ UNCHANGED <<inflight, answer>>
    BY <2>1 DEF Reads
  <2> HIDE DEF f
  <2>6. hostClosed' = hostClosed \/ f.kind = "session"
    BY <2>5
  <2>7. \/ answer'[w] = answer[w] /\ inflight'[w] = inflight[w]
        \/ f.kind = "reply" /\ f.by = w /\ answer'[w] = f.answer
    BY <2>5
  <2> USE DEF f
  <2> QED BY <2>2, <2>3, <2>4, <2>6, <2>7 DEF Beside
<1> QED BY <1>1, <1>2, <1>3 DEF Follow

LEMMA ChattersBeside ==
  ASSUME WInv, NEW w \in Switches, NEW g \in Hosts, Chatters(g)
  PROVE  Beside(w)
<1>1. toHost \in [Hosts -> Seq(Requests)] /\ fromHost \in [Hosts -> Seq(Spoken)]
  BY DEF WInv, Pipes
<1>2. UNCHANGED <<hostClosed, inflight, answer, pc, doing, calls, gen, conv, endings>>
  BY DEF Chatters, switchVars, hostVars, callVars
<1>3. \A h \in Hosts : toHost'[h] = toHost[h] \/ Shorter(toHost[h], toHost'[h])
  BY <1>1 DEF Chatters, Takes1, Shorter
<1>4. ASSUME NEW h \in Hosts
      PROVE  fromHost'[h] = fromHost[h] \/ \E x \in Seq(Chat) : fromHost'[h] = fromHost[h] \o x
  <2>1. CASE fromHost' = fromHost
    BY <2>1
  <2>2. CASE \E frames \in Seq(Chat) : Says(g, frames)
    <3>1. PICK frames \in Seq(Chat) : Says(g, frames)
      BY <2>2
    <3>2. frames \in Seq(Spoken)
      BY SubSeqs, ChatFacts
    <3> QED BY <3>1, <3>2, SaysSome DEF WInv
  <2> QED BY <2>1, <2>2 DEF Chatters
<1> QED BY <1>2, <1>3, <1>4 DEF Beside

\* What a host says last comes behind what it said before.
LEMMA SaysKept ==
  ASSUME WInv, NEW g \in Hosts, NEW S, NEW frames \in Seq(S), frames \in Seq(Spoken),
         Says(g, frames), NEW h \in Hosts, fromHost[h] \in Seq(S)
  PROVE  fromHost'[h] \in Seq(S)
<1>1. fromHost'[h] = fromHost[h] \/ fromHost'[h] = fromHost[h] \o frames
  BY SaysSome DEF WInv
<1> QED BY <1>1, PipeKept

\* session.close of the conversation.
LEMMA ClosesOrders ==
  ASSUME WInv, NEW w \in Switches, Orderly(w), NEW g \in Hosts, Closes(g)
  PROVE  Orderly(w)'
<1> DEFINE m == Head(toHost[g])
<1>1. ClosesIt(g, m) /\ m \in CallIds
  BY ClosesDoes DEF ClosesIt, Requests
<1>2. /\ toHost \in [Hosts -> Seq(Requests)] /\ fromHost \in [Hosts -> Seq(Spoken)]
      /\ conv \in [Hosts -> BOOLEAN] /\ endings \in [Hosts -> Nat] /\ 1 \in Hosts
  BY OneIsHost DEF WInv, Pipes
<1>3. /\ UNCHANGED <<hostClosed, inflight, answer, pc, doing, calls, gen>>
      /\ toHost[g] # <<>> /\ m.op \in CloseOps
      /\ toHost'[g] = Tail(toHost[g]) /\ \A h \in Hosts \ {g} : toHost'[h] = toHost[h]
  BY <1>1, <1>2 DEF ClosesIt, Takes1, switchVars, hostVars, callVars
<1>4. /\ conv'[g] = FALSE /\ \A h \in Hosts \ {g} : conv'[h] = conv[h] /\ endings'[h] = endings[h]
      /\ \A h \in Hosts : \/ endings'[h] = endings[h]
                          \/ h = g /\ conv[h] = TRUE /\ endings'[h] = endings[h] + 1
  BY <1>1, <1>2 DEF ClosesIt
<1>5. PICK frames \in Seq(Spoken) :
        /\ Says(g, frames) /\ frames \in Seq(NoEnds)
        /\ UNCHANGED endings \/ frames \in Seq(NotAlready(w))
  <2>1. Reply(m, "already") \in Spoken /\ Reply(m, "ok") \in Spoken
    BY <1>1, FrameFacts DEF Said
  <2>2. /\ Reply(m, "already") \in NoEnds /\ Reply(m, "ok") \in NoEnds
        /\ Reply(m, "ok") \in NotAlready(w)
    BY <1>1, <2>1, FrameFacts DEF NoEnds, NotAlready, Said
  <2>3. /\ <<Reply(m, "already")>> \in Seq(Spoken) /\ <<Reply(m, "already")>> \in Seq(NoEnds)
        /\ <<Reply(m, "ok")>> \in Seq(Spoken) /\ <<Reply(m, "ok")>> \in Seq(NoEnds)
        /\ <<Reply(m, "ok")>> \in Seq(NotAlready(w))
    BY <2>1, <2>2
  <2>4. Settles(g) \in Seq(Spoken) /\ Settles(g) \in Seq(Chat)
    BY SettlesTyped DEF WInv
  <2>5. Settles(g) \in Seq(NoEnds) /\ Settles(g) \in Seq(NotAlready(w))
    BY <2>4, PlainFacts, SubSeqs
  <2>6. /\ Settles(g) \o <<Reply(m, "ok")>> \in Seq(Spoken)
        /\ Settles(g) \o <<Reply(m, "ok")>> \in Seq(NoEnds)
        /\ Settles(g) \o <<Reply(m, "ok")>> \in Seq(NotAlready(w))
    BY <2>3, <2>4, <2>5, SeqFacts
  <2>7. \/ Says(g, <<Reply(m, "already")>>) /\ UNCHANGED endings
        \/ Says(g, Settles(g) \o <<Reply(m, "ok")>>)
    BY <1>1, Zenon DEF ClosesIt
  <2> QED BY <2>3, <2>6, <2>7, Zenon
<1> HIDE DEF m
<1>6. toHost[g] \notin Seq(NoCloses) /\ ~NonePending
  <2>1. toHost[g] \in Seq(NoCloses) => Head(toHost[g]).op \notin CloseOps
    BY <1>3, HeadIn DEF NoCloses
  <2> QED BY <1>3, <2>1 DEF NonePending, m
<1>7. doing[w] \notin OpenOps /\ calls[w] # 0 /\ doing[w] # "none"
  BY <1>6 DEF Orderly, After, Uncalled
<1>8. \A S : \A h \in Hosts : toHost[h] \in Seq(S) => toHost'[h] \in Seq(S)
  <2> SUFFICES ASSUME NEW S, NEW h \in Hosts, toHost[h] \in Seq(S) PROVE toHost'[h] \in Seq(S)
    OBVIOUS
  <2>1. toHost'[h] = toHost[h] \/ Shorter(toHost[h], toHost'[h])
    BY <1>3 DEF Shorter
  <2> QED BY <2>1, PipeKept
<1>9. OneStream'
  BY <1>4 DEF Orderly, OneStream
<1>10. Before(w)' /\ After(w)'
  <2>1. \A h \in Hosts : h # 1 => conv[h] = FALSE /\ endings[h] = 0
    BY <1>7 DEF Orderly, Before
  <2>2. \A h \in Hosts : h # 1 => conv'[h] = FALSE /\ endings'[h] = 0
    BY <1>4, <2>1
  <2> QED BY <1>3, <1>7, <1>8, <2>2 DEF Orderly, Before, After
<1>11. Uncalled(w)'
  BY <1>3, <1>7 DEF Orderly, Uncalled
<1>12. Reported(w)'
  <2> SUFFICES ASSUME doing[w] = "close" PROVE Reported(w)'
    BY <1>3, <1>7 DEF Reported
  <2>1. endings'[1] <= 1
    <3>1. endings[1] <= 1 /\ (conv[1] = TRUE => endings[1] = 0)
      BY <1>2, <1>7 DEF Orderly, OneStream, Reported
    <3>2. \/ endings'[1] = endings[1]
          \/ conv[1] = TRUE /\ endings'[1] = endings[1] + 1
      BY <1>4, OneIsHost
    <3> QED BY <3>1, <3>2
  <2>2. ASSUME hostClosed = TRUE \/ \E h \in Hosts : fromHost'[h] \notin Seq(NoEnds)
        PROVE  conv'[1] = FALSE /\ endings'[1] = 0
    <3>1. \A h \in Hosts : fromHost[h] \in Seq(NoEnds) => fromHost'[h] \in Seq(NoEnds)
      BY <1>5, SaysKept
    <3>2. hostClosed = TRUE \/ \E h \in Hosts : fromHost[h] \notin Seq(NoEnds)
      BY <2>2, <3>1
    <3>3. conv[1] = FALSE /\ endings[1] = 0
      BY <3>2 DEF Orderly, Reported
    <3> QED BY <1>2, <1>4, <3>3
  <2> QED BY <1>3, <2>1, <2>2 DEF Reported
<1>13. Once(w)'
  <2> SUFFICES ASSUME doing[w] = "close" PROVE Once(w)'
    BY <1>3 DEF Once
  <2>1. Once(w)
    BY DEF Orderly
  <2>2. /\ NoStream /\ answer[w] \in {"none", "unavailable"} /\ pc[w] # "ending" /\ pc[w] # "unavailable"
        /\ \A h \in Hosts : fromHost[h] \in Seq(Unheard(w))
    BY <1>6, <1>7, <2>1 DEF Once
  <2>3. g = gen[w] /\ \A h \in Hosts : h # g => toHost[h] \in Seq(NoCloses)
    BY <1>6, <1>7, <2>1 DEF Once
  <2>4. \A h \in Hosts : AtMostOne(toHost[h])
    BY <1>7, <2>1, Zenon DEF Once, AtMostOne
  <2>5. toHost'[g] \in Seq(NoCloses)
    BY <1>2, <1>3, <2>4, TakenOut DEF m
  <2>6. NonePending'
    BY <1>3, <2>3, <2>5 DEF NonePending
  <2>7. \A h \in Hosts : endings'[h] # 0 => h = gen[w]
    BY <1>4, <2>2, <2>3 DEF NoStream
  <2>8. \A h \in Hosts : AtMostOne(toHost'[h])
    <3> SUFFICES ASSUME NEW h \in Hosts PROVE AtMostOne(toHost'[h])
      OBVIOUS
    <3>1. toHost'[h] = toHost[h] \/ Shorter(toHost[h], toHost'[h])
      BY <1>3 DEF Shorter
    <3> QED BY <1>2, <2>4, <3>1, AtMostOneKept
  <2>9. (\E h \in Hosts : fromHost'[h] \notin Seq(NotAlready(w))) => NoStream'
    <3>1. CASE UNCHANGED endings
      BY <2>2, <3>1 DEF NoStream
    <3>2. CASE frames \in Seq(NotAlready(w))
      <4>1. \A h \in Hosts : fromHost[h] \in Seq(NotAlready(w))
        BY <2>2, PlainFacts, SubSeqs
      <4>2. \A h \in Hosts : fromHost'[h] \in Seq(NotAlready(w))
        BY <1>5, <3>2, <4>1, SaysKept
      <4> QED BY <4>2
    <3> QED BY <1>5, <3>1, <3>2
  <2>10. \A h \in Hosts : toHost'[h] \in Seq(NoCloses)
    BY <2>6 DEF NonePending
  <2>11. UNCHANGED <<answer, pc, doing, calls, gen>> /\ answer[w] # "already"
    BY <1>3, <2>2
  <2> QED BY <2>2, <2>6, <2>7, <2>8, <2>9, <2>10, <2>11, Zenon DEF Once, AtMostOne
<1> QED BY <1>9, <1>10, <1>11, <1>12, <1>13 DEF Orderly

\* session.create: nothing that closes is under way.
LEMMA OpensOrders ==
  ASSUME WInv, NEW w \in Switches, Orderly(w), NEW g \in Hosts, Opens(g)
  PROVE  Orderly(w)'
<1>1. OpensIt(g, Head(toHost[g])) /\ toHost \in [Hosts -> Seq(Requests)]
  BY OpensDoes DEF WInv, Pipes
<1>2. /\ UNCHANGED <<pc, doing, calls, endings>>
      /\ toHost[g] # <<>> /\ Head(toHost[g]).op \in OpenOps
      /\ toHost'[g] = Tail(toHost[g]) /\ \A h \in Hosts \ {g} : toHost'[h] = toHost[h]
  BY <1>1 DEF OpensIt, Takes1, callVars
<1>3. toHost[g] \notin Seq(NoOpens)
  <2>1. toHost[g] \in Seq(NoOpens) => Head(toHost[g]).op \notin OpenOps
    BY <1>2, HeadIn DEF NoOpens
  <2> QED BY <1>2, <2>1
<1>4. doing[w] \in OpenOps /\ calls[w] # 0
  BY <1>3 DEF Orderly, Before, Uncalled
<1>5. NoStream /\ NonePending
  BY <1>4 DEF Orderly, After
<1>6. NoStream' /\ NonePending'
  <2>1. \A h \in Hosts : toHost'[h] = toHost[h] \/ Shorter(toHost[h], toHost'[h])
    BY <1>2 DEF Shorter
  <2>2. \A h \in Hosts : toHost'[h] \in Seq(NoCloses)
    BY <1>5, <2>1, PipeKept DEF NonePending
  <2> QED BY <1>2, <1>5, <2>2 DEF NoStream, NonePending
<1>7. doing[w] # "none" /\ doing[w] # "close"
  BY <1>4, OrdersApart
<1>8. OneStream' /\ Before(w)' /\ After(w)'
  BY <1>2, <1>4, <1>6 DEF OneStream, Before, After, NoStream
<1>9. Uncalled(w)' /\ Reported(w)' /\ Once(w)'
  BY <1>2, <1>4, <1>7 DEF Orderly, Uncalled, Reported, Once
<1> QED BY <1>8, <1>9 DEF Orderly

\* What there was only becomes less: a stream ends, or the host dies.
Wanes(w) ==
  /\ pc'[w] = pc[w] /\ doing'[w] = doing[w] /\ calls'[w] = calls[w] /\ gen'[w] = gen[w]
  /\ answer'[w] = answer[w] /\ inflight'[w] = inflight[w] /\ hostClosed' = hostClosed
  /\ \A g \in Hosts :
       /\ conv'[g] = conv[g] \/ conv'[g] = FALSE
       /\ endings[g] = 0 => endings'[g] = 0
       /\ toHost'[g] = toHost[g] \/ toHost'[g] = <<>>
       /\ fromHost'[g] = fromHost[g] \/ \E x \in Seq(Quiet) : fromHost'[g] = fromHost[g] \o x

LEMMA WanesKeeps ==
  ASSUME WInv, NEW w \in Switches, Orderly(w), Wanes(w), Reported(w)'
  PROVE  Orderly(w)'
<1>1. /\ pc'[w] = pc[w] /\ doing'[w] = doing[w] /\ calls'[w] = calls[w] /\ gen'[w] = gen[w]
      /\ answer'[w] = answer[w] /\ inflight'[w] = inflight[w]
  BY DEF Wanes
<1>2. \A g \in Hosts : conv'[g] = TRUE => conv[g] = TRUE
  BY DEF Wanes
<1>3. \A g \in Hosts : conv[g] = FALSE => conv'[g] = FALSE
  BY DEF Wanes
<1>4. \A g \in Hosts : endings[g] = 0 => endings'[g] = 0
  BY DEF Wanes
<1>5. \A S : \A g \in Hosts : toHost[g] \in Seq(S) => toHost'[g] \in Seq(S)
  <2>1. \A S : <<>> \in Seq(S)
    OBVIOUS
  <2> QED BY <2>1 DEF Wanes
<1>6. \A g \in Hosts : AtMostOne(toHost[g]) => AtMostOne(toHost'[g])
  <2>1. DOMAIN <<>> = {}
    OBVIOUS
  <2>2. AtMostOne(<<>>)
    BY <2>1, Zenon DEF AtMostOne
  <2> QED BY <2>2 DEF Wanes
<1>7. ASSUME NEW S, Quiet \subseteq S, NEW g \in Hosts, fromHost[g] \in Seq(S)
      PROVE  fromHost'[g] \in Seq(S)
  <2>1. \A x \in Seq(Quiet) : x \in Seq(S)
    BY <1>7, SubSeqs
  <2>2. fromHost'[g] = fromHost[g] \/ \E x \in Seq(S) : fromHost'[g] = fromHost[g] \o x
    BY <2>1 DEF Wanes
  <2> QED BY <1>7, <2>2, PipeKept
<1>8. Quiet \subseteq Unheard(w) /\ Quiet \subseteq NotAlready(w)
  BY PlainFacts
<1>9. \A g \in Hosts : /\ fromHost[g] \in Seq(Unheard(w)) => fromHost'[g] \in Seq(Unheard(w))
                       /\ fromHost[g] \in Seq(NotAlready(w)) => fromHost'[g] \in Seq(NotAlready(w))
  BY <1>7, <1>8
<1>10. NoStream => NoStream'
  BY <1>4 DEF NoStream
<1>11. NonePending => NonePending'
  BY <1>5 DEF NonePending
<1>12. OneStream'
  BY <1>2, <1>4 DEF Orderly, OneStream
<1>13. Before(w)' /\ After(w)'
  BY <1>1, <1>3, <1>4, <1>5, <1>10, <1>11 DEF Orderly, Before, After
<1>14. Uncalled(w)'
  BY <1>1, <1>5, <1>9, <1>10, <1>11 DEF Orderly, Uncalled
<1>15. Once(w)'
  <2> SUFFICES ASSUME doing[w] = "close", calls[w] # 0
               PROVE  Once(w)'
    BY <1>1 DEF Once
  <2>1. Once(w)
    BY DEF Orderly
  <2>2. \A g \in Hosts : /\ endings[g] # 0 => g = gen[w]
                         /\ toHost[g] \notin Seq(NoCloses) => g = gen[w]
                         /\ AtMostOne(toHost[g])
    BY <2>1, Zenon DEF Once, AtMostOne
  <2>3. \A g \in Hosts : /\ endings'[g] # 0 => g = gen'[w]
                         /\ toHost'[g] \notin Seq(NoCloses) => g = gen'[w]
                         /\ AtMostOne(toHost'[g])
    BY <1>1, <1>4, <1>5, <1>6, <2>2
  <2>4. ~NonePending' => /\ NoStream' /\ answer'[w] \in {"none", "unavailable"}
                         /\ \A g \in Hosts : fromHost'[g] \in Seq(Unheard(w))
    BY <1>1, <1>9, <1>10, <1>11, <2>1 DEF Once
  <2>5. /\ pc'[w] = "ending" => NonePending'
        /\ pc'[w] = "unavailable" => NonePending' /\ NoStream'
    BY <1>1, <1>10, <1>11, <2>1 DEF Once
  <2>6. answer'[w] = "already" \/ (\E g \in Hosts : fromHost'[g] \notin Seq(NotAlready(w))) => NoStream'
    BY <1>1, <1>9, <1>10, <2>1 DEF Once
  <2> QED BY <2>3, <2>4, <2>5, <2>6, Zenon DEF Once, AtMostOne
<1> QED BY <1>12, <1>13, <1>14, <1>15 DEF Orderly

\* The end of a stream, and that of a host.
LEMMA EndsOrders ==
  ASSUME WInv, NEW w \in Switches, Orderly(w), NEW g \in Hosts, StreamFails(g) \/ StreamEnds(g)
  PROVE  Orderly(w)'
<1>1. EndsIt(g)
  BY StreamDoes
<1>2. /\ fromHost \in [Hosts -> Seq(Spoken)]
      /\ conv \in [Hosts -> BOOLEAN] /\ endings \in [Hosts -> Nat] /\ 1 \in Hosts
  BY OneIsHost DEF WInv, Pipes
<1>3. UNCHANGED <<hostClosed, inflight, answer, pc, doing, calls, gen, toHost>>
  BY <1>1 DEF EndsIt, switchVars, hostVars, callVars
<1>4. /\ conv'[g] = FALSE /\ \A h \in Hosts \ {g} : conv'[h] = conv[h] /\ endings'[h] = endings[h]
      /\ \/ conv[g] = TRUE /\ endings'[g] = endings[g]
         \/ endings[g] > 0 /\ endings'[g] = endings[g] - 1
  BY <1>1, <1>2 DEF EndsIt
<1>5. \A h \in Hosts : fromHost'[h] = fromHost[h] \/ \E x \in Seq(Quiet) : fromHost'[h] = fromHost[h] \o x
  <2>1. PICK x \in Seq(Quiet) : Says(g, x)
    BY <1>1 DEF EndsIt
  <2>2. x \in Seq(Spoken)
    BY SubSeqs DEF Quiet
  <2>3. \A h \in Hosts : fromHost'[h] = fromHost[h] \/ fromHost'[h] = fromHost[h] \o x
    BY <2>1, <2>2, SaysSome DEF WInv
  <2> QED BY <2>3
<1>6. \A h \in Hosts : endings[h] = 0 => endings'[h] = 0
  BY <1>4
<1>7. \A h \in Hosts : conv'[h] = conv[h] \/ conv'[h] = FALSE
  BY <1>4
<1>8. Wanes(w)
  BY <1>3, <1>5, <1>6, <1>7 DEF Wanes
<1>9. Reported(w)'
  <2> SUFFICES ASSUME doing[w] \in {"none", "close"}
               PROVE  endings'[1] <= 1 /\ endings'[1] = 0 /\ conv'[1] = FALSE
    BY <1>3, Zenon DEF Reported
  <2>1. doing[w] \notin OpenOps
    BY OrdersApart
  <2>2. \A h \in Hosts : h # 1 => conv[h] = FALSE /\ endings[h] = 0
    BY <2>1 DEF Orderly, Before
  <2>3. g = 1
    BY <1>4, <2>2
  <2>4. endings[1] <= 1 /\ (conv[1] = TRUE => endings[1] = 0) /\ endings[1] \in Nat
    BY <1>2 DEF Orderly, OneStream, Reported
  <2> QED BY <1>4, <2>3, <2>4
<1> QED BY <1>8, <1>9, WanesKeeps

LEMMA DiesOrders ==
  ASSUME WInv, NEW w \in Switches, Orderly(w), NEW g \in Hosts, Dies(g)
  PROVE  Orderly(w)'
<1>1. /\ toHost \in [Hosts -> Seq(Requests)] /\ conv \in [Hosts -> BOOLEAN]
      /\ endings \in [Hosts -> Nat] /\ 1 \in Hosts
  BY OneIsHost DEF WInv, Pipes
<1>2. /\ UNCHANGED <<hostClosed, inflight, answer, pc, doing, calls, gen, fromHost>>
      /\ toHost' = [toHost EXCEPT ![g] = <<>>] /\ conv' = [conv EXCEPT ![g] = FALSE]
      /\ endings' = [endings EXCEPT ![g] = 0]
  BY DEF Dies, switchVars, hostVars, callVars
<1>3. \A h \in Hosts : conv'[h] = conv[h] \/ conv'[h] = FALSE
  BY <1>1, <1>2
<1>4. \A h \in Hosts : endings'[h] = endings[h] \/ endings'[h] = 0
  BY <1>1, <1>2
<1>5. \A h \in Hosts : toHost'[h] = toHost[h] \/ toHost'[h] = <<>>
  BY <1>1, <1>2
<1>6. Wanes(w)
  BY <1>2, <1>3, <1>4, <1>5 DEF Wanes
<1>7. Reported(w)'
  <2>1. conv[1] = FALSE => conv'[1] = FALSE
    BY <1>1, <1>3
  <2>2. /\ endings[1] = 0 => endings'[1] = 0
        /\ endings[1] <= 1 => endings'[1] <= 1
    BY <1>1, <1>4
  <2> QED BY <1>2, <2>1, <2>2 DEF Orderly, Reported
<1> QED BY <1>6, <1>7, WanesKeeps

LEMMA HostOrders ==
  ASSUME WInv, NEW w \in Switches, Orderly(w), NEW g \in Hosts, Host(g)
  PROVE  Orderly(w)'
<1>1. CASE Input(g) \/ Interrupt(g) \/ Interrupted(g) \/ Result(g)
  <2>1. Chatters(g)
    BY <1>1, InputChatters, InterruptChatters, InterruptedChatters, ResultChatters
  <2> QED BY <2>1, ChattersBeside, BesideKeeps
<1> QED BY <1>1, ClosesOrders, OpensOrders, EndsOrders, DiesOrders DEF Host

\* No call begins anew.
LEMMA Awake ==
  ASSUME WInv, NEW c \in Callers,
         Steps(c) \/ CallHost(c)
  PROVE  /\ pc'[c] # "idle"
         /\ \A d \in Callers \ {c} : pc'[d] = pc[d]
<1>1. pc \in [Callers -> Places]
  BY DEF WInv, Calls
<1>2. \E l \in {"creating", "checking", "announcing", "looking", "closing", "ending", "finishing",
                "calling", "sending", "awaiting", "unavailable", "dropped", "done"} : Goto(c, l)
  <2>1. CASE Steps(c)
    BY <2>1 DEF Steps, Places
  <2>2. CASE Ensure(c)
    BY <2>2, EnsureDoes DEF Ensures
  <2>3. CASE Send(c)
    BY <2>3, SendDoes DEF Sends
  <2> QED BY <2>1, <2>2, <2>3 DEF CallHost
<1> QED BY <1>1, <1>2 DEF Goto

\* What each step does to the callers: one of them goes on, or none does.
LEMMA OneGoesOn ==
  ASSUME WInv, Next
  PROVE  \/ pc' = pc
         \/ \E c \in Callers : pc'[c] # "idle" /\ \A d \in Callers \ {c} : pc'[d] = pc[d]
<1>1. ASSUME NEW t \in Turns, BeginTurn(t) \/ Told(t)
      PROVE  pc' = pc \/ (Steps(t) /\ t \in Callers)
  BY <1>1, BeginTurnSteps, Apart DEF Told, Tell, CloseLog, callVars
<1>2. ASSUME NEW c \in Steers \cup Interrupts, SteerOrInterrupt(c) PROVE Steps(c) /\ c \in Callers
  BY <1>2, SteerOrInterruptSteps, Apart
<1>3. ASSUME NEW w \in Switches, Begin(w) \/ Switch(w) PROVE Steps(w) /\ w \in Callers
  BY <1>3, SwitchSteps, Apart
<1>4. ASSUME NEW c \in Callers, CallHost(c) \/ HangUp(c) PROVE Steps(c) \/ CallHost(c)
  BY <1>4, HangUpSteps
<1>5. ASSUME NEW g \in Hosts, Follow(g) PROVE pc' = pc
  BY <1>5 DEF Follow, Eof, Retire, Reap, Read, callVars
<1>6. ASSUME NEW g \in Hosts, Host(g) PROVE pc' = pc
  BY <1>6 DEF Host, Input, Interrupt, Interrupted, Closes, Opens, Result, StreamFails, StreamEnds,
              Dies, Takes, callVars
<1>7. pc' = pc \/ \E c \in Callers : Steps(c) \/ CallHost(c)
  BY <1>1, <1>2, <1>3, <1>4, <1>5, <1>6, Zenon DEF Next
<1> QED BY <1>7, Awake

LEMMA RInvInit == Init => RInv
<1> SUFFICES ASSUME Init PROVE RInv
  OBVIOUS
<1>1. /\ hostClosed = FALSE
      /\ inflight = [c \in Callers |-> 0] /\ answer = [c \in Callers |-> "none"]
      /\ pc = [c \in Callers |-> "idle"] /\ doing = [c \in Callers |-> "none"]
      /\ calls = [c \in Callers |-> 0]
      /\ toHost = [g \in Hosts |-> <<>>] /\ fromHost = [g \in Hosts |-> <<>>]
      /\ conv = [g \in Hosts |-> g = 1] /\ endings = [g \in Hosts |-> 0]
  BY DEF Init
<1>2. \A S : <<>> \in Seq(S)
  OBVIOUS
<1>3. NoStream /\ NonePending
  BY <1>1, <1>2 DEF NoStream, NonePending
<1>4. ASSUME NEW w \in Switches PROVE Orderly(w)
  <2>1. /\ w \in Callers /\ pc[w] = "idle" /\ doing[w] = "none" /\ calls[w] = 0
        /\ answer[w] = "none" /\ inflight[w] = 0
    BY <1>1, Apart
  <2>2. \A S : \A g \in Hosts : toHost[g] \in Seq(S) /\ fromHost[g] \in Seq(S)
    BY <1>1, <1>2
  <2>3. \A g \in Hosts : endings[g] = 0 /\ (g # 1 => conv[g] = FALSE)
    BY <1>1
  <2>4. OneStream /\ Before(w)
    BY <2>2, <2>3 DEF OneStream, Before
  <2>5. After(w) /\ Once(w)
    BY <2>1, OrdersApart DEF After, Once
  <2>6. Uncalled(w)
    BY <1>3, <2>1, <2>2 DEF Uncalled
  <2>7. Reported(w)
    BY <1>1, <2>2, <2>3, OneIsHost DEF Reported
  <2> QED BY <2>4, <2>5, <2>6, <2>7 DEF Orderly
<1> QED BY <1>3, <1>4 DEF RInv

LEMMA RInvNext == WInv /\ RInv /\ [Next]_vars => RInv'
<1> SUFFICES ASSUME WInv, RInv, [Next]_vars PROVE RInv'
  OBVIOUS
<1>1. CASE UNCHANGED vars
  BY <1>1 DEF RInv, First, Orderly, OneStream, Before, After, Uncalled, Reported, Once, NoStream,
              NonePending, vars, switchVars, hostVars, callVars, pipes, convVars
<1>2. CASE Next
  <2>1. ASSUME NEW w \in Switches, First(w)' PROVE Orderly(w)'
    <3>1. First(w)
      BY <1>2, <2>1, OneGoesOn, Apart DEF First
    <3>2. Orderly(w) /\ w \in Callers
      BY <3>1, Apart DEF RInv
    <3>3. ASSUME NEW v \in Switches \ {w} PROVE ~(Steps(v) \/ CallHost(v))
      BY <2>1, Awake, Apart DEF First
    <3>4. ASSUME NEW t \in Turns, BeginTurn(t) \/ Told(t) PROVE Orderly(w)'
      <4>1. CASE BeginTurn(t)
        BY <3>2, <4>1, TurnsBeside, BesideKeeps, Apart
      <4>2. CASE Told(t)
        <5>1. UNCHANGED <<switchVars, hostVars, callVars, pipes, convVars>>
          BY <4>2 DEF Told, Tell, CloseLog
        <5>2. Beside(w)
          BY <5>1 DEF Beside, switchVars, hostVars, callVars, pipes, convVars
        <5> QED BY <3>2, <5>2, BesideKeeps
      <4> QED BY <3>4, <4>1, <4>2
    <3>5. ASSUME NEW c \in Steers \cup Interrupts, SteerOrInterrupt(c) PROVE Orderly(w)'
      BY <3>2, <3>5, TurnsBeside, BesideKeeps, Apart
    <3>6. ASSUME NEW v \in Switches, Begin(v) \/ Switch(v) PROVE Orderly(w)'
      BY <3>2, <3>3, <3>6, SwitchSteps, OwnOrders
    <3>7. ASSUME NEW c \in Callers, CallHost(c) \/ HangUp(c) PROVE Orderly(w)'
      <4>1. CASE c = w
        BY <3>2, <3>7, <4>1, EnsureOrders, SendOrders, OwnOrders DEF CallHost
      <4>2. CASE c # w /\ c \in Switches
        BY <3>3, <3>7, <4>2, HangUpSteps
      <4>3. CASE c \notin Switches
        BY <3>2, <3>7, <4>3, TurnsBeside, CallHostBeside, BesideKeeps
      <4> QED BY <4>1, <4>2, <4>3
    <3>8. ASSUME NEW g \in Hosts, Follow(g) \/ Host(g) PROVE Orderly(w)'
      BY <3>2, <3>8, FollowBeside, BesideKeeps, HostOrders
    <3> QED BY <1>2, <3>4, <3>5, <3>6, <3>7, <3>8 DEF Next
  <2>2. ASSUME Switches = {}, NoStream PROVE NoStream'
    <3>1. ASSUME NEW g \in Hosts, ~Closes(g), Host(g) PROVE NoStream'
      <4>1. CASE Input(g) \/ Interrupt(g) \/ Interrupted(g) \/ Result(g) \/ Opens(g)
        BY <2>2, <4>1 DEF Input, Interrupt, Interrupted, Result, Opens, NoStream
      <4>2. CASE StreamFails(g) \/ StreamEnds(g)
        <5>1. EndsIt(g) /\ endings[g] = 0
          BY <2>2, <4>2, StreamDoes DEF NoStream
        <5>2. UNCHANGED endings
          BY <5>1 DEF EndsIt
        <5> QED BY <2>2, <5>2 DEF NoStream
      <4>3. CASE Dies(g)
        BY <2>2, <4>3 DEF Dies, NoStream, WInv, Pipes
      <4> QED BY <3>1, <4>1, <4>2, <4>3 DEF Host
    <3>2. ASSUME NEW g \in Hosts PROVE ~Closes(g)
      BY <2>2, ClosesDoes DEF ClosesIt, Requests, Fits
    <3>3. ASSUME NEW t \in Turns, BeginTurn(t) \/ Told(t) PROVE UNCHANGED convVars
      BY <3>3, BeginTurnSteps DEF Steps, Told, Tell, CloseLog
    <3>4. ASSUME NEW c \in Steers \cup Interrupts, SteerOrInterrupt(c) PROVE UNCHANGED convVars
      BY <3>4, SteerOrInterruptSteps DEF Steps
    <3>5. ASSUME NEW c \in Callers, CallHost(c) \/ HangUp(c) PROVE UNCHANGED convVars
      BY <3>5 DEF CallHost, Ensure, Send, HangUp
    <3>6. ASSUME NEW g \in Hosts, Follow(g) PROVE UNCHANGED convVars
      BY <3>6 DEF Follow, Eof, Retire, Reap, Read
    <3>7. (\E g \in Hosts : Host(g)) \/ UNCHANGED convVars
      BY <1>2, <2>2, <3>3, <3>4, <3>5, <3>6 DEF Next
    <3> QED BY <2>2, <3>1, <3>2, <3>7 DEF NoStream, convVars
  <2> QED BY <2>1, <2>2 DEF RInv
<1> QED BY <1>1, <1>2

\* The first switch of a conversation opens it again only after the stream it had
\* has ended (claude/switch.rs, switch_bridge; bridge-host.ts forgets the
\* conversation by its id when a stream ends).
THEOREM ReopenedStaysCorrect == Spec => ReopenedStays
<1>1. ASSUME WInv, RInv, NEW g \in Hosts, StreamEnds(g), conv[g]
      PROVE  \E v, w \in Switches : v # w /\ pc[v] # "idle" /\ pc[w] # "idle"
  <2>1. endings[g] # 0 /\ conv[g] = TRUE
    BY <1>1 DEF StreamEnds, WInv, Pipes
  <2>2. \A w \in Switches : ~First(w)
    BY <1>1, <2>1 DEF RInv, Orderly, OneStream
  <2>3. Switches # {}
    BY <1>1, <2>1 DEF RInv, NoStream
  <2>4. PICK u \in Switches : TRUE
    BY <2>3
  <2>5. PICK v \in Switches : pc[v] # "idle"
    BY <2>2, <2>4 DEF First
  <2> QED BY <2>2, <2>5 DEF First
<1>2. Spec => [](WInv /\ RInv)
  <2>1. Init => WInv /\ RInv
    BY WInvInit, RInvInit
  <2>2. WInv /\ RInv /\ [Next]_vars => (WInv /\ RInv)'
    BY WInvNext, RInvNext
  <2> QED BY <2>1, <2>2, PTL DEF Spec
<1>3. WInv /\ RInv => [\A g \in Hosts : StreamEnds(g) /\ conv[g] =>
        \E v, w \in Switches : v # w /\ pc[v] # "idle" /\ pc[w] # "idle"]_vars
  BY <1>1
<1> QED BY <1>2, <1>3, PTL DEF ReopenedStays
=============================================================================
