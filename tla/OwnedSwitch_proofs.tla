------------------------- MODULE OwnedSwitch_proofs -------------------------
(***************************************************************************)
(* Proofs about a session that Mother Claude runs (module OwnedSwitch),    *)
(* for any messages and any number of processes, switches, continues and   *)
(* failures.                                                               *)
(***************************************************************************)
EXTENDS OwnedSwitch, FiniteSetTheorems, TLAPS

\* The steps at which a switch holds the session, and those among them at
\* which the session is closed and its process not yet told to end.
Holding == {"close", "reclose", "ready", "takeBack", "settle", "interrupt", "stop",
            "stopping", "move", "launch", "register", "undo", "hand", "handing"}
Closed  == {"ready", "takeBack", "settle", "interrupt", "stop"}

ProcFields == {"child", "acct", "by", "alive", "closing", "turn", "queued", "input",
               "cur", "kill", "reaped"}
SwFields == {"pc", "when", "from", "to", "run", "p", "snap", "held"}

Typed ==
    /\ DOMAIN proc = Procs
    /\ \A p \in Procs : DOMAIN proc[p] = ProcFields /\ proc[p].alive \in BOOLEAN
                        /\ proc[p].kill \in BOOLEAN /\ proc[p].closing \in BOOLEAN
    /\ reg \in 0..MaxProcs
    /\ entry \in [seq : 0..MaxSwitches, phase : {"none", "waiting", "underway"}]
    /\ cancelled \subseteq Requests
    /\ DOMAIN sw = Requests
    /\ \A s \in Requests : DOMAIN sw[s] = SwFields /\ sw[s].pc \in SwitchSteps
    /\ DOMAIN cont = Conts
    /\ \A c \in Conts : DOMAIN cont[c] = {"pc", "acct", "p"}

\* A registered child is the registered process for as long as it runs, and
\* a child that is not registered has not been closed.
Alone ==
    \A p \in Procs :
        /\ proc[p].child = "none" => ~proc[p].alive /\ ~proc[p].kill
        /\ proc[p].alive /\ proc[p].child = "up" => reg = p
        /\ ~proc[p].alive /\ proc[p].child # "ended" => ~proc[p].closing

\* A child about to be registered, by a switch or by a continue, runs, is not
\* told to end and is nobody else's; the registered process is alive until
\* its child has ended.
FreshSwitch ==
    \A s \in Requests : sw[s].pc = "register" =>
        /\ sw[s].p \in Procs /\ proc[sw[s].p].child = "up" /\ proc[sw[s].p].by = s
        /\ ~proc[sw[s].p].alive /\ ~proc[sw[s].p].kill
FreshCont ==
    \A c \in Conts : cont[c].pc = "register" =>
        /\ cont[c].p \in Procs /\ proc[cont[c].p].child = "up" /\ proc[cont[c].p].by = 0
        /\ ~proc[cont[c].p].alive /\ ~proc[cont[c].p].kill
FreshApart ==
    \A c, d \in Conts :
        cont[c].pc = "register" /\ cont[d].pc = "register" /\ cont[c].p = cont[d].p => c = d
RegLives == reg # 0 => proc[reg].alive \/ proc[reg].child = "ended"
Fresh == FreshSwitch /\ FreshCont /\ FreshApart /\ RegLives

\* One switch holds the session, the registry knows it, and it is not one of
\* those told to give up.
Held ==
    /\ \A s \in Requests : sw[s].pc \in Holding => entry.seq = s /\ entry.phase = "underway"
    /\ entry.seq # 0 => entry.seq \notin cancelled /\ sw[entry.seq].pc # "idle"
    /\ entry.phase = "none" <=> entry.seq = 0
    /\ \A s \in cancelled : sw[s].pc # "idle"

\* A closed session whose process is not told to end is held by a switch that
\* either ends the process or opens the session again.
ClosedIsHeld ==
    reg # 0 => (proc[reg].closing /\ ~proc[reg].kill
                => \E s \in Requests : sw[s].pc \in Closed)

IInv == Typed /\ Alone /\ Fresh /\ Held /\ ClosedIsHeld

USE OwnedSwitchAssumption

\* What an action may leave as it is of a process.
SameButKill(p) ==
    /\ DOMAIN proc'[p] = ProcFields
    /\ proc'[p].child = proc[p].child /\ proc'[p].alive = proc[p].alive
    /\ proc'[p].by = proc[p].by /\ proc'[p].closing = proc[p].closing
Same(p) == SameButKill(p) /\ proc'[p].kill = proc[p].kill

\* A switch that comes no nearer to the session than it was.
LEMMA HeldKept ==
  ASSUME IInv, UNCHANGED <<entry, cancelled>>,
         \A t \in Requests : /\ sw[t].pc # "idle" => sw'[t].pc # "idle"
                             /\ sw'[t].pc \in Holding => sw[t].pc \in Holding
  PROVE  Held'
<1>1. (entry.seq # 0 => entry.seq \in Requests) /\ cancelled \subseteq Requests
  BY DEF IInv, Typed, Requests
<1>2. \A s \in Requests : sw'[s].pc \in Holding => entry'.seq = s /\ entry'.phase = "underway"
  BY DEF IInv, Held
<1>3. entry'.seq # 0 => entry'.seq \notin cancelled' /\ sw'[entry'.seq].pc # "idle"
  BY <1>1 DEF IInv, Held
<1>4. entry'.phase = "none" <=> entry'.seq = 0
  BY DEF IInv, Held
<1>5. \A s \in cancelled' : sw'[s].pc # "idle"
  BY <1>1 DEF IInv, Held
<1> QED BY <1>2, <1>3, <1>4, <1>5 DEF Held

\* Steps that change neither what a process is nor where a switch is.
LEMMA Quiet ==
  ASSUME IInv, UNCHANGED <<reg, entry, cancelled, cont>>,
         DOMAIN proc' = Procs, \A p \in Procs : Same(p),
         DOMAIN sw' = Requests,
         \A s \in Requests :
            /\ DOMAIN sw'[s] = SwFields /\ sw'[s].p = sw[s].p
            /\ \/ sw'[s].pc = sw[s].pc
               \/ {sw'[s].pc, sw[s].pc} \subseteq Closed
               \/ sw[s].pc \in {"hand", "handing"} /\ sw'[s].pc \in {"hand", "handing", "finish"}
  PROVE  IInv'
<1>1. Typed'
  BY DEF IInv, Typed, SwitchSteps, Closed, SameButKill, Same
<1>2. Alone'
  BY DEF IInv, Alone, SameButKill, Same
<1>3. Fresh'
  <2>1. FreshSwitch'
    BY DEF IInv, Fresh, FreshSwitch, Same, SameButKill, Closed
  <2>2. FreshCont'
    BY DEF IInv, Fresh, FreshCont, Same, SameButKill
  <2>3. FreshApart'
    BY DEF IInv, Fresh, FreshApart
  <2>4. RegLives'
    BY DEF IInv, Typed, Fresh, RegLives, Procs, Same, SameButKill
  <2> QED BY <2>1, <2>2, <2>3, <2>4 DEF Fresh
<1>4. Held'
  BY HeldKept DEF Holding, Closed
<1>5. ClosedIsHeld'
  BY DEF IInv, Typed, ClosedIsHeld, Closed, Procs, SameButKill, Same
<1> QED BY <1>1, <1>2, <1>3, <1>4, <1>5 DEF IInv

\* send_user and write_user concern a session's messages only.
LEMMA Recorded ==
  ASSUME IInv, NEW c, Record(c)
  PROVE  DOMAIN proc' = Procs /\ \A p \in Procs : Same(p)
<1>1. CASE proc' = proc
  BY <1>1 DEF IInv, Typed, Same, SameButKill
<1>2. CASE proc' = [proc EXCEPT ![reg].queued = Append(@, c[1])]
  BY <1>2 DEF IInv, Typed, Same, SameButKill
<1> QED BY <1>1, <1>2 DEF Record

\* A user's message that is refused or recorded.
LEMMA SendStep ==
  ASSUME IInv, NEW m \in Messages, Send(m)
  PROVE  IInv'
<1>1. Record(<<m, "user">>) /\ UNCHANGED <<reg, entry, cancelled, cont, sw>>
  BY DEF Send, switching, routes
<1>2. DOMAIN proc' = Procs /\ \A p \in Procs : Same(p)
  BY <1>1, Recorded
<1> QED BY <1>1, <1>2, Quiet DEF IInv, Typed

\* A line written to a child, or not.
LEMMA WriteLineStep ==
  ASSUME IInv, NEW c \in Calls, WriteLine(c)
  PROVE  IInv'
<1>1. UNCHANGED <<reg, entry, cancelled, cont, sw>>
  BY DEF WriteLine, switching, routes
<1>2. DOMAIN proc' = Procs /\ \A p \in Procs : Same(p)
  <2> DEFINE q == calls[c].p
  <2>1. CASE proc' = [proc EXCEPT ![q].input = Append(@, c[1])]
    BY <2>1 DEF IInv, Typed, Same, SameButKill
  <2>2. CASE proc' = [proc EXCEPT ![q].queued = Without(@, c[1])]
    BY <2>2 DEF IInv, Typed, Same, SameButKill
  <2> QED BY <2>1, <2>2 DEF WriteLine
<1> QED BY <1>1, <1>2, Quiet DEF IInv, Typed

\* A queued message asked back by a switch.
LEMMA TakeBackStep ==
  ASSUME IInv, NEW s \in Requests, TakeBack(s)
  PROVE  IInv'
<1> DEFINE m == Head(sw[s].snap)
<1>1. UNCHANGED <<reg, entry, cancelled, cont>>
  BY DEF TakeBack, routes
<1>2. DOMAIN proc' = Procs /\ \A p \in Procs : Same(p)
  <2>1. CASE proc' = proc
    BY <2>1 DEF IInv, Typed, Same, SameButKill
  <2>2. CASE proc' = [proc EXCEPT ![reg].input = GivenBack(@, m)]
    BY <2>2 DEF IInv, Typed, Same, SameButKill
  <2> QED BY <2>1, <2>2 DEF TakeBack
<1>3. sw[s].pc = "takeBack"
  BY DEF TakeBack
<1>4. \/ sw' = [sw EXCEPT ![s].pc = "interrupt"] \/ sw' = [sw EXCEPT ![s].snap = Tail(@)]
      \/ sw' = [sw EXCEPT ![s].pc = "settle"]
  BY DEF TakeBack, To
<1>5. DOMAIN sw' = Requests
      /\ \A t \in Requests : /\ DOMAIN sw'[t] = SwFields /\ sw'[t].p = sw[t].p
                             /\ \/ sw'[t].pc = sw[t].pc
                                \/ {sw'[t].pc, sw[t].pc} \subseteq Closed
  BY <1>3, <1>4 DEF IInv, Typed, SwFields, Closed
<1> QED BY <1>1, <1>2, <1>5, Quiet

\* A message given back leaves the queue.
LEMMA SettleStep ==
  ASSUME IInv, NEW s \in Requests, Settle(s)
  PROVE  IInv'
<1> DEFINE m == Head(sw[s].snap)
<1>1. UNCHANGED <<reg, entry, cancelled, cont>>
  BY DEF Settle, routes
<1>2. DOMAIN proc' = Procs /\ \A p \in Procs : Same(p)
  <2>1. CASE proc' = proc
    BY <2>1 DEF IInv, Typed, Same, SameButKill
  <2>2. CASE proc' = [proc EXCEPT ![reg].queued = Without(@, m)]
    BY <2>2 DEF IInv, Typed, Same, SameButKill
  <2> QED BY <2>1, <2>2 DEF Settle
<1>3. DOMAIN sw' = Requests
      /\ \A t \in Requests : /\ DOMAIN sw'[t] = SwFields /\ sw'[t].p = sw[t].p
                             /\ \/ sw'[t].pc = sw[t].pc
                                \/ {sw'[t].pc, sw[t].pc} \subseteq Closed
  BY DEF Settle, IInv, Typed, Closed
<1> QED BY <1>1, <1>2, <1>3, Quiet

\* What was held is handed to the resumed process.
LEMMA HandStep ==
  ASSUME IInv, NEW s \in Requests, Hand(s)
  PROVE  IInv'
<1>1. UNCHANGED <<reg, entry, cancelled, cont>> /\ sw[s].pc = "hand"
  BY DEF Hand, routes
<1>2. DOMAIN proc' = Procs /\ \A p \in Procs : Same(p)
  <2>1. CASE proc' = proc
    BY <2>1 DEF IInv, Typed, Same, SameButKill
  <2> QED BY <2>1, Recorded DEF Hand
<1>3. \/ sw' = [sw EXCEPT ![s].pc = "finish"] \/ sw' = [sw EXCEPT ![s].pc = "handing"]
  BY DEF Hand, To
<1>4. DOMAIN sw' = Requests
      /\ \A t \in Requests : /\ DOMAIN sw'[t] = SwFields /\ sw'[t].p = sw[t].p
                             /\ \/ sw'[t].pc = sw[t].pc
                                \/ /\ sw[t].pc \in {"hand", "handing"}
                                   /\ sw'[t].pc \in {"hand", "handing", "finish"}
  BY <1>1, <1>3 DEF IInv, Typed, SwFields
<1> QED BY <1>1, <1>2, <1>4, Quiet

\* kill: the registered process, if there is one, is told to end.
LEMMA Killed ==
  ASSUME IInv, proc' = IF reg = 0 THEN proc ELSE [proc EXCEPT ![reg].kill = TRUE]
  PROVE  /\ DOMAIN proc' = Procs
         /\ \A p \in Procs : /\ SameButKill(p) /\ proc'[p].kill \in BOOLEAN
                             /\ p # reg => proc'[p].kill = proc[p].kill
                             /\ p = reg => proc'[p].kill = TRUE
<1>1. CASE reg = 0
  BY <1>1 DEF IInv, Typed, SameButKill, Procs
<1>2. CASE reg # 0
  BY <1>2, ZenonT(40) DEF IInv, Typed, SameButKill, ProcFields, Procs
<1> QED BY <1>1, <1>2

\* The stop route ends the registered process.
LEMMA StopKillStep ==
  ASSUME IInv, StopKill
  PROVE  IInv'
<1>1. /\ DOMAIN proc' = Procs
      /\ \A p \in Procs : /\ SameButKill(p) /\ proc'[p].kill \in BOOLEAN
                          /\ p # reg => proc'[p].kill = proc[p].kill
                          /\ p = reg => proc'[p].kill = TRUE
  BY Killed DEF StopKill
<1>2. UNCHANGED <<reg, entry, cancelled, sw, cont>>
  BY DEF StopKill, switching
<1>3. Typed'
  BY <1>1, <1>2 DEF IInv, Typed, SameButKill
<1>4. Alone'
  BY <1>1, <1>2 DEF IInv, Alone, Fresh, RegLives, Procs, SameButKill
<1>5. Fresh'
  <2>1. FreshSwitch'
    BY <1>1, <1>2 DEF IInv, Fresh, FreshSwitch, RegLives, Procs, SameButKill
  <2>2. FreshCont'
    BY <1>1, <1>2 DEF IInv, Fresh, FreshCont, RegLives, Procs, SameButKill
  <2>3. FreshApart'
    BY <1>1, <1>2 DEF IInv, Fresh, FreshApart, SameButKill
  <2>4. RegLives'
    BY <1>1, <1>2 DEF IInv, Typed, Fresh, RegLives, Procs, SameButKill
  <2> QED BY <2>1, <2>2, <2>3, <2>4 DEF Fresh
<1>6. Held'
  BY <1>1, <1>2 DEF IInv, Held, SameButKill
<1>7. ClosedIsHeld'
  BY <1>1, <1>2 DEF IInv, Typed, ClosedIsHeld, Procs
<1> QED BY <1>3, <1>4, <1>5, <1>6, <1>7 DEF IInv

\* A switch ends the registered process, or finds none.
LEMMA StopStep ==
  ASSUME IInv, NEW s \in Requests, Stop(s)
  PROVE  IInv'
<1>1. /\ DOMAIN proc' = Procs
      /\ \A p \in Procs : /\ SameButKill(p) /\ proc'[p].kill \in BOOLEAN
                          /\ p # reg => proc'[p].kill = proc[p].kill
                          /\ p = reg => proc'[p].kill = TRUE
  BY Killed DEF Stop
<1>2. UNCHANGED <<reg, entry, cancelled, cont>> /\ sw[s].pc = "stop"
  BY DEF Stop, routes
<1>3. /\ DOMAIN sw' = Requests
      /\ \A t \in Requests : DOMAIN sw'[t] = SwFields /\ (t # s => sw'[t] = sw[t])
      /\ sw'[s].pc \in {"move", "stopping"}
  <2>1. CASE sw' = [sw EXCEPT ![s].pc = "move"]
    BY <2>1 DEF IInv, Typed, SwFields
  <2>2. CASE sw' = [sw EXCEPT ![s].pc = "stopping", ![s].p = reg]
    BY <2>2 DEF IInv, Typed, SwFields
  <2> QED BY <2>1, <2>2 DEF Stop, To
<1>4. reg = 0 => sw'[s].pc = "move"
  BY DEF Stop, To, IInv, Typed, SwFields
<1>5. Typed'
  BY <1>1, <1>2, <1>3 DEF IInv, Typed, SwitchSteps, SameButKill
<1>6. Alone'
  BY <1>1, <1>2, <1>3 DEF IInv, Alone, Fresh, RegLives, Procs, SameButKill
<1>7. Fresh'
  <2>1. FreshSwitch'
    BY <1>1, <1>2, <1>3 DEF IInv, Held, FreshSwitch, Holding
  <2>2. FreshCont'
    BY <1>1, <1>2, <1>3 DEF IInv, Fresh, FreshCont, RegLives, Procs, SameButKill
  <2>3. FreshApart'
    BY <1>1, <1>2, <1>3 DEF IInv, Fresh, FreshApart, SameButKill
  <2>4. RegLives'
    BY <1>1, <1>2, <1>3 DEF IInv, Typed, Fresh, RegLives, Procs, SameButKill
  <2> QED BY <2>1, <2>2, <2>3, <2>4 DEF Fresh
<1>8. Held'
  BY <1>2, <1>3, HeldKept DEF Holding, Closed
<1>9. ClosedIsHeld'
  BY <1>1, <1>2, <1>3 DEF IInv, Typed, ClosedIsHeld, Procs
<1> QED BY <1>5, <1>6, <1>7, <1>8, <1>9 DEF IInv

\* What starting a child changes: a process that was none.
Starts(n, b) ==
    /\ reg = 0 /\ n \in Procs /\ proc[n].child = "none"
    /\ DOMAIN proc' = Procs
    /\ \A p \in Procs :
         /\ DOMAIN proc'[p] = ProcFields /\ proc'[p].alive = proc[p].alive
         /\ proc'[p].kill = proc[p].kill /\ proc'[p].closing = proc[p].closing
         /\ p # n => proc'[p] = proc[p]
    /\ proc'[n].child = "up" /\ proc'[n].by = b

\* Starting a child, once there is a number for it.
LEMMA Started ==
  ASSUME IInv, NEW a, NEW b, StartChild(a, b)
  PROVE  Starts(NextProc, b)
<1>1. NextProc \in Procs /\ proc[NextProc].child = "none"
  BY DEF StartChild, NextProc
<1> HIDE DEF NextProc
<1>2. proc' = [proc EXCEPT ![NextProc].child = "up", ![NextProc].acct = a, ![NextProc].by = b]
  BY DEF StartChild
<1> QED BY <1>1, <1>2 DEF Starts, StartChild, IInv, Typed

\* A continue starts a child beside no registered process.
LEMMA ContinueLaunchStep ==
  ASSUME IInv, NEW c \in Conts, ContinueLaunch(c)
  PROVE  IInv'
<1>1. UNCHANGED <<reg, entry, cancelled, sw>> /\ cont[c].pc = "launch"
  BY DEF ContinueLaunch, switching
<1>2. CASE reg # 0
  <2>1. UNCHANGED proc /\ cont' = [cont EXCEPT ![c] = [Unasked EXCEPT !.pc = "done"]]
    BY <1>2 DEF ContinueLaunch
  <2> USE DEF Unasked
  <2>3. Typed'
    BY <1>1, <2>1 DEF IInv, Typed
  <2>4. Alone'
    BY <1>1, <2>1 DEF IInv, Alone
  <2>5. Fresh'
    BY <1>1, <2>1 DEF IInv, Fresh, FreshSwitch, FreshCont, FreshApart, RegLives
  <2>6. Held'
    BY <1>1, <2>1 DEF IInv, Held
  <2>7. ClosedIsHeld'
    BY <1>1, <2>1 DEF IInv, ClosedIsHeld
  <2> QED BY <2>3, <2>4, <2>5, <2>6, <2>7 DEF IInv
<1>3. CASE reg = 0
  <2> DEFINE n == NextProc
  <2>1. Starts(n, 0)
    BY <1>3, Started DEF ContinueLaunch
  <2>2. cont' = [cont EXCEPT ![c].pc = "register", ![c].p = n]
    BY <1>3 DEF ContinueLaunch
  <2> HIDE DEF n
  <2>3. /\ DOMAIN cont' = Conts /\ cont'[c].pc = "register" /\ cont'[c].p = n
        /\ \A d \in Conts : DOMAIN cont'[d] = {"pc", "acct", "p"} /\ (d # c => cont'[d] = cont[d])
    BY <2>2 DEF IInv, Typed
  <2>4. Typed'
    BY <1>1, <2>1, <2>3 DEF IInv, Typed, Starts
  <2>5. Alone'
    BY <1>1, <2>1, <2>3 DEF IInv, Alone, Starts
  <2>6. Fresh'
    <3>1. FreshSwitch'
      BY <1>1, <2>1, <2>3 DEF IInv, Fresh, FreshSwitch, Starts
    <3>2. FreshCont'
      BY <1>1, <2>1, <2>3 DEF IInv, Alone, Fresh, FreshCont, Starts
    <3>3. FreshApart'
      BY <1>1, <2>1, <2>3 DEF IInv, Fresh, FreshCont, FreshApart, Starts
    <3>4. RegLives'
      BY <1>1, <2>1, <2>3 DEF IInv, Fresh, RegLives, Starts
    <3> QED BY <3>1, <3>2, <3>3, <3>4 DEF Fresh
  <2>7. Held'
    BY <1>1, <2>1, <2>3 DEF IInv, Held, Starts
  <2>8. ClosedIsHeld'
    BY <1>1, <2>1, <2>3 DEF IInv, ClosedIsHeld, Starts
  <2> QED BY <2>4, <2>5, <2>6, <2>7, <2>8 DEF IInv
<1> QED BY <1>2, <1>3

\* A switch starts a child, or cannot.
LEMMA LaunchStep ==
  ASSUME IInv, NEW s \in Requests, Launch(s)
  PROVE  IInv'
<1>1. UNCHANGED <<reg, entry, cancelled, cont>> /\ sw[s].pc = "launch"
  BY DEF Launch, routes
<1>2. CASE UNCHANGED proc /\ To(s, AfterFailure(s))
  <2>1. /\ DOMAIN sw' = Requests /\ sw'[s].pc \in {"finish", "undo"}
        /\ \A t \in Requests : DOMAIN sw'[t] = SwFields /\ (t # s => sw'[t] = sw[t])
    BY <1>2 DEF To, AfterFailure, IInv, Typed
  <2>2. Typed'
    BY <1>1, <1>2, <2>1 DEF IInv, Typed, Procs, SwitchSteps
  <2>3. Alone'
    BY <1>1, <1>2, <2>1 DEF IInv, Alone
  <2>4. Fresh'
    BY <1>1, <1>2, <2>1 DEF IInv, Fresh, FreshSwitch, FreshCont, FreshApart, RegLives
  <2>5. Held'
    <3>1. \A t \in Requests : (sw[t].pc # "idle" => sw'[t].pc # "idle")
              /\ (sw'[t].pc \in Holding => sw[t].pc \in Holding)
      BY <1>1, <2>1 DEF Holding
    <3> QED BY <1>1, <3>1, HeldKept
  <2>6. ClosedIsHeld'
    BY <1>1, <1>2, <2>1 DEF IInv, Typed, ClosedIsHeld, Closed
  <2> QED BY <2>2, <2>3, <2>4, <2>5, <2>6 DEF IInv
<1>3. CASE StartChild(sw[s].run, s) /\ sw' = [sw EXCEPT ![s].pc = "register", ![s].p = NextProc]
  <2> DEFINE n == NextProc
  <2>1. Starts(n, s)
    BY <1>3, Started
  <2>2. sw' = [sw EXCEPT ![s].pc = "register", ![s].p = n]
    BY <1>3
  <2> HIDE DEF n
  <2>3. /\ DOMAIN sw' = Requests /\ sw'[s].pc = "register" /\ sw'[s].p = n
        /\ \A t \in Requests : DOMAIN sw'[t] = SwFields /\ (t # s => sw'[t] = sw[t])
    BY <2>2 DEF IInv, Typed, SwFields
  <2>4. Typed'
    BY <1>1, <2>1, <2>3 DEF IInv, Typed, SwitchSteps, Starts
  <2>5. Alone'
    BY <1>1, <2>1, <2>3 DEF IInv, Alone, Starts
  <2>6. Fresh'
    <3>1. FreshSwitch'
      BY <1>1, <2>1, <2>3 DEF IInv, Alone, Fresh, FreshSwitch, Procs, Starts
    <3>2. FreshCont'
      BY <1>1, <2>1, <2>3 DEF IInv, Fresh, FreshCont, Starts
    <3>3. FreshApart'
      BY <1>1, <2>1, <2>3 DEF IInv, Fresh, FreshApart, Starts
    <3>4. RegLives'
      BY <1>1, <2>1, <2>3 DEF IInv, Fresh, RegLives, Starts
    <3> QED BY <3>1, <3>2, <3>3, <3>4 DEF Fresh
  <2>7. Held'
    <3>1. \A t \in Requests : (sw[t].pc # "idle" => sw'[t].pc # "idle")
              /\ (sw'[t].pc \in Holding => sw[t].pc \in Holding)
      BY <1>1, <2>3 DEF Holding
    <3> QED BY <1>1, <3>1, HeldKept
  <2>8. ClosedIsHeld'
    BY <1>1, <2>1, <2>3 DEF IInv, ClosedIsHeld, Starts
  <2> QED BY <2>4, <2>5, <2>6, <2>7, <2>8 DEF IInv
<1> QED BY <1>2, <1>3 DEF Launch

\* What asking the registry changes: the child is registered, or told to end.
Enters(p) ==
    /\ DOMAIN proc' = Procs
    /\ \A q \in Procs :
         /\ DOMAIN proc'[q] = ProcFields /\ proc'[q].child = proc[q].child
         /\ proc'[q].by = proc[q].by /\ proc'[q].closing = proc[q].closing
         /\ q # p => proc'[q] = proc[q]
    /\ \/ /\ reg = 0 /\ reg' = p
          /\ proc'[p].alive = TRUE /\ proc'[p].kill = proc[p].kill
       \/ /\ reg # 0 /\ reg' = reg
          /\ proc'[p].alive = proc[p].alive /\ proc'[p].kill = TRUE

\* Asking the registry, for the first child and for a second.
LEMMA Entered ==
  ASSUME IInv, NEW p \in Procs, Enter(p)
  PROVE  Enters(p)
<1>1. CASE reg = 0
  BY <1>1 DEF Enter, Enters, IInv, Typed, ProcFields
<1>2. CASE reg # 0
  BY <1>2 DEF Enter, Enters, IInv, Typed, ProcFields
<1> QED BY <1>1, <1>2

\* The child of a continue is registered, or told to end.
LEMMA ContinueRegisterStep ==
  ASSUME IInv, NEW c \in Conts, ContinueRegister(c)
  PROVE  IInv'
<1> DEFINE p == cont[c].p
<1>1. UNCHANGED <<entry, cancelled, sw>> /\ cont[c].pc = "register"
  BY DEF ContinueRegister, switching
<1>2. p \in Procs /\ Enters(p)
  BY <1>1, Entered DEF ContinueRegister, IInv, Fresh, FreshCont
<1>3. /\ DOMAIN cont' = Conts /\ cont'[c].pc = "done"
      /\ \A d \in Conts : DOMAIN cont'[d] = {"pc", "acct", "p"} /\ (d # c => cont'[d] = cont[d])
  BY DEF ContinueRegister, Unasked, IInv, Typed
<1>4. proc[p].child = "up" /\ ~proc[p].alive /\ proc[p].by = 0 /\ p # reg
  BY <1>1, <1>2 DEF IInv, Fresh, FreshCont, RegLives, Procs
<1>5. /\ \A t \in Requests : sw[t].pc = "register" => sw[t].p # p
      /\ \A d \in Conts : cont[d].pc = "register" => d = c \/ cont[d].p # p
  BY <1>1, <1>4 DEF IInv, Fresh, FreshSwitch, FreshApart, Requests
<1>6. \A q \in Procs : q # p => proc'[q] = proc[q]
  BY <1>2 DEF Enters
<1> HIDE DEF p
<1>7. Typed'
  <2>1. DOMAIN proc' = Procs /\ reg' \in 0..MaxProcs
    BY <1>1, <1>2, <1>3, <1>4, <1>5, <1>6 DEF IInv, Typed, Enters, Procs
  <2>2. \A q \in Procs : DOMAIN proc'[q] = ProcFields /\ proc'[q].alive \in BOOLEAN
                        /\ proc'[q].kill \in BOOLEAN /\ proc'[q].closing \in BOOLEAN
    <3> TAKE q \in Procs
    <3>1. CASE q = p
      BY <1>1, <1>2, <1>3, <1>4, <1>5, <1>6, <3>1 DEF IInv, Typed, Enters
    <3>2. CASE q # p
      BY <1>1, <1>2, <1>3, <1>4, <1>5, <1>6, <3>2 DEF IInv, Typed, Enters
    <3> QED BY <3>1, <3>2
  <2> QED BY <2>1, <2>2, <1>1, <1>2, <1>3, <1>4, <1>5, <1>6 DEF IInv, Typed, SwitchSteps
<1>8. Alone'
  BY <1>1, <1>2, <1>3, <1>4, <1>5, <1>6 DEF IInv, Alone, Procs, Enters
<1>9. Fresh'
  <2>1. FreshSwitch'
    BY <1>1, <1>2, <1>3, <1>4, <1>5, <1>6 DEF IInv, Fresh, FreshSwitch, Enters
  <2>2. FreshCont'
    BY <1>1, <1>2, <1>3, <1>4, <1>5, <1>6 DEF IInv, Fresh, FreshCont, Enters
  <2>3. FreshApart'
    BY <1>1, <1>2, <1>3, <1>4, <1>5, <1>6 DEF IInv, Fresh, FreshApart, Enters
  <2>4. RegLives'
    BY <1>1, <1>2, <1>3, <1>4, <1>5, <1>6 DEF IInv, Typed, Fresh, RegLives, Procs, Enters
  <2> QED BY <2>1, <2>2, <2>3, <2>4 DEF Fresh
<1>10. Held'
  BY <1>1, HeldKept DEF Holding, Closed
<1>11. ClosedIsHeld'
  BY <1>1, <1>2, <1>3, <1>4, <1>5, <1>6 DEF IInv, Typed, Alone, ClosedIsHeld, Procs, Enters
<1> QED BY <1>7, <1>8, <1>9, <1>10, <1>11 DEF IInv

\* The child of a switch is registered, or told to end.
LEMMA RegisterStep ==
  ASSUME IInv, NEW s \in Requests, Register(s)
  PROVE  IInv'
<1> DEFINE p == sw[s].p
<1>1. UNCHANGED <<entry, cancelled, cont>> /\ sw[s].pc = "register"
  BY DEF Register, routes
<1>2. p \in Procs /\ Enters(p)
  BY <1>1, Entered DEF Register, IInv, Fresh, FreshSwitch
<1>3. /\ DOMAIN sw' = Requests /\ sw'[s].pc \in {"hand", "finish", "undo"}
      /\ \A t \in Requests : DOMAIN sw'[t] = SwFields /\ (t # s => sw'[t] = sw[t])
  BY DEF Register, To, AfterFailure, IInv, Typed
<1>4. proc[p].child = "up" /\ ~proc[p].alive /\ proc[p].by = s /\ p # reg
  BY <1>1, <1>2 DEF IInv, Fresh, FreshSwitch, RegLives, Procs
<1>5. /\ \A t \in Requests : sw[t].pc = "register" => t = s
      /\ \A d \in Conts : cont[d].pc = "register" => cont[d].p # p
  BY <1>1, <1>4 DEF IInv, Fresh, FreshCont, Held, Holding
<1> HIDE DEF p
<1>6. Typed'
  <2>1. DOMAIN proc' = Procs /\ reg' \in 0..MaxProcs
    BY <1>1, <1>2, <1>3, <1>4, <1>5 DEF IInv, Typed, Enters, Procs
  <2>2. \A q \in Procs : DOMAIN proc'[q] = ProcFields /\ proc'[q].alive \in BOOLEAN
                        /\ proc'[q].kill \in BOOLEAN /\ proc'[q].closing \in BOOLEAN
    <3> TAKE q \in Procs
    <3>1. CASE q = p
      BY <1>1, <1>2, <1>3, <1>4, <1>5, <3>1 DEF IInv, Typed, Enters
    <3>2. CASE q # p
      BY <1>1, <1>2, <1>3, <1>4, <1>5, <3>2 DEF IInv, Typed, Enters
    <3> QED BY <3>1, <3>2
  <2> QED BY <2>1, <2>2, <1>1, <1>2, <1>3, <1>4, <1>5 DEF IInv, Typed, SwitchSteps
<1>7. Alone'
  BY <1>1, <1>2, <1>3, <1>4, <1>5 DEF IInv, Alone, Procs, Enters
<1>8. Fresh'
  <2>1. FreshSwitch'
    BY <1>1, <1>2, <1>3, <1>4, <1>5 DEF IInv, Fresh, FreshSwitch, Enters
  <2>2. FreshCont'
    BY <1>1, <1>2, <1>3, <1>4, <1>5 DEF IInv, Fresh, FreshCont, Enters
  <2>3. FreshApart'
    BY <1>1, <1>2, <1>3, <1>4, <1>5 DEF IInv, Fresh, FreshApart, Enters
  <2>4. RegLives'
    BY <1>1, <1>2, <1>3, <1>4, <1>5 DEF IInv, Typed, Fresh, RegLives, Procs, Enters
  <2> QED BY <2>1, <2>2, <2>3, <2>4 DEF Fresh
<1>9. Held'
  BY <1>1, <1>3, HeldKept DEF Holding, Closed
<1>10. ClosedIsHeld'
  BY <1>1, <1>2, <1>3, <1>4, <1>5 DEF IInv, Typed, Alone, ClosedIsHeld, Closed, Procs,
       Enters
<1> QED BY <1>6, <1>7, <1>8, <1>9, <1>10 DEF IInv

\* A waiting switch is dropped, or nothing waits.
LEMMA Dropped ==
  ASSUME IInv, DropWaiting,
         \A t \in Requests : /\ sw[t].pc # "idle" => sw'[t].pc # "idle"
                             /\ sw'[t].pc \in Holding => sw[t].pc \in Holding
  PROVE  /\ Held'
         /\ entry' \in [seq : 0..MaxSwitches, phase : {"none", "waiting", "underway"}]
         /\ cancelled' \subseteq Requests
<1>1. CASE UNCHANGED <<entry, cancelled>>
  BY <1>1, HeldKept DEF IInv, Typed
<1>2. CASE entry.phase = "waiting" /\ entry' = NoEntry /\ cancelled' = cancelled \cup {entry.seq}
  <2>1. entry.seq \in Requests
    BY <1>2 DEF IInv, Typed, Held, Requests
  <2>2. \A t \in Requests : sw'[t].pc \notin Holding
    BY <1>2 DEF IInv, Held
  <2>3. \A t \in cancelled' : t \in Requests /\ sw'[t].pc # "idle"
    BY <1>2, <2>1 DEF IInv, Typed, Held
  <2>4. entry'.seq = 0 /\ entry'.phase = "none" /\ 0 \in 0..MaxSwitches
    BY <1>2 DEF NoEntry
  <2> QED BY <1>2, <2>2, <2>3, <2>4 DEF Held, NoEntry
<1> QED BY <1>1, <1>2 DEF DropWaiting

\* The user takes a waiting switch back.
LEMMA CancelWaitingStep ==
  ASSUME IInv, CancelWaiting
  PROVE  IInv'
<1>1. UNCHANGED <<proc, reg, sw, cont>>
  BY DEF CancelWaiting, routes
<1>2. /\ Held' /\ cancelled' \subseteq Requests
      /\ entry' \in [seq : 0..MaxSwitches, phase : {"none", "waiting", "underway"}]
  BY <1>1, Dropped DEF CancelWaiting
<1>3. Typed'
  BY <1>1, <1>2 DEF IInv, Typed
<1>4. Alone'
  BY <1>1 DEF IInv, Alone
<1>5. Fresh'
  BY <1>1 DEF IInv, Fresh, FreshSwitch, FreshCont, FreshApart, RegLives
<1>6. ClosedIsHeld'
  BY <1>1 DEF IInv, ClosedIsHeld
<1> QED BY <1>2, <1>3, <1>4, <1>5, <1>6 DEF IInv

\* The stop route drops a waiting switch.
LEMMA StopRouteStep ==
  ASSUME IInv, StopRoute
  PROVE  IInv'
<1>1. UNCHANGED <<proc, reg, sw, cont>>
  BY DEF StopRoute
<1>2. /\ Held' /\ cancelled' \subseteq Requests
      /\ entry' \in [seq : 0..MaxSwitches, phase : {"none", "waiting", "underway"}]
  BY <1>1, Dropped DEF StopRoute
<1>3. Typed'
  BY <1>1, <1>2 DEF IInv, Typed
<1>4. Alone'
  BY <1>1 DEF IInv, Alone
<1>5. Fresh'
  BY <1>1 DEF IInv, Fresh, FreshSwitch, FreshCont, FreshApart, RegLives
<1>6. ClosedIsHeld'
  BY <1>1 DEF IInv, ClosedIsHeld
<1> QED BY <1>2, <1>3, <1>4, <1>5, <1>6 DEF IInv

\* A switch is asked for: refused, or the session's only one from now on.
LEMMA AskStep ==
  ASSUME IInv, NEW s \in Requests, NEW to \in Accounts, NEW when \in {"now", "idle"},
         Ask(s, to, when)
  PROVE  IInv'
<1>1. UNCHANGED <<proc, reg, cont>> /\ sw[s].pc = "idle"
  BY DEF Ask, routes
<1>2. /\ DOMAIN sw' = Requests /\ sw'[s].pc \in {"done", "close"}
      /\ \A t \in Requests : DOMAIN sw'[t] = SwFields /\ (t # s => sw'[t] = sw[t])
  <2>1. CASE sw' = [sw EXCEPT ![s].pc = "done"]
    BY <2>1 DEF IInv, Typed, SwFields
  <2>2. CASE sw' = [sw EXCEPT ![s] = [Asleep EXCEPT !.pc = "close", !.when = when,
                                           !.from = proc[reg].acct, !.to = to]]
    BY <2>2 DEF IInv, Typed, SwFields, Asleep
  <2> QED BY <2>1, <2>2 DEF Ask, To
<1>3. /\ Held' /\ cancelled' \subseteq Requests
      /\ entry' \in [seq : 0..MaxSwitches, phase : {"none", "waiting", "underway"}]
  <2>1. CASE To(s, "done")
    <3>1. sw'[s].pc = "done"
      BY <2>1 DEF To, IInv, Typed, SwFields
    <3>2. \A t \in Requests : /\ sw[t].pc # "idle" => sw'[t].pc # "idle"
                              /\ sw'[t].pc \in Holding => sw[t].pc \in Holding
      BY <1>1, <1>2, <3>1 DEF Holding
    <3>3. CASE DropWaiting
      BY <3>2, <3>3, Dropped
    <3>4. CASE UNCHANGED <<entry, cancelled>>
      BY <3>2, <3>4, HeldKept DEF IInv, Typed
    <3>5. sw[s].pc = "idle" /\ sw'[s].pc # "close"
      BY <1>1, <3>1
    <3>6. sw' # [sw EXCEPT ![s] = [Asleep EXCEPT !.pc = "close", !.when = when,
                                           !.from = proc[reg].acct, !.to = to]]
      BY <3>5 DEF Asleep, IInv, Typed
    <3> QED BY <3>3, <3>4, <3>6 DEF Ask
  <2>2. CASE /\ ~Underway /\ sw'[s].pc = "close"
             /\ entry' = [seq |-> s, phase |-> "underway"]
             /\ cancelled' = IF entry.seq = 0 THEN cancelled ELSE cancelled \cup {entry.seq}
    <3>1. \A t \in Requests : sw[t].pc \notin Holding
      BY <2>2 DEF IInv, Held, Underway
    <3>2. \A t \in cancelled' : t \in Requests /\ sw[t].pc # "idle"
      BY <2>2 DEF IInv, Typed, Held, Requests
    <3>3. entry'.seq = s /\ entry'.phase = "underway" /\ s # 0 /\ s \in 0..MaxSwitches
      BY <2>2 DEF Requests
    <3>4. s \notin cancelled'
      BY <1>1, <3>2
    <3>5. \A t \in Requests : sw'[t].pc \in Holding => t = s
      BY <1>2, <3>1
    <3>6. \A t \in cancelled' : sw'[t].pc # "idle"
      BY <1>1, <1>2, <3>2
    <3> QED BY <2>2, <3>2, <3>3, <3>4, <3>5, <3>6 DEF Held
  <2>3. CASE sw' = [sw EXCEPT ![s] = [Asleep EXCEPT !.pc = "close", !.when = when,
                                           !.from = proc[reg].acct, !.to = to]]
    <3>1. sw'[s].pc = "close"
      BY <2>3 DEF Asleep, IInv, Typed
    <3>2. ~To(s, "done")
      BY <3>1 DEF To, IInv, Typed, SwFields
    <3> QED BY <2>2, <3>1, <3>2 DEF Ask
  <2> QED BY <2>1, <2>3 DEF Ask
<1>4. Typed'
  BY <1>1, <1>2, <1>3 DEF IInv, Typed, SwitchSteps
<1>5. Alone'
  BY <1>1, <1>2 DEF IInv, Alone
<1>6. Fresh'
  BY <1>1, <1>2 DEF IInv, Fresh, FreshSwitch, FreshCont, FreshApart, RegLives
<1>7. ClosedIsHeld'
  BY <1>1, <1>2 DEF IInv, Typed, ClosedIsHeld, Closed
<1> QED BY <1>3, <1>4, <1>5, <1>6, <1>7 DEF IInv

\* The registered process opens to messages, or closes to them.
LEMMA Gated ==
  ASSUME IInv, reg # 0, NEW b \in BOOLEAN, proc' = [proc EXCEPT ![reg].closing = b]
  PROVE  /\ reg \in Procs /\ DOMAIN proc' = Procs
         /\ \A p \in Procs : /\ DOMAIN proc'[p] = ProcFields
                             /\ proc'[p].child = proc[p].child /\ proc'[p].alive = proc[p].alive
                             /\ proc'[p].by = proc[p].by /\ proc'[p].kill = proc[p].kill
                             /\ p # reg => proc'[p] = proc[p]
                             /\ p = reg => proc'[p].closing = b
  BY DEF IInv, Typed, ProcFields, Procs

\* A switch goes from one step to another and touches no process.
LEMMA Moved ==
  ASSUME IInv, NEW s \in Requests, UNCHANGED <<proc, reg, cont>>,
         DOMAIN sw' = Requests, sw'[s].pc \in SwitchSteps \ {"register"},
         \A t \in Requests : DOMAIN sw'[t] = SwFields /\ (t # s => sw'[t] = sw[t]),
         sw[s].pc \in Closed => reg = 0 \/ sw'[s].pc \in Closed,
         Held', cancelled' \subseteq Requests,
         entry' \in [seq : 0..MaxSwitches, phase : {"none", "waiting", "underway"}]
  PROVE  IInv'
<1>1. Typed'
  BY DEF IInv, Typed
<1>2. Alone'
  BY DEF IInv, Alone
<1>3. Fresh'
  BY DEF IInv, Fresh, FreshSwitch, FreshCont, FreshApart, RegLives
<1>4. ClosedIsHeld'
  BY DEF IInv, ClosedIsHeld
<1> QED BY <1>1, <1>2, <1>3, <1>4 DEF IInv

\* A switch finds no process, waits for the turn, or closes the session.
LEMMA CloseStep ==
  ASSUME IInv, NEW s \in Requests, Close(s)
  PROVE  IInv'
<1>1. UNCHANGED <<reg, cont, cancelled>> /\ sw[s].pc \in {"close", "reclose"}
  BY DEF Close, routes
<1>2. CASE To(s, IF sw[s].pc = "close" THEN "finish" ELSE "wait") /\ UNCHANGED <<proc, entry>>
  <2>1. /\ DOMAIN sw' = Requests /\ sw'[s].pc \in {"finish", "wait"}
        /\ \A t \in Requests : DOMAIN sw'[t] = SwFields /\ (t # s => sw'[t] = sw[t])
    BY <1>2 DEF To, IInv, Typed, SwFields
  <2>2. Held'
    BY <1>1, <1>2, <2>1, HeldKept DEF Holding
  <2> QED BY <1>1, <1>2, <2>1, <2>2, Moved DEF SwitchSteps, Closed, IInv, Typed
<1>3. CASE To(s, "wait") /\ SetPhase(s, "waiting") /\ UNCHANGED proc
  <2>1. /\ DOMAIN sw' = Requests /\ sw'[s].pc = "wait"
        /\ \A t \in Requests : DOMAIN sw'[t] = SwFields /\ (t # s => sw'[t] = sw[t])
    BY <1>3 DEF To, IInv, Typed, SwFields
  <2>2. entry.seq = s /\ entry'.seq = s /\ entry'.phase = "waiting"
    BY <1>1, <1>3 DEF IInv, Held, Holding, SetPhase, IsCurrent
  <2>3. entry' \in [seq : 0..MaxSwitches, phase : {"none", "waiting", "underway"}]
    BY <1>3 DEF SetPhase, IInv, Typed
  <2>4. Held'
    BY <1>1, <2>1, <2>2 DEF IInv, Typed, Held, Holding
  <2> QED BY <1>1, <1>3, <2>1, <2>3, <2>4, Moved DEF SwitchSteps, Closed, IInv, Typed
<1>4. CASE /\ reg # 0 /\ proc[reg].alive /\ UNCHANGED entry
           /\ proc' = [proc EXCEPT ![reg].closing = TRUE]
           /\ sw' = [sw EXCEPT ![s].pc = "ready", ![s].p = reg, ![s].snap = proc[reg].queued]
  <2>1. /\ DOMAIN sw' = Requests /\ sw'[s].pc = "ready"
        /\ \A t \in Requests : DOMAIN sw'[t] = SwFields /\ (t # s => sw'[t] = sw[t])
    BY <1>4 DEF IInv, Typed, SwFields
  <2>2. /\ reg \in Procs /\ DOMAIN proc' = Procs
        /\ \A p \in Procs : /\ DOMAIN proc'[p] = ProcFields
                            /\ proc'[p].child = proc[p].child /\ proc'[p].alive = proc[p].alive
                            /\ proc'[p].by = proc[p].by /\ proc'[p].kill = proc[p].kill
                            /\ p # reg => proc'[p] = proc[p]
                            /\ p = reg => proc'[p].closing = TRUE
    BY <1>4, Gated
  <2>3. Held'
    BY <1>1, <1>4, <2>1, HeldKept DEF Holding
  <2>4. Typed'
    BY <1>1, <1>4, <2>1, <2>2 DEF IInv, Typed, SwitchSteps
  <2>5. Alone'
    BY <1>1, <1>4, <2>2 DEF IInv, Typed, Alone
  <2>6. Fresh'
    <3>1. FreshSwitch'
      BY <1>1, <2>1, <2>2 DEF IInv, Fresh, FreshSwitch
    <3>2. FreshCont'
      BY <1>1, <2>1, <2>2 DEF IInv, Fresh, FreshCont
    <3>3. FreshApart'
      BY <1>1, <2>1, <2>2 DEF IInv, Fresh, FreshApart
    <3>4. RegLives'
      BY <1>1, <2>1, <2>2 DEF IInv, Fresh, RegLives
    <3> QED BY <3>1, <3>2, <3>3, <3>4 DEF Fresh
  <2>7. ClosedIsHeld'
    BY <2>1 DEF ClosedIsHeld, Closed
  <2> QED BY <2>3, <2>4, <2>5, <2>6, <2>7 DEF IInv
<1> QED BY <1>2, <1>3, <1>4 DEF Close

\* One look of a waiting switch.
LEMMA WaitStep ==
  ASSUME IInv, NEW s \in Requests, Wait(s)
  PROVE  IInv'
<1>1. UNCHANGED <<proc, reg, cont, entry, cancelled>> /\ sw[s].pc = "wait"
  BY DEF Wait, routes
<1>2. /\ DOMAIN sw' = Requests /\ sw'[s].pc \in {"done", "finish", "claim"}
      /\ \A t \in Requests : DOMAIN sw'[t] = SwFields /\ (t # s => sw'[t] = sw[t])
  BY DEF Wait, To, IInv, Typed, SwFields
<1>3. Held'
  BY <1>1, <1>2, HeldKept DEF Holding
<1> QED BY <1>1, <1>2, <1>3, Moved DEF SwitchSteps, Closed, IInv, Typed

\* A switch goes on after its checks, or opens the session again.
LEMMA ReadyStep ==
  ASSUME IInv, NEW s \in Requests, Ready(s)
  PROVE  IInv'
<1>1. UNCHANGED <<reg, entry, cancelled, cont>> /\ sw[s].pc = "ready"
  BY DEF Ready, routes
<1>2. /\ DOMAIN sw' = Requests /\ sw'[s].pc \in {"takeBack", "stop", "finish"}
      /\ \A t \in Requests : DOMAIN sw'[t] = SwFields /\ (t # s => sw'[t] = sw[t])
  BY DEF Ready, To, IInv, Typed, SwFields
<1>3. Held'
  BY <1>1, <1>2, HeldKept DEF Holding
<1>4. CASE UNCHANGED proc /\ sw'[s].pc # "finish"
  BY <1>1, <1>2, <1>3, <1>4, Moved DEF SwitchSteps, Closed, IInv, Typed
<1>5. CASE UNCHANGED proc /\ reg = 0
  BY <1>1, <1>2, <1>3, <1>5, Moved DEF SwitchSteps, Closed, IInv, Typed
<1>6. CASE reg # 0 /\ proc' = [proc EXCEPT ![reg].closing = FALSE]
  <2>1. /\ reg \in Procs /\ DOMAIN proc' = Procs
        /\ \A p \in Procs : /\ DOMAIN proc'[p] = ProcFields
                            /\ proc'[p].child = proc[p].child /\ proc'[p].alive = proc[p].alive
                            /\ proc'[p].by = proc[p].by /\ proc'[p].kill = proc[p].kill
                            /\ p # reg => proc'[p] = proc[p]
                            /\ p = reg => proc'[p].closing = FALSE
    BY <1>6, Gated
  <2>2. Typed'
    BY <1>1, <1>2, <2>1 DEF IInv, Typed, SwitchSteps
  <2>3. Alone'
    BY <1>1, <2>1 DEF IInv, Typed, Alone
  <2>4. Fresh'
    <3>1. FreshSwitch'
      BY <1>1, <1>2, <2>1 DEF IInv, Fresh, FreshSwitch
    <3>2. FreshCont'
      BY <1>1, <1>2, <2>1 DEF IInv, Fresh, FreshCont
    <3>3. FreshApart'
      BY <1>1, <1>2, <2>1 DEF IInv, Fresh, FreshApart
    <3>4. RegLives'
      BY <1>1, <1>2, <2>1 DEF IInv, Fresh, RegLives
    <3> QED BY <3>1, <3>2, <3>3, <3>4 DEF Fresh
  <2>5. ClosedIsHeld'
    BY <1>1, <2>1 DEF ClosedIsHeld
  <2> QED BY <1>3, <2>2, <2>3, <2>4, <2>5 DEF IInv
<1> QED
  <2>1. CASE To(s, IF sw[s].when = "now" THEN "takeBack" ELSE "stop") /\ UNCHANGED proc
    <3>1. sw'[s].pc # "finish"
      BY <2>1 DEF To, IInv, Typed, SwFields
    <3> QED BY <1>4, <2>1, <3>1
  <2>2. CASE Reopen
    BY <1>5, <1>6, <2>2 DEF Reopen
  <2> QED BY <2>1, <2>2 DEF Ready

\* The reaper marks an ended process.
LEMMA ReapCloseStep ==
  ASSUME IInv, NEW p \in Procs, ReapClose(p)
  PROVE  IInv'
<1>1. UNCHANGED <<reg, entry, cancelled, sw, cont>>
  BY DEF ReapClose, switching, routes
<1>2. /\ DOMAIN proc' = Procs /\ proc[p].child = "ended" /\ proc'[p].alive = FALSE
      /\ \A q \in Procs : /\ DOMAIN proc'[q] = ProcFields
                          /\ proc'[q].child = proc[q].child /\ proc'[q].by = proc[q].by
                          /\ proc'[q].kill = proc[q].kill /\ proc'[q].closing = proc[q].closing
                          /\ q # p => proc'[q] = proc[q]
  BY DEF ReapClose, IInv, Typed, ProcFields
<1>3. Typed'
  BY <1>1, <1>2 DEF IInv, Typed
<1>4. Alone'
  BY <1>1, <1>2 DEF IInv, Alone
<1>5. Fresh'
  <2>1. FreshSwitch'
    BY <1>1, <1>2 DEF IInv, Fresh, FreshSwitch
  <2>2. FreshCont'
    BY <1>1, <1>2 DEF IInv, Fresh, FreshCont
  <2>3. FreshApart'
    BY <1>1, <1>2 DEF IInv, Fresh, FreshApart
  <2>4. RegLives'
    BY <1>1, <1>2 DEF IInv, Typed, Fresh, RegLives, Procs
  <2> QED BY <2>1, <2>2, <2>3, <2>4 DEF Fresh
<1>6. Held'
  BY <1>1, <1>2 DEF IInv, Held
<1>7. ClosedIsHeld'
  BY <1>1, <1>2 DEF IInv, Typed, ClosedIsHeld, Procs
<1> QED BY <1>3, <1>4, <1>5, <1>6, <1>7 DEF IInv

\* The reaper tells that a process is gone.
LEMMA ReapedStep ==
  ASSUME IInv, NEW p \in Procs, Reaped(p)
  PROVE  IInv'
<1>1. Typed'
  BY DEF IInv, Typed, ProcFields, NoEntry,
         switching, routes, Reaped, NoProc
<1>2. Alone'
  BY DEF IInv, Alone,
         switching, routes, Reaped, NoProc
<1>3. Fresh'
  <2>1. FreshSwitch'
    BY DEF IInv, Fresh, FreshSwitch, switching, Reaped
  <2>2. FreshCont'
    BY DEF IInv, Fresh, FreshCont, routes, Reaped
  <2>3. FreshApart'
    BY DEF IInv, Fresh, FreshApart, routes, Reaped
  <2>4. RegLives'
    BY DEF IInv, Fresh, RegLives, Reaped
  <2> QED BY <2>1, <2>2, <2>3, <2>4 DEF Fresh
<1>4. Held'
  BY DEF IInv, Held,
         switching, routes, Reaped, NoProc
<1>5. ClosedIsHeld'
  BY DEF IInv, ClosedIsHeld,
         switching, routes, Reaped, NoProc
<1> QED BY <1>1, <1>2, <1>3, <1>4, <1>5 DEF IInv

\* A turn begins.
LEMMA StartTurnStep ==
  ASSUME IInv, NEW c \in Calls, StartTurn(c)
  PROVE  IInv'
<1>1. UNCHANGED <<reg, entry, cancelled, cont, sw>>
  BY DEF StartTurn, switching, routes
<1>2. DOMAIN proc' = Procs /\ \A q \in Procs : Same(q)
  BY DEF StartTurn, IInv, Typed, Same, SameButKill
<1> QED BY <1>1, <1>2, Quiet DEF IInv, Typed

\* Claude Code takes a message.
LEMMA TakesInputStep ==
  ASSUME IInv, NEW p \in Procs, TakesInput(p)
  PROVE  IInv'
<1>1. UNCHANGED <<reg, entry, cancelled, cont, sw>>
  BY DEF TakesInput, switching, routes
<1>2. DOMAIN proc' = Procs /\ \A q \in Procs : Same(q)
  BY DEF TakesInput, IInv, Typed, Same, SameButKill
<1> QED BY <1>1, <1>2, Quiet DEF IInv, Typed

\* A turn ends.
LEMMA ResultStep ==
  ASSUME IInv, NEW p \in Procs, Result(p)
  PROVE  IInv'
<1>1. UNCHANGED <<reg, entry, cancelled, cont, sw>>
  BY DEF Result, switching, routes
<1>2. DOMAIN proc' = Procs /\ \A q \in Procs : Same(q)
  BY DEF Result, IInv, Typed, Same, SameButKill
<1> QED BY <1>1, <1>2, Quiet DEF IInv, Typed

\* The registered child ends by itself.
LEMMA ExitsStep ==
  ASSUME IInv, NEW p \in Procs, Exits(p)
  PROVE  IInv'
<1>1. UNCHANGED <<reg, entry, cancelled, sw, cont>>
  BY DEF Exits, switching, routes
<1>2. /\ DOMAIN proc' = Procs /\ proc'[p].child = "ended"
      /\ \A q \in Procs : /\ DOMAIN proc'[q] = ProcFields /\ proc'[q].alive = proc[q].alive
                          /\ proc'[q].by = proc[q].by /\ proc'[q].kill = proc[q].kill
                          /\ proc'[q].closing = proc[q].closing
                          /\ q # p => proc'[q] = proc[q]
  BY DEF Exits, Ends, IInv, Typed
<1>3. \A t \in Requests : sw[t].pc = "register" => sw[t].p # p
  BY DEF Exits, IInv, Fresh, FreshSwitch, RegLives, Procs
<1>4. \A c \in Conts : cont[c].pc = "register" => cont[c].p # p
  BY DEF Exits, IInv, Fresh, FreshCont, RegLives, Procs
<1>5. Typed'
  BY <1>1, <1>2 DEF IInv, Typed
<1>6. Alone'
  BY <1>1, <1>2 DEF IInv, Alone
<1>7. Fresh'
  <2>1. FreshSwitch'
    BY <1>1, <1>2, <1>3, <1>4 DEF IInv, Fresh, FreshSwitch
  <2>2. FreshCont'
    BY <1>1, <1>2, <1>3, <1>4 DEF IInv, Fresh, FreshCont
  <2>3. FreshApart'
    BY <1>1, <1>2, <1>3, <1>4 DEF IInv, Fresh, FreshApart
  <2>4. RegLives'
    BY <1>1, <1>2, <1>3, <1>4 DEF IInv, Typed, Fresh, RegLives, Procs
  <2> QED BY <2>1, <2>2, <2>3, <2>4 DEF Fresh
<1>8. Held'
  BY <1>1, HeldKept
<1>9. ClosedIsHeld'
  BY <1>1, <1>2 DEF IInv, Typed, ClosedIsHeld, Procs
<1> QED BY <1>5, <1>6, <1>7, <1>8, <1>9 DEF IInv

\* A child told to end ends.
LEMMA TerminateStep ==
  ASSUME IInv, NEW p \in Procs, Terminate(p)
  PROVE  IInv'
<1>1. UNCHANGED <<reg, entry, cancelled, sw, cont>>
  BY DEF Terminate, switching, routes
<1>2. /\ DOMAIN proc' = Procs /\ proc'[p].child = "ended"
      /\ \A q \in Procs : /\ DOMAIN proc'[q] = ProcFields /\ proc'[q].alive = proc[q].alive
                          /\ proc'[q].by = proc[q].by /\ proc'[q].kill = proc[q].kill
                          /\ proc'[q].closing = proc[q].closing
                          /\ q # p => proc'[q] = proc[q]
  BY DEF Terminate, Ends, IInv, Typed
<1>3. \A t \in Requests : sw[t].pc = "register" => sw[t].p # p
  BY DEF Terminate, IInv, Fresh, FreshSwitch
<1>4. \A c \in Conts : cont[c].pc = "register" => cont[c].p # p
  BY DEF Terminate, IInv, Fresh, FreshCont
<1>5. Typed'
  BY <1>1, <1>2 DEF IInv, Typed
<1>6. Alone'
  BY <1>1, <1>2 DEF IInv, Alone
<1>7. Fresh'
  <2>1. FreshSwitch'
    BY <1>1, <1>2, <1>3, <1>4 DEF IInv, Fresh, FreshSwitch
  <2>2. FreshCont'
    BY <1>1, <1>2, <1>3, <1>4 DEF IInv, Fresh, FreshCont
  <2>3. FreshApart'
    BY <1>1, <1>2, <1>3, <1>4 DEF IInv, Fresh, FreshApart
  <2>4. RegLives'
    BY <1>1, <1>2, <1>3, <1>4 DEF IInv, Typed, Fresh, RegLives, Procs
  <2> QED BY <2>1, <2>2, <2>3, <2>4 DEF Fresh
<1>8. Held'
  BY <1>1, HeldKept
<1>9. ClosedIsHeld'
  BY <1>1, <1>2 DEF IInv, Typed, ClosedIsHeld, Procs
<1> QED BY <1>5, <1>6, <1>7, <1>8, <1>9 DEF IInv

\* The reaper takes an ended process out of the registry.
LEMMA ReapRemoveStep ==
  ASSUME IInv, NEW p \in Procs, ReapRemove(p)
  PROVE  IInv'
<1>1. UNCHANGED <<proc, entry, cancelled, sw, cont>> /\ reg' = 0
  BY DEF ReapRemove, switching, routes
<1>2. proc[p].child = "ended" /\ reg = p
  BY DEF ReapRemove
<1>3. Typed'
  BY <1>1 DEF IInv, Typed
<1>4. Alone'
  BY <1>1, <1>2 DEF IInv, Alone
<1>5. Fresh'
  BY <1>1 DEF IInv, Fresh, FreshSwitch, FreshCont, FreshApart, RegLives
<1>6. Held'
  BY <1>1, HeldKept
<1>7. ClosedIsHeld'
  BY <1>1 DEF IInv, ClosedIsHeld
<1> QED BY <1>3, <1>4, <1>5, <1>6, <1>7 DEF IInv

\* A continue is let through.
LEMMA ContinueStep ==
  ASSUME IInv, NEW c \in Conts, Continue(c)
  PROVE  IInv'
<1>1. UNCHANGED <<proc, reg, entry, cancelled, sw>>
  BY DEF Continue, switching
<1>2. /\ DOMAIN cont' = Conts /\ cont'[c].pc = "launch"
      /\ \A d \in Conts : DOMAIN cont'[d] = {"pc", "acct", "p"} /\ (d # c => cont'[d] = cont[d])
  BY DEF Continue, IInv, Typed
<1>3. Typed'
  BY <1>1, <1>2 DEF IInv, Typed
<1>4. Alone'
  BY <1>1 DEF IInv, Alone
<1>5. Fresh'
  BY <1>1, <1>2 DEF IInv, Fresh, FreshSwitch, FreshCont, FreshApart, RegLives
<1>6. Held'
  BY <1>1, HeldKept
<1>7. ClosedIsHeld'
  BY <1>1 DEF IInv, ClosedIsHeld
<1> QED BY <1>3, <1>4, <1>5, <1>6, <1>7 DEF IInv

\* A waiting switch claims the session, unless it was told to give up.
LEMMA ClaimStep ==
  ASSUME IInv, NEW s \in Requests, Claim(s)
  PROVE  IInv'
<1>1. UNCHANGED <<proc, reg, cont, cancelled>> /\ sw[s].pc = "claim"
  BY DEF Claim, routes
<1>2. /\ DOMAIN sw' = Requests
      /\ sw'[s].pc = IF IsCurrent(s) THEN "reclose" ELSE "done"
      /\ \A t \in Requests : DOMAIN sw'[t] = SwFields /\ (t # s => sw'[t] = sw[t])
  BY DEF Claim, To, IInv, Typed
<1>3. entry' = IF IsCurrent(s) THEN [entry EXCEPT !.phase = "underway"] ELSE entry
  BY DEF Claim, SetPhase
<1>4. entry' \in [seq : 0..MaxSwitches, phase : {"none", "waiting", "underway"}]
  BY <1>3 DEF IInv, Typed
<1>5. CASE IsCurrent(s)
  <2>1. entry'.seq = s /\ entry'.phase = "underway" /\ entry.seq = s /\ sw'[s].pc = "reclose"
    BY <1>2, <1>3, <1>5 DEF IsCurrent, IInv, Typed
  <2>2. Held'
    BY <1>1, <1>2, <2>1 DEF IInv, Typed, Held, Requests
  <2> QED BY <1>1, <1>2, <1>4, <2>1, <2>2, Moved DEF SwitchSteps, Closed, IInv, Typed
<1>6. CASE ~IsCurrent(s)
  <2>1. UNCHANGED entry /\ sw'[s].pc = "done"
    BY <1>2, <1>3, <1>6
  <2>2. Held'
    BY <1>1, <1>2, <2>1, HeldKept DEF Holding
  <2> QED BY <1>1, <1>2, <1>4, <2>1, <2>2, Moved DEF SwitchSteps, Closed, IInv, Typed
<1> QED BY <1>5, <1>6

\* A switch leaves the registry, if it is still the one there.
LEMMA FinishStep ==
  ASSUME IInv, NEW s \in Requests, Finish(s)
  PROVE  IInv'
<1>1. UNCHANGED <<proc, reg, cont, cancelled>> /\ sw[s].pc = "finish"
  BY DEF Finish, routes
<1>2. /\ DOMAIN sw' = Requests /\ sw'[s].pc = "done"
      /\ \A t \in Requests : DOMAIN sw'[t] = SwFields /\ (t # s => sw'[t] = sw[t])
  BY DEF Finish, Asleep, IInv, Typed, SwFields
<1>3. entry' = IF entry.seq = s THEN NoEntry ELSE entry
  BY DEF Finish
<1>4. entry' \in [seq : 0..MaxSwitches, phase : {"none", "waiting", "underway"}]
  BY <1>3 DEF NoEntry, IInv, Typed
<1>5. Held'
  BY <1>1, <1>2, <1>3 DEF IInv, Typed, Held, Holding, NoEntry, Requests
<1> QED BY <1>1, <1>2, <1>4, <1>5, Moved DEF SwitchSteps, Closed, IInv, Typed

\* The turn was interrupted.
LEMMA InterruptStep ==
  ASSUME IInv, NEW s \in Requests, Interrupt(s)
  PROVE  IInv'
<1>1. UNCHANGED <<proc, reg, cont, entry, cancelled>> /\ sw[s].pc = "interrupt"
  BY DEF Interrupt, routes
<1>2. /\ DOMAIN sw' = Requests /\ sw'[s].pc \in {"stop"}
      /\ \A t \in Requests : DOMAIN sw'[t] = SwFields /\ (t # s => sw'[t] = sw[t])
  BY DEF Interrupt, To, IInv, Typed
<1>3. Held'
  BY <1>1, <1>2, HeldKept DEF Holding
<1> QED BY <1>1, <1>2, <1>3, Moved DEF SwitchSteps, Closed, IInv, Typed

\* The stopped process is gone, or the wait is over.
LEMMA StoppedStep ==
  ASSUME IInv, NEW s \in Requests, Stopped(s)
  PROVE  IInv'
<1>1. UNCHANGED <<proc, reg, cont, entry, cancelled>> /\ sw[s].pc = "stopping"
  BY DEF Stopped, routes
<1>2. /\ DOMAIN sw' = Requests /\ sw'[s].pc \in {"move", "finish"}
      /\ \A t \in Requests : DOMAIN sw'[t] = SwFields /\ (t # s => sw'[t] = sw[t])
  BY DEF Stopped, To, IInv, Typed, SwFields
<1>3. Held'
  BY <1>1, <1>2, HeldKept DEF Holding
<1> QED BY <1>1, <1>2, <1>3, Moved DEF SwitchSteps, Closed, IInv, Typed

\* The conversation moved, or stays.
LEMMA MoveStep ==
  ASSUME IInv, NEW s \in Requests, Move(s)
  PROVE  IInv'
<1>1. UNCHANGED <<proc, reg, cont, entry, cancelled>> /\ sw[s].pc = "move"
  BY DEF Move, routes
<1>2. /\ DOMAIN sw' = Requests /\ sw'[s].pc \in {"launch"}
      /\ \A t \in Requests : DOMAIN sw'[t] = SwFields /\ (t # s => sw'[t] = sw[t])
  BY DEF Move, IInv, Typed, SwFields
<1>3. Held'
  BY <1>1, <1>2, HeldKept DEF Holding
<1> QED BY <1>1, <1>2, <1>3, Moved DEF SwitchSteps, Closed, IInv, Typed

\* The conversation is put back, or cannot be.
LEMMA UndoStep ==
  ASSUME IInv, NEW s \in Requests, Undo(s)
  PROVE  IInv'
<1>1. UNCHANGED <<proc, reg, cont, entry, cancelled>> /\ sw[s].pc = "undo"
  BY DEF Undo, routes
<1>2. /\ DOMAIN sw' = Requests /\ sw'[s].pc \in {"launch", "finish"}
      /\ \A t \in Requests : DOMAIN sw'[t] = SwFields /\ (t # s => sw'[t] = sw[t])
  BY DEF Undo, To, IInv, Typed, SwFields
<1>3. Held'
  BY <1>1, <1>2, HeldKept DEF Holding
<1> QED BY <1>1, <1>2, <1>3, Moved DEF SwitchSteps, Closed, IInv, Typed

\* A held message was handed on.
LEMMA HandedStep ==
  ASSUME IInv, NEW s \in Requests, Handed(s)
  PROVE  IInv'
<1>1. UNCHANGED <<proc, reg, entry, cancelled, cont>> /\ sw[s].pc = "handing"
  BY DEF Handed, routes
<1>2. DOMAIN sw' = Requests
      /\ \A t \in Requests : /\ DOMAIN sw'[t] = SwFields /\ sw'[t].p = sw[t].p
                             /\ \/ sw'[t].pc = sw[t].pc
                                \/ sw[t].pc = "handing" /\ sw'[t].pc = "hand"
  BY DEF Handed, IInv, Typed, SwFields
<1>3. \A p \in Procs : Same(p)
  BY <1>1 DEF IInv, Typed, Same, SameButKill
<1> QED BY <1>1, <1>2, <1>3, Quiet DEF IInv, Typed

\* The invariant holds at the start.
LEMMA InitInv ==
  ASSUME Init
  PROVE  IInv
<1>1. 1 \in Procs => proc[1] = [NoProc EXCEPT !.child = "up", !.alive = TRUE]
  BY DEF Init
<1>2. DOMAIN proc = Procs /\ \A p \in Procs : p # 1 => proc[p] = NoProc
  BY DEF Init
<1>3. reg = 1 /\ entry = NoEntry /\ cancelled = {}
  BY DEF Init
<1>4. DOMAIN sw = Requests /\ \A s \in Requests : sw[s] = Asleep
  BY DEF Init
<1>5. DOMAIN cont = Conts /\ \A c \in Conts : cont[c] = [pc |-> "idle", acct |-> "A", p |-> 0]
  BY DEF Init, Unasked
<1>6. 1 \in Procs /\ MaxProcs \in Nat /\ 1 \in 0..MaxProcs
  BY DEF Procs
<1>7. /\ DOMAIN proc[1] = ProcFields /\ proc[1].child = "up" /\ proc[1].alive = TRUE
      /\ proc[1].kill = FALSE /\ proc[1].closing = FALSE
  BY <1>1, <1>6 DEF NoProc, ProcFields
<1>8. \A p \in Procs : p # 1 => /\ DOMAIN proc[p] = ProcFields /\ proc[p].child = "none"
                                /\ proc[p].alive = FALSE /\ proc[p].kill = FALSE
                                /\ proc[p].closing = FALSE
  BY <1>2 DEF NoProc, ProcFields
<1>9. \A s \in Requests : DOMAIN sw[s] = SwFields /\ sw[s].pc = "idle"
  BY <1>4 DEF Asleep, SwFields
<1>10. Typed
  <2>1. \A p \in Procs : DOMAIN proc[p] = ProcFields /\ proc[p].alive \in BOOLEAN
                        /\ proc[p].kill \in BOOLEAN /\ proc[p].closing \in BOOLEAN
    BY <1>7, <1>8
  <2>2. entry \in [seq : 0..MaxSwitches, phase : {"none", "waiting", "underway"}]
    BY <1>3 DEF NoEntry
  <2>3. \A c \in Conts : DOMAIN cont[c] = {"pc", "acct", "p"}
    BY <1>5
  <2> QED BY <1>2, <1>3, <1>4, <1>5, <1>6, <1>9, <2>1, <2>2, <2>3 DEF Typed, SwitchSteps
<1>11. Alone
  BY <1>3, <1>7, <1>8 DEF Alone
<1>12. Fresh
  BY <1>3, <1>5, <1>7, <1>9 DEF Fresh, FreshSwitch, FreshCont, FreshApart, RegLives
<1>13. Held
  BY <1>3, <1>9 DEF Held, NoEntry, Holding
<1>14. ClosedIsHeld
  BY <1>3, <1>7 DEF ClosedIsHeld
<1> QED BY <1>10, <1>11, <1>12, <1>13, <1>14 DEF IInv

\* Nothing of what the invariant speaks of changes.
LEMMA StutterStep ==
  ASSUME IInv, UNCHANGED vars
  PROVE  IInv'
<1>1. UNCHANGED <<proc, reg, entry, cancelled, sw, cont>>
  BY DEF vars, switching, routes
<1>2. Typed'
  BY <1>1 DEF IInv, Typed
<1>3. Alone'
  BY <1>1 DEF IInv, Alone
<1>4. Fresh'
  BY <1>1 DEF IInv, Fresh, FreshSwitch, FreshCont, FreshApart, RegLives
<1>5. Held'
  BY <1>1 DEF IInv, Held
<1>6. ClosedIsHeld'
  BY <1>1 DEF IInv, ClosedIsHeld
<1> QED BY <1>2, <1>3, <1>4, <1>5, <1>6 DEF IInv

\* Every step keeps the invariant.
LEMMA NextStep ==
  ASSUME IInv, [Next]_vars
  PROVE  IInv'
<1>1. ASSUME NEW m \in Messages, Send(m) PROVE IInv'
  BY <1>1, SendStep
<1>2. ASSUME NEW c \in Calls, CallStep(c) PROVE IInv'
  BY <1>2, WriteLineStep, StartTurnStep DEF CallStep
<1>3. ASSUME NEW p \in Procs, TakesInput(p) \/ Result(p) \/ Exits(p) PROVE IInv'
  BY <1>3, TakesInputStep, ResultStep, ExitsStep
<1>4. ASSUME NEW p \in Procs, Reaper(p) PROVE IInv'
  BY <1>4, TerminateStep, ReapCloseStep, ReapRemoveStep, ReapedStep DEF Reaper
<1>5. ASSUME NEW s \in Requests, SwitchStep(s) PROVE IInv'
  BY <1>5, CloseStep, WaitStep, ClaimStep, FinishStep, ReadyStep, TakeBackStep, SettleStep,
     InterruptStep, StopStep, StoppedStep, MoveStep, LaunchStep, RegisterStep, UndoStep,
     HandStep, HandedStep DEF SwitchStep
<1>6. ASSUME NEW s \in Requests, NEW to \in Accounts, NEW when \in {"now", "idle"},
             Ask(s, to, when)
      PROVE IInv'
  BY <1>6, AskStep
<1>7. CASE CancelWaiting \/ StopRoute \/ StopKill
  BY <1>7, CancelWaitingStep, StopRouteStep, StopKillStep
<1>8. ASSUME NEW c \in Conts, Continue(c) \/ ContinueLaunch(c) \/ ContinueRegister(c)
      PROVE IInv'
  BY <1>8, ContinueStep, ContinueLaunchStep, ContinueRegisterStep
<1>9. CASE UNCHANGED vars
  BY <1>9, StutterStep
<1> QED BY <1>1, <1>2, <1>3, <1>4, <1>5, <1>6, <1>7, <1>8, <1>9 DEF Next

\* In every state of every run: how the processes, the registry and the
\* switches stand to each other (control.rs, owned.rs, switch.rs).
THEOREM Invariance == Spec => []IInv
<1>1. Init => IInv
  BY InitInv
<1>2. IInv /\ [Next]_vars => IInv'
  BY NextStep
<1> QED BY <1>1, <1>2, PTL DEF Spec

\* At most one registered child runs, whatever a switch, a stop, an exit
\* and a continue do at the same time.
THEOREM OneWriterCorrect == Spec => []OneWriter
<1>1. IInv => OneWriter
  <2> SUFFICES ASSUME IInv PROVE OneWriter
    OBVIOUS
  <2> DEFINE W == {p \in Procs : proc[p].alive /\ proc[p].child = "up"}
  <2>1. W \subseteq {reg}
    BY DEF IInv, Alone
  <2>2. IsFiniteSet({reg}) /\ Cardinality({reg}) = 1
    BY FS_Singleton
  <2>3. Cardinality(W) <= 1
    BY <2>1, <2>2, FS_Subset
  <2> QED BY <2>3 DEF OneWriter
<1> QED BY <1>1, Invariance, PTL

\* A switch told to give up (cancel_waiting, switch.rs) is never among those that close,
\* stop or start anything (switch.rs).
THEOREM CancelledStaysCorrect == Spec => []CancelledStays
<1>1. IInv => CancelledStays
  <2> SUFFICES ASSUME IInv, NEW s \in cancelled
               PROVE  sw[s].pc \in {"wait", "claim", "finish", "done"}
    BY DEF CancelledStays
  <2>1. s \in Requests /\ sw[s].pc \in SwitchSteps /\ sw[s].pc # "idle"
    BY DEF IInv, Typed, Held
  <2>2. sw[s].pc \notin Holding
    <3>1. entry.seq = s => s = 0
      BY DEF IInv, Held
    <3> QED BY <2>1, <3>1 DEF IInv, Held, Requests
  <2> QED BY <2>1, <2>2 DEF SwitchSteps, Holding
<1> QED BY <1>1, Invariance, PTL

\* A session that refuses messages is being switched or its process is being
\* ended: a switch that is refused after it closed the session opens it again
\* (close_for_switch and reopen, control.rs).
THEOREM ReopenedOrGoneCorrect == Spec => []ReopenedOrGone
<1>1. IInv => ReopenedOrGone
  <2> SUFFICES ASSUME IInv, reg # 0, proc[reg].closing, ~proc[reg].kill
               PROVE  Underway
    BY DEF ReopenedOrGone
  <2>1. PICK s \in Requests : sw[s].pc \in Closed
    BY DEF IInv, ClosedIsHeld
  <2>2. sw[s].pc \in Holding
    BY <2>1 DEF Closed, Holding
  <2> QED BY <2>2 DEF IInv, Held, Underway
<1> QED BY <1>1, Invariance, PTL

----------------------------------------------------------------------------
(* Where a message is.                                                     *)

In(m, q) == \E k \in DOMAIN q : q[k] = m
Distinct(q) == \A j, k \in DOMAIN q : q[j] = q[k] => j = k

\* What a switch took back and has still to hand on; while it hands one on,
\* that one is with the call.
Keeps(s) == IF sw[s].pc = "handing" THEN Tail(sw[s].held) ELSE sw[s].held
Holds(s, m) == In(m, Keeps(s)) \/ (sw[s].pc = "settle" /\ m = Head(sw[s].snap))

\* A message is with its sender, with a call of a switch, in the input of a
\* process, held by a switch, or in the conversation.
At(m, x) ==
    \/ x = <<"user", 0>> /\ calls[<<m, "user">>].pc \in {"idle", "recorded"}
    \/ x = <<"hand", 0>> /\ calls[<<m, "switch">>].pc = "recorded"
    \/ x = <<"given", 0>> /\ m \in given
    \/ \E p \in Procs : x = <<"in", p>> /\ In(m, proc[p].input)
    \/ \E s \in Requests : x = <<"held", s>> /\ Holds(s, m)

OncePlaced(m) == \A x, y : At(m, x) /\ At(m, y) => x = y

InputInv == \A p \in Procs : proc[p].input \in Seq(Messages) /\ Distinct(proc[p].input)

HeldRight(s) ==
    /\ sw[s].held \in Seq(Messages) /\ Distinct(sw[s].held)
    /\ sw[s].pc = "settle" => Head(sw[s].snap) \in Messages /\ ~In(Head(sw[s].snap), sw[s].held)
    /\ sw[s].pc = "handing" => sw[s].held # <<>>
HeldInv == \A s \in Requests : HeldRight(s)

CallFields == {"pc", "p"}
CallInv == DOMAIN calls = Calls /\ \A c \in Calls : DOMAIN calls[c] = CallFields

PlaceInv == InputInv /\ HeldInv /\ CallInv /\ \A m \in Messages : OncePlaced(m)

\* Sequences of messages.
LEMMA AppendIn ==
  ASSUME NEW q \in Seq(Messages), NEW m \in Messages
  PROVE  /\ Append(q, m) \in Seq(Messages)
         /\ \A x : In(x, Append(q, m)) => In(x, q) \/ x = m
         /\ Distinct(q) /\ ~In(m, q) => Distinct(Append(q, m))
<1> DEFINE t == Append(q, m)
<1>1. /\ t \in Seq(Messages) /\ DOMAIN q = 1..Len(q) /\ DOMAIN t = 1..(Len(q) + 1)
      /\ Len(q) \in Nat /\ t[Len(q) + 1] = m /\ \A k \in 1..Len(q) : t[k] = q[k]
  OBVIOUS
<1> HIDE DEF t
<1>2. \A k \in DOMAIN t : k = Len(q) + 1 \/ k \in DOMAIN q
  BY <1>1
<1> QED BY <1>1, <1>2 DEF In, Distinct, t

\* The head of a sequence leaves it.
LEMMA TailIn ==
  ASSUME NEW q \in Seq(Messages), q # <<>>
  PROVE  /\ Tail(q) \in Seq(Messages) /\ Head(q) \in Messages /\ In(Head(q), q)
         /\ \A x : In(x, Tail(q)) => In(x, q)
         /\ Distinct(q) => Distinct(Tail(q)) /\ ~In(Head(q), Tail(q))
<1> DEFINE t == Tail(q)
<1>1. /\ t \in Seq(Messages) /\ DOMAIN q = 1..Len(q) /\ DOMAIN t = 1..(Len(q) - 1)
      /\ Len(q) \in Nat /\ 1 \in DOMAIN q /\ Head(q) = q[1] /\ Head(q) \in Messages
      /\ \A k \in 1..(Len(q) - 1) : t[k] = q[k + 1]
  OBVIOUS
<1> HIDE DEF t
<1>2. \A k \in DOMAIN t : k + 1 \in DOMAIN q /\ k + 1 # 1 /\ t[k] = q[k + 1]
  BY <1>1
<1>3. In(Head(q), q) /\ \A x : In(x, t) => In(x, q)
  BY <1>1, <1>2 DEF In
<1>4. ASSUME Distinct(q) PROVE Distinct(t) /\ ~In(Head(q), t)
  <2>1. \A j, k \in DOMAIN t : j + 1 = k + 1 => j = k
    BY <1>1
  <2>2. Distinct(t)
    BY <1>2, <1>4, <2>1 DEF Distinct
  <2>3. ~In(Head(q), t)
    BY <1>1, <1>2, <1>4 DEF Distinct, In
  <2> QED BY <2>2, <2>3
<1> QED BY <1>1, <1>3, <1>4 DEF t

\* Two sequences joined.
LEMMA JoinIn ==
  ASSUME NEW a \in Seq(Messages), NEW b \in Seq(Messages)
  PROVE  /\ a \o b \in Seq(Messages) /\ DOMAIN (a \o b) = 1..(Len(a) + Len(b))
         /\ \A j \in 1..(Len(a) + Len(b)) : (a \o b)[j] = IF j <= Len(a) THEN a[j] ELSE b[j - Len(a)]
<1>1. a \o b \in Seq(Messages) /\ Len(a \o b) = Len(a) + Len(b)
  OBVIOUS
<1>2. ASSUME NEW j \in 1..(Len(a) + Len(b))
      PROVE  (a \o b)[j] = IF j <= Len(a) THEN a[j] ELSE b[j - Len(a)]
  OBVIOUS
<1> QED BY <1>1, <1>2

\* The message Claude Code gives back leaves its input, and no other does.
LEMMA GivenBackIn ==
  ASSUME NEW q \in Seq(Messages), Distinct(q), NEW m, In(m, q)
  PROVE  /\ GivenBack(q, m) \in Seq(Messages) /\ Distinct(GivenBack(q, m))
         /\ \A x : In(x, GivenBack(q, m)) => In(x, q) /\ x # m
<1>1. PICK k \in DOMAIN q : q[k] = m /\ GivenBack(q, m) = RemoveAt(q, k)
  <2> DEFINE c == CHOOSE j \in DOMAIN q : q[j] = m
  <2>1. c \in DOMAIN q /\ q[c] = m
    BY DEF In
  <2>2. GivenBack(q, m) = RemoveAt(q, c)
    BY DEF GivenBack
  <2> HIDE DEF c
  <2> QED BY <2>1, <2>2
<1> DEFINE N == Len(q)
           a == SubSeq(q, 1, k - 1)
           b == SubSeq(q, k + 1, N)
           t == a \o b
           Was(j) == IF j < k THEN j ELSE j + 1
<1>2. N \in Nat /\ k \in 1..N /\ DOMAIN q = 1..N /\ k \in Nat /\ \A j \in 1..N : q[j] \in Messages
  OBVIOUS
<1>3. a \in Seq(Messages) /\ Len(a) = k - 1 /\ \A j \in 1..(k - 1) : a[j] = q[j]
  <2>1. a = [j \in 1..(k - 1) |-> q[j]]
    BY <1>2
  <2>2. k - 1 \in Nat /\ \A j \in 1..(k - 1) : q[j] \in Messages
    BY <1>2
  <2> HIDE DEF a, N
  <2> QED BY <2>1, <2>2
<1>4. b \in Seq(Messages) /\ Len(b) = N - k /\ \A j \in 1..(N - k) : b[j] = q[k + j]
  <2>1. b = [j \in 1..(N - k) |-> q[k + j]]
    BY <1>2
  <2>2. N - k \in Nat /\ \A j \in 1..(N - k) : q[k + j] \in Messages
    BY <1>2
  <2> HIDE DEF b, N
  <2> QED BY <2>1, <2>2
<1> HIDE DEF N, a, b
<1>5. /\ t \in Seq(Messages) /\ DOMAIN t = 1..(N - 1)
      /\ \A j \in 1..(N - 1) : t[j] = IF j <= k - 1 THEN a[j] ELSE b[j - (k - 1)]
  <2>1. /\ t \in Seq(Messages) /\ DOMAIN t = 1..(Len(a) + Len(b))
        /\ \A j \in 1..(Len(a) + Len(b)) : t[j] = IF j <= Len(a) THEN a[j] ELSE b[j - Len(a)]
    BY <1>3, <1>4, JoinIn
  <2>2. Len(a) + Len(b) = N - 1
    BY <1>2, <1>3, <1>4
  <2> HIDE DEF t
  <2> QED BY <1>3, <2>1, <2>2
<1> HIDE DEF t
<1>6. ASSUME NEW j \in DOMAIN t PROVE Was(j) \in DOMAIN q /\ Was(j) # k /\ t[j] = q[Was(j)]
  <2>1. CASE j < k
    BY <1>2, <1>3, <1>5, <2>1
  <2>2. CASE ~(j < k)
    <3>1. j - (k - 1) \in 1..(N - k) /\ k + (j - (k - 1)) = j + 1 /\ ~(j <= k - 1) /\ j + 1 \in 1..N
      BY <1>2, <1>5, <2>2
    <3>2. t[j] = q[j + 1]
      BY <1>4, <1>5, <3>1
    <3> QED BY <1>2, <1>5, <2>2, <3>1, <3>2
  <2> QED BY <2>1, <2>2
<1>7. \A i, j \in DOMAIN t : Was(i) = Was(j) => i = j
  BY <1>2, <1>5
<1> HIDE DEF Was
<1>8. Distinct(t)
  BY <1>6, <1>7 DEF Distinct
<1>9. \A x : In(x, t) => In(x, q) /\ x # m
  BY <1>1, <1>6 DEF Distinct, In
<1> QED BY <1>1, <1>5, <1>8, <1>9 DEF RemoveAt, t, a, b, N

\* A message that stays where it is, or goes nowhere.
LEMMA PlaceKept ==
  ASSUME NEW m, OncePlaced(m), \A x : At(m, x)' => At(m, x)
  PROVE  OncePlaced(m)'
BY DEF OncePlaced

\* A message that goes from a to b.
LEMMA PlaceMoves ==
  ASSUME NEW m, OncePlaced(m), NEW a, NEW b, At(m, a),
         \A x : At(m, x)' => x = b \/ (At(m, x) /\ x # a)
  PROVE  OncePlaced(m)'
BY DEF OncePlaced

\* What the calls do, if no call of a switch begins.
CallsRest(m) ==
    /\ calls'[<<m, "user">>].pc \in {"idle", "recorded"} => calls[<<m, "user">>].pc \in {"idle", "recorded"}
    /\ calls'[<<m, "switch">>].pc = "recorded" => calls[<<m, "switch">>].pc = "recorded"

\* A switch that comes to hold nothing it did not.
SwitchRests(s) ==
    \/ sw'[s].held = <<>> /\ sw'[s].pc \notin {"settle", "handing"}
    \/ /\ sw'[s].held = sw[s].held
       /\ \/ sw[s].pc \notin {"settle", "handing"} /\ sw'[s].pc \notin {"settle", "handing"}
          \/ sw'[s].pc = sw[s].pc /\ sw'[s].snap = sw[s].snap

\* An input that gains nothing.
InputRests(p) ==
    \/ proc'[p].input = proc[p].input \/ proc'[p].input = <<>>
    \/ /\ proc'[p].input \in Seq(Messages) /\ Distinct(proc'[p].input)
       /\ \A x : In(x, proc'[p].input) => In(x, proc[p].input)

CallsWell == DOMAIN calls' = Calls /\ \A c \in Calls : DOMAIN calls'[c] = CallFields

\* Such a switch holds no message it did not hold.
LEMMA RestsHold ==
  ASSUME HeldInv, NEW s \in Requests, SwitchRests(s)
  PROVE  HeldRight(s)' /\ \A m : Holds(s, m)' => Holds(s, m)
<1>0. HeldRight(s)
  BY DEF HeldInv
<1>1. CASE sw'[s].held = <<>> /\ sw'[s].pc \notin {"settle", "handing"}
  <2>1. <<>> \in Seq(Messages) /\ Distinct(<<>>) /\ \A m : ~In(m, <<>>)
    BY DEF Distinct, In
  <2> QED BY <1>1, <2>1 DEF HeldRight, Holds, Keeps
<1>2. CASE /\ sw'[s].held = sw[s].held
           /\ sw[s].pc \notin {"settle", "handing"} /\ sw'[s].pc \notin {"settle", "handing"}
  BY <1>0, <1>2 DEF HeldRight, Holds, Keeps
<1>3. CASE sw'[s].held = sw[s].held /\ sw'[s].pc = sw[s].pc /\ sw'[s].snap = sw[s].snap
  BY <1>0, <1>3 DEF HeldRight, Holds, Keeps
<1> QED BY <1>1, <1>2, <1>3 DEF SwitchRests

\* No input gets a message.
LEMMA InputsHold ==
  ASSUME InputInv, \A p \in Procs : InputRests(p)
  PROVE  InputInv' /\ \A p \in Procs : \A m : In(m, proc[p].input)' => In(m, proc[p].input)
<1>1. <<>> \in Seq(Messages) /\ Distinct(<<>>) /\ \A m : ~In(m, <<>>)
  BY DEF Distinct, In
<1>2. ASSUME NEW p \in Procs
      PROVE  /\ proc'[p].input \in Seq(Messages) /\ Distinct(proc'[p].input)
             /\ \A m : In(m, proc'[p].input) => In(m, proc[p].input)
  BY <1>1, <1>2 DEF InputInv, InputRests
<1> QED BY <1>2 DEF InputInv

\* Most steps leave every message where it is, or lose it.
LEMMA StaysPut ==
  ASSUME PlaceInv, CallsWell, \A m \in Messages : CallsRest(m),
         \A p \in Procs : InputRests(p), \A s \in Requests : SwitchRests(s), given' = given
  PROVE  PlaceInv'
<1>1. InputInv' /\ \A p \in Procs : \A m : In(m, proc[p].input)' => In(m, proc[p].input)
  BY InputsHold DEF PlaceInv
<1>2. HeldInv' /\ \A s \in Requests : \A m : Holds(s, m)' => Holds(s, m)
  BY RestsHold DEF PlaceInv, HeldInv
<1>3. ASSUME NEW m \in Messages PROVE OncePlaced(m)'
  <2>1. \A x : At(m, x)' => At(m, x)
    BY <1>1, <1>2 DEF At, CallsRest
  <2> QED BY <2>1, PlaceKept DEF PlaceInv
<1> QED BY <1>1, <1>2, <1>3 DEF PlaceInv, CallInv, CallsWell

\* One message moves, and no other comes anywhere.
LEMMA OneMoves ==
  ASSUME PlaceInv, InputInv', HeldInv', CallInv', NEW m \in Messages, NEW a, NEW b, At(m, a),
         \A y : At(m, y)' => y = b \/ (At(m, y) /\ y # a),
         \A x \in Messages : x # m => \A y : At(x, y)' => At(x, y)
  PROVE  PlaceInv'
<1>1. ASSUME NEW x \in Messages PROVE OncePlaced(x)'
  BY <1>1, PlaceKept, PlaceMoves DEF PlaceInv
<1> QED BY <1>1 DEF PlaceInv

\* A line is written: the message goes from its call to the input (write_user).
LEMMA WriteLinePlaces ==
  ASSUME IInv, PlaceInv, NEW c \in Calls, WriteLine(c)
  PROVE  PlaceInv'
<1> DEFINE p == calls[c].p
<1>1. /\ calls[c].pc = "recorded" /\ sw' = sw /\ given' = given
      /\ DOMAIN calls = Calls /\ DOMAIN calls[c] = CallFields
  BY DEF WriteLine, PlaceInv, CallInv, switching
<1>2. \A s \in Requests : SwitchRests(s)
  BY <1>1 DEF SwitchRests
<1>3. PICK m \in Messages, k \in {"user", "switch"} : c = <<m, k>> /\ c[1] = m
  BY DEF Calls
<1>4. CASE proc[p].child = "up" /\ p \in Procs
  <2>1. proc' = [proc EXCEPT ![p].input = Append(@, m)] /\ calls' = [calls EXCEPT ![c].pc = "written"]
    BY <1>3, <1>4 DEF WriteLine
  <2>2. CallsWell /\ calls'[c].pc = "written" /\ \A d \in Calls : d # c => calls'[d] = calls[d]
    BY <1>1, <2>1 DEF CallsWell, PlaceInv, CallInv, CallFields
  <2>3. proc'[p].input = Append(proc[p].input, m)
        /\ \A q \in Procs : q # p => proc'[q].input = proc[q].input
    BY <1>4, <2>1 DEF IInv, Typed, ProcFields
  <2> DEFINE a == IF k = "user" THEN <<"user", 0>> ELSE <<"hand", 0>>
  <2>4. At(m, a)
    BY <1>1, <1>3 DEF At
  <2>5. ~In(m, proc[p].input)
    <3>1. <<"in", p>> # a
      OBVIOUS
    <3>2. In(m, proc[p].input) => At(m, <<"in", p>>)
      BY <1>4 DEF At
    <3> HIDE DEF a
    <3> QED BY <2>4, <3>1, <3>2 DEF PlaceInv, OncePlaced
  <2>6. /\ proc'[p].input \in Seq(Messages) /\ Distinct(proc'[p].input)
        /\ \A x : In(x, proc'[p].input) => In(x, proc[p].input) \/ x = m
    BY <1>4, <2>3, <2>5, AppendIn DEF PlaceInv, InputInv
  <2>7. InputInv'
    BY <2>3, <2>6 DEF PlaceInv, InputInv
  <2>8. HeldInv' /\ \A s \in Requests : \A x : Holds(s, x)' => Holds(s, x)
    BY <1>2, RestsHold DEF PlaceInv, HeldInv
  <2>9. ASSUME NEW x \in Messages PROVE OncePlaced(x)'
    <3>0. <<x, "user">> \in Calls /\ <<x, "switch">> \in Calls
      BY DEF Calls
    <3>1. CASE x = m
      <4>1. \A y : At(m, y)' => y = <<"in", p>> \/ (At(m, y) /\ y # a)
        <5>1. ASSUME NEW y, At(m, y)' PROVE y = <<"in", p>> \/ (At(m, y) /\ y # a)
          <6>1. CASE y = <<"user", 0>> /\ calls'[<<m, "user">>].pc \in {"idle", "recorded"}
            <7>1. <<m, "user">> # c
              BY <2>2, <6>1
            <7> QED BY <1>3, <2>2, <3>0, <3>1, <6>1, <7>1 DEF At
          <6>2. CASE y = <<"hand", 0>> /\ calls'[<<m, "switch">>].pc = "recorded"
            <7>1. <<m, "switch">> # c
              BY <2>2, <6>2
            <7> QED BY <1>3, <2>2, <3>0, <3>1, <6>2, <7>1 DEF At
          <6>3. CASE y = <<"given", 0>> /\ m \in given'
            BY <1>1, <6>3 DEF At
          <6>4. ASSUME NEW q \in Procs, y = <<"in", q>>, In(m, proc'[q].input)
                PROVE  y = <<"in", p>> \/ (At(m, y) /\ y # a)
            BY <2>3, <6>4 DEF At
          <6>5. ASSUME NEW s \in Requests, y = <<"held", s>>, Holds(s, m)'
                PROVE  At(m, y) /\ y # a
            BY <2>8, <6>5 DEF At
          <6> QED BY <5>1, <6>1, <6>2, <6>3, <6>4, <6>5 DEF At
        <5> QED BY <5>1
      <4> HIDE DEF a
      <4> QED BY <2>4, <3>1, <4>1, PlaceMoves DEF PlaceInv
    <3>2. CASE x # m
      <4>1. \A y : At(x, y)' => At(x, y)
        <5>1. <<x, "user">> # c /\ <<x, "switch">> # c
          BY <1>3, <3>2
        <5>2. \A q \in Procs : In(x, proc'[q].input) => In(x, proc[q].input)
          BY <2>3, <2>6, <3>2
        <5> QED BY <1>1, <2>2, <2>8, <3>0, <5>1, <5>2 DEF At
      <4> QED BY <4>1, PlaceKept DEF PlaceInv
    <3> QED BY <3>1, <3>2
  <2> QED BY <2>2, <2>7, <2>8, <2>9 DEF PlaceInv, CallInv, CallsWell
<1>5. CASE ~(proc[p].child = "up" /\ p \in Procs)
  <2>1. \/ calls' = [calls EXCEPT ![c].pc = "written"]
        \/ calls' = [calls EXCEPT ![c] = Answered]
    BY DEF WriteLine
  <2>2. CallsWell /\ calls'[c].pc \in {"written", "done"} /\ \A d \in Calls : d # c => calls'[d] = calls[d]
    BY <1>1, <2>1 DEF CallsWell, PlaceInv, CallInv, CallFields, Answered
  <2>3. \A q \in Procs : InputRests(q)
    <3>1. CASE proc' = [proc EXCEPT ![p].input = Append(@, c[1])] /\ p \notin Procs
      BY <3>1 DEF InputRests, IInv, Typed
    <3>2. CASE proc' = [proc EXCEPT ![p].queued = Without(@, c[1])]
      BY <3>2 DEF InputRests, IInv, Typed, ProcFields
    <3> QED BY <1>5, <3>1, <3>2 DEF WriteLine
  <2>4. \A x \in Messages : CallsRest(x)
    <3>1. ASSUME NEW x \in Messages PROVE CallsRest(x)
      <4>1. <<x, "user">> \in Calls /\ <<x, "switch">> \in Calls
        BY DEF Calls
      <4> QED BY <2>2, <4>1 DEF CallsRest
    <3> QED BY <3>1
  <2> QED BY <1>1, <1>2, <2>2, <2>3, <2>4, StaysPut
<1> QED BY <1>4, <1>5

\* Being in the input of a process.
LEMMA AtInput ==
  ASSUME NEW m, NEW p \in Procs
  PROVE  /\ At(m, <<"in", p>>) <=> In(m, proc[p].input)
         /\ At(m, <<"in", p>>)' <=> In(m, proc'[p].input)
<1>1. /\ \A r : <<"in", p>> = <<"in", r>> => p = r
      /\ \A r : <<"in", p>> # <<"held", r>>
      /\ <<"in", p>> # <<"user", 0>> /\ <<"in", p>> # <<"hand", 0>> /\ <<"in", p>> # <<"given", 0>>
  OBVIOUS
<1> DEFINE v == <<"in", p>>
<1>2. v = <<"in", p>>
  OBVIOUS
<1> HIDE DEF v
<1>3. At(m, v) <=> In(m, proc[p].input)
  BY <1>1, <1>2 DEF At
<1>4. At(m, v)' <=> In(m, proc'[p].input)
  BY <1>1, <1>2 DEF At
<1> QED BY <1>3, <1>4 DEF v

\* Claude Code begins a message: it goes from the input to the conversation.
LEMMA TakesInputPlaces ==
  ASSUME IInv, PlaceInv, NEW p \in Procs, TakesInput(p)
  PROVE  PlaceInv' /\ Head(proc[p].input) \notin given
<1>1. /\ proc[p].input # <<>> /\ sw' = sw /\ calls' = calls
      /\ given' = given \cup {Head(proc[p].input)}
      /\ proc' = [proc EXCEPT ![p].cur = Head(proc[p].input), ![p].input = Tail(@),
                              ![p].queued = Without(@, Head(proc[p].input))]
  BY DEF TakesInput, switching
<1>2. proc[p].input \in Seq(Messages) /\ Distinct(proc[p].input)
  BY DEF PlaceInv, InputInv
<1>3. PICK m \in Messages : m = Head(proc[p].input)
  BY <1>1, <1>2, TailIn
<1> DEFINE q == Tail(proc[p].input)
<1>4. /\ q \in Seq(Messages) /\ Distinct(q) /\ In(m, proc[p].input) /\ ~In(m, q)
      /\ \A x : In(x, q) => In(x, proc[p].input)
  BY <1>1, <1>2, <1>3, TailIn
<1>5. proc'[p].input = q /\ \A r \in Procs : r # p => proc'[r].input = proc[r].input
  BY <1>1 DEF IInv, Typed, ProcFields
<1> HIDE DEF q
<1>6. At(m, <<"in", p>>) /\ ~(At(m, <<"in", p>>)')
  BY <1>4, <1>5, AtInput
<1>7. m \notin given
  <2>1. m \in given => At(m, <<"given", 0>>)
    BY DEF At
  <2>2. <<"given", 0>> # <<"in", p>>
    OBVIOUS
  <2> QED BY <1>6, <2>1, <2>2 DEF PlaceInv, OncePlaced
<1>8. HeldInv' /\ \A s \in Requests : \A x : Holds(s, x)' => Holds(s, x)
  <2>1. \A s \in Requests : SwitchRests(s)
    BY <1>1 DEF SwitchRests
  <2> QED BY <2>1, RestsHold DEF PlaceInv, HeldInv
<1>9. \A r \in Procs : \A x : In(x, proc'[r].input) => In(x, proc[r].input)
  BY <1>4, <1>5
<1>10. InputInv' /\ CallInv'
  BY <1>1, <1>4, <1>5 DEF PlaceInv, InputInv, CallInv
<1>11. ASSUME NEW x, NEW y, At(x, y)' PROVE (y = <<"given", 0>> /\ x = m) \/ At(x, y)
  BY <1>1, <1>3, <1>8, <1>9, <1>11 DEF At
<1> DEFINE a == <<"in", p>>
           b == <<"given", 0>>
<1>12. At(m, a) /\ \A y : At(m, y)' => y = b \/ (At(m, y) /\ y # a)
  BY <1>6, <1>11
<1>13. \A x \in Messages : x # m => \A y : At(x, y)' => At(x, y)
  BY <1>11
<1> HIDE DEF a, b
<1>14. PlaceInv'
  BY <1>8, <1>10, <1>12, <1>13, OneMoves
<1> QED BY <1>3, <1>7, <1>14

\* A switch takes a message back from the input: it holds it now (cancel_queued).
LEMMA TakeBackPlaces ==
  ASSUME IInv, PlaceInv, NEW s \in Requests, TakeBack(s)
  PROVE  PlaceInv'
<1>1. /\ calls' = calls /\ given' = given /\ sw[s].pc = "takeBack"
      /\ DOMAIN sw = Requests /\ DOMAIN sw[s] = SwFields /\ DOMAIN proc = Procs
  BY DEF TakeBack, IInv, Typed
<1>2. CASE proc' = proc /\ (\/ sw' = [sw EXCEPT ![s].pc = "interrupt"]
                            \/ sw' = [sw EXCEPT ![s].snap = Tail(@)])
  <2>1. \A t \in Requests : SwitchRests(t)
    BY <1>1, <1>2 DEF SwitchRests, SwFields
  <2>2. CallsWell /\ \A x \in Messages : CallsRest(x)
    BY <1>1 DEF CallsWell, CallsRest, PlaceInv, CallInv
  <2>3. \A p \in Procs : InputRests(p)
    BY <1>2 DEF InputRests
  <2> QED BY <1>1, <2>1, <2>2, <2>3, StaysPut
<1>3. CASE /\ reg # 0 /\ Contains(proc[reg].input, Head(sw[s].snap))
           /\ proc' = [proc EXCEPT ![reg].input = GivenBack(@, Head(sw[s].snap))]
           /\ sw' = [sw EXCEPT ![s].snap = Tail(@)]
  <2>1. \A t \in Requests : SwitchRests(t)
    BY <1>1, <1>3 DEF SwitchRests, SwFields
  <2>2. CallsWell /\ \A x \in Messages : CallsRest(x)
    BY <1>1 DEF CallsWell, CallsRest, PlaceInv, CallInv
  <2>3. PICK p \in Procs : p = reg
    BY <1>3 DEF IInv, Typed, Procs
  <2> DEFINE m == Head(sw[s].snap)
             g == GivenBack(proc[p].input, m)
  <2>4. proc[p].input \in Seq(Messages) /\ Distinct(proc[p].input)
    BY DEF PlaceInv, InputInv
  <2>5. In(m, proc[p].input)
    BY <1>3, <2>3, <2>4 DEF Contains, In
  <2> HIDE DEF m
  <2>6. g \in Seq(Messages) /\ Distinct(g) /\ \A x : In(x, g) => In(x, proc[p].input) /\ x # m
    BY <2>4, <2>5, GivenBackIn
  <2>7. proc'[p].input = g /\ \A r \in Procs : r # p => proc'[r].input = proc[r].input
    BY <1>1, <1>3, <2>3 DEF IInv, Typed, ProcFields, m
  <2> HIDE DEF g
  <2>8. \A r \in Procs : InputRests(r)
    BY <2>6, <2>7 DEF InputRests
  <2> QED BY <1>1, <2>1, <2>2, <2>8, StaysPut
<1>4. CASE /\ reg # 0 /\ Contains(proc[reg].input, Head(sw[s].snap))
           /\ proc' = [proc EXCEPT ![reg].input = GivenBack(@, Head(sw[s].snap))]
           /\ sw' = [sw EXCEPT ![s].pc = "settle"]
  <2>1. PICK p \in Procs : p = reg
    BY <1>4 DEF IInv, Typed, Procs
  <2>2. proc[p].input \in Seq(Messages) /\ Distinct(proc[p].input)
    BY DEF PlaceInv, InputInv
  <2>3. PICK k \in DOMAIN proc[p].input : proc[p].input[k] = Head(sw[s].snap)
    <3>1. \E k \in 1..Len(proc[p].input) : proc[p].input[k] = Head(sw[s].snap)
      BY <1>4, <2>1 DEF Contains
    <3>2. DOMAIN proc[p].input = 1..Len(proc[p].input)
      BY <2>2
    <3> QED BY <3>1, <3>2
  <2>4. PICK m \in Messages : m = Head(sw[s].snap) /\ In(m, proc[p].input)
    <3>1. proc[p].input[k] \in Messages
      BY <2>2
    <3> QED BY <2>3, <3>1 DEF In
  <2> DEFINE g == GivenBack(proc[p].input, m)
  <2>5. g \in Seq(Messages) /\ Distinct(g) /\ \A x : In(x, g) => In(x, proc[p].input) /\ x # m
    BY <2>2, <2>4, GivenBackIn
  <2>6. proc'[p].input = g /\ \A r \in Procs : r # p => proc'[r].input = proc[r].input
    BY <1>1, <1>4, <2>1, <2>4 DEF IInv, Typed, ProcFields
  <2> HIDE DEF g
  <2>7. InputInv' /\ CallInv'
    BY <1>1, <2>5, <2>6 DEF PlaceInv, InputInv, CallInv
  <2>8. \A r \in Procs : \A x : In(x, proc'[r].input) => In(x, proc[r].input)
    BY <2>5, <2>6
  <2> DEFINE a == <<"in", p>>
             b == <<"held", s>>
  <2>9. At(m, a) /\ ~(At(m, a)')
    BY <2>4, <2>5, <2>6, AtInput
  <2>10. ~In(m, sw[s].held)
    <3>1. In(m, sw[s].held) => At(m, b)
      BY <1>1 DEF At, Holds, Keeps
    <3>2. a # b
      OBVIOUS
    <3> HIDE DEF a, b
    <3> QED BY <2>9, <3>1, <3>2 DEF PlaceInv, OncePlaced
  <2>11. /\ sw'[s].pc = "settle" /\ sw'[s].held = sw[s].held /\ sw'[s].snap = sw[s].snap
         /\ \A t \in Requests : t # s => sw'[t] = sw[t]
    BY <1>1, <1>4 DEF SwFields
  <2>12. HeldRight(s)' /\ \A x : Holds(s, x)' => Holds(s, x) \/ x = m
    BY <1>1, <2>4, <2>10, <2>11 DEF PlaceInv, HeldInv, HeldRight, Holds, Keeps
  <2>13. ASSUME NEW t \in Requests, t # s PROVE HeldRight(t)' /\ \A x : Holds(t, x)' => Holds(t, x)
    BY <2>11, <2>13 DEF PlaceInv, HeldInv, HeldRight, Holds, Keeps
  <2>14. HeldInv'
    BY <2>12, <2>13 DEF HeldInv
  <2>15. ASSUME NEW x, NEW y, At(x, y)' PROVE (y = b /\ x = m) \/ At(x, y)
    BY <1>1, <2>8, <2>12, <2>13, <2>15 DEF At
  <2> HIDE DEF a, b
  <2>16. \A y : At(m, y)' => y = b \/ (At(m, y) /\ y # a)
    BY <2>9, <2>15
  <2>17. \A x \in Messages : x # m => \A y : At(x, y)' => At(x, y)
    BY <2>15
  <2> QED BY <2>7, <2>9, <2>14, <2>16, <2>17, OneMoves
<1> QED BY <1>2, <1>3, <1>4 DEF TakeBack, To

\* A message given back, which the switch held already, leaves the queue.
LEMMA SettlePlaces ==
  ASSUME IInv, PlaceInv, NEW s \in Requests, Settle(s)
  PROVE  PlaceInv'
<1> DEFINE m == Head(sw[s].snap)
<1>1. /\ calls' = calls /\ given' = given /\ sw[s].pc = "settle"
      /\ DOMAIN sw = Requests /\ DOMAIN sw[s] = SwFields /\ DOMAIN proc = Procs
      /\ sw' = [sw EXCEPT ![s].pc = "takeBack", ![s].snap = Tail(@), ![s].held = Append(@, m)]
  BY DEF Settle, IInv, Typed
<1>2. \A p \in Procs : proc'[p].input = proc[p].input
  <2>1. CASE proc' = proc
    BY <2>1
  <2>2. CASE proc' = [proc EXCEPT ![reg].queued = Without(@, m)]
    BY <1>1, <2>2 DEF IInv, Typed, ProcFields
  <2> QED BY <2>1, <2>2 DEF Settle
<1>3. m \in Messages /\ ~In(m, sw[s].held) /\ sw[s].held \in Seq(Messages) /\ Distinct(sw[s].held)
  BY <1>1 DEF PlaceInv, HeldInv, HeldRight
<1> DEFINE h == Append(sw[s].held, m)
<1>4. h \in Seq(Messages) /\ Distinct(h) /\ \A x : In(x, h) => In(x, sw[s].held) \/ x = m
  BY <1>3, AppendIn
<1> HIDE DEF h
<1>5. sw'[s].pc = "takeBack" /\ sw'[s].held = h /\ \A t \in Requests : t # s => sw'[t] = sw[t]
  BY <1>1 DEF SwFields, h
<1>6. HeldRight(s)' /\ \A x : Holds(s, x)' => Holds(s, x)
  BY <1>1, <1>4, <1>5 DEF HeldRight, Holds, Keeps
<1> HIDE DEF m
<1>7. ASSUME NEW t \in Requests, t # s PROVE HeldRight(t)' /\ \A x : Holds(t, x)' => Holds(t, x)
  BY <1>5, <1>7 DEF PlaceInv, HeldInv, HeldRight, Holds, Keeps
<1>8. HeldInv' /\ InputInv' /\ CallInv'
  BY <1>1, <1>2, <1>6, <1>7 DEF HeldInv, PlaceInv, InputInv, CallInv
<1>9. ASSUME NEW x, NEW y, At(x, y)' PROVE At(x, y)
  BY <1>1, <1>2, <1>6, <1>7, <1>9 DEF At
<1> QED BY <1>8, <1>9, PlaceKept DEF PlaceInv

\* A switch hands a message on: the call has it, or it is refused (after_resume).
LEMMA HandPlaces ==
  ASSUME IInv, PlaceInv, NEW s \in Requests, Hand(s), sw[s].held # <<>>
  PROVE  PlaceInv'
<1>1. /\ given' = given /\ sw[s].pc = "hand" /\ sw' = [sw EXCEPT ![s].pc = "handing"]
      /\ DOMAIN sw = Requests /\ DOMAIN sw[s] = SwFields /\ DOMAIN proc = Procs /\ DOMAIN calls = Calls
      /\ Record(<<Head(sw[s].held), "switch">>)
  BY DEF Hand, To, IInv, Typed, PlaceInv, CallInv
<1> DEFINE q == Tail(sw[s].held)
<1>2. sw[s].held \in Seq(Messages) /\ Distinct(sw[s].held)
  BY DEF PlaceInv, HeldInv, HeldRight
<1>3. PICK m \in Messages : m = Head(sw[s].held)
  BY <1>2, TailIn
<1>4. In(m, sw[s].held) /\ ~In(m, q) /\ \A x : In(x, q) => In(x, sw[s].held)
  BY <1>2, <1>3, TailIn
<1> HIDE DEF q
<1>5. /\ sw'[s].pc = "handing" /\ sw'[s].held = sw[s].held /\ sw'[s].snap = sw[s].snap
      /\ \A t \in Requests : t # s => sw'[t] = sw[t]
  BY <1>1 DEF SwFields
<1>6. HeldRight(s)' /\ \A x : Holds(s, x)' <=> In(x, q)
  BY <1>1, <1>5 DEF PlaceInv, HeldInv, HeldRight, Holds, Keeps, q
<1>7. \A x : Holds(s, x) <=> In(x, sw[s].held)
  BY <1>1 DEF Holds, Keeps
<1>8. ASSUME NEW t \in Requests, t # s PROVE HeldRight(t)' /\ \A x : Holds(t, x)' => Holds(t, x)
  BY <1>5, <1>8 DEF PlaceInv, HeldInv, HeldRight, Holds, Keeps
<1>9. \A r \in Procs : proc'[r].input = proc[r].input
  <2>1. CASE proc' = proc
    BY <2>1
  <2>2. CASE proc' = [proc EXCEPT ![reg].queued = Append(@, <<m, "switch">>[1])]
    BY <1>1, <2>2 DEF IInv, Typed, ProcFields
  <2> QED BY <1>1, <1>3, <2>1, <2>2 DEF Record
<1> DEFINE c == <<m, "switch">>
<1>10. c \in Calls /\ \A x : <<x, "user">> # c /\ (<<x, "switch">> = c => x = m)
  BY DEF Calls
<1>11. /\ DOMAIN calls' = Calls /\ DOMAIN calls'[c] = CallFields
       /\ \A d \in Calls : d # c => calls'[d] = calls[d]
  <2>1. CASE calls' = [calls EXCEPT ![c] = Answered]
    BY <1>1, <1>10, <2>1 DEF Answered, CallFields
  <2>2. CASE calls' = [calls EXCEPT ![c] = [pc |-> "recorded", p |-> reg]]
    BY <1>1, <1>10, <2>2 DEF CallFields
  <2> QED BY <1>1, <1>3, <2>1, <2>2 DEF Record
<1>12. HeldInv' /\ InputInv' /\ CallInv'
  BY <1>6, <1>8, <1>9, <1>11 DEF HeldInv, PlaceInv, InputInv, CallInv
<1> HIDE DEF c
<1>13. ASSUME NEW x \in Messages, NEW y, At(x, y)' PROVE (y = <<"hand", 0>> /\ x = m) \/ At(x, y)
  <2>1. <<x, "user">> \in Calls /\ <<x, "switch">> \in Calls
    BY DEF Calls
  <2>2. CASE y = <<"user", 0>> /\ calls'[<<x, "user">>].pc \in {"idle", "recorded"}
    BY <1>10, <1>11, <2>1, <2>2 DEF At
  <2>3. CASE y = <<"hand", 0>> /\ calls'[<<x, "switch">>].pc = "recorded"
    BY <1>10, <1>11, <2>1, <2>3 DEF At
  <2>4. CASE y = <<"given", 0>> /\ x \in given'
    BY <1>1, <2>4 DEF At
  <2>5. ASSUME NEW r \in Procs, y = <<"in", r>>, In(x, proc'[r].input) PROVE At(x, y)
    BY <1>9, <2>5 DEF At
  <2>6. ASSUME NEW t \in Requests, y = <<"held", t>>, Holds(t, x)' PROVE At(x, y)
    <3>1. Holds(t, x)
      BY <1>4, <1>6, <1>7, <1>8, <2>6
    <3> QED BY <2>6, <3>1 DEF At
  <2> QED BY <1>13, <2>2, <2>3, <2>4, <2>5, <2>6 DEF At
<1> DEFINE a == <<"held", s>>
           b == <<"hand", 0>>
<1>14. At(m, a) /\ ~(At(m, a)')
  <2>1. At(m, a)
    BY <1>4, <1>7 DEF At
  <2>2. /\ \A t : a = <<"held", t>> => t = s
        /\ \A r : a # <<"in", r>>
        /\ a # <<"user", 0>> /\ a # <<"hand", 0>> /\ a # <<"given", 0>>
    OBVIOUS
  <2> HIDE DEF a
  <2>3. ~(At(m, a)')
    BY <1>4, <1>6, <2>2 DEF At
  <2> QED BY <2>1, <2>3
<1> HIDE DEF a, b
<1>15. \A y : At(m, y)' => y = b \/ (At(m, y) /\ y # a)
  BY <1>13, <1>14 DEF b
<1>16. \A x \in Messages : x # m => \A y : At(x, y)' => At(x, y)
  BY <1>13
<1> QED BY <1>12, <1>14, <1>15, <1>16, OneMoves

\* A message handed on: the switch no longer speaks of it.
LEMMA HandedPlaces ==
  ASSUME IInv, PlaceInv, NEW s \in Requests, Handed(s)
  PROVE  PlaceInv'
<1>1. /\ given' = given /\ proc' = proc /\ sw[s].pc = "handing" /\ sw[s].held # <<>>
      /\ sw' = [sw EXCEPT ![s].pc = "hand", ![s].held = Tail(@)]
      /\ DOMAIN sw = Requests /\ DOMAIN sw[s] = SwFields /\ DOMAIN calls = Calls
      /\ calls' = [calls EXCEPT ![<<Head(sw[s].held), "switch">>] = Unsent]
  BY DEF Handed, IInv, Typed, PlaceInv, CallInv, HeldInv, HeldRight
<1>2. sw[s].held \in Seq(Messages) /\ Distinct(sw[s].held)
  BY DEF PlaceInv, HeldInv, HeldRight
<1> DEFINE q == Tail(sw[s].held)
<1>3. q \in Seq(Messages) /\ Distinct(q)
  BY <1>1, <1>2, TailIn
<1>4. sw'[s].pc = "hand" /\ sw'[s].held = q /\ \A t \in Requests : t # s => sw'[t] = sw[t]
  BY <1>1 DEF SwFields
<1>5. \A x : Holds(s, x)' => Holds(s, x)
  BY <1>1, <1>4 DEF Holds, Keeps
<1> HIDE DEF q
<1>6. HeldRight(s)'
  BY <1>3, <1>4 DEF HeldRight
<1>7. ASSUME NEW t \in Requests, t # s PROVE HeldRight(t)' /\ \A x : Holds(t, x)' => Holds(t, x)
  BY <1>4, <1>7 DEF PlaceInv, HeldInv, HeldRight, Holds, Keeps
<1>8. PICK c : c = <<Head(sw[s].held), "switch">>
  OBVIOUS
<1>9. /\ DOMAIN calls' = Calls /\ (c \in Calls => calls'[c] = Unsent)
      /\ \A d \in Calls : d # c => calls'[d] = calls[d]
  BY <1>1, <1>8
<1>10. \A x : <<x, "user">> # c
  BY <1>8
<1>11. CallInv'
  BY <1>9 DEF PlaceInv, CallInv, Unsent, CallFields
<1>12. \A x \in Messages : CallsRest(x)
  <2>1. ASSUME NEW x \in Messages PROVE CallsRest(x)
    <3>1. <<x, "user">> \in Calls /\ <<x, "switch">> \in Calls
      BY DEF Calls
    <3> QED BY <1>9, <1>10, <3>1 DEF CallsRest, Unsent
  <2> QED BY <2>1
<1>13. HeldInv' /\ InputInv'
  BY <1>1, <1>6, <1>7 DEF HeldInv, PlaceInv, InputInv
<1>14. ASSUME NEW x \in Messages, NEW y, At(x, y)' PROVE At(x, y)
  BY <1>1, <1>5, <1>7, <1>12, <1>14 DEF At, CallsRest
<1> QED BY <1>11, <1>13, <1>14, PlaceKept DEF PlaceInv

\* What the other steps leave as it is: no message is begun, none is handed on,
\* none enters an input, and no switch takes one.
ProcRests(p) == InputRests(p) /\ proc'[p].cur \in {proc[p].cur, NoMsg}
CallsStay == CallsWell /\ (\A m \in Messages : CallsRest(m)) /\ given' = given
Rests == CallsStay /\ (\A p \in Procs : ProcRests(p)) /\ \A s \in Requests : SwitchRests(s)

\* They leave every message where it is, or lose it.
LEMMA RestsPlaces ==
  ASSUME PlaceInv, Rests
  PROVE  PlaceInv'
BY StaysPut DEF Rests, CallsStay, ProcRests

\* The calls are not touched.
LEMMA NoCall ==
  ASSUME PlaceInv, calls' = calls, given' = given
  PROVE  CallsStay
BY DEF PlaceInv, CallInv, CallsStay, CallsWell, CallsRest

\* The processes are not touched.
LEMMA NoProcess ==
  ASSUME proc' = proc
  PROVE  \A p \in Procs : ProcRests(p)
BY DEF ProcRests, InputRests

\* The switches are not touched.
LEMMA NoSwitch ==
  ASSUME sw' = sw
  PROVE  \A s \in Requests : SwitchRests(s)
BY DEF SwitchRests

\* A switch at a step before or after those that hold messages.
LEMMA SwitchMoves ==
  ASSUME NEW s \in Requests, \A t \in Requests : t # s => sw'[t] = sw[t],
         \/ sw'[s].held = <<>>
         \/ sw'[s].held = sw[s].held /\ sw[s].pc \notin {"settle", "handing"},
         sw'[s].pc \notin {"settle", "handing"}
  PROVE  \A t \in Requests : SwitchRests(t)
BY DEF SwitchRests

\* A user's message is refused or recorded: it is still with its call.
LEMMA SendRests ==
  ASSUME IInv, PlaceInv, NEW m \in Messages, Send(m)
  PROVE  Rests
<1> DEFINE c == <<m, "user">>
<1>1. /\ c \in Calls /\ DOMAIN calls = Calls /\ calls[c].pc = "idle" /\ Record(c)
      /\ sw' = sw /\ given' = given /\ DOMAIN proc = Procs
  BY DEF Send, Calls, PlaceInv, CallInv, switching, IInv, Typed
<1>2. \A x : <<x, "switch">> # c /\ (<<x, "user">> = c => x = m)
  OBVIOUS
<1>3. c[1] = m
  OBVIOUS
<1> HIDE DEF c
<1>4. /\ DOMAIN calls' = Calls /\ DOMAIN calls'[c] = CallFields
      /\ \A d \in Calls : d # c => calls'[d] = calls[d]
  <2>1. CASE calls' = [calls EXCEPT ![c] = Answered]
    BY <1>1, <2>1 DEF Answered, CallFields
  <2>2. CASE calls' = [calls EXCEPT ![c] = [pc |-> "recorded", p |-> reg]]
    BY <1>1, <2>2 DEF CallFields
  <2> QED BY <1>1, <2>1, <2>2 DEF Record
<1>5. CallsWell
  BY <1>4 DEF CallsWell, PlaceInv, CallInv
<1>6. ASSUME NEW x \in Messages PROVE CallsRest(x)
  <2>1. <<x, "user">> \in Calls /\ <<x, "switch">> \in Calls
    BY DEF Calls
  <2>2. calls'[<<x, "user">>].pc \in {"idle", "recorded"} => calls[<<x, "user">>].pc \in {"idle", "recorded"}
    BY <1>1, <1>2, <1>4, <2>1
  <2>3. calls'[<<x, "switch">>].pc = "recorded" => calls[<<x, "switch">>].pc = "recorded"
    BY <1>2, <1>4, <2>1
  <2> QED BY <2>2, <2>3 DEF CallsRest
<1>7. \A p \in Procs : ProcRests(p)
  <2>1. CASE proc' = proc
    BY <2>1, NoProcess
  <2>2. CASE proc' = [proc EXCEPT ![reg].queued = Append(@, c[1])]
    BY <1>1, <2>2 DEF IInv, Typed, ProcFields, ProcRests, InputRests
  <2> QED BY <1>1, <2>1, <2>2 DEF Record
<1> QED BY <1>1, <1>5, <1>6, <1>7, NoSwitch DEF Rests, CallsStay

\* A message written starts a turn.
LEMMA StartTurnRests ==
  ASSUME IInv, PlaceInv, NEW c \in Calls, StartTurn(c)
  PROVE  Rests
<1>1. /\ DOMAIN calls = Calls /\ DOMAIN calls[c] = CallFields /\ calls[c].pc = "written"
      /\ sw' = sw /\ given' = given
      /\ proc' = [proc EXCEPT ![calls[c].p].turn = TRUE]
  BY DEF StartTurn, PlaceInv, CallInv, switching
<1>2. calls' = [calls EXCEPT ![c] = Answered]
  BY DEF StartTurn
<1>3. /\ DOMAIN calls' = Calls /\ DOMAIN calls'[c] = CallFields /\ calls'[c].pc = "done"
      /\ \A d \in Calls : d # c => calls'[d] = calls[d]
  BY <1>1, <1>2 DEF CallFields, Answered
<1>4. CallsWell
  BY <1>3 DEF CallsWell, PlaceInv, CallInv
<1>5. ASSUME NEW x \in Messages PROVE CallsRest(x)
  <2>1. <<x, "user">> \in Calls /\ <<x, "switch">> \in Calls
    BY DEF Calls
  <2> QED BY <1>3, <2>1 DEF CallsRest
<1>6. \A p \in Procs : ProcRests(p)
  BY <1>1 DEF IInv, Typed, ProcFields, ProcRests, InputRests
<1> QED BY <1>1, <1>4, <1>5, <1>6, NoSwitch DEF Rests, CallsStay

\* A process that ends a turn, exits, or is ended by a kill; the reaper.
LEMMA ProcessRests ==
  ASSUME IInv, PlaceInv, NEW p \in Procs, Result(p) \/ Exits(p) \/ Reaper(p)
  PROVE  Rests
<1>1. /\ calls' = calls /\ given' = given /\ sw' = sw /\ DOMAIN proc = Procs
      /\ \A r \in Procs : DOMAIN proc[r] = ProcFields
  BY DEF Result, Exits, Reaper, Terminate, ReapClose, ReapRemove, Reaped, switching, IInv, Typed
<1>2. \A r \in Procs : ProcRests(r)
  <2>1. CASE Result(p)
    BY <1>1, <2>1 DEF Result, ProcRests, InputRests, ProcFields
  <2>2. CASE Exits(p) \/ Terminate(p)
    <3>1. proc' = [proc EXCEPT ![p].child = "ended", ![p].cur = NoMsg, ![p].input = <<>>]
      BY <2>2 DEF Exits, Terminate, Ends
    <3> QED BY <1>1, <3>1 DEF ProcRests, InputRests, ProcFields
  <2>3. CASE ReapClose(p)
    BY <1>1, <2>3 DEF ReapClose, ProcRests, InputRests, ProcFields
  <2>4. CASE ReapRemove(p)
    BY <2>4, NoProcess DEF ReapRemove
  <2>5. CASE Reaped(p)
    <3>1. proc' = [proc EXCEPT ![p] = [NoProc EXCEPT !.child = "ended", !.reaped = TRUE]]
      BY <2>5 DEF Reaped
    <3>2. proc'[p].input = <<>> /\ proc'[p].cur = NoMsg /\ \A r \in Procs : r # p => proc'[r] = proc[r]
      BY <1>1, <3>1 DEF NoProc
    <3> QED BY <3>2 DEF ProcRests, InputRests
  <2> QED BY <2>1, <2>2, <2>3, <2>4, <2>5 DEF Reaper
<1> QED BY <1>1, <1>2, NoCall, NoSwitch DEF Rests

\* Starting a child and registering it.
LEMMA StartRests ==
  ASSUME IInv, NEW a, NEW b, StartChild(a, b)
  PROVE  \A p \in Procs : ProcRests(p)
<1>1. NextProc \in Procs
  BY Started DEF Starts
<1> HIDE DEF NextProc
<1>2. proc' = [proc EXCEPT ![NextProc].child = "up", ![NextProc].acct = a, ![NextProc].by = b]
  BY DEF StartChild
<1> QED BY <1>1, <1>2 DEF IInv, Typed, ProcRests, InputRests, ProcFields

\* A child is registered, or ended.
LEMMA EnterRests ==
  ASSUME IInv, NEW p, Enter(p)
  PROVE  \A r \in Procs : ProcRests(r)
<1>1. CASE proc' = [proc EXCEPT ![p].alive = TRUE]
  BY <1>1 DEF IInv, Typed, ProcRests, InputRests, ProcFields
<1>2. CASE proc' = [proc EXCEPT ![p].kill = TRUE]
  BY <1>2 DEF IInv, Typed, ProcRests, InputRests, ProcFields
<1> QED BY <1>1, <1>2 DEF Enter

\* The other routes.
LEMMA WaitingRests ==
  ASSUME IInv, PlaceInv, CancelWaiting \/ StopRoute
  PROVE  Rests
<1>1. calls' = calls /\ given' = given /\ sw' = sw /\ proc' = proc
  BY DEF CancelWaiting, StopRoute
<1> QED BY <1>1, NoCall, NoProcess, NoSwitch DEF Rests

\* The stop route ends the process.
LEMMA StopKillRests ==
  ASSUME IInv, PlaceInv, StopKill
  PROVE  Rests
<1>1. calls' = calls /\ given' = given /\ sw' = sw
  BY DEF StopKill, switching
<1>2. CASE proc' = [proc EXCEPT ![reg].kill = TRUE]
  <2>1. \A r \in Procs : ProcRests(r)
    BY <1>2 DEF IInv, Typed, ProcRests, InputRests, ProcFields
  <2> QED BY <1>1, <2>1, NoCall, NoSwitch DEF Rests
<1>3. CASE proc' = proc
  BY <1>1, <1>3, NoCall, NoProcess, NoSwitch DEF Rests
<1> QED BY <1>2, <1>3 DEF StopKill

\* A continue starts a process and registers it.
LEMMA ContinueRests ==
  ASSUME IInv, PlaceInv, NEW c \in Conts, Continue(c) \/ ContinueLaunch(c) \/ ContinueRegister(c)
  PROVE  Rests
<1>1. calls' = calls /\ given' = given /\ sw' = sw
  <2>1. CASE Continue(c)
    BY <2>1, Zenon DEF Continue, switching
  <2>2. CASE ContinueLaunch(c) \/ ContinueRegister(c)
    BY <2>2 DEF ContinueLaunch, ContinueRegister, switching
  <2> QED BY <2>1, <2>2
<1>2. \A r \in Procs : ProcRests(r)
  <2>1. CASE Continue(c)
    <3>1. proc' = proc
      BY <2>1, Zenon DEF Continue
    <3> QED BY <3>1, NoProcess
  <2>2. CASE ContinueLaunch(c)
    BY <2>2, StartRests, NoProcess DEF ContinueLaunch
  <2>3. CASE ContinueRegister(c)
    BY <2>3, EnterRests DEF ContinueRegister
  <2> QED BY <2>1, <2>2, <2>3
<1> QED BY <1>1, <1>2, NoCall, NoSwitch DEF Rests

\* A switch asked for starts with nothing.
LEMMA AskRests ==
  ASSUME IInv, PlaceInv, NEW s \in Requests, NEW to, NEW when, Ask(s, to, when)
  PROVE  Rests
<1>1. /\ calls' = calls /\ given' = given /\ proc' = proc /\ sw[s].pc = "idle"
      /\ DOMAIN sw = Requests /\ DOMAIN sw[s] = SwFields
  BY DEF Ask, IInv, Typed
<1>2. \/ sw' = [sw EXCEPT ![s].pc = "done"]
      \/ sw' = [sw EXCEPT ![s] = [Asleep EXCEPT !.pc = "close", !.when = when,
                                   !.from = proc[reg].acct, !.to = to]]
  BY DEF Ask, To
<1>3. /\ \A t \in Requests : t # s => sw'[t] = sw[t]
      /\ sw'[s].held = sw[s].held \/ sw'[s].held = <<>>
      /\ sw'[s].pc \in {"done", "close"}
  <2>1. CASE sw' = [sw EXCEPT ![s].pc = "done"]
    BY <1>1, <2>1 DEF SwFields
  <2>2. CASE sw' = [sw EXCEPT ![s] = [Asleep EXCEPT !.pc = "close", !.when = when,
                                       !.from = proc[reg].acct, !.to = to]]
    BY <1>1, <2>2 DEF Asleep
  <2> QED BY <1>2, <2>1, <2>2
<1> QED BY <1>1, <1>3, SwitchMoves, NoCall, NoProcess DEF Rests

\* What a step of a switch writes, if it takes no message and hands none on.
GoesTo(s, l) ==
    \/ sw' = [sw EXCEPT ![s].pc = l]
    \/ \E x : sw' = [sw EXCEPT ![s].pc = l, ![s].run = x]
    \/ \E x : sw' = [sw EXCEPT ![s].pc = l, ![s].p = x]
    \/ \E x, y : sw' = [sw EXCEPT ![s].pc = l, ![s].p = x, ![s].snap = y]
    \/ sw' = [sw EXCEPT ![s] = [Asleep EXCEPT !.pc = l]]

\* Such a step leaves what the switch holds, or lets all of it go.
LEMMA Goes ==
  ASSUME IInv, NEW s \in Requests, sw[s].pc \notin {"settle", "handing"},
         NEW l \in SwitchSteps \ {"settle", "handing"}, GoesTo(s, l)
  PROVE  \A t \in Requests : SwitchRests(t)
<1>1. DOMAIN sw = Requests /\ DOMAIN sw[s] = {"pc", "when", "from", "to", "run", "p", "snap", "held"}
  BY DEF IInv, Typed, SwFields
<1> DEFINE Only == /\ \A t \in Requests : t # s => sw'[t] = sw[t]
                   /\ sw'[s].held = sw[s].held \/ sw'[s].held = <<>>
                   /\ sw'[s].pc = l
<1>2. CASE sw' = [sw EXCEPT ![s].pc = l]
  BY <1>1, <1>2, SwitchMoves
<1>3. ASSUME NEW x, sw' = [sw EXCEPT ![s].pc = l, ![s].run = x] PROVE Only
  BY <1>1, <1>3
<1>4. ASSUME NEW x, sw' = [sw EXCEPT ![s].pc = l, ![s].p = x] PROVE Only
  BY <1>1, <1>4
<1>5. ASSUME NEW x, NEW y, sw' = [sw EXCEPT ![s].pc = l, ![s].p = x, ![s].snap = y] PROVE Only
  BY <1>1, <1>5
<1>6. CASE sw' = [sw EXCEPT ![s] = [Asleep EXCEPT !.pc = l]]
  <2>1. sw'[s].held = <<>> /\ sw'[s].pc = l /\ \A t \in Requests : t # s => sw'[t] = sw[t]
    BY <1>1, <1>6 DEF Asleep
  <2> QED BY <2>1, SwitchMoves
<1>7. CASE Only
  BY <1>7, SwitchMoves
<1> HIDE DEF Only
<1> QED BY <1>2, <1>3, <1>4, <1>5, <1>6, <1>7, Zenon DEF GoesTo

Lax == SwitchSteps \ {"settle", "handing"}

\* A switch that touches no process.
LEMMA GoesRests ==
  ASSUME IInv, PlaceInv, NEW s \in Requests,
         Wait(s) \/ Claim(s) \/ Finish(s) \/ Interrupt(s) \/ Stopped(s) \/ Move(s) \/ Undo(s)
  PROVE  Rests
<1>1. calls' = calls /\ given' = given /\ proc' = proc
  BY DEF Wait, Claim, Finish, Interrupt, Stopped, Move, Undo
<1>2. sw[s].pc \notin {"settle", "handing"}
  BY DEF Wait, Claim, Finish, Interrupt, Stopped, Move, Undo
<1>3. PICK l \in Lax : GoesTo(s, l)
  <2>0. {"wait", "done", "finish", "claim", "reclose", "stop", "move", "launch"} \subseteq Lax
    BY DEF Lax, SwitchSteps
  <2>1. CASE Wait(s)
    <3>1. \E l \in {"done", "finish", "claim"} : sw' = [sw EXCEPT ![s].pc = l]
      BY <2>1 DEF Wait, To
    <3> QED BY <2>0, <3>1, Zenon DEF GoesTo
  <2>2. CASE Claim(s)
    <3>1. \E l \in {"done", "reclose"} : sw' = [sw EXCEPT ![s].pc = l]
      BY <2>2 DEF Claim, To
    <3> QED BY <2>0, <3>1, Zenon DEF GoesTo
  <2>3. CASE Finish(s)
    <3>1. sw' = [sw EXCEPT ![s] = [Asleep EXCEPT !.pc = "done"]]
      BY <2>3 DEF Finish
    <3> QED BY <2>0, <3>1, Zenon DEF GoesTo
  <2>4. CASE Interrupt(s)
    <3>1. sw' = [sw EXCEPT ![s].pc = "stop"]
      BY <2>4 DEF Interrupt, To
    <3> QED BY <2>0, <3>1, Zenon DEF GoesTo
  <2>5. CASE Stopped(s)
    <3>1. \E l \in {"move", "finish"} : sw' = [sw EXCEPT ![s].pc = l]
      BY <2>5 DEF Stopped, To
    <3> QED BY <2>0, <3>1, Zenon DEF GoesTo
  <2>6. CASE Move(s)
    <3>1. \E x : sw' = [sw EXCEPT ![s].pc = "launch", ![s].run = x]
      BY <2>6, Zenon DEF Move
    <3> QED BY <2>0, <3>1, Zenon DEF GoesTo
  <2>7. CASE Undo(s)
    <3>1. \/ \E x : sw' = [sw EXCEPT ![s].pc = "launch", ![s].run = x]
          \/ sw' = [sw EXCEPT ![s].pc = "finish"]
      BY <2>7, Zenon DEF Undo, To
    <3> QED BY <2>0, <3>1, Zenon DEF GoesTo
  <2> QED BY <2>1, <2>2, <2>3, <2>4, <2>5, <2>6, <2>7
<1>4. \A t \in Requests : SwitchRests(t)
  BY <1>2, <1>3, Goes DEF Lax
<1> QED BY <1>1, <1>4, NoCall, NoProcess DEF Rests

\* A switch that closes the session, opens it again, or ends its process.
LEMMA GateRests ==
  ASSUME IInv, PlaceInv, NEW s \in Requests, Close(s) \/ Ready(s) \/ Stop(s)
  PROVE  Rests
<1>1. calls' = calls /\ given' = given /\ sw[s].pc \notin {"settle", "handing"}
  BY DEF Close, Ready, Stop
<1>2. \/ proc' = proc
      \/ \E b : proc' = [proc EXCEPT ![reg].closing = b]
      \/ proc' = [proc EXCEPT ![reg].kill = TRUE]
  BY Zenon DEF Close, Ready, Reopen, Stop
<1>3. \A p \in Procs : ProcRests(p)
  <2>1. ASSUME NEW b, proc' = [proc EXCEPT ![reg].closing = b] PROVE \A p \in Procs : ProcRests(p)
    BY <2>1 DEF IInv, Typed, ProcRests, InputRests, ProcFields
  <2>2. CASE proc' = [proc EXCEPT ![reg].kill = TRUE]
    BY <2>2 DEF IInv, Typed, ProcRests, InputRests, ProcFields
  <2> QED BY <1>2, <2>1, <2>2, NoProcess, Zenon
<1>4. PICK l \in Lax : GoesTo(s, l)
  <2>0. {"wait", "finish", "ready", "takeBack", "stop", "stopping", "move"} \subseteq Lax
    BY DEF Lax, SwitchSteps
  <2>1. CASE Close(s)
    <3>1. \/ \E l \in {"finish", "wait"} : sw' = [sw EXCEPT ![s].pc = l]
          \/ \E x, y : sw' = [sw EXCEPT ![s].pc = "ready", ![s].p = x, ![s].snap = y]
      BY <2>1, Zenon DEF Close, To
    <3> QED BY <2>0, <3>1, Zenon DEF GoesTo
  <2>2. CASE Ready(s)
    <3>1. \E l \in {"takeBack", "stop", "finish"} : sw' = [sw EXCEPT ![s].pc = l]
      BY <2>2 DEF Ready, To
    <3> QED BY <2>0, <3>1, Zenon DEF GoesTo
  <2>3. CASE Stop(s)
    <3>1. \/ sw' = [sw EXCEPT ![s].pc = "move"]
          \/ \E x : sw' = [sw EXCEPT ![s].pc = "stopping", ![s].p = x]
      BY <2>3, Zenon DEF Stop, To
    <3> QED BY <2>0, <3>1, Zenon DEF GoesTo
  <2> QED BY <2>1, <2>2, <2>3
<1>5. \A t \in Requests : SwitchRests(t)
  BY <1>1, <1>4, Goes DEF Lax
<1> QED BY <1>1, <1>3, <1>5, NoCall DEF Rests

\* A switch that starts a process and registers it, or has nothing to hand on.
LEMMA LaunchRests ==
  ASSUME IInv, PlaceInv, NEW s \in Requests,
         Launch(s) \/ Register(s) \/ (Hand(s) /\ sw[s].held = <<>>)
  PROVE  Rests
<1>1. calls' = calls /\ given' = given /\ sw[s].pc \notin {"settle", "handing"}
  BY DEF Launch, Register, Hand
<1>2. \A p \in Procs : ProcRests(p)
  <2>1. CASE Launch(s)
    <3>1. StartChild(sw[s].run, s) \/ proc' = proc
      BY <2>1, Zenon DEF Launch
    <3> QED BY <3>1, StartRests, NoProcess
  <2>2. CASE Register(s)
    BY <2>2, EnterRests DEF Register
  <2>3. CASE Hand(s) /\ sw[s].held = <<>>
    BY <2>3, NoProcess DEF Hand
  <2> QED BY <2>1, <2>2, <2>3
<1>3. PICK l \in Lax : GoesTo(s, l)
  <2>0. {"register", "finish", "undo", "hand"} \subseteq Lax
    BY DEF Lax, SwitchSteps
  <2>1. CASE Launch(s)
    <3>1. \/ \E x : sw' = [sw EXCEPT ![s].pc = "register", ![s].p = x]
          \/ \E l \in {"finish", "undo"} : sw' = [sw EXCEPT ![s].pc = l]
      <4>1. AfterFailure(s) \in {"finish", "undo"}
        BY DEF AfterFailure
      <4> QED BY <2>1, <4>1, Zenon DEF Launch, To
    <3> QED BY <2>0, <3>1, Zenon DEF GoesTo
  <2>2. CASE Register(s)
    <3>1. \E l \in {"hand", "finish", "undo"} : sw' = [sw EXCEPT ![s].pc = l]
      BY <2>2 DEF Register, To, AfterFailure
    <3> QED BY <2>0, <3>1, Zenon DEF GoesTo
  <2>3. CASE Hand(s) /\ sw[s].held = <<>>
    <3>1. sw' = [sw EXCEPT ![s].pc = "finish"]
      BY <2>3 DEF Hand, To
    <3> QED BY <2>0, <3>1, Zenon DEF GoesTo
  <2> QED BY <2>1, <2>2, <2>3
<1>4. \A t \in Requests : SwitchRests(t)
  BY <1>1, <1>3, Goes DEF Lax
<1> QED BY <1>1, <1>2, <1>4, NoCall DEF Rests

\* Nothing happens.
LEMMA StutterRests ==
  ASSUME PlaceInv, UNCHANGED vars
  PROVE  Rests
<1>1. calls' = calls /\ given' = given /\ proc' = proc /\ sw' = sw
  BY DEF vars, switching
<1> QED BY <1>1, NoCall, NoProcess, NoSwitch DEF Rests

\* A write, a message taken back, and one handed on change no turn.
LEMMA CurStays ==
  ASSUME IInv, \/ \E c \in Calls : WriteLine(c)
               \/ \E s \in Requests : TakeBack(s) \/ Settle(s) \/ Hand(s) \/ Handed(s)
  PROVE  \A p \in Procs : proc'[p].cur = proc[p].cur
<1>1. \/ proc' = proc
      \/ \E p, v : proc' = [proc EXCEPT ![p].queued = v]
      \/ \E p, v : proc' = [proc EXCEPT ![p].input = v]
  <2>1. ASSUME NEW c \in Calls, WriteLine(c)
        PROVE  \/ \E p, v : proc' = [proc EXCEPT ![p].queued = v]
               \/ \E p, v : proc' = [proc EXCEPT ![p].input = v]
    BY <2>1, Zenon DEF WriteLine
  <2>2. ASSUME NEW s \in Requests, TakeBack(s)
        PROVE  proc' = proc \/ \E p, v : proc' = [proc EXCEPT ![p].input = v]
    BY <2>2, Zenon DEF TakeBack
  <2>3. ASSUME NEW s \in Requests, Settle(s)
        PROVE  proc' = proc \/ \E p, v : proc' = [proc EXCEPT ![p].queued = v]
    BY <2>3, Zenon DEF Settle
  <2>4. ASSUME NEW s \in Requests, Hand(s)
        PROVE  proc' = proc \/ \E p, v : proc' = [proc EXCEPT ![p].queued = v]
    <3>1. CASE proc' = proc
      BY <3>1
    <3>2. CASE Record(<<Head(sw[s].held), "switch">>)
      BY <3>2, Zenon DEF Record
    <3> QED BY <2>4, <3>1, <3>2 DEF Hand
  <2>5. ASSUME NEW s \in Requests, Handed(s) PROVE proc' = proc
    BY <2>5 DEF Handed
  <2> QED BY <2>1, <2>2, <2>3, <2>4, <2>5, Zenon
<1>2. ASSUME NEW p, NEW v, proc' = [proc EXCEPT ![p].queued = v]
      PROVE  \A r \in Procs : proc'[r].cur = proc[r].cur
  BY <1>2 DEF IInv, Typed, ProcFields
<1>3. ASSUME NEW p, NEW v, proc' = [proc EXCEPT ![p].input = v]
      PROVE  \A r \in Procs : proc'[r].cur = proc[r].cur
  BY <1>3 DEF IInv, Typed, ProcFields
<1> QED BY <1>1, <1>2, <1>3, Zenon

\* A message is in one place at the start: with its sender.
LEMMA InitPlaces ==
  ASSUME Init
  PROVE  PlaceInv
<1>1. <<>> \in Seq(Messages) /\ Distinct(<<>>) /\ \A m : ~In(m, <<>>)
  BY DEF Distinct, In
<1>2. \A p \in Procs : proc[p].input = <<>>
  BY DEF Init, NoProc
<1>3. \A s \in Requests : sw[s].held = <<>> /\ sw[s].pc = "idle"
  BY DEF Init, Asleep
<1>4. DOMAIN calls = Calls /\ \A c \in Calls : calls[c] = Unsent
  BY DEF Init
<1>5. given = {}
  BY DEF Init
<1>6. InputInv
  BY <1>1, <1>2 DEF InputInv
<1>7. HeldInv /\ \A s \in Requests : \A m : ~Holds(s, m)
  BY <1>1, <1>3 DEF HeldInv, HeldRight, Holds, Keeps
<1>8. CallInv /\ \A c \in Calls : calls[c].pc = "idle"
  BY <1>4 DEF CallInv, Unsent, CallFields
<1>9. ASSUME NEW m \in Messages PROVE OncePlaced(m)
  <2>1. <<m, "user">> \in Calls /\ <<m, "switch">> \in Calls
    BY DEF Calls
  <2>2. \A x : At(m, x) => x = <<"user", 0>>
    BY <1>1, <1>2, <1>5, <1>7, <1>8, <2>1 DEF At
  <2> QED BY <2>2 DEF OncePlaced
<1> QED BY <1>6, <1>7, <1>8, <1>9 DEF PlaceInv

\* A step either begins no message, or begins one that no process was given.
LEMMA StepPlaces ==
  ASSUME IInv, PlaceInv, [Next]_vars
  PROVE  /\ PlaceInv'
         /\ \A p \in Procs : proc'[p].cur \notin {NoMsg, proc[p].cur} => proc'[p].cur \notin given
<1> DEFINE Once == \A p \in Procs : proc'[p].cur \notin {NoMsg, proc[p].cur}
                                    => proc'[p].cur \notin given
<1>1. ASSUME Rests PROVE PlaceInv' /\ Once
  BY <1>1, RestsPlaces DEF Rests, ProcRests
<1>2. ASSUME \A p \in Procs : proc'[p].cur = proc[p].cur PROVE Once
  BY <1>2
<1>3. ASSUME NEW p \in Procs, TakesInput(p) PROVE PlaceInv' /\ Once
  <2>1. /\ proc'[p].cur = Head(proc[p].input)
        /\ \A r \in Procs : r # p => proc'[r].cur = proc[r].cur
    BY <1>3 DEF TakesInput, IInv, Typed, ProcFields
  <2>2. PlaceInv' /\ proc'[p].cur \notin given
    BY <1>3, <2>1, TakesInputPlaces
  <2>3. ASSUME NEW r \in Procs, proc'[r].cur \notin {NoMsg, proc[r].cur} PROVE r = p
    BY <2>1, <2>3
  <2> QED BY <2>2, <2>3
<1>4. ASSUME NEW m \in Messages, Send(m) PROVE PlaceInv' /\ Once
  BY <1>1, <1>4, SendRests
<1>5. ASSUME NEW c \in Calls, CallStep(c) PROVE PlaceInv' /\ Once
  BY <1>1, <1>2, <1>5, WriteLinePlaces, CurStays, StartTurnRests DEF CallStep
<1>6. ASSUME NEW p \in Procs, TakesInput(p) \/ Result(p) \/ Exits(p) \/ Reaper(p)
      PROVE  PlaceInv' /\ Once
  BY <1>1, <1>3, <1>6, ProcessRests
<1>7. ASSUME NEW s \in Requests, SwitchStep(s) PROVE PlaceInv' /\ Once
  <2>1. CASE \/ Wait(s) \/ Claim(s) \/ Finish(s) \/ Interrupt(s) \/ Stopped(s) \/ Move(s) \/ Undo(s)
    BY <1>1, <2>1, GoesRests
  <2>2. CASE Close(s) \/ Ready(s) \/ Stop(s)
    BY <1>1, <2>2, GateRests
  <2>3. CASE Launch(s) \/ Register(s) \/ (Hand(s) /\ sw[s].held = <<>>)
    BY <1>1, <2>3, LaunchRests
  <2>4. CASE TakeBack(s) \/ Settle(s) \/ Handed(s) \/ (Hand(s) /\ sw[s].held # <<>>)
    BY <1>2, <2>4, TakeBackPlaces, SettlePlaces, HandedPlaces, HandPlaces, CurStays
  <2> QED BY <1>7, <2>1, <2>2, <2>3, <2>4 DEF SwitchStep
<1>8. ASSUME NEW s \in Requests, NEW to \in Accounts, NEW when \in {"now", "idle"},
             Ask(s, to, when)
      PROVE PlaceInv' /\ Once
  BY <1>1, <1>8, AskRests
<1>9. ASSUME CancelWaiting \/ StopRoute \/ StopKill PROVE PlaceInv' /\ Once
  BY <1>1, <1>9, WaitingRests, StopKillRests
<1>10. ASSUME NEW c \in Conts, Continue(c) \/ ContinueLaunch(c) \/ ContinueRegister(c)
       PROVE PlaceInv' /\ Once
  BY <1>1, <1>10, ContinueRests
<1>11. ASSUME UNCHANGED vars PROVE PlaceInv' /\ Once
  BY <1>1, <1>11, StutterRests
<1> HIDE DEF Once
<1>12. PlaceInv' /\ Once
  <2>1. ASSUME Next PROVE PlaceInv' /\ Once
    BY <2>1, <1>4, <1>5, <1>6, <1>7, <1>8, <1>9, <1>10 DEF Next
  <2> QED BY <2>1, <1>11
<1> QED BY <1>12 DEF Once

\* A message is in one place in every state: nothing duplicates one, whatever
\* is refused, taken back, lost with its process or handed on (control.rs, switch.rs).
THEOREM Placed == Spec => []PlaceInv
<1>1. Init => PlaceInv
  BY InitPlaces
<1>2. IInv /\ PlaceInv /\ [Next]_vars => PlaceInv'
  BY StepPlaces
<1> QED BY <1>1, <1>2, Invariance, PTL DEF Spec

\* The conversation gets no message twice: one a switch takes back and hands
\* to the resumed process was not begun by the stopped one (cancel_queued and
\* after_resume).
THEOREM GivenOnceCorrect == Spec => GivenOnce
<1> DEFINE Once == \A p \in Procs : proc'[p].cur \notin {NoMsg, proc[p].cur}
                                    => proc'[p].cur \notin given
<1>1. IInv /\ PlaceInv /\ [Next]_vars => [Once]_vars
  BY StepPlaces
<1> HIDE DEF Once
<1>2. Spec => [][Once]_vars
  BY <1>1, Invariance, Placed, PTL DEF Spec
<1> QED BY <1>2 DEF Once, GivenOnce

----------------------------------------------------------------------------
(* Under which account a process runs.                                     *)

\* A switch that closed the session; and one that has not yet moved the
\* conversation.
Deep == {"ready", "takeBack", "settle", "interrupt", "stop", "stopping", "move", "launch",
         "register", "undo", "hand", "handing"}
Before == {"close", "wait", "claim", "reclose", "ready", "takeBack", "settle", "interrupt",
           "stop", "stopping", "move"}
Starting == {"launch", "register"}

\* The registered process runs where the transcript is.
RegHome == reg # 0 => Home(proc[reg].acct) = place

\* So does what the switch would start, or go back to.
FromHome == \A s \in Requests : sw[s].pc \in Before /\ entry.seq = s => Home(sw[s].from) = place
RunHome ==
    \A s \in Requests :
        /\ sw[s].pc \in Starting => Home(sw[s].run) = place
        /\ sw[s].pc = "register" => proc[sw[s].p].acct = sw[s].run

\* Since a continue looked, and unless it was overtaken, no process is
\* registered, so no switch closes one and the transcript is where it was.
ContHome ==
    \A c \in Conts : Pending(c) =>
        /\ cont[c].pc = "register" => proc[cont[c].p].acct = cont[c].acct
        /\ c \notin overtaken => /\ reg = 0 /\ Home(cont[c].acct) = place
                                 /\ \A s \in Requests : sw[s].pc \notin Deep

HomeInv == RegHome /\ FromHome /\ RunHome /\ ContHome

\* What most steps leave of a process and of a switch.
AcctStays(p) == proc'[p].acct = proc[p].acct
SwitchStays(s) ==
    /\ sw'[s].pc \in Before => sw[s].pc \in Before /\ sw'[s].from = sw[s].from
    /\ sw'[s].pc \in Starting => sw'[s].pc = sw[s].pc /\ sw'[s].p = sw[s].p /\ sw'[s].run = sw[s].run
    /\ sw'[s].pc \in Deep => sw[s].pc \in Deep

\* Steps that register no process, move nothing and begin no continue.
LEMMA HomeKept ==
  ASSUME IInv, HomeInv, UNCHANGED <<reg, cont, overtaken, place, shared>>,
         entry'.seq \in {entry.seq, 0},
         \A p \in Procs : AcctStays(p), \A s \in Requests : SwitchStays(s)
  PROVE  HomeInv'
<1>1. \A a : Home(a)' = Home(a)
  BY DEF Home
<1>2. RegHome'
  BY <1>1 DEF RegHome, HomeInv, IInv, Typed, Procs, AcctStays
<1>3. FromHome'
  BY <1>1 DEF FromHome, HomeInv, Requests, SwitchStays
<1>4. RunHome'
  BY <1>1 DEF RunHome, HomeInv, IInv, Fresh, FreshSwitch, SwitchStays, AcctStays, Starting
<1>5. ContHome'
  BY <1>1 DEF ContHome, HomeInv, Pending, IInv, Fresh, FreshCont, SwitchStays, AcctStays
<1> QED BY <1>2, <1>3, <1>4, <1>5 DEF HomeInv

\* A switch that does not change: no step of it.
LEMMA SwitchesStay ==
  ASSUME sw' = sw
  PROVE  \A s \in Requests : SwitchStays(s)
BY DEF SwitchStays

\* A switch that goes on to a step that starts nothing.
LEMMA SwitchGoesOn ==
  ASSUME IInv, NEW s \in Requests, NEW l, l \notin Starting,
         l \in Before => sw[s].pc \in Before, l \in Deep => sw[s].pc \in Deep,
         \A t \in Requests : t # s => sw'[t] = sw[t], sw'[s].pc = l,
         l \in Before => sw'[s].from = sw[s].from
  PROVE  \A t \in Requests : SwitchStays(t)
BY DEF SwitchStays, Starting

\* A switch that goes to its next step.
LEMMA OnlyPc ==
  ASSUME IInv, NEW s \in Requests, NEW l, sw' = [sw EXCEPT ![s].pc = l]
  PROVE  /\ sw'[s].pc = l /\ sw'[s].from = sw[s].from /\ sw'[s].run = sw[s].run
         /\ sw'[s].p = sw[s].p /\ \A t \in Requests : t # s => sw'[t] = sw[t]
BY DEF IInv, Typed, SwFields

\* Messages concern no account.
LEMMA RecordAccts ==
  ASSUME IInv, NEW c, Record(c)
  PROVE  \A p \in Procs : AcctStays(p)
<1>1. CASE proc' = proc
  BY <1>1 DEF AcctStays
<1>2. CASE proc' = [proc EXCEPT ![reg].queued = Append(@, c[1])]
  BY <1>2 DEF IInv, Typed, ProcFields, AcctStays
<1> QED BY <1>1, <1>2 DEF Record

\* A message starts nothing.
LEMMA MessageHomes ==
  ASSUME IInv, HomeInv,
         (\E m \in Messages : Send(m)) \/ (\E c \in Calls : CallStep(c))
  PROVE  HomeInv'
<1>1. UNCHANGED <<reg, cont, overtaken, place, shared, entry, sw>>
  <2>1. CASE \E m \in Messages : Send(m)
    BY <2>1, Zenon DEF Send, switching, routes
  <2>2. CASE \E c \in Calls : CallStep(c)
    BY <2>2, Zenon DEF CallStep, WriteLine, StartTurn, switching, routes
  <2> QED BY <2>1, <2>2
<1>2. \A p \in Procs : AcctStays(p)
  <2>1. ASSUME NEW m \in Messages, Send(m) PROVE \A p \in Procs : AcctStays(p)
    BY <2>1, RecordAccts DEF Send
  <2>2. ASSUME NEW c \in Calls, WriteLine(c) PROVE \A p \in Procs : AcctStays(p)
    <3>1. CASE proc' = [proc EXCEPT ![calls[c].p].input = Append(@, c[1])]
      BY <3>1 DEF IInv, Typed, ProcFields, AcctStays
    <3>2. CASE proc' = [proc EXCEPT ![calls[c].p].queued = Without(@, c[1])]
      BY <3>2 DEF IInv, Typed, ProcFields, AcctStays
    <3> QED BY <2>2, <3>1, <3>2 DEF WriteLine
  <2>3. ASSUME NEW c \in Calls, StartTurn(c) PROVE \A p \in Procs : AcctStays(p)
    <3>1. proc' = [proc EXCEPT ![calls[c].p].turn = TRUE]
      BY <2>3 DEF StartTurn
    <3> QED BY <3>1 DEF IInv, Typed, ProcFields, AcctStays
  <2> QED BY <2>1, <2>2, <2>3 DEF CallStep
<1> QED BY <1>1, <1>2, SwitchesStay, HomeKept

\* A process that reads, answers, exits or is ended stays under its account;
\* the reaper forgets one that is no longer registered.
LEMMA ProcessHomes ==
  ASSUME IInv, HomeInv, NEW p \in Procs, TakesInput(p) \/ Result(p) \/ Exits(p) \/ Reaper(p)
  PROVE  HomeInv'
<1>0. DOMAIN proc = Procs /\ \A r \in Procs : DOMAIN proc[r] = ProcFields
  BY DEF IInv, Typed
<1>1. ASSUME \A r \in Procs : AcctStays(r), UNCHANGED <<reg, cont, overtaken, place, shared, entry, sw>>
      PROVE  HomeInv'
  BY <1>1, SwitchesStay, HomeKept
<1>2. CASE TakesInput(p)
  <2>1. proc' = [proc EXCEPT ![p].cur = Head(proc[p].input), ![p].input = Tail(@),
                             ![p].queued = Without(@, Head(proc[p].input))]
    BY <1>2 DEF TakesInput
  <2> QED BY <1>0, <1>1, <1>2, <2>1 DEF TakesInput, ProcFields, AcctStays, switching, routes
<1>3. CASE Result(p)
  BY <1>0, <1>1, <1>3 DEF Result, ProcFields, AcctStays, switching, routes
<1>4. CASE Exits(p) \/ Terminate(p)
  <2>1. proc' = [proc EXCEPT ![p].child = "ended", ![p].cur = NoMsg, ![p].input = <<>>]
        /\ UNCHANGED <<reg, cont, overtaken, place, shared, entry, sw>>
    BY <1>4 DEF Exits, Terminate, Ends, switching, routes
  <2> QED BY <1>0, <1>1, <2>1 DEF ProcFields, AcctStays
<1>5. CASE ReapClose(p)
  BY <1>0, <1>1, <1>5 DEF ReapClose, ProcFields, AcctStays, switching, routes
<1>6. CASE ReapRemove(p)
  <2>1. UNCHANGED <<proc, cont, overtaken, place, shared, entry, sw>> /\ reg' = 0
    BY <1>6 DEF ReapRemove, switching, routes
  <2> QED BY <2>1 DEF HomeInv, RegHome, FromHome, RunHome, ContHome, Home, Pending
<1>7. CASE Reaped(p)
  <2>1. /\ UNCHANGED <<reg, cont, overtaken, place, shared, entry, sw>>
        /\ reg # p /\ proc[p].child = "ended"
    BY <1>7 DEF Reaped, switching, routes
  <2>2. \A r \in Procs : r # p => proc'[r] = proc[r]
    BY <1>0, <1>7 DEF Reaped
  <2>3. \A a : Home(a)' = Home(a)
    BY <2>1 DEF Home
  <2>4. RegHome'
    BY <2>1, <2>2, <2>3 DEF HomeInv, RegHome, IInv, Typed, Procs
  <2>5. RunHome'
    BY <2>1, <2>2, <2>3 DEF HomeInv, RunHome, IInv, Fresh, FreshSwitch
  <2>6. ContHome'
    BY <2>1, <2>2, <2>3 DEF HomeInv, ContHome, Pending, IInv, Fresh, FreshCont
  <2> QED BY <2>1, <2>3, <2>4, <2>5, <2>6 DEF HomeInv, FromHome
<1> QED BY <1>2, <1>3, <1>4, <1>5, <1>6, <1>7 DEF Reaper

\* What is cancelled leaves the registry; a phase changes no switch.
LEMMA EntryStays ==
  ASSUME IInv, \/ entry' = entry \/ DropWaiting \/ entry' = NoEntry
               \/ \E s, ph : SetPhase(s, ph)
  PROVE  entry'.seq \in {entry.seq, 0}
<1>1. CASE entry' = entry \/ entry' = NoEntry \/ DropWaiting
  BY <1>1 DEF DropWaiting, NoEntry
<1>2. ASSUME NEW s, NEW ph, SetPhase(s, ph) PROVE entry'.seq \in {entry.seq, 0}
  BY <1>2 DEF SetPhase, IInv, Typed
<1> QED BY <1>1, <1>2

\* The steps of a switch that neither close a session, nor move, nor start one.
LEMMA QuietHomes ==
  ASSUME IInv, HomeInv, NEW s \in Requests,
         Wait(s) \/ Claim(s) \/ Finish(s) \/ Interrupt(s) \/ Ready(s) \/ TakeBack(s)
         \/ Settle(s) \/ Stop(s) \/ Stopped(s) \/ Hand(s) \/ Handed(s)
  PROVE  HomeInv'
<1>0. /\ DOMAIN proc = Procs /\ \A r \in Procs : DOMAIN proc[r] = ProcFields
      /\ DOMAIN sw = Requests /\ DOMAIN sw[s] = SwFields
  BY DEF IInv, Typed
<1>1. UNCHANGED <<reg, cont, overtaken, place, shared>>
  BY DEF Wait, Claim, Finish, Interrupt, Ready, TakeBack, Settle, Stop, Stopped, Hand, Handed,
         routes
<1>2. entry'.seq \in {entry.seq, 0}
  <2>1. \/ entry' = entry \/ entry' = NoEntry \/ SetPhase(s, "underway")
    BY DEF Wait, Claim, Finish, Interrupt, Ready, TakeBack, Settle, Stop, Stopped, Hand, Handed
  <2> QED BY <2>1, EntryStays
<1>3. \A r \in Procs : AcctStays(r)
  <2>1. CASE proc' = proc
    BY <2>1 DEF AcctStays
  <2>2. CASE Ready(s) /\ proc' = [proc EXCEPT ![reg].closing = FALSE]
    BY <1>0, <2>2 DEF ProcFields, AcctStays
  <2>3. CASE TakeBack(s) /\ proc' = [proc EXCEPT ![reg].input = GivenBack(@, Head(sw[s].snap))]
    BY <1>0, <2>3 DEF ProcFields, AcctStays
  <2>4. CASE Settle(s) /\ proc' = [proc EXCEPT ![reg].queued = Without(@, Head(sw[s].snap))]
    BY <1>0, <2>4 DEF ProcFields, AcctStays
  <2>5. CASE Record(<<Head(sw[s].held), "switch">>)
    BY <2>5, RecordAccts
  <2>6. CASE Wait(s) \/ Claim(s) \/ Finish(s) \/ Interrupt(s) \/ Stopped(s) \/ Handed(s)
    BY <2>1, <2>6 DEF Wait, Claim, Finish, Interrupt, Stopped, Handed
  <2>7. CASE Ready(s)
    BY <2>1, <2>2, <2>7 DEF Ready, Reopen
  <2>8. CASE TakeBack(s)
    BY <2>1, <2>3, <2>8 DEF TakeBack
  <2>9. CASE Settle(s)
    BY <2>1, <2>4, <2>9 DEF Settle
  <2>10. CASE Hand(s)
    BY <2>1, <2>5, <2>10 DEF Hand
  <2>11. CASE Stop(s)
    <3>1. CASE proc' = [proc EXCEPT ![reg].kill = TRUE]
      BY <1>0, <3>1 DEF ProcFields, AcctStays
    <3> QED BY <2>1, <2>11, <3>1 DEF Stop
  <2> QED BY <2>6, <2>7, <2>8, <2>9, <2>10, <2>11
<1>4. PICK l : /\ l \notin Starting
               /\ l \in Before => sw[s].pc \in Before
               /\ l \in Deep => sw[s].pc \in Deep
               /\ \A t \in Requests : t # s => sw'[t] = sw[t]
               /\ sw'[s].pc = l
               /\ l \in Before => sw'[s].from = sw[s].from
  <2> DEFINE Leads(l, from) == /\ sw[s].pc \in from /\ sw'[s].pc = l /\ sw'[s].from = sw[s].from
                              /\ \A t \in Requests : t # s => sw'[t] = sw[t]
  <2>1. CASE Wait(s)
    <3>1. \E l \in {"done", "finish", "claim"} : Leads(l, {"wait"})
      BY <2>1, OnlyPc DEF Wait, To
    <3> QED BY <3>1 DEF Starting, Before, Deep
  <2>2. CASE Claim(s)
    <3>1. \E l \in {"reclose", "done"} : Leads(l, {"claim"})
      BY <2>2, OnlyPc DEF Claim, To
    <3> QED BY <3>1 DEF Starting, Before, Deep
  <2>3. CASE Finish(s)
    <3>1. sw'[s].pc = "done" /\ \A t \in Requests : t # s => sw'[t] = sw[t]
      BY <1>0, <2>3 DEF Finish, Asleep
    <3> QED BY <3>1 DEF Starting, Before, Deep
  <2>4. CASE Interrupt(s)
    <3>1. Leads("stop", {"interrupt"})
      BY <2>4, OnlyPc DEF Interrupt, To
    <3> QED BY <3>1 DEF Starting, Before, Deep
  <2>5. CASE Ready(s)
    <3>1. \E l \in {"takeBack", "stop", "finish"} : Leads(l, {"ready"})
      BY <2>5, OnlyPc DEF Ready, To
    <3> QED BY <3>1 DEF Starting, Before, Deep
  <2>6. CASE TakeBack(s)
    <3>1. \E l \in {"interrupt", "takeBack", "settle"} : Leads(l, {"takeBack"})
      <4>1. /\ sw[s].pc = "takeBack"
            /\ \/ sw' = [sw EXCEPT ![s].snap = Tail(@)]
               \/ sw' = [sw EXCEPT ![s].pc = "interrupt"]
               \/ sw' = [sw EXCEPT ![s].pc = "settle"]
        BY <2>6 DEF TakeBack, To
      <4>2. CASE sw' = [sw EXCEPT ![s].snap = Tail(@)]
        BY <1>0, <4>1, <4>2 DEF SwFields
      <4>3. CASE sw' = [sw EXCEPT ![s].pc = "interrupt"]
        BY <4>1, <4>3, OnlyPc
      <4>4. CASE sw' = [sw EXCEPT ![s].pc = "settle"]
        BY <4>1, <4>4, OnlyPc
      <4> QED BY <4>1, <4>2, <4>3, <4>4
    <3> QED BY <3>1 DEF Starting, Before, Deep
  <2>7. CASE Settle(s)
    <3>1. Leads("takeBack", {"settle"})
      BY <1>0, <2>7 DEF Settle, SwFields
    <3> QED BY <3>1 DEF Starting, Before, Deep
  <2>8. CASE Hand(s)
    <3>1. \E l \in {"finish", "handing"} : Leads(l, {"hand"})
      <4>1. /\ sw[s].pc = "hand"
            /\ \/ sw' = [sw EXCEPT ![s].pc = "finish"]
               \/ sw' = [sw EXCEPT ![s].pc = "handing"]
        BY <2>8 DEF Hand, To
      <4>2. CASE sw' = [sw EXCEPT ![s].pc = "finish"]
        BY <4>1, <4>2, OnlyPc
      <4>3. CASE sw' = [sw EXCEPT ![s].pc = "handing"]
        BY <4>1, <4>3, OnlyPc
      <4> QED BY <4>1, <4>2, <4>3
    <3> QED BY <3>1 DEF Starting, Before, Deep
  <2>9. CASE Handed(s)
    <3>1. Leads("hand", {"handing"})
      BY <1>0, <2>9 DEF Handed, SwFields
    <3> QED BY <3>1 DEF Starting, Before, Deep
  <2>10. CASE Stop(s)
    <3>1. \E l \in {"move", "stopping"} : Leads(l, {"stop"})
      BY <1>0, <2>10 DEF Stop, To, SwFields
    <3> QED BY <3>1 DEF Starting, Before, Deep
  <2>11. CASE Stopped(s)
    <3>1. \E l \in {"move", "finish"} : Leads(l, {"stopping"})
      BY <2>11, OnlyPc DEF Stopped, To
    <3> QED BY <3>1 DEF Starting, Before, Deep
  <2> QED BY <2>1, <2>2, <2>3, <2>4, <2>5, <2>6, <2>7, <2>8, <2>9, <2>10, <2>11
<1>5. \A t \in Requests : SwitchStays(t)
  BY <1>4, SwitchGoesOn
<1> QED BY <1>1, <1>2, <1>3, <1>5, HomeKept

\* A switch that holds the session is the only one.
LEMMA OnlyHolder ==
  ASSUME IInv, NEW s \in Requests, sw[s].pc \in Holding, NEW t \in Requests, t # s
  PROVE  sw[t].pc \notin Holding /\ entry.seq = s /\ entry.seq # t
BY DEF IInv, Held

\* A switch closes a session that has a process: every pending continue was
\* overtaken.
LEMMA CloseHomes ==
  ASSUME IInv, HomeInv, NEW s \in Requests, Close(s)
  PROVE  HomeInv'
<1>0. /\ DOMAIN proc = Procs /\ \A r \in Procs : DOMAIN proc[r] = ProcFields
      /\ DOMAIN sw = Requests /\ DOMAIN sw[s] = SwFields
      /\ sw[s].pc \in {"close", "reclose"} /\ UNCHANGED <<reg, cont, overtaken, place, shared>>
  BY DEF IInv, Typed, Close, routes
<1>1. CASE (\E l \in {"finish", "wait"} : sw' = [sw EXCEPT ![s].pc = l]) /\ proc' = proc
           /\ (entry' = entry \/ SetPhase(s, "waiting"))
  <2>1. entry'.seq \in {entry.seq, 0}
    BY <1>1, EntryStays
  <2>2. PICK l \in {"finish", "wait"} : sw' = [sw EXCEPT ![s].pc = l]
    BY <1>1
  <2>3. \A t \in Requests : SwitchStays(t)
    BY <1>0, <2>2, OnlyPc, SwitchGoesOn DEF Before, Deep, Starting
  <2>4. \A p \in Procs : AcctStays(p)
    BY <1>1 DEF AcctStays
  <2> QED BY <1>0, <2>1, <2>3, <2>4, HomeKept
<1>2. CASE /\ reg # 0 /\ proc' = [proc EXCEPT ![reg].closing = TRUE] /\ entry' = entry
           /\ sw' = [sw EXCEPT ![s].pc = "ready", ![s].p = reg, ![s].snap = proc[reg].queued]
  <2>1. /\ sw'[s].pc = "ready" /\ sw'[s].from = sw[s].from
        /\ \A t \in Requests : t # s => sw'[t] = sw[t]
    BY <1>0, <1>2 DEF SwFields
  <2>2. \A p \in Procs : AcctStays(p)
    BY <1>0, <1>2 DEF ProcFields, AcctStays
  <2>3. \A a : Home(a)' = Home(a)
    BY <1>0 DEF Home
  <2>4. RegHome'
    BY <1>0, <2>2, <2>3 DEF HomeInv, RegHome, IInv, Typed, Procs, AcctStays
  <2>5. FromHome'
    BY <1>0, <1>2, <2>1, <2>3 DEF HomeInv, FromHome, Before
  <2>6. RunHome'
    BY <1>0, <2>1, <2>2, <2>3 DEF HomeInv, RunHome, IInv, Fresh, FreshSwitch, AcctStays, Starting
  <2>7. ContHome'
    BY <1>0, <1>2, <2>2, <2>3 DEF HomeInv, ContHome, Pending, IInv, Fresh, FreshCont, AcctStays
  <2> QED BY <2>4, <2>5, <2>6, <2>7 DEF HomeInv
<1> QED BY <1>1, <1>2 DEF Close, To

\* A switch that is to move the conversation or to start a process: it is the
\* only one, and every pending continue was overtaken.
LEMMA OnlyStarter ==
  ASSUME IInv, HomeInv, NEW s \in Requests, sw[s].pc \in {"move", "undo", "launch", "register"}
  PROVE  /\ \A c \in Conts : Pending(c) => c \in overtaken
         /\ \A t \in Requests : t # s => sw[t].pc \notin Starting /\ entry.seq # t
         /\ entry.seq = s
<1>1. sw[s].pc \in Deep /\ sw[s].pc \in Holding
  BY DEF Deep, Holding
<1>2. \A t \in Requests : t # s => sw[t].pc \notin Holding /\ entry.seq # t
  BY <1>1, OnlyHolder
<1>3. Starting \subseteq Holding
  BY DEF Starting, Holding
<1> QED BY <1>1, <1>2, <1>3 DEF HomeInv, ContHome, IInv, Held

\* The conversation moves, or stays: the switch starts a process where it is.
LEMMA MoveHomes ==
  ASSUME IInv, HomeInv, NEW s \in Requests, Move(s) \/ Undo(s)
  PROVE  HomeInv'
<1>0. /\ DOMAIN sw = Requests /\ DOMAIN sw[s] = SwFields
      /\ sw[s].pc \in {"move", "undo"} /\ UNCHANGED <<proc, reg, cont, overtaken, shared, entry>>
  BY DEF IInv, Typed, Move, Undo, routes
<1>1. /\ \A c \in Conts : Pending(c) => c \in overtaken
      /\ \A t \in Requests : t # s => sw[t].pc \notin Starting /\ entry.seq # t
      /\ sw[s].pc = "move" => Home(sw[s].from) = place
  BY <1>0, OnlyStarter DEF HomeInv, FromHome, Before
<1>2. \A t \in Requests : t # s => sw'[t] = sw[t]
  BY <1>0 DEF Move, Undo, To
<1>3. \/ sw'[s].pc = "launch" /\ Home(sw'[s].run) = place'
      \/ sw'[s].pc = "finish"
  <2>1. CASE Move(s) /\ place' = Home(sw[s].to)
             /\ sw' = [sw EXCEPT ![s].pc = "launch", ![s].run = sw[s].to]
    BY <1>0, <2>1 DEF SwFields
  <2>2. CASE Move(s) /\ place' = place
             /\ sw' = [sw EXCEPT ![s].pc = "launch", ![s].run = sw[s].from]
    BY <1>0, <1>1, <2>2 DEF SwFields, Move
  <2>3. CASE Undo(s) /\ place' = Home(sw[s].from)
             /\ sw' = [sw EXCEPT ![s].pc = "launch", ![s].run = sw[s].from]
    BY <1>0, <2>3 DEF SwFields
  <2>4. CASE sw' = [sw EXCEPT ![s].pc = "finish"]
    BY <1>0, <2>4 DEF SwFields
  <2>5. CASE Move(s)
    BY <2>1, <2>2, <2>5 DEF Move
  <2>6. CASE Undo(s)
    BY <2>3, <2>4, <2>6 DEF Undo, To
  <2> QED BY <2>5, <2>6
<1>4. \A a : Home(a)' = Home(a)
  BY <1>0 DEF Home
<1>5. place' = place \/ reg = 0 \/ \A a, b : Home(a) = Home(b)
  BY DEF Move, Undo, Home
<1>6. place' = place \/ \E a : place' = Home(a)
  BY DEF Move, Undo
<1>7. RegHome'
  BY <1>0, <1>4, <1>5, <1>6 DEF HomeInv, RegHome
<1>8. FromHome'
  BY <1>0, <1>1, <1>2, <1>3 DEF FromHome, Before
<1>9. RunHome'
  BY <1>0, <1>1, <1>2, <1>3, <1>4 DEF RunHome, Starting
<1>10. ContHome'
  BY <1>0, <1>1 DEF HomeInv, ContHome, Pending
<1> QED BY <1>7, <1>8, <1>9, <1>10 DEF HomeInv

\* A child runs under the account it was started for.
LEMMA StartedAcct ==
  ASSUME IInv, NEW a, NEW b, StartChild(a, b)
  PROVE  /\ reg = 0 /\ NextProc \in Procs /\ proc[NextProc].child = "none"
         /\ proc'[NextProc].acct = a
         /\ \A p \in Procs : p # NextProc => proc'[p] = proc[p]
<1>1. reg = 0 /\ NextProc \in Procs /\ proc[NextProc].child = "none"
  BY Started DEF Starts
<1> HIDE DEF NextProc
<1>2. proc' = [proc EXCEPT ![NextProc].child = "up", ![NextProc].acct = a, ![NextProc].by = b]
  BY DEF StartChild
<1> QED BY <1>1, <1>2 DEF IInv, Typed, ProcFields

\* A child that is started is nobody's yet: those of the others stay.
LEMMA StartedElse ==
  ASSUME IInv, NEW p \in Procs, proc[p].child = "none",
         \A q \in Procs : q # p => proc'[q] = proc[q]
  PROVE  /\ \A s \in Requests : sw[s].pc = "register" => proc'[sw[s].p] = proc[sw[s].p]
         /\ \A c \in Conts : cont[c].pc = "register" => proc'[cont[c].p] = proc[cont[c].p]
<1>1. \A s \in Requests : sw[s].pc = "register" => sw[s].p \in Procs /\ proc[sw[s].p].child = "up"
  BY DEF IInv, Fresh, FreshSwitch
<1>2. \A c \in Conts : cont[c].pc = "register" => cont[c].p \in Procs /\ proc[cont[c].p].child = "up"
  BY DEF IInv, Fresh, FreshCont
<1> QED BY <1>1, <1>2

\* A switch starts a process where the conversation is, or none.
LEMMA LaunchHomes ==
  ASSUME IInv, HomeInv, NEW s \in Requests, Launch(s)
  PROVE  HomeInv'
<1>0. /\ DOMAIN sw = Requests /\ DOMAIN sw[s] = SwFields
      /\ sw[s].pc = "launch" /\ UNCHANGED <<reg, cont, overtaken, place, shared, entry>>
  BY DEF IInv, Typed, Launch, routes
<1>1. /\ \A c \in Conts : Pending(c) => c \in overtaken
      /\ \A t \in Requests : t # s => sw[t].pc \notin Starting /\ entry.seq # t
      /\ Home(sw[s].run) = place
  BY <1>0, OnlyStarter DEF HomeInv, RunHome, Starting
<1>2. \A a : Home(a)' = Home(a)
  BY <1>0 DEF Home
<1>3. /\ sw'[s].run = sw[s].run /\ \A t \in Requests : t # s => sw'[t] = sw[t]
      /\ \/ sw'[s].pc \in {"finish", "undo"}
         \/ sw'[s].pc = "register" /\ proc'[sw'[s].p].acct = sw[s].run
  <2>1. CASE StartChild(sw[s].run, s)
             /\ sw' = [sw EXCEPT ![s].pc = "register", ![s].p = NextProc]
    <3>1. proc'[NextProc].acct = sw[s].run
      BY <2>1, StartedAcct
    <3> HIDE DEF NextProc
    <3> QED BY <1>0, <2>1, <3>1 DEF SwFields
  <2>2. CASE sw' = [sw EXCEPT ![s].pc = AfterFailure(s)]
    <3>1. AfterFailure(s) \in {"finish", "undo"}
      BY DEF AfterFailure
    <3> QED BY <1>0, <2>2, <3>1, OnlyPc
  <2> QED BY <2>1, <2>2, Zenon DEF Launch, To
<1>4. /\ reg # 0 => proc'[reg] = proc[reg]
      /\ \A c \in Conts : cont[c].pc = "register" => proc'[cont[c].p] = proc[cont[c].p]
  <2>1. CASE StartChild(sw[s].run, s)
    BY <2>1, StartedAcct, StartedElse, Zenon
  <2> QED BY <2>1 DEF Launch
<1>5. RegHome'
  BY <1>0, <1>2, <1>4 DEF HomeInv, RegHome
<1>6. FromHome'
  BY <1>0, <1>1, <1>3 DEF FromHome, Before
<1>7. RunHome'
  BY <1>0, <1>1, <1>2, <1>3 DEF RunHome, Starting
<1>8. ContHome'
  BY <1>0, <1>1, <1>4 DEF HomeInv, ContHome, Pending
<1> QED BY <1>5, <1>6, <1>7, <1>8 DEF HomeInv

\* What asking the registry leaves, and whom it overtakes.
LEMMA EnterAccts ==
  ASSUME IInv, NEW p \in Procs, Enter(p)
  PROVE  /\ \A q \in Procs : AcctStays(q)
         /\ overtaken \subseteq overtaken'
         /\ reg = 0 => reg' = p /\ \A c \in Conts : Pending(c) => c \in overtaken'
         /\ reg # 0 => reg' = reg
<1>1. \A q \in Procs : AcctStays(q)
  <2>1. CASE proc' = [proc EXCEPT ![p].alive = TRUE]
    BY <2>1 DEF IInv, Typed, ProcFields, AcctStays
  <2>2. CASE proc' = [proc EXCEPT ![p].kill = TRUE]
    BY <2>2 DEF IInv, Typed, ProcFields, AcctStays
  <2> QED BY <2>1, <2>2 DEF Enter
<1> QED BY <1>1 DEF Enter

\* The process it started is registered, or told to end beside another.
LEMMA RegisterHomes ==
  ASSUME IInv, HomeInv, NEW s \in Requests, Register(s)
  PROVE  HomeInv'
<1>0. /\ DOMAIN sw = Requests /\ DOMAIN sw[s] = SwFields
      /\ sw[s].pc = "register" /\ UNCHANGED <<cont, place, shared, entry>>
  BY DEF IInv, Typed, Register
<1>1. /\ \A c \in Conts : Pending(c) => c \in overtaken
      /\ \A t \in Requests : t # s => sw[t].pc \notin Starting /\ entry.seq # t
      /\ Home(sw[s].run) = place /\ proc[sw[s].p].acct = sw[s].run /\ sw[s].p \in Procs
  BY <1>0, OnlyStarter DEF HomeInv, RunHome, Starting, IInv, Fresh, FreshSwitch
<1>2. \A a : Home(a)' = Home(a)
  BY <1>0 DEF Home
<1>3. sw'[s].pc \notin Starting \cup Before /\ \A t \in Requests : t # s => sw'[t] = sw[t]
  <2>1. AfterFailure(s) \in {"finish", "undo"}
    BY DEF AfterFailure
  <2> DEFINE l == IF reg = 0 THEN "hand" ELSE AfterFailure(s)
  <2>2. sw' = [sw EXCEPT ![s].pc = l]
    BY DEF Register, To
  <2>3. l \notin Starting \cup Before
    BY <2>1 DEF Starting, Before
  <2> HIDE DEF l
  <2> QED BY <2>2, <2>3, OnlyPc
<1>4. /\ \A q \in Procs : AcctStays(q)
      /\ overtaken \subseteq overtaken'
      /\ reg' = IF reg = 0 THEN sw[s].p ELSE reg
  BY <1>1, EnterAccts DEF Register
<1>5. RegHome'
  BY <1>0, <1>1, <1>2, <1>4 DEF HomeInv, RegHome, IInv, Typed, Procs, AcctStays
<1>6. FromHome'
  BY <1>0, <1>1, <1>3 DEF FromHome
<1>7. RunHome'
  BY <1>0, <1>1, <1>3 DEF RunHome, Starting
<1>8. ContHome'
  BY <1>0, <1>1, <1>4 DEF HomeInv, ContHome, Pending, IInv, Fresh, FreshCont, AcctStays
<1> QED BY <1>5, <1>6, <1>7, <1>8 DEF HomeInv

\* A switch is asked for of a process, and notes its account.
LEMMA AskHomes ==
  ASSUME IInv, HomeInv, NEW s \in Requests, NEW to, NEW when, Ask(s, to, when)
  PROVE  HomeInv'
<1>0. /\ DOMAIN sw = Requests /\ DOMAIN sw[s] = SwFields
      /\ sw[s].pc = "idle" /\ reg # 0 /\ UNCHANGED <<proc, reg, cont, overtaken, place, shared>>
  BY DEF IInv, Typed, Ask, routes
<1>1. CASE sw' = [sw EXCEPT ![s].pc = "done"] /\ (DropWaiting \/ entry' = entry)
  <2>1. entry'.seq \in {entry.seq, 0}
    BY <1>1, EntryStays
  <2>2. \A t \in Requests : SwitchStays(t)
    BY <1>0, <1>1, OnlyPc, SwitchGoesOn DEF Before, Deep, Starting
  <2>3. \A p \in Procs : AcctStays(p)
    BY <1>0 DEF AcctStays
  <2> QED BY <1>0, <2>1, <2>2, <2>3, HomeKept
<1>2. CASE /\ sw' = [sw EXCEPT ![s] = [Asleep EXCEPT !.pc = "close", !.when = when,
                                          !.from = proc[reg].acct, !.to = to]]
           /\ entry' = [seq |-> s, phase |-> "underway"]
  <2>1. /\ sw'[s].pc = "close" /\ sw'[s].from = proc[reg].acct /\ entry'.seq = s
        /\ \A t \in Requests : t # s => sw'[t] = sw[t]
    BY <1>0, <1>2 DEF Asleep
  <2>2. \A a : Home(a)' = Home(a)
    BY <1>0 DEF Home
  <2>3. RegHome'
    BY <1>0, <2>2 DEF HomeInv, RegHome
  <2>4. FromHome'
    BY <1>0, <2>1, <2>2 DEF HomeInv, RegHome, FromHome
  <2>5. RunHome'
    BY <1>0, <2>1, <2>2 DEF HomeInv, RunHome, Starting
  <2>6. ContHome'
    BY <1>0 DEF HomeInv, ContHome, Pending
  <2> QED BY <2>3, <2>4, <2>5, <2>6 DEF HomeInv
<1> QED BY <1>1, <1>2 DEF Ask, To

\* A cancelled switch does nothing; a kill moves nothing.
LEMMA RouteHomes ==
  ASSUME IInv, HomeInv, CancelWaiting \/ StopRoute \/ StopKill
  PROVE  HomeInv'
<1>1. UNCHANGED <<reg, cont, overtaken, place, shared, sw>>
  BY DEF CancelWaiting, StopRoute, StopKill, switching, routes
<1>2. entry'.seq \in {entry.seq, 0}
  <2>1. DropWaiting \/ entry' = entry
    BY DEF CancelWaiting, StopRoute, StopKill, switching
  <2> QED BY <2>1, EntryStays
<1>3. \A p \in Procs : AcctStays(p)
  <2>1. CASE proc' = proc
    BY <2>1 DEF AcctStays
  <2>2. CASE proc' = [proc EXCEPT ![reg].kill = TRUE]
    BY <2>2 DEF IInv, Typed, ProcFields, AcctStays
  <2> QED BY <2>1, <2>2 DEF CancelWaiting, StopRoute, StopKill
<1> QED BY <1>1, <1>2, <1>3, SwitchesStay, HomeKept

\* What a step of a continue leaves of the rest.
LEMMA ContinueRest ==
  ASSUME IInv, HomeInv, NEW c \in Conts, Continue(c) \/ ContinueLaunch(c) \/ ContinueRegister(c)
  PROVE  /\ UNCHANGED <<place, shared, entry, sw>>
         /\ \A a : Home(a)' = Home(a)
         /\ FromHome'
         /\ \A d \in Conts : d # c => cont'[d] = cont[d]
<1>1. UNCHANGED <<place, shared, entry, sw>>
  <2>1. CASE Continue(c)
    BY <2>1, Zenon DEF Continue, switching
  <2>2. CASE ContinueLaunch(c) \/ ContinueRegister(c)
    BY <2>2 DEF ContinueLaunch, ContinueRegister, switching
  <2> QED BY <2>1, <2>2
<1>2. \A a : Home(a)' = Home(a)
  BY <1>1 DEF Home
<1>3. FromHome'
  BY <1>1, <1>2 DEF HomeInv, FromHome
<1>4. \A d \in Conts : d # c => cont'[d] = cont[d]
  <2>1. CASE Continue(c)
    <3>1. \E a : cont' = [cont EXCEPT ![c] = [@ EXCEPT !.pc = "launch", !.acct = a]]
      BY <2>1, Zenon DEF Continue
    <3> QED BY <3>1 DEF IInv, Typed
  <2>2. CASE ContinueLaunch(c)
    <3>1. \/ cont' = [cont EXCEPT ![c] = [Unasked EXCEPT !.pc = "done"]]
          \/ \E n : cont' = [cont EXCEPT ![c].pc = "register", ![c].p = n]
      BY <2>2, Zenon DEF ContinueLaunch
    <3>2. ASSUME NEW n, cont' = [cont EXCEPT ![c].pc = "register", ![c].p = n]
          PROVE  \A d \in Conts : d # c => cont'[d] = cont[d]
      BY <3>2 DEF IInv, Typed
    <3>3. CASE cont' = [cont EXCEPT ![c] = [Unasked EXCEPT !.pc = "done"]]
      BY <3>3 DEF IInv, Typed
    <3> QED BY <3>1, <3>2, <3>3, Zenon
  <2>3. CASE ContinueRegister(c)
    BY <2>3 DEF ContinueRegister, IInv, Typed
  <2> QED BY <2>1, <2>2, <2>3
<1> QED BY <1>1, <1>2, <1>3, <1>4

\* A continue begins where the transcript is, beside no process and no switch.
LEMMA ContinueHomes ==
  ASSUME IInv, HomeInv, NEW c \in Conts, Continue(c)
  PROVE  HomeInv'
<1>1. /\ UNCHANGED <<place, shared, entry, sw>> /\ (\A a : Home(a)' = Home(a)) /\ FromHome'
      /\ \A d \in Conts : d # c => cont'[d] = cont[d]
  BY ContinueRest
<1>2. reg = 0 /\ ~Underway /\ reg' = reg /\ proc' = proc /\ overtaken' = overtaken
  BY Zenon DEF Continue
<1>3. cont'[c].pc = "launch" /\ Home(cont'[c].acct) = place
  <2>1. PICK a : Home(a) = place
                 /\ cont' = [cont EXCEPT ![c] = [@ EXCEPT !.pc = "launch", !.acct = a]]
    BY Zenon DEF Continue
  <2> QED BY <2>1 DEF IInv, Typed
<1>4. \A s \in Requests : sw[s].pc \notin Deep
  BY <1>2 DEF IInv, Held, Underway, Holding, Deep
<1>5. ContHome'
  BY <1>1, <1>2, <1>3, <1>4 DEF HomeInv, ContHome, Pending
<1>6. RegHome' /\ RunHome'
  BY <1>1, <1>2 DEF HomeInv, RegHome, RunHome
<1> QED BY <1>1, <1>5, <1>6 DEF HomeInv

\* Its process is started under the account it noted, unless there is one now.
LEMMA ContinueLaunchHomes ==
  ASSUME IInv, HomeInv, NEW c \in Conts, ContinueLaunch(c)
  PROVE  HomeInv'
<1>0. /\ UNCHANGED <<place, shared, entry, sw>> /\ (\A a : Home(a)' = Home(a)) /\ FromHome'
      /\ \A d \in Conts : d # c => cont'[d] = cont[d]
  BY ContinueRest
<1>1. cont[c].pc = "launch" /\ reg' = reg /\ overtaken' = overtaken
  BY Zenon DEF ContinueLaunch
<1>2. CASE proc' = proc /\ cont' = [cont EXCEPT ![c] = [Unasked EXCEPT !.pc = "done"]]
  <2>1. cont'[c].pc = "done"
    BY <1>2 DEF IInv, Typed, Unasked
  <2> QED BY <1>0, <1>1, <1>2, <2>1 DEF HomeInv, RegHome, RunHome, ContHome, Pending
<1>3. CASE StartChild(cont[c].acct, 0) /\ cont' = [cont EXCEPT ![c].pc = "register", ![c].p = NextProc]
  <2>1. /\ NextProc \in Procs /\ proc'[NextProc].acct = cont[c].acct
        /\ proc[NextProc].child = "none"
        /\ \A p \in Procs : p # NextProc => proc'[p] = proc[p]
    BY <1>3, StartedAcct
  <2> HIDE DEF NextProc
  <2>2. cont'[c].pc = "register" /\ cont'[c].acct = cont[c].acct /\ cont'[c].p = NextProc
    BY <1>3 DEF IInv, Typed
  <2>3. /\ \A s \in Requests : sw[s].pc = "register" => proc'[sw[s].p] = proc[sw[s].p]
        /\ \A d \in Conts : cont[d].pc = "register" => proc'[cont[d].p] = proc[cont[d].p]
    BY <2>1, StartedElse
  <2>4. reg = 0
    BY <1>3, StartedAcct
  <2>5. ContHome'
    BY <1>0, <1>1, <2>1, <2>2, <2>3 DEF HomeInv, ContHome, Pending
  <2>6. RegHome' /\ RunHome'
    BY <1>0, <1>1, <2>3, <2>4 DEF HomeInv, RegHome, RunHome
  <2> QED BY <1>0, <2>5, <2>6 DEF HomeInv
<1> QED BY <1>2, <1>3, Zenon DEF ContinueLaunch

\* And registered: at home if no process was since it looked, and if it is not
\* late otherwise.
LEMMA ContinueRegisterHomes ==
  ASSUME IInv, HomeInv, NEW c \in Conts, ContinueRegister(c), ~late'
  PROVE  HomeInv'
<1>0. /\ UNCHANGED <<place, shared, entry, sw>> /\ (\A a : Home(a)' = Home(a)) /\ FromHome'
      /\ \A d \in Conts : d # c => cont'[d] = cont[d]
  BY ContinueRest
<1>1. /\ cont[c].pc = "register" /\ cont[c].p \in Procs /\ Enter(cont[c].p)
      /\ proc[cont[c].p].acct = cont[c].acct
  BY DEF ContinueRegister, HomeInv, ContHome, Pending, IInv, Fresh, FreshCont
<1>2. reg = 0 => Home(cont[c].acct) = place
  <2>1. CASE c \in overtaken
    BY <2>1 DEF ContinueRegister
  <2>2. CASE c \notin overtaken
    BY <1>1, <2>2 DEF HomeInv, ContHome, Pending
  <2> QED BY <2>1, <2>2
<1>3. /\ \A q \in Procs : AcctStays(q)
      /\ overtaken \subseteq overtaken'
      /\ reg = 0 => reg' = cont[c].p /\ \A d \in Conts : Pending(d) => d \in overtaken'
      /\ reg # 0 => reg' = reg
  BY <1>1, EnterAccts
<1>4. RegHome'
  BY <1>0, <1>1, <1>2, <1>3 DEF HomeInv, RegHome, IInv, Typed, Procs, AcctStays
<1>5. RunHome'
  BY <1>0, <1>3 DEF HomeInv, RunHome, IInv, Fresh, FreshSwitch, AcctStays
<1>6. ContHome'
  <2>1. cont'[c].pc = "done"
    BY DEF ContinueRegister, IInv, Typed, Unasked
  <2>2. ASSUME NEW d \in Conts, Pending(d)'
        PROVE  /\ d # c /\ cont'[d] = cont[d] /\ Pending(d)
               /\ cont[d].pc = "register" => cont[d].p \in Procs
    BY <1>0, <2>1, <2>2 DEF Pending, IInv, Fresh, FreshCont
  <2> QED BY <1>0, <1>3, <2>2 DEF HomeInv, ContHome, AcctStays
<1> QED BY <1>0, <1>4, <1>5, <1>6 DEF HomeInv

\* The first process runs where the transcript is.
LEMMA InitHomes ==
  ASSUME Init
  PROVE  HomeInv
<1>1. reg = 1 /\ 1 \in Procs /\ place = "A" /\ entry = NoEntry
  BY DEF Init, Procs
<1>2. \A p \in Procs : proc[p].acct = "A"
  BY DEF Init, NoProc
<1>3. \A s \in Requests : sw[s].pc = "idle"
  BY DEF Init, Asleep
<1>4. \A c \in Conts : cont[c].pc = "idle"
  BY DEF Init, Unasked
<1>5. RegHome
  BY <1>1, <1>2 DEF RegHome, Home
<1>6. FromHome /\ RunHome
  BY <1>3 DEF FromHome, RunHome, Before, Starting
<1>7. ContHome
  BY <1>4 DEF ContHome, Pending
<1> QED BY <1>5, <1>6, <1>7 DEF HomeInv

\* Every step keeps it, but for a late continue.
LEMMA StepHomes ==
  ASSUME IInv, HomeInv, ~late', [Next]_vars
  PROVE  HomeInv'
<1>1. ASSUME NEW m \in Messages, Send(m) PROVE HomeInv'
  BY <1>1, MessageHomes
<1>2. ASSUME NEW c \in Calls, CallStep(c) PROVE HomeInv'
  BY <1>2, MessageHomes
<1>3. ASSUME NEW p \in Procs, TakesInput(p) \/ Result(p) \/ Exits(p) \/ Reaper(p) PROVE HomeInv'
  BY <1>3, ProcessHomes
<1>4. ASSUME NEW s \in Requests, SwitchStep(s) PROVE HomeInv'
  BY <1>4, QuietHomes, CloseHomes, MoveHomes, LaunchHomes, RegisterHomes DEF SwitchStep
<1>5. ASSUME NEW s \in Requests, NEW to \in Accounts, NEW when \in {"now", "idle"},
             Ask(s, to, when)
      PROVE HomeInv'
  BY <1>5, AskHomes
<1>6. ASSUME CancelWaiting \/ StopRoute \/ StopKill PROVE HomeInv'
  BY <1>6, RouteHomes
<1>7. ASSUME NEW c \in Conts, Continue(c) \/ ContinueLaunch(c) \/ ContinueRegister(c)
      PROVE HomeInv'
  BY <1>7, ContinueHomes, ContinueLaunchHomes, ContinueRegisterHomes
<1>8. ASSUME UNCHANGED vars PROVE HomeInv'
  <2>1. UNCHANGED <<proc, reg, cont, overtaken, place, shared, entry, sw>>
    BY <1>8 DEF vars, switching, routes
  <2> QED BY <2>1 DEF HomeInv, RegHome, FromHome, RunHome, ContHome, Home, Pending
<1> QED BY <1>1, <1>2, <1>3, <1>4, <1>5, <1>6, <1>7, <1>8 DEF Next

\* Nothing undoes a late continue.
LEMMA LateStays ==
  ASSUME late, [Next]_vars
  PROVE  late'
<1>1. ASSUME Next PROVE late'
  <2>1. ASSUME NEW s \in Requests, SwitchStep(s) PROVE late'
    BY <2>1 DEF SwitchStep, Close, Wait, Claim, Finish, Ready, TakeBack, Settle, Interrupt, Stop,
                Stopped, Move, Launch, Register, Undo, Hand, Handed, routes
  <2>2. ASSUME NEW c \in Conts, Continue(c) \/ ContinueLaunch(c) \/ ContinueRegister(c)
        PROVE  late'
    BY <2>2, Zenon DEF Continue, ContinueLaunch, ContinueRegister
  <2>3. ASSUME NEW p \in Procs, TakesInput(p) \/ Result(p) \/ Exits(p) \/ Reaper(p) PROVE late'
    BY <2>3, Zenon DEF TakesInput, Result, Exits, Reaper, Terminate, ReapClose, ReapRemove, Reaped,
                       routes
  <2>4. ASSUME NEW m \in Messages, Send(m) PROVE late'
    BY <2>4, Zenon DEF Send, routes
  <2>5. ASSUME NEW c \in Calls, CallStep(c) PROVE late'
    BY <2>5, Zenon DEF CallStep, WriteLine, StartTurn, routes
  <2>6. ASSUME NEW s, NEW to, NEW when, Ask(s, to, when) PROVE late'
    BY <2>6, Zenon DEF Ask, routes
  <2>7. ASSUME CancelWaiting \/ StopRoute \/ StopKill PROVE late'
    BY <2>7, Zenon DEF CancelWaiting, StopRoute, StopKill, routes
  <2> QED BY <1>1, <2>1, <2>2, <2>3, <2>4, <2>5, <2>6, <2>7 DEF Next
<1>2. ASSUME UNCHANGED vars PROVE late'
  BY <1>2 DEF vars, routes
<1> QED BY <1>1, <1>2

\* The registered process runs under the account whose directory holds the
\* transcript, also after a failed move, start or undo, until a continue that
\* another process overtook registers one elsewhere (run_owned, continue_as).
THEOREM RunsAtHomeCorrect == Spec => []RunsAtHome
<1>1. Init => late \/ HomeInv
  BY InitHomes
<1>2. IInv /\ (late \/ HomeInv) /\ [Next]_vars => (late \/ HomeInv)'
  BY StepHomes, LateStays
<1>3. IInv /\ (late \/ HomeInv) => RunsAtHome
  BY DEF IInv, Alone, Procs, HomeInv, RegHome, RunsAtHome
<1> QED BY <1>1, <1>2, <1>3, Invariance, PTL DEF Spec

=============================================================================
