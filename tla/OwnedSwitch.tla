----------------------------- MODULE OwnedSwitch -----------------------------
(***************************************************************************)
(* One session that Mother Claude runs as a child process, its messages,   *)
(* and the switch of its account (claude/control.rs, owned.rs, switch.rs). *)
(*                                                                         *)
(* Processes are numbered in the order they start; at most one is          *)
(* registered (handles).  A step is what one task does under one lock, or  *)
(* between two awaits.  Claude Code is external: it reads what was written *)
(* to it in order, and its reader (read_stdout) is not behind.             *)
(*                                                                         *)
(* The two accounts either share a directory or not; in that case the      *)
(* conversation moves (Transfer models the move, here it succeeds or not). *)
(***************************************************************************)
EXTENDS Naturals, Sequences, FiniteSets, SequencesExt

CONSTANTS
    Messages,     \* user messages
    MaxSwitches,  \* switch requests (bound)
    MaxProcs,     \* processes started (bound)
    MaxContinues, \* calls of continue (bound)
    MaxFail       \* refusals, failures and elapsed waits (bound)

ASSUME OwnedSwitchAssumption ==
    /\ {MaxSwitches, MaxContinues, MaxFail} \subseteq Nat
    /\ MaxProcs \in Nat \ {0}     \* process 1 is the one already running

VARIABLES
    proc,     \* the processes: child, handle and what the handle knows
    reg,      \* handles: the registered process, or 0
    calls,    \* the calls of send_user: a user's, and a switch handing on
    entry,    \* Switches::map: the session's switch and its phase
    cancelled,\* the switches whose signal says cancelled
    sw,       \* the switch requests
    cont,     \* the calls of continue
    stop,     \* the call of the stop route
    place,    \* the account whose directory holds the transcript
    shared,   \* both accounts have one directory
    given,    \* history: messages a process took into its conversation
    overtaken,\* history: continues that another process was registered under
    late,     \* history: such a continue registered one where it was too late
    fails     \* failures so far

switching == <<entry, cancelled, sw>>
routes    == <<cont, overtaken, late, stop>>
vars == <<proc, reg, calls, switching, routes, place, shared, given, fails>>

Procs    == 1..MaxProcs
Requests == 1..MaxSwitches
Conts    == 1..MaxContinues
Accounts == {"A", "B"}
NoMsg    == "none"
NoEntry  == [seq |-> 0, phase |-> "none"]
Calls    == Messages \X {"user", "switch"}

NoProc == [child |-> "none", acct |-> "A", by |-> 0, alive |-> FALSE,
           closing |-> FALSE, turn |-> FALSE, queued |-> <<>>, input |-> <<>>,
           cur |-> NoMsg, kill |-> FALSE, reaped |-> FALSE]
Unsent == [pc |-> "idle", p |-> 0]
Answered == [pc |-> "done", p |-> 0]
Unasked == [pc |-> "idle", acct |-> "A", p |-> 0]
Asleep == [pc |-> "idle", when |-> "idle", from |-> "A", to |-> "A", run |-> "A",
           p |-> 0, snap |-> <<>>, held |-> <<>>]

SwitchSteps == {"idle", "close", "wait", "claim", "reclose", "ready", "takeBack",
                "settle", "interrupt", "stop", "stopping", "move", "launch",
                "register", "undo", "hand", "handing", "finish", "done"}

TypeOK ==
    /\ DOMAIN proc = Procs
    /\ \A p \in Procs :
         /\ proc[p].child \in {"none", "up", "ended"}
         /\ proc[p].alive => proc[p].child # "none" /\ ~proc[p].reaped
         /\ proc[p].cur # NoMsg => proc[p].child = "up"
         /\ IsInjective(proc[p].queued) /\ IsInjective(proc[p].input)
    /\ reg \in 0..MaxProcs /\ (reg # 0 => ~proc[reg].reaped)
    /\ \A c \in Calls : calls[c].pc \in {"idle", "recorded", "written", "done"}
    /\ entry.seq \in 0..MaxSwitches
    /\ entry.seq # 0 => sw[entry.seq].pc \notin {"idle", "done"}
    /\ \A s \in Requests : sw[s].pc \in SwitchSteps
    /\ place \in Accounts /\ shared \in BOOLEAN
    /\ cancelled \subseteq Requests /\ given \subseteq Messages
    /\ overtaken \subseteq Conts /\ late \in BOOLEAN
    /\ fails \in 0..MaxFail

Init ==
    /\ proc = [p \in Procs |->
                 IF p = 1 THEN [NoProc EXCEPT !.child = "up", !.alive = TRUE] ELSE NoProc]
    /\ reg = 1
    /\ calls = [c \in Calls |-> Unsent]
    /\ entry = NoEntry
    /\ cancelled = {}
    /\ sw = [s \in Requests |-> Asleep]
    /\ cont = [c \in Conts |-> Unasked]
    /\ stop = "idle"
    /\ place = "A"
    /\ shared \in BOOLEAN
    /\ given = {} /\ overtaken = {} /\ late = FALSE
    /\ fails = 0

Home(a) == IF shared THEN "A" ELSE a
Idle(p) == ~proc[p].turn /\ proc[p].queued = <<>>
Without(q, m) == SelectSeq(q, LAMBDA x : x # m)
Fail == fails < MaxFail /\ fails' = fails + 1

----------------------------------------------------------------------------
(* Messages: send_user and write_user, for a user and for a switch         *)

\* Whether the message goes now or waits behind a turn is decided, and a
\* message that waits is noted, before anything is written.
Record(c) ==
    IF reg = 0 \/ (reg # 0 /\ (~proc[reg].alive \/ proc[reg].closing))
    THEN /\ calls' = [calls EXCEPT ![c] = Answered]
         /\ proc' = proc
    ELSE /\ calls' = [calls EXCEPT ![c] = [pc |-> "recorded", p |-> reg]]
         /\ proc' = IF Idle(reg) THEN proc
                    ELSE [proc EXCEPT ![reg].queued = Append(@, c[1])]

Send(m) ==
    /\ calls[<<m, "user">>].pc = "idle"
    /\ Record(<<m, "user">>)
    /\ UNCHANGED <<reg, switching, routes, place, shared, given, fails>>

WriteLine(c) ==
    LET p == calls[c].p IN
    /\ calls[c].pc = "recorded"
    /\ IF proc[p].child = "up"
       THEN /\ proc' = [proc EXCEPT ![p].input = Append(@, c[1])]
            /\ calls' = [calls EXCEPT ![c].pc = "written"]
       ELSE /\ proc' = [proc EXCEPT ![p].queued = Without(@, c[1])]
            /\ calls' = [calls EXCEPT ![c] = Answered]
    /\ UNCHANGED <<reg, switching, routes, place, shared, given, fails>>

StartTurn(c) ==
    /\ calls[c].pc = "written"
    /\ proc' = [proc EXCEPT ![calls[c].p].turn = TRUE]
    /\ calls' = [calls EXCEPT ![c] = Answered]
    /\ UNCHANGED <<reg, switching, routes, place, shared, given, fails>>

----------------------------------------------------------------------------
(* Claude Code and its reader                                              *)

\* A message answered is no longer queued (mark_answered).
TakesInput(p) ==
    /\ proc[p].child = "up" /\ proc[p].cur = NoMsg /\ proc[p].input # <<>>
    /\ LET m == Head(proc[p].input) IN
       /\ proc' = [proc EXCEPT ![p].cur = m, ![p].input = Tail(@), ![p].queued = Without(@, m)]
       /\ given' = given \cup {m}
    /\ UNCHANGED <<reg, calls, switching, routes, place, shared, fails>>

\* Messages still queued start the next turn right away (on_result).
Result(p) ==
    /\ proc[p].child = "up" /\ proc[p].cur # NoMsg
    /\ proc' = [proc EXCEPT ![p].cur = NoMsg, ![p].turn = proc[p].queued # <<>>]
    /\ UNCHANGED <<reg, calls, switching, routes, place, shared, given, fails>>

Ends(p) == [proc EXCEPT ![p].child = "ended", ![p].cur = NoMsg, ![p].input = <<>>]

Exits(p) ==
    /\ p = reg /\ proc[p].child = "up" /\ ~proc[p].kill
    /\ Fail
    /\ proc' = Ends(p)
    /\ UNCHANGED <<reg, calls, switching, routes, place, shared, given>>

Terminate(p) ==
    /\ proc[p].kill /\ proc[p].child = "up"
    /\ proc' = Ends(p)
    /\ UNCHANGED <<reg, calls, switching, routes, place, shared, given, fails>>

----------------------------------------------------------------------------
(* The reaper                                                              *)

ReapClose(p) ==
    /\ proc[p].child = "ended" /\ proc[p].alive
    /\ proc' = [proc EXCEPT ![p].alive = FALSE, ![p].turn = FALSE]
    /\ UNCHANGED <<reg, calls, switching, routes, place, shared, given, fails>>

\* MUTANT: a kill takes the handle away at once.
RemoveOnKill(p) ==
    /\ proc[p].kill /\ reg = p
    /\ reg' = 0
    /\ UNCHANGED <<proc, calls, switching, routes, place, shared, given, fails>>

ReapRemove(p) ==
    /\ proc[p].child = "ended" /\ ~proc[p].alive /\ reg = p
    /\ reg' = 0
    /\ UNCHANGED <<proc, calls, switching, routes, place, shared, given, fails>>

Reaped(p) ==
    /\ proc[p].child = "ended" /\ ~proc[p].alive /\ reg # p /\ ~proc[p].reaped
    /\ proc' = [proc EXCEPT ![p] = [NoProc EXCEPT !.child = "ended", !.reaped = TRUE]]
    /\ UNCHANGED <<reg, calls, switching, routes, place, shared, given, fails>>

----------------------------------------------------------------------------
(* Starting a process: the child runs before the registry is asked         *)

NextProc == CHOOSE p \in Procs : proc[p].child = "none"

\* spawn up to the child: never beside a registered process.
StartChild(acct, by) ==
    /\ reg = 0 /\ \E p \in Procs : proc[p].child = "none"
    /\ proc' = [proc EXCEPT ![NextProc].child = "up", ![NextProc].acct = acct,
                            ![NextProc].by = by]

\* A continue that has looked at the session and not finished.
Pending(c) == cont[c].pc \in {"launch", "register"}

\* The second of two is killed before it is given anything.
Enter(p) ==
    IF reg = 0
    THEN /\ reg' = p /\ proc' = [proc EXCEPT ![p].alive = TRUE]
         /\ overtaken' = overtaken \cup {c \in Conts : Pending(c)}
    ELSE /\ reg' = reg /\ proc' = [proc EXCEPT ![p].kill = TRUE]
         /\ overtaken' = overtaken

----------------------------------------------------------------------------
(* The registry of switches                                                *)

IsCurrent(s) == entry.seq = s /\ s \notin cancelled
Underway == entry.phase = "underway"

\* set_phase: a switch cancelled or replaced stays so.
SetPhase(s, ph) == entry' = IF IsCurrent(s) THEN [entry EXCEPT !.phase = ph] ELSE entry

\* cancel_waiting, the half that removes; nothing waits: nothing changes.
DropWaiting ==
    IF entry.phase = "waiting"
    THEN entry' = NoEntry /\ cancelled' = cancelled \cup {entry.seq}
    ELSE UNCHANGED <<entry, cancelled>>

CancelWaiting ==
    /\ entry.phase = "waiting"
    /\ DropWaiting
    /\ UNCHANGED <<proc, reg, calls, sw, routes, place, shared, given, fails>>

To(s, step) == sw' = [sw EXCEPT ![s].pc = step]

----------------------------------------------------------------------------
(* A switch of an owned session: switch_owned                              *)

\* Only a session with a handle; one underway refuses, one waiting is
\* replaced, and one to the account it runs on cancels the one waiting.
Ask(s, to, when) ==
    /\ sw[s].pc = "idle" /\ \A r \in 1..(s-1) : sw[r].pc # "idle"
    /\ reg # 0
    /\ IF to = proc[reg].acct
       THEN To(s, "done") /\ DropWaiting
       ELSE IF Underway
       THEN To(s, "done") /\ UNCHANGED <<entry, cancelled>>
       ELSE /\ sw' = [sw EXCEPT ![s] = [Asleep EXCEPT !.pc = "close", !.when = when,
                                           !.from = proc[reg].acct, !.to = to]]
            /\ entry' = [seq |-> s, phase |-> "underway"]
            /\ cancelled' = IF entry.seq = 0 THEN cancelled ELSE cancelled \cup {entry.seq}
    /\ UNCHANGED <<proc, reg, calls, routes, place, shared, given, fails>>

\* close_for_switch, by the request ("close") or by its task ("reclose").
Close(s) ==
    /\ sw[s].pc \in {"close", "reclose"}
    /\ IF reg = 0 \/ (reg # 0 /\ ~proc[reg].alive)
       THEN /\ To(s, IF sw[s].pc = "close" THEN "finish" ELSE "wait")
            /\ UNCHANGED <<proc, entry>>
       ELSE IF sw[s].when = "idle" /\ ~Idle(reg)
       THEN /\ To(s, "wait") /\ SetPhase(s, "waiting")
            /\ UNCHANGED proc
       ELSE /\ proc' = [proc EXCEPT ![reg].closing = TRUE]
            /\ sw' = [sw EXCEPT ![s].pc = "ready", ![s].p = reg,
                                ![s].snap = proc[reg].queued]
            /\ UNCHANGED entry
    /\ UNCHANGED <<reg, calls, cancelled, routes, place, shared, given, fails>>

\* wait_then_switch, one turn of its loop.
Wait(s) ==
    /\ sw[s].pc = "wait"
    /\ \/ /\ ~IsCurrent(s) /\ To(s, "done") /\ UNCHANGED fails
       \/ /\ IsCurrent(s) /\ reg = 0 /\ To(s, "finish") /\ UNCHANGED fails
       \/ /\ IsCurrent(s) /\ reg # 0 /\ Idle(reg)
          /\ \/ To(s, "claim") /\ UNCHANGED fails
             \/ To(s, "finish") /\ Fail          \* check_target refuses
    /\ UNCHANGED <<proc, reg, calls, entry, cancelled, routes, place, shared, given>>

\* MUTANT: what set_phase answers is not looked at.
ClaimAnyway(s) ==
    /\ sw[s].pc = "claim"
    /\ SetPhase(s, "underway")
    /\ To(s, "reclose")
    /\ UNCHANGED <<proc, reg, calls, cancelled, routes, place, shared, given, fails>>

Claim(s) ==
    /\ sw[s].pc = "claim"
    /\ SetPhase(s, "underway")
    /\ To(s, IF IsCurrent(s) THEN "reclose" ELSE "done")
    /\ UNCHANGED <<proc, reg, calls, cancelled, routes, place, shared, given, fails>>

Finish(s) ==
    /\ sw[s].pc = "finish"
    /\ sw' = [sw EXCEPT ![s] = [Asleep EXCEPT !.pc = "done"]]
    /\ entry' = IF entry.seq = s THEN NoEntry ELSE entry
    /\ UNCHANGED <<proc, reg, calls, cancelled, routes, place, shared, given, fails>>

----------------------------------------------------------------------------
(* run_owned                                                               *)

\* A refusal opens the session again as it was.
Reopen == proc' = IF reg = 0 THEN proc ELSE [proc EXCEPT ![reg].closing = FALSE]

Ready(s) ==
    /\ sw[s].pc = "ready"
    /\ \/ /\ To(s, IF sw[s].when = "now" THEN "takeBack" ELSE "stop")
          /\ UNCHANGED <<proc, fails>>
       \/ To(s, "finish") /\ Reopen /\ Fail
    /\ UNCHANGED <<reg, calls, entry, cancelled, routes, place, shared, given>>

\* MUTANT: what cancel_queued answers is not looked at.
TakeBackAll(s) ==
    /\ sw[s].pc = "takeBack"
    /\ IF sw[s].snap = <<>> THEN To(s, "interrupt") /\ UNCHANGED proc
       ELSE /\ proc' = IF reg = 0 THEN proc
                       ELSE [proc EXCEPT ![reg].input = Without(@, Head(sw[s].snap))]
            /\ To(s, "settle")
    /\ UNCHANGED <<reg, calls, entry, cancelled, routes, place, shared, given, fails>>

\* Claude Code takes a message out of what it has not begun.
GivenBack(q, m) == RemoveAt(q, CHOOSE k \in DOMAIN q : q[k] = m)

\* cancel_queued up to the CLI's answer: it gives back what it has not
\* begun, and says so; a message no longer queued is not asked for.  A request
\* that fails or times out, before the CLI read it or after, is not repeated,
\* and the message not held.
TakeBack(s) ==
    /\ sw[s].pc = "takeBack"
    /\ LET m == Head(sw[s].snap) IN
       IF sw[s].snap = <<>> THEN To(s, "interrupt") /\ UNCHANGED <<proc, fails>>
       ELSE IF reg = 0 \/ (reg # 0 /\ ~(Contains(proc[reg].queued, m)
                                        /\ Contains(proc[reg].input, m)))
       THEN /\ sw' = [sw EXCEPT ![s].snap = Tail(@)]
            /\ UNCHANGED <<proc, fails>>
       ELSE \/ /\ proc' = [proc EXCEPT ![reg].input = GivenBack(@, m)]
               /\ To(s, "settle") /\ UNCHANGED fails
            \/ /\ proc' \in {proc, [proc EXCEPT ![reg].input = GivenBack(@, m)]}
               /\ sw' = [sw EXCEPT ![s].snap = Tail(@)] /\ Fail
    /\ UNCHANGED <<reg, calls, entry, cancelled, routes, place, shared, given>>

Settle(s) ==
    /\ sw[s].pc = "settle"
    /\ LET m == Head(sw[s].snap) IN
       /\ proc' = IF reg = 0 THEN proc ELSE [proc EXCEPT ![reg].queued = Without(@, m)]
       /\ sw' = [sw EXCEPT ![s].pc = "takeBack", ![s].snap = Tail(@),
                           ![s].held = Append(@, m)]
    /\ UNCHANGED <<reg, calls, entry, cancelled, routes, place, shared, given, fails>>

\* The turn ends, or the wait for it does.
Interrupt(s) ==
    /\ sw[s].pc = "interrupt"
    /\ To(s, "stop")
    /\ UNCHANGED <<proc, reg, calls, entry, cancelled, routes, place, shared, given, fails>>

Stop(s) ==
    /\ sw[s].pc = "stop"
    /\ IF reg = 0 THEN To(s, "move") /\ UNCHANGED proc
       ELSE /\ proc' = [proc EXCEPT ![reg].kill = TRUE]
            /\ sw' = [sw EXCEPT ![s].pc = "stopping", ![s].p = reg]
    /\ UNCHANGED <<reg, calls, entry, cancelled, routes, place, shared, given, fails>>

\* The reaper is waited for; past STOP_WAIT the switch gives up.
Stopped(s) ==
    /\ sw[s].pc = "stopping"
    /\ \/ proc[sw[s].p].reaped /\ To(s, "move") /\ UNCHANGED fails
       \/ ~proc[sw[s].p].reaped /\ To(s, "finish") /\ Fail
    /\ UNCHANGED <<proc, reg, calls, entry, cancelled, routes, place, shared, given>>

\* MUTANT: the move's failure is not looked at.
MoveUnchecked(s) ==
    /\ sw[s].pc = "move"
    /\ \/ (shared \/ reg = 0) /\ place' = Home(sw[s].to) /\ UNCHANGED fails
       \/ ~shared /\ Fail /\ UNCHANGED place
    /\ sw' = [sw EXCEPT ![s].pc = "launch", ![s].run = sw[s].to]
    /\ UNCHANGED <<proc, reg, calls, entry, cancelled, routes, shared, given>>

\* move_for_switch refuses while a process runs the session.
Move(s) ==
    /\ sw[s].pc = "move"
    /\ \/ /\ shared \/ reg = 0
          /\ place' = Home(sw[s].to)
          /\ sw' = [sw EXCEPT ![s].pc = "launch", ![s].run = sw[s].to]
          /\ UNCHANGED fails
       \/ /\ ~shared
          /\ IF reg = 0 THEN Fail ELSE UNCHANGED fails
          /\ sw' = [sw EXCEPT ![s].pc = "launch", ![s].run = sw[s].from]
          /\ UNCHANGED place
    /\ UNCHANGED <<proc, reg, calls, entry, cancelled, routes, shared, given>>

\* What a failed start leads to: the other account's once more, else nothing.
AfterFailure(s) == IF sw[s].run = sw[s].from THEN "finish" ELSE "undo"

Launch(s) ==
    /\ sw[s].pc = "launch"
    /\ \/ /\ StartChild(sw[s].run, s)
          /\ sw' = [sw EXCEPT ![s].pc = "register", ![s].p = NextProc]
          /\ UNCHANGED fails
       \/ /\ IF reg # 0 THEN UNCHANGED fails ELSE Fail
          /\ To(s, AfterFailure(s)) /\ UNCHANGED proc
    /\ UNCHANGED <<reg, calls, entry, cancelled, routes, place, shared, given>>

Register(s) ==
    /\ sw[s].pc = "register"
    /\ Enter(sw[s].p)
    /\ To(s, IF reg = 0 THEN "hand" ELSE AfterFailure(s))
    /\ UNCHANGED <<calls, entry, cancelled, cont, late, stop, place, shared, given, fails>>

\* A conversation that moved is put back first, which is refused while a
\* process runs the session; if it cannot be, nothing more is started.
Undo(s) ==
    /\ sw[s].pc = "undo"
    /\ \/ /\ shared \/ reg = 0
          /\ place' = Home(sw[s].from)
          /\ sw' = [sw EXCEPT ![s].pc = "launch", ![s].run = sw[s].from]
          /\ UNCHANGED fails
       \/ /\ ~shared
          /\ IF reg = 0 THEN Fail ELSE UNCHANGED fails
          /\ To(s, "finish") /\ UNCHANGED place
    /\ UNCHANGED <<proc, reg, calls, entry, cancelled, routes, shared, given>>

\* after_resume: what was held goes to the resumed process, as a new message.
Hand(s) ==
    /\ sw[s].pc = "hand"
    /\ IF sw[s].held = <<>> THEN To(s, "finish") /\ UNCHANGED <<proc, calls>>
       ELSE To(s, "handing") /\ Record(<<Head(sw[s].held), "switch">>)
    /\ UNCHANGED <<reg, entry, cancelled, routes, place, shared, given, fails>>

Handed(s) ==
    /\ sw[s].pc = "handing"
    /\ calls[<<Head(sw[s].held), "switch">>].pc = "done"
    /\ sw' = [sw EXCEPT ![s].pc = "hand", ![s].held = Tail(@)]
    /\ calls' = [calls EXCEPT ![<<Head(sw[s].held), "switch">>] = Unsent]
    /\ UNCHANGED <<proc, reg, entry, cancelled, routes, place, shared, given, fails>>

----------------------------------------------------------------------------
(* The other routes                                                        *)

\* continue_as: not while a switch is under way, nor beside a process.
Continue(c) ==
    /\ cont[c].pc = "idle" /\ \A d \in 1..(c-1) : cont[d].pc # "idle"
    /\ ~Underway /\ reg = 0
    /\ \E a \in Accounts : Home(a) = place
                           /\ cont' = [cont EXCEPT ![c] = [@ EXCEPT !.pc = "launch", !.acct = a]]
    /\ UNCHANGED <<proc, reg, calls, switching, overtaken, late, stop, place, shared, given, fails>>

ContinueLaunch(c) ==
    /\ cont[c].pc = "launch"
    /\ IF reg # 0 THEN cont' = [cont EXCEPT ![c] = [Unasked EXCEPT !.pc = "done"]] /\ UNCHANGED proc
       ELSE /\ StartChild(cont[c].acct, 0)
            /\ cont' = [cont EXCEPT ![c].pc = "register", ![c].p = NextProc]
    /\ UNCHANGED <<reg, calls, switching, overtaken, late, stop, place, shared, given, fails>>

ContinueRegister(c) ==
    /\ cont[c].pc = "register"
    /\ Enter(cont[c].p)
    /\ cont' = [cont EXCEPT ![c] = [Unasked EXCEPT !.pc = "done"]]
    /\ late' = (late \/ (reg = 0 /\ c \in overtaken /\ Home(cont[c].acct) # place))
    /\ UNCHANGED <<calls, switching, stop, place, shared, given, fails>>

\* The stop route: a waiting switch is dropped, one underway refuses.
StopRoute ==
    /\ stop = "idle"
    /\ stop' = IF Underway THEN "done" ELSE "kill"
    /\ DropWaiting
    /\ UNCHANGED <<proc, reg, calls, sw, cont, overtaken, late, place, shared, given, fails>>

StopKill ==
    /\ stop = "kill"
    /\ stop' = "done"
    /\ proc' = IF reg = 0 THEN proc ELSE [proc EXCEPT ![reg].kill = TRUE]
    /\ UNCHANGED <<reg, calls, switching, cont, overtaken, late, place, shared, given, fails>>

----------------------------------------------------------------------------
SwitchStep(s) ==
    \/ Close(s) \/ Wait(s) \/ Claim(s) \/ Finish(s) \/ Ready(s) \/ TakeBack(s)
    \/ Settle(s) \/ Interrupt(s) \/ Stop(s) \/ Stopped(s) \/ Move(s) \/ Launch(s)
    \/ Register(s) \/ Undo(s) \/ Hand(s) \/ Handed(s)

Reaper(p) == Terminate(p) \/ ReapClose(p) \/ ReapRemove(p) \/ Reaped(p)

CallStep(c) == WriteLine(c) \/ StartTurn(c)

Next ==
    \/ \E m \in Messages : Send(m)
    \/ \E c \in Calls : CallStep(c)
    \/ \E p \in Procs : TakesInput(p) \/ Result(p) \/ Exits(p) \/ Reaper(p)
    \/ \E s \in Requests : SwitchStep(s)
    \/ \E s \in Requests, to \in Accounts, when \in {"now", "idle"} : Ask(s, to, when)
    \/ CancelWaiting \/ StopRoute \/ StopKill
    \/ \E c \in Conts : Continue(c) \/ ContinueLaunch(c) \/ ContinueRegister(c)

Spec == Init /\ [][Next]_vars
----------------------------------------------------------------------------
(* Properties                                                              *)

\* Two processes on one transcript overwrite each other: of the children
\* that were registered at most one runs, whatever a switch, a stop, an
\* exit and a continue do at the same time.
OneWriter == Cardinality({p \in Procs : proc[p].alive /\ proc[p].child = "up"}) <= 1

\* A waiting switch that was cancelled, replaced or dropped by a stop stays
\* so, also when its task has just found the session idle: it never closes,
\* stops or starts anything.
CancelledStays == \A s \in cancelled : sw[s].pc \in {"wait", "claim", "finish", "done"}

\* The conversation gets no message twice: one a switch takes back and hands
\* to the resumed process was not begun by the stopped one.
GivenOnce ==
    [][\A p \in Procs : proc'[p].cur \notin {NoMsg, proc[p].cur}
                        => proc'[p].cur \notin given]_vars

\* The registered process runs under the account whose directory holds the
\* transcript, also after a move, a start or the way back from them failed.
\* Only a continue breaks this, and only one of several that looked at the
\* session together: a process was registered since it looked, a switch moved
\* the conversation, and it registers its own all the same (late).
RunsAtHome ==
    late \/ \A p \in Procs : proc[p].alive /\ proc[p].child = "up"
                             => Home(proc[p].acct) = place

\* A session refuses messages only while a switch is under way for it or its
\* process is being ended: a switch refused after the close opens it again.
ReopenedOrGone ==
    reg # 0 /\ proc[reg].closing => Underway \/ proc[reg].kill
=============================================================================
