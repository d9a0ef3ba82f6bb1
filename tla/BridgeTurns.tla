----------------------------- MODULE BridgeTurns -----------------------------
(***************************************************************************)
(* Turns of one conversation of the HTTP API: the operations registry      *)
(* (bridge/ops.rs), the turn routes (bridge/routes/turns.rs), the runtime  *)
(* host and its calls (bridge/host.rs), the account switch of such a       *)
(* conversation (claude/switch.rs), and the host process itself            *)
(* (sidecar/src/bridge-host.ts), whose Agent SDK is external.              *)
(*                                                                         *)
(* Rust and the host process talk over two pipes.  A host that dies is     *)
(* noticed by three parties in any order: the reader of its output, the    *)
(* task that reaps it and the next caller that wants a host; what it left  *)
(* must be failed once, and its successor left alone.                      *)
(*                                                                         *)
(* Left out: the global log, eviction of finished operations, the calls    *)
(* that read or set up a conversation; it is opened only by a switch.      *)
(***************************************************************************)
EXTENDS Naturals, Sequences, FiniteSets

CONSTANTS
  Turns,       \* calls of begin_turn, one operation and one turn id each
  Steers,      \* calls of steer
  Interrupts,  \* calls of interrupt
  Switches,    \* calls of switch_bridge
  Names,       \* the turn each steer and interrupt names
  Leaving,     \* callers whose client may hang up, which drops the handler
  Hasty,       \* callers whose calls may reach their timeout
  MaxActive,   \* MAX_ACTIVE
  MaxHosts,    \* host processes that can be started (bound)
  PipeRoom,    \* commands a host's pipe holds before a write to it has to wait
  Nobody

Callers == Turns \cup Steers \cup Interrupts \cup Switches
Hosts == 1..MaxHosts

ASSUME TurnsAssumption ==
  /\ MaxActive \in Nat \ {0} /\ MaxHosts \in Nat \ {0} /\ PipeRoom \in Nat \ {0}
  /\ Names \in [Steers \cup Interrupts -> Turns]
  /\ Leaving \subseteq Callers /\ Hasty \subseteq Callers
  /\ Nobody \notin Callers
  /\ Turns \cap (Steers \cup Interrupts \cup Switches) = {}
  /\ Steers \cap Interrupts = {} /\ Switches \cap (Steers \cup Interrupts) = {}

VARIABLES
  \* OperationRegistry and its operations
  registered,   \* operations in the registry
  status,       \* "none", "running", "ended" as the host reports, "lost" (fail_all)
  untold,       \* who has finished it, and has the frame to append or the log to close
  log,          \* the operation's own log, without the host's messages
  closed,       \* logs that were closed
  \* Switches: the conversation's entry
  underway,     \* whose switch is under way
  hostClosed,   \* its host_closed signal
  listed,       \* the bridge counts the conversation among the live ones
  \* RuntimeHost
  installed,    \* running: a host, or 0
  alive,        \* hosts whose alive flag is set
  inflight,     \* the call each caller has in flight, by its number, or 0
  answer,       \* what its channel holds
  reader,       \* the task that reads each host: "none", "reading", "retiring", "done"
  \* callers
  pc, doing,    \* where each is, and the command it calls the host with
  calls,        \* commands it sent so far
  gen,          \* the host its call goes to
  result,       \* what begin_turn answered
  \* host processes
  proc,         \* "none", "up", "dead"
  toHost, fromHost,  \* its pipes
  conv,         \* whether its sessions map holds the conversation
  turn,         \* session.turnId, or Nobody
  work,         \* the turns of the inputs it pushed and the SDK has not answered
  claims,       \* interrupts it awaits
  endings       \* closed sessions whose stream has still to end

registry == <<registered, status, untold, log, closed>>
switchVars == <<underway, hostClosed, listed>>
hostVars == <<installed, alive, inflight, answer, reader>>
callVars == <<pc, doing, calls, gen, result>>
pipes == <<toHost, fromHost>>
convVars == <<conv, turn, work, claims, endings>>
vars == <<registry, switchVars, hostVars, callVars, proc, pipes, convVars>>

Goto(c, l) == pc' = [pc EXCEPT ![c] = l]

---------------------------------------------------------------------------
(* Operations.                                                             *)

Running(t) == t \in registered /\ status[t] = "running"

Append1(t, frame) ==
  log' = IF t \in closed THEN log ELSE [log EXCEPT ![t] = Append(@, frame)]

\* MUTANT: finish does not ask whether the operation is finished.
FinishedAgain(ts, st, who) ==
  /\ status' = [t \in Turns |-> IF t \in ts THEN st ELSE status[t]]
  /\ untold' = [t \in Turns |-> IF t \in ts THEN untold[t] \cup {<<who, "frame">>} ELSE untold[t]]

\* finish, for the operations ts: the first call sets the status ...
Finished(ts, st, who) ==
  LET won == {t \in ts : status[t] = "running"} IN
  /\ status' = [t \in Turns |-> IF t \in won THEN st ELSE status[t]]
  /\ untold' = [t \in Turns |-> IF t \in won THEN untold[t] \cup {<<who, "frame">>} ELSE untold[t]]

\* ... appends the terminal frame ...
Tell(t) ==
  /\ \E u \in untold[t] :
       /\ u[2] = "frame"
       /\ untold' = [untold EXCEPT ![t] = (@ \ {u}) \cup {<<u[1], "close">>}]
  /\ Append1(t, "terminal")
  /\ UNCHANGED <<registered, status, closed, switchVars, hostVars, callVars, proc, pipes, convVars>>

\* ... and closes the log.
CloseLog(t) ==
  /\ \E u \in untold[t] : u[2] = "close" /\ untold' = [untold EXCEPT ![t] = @ \ {u}]
  /\ closed' = closed \cup {t}
  /\ UNCHANGED <<registered, status, log, switchVars, hostVars, callVars, proc, pipes, convVars>>

\* Who finishes an operation does nothing else meanwhile.
Telling(who) == \E t \in Turns : \E u \in untold[t] : u[1] = who

---------------------------------------------------------------------------
(* Calls of the host (RuntimeHost::call).                                  *)

Call(c, command) ==
  /\ doing' = [doing EXCEPT ![c] = command]
  /\ Goto(c, "calling")

\* abandon_generation
Abandoned(g) == {c \in Callers : inflight[c] # 0 /\ gen[c] = g}

Abandon(g) ==
  /\ inflight' = [c \in Callers |-> IF c \in Abandoned(g) THEN 0 ELSE inflight[c]]
  /\ answer' = [c \in Callers |-> IF c \in Abandoned(g) THEN "unavailable" ELSE answer[c]]

\* MUTANT: a dead host is replaced without failing what it left.
RetireNothing(g, who) == UNCHANGED <<inflight, answer, status, untold>>

\* retire_locked
RetireLocked(g, who) == Abandon(g) /\ Finished(registered, "lost", who)

Started == {g \in Hosts : proc[g] # "none"}

RetireIn(g, who) ==
  IF g = 0 THEN UNCHANGED <<inflight, answer, status, untold>> ELSE RetireLocked(g, who)

\* ensure, with the running lock held: a live host is taken, a dead one retired
\* and replaced.  The start may fail, and does at the bound.
Ensure(c) ==
  /\ pc[c] = "calling"
  /\ \/ /\ installed \in alive
        /\ gen' = [gen EXCEPT ![c] = installed]
        /\ Goto(c, "sending")
        /\ UNCHANGED <<status, untold, hostVars, proc>>
     \/ /\ installed \notin alive
        /\ RetireIn(installed, c)
        /\ LET g == Cardinality(Started) + 1 IN
           IF g \in Hosts
           THEN /\ installed' = g /\ alive' = alive \cup {g}
                /\ proc' = [proc EXCEPT ![g] = "up"]
                /\ reader' = [reader EXCEPT ![g] = "reading"]
                /\ gen' = [gen EXCEPT ![c] = g]
                /\ Goto(c, "sending")
           ELSE /\ installed' = 0
                /\ Goto(c, "unavailable")
                /\ UNCHANGED <<alive, reader, gen, proc>>
  /\ UNCHANGED <<registered, log, closed, switchVars, doing, calls, result, pipes, convVars>>

\* A write waits while the host does not read and its pipe is full, and nothing
\* bounds that wait: the timeout of a call runs from when the command is written.
Blocked(c) ==
  /\ pc[c] = "sending" /\ proc[gen[c]] = "up"
  /\ Len(toHost[gen[c]]) >= PipeRoom

\* The call is put in flight and the command written; a write to a dead host
\* fails.  (Nothing abandons a host before it is dead.)
Send(c) ==
  /\ pc[c] = "sending" /\ ~Telling(c) /\ ~Blocked(c)
  /\ calls' = [calls EXCEPT ![c] = @ + 1]
  /\ IF proc[gen[c]] = "up"
     THEN /\ inflight' = [inflight EXCEPT ![c] = calls'[c]]
          /\ answer' = [answer EXCEPT ![c] = "none"]
          /\ toHost' = [toHost EXCEPT ![gen[c]] =
                          Append(@, [op |-> doing[c], by |-> c, n |-> calls'[c]])]
          /\ Goto(c, "awaiting")
          /\ UNCHANGED alive
     ELSE /\ alive' = alive \ {gen[c]}
          /\ Goto(c, "unavailable")
          /\ UNCHANGED <<inflight, answer, toHost>>
  /\ UNCHANGED <<registry, switchVars, installed, reader, doing, gen, result, proc, fromHost,
                 convVars>>

\* How a call came back: an answer, no host, or the timeout.
Returns(c, a) ==
  \/ pc[c] = "awaiting" /\ a = answer[c] /\ a # "none" /\ UNCHANGED inflight
  \/ pc[c] = "unavailable" /\ a = "unavailable" /\ UNCHANGED inflight
  \/ /\ pc[c] = "awaiting" /\ c \in Hasty /\ answer[c] = "none" /\ a = "timeout"
     /\ inflight' = [inflight EXCEPT ![c] = 0]

Answers == {"ok", "already", "busy", "not_found", "invalid", "claude_error", "unavailable", "timeout"}

\* The client hangs up while the handler awaits the host: the future is dropped
\* where it is.
HangUp(c) ==
  /\ c \in Leaving /\ pc[c] \in {"calling", "sending", "awaiting", "ending"}
  /\ Goto(c, "dropped")
  /\ UNCHANGED <<registry, switchVars, hostVars, doing, calls, gen, result, proc, pipes, convVars>>

---------------------------------------------------------------------------
(* begin_turn                                                              *)

Count(t) ==
  /\ pc[t] = "idle"
  /\ IF Cardinality({u \in registered : Running(u)}) >= MaxActive
     THEN Goto(t, "done") /\ result' = [result EXCEPT ![t] = "too_many"]
     ELSE Goto(t, "creating") /\ UNCHANGED result
  /\ UNCHANGED <<registry, switchVars, hostVars, doing, calls, gen, proc, pipes, convVars>>

Create(t) ==
  /\ pc[t] = "creating"
  /\ registered' = registered \cup {t}
  /\ status' = [status EXCEPT ![t] = "running"]
  /\ Goto(t, "checking")
  /\ UNCHANGED <<untold, log, closed, switchVars, hostVars, doing, calls, gen, result, proc, pipes,
                 convVars>>

\* MUTANT: nothing is checked once the operation is registered.
CheckNothing(t) ==
  /\ pc[t] = "checking"
  /\ Goto(t, "announcing")
  /\ UNCHANGED <<registry, switchVars, hostVars, doing, calls, gen, result, proc, pipes, convVars>>

\* Checked after the operation exists: a switch that is under way refuses it.
CheckSwitch(t) ==
  /\ pc[t] = "checking"
  /\ IF underway # Nobody
     THEN /\ registered' = registered \ {t}
          /\ result' = [result EXCEPT ![t] = "switching"]
          /\ Goto(t, "done")
     ELSE Goto(t, "announcing") /\ UNCHANGED <<registered, result>>
  /\ UNCHANGED <<status, untold, log, closed, switchVars, hostVars, doing, calls, gen, proc, pipes,
                 convVars>>

Announce(t) ==
  /\ pc[t] = "announcing"
  /\ Append1(t, "started")
  /\ Call(t, "input")
  /\ UNCHANGED <<registered, status, untold, closed, switchVars, hostVars, calls, gen, result, proc,
                 pipes, convVars>>

\* An input that was not accepted discards the operation.
Begun(t) ==
  /\ \E a \in Answers :
       /\ Returns(t, a)
       /\ result' = [result EXCEPT ![t] = a]
       /\ registered' = IF a = "ok" THEN registered ELSE registered \ {t}
  /\ Goto(t, "done")
  /\ UNCHANGED <<status, untold, log, closed, switchVars, installed, alive, answer, reader, doing,
                 calls, gen, proc, pipes, convVars>>

---------------------------------------------------------------------------
(* steer and interrupt: for_turn, is_finished, then the call.              *)

\* A client knows a turn once it was announced.
Lookup(c) ==
  /\ pc[c] = "idle" /\ log[Names[c]] # <<>>
  /\ IF Running(Names[c])
     THEN Call(c, IF c \in Steers THEN "input" ELSE "interrupt")
     ELSE Goto(c, "done") /\ UNCHANGED doing
  /\ UNCHANGED <<registry, switchVars, hostVars, calls, gen, result, proc, pipes, convVars>>

\* turn/steered is appended once the input was accepted.
Steered(c) ==
  /\ \E a \in Answers :
       /\ Returns(c, a)
       /\ IF a = "ok" /\ c \in Steers THEN Append1(Names[c], "steered") ELSE UNCHANGED log
  /\ Goto(c, "done")
  /\ UNCHANGED <<registered, status, untold, closed, switchVars, installed, alive, answer, reader,
                 doing, calls, gen, result, proc, pipes, convVars>>

---------------------------------------------------------------------------
(* switch_bridge                                                           *)

Begin(w) ==
  /\ pc[w] = "idle" /\ listed
  /\ IF underway # Nobody
     THEN Goto(w, "done") /\ UNCHANGED <<underway, hostClosed>>
     ELSE underway' = w /\ hostClosed' = FALSE /\ Goto(w, "looking")
  /\ UNCHANGED listed
  /\ UNCHANGED <<registry, hostVars, doing, calls, gen, result, proc, pipes, convVars>>

\* During a turn: refused; nor does it go on when the account's environment is
\* not to be had.
LookForTurns(w) ==
  /\ pc[w] = "looking"
  /\ \/ Goto(w, "finishing")
     \/ (\A t \in Turns : ~Running(t)) /\ Goto(w, "closing")
  /\ UNCHANGED <<registry, switchVars, hostVars, doing, calls, gen, result, proc, pipes, convVars>>

IsRunning == installed # 0 /\ installed \in alive

\* take_thread, then reopen.
Reopen(w) == Call(w, "create") /\ listed' = FALSE

\* close_for_switch (call_if_running): without a host nothing is open there.
CloseForSwitch(w) ==
  /\ pc[w] = "closing"
  /\ IF IsRunning THEN Call(w, "close") /\ UNCHANGED listed ELSE Reopen(w)
  /\ UNCHANGED <<registry, underway, hostClosed, hostVars, calls, gen, result, proc, pipes, convVars>>

\* MUTANT: the conversation is opened again before its stream ended.
CloseReturnsAtOnce(w) ==
  /\ doing[w] = "close"
  /\ \E a \in Answers :
       /\ Returns(w, a)
       /\ IF a \in {"ok", "already", "unavailable"} THEN Reopen(w)
          ELSE Goto(w, "finishing") /\ UNCHANGED <<doing, listed>>
  /\ UNCHANGED <<registry, underway, hostClosed, installed, alive, answer, reader, calls, gen, result, proc,
                 pipes, convVars>>

CloseReturns(w) ==
  /\ doing[w] = "close"
  /\ \E a \in Answers :
       /\ Returns(w, a)
       /\ CASE a = "ok" -> Goto(w, "ending") /\ UNCHANGED <<doing, listed>>
            [] a \in {"already", "unavailable"} -> Reopen(w)
            [] OTHER -> Goto(w, "finishing") /\ UNCHANGED <<doing, listed>>
  /\ UNCHANGED <<registry, underway, hostClosed, installed, alive, answer, reader, calls, gen, result, proc,
                 pipes, convVars>>

\* MUTANT: the wait for the end of the stream has no end of its own.
AwaitStreamEnd(w) ==
  /\ pc[w] = "ending" /\ hostClosed
  /\ Reopen(w)
  /\ UNCHANGED <<registry, underway, hostClosed, hostVars, calls, gen, result, proc, pipes, convVars>>

\* wait_flag: the stream ended, or HOST_CLOSE_WAIT did, and it stays closed
\* (close_thread, which forgets it whatever its call comes to).
StreamEnded(w) ==
  /\ pc[w] = "ending"
  /\ \/ hostClosed /\ Reopen(w)
     \/ ~hostClosed /\ IsRunning /\ Call(w, "close_for_good") /\ UNCHANGED listed
     \/ ~hostClosed /\ ~IsRunning /\ Goto(w, "finishing") /\ listed' = FALSE /\ UNCHANGED doing
  /\ UNCHANGED <<registry, underway, hostClosed, hostVars, calls, gen, result, proc, pipes, convVars>>

\* reopen, under the other account; when that fails once more under its own,
\* unless it already ran so or the files cannot be moved back.
ReopenReturns(w) ==
  /\ doing[w] \in {"create", "create_back", "close_for_good"}
  /\ \E a \in Answers :
       /\ Returns(w, a)
       /\ \/ /\ Goto(w, "finishing")
             /\ listed' = (a = "ok" /\ doing[w] # "close_for_good")
             /\ UNCHANGED doing
          \/ a # "ok" /\ doing[w] = "create" /\ Call(w, "create_back") /\ UNCHANGED listed
  /\ UNCHANGED <<registry, underway, hostClosed, installed, alive, answer, reader, calls, gen, result, proc,
                 pipes, convVars>>

Finish(w) ==
  /\ pc[w] = "finishing"
  /\ underway' = Nobody
  /\ Goto(w, "done")
  /\ UNCHANGED <<registry, hostClosed, listed, hostVars, doing, calls, gen, result, proc, pipes, convVars>>

---------------------------------------------------------------------------
(* The tasks that follow a host.                                           *)

\* MUTANT: a host that was replaced is retired like the current one.
RetireAnyway(g) ==
  /\ reader[g] = "retiring"
  /\ reader' = [reader EXCEPT ![g] = "done"]
  /\ installed' = IF installed = g THEN 0 ELSE installed
  /\ RetireLocked(g, g)
  /\ UNCHANGED <<registered, log, closed, switchVars, alive, callVars, proc, pipes, convVars>>

\* retire: only the host that is still installed takes its operations along.
Retire(g) ==
  /\ reader[g] = "retiring"
  /\ reader' = [reader EXCEPT ![g] = "done"]
  /\ IF installed = g
     THEN installed' = 0 /\ RetireLocked(g, g)
     ELSE Abandon(g) /\ UNCHANGED <<installed, status, untold>>
  /\ UNCHANGED <<registered, log, closed, switchVars, alive, callVars, proc, pipes, convVars>>

\* The reader, at the end of the host's output.
Eof(g) ==
  /\ reader[g] = "reading" /\ ~Telling(g) /\ proc[g] = "dead" /\ fromHost[g] = <<>>
  /\ reader' = [reader EXCEPT ![g] = "retiring"]
  /\ alive' = alive \ {g}
  /\ UNCHANGED <<registry, switchVars, installed, inflight, answer, callVars, proc, pipes, convVars>>

Reap(g) ==
  /\ proc[g] = "dead" /\ g \in alive
  /\ alive' = alive \ {g}
  /\ UNCHANGED <<registry, switchVars, installed, inflight, answer, reader, callVars, proc, pipes,
                 convVars>>

\* handle_frame: a reply, a turn that ended, a stream that ended.
Read(g) ==
  /\ reader[g] = "reading" /\ ~Telling(g) /\ fromHost[g] # <<>>
  /\ fromHost' = [fromHost EXCEPT ![g] = Tail(@)]
  /\ LET f == Head(fromHost[g]) IN
     \/ /\ f.kind = "reply"
        /\ IF inflight[f.by] = f.n
           THEN /\ inflight' = [inflight EXCEPT ![f.by] = 0]
                /\ answer' = [answer EXCEPT ![f.by] = f.answer]
           ELSE UNCHANGED <<inflight, answer>>
        /\ UNCHANGED <<status, untold, hostClosed, listed>>
     \/ /\ f.kind = "turn"
        /\ Finished({f.turn} \cap registered, "ended", g)
        /\ UNCHANGED <<inflight, answer, hostClosed, listed>>
     \/ /\ f.kind = "session"
        /\ IF underway # Nobody THEN hostClosed' = TRUE /\ UNCHANGED listed
           ELSE listed' = FALSE /\ UNCHANGED hostClosed
        /\ UNCHANGED <<inflight, answer, status, untold>>
  /\ UNCHANGED <<registered, log, closed, underway, installed, alive, reader, callVars, proc, toHost,
                 convVars>>

---------------------------------------------------------------------------
(* The host process.                                                       *)

\* A turn ended: completed, failed or interrupted.
TurnFrame(t) == [kind |-> "turn", turn |-> t]
SessionFrame == [kind |-> "session"]
Reply(m, a) == [kind |-> "reply", by |-> m.by, n |-> m.n, answer |-> a]

Says(g, frames) == fromHost' = [fromHost EXCEPT ![g] = @ \o frames]

TurnOf(c) == IF c \in Turns THEN c ELSE Names[c]

Takes(g, op) ==
  /\ proc[g] = "up" /\ toHost[g] # <<>> /\ Head(toHost[g]).op = op
  /\ toHost' = [toHost EXCEPT ![g] = Tail(@)]
  /\ UNCHANGED <<registry, switchVars, hostVars, callVars, proc>>

\* MUTANT: a turn is reported whether or not one runs.
SettlesAnyway(g) == <<TurnFrame(turn[g])>>

\* The turn that runs when the session ends is settled first.
Settles(g) == IF turn[g] = Nobody THEN <<>> ELSE <<TurnFrame(turn[g])>>

\* session.input: whose turn it is is settled before the input is pushed.
Input(g) ==
  /\ Takes(g, "input")
  /\ LET m == Head(toHost[g])
         t == TurnOf(m.by)
     IN IF ~conv[g]
        THEN Says(g, <<Reply(m, "not_found")>>) /\ UNCHANGED <<turn, work>>
        ELSE IF turn[g] \notin {Nobody, t}
        THEN Says(g, <<Reply(m, "busy")>>) /\ UNCHANGED <<turn, work>>
        ELSE /\ turn' = [turn EXCEPT ![g] = t]
             /\ work' = [work EXCEPT ![g] = Append(@, m.by)]
             /\ Says(g, <<Reply(m, "ok")>>)
  /\ UNCHANGED <<conv, claims, endings>>

\* session.interrupt claims the turn, then awaits the SDK.
Interrupt(g) ==
  /\ Takes(g, "interrupt")
  /\ LET m == Head(toHost[g]) IN
     IF conv[g] /\ turn[g] = Names[m.by]
     THEN /\ turn' = [turn EXCEPT ![g] = Nobody]
          /\ claims' = [claims EXCEPT ![g] = @ \cup {m}]
          /\ UNCHANGED fromHost
     ELSE /\ Says(g, <<Reply(m, IF ~conv[g] THEN "not_found"
                                ELSE IF turn[g] = Nobody THEN "ok" ELSE "invalid")>>)
          /\ UNCHANGED <<turn, claims>>
  /\ UNCHANGED <<conv, work, endings>>

\* The SDK's interrupt returns, or it throws.
Interrupted(g) ==
  /\ \E m \in claims[g] :
       /\ claims' = [claims EXCEPT ![g] = @ \ {m}]
       /\ \/ Says(g, <<TurnFrame(Names[m.by]), Reply(m, "ok")>>)
          \/ Says(g, <<Reply(m, "claude_error")>>)
  /\ UNCHANGED <<registry, switchVars, hostVars, callVars, proc, toHost, conv, turn, work, endings>>

\* session.close: the stream ends a little later.
Closes(g) ==
  /\ \/ Takes(g, "close")
     \/ Takes(g, "close_for_good")
  /\ LET m == Head(toHost[g]) IN
     IF ~conv[g]
     THEN Says(g, <<Reply(m, "already")>>) /\ UNCHANGED <<conv, turn, work, endings>>
     ELSE /\ Says(g, Settles(g) \o <<Reply(m, "ok")>>)
          /\ conv' = [conv EXCEPT ![g] = FALSE]
          /\ turn' = [turn EXCEPT ![g] = Nobody]
          /\ work' = [work EXCEPT ![g] = <<>>]
          /\ endings' = [endings EXCEPT ![g] = @ + 1]
  /\ UNCHANGED claims

\* session.create: a stream that ends within the grace period is an error.
Opens(g) ==
  /\ \/ Takes(g, "create")
     \/ Takes(g, "create_back")
  /\ LET m == Head(toHost[g]) IN
     \/ conv[g] /\ Says(g, <<Reply(m, "invalid")>>) /\ UNCHANGED conv
     \/ ~conv[g] /\ Says(g, <<Reply(m, "ok")>>) /\ conv' = [conv EXCEPT ![g] = TRUE]
     \/ ~conv[g] /\ Says(g, <<SessionFrame, Reply(m, "claude_error")>>) /\ UNCHANGED conv
  /\ UNCHANGED <<turn, work, claims, endings>>

\* pump: a result answers some of the inputs and ends whichever turn is noted.
Result(g) ==
  /\ work[g] # <<>>
  /\ \E k \in 1..Len(work[g]) : work' = [work EXCEPT ![g] = SubSeq(@, k + 1, Len(@))]
  /\ Says(g, Settles(g))
  /\ turn' = [turn EXCEPT ![g] = Nobody]
  /\ UNCHANGED <<registry, switchVars, hostVars, callVars, proc, toHost, conv, claims, endings>>

\* The stream of a conversation breaks off ...
StreamFails(g) ==
  /\ conv[g]
  /\ conv' = [conv EXCEPT ![g] = FALSE]
  /\ Says(g, Settles(g) \o <<SessionFrame>>)
  /\ turn' = [turn EXCEPT ![g] = Nobody]
  /\ work' = [work EXCEPT ![g] = <<>>]
  /\ UNCHANGED <<registry, switchVars, hostVars, callVars, proc, toHost, claims, endings>>

\* ... or that of a closed one ends, and the conversation is forgotten by its id.
StreamEnds(g) ==
  /\ endings[g] > 0
  /\ endings' = [endings EXCEPT ![g] = @ - 1]
  /\ conv' = [conv EXCEPT ![g] = FALSE]
  /\ Says(g, <<SessionFrame>>)
  /\ UNCHANGED <<registry, switchVars, hostVars, callVars, proc, toHost, turn, work, claims>>

Dies(g) ==
  /\ proc[g] = "up"
  /\ proc' = [proc EXCEPT ![g] = "dead"]
  /\ toHost' = [toHost EXCEPT ![g] = <<>>]
  /\ conv' = [conv EXCEPT ![g] = FALSE]
  /\ turn' = [turn EXCEPT ![g] = Nobody]
  /\ work' = [work EXCEPT ![g] = <<>>]
  /\ claims' = [claims EXCEPT ![g] = {}]
  /\ endings' = [endings EXCEPT ![g] = 0]
  /\ UNCHANGED <<registry, switchVars, hostVars, callVars, fromHost>>

---------------------------------------------------------------------------
(* The specification.  The first host runs and the conversation is open.   *)

Init ==
  /\ registered = {} /\ closed = {}
  /\ status = [t \in Turns |-> "none"] /\ untold = [t \in Turns |-> {}]
  /\ log = [t \in Turns |-> <<>>]
  /\ underway = Nobody /\ hostClosed = FALSE /\ listed = TRUE
  /\ installed = 1 /\ alive = {1}
  /\ inflight = [c \in Callers |-> 0] /\ answer = [c \in Callers |-> "none"]
  /\ reader = [g \in Hosts |-> IF g = 1 THEN "reading" ELSE "none"]
  /\ pc = [c \in Callers |-> "idle"] /\ doing = [c \in Callers |-> "none"]
  /\ calls = [c \in Callers |-> 0] /\ gen = [c \in Callers |-> 0]
  /\ result = [t \in Turns |-> "none"]
  /\ proc = [g \in Hosts |-> IF g = 1 THEN "up" ELSE "none"]
  /\ toHost = [g \in Hosts |-> <<>>] /\ fromHost = [g \in Hosts |-> <<>>]
  /\ conv = [g \in Hosts |-> g = 1] /\ turn = [g \in Hosts |-> Nobody]
  /\ work = [g \in Hosts |-> <<>>] /\ claims = [g \in Hosts |-> {}]
  /\ endings = [g \in Hosts |-> 0]

BeginTurn(t) == Count(t) \/ Create(t) \/ CheckSwitch(t) \/ Announce(t) \/ Begun(t)
Told(t) == Tell(t) \/ CloseLog(t)
SteerOrInterrupt(c) == Lookup(c) \/ Steered(c)
CallHost(c) == Ensure(c) \/ Send(c)
Switch(w) == LookForTurns(w) \/ CloseForSwitch(w) \/ CloseReturns(w) \/ StreamEnded(w)
             \/ ReopenReturns(w) \/ Finish(w)
Follow(g) == Eof(g) \/ Retire(g) \/ Reap(g) \/ Read(g)
Host(g) == Input(g) \/ Interrupt(g) \/ Interrupted(g) \/ Closes(g) \/ Opens(g) \/ Result(g)
           \/ StreamFails(g) \/ StreamEnds(g) \/ Dies(g)

Next ==
  \/ \E t \in Turns : BeginTurn(t) \/ Told(t)
  \/ \E c \in Steers \cup Interrupts : SteerOrInterrupt(c)
  \/ \E w \in Switches : Begin(w) \/ Switch(w)
  \/ \E c \in Callers : CallHost(c) \/ HangUp(c)
  \/ \E g \in Hosts : Follow(g) \/ Host(g)

\* A switch that was begun is a task of the runtime, and so is polled, and what
\* finishes an operation does not wait for anybody; nothing is assumed of the
\* host, of Claude, or of who calls.
Fairness ==
  /\ \A w \in Switches : WF_vars(Switch(w) \/ CallHost(w))
  /\ \A t \in Turns : WF_vars(Told(t))

Spec == Init /\ [][Next]_vars /\ Fairness

---------------------------------------------------------------------------
(* Properties.                                                             *)

Commands == {"none", "input", "interrupt", "close", "create", "create_back", "close_for_good"}
Frames == {"started", "steered", "terminal"}
CallIds == [op : Commands, by : Callers, n : Nat]
HostFrames == [kind : {"turn"}, turn : Turns] \cup [kind : {"session"}]
              \cup [kind : {"reply"}, by : Callers, n : Nat, answer : Answers]

\* Every variable keeps its type.
TypeOK ==
  /\ registered \subseteq Turns /\ closed \subseteq Turns
  /\ status \in [Turns -> {"none", "running", "ended", "lost"}]
  /\ \A t \in Turns : untold[t] \subseteq (Hosts \cup Callers) \X {"frame", "close"}
  /\ \A t \in Turns : log[t] \in Seq(Frames)
  /\ underway \in Switches \cup {Nobody} /\ hostClosed \in BOOLEAN /\ listed \in BOOLEAN
  /\ installed \in Hosts \cup {0} /\ alive \subseteq Hosts
  /\ inflight \in [Callers -> Nat] /\ answer \in [Callers -> Answers \cup {"none"}]
  /\ reader \in [Hosts -> {"none", "reading", "retiring", "done"}]
  /\ pc \in [Callers -> {"idle", "creating", "checking", "announcing", "looking", "closing", "ending",
                         "finishing", "calling", "sending", "awaiting", "unavailable", "dropped",
                         "done"}]
  /\ doing \in [Callers -> Commands] /\ calls \in [Callers -> Nat]
  /\ gen \in [Callers -> Hosts \cup {0}]
  /\ result \in [Turns -> Answers \cup {"none", "too_many", "switching"}]
  /\ proc \in [Hosts -> {"none", "up", "dead"}]
  /\ \A g \in Hosts : toHost[g] \in Seq(CallIds) /\ fromHost[g] \in Seq(HostFrames)
  /\ conv \in [Hosts -> BOOLEAN] /\ turn \in [Hosts -> Turns \cup {Nobody}]
  /\ \A g \in Hosts : work[g] \in Seq(Turns \cup Steers) /\ claims[g] \subseteq CallIds
  /\ endings \in [Hosts -> Nat]

\* The switch under way has looked for turns, found none, and goes on.
PastLook == underway # Nobody /\ pc[underway] \notin {"looking", "finishing", "dropped"}

\* A switch registers itself and then looks for turns, a turn registers itself
\* and then looks for a switch: while a switch goes on, the only operations
\* that run are of turns that have still to look, and will be refused.
SwitchExcludesTurns == PastLook => \A t \in Turns : Running(t) => pc[t] = "checking"

\* However the host's frames, a dead host and its successor race to finish an
\* operation, its log gets one terminal frame, and it is closed after that.
OneTerminal ==
  \A t \in Turns :
    LET n == Cardinality({k \in DOMAIN log[t] : log[t][k] = "terminal"}) IN
    n <= 1 /\ (t \in closed => n = 1)

\* Once the tasks of a dead host are through, no operation that was started on
\* it runs on: its caller is told, and its slot is free.
HostDeathEndsOps ==
  \A g \in Hosts : reader[g] = "done" => \A t \in Turns : Running(t) => gen[t] # g

\* The late clean-up of a dead host leaves the operations of its successor alone.
NewHostUnharmed ==
  [][\A t \in Turns : (status'[t] = "lost" /\ status[t] # "lost" /\ gen[t] # 0)
                        => proc[gen[t]] = "dead"]_vars

\* The first switch opens the conversation again only after the stream it had has
\* ended, so that the end of the old stream does not take the new conversation
\* away: whatever times out, and however hosts die and are replaced.
ReopenedStays ==
  [][\A g \in Hosts : StreamEnds(g) /\ conv[g] =>
        \E v, w \in Switches : v # w /\ pc[v] # "idle" /\ pc[w] # "idle"]_vars

\* A switch whose caller stays comes to its end, though the host dies, is slow or
\* never reports the end of the stream.  Only a host that lives on and reads
\* nothing more can keep it, in a write that never returns (RuntimeHost::call).
SwitchFinishes ==
  \A w \in Switches : (underway = w) ~> (underway = Nobody \/ []Blocked(w))

\* docs/ACCOUNTS.md says that no turn starts between a switch's look for turns
\* and its end.
NoInputDuringSwitch ==
  [][PastLook => \A g \in Hosts : Len(work'[g]) <= Len(work[g])]_vars

\* docs/ACCOUNTS.md says that every switch ends: the one under way is always a
\* task that goes on.
SwitchIsTended == underway # Nobody => pc[underway] \notin {"dropped", "done"}

=============================================================================
