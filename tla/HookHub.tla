------------------------------ MODULE HookHub ------------------------------
(***************************************************************************)
(* The relay of messages into a session Mother Claude does not own, and    *)
(* the interrupts it is sent: server/hooks/machine.rs (the state machine,  *)
(* one mutex) and server/hooks.rs (the HTTP handlers around it), for one   *)
(* session.                                                                *)
(*                                                                         *)
(* Three parties meet in the machine: the Claude Code process, whose hooks *)
(* report events and take messages in the answers; mc-wake listeners,      *)
(* long polls parked while the session is idle; and the dashboard, which   *)
(* queues, cancels and interrupts.  The process and mc-wake are external   *)
(* and modelled from what the handlers expect of them.  An action is one   *)
(* critical section of the machine, or one step of a poll's task.          *)
(*                                                                         *)
(* What the same events do to held permission prompts is in HookPrompts.   *)
(***************************************************************************)
EXTENDS Naturals, Sequences, FiniteSets

CONSTANTS
  MaxMessages,   \* messages the dashboard sends, in this order
  Privileged,    \* those whose sender may cause unapproved execution
  Polls,         \* mc-wake listeners
  Torn,          \* those whose connection can break, or time out as they are told
  QueueCap,      \* QUEUE_CAP
  Fits,          \* messages one hand-over carries (relay::fitting)
  Aging,         \* messages that may stay queued past RELAY_TTL_MS
  ModeSwitches,  \* whether the permission mode is ever changed at the desk
  HookTimesOut,  \* whether a hook may give up on its answer (curl --max-time 2)
  MaxTurns,      \* turns the user starts at the desk
  MaxProcesses,  \* claude processes that speak for the session, one after another
  NoPoll,
  NoTurn         \* no interrupt is asked for

Messages == 1..MaxMessages

ASSUME HubAssumption ==
  /\ MaxMessages \in Nat /\ MaxTurns \in Nat
  /\ QueueCap \in Nat \ {0} /\ Fits \in Nat \ {0} /\ MaxProcesses \in Nat \ {0}
  /\ Privileged \subseteq Messages
  /\ Torn \subseteq Polls
  /\ Aging \subseteq Messages
  /\ NoPoll \notin Polls /\ NoTurn \notin Nat
  /\ HookTimesOut \in BOOLEAN /\ ModeSwitches \in BOOLEAN

Modes == {"default", "bypass"}

VARIABLES
  \* SessionHooks
  pid,         \* the process the hooks come from
  ended,       \* SessionEnd arrived
  mode,        \* permission_mode, as last noted
  active,      \* turn_active: "no", "yes", or "idle_since" when the pidfile turned
               \* idle after turn_started_ms
  interrupt,   \* NoTurn, or the flag: the turn running when it was asked for (0: none)
  queue,       \* messages still queued, oldest first
  status,      \* of each message; the delivered and dropped ones are its history
  waiter,      \* the parked poll, or NoPoll
  \* wake polls
  poll,        \* where each listener is, the process that started it, and the mode
               \* in the Stop payload it sends with every poll
  signal,      \* what its channel holds: a WaitSignal or Nothing
  \* the session's process, the plugin and the pidfile watch
  cli, process, turn, cliMode, disabled, sawDead,
  \* history
  aged,        \* messages older than RELAY_TTL_MS
  handed,      \* messages handed over, in this order
  bypassed,    \* those a hook took in bypassPermissions
  got,         \* messages that reached the session
  ack          \* what a cancel was answered

pollVars == <<poll, signal>>
cliVars == <<cli, process, turn, cliMode>>
hubVars == <<pid, ended, mode, active, interrupt, queue, status,
             waiter, handed, bypassed>>
vars == <<hubVars, pollVars, cliVars, disabled, sawDead, aged, got, ack>>

Nothing == [kind |-> "nothing", text |-> <<>>]
Gone == [kind |-> "gone", text |-> <<>>]
Superseded == [kind |-> "superseded", text |-> <<>>]
Release(batch) == [kind |-> "release", text |-> batch]

Off == [at |-> "off", owner |-> 1, body |-> "default"]

Elems(s) == {s[k] : k \in DOMAIN s}
Alive(p) == p = process /\ cli # "dead"

---------------------------------------------------------------------------
(* The queue.                                                              *)

\* The messages of q that are in S, in their order: SelectSeq, but as a function
\* the proofs can look into.
Only(q, S) ==
  LET kept[n \in 0..Len(q)] == IF n = 0 THEN <<>>
                               ELSE IF q[n] \in S THEN Append(kept[n - 1], q[n])
                               ELSE kept[n - 1]
  IN kept[Len(q)]

\* MUTANT: messages already queued are not looked at again.
KeptUnchecked(q, md) == Only(q, Messages \ aged)

\* prune_queue: what may not be handed over now leaves the queue.
Kept(q, md) == Only(q, {m \in Messages \ aged : md = "bypass" => m \in Privileged})

\* MUTANT: one message more than the cap.
FullOneLate(q) == Len(q) > QueueCap

Full(q) == Len(q) >= QueueCap

\* claim_raw takes as many of the oldest as fit.
Batch(q) == SubSeq(q, 1, IF Len(q) < Fits THEN Len(q) ELSE Fits)

\* The statuses after q was pruned.
Pruned(q, st, md) ==
  [m \in Messages |-> IF m \notin Elems(q) \ Elems(Kept(q, md)) THEN st[m]
                      ELSE IF m \in aged THEN "failed" ELSE "cancelled"]

\* Prune q, then hand batch over, to a hook or to a listener.
HandOver(q, st, md, batch, byHook) ==
  LET kept == Kept(q, md) IN
  /\ queue' = SubSeq(kept, Len(batch) + 1, Len(kept))
  /\ status' = [m \in Messages |->
                  IF m \in Elems(batch) THEN "delivered" ELSE Pruned(q, st, md)[m]]
  /\ handed' = handed \o batch
  /\ bypassed' = IF byHook /\ md = "bypass" THEN bypassed \cup Elems(batch) ELSE bypassed

TurnActive == active # "no"
TurnStarts == active' = "yes"

HasReceiver(w) == w # NoPoll /\ poll[w].at \in {"parked", "leaving"}

Tell(w, s) == [x \in Polls |-> IF x = w /\ HasReceiver(w) THEN s ELSE signal[x]]

\* MUTANT: an undone claim goes back behind the messages still queued.
UndoneBehind(kept, batch) == SubSeq(kept, Len(batch) + 1, Len(kept)) \o batch

\* unclaim puts the batch back in front.
Undone(kept, batch) == batch \o SubSeq(kept, Len(batch) + 1, Len(kept))

\* try_release: with the session idle and a waiter armed, claim for it and
\* send; a receiver that is gone gets the claim undone.
TryRelease(q, st, md, busy) ==
  IF busy \/ q = <<>> \/ waiter = NoPoll
  THEN /\ queue' = q /\ status' = st
       /\ active' = IF busy THEN active ELSE "no"
       /\ UNCHANGED <<waiter, signal, handed, bypassed>>
  ELSE LET kept == Kept(q, md)
           batch == Batch(kept) IN
       /\ waiter' = IF batch = <<>> THEN waiter ELSE NoPoll
       /\ IF batch # <<>> /\ HasReceiver(waiter)
          THEN /\ HandOver(q, st, md, batch, FALSE)
               /\ signal' = Tell(waiter, Release(batch))
               /\ TurnStarts
          ELSE /\ queue' = Undone(kept, batch)
               /\ status' = Pruned(q, st, md)
               /\ active' = "no"
               /\ UNCHANGED <<signal, handed, bypassed>>

---------------------------------------------------------------------------
(* The dashboard.                                                          *)

\* enqueue_relay_as, enqueue_inner and enqueue_from.  known: the dashboard has
\* learnt that the session runs in bypassPermissions.
Enqueue(m) ==
  /\ status[m] = "new" /\ \A n \in 1..(m - 1) : status[n] # "new"
  /\ \E known \in {FALSE, cliMode = "bypass"} :
       LET md == IF known THEN "bypass" ELSE mode
           kept == Kept(queue, md)
           pruned == Pruned(queue, status, md)
       IN  IF known /\ m \notin Privileged
           THEN /\ status' = [status EXCEPT ![m] = "refused"]
                /\ UNCHANGED <<mode, queue, active, waiter, signal, handed, bypassed>>
           ELSE /\ mode' = md
                /\ IF ended
                   THEN /\ status' = [status EXCEPT ![m] = "refused"]
                        /\ UNCHANGED <<queue, active, waiter, signal, handed, bypassed>>
                   ELSE IF Full(kept)
                        THEN /\ queue' = kept /\ status' = [pruned EXCEPT ![m] = "refused"]
                             /\ UNCHANGED <<active, waiter, signal, handed, bypassed>>
                        ELSE TryRelease(Append(kept, m), [pruned EXCEPT ![m] = "queued"],
                                        md, TurnActive)
  /\ UNCHANGED <<pid, ended, interrupt, poll, cliVars, disabled, sawDead, aged, got, ack>>

\* cancel
Cancel(m) ==
  /\ status[m] # "new" /\ ack[m] = "none"
  /\ IF m \in Elems(queue)
     THEN /\ queue' = Only(queue, Messages \ {m})
          /\ status' = [status EXCEPT ![m] = "cancelled"]
          /\ ack' = [ack EXCEPT ![m] = "cancelled"]
     ELSE /\ ack' = [ack EXCEPT ![m] = IF status[m] = "delivered"
                                       THEN "already_delivered" ELSE "not_found"]
          /\ UNCHANGED <<queue, status>>
  /\ UNCHANGED <<pid, ended, mode, active, interrupt, waiter, handed, bypassed,
                 pollVars, cliVars, disabled, sawDead, aged, got>>

\* request_interrupt
RequestInterrupt ==
  /\ interrupt' = IF cli \in {"starting", "busy"} THEN turn ELSE 0
  /\ UNCHANGED <<pid, ended, mode, active, queue, status, waiter, handed, bypassed,
                 pollVars, cliVars, disabled, sawDead, aged, got, ack>>

\* Foreign control is turned off: release_all_waiters.
TurnOff ==
  /\ ~disabled /\ disabled' = TRUE
  /\ signal' = Tell(waiter, Gone)
  /\ waiter' = NoPoll
  /\ UNCHANGED <<pid, ended, mode, active, interrupt, queue, status, handed,
                 bypassed, poll, cliVars, sawDead, aged, got, ack>>

\* A queued message passes its RELAY_TTL_MS.
Ages(m) ==
  /\ m \in Aging \ aged /\ status[m] = "queued"
  /\ aged' = aged \cup {m}
  /\ UNCHANGED <<hubVars, pollVars, cliVars, disabled, sawDead, got, ack>>

\* gc prunes every queue (the session itself stays for an hour at least).
Gc ==
  /\ Kept(queue, mode) # queue
  /\ HandOver(queue, status, mode, <<>>, FALSE)
  /\ UNCHANGED <<pid, ended, mode, active, interrupt, waiter, pollVars, cliVars,
                 disabled, sawDead, aged, got, ack>>

---------------------------------------------------------------------------
(* Hook events.  Every one is recorded by touch, which clears ended, and   *)
(* brings the session's mode.                                              *)

Event ==
  /\ ended' = FALSE
  /\ mode' = cliMode
  /\ pid' = process

\* The main thread stops without a Stop event: the pidfile turns idle.
ReturnsToPrompt == cli' = "idle" /\ UNCHANGED <<process, turn, cliMode>>

Heard == IF HookTimesOut THEN BOOLEAN ELSE {TRUE}

\* The user starts a turn at the desk.
Prompt ==
  /\ cli = "idle" /\ turn < MaxTurns
  /\ cli' = "starting" /\ turn' = turn + 1
  /\ UNCHANGED <<process, cliMode, hubVars, pollVars, disabled, sawDead, aged, got, ack>>

\* MUTANT: a new prompt leaves the interrupt flag alone.
PromptKeepingInterrupt ==
  /\ cli = "starting" /\ cli' = "busy"
  /\ Event
  /\ TurnStarts
  /\ UNCHANGED <<interrupt, queue, status, waiter, handed, bypassed, pollVars, process, turn,
                 cliMode, disabled, sawDead, aged, got, ack>>

\* UserPromptSubmit, with a prompt_id of its own.
UserPromptSubmit ==
  /\ cli = "starting" /\ cli' = "busy"
  /\ Event
  /\ interrupt' = NoTurn
  /\ TurnStarts
  /\ UNCHANGED <<queue, status, waiter, handed, bypassed, pollVars, process, turn, cliMode,
                 disabled, sawDead, aged, got, ack>>

\* start_turn: a tool event is evidence of a running turn.
TurnRuns == active' = IF TurnActive THEN active ELSE "yes"

\* Answered with continue:false, the turn ends there.
Interrupted == active' = "idle_since" /\ ReturnsToPrompt

PreToolUse ==
  /\ cli = "busy"
  /\ Event
  /\ \E heard \in Heard :
       IF interrupt # NoTurn /\ heard THEN Interrupted ELSE TurnRuns /\ UNCHANGED cliVars
  /\ UNCHANGED <<interrupt, queue, status, waiter, handed, bypassed, pollVars, disabled, sawDead,
                 aged, got, ack>>

PostToolUse ==
  /\ cli = "busy"
  /\ Event
  /\ \E heard \in Heard :
       IF interrupt # NoTurn
       THEN /\ IF heard THEN Interrupted ELSE TurnRuns /\ UNCHANGED cliVars
            /\ UNCHANGED <<queue, status, handed, bypassed, got>>
       ELSE LET batch == Batch(Kept(queue, cliMode)) IN
            /\ HandOver(queue, status, cliMode, batch, TRUE)
            /\ got' = IF heard THEN got \cup Elems(batch) ELSE got
            /\ TurnRuns
            /\ UNCHANGED cliVars
  /\ UNCHANGED <<interrupt, waiter, pollVars, disabled, sawDead, aged, ack>>

\* The Stop hook also starts a listener, with the Stop payload.
Listen ==
  \/ \E w \in Polls :
       /\ poll[w].at = "off"
       /\ poll' = [poll EXCEPT ![w] = [at |-> "calling", owner |-> process, body |-> cliMode]]
  \/ (\A w \in Polls : poll[w].at # "off") /\ UNCHANGED poll

\* Stop: with messages queued the turn goes on with them.
Stop ==
  /\ cli = "busy"
  /\ Event
  /\ interrupt' = NoTurn
  /\ \E heard \in Heard : LET batch == Batch(Kept(queue, cliMode)) IN
       /\ HandOver(queue, status, cliMode, batch, TRUE)
       /\ got' = IF heard THEN got \cup Elems(batch) ELSE got
       /\ IF batch # <<>> /\ heard THEN UNCHANGED cliVars ELSE ReturnsToPrompt
       /\ active' = IF batch = <<>> THEN "no" ELSE IF heard THEN "yes" ELSE "idle_since"
  /\ Listen
  /\ UNCHANGED <<waiter, signal, disabled, sawDead, aged, ack>>

StopFailure ==
  /\ cli = "busy"
  /\ Event
  /\ interrupt' = NoTurn
  /\ TryRelease(queue, status, cliMode, FALSE)
  /\ ReturnsToPrompt
  /\ UNCHANGED <<poll, disabled, sawDead, aged, got, ack>>

\* Escape ends a turn with no event; a turn may end so before it has begun.
Escape ==
  /\ cli \in {"starting", "busy"}
  /\ ReturnsToPrompt
  /\ active' = IF TurnActive THEN "idle_since" ELSE "no"
  /\ UNCHANGED <<pid, ended, mode, interrupt, queue, status, waiter, handed, bypassed,
                 pollVars, disabled, sawDead, aged, got, ack>>

\* The mode is changed at the desk; no hook tells.
SwitchMode ==
  /\ ModeSwitches /\ cli \in {"idle", "busy"}
  /\ \E md \in Modes \ {cliMode} : cliMode' = md
  /\ UNCHANGED <<cli, process, turn, hubVars, pollVars, disabled, sawDead, aged, got, ack>>

---------------------------------------------------------------------------
(* The session's end, its next process, and the pidfile watch.             *)

\* What SessionEnd does to the session's state.
Ends ==
  /\ ended' = TRUE
  /\ active' = "no"
  /\ interrupt' = NoTurn
  /\ queue' = <<>>
  /\ status' = [m \in Messages |-> IF m \in Elems(queue) THEN "failed" ELSE status[m]]
  /\ signal' = Tell(waiter, Gone)
  /\ waiter' = NoPoll
  /\ UNCHANGED <<handed, bypassed>>

\* The process says goodbye; it lives a little longer.
SessionEnd ==
  /\ cli \in {"idle", "busy"}
  /\ cli' = "ending"
  /\ mode' = cliMode /\ pid' = process
  /\ Ends
  /\ UNCHANGED <<process, turn, cliMode, poll, disabled, sawDead, aged, got, ack>>

\* The process is gone, after its SessionEnd or killed.
Dies ==
  /\ cli # "dead" /\ cli' = "dead"
  /\ UNCHANGED <<process, turn, cliMode, hubVars, pollVars, disabled, sawDead, aged, got, ack>>

\* reset_process: another process speaks for the session.
ResetBy(p) == p # pid

\* A new process resumes the session: SessionStart.
Resume ==
  /\ cli = "dead" /\ process < MaxProcesses
  /\ cli' = "idle" /\ process' = process + 1
  /\ pid' = process + 1 /\ ended' = FALSE /\ mode' = cliMode
  /\ active' = "no" /\ interrupt' = NoTurn
  /\ signal' = Tell(waiter, Gone) /\ waiter' = NoPoll
  /\ UNCHANGED <<turn, cliMode, queue, status, handed, bypassed, poll,
                 disabled, sawDead, aged, got, ack>>

\* watch_once looks at a session with a turn or messages, finds its process
\* dead, and then ends it, in two locked steps.
WatchSeesDead ==
  /\ ~sawDead /\ ~ended /\ (TurnActive \/ queue # <<>>) /\ ~Alive(pid)
  /\ sawDead' = TRUE
  /\ UNCHANGED <<hubVars, pollVars, cliVars, disabled, aged, got, ack>>

WatchEnds ==
  /\ sawDead /\ sawDead' = FALSE
  /\ Ends
  /\ UNCHANGED <<pid, mode, poll, cliVars, disabled, aged, got, ack>>

\* observe_pidfile: idle since after the turn started, and confirmed.
ObserveIdle ==
  /\ active = "idle_since"
  /\ interrupt' = NoTurn
  /\ TryRelease(queue, status, mode, FALSE)
  /\ UNCHANGED <<pid, ended, mode, poll, cliVars, disabled, sawDead, aged, got, ack>>

---------------------------------------------------------------------------
(* The wake listeners.                                                     *)

PollGoto(w, l) == poll' = [poll EXCEPT ![w] = IF l = "off" THEN Off ELSE [@ EXCEPT !.at = l]]

\* wait: every check before the machine's lock is taken.
Admit(w) ==
  /\ poll[w].at = "calling"
  /\ PollGoto(w, IF Alive(poll[w].owner) /\ ~disabled THEN "admitted" ELSE "off")
  /\ UNCHANGED <<hubVars, signal, cliVars, disabled, sawDead, aged, got, ack>>

\* MUTANT: a listener is parked whatever is queued.
ArmParking(w) ==
  LET reset == ResetBy(poll[w].owner) IN
  /\ poll[w].at = "admitted"
  /\ pid' = poll[w].owner /\ mode' = poll[w].body /\ ended' = FALSE
  /\ interrupt' = IF reset THEN NoTurn ELSE interrupt
  /\ active' = IF reset THEN "no" ELSE active
  /\ waiter' = w
  /\ signal' = Tell(waiter, IF reset THEN Gone ELSE Superseded)
  /\ PollGoto(w, "parked")
  /\ UNCHANGED <<queue, status, handed, bypassed, cliVars, disabled, sawDead, aged, got, ack>>

\* note_mode and arm_waiter: the newest listener wins, and takes what is queued
\* at once when the session is idle.
Arm(w) ==
  LET reset == ResetBy(poll[w].owner)
      idle == reset \/ ~TurnActive
      batch == IF idle THEN Batch(Kept(queue, poll[w].body)) ELSE <<>>
      told == Tell(waiter, IF reset THEN Gone ELSE Superseded)
  IN
  /\ poll[w].at = "admitted"
  /\ pid' = poll[w].owner /\ mode' = poll[w].body /\ ended' = FALSE
  /\ interrupt' = IF reset THEN NoTurn ELSE interrupt
  /\ IF idle THEN HandOver(queue, status, poll[w].body, batch, FALSE)
             ELSE UNCHANGED <<queue, status, handed, bypassed>>
  /\ IF batch # <<>>
     THEN /\ TurnStarts
          /\ waiter' = NoPoll
          /\ signal' = [told EXCEPT ![w] = Release(batch)]
          /\ PollGoto(w, "waking")
     ELSE /\ active' = IF idle THEN "no" ELSE active
          /\ waiter' = w
          /\ signal' = told
          /\ PollGoto(w, "parked")
  /\ UNCHANGED <<cliVars, disabled, sawDead, aged, got, ack>>

\* The handler reads its channel and answers 200 or 410.
Answers(w) ==
  /\ poll[w].at = "parked" /\ signal[w] # Nothing
  /\ IF signal[w].kind = "release"
     THEN PollGoto(w, "waking") /\ UNCHANGED signal
     ELSE PollGoto(w, "off") /\ signal' = [signal EXCEPT ![w] = Nothing]
  /\ UNCHANGED <<hubVars, cliVars, disabled, sawDead, aged, got, ack>>

\* WAIT_HOLD is over: the receiver is dropped, but for a torn poll something
\* can be sent after it was last looked at.
TimesOut(w) ==
  /\ poll[w].at = "parked" /\ signal[w] = Nothing
  /\ PollGoto(w, IF w \in Torn THEN "leaving" ELSE "left")
  /\ UNCHANGED <<hubVars, signal, cliVars, disabled, sawDead, aged, got, ack>>

\* Its client is gone, which the server has yet to notice.
HangsUp(w) ==
  /\ w \in Torn /\ poll[w].at = "parked"
  /\ PollGoto(w, "leaving")
  /\ UNCHANGED <<hubVars, signal, cliVars, disabled, sawDead, aged, got, ack>>

Drops(w) ==
  /\ poll[w].at = "leaving"
  /\ PollGoto(w, "left")
  /\ signal' = [signal EXCEPT ![w] = Nothing]
  /\ UNCHANGED <<hubVars, cliVars, disabled, sawDead, aged, got, ack>>

\* WaiterGuard: disarm.  mc-wake polls again while its process lives.
Disarm(w) ==
  /\ poll[w].at = "left"
  /\ waiter' = IF waiter = w THEN NoPoll ELSE waiter
  /\ PollGoto(w, IF Alive(poll[w].owner) THEN "calling" ELSE "off")
  /\ UNCHANGED <<pid, ended, mode, active, interrupt, queue, status, handed,
                 bypassed, signal, cliVars, disabled, sawDead, aged, got, ack>>

\* mc-wake prints the text and exits 2: an idle session starts a turn with it,
\* a busy one takes it in.
Wakes(w) ==
  /\ poll[w].at = "waking"
  /\ PollGoto(w, "off")
  /\ signal' = [signal EXCEPT ![w] = Nothing]
  /\ IF Alive(poll[w].owner) /\ cli # "ending"
     THEN /\ got' = got \cup Elems(signal[w].text)
          /\ IF cli = "idle"
             THEN cli' = "starting" /\ turn' = turn + 1 /\ UNCHANGED <<process, cliMode>>
             ELSE UNCHANGED cliVars
     ELSE UNCHANGED <<got, cliVars>>
  /\ UNCHANGED <<hubVars, disabled, sawDead, aged, ack>>

PollStep(w) ==
  Admit(w) \/ Arm(w) \/ Answers(w) \/ TimesOut(w) \/ HangsUp(w) \/ Drops(w) \/ Disarm(w) \/ Wakes(w)

---------------------------------------------------------------------------
(* The session is known, idle and listened to by nobody.                   *)

Init ==
  /\ pid = 1 /\ ended = FALSE /\ mode = "default" /\ active = "no"
  /\ interrupt = NoTurn /\ queue = <<>> /\ waiter = NoPoll
  /\ status = [m \in Messages |-> "new"]
  /\ poll = [w \in Polls |-> Off] /\ signal = [w \in Polls |-> Nothing]
  /\ cli = "idle" /\ process = 1 /\ turn = 0 /\ cliMode = "default"
  /\ disabled = FALSE /\ sawDead = FALSE
  /\ aged = {} /\ handed = <<>> /\ got = {}
  /\ bypassed = {} /\ ack = [m \in Messages |-> "none"]

Next ==
  \/ \E m \in Messages : Enqueue(m) \/ Cancel(m) \/ Ages(m)
  \/ RequestInterrupt \/ TurnOff \/ Gc
  \/ Prompt \/ UserPromptSubmit \/ PreToolUse \/ PostToolUse \/ Stop \/ StopFailure
  \/ Escape \/ SwitchMode
  \/ SessionEnd \/ Dies \/ Resume \/ WatchSeesDead \/ WatchEnds \/ ObserveIdle
  \/ \E w \in Polls : PollStep(w)

Spec == Init /\ [][Next]_vars

\* A turn ends some day, the pidfile watch ticks every 300 ms, a poll's task runs.
Fairness ==
  /\ WF_vars(UserPromptSubmit) /\ WF_vars(Stop)
  /\ WF_vars(ObserveIdle) /\ WF_vars(WatchSeesDead) /\ WF_vars(WatchEnds)
  /\ \A w \in Polls : WF_vars(Admit(w)) /\ WF_vars(Arm(w)) /\ WF_vars(Answers(w))
                      /\ WF_vars(Drops(w)) /\ WF_vars(Disarm(w)) /\ WF_vars(Wakes(w))

FairSpec == Spec /\ Fairness

---------------------------------------------------------------------------
(* Properties.                                                             *)

\* Every variable keeps its type.
TypeOK ==
  /\ pid \in 1..MaxProcesses /\ ended \in BOOLEAN /\ mode \in Modes
  /\ active \in {"no", "yes", "idle_since"}
  /\ interrupt \in Nat \cup {NoTurn}
  /\ queue \in Seq(Messages) /\ Len(queue) <= QueueCap
  /\ status \in [Messages -> {"new", "refused", "queued", "delivered", "failed", "cancelled"}]
  /\ waiter \in Polls \cup {NoPoll}
  /\ poll \in [Polls -> [at : {"off", "calling", "admitted", "parked", "leaving", "left", "waking"},
                          owner : 1..MaxProcesses, body : Modes]]
  /\ signal \in [Polls -> [kind : {"nothing", "gone", "superseded", "release"}, text : Seq(Messages)]]
  /\ \A w \in Polls : signal[w].kind = "release" <=> signal[w].text # <<>>
  /\ cli \in {"idle", "starting", "busy", "ending", "dead"}
  /\ process \in 1..MaxProcesses /\ turn \in Nat /\ cliMode \in Modes
  /\ disabled \in BOOLEAN /\ sawDead \in BOOLEAN
  /\ aged \subseteq Messages /\ bypassed \subseteq Messages /\ got \subseteq Messages /\ handed \in Seq(Messages)
  /\ ack \in [Messages -> {"none", "cancelled", "already_delivered", "not_found"}]

\* s holds the messages in status st, each once and oldest first.
InOrder(s, st) ==
  /\ Elems(s) = {m \in Messages : status[m] = st}
  /\ \A j, k \in DOMAIN s : j < k => s[j] < s[k]

\* The messages handed over are the delivered ones, each once and oldest first,
\* and the queue is the rest in order: through claims by three events, immediate
\* and released wakes, and claims undone because the listener had vanished. One
\* whose cancel succeeded is never among them, one told "already_delivered" is.
HandedInOrder ==
  /\ InOrder(handed, "delivered") /\ InOrder(queue, "queued")
  /\ \A m \in Messages : /\ ack[m] = "cancelled" => m \notin Elems(handed)
                         /\ ack[m] = "already_delivered" => m \in Elems(handed)

\* An interrupt asked for during one turn never waits for a later one, however that
\* turn ended; a session that ended holds nothing back for a resume: no message, no
\* listener, no turn.
NothingOutlives ==
  /\ cli = "busy" /\ interrupt # NoTurn => interrupt \in {0, turn}
  /\ ended => queue = <<>> /\ waiter = NoPoll /\ ~TurnActive

\* What a hook of a session in bypassPermissions takes comes from a privileged
\* sender, whatever the mode was when it was queued.
BypassTakesPrivileged == bypassed \subseteq Privileged

\* A message marked delivered that neither reached the session nor is under way.
OnItsWay(m) == \E w \in Polls : poll[w].at \in {"parked", "waking"} /\ m \in Elems(signal[w].text)
Lost(m) == status[m] = "delivered" /\ m \notin got /\ ~OnItsWay(m)

\* While the session's process lives, a message that was handed over reaches it.
DeliveredArrives ==
  cli \notin {"ending", "dead"} => \A m \in Messages : ~Lost(m)

\* While a listener keeps polling, a queued message leaves the queue, unless a
\* hand-over was lost before it.
QueueDrains ==
  \A m \in Messages :
    status[m] = "queued" ~> \/ status[m] # "queued"
                            \/ \A w \in Polls : poll[w].at = "off"
                            \/ \E n \in Messages : Lost(n)
=============================================================================
