---------------------------- MODULE HookPrompts ----------------------------
(***************************************************************************)
(* The permission prompts of a session Mother Claude does not own:         *)
(* permission_request and apply in server/hooks.rs, with correlate, hold,  *)
(* interrupt, observe_pidfile and the withdrawals of on_event in           *)
(* server/hooks/machine.rs.                                                *)
(*                                                                         *)
(* Claude Code asks at the desk and, through a hook, everywhere else at    *)
(* once.  The request arrives, is looked at under the machine's lock,      *)
(* becomes a card, and is then held: three steps with slow ones between    *)
(* them, while the desk may answer, the turn may end, a new one may start  *)
(* and the user may interrupt.  The request does not say which tool call   *)
(* it is about.  A card must go when its call is over, and only then.      *)
(*                                                                         *)
(* Claude Code is external.  So is time: what the code compares by time    *)
(* stamps is kept as the set of requests that had arrived by then.         *)
(***************************************************************************)
EXTENDS Naturals, Sequences, FiniteSets

CONSTANTS
  Calls,     \* tool calls, each of which may ask for permission once
  Makers,    \* of each call: who may make it, Main or subagents
  Main,
  PreKey,    \* the input its PreToolUse carries
  AskKey,    \* the input its later events carry (a hook may rewrite it)
  MaxTurns,  \* turns the user starts at the desk
  NoCall

ASSUME PromptsAssumption ==
  /\ MaxTurns \in Nat
  /\ NoCall \notin Calls \cup {Main}
  /\ \A c \in Calls : NoCall \notin Makers[c]
  /\ DOMAIN Makers = Calls /\ DOMAIN PreKey = Calls /\ DOMAIN AskKey = Calls

Agents == (UNION {Makers[c] : c \in Calls}) \ {Main}

VARIABLES
  \* Claude Code
  cli,       \* its main thread
  turn,      \* the turn
  call,      \* where each call is
  agent,     \* agent_id: who made it
  shown,     \* the call whose dialog is on the screen
  stopped,   \* subagents that have finished
  earlier,   \* requests that had arrived when the pidfile left "waiting" or changed since
  \* SessionHooks and Hub
  pre,       \* pre_tools: calls announced by a PreToolUse, oldest first
  matched,   \* those a request was given
  finished,  \* calls known to have finished
  since,     \* per request: calls that finished after it arrived
  active,    \* turn_active
  interrupt, \* the flag
  ended,     \* SessionEnd was handled
  seen,      \* pid_status: the watch last read "waiting"
  left,      \* left_waiting_at: whether set, and the requests created before it
  held,      \* held requests
  fired,     \* those whose interrupt sender was used
  \* requests and their cards
  req,       \* where each permission_request is
  pair,      \* the tool call correlate gave it
  item,      \* its card in the pending store
  dooms,     \* cards an outcome still has to withdraw
  watched    \* history: requests that had arrived when the watch read "waiting"

cliVars == <<cli, turn, agent, call, shown, stopped>>
hubVars == <<pre, matched, finished, since, active, interrupt, ended, seen, left, held, fired>>
reqVars == <<req, pair, item, dooms>>
vars == <<cliVars, earlier, hubVars, reqVars, watched>>

NoEdge == [on |-> FALSE, before |-> {}]

\* Requests that have arrived and are not over.
Arrived == {c \in Calls : req[c] \in {"arrived", "looked", "raised", "waiting"}}
IsMain(c) == agent[c] = Main
HeldMain == {c \in held : IsMain(c)}

\* The session's pidfile.
PidStatus == IF shown # NoCall THEN "waiting" ELSE IF cli = "busy" THEN "busy" ELSE "idle"

---------------------------------------------------------------------------
(* Claude Code at the desk.                                                *)

Goto(c, l) == call' = [call EXCEPT ![c] = l]

\* The main thread goes back to its prompt; its calls are given up.
TurnStops(cs) ==
  /\ cli' = "idle"
  /\ call' = [c \in Calls |->
                IF c \in cs \/ (IsMain(c) /\ call[c] \in {"made", "asking", "running"})
                THEN "over" ELSE call[c]]
  /\ shown' = IF shown # NoCall /\ (shown \in cs \/ IsMain(shown)) THEN NoCall ELSE shown

Prompt ==
  /\ cli = "idle" /\ turn < MaxTurns
  /\ cli' = "starting" /\ turn' = turn + 1
  /\ UNCHANGED <<agent, call, shown, stopped, hubVars, reqVars>>

\* A call needs no permission, or asks for it: its PermissionRequest hook starts.
Permitted(c) ==
  /\ call[c] = "made" /\ Goto(c, "running")
  /\ UNCHANGED <<cli, turn, agent, shown, stopped, hubVars, reqVars>>

Ask(c) ==
  /\ call[c] = "made" /\ Goto(c, "asking")
  /\ req' = [req EXCEPT ![c] = "sent"]
  /\ UNCHANGED <<cli, turn, agent, shown, stopped, hubVars, pair, item, dooms>>

\* Dialogs are shown one at a time.
Show(c) ==
  /\ call[c] = "asking" /\ shown = NoCall /\ shown' = c
  /\ UNCHANGED <<cli, turn, agent, call, stopped, hubVars, reqVars>>

Closing(c) == shown' = IF shown = c THEN NoCall ELSE shown

DeskAllows(c) ==
  /\ shown = c /\ Closing(c) /\ Goto(c, "running")
  /\ UNCHANGED <<cli, turn, agent, stopped, hubVars, reqVars>>

\* A subagent's call is turned down at the desk; no hook tells.
DeskRejects(c) ==
  /\ shown = c /\ ~IsMain(c) /\ Closing(c) /\ Goto(c, "over")
  /\ UNCHANGED <<cli, turn, agent, stopped, hubVars, reqVars>>

\* So is one of the main thread, or the turn is left: no hook tells either.
Escape ==
  /\ cli \in {"starting", "busy"} /\ TurnStops({})
  /\ UNCHANGED <<turn, agent, stopped, hubVars, reqVars>>

Die ==
  /\ cli # "dead" /\ cli' = "dead"
  /\ call' = [c \in Calls |-> IF call[c] = "new" THEN "new" ELSE "over"]
  /\ shown' = NoCall
  /\ UNCHANGED <<turn, agent, stopped, hubVars, reqVars>>

---------------------------------------------------------------------------
(* Hook events (on_event).  The cards of an outcome are withdrawn later.   *)

Doom(cs) == dooms' = dooms \cup cs
TurnBegins == active' = TRUE

UserPromptSubmit ==
  /\ cli = "starting" /\ cli' = "busy"
  /\ Doom(HeldMain)
  /\ interrupt' = FALSE /\ TurnBegins
  /\ UNCHANGED <<turn, agent, call, shown, stopped, pre, matched, finished, since,
                 ended, seen, left, held, fired, req, pair, item>>

PreToolUse(c) ==
  /\ call[c] = "new" /\ turn > 0
  /\ \E a \in Makers[c] :
       /\ IF a = Main THEN cli = "busy" ELSE cli \in {"busy", "idle"} /\ a \notin stopped
       /\ agent' = [agent EXCEPT ![c] = a]
  /\ pre' = Append(pre, c)
  /\ active' = (active \/ agent'[c] = Main)
  /\ IF agent'[c] = Main /\ interrupt
     THEN TurnStops({c})
     ELSE Goto(c, "made") /\ UNCHANGED <<cli, shown>>
  /\ UNCHANGED <<turn, stopped, matched, finished, since, interrupt, ended, seen, left, held,
                 fired, reqVars>>

\* An uncorrelated prompt for the same agent, tool and input.
Uncorrelated(c) == {h \in held : pair[h] = NoCall /\ agent[h] = agent[c] /\ AskKey[h] = AskKey[c]}

\* The held prompts the end of a call withdraws (one, if they are uncorrelated).
WithdrawnBy(c) ==
  LET exact == {h \in held : pair[h] = c} IN
  IF exact # {} \/ Uncorrelated(c) = {} THEN {exact} ELSE {{h} : h \in Uncorrelated(c)}

\* PostToolUse, PostToolUseFailure and PermissionDenied.  Only the first may carry
\* an interrupt back.
CallEnds(c, event) ==
  /\ call[c] = (IF event = "PermissionDenied" THEN "asking" ELSE "running")
  /\ pre' = SelectSeq(pre, LAMBDA x : x # c)
  /\ matched' = matched \ {c}
  /\ finished' = finished \cup {c}
  /\ since' = [r \in Calls |-> IF r \in Arrived THEN since[r] \cup {c} ELSE since[r]]
  /\ \E gone \in WithdrawnBy(c) : Doom(gone)
  /\ active' = (active \/ (IsMain(c) /\ event = "PostToolUse"))
  /\ IF IsMain(c) /\ event = "PostToolUse" /\ interrupt
     THEN TurnStops({c})
     ELSE Goto(c, "over") /\ Closing(c) /\ UNCHANGED cli
  /\ UNCHANGED <<turn, agent, stopped, interrupt, ended, seen, left, held, fired,
                 req, pair, item>>

\* Stop and StopFailure.
Stop ==
  /\ cli = "busy" /\ \A c \in Calls : IsMain(c) => call[c] \in {"new", "over"}
  /\ cli' = "idle"
  /\ Doom(HeldMain)
  /\ interrupt' = FALSE /\ active' = FALSE
  /\ UNCHANGED <<turn, agent, call, shown, stopped, pre, matched, finished, since,
                 ended, seen, left, held, fired, req, pair, item>>

SubagentStop(a) ==
  /\ a \notin stopped /\ turn > 0 /\ cli # "dead"
  /\ \A c \in Calls : agent[c] = a => call[c] \in {"new", "over"}
  /\ stopped' = stopped \cup {a}
  /\ Doom({h \in held : agent[h] = a})
  /\ UNCHANGED <<cli, turn, agent, call, shown, hubVars, req, pair, item>>

\* The watch finds the process dead, with or without its own SessionEnd.
SessionEnd ==
  /\ cli = "dead" /\ ~ended /\ ended' = TRUE
  /\ Doom(held)
  /\ interrupt' = FALSE /\ active' = FALSE
  /\ UNCHANGED <<cliVars, pre, matched, finished, since, seen, left, held, fired, req, pair, item>>

---------------------------------------------------------------------------
(* The dashboard and the pidfile watch.                                    *)

\* request_interrupt
RequestInterrupt ==
  /\ cli \in {"starting", "busy"} /\ interrupt' = TRUE
  /\ fired' = fired \cup HeldMain
  /\ UNCHANGED <<cliVars, pre, matched, finished, since, active, ended, seen, left, held, reqVars>>

\* MUTANT: an edge not yet confirmed is forgotten at the next look.
EdgeNowOnce ==
  IF PidStatus # "waiting" /\ seen THEN [on |-> TRUE, before |-> earlier] ELSE NoEdge

\* The edge waiting -> busy or idle, as the watch sees it now.
EdgeNow ==
  IF PidStatus = "waiting" THEN NoEdge
  ELSE IF seen THEN [on |-> TRUE, before |-> earlier] ELSE left

\* MUTANT: a prompt that came after the edge goes with it.
AnsweredAll == held

\* The held prompts an edge is about: those created before it.
Answered == held \cap EdgeNow.before

\* observe_pidfile.  late: the dialog has been closed long enough to count.  Of the
\* prompts that waited behind it the next would have opened by then.  A turn is over
\* after a longer while without a Stop.
Observe(late) ==
  /\ ~ended /\ cli # "dead" /\ (active \/ held # {} \/ left.on)
  /\ late => PidStatus # "waiting" /\ \A c \in EdgeNow.before : call[c] # "asking"
  /\ seen' = (PidStatus = "waiting")
  /\ IF late /\ EdgeNow.on
     THEN left' = NoEdge /\ Doom(Answered)
     ELSE left' = EdgeNow /\ UNCHANGED dooms
  /\ \/ late /\ active /\ cli = "idle" /\ active' = FALSE /\ interrupt' = FALSE
     \/ UNCHANGED <<active, interrupt>>
  /\ UNCHANGED <<cliVars, pre, matched, finished, since, ended, held, fired, req, pair, item>>

---------------------------------------------------------------------------
(* permission_request.                                                     *)

At(c, l) == req' = [req EXCEPT ![c] = l]

\* dispatch_from stamps it and asks which process it comes from.
Arrive(c) ==
  /\ req[c] = "sent" /\ At(c, "arrived")
  /\ UNCHANGED <<cliVars, hubVars, pair, item, dooms>>

Matchable(c) == {k \in DOMAIN pre : pre[k] \notin matched /\ agent[pre[k]] = agent[c]}

\* correlate: the oldest call with the same input, else the oldest of the last
\* five seconds, which may be any of them or none.
Correlated(c) ==
  LET exact == {k \in Matchable(c) : PreKey[pre[k]] = AskKey[c]} IN
  IF exact # {}
  THEN {pre[CHOOSE k \in exact : \A x \in exact : k <= x]}
  ELSE {pre[k] : k \in Matchable(c)} \cup {NoCall}

\* finished_after: by its id, or by agent, tool and input.
AlreadyFinished(c, p) ==
  \/ p \in finished
  \/ \E f \in since[c] : agent[f] = agent[c] /\ AskKey[f] = AskKey[c]

\* What the hook's answer does to a call whose dialog is still open.
Answer(c, says) ==
  IF call[c] # "asking" \/ cli = "dead" \/ says \in {"{}", "timeout"}
  THEN UNCHANGED <<cli, call, shown>>
  ELSE CASE says = "allow" -> Goto(c, "running") /\ Closing(c) /\ UNCHANGED cli
         [] says = "deny" -> Goto(c, "over") /\ Closing(c) /\ UNCHANGED cli
         [] says = "interrupt" -> TurnStops({c})

\* The first look: correlated, and answered at once when interrupted or over.
Look(c) ==
  /\ req[c] = "arrived"
  /\ \E p \in Correlated(c) :
       /\ pair' = [pair EXCEPT ![c] = p]
       /\ matched' = matched \cup ({p} \ {NoCall})
       /\ LET interrupted == IsMain(c) /\ interrupt
              over == AlreadyFinished(c, p) IN
          /\ Answer(c, IF interrupted THEN "interrupt" ELSE "{}")
          /\ At(c, IF interrupted \/ over THEN "done" ELSE "looked")
  /\ UNCHANGED <<turn, agent, stopped, pre, finished, since, active, interrupt, ended,
                 seen, left, held, fired, item, dooms>>

\* raise registers the card, and takes a while to publish it.
Raise(c) ==
  /\ req[c] = "looked" /\ At(c, "raised")
  /\ item' = [item EXCEPT ![c] = "open"]
  /\ UNCHANGED <<cliVars, hubVars, pair, dooms>>

Settled(c, how) == item' = [item EXCEPT ![c] = IF @ = "open" THEN how ELSE @]

\* The request's own variables go with it.
Forgets(c) ==
  /\ since' = [since EXCEPT ![c] = {}]
  /\ fired' = fired \ {c}
  /\ left' = [left EXCEPT !.before = @ \ {c}]

\* MUTANT: hold does not look for calls that finished meanwhile.
HoldUnchecked(c) ==
  /\ req[c] = "raised"
  /\ held' = held \cup {c} /\ At(c, "waiting")
  /\ fired' = IF IsMain(c) /\ interrupt THEN fired \cup {c} ELSE fired
  /\ UNCHANGED <<cliVars, pre, matched, finished, since, active, interrupt, ended, seen, left,
                 pair, item, dooms>>

\* MUTANT: hold does not look whether the session was interrupted meanwhile.
HoldUninterrupted(c) ==
  /\ req[c] = "raised"
  /\ IF AlreadyFinished(c, pair[c])
     THEN Settled(c, "withdrawn") /\ At(c, "done") /\ UNCHANGED held
     ELSE held' = held \cup {c} /\ At(c, "waiting") /\ UNCHANGED item
  /\ UNCHANGED <<cliVars, pre, matched, finished, since, active, interrupt, ended, seen, left,
                 fired, pair, dooms>>

\* hold: the second look, under the lock that withdrawals take.
Hold(c) ==
  /\ req[c] = "raised"
  /\ IF AlreadyFinished(c, pair[c])
     THEN Settled(c, "withdrawn") /\ At(c, "done") /\ UNCHANGED <<held, fired>>
     ELSE /\ held' = held \cup {c} /\ At(c, "waiting") /\ UNCHANGED item
          /\ fired' = IF IsMain(c) /\ interrupt THEN fired \cup {c} ELSE fired
  /\ UNCHANGED <<cliVars, pre, matched, finished, since, active, interrupt, ended, seen, left,
                 pair, dooms>>

\* A client answers the card; what it says matters when the hook hears it.
Respond(c) ==
  /\ item[c] = "open" /\ Settled(c, "answered")
  /\ UNCHANGED <<cliVars, hubVars, req, pair, dooms>>

\* apply withdraws a card of an outcome, or finds it settled.
Withdraw(c) ==
  /\ c \in dooms /\ dooms' = dooms \ {c}
  /\ Settled(c, "withdrawn")
  /\ UNCHANGED <<cliVars, hubVars, req, pair>>

\* The select and what follows it: the guards drop, the hook is answered.
Finish(c, says) ==
  /\ held' = held \ {c} /\ At(c, "done") /\ Forgets(c)
  /\ item' = [item EXCEPT ![c] = IF @ \in {"none", "withdrawn"} THEN @
                               ELSE IF says = "timeout" THEN "expired" ELSE "settled"]
  /\ Answer(c, says)
  /\ UNCHANGED <<turn, agent, stopped, pre, matched, finished, active, interrupt, ended,
                 seen, pair, dooms>>

Decided(c) ==
  req[c] = "waiting" /\ item[c] = "answered" /\ \E says \in {"allow", "deny"} : Finish(c, says)

Closed(c) == req[c] = "waiting" /\ item[c] = "withdrawn" /\ Finish(c, "{}")
Interrupted(c) == req[c] = "waiting" /\ c \in fired /\ Finish(c, "interrupt")
Expire(c) == req[c] = "waiting" /\ item[c] = "open" /\ Finish(c, "timeout")

\* The process is gone, and its connection with it: the handler is dropped.
Drop(c) == cli = "dead" /\ req[c] \notin {"none", "done"} /\ Finish(c, "{}")

---------------------------------------------------------------------------
Init ==
  /\ cli = "idle" /\ turn = 0 /\ shown = NoCall /\ stopped = {}
  /\ agent = [c \in Calls |-> NoCall]
  /\ call = [c \in Calls |-> "new"]
  /\ earlier = {}
  /\ pre = <<>> /\ matched = {} /\ finished = {} /\ since = [c \in Calls |-> {}]
  /\ active = FALSE /\ interrupt = FALSE /\ ended = FALSE
  /\ seen = FALSE /\ left = NoEdge /\ held = {} /\ fired = {}
  /\ req = [c \in Calls |-> "none"] /\ pair = [c \in Calls |-> NoCall]
  /\ item = [c \in Calls |-> "none"] /\ dooms = {} /\ watched = {}

Desk ==
  \/ Prompt \/ Escape \/ Die
  \/ \E c \in Calls : Permitted(c) \/ Ask(c) \/ Show(c) \/ DeskAllows(c) \/ DeskRejects(c)

EndEvents == {"PostToolUse", "PostToolUseFailure", "PermissionDenied"}

Events ==
  \/ UserPromptSubmit \/ Stop \/ SessionEnd
  \/ \E c \in Calls : PreToolUse(c) \/ \E event \in EndEvents : CallEnds(c, event)
  \/ \E a \in Agents : SubagentStop(a)

Requests(c) ==
  \/ Arrive(c) \/ Look(c) \/ Raise(c) \/ Hold(c) \/ Withdraw(c)
  \/ Decided(c) \/ Closed(c) \/ Interrupted(c) \/ Expire(c) \/ Drop(c)

\* Whatever the step, a pidfile that changes is stamped.  The stamp matters only
\* when a dialog the watch has seen is closed, and the process lives.
Stamped ==
  IF ~seen' \/ PidStatus' = "waiting" \/ cli' = "dead" THEN {}
  ELSE Arrived' \cap (IF PidStatus' # PidStatus THEN Arrived' ELSE earlier)

Next ==
  /\ \/ Desk \/ Events \/ RequestInterrupt
     \/ \E late \in BOOLEAN : Observe(late)
     \/ \E c \in Calls : Requests(c) \/ Respond(c)
  /\ earlier' = Stamped
  /\ watched' = IF cli' = "dead" THEN {}
                ELSE held' \cap (IF seen' /\ PidStatus' = "waiting" THEN held' ELSE watched)

Spec == Init /\ [][Next]_vars

---------------------------------------------------------------------------
(* Properties.                                                             *)

\* Every variable keeps its type.
TypeOK ==
  /\ cli \in {"idle", "starting", "busy", "dead"} /\ turn \in 0..MaxTurns
  /\ agent \in [Calls -> Agents \cup {Main, NoCall}]
  /\ call \in [Calls -> {"new", "made", "asking", "running", "over"}]
  /\ shown \in Calls \cup {NoCall} /\ stopped \subseteq Agents /\ earlier \subseteq Calls
  /\ pre \in Seq(Calls) /\ matched \subseteq Calls /\ finished \subseteq Calls
  /\ since \in [Calls -> SUBSET Calls] /\ active \in BOOLEAN /\ interrupt \in BOOLEAN
  /\ ended \in BOOLEAN /\ seen \in BOOLEAN
  /\ left.on \in BOOLEAN /\ left.before \subseteq Calls
  /\ held \subseteq Calls /\ fired \subseteq Calls /\ dooms \subseteq Calls
  /\ req \in [Calls -> {"none", "sent", "arrived", "looked", "raised", "waiting", "done"}]
  /\ pair \in [Calls -> Calls \cup {NoCall}]
  /\ item \in [Calls -> {"none", "open", "answered", "withdrawn", "settled", "expired"}]

\* What the code cannot tell apart: correlate gave the request another call (a
\* rewritten input can make it), or gave this call to another request, or the agent
\* has a second call with the same input.
Mistaken(c) ==
  \/ pair[c] \notin {c, NoCall}
  \/ \E d \in Calls \ {c} : pair[d] = c \/ (agent[d] = agent[c] /\ AskKey[d] = AskKey[c])

\* A card is withdrawn only when nobody waits at it any more: the call it is about
\* was allowed or is over (the withdrawals of on_event, observe_pidfile and hold).
\* The pidfile says only that some dialog closed: an edge that another dialog takes
\* back must withdraw nothing.
OnlyOver ==
  \A c \in Calls :
    c \in dooms \/ item[c] = "withdrawn" => call[c] \in {"running", "over"} \/ Mistaken(c)

\* When Claude Code says a call has ended, the card of its prompt goes (PostToolUse
\* and its kin in on_event, finished_after in hold): either it is being withdrawn, or
\* the request has yet to be held and is looked at again there.  Excused are a
\* request that arrived only after the end, and a call mistaken for another.
EndedIsWithdrawn ==
  \A c \in finished :
    item[c] = "open" =>
      \/ req[c] = "raised" \/ c \in dooms
      \/ c \notin since[c] \/ Mistaken(c)

\* A prompt answered at the desk without a hook telling is withdrawn by the pidfile
\* (observe_pidfile): a held prompt whose dialog the watch has seen, and whose call is
\* allowed or over, is being withdrawn, or the edge that will do so is still to be
\* read or confirmed, or another dialog is open and its closing is that edge.
EdgeIsKept ==
  \A c \in held \cap watched :
    call[c] \in {"running", "over"} /\ item[c] = "open" /\ cli # "dead" =>
      \/ c \in dooms
      \/ PidStatus = "waiting"
      \/ seen /\ c \in earlier
      \/ left.on /\ c \in left.before

\* An interrupt reaches the prompt the turn waits at, wherever its request is
\* (permission_request, hold, interrupt): the request will look at the flag yet, or
\* its answer is already on its way.  Excused are a card that had expired before, and
\* a call mistaken for another.
InterruptIsMet ==
  \A c \in Calls :
    IsMain(c) /\ call[c] = "asking" /\ interrupt =>
      \/ req[c] \in {"sent", "arrived", "looked", "raised"}
      \/ c \in fired
      \/ item[c] = "expired" \/ Mistaken(c)
=============================================================================
