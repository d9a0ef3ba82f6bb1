------------------------ MODULE HookPrompts_proofs ------------------------
(***************************************************************************)
(* Proofs about permission prompts (module HookPrompts), for any tool      *)
(* calls, agents, inputs and any number of turns.                          *)
(***************************************************************************)
EXTENDS HookPrompts, TLAPS

\* Types, as far as the proofs need them.
Shape ==
  /\ cli \in {"idle", "starting", "busy", "dead"}
  /\ agent \in [Calls -> Agents \cup {Main, NoCall}]
  /\ call \in [Calls -> {"new", "made", "asking", "running", "over"}]
  /\ req \in [Calls -> {"none", "sent", "arrived", "looked", "raised", "waiting", "done"}]
  /\ pair = [c \in Calls |-> pair[c]]
  /\ item \in [Calls -> {"none", "open", "answered", "withdrawn", "settled", "expired"}]
  /\ since \in [Calls -> SUBSET Calls] /\ finished \subseteq Calls
  /\ left \in [on : BOOLEAN, before : SUBSET Calls] /\ earlier \subseteq Calls
  /\ held \subseteq Calls /\ dooms \subseteq Calls
  /\ interrupt \in BOOLEAN /\ seen \in BOOLEAN

\* Where a call can be, by who made it and what the main thread does.
CallInv ==
  /\ shown # NoCall => shown \in Calls /\ call[shown] = "asking"
  /\ \A c \in Calls :
       /\ agent[c] = NoCall <=> call[c] = "new"
       /\ IsMain(c) /\ call[c] \in {"made", "asking", "running"} => cli = "busy"
       /\ cli = "dead" => call[c] \in {"new", "over"}

\* Where a request and its card can be.
ReqInv ==
  \A c \in Calls :
    /\ req[c] # "none" => call[c] \in {"asking", "running", "over"}
    /\ call[c] = "asking" => req[c] # "none"
    /\ req[c] \in {"none", "sent", "arrived"} => pair[c] = NoCall
    /\ req[c] \in {"none", "sent", "arrived", "looked"} => item[c] = "none"
    /\ item[c] = "open" => req[c] \in {"raised", "waiting"}
    /\ item[c] = "expired" => req[c] = "done"
    /\ c \in held <=> req[c] = "waiting"
    /\ c \in dooms \/ item[c] = "withdrawn" => req[c] # "none"

\* What the machine takes for finished is over.
FinInv ==
  /\ \A c \in finished : call[c] = "over"
  /\ \A c \in Calls : since[c] \subseteq finished

Core == Shape /\ CallInv /\ ReqInv /\ FinInv

USE DEF cliVars, hubVars, reqVars

---------------------------------------------------------------------------
(* What the larger actions do, in parts.                                   *)

LEMMA LookDoes ==
  ASSUME NEW c \in Calls, Look(c)
  PROVE  /\ req[c] = "arrived"
         /\ UNCHANGED <<agent, item, since, finished, left, held, fired, dooms, interrupt, seen>>
         /\ \E p \in Correlated(c), says \in {"interrupt", "{}"}, l \in {"done", "looked"} :
              /\ pair' = [pair EXCEPT ![c] = p] /\ req' = [req EXCEPT ![c] = l]
              /\ Answer(c, says)
              /\ l = "done" => says = "interrupt" \/ AlreadyFinished(c, p)
<1>1. PICK p \in Correlated(c) :
        /\ pair' = [pair EXCEPT ![c] = p]
        /\ Answer(c, IF IsMain(c) /\ interrupt THEN "interrupt" ELSE "{}")
        /\ req' = [req EXCEPT ![c] = IF (IsMain(c) /\ interrupt) \/ AlreadyFinished(c, p)
                                     THEN "done" ELSE "looked"]
  BY DEF Look, At
<1>2. CASE IsMain(c) /\ interrupt BY <1>1, <1>2 DEF Look
<1>3. CASE ~(IsMain(c) /\ interrupt) BY <1>1, <1>3 DEF Look
<1> QED BY <1>2, <1>3

LEMMA CallEndsDoes ==
  ASSUME Shape, NEW c \in Calls, NEW event \in EndEvents, CallEnds(c, event)
  PROVE  /\ call[c] \in {"asking", "running"} /\ call'[c] = "over"
         /\ finished' = finished \cup {c}
         /\ since' = [r \in Calls |-> IF r \in Arrived THEN since[r] \cup {c} ELSE since[r]]
         /\ \E gone \in WithdrawnBy(c) : dooms' = dooms \cup gone
         /\ UNCHANGED <<agent, left, held, fired, interrupt, seen, req, pair, item>>
         /\ cli' \in {cli, "idle"}
         /\ call' \in [Calls -> {"new", "made", "asking", "running", "over"}]
         /\ \A d \in Calls : call'[d] = call[d] \/ (call[d] # "new" /\ call'[d] = "over")
<1>1. call[c] \in {"asking", "running"} BY DEF CallEnds
<1>2. /\ call'[c] = "over" /\ cli' \in {cli, "idle"}
      /\ call' \in [Calls -> {"new", "made", "asking", "running", "over"}]
      /\ \A d \in Calls : call'[d] \in {call[d], "over"}
      /\ \A d \in Calls : call[d] = "new" => call'[d] = "new"
  BY <1>1 DEF CallEnds, TurnStops, Goto, Shape
<1> QED BY <1>1, <1>2 DEF CallEnds, Doom

LEMMA FinishDoes ==
  ASSUME NEW c \in Calls, NEW says, Finish(c, says)
  PROVE  /\ held' = held \ {c} /\ fired' = fired \ {c}
         /\ req' = [req EXCEPT ![c] = "done"]
         /\ since' = [since EXCEPT ![c] = {}]
         /\ left' = [left EXCEPT !.before = @ \ {c}]
         /\ item' = [item EXCEPT ![c] = IF @ \in {"none", "withdrawn"} THEN @
                               ELSE IF says = "timeout" THEN "expired" ELSE "settled"]
         /\ Answer(c, says)
         /\ UNCHANGED <<agent, finished, interrupt, seen, pair, dooms>>
  BY DEF Finish, Forgets, At

LEMMA WithdrawnHeld ==
  ASSUME NEW c \in Calls, NEW gone \in WithdrawnBy(c)
  PROVE  gone \subseteq held
  BY DEF WithdrawnBy, Uncorrelated

---------------------------------------------------------------------------
(* The core, action by action.                                             *)

LEMMA CoreInit == Init => Core
<1> SUFFICES ASSUME Init PROVE Core OBVIOUS
<1>1. Shape BY DEF Init, Shape, NoEdge
<1>2. CallInv BY PromptsAssumption DEF Init, CallInv, IsMain
<1>3. ReqInv /\ FinInv BY DEF Init, ReqInv, FinInv
<1> QED BY <1>1, <1>2, <1>3 DEF Core

USE DEF Core

LEMMA CoreDesk == ASSUME Core, Desk, earlier' \subseteq Calls PROVE Core'
<1> USE PromptsAssumption DEF Core, Shape, CallInv, ReqInv, FinInv, IsMain
<1>1. CASE Prompt BY <1>1 DEF Prompt
<1>2. CASE Escape BY <1>2 DEF Escape, TurnStops
<1>3. CASE Die BY <1>3 DEF Die
<1>4. ASSUME NEW c \in Calls, Permitted(c) PROVE Core' BY <1>4 DEF Permitted, Goto
<1>5. ASSUME NEW c \in Calls, Ask(c) PROVE Core' BY <1>5 DEF Ask, Goto
<1>6. ASSUME NEW c \in Calls, Show(c) PROVE Core' BY <1>6 DEF Show
<1>7. ASSUME NEW c \in Calls, DeskAllows(c) PROVE Core' BY <1>7 DEF DeskAllows, Goto, Closing
<1>8. ASSUME NEW c \in Calls, DeskRejects(c) PROVE Core' BY <1>8 DEF DeskRejects, Goto, Closing
<1> QED BY <1>1, <1>2, <1>3, <1>4, <1>5, <1>6, <1>7, <1>8 DEF Desk

LEMMA CoreEvents == ASSUME Core, Events, earlier' \subseteq Calls PROVE Core'
<1> USE PromptsAssumption
<1>1. CASE UserPromptSubmit
  <2> USE <1>1 DEF UserPromptSubmit, Doom, HeldMain
  <2>1. Shape' BY DEF Shape
  <2>2. CallInv' BY DEF Shape, CallInv, IsMain
  <2>3. ReqInv' /\ FinInv' BY DEF Shape, ReqInv, FinInv
  <2> QED BY <2>1, <2>2, <2>3
<1>2. CASE Stop
  <2> USE <1>2 DEF Stop, Doom, HeldMain
  <2>1. Shape' BY DEF Shape
  <2>2. CallInv' BY DEF Shape, CallInv, IsMain
  <2>3. ReqInv' /\ FinInv' BY DEF Shape, ReqInv, FinInv
  <2> QED BY <2>1, <2>2, <2>3
<1>3. CASE SessionEnd
  <2> USE <1>3 DEF SessionEnd, Doom
  <2>1. Shape' BY DEF Shape
  <2>2. CallInv' BY DEF Shape, CallInv, IsMain
  <2>3. ReqInv' /\ FinInv' BY DEF Shape, ReqInv, FinInv
  <2> QED BY <2>1, <2>2, <2>3
<1>4. ASSUME NEW c \in Calls, PreToolUse(c) PROVE Core'
  <2>1. Shape' BY <1>4 DEF PreToolUse, TurnStops, Goto, Shape, Agents
  <2>2. CallInv' BY <1>4 DEF PreToolUse, TurnStops, Goto, Shape, CallInv, IsMain
  <2>3. ReqInv' BY <1>4 DEF PreToolUse, TurnStops, Goto, Shape, ReqInv, CallInv, IsMain
  <2>4. FinInv' BY <1>4 DEF PreToolUse, TurnStops, Goto, Shape, FinInv, CallInv, IsMain
  <2> QED BY <2>1, <2>2, <2>3, <2>4
<1>5. ASSUME NEW c \in Calls, NEW event \in EndEvents, CallEnds(c, event) PROVE Core'
  <2>1. PICK gone : gone \subseteq held /\ dooms' = dooms \cup gone
    BY <1>5, CallEndsDoes, WithdrawnHeld
  <2>2. /\ since' = [r \in Calls |-> IF r \in Arrived THEN since[r] \cup {c} ELSE since[r]]
        /\ finished' = finished \cup {c} /\ UNCHANGED <<agent, left, held, interrupt, seen, req, pair, item>>
    BY <1>5, CallEndsDoes
  <2>4. /\ call' \in [Calls -> {"new", "made", "asking", "running", "over"}]
        /\ call[c] \in {"asking", "running"} /\ cli' \in {cli, "idle"} /\ call'[c] = "over"
        /\ \A d \in Calls : call'[d] = call[d] \/ (call[d] # "new" /\ call'[d] = "over")
    BY <1>5, CallEndsDoes
  <2>5. Shape'
    BY <2>1, <2>2, <2>4 DEF Shape
  <2>6. CallInv' BY <1>5, <2>2 DEF CallEnds, TurnStops, Goto, Closing, Shape, CallInv, IsMain
  <2>7. ReqInv' BY <2>1, <2>2, <2>4 DEF Shape, ReqInv
  <2>8. FinInv' BY <2>2, <2>4 DEF Shape, FinInv
  <2> QED BY <2>5, <2>6, <2>7, <2>8
<1>6. ASSUME NEW a \in Agents, SubagentStop(a) PROVE Core'
  <2> USE <1>6 DEF SubagentStop, Doom
  <2>1. Shape' BY DEF Shape
  <2>2. CallInv' BY DEF Shape, CallInv, IsMain
  <2>3. ReqInv' /\ FinInv' BY DEF Shape, ReqInv, FinInv
  <2> QED BY <2>1, <2>2, <2>3
<1> QED BY <1>1, <1>2, <1>3, <1>4, <1>5, <1>6 DEF Events

LEMMA CoreWatch ==
  ASSUME Core, RequestInterrupt \/ \E late \in BOOLEAN : Observe(late), earlier' \subseteq Calls
  PROVE  Core'
<1> USE PromptsAssumption
<1>1. CASE RequestInterrupt BY <1>1 DEF RequestInterrupt, HeldMain, Shape, CallInv, ReqInv, FinInv, IsMain
<1>2. ASSUME NEW late \in BOOLEAN, Observe(late) PROVE Core'
  <2>1. EdgeNow \in [on : BOOLEAN, before : SUBSET Calls] BY DEF EdgeNow, NoEdge, Shape
  <2>2. Shape'
    <3>1. left' \in {EdgeNow, NoEdge} /\ dooms' \in {dooms, dooms \cup Answered}
      BY <1>2 DEF Observe, Doom
    <3>2. seen' \in BOOLEAN /\ interrupt' \in BOOLEAN BY <1>2 DEF Observe, Shape
    <3>3. UNCHANGED <<cliVars, since, finished, held, req, pair, item>> BY <1>2 DEF Observe
    <3>4. NoEdge \in [on : BOOLEAN, before : SUBSET Calls] BY DEF NoEdge
    <3>5. left' \in [on : BOOLEAN, before : SUBSET Calls] BY <2>1, <3>1, <3>4
    <3>6. dooms' \subseteq Calls BY <3>1 DEF Answered, Shape
    <3> QED BY <3>2, <3>3, <3>5, <3>6 DEF Shape
  <2>3. CallInv' BY <1>2 DEF Observe, Doom, Answered, Shape, CallInv, IsMain
  <2>4. ReqInv' BY <1>2 DEF Observe, Doom, Answered, Shape, ReqInv, CallInv, IsMain
  <2>5. FinInv' BY <1>2 DEF Observe, Doom, Answered, Shape, FinInv, CallInv, IsMain
  <2> QED BY <2>2, <2>3, <2>4, <2>5
<1> QED BY <1>1, <1>2

\* What a hook can answer.
Sayings == {"allow", "deny", "interrupt", "timeout", "{}"}

\* Calls that are asked about or run go on, or are given up.
Advance ==
  /\ cli' \in {cli, "idle"} /\ (cli = "dead" => cli' = "dead")
  /\ call' \in [Calls -> {"new", "made", "asking", "running", "over"}]
  /\ \A d \in Calls :
       \/ call'[d] = call[d]
       \/ call[d] \in {"made", "asking", "running"} /\ call'[d] = "over"
       \/ call[d] = "asking" /\ call'[d] = "running"

\* Whatever the hook answers, the calls stay where CallInv has them, and only those
\* not yet over move.
LEMMA AnswerMoves ==
  ASSUME Shape, CallInv, NEW c \in Calls, NEW says \in Sayings, Answer(c, says), agent' = agent
  PROVE  Advance /\ CallInv'
<1> USE PromptsAssumption DEF Shape, CallInv, IsMain, Advance
<1>1. CASE UNCHANGED <<cli, call, shown>> BY <1>1
<1>2. ASSUME call[c] = "asking", NEW l \in {"running", "over"}, Goto(c, l), Closing(c), cli' = cli
      PROVE  /\ call' \in [Calls -> {"new", "made", "asking", "running", "over"}]
             /\ call'[c] = l /\ \A d \in Calls \ {c} : call'[d] = call[d]
             /\ CallInv'
  BY <1>2 DEF Goto, Closing
<1>3. CASE call[c] = "asking" /\ cli # "dead" /\ says = "interrupt"
  <2>1. TurnStops({c}) BY <1>3 DEF Answer
  <2> QED BY <1>3, <2>1 DEF TurnStops
<1>4. CASE call[c] = "asking" /\ cli # "dead" /\ says \in {"allow", "deny"}
  <2>1. PICK l \in {"running", "over"} : Goto(c, l) /\ Closing(c) /\ cli' = cli BY <1>4 DEF Answer
  <2> QED BY <1>2, <1>4, <2>1
<1> QED BY <1>1, <1>3, <1>4 DEF Answer, Sayings

LEMMA CoreRequests ==
  ASSUME Core, NEW c \in Calls, Requests(c) \/ Respond(c), earlier' \subseteq Calls
  PROVE  Core'
<1> USE PromptsAssumption DEF At, Settled
<1>1. CASE Arrive(c) BY <1>1 DEF Arrive, Shape, CallInv, ReqInv, FinInv, IsMain
<1>2. CASE Look(c)
  <2>1. PICK p \in Correlated(c), says \in {"interrupt", "{}"}, l \in {"done", "looked"} :
          pair' = [pair EXCEPT ![c] = p] /\ req' = [req EXCEPT ![c] = l] /\ Answer(c, says)
    BY <1>2, LookDoes
  <2>2. /\ req[c] = "arrived" /\ UNCHANGED <<agent, item, since, finished, left, held, dooms>>
        /\ UNCHANGED <<interrupt, seen>>
    BY <1>2, LookDoes
  <2>3. says \in Sayings BY DEF Sayings
  <2>4. Advance /\ CallInv'
    BY <2>1, <2>2, <2>3, AnswerMoves
  <2>5. Shape' BY <2>1, <2>2, <2>4 DEF Shape, Advance
  <2>6. ReqInv' BY <2>1, <2>2, <2>4, ZenonT(40) DEF Shape, ReqInv, Advance
  <2>7. FinInv' BY <2>2, <2>4 DEF Shape, FinInv, Advance
  <2> QED BY <2>4, <2>5, <2>6, <2>7
<1>3. CASE Raise(c) BY <1>3 DEF Raise, Shape, CallInv, ReqInv, FinInv, IsMain
<1>4. CASE Hold(c) BY <1>4 DEF Hold, Shape, CallInv, ReqInv, FinInv, IsMain
<1>5. CASE Withdraw(c) BY <1>5 DEF Withdraw, Shape, CallInv, ReqInv, FinInv, IsMain
<1>6. ASSUME NEW says \in Sayings, Finish(c, says), req[c] \notin {"none", "done"} PROVE Core'
  <2>1. Advance /\ CallInv'
    BY <1>6, AnswerMoves DEF Finish
  <2>2. Shape' BY <1>6, <2>1 DEF Finish, Forgets, Advance, Shape
  <2>3. ReqInv' BY <1>6, <2>1 DEF Finish, Forgets, Advance, Shape, ReqInv
  <2>4. FinInv' BY <1>6, <2>1 DEF Finish, Forgets, Advance, Shape, FinInv
  <2> QED BY <2>1, <2>2, <2>3, <2>4
<1>7. CASE Respond(c) BY <1>7 DEF Respond, Shape, CallInv, ReqInv, FinInv, IsMain
<1> QED
  BY <1>1, <1>2, <1>3, <1>4, <1>5, <1>6, <1>7
     DEF Requests, Decided, Closed, Interrupted, Expire, Drop, Sayings

LEMMA CoreStep == ASSUME Core, Next PROVE Core'
<1>1. earlier' \subseteq Calls BY DEF Next, Stamped, Arrived
<1> QED BY <1>1, CoreDesk, CoreEvents, CoreWatch, CoreRequests DEF Next

\* Every reachable state satisfies it.
THEOREM CoreCorrect == Spec => []Core
<1>1. ASSUME Core, UNCHANGED vars PROVE Core'
  <2>1. Shape' BY <1>1 DEF vars, Shape
  <2>2. CallInv' BY <1>1 DEF vars, CallInv, IsMain
  <2>3. ReqInv' /\ FinInv' BY <1>1 DEF vars, ReqInv, FinInv
  <2> QED BY <2>1, <2>2, <2>3
<1> QED BY <1>1, CoreInit, CoreStep, PTL DEF Spec

---------------------------------------------------------------------------
(* What no step undoes.                                                    *)

\* A call that is known stays its agent's, and goes on; so does its request.
CallOnward(c) ==
  /\ call[c] # "new" => call'[c] # "new" /\ agent'[c] = agent[c]
  /\ call[c] \in {"running", "over"} => call'[c] \in {"running", "over"}
  /\ call[c] = "over" => call'[c] = "over"
  /\ req[c] # "none" => req'[c] # "none"
  /\ pair[c] # NoCall => pair'[c] = pair[c]

\* A card is opened once, and a condemned one is withdrawn; a prompt is held once
\* its card is there.
CardOnward(c) ==
  /\ item'[c] = "open" => item[c] = "open" \/ req'[c] = "raised"
  /\ c \in dooms /\ item'[c] = "open" => c \in dooms'
  /\ item[c] = "expired" => item'[c] = "expired"
  /\ c \in held' => c \in held \/ req[c] = "raised"

Onward == (cli = "dead" => cli' = "dead") /\ \A c \in Calls : CallOnward(c) /\ CardOnward(c)

LEMMA OnwardDesk == ASSUME Core, Desk PROVE Onward
<1> USE DEF Shape, CallInv, ReqInv, IsMain, Onward, CallOnward, CardOnward
<1>1. CASE Prompt BY <1>1 DEF Prompt
<1>2. CASE Escape BY <1>2 DEF Escape, TurnStops
<1>3. CASE Die BY <1>3 DEF Die
<1>4. ASSUME NEW c \in Calls, Permitted(c) PROVE Onward BY <1>4 DEF Permitted, Goto
<1>5. ASSUME NEW c \in Calls, Ask(c) PROVE Onward BY <1>5 DEF Ask, Goto
<1>6. ASSUME NEW c \in Calls, Show(c) PROVE Onward BY <1>6 DEF Show
<1>7. ASSUME NEW c \in Calls, DeskAllows(c) PROVE Onward
  BY PromptsAssumption, <1>7 DEF DeskAllows, Goto, Closing
<1>8. ASSUME NEW c \in Calls, DeskRejects(c) PROVE Onward
  BY PromptsAssumption, <1>8 DEF DeskRejects, Goto, Closing
<1> QED BY <1>1, <1>2, <1>3, <1>4, <1>5, <1>6, <1>7, <1>8 DEF Desk

LEMMA OnwardEvents == ASSUME Core, Events PROVE Onward
<1> USE DEF Shape, Onward, CallOnward, CardOnward, Doom
<1>1. CASE UserPromptSubmit BY <1>1 DEF UserPromptSubmit
<1>2. CASE Stop BY <1>2 DEF Stop
<1>3. CASE SessionEnd BY <1>3 DEF SessionEnd
<1>4. ASSUME NEW c \in Calls, PreToolUse(c) PROVE Onward
  BY PromptsAssumption, <1>4 DEF PreToolUse, TurnStops, Goto, CallInv, IsMain
<1>5. ASSUME NEW c \in Calls, NEW event \in EndEvents, CallEnds(c, event) PROVE Onward
  <2>1. PICK gone : dooms' = dooms \cup gone BY <1>5, CallEndsDoes
  <2>2. UNCHANGED <<agent, req, pair, item, held>> BY <1>5, CallEndsDoes
  <2>3. cli = "dead" => cli' = "dead"
    BY <1>5 DEF CallEnds, CallInv
  <2>4. \A d \in Calls : call'[d] = call[d] \/ (call[d] # "new" /\ call'[d] = "over")
    BY <1>5, CallEndsDoes
  <2> QED BY <2>1, <2>2, <2>3, <2>4
<1>6. ASSUME NEW a \in Agents, SubagentStop(a) PROVE Onward BY <1>6 DEF SubagentStop
<1> QED BY <1>1, <1>2, <1>3, <1>4, <1>5, <1>6 DEF Events

LEMMA OnwardWatch ==
  ASSUME Core, RequestInterrupt \/ \E late \in BOOLEAN : Observe(late)
  PROVE  Onward
  BY DEF RequestInterrupt, Observe, Doom, Shape, ReqInv, Onward, CallOnward, CardOnward

LEMMA OnwardRequests ==
  ASSUME Core, NEW c \in Calls, Requests(c) \/ Respond(c)
  PROVE  Onward
<1> USE DEF Onward, CallOnward, CardOnward
<1>1. CASE Arrive(c) BY <1>1 DEF Arrive, Shape, ReqInv, At, Settled
<1>2. CASE Look(c)
  <2>1. PICK p \in Correlated(c), says \in {"interrupt", "{}"}, l \in {"done", "looked"} :
          pair' = [pair EXCEPT ![c] = p] /\ req' = [req EXCEPT ![c] = l] /\ Answer(c, says)
    BY <1>2, LookDoes
  <2>2. req[c] = "arrived" /\ UNCHANGED <<agent, item, held, dooms>> BY <1>2, LookDoes
  <2>3. says \in Sayings BY DEF Sayings
  <2>4. Advance BY <2>1, <2>2, <2>3, AnswerMoves
  <2> QED BY <2>1, <2>2, <2>4, ZenonT(40) DEF Advance, Shape, ReqInv
<1>3. CASE Raise(c) BY <1>3 DEF Raise, Shape, ReqInv, At, Settled
<1>4. CASE Hold(c) BY <1>4 DEF Hold, Shape, ReqInv, At, Settled
<1>5. CASE Withdraw(c) BY <1>5 DEF Withdraw, Shape, ReqInv, At, Settled
<1>6. ASSUME NEW says \in Sayings, Finish(c, says), req[c] \notin {"none", "done"} PROVE Onward
  <2>1. Advance BY <1>6, AnswerMoves, FinishDoes
  <2>2. /\ held' = held \ {c} /\ req' = [req EXCEPT ![c] = "done"] /\ UNCHANGED <<agent, pair, dooms>>
        /\ item' = [item EXCEPT ![c] = IF @ \in {"none", "withdrawn"} THEN @
                              ELSE IF says = "timeout" THEN "expired" ELSE "settled"]
    BY <1>6, FinishDoes
  <2> QED BY <1>6, <2>1, <2>2 DEF Advance, Shape, ReqInv
<1>7. CASE Respond(c) BY <1>7 DEF Respond, Shape, ReqInv, At, Settled
<1> QED
  BY <1>1, <1>2, <1>3, <1>4, <1>5, <1>6, <1>7
     DEF Requests, Decided, Closed, Interrupted, Expire, Drop, Sayings

LEMMA StepOnward == ASSUME Core, Next PROVE Onward
  BY OnwardDesk, OnwardEvents, OnwardWatch, OnwardRequests DEF Next

\* A mistake about a call that is known is there to stay.
LEMMA MistakenStays ==
  ASSUME Core, Next, NEW c \in Calls, call[c] # "new", Mistaken(c)
  PROVE  Mistaken(c)'
<1>1. agent'[c] = agent[c] /\ agent[c] # NoCall
  BY StepOnward DEF Onward, CallOnward, CallInv
<1>2. \A d \in Calls : agent[d] = agent[c] => agent'[d] = agent[d]
  BY StepOnward, <1>1 DEF Onward, CallOnward, CallInv
<1>3. \A d \in Calls : pair[d] # NoCall => pair'[d] = pair[d]
  BY StepOnward DEF Onward, CallOnward
<1> QED BY PromptsAssumption, <1>1, <1>2, <1>3 DEF Mistaken

---------------------------------------------------------------------------
(* A card is withdrawn only when its call is allowed or over.              *)

\* An outcome took the card, or is to take it.
Condemned(c) == c \in dooms \/ item[c] = "withdrawn"

Gone(c) == call[c] \in {"running", "over"} \/ Mistaken(c)

\* What makes hold or the first look take a call for finished is that it is over.
LEMMA FinishedIsGone ==
  ASSUME Core, NEW c \in Calls, NEW p, p = pair[c], AlreadyFinished(c, p)
  PROVE  call[c] = "over" \/ Mistaken(c)
<1>1. CASE p \in finished
  BY <1>1, PromptsAssumption DEF FinInv, Shape, Mistaken
<1>2. CASE \E f \in since[c] : agent[f] = agent[c] /\ AskKey[f] = AskKey[c]
  BY <1>2 DEF FinInv, Shape, Mistaken
<1> QED BY <1>1, <1>2 DEF AlreadyFinished

\* Each event that condemns a card finds its call gone.
LEMMA CondemnedByEvent ==
  ASSUME Core, Events, NEW d \in Calls, Condemned(d)', ~Condemned(d)
  PROVE  Gone(d)'
<1> USE DEF Condemned, Doom
<1>1. CASE UserPromptSubmit \/ Stop \/ SessionEnd
  <2>1. d \in held /\ call'[d] = call[d]
    BY <1>1 DEF UserPromptSubmit, Stop, SessionEnd, HeldMain
  <2>2. call[d] \in {"asking", "running", "over"} BY <2>1 DEF ReqInv, Shape
  <2>3. call[d] = "over"
    BY <1>1, <2>1, <2>2 DEF UserPromptSubmit, Stop, SessionEnd, HeldMain, CallInv, IsMain
  <2> QED BY <2>1, <2>3 DEF Gone
<1>2. ASSUME NEW c \in Calls, PreToolUse(c) PROVE FALSE
  BY <1>2 DEF PreToolUse
<1>3. ASSUME NEW c \in Calls, NEW event \in EndEvents, CallEnds(c, event) PROVE Gone(d)'
  <2>1. PICK gone \in WithdrawnBy(c) : dooms' = dooms \cup gone BY <1>3, CallEndsDoes
  <2>2. UNCHANGED <<agent, pair, item>> /\ call'[c] = "over" BY <1>3, CallEndsDoes
  <2>3. d \in gone BY <2>1, <2>2
  <2>4. d = c \/ pair[d] = c \/ (agent[d] = agent[c] /\ AskKey[d] = AskKey[c])
    BY <2>3 DEF WithdrawnBy, Uncorrelated
  <2> QED BY <2>2, <2>4, PromptsAssumption DEF Gone, Mistaken
<1>4. ASSUME NEW a \in Agents, SubagentStop(a) PROVE Gone(d)'
  <2>1. d \in held /\ agent[d] = a /\ call'[d] = call[d] BY <1>4 DEF SubagentStop
  <2>2. call[d] \in {"asking", "running", "over"} BY <2>1 DEF ReqInv, Shape
  <2> QED BY <1>4, <2>1, <2>2 DEF SubagentStop, Gone
<1> QED BY <1>1, <1>2, <1>3, <1>4 DEF Events

LEMMA CondemnedByWatch ==
  ASSUME Core, NEW late \in BOOLEAN, Observe(late), NEW d \in Calls, Condemned(d)', ~Condemned(d)
  PROVE  Gone(d)'
<1>1. d \in held /\ call[d] # "asking" /\ call'[d] = call[d]
  BY DEF Observe, Doom, Answered, Condemned
<1>2. call[d] \in {"asking", "running", "over"} BY <1>1 DEF ReqInv, Shape
<1> QED BY <1>1, <1>2 DEF Gone

LEMMA CondemnedByRequest ==
  ASSUME Core, NEW c \in Calls, Requests(c) \/ Respond(c),
         NEW d \in Calls, Condemned(d)', ~Condemned(d)
  PROVE  Gone(d)'
<1>1. CASE Hold(c)
  <2>1. d = c /\ AlreadyFinished(c, pair[c]) BY <1>1 DEF Hold, Settled, Condemned, Shape
  <2>2. UNCHANGED <<call, agent, pair>> BY <1>1 DEF Hold
  <2> QED BY <2>1, <2>2, FinishedIsGone DEF Gone, Mistaken
<1>2. ASSUME NEW says, Finish(c, says) PROVE FALSE
  BY <1>2, FinishDoes DEF Condemned, Shape
<1>3. CASE Arrive(c) \/ Look(c) \/ Raise(c) \/ Withdraw(c) \/ Respond(c)
  BY <1>3 DEF Arrive, Look, Raise, Withdraw, Respond, Settled, Condemned, Shape
<1> QED BY <1>1, <1>2, <1>3 DEF Requests, Decided, Closed, Interrupted, Expire, Drop

LEMMA OnlyOverStep == ASSUME Core, OnlyOver, Next PROVE OnlyOver'
<1>1. SUFFICES ASSUME NEW d \in Calls, Condemned(d)' PROVE Gone(d)'
  BY DEF OnlyOver, Condemned, Gone
<1>2. CASE Condemned(d)
  <2>1. Gone(d) /\ call[d] # "new" BY <1>2 DEF OnlyOver, Condemned, Gone, ReqInv, Shape
  <2>2. CASE Mistaken(d) BY <2>1, <2>2, MistakenStays DEF Gone
  <2>3. CASE ~Mistaken(d) BY <2>1, <2>3, StepOnward DEF Gone, Onward, CallOnward
  <2> QED BY <2>2, <2>3
<1>3. CASE ~Condemned(d)
  <2>1. CASE Desk
    BY <1>1, <1>3, <2>1
       DEF Desk, Prompt, Escape, Die, Permitted, Ask, Show, DeskAllows, DeskRejects, Condemned
  <2>2. CASE RequestInterrupt BY <1>1, <1>3, <2>2 DEF RequestInterrupt, Condemned
  <2> QED BY <1>1, <1>3, <2>1, <2>2, CondemnedByEvent, CondemnedByWatch, CondemnedByRequest DEF Next
<1> QED BY <1>2, <1>3

\* OnlyOver, for any calls, agents, inputs and number of turns: no card goes while
\* its call still waits to be allowed.
THEOREM OnlyOverCorrect == Spec => []OnlyOver
<1>1. Init => OnlyOver BY DEF Init, OnlyOver
<1>2. ASSUME OnlyOver, UNCHANGED vars PROVE OnlyOver'
  BY <1>2 DEF OnlyOver, vars, Mistaken
<1> QED BY <1>1, <1>2, OnlyOverStep, CoreCorrect, PTL DEF Spec

---------------------------------------------------------------------------
(* The card of a call that has ended goes.                                 *)

\* What EndedIsWithdrawn says of one call.
EndMet(c) == req[c] = "raised" \/ c \in dooms \/ c \notin since[c] \/ Mistaken(c)

\* When the end comes, the card is withdrawn, or its request is still to be held.
LEMMA EndIsMet ==
  ASSUME Core, NEW c \in Calls, NEW event \in EndEvents, CallEnds(c, event), item'[c] = "open"
  PROVE  EndMet(c)'
<1>1. PICK gone \in WithdrawnBy(c) : dooms' = dooms \cup gone BY CallEndsDoes
<1>2. UNCHANGED <<agent, pair, item, req>> BY CallEndsDoes
<1>3. CASE req[c] = "raised" BY <1>2, <1>3 DEF EndMet
<1>4. CASE c \in gone BY <1>1, <1>4 DEF EndMet
<1>5. CASE req[c] # "raised" /\ c \notin gone
  <2>1. c \in held BY <1>2, <1>5 DEF ReqInv
  <2>2. pair[c] # c BY <1>5, <2>1 DEF WithdrawnBy
  <2>3. pair[c] = NoCall => \E h \in held \ {c} : pair[h] = c \/ h \in Uncorrelated(c)
    BY <1>5, <2>1, <2>2 DEF WithdrawnBy, Uncorrelated
  <2>4. Mistaken(c) BY <2>2, <2>3 DEF Mistaken, Uncorrelated, Shape
  <2> QED BY <1>2, <2>4 DEF EndMet, Mistaken
<1> QED BY <1>3, <1>4, <1>5

\* No second end comes, and a request that is held was not told of the first.
LEMMA EndIsKnown ==
  ASSUME Core, Next, NEW c \in Calls, call[c] = "over", item[c] = "open", item'[c] = "open"
  PROVE  /\ c \in since'[c] => c \in since[c]
         /\ req[c] = "raised" => req'[c] = "raised" \/ c \notin since'[c]
<1>1. CASE Desk
  BY <1>1 DEF Desk, Prompt, Escape, Die, Permitted, Ask, Show, DeskAllows, DeskRejects, Shape
<1>2. CASE Events
  <2>1. ASSUME NEW d \in Calls, NEW event \in EndEvents, CallEnds(d, event)
        PROVE  req' = req /\ (c \in since'[c] => c \in since[c])
    <3>1. d # c BY <2>1, CallEndsDoes
    <3> QED BY <2>1, <3>1, CallEndsDoes
  <2> QED BY <1>2, <2>1 DEF Events, UserPromptSubmit, Stop, SessionEnd, PreToolUse, SubagentStop
<1>3. CASE RequestInterrupt \/ \E late \in BOOLEAN : Observe(late)
  BY <1>3 DEF RequestInterrupt, Observe
<1>4. ASSUME NEW d \in Calls, Requests(d) \/ Respond(d)
      PROVE  /\ c \in since'[c] => c \in since[c]
             /\ req[c] = "raised" => req'[c] = "raised" \/ c \notin since'[c]
  <2> USE DEF At, Shape
  <2>1. CASE Arrive(d) \/ Raise(d) \/ Withdraw(d) \/ Respond(d)
    BY <2>1 DEF Arrive, Raise, Withdraw, Respond
  <2>2. CASE Look(d)
    <3>1. /\ req[d] = "arrived" /\ since' = since
          /\ \E l \in {"done", "looked"} : req' = [req EXCEPT ![d] = l]
      BY <2>2, LookDoes
    <3> QED BY <3>1
  <2>3. CASE Hold(d)
    <3>1. d = c => c \notin since[c] BY <2>3 DEF Hold, Settled, AlreadyFinished
    <3> QED BY <2>3, <3>1 DEF Hold
  <2>4. ASSUME NEW says, Finish(d, says)
        PROVE  /\ c \in since'[c] => c \in since[c]
               /\ req[c] = "raised" => req'[c] = "raised" \/ c \notin since'[c]
    BY <2>4, FinishDoes
  <2> QED BY <1>4, <2>1, <2>2, <2>3, <2>4 DEF Requests, Decided, Closed, Interrupted, Expire, Drop
<1> QED BY <1>1, <1>2, <1>3, <1>4 DEF Next

LEMMA FinishedBy ==
  ASSUME Core, Next, NEW c \in finished', c \notin finished
  PROVE  \E event \in EndEvents : CallEnds(c, event)
<1>1. CASE Desk
  BY <1>1 DEF Desk, Prompt, Escape, Die, Permitted, Ask, Show, DeskAllows, DeskRejects
<1>2. CASE Events
  <2>1. ASSUME NEW d \in Calls, NEW event \in EndEvents, CallEnds(d, event) PROVE d = c
    BY <2>1, CallEndsDoes
  <2> QED BY <1>2, <2>1 DEF Events, UserPromptSubmit, Stop, SessionEnd, PreToolUse, SubagentStop
<1>3. CASE RequestInterrupt \/ \E late \in BOOLEAN : Observe(late)
  BY <1>3 DEF RequestInterrupt, Observe
<1>4. ASSUME NEW d \in Calls, Requests(d) \/ Respond(d) PROVE FALSE
  <2>1. ASSUME NEW says, Finish(d, says) PROVE FALSE BY <2>1, FinishDoes
  <2> QED
    BY <1>4, <2>1 DEF Requests, Arrive, Look, Raise, Hold, Withdraw, Respond,
                      Decided, Closed, Interrupted, Expire, Drop
<1> QED BY <1>1, <1>2, <1>3, <1>4 DEF Next

LEMMA EndedStep == ASSUME Core, EndedIsWithdrawn, Next PROVE EndedIsWithdrawn'
<1>1. SUFFICES ASSUME NEW c \in finished', item'[c] = "open" PROVE EndMet(c)'
  BY DEF EndedIsWithdrawn, EndMet
<1>2. c \in Calls BY CoreStep DEF Shape
<1>3. CASE c \notin finished
  BY <1>1, <1>2, <1>3, FinishedBy, EndIsMet
<1>4. CASE c \in finished /\ item[c] # "open"
  BY <1>1, <1>2, <1>4, StepOnward DEF Onward, CardOnward, EndMet
<1>5. CASE c \in finished /\ item[c] = "open"
  <2>1. call[c] = "over" /\ EndMet(c) BY <1>5 DEF FinInv, EndedIsWithdrawn, EndMet
  <2>2. CASE c \in dooms
    BY <1>1, <1>2, <2>2, StepOnward DEF Onward, CardOnward, EndMet
  <2>3. CASE Mistaken(c) BY <1>2, <2>1, <2>3, MistakenStays DEF EndMet
  <2>4. CASE req[c] = "raised" \/ c \notin since[c]
    BY <1>1, <1>2, <1>5, <2>1, <2>4, EndIsKnown DEF EndMet
  <2> QED BY <2>1, <2>2, <2>3, <2>4 DEF EndMet
<1> QED BY <1>3, <1>4, <1>5

\* EndedIsWithdrawn, for any calls, agents, inputs and number of turns: no card
\* outlives the end of its call that Claude Code has reported.
THEOREM EndedIsWithdrawnCorrect == Spec => []EndedIsWithdrawn
<1>1. Init => EndedIsWithdrawn BY DEF Init, EndedIsWithdrawn
<1>2. ASSUME EndedIsWithdrawn, UNCHANGED vars PROVE EndedIsWithdrawn'
  BY <1>2 DEF EndedIsWithdrawn, vars, Mistaken
<1> QED BY <1>1, <1>2, EndedStep, CoreCorrect, PTL DEF Spec

---------------------------------------------------------------------------
(* An interrupt reaches the prompt the turn waits at.                      *)

\* A held prompt of the main thread has its answer sent while the flag is up.
FiredInv == \A c \in Calls : IsMain(c) /\ req[c] = "waiting" /\ interrupt => c \in fired

\* A dialog still open after the hook was answered: the card expired, or the hook
\* was answered for another call.
AnsweredInv ==
  \A c \in Calls :
    req[c] = "done" /\ call[c] = "asking" => item[c] = "expired" \/ Mistaken(c)

LEMMA FiredStep == ASSUME Core, FiredInv, Next PROVE FiredInv'
<1> USE DEF FiredInv, IsMain
<1>1. CASE Desk
  BY <1>1 DEF Desk, Prompt, Escape, Die, Permitted, Ask, Show, DeskAllows, DeskRejects, Shape
<1>2. CASE Events
  <2>1. ASSUME NEW c \in Calls, PreToolUse(c) PROVE FiredInv'
    <3>1. req[c] = "none" BY <2>1 DEF PreToolUse, ReqInv
    <3> QED BY <2>1, <3>1 DEF PreToolUse, Shape
  <2>2. ASSUME NEW c \in Calls, NEW event \in EndEvents, CallEnds(c, event) PROVE FiredInv'
    BY <2>2, CallEndsDoes
  <2> QED BY <1>2, <2>1, <2>2 DEF Events, UserPromptSubmit, Stop, SessionEnd, SubagentStop
<1>3. CASE RequestInterrupt BY <1>3 DEF RequestInterrupt, HeldMain, ReqInv
<1>4. ASSUME NEW late \in BOOLEAN, Observe(late) PROVE FiredInv' BY <1>4 DEF Observe
<1>5. ASSUME NEW c \in Calls, Requests(c) \/ Respond(c) PROVE FiredInv'
  <2> USE DEF At, Shape
  <2>1. CASE Arrive(c) \/ Raise(c) \/ Withdraw(c) \/ Respond(c)
    BY <2>1 DEF Arrive, Raise, Withdraw, Respond
  <2>2. CASE Look(c) BY <2>2, LookDoes
  <2>3. CASE Hold(c) BY <2>3 DEF Hold
  <2>4. ASSUME NEW says, Finish(c, says) PROVE FiredInv'
    <3>1. /\ fired' = fired \ {c} /\ req' = [req EXCEPT ![c] = "done"]
          /\ UNCHANGED <<agent, interrupt>>
      BY <2>4, FinishDoes
    <3> QED BY <3>1
  <2> QED BY <1>5, <2>1, <2>2, <2>3, <2>4 DEF Requests, Decided, Closed, Interrupted, Expire, Drop
<1> QED BY <1>1, <1>2, <1>3, <1>4, <1>5 DEF Next

\* Who answers a hook: the first look, hold, or what the select took.
LEMMA DoneBy ==
  ASSUME Core, Next, NEW c \in Calls, req[c] # "done", req'[c] = "done"
  PROVE  Requests(c)
<1>1. CASE Desk
  BY <1>1 DEF Desk, Prompt, Escape, Die, Permitted, Ask, Show, DeskAllows, DeskRejects, Shape
<1>2. CASE Events
  <2>1. ASSUME NEW d \in Calls, NEW event \in EndEvents, CallEnds(d, event) PROVE FALSE
    BY <2>1, CallEndsDoes
  <2> QED BY <1>2, <2>1 DEF Events, UserPromptSubmit, Stop, SessionEnd, PreToolUse, SubagentStop
<1>3. CASE RequestInterrupt \/ \E late \in BOOLEAN : Observe(late)
  BY <1>3 DEF RequestInterrupt, Observe
<1>4. ASSUME NEW d \in Calls, Requests(d) \/ Respond(d), d # c PROVE FALSE
  <2> USE DEF At, Shape
  <2>1. CASE Arrive(d) \/ Raise(d) \/ Withdraw(d) \/ Respond(d)
    BY <1>4, <2>1 DEF Arrive, Raise, Withdraw, Respond
  <2>2. CASE Look(d)
    <3>1. \E l \in {"done", "looked"} : req' = [req EXCEPT ![d] = l] BY <2>2, LookDoes
    <3> QED BY <1>4, <3>1
  <2>3. CASE Hold(d) BY <1>4, <2>3 DEF Hold
  <2>4. ASSUME NEW says, Finish(d, says) PROVE FALSE BY <1>4, <2>4, FinishDoes
  <2> QED BY <1>4, <2>1, <2>2, <2>3, <2>4 DEF Requests, Decided, Closed, Interrupted, Expire, Drop
<1>5. CASE Respond(c) BY <1>5 DEF Respond
<1> QED BY <1>1, <1>2, <1>3, <1>4, <1>5 DEF Next

\* An answer other than none closes the dialog.
LEMMA AnswerCloses ==
  ASSUME Shape, CallInv, NEW c \in Calls, NEW says \in {"allow", "deny", "interrupt"}, Answer(c, says)
  PROVE  call'[c] # "asking"
<1>1. CASE call[c] # "asking" \/ cli = "dead" BY <1>1 DEF Answer, CallInv
<1>2. CASE call[c] = "asking" /\ cli # "dead" /\ says = "interrupt"
  <2>1. TurnStops({c}) BY <1>2 DEF Answer
  <2> QED BY <2>1 DEF TurnStops
<1>3. CASE call[c] = "asking" /\ cli # "dead" /\ says \in {"allow", "deny"}
  BY <1>3 DEF Answer, Goto, Shape
<1> QED BY <1>1, <1>2, <1>3

LEMMA AnsweredStep == ASSUME Core, OnlyOver, AnsweredInv, Next PROVE AnsweredInv'
<1>1. SUFFICES ASSUME NEW c \in Calls, req'[c] = "done", call'[c] = "asking"
               PROVE  item'[c] = "expired" \/ Mistaken(c)'
  BY DEF AnsweredInv
<1>2. Core' BY CoreStep
<1>3. CASE req[c] = "done"
  <2>1. call[c] = "asking" BY <1>1, <1>3, StepOnward DEF Onward, CallOnward, ReqInv
  <2>2. item[c] = "expired" \/ Mistaken(c) BY <1>3, <2>1 DEF AnsweredInv
  <2> QED BY <2>1, <2>2, StepOnward, MistakenStays DEF Onward, CardOnward
<1>4. CASE req[c] # "done"
  <2>1. Requests(c) BY <1>1, <1>4, DoneBy
  <2>2. cli' # "dead" BY <1>1, <1>2 DEF CallInv
  <2>3. CASE Look(c)
    <3>1. PICK p \in Correlated(c), says \in {"interrupt", "{}"}, l \in {"done", "looked"} :
            /\ pair' = [pair EXCEPT ![c] = p] /\ req' = [req EXCEPT ![c] = l] /\ Answer(c, says)
            /\ l = "done" => says = "interrupt" \/ AlreadyFinished(c, p)
      BY <2>3, LookDoes
    <3>2. UNCHANGED <<agent, since, finished>> BY <2>3, LookDoes
    <3>3. says # "interrupt" BY <1>1, <3>1, AnswerCloses
    <3>4. AlreadyFinished(c, p) BY <1>1, <3>1, <3>3 DEF Shape
    <3>5. AlreadyFinished(c, p)' /\ p = pair'[c] BY <3>1, <3>2, <3>4 DEF AlreadyFinished, Shape
    <3>6. call'[c] = "over" \/ Mistaken(c)'
      <4>1. CASE p \in finished
        <5>1. p \in Calls /\ call'[p] = "over" BY <1>2, <3>2, <4>1 DEF FinInv, Shape
        <5>2. pair'[c] = p /\ p # NoCall BY <3>5, <5>1, PromptsAssumption
        <5> QED BY <5>1, <5>2 DEF Mistaken
      <4>2. CASE \E f \in since[c] : agent[f] = agent[c] /\ AskKey[f] = AskKey[c]
        BY <1>2, <3>2, <4>2, ZenonT(40) DEF FinInv, Shape, Mistaken
      <4> QED BY <3>4, <4>1, <4>2 DEF AlreadyFinished
    <3> QED BY <1>1, <3>6
  <2>4. CASE Hold(c)
    <3>1. AlreadyFinished(c, pair[c]) BY <1>1, <2>4 DEF Hold, At, Shape
    <3>2. UNCHANGED <<call, agent, pair>> BY <2>4 DEF Hold
    <3> QED BY <1>1, <3>1, <3>2, FinishedIsGone DEF Mistaken
  <2>5. CASE Decided(c) \/ Interrupted(c)
    <3>1. PICK says \in {"allow", "deny", "interrupt"} : Finish(c, says)
      BY <2>5 DEF Decided, Interrupted
    <3>2. Answer(c, says) BY <3>1, FinishDoes
    <3> QED BY <1>1, <3>2, AnswerCloses
  <2>6. CASE Closed(c)
    <3>1. Finish(c, "{}") /\ item[c] = "withdrawn" BY <2>6 DEF Closed
    <3>2. call' = call BY <3>1, FinishDoes DEF Answer
    <3>3. Mistaken(c) /\ call[c] # "new" BY <1>1, <3>1, <3>2 DEF OnlyOver
    <3> QED BY <3>3, MistakenStays
  <2>7. CASE Expire(c) BY <2>7, FinishDoes DEF Expire, Shape
  <2>8. CASE Drop(c) BY <2>2, <2>8, StepOnward DEF Drop, Onward
  <2>9. CASE Arrive(c) \/ Raise(c) \/ Withdraw(c)
    BY <1>1, <1>4, <2>9 DEF Arrive, Raise, Withdraw, At, Shape
  <2> QED BY <2>1, <2>3, <2>4, <2>5, <2>6, <2>7, <2>8, <2>9 DEF Requests
<1> QED BY <1>3, <1>4

\* InterruptIsMet, for any calls, agents, inputs and number of turns: no prompt of an
\* interrupted turn is left waiting.
THEOREM InterruptIsMetCorrect == Spec => []InterruptIsMet
<1>1. Init => FiredInv /\ AnsweredInv BY DEF Init, FiredInv, AnsweredInv
<1>2. ASSUME FiredInv, AnsweredInv, UNCHANGED vars PROVE FiredInv' /\ AnsweredInv'
  BY <1>2 DEF FiredInv, AnsweredInv, vars, Mistaken, IsMain
<1>3. Core /\ FiredInv /\ AnsweredInv => InterruptIsMet
  <2>1. SUFFICES ASSUME Core, FiredInv, AnsweredInv,
                        NEW c \in Calls, IsMain(c), call[c] = "asking", interrupt
                 PROVE  \/ req[c] \in {"sent", "arrived", "looked", "raised"}
                        \/ c \in fired \/ item[c] = "expired" \/ Mistaken(c)
    BY DEF InterruptIsMet
  <2> QED BY <2>1 DEF FiredInv, AnsweredInv, ReqInv, Shape
<1> QED BY <1>1, <1>2, <1>3, FiredStep, AnsweredStep, CoreCorrect, OnlyOverCorrect, PTL DEF Spec

---------------------------------------------------------------------------
(* A prompt answered at the desk is withdrawn by the pidfile.              *)

\* Of a held prompt whose dialog the watch has seen, once that dialog is closed: the
\* stamp of the change keeps it until the watch reads it, the edge after that.
EdgeInv ==
  /\ watched \subseteq held
  /\ cli # "dead" =>
       \A c \in watched : item[c] = "open" =>
         \/ c \in dooms
         \/ IF seen THEN PidStatus = "waiting" \/ c \in earlier ELSE left.on /\ c \in left.before

\* Only the watch reads the pidfile; nobody else takes a held prompt from the edge.
LEMMA EdgeStays ==
  ASSUME Core, Next, ~\E late \in BOOLEAN : Observe(late), NEW c \in held, c \in held'
  PROVE  /\ seen' = seen
         /\ left.on /\ c \in left.before => left'.on /\ c \in left'.before
<1>1. CASE Desk
  BY <1>1 DEF Desk, Prompt, Escape, Die, Permitted, Ask, Show, DeskAllows, DeskRejects
<1>2. CASE Events
  <2>1. ASSUME NEW d \in Calls, NEW event \in EndEvents, CallEnds(d, event)
        PROVE  seen' = seen /\ left' = left
    BY <2>1, CallEndsDoes
  <2> QED BY <1>2, <2>1 DEF Events, UserPromptSubmit, Stop, SessionEnd, PreToolUse, SubagentStop
<1>3. CASE RequestInterrupt BY <1>3 DEF RequestInterrupt
<1>4. ASSUME NEW d \in Calls, Requests(d) \/ Respond(d)
      PROVE  /\ seen' = seen
             /\ left.on /\ c \in left.before => left'.on /\ c \in left'.before
  <2>1. CASE Arrive(d) \/ Raise(d) \/ Hold(d) \/ Withdraw(d) \/ Respond(d)
    BY <2>1 DEF Arrive, Raise, Hold, Withdraw, Respond
  <2>2. CASE Look(d) BY <2>2, LookDoes
  <2>3. ASSUME NEW says, Finish(d, says)
        PROVE  /\ seen' = seen
               /\ left.on /\ c \in left.before => left'.on /\ c \in left'.before
    <3>1. /\ c # d /\ seen' = seen
          /\ left' = [left EXCEPT !.before = @ \ {d}]
      BY <2>3, FinishDoes
    <3> QED BY <3>1 DEF Shape
  <2> QED BY <1>4, <2>1, <2>2, <2>3 DEF Requests, Decided, Closed, Interrupted, Expire, Drop
<1> QED BY <1>1, <1>2, <1>3, <1>4 DEF Next

\* What the watch makes of it: the prompt is withdrawn, or the edge is still to be
\* confirmed.
LEMMA EdgeIsRead ==
  ASSUME Core, NEW late \in BOOLEAN, Observe(late), NEW c \in held,
         IF seen THEN PidStatus = "waiting" \/ c \in earlier ELSE left.on /\ c \in left.before,
         PidStatus # "waiting"
  PROVE  ~seen' /\ (c \in dooms' \/ (left'.on /\ c \in left'.before))
<1>1. EdgeNow.on /\ c \in EdgeNow.before BY DEF EdgeNow
<1>2. ~seen' BY DEF Observe
<1>3. CASE late BY <1>1, <1>2, <1>3 DEF Observe, Doom, Answered
<1>4. CASE ~late BY <1>1, <1>2, <1>4 DEF Observe
<1> QED BY <1>3, <1>4

LEMMA EdgeStep == ASSUME Core, EdgeInv, Next PROVE EdgeInv'
<1>1. watched' \subseteq held' BY DEF Next
<1>2. SUFFICES ASSUME cli' # "dead", NEW c \in watched', item'[c] = "open", c \notin dooms'
               PROVE  IF seen' THEN PidStatus' = "waiting" \/ c \in earlier'
                      ELSE left'.on /\ c \in left'.before
  BY <1>1 DEF EdgeInv
<1> DEFINE Kept == IF seen THEN PidStatus = "waiting" \/ c \in earlier
                   ELSE left.on /\ c \in left.before
<1>3. CASE seen' /\ PidStatus' = "waiting" BY <1>3
<1>4. CASE ~(seen' /\ PidStatus' = "waiting")
  <2>1. c \in watched /\ c \in held /\ c \in held' /\ c \in Calls
    BY <1>1, <1>2, <1>4 DEF Next, EdgeInv, Shape
  <2>2. req[c] = "waiting" /\ req'[c] = "waiting" BY <2>1, CoreStep DEF ReqInv
  <2>3. item[c] = "open" /\ c \notin dooms /\ cli # "dead"
    BY <1>2, <2>1, <2>2, StepOnward DEF Onward, CardOnward
  <2>4. Kept BY <2>1, <2>3 DEF EdgeInv
  <2>5. c \in Arrived' BY <2>1, <2>2 DEF Arrived
  <2>6. CASE \E late \in BOOLEAN : Observe(late)
    <3>1. PICK late \in BOOLEAN : Observe(late) BY <2>6
    <3>2. PidStatus' = PidStatus /\ (PidStatus = "waiting" => seen') BY <3>1 DEF Observe, PidStatus
    <3>3. PidStatus # "waiting" BY <1>4, <3>2
    <3> QED BY <1>2, <2>1, <2>4, <3>1, <3>3, EdgeIsRead
  <2>7. CASE ~\E late \in BOOLEAN : Observe(late)
    <3>1. /\ seen' = seen
          /\ left.on /\ c \in left.before => left'.on /\ c \in left'.before
      BY <2>1, <2>7, EdgeStays
    <3>2. CASE seen
      <4>1. PidStatus' # "waiting" BY <1>4, <3>1, <3>2
      <4>2. PidStatus' # PidStatus \/ c \in earlier BY <2>4, <3>2, <4>1
      <4> QED BY <1>2, <2>5, <3>1, <3>2, <4>1, <4>2 DEF Next, Stamped
    <3>3. CASE ~seen BY <2>4, <3>1, <3>3
    <3> QED BY <3>2, <3>3
  <2> QED BY <2>6, <2>7
<1> QED BY <1>3, <1>4

\* EdgeIsKept, for any calls, agents, inputs and number of turns: however the dialogs,
\* the watch and the withdrawals interleave, the edge of a held prompt is not lost.
THEOREM EdgeIsKeptCorrect == Spec => []EdgeIsKept
<1>1. Init => EdgeInv BY DEF Init, EdgeInv
<1>2. ASSUME EdgeInv, UNCHANGED vars PROVE EdgeInv'
  BY <1>2 DEF EdgeInv, vars, PidStatus
<1>3. EdgeInv => EdgeIsKept BY DEF EdgeInv, EdgeIsKept
<1> QED BY <1>1, <1>2, <1>3, EdgeStep, CoreCorrect, PTL DEF Spec
=============================================================================
