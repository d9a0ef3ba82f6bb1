# Mother Claude in TLA+

Mother Claude is a desktop app (a Rust core under `src/src-tauri/src`, a web client, a Node
sidecar) that watches the Claude Code sessions of a computer, drives some of them, relays
messages and permission prompts between them and the user's devices, and offers them as an HTTP
API. This directory models the parts of the core where several tasks, processes or clients meet in
one piece of state, checks them with TLC on small instances, and proves the most important
properties of eight of them with TLAPS for every instance.

`PROJECT.json` is the index: the components, the runs, the line of code each definition stands
for, the mutants that show each property can fail, the hazards and the theorems.

## 1. Inventory

| Component | State it keeps | Operations | Hard parts | What makes it correct |
|---|---|---|---|---|
| Pending-decision store (`pending.rs`) | items that wait for a human, ids of settled ones, their resolutions | raise, wait, respond, withdraw, guard drop | five kinds of callers race to end one request; answers are sent on a channel whose receiver may be going away | a request is settled once, by someone who may, and published as it was settled |
| Card publication (`server/ws.rs`, `server/monitor.rs`) | the snapshot's previews, the announced ids | `sync_pending`, `patch_session`, the monitor's refresh | every writer lists first and takes the lock later | every waiting request has a card and has been announced, no settled one keeps its card |
| Hook relay (`server/hooks.rs`, `server/hooks/machine.rs`) | per session: queue, turn, mode, interrupt, the parked listener, held prompts | hook events, wake polls, enqueue, cancel, interrupt, the pidfile watch | hand-over by three events and by long polls, claims that are undone, resumes under the same id | a message is handed over once, in order, never after a cancel |
| Event log (`bridge/events.rs`, SSE in `bridge/routes/mod.rs`) | a bounded window of events | append, close, cursor reads, waits | eviction between two reads, lost wake-ups, heartbeats | a stream sees every event or is told it missed some |
| Bridge operations (`bridge/ops.rs`, `bridge/routes/turns.rs`) | one operation per turn, its status and log | create, finish, discard, fail_all; turn, steer, interrupt | the host's reports, its death and the next call finish an operation from three tasks | an operation ends once, and at the latest with its host |
| Bridge host (`bridge/host.rs`, `sidecar/src/bridge-host.ts`) | the running process, calls in flight; in the process its conversations | start, call, reply, reader, reaper, retire | death at any step; a late clean-up of a replaced host | only what belonged to the dead host is failed, and all of it |
| Account switch (`claude/switch.rs`) | one entry per session: waiting or under way | begin, cancel, wait for the turn, stop or close, move, resume | races with turns; timeouts; a host that dies meanwhile | no turn runs while a session changes accounts, and the switch ends |
| Owned sessions (`claude/owned.rs`, `claude/control*`) | child processes, the registered one of each session, queued messages, control requests | spawn, send, continue, stop, reap | two starts at once, exit during a request, messages taken back | one process per transcript, no message given twice |
| Accounts, sign-in, usage (`claude/accounts*`, `claude/usage.rs`) | account list, credentials | add, capture, sign in, poll | subprocesses, cached status | the cached status follows the credential |
| Transfer (`claude/transfer*`) | files in two directories, undo directory, manifest | plan, run, delete, undo | failure or crash between any two steps, Claude Code writing meanwhile | no line is lost, a failed run and an undo leave things as they were |
| Backup (`claude/backup*`) | sealed sets, archives | back up, restore, re-key | cancellation, crash in a re-key | every set opens with a kept passphrase |
| Pairing and devices (`server/pairing.rs`, `server/devices.rs`) | codes, requests, devices and their file | create code, exchange, approve, poll, revoke | single use, expiry, replay, a save that fails | a code makes at most one token, a revoked device stays revoked |
| Push (`server/push/*`) | subscriptions, a batch per device | add, settle, deliver, retry | batching against settled cards | no push for what is settled |
| HTTP server, authentication, remote access (`server/*`) | tokens, tunnels, rate limits | request checks | mostly I/O | right by request |
| Index, live roster, transcripts (`claude/index*`, `claude/live.rs`) | summaries by session | scan, follow, refresh | files that grow while read | the last refresh wins |
| Web client, tmux, settings, release scripts | - | - | - | not modelled: rendering, wrappers, I/O |

How they meet: a hook, the bridge host or an owned session *raises* a request in the pending
store; the store's changes are *published* by whoever made them; the dashboard *answers* over
HTTP. The dashboard *queues* a message in the hook machine, and a hook or a listener of the
session's process takes it. API clients start a *turn*: an operation is registered, the host is
called, the host's frames go to the operation's event log, and SSE streams read that log. An
account switch excludes turns by a registration on both sides. A switch of a session that Mother
Claude runs as a child process stops that process, lets the transfer code move the transcript,
and starts a process under the other account.

Every shared piece of state is behind a `std::sync::Mutex` or an async lock that is held for one
critical section; the hard behaviour is between the sections. So an action of these modules is
one critical section, or one poll of a future, and everything that happens across an `await` is
two actions.

## 2. Modules

| Module | Models | Instances |
|---|---|---|
| `DecisionOnce` | abstract: a request is settled once, and what is announced is how | refined by `PendingStore` |
| `PendingStore` | the pending store and the calls around it | `MCPendingStore` |
| `PendingCards` | the cards, on top of `PendingStore` (it extends it and composes its steps) | `MCPendingCards` |
| `PendingStore_proofs` | theorems about `PendingStore` and `PendingCards` | - |
| `HookHub` | relay, wake and interrupts of one session | `MCHookHub` |
| `HookHub_proofs` | theorems about `HookHub` | - |
| `HookPrompts` | the permission prompts of one session, from request to answer | `MCHookPrompts` |
| `HookPrompts_proofs` | theorems about `HookPrompts` | - |
| `EventLog` | one event log and its SSE streams | `MCEventLog` |
| `EventLog_proofs` | theorems about `EventLog` | - |
| `BridgeTurns` | operations, turn routes, host, host process and the switch of an API conversation | `MCBridgeTurns` |
| `BridgeTurns_proofs` | theorems about `BridgeTurns` | - |
| `OwnedSwitch` | an owned session: its processes, messages, continue, stop, and the switch of its account | `MCOwnedSwitch` |
| `OwnedSwitch_proofs` | theorems about `OwnedSwitch` | - |
| `Pairing` | pairing codes and requests, the device registry and its file, revocation | `MCPairing` |
| `Pairing_proofs` | theorems about `Pairing` | - |
| `Transfer` | moving, copying, continuing and deleting one session, and the undo | `MCTransfer` |
| `Transfer_proofs` | theorems about `Transfer` | - |

Names follow the source (`Register` is `PendingStore::register`, `Retire` is
`RuntimeHost::retire`). A definition with the comment `MUTANT` is a plausible bug in the one
below it; no specification uses it.

### PendingStore

`slots`, `finished` and `resolutions` are the three maps of `Inner`. `chan` and `rx` are the two
ends of an item's oneshot channel: sending succeeds while `rx` holds, and a raiser stops *looking*
before it *drops* the receiver, which are two steps here (`TimedOut`, `Abandon`, then
`DropGuard`). A caller's `respond` is three steps: the lookup that checks the session (`Ask`), the
critical section that resolves (`ResolveGone`, `ResolveRefused`, `Resolve`), and the name of its
device (`Name`). Whoever removed an item publishes it in a later step (`Publish`).

Data is reduced to what decides: an item is dangerous or not, a body fits or not, an answer allows
or denies, a caller has the right or not. `forgotten` is history: the ids that fell out of the
bounded memory, for which the code promises nothing.

### PendingCards

`sync_pending` is four steps (list, patch, announce, send): its two waits for the snapshot's lock
divide it, and its frames go out after the lock of the announced set is left (`SyncSend`). Between
those last two there is no `await`, so a raiser cannot be dropped there. The monitor's refresh lists session by session and publishes later. `frames` counts the
`pending` frames of an item; it can pass one, as a sync that read the store before an item was
registered may forget that it was announced. The assumption `NothingForgotten` (no more requests
than the store remembers settled ones) keeps ids from being forgotten: that matter belongs to
`PendingStore`.

### HookHub

One session, its process (external: it sends hooks and takes their answers), `mc-wake` listeners
(external: the script that polls) and the dashboard. `turn` counts the turns that ran, so that an
interrupt can be told to be stale. `active` has the value "idle since" for the code's comparison
of the pidfile's timestamp with `turn_started_ms`. `Torn` listeners may lose their connection,
`HookTimesOut` lets a hook give up on its answer, `Aging` messages may pass the relay's time to
live, `ModeSwitches` lets the user change the permission mode. Pruning and cancelling pick messages
from the queue with `Only`, which is what `SelectSeq` computes. Left out: held permission prompts
(`HookPrompts`),
the 64 entries of message history, and the `SessionStart` of a compaction.

### HookPrompts

One session again, with its tool calls, subagents, dialogs and pidfile (external), and its
permission requests. A request is three steps of the code with slow ones between them: it is
stamped (`Arrive`), looked at and given a tool call (`Look`), published (`Raise`) and held
(`Hold`); then one of the answers ends it (`Decided`, `Closed`, `Interrupted`, `Expire`, or `Drop`
when its connection is gone). Hook events, an interrupt and the pidfile watch name the cards that
go (`dooms`); they are withdrawn one by one later (`Withdraw`). Times are not numbers: `since` is
what finished after a request arrived, `earlier` and `left.before` are the requests that had
arrived when the pidfile changed. All calls are of one tool; `PreKey` and `AskKey` are the hashes
of a call's input before and after a hook rewrote it, so that the fallback of `correlate` can pick
a wrong call. `watched` is history: the held prompts the watch has seen with a dialog open.

About the pidfile the module assumes that a dialog that waits behind another one opens within the
300 ms after which an edge counts (guard of `Observe`). Left out: the ten seconds and 64 entries
for which finished calls are remembered, headless sessions, resumes, and the message queue, which
is in `HookHub`.

### EventLog

An append evicts at once and notifies later (`Notify`), because the notification is sent after
the mutex is left. `seen` and `version` are a `tokio::sync::watch` receiver and its channel. The
heartbeat's elapsing and the code that handles it are two steps.

### BridgeTurns

One conversation. `status`, `log` and `closed` are the operation; `untold` names the tasks that
have won `finish` and still have the terminal frame to append or the log to close. A call is
`Ensure` (the running lock), `Send` (in flight, then written) and `Returns` (how it came back).
Each host process has a pipe in each direction; what it wrote before it died is still read. The
pipe to a host holds `PipeRoom` commands: once it is full, `Send` waits for as long as the host
lives and reads nothing (`Blocked`), because nothing in `RuntimeHost::call` bounds the write. A
command is written whole or not at all: a handler dropped in the middle of a write is not modelled.
`reader`, `alive` and `installed` are the three views of whether a host lives. The process's own
state is `conv` (its sessions map has the conversation), `turn` (`session.turnId`), `work` (inputs
pushed and unanswered), `claims` (interrupts that wait for the SDK) and `endings` (closed sessions
whose stream has still to end). The Agent SDK is external: a result answers one or more inputs, a
stream may fail at any step, an interrupt may throw.

Left out: the global log, eviction of finished operations, messages of a turn, requests of the
host, and the calls that open a conversation other than a switch's.

### OwnedSwitch

One session, its registry entry `reg` (`handles` in `control.rs`) and every process started for it
(`proc`, in the order of their start). A process starts before the registry is asked
(`StartChild`, then `Enter`), and the second of two is told to end. A message is three steps:
decide and note it under the lock (`Record`), write the line (`WriteLine`), mark the turn
(`StartTurn`). `ReapClose`, `ReapRemove` and `Reaped` are the three things the reaper does after a
child ended. `entry` and `cancelled` are `Switches` of `switch.rs` with the cancel signal of each
switch; `sw[s].pc` is where the task of switch `s` stands: `Close`, then at once or after `Wait`
and `Claim` the body of `run_owned` (`Ready`, `TakeBack`, `Settle`, `Interrupt`, `Stop`,
`Stopped`, `Move`, `Launch`, `Register`, `Undo`, `Hand`). `place` is where the transcript is;
`shared` says that both accounts use one directory, when nothing has to move. Claude Code is
external: it takes its input in order and gives a message back only if it has not begun it. The
request of `TakeBack` may fail or time out. The way back from a switch (`Undo`) is refused, and its
files stay where they are, when a process was registered meanwhile (a session that runs is not moved).
Two variables are history: `overtaken`, the continues that found the session without a process and
were still pending when another process was registered, and `late`, that one of those registered its
process where the transcript no longer was.

Left out: the sidecar driver, other control requests (modes, models, questions), the first message of a
launch, a user's own taking back of a message, forks, the switch of a session nobody runs
(`switch_ended`), and what a launch carries over (model, effort).

### Pairing

`codes` and `pairs` are `Inner` of `pairing.rs`, numbered by code; `devs` is the registry and
`file` is `devices.json`, which `Save` writes or, when the disk refuses, does not. An exchange on
the local network marks its code under the pairing lock and mints the token under the device lock
(`TakeLanCode`, `IssueAuto`, `AnswerAuto`); one through a tunnel becomes a request that the
desktop approves with the digits of the phone (`TakeInternetCode`, `Approve`, `Mistype`, `Poll`);
a second presentation of a used code contests the request (`ReplayCode`). `RevokeRecord` and
`AnnounceRevoked` are the two halves of `devices::revoke`; `StartRun`, `WatchRevocations` and
`CheckRevoked` are `until_revoked` beside a long request. Time is a step that expires a code or a
request; every function prunes before it looks, so an expired one counts as gone at once. Left
out: rate limits, grants, names, the audit log.

### Transfer

One session of up to `NFiles` files in two directories, and the one job on it. A file is a set of
numbered lines, which is enough to say that a copy is a prefix, that a source changed, and that a
line was lost. `pc` walks the steps of `run`: copy, verify, stamp, manifest, shared entry, the
last look for sessions and changes, the stash of the originals; `delete.rs` lists, saves, renames
and looks again; an undo and a failed run walk `restore_source` and `rollback`. `disk` is
`manifest.json` as the disk has it: after `Crash` only that is left. `IoError` fails any
operation; Claude Code resumes, writes and exits at any time (`Resume`, `Write`, `Exit`). `Prune`
is the end of the seven days. One rename is one step: a rename is atomic, a copy is placed by one.
Where the code looks and where it does not is kept apart: `copy_file` looks before it copies
(`LookBeforeCopy`) and renames over whatever is there by then (`Place`); `restore_source` looks
whether a place is free and gives up with the undo directory kept (`Stuck`); what a delete puts back
(`PutBack`, `put_back_all`) is renamed without a look. When `restore_source` and `rollback` went well
but the undo directory of a failed run cannot be removed, it stays, and the run ends all the same
(`Close`).
The history variables say where the code itself promises nothing: `missed` (the lines written where
nobody looks any more: `Unseen` lists the places), `stray` (a copy whose verification could not be read,
`transfer.rs:1295`, stays in the target and in no manifest), `torn` (a death before the manifest
named what was done), `found` and `quiet`.

Left out: several sessions in one job, customizations, prompt history, and the directories
created on the way.

## 3. Runs

All runs use two workers. None checks for deadlock: every instance has finitely many calls,
messages or appends, and stops when they are done.

| Run | Instance | Distinct states | Shows |
|---|---|---|---|
| `PendingStore` | 2 requests that bring the same host id, 2 callers, 1 withdrawal, memory of 1 id | 930,553 | items keep their place; an answer told ok stands; a late answer is a conflict; one publication per request, as it was answered; refines `DecisionOnce` |
| `PendingCards` | 2 requests of one session, 1 caller, the monitor | about 427,000 | no waiting request without an announcement; every end is published; the previews settle |
| `HookHub` | 3 messages, queue of 2, 1 listener that may tear, mode changes, late hooks | 3.4 million | once each, in order and never after a cancel; bypass takes only the privileged |
| `HookWake` | 1 message, 2 listeners, 2 processes one after another | 220,228 | nothing of an ended session or turn outlives it; a message drains |
| `HookPrompts` | 2 calls of one turn, the second perhaps a subagent's and with a rewritten input | 2.8 million | a card goes once its call is over and not before; an edge of the pidfile is not lost; an interrupt reaches the prompt |
| `EventLog` | window of 2 events or 3 bytes, 4 appends of 1, 2 or 4 bytes, 1 stream | 23,725 | no gap, no false expiry, no lost wake-up |
| `BridgeTurns` | 2 turns (one whose client may hang up), 1 interrupt, 2 hosts | 3.1 million | an operation ends once and with its host; a late clean-up spares the next host |
| `BridgeSwitch` | 1 turn, 1 switch whose calls may time out, 2 hosts | about 379,000 | switch and turn exclude each other; no end of a stream takes away what the switch opened again; the switch ends, unless a live host reads nothing for ever |
| `OwnedSwitch` | 2 messages, up to three of 2 switches, 2 continues and 1 stop (up to two once a second thing failed), 5 processes, 2 failures | 2.9 million | one process on a transcript, started where the transcript is unless a continue came too late; a cancelled switch does nothing; no message twice |
| `Pairing` | 2 phones, 2 codes, 2 devices, 1 restart, saves that fail | about 540,000 | one token per code; a contested request makes none; a revoked device stays so and its requests end |
| `Transfer` | 2 files, 2 lines written, 2 failures, 2 crashes | 8.3 million | no line lost; a failed run is clean; an undo puts everything back and can be taken up again |

Why the bounds are enough to be of interest: two requests with one supplied id and a memory of one
are what it takes for an id to be reused and forgotten while its publication is pending; three
messages overflow a queue of two and leave one to be refused; an event of 4 bytes exceeds the byte
cap alone; two hosts are what a late clean-up needs to hit the wrong one; two switches replace or
cancel one another while a continue or a stop meets them, and need no more than five processes;
two failures let an operation and its way back fail, two crashes let a job die and its undo too;
two codes with `MAX_ACTIVE_CODES` of one push each other out; two calls are what it takes to end
the wrong card, and one turn is enough for every property of that run to have a mutant that
breaks it; the proofs cover the rest. The configuration of `OwnedSwitch`
limits how many of the requests are asked in one behaviour (`FewRequests`): three, which is enough
for two continues that look together to meet a switch (`late` is reached), and two once a second
thing failed, which is enough for a start and then the way back from it to fail. What lies beyond
is left to the proofs. A pipe to a host holds one command in `BridgeSwitch`, where the switch's second
call then meets a full one, and two in `BridgeTurns`. `FinishedCap`, `QueueCap`,
`MaxEvents`, `MaxBytes` and `MaxActive` are caps of the code with small values; `MaxAppends`,
`MaxTurns`, `MaxProcesses`, `MaxMessages`, `MaxHosts`, `MaxProcs`, `MaxSwitches`, `MaxContinues`,
`MaxRequests`, `PipeRoom`, `MaxFail`, `MaxWrites`, `MaxCrash`, `MaxCode`, `MaxDevice`, `MaxTok` and `MaxRestart` are bounds
of the model.

### Disagreements between code and documentation

This run checks one statement of the repository that the code does not keep.

| Run | Statement | What happens |
|---|---|---|
| `TransferCrash` | `transfer.rs`: an undo puts the moved files back first; a moved file is never deleted | when the app dies after files went to the undo directory and before the manifest names them, the undo deletes the copies, and the originals go with the undo directory after seven days |

A delete has no such gap: it lists the files in the manifest before it moves them
(`UndoneIsBack` includes it).

Five more statements are written as definitions beside the properties and are not kept; no run
repeats them:

- `AnswerReachesRaiser` (`PendingStore`; `pending.rs`: on success the decision is delivered to its
  raiser): an answer sent while the raiser's wait ends is reported as taken and nobody reads it.
- `DeliveredArrives` (`HookHub`; `machine.rs`: handed over exactly once): a release into a poll on
  its way out is marked delivered and lost.
- `EndsComplete` (`EventLog`; `routes/mod.rs`: a closed log with nothing left to send ends the
  stream): a heartbeat that elapses just before the last event ends the stream without it.
- `NoInputDuringSwitch` (`BridgeTurns`; `docs/ACCOUNTS.md`: no turn starts between a switch's look
  for turns and its end): a steer that looked before its turn ended starts it anew.
- `SwitchIsTended` (`BridgeTurns`; `docs/ACCOUNTS.md`: every switch of a running session ends with a
  notice): a switch of an API conversation whose client hangs up stays under way for ever, and
  refuses every later turn.

One more has no definition: `docs/ACCOUNTS.md` says that a conversation is opened again only after
the host reported its stream ended, because the host "forgets a conversation by id then".
`ReopenedStays` shows that for the first switch of a conversation. A second one can break it, in two
ways. The first switch gives up on its close after 30 seconds (`bridge/mod.rs:555`); the host takes
the request up later and answers the second switch's close with `alreadyClosed`, so that the second
switch opens the conversation while the old stream has still to end. Or a `session` frame that a
dead host left in its pipe is taken for the report of its successor: `note_host_closed`
(`bridge/host.rs:560`) does not ask which host sent it. In both cases the late end of the old
stream takes the conversation out of the host in which it was just opened again.

Of permission prompts the model shows what the code does not promise, or promises only in a comment:

- A pidfile edge "after the request arrived must still withdraw it" (`hooks.rs:984`). An edge that
  is confirmed before the slow `raise` has reached `hold` is used up: the card of a call turned down
  at the desk stays until the next prompt, or the hour is over (`EdgeIsKept` is about held prompts).
- A request that arrives after its call's last event is held although the call is over, and one
  given another call's id by the fallback is withdrawn with that call, or not with its own
  (`EndedIsWithdrawn` excuses both; `Mistaken` says which calls the code cannot tell apart).
- `finished_after` also matches by agent, tool and input when the request has an id: of two calls
  with the same input the end of one keeps the other's request from being held.
- A decision and an interrupt that are ready in one poll: the `select` takes either.

Of an owned session the model shows more that the code does not exclude, all of it rare; the first and the last contradict a comment:

- `close_for_switch` says that no message slips in between (`control.rs:818`). A message found to
  go at once (`Record`) is written after the lock is left; a switch at the end of the turn closes
  and stops the process in between, and the message, told sent, is in no queue that the switch
  takes along (`control.rs:1290`).
- `start_turn` after a fast result leaves the turn marked as running with nothing to end it
  (`control.rs:1276`); a switch that waits for the turn then waits on.
- A stop whose kill comes after a switch began is answered by the switch with a new process.
- A message that was held back is dropped when both starts, under the new and the old account,
  fail.
- Two continues that look together both find the session without a process. One registers its
  process, a switch stops that and moves the conversation, and then the other registers the process
  it started, under the account where the conversation was. "Between its stop and its resume under
  another account nothing holds it" says the comment at `owned.rs:818`; here a process does, and
  runs where the transcript is not. `RunsAtHome` excuses this and nothing else: `late` is set only by
  a continue that was overtaken, in a step that registers where the transcript is not. The run
  reaches it, and the theorem has no other condition.

Of an API conversation: `RuntimeHost::call` waits for the host's input and writes to it without a
limit of time (`host.rs:333-348`; the one at 350 is for the answer). A host that lives and reads nothing
holds every call behind its full pipe, and a switch with them, until it dies.

Of a transfer, the lines that `missed` collects are lost for good or may be:

- A delete moves the files, finds the session running again, and puts them back over whatever the
  running session wrote anew in their places (`delete.rs:571-576`, `transfer.rs:1589-1599`). Of two
  transcripts under one name the new one goes.
- A copy is renamed over what appeared in its place while it was made.
- A line written between the last look at a file and its stamp or its move goes with the source, and
  stays in the undo directory at best; one written to the target while the way back runs goes with
  the copy that is removed.

### Fairness

Safety runs state none. Liveness is checked under weak fairness of the steps a runtime takes by
itself: an awaited lock is got, a channel wakes its receiver, a guard drops, a writer that left a
mutex notifies, the 300 ms watch ticks, a turn that runs stops some day (`HookWake`), a switch's
task is polled, a write that finds room is made, and its timeouts elapse (`BridgeSwitch`), the watch of a running request is polled
and the thread that revokes goes on to announce it (`Pairing`). Nothing is assumed of users, of
clients, of the host process (not even that it reads), of Claude, of heartbeats, or of the hour a prompt is held.
`CardsConverge` and `EndedIsPublished` need no timeout; `QueueDrains` excuses a message behind a
lost hand-over (see `DeliveredArrives` above); `SwitchFinishes` assumes that the client stays
(else see `SwitchIsTended` above) and says that a switch under way ends, or stays in a write to a
live host with a full pipe from some moment on (`[]Blocked`). `OwnedSwitch`, `Transfer` and `HookPrompts` state safety only.

## 4. Proofs

### The pending store

`PendingStore_proofs` proves, for any sets of raisers, responders, withdrawers, sessions and ids
and any cap, from the assumption `StoreAssumption` alone (the calls are distinct, the channels'
ids are not uuids, the cap is positive):

- `TypeCorrect`: `Spec => []TypeOK`. `TypeOK` is not inductive: a guard that drops looks up an id
  and a caller that names its device looks up an item, so `TypeInv` adds `Begun`, which says that
  calls under way have one.
- `ItemsKeptCorrect`: no registration takes the place of a request somebody waits behind.
  `KeptInv` adds that a uuid is nobody else's id (`UuidsOwn`) and that an item is open only once
  registered.
- `AnswerStandsCorrect`: a caller told ok is the one whose answer the request took, had the right,
  and named its session. Session check and resolution are two critical sections; the argument is
  that between them an id can pass to another session's item only if it fell out of memory.
  `MemoryInv` says that a settled item's id is remembered or forgotten, `AnswerInv` what a caller
  between the two sections may rely on.
- `LateAnswerIsConflictCorrect`: a late answer is a conflict as long as the id is remembered.
- `PublishedOnceCorrect`: of all the calls that race to end a request one publishes it.
  `RecordsTrue` says that a record, in memory or published, says how its item was settled;
  `Naming` and `NameFilled` that a name is filled in before the call publishes; `OnePublisher`
  that a call with an id to publish removed its item, and that nobody else has published it or
  has it to publish, unless the id was forgotten.
- `ImplementsCorrect`: `Spec => Implements`, the refinement of `DecisionOnce`. An id that was
  forgotten may be used again and published twice, so this rests on `RecordsTrue`, which has no
  exception for such ids: whatever frame comes first or last, it tells the item's outcome
  (`ToldAsSettled`). `RefineSteps` says that a step opens one request, settles one, announces one,
  or does none of these.

The lemma `FinishKeeps` (what the bounded memory keeps) carries the sequence reasoning; each step
lemma has one case per action. TLC checked the same invariants first, on the instance of run
`PendingStore`; all six properties of that run are proved.

`NoSilentCardCorrect` is about the cards on top of it: a raiser that waits has had its card sent.
`CardInv` is its inductive form and follows a request from its registration to its frame: an id
that counts as announced is that of an item whose frame was sent or is in the list of a sync that
is about to send it (`Shown`, `Sent`); such a sync is not dropped, and when it sends, the frame is
there (`OwnSync`, `SentStays`); and the raiser that
publishes its own card has the item in its list once it has listed (`Carried`), however many other
calls announce it first or forget ids in between (a sync forgets every id the store did not hold
when it counted, which may be before this item was registered). It needs the store's invariants
(`StoreInv`): an id that is open has one item, so a frame for the id is a frame for the item.
`CardInv` excuses forgotten ids and so holds for any cap; that none is forgotten follows from
`NothingForgotten` by counting (`FinishedInv`: the remembered ids are different ones, each of a
request).

### The relay

`HookHub_proofs` proves, for any messages, listeners, caps, turns and processes, from
`HubAssumption` alone, `TypeCorrect`, `HandedInOrderCorrect`, `BypassTakesPrivilegedCorrect` and
`NothingOutlivesCorrect`: all safety properties of the runs `HookHub` and `HookWake`. `Filed` is the
inductive form of `HandedInOrder`: what was handed over and what is queued are the delivered and the
queued messages, both in order, everything handed over is older than everything queued, and the
messages still to come are younger than all. Each thing the machine does to a queue is a lemma
about `Filed`: `Prunes`, `Hands` (the first of the queue go behind what was handed over), `Comes`
(a new message goes behind), `EndsKeeps`, and `TryReleaseKeeps`, where a claim that finds its
listener gone is undone and leaves the pruned queue as it was. `Later` says that only a new or
queued message changes its status, which keeps the answer of a cancel true. `OnlyIs` says what is
picked from an ordered queue: the messages asked for, in their order; it is an induction over the
queue's length, done as a least counterexample (`UpTo`). `NothingOutlives` is inductive beside
these: a session that ended has nothing a prune, an escape or a poll could bring back, and whatever
revives it clears `ended` first. TLC checked `Filed` and `AckInv` first, on the instance of run
`HookHub`.

### The event log

`EventLog_proofs` proves, for any caps, sizes of events, number of appends and streams,
`NoGapCorrect` and `TypeCorrect`. `LogInv` says that the log is the newest events, numbered
without a hole and within its caps, `NoticeInv` that every append and the close notify once, and
`StreamInv` that a stream that started has sent exactly what lies between its first cursor and its
present one, which is not ahead of the log. `NoGap` is about the events the log still has, so it is
not inductive for a stream that was told of an expiry; the invariant says instead that such a
stream lacks more events than the log retains, which every append keeps. `RetainedIsTail` shows
that evicting from the front keeps the end of the log (it needs that a set of numbers has a least
one), `AfterIsTail` that the filter of `read` finds all events past a cursor in the window,
`RunsJoin` that what a look sends continues what was sent.

### Bridge turns

`BridgeTurns_proofs` proves, for any number of turns, steers, interrupts, switches and hosts,
`TypeCorrect`, `OneTerminalCorrect`, `SwitchExcludesTurnsCorrect`, `HostDeathEndsOpsCorrect`,
`NewHostUnharmedCorrect` and `ReopenedStaysCorrect` (the last two are action properties): all safety
properties of the runs `BridgeTurns` and `BridgeSwitch`. `ToldOnce` says where an operation stands: not
finished, finished and one party has to append the frame, told and that party has to close the
log, or closed. `OnInstalled` says that an operation that runs was started on the installed host,
which holds because whoever takes a host down fails every operation in the registry under the
same lock; `Unborn`, that an operation that is being created has no host yet. `HostsInv` says that
hosts are numbered in the order of their starts (so a new one has a number of its own), that a
process that runs counts as alive, and that a reader that is through left a dead host that is not
installed. `SwitchExcludesTurns` is inductive as it stands: a turn registers before it looks for a
switch, and a switch is under way before it looks for turns. `Moves` is the lemma for a caller that
goes from one step to the next, `FinishedOnce` and `RetireTakesDown` those for the end of operations.

The types need to know who can send what: `WInv` says which calls and frames are on their way to
and from a host (`Requests`, `Fits`), that a host that does not run has nothing to read (`Empty`),
and that a caller waits for a host that was started, and is told of its end only then (`Aimed`).
`ReopenedStays` holds by the order of a switch's two calls, which cross the turns' calls, the
frames of the stream and the end of the host: `Orderly` follows the conversation of the only switch
so far (`First`). Until that switch opens it, only the host it was on had it open (`Before`); from
then on the old stream is over and nobody is about to close one (`After`). In between the switch
asks once for the close (`Once`), an answer to it or a frame about the stream says that the host
took it (`Reported`), and nothing else of the switch is on its way (`Uncalled`). `BesideKeeps` is
the lemma for the steps of all others, `GoesOn` that for the switch's own, and each step that ends
a stream has its own (`ClosesOrders`, `EndsOrders`, `DiesOrders`). TLC checked `Orderly` first, with
a second switch present as well.

### Pairing

`Pairing_proofs` proves, for any phones, any number of codes, devices, tokens and restarts and any
caps, `OneTokenPerCodeCorrect`, `ContestedNeverPairsCorrect` and `RevokedStaysCorrect` (an action
property). One token per code is not inductive: between the mark and the mint a phone carries the
right to a token, and a waiting request carries another. `CodeInv` says that a code nobody took
has made nothing and no request (`Free`), that a phone between code and token holds a taken code
that made nothing and has no request (`MintsFirst`), that no two such phones hold one code
(`Alone`), that a waiting or contested request has made nothing (`Waits`), and that a code made
one token at most (`Once`). `FileInv` says that every recorded device has a token, so that a fresh
id meets no record, and that the file equals the registry unless its last write failed: that is
what a restart reads. `CodeKept`, `CodeTaken` and `TokenMade` are the three ways in which a step
touches a code; every action cites one of them.

### Owned sessions

`OwnedSwitch_proofs` proves, for any messages and any number of processes, switches, continues and
failures, `OneWriterCorrect`, `CancelledStaysCorrect`, `ReopenedOrGoneCorrect` (a session
refuses messages only while it is being switched or ended) and `GivenOnceCorrect`. `Alone` says that a running child that
was registered is the registered one, for as long as it runs: the reaper takes a handle out only
after its child ended. `Fresh` says that a child between its start and the registry belongs to one
starter and is not told to end, and that a registered process is alive or has ended. `Held` says
that a switch in the steps that touch the session is the one of the registry, is under way, and was
not cancelled: so two switches never hold the session together. `ClosedIsHeld` says that a closed
process not told to end is held by a switch whose next steps end it or open the session again.

`GivenOnce` speaks of a step, so it needs to know where a message can come from. `At` gives the
places of a message: with its sender, with the call that hands it on, in the input of a process,
held by a switch, in the conversation. `PlaceInv` says that it is in one of them at most, and that
inputs and what a switch holds name no message twice (`Placed`). Most steps leave every message
where it is or lose it (`Rests`, `StaysPut`); the four that move one have a lemma each
(`WriteLinePlaces`, `TakesInputPlaces`, `TakeBackPlaces`, `HandPlaces`, and `OneMoves` they share;
`Settle` and `Handed` change who speaks of it and not where it is). A message that is begun was in
an input, so it is not yet in the conversation. That a switch may count as its own what Claude Code
gave back and nothing else is what the proof needs of `cancel_queued`.

`RunsAtHomeCorrect` rests on `late \/ HomeInv`; once a continue came too late nothing more is said.
`HomeInv` says that the registered process runs where the transcript is (`RegHome`), that so does
what a switch would go back to or start (`FromHome`, `RunHome`), and that a pending continue that
was not overtaken found the session where the transcript still is, and no switch that closes it
(`ContHome`). The transcript's place changes only in a step of a switch that has a process to
stop, or to go back from, and no continue survives such a step without having been overtaken:
the process the switch stopped was itself registered while the continue was pending
(`OnlyStarter`). So a child that enters the registry is at home or is late (`EnterAccts`,
`StepHomes`), and an overtaken continue that registers either finds a process there and is told to
end, or sets `late`, or is at home.

### Transfer

`Transfer_proofs` proves, for any number of files, lines written, failures and deaths of the app,
`TypeCorrect` and all four properties of the run: `NeverLostCorrect`, `FailedIsCleanCorrect`,
`UndoneIsBackCorrect` and `UndoAcceptedCorrect`. `Control` says which step belongs to which kind of job,
`Saved` where `manifest.json` says what the manifest in memory says, and that a file not yet
verified is not in it. `UndoDir` says what the undo directory holds: nothing the manifest does not
name, nothing of a copy, and nothing at all once a failed run or an undo removes what the job made.
`Safe` is what is said of the lines of one file: they are in one of the three places; what a move
stashed is in the target and what "continue on" replaced is in the source; the stamp of a copied
file is in its copy until the originals go; what the job created is backed by the source or by what
it moved from there (`Backed`), and stands in the target unchanged or is gone. All of it is said of
the lines that were not `missed`. So removing the
job's copies loses nothing, and so does removing the undo directory after seven days. `Safe` is
claimed unless the loss is one that `NeverLost` leaves out (`Void`), which no step takes back
(`VoidStays`); a run that gives up without writing its manifest is such a case exactly when the
manifest has something the file has not (`GivingUp`).

The other three rest on `FInv`, which adds where each file is while a job or an undo is under way.
`SrcKept` says that a file of the plan is in the source or in the undo directory, `Target` that
what was in the target is still there unless "continue on" put it aside, and that what the job made
is not taken for what it found (`Apart`); `Entries` does the same for the two entries of
`projects`. `TornEnds` says that a run cut short has ended, `Numbered` that a line that is written
is a new one, so that a file that was written to is no longer the one the job recorded. `Ready`
says that in a job nobody writes to every file passes the checks of an undo, as the manifest in
memory says and as the one on disk says (`Fit`, `OnDisk`), which is what a second undo reads after
a death in the first.

### Permission prompts

`HookPrompts_proofs` proves, for any calls, agents and inputs and any number of turns, all four
properties of the run: `OnlyOverCorrect`, `EndedIsWithdrawnCorrect`, `EdgeIsKeptCorrect` and
`InterruptIsMetCorrect`, from `PromptsAssumption` alone (`NoCall` is no call and no agent, and every
call has its agents and inputs). `Core` is what all four rest on: where a call can be by who made it
and what the main thread does (`CallInv`), where a request and its card can be (`ReqInv`), and that
what the machine takes for finished is over (`FinInv`). `Onward` is what no step undoes, so that a
condemned card stays so and a mistake about a call is there to stay (`MistakenStays`). Given these,
`OnlyOver` and `EndedIsWithdrawn` are inductive: each event that condemns a card finds its call gone
(`CondemnedByEvent`, `CondemnedByWatch`, `CondemnedByRequest`), and the end of a call either dooms
its card or comes before `hold`, which looks again (`EndIsMet`, `EndIsKnown`). `InterruptIsMet`
follows from `FiredInv` (a held prompt of the main thread is answered while the flag is up) and
`AnsweredInv` (a dialog that is still open after its hook was answered had a card that expired, or
was taken for another; here `OnlyOver` is needed again). `EdgeInv` follows a held prompt from the
tick that saw a dialog open to the one that withdraws it: the stamp of the pidfile keeps it while
`seen` is up, the recorded edge after that, and a look that finds another dialog open starts anew.
TLC checked `Core`, `FiredInv`, `AnsweredInv` and `EdgeInv` first, on the instance of the run.
`TypeOK` is not proved: the provers know nothing of what `SelectSeq` leaves of `pre`, and no
property needs it.

### What is not proved

Every invariant and every action property that a run checks is proved. The `TypeOK` of `OwnedSwitch` and that of `HookPrompts` are not: both
hold a queue that `SelectSeq` shortens, of which the provers know nothing, and no property needs
them. Out of the prover's reach and left to TLC for good: liveness and statements with `ENABLED`.
No module here declares a recursive operator, and `Only` is the one recursive function; what it
picks is proved for every queue as said above.

## 5. Plan

Done: pending store, cards, relay and wake, permission prompts, event log, operations with host and switch, owned
sessions with their switch, pairing and devices, transfer, delete and undo, and the theorems of
section 4. Next, most important first:

1. `HookPrompts` composed with `HookHub` (one interrupt flag and one turn) and with `PendingStore`.
2. Push batching against settled cards (`server/push/engine.rs`), on top of `PendingCards`.
3. `Backup`: cancellation, a restore that rolls back, and a passphrase change with a crash between
   any two steps.
4. The switch of a session nobody runs (`switch_ended`), with `Transfer`'s job and `OwnedSwitch`'s
   registry; forks and the user's taking back of a message.
5. The request list of the bridge host; eviction of operations.

Theorems left: the `TypeOK` of `HookPrompts` and of `OwnedSwitch`.

### Not modelled

What is left is of three kinds. Formats and rendering: payloads, the stream-json protocol, the
virtual terminal, transcripts, usage texts, the web client. Wrappers around other programs: ps,
lsof, git, tmux, keychain, tunnels, sockets and certificates, build scripts. Request checks that
read a token and answer at once. Nothing of it keeps state that two tasks race for, apart from
what the plan lists. Restarts are modelled where something is persisted (`Pairing`, `Transfer`);
the other state is in memory and a restart empties it.

## 6. Running

    tlc -workers 2 -config PendingStore.cfg MCPendingStore.tla
    tlapm PendingStore_proofs.tla
    tlapm EventLog_proofs.tla
    tlapm BridgeTurns_proofs.tla
    tlapm Pairing_proofs.tla
    tlapm OwnedSwitch_proofs.tla
    tlapm Transfer_proofs.tla
    tlapm HookPrompts_proofs.tla
    tlapm HookHub_proofs.tla

The other runs are named in `PROJECT.json`; each `.cfg` says in its first lines what its instance
is. The longest takes about two minutes.
