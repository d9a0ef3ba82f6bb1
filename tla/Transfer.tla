------------------------------ MODULE Transfer ------------------------------
(***************************************************************************)
(* Moving or copying one session between the directories of two accounts,  *)
(* deleting one, and the undo of it (claude/transfer.rs, transfer/ops.rs,  *)
(* transfer/delete.rs).                                                    *)
(*                                                                         *)
(* The content of a file is the set of lines in it: line 0 was there from  *)
(* the start, every later line has a number of its own.  A copy holds the  *)
(* first lines of its source exactly when it is a subset of it.  One step  *)
(* is one operation on one file; any of them may fail, the app may die     *)
(* between any two, and Claude Code goes on running sessions meanwhile.    *)
(* A file is placed, and put back, by one rename (the undo directory is on *)
(* the volume of the Claude directories).                                  *)
(*                                                                         *)
(* The files of the session are numbered in the order of the plan; file 1  *)
(* is its transcript.  The project's entry of .claude.json stands for all  *)
(* shared-file changes; customizations and directories are left out.       *)
(***************************************************************************)
EXTENDS Naturals, FiniteSets

CONSTANTS
    NFiles,    \* files of the session
    MaxWrites, \* lines Claude Code writes in one behaviour (bound)
    MaxFail,   \* operations that fail (bound)
    MaxCrash   \* deaths of the app (bound)

ASSUME TransferAssumption ==
    /\ NFiles \in Nat \ {0}
    /\ {MaxWrites, MaxFail, MaxCrash} \subseteq Nat

VARIABLES
    src, dst,  \* the session's files in the two directories
    undo,      \* undo/<job>/moved: what the job moved there
    conf,      \* which .claude.json holds the project's entry
    plan,      \* the plan of the job
    man,       \* the manifest in memory
    disk,      \* manifest.json in the undo directory
    stamp,     \* what each source file was right after its copy verified
    pc, k,     \* the step of the job (or of its undo), and the file it is at
    job,       \* how the job stands
    undoing,   \* the step belongs to an undo
    live,      \* the directory in which Claude Code runs the session
    wrote,     \* history: the lines written to each file
    missed,    \* history: the lines written where the job no longer looked
    found,     \* history: the files in the target that are not the job's
    stray,     \* history: copies left in the target unverified
    torn,      \* history: manifest.json missed something the job had done
    quiet,     \* history: nobody wrote since the job, or its undo, began
    writes, fails, crashes

work    == <<undo, conf, plan, man, disk, stamp, pc, k, job, undoing>>
history == <<wrote, missed, found, stray, torn, quiet>>
bounds  == <<writes, fails, crashes>>
vars == <<src, dst, live, work, history, bounds>>

Files      == 1..NFiles
Transcript == 1
None       == {MaxWrites + 1}  \* no such file
Lines      == 0..MaxWrites
Contents   == (SUBSET Lines) \cup {None}
Modes      == {"move", "copy", "continue", "delete"}

Empty == [created |-> [f \in Files |-> None], moved |-> {},
          added |-> FALSE, removed |-> FALSE, undone |-> FALSE]
NoManifest == [Empty EXCEPT !.undone = TRUE]
Manifests == [created : [Files -> Contents], moved : SUBSET Files,
              added : BOOLEAN, removed : BOOLEAN, undone : BOOLEAN]

Steps == {"idle", "recheck", "copy", "place", "verify", "stamp",
          "again", "saveCopied", "entry", "saveEntry", "check", "stash", "saveMoved",
          "drop", "saveDropped", "finish", "restore", "restoreEntry",
          "rollback", "close", "list", "saveListed", "take",
          "lookAgain", "putBack", "saveSkipped", "saveTaken", "saveGone",
          "purge", "purgeDir"}

TypeOK ==
    /\ {src, dst, undo, stamp} \subseteq [Files -> Contents]
    /\ conf \in [from : BOOLEAN, to : BOOLEAN]
    /\ plan \in [mode : Modes, entry : BOOLEAN, keep : BOOLEAN,
                files : SUBSET Files]
    /\ {man, disk} \subseteq Manifests
    /\ pc \in Steps
    /\ k \in 1..(NFiles + 1)
    /\ job \in {"none", "running", "done", "failed", "incomplete", "crashed",
                "undone"}
    /\ undoing \in BOOLEAN
    /\ live \in {"no", "src", "dst"}
    /\ wrote \in [Files -> SUBSET Lines]
    /\ missed \subseteq Lines
    /\ {found, stray} \subseteq SUBSET Files
    /\ torn \in BOOLEAN
    /\ quiet \in BOOLEAN

Present(dir) == {f \in Files : dir[f] # None}

\* The session may have a side file or not, and the target may hold the copy
\* of an earlier "continue on".
Init ==
    /\ \E S \in {s \in SUBSET Files : Transcript \in s}, early \in BOOLEAN :
         /\ src = [f \in Files |-> IF f \in S THEN {0} ELSE None]
         /\ dst = [f \in Files |-> IF early /\ f \in S THEN {0} ELSE None]
         /\ wrote = [f \in Files |-> IF f \in S THEN {0} ELSE {}]
    /\ found = {} /\ stray = {}
    /\ undo = [f \in Files |-> None]
    /\ stamp = undo
    /\ conf = [from |-> TRUE, to |-> FALSE]
    /\ plan = [mode |-> "copy", entry |-> FALSE, keep |-> TRUE, files |-> {}]
    /\ man = Empty /\ disk = NoManifest
    /\ pc = "idle" /\ k = 1
    /\ job = "none"
    /\ undoing = FALSE
    /\ live = "no"
    /\ missed = {} /\ torn = FALSE /\ quiet = FALSE
    /\ writes = 0 /\ fails = 0 /\ crashes = 0

----------------------------------------------------------------------------
(* Claude Code                                                             *)

Resume(d) ==
    /\ live = "no"
    /\ (IF d = "src" THEN src ELSE dst)[Transcript] # None
    /\ live' = d
    /\ UNCHANGED <<src, dst, work, history, bounds>>

Exit ==
    /\ live # "no"
    /\ live' = "no"
    /\ UNCHANGED <<src, dst, work, history, bounds>>

\* Where a write is no longer noticed.  In the source: between the last look
\* of the verification and the stamp, and once the check before the move is
\* done; a delete that meets the session running again puts the files it took
\* back over what was written anew in their places.  In the target: a copy is
\* renamed over what appeared there while it was made, what a failed run made
\* is removed as it stands, and an undo looks once, before it begins.
Unseen(d, f) ==
    \/ d = "src" /\ pc = "stamp" /\ k = f
    \/ d = "src" /\ pc = "stash" /\ k <= f
    \/ d = "src" /\ pc \in {"take", "lookAgain", "putBack"} /\ undo[f] # None
    \/ d = "dst" /\ pc \notin {"idle", "recheck"}
    \/ pc \in {"restore", "restoreEntry", "rollback", "close"}

Add(c, n) == IF c = None THEN {n} ELSE c \cup {n}

Write(f) ==
    /\ live # "no"
    /\ writes < MaxWrites
    /\ writes' = writes + 1
    /\ wrote' = [wrote EXCEPT ![f] = @ \cup {writes + 1}]
    /\ IF live = "src"
       THEN src' = [src EXCEPT ![f] = Add(@, writes + 1)] /\ dst' = dst
       ELSE dst' = [dst EXCEPT ![f] = Add(@, writes + 1)] /\ src' = src
    /\ missed' = IF Unseen(live, f) THEN missed \cup {writes + 1} ELSE missed
    /\ found' = IF live = "dst" THEN found \cup {f} ELSE found
    /\ quiet' = FALSE
    /\ UNCHANGED <<live, work, stray, torn, fails, crashes>>

----------------------------------------------------------------------------
(* The job                                                                 *)

\* A copy of an earlier snapshot is the start of its source still.
Behind(f) == dst[f] # None /\ dst[f] \subseteq src[f] /\ dst[f] # src[f]

\* What plan and recheck ask: no process, and no such session in the target
\* (for "continue on": none there, or a copy that is behind).
Startable(mode) ==
    /\ src[Transcript] # None
    /\ mode # "continue" => live = "no"
    /\ mode \in {"move", "copy"} => dst[Transcript] = None

\* Only a delete may keep no copy for an undo.
Start(mode, entry, keep) ==
    /\ job = "none" /\ pc = "idle"
    /\ Startable(mode)
    /\ entry => mode \in {"move", "copy"}
    /\ keep \/ mode = "delete"
    /\ mode = "continue" => dst[Transcript] = None \/ Behind(Transcript)
    /\ plan' = [mode |-> mode, entry |-> entry, keep |-> keep,
                files |-> Present(src)]
    /\ pc' = "recheck"
    /\ UNCHANGED <<src, dst, live, undo, conf, man, disk, stamp, k, job,
                   undoing, history, bounds>>

Refuse ==
    /\ pc = "recheck"
    /\ plan.mode # "delete" /\ ~Startable(plan.mode)
    /\ pc' = "idle"
    /\ UNCHANGED <<src, dst, live, undo, conf, plan, man, disk, stamp, k, job,
                   undoing, history, bounds>>

\* The checks hold still (a delete looks later): the undo directory gets an
\* empty manifest.
Begin ==
    /\ pc = "recheck"
    /\ plan.mode = "delete" \/ Startable(plan.mode)
    /\ job' = "running"
    /\ man' = Empty /\ disk' = Empty
    /\ pc' = IF plan.mode = "delete" THEN "list" ELSE "copy"
    /\ k' = 1
    /\ found' = Present(dst)
    /\ quiet' = TRUE
    /\ UNCHANGED <<src, dst, live, undo, conf, plan, stamp, undoing, wrote,
                   missed, stray, torn, bounds>>

\* MUTANT: a failed run removes its copies and puts nothing back.
FailRollingBack == pc' = "rollback"

\* A run that fails puts the source back and removes what it made.
Fail == pc' = "restore"

At(step) == /\ pc = step
            /\ k \in plan.files
NextFile == /\ k' = k + 1
            /\ pc' = "copy"
rest == <<conf, plan, disk, undoing, job, live, history, bounds>>

AtEnd == [copy |-> "saveCopied", stash |-> "saveMoved", take |-> "lookAgain"]

\* A file the plan does not list, or the end of the list.
SkipFile ==
    /\ pc \in DOMAIN AtEnd
    /\ k \notin plan.files
    /\ IF k > NFiles
       THEN k' = 1 /\ pc' = AtEnd[pc]
       ELSE k' = k + 1 /\ pc' = pc
    /\ UNCHANGED <<src, dst, undo, man, stamp, rest>>

\* Where the target has the file already.  For "continue on" a copy that is
\* behind goes to the undo directory, one that changed stays.
Meet ==
    /\ At("copy")
    /\ dst[k] # None
    /\ \/ /\ plan.mode = "continue" /\ Behind(k)
          /\ undo' = [undo EXCEPT ![k] = dst[k]]
          /\ dst' = [dst EXCEPT ![k] = None]
          /\ man' = [man EXCEPT !.moved = @ \cup {k}]
          /\ pc' = "again" /\ k' = k
       \/ /\ plan.mode = "continue" /\ ~Behind(k)
          /\ dst[k] = src[k] \/ k # Transcript
          /\ NextFile
          /\ UNCHANGED <<dst, undo, man>>
       \/ /\ plan.mode # "continue" \/ (dst[k] \notin SUBSET src[k] /\ k = Transcript)
          /\ Fail
          /\ UNCHANGED <<dst, undo, man, k>>
    /\ UNCHANGED <<src, stamp, rest>>

\* copy_file looks whether its place is free, also where a copy that was behind
\* made room just now.
LookBeforeCopy ==
    /\ At("copy") \/ At("again")
    /\ \/ dst[k] = None /\ pc' = "place"
       \/ pc = "again" /\ dst[k] # None /\ Fail
    /\ UNCHANGED <<src, dst, undo, man, stamp, k, rest>>

\* The copy is made under a temporary name, and renamed into its place.
Place ==
    /\ At("place")
    /\ dst' = [dst EXCEPT ![k] = src[k]]
    /\ pc' = "verify"
    /\ UNCHANGED <<src, undo, man, stamp, k, rest>>

Matches(f) == IF plan.mode = "continue" THEN dst[f] \subseteq src[f]
                                        ELSE dst[f] = src[f]

Verify ==
    /\ At("verify")
    /\ IF Matches(k)
       THEN /\ man' = [man EXCEPT !.created[k] = dst[k]]
            /\ pc' = "stamp" /\ dst' = dst
       ELSE /\ dst' = [dst EXCEPT ![k] = None]
            /\ Fail /\ man' = man
    /\ UNCHANGED <<src, undo, stamp, k, rest>>

\* The size and time of the source, read once more after the verification.
Stamp ==
    /\ At("stamp")
    /\ stamp' = [stamp EXCEPT ![k] = src[k]]
    /\ NextFile
    /\ UNCHANGED <<src, dst, undo, man, rest>>

After == [saveCopied |-> "entry", saveEntry |-> "check",
          saveMoved |-> "drop", saveDropped |-> "finish",
          saveListed |-> "take", saveSkipped |-> "close",
          saveTaken |-> "finish", saveGone |-> "purge"]

Save ==
    /\ pc \in DOMAIN After
    /\ disk' = man
    /\ pc' = After[pc]
    /\ UNCHANGED <<src, dst, undo, conf, plan, man, stamp, k, job, undoing,
                   live, history, bounds>>

\* The target's .claude.json gets the entry, unless it has one.
AddEntry ==
    /\ pc = "entry"
    /\ IF plan.entry /\ ~conf.to
       THEN /\ conf' = [conf EXCEPT !.to = TRUE]
            /\ man' = [man EXCEPT !.added = TRUE]
            /\ pc' = "saveEntry"
       ELSE pc' = "check" /\ UNCHANGED <<conf, man>>
    /\ UNCHANGED <<src, dst, undo, plan, disk, stamp, k, job, undoing, live,
                   history, bounds>>

\* The source of a move goes only while nothing runs the session, every file
\* is still what was copied, and its directories hold no other (a new file may
\* lie in one the session did not have when the plan was made).
Unchanged == \A f \in plan.files : src[f] = stamp[f]
NewFiles  == Present(src) \ plan.files # {}

\* MUTANT: the files are not compared before the originals go.
CheckForSessions ==
    /\ pc = "check"
    /\ \/ plan.mode # "move" /\ pc' = "finish"
       \/ plan.mode = "move" /\ live = "no" /\ pc' = "stash"
       \/ plan.mode = "move" /\ (live # "no" \/ NewFiles) /\ Fail
    /\ UNCHANGED <<src, dst, undo, man, stamp, k, rest>>

Check ==
    /\ pc = "check"
    /\ \/ plan.mode # "move" /\ pc' = "finish"
       \/ plan.mode = "move" /\ live = "no" /\ Unchanged /\ pc' = "stash"
       \/ /\ plan.mode = "move"
          /\ live # "no" \/ ~Unchanged \/ NewFiles
          /\ Fail
    /\ UNCHANGED <<src, dst, undo, man, stamp, k, rest>>

Stash ==
    /\ At("stash") \/ At("take")
    /\ undo' = [undo EXCEPT ![k] = src[k]]
    /\ src' = [src EXCEPT ![k] = None]
    /\ man' = [man EXCEPT !.moved = @ \cup {k}]
    /\ k' = k + 1
    /\ UNCHANGED <<dst, stamp, pc, rest>>

\* A project that takes its trust along leaves no entry behind.
DropEntry ==
    /\ pc = "drop"
    /\ IF plan.entry /\ conf.from
       THEN /\ conf' = [conf EXCEPT !.from = FALSE]
            /\ man' = [man EXCEPT !.removed = TRUE]
       ELSE UNCHANGED <<conf, man>>
    /\ pc' = "saveDropped"
    /\ UNCHANGED <<src, dst, undo, plan, disk, stamp, k, job, undoing, live,
                   history, bounds>>

----------------------------------------------------------------------------
(* A delete: a move with no target.  Its manifest lists the files before   *)
(* they go.  One that is skipped ends as a failed run does, without a      *)
(* trace.                                                                  *)

\* The session is looked at again right before it goes.
List ==
    /\ pc = "list"
    /\ IF live = "no" /\ src[Transcript] # None
       THEN /\ plan' = [plan EXCEPT !.files = Present(src)]
            /\ man' = [man EXCEPT !.moved = Present(src)]
            /\ pc' = "saveListed"
       ELSE /\ pc' = "close"
            /\ UNCHANGED <<plan, man>>
    /\ UNCHANGED <<src, dst, undo, conf, disk, stamp, k, job, undoing, live,
                   history, bounds>>

\* One that started meanwhile may have opened a file before it moved.
LookAgain ==
    /\ pc = "lookAgain"
    /\ pc' = IF live # "no" THEN "putBack"
             ELSE IF plan.keep THEN "saveTaken" ELSE "saveGone"
    /\ UNCHANGED <<src, dst, undo, man, stamp, k, rest>>

\* All of it goes back, last first, whatever stands in its place by now.
LastMoved(f) == undo[f] # None /\ \A g \in Files : undo[g] # None => g <= f

PutBack(f) ==
    /\ pc = "putBack"
    /\ LastMoved(f)
    /\ src' = [src EXCEPT ![f] = undo[f]]
    /\ undo' = [undo EXCEPT ![f] = None]
    /\ UNCHANGED <<dst, man, stamp, pc, k, rest>>

AllBack ==
    /\ pc = "putBack"
    /\ \A f \in Files : undo[f] = None
    /\ man' = [man EXCEPT !.moved = {}]
    /\ pc' = "saveSkipped"
    /\ UNCHANGED <<src, dst, undo, stamp, k, rest>>

\* Gone for good: the manifest first, so that no undo is offered for what is
\* being removed.
Purge ==
    /\ pc = "purge"
    /\ disk' = NoManifest
    /\ pc' = "purgeDir"
    /\ UNCHANGED <<src, dst, undo, conf, plan, man, stamp, k, job, undoing,
                   live, history, bounds>>

PurgeDir ==
    /\ pc = "purgeDir"
    /\ undo' = [f \in Files |-> None]
    /\ pc' = "finish"
    /\ UNCHANGED <<src, dst, man, stamp, k, rest>>

Finish ==
    /\ pc = "finish"
    /\ pc' = "idle" /\ k' = 1
    /\ job' = "done"
    /\ UNCHANGED <<src, dst, undo, conf, plan, man, disk, stamp, undoing,
                   live, history, bounds>>

----------------------------------------------------------------------------
(* restore_source and rollback, for a failed run and for an undo           *)

Home(f) == IF plan.mode = "continue" THEN dst[f] ELSE src[f]

\* The job's own file stands in the place of one it moved, as it made it.
Mine(m, f) == plan.mode = "continue" /\ m.created[f] # None

\* A moved file cannot go back: its place is taken, or its copy is gone.
Taken(f) == /\ undo[f] # None
            /\ Home(f) # None
            /\ ~(Mine(man, f) /\ dst[f] = man.created[f])
Missing(m, f) == undo[f] = None /\ Home(f) = None

Restore(f) ==
    /\ pc = "restore"
    /\ f \in man.moved
    /\ undo[f] # None /\ ~Taken(f)
    /\ \A g \in man.moved : g < f => undo[g] = None /\ ~Missing(man, g)
    /\ undo' = [undo EXCEPT ![f] = None]
    /\ IF plan.mode = "continue"
       THEN dst' = [dst EXCEPT ![f] = undo[f]] /\ src' = src
       ELSE src' = [src EXCEPT ![f] = undo[f]] /\ dst' = dst
    /\ UNCHANGED <<man, stamp, pc, k, rest>>

Restored ==
    /\ pc = "restore"
    /\ \A f \in man.moved : undo[f] = None /\ ~Missing(man, f)
    /\ pc' = "restoreEntry"
    /\ UNCHANGED <<src, dst, undo, man, stamp, k, rest>>

\* MUTANT: the project's entry is not put back.
RestoreFilesOnly ==
    /\ pc = "restoreEntry"
    /\ pc' = "rollback"
    /\ UNCHANGED <<src, dst, undo, man, stamp, k, rest>>

RestoreEntry ==
    /\ pc = "restoreEntry"
    /\ conf' = IF man.removed THEN [conf EXCEPT !.from = TRUE] ELSE conf
    /\ pc' = "rollback"
    /\ UNCHANGED <<src, dst, undo, plan, man, disk, stamp, k, job, undoing,
                   live, history, bounds>>

\* What the job created, except where a moved file stands again.
Leftover == {f \in Files : /\ man.created[f] # None /\ dst[f] # None
                           /\ ~(plan.mode = "continue" /\ f \in man.moved)}

Rollback(f) ==
    /\ pc = "rollback"
    /\ f \in Leftover
    /\ \A g \in Leftover : f <= g
    /\ dst' = [dst EXCEPT ![f] = None]
    /\ UNCHANGED <<src, undo, man, stamp, pc, k, rest>>

RollbackEntry ==
    /\ pc = "rollback"
    /\ Leftover = {}
    /\ conf' = IF man.added THEN [conf EXCEPT !.to = FALSE] ELSE conf
    /\ pc' = "close"
    /\ UNCHANGED <<src, dst, undo, plan, man, disk, stamp, k, job, undoing,
                   live, history, bounds>>

\* A failed run removes its undo directory; an undo notes that it is done.
Close ==
    /\ pc = "close"
    /\ IF undoing
       THEN /\ disk' = [man EXCEPT !.undone = TRUE]
            /\ job' = "undone" /\ undo' = undo
       ELSE /\ disk' = NoManifest
            /\ job' = "failed" /\ undo' = [f \in Files |-> None]
    /\ pc' = "idle" /\ k' = 1 /\ undoing' = FALSE
    /\ UNCHANGED <<src, dst, live, conf, plan, man, stamp, wrote, missed,
                   found, stray, torn, quiet, bounds>>

\* Neither can be finished: a failed run keeps its undo directory and writes
\* the manifest if it can; an undo can be asked for again.
GivesUp ==
    /\ pc' = "idle" /\ k' = 1 /\ undoing' = FALSE
    /\ IF undoing
       THEN UNCHANGED <<disk, job, torn>>
       ELSE /\ job' = "incomplete"
            /\ \/ disk' = man /\ torn' = torn
               \/ disk' = disk /\ torn' = (torn \/ man # disk)

Stuck ==
    /\ pc = "restore"
    /\ \E f \in man.moved : /\ Taken(f) \/ Missing(man, f)
                            /\ \A g \in man.moved : g < f => undo[g] = None
    /\ GivesUp
    /\ UNCHANGED <<src, dst, live, undo, conf, plan, man, stamp, wrote,
                   missed, found, stray, quiet, bounds>>

\* Where a delete goes on after a failure.
GoesOn == [saveListed |-> "close", take |-> "putBack", saveSkipped |-> "close",
           purge |-> "finish", purgeDir |-> "finish"]

\* An operation fails, or a directory whose shared file is due is in use.  A
\* copy that could not be read again is placed but not in the manifest; a failed
\* run says the same when its undo directory cannot be removed.
IoError ==
    /\ fails < MaxFail
    /\ fails' = fails + 1
    /\ \/ /\ pc \in {"copy", "again", "place", "verify", "saveCopied",
                     "entry", "saveEntry", "stash", "saveMoved", "drop", "saveDropped"}
          /\ Fail
          /\ stray' = IF pc = "verify" THEN stray \cup {k} ELSE stray
          /\ UNCHANGED <<disk, job, undoing, torn, k>>
       \/ /\ pc \in {"restore", "restoreEntry", "rollback", "putBack",
                     "saveTaken", "saveGone"}
          /\ GivesUp /\ stray' = stray
       \/ /\ pc \in DOMAIN GoesOn
          /\ pc' = GoesOn[pc]
          /\ UNCHANGED <<disk, job, undoing, stray, torn, k>>
       \/ /\ pc = "close" /\ undoing
          /\ GivesUp /\ stray' = stray
       \/ /\ pc = "close" /\ ~undoing
          /\ pc' = "idle" /\ k' = 1 /\ job' = "failed"
          /\ UNCHANGED <<disk, undoing, stray, torn>>
    /\ UNCHANGED <<src, dst, live, undo, conf, plan, man, stamp, wrote,
                   missed, found, quiet, writes, crashes>>

----------------------------------------------------------------------------
(* The undo, a crash, and the seven days                                   *)

\* MUTANT: a file put back by an earlier attempt is taken for a changed one.
NeverBack(m, f) == FALSE

\* Back already (an earlier attempt): its place holds the original again.
Back(m, f) == f \in m.moved /\ undo[f] = None /\ Mine(m, f)

Undoable(m) ==
    /\ live = "no"
    /\ \A f \in Files : m.created[f] # None /\ ~Back(m, f)
                          => dst[f] \in {None, m.created[f]}
    /\ \A f \in m.moved : /\ undo[f] = None \/ Home(f) = None \/ Mine(m, f)
                          /\ ~Missing(m, f)

Undo ==
    /\ pc = "idle"
    /\ ~disk.undone
    /\ Undoable(disk)
    /\ man' = disk
    /\ undoing' = TRUE
    /\ pc' = "restore"
    /\ quiet' = TRUE
    /\ UNCHANGED <<src, dst, live, undo, conf, plan, disk, stamp, k, job,
                   wrote, missed, found, stray, torn, bounds>>

Crash ==
    /\ pc # "idle"
    /\ crashes < MaxCrash
    /\ crashes' = crashes + 1
    /\ job' = IF job = "running" THEN "crashed" ELSE job
    /\ torn' = (torn \/ (job = "running" /\ man # disk))
    /\ stray' = IF pc = "verify" THEN stray \cup {k} ELSE stray
    /\ pc' = "idle" /\ k' = 1 /\ undoing' = FALSE /\ man' = Empty
    /\ UNCHANGED <<src, dst, live, undo, conf, plan, disk, stamp, wrote,
                   missed, found, quiet, writes, fails>>

\* Another job prunes an undo directory that is older than UNDO_KEEP.
Prune ==
    /\ pc = "idle"
    /\ job # "none"
    /\ disk # NoManifest \/ \E f \in Files : undo[f] # None
    /\ disk' = NoManifest
    /\ undo' = [f \in Files |-> None]
    /\ UNCHANGED <<src, dst, live, conf, plan, man, stamp, pc, k, job,
                   undoing, wrote, missed, found, stray, torn, quiet, bounds>>

Next ==
    \/ \E d \in {"src", "dst"} : Resume(d)
    \/ Exit
    \/ \E f \in Files : Write(f) \/ Restore(f) \/ Rollback(f) \/ PutBack(f)
    \/ \E mode \in Modes, entry, keep \in BOOLEAN : Start(mode, entry, keep)
    \/ Refuse \/ Begin \/ SkipFile \/ Meet \/ LookBeforeCopy \/ Place \/ Verify \/ Stamp
    \/ Save \/ AddEntry \/ Check \/ Stash \/ DropEntry \/ Finish
    \/ List \/ LookAgain \/ AllBack \/ Purge \/ PurgeDir
    \/ Restored \/ RestoreEntry \/ RollbackEntry \/ Close
    \/ Stuck \/ IoError \/ Undo \/ Crash \/ Prune

Spec == Init /\ [][Next]_vars

----------------------------------------------------------------------------
(* Properties                                                              *)

Kept(f) == UNION {c \in {src[f], dst[f], undo[f]} : c # None}

\* No line of the conversation is ever lost: whatever fails, dies or runs
\* meanwhile, it is in one of the two directories or in the undo directory
\* ("a moved file is never deleted").  Left out: lines written in the moments
\* where nobody looks (Unseen), a job other than a delete that died with
\* things done that its manifest does not name, and what was deleted for good
\* or more than seven days ago.
Discarded == /\ plan.mode = "delete" /\ disk = NoManifest
             /\ job \notin {"none", "failed", "undone"}

NeverLost ==
    \A f \in Files : \/ wrote[f] \ missed \subseteq Kept(f)
                     \/ Discarded
                     \/ torn /\ plan.mode # "delete"

\* Where a line went unseen, more than a line may be gone: the file may be.
Unwatched == {f \in Files : wrote[f] \cap missed # {}}

\* A run that failed leaves both directories and both entries as they were
\* (the failure branch of run: restore_source, then rollback).
FailedIsClean ==
    job = "failed" =>
        /\ plan.files \subseteq Present(src)
        /\ Present(dst) \ (Unwatched \cup stray) = found \ (Unwatched \cup stray)
        /\ conf = [from |-> TRUE, to |-> FALSE]

\* An undo that says it is done left every file of the session in its place,
\* nothing of the job in the target, and the entries as they were
\* (undo_with_before).  A delete lists its files before they move, so that
\* this holds also when it died half way.
UndoneIsBack ==
    job = "undone" /\ (torn => plan.mode = "delete") =>
        /\ plan.files \subseteq Present(src)
        /\ Present(dst) \ (Unwatched \cup stray) = found \ (Unwatched \cup stray)
        /\ conf = [from |-> TRUE, to |-> FALSE]

\* A job nobody wrote to since can be undone, and an undo that failed or died
\* half way can be taken up again: its checks do not trip over what the job
\* or the last attempt did ("a retry after a failure finishes what is left").
UndoAccepted ==
    quiet /\ pc = "idle" /\ ~disk.undone /\ live = "no" /\ stray = {}
        => Undoable(disk)

\* "It puts the moved files back first and only then deletes what was
\* created": also after a death between two steps of the job.
UndoPutsBack == job = "undone" => plan.files \subseteq Present(src)
=============================================================================
