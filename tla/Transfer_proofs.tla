--------------------------- MODULE Transfer_proofs ---------------------------
(***************************************************************************)
(* Proofs about the transfer, the deletion and the undo of one session     *)
(* (module Transfer), for any number of files, writes, failures and deaths *)
(* of the app.                                                             *)
(***************************************************************************)
EXTENDS Transfer, TLAPS

(* The inductive invariant.                                                *)

Typed == /\ TypeOK /\ writes \in Nat
         /\ pc \in {"again", "place", "verify", "stamp"} => k \in Files

\* The lines in a file, but for those that went unseen.
L(c, m) == IF c = None THEN {} ELSE c \ m

AllHome == \A f \in Files : undo[f] = None

Copying  == {"copy", "again", "place", "verify", "stamp", "saveCopied", "entry", "saveEntry",
             "check"}
Stashing == {"stash", "saveMoved", "drop", "saveDropped"}
Deleting == {"list", "saveListed", "take", "lookAgain", "putBack", "saveSkipped", "saveTaken",
             "saveGone", "purge", "purgeDir"}
Ending   == {"restore", "restoreEntry", "rollback"}
Idle     == {"idle", "recheck"}

\* Which step belongs to which kind of job, and how the job stands at it.
Control ==
  /\ pc \in Copying => plan.mode # "delete"
  /\ pc \in Stashing => plan.mode = "move"
  /\ pc \in Deleting => plan.mode = "delete"
  /\ job = "running" <=> pc \notin Idle /\ ~undoing
  /\ undoing => pc \in Ending \cup {"close"} /\ man = disk
  /\ pc \in Ending /\ plan.mode = "delete" => undoing
  /\ pc = "recheck" => job = "none"
  /\ job = "none" => pc \in Idle /\ ~torn /\ AllHome /\ disk = NoManifest /\ man = Empty
  /\ job = "undone" => pc = "idle" /\ disk.undone

\* Where manifest.json says what the manifest says.
Saved ==
  /\ pc \in {"entry", "check", "drop", "list", "take", "lookAgain", "putBack", "saveTaken",
             "saveGone", "purge"} => disk = man
  /\ pc = "finish" => disk \in {man, NoManifest}
  /\ pc = "purgeDir" => disk = NoManifest
  /\ plan.mode = "delete" => \A f \in Files : man.created[f] = None /\ disk.created[f] = None
  /\ pc \in {"copy", "again", "place", "verify"} =>
       \A f \in Files : f >= k => man.created[f] = None
  /\ pc = "stamp" => \A f \in Files : f > k => man.created[f] = None
  /\ pc \in {"saveListed", "take"} => plan.files \subseteq man.moved
  /\ pc \notin Idle => ~man.undone
  /\ job = "none" => \A f \in Files : stamp[f] = None
  /\ Discarded => pc \in {"purgeDir", "finish", "idle"}

Void == (torn /\ plan.mode # "delete") \/ Discarded

\* What the undo directory holds, and that the manifest names it.
UndoDir ==
  /\ pc = "copy" => \A f \in Files : f >= k => undo[f] = None
  /\ pc \in {"again", "place", "verify", "stamp"} => \A f \in Files : f > k => undo[f] = None
  /\ pc \in {"stash", "take"} => \A f \in Files : f >= k => undo[f] = None
  /\ pc \in {"list", "saveListed"} => AllHome
  /\ pc \in Copying /\ plan.mode # "continue" => AllHome
  /\ plan.mode = "copy" => AllHome
  /\ ~Void /\ pc \in {"restoreEntry", "rollback", "close", "saveSkipped"} => AllHome
  /\ ~Void /\ job \in {"failed", "undone"} => AllHome
  /\ ~Void /\ pc \notin Idle => \A f \in Files : undo[f] # None => f \in man.moved
  /\ ~Void /\ pc = "idle" /\ ~disk.undone => \A f \in Files : undo[f] # None => f \in disk.moved

\* What the job made is in the source too, or in what it moved from there.
Backed(m, f) ==
  m.created[f] # None => \/ L(m.created[f], missed) \subseteq L(src[f], missed)
                         \/ /\ plan.mode = "move" /\ undo[f] # None
                            /\ L(m.created[f], missed) \subseteq L(undo[f], missed)

Safe(f) ==
  /\ wrote[f] \ missed \subseteq L(src[f], missed) \cup L(dst[f], missed) \cup L(undo[f], missed)
  /\ pc = "place" /\ k = f => L(dst[f], missed) = {}
  /\ pc = "verify" /\ k = f => L(dst[f], missed) \subseteq L(src[f], missed)
  /\ plan.mode = "move" /\ pc \in Copying => L(stamp[f], missed) \subseteq L(dst[f], missed)
  /\ plan.mode = "move" /\ pc = "stamp" /\ k = f => L(src[f], missed) \subseteq L(dst[f], missed)
  /\ pc = "stash" /\ f \in plan.files /\ f >= k => L(src[f], missed) \subseteq L(dst[f], missed)
  /\ pc \in {"take", "lookAgain", "putBack"} /\ undo[f] # None => L(src[f], missed) = {}
  /\ plan.mode = "continue" => L(undo[f], missed) \subseteq L(src[f], missed)
  /\ plan.mode = "move" => L(undo[f], missed) \subseteq L(dst[f], missed)
  /\ pc \notin Idle => Backed(man, f)
  /\ pc = "idle" /\ ~disk.undone => Backed(disk, f)
  /\ pc \notin Idle /\ man.created[f] # None =>
       \/ plan.mode = "continue" /\ f \in man.moved
       \/ L(dst[f], missed) \subseteq L(man.created[f], missed)

SafeAll == ~Void => \A f \in Files : Safe(f)

\* manifest.json is empty until the copies are made; then it names them.
Blank(m) == m.moved = {} /\ \A f \in Files : m.created[f] = None
OnDisk ==
  /\ pc \notin Idle \cup {"purgeDir", "finish"} => ~disk.undone
  /\ pc \in {"copy", "again", "place", "verify", "stamp", "saveCopied"} => Blank(disk)
  /\ pc \notin Idle /\ ~disk.undone =>
       \/ Blank(disk)
       \/ /\ disk.created = man.created
          /\ disk.moved = man.moved \/ plan.mode \in {"move", "delete"}

IInv == Typed /\ Control /\ Saved /\ UndoDir /\ OnDisk /\ SafeAll

---------------------------------------------------------------------------
(* Types.                                                                  *)

\* What the constants are, and the two manifests that name nothing.
LEMMA Basics ==
  /\ NFiles \in Nat \ {0} /\ MaxWrites \in Nat
  /\ Files = 1..NFiles /\ Files \subseteq Nat
  /\ None \in Contents /\ None \notin SUBSET Lines
  /\ Empty \in Manifests /\ NoManifest \in Manifests
  /\ Empty.moved = {} /\ NoManifest.moved = {} /\ ~Empty.undone /\ NoManifest.undone
  /\ \A f \in Files : Empty.created[f] = None /\ NoManifest.created[f] = None
<1>1. NFiles \in Nat \ {0} /\ MaxWrites \in Nat
  BY TransferAssumption
<1>2. Files = 1..NFiles /\ Files \subseteq Nat
  BY <1>1 DEF Files
<1>3. None \in Contents
  BY DEF Contents
<1>4. MaxWrites + 1 \in None /\ MaxWrites + 1 \notin Lines
  BY <1>1 DEF None, Lines
<1>5. Empty \in Manifests /\ NoManifest \in Manifests
  BY <1>3 DEF Empty, NoManifest, Manifests
<1>6. /\ Empty.moved = {} /\ NoManifest.moved = {} /\ ~Empty.undone /\ NoManifest.undone
      /\ \A f \in Files : Empty.created[f] = None /\ NoManifest.created[f] = None
  BY DEF Empty, NoManifest
<1> QED BY <1>1, <1>2, <1>3, <1>4, <1>5, <1>6

\* The values of the variables, at the start and after every step.
LEMMA TypedInit == Init => Typed
<1> SUFFICES ASSUME Init PROVE Typed
  OBVIOUS
<1>1. {0} \in Contents /\ None \in Contents /\ {0} \in SUBSET Lines /\ 1 \in 1..(NFiles + 1)
  BY Basics DEF Contents, Lines
<1>2. {man, disk} \subseteq Manifests
  BY Basics DEF Init
<1>3. {src, dst, undo, stamp} \subseteq [Files -> Contents]
  BY <1>1 DEF Init
<1>4. wrote \in [Files -> SUBSET Lines]
  BY <1>1 DEF Init
<1>5. plan \in [mode : Modes, entry : BOOLEAN, keep : BOOLEAN, files : SUBSET Files]
  BY DEF Init, Modes
<1>6. pc \in Steps /\ pc \notin {"again", "place", "verify", "stamp"}
  BY DEF Init, Steps
<1>10. conf \in [from : BOOLEAN, to : BOOLEAN]
  BY DEF Init
<1>7. k \in 1..(NFiles + 1) /\ writes \in Nat
  BY <1>1 DEF Init
<1>8. missed \subseteq Lines /\ {found, stray} \subseteq SUBSET Files
  BY DEF Init
<1>9. /\ job = "none" /\ undoing \in BOOLEAN /\ live = "no" /\ torn \in BOOLEAN /\ quiet \in BOOLEAN
  BY DEF Init
<1> QED BY <1>1, <1>2, <1>3, <1>4, <1>5, <1>6, <1>7, <1>8, <1>9, <1>10 DEF Typed, TypeOK

\* Nothing is written to a place outside the session's files.
LEMMA TypedNext == Typed /\ [Next]_vars => Typed'
<1> SUFFICES ASSUME Typed, [Next]_vars PROVE Typed'
  OBVIOUS
<1>0. /\ src \in [Files -> Contents] /\ dst \in [Files -> Contents]
      /\ undo \in [Files -> Contents] /\ stamp \in [Files -> Contents]
      /\ man \in Manifests /\ disk \in Manifests /\ plan.files \subseteq Files
      /\ k \in 1..(NFiles + 1)
  BY DEF Typed, TypeOK
<1> USE DEF rest, history, bounds, work
<1>1. CASE UNCHANGED vars
  BY <1>1 DEF Typed, TypeOK, vars
<1>2. CASE Exit \/ \E d \in {"src", "dst"} : Resume(d)
  BY <1>2 DEF Exit, Resume, Typed, TypeOK
<1>3. CASE \E f \in Files : Write(f)
  <2> PICK f \in Files : Write(f)
    BY <1>3
  <2>1. writes + 1 \in Lines /\ writes + 1 \in Nat
    BY Basics DEF Write, Typed, Lines
  <2>2. \A c \in Contents : Add(c, writes + 1) \in Contents
    BY <2>1 DEF Add, Contents
  <2>3. src' \in [Files -> Contents] /\ dst' \in [Files -> Contents]
    BY <1>0, <2>2 DEF Write
  <2>4. wrote' \in [Files -> SUBSET Lines]
    BY <2>1 DEF Write, Typed, TypeOK
  <2>5. /\ UNCHANGED <<undo, stamp, conf, plan, man, disk, pc, k, job, undoing, live, stray, torn>>
        /\ writes' = writes + 1 /\ quiet' = FALSE
    BY DEF Write
  <2>6. missed' \subseteq Lines /\ found' \subseteq Files
    BY <2>1 DEF Write, Typed, TypeOK
  <2> QED BY <1>0, <2>1, <2>3, <2>4, <2>5, <2>6, ZenonT(40) DEF Typed, TypeOK
<1>4. CASE Refuse \/ Check \/ LookBeforeCopy \/ LookAgain \/ Restored \/ RestoreEntry
            \/ RollbackEntry
  <2>1. /\ UNCHANGED <<src, dst, undo, plan, man, disk, stamp, k, job, undoing, live, history, bounds>>
        /\ pc' \in {"idle", "finish", "stash", "restore", "putBack", "saveTaken", "saveGone",
                    "restoreEntry", "rollback", "close", "place"}
        /\ pc' = "place" => k \in Files
    BY <1>0, <1>4 DEF Refuse, Check, Fail, LookBeforeCopy, At, LookAgain, Restored, RestoreEntry,
       RollbackEntry
  <2>2. conf' \in [from : BOOLEAN, to : BOOLEAN]
    BY <1>4 DEF Refuse, Check, LookBeforeCopy, LookAgain, Restored, RestoreEntry, RollbackEntry,
       Typed,
       TypeOK
  <2> QED BY <2>1, <2>2 DEF Typed, TypeOK, Steps
<1>5. CASE \E mode \in Modes, entry, keep \in BOOLEAN : Start(mode, entry, keep)
  BY <1>5 DEF Start, Present, Typed, TypeOK, Steps, Modes
<1>6. CASE Begin
  BY <1>6, Basics DEF Begin, Present, Typed, TypeOK, Steps
<1>7. CASE SkipFile
  BY <1>7, Basics DEF SkipFile, AtEnd, Typed, TypeOK, Steps
<1>8. CASE Meet
  <2>1. k \in Files /\ k + 1 \in 1..(NFiles + 1) /\ None \in Contents
    BY <1>0, <1>8, Basics DEF Meet, At
  <2>2. undo' \in [Files -> Contents] /\ dst' \in [Files -> Contents]
    BY <1>0, <1>8, <2>1 DEF Meet, Fail, NextFile
  <2>3. man' \in Manifests
    BY <1>0, <1>8, <2>1 DEF Meet, Fail, NextFile, Manifests
  <2> QED BY <1>8, <2>1, <2>2, <2>3 DEF Meet, Fail, NextFile, Typed, TypeOK, Steps
<1>9. CASE Place
  <2>1. dst' \in [Files -> Contents]
    BY <1>0, <1>9 DEF Place, At
  <2> QED BY <1>9, <2>1 DEF Place, At, Typed, TypeOK, Steps
<1>10. CASE Verify
  <2>1. k \in Files /\ None \in Contents
    BY <1>0, <1>10, Basics DEF Verify, At
  <2>2. dst' \in [Files -> Contents]
    BY <1>0, <1>10, <2>1 DEF Verify
  <2>3. man' \in Manifests
    BY <1>0, <1>10, <2>1 DEF Verify, Manifests
  <2>4. /\ UNCHANGED <<src, undo, conf, plan, disk, stamp, k, job, undoing, live, history, bounds>>
        /\ pc' \in {"stamp", "restore"}
    BY <1>10 DEF Verify, Fail
  <2> QED BY <2>1, <2>2, <2>3, <2>4 DEF Typed, TypeOK, Steps
<1>11. CASE Stamp
  <2>1. k \in Files /\ k + 1 \in 1..(NFiles + 1)
    BY <1>0, <1>11, Basics DEF Stamp, At
  <2>2. stamp' \in [Files -> Contents]
    BY <1>0, <1>11, <2>1 DEF Stamp
  <2> QED BY <1>11, <2>1, <2>2 DEF Stamp, NextFile, Typed, TypeOK, Steps
<1>12. CASE Save
  BY <1>12 DEF Save, After, Typed, TypeOK, Steps
<1>13. CASE AddEntry
  <2>1. man' \in Manifests /\ conf' \in [from : BOOLEAN, to : BOOLEAN]
    BY <1>0, <1>13 DEF AddEntry, Manifests, Typed, TypeOK
  <2> QED BY <1>13, <2>1 DEF AddEntry, Typed, TypeOK, Steps
<1>14. CASE Stash
  <2>1. k \in Files /\ None \in Contents /\ k + 1 \in 1..(NFiles + 1)
    BY <1>0, <1>14, Basics DEF Stash, At
  <2>2. undo' \in [Files -> Contents] /\ src' \in [Files -> Contents]
    BY <1>0, <1>14, <2>1 DEF Stash
  <2>3. man' \in Manifests
    BY <1>0, <1>14, <2>1 DEF Stash, Manifests
  <2>4. /\ UNCHANGED <<dst, conf, plan, disk, stamp, pc, job, undoing, live, history, bounds>>
        /\ k' = k + 1 /\ pc \in {"stash", "take"}
    BY <1>14 DEF Stash, At
  <2> QED BY <2>1, <2>2, <2>3, <2>4 DEF Typed, TypeOK
<1>15. CASE DropEntry
  <2>1. man' \in Manifests /\ conf' \in [from : BOOLEAN, to : BOOLEAN]
    BY <1>0, <1>15 DEF DropEntry, Manifests, Typed, TypeOK
  <2> QED BY <1>15, <2>1 DEF DropEntry, Typed, TypeOK, Steps
<1>16. CASE Finish
  BY <1>16, Basics DEF Finish, Typed, TypeOK, Steps
<1>17. CASE List
  <2>1. /\ man' \in Manifests
        /\ plan' \in [mode : Modes, entry : BOOLEAN, keep : BOOLEAN, files : SUBSET Files]
    BY <1>0, <1>17 DEF List, Present, Manifests, Typed, TypeOK
  <2> QED BY <1>17, <2>1 DEF List, Typed, TypeOK, Steps
<1>18. CASE \E f \in Files : PutBack(f) \/ Restore(f) \/ Rollback(f)
  <2> PICK f \in Files : PutBack(f) \/ Restore(f) \/ Rollback(f)
    BY <1>18
  <2>1. /\ src' \in [Files -> Contents] /\ dst' \in [Files -> Contents]
        /\ undo' \in [Files -> Contents]
    <3>1. None \in Contents /\ undo[f] \in Contents
      BY <1>0, Basics
    <3>2. CASE PutBack(f)
      BY <1>0, <3>1, <3>2 DEF PutBack
    <3>3. CASE Restore(f)
      BY <1>0, <3>1, <3>3 DEF Restore
    <3>4. CASE Rollback(f)
      BY <1>0, <3>1, <3>4 DEF Rollback
    <3> QED BY <3>2, <3>3, <3>4
  <2> QED BY <2>1 DEF PutBack, Restore, Rollback, Typed, TypeOK
<1>19. CASE AllBack
  <2>1. man' \in Manifests
    BY <1>0, <1>19 DEF AllBack, Manifests
  <2> QED BY <1>19, <2>1 DEF AllBack, Typed, TypeOK, Steps
<1>20. CASE Purge \/ PurgeDir
  BY <1>20, Basics DEF Purge, PurgeDir, Typed, TypeOK, Steps
<1>21. CASE Close
  <2>1. disk' \in Manifests
    BY <1>0, <1>21, Basics, ZenonT(40) DEF Close, Manifests
  <2>2. undo' \in [Files -> Contents]
    BY <1>0, <1>21, Basics DEF Close
  <2>3. /\ UNCHANGED <<src, dst, live, conf, plan, man, stamp, history, bounds>>
        /\ pc' = "idle" /\ k' = 1 /\ undoing' = FALSE /\ job' \in {"undone", "failed"}
    BY <1>21 DEF Close
  <2>4. 1 \in 1..(NFiles + 1)
    BY Basics
  <2> QED BY <2>1, <2>2, <2>3, <2>4, ZenonT(40) DEF Typed, TypeOK, Steps
<1>22. CASE Stuck
  <2>1. /\ UNCHANGED <<src, dst, live, undo, conf, plan, man, stamp, wrote, missed, found, stray,
                       quiet, bounds>>
        /\ pc' = "idle" /\ k' = 1 /\ undoing' = FALSE /\ disk' \in {disk, man}
        /\ job' \in {job, "incomplete"}
    BY <1>22 DEF Stuck, GivesUp
  <2>2. torn' \in BOOLEAN
    BY <1>22 DEF Stuck, GivesUp, Typed, TypeOK
  <2>3. k' \in 1..(NFiles + 1) /\ disk' \in Manifests
    BY <1>0, <2>1, Basics
  <2>4. /\ job' \in {"none", "running", "done", "failed", "incomplete", "crashed", "undone"}
        /\ pc' \in Steps /\ pc' \notin {"again", "place", "verify", "stamp"} /\ undoing' \in BOOLEAN
    BY <2>1 DEF Typed, TypeOK, Steps
  <2> QED BY <2>1, <2>2, <2>3, <2>4 DEF Typed, TypeOK
<1>23. CASE IoError
  <2>1. /\ UNCHANGED <<src, dst, undo, conf, plan, man, stamp, live, wrote, missed, found, quiet,
                       writes>>
        /\ disk' \in {disk, man} /\ k' \in {k, 1} /\ undoing' \in {undoing, FALSE}
        /\ job' \in {job, "incomplete", "failed"}
        /\ pc' \in {"idle", "restore", "close", "putBack", "finish"}
    <3>1. \/ /\ pc' = "restore" /\ UNCHANGED <<disk, job, undoing, k>>
          \/ /\ pc' = "idle" /\ k' = 1 /\ undoing' = FALSE /\ disk' \in {disk, man}
             /\ job' \in {job, "incomplete", "failed"}
          \/ /\ pc \in DOMAIN GoesOn /\ pc' = GoesOn[pc] /\ UNCHANGED <<disk, job, undoing, k>>
      BY <1>23 DEF IoError, GivesUp, Fail
    <3>2. pc \in DOMAIN GoesOn => GoesOn[pc] \in {"close", "putBack", "finish"}
      BY DEF GoesOn
    <3>3. UNCHANGED <<src, dst, undo, conf, plan, man, stamp, live, wrote, missed, found, quiet,
                      writes>>
      BY <1>23 DEF IoError
    <3> QED BY <3>1, <3>2, <3>3
  <2>2. torn' \in BOOLEAN
    BY <1>23 DEF IoError, GivesUp, Typed, TypeOK
  <2>3. stray' \subseteq Files
    BY <1>23 DEF IoError, Typed, TypeOK
  <2>4. 1 \in 1..(NFiles + 1)
    BY Basics
  <2>5. disk' \in Manifests /\ k' \in 1..(NFiles + 1) /\ undoing' \in BOOLEAN
    BY <1>0, <2>1, <2>4 DEF Typed, TypeOK
  <2>6. /\ job' \in {"none", "running", "done", "failed", "incomplete", "crashed", "undone"}
        /\ pc' \in Steps /\ pc' \notin {"again", "place", "verify", "stamp"}
    BY <2>1 DEF Typed, TypeOK, Steps
  <2> QED BY <2>1, <2>2, <2>3, <2>5, <2>6 DEF Typed, TypeOK
<1>24. CASE Undo
  BY <1>24 DEF Undo, Typed, TypeOK, Steps
<1>25. CASE Crash
  <2>1. /\ UNCHANGED <<src, dst, live, undo, conf, plan, disk, stamp, wrote, missed, found, quiet,
                       writes, fails>>
        /\ pc' = "idle" /\ k' = 1 /\ undoing' = FALSE /\ man' = Empty
        /\ job' \in {job, "crashed"}
    BY <1>25 DEF Crash
  <2>2. torn' \in BOOLEAN /\ stray' \subseteq Files
    BY <1>25 DEF Crash, Typed, TypeOK
  <2>3. 1 \in 1..(NFiles + 1) /\ Empty \in Manifests
    BY Basics
  <2> QED BY <2>1, <2>2, <2>3, ZenonT(40) DEF Typed, TypeOK, Steps
<1>26. CASE Prune
  BY <1>26, Basics DEF Prune, Typed, TypeOK
<1> QED BY <1>1, <1>2, <1>3, <1>4, <1>5, <1>6, <1>7, <1>8, <1>9, <1>10, <1>11, <1>12, <1>13, <1>14,
           <1>15, <1>16, <1>17, <1>18, <1>19, <1>20, <1>21, <1>22, <1>23, <1>24, <1>25,
              <1>26 DEF Next

\* Every variable keeps its type: the steps of a job stay within the files of
\* its plan, and what a file holds is a set of lines or nothing.
THEOREM TypeCorrect == Spec => []TypeOK
<1>1. Typed => TypeOK
  BY DEF Typed
<1> QED BY <1>1, TypedInit, TypedNext, PTL DEF Spec

---------------------------------------------------------------------------
(* The steps of the job.                                                   *)

\* Claude Code touches nothing of the job.
Elsewhere == Exit \/ (\E d \in {"src", "dst"} : Resume(d)) \/ \E f \in Files : Write(f)

\* The steps of one kind of job are never entered by another.
LEMMA ControlNext == Typed /\ Control /\ Saved /\ [Next]_vars => Control'
<1> SUFFICES ASSUME Typed, Control, Saved, [Next]_vars PROVE Control'
  OBVIOUS
<1> USE DEF rest, history, bounds, work, Copying, Stashing, Deleting, Ending, Idle, AllHome
<1>1. CASE UNCHANGED vars
  BY <1>1 DEF Control, vars
<1>2. CASE Elsewhere
  BY <1>2 DEF Elsewhere, Exit, Resume, Write, Control
<1>3. CASE Refuse \/ Check \/ LookAgain \/ Restored \/ RestoreEntry \/ RollbackEntry
  BY <1>3 DEF Refuse, Check, Fail, LookAgain, Restored, RestoreEntry, RollbackEntry, Control
<1>5. CASE \E mode \in Modes, entry, keep \in BOOLEAN : Start(mode, entry, keep)
  BY <1>5 DEF Start, Control, Typed, TypeOK
<1>6. CASE Begin
  BY <1>6, Basics DEF Begin, Control
<1>7. CASE SkipFile
  BY <1>7, Basics DEF SkipFile, AtEnd, Control
<1>8. CASE Meet
  BY <1>8 DEF Meet, At, Fail, NextFile, Control
<1>9. CASE LookBeforeCopy \/ Place
  BY <1>9 DEF LookBeforeCopy, Place, At, Fail, Control
<1>10. CASE Verify
  BY <1>10 DEF Verify, At, Fail, Control
<1>11. CASE Stamp
  BY <1>11 DEF Stamp, At, NextFile, Control
<1>12. CASE Save
  BY <1>12 DEF Save, After, Control
<1>13. CASE AddEntry
  BY <1>13 DEF AddEntry, Control
<1>14. CASE Stash
  BY <1>14 DEF Stash, At, Control
<1>15. CASE DropEntry
  BY <1>15 DEF DropEntry, Control
<1>16. CASE Finish
  BY <1>16 DEF Finish, Control
<1>17. CASE List
  BY <1>17 DEF List, Control, Typed, TypeOK
<1>18. CASE \E f \in Files : PutBack(f) \/ Restore(f) \/ Rollback(f)
  BY <1>18 DEF PutBack, Restore, Rollback, Control
<1>19. CASE AllBack
  BY <1>19 DEF AllBack, Control
<1>20. CASE Purge \/ PurgeDir
  BY <1>20 DEF Purge, PurgeDir, Control
<1>21. CASE Close
  BY <1>21, Basics DEF Close, Control, Typed, TypeOK, Manifests
<1>22. CASE Stuck
  BY <1>22 DEF Stuck, GivesUp, Control
<1>23. CASE IoError
  BY <1>23 DEF IoError, GivesUp, Fail, GoesOn, Control
<1>24. CASE Undo
  BY <1>24, Basics DEF Undo, Control
<1>25. CASE Crash
  BY <1>25, Basics DEF Crash, Control
<1>26. CASE Prune
  BY <1>26, Basics DEF Prune, Control
<1> QED BY <1>1, <1>2, <1>3, <1>5, <1>6, <1>7, <1>8, <1>9, <1>10, <1>11, <1>12, <1>13, <1>14,
           <1>15, <1>16, <1>17, <1>18, <1>19, <1>20, <1>21, <1>22, <1>23, <1>24, <1>25, <1>26
        DEF Next, Elsewhere

\* manifest.json is never behind the manifest by more than what the next save
\* writes.
LEMMA SavedNext == Typed /\ Control /\ Saved /\ [Next]_vars => Saved'
<1> SUFFICES ASSUME Typed, Control, Saved, [Next]_vars PROVE Saved'
  OBVIOUS
<1> USE DEF rest, history, bounds, work, Copying, Stashing, Deleting, Ending, Idle, Discarded
<1>1. CASE UNCHANGED vars
  BY <1>1 DEF Saved, vars
<1>2. CASE Elsewhere
  BY <1>2 DEF Elsewhere, Exit, Resume, Write, Saved
<1>3. CASE Refuse \/ Check \/ LookAgain \/ Restored \/ RestoreEntry \/ RollbackEntry
  BY <1>3 DEF Refuse, Check, Fail, LookAgain, Restored, RestoreEntry, RollbackEntry, Control, Saved
<1>5. CASE \E mode \in Modes, entry, keep \in BOOLEAN : Start(mode, entry, keep)
  BY <1>5, Basics DEF Start, Control, Saved
<1>6. CASE Begin
  BY <1>6, Basics DEF Begin, Control, Saved
<1>7. CASE SkipFile
  BY <1>7, Basics DEF SkipFile, AtEnd, Saved, Typed, TypeOK
<1>8. CASE Meet
  <2>1. /\ man'.created = man.created /\ man'.undone = man.undone
        /\ UNCHANGED <<plan, disk, job>>
        /\ pc = "copy" /\ k \in Files
    BY <1>8 DEF Meet, At, Fail, NextFile, Typed, TypeOK, Manifests
  <2>2. \/ pc' = "again" /\ k' = k
        \/ pc' = "copy" /\ k' = k + 1
        \/ pc' = "restore"
    BY <1>8 DEF Meet, Fail, NextFile
  <2> QED BY <2>1, <2>2, Basics DEF Control, Saved
<1>9. CASE LookBeforeCopy \/ Place
  BY <1>9 DEF LookBeforeCopy, Place, At, Fail, Control, Saved
<1>10. CASE Verify
  <2>1. /\ UNCHANGED <<plan, disk, job, k>>
        /\ pc = "verify" /\ k \in Files /\ pc' \in {"stamp", "restore"}
        /\ man' = man \/ man' = [man EXCEPT !.created[k] = dst[k]]
    BY <1>10 DEF Verify, At, Fail, Typed, TypeOK
  <2>2. /\ man'.undone = man.undone
        /\ \A f \in Files : f # k => man'.created[f] = man.created[f]
    BY <2>1 DEF Typed, TypeOK, Manifests
  <2> QED BY <2>1, <2>2, Basics DEF Control, Saved
<1>11. CASE Stamp
  BY <1>11, Basics DEF Stamp, At, NextFile, Control, Saved, Typed, TypeOK
<1>12. CASE Save
  BY <1>12, Basics DEF Save, After, Control, Saved
<1>13. CASE AddEntry
  BY <1>13 DEF AddEntry, Control, Saved, Typed, TypeOK, Manifests
<1>14. CASE Stash
  <2>1. CASE pc = "stash"
    BY <1>14, <2>1 DEF Stash, At, Control, Saved, Typed, TypeOK, Manifests
  <2>2. CASE pc = "take"
    <3>1. k \in man.moved /\ man' = [man EXCEPT !.moved = @ \cup {k}]
      BY <1>14, <2>2 DEF Stash, At, Saved
    <3>2. man' = man
      BY <3>1 DEF Typed, TypeOK, Manifests
    <3> QED BY <1>14, <2>2, <3>2 DEF Stash, At, Control, Saved
  <2> QED BY <1>14, <2>1, <2>2 DEF Stash, At
<1>15. CASE DropEntry
  BY <1>15 DEF DropEntry, Control, Saved, Typed, TypeOK, Manifests
<1>16. CASE Finish
  BY <1>16 DEF Finish, Control, Saved
<1>17. CASE List
  BY <1>17 DEF List, Control, Saved, Typed, TypeOK, Manifests
<1>18. CASE \E f \in Files : PutBack(f) \/ Restore(f) \/ Rollback(f)
  BY <1>18 DEF PutBack, Restore, Rollback, Control, Saved
<1>19. CASE AllBack
  BY <1>19 DEF AllBack, Control, Saved, Typed, TypeOK, Manifests
<1>20. CASE Purge \/ PurgeDir
  BY <1>20, Basics DEF Purge, PurgeDir, Control, Saved
<1>21. CASE Close
  BY <1>21, Basics, ZenonT(40) DEF Close, Control, Saved, Typed, TypeOK, Manifests
<1>22. CASE Stuck
  BY <1>22 DEF Stuck, GivesUp, Control, Saved
<1>23. CASE IoError
  BY <1>23 DEF IoError, GivesUp, Fail, GoesOn, Control, Saved
<1>24. CASE Undo
  BY <1>24, Basics DEF Undo, Control, Saved
<1>25. CASE Crash
  BY <1>25, Basics DEF Crash, Control, Saved
<1>26. CASE Prune
  BY <1>26, Basics DEF Prune, Control, Saved
<1> QED BY <1>1, <1>2, <1>3, <1>5, <1>6, <1>7, <1>8, <1>9, <1>10, <1>11, <1>12, <1>13, <1>14,
           <1>15, <1>16, <1>17, <1>18, <1>19, <1>20, <1>21, <1>22, <1>23, <1>24, <1>25, <1>26
        DEF Next, Elsewhere

---------------------------------------------------------------------------
(* The undo directory.                                                     *)

\* What excuses the loss of a line excuses it for good.
LEMMA VoidStays == Typed /\ Control /\ Saved /\ [Next]_vars => (Void => Void')
<1> SUFFICES ASSUME Typed, Control, Saved, [Next]_vars, Void PROVE Void'
  OBVIOUS
<1> USE DEF rest, history, bounds, work, Void, Discarded, Idle
<1>1. CASE UNCHANGED <<plan, torn, disk, job>>
  BY <1>1
<1>2. CASE \E mode \in Modes, entry, keep \in BOOLEAN : Start(mode, entry, keep)
  BY <1>2 DEF Start, Control
<1>3. CASE Begin
  BY <1>3 DEF Begin, Control
<1>4. CASE Save \/ Purge
  BY <1>4 DEF Save, Purge, After, Saved
<1>5. CASE Finish
  BY <1>5 DEF Finish, Control
<1>6. CASE List
  BY <1>6 DEF List, Typed, TypeOK
<1>7. CASE Close \/ Stuck
  BY <1>7, Basics DEF Close, Stuck, GivesUp, Control, Saved, Ending, Deleting
<1>8. CASE IoError
  <2>0. UNCHANGED plan /\ torn \in BOOLEAN
    BY <1>8 DEF IoError, Typed, TypeOK
  <2>1. UNCHANGED plan /\ (torn => torn')
    BY <1>8, <2>0 DEF IoError, GivesUp
  <2>2. CASE Discarded
    <3>0. pc \in {"purgeDir", "finish", "idle"}
      BY <2>2 DEF Saved
    <3>1. pc = "purgeDir"
      BY <1>8, <3>0 DEF IoError, GoesOn
    <3> QED BY <1>8, <2>1, <2>2, <3>1 DEF IoError, Control
  <2> QED BY <2>1, <2>2
<1>9. CASE Crash
  BY <1>9 DEF Crash, Control, Saved
<1>10. CASE Prune
  BY <1>10 DEF Prune, Control
<1>11. CASE UNCHANGED vars
  BY <1>1, <1>11 DEF vars
<1>12. CASE Elsewhere
  BY <1>1, <1>12 DEF Elsewhere, Exit, Resume, Write
<1>13. CASE \E f \in Files : PutBack(f) \/ Restore(f) \/ Rollback(f)
  BY <1>1, <1>13 DEF PutBack, Restore, Rollback
<1>14. CASE Refuse \/ Check \/ LookAgain \/ Restored \/ RestoreEntry \/ RollbackEntry \/ SkipFile
            \/ Meet \/ LookBeforeCopy \/ Place \/ Verify \/ Stamp \/ AddEntry \/ Stash
            \/ DropEntry \/ AllBack \/ PurgeDir \/ Undo
  BY <1>1, <1>14 DEF Refuse, Check, Fail, LookAgain, Restored, RestoreEntry, RollbackEntry,
     SkipFile, Meet,
     LookBeforeCopy, Place, Verify, Stamp, AddEntry, Stash, DropEntry, AllBack, PurgeDir, Undo
<1> QED BY <1>2, <1>3, <1>4, <1>5, <1>6, <1>7, <1>8, <1>9, <1>10, <1>11, <1>12, <1>13, <1>14
        DEF Next, Elsewhere

\* A run or an undo that gives up leaves a manifest that names what was moved,
\* or is known to have left none.
LEMMA GivingUp ==
  ASSUME Typed, Control, Saved, UndoDir, Void => Void', GivesUp, UNCHANGED <<undo, plan, man>>,
         pc \in {"restore", "restoreEntry", "rollback", "putBack", "saveTaken", "saveGone", "close"}
  PROVE  UndoDir'
<1> USE DEF Idle, AllHome, Copying, Deleting, Ending
<1>1. pc' = "idle" /\ (job' \in {"failed", "undone"} => job' = job)
  BY DEF GivesUp
<1>2. CASE undoing
  BY <1>1, <1>2 DEF GivesUp, Control, UndoDir
<1>3. CASE ~undoing /\ disk' = man
  BY <1>1, <1>3 DEF UndoDir
<1>4. CASE ~undoing /\ disk' = disk /\ disk # man
  <2>1. torn'
    BY <1>4 DEF GivesUp
  <2>2. CASE plan.mode # "delete"
    <3>1. Void'
      BY <2>1, <2>2 DEF Void
    <3> QED BY <1>1, <3>1 DEF UndoDir
  <2>3. CASE plan.mode = "delete"
    <3>1. pc = "close"
      BY <1>4, <2>3 DEF Control, Saved
    <3> QED BY <1>1, <2>3, <3>1 DEF UndoDir
  <2> QED BY <2>2, <2>3
<1> QED BY <1>2, <1>3, <1>4 DEF GivesUp

\* Nothing but a rename and its way back changes what the directory holds.
LEMMA UndoDirNext == Typed /\ Control /\ Saved /\ UndoDir /\ [Next]_vars => UndoDir'
<1> SUFFICES ASSUME Typed, Control, Saved, UndoDir, [Next]_vars PROVE UndoDir'
  OBVIOUS
<1>0. Void => Void'
  BY VoidStays
<1> USE DEF rest, history, bounds, work, Copying, Stashing, Deleting, Ending, Idle, AllHome
<1>1. CASE UNCHANGED vars
  BY <1>0, <1>1 DEF UndoDir, vars
<1>2. CASE Elsewhere
  BY <1>0, <1>2 DEF Elsewhere, Exit, Resume, Write, UndoDir
<1>3. CASE Refuse \/ Check \/ LookAgain \/ RestoreEntry \/ RollbackEntry
  BY <1>0, <1>3 DEF Refuse, Check, Fail, LookAgain, RestoreEntry, RollbackEntry, Control, UndoDir
<1>4. CASE Restored
  BY <1>0, <1>4 DEF Restored, Control, UndoDir
<1>5. CASE \E mode \in Modes, entry, keep \in BOOLEAN : Start(mode, entry, keep)
  BY <1>0, <1>5, Basics DEF Start, Control, UndoDir
<1>6. CASE Begin
  BY <1>0, <1>6, Basics DEF Begin, Control, UndoDir
<1>7. CASE SkipFile
  BY <1>0, <1>7, Basics DEF SkipFile, AtEnd, UndoDir, Control, Typed, TypeOK
<1>8. CASE Meet
  <2>1. /\ pc = "copy" /\ k \in Files /\ UNCHANGED <<plan, disk, job>>
        /\ \/ pc' = "restore" /\ UNCHANGED <<undo, man>>
           \/ pc' = "copy" /\ k' = k + 1 /\ UNCHANGED <<undo, man>>
           \/ /\ pc' = "again" /\ k' = k /\ plan.mode = "continue"
              /\ undo' = [undo EXCEPT ![k] = dst[k]]
              /\ man' = [man EXCEPT !.moved = @ \cup {k}]
    BY <1>8 DEF Meet, At, Fail, NextFile, Typed, TypeOK
  <2>2. CASE UNCHANGED <<undo, man>>
    BY <1>0, <2>1, <2>2, Basics DEF Control, UndoDir
  <2>3. CASE pc' = "again"
    <3>1. /\ \A f \in Files : f # k => undo'[f] = undo[f]
          /\ man'.moved = man.moved \cup {k}
      BY <2>1, <2>3 DEF Typed, TypeOK, Manifests
    <3> QED BY <1>0, <2>1, <2>3, <3>1, Basics DEF Control, UndoDir
  <2> QED BY <2>1, <2>2, <2>3
<1>9. CASE LookBeforeCopy \/ Place
  BY <1>0, <1>9, Basics DEF LookBeforeCopy, Place, At, Fail, Control, UndoDir, Typed, TypeOK
<1>10. CASE Verify
  <2>1. man'.moved = man.moved
    BY <1>10 DEF Verify, Typed, TypeOK, Manifests
  <2> QED BY <1>0, <1>10, <2>1 DEF Verify, At, Fail, Control, UndoDir
<1>11. CASE Stamp
  BY <1>0, <1>11, Basics DEF Stamp, At, NextFile, Control, UndoDir, Typed, TypeOK
<1>12. CASE Save
  BY <1>0, <1>12 DEF Save, After, Control, UndoDir
<1>13. CASE AddEntry
  BY <1>0, <1>13 DEF AddEntry, Control, UndoDir, Typed, TypeOK, Manifests
<1>14. CASE Stash
  BY <1>0, <1>14, Basics DEF Stash, At, Control, UndoDir, Typed, TypeOK, Manifests
<1>15. CASE DropEntry
  BY <1>0, <1>15 DEF DropEntry, Control, UndoDir, Typed, TypeOK, Manifests
<1>16. CASE Finish
  BY <1>0, <1>16, Basics DEF Finish, Control, Saved, UndoDir
<1>17. CASE List
  BY <1>0, <1>17 DEF List, Control, UndoDir, Typed, TypeOK
<1>18. CASE \E f \in Files : PutBack(f) \/ Restore(f) \/ Rollback(f)
  BY <1>0, <1>18, Basics DEF PutBack, Restore, Rollback, Control, UndoDir, Typed, TypeOK
<1>19. CASE AllBack
  BY <1>0, <1>19 DEF AllBack, Control, UndoDir
<1>20. CASE Purge \/ PurgeDir
  BY <1>0, <1>20, Basics DEF Purge, PurgeDir, Control, UndoDir
<1>21. CASE Close
  BY <1>0, <1>21, Basics DEF Close, Control, UndoDir, Typed, TypeOK, Manifests
<1>22. CASE Stuck
  BY <1>0, <1>22, GivingUp DEF Stuck
<1>23. CASE IoError
  <2>1. UNCHANGED <<undo, plan, man>>
    BY <1>23 DEF IoError
  <2>2. CASE UNCHANGED <<disk, job>> /\ pc' = "restore" /\ pc \notin Idle
    BY <1>0, <2>1, <2>2 DEF Control, UndoDir
  <2>3. CASE pc \in DOMAIN GoesOn /\ pc' = GoesOn[pc] /\ UNCHANGED <<disk, job>>
    BY <1>0, <2>1, <2>3 DEF GoesOn, Control, UndoDir
  <2>4. CASE GivesUp /\ pc \in {"restore", "restoreEntry", "rollback", "putBack", "saveTaken",
                                "saveGone", "close"}
    BY <1>0, <2>1, <2>4, GivingUp
  <2>5. CASE pc = "close" /\ ~undoing /\ pc' = "idle" /\ UNCHANGED disk
    <3>1. Void' \/ AllHome
      BY <1>0, <2>5 DEF UndoDir
    <3> QED BY <1>0, <2>1, <2>5, <3>1 DEF Control, UndoDir
  <2> QED BY <1>23, <2>2, <2>3, <2>4, <2>5 DEF IoError, Fail
<1>24. CASE Undo
  BY <1>0, <1>24 DEF Undo, Control, UndoDir
<1>25. CASE Crash
  <2>1. /\ UNCHANGED <<undo, plan, disk>> /\ pc \notin {"idle"} /\ pc' = "idle"
        /\ job' = (IF job = "running" THEN "crashed" ELSE job)
        /\ torn' = (torn \/ (job = "running" /\ man # disk))
    BY <1>25 DEF Crash
  <2>2. job' \in {"failed", "undone"} => job' = job
    BY <2>1
  <2>3. CASE pc = "recheck"
    BY <2>1, <2>2, <2>3 DEF Control, UndoDir
  <2>4. CASE pc # "recheck" /\ man = disk
    BY <1>0, <2>1, <2>2, <2>4 DEF UndoDir
  <2>5. CASE pc # "recheck" /\ man # disk /\ plan.mode # "delete"
    <3>1. Void'
      BY <2>1, <2>5 DEF Void, Control
    <3> QED BY <2>1, <2>2, <2>5, <3>1 DEF Control, UndoDir
  <2>6. CASE pc # "recheck" /\ man # disk /\ plan.mode = "delete"
    <3>1. /\ pc \in Deleting \cup {"finish", "close"} /\ ~undoing
      BY <2>1, <2>6 DEF Control, Typed, TypeOK, Steps
    <3>2. pc \in {"saveListed", "saveSkipped", "close"} \/ disk = NoManifest
      BY <2>6, <3>1 DEF Saved
    <3> QED BY <1>0, <2>1, <2>2, <2>6, <3>2, Basics DEF UndoDir
  <2> QED BY <2>1, <2>3, <2>4, <2>5, <2>6
<1>26. CASE Prune
  BY <1>0, <1>26, Basics DEF Prune, Control, UndoDir
<1> QED BY <1>1, <1>2, <1>3, <1>4, <1>5, <1>6, <1>7, <1>8, <1>9, <1>10, <1>11, <1>12, <1>13, <1>14,
           <1>15, <1>16, <1>17, <1>18, <1>19, <1>20, <1>21, <1>22, <1>23, <1>24, <1>25, <1>26
        DEF Next, Elsewhere

---------------------------------------------------------------------------
(* The lines.                                                              *)

\* The lines of nothing, of a part, and of a file with one more.
LEMMA LinesOf ==
  /\ \A m : L(None, m) = {}
  /\ \A c, d \in Contents : \A m : c \subseteq d => L(c, m) \subseteq L(d, m)
  /\ \A c \in Contents, n \in Lines : \A m : L(Add(c, n), m) = L(c, m) \cup ({n} \ m)
  /\ \A c, n, m : L(c, m \cup {n}) = L(c, m) \ {n}
<1>1. \A m : L(None, m) = {}
  BY DEF L
<1>2. ASSUME NEW c \in Contents, NEW d \in Contents, NEW m, c \subseteq d
      PROVE  L(c, m) \subseteq L(d, m)
  <2>1. CASE c = None
    BY <2>1 DEF L
  <2>2. CASE c # None /\ d # None
    BY <1>2, <2>2 DEF L
  <2>3. CASE c # None /\ d = None
    <3>1. c \subseteq Lines /\ c \subseteq {MaxWrites + 1} /\ MaxWrites + 1 \notin Lines
      BY <1>2, <2>3, Basics DEF Contents, None, Lines
    <3>2. c = {}
      BY <3>1
    <3> QED BY <3>2 DEF L
  <2> QED BY <2>1, <2>2, <2>3
<1>3. ASSUME NEW c \in Contents, NEW n \in Lines, NEW m
      PROVE  L(Add(c, n), m) = L(c, m) \cup ({n} \ m)
  <2>1. {n} \in SUBSET Lines /\ {n} # None
    BY <1>3, Basics
  <2>2. CASE c = None
    <3>1. Add(c, n) = {n}
      BY <2>2 DEF Add
    <3> QED BY <2>1, <2>2, <3>1 DEF L
  <2>3. CASE c # None
    <3>1. c \cup {n} \in SUBSET Lines
      BY <1>3, <2>3 DEF Contents
    <3>2. c \cup {n} # None /\ Add(c, n) = c \cup {n}
      BY <2>3, <3>1, Basics DEF Add
    <3>3. L(Add(c, n), m) = (c \cup {n}) \ m /\ L(c, m) = c \ m
      BY <2>3, <3>2 DEF L
    <3> QED BY <3>3
  <2> QED BY <2>2, <2>3
<1>4. ASSUME NEW c, NEW n, NEW m
      PROVE  L(c, m \cup {n}) = L(c, m) \ {n}
  <2>1. CASE c = None
    BY <2>1 DEF L
  <2>2. CASE c # None
    BY <2>2 DEF L
  <2> QED BY <2>1, <2>2
<1> QED BY <1>1, <1>2, <1>3, <1>4

\* A failed operation sends the run to its end, a delete to its next step, or
\* makes the run or the undo give up.
LEMMA IoErrorCases ==
  ASSUME IoError
  PROVE  /\ UNCHANGED <<src, dst, undo, conf, plan, man, stamp, live, wrote, missed, found, quiet,
                        writes>>
         /\ stray \subseteq stray' /\ (pc = "verify" => k \in stray')
         /\ \/ /\ pc' = "restore" /\ UNCHANGED <<disk, job, undoing, torn, k>>
               /\ pc \in {"copy", "again", "place", "verify", "saveCopied", "entry", "saveEntry",
                          "stash",
                          "saveMoved", "drop", "saveDropped"}
            \/ /\ pc' = GoesOn[pc] /\ UNCHANGED <<disk, job, undoing, torn, k>>
               /\ pc \in {"saveListed", "take", "saveSkipped", "purge", "purgeDir"}
            \/ /\ GivesUp
               /\ pc \in {"restore", "restoreEntry", "rollback", "putBack", "saveTaken", "saveGone",
                          "close"}
               /\ pc = "close" => undoing
            \/ /\ pc = "close" /\ ~undoing
               /\ pc' = "idle" /\ job' = "failed" /\ UNCHANGED <<disk, undoing, torn>>
BY DEF IoError, Fail, GoesOn

\* What a run or an undo that gives up leaves in manifest.json is the manifest.
LEMMA GivingUpSaves ==
  ASSUME Control, Saved, GivesUp, UNCHANGED plan, pc = "close" => undoing,
         pc \in {"restore", "restoreEntry", "rollback", "putBack", "saveTaken", "saveGone", "close"}
  PROVE  /\ pc \notin Idle /\ pc' = "idle" /\ job' \notin {"none", "undone"}
         /\ job' = "failed" => job = "failed"
         /\ ~Void' => disk' = man
<1>1. /\ pc \notin Idle /\ pc' = "idle" /\ job' \notin {"none", "undone"}
      /\ job' = "failed" => job = "failed"
  BY DEF GivesUp, Control, Idle
<1> SUFFICES ASSUME ~Void' PROVE disk' = man
  BY <1>1
<1>2. CASE undoing
  BY <1>2 DEF GivesUp, Control
<1>3. CASE ~undoing /\ plan.mode = "delete"
  BY <1>3 DEF GivesUp, Control, Saved, Ending
<1>4. CASE ~undoing /\ plan.mode # "delete"
  BY <1>4 DEF GivesUp, Void
<1> QED BY <1>2, <1>3, <1>4

\* Where an undo is still possible after a death, manifest.json is the manifest,
\* or the files a delete listed are where it found them.
LEMMA DyingSaved ==
  ASSUME Typed, Control, Saved, Crash, ~Void', ~disk.undone
  PROVE  /\ pc \notin Idle
         /\ disk # man => /\ plan.mode = "delete" /\ ~undoing
                          /\ pc \in {"saveListed", "saveSkipped", "close"}
<1> USE DEF Idle
<1>1. pc \notin Idle
  BY Basics DEF Crash, Control
<1>2. ASSUME disk # man
      PROVE  plan.mode = "delete" /\ ~undoing
  BY <1>1, <1>2 DEF Crash, Control, Void
<1>3. ASSUME disk # man
      PROVE  pc \in {"saveListed", "saveSkipped", "close"}
  <2>1. pc \in Deleting \cup {"finish", "close"}
    BY <1>1, <1>2, <1>3 DEF Control, Typed, TypeOK, Steps, Copying, Stashing, Deleting, Ending
  <2> QED BY <1>3, <2>1, Basics DEF Saved, Deleting
<1> QED BY <1>1, <1>2, <1>3

\* A file written where nobody looked, or left unverified, stays marked.
LEMMA MarksGrow ==
  Typed /\ [Next]_vars => Unwatched \subseteq Unwatched' /\ stray \subseteq stray'
<1> SUFFICES ASSUME Typed, [Next]_vars
                PROVE Unwatched \subseteq Unwatched' /\ stray \subseteq stray'
  OBVIOUS
<1> USE DEF rest, history, bounds, work, Unwatched
<1>1. CASE UNCHANGED vars
  BY <1>1 DEF vars
<1>2. CASE Elsewhere
  <2>1. CASE Exit \/ \E d \in {"src", "dst"} : Resume(d)
    BY <2>1 DEF Exit, Resume
  <2>2. CASE \E f \in Files : Write(f)
    <3> PICK f \in Files : Write(f)
      BY <2>2
    <3>1. stray' = stray /\ missed \subseteq missed' /\ \A g \in Files : wrote[g] \subseteq wrote'[g]
      BY DEF Write, Typed, TypeOK
    <3> QED BY <3>1
  <2> QED BY <1>2, <2>1, <2>2 DEF Elsewhere
<1>3. CASE Refuse \/ Check \/ LookAgain \/ Restored \/ RestoreEntry \/ RollbackEntry \/ SkipFile
           \/ Meet \/ LookBeforeCopy \/ Place \/ Verify \/ Stamp \/ AddEntry \/ Stash
           \/ DropEntry \/ AllBack \/ PurgeDir \/ Undo
  BY <1>3 DEF Refuse, Check, Fail, LookAgain, Restored, RestoreEntry, RollbackEntry, SkipFile, Meet,
     LookBeforeCopy, Place, Verify, Stamp, AddEntry, Stash, DropEntry, AllBack, PurgeDir, Undo
<1>4. CASE \E f \in Files : PutBack(f) \/ Restore(f) \/ Rollback(f)
  BY <1>4 DEF PutBack, Restore, Rollback
<1>5. CASE Begin \/ Save \/ Purge \/ Finish \/ List \/ Close \/ Stuck \/ IoError \/ Crash \/ Prune
           \/ \E mode \in Modes, entry, keep \in BOOLEAN : Start(mode, entry, keep)
  BY <1>5, IoErrorCases DEF Begin, Save, Purge, Finish, List, Close, Stuck, Crash, Prune, Start
<1> QED BY <1>1, <1>2, <1>3, <1>4, <1>5 DEF Next, Elsewhere

\* The manifest that is saved names the copies, or nothing yet.
LEMMA OnDiskNext ==
  ASSUME Typed, Control, Saved, OnDisk, [Next]_vars
  PROVE  OnDisk'
<1>a. man \in Manifests /\ disk \in Manifests /\ Blank(Empty) /\ ~Empty.undone
  BY Basics DEF Typed, TypeOK, Blank
<1> USE DEF rest, history, bounds, work, Idle
<1>1. CASE UNCHANGED vars
  BY <1>1 DEF OnDisk, Blank, vars
<1>2. CASE Elsewhere
  BY <1>2 DEF Elsewhere, Exit, Resume, Write, OnDisk, Blank
<1>3. CASE pc' \in Idle
  BY <1>3 DEF OnDisk
<1>4. CASE Check \/ LookAgain \/ Restored \/ RestoreEntry \/ RollbackEntry \/ SkipFile
           \/ LookBeforeCopy \/ Place \/ Stamp
  BY <1>4 DEF Check, Fail, LookBeforeCopy, LookAgain, Restored, RestoreEntry, RollbackEntry,
     SkipFile, AtEnd, Place, Stamp,
     At, NextFile, OnDisk, Blank
<1>5. CASE Begin
  BY <1>a, <1>5 DEF Begin, OnDisk
<1>6. CASE Meet \/ Verify
  <2>1. /\ UNCHANGED <<plan, disk>> /\ pc \in {"copy", "verify"}
        /\ pc' \in {"copy", "again", "stamp", "restore"}
    BY <1>6 DEF Meet, Verify, At, NextFile, Fail
  <2> QED BY <2>1 DEF OnDisk, Blank
<1>7. CASE Save
  <2>1. /\ disk' = man /\ man' = man /\ ~man.undone /\ UNCHANGED plan
        /\ pc' \notin {"copy", "again", "place", "verify", "stamp", "saveCopied"}
    BY <1>7 DEF Save, After, Saved
  <2> QED BY <2>1 DEF OnDisk
<1>8. CASE AddEntry \/ DropEntry \/ List \/ AllBack \/ Stash
  <2>1. /\ UNCHANGED disk /\ pc \notin Idle /\ pc' \notin Idle
        /\ man'.created = man.created /\ plan'.mode = plan.mode
        /\ man'.moved = man.moved \/ plan.mode \in {"move", "delete"}
    BY <1>a, <1>8 DEF AddEntry, DropEntry, List, AllBack, Stash, At, Control, Copying, Stashing,
       Deleting, Manifests, Typed, TypeOK
  <2>2. /\ pc' \notin {"copy", "again", "place", "verify", "stamp", "saveCopied"}
        /\ pc \notin {"purgeDir", "finish"}
    BY <1>8 DEF AddEntry, DropEntry, List, AllBack, Stash, At
  <2> QED BY <2>1, <2>2 DEF OnDisk, Blank
<1>9. CASE \E f \in Files : PutBack(f) \/ Restore(f) \/ Rollback(f)
  BY <1>9 DEF PutBack, Restore, Rollback, OnDisk, Blank
<1>10. CASE Purge \/ PurgeDir
  BY <1>10, Basics DEF Purge, PurgeDir, OnDisk, Saved
<1>11. CASE IoError
  <2>1. UNCHANGED <<plan, man>>
    BY <1>11, IoErrorCases
  <2>2. CASE UNCHANGED disk /\ pc \notin Idle /\ pc' \in {"restore", "close", "putBack", "finish"}
             /\ (pc' = "finish" \/ pc \notin {"purgeDir", "finish"})
    BY <2>1, <2>2 DEF OnDisk, Blank
  <2>3. CASE pc' = GoesOn[pc] /\ UNCHANGED disk
             /\ pc \in {"saveListed", "take", "saveSkipped", "purge", "purgeDir"}
    BY <2>2, <2>3 DEF GoesOn
  <2>4. CASE GivesUp \/ pc' = "idle"
    BY <1>3, <2>4 DEF GivesUp
  <2> QED BY <1>11, <2>2, <2>3, <2>4, IoErrorCases
<1>12. CASE Undo
  BY <1>12 DEF Undo, OnDisk
<1>13. Refuse \/ Finish \/ Close \/ Stuck \/ Crash => pc' \in Idle
  BY DEF Refuse, Finish, Close, Stuck, GivesUp, Crash
<1>14. Prune \/ (\E mode \in Modes, entry, keep \in BOOLEAN : Start(mode, entry, keep)) => pc' \in Idle
  BY DEF Prune, Start
<1> QED BY <1>1, <1>2, <1>3, <1>4, <1>5, <1>6, <1>7, <1>8, <1>9, <1>10, <1>11, <1>12, <1>13, <1>14
        DEF Next, Elsewhere

\* A run or an undo that gives up leaves what the last manifest says backed.
LEMMA GivingUpSafe ==
  ASSUME Typed, Control, Saved, NEW f \in Files, Safe(f), ~Void', GivesUp,
         UNCHANGED <<src, dst, undo, plan, man, stamp, wrote, missed>>,
         pc \in {"restore", "restoreEntry", "rollback", "putBack", "saveTaken", "saveGone", "close"}
  PROVE  Safe(f)'
<1> HIDE DEF L
<1> USE DEF Idle, Copying
<1>1. pc' = "idle" /\ Backed(man, f)
  BY DEF GivesUp, Safe
<1>2. disk' = man \/ (~undoing /\ disk' = disk /\ man # disk)
  <2>1. undoing => man = disk
    BY DEF Control
  <2> QED BY <2>1 DEF GivesUp
<1>3. Backed(disk', f)
  <2>1. CASE disk' = man
    BY <1>1, <2>1
  <2>2. CASE ~undoing /\ disk' = disk /\ man # disk
    <3>1. plan.mode = "delete"
      BY <2>2 DEF GivesUp, Void
    <3> QED BY <2>2, <3>1 DEF Saved, Backed
  <2> QED BY <1>2, <2>1, <2>2
<1> QED BY <1>1, <1>3 DEF Safe, Backed

\* What is said of one file is kept by every step, unless the step excuses it.
LEMMA SafeNext ==
  ASSUME Typed, Control, Saved, UndoDir, OnDisk, SafeAll, [Next]_vars
  PROVE  SafeAll'
<1>0. Void => Void'
  BY VoidStays
<1> SUFFICES ASSUME ~Void', NEW f \in Files
             PROVE  Safe(f)'
  BY DEF SafeAll
<1>b. Safe(f) /\ ~Void
  BY <1>0 DEF SafeAll
<1>c. /\ src \in [Files -> Contents] /\ dst \in [Files -> Contents] /\ undo \in [Files -> Contents]
      /\ stamp \in [Files -> Contents] /\ man \in Manifests /\ k \in 1..(NFiles + 1)
  BY DEF Typed, TypeOK
<1>d. L(None, missed) = {}
  BY LinesOf
<1> HIDE DEF L
<1> USE DEF rest, history, bounds, work, Idle, Copying
<1>1. CASE UNCHANGED vars
  BY <1>b, <1>1 DEF Safe, Backed, vars
<1>2. CASE Exit \/ \E d \in {"src", "dst"} : Resume(d)
  BY <1>b, <1>2 DEF Exit, Resume, Safe, Backed
<1>3. CASE \E g \in Files : Write(g)
  <2> PICK g \in Files : Write(g)
    BY <1>3
  <2>1. writes + 1 \in Lines
    BY Basics DEF Write, Typed, Lines
  <2>2. /\ f # g => wrote'[f] = wrote[f] /\ src'[f] = src[f] /\ dst'[f] = dst[f]
        /\ f = g => wrote'[f] = wrote[f] \cup {writes + 1}
        /\ f = g /\ live = "src" => src'[f] = Add(src[f], writes + 1) /\ dst'[f] = dst[f]
        /\ f = g /\ live # "src" => dst'[f] = Add(dst[f], writes + 1) /\ src'[f] = src[f]
        /\ live \in {"src", "dst"}
    BY <1>c DEF Write, Typed, TypeOK
  <2>3. UNCHANGED <<undo, conf, plan, man, disk, stamp, pc, k, job>>
    BY DEF Write
  <2>4. CASE Unseen(live, g)
    <3>1. missed' = missed \cup {writes + 1}
      BY <2>4 DEF Write
    <3>2. \A c : L(c, missed') = L(c, missed) \ {writes + 1}
      BY <3>1 DEF L
    <3>3. /\ L(src'[f], missed') = L(src[f], missed) \ {writes + 1}
          /\ L(dst'[f], missed') = L(dst[f], missed) \ {writes + 1}
      <4>1. \A c \in Contents : L(Add(c, writes + 1), missed') = L(c, missed) \ {writes + 1}
        <5> TAKE c \in Contents
        <5>1. L(Add(c, writes + 1), missed') = L(c, missed') \cup ({writes + 1} \ missed')
          BY <2>1, LinesOf
        <5> QED BY <3>1, <3>2, <5>1
      <4> QED BY <1>c, <2>2, <3>2, <4>1
    <3>4. wrote'[f] \ missed' \subseteq (wrote[f] \ missed) \ {writes + 1}
      BY <2>2, <3>1
    <3> HIDE DEF Unseen
    <3> QED BY <1>b, <2>3, <3>2, <3>3, <3>4 DEF Safe, Backed
  <2>5. CASE ~Unseen(live, g) /\ f # g
    <3>1. missed' = missed
      BY <2>5 DEF Write
    <3> QED BY <1>b, <2>2, <2>3, <2>5, <3>1 DEF Safe, Backed
  <2>6. CASE ~Unseen(live, g) /\ f = g /\ live = "src"
    <3>1. missed' = missed
      BY <2>6 DEF Write
    <3>2. L(src[f], missed) \subseteq L(src'[f], missed) /\ dst'[f] = dst[f]
          /\ wrote'[f] \ missed \subseteq (wrote[f] \ missed) \cup L(src'[f], missed)
      <4>1. L(src'[f], missed) = L(src[f], missed) \cup ({writes + 1} \ missed)
        BY <1>c, <2>1, <2>2, <2>6, LinesOf
      <4> QED BY <2>2, <2>6, <4>1
    <3>3. ~(pc = "stamp" /\ k = f) /\ ~(pc = "stash" /\ k <= f)
          /\ ~(pc \in {"take", "lookAgain", "putBack"} /\ undo[f] # None)
      BY <2>6 DEF Unseen
    <3> QED BY <1>b, <1>c, <2>3, <2>6, <3>1, <3>2, <3>3, Basics DEF Safe, Backed
  <2>7. CASE ~Unseen(live, g) /\ f = g /\ live = "dst"
    <3>1. missed' = missed
      BY <2>7 DEF Write
    <3>2. L(dst[f], missed) \subseteq L(dst'[f], missed) /\ src'[f] = src[f]
          /\ wrote'[f] \ missed \subseteq (wrote[f] \ missed) \cup L(dst'[f], missed)
      <4>1. L(dst'[f], missed) = L(dst[f], missed) \cup ({writes + 1} \ missed)
        BY <1>c, <2>1, <2>2, <2>7, LinesOf
      <4> QED BY <2>2, <2>7, <4>1
    <3>3. pc \in Idle
      BY <2>7 DEF Unseen
    <3> QED BY <1>b, <2>3, <2>7, <3>1, <3>2, <3>3 DEF Safe, Backed
  <2> QED BY <2>2, <2>4, <2>5, <2>6, <2>7
<1>4. CASE Refuse
  BY <1>b, <1>4, Basics DEF Refuse, Control, Safe, Backed
<1>5. CASE Check
  <2>1. pc' = "stash" /\ f \in plan.files => L(src[f], missed) \subseteq L(dst[f], missed)
    <3>1. SUFFICES ASSUME pc' = "stash", f \in plan.files
                   PROVE  L(src[f], missed) \subseteq L(dst[f], missed)
      OBVIOUS
    <3>2. pc = "check" /\ plan.mode = "move" /\ src[f] = stamp[f]
      BY <1>5, <3>1 DEF Check, Fail, Unchanged
    <3> QED BY <1>b, <3>2 DEF Safe
  <2>2. /\ pc = "check" /\ pc' \in {"finish", "stash", "restore"}
        /\ UNCHANGED <<src, dst, undo, man, disk, stamp, plan, wrote, missed>>
    BY <1>5 DEF Check, Fail
  <2> QED BY <1>b, <2>1, <2>2 DEF Safe, Backed
<1>6. CASE LookAgain \/ Restored \/ RestoreEntry \/ RollbackEntry
  <2>1. /\ UNCHANGED <<src, dst, undo, plan, man, disk, stamp, wrote, missed>> /\ pc \notin Idle
        /\ pc' \in {"putBack", "saveTaken", "saveGone", "restoreEntry", "rollback", "close"}
        /\ pc' = "putBack" => pc = "lookAgain"
    BY <1>6 DEF LookAgain, Restored, RestoreEntry, RollbackEntry
  <2> QED BY <1>b, <2>1 DEF Safe, Backed
<1>7. CASE \E mode \in Modes, entry, keep \in BOOLEAN : Start(mode, entry, keep)
  BY <1>b, <1>d, <1>7 DEF Start, Control, AllHome, Safe, Backed
<1>8. CASE Begin
  <2>1. pc = "recheck" /\ pc' \in {"list", "copy"} /\ man' = Empty
        /\ UNCHANGED <<src, dst, undo, plan, stamp, wrote, missed>>
    BY <1>8 DEF Begin
  <2>2. stamp[f] = None
    BY <2>1 DEF Control, Saved
  <2> QED BY <1>b, <1>d, <2>1, <2>2, Basics DEF Safe, Backed
<1>9. CASE SkipFile
  <2>1. /\ UNCHANGED <<src, dst, undo, man, stamp, plan, disk, wrote, missed>>
        /\ pc \in {"copy", "stash", "take"}
        /\ \/ pc' = pc /\ k' = k + 1
           \/ pc = "copy" /\ pc' = "saveCopied"
           \/ pc = "stash" /\ pc' = "saveMoved"
           \/ pc = "take" /\ pc' = "lookAgain"
    BY <1>9 DEF SkipFile, AtEnd
  <2> QED BY <1>b, <1>c, <2>1, Basics DEF Safe, Backed
<1>10. CASE Meet
  <2>1. pc = "copy" /\ k \in Files /\ UNCHANGED <<src, stamp, plan, disk, wrote, missed>>
    BY <1>10 DEF Meet, At, Typed, TypeOK
  <2>2. CASE UNCHANGED <<dst, undo, man>>
    <3>1. pc' \in {"copy", "restore"}
      BY <1>10, <2>1, <2>2 DEF Meet, NextFile, Fail, Typed, TypeOK, Manifests
    <3> QED BY <1>b, <2>1, <2>2, <3>1 DEF Safe, Backed
  <2>3. CASE /\ plan.mode = "continue" /\ Behind(k) /\ pc' = "again" /\ k' = k
             /\ undo' = [undo EXCEPT ![k] = dst[k]] /\ dst' = [dst EXCEPT ![k] = None]
             /\ man' = [man EXCEPT !.moved = @ \cup {k}]
    <3>1. man'.created = man.created /\ man'.moved = man.moved \cup {k}
      BY <1>c, <2>3 DEF Manifests
    <3>2. CASE f # k
      BY <1>b, <1>c, <2>1, <2>3, <3>1, <3>2 DEF Safe, Backed
    <3>3. CASE f = k
      <4>1. undo[f] = None /\ man.created[f] = None
        BY <2>1, <3>3, Basics DEF UndoDir, Saved
      <4>2. undo'[f] = dst[f] /\ dst'[f] = None
        BY <1>c, <2>3, <3>3
      <4>3. L(dst[f], missed) \subseteq L(src[f], missed)
        BY <1>c, <2>3, <3>3, LinesOf DEF Behind
      <4> QED BY <1>b, <1>d, <2>1, <2>3, <3>1, <4>1, <4>2, <4>3 DEF Safe, Backed
    <3> QED BY <3>2, <3>3
  <2> QED BY <1>10, <2>2, <2>3 DEF Meet
<1>11a. CASE LookBeforeCopy
  <2>1. /\ pc \in {"copy", "again"} /\ UNCHANGED <<src, dst, undo, man, stamp, k, plan, disk, wrote, missed>>
        /\ \/ pc' = "place" /\ dst[k] = None
           \/ pc' = "restore"
    BY <1>11a DEF LookBeforeCopy, At, Fail
  <2>2. pc' = "place" => L(dst[k], missed) = {}
    BY <1>d, <2>1
  <2> QED BY <1>b, <2>1, <2>2 DEF Safe, Backed
<1>11. CASE Place
  <2>1. /\ k \in Files /\ dst' = [dst EXCEPT ![k] = src[k]] /\ pc' = "verify" /\ pc = "place"
        /\ UNCHANGED <<src, undo, man, stamp, k, plan, disk, wrote, missed>>
    BY <1>11 DEF Place, At, Typed, TypeOK
  <2>2. CASE f # k
    BY <1>b, <1>c, <2>1, <2>2 DEF Safe, Backed
  <2>3. CASE f = k
    <3>1. dst'[f] = src[f] /\ L(dst[f], missed) = {} /\ man.created[f] = None
      BY <1>b, <1>c, <2>1, <2>3, Basics DEF Saved, Safe
    <3>2. plan.mode = "move" => undo[f] = None
      BY <2>1 DEF UndoDir, AllHome
    <3>3. plan.mode = "move" => stamp[f] = None \/ L(stamp[f], missed) = {}
      BY <1>b, <2>1, <3>1 DEF Safe
    <3> QED BY <1>b, <1>d, <2>1, <3>1, <3>2, <3>3 DEF Safe, Backed
  <2> QED BY <2>2, <2>3
<1>12. CASE Verify
  <2>1. /\ pc = "verify" /\ k \in Files /\ UNCHANGED <<src, undo, stamp, k, plan, disk, wrote, missed>>
    BY <1>12 DEF Verify, At, Typed, TypeOK
  <2>2. CASE Matches(k) /\ man' = [man EXCEPT !.created[k] = dst[k]] /\ pc' = "stamp" /\ dst' = dst
    <3>1. /\ man'.moved = man.moved
          /\ f # k => man'.created[f] = man.created[f]
          /\ f = k => man'.created[f] = dst[f]
      BY <1>c, <2>2 DEF Manifests
    <3>2. plan.mode = "move" => dst[k] = src[k]
      BY <2>2 DEF Matches
    <3> QED BY <1>b, <2>1, <2>2, <3>1, <3>2 DEF Safe, Backed
  <2>3. CASE dst' = [dst EXCEPT ![k] = None] /\ pc' = "restore" /\ man' = man
    <3>1. CASE f # k
      BY <1>b, <1>c, <2>1, <2>3, <3>1 DEF Safe, Backed
    <3>2. CASE f = k
      <4>1. dst'[f] = None /\ man.created[f] = None /\ L(dst[f], missed) \subseteq L(src[f], missed)
        BY <1>b, <1>c, <2>1, <2>3, <3>2, Basics, SMTT(30) DEF Saved, Safe
      <4>2. plan.mode = "move" => undo[f] = None
        BY <2>1 DEF UndoDir, AllHome
      <4> QED BY <1>b, <1>d, <2>1, <2>3, <4>1, <4>2 DEF Safe, Backed
    <3> QED BY <3>1, <3>2
  <2> QED BY <1>12, <2>2, <2>3 DEF Verify, Fail
<1>13. CASE Stamp
  <2>1. /\ pc = "stamp" /\ k \in Files /\ stamp' = [stamp EXCEPT ![k] = src[k]] /\ pc' = "copy"
        /\ UNCHANGED <<src, dst, undo, man, plan, disk, wrote, missed>>
    BY <1>13 DEF Stamp, At, NextFile, Typed, TypeOK
  <2>2. IF f = k THEN stamp'[f] = src[f] ELSE stamp'[f] = stamp[f]
    BY <1>c, <2>1
  <2> QED BY <1>b, <2>1, <2>2 DEF Safe, Backed
<1>14. CASE Save
  <2>1. /\ UNCHANGED <<src, dst, undo, man, stamp, plan, wrote, missed>>
        /\ \/ pc \in {"saveCopied", "saveEntry"} /\ pc' \in {"entry", "check"}
           \/ pc \notin Idle /\ pc' \in {"drop", "finish", "close", "purge"}
           \/ pc = "saveListed" /\ pc' = "take" /\ undo[f] = None
    BY <1>14 DEF Save, After, UndoDir, AllHome
  <2> QED BY <1>b, <2>1 DEF Safe, Backed
<1>15. CASE AddEntry
  <2>1. /\ UNCHANGED <<src, dst, undo, disk, stamp, plan, wrote, missed>>
        /\ man'.created = man.created /\ man'.moved = man.moved
        /\ pc = "entry" /\ pc' \in {"saveEntry", "check"}
    BY <1>c, <1>15 DEF AddEntry, Manifests
  <2> QED BY <1>b, <2>1 DEF Safe, Backed
<1>16. CASE DropEntry
  <2>1. /\ UNCHANGED <<src, dst, undo, disk, stamp, plan, wrote, missed>>
        /\ man'.created = man.created /\ man'.moved = man.moved
        /\ pc = "drop" /\ pc' = "saveDropped"
    BY <1>c, <1>16 DEF DropEntry, Manifests
  <2> QED BY <1>b, <2>1 DEF Safe, Backed
<1>17. CASE Stash
  <2>1. /\ pc \in {"stash", "take"} /\ pc' = pc /\ k' = k + 1 /\ k \in Files
        /\ undo' = [undo EXCEPT ![k] = src[k]] /\ src' = [src EXCEPT ![k] = None]
        /\ UNCHANGED <<dst, disk, stamp, plan, wrote, missed>> /\ k \in plan.files
    BY <1>17 DEF Stash, At, Typed, TypeOK
  <2>2. man'.created = man.created /\ man'.moved = man.moved \cup {k}
    BY <1>c, <1>17 DEF Stash, Manifests
  <2>3. plan.mode # "continue" /\ (plan.mode = "move" => pc = "stash")
    BY <2>1 DEF Control, Stashing, Deleting
  <2>4. CASE f # k
    BY <1>b, <1>c, <2>1, <2>2, <2>3, <2>4, Basics DEF Safe, Backed
  <2>5. CASE f = k
    <3>1. undo'[f] = src[f] /\ src'[f] = None /\ undo[f] = None
      BY <1>c, <2>1, <2>5, Basics DEF UndoDir
    <3>2. plan.mode = "move" => L(src[f], missed) \subseteq L(dst[f], missed)
      BY <1>b, <2>1, <2>3, <2>5, Basics DEF Safe
    <3>3. wrote[f] \ missed \subseteq L(src[f], missed) \cup L(dst[f], missed)
      BY <1>b, <1>d, <3>1 DEF Safe
    <3>4. Backed(man, f)'
      <4>1. SUFFICES ASSUME man.created[f] # None
                     PROVE  \/ L(man.created[f], missed) \subseteq L(src'[f], missed')
                            \/ /\ plan'.mode = "move" /\ undo'[f] # None
                               /\ L(man.created[f], missed) \subseteq L(undo'[f], missed')
        BY <2>1, <2>2 DEF Backed
      <4>2. L(man.created[f], missed) \subseteq L(src[f], missed)
        BY <1>b, <2>1, <3>1, <4>1 DEF Safe, Backed
      <4>3. plan.mode = "move"
        BY <2>1, <4>1 DEF Saved, Control, Stashing, Deleting
      <4>4. CASE src[f] = None
        BY <1>d, <3>1, <4>2, <4>4
      <4>5. CASE src[f] # None
        BY <2>1, <3>1, <4>2, <4>3, <4>5
      <4> QED BY <4>4, <4>5
    <3> QED BY <1>b, <1>d, <2>1, <2>2, <2>3, <2>5, <3>1, <3>2, <3>3, <3>4, Basics DEF Safe, Backed
  <2> QED BY <2>4, <2>5

<1>18. CASE Finish
  <2>1. /\ UNCHANGED <<src, dst, undo, man, disk, stamp, plan, wrote, missed>> /\ pc = "finish" /\ pc' = "idle"
    BY <1>18 DEF Finish
  <2>2. ~disk.undone => disk = man
    BY <2>1, Basics DEF Saved
  <2> QED BY <1>b, <2>1, <2>2 DEF Safe, Backed
<1>19. CASE List
  <2>1. /\ UNCHANGED <<src, dst, undo, disk, stamp, wrote, missed>> /\ pc = "list"
        /\ pc' \in {"saveListed", "close"} /\ man'.created = man.created
        /\ plan'.mode = plan.mode /\ plan.mode = "delete"
    BY <1>c, <1>19 DEF List, Manifests, Control, Deleting, Typed, TypeOK
  <2>2. man.created[f] = None
    BY <2>1 DEF Saved
  <2> QED BY <1>b, <2>1, <2>2 DEF Safe, Backed
<1>20. CASE \E g \in Files : PutBack(g)
  <2> PICK g \in Files : PutBack(g)
    BY <1>20
  <2>1. /\ pc = "putBack" /\ pc' = pc /\ plan.mode = "delete" /\ man.created[f] = None
        /\ UNCHANGED <<dst, man, disk, stamp, plan, wrote, missed>>
    BY DEF PutBack, Control, Deleting, Saved
  <2>2. IF f = g THEN undo[f] # None /\ src'[f] = undo[f] /\ undo'[f] = None
                 ELSE src'[f] = src[f] /\ undo'[f] = undo[f]
    BY <1>c DEF PutBack, LastMoved
  <2>3. f = g => L(src[f], missed) = {}
    BY <1>b, <2>1, <2>2 DEF Safe
  <2> QED BY <1>b, <1>d, <2>1, <2>2, <2>3 DEF Safe, Backed
<1>21. CASE AllBack
  <2>1. /\ UNCHANGED <<src, dst, undo, disk, stamp, plan, wrote, missed>> /\ pc = "putBack"
        /\ pc' = "saveSkipped" /\ man'.created = man.created /\ plan.mode = "delete"
    BY <1>c, <1>21 DEF AllBack, Manifests, Control, Deleting
  <2>2. man.created[f] = None
    BY <2>1 DEF Saved
  <2> QED BY <1>b, <2>1, <2>2 DEF Safe, Backed
<1>22. CASE Purge
  BY <1>b, <1>22 DEF Purge, Safe, Backed
<1>23. CASE PurgeDir
  <2>1. Discarded'
    BY <1>23 DEF PurgeDir, Discarded, Control, Deleting, Ending, Saved
  <2> QED BY <2>1 DEF Void
<1>24. CASE \E g \in Files : Restore(g)
  <2> PICK g \in Files : Restore(g)
    BY <1>24
  <2>1. /\ pc = "restore" /\ pc' = pc /\ UNCHANGED <<man, disk, stamp, plan, wrote, missed>>
        /\ g \in man.moved /\ undo[g] # None /\ ~Taken(g)
    BY DEF Restore
  <2>2. CASE f # g
    <3>1. src'[f] = src[f] /\ dst'[f] = dst[f] /\ undo'[f] = undo[f]
      BY <1>c, <2>2 DEF Restore
    <3> QED BY <1>b, <2>1, <3>1 DEF Safe, Backed
  <2>3. CASE f = g /\ plan.mode = "continue"
    <3>1. src'[f] = src[f] /\ dst'[f] = undo[f] /\ undo'[f] = None
      BY <1>c, <2>3 DEF Restore
    <3>2. dst[f] = None \/ (man.created[f] # None /\ dst[f] = man.created[f])
      BY <2>1, <2>3 DEF Taken, Home, Mine
    <3>3. L(dst[f], missed) \subseteq L(src[f], missed)
      BY <1>b, <1>d, <2>1, <2>3, <3>2 DEF Safe, Backed
    <3> QED BY <1>b, <1>d, <2>1, <2>3, <3>1, <3>3 DEF Safe, Backed
  <2>4. CASE f = g /\ plan.mode # "continue"
    <3>1. dst'[f] = dst[f] /\ src'[f] = undo[f] /\ undo'[f] = None
      BY <1>c, <2>4 DEF Restore
    <3>2. src[f] = None
      BY <2>1, <2>4 DEF Taken, Home, Mine
    <3> QED BY <1>b, <1>d, <2>1, <2>4, <3>1, <3>2 DEF Safe, Backed
  <2> QED BY <2>2, <2>3, <2>4
<1>25. CASE \E g \in Files : Rollback(g)
  <2> PICK g \in Files : Rollback(g)
    BY <1>25
  <2>1. /\ pc = "rollback" /\ pc' = pc /\ UNCHANGED <<src, undo, man, disk, stamp, plan, wrote, missed>>
        /\ g \in Leftover /\ undo[f] = None
    BY <1>b DEF Rollback, UndoDir, AllHome
  <2>2. CASE f # g
    <3>1. dst'[f] = dst[f]
      BY <1>c, <2>2 DEF Rollback
    <3> QED BY <1>b, <2>1, <3>1 DEF Safe, Backed
  <2>3. CASE f = g
    <3>1. dst'[f] = None
      BY <1>c, <2>3 DEF Rollback
    <3>2. L(dst[f], missed) \subseteq L(man.created[f], missed) /\ man.created[f] # None
      BY <1>b, <2>1, <2>3 DEF Leftover, Safe
    <3>3. L(dst[f], missed) \subseteq L(src[f], missed)
      BY <1>b, <2>1, <3>2 DEF Safe, Backed
    <3> QED BY <1>b, <1>d, <2>1, <3>1, <3>3 DEF Safe, Backed
  <2> QED BY <2>2, <2>3
<1>26. CASE Close
  <2>1. /\ pc = "close" /\ pc' = "idle" /\ UNCHANGED <<src, dst, plan, stamp, wrote, missed>> /\ undo[f] = None
    BY <1>b, <1>26 DEF Close, UndoDir, AllHome
  <2>2. disk'.undone /\ undo'[f] = None
    BY <1>c, <1>26, <2>1, Basics DEF Close, Manifests
  <2> QED BY <1>b, <2>1, <2>2 DEF Safe, Backed
<1>27. CASE Stuck
  BY <1>b, <1>27, GivingUpSafe DEF Stuck
<1>28. CASE IoError
  <2>1. UNCHANGED <<src, dst, undo, plan, man, stamp, wrote, missed>>
    BY <1>28 DEF IoError
  <2>2. CASE pc' \in {"restore", "close", "putBack", "finish"} /\ pc \notin Idle
             /\ (pc' = "putBack" => pc = "take")
    BY <1>b, <2>1, <2>2 DEF Safe, Backed
  <2>3. CASE GivesUp /\ pc \in {"restore", "restoreEntry", "rollback", "putBack", "saveTaken",
                                "saveGone", "close"}
    BY <1>b, <2>1, <2>3, GivingUpSafe
  <2>4. CASE pc = "close" /\ ~undoing /\ pc' = "idle" /\ UNCHANGED disk
    <3>1. ~disk.undone => Backed(disk, f)
      <4>1. SUFFICES ASSUME ~disk.undone PROVE Backed(disk, f)
        OBVIOUS
      <4>2. disk.created = man.created \/ disk.created[f] = None
        BY <2>4, <4>1 DEF OnDisk, Blank
      <4> QED BY <1>b, <2>4, <4>2 DEF Safe, Backed
    <3> QED BY <1>b, <2>1, <2>4, <3>1 DEF Safe, Backed
  <2> QED BY <1>28, <2>2, <2>3, <2>4 DEF IoError, Fail, GoesOn
<1>29. CASE Undo
  <2>1. /\ UNCHANGED <<src, dst, undo, plan, disk, stamp, wrote, missed>> /\ man' = disk /\ pc = "idle"
        /\ pc' = "restore" /\ ~disk.undone /\ Undoable(disk)
    BY <1>29 DEF Undo
  <2>2. disk.created[f] # None => \/ plan.mode = "continue" /\ f \in disk.moved
                                  \/ L(dst[f], missed) \subseteq L(disk.created[f], missed)
    BY <1>d, <2>1 DEF Undoable, Back, Mine
  <2> QED BY <1>b, <2>1, <2>2 DEF Safe, Backed
<1>30. CASE Crash
  <2>1. /\ UNCHANGED <<src, dst, undo, plan, disk, stamp, wrote, missed>> /\ pc # "idle" /\ pc' = "idle"
        /\ torn' = (torn \/ (job = "running" /\ man # disk))
    BY <1>30 DEF Crash
  <2>2. ~disk.undone => Backed(disk, f)
    <3>1. SUFFICES ASSUME ~disk.undone PROVE Backed(disk, f)
      OBVIOUS
    <3>2. pc # "recheck"
      BY <3>1, Basics DEF Control
    <3>3. CASE man = disk
      BY <1>b, <2>1, <3>2, <3>3 DEF Safe
    <3>4. CASE man # disk
      <4>1. plan.mode = "delete"
        BY <2>1, <3>2, <3>4 DEF Control, Void
      <4> QED BY <4>1 DEF Saved, Backed
    <3> QED BY <3>3, <3>4
  <2> QED BY <1>b, <2>1, <2>2 DEF Safe, Backed
<1>31. CASE Prune
  <2>1. /\ UNCHANGED <<src, dst, plan, stamp, wrote, missed>> /\ pc = "idle" /\ pc' = pc /\ job # "none"
        /\ undo'[f] = None /\ disk' = NoManifest /\ job' = job
    BY <1>31 DEF Prune
  <2>2. L(undo[f], missed) \subseteq L(src[f], missed) \cup L(dst[f], missed)
    <3>1. CASE plan.mode \in {"continue", "move"}
      BY <1>b, <3>1 DEF Safe
    <3>2. CASE plan.mode = "copy"
      BY <1>d, <3>2 DEF UndoDir, AllHome
    <3>3. CASE plan.mode = "delete"
      <4>1. job \in {"failed", "undone"}
        BY <2>1, <3>3 DEF Void, Discarded
      <4> QED BY <1>b, <1>d, <4>1 DEF UndoDir, AllHome
    <3> QED BY <3>1, <3>2, <3>3 DEF Typed, TypeOK, Modes
  <2> QED BY <1>b, <1>d, <2>1, <2>2, Basics DEF Safe, Backed
<1> QED BY <1>1, <1>2, <1>3, <1>4, <1>5, <1>6, <1>7, <1>8, <1>9, <1>10, <1>11, <1>11a, <1>12,
           <1>13, <1>14, <1>15, <1>16, <1>17, <1>18, <1>19, <1>20, <1>21, <1>22, <1>23, <1>24, <1>25,
           <1>26, <1>27, <1>28, <1>29, <1>30, <1>31 DEF Next

---------------------------------------------------------------------------
(* What a failed job, and an undo, leave.                                  *)

\* A manifest that misses something was left by a death or by a run that gave
\* up, and the run does not go on after either.
TornEnds == torn => job \in {"incomplete", "crashed", "undone"}

\* Every line was there from the start or has been written: the next one is new.
Old(c) == c = None \/ c \subseteq 0..writes
Numbered ==
  \A f \in Files : /\ Old(src[f]) /\ Old(dst[f]) /\ Old(undo[f])
                   /\ Old(man.created[f]) /\ Old(disk.created[f])

\* The files of the plan are in the source, or in the undo directory.
SrcKept ==
  /\ job = "none" => plan.files \subseteq Present(src)
  /\ pc \in {"list", "saveListed"} => plan.files \subseteq Present(src)
  /\ plan.mode \in {"copy", "continue"} => plan.files \subseteq Present(src)
  /\ pc \in Copying => plan.files \subseteq Present(src)
  /\ pc \in {"stash", "take"} => \A f \in plan.files : f >= k => src[f] # None
  /\ ~Void => \A f \in plan.files :
       /\ pc \notin Idle => src[f] # None \/ undo[f] # None
       /\ pc = "idle" /\ ~disk.undone => src[f] # None \/ undo[f] # None
       /\ job \in {"failed", "undone"} => src[f] # None

\* What the manifest does not say of the entries did not happen to them.
Original == [from |-> TRUE, to |-> FALSE]
Noted(m) == (m.removed \/ conf.from) /\ (m.added \/ ~conf.to)
Entries ==
  /\ job = "none" => conf = Original
  /\ plan.mode = "delete" => conf = Original
  /\ ~Void => /\ pc \notin Idle => Noted(man)
              /\ pc = "idle" /\ ~disk.undone => Noted(disk)
              /\ pc = "rollback" => conf.from
              /\ pc = "close" => conf = Original
              /\ job \in {"failed", "undone"} => conf = Original

\* What the job made is not what it found there.
Swapped(m, f) == plan.mode = "continue" /\ f \in m.moved
Told(m, f) ==
  /\ f \in found => dst[f] # None \/ (Swapped(m, f) /\ undo[f] # None)
  /\ dst[f] # None => f \in found \/ m.created[f] # None \/ (pc = "verify" /\ k = f)
  /\ Swapped(m, f) => f \in found
Apart(f) ==
  /\ pc \notin Idle => /\ Told(man, f)
                       /\ f \in found /\ man.created[f] # None => Swapped(man, f)
  /\ pc = "verify" /\ k = f /\ f \in found => Swapped(man, f)
  /\ pc = "place" /\ k = f => dst[f] = None
  /\ pc \in Copying /\ Swapped(man, f) => undo[f] # None
  /\ pc = "idle" /\ ~disk.undone =>
       /\ Told(disk, f)
       /\ f \in found /\ disk.created[f] # None => Swapped(disk, f) \/ dst[f] # disk.created[f]
  /\ pc = "close" \/ job \in {"failed", "undone"} => (dst[f] # None <=> f \in found)
Target ==
  /\ pc = "verify" => dst[k] # None
  /\ ~Void => \A f \in Files : f \notin Unwatched \cup stray => Apart(f)

\* What the checks of an undo ask of a file, and that a job in which nobody
\* writes keeps to it.
Fit(m, f) ==
  /\ m.created[f] # None /\ ~Back(m, f) => dst[f] \in {None, m.created[f]}
  /\ f \in m.moved => /\ undo[f] = None \/ Home(f) = None \/ Mine(m, f)
                      /\ ~Missing(m, f)
FitNow(f) == /\ pc = "place" /\ k = f => dst[f] = None
             /\ IF pc = "verify" /\ k = f /\ plan.mode = "continue"
                THEN f \in man.moved => undo[f] # None
                ELSE Fit(man, f)
Ready == quiet /\ stray = {} /\ ~disk.undone =>
           \A f \in Files : Fit(disk, f) /\ (pc \notin Idle => FitNow(f))

\* All that is said of a job and of its undo.
FInv == /\ IInv /\ TornEnds /\ Numbered /\ SrcKept /\ Entries /\ Target /\ Ready

\* A death, or giving up, ends the run.
LEMMA TornEndsNext == Control /\ TornEnds /\ [Next]_vars => TornEnds'
<1> SUFFICES ASSUME Control, TornEnds, [Next]_vars PROVE TornEnds'
  OBVIOUS
<1> USE DEF rest, history, bounds, work, Idle
<1>1. CASE UNCHANGED <<torn, job>>
  BY <1>1 DEF TornEnds
<1>2. CASE Begin
  BY <1>2 DEF Begin, Control, TornEnds
<1>3. CASE Finish
  BY <1>3 DEF Finish, Control, TornEnds, Ending
<1>4. CASE Close
  BY <1>4 DEF Close, Control, TornEnds
<1>5. CASE Stuck
  BY <1>5 DEF Stuck, GivesUp, TornEnds
<1>6. CASE IoError
  <2>1. CASE pc = "close" /\ ~undoing /\ UNCHANGED torn
    BY <2>1 DEF Control, TornEnds
  <2> QED BY <1>1, <1>6, <2>1, IoErrorCases DEF GivesUp, TornEnds
<1>7. CASE Crash
  BY <1>7 DEF Crash, TornEnds
<1>8. CASE Elsewhere \/ \E f \in Files : PutBack(f) \/ Restore(f) \/ Rollback(f)
  BY <1>1, <1>8 DEF Elsewhere, Exit, Resume, Write, PutBack, Restore, Rollback
<1>9. CASE \/ \E mode \in Modes, entry, keep \in BOOLEAN : Start(mode, entry, keep)
           \/ Save \/ Purge \/ List \/ Prune
  BY <1>1, <1>9 DEF Start, Save, Purge, List, Prune
<1>10. CASE Refuse \/ Check \/ LookAgain \/ Restored \/ RestoreEntry \/ RollbackEntry \/ SkipFile
            \/ Meet \/ LookBeforeCopy \/ Place \/ Verify \/ Stamp \/ AddEntry \/ Stash
            \/ DropEntry \/ AllBack \/ PurgeDir \/ Undo
  BY <1>1, <1>10 DEF Refuse, Check, Fail, LookAgain, Restored, RestoreEntry, RollbackEntry,
     SkipFile, Meet,
     LookBeforeCopy, Place, Verify, Stamp, AddEntry, Stash, DropEntry, AllBack, PurgeDir, Undo
<1>11. CASE UNCHANGED vars
  BY <1>1, <1>11 DEF vars
<1> QED BY <1>2, <1>3, <1>4, <1>5, <1>6, <1>7, <1>8, <1>9, <1>10, <1>11 DEF Next, Elsewhere

\* The entries of .claude.json change only with the manifest.
LEMMA EntriesNext ==
  ASSUME Typed, Control, Saved, TornEnds, Entries, [Next]_vars
  PROVE  Entries'
<1>0. Void => Void'
  BY VoidStays
<1>a. /\ conf \in [from : BOOLEAN, to : BOOLEAN] /\ man \in Manifests /\ disk \in Manifests
      /\ Empty.removed = FALSE /\ Empty.added = FALSE
  BY DEF Typed, TypeOK, Empty
<1> USE DEF rest, history, bounds, work, Copying, Stashing, Deleting, Ending, Idle, Original, Noted
<1>1. CASE UNCHANGED vars
  BY <1>0, <1>1 DEF Entries, vars
<1>2. CASE Elsewhere
  BY <1>0, <1>2 DEF Elsewhere, Exit, Resume, Write, Entries
<1>3. CASE Refuse \/ Check \/ LookAgain \/ Restored
  BY <1>0, <1>3 DEF Refuse, Check, Fail, LookAgain, Restored, Entries, Control
<1>4. CASE RestoreEntry \/ RollbackEntry
  BY <1>0, <1>a, <1>4 DEF RestoreEntry, RollbackEntry, Entries, Control
<1>5. CASE \E mode \in Modes, entry, keep \in BOOLEAN : Start(mode, entry, keep)
  BY <1>0, <1>5 DEF Start, Control, Entries
<1>6. CASE Begin
  BY <1>0, <1>a, <1>6 DEF Begin, Control, Entries
<1>7. CASE SkipFile
  BY <1>0, <1>7 DEF SkipFile, AtEnd, Entries, Control
<1>8. CASE Meet
  <2>1. man'.removed = man.removed /\ man'.added = man.added
    BY <1>a, <1>8 DEF Meet, Manifests
  <2> QED BY <1>0, <1>8, <2>1 DEF Meet, At, Fail, NextFile, Control, Entries
<1>9. CASE LookBeforeCopy \/ Place
  BY <1>0, <1>9 DEF LookBeforeCopy, Place, At, Fail, Control, Entries
<1>10. CASE Verify
  <2>1. man'.removed = man.removed /\ man'.added = man.added
    BY <1>a, <1>10 DEF Verify, Manifests
  <2> QED BY <1>0, <1>10, <2>1 DEF Verify, At, Fail, Control, Entries
<1>11. CASE Stamp
  BY <1>0, <1>11 DEF Stamp, At, NextFile, Control, Entries
<1>12. CASE Save
  BY <1>0, <1>12 DEF Save, After, Control, Entries
<1>13. CASE AddEntry
  <2>1. CASE UNCHANGED <<conf, man>>
    BY <1>0, <1>13, <2>1 DEF AddEntry, Control, Entries
  <2>2. CASE plan.entry /\ ~conf.to /\ conf' = [conf EXCEPT !.to = TRUE]
             /\ man' = [man EXCEPT !.added = TRUE]
    <3>1. man'.added /\ man'.removed = man.removed /\ conf'.from = conf.from
      BY <1>a, <2>2 DEF Manifests
    <3>2. plan.mode # "delete"
      BY <1>13 DEF AddEntry, Control
    <3> QED BY <1>0, <1>13, <3>1, <3>2 DEF AddEntry, Control, Entries
  <2> QED BY <1>13, <2>1, <2>2 DEF AddEntry
<1>14. CASE Stash
  <2>1. man'.removed = man.removed /\ man'.added = man.added
    BY <1>a, <1>14 DEF Stash, Manifests
  <2> QED BY <1>0, <1>14, <2>1 DEF Stash, At, Control, Entries
<1>15. CASE DropEntry
  BY <1>0, <1>a, <1>15 DEF DropEntry, Control, Entries, Manifests
<1>16. CASE Finish
  BY <1>0, <1>16, Basics DEF Finish, Control, Saved, Entries
<1>17. CASE List
  <2>1. man'.removed = man.removed /\ man'.added = man.added /\ plan'.mode = plan.mode
    BY <1>a, <1>17 DEF List, Manifests, Typed, TypeOK
  <2> QED BY <1>0, <1>17, <2>1 DEF List, Control, Entries
<1>18. CASE \E f \in Files : PutBack(f) \/ Restore(f) \/ Rollback(f)
  BY <1>0, <1>18 DEF PutBack, Restore, Rollback, Control, Entries
<1>19. CASE AllBack
  <2>1. man'.removed = man.removed /\ man'.added = man.added
    BY <1>a, <1>19 DEF AllBack, Manifests
  <2> QED BY <1>0, <1>19, <2>1 DEF AllBack, Control, Entries
<1>20. CASE Purge \/ PurgeDir
  BY <1>0, <1>20, Basics DEF Purge, PurgeDir, Control, Entries
<1>21. CASE Close
  BY <1>0, <1>21 DEF Close, Control, Entries
<1>22. CASE Stuck
  <2>1. /\ pc \notin Idle /\ pc' = "idle" /\ job' \notin {"none", "undone"}
        /\ job' = "failed" => job = "failed"
        /\ ~Void' => disk' = man
    BY <1>22, GivingUpSaves DEF Stuck
  <2> QED BY <1>0, <1>22, <2>1 DEF Stuck, Entries
<1>23. CASE IoError
  <2>1. UNCHANGED <<conf, plan, man>>
    BY <1>23, IoErrorCases
  <2>2. CASE UNCHANGED <<disk, job>> /\ pc' \in {"restore", "close", "putBack", "finish"}
           /\ pc \notin Idle
             /\ (pc' = "close" => plan.mode = "delete")
    BY <1>0, <2>1, <2>2 DEF Control, Entries
  <2>3. CASE GivesUp /\ (pc = "close" => undoing)
             /\ pc \in {"restore", "restoreEntry", "rollback", "putBack", "saveTaken", "saveGone",
                        "close"}
    <3>1. /\ pc \notin Idle /\ pc' = "idle" /\ job' \notin {"none", "undone"}
          /\ job' = "failed" => job = "failed"
          /\ ~Void' => disk' = man
      BY <2>1, <2>3, GivingUpSaves
    <3> QED BY <1>0, <2>1, <3>1 DEF Entries
  <2>4. CASE pc' = GoesOn[pc] /\ UNCHANGED <<disk, job>>
             /\ pc \in {"saveListed", "take", "saveSkipped", "purge", "purgeDir"}
    BY <2>2, <2>4 DEF GoesOn, Control
  <2>5. CASE pc = "close" /\ ~undoing /\ pc' = "idle" /\ job' = "failed" /\ UNCHANGED disk
    BY <1>0, <1>a, <2>1, <2>5 DEF Control, Entries
  <2> QED BY <1>23, <2>2, <2>3, <2>4, <2>5, IoErrorCases
<1>24. CASE Undo
  BY <1>0, <1>24 DEF Undo, Control, Entries
<1>25. CASE Crash
  <2>1. UNCHANGED <<conf, plan, disk>> /\ pc' = "idle" /\ job' # "undone"
        /\ (job' = "none" => job = "none") /\ (job' = "failed" => job = "failed")
    BY <1>25 DEF Crash, Control
  <2>2. ~Void' /\ ~disk.undone => Noted(disk)
    <3> SUFFICES ASSUME ~Void', ~disk.undone PROVE Noted(disk)
      OBVIOUS
    <3>1. CASE disk = man
      BY <1>0, <1>25, <3>1, DyingSaved DEF Entries
    <3>2. CASE disk # man
      <4>1. plan.mode = "delete"
        BY <1>25, <3>2, DyingSaved
      <4> QED BY <4>1 DEF Entries
    <3> QED BY <3>1, <3>2
  <2> QED BY <1>0, <2>1, <2>2 DEF Entries
<1>26. CASE Prune
  BY <1>0, <1>26, Basics DEF Prune, Control, Entries
<1> QED BY <1>1, <1>2, <1>3, <1>4, <1>5, <1>6, <1>7, <1>8, <1>9, <1>10, <1>11, <1>12, <1>13, <1>14,
           <1>15, <1>16, <1>17, <1>18, <1>19, <1>20, <1>21, <1>22, <1>23, <1>24, <1>25, <1>26
        DEF Next, Elsewhere

\* Contents are moved, copied and removed, and grow by the next line.
LEMMA NumberedNext ==
  ASSUME Typed, Numbered, [Next]_vars
  PROVE  Numbered'
<1>a. /\ src \in [Files -> Contents] /\ dst \in [Files -> Contents] /\ undo \in [Files -> Contents]
      /\ man \in Manifests /\ disk \in Manifests /\ writes \in Nat
  BY DEF Typed, TypeOK
<1>b. Old(None) /\ \A f \in Files : Empty.created[f] = None /\ NoManifest.created[f] = None
  BY Basics DEF Old
<1> USE DEF rest, history, bounds, work
<1>1. CASE UNCHANGED <<src, dst, undo, man, disk, writes>>
  BY <1>1 DEF Numbered, Old
<1>2. CASE \E f \in Files : Write(f)
  <2> PICK f \in Files : Write(f)
    BY <1>2
  <2>1. /\ UNCHANGED <<undo, man, disk>> /\ writes' = writes + 1
        /\ \/ src' = [src EXCEPT ![f] = Add(@, writes + 1)] /\ dst' = dst
           \/ dst' = [dst EXCEPT ![f] = Add(@, writes + 1)] /\ src' = src
    BY DEF Write
  <2>2. \A c : Old(c) => Old(c)' /\ (c # None => c \cup {writes + 1} \subseteq 0..writes')
    BY <1>a, <2>1 DEF Old
  <2>3. \A c : Old(c) => Add(c, writes + 1) = None \/ Add(c, writes + 1) \subseteq 0..writes'
    BY <1>a, <2>1, <2>2 DEF Add
  <2> QED BY <1>a, <2>1, <2>2, <2>3 DEF Numbered, Old
<1>3. CASE Begin
  BY <1>b, <1>3 DEF Begin, Numbered, Old
<1>4. CASE Meet
  <2>1. /\ UNCHANGED <<src, disk, writes>> /\ man'.created = man.created /\ k \in Files
        /\ \/ UNCHANGED <<dst, undo>>
           \/ undo' = [undo EXCEPT ![k] = dst[k]] /\ dst' = [dst EXCEPT ![k] = None]
    BY <1>a, <1>4 DEF Meet, At, Manifests, Typed, TypeOK
  <2> QED BY <1>a, <1>b, <2>1 DEF Numbered, Old
<1>5. CASE Place
  BY <1>a, <1>b, <1>5 DEF Place, At, Numbered, Old
<1>6. CASE Verify
  <2>1. /\ UNCHANGED <<src, undo, disk, writes>> /\ k \in Files
        /\ \/ dst' = dst /\ man' = [man EXCEPT !.created[k] = dst[k]]
           \/ dst' = [dst EXCEPT ![k] = None] /\ man' = man
    BY <1>6 DEF Verify, At, Typed, TypeOK
  <2>2. CASE dst' = dst /\ man' = [man EXCEPT !.created[k] = dst[k]]
    <3>1. \A f \in Files : man'.created[f] = man.created[f] \/ man'.created[f] = dst[f]
      BY <1>a, <2>1, <2>2 DEF Manifests
    <3> QED BY <2>1, <2>2, <3>1 DEF Numbered, Old
  <2>3. CASE dst' = [dst EXCEPT ![k] = None] /\ man' = man
    BY <1>a, <1>b, <2>1, <2>3 DEF Numbered, Old
  <2> QED BY <2>1, <2>2, <2>3
<1>7. CASE Save
  BY <1>7 DEF Save, Numbered, Old
<1>8. CASE AddEntry \/ DropEntry \/ List \/ AllBack
  <2>1. man'.created = man.created /\ UNCHANGED <<src, dst, undo, disk, writes>>
    BY <1>a, <1>8 DEF AddEntry, DropEntry, List, AllBack, Manifests
  <2> QED BY <2>1 DEF Numbered, Old
<1>9. CASE Stash
  <2>1. /\ man'.created = man.created /\ UNCHANGED <<dst, disk, writes>>
        /\ undo' = [undo EXCEPT ![k] = src[k]] /\ src' = [src EXCEPT ![k] = None]
    BY <1>a, <1>9 DEF Stash, Manifests
  <2> QED BY <1>a, <1>b, <2>1 DEF Numbered, Old
<1>10. CASE \E f \in Files : PutBack(f) \/ Restore(f) \/ Rollback(f)
  <2> PICK f \in Files : PutBack(f) \/ Restore(f) \/ Rollback(f)
    BY <1>10
  <2>1. UNCHANGED <<man, disk, writes>>
    BY DEF PutBack, Restore, Rollback
  <2>2. \A g \in Files : /\ src'[g] \in {src[g], undo[g]}
                         /\ dst'[g] \in {dst[g], undo[g], None}
                         /\ undo'[g] \in {undo[g], None}
    BY <1>a DEF PutBack, Restore, Rollback
  <2> QED BY <1>b, <2>1, <2>2 DEF Numbered, Old
<1>11. CASE Purge \/ PurgeDir \/ Prune
  BY <1>b, <1>11 DEF Purge, PurgeDir, Prune, Numbered, Old
<1>12. CASE Close
  <2>1. /\ UNCHANGED <<src, dst, man, writes>>
        /\ \/ disk' = NoManifest /\ undo' = [f \in Files |-> None]
           \/ disk'.created = man.created /\ undo' = undo
    BY <1>a, <1>12 DEF Close, Manifests
  <2> QED BY <1>b, <2>1 DEF Numbered, Old
<1>13. CASE Stuck \/ IoError
  <2>1. UNCHANGED <<src, dst, undo, man, writes>> /\ disk' \in {disk, man}
    BY <1>13, IoErrorCases DEF Stuck, GivesUp
  <2> QED BY <2>1 DEF Numbered, Old
<1>14. CASE Undo
  BY <1>14 DEF Undo, Numbered, Old
<1>15. CASE Crash
  BY <1>b, <1>15 DEF Crash, Numbered, Old
<1>16. CASE Exit \/ \E d \in {"src", "dst"} : Resume(d)
  BY <1>1, <1>16 DEF Exit, Resume
<1>17. CASE \E mode \in Modes, entry, keep \in BOOLEAN : Start(mode, entry, keep)
  BY <1>1, <1>17 DEF Start
<1>18. CASE Refuse \/ LookBeforeCopy \/ SkipFile \/ Stamp \/ Check \/ Finish \/ LookAgain
            \/ Restored \/ RestoreEntry
            \/ RollbackEntry
  BY <1>1, <1>18 DEF Refuse, LookBeforeCopy, SkipFile, Stamp, Check, Finish, LookAgain, Restored,
     RestoreEntry,
     RollbackEntry
<1>19. CASE UNCHANGED vars
  BY <1>1, <1>19 DEF vars
<1> QED BY <1>2, <1>3, <1>4, <1>5, <1>6, <1>7, <1>8, <1>9, <1>10, <1>11, <1>12, <1>13, <1>14, <1>15,
           <1>16, <1>17, <1>18, <1>19 DEF Next

\* A file leaves the source only for the undo directory, and goes back there
\* before the job is over.
LEMMA SrcKeptNext ==
  ASSUME Typed, Control, Saved, UndoDir, SrcKept, [Next]_vars
  PROVE  SrcKept'
<1>0. Void => Void'
  BY VoidStays
<1>a. /\ src \in [Files -> Contents] /\ dst \in [Files -> Contents] /\ undo \in [Files -> Contents]
      /\ man \in Manifests /\ disk \in Manifests /\ plan.files \subseteq Files
      /\ k \in 1..(NFiles + 1)
  BY DEF Typed, TypeOK
<1> USE DEF rest, history, bounds, work, Copying, Stashing, Deleting, Ending, Idle, AllHome, Present
<1>1. CASE UNCHANGED vars
  BY <1>0, <1>1 DEF SrcKept, vars
<1>2. CASE Exit \/ \E d \in {"src", "dst"} : Resume(d)
  BY <1>0, <1>2 DEF Exit, Resume, SrcKept
<1>3. CASE \E f \in Files : Write(f)
  <2> PICK f \in Files : Write(f)
    BY <1>3
  <2>1. UNCHANGED <<undo, plan, disk, job, pc, k>>
    BY DEF Write
  <2>2. \A g \in Files : src[g] # None => src'[g] # None
    <3>1. writes + 1 \in Lines /\ writes \in Nat
      BY Basics DEF Write, Typed, Lines
    <3>2. \A c \in Contents : c # None => Add(c, writes + 1) \in SUBSET Lines
      BY <3>1 DEF Add, Contents
    <3>3. \A c \in Contents : c # None => Add(c, writes + 1) # None
      BY <3>2, Basics
    <3> QED BY <1>a, <3>3 DEF Write
  <2> QED BY <1>0, <1>a, <2>1, <2>2 DEF SrcKept
<1>4. CASE Refuse \/ Check \/ LookAgain \/ RestoreEntry \/ RollbackEntry
  BY <1>0, <1>a, <1>4 DEF Refuse, Check, Fail, LookAgain, RestoreEntry, RollbackEntry, SrcKept,
     Control
<1>5. CASE \E mode \in Modes, entry, keep \in BOOLEAN : Start(mode, entry, keep)
  BY <1>0, <1>5 DEF Start, Control, SrcKept
<1>6. CASE Begin
  BY <1>0, <1>a, <1>6 DEF Begin, Control, SrcKept
<1>7. CASE SkipFile
  BY <1>0, <1>a, <1>7, Basics DEF SkipFile, AtEnd, Control, SrcKept
<1>8. CASE Meet
  <2>1. \A f \in Files : undo[f] # None => undo'[f] # None
    BY <1>a, <1>8 DEF Meet, At
  <2> QED BY <1>0, <1>a, <1>8, <2>1 DEF Meet, At, Fail, NextFile, Control, SrcKept
<1>9. CASE LookBeforeCopy \/ Place
  BY <1>0, <1>9 DEF LookBeforeCopy, Place, At, Fail, Control, SrcKept
<1>10. CASE Verify
  BY <1>0, <1>10 DEF Verify, At, Fail, Control, SrcKept
<1>11. CASE Stamp
  BY <1>0, <1>11 DEF Stamp, At, NextFile, Control, SrcKept
<1>12. CASE Save
  BY <1>0, <1>12 DEF Save, After, Control, SrcKept
<1>13. CASE AddEntry \/ DropEntry \/ AllBack
  BY <1>0, <1>13 DEF AddEntry, DropEntry, AllBack, Control, SrcKept
<1>14. CASE Stash
  <2>1. /\ pc \in {"stash", "take"} /\ pc' = pc /\ UNCHANGED <<plan, disk, job>> /\ k' = k + 1
        /\ k \in Files /\ k \in plan.files /\ src[k] # None /\ plan.mode \in {"move", "delete"}
    BY <1>a, <1>14 DEF Stash, At, SrcKept, Control
  <2>2. /\ undo'[k] # None
        /\ \A f \in Files : f # k => src'[f] = src[f] /\ undo'[f] = undo[f]
    BY <1>a, <1>14, <2>1 DEF Stash
  <2> QED BY <1>0, <1>a, <2>1, <2>2, Basics DEF SrcKept, Control
<1>15. CASE Finish
  BY <1>0, <1>15, Basics DEF Finish, Control, Saved, SrcKept
<1>16. CASE List
  BY <1>0, <1>16 DEF List, Control, SrcKept, UndoDir, Typed, TypeOK
<1>17. CASE Restored
  BY <1>0, <1>17 DEF Restored, Control, SrcKept
<1>18. CASE \E f \in Files : PutBack(f) \/ Restore(f) \/ Rollback(f)
  <2> PICK f \in Files : PutBack(f) \/ Restore(f) \/ Rollback(f)
    BY <1>18
  <2>1. UNCHANGED <<plan, disk, job, pc, k>> /\ pc \in {"putBack", "restore", "rollback"}
    BY DEF PutBack, Restore, Rollback
  <2>2. \A g \in Files : /\ src[g] # None => src'[g] # None
                         /\ undo[g] # None /\ plan.mode # "continue" =>
                              src'[g] # None \/ undo'[g] # None
    BY <1>a DEF PutBack, Restore, Rollback, LastMoved
  <2> QED BY <1>0, <1>a, <2>1, <2>2 DEF SrcKept, Control
<1>20. CASE Purge \/ PurgeDir
  BY <1>0, <1>a, <1>20, Basics DEF Purge, PurgeDir, Control, Saved, SrcKept, Void, Discarded
<1>21. CASE Close
  <2>1. disk'.undone
    BY <1>a, <1>21, Basics DEF Close, Manifests
  <2> QED BY <1>0, <1>a, <1>21, <2>1 DEF Close, Control, UndoDir, SrcKept
<1>22. CASE Stuck
  <2>1. /\ pc \notin Idle /\ pc' = "idle" /\ job' \notin {"none", "undone"}
        /\ job' = "failed" => job = "failed"
        /\ ~Void' => disk' = man
        /\ UNCHANGED <<src, undo, plan>>
    BY <1>22, GivingUpSaves DEF Stuck
  <2> QED BY <1>0, <1>a, <2>1 DEF SrcKept
<1>23. CASE IoError
  <2>1. UNCHANGED <<src, undo, plan>>
    BY <1>23, IoErrorCases
  <2>2. CASE UNCHANGED <<disk, job>> /\ pc' \in {"restore", "close", "putBack", "finish"}
           /\ pc \notin Idle
    BY <1>0, <1>a, <2>1, <2>2 DEF Control, SrcKept
  <2>3. CASE GivesUp /\ (pc = "close" => undoing)
             /\ pc \in {"restore", "restoreEntry", "rollback", "putBack", "saveTaken", "saveGone",
                        "close"}
    <3>1. /\ pc \notin Idle /\ pc' = "idle" /\ job' \notin {"none", "undone"}
          /\ job' = "failed" => job = "failed"
          /\ ~Void' => disk' = man
      BY <2>1, <2>3, GivingUpSaves
    <3> QED BY <1>0, <1>a, <2>1, <3>1 DEF SrcKept
  <2>4. CASE pc' = GoesOn[pc] /\ UNCHANGED <<disk, job>>
             /\ pc \in {"saveListed", "take", "saveSkipped", "purge", "purgeDir"}
    BY <2>2, <2>4 DEF GoesOn
  <2>5. CASE pc = "close" /\ ~undoing /\ pc' = "idle" /\ job' = "failed" /\ UNCHANGED disk
    BY <1>0, <1>a, <2>1, <2>5 DEF Control, UndoDir, SrcKept
  <2> QED BY <1>23, <2>2, <2>3, <2>4, <2>5, IoErrorCases
<1>24. CASE Undo
  BY <1>0, <1>a, <1>24 DEF Undo, Control, SrcKept
<1>25. CASE Crash
  <2>1. UNCHANGED <<src, undo, plan, disk>> /\ pc' = "idle" /\ job' # "undone"
        /\ (job' = "none" => job = "none") /\ (job' = "failed" => job = "failed")
    BY <1>25 DEF Crash, Control
  <2>2. ~Void' /\ ~disk.undone => pc \notin Idle
    BY <1>25, DyingSaved
  <2> QED BY <1>0, <1>a, <2>1, <2>2 DEF SrcKept
<1>26. CASE Prune
  BY <1>0, <1>a, <1>26, Basics DEF Prune, Control, SrcKept
<1> QED BY <1>1, <1>2, <1>3, <1>4, <1>5, <1>6, <1>7, <1>8, <1>9, <1>10, <1>11, <1>12, <1>13, <1>14,
           <1>15, <1>16, <1>17, <1>18, <1>20, <1>21, <1>22, <1>23, <1>24, <1>25, <1>26
        DEF Next

\* A line that is written makes a file of nothing, and changes what it is.
LEMMA NewLine ==
  ASSUME Typed, Numbered, NEW g \in Files, Write(g)
  PROVE  /\ src[g] # None => src'[g] # None
         /\ dst[g] # None => dst'[g] # None
         /\ live = "dst" => dst'[g] # None /\ dst'[g] # disk.created[g]
<1>1. /\ src \in [Files -> Contents] /\ dst \in [Files -> Contents] /\ writes \in Nat
      /\ writes + 1 \in Lines
  BY Basics DEF Typed, TypeOK, Write, Lines
<1>2. \A c \in Contents : Add(c, writes + 1) \in SUBSET Lines
  BY <1>1 DEF Add, Contents
<1>3. \A c \in Contents : Add(c, writes + 1) # None /\ writes + 1 \in Add(c, writes + 1)
  <2> TAKE c \in Contents
  <2>1. Add(c, writes + 1) # None
    BY <1>2, Basics
  <2> QED BY <2>1 DEF Add
<1>4. disk.created[g] = None \/ writes + 1 \notin disk.created[g]
  BY <1>1 DEF Numbered, Old
<1> QED BY <1>1, <1>3, <1>4 DEF Write

\* A placed copy is there when it is verified.
LEMMA PlacedNext ==
  ASSUME Typed, Control, Numbered, SrcKept, pc = "verify" => dst[k] # None, [Next]_vars
  PROVE  (pc = "verify" => dst[k] # None)'
<1> SUFFICES ASSUME pc' = "verify" PROVE dst'[k'] # None
  OBVIOUS
<1>a. dst \in [Files -> Contents] /\ k \in 1..(NFiles + 1) /\ (pc = "verify" => k \in Files)
  BY DEF Typed, TypeOK
<1> USE DEF rest, history, bounds, work
<1>1. CASE UNCHANGED <<dst, k, pc>>
  BY <1>1
<1>2. CASE \E f \in Files : Write(f)
  <2> PICK f \in Files : Write(f)
    BY <1>2
  <2>1. dst[f] # None => dst'[f] # None
    BY NewLine
  <2>2. \A g \in Files : g # f => dst'[g] = dst[g]
    BY <1>a DEF Write
  <2>3. pc' = pc /\ k' = k
    BY DEF Write
  <2> QED BY <1>a, <2>1, <2>2, <2>3
<1>3. CASE Place
  <2>1. k \in Files /\ src[k] # None /\ k' = k /\ dst'[k] = src[k]
    BY <1>a, <1>3 DEF Place, At, SrcKept, Copying, Present
  <2> QED BY <2>1
<1>4. pc' = "verify" => \/ Place \/ UNCHANGED <<dst, k, pc>> \/ \E f \in Files : Write(f)
  <2>1. CASE UNCHANGED vars \/ Exit \/ \E d \in {"src", "dst"} : Resume(d)
    BY <2>1 DEF vars, Exit, Resume
  <2>2. CASE Refuse \/ Check \/ LookAgain \/ Restored \/ RestoreEntry \/ RollbackEntry \/ SkipFile
           \/ Meet \/ LookBeforeCopy \/ Verify \/ Stamp \/ AddEntry \/ Stash
           \/ DropEntry \/ AllBack \/ PurgeDir \/ Undo
    BY <2>2 DEF Refuse, Check, Fail, LookAgain, Restored, RestoreEntry, RollbackEntry, SkipFile,
       Meet,
     LookBeforeCopy, Verify, Stamp, AddEntry, Stash, DropEntry, AllBack, PurgeDir, Undo, At,
     NextFile, Fail, AtEnd
  <2>3. CASE \E f \in Files : PutBack(f) \/ Restore(f) \/ Rollback(f)
    BY <2>3 DEF PutBack, Restore, Rollback
  <2>4. CASE Begin \/ Save \/ Purge \/ Finish \/ List \/ Close \/ Stuck \/ Crash \/ Prune
           \/ \E mode \in Modes, entry, keep \in BOOLEAN : Start(mode, entry, keep)
    BY <2>4 DEF Begin, Save, After, Purge, Finish, List, Close, Stuck, GivesUp, Crash, Prune, Start
  <2>5. CASE IoError
    BY <2>5, IoErrorCases DEF GivesUp, GoesOn
  <2> QED BY <1>2, <1>3, <2>1, <2>2, <2>3, <2>4, <2>5 DEF Next
<1> QED BY <1>1, <1>2, <1>3, <1>4

\* What the job found in the target is neither taken for its own nor left in
\* the undo directory.
LEMMA TargetNext ==
  ASSUME Typed, Control, Saved, UndoDir, OnDisk, Numbered, SrcKept, Target, [Next]_vars
  PROVE  Target'
<1>0. Void => Void'
  BY VoidStays
<1>p. (pc = "verify" => dst[k] # None)'
  BY PlacedNext DEF Target
<1> SUFFICES ASSUME ~Void', NEW f \in Files, f \notin Unwatched', f \notin stray'
             PROVE  Apart(f)'
  BY <1>p DEF Target
<1>b. Apart(f) /\ ~Void
  BY <1>0, MarksGrow DEF Target
<1>a. /\ src \in [Files -> Contents] /\ dst \in [Files -> Contents] /\ undo \in [Files -> Contents]
      /\ man \in Manifests /\ disk \in Manifests /\ plan.files \subseteq Files
      /\ k \in 1..(NFiles + 1) /\ (pc \in {"again", "place", "verify", "stamp"} => k \in Files)
  BY DEF Typed, TypeOK
<1> USE DEF rest, history, bounds, work, Idle, Swapped, Told
<1>1. CASE UNCHANGED vars
  BY <1>b, <1>1 DEF Apart, Copying, vars
<1>2. CASE Exit \/ \E d \in {"src", "dst"} : Resume(d)
  BY <1>b, <1>2 DEF Exit, Resume, Apart, Copying
<1>3. CASE \E g \in Files : Write(g)
  <2> PICK g \in Files : Write(g)
    BY <1>3
  <2>1. UNCHANGED <<undo, plan, man, disk, job, pc, k>>
    BY DEF Write
  <2>2. CASE dst'[f] = dst[f] /\ (f \in found' <=> f \in found)
    BY <1>b, <2>1, <2>2 DEF Apart, Copying
  <2>3. CASE live = "dst" /\ f = g
    <3>1. pc \in Idle
      <4>1. writes + 1 \in wrote'[f]
        BY <2>3 DEF Write, Typed, TypeOK
      <4>2. writes + 1 \notin missed'
        BY <4>1 DEF Unwatched
      <4> QED BY <2>3, <4>2 DEF Write, Unseen
    <3>3. f \in found'
      BY <2>3 DEF Write
    <3>2. dst'[f] # None /\ dst'[f] # disk.created[f]
      BY <2>3, NewLine
    <3> QED BY <1>b, <2>1, <3>1, <3>2, <3>3 DEF Apart, Copying
  <2>4. live \in {"src", "dst"}
    BY DEF Write, Typed, TypeOK
  <2>5. live = "src" \/ f # g => dst'[f] = dst[f] /\ (f \in found' <=> f \in found)
    BY <1>a DEF Write
  <2> QED BY <2>2, <2>3, <2>4, <2>5
<1>4. CASE Refuse \/ Check \/ LookAgain \/ Restored \/ RestoreEntry
  BY <1>b, <1>4, Basics DEF Refuse, Check, Fail, LookAgain, Restored, RestoreEntry, Apart,
     Control, Copying, Ending
<1>5. CASE RollbackEntry
  <2>1. /\ UNCHANGED <<dst, undo, plan, man, disk, job, found>> /\ pc = "rollback" /\ pc' = "close"
        /\ f \notin Leftover /\ undo[f] = None
    BY <1>b, <1>5 DEF RollbackEntry, UndoDir, AllHome
  <2> QED BY <1>b, <2>1 DEF Apart, Leftover, Copying
<1>6. CASE \E mode \in Modes, entry, keep \in BOOLEAN : Start(mode, entry, keep)
  BY <1>b, <1>6 DEF Start, Control, Apart, Copying
<1>7. CASE Begin
  BY <1>7, <1>a, Basics DEF Begin, Control, Present, Apart, Copying
<1>8. CASE SkipFile
  <2>1. pc' \notin Idle /\ pc' \notin {"place", "verify", "close"} /\ pc \notin Idle /\ pc # "verify"
        /\ (pc' \in Copying => pc \in Copying)
    BY <1>8 DEF SkipFile, AtEnd, Copying
  <2> QED BY <1>b, <1>8, <2>1 DEF SkipFile, Apart
<1>9. CASE Meet
  <2>1. /\ pc = "copy" /\ k \in Files /\ man.created[k] = None
        /\ UNCHANGED <<plan, disk, job, found>> /\ man'.created = man.created
        /\ pc' \in {"copy", "again", "restore"}
    BY <1>a, <1>9, Basics DEF Meet, At, NextFile, Fail, Saved, Manifests
  <2>2. CASE UNCHANGED <<dst, undo, man>>
    BY <1>b, <2>1, <2>2 DEF Apart, Control, Copying
  <2>3. CASE /\ dst[k] # None /\ plan.mode = "continue"
             /\ undo' = [undo EXCEPT ![k] = dst[k]] /\ dst' = [dst EXCEPT ![k] = None]
             /\ man' = [man EXCEPT !.moved = @ \cup {k}]
    <3>1. man'.moved = man.moved \cup {k} /\ undo'[k] = dst[k] /\ dst'[k] = None
      BY <1>a, <2>1, <2>3 DEF Manifests
    <3>2. CASE f = k
      BY <1>b, <2>1, <2>3, <3>1, <3>2 DEF Apart, Control, Copying, Ending
    <3>3. CASE f # k
      <4>1. undo'[f] = undo[f] /\ dst'[f] = dst[f] /\ (f \in man'.moved <=> f \in man.moved)
        BY <1>a, <2>3, <3>1, <3>3
      <4> QED BY <1>b, <2>1, <4>1 DEF Apart, Control, Copying
    <3> QED BY <3>2, <3>3
  <2> QED BY <1>9, <2>2, <2>3 DEF Meet
<1>10. CASE Place
  <2>1. /\ UNCHANGED <<undo, plan, man, disk, job, found, k>> /\ pc = "place" /\ pc' = "verify"
        /\ k \in Files /\ dst' = [dst EXCEPT ![k] = src[k]]
    BY <1>a, <1>10 DEF Place, At
  <2>2. CASE f # k
    <3>1. dst'[f] = dst[f]
      BY <2>1, <2>2
    <3> QED BY <1>b, <2>1, <2>2, <3>1 DEF Apart, Control, Copying
  <2>3. CASE f = k
    BY <1>b, <2>1, <2>3 DEF Apart, Control, Copying, Ending
  <2> QED BY <2>2, <2>3
<1>11. CASE Verify
  <2>1. /\ UNCHANGED <<undo, plan, disk, job, found, k>> /\ pc = "verify" /\ k \in Files
        /\ pc' \in {"stamp", "restore"} /\ man'.moved = man.moved /\ dst[k] # None
        /\ \/ dst' = dst /\ man'.created = [man.created EXCEPT ![k] = dst[k]]
           \/ dst' = [dst EXCEPT ![k] = None] /\ man' = man
    BY <1>a, <1>11 DEF Verify, At, Fail, Manifests, Target
  <2>2. CASE f # k
    <3>1. dst'[f] = dst[f] /\ man'.created[f] = man.created[f]
      BY <1>a, <2>1, <2>2 DEF Manifests
    <3> QED BY <1>b, <2>1, <2>2, <3>1 DEF Apart, Control, Copying
  <2>3. CASE f = k
    <3>1. \/ dst'[k] = dst[k] /\ man'.created[k] = dst[k]
          \/ dst'[k] = None /\ man' = man
      BY <1>a, <2>1 DEF Manifests
    <3> QED BY <1>b, <2>1, <2>3, <3>1 DEF Apart, Control, Copying, Ending
  <2> QED BY <2>2, <2>3
<1>12. CASE Stamp
  BY <1>b, <1>12 DEF Stamp, At, NextFile, Control, Apart, Copying
<1>13. CASE Save
  <2>1. /\ UNCHANGED <<dst, undo, plan, man, job, found, k>> /\ pc \notin Idle /\ pc' \notin Idle
        /\ pc # "verify" /\ pc' \notin {"place", "verify"} /\ (pc' \in Copying => pc \in Copying)
        /\ pc' = "close" => pc = "saveSkipped"
    BY <1>13 DEF Save, After, Copying
  <2>2. pc = "saveSkipped" => plan.mode = "delete" /\ man.created[f] = None
    BY DEF Control, Saved, Deleting
  <2> QED BY <1>b, <2>1, <2>2 DEF Apart, Control
<1>14. CASE AddEntry \/ DropEntry \/ AllBack
  <2>1. /\ UNCHANGED <<dst, undo, plan, disk, job, found, k>> /\ man'.created = man.created
        /\ man'.moved = man.moved \/ plan.mode = "delete"
        /\ pc \notin Idle /\ pc' \notin Idle
        /\ pc # "verify" /\ pc' \notin {"place", "verify", "close"}
        /\ (pc' \in Copying => pc \in Copying)
    BY <1>a, <1>14 DEF AddEntry, DropEntry, AllBack, Copying, Deleting, Control, Manifests
  <2> QED BY <1>b, <2>1 DEF Apart, Control
<1>15. CASE Stash
  <2>1. /\ pc \in {"stash", "take"} /\ pc' = pc /\ plan.mode \in {"move", "delete"}
        /\ UNCHANGED <<dst, plan, disk, job, found>> /\ man'.created = man.created
    BY <1>a, <1>15 DEF Stash, At, Control, Stashing, Deleting, Manifests
  <2> QED BY <1>b, <2>1 DEF Apart, Control, Copying
<1>16. CASE Finish
  BY <1>b, <1>16, Basics DEF Finish, Saved, Apart, Copying
<1>17. CASE List
  <2>1. /\ pc = "list" /\ pc' \in {"saveListed", "close"} /\ plan.mode = "delete"
        /\ plan'.mode = "delete" /\ UNCHANGED <<dst, undo, disk, job, found>>
        /\ man'.created = man.created /\ man.created[f] = None
    BY <1>a, <1>17 DEF List, Control, Saved, Deleting, Manifests, Typed, TypeOK
  <2> QED BY <1>b, <2>1 DEF Apart, Control, Copying
<1>18. CASE \E g \in Files : PutBack(g)
  <2>1. pc = "putBack" /\ pc' = pc /\ UNCHANGED <<dst, plan, man, disk, job, found>> /\ plan.mode = "delete"
    BY <1>18 DEF PutBack, Control, Deleting
  <2> QED BY <1>b, <2>1 DEF Apart, Control, Copying
<1>19. CASE \E g \in Files : Restore(g)
  <2> PICK g \in Files : Restore(g)
    BY <1>19
  <2>1. /\ pc = "restore" /\ pc' = pc /\ UNCHANGED <<plan, man, disk, job, found>>
        /\ g \in man.moved /\ undo[g] # None /\ job \notin {"failed", "undone"}
    BY <1>b DEF Restore, UndoDir, AllHome
  <2>2. CASE f # g \/ plan.mode # "continue"
    <3>1. dst'[f] = dst[f] /\ (f # g => undo'[f] = undo[f])
      BY <1>a, <2>2 DEF Restore
    <3> QED BY <1>b, <2>1, <2>2, <3>1 DEF Apart, Control, Copying
  <2>3. CASE f = g /\ plan.mode = "continue"
    <3>1. dst'[f] = undo[f]
      BY <1>a, <2>3 DEF Restore
    <3> QED BY <1>b, <2>1, <2>3, <3>1 DEF Apart, Control, Copying
  <2> QED BY <2>2, <2>3
<1>20. CASE \E g \in Files : Rollback(g)
  <2> PICK g \in Files : Rollback(g)
    BY <1>20
  <2>1. /\ pc = "rollback" /\ pc' = pc /\ UNCHANGED <<undo, plan, man, disk, job, found>>
        /\ g \in Leftover
        /\ dst'[f] = IF f = g THEN None ELSE dst[f]
    BY <1>a DEF Rollback
  <2> QED BY <1>b, <2>1 DEF Apart, Control, Copying, Leftover
<1>21. CASE Purge \/ PurgeDir
  BY <1>0, <1>21, Basics DEF Purge, PurgeDir, Saved, Control, Void, Discarded, Deleting, Ending
<1>22. CASE Close
  <2>1. disk'.undone /\ pc = "close" /\ pc' = "idle" /\ UNCHANGED <<dst, found>>
    BY <1>a, <1>22, Basics DEF Close, Manifests
  <2> QED BY <1>b, <2>1 DEF Apart, Copying
<1>23. CASE Stuck
  <2>1. /\ pc \notin Idle /\ pc' = "idle" /\ job' # "undone" /\ disk' = man
        /\ (job' = "failed" => job = "failed") /\ UNCHANGED <<dst, undo, plan, found>>
        /\ pc # "verify"
    BY <1>23, GivingUpSaves DEF Stuck
  <2> QED BY <1>b, <2>1 DEF Apart, Copying
<1>24. CASE IoError
  <2>1. UNCHANGED <<dst, undo, plan, man, found>> /\ (pc = "verify" => f # k)
    BY <1>24, IoErrorCases
  <2>2. CASE /\ UNCHANGED <<disk, job>> /\ pc \notin Idle
             /\ pc' \in {"restore", "close", "putBack", "finish"}
             /\ pc' = "close" => plan.mode = "delete"
    BY <1>b, <2>1, <2>2 DEF Apart, Control, Saved, Copying
  <2>3. CASE GivesUp /\ (pc = "close" => undoing)
             /\ pc \in {"restore", "restoreEntry", "rollback", "putBack", "saveTaken", "saveGone",
                        "close"}
    <3>1. /\ pc \notin Idle /\ pc' = "idle" /\ job' # "undone" /\ disk' = man
          /\ job' = "failed" => job = "failed"
      BY <2>1, <2>3, GivingUpSaves
    <3> QED BY <1>b, <2>1, <2>3, <3>1 DEF Apart, Copying
  <2>4. CASE pc' = GoesOn[pc] /\ UNCHANGED <<disk, job>>
             /\ pc \in {"saveListed", "take", "saveSkipped", "purge", "purgeDir"}
    BY <2>2, <2>4 DEF GoesOn, Control, Deleting
  <2>5. CASE pc = "close" /\ ~undoing /\ pc' = "idle" /\ job' = "failed" /\ UNCHANGED disk
    <3>1. ~disk.undone => /\ Swapped(disk, f) => Swapped(man, f)
                          /\ disk.created[f] # None => /\ man.created[f] # None
                                                       /\ Swapped(man, f) => Swapped(disk, f)
      BY <1>a, <2>5 DEF OnDisk, Blank
    <3> QED BY <1>b, <2>1, <2>5, <3>1 DEF Apart, Copying
  <2> QED BY <1>24, <2>2, <2>3, <2>4, <2>5, IoErrorCases
<1>25. CASE Undo
  <2>1. /\ UNCHANGED <<dst, undo, plan, disk, job, found>> /\ man' = disk /\ pc = "idle"
        /\ pc' = "restore" /\ ~disk.undone /\ Undoable(disk)
    BY <1>25 DEF Undo
  <2>2. disk.created[f] # None /\ ~Swapped(disk, f) => dst[f] \in {None, disk.created[f]}
    BY <2>1 DEF Undoable, Back, Mine
  <2>3. job # "undone"
    BY <2>1 DEF Control
  <2> QED BY <1>b, <2>1, <2>2, <2>3 DEF Apart, Copying
<1>26. CASE Crash
  <2>1. /\ UNCHANGED <<dst, undo, plan, disk, found>> /\ pc' = "idle" /\ job' # "undone"
        /\ (job' = "failed" => job = "failed") /\ (pc = "verify" => f # k)
    BY <1>26 DEF Crash, Control
  <2>2. ~disk.undone =>
          /\ pc \notin Idle
          /\ disk # man => plan.mode = "delete"
    BY <1>26, DyingSaved
  <2>3. plan.mode = "delete" => man.created[f] = None /\ disk.created[f] = None
    BY DEF Saved
  <2> QED BY <1>b, <2>1, <2>2, <2>3 DEF Apart, Copying
<1>27. CASE Prune
  BY <1>b, <1>27, Basics DEF Prune, Apart, Copying
<1>28. CASE LookBeforeCopy
  <2>1. /\ UNCHANGED <<dst, undo, plan, man, disk, job, found, k>> /\ pc \in {"copy", "again"}
        /\ pc' \in {"place", "restore"} /\ (pc' = "place" => dst[k] = None)
    BY <1>28 DEF LookBeforeCopy, At, Fail
  <2> QED BY <1>b, <2>1 DEF Apart, Control, Copying
<1> QED BY <1>1, <1>2, <1>3, <1>4, <1>5, <1>6, <1>7, <1>8, <1>9, <1>10, <1>11, <1>12, <1>13, <1>14,
           <1>15, <1>16, <1>17, <1>18, <1>19, <1>20, <1>21, <1>22, <1>23, <1>24, <1>25, <1>26, <1>27,
           <1>28
        DEF Next

\* No step of the job or of an undo makes the checks of the next undo fail.
LEMMA ReadyNext ==
  ASSUME Typed, Control, Saved, UndoDir, SrcKept, Target, OnDisk, Ready, [Next]_vars
  PROVE  Ready'
<1>t. quiet \in BOOLEAN /\ quiet' \in BOOLEAN
  BY TypedNext DEF Typed, TypeOK
<1> SUFFICES ASSUME quiet' = TRUE, stray' = {}, ~disk'.undone, NEW f \in Files
             PROVE  Fit(disk, f)' /\ (pc' \notin Idle => FitNow(f)')
  BY <1>t, Zenon DEF Ready
<1>a. /\ src \in [Files -> Contents] /\ dst \in [Files -> Contents] /\ undo \in [Files -> Contents]
      /\ man \in Manifests /\ disk \in Manifests
      /\ k \in 1..(NFiles + 1) /\ (pc \in {"again", "place", "verify", "stamp"} => k \in Files)
  BY DEF Typed, TypeOK
<1>s. stray = {}
  BY MarksGrow
<1>b. quiet = TRUE /\ ~disk.undone => Fit(disk, f) /\ (pc \notin Idle => FitNow(f))
  BY <1>s DEF Ready
<1> USE DEF rest, history, bounds, work, Idle
<1>g. ASSUME UNCHANGED <<src, dst, undo, disk>>, plan'.mode = plan.mode, quiet' = quiet,
             man'.created = man.created, man'.moved = man.moved, pc # "verify",
             pc' \notin {"place", "verify"}, pc' \notin Idle => pc \notin Idle
      PROVE  Fit(disk, f)' /\ (pc' \notin Idle => FitNow(f)')
  BY <1>b, <1>g DEF FitNow, Fit, Back, Mine, Home, Missing
<1>1. CASE UNCHANGED vars
  BY <1>b, <1>1 DEF FitNow, Fit, Back, Mine, Home, Missing, vars
<1>2. CASE Exit \/ \E d \in {"src", "dst"} : Resume(d)
  BY <1>b, <1>2 DEF FitNow, Fit, Back, Mine, Home, Missing, Exit, Resume
<1>3. CASE \E g \in Files : Write(g)
  BY <1>3 DEF Write
<1>4. CASE Refuse \/ Check \/ LookAgain \/ Restored \/ RestoreEntry \/ RollbackEntry \/ SkipFile
           \/ Stamp \/ AddEntry \/ DropEntry \/ Finish
  <2>1. /\ UNCHANGED <<src, dst, undo, disk, plan, quiet>>
        /\ man'.created = man.created /\ man'.moved = man.moved
    BY <1>a, <1>4 DEF Refuse, Check, Fail, LookAgain, Restored, RestoreEntry, RollbackEntry,
       SkipFile, Stamp,
       AddEntry, DropEntry, Finish, Manifests
  <2>2. pc # "verify" /\ pc' \notin {"place", "verify"} /\ (pc' \notin Idle => pc \notin Idle)
    <3>0. CASE SkipFile
      BY <3>0 DEF SkipFile, AtEnd
    <3>1. CASE Stamp
      BY <3>1 DEF Stamp, At, NextFile
    <3>2. CASE Refuse \/ Check \/ LookAgain \/ Restored
      BY <3>2 DEF Refuse, Check, Fail, LookAgain, Restored
    <3>3. CASE RestoreEntry \/ RollbackEntry \/ AddEntry \/ DropEntry \/ Finish
      BY <3>3 DEF RestoreEntry, RollbackEntry, AddEntry, DropEntry, Finish
    <3> QED BY <1>4, <3>0, <3>1, <3>2, <3>3
  <2> QED BY <1>g, <2>1, <2>2
<1>5. CASE \E mode \in Modes, entry, keep \in BOOLEAN : Start(mode, entry, keep)
  BY <1>5, Basics DEF Start, Control
<1>6. CASE Begin
  BY <1>6, Basics DEF Begin, FitNow, Fit
<1>7. CASE Meet
  <2>0. /\ pc = "copy" /\ k \in Files /\ UNCHANGED <<src, plan, disk, quiet>>
        /\ man'.created = man.created /\ pc' \in {"copy", "again", "restore"}
    BY <1>a, <1>7 DEF Meet, At, NextFile, Fail, Manifests, Typed, TypeOK
  <2>1. /\ pc = "copy" /\ k \in Files /\ man.created[k] = None /\ Blank(disk) /\ ~disk.undone
        /\ UNCHANGED <<src, plan, disk, quiet>> /\ man'.created = man.created
        /\ pc' \in {"copy", "again", "restore"}
    BY <2>0, Basics DEF Saved, OnDisk
  <2>2. CASE UNCHANGED <<dst, undo, man>>
    BY <1>g, <2>1, <2>2
  <2>3. CASE /\ dst[k] # None /\ plan.mode = "continue"
             /\ undo' = [undo EXCEPT ![k] = dst[k]] /\ dst' = [dst EXCEPT ![k] = None]
             /\ man' = [man EXCEPT !.moved = @ \cup {k}]
    <3>1. man'.moved = man.moved \cup {k} /\ undo'[k] = dst[k] /\ dst'[k] = None
      BY <1>a, <2>1, <2>3 DEF Manifests
    <3>2. Fit(disk, f)'
      BY <2>1 DEF Fit, Blank
    <3>3. CASE f = k
      BY <2>1, <2>3, <3>1, <3>2, <3>3 DEF FitNow, Fit, Home, Missing
    <3>4. CASE f # k
      <4>1. undo'[f] = undo[f] /\ dst'[f] = dst[f] /\ (f \in man'.moved <=> f \in man.moved)
        BY <1>a, <2>3, <3>1, <3>4
      <4> QED BY <1>b, <2>1, <3>2, <4>1 DEF FitNow, Fit, Back, Mine, Home, Missing
    <3> QED BY <3>3, <3>4
  <2> QED BY <1>7, <2>2, <2>3 DEF Meet
<1>8. CASE Place
  <2>1. /\ UNCHANGED <<src, undo, plan, man, disk, k, quiet>> /\ pc = "place" /\ pc' = "verify"
        /\ k \in Files /\ dst' = [dst EXCEPT ![k] = src[k]] /\ man.created[k] = None
        /\ Blank(disk) /\ ~disk.undone
    <3>1. /\ UNCHANGED <<src, undo, plan, man, disk, k, quiet>> /\ pc = "place"
          /\ pc' = "verify" /\ dst' = [dst EXCEPT ![k] = src[k]] /\ k \in Files
      BY <1>8 DEF Place, At, Typed, TypeOK
    <3> QED BY <3>1, Basics DEF Saved, OnDisk
  <2>2. Fit(disk, f)' /\ Fit(man, f) /\ (f = k => dst[f] = None)
    BY <1>b, <2>1 DEF Fit, Blank, FitNow
  <2>3. CASE f = k
    BY <2>1, <2>2, <2>3 DEF FitNow, Fit, Home, Missing, Mine
  <2>4. CASE f # k
    <3>1. dst'[f] = dst[f]
      BY <2>1, <2>4
    <3> QED BY <2>1, <2>2, <2>4, <3>1 DEF FitNow, Fit, Back, Mine, Home, Missing
  <2> QED BY <2>3, <2>4
<1>9. CASE Verify
  <2>1. /\ UNCHANGED <<src, undo, plan, disk, k, quiet>> /\ pc = "verify" /\ k \in Files
        /\ pc' \in {"stamp", "restore"} /\ man'.moved = man.moved /\ dst[k] # None
        /\ man.created[k] = None /\ Blank(disk) /\ ~disk.undone
        /\ \/ dst' = dst /\ man'.created = [man.created EXCEPT ![k] = dst[k]]
           \/ dst' = [dst EXCEPT ![k] = None] /\ man' = man
    <3>1. /\ UNCHANGED <<src, undo, plan, disk, k, quiet>> /\ pc = "verify" /\ k \in Files
          /\ pc' \in {"stamp", "restore"} /\ man'.moved = man.moved
          /\ \/ dst' = dst /\ man'.created = [man.created EXCEPT ![k] = dst[k]]
             \/ dst' = [dst EXCEPT ![k] = None] /\ man' = man
      BY <1>a, <1>9 DEF Verify, At, Fail, Manifests
    <3> QED BY <3>1, Basics DEF Target, Saved, OnDisk
  <2>2. Fit(disk, f)' /\ FitNow(f)
    BY <1>b, <2>1 DEF Fit, Blank
  <2>3. CASE f # k
    <3>1. dst'[f] = dst[f] /\ man'.created[f] = man.created[f]
      BY <1>a, <2>1, <2>3 DEF Manifests
    <3> QED BY <2>1, <2>2, <2>3, <3>1 DEF FitNow, Fit, Back, Mine, Home, Missing
  <2>4. CASE f = k
    <3>1. \/ dst'[k] = dst[k] /\ man'.created[k] = dst[k]
          \/ dst'[k] = None /\ man' = man
      BY <1>a, <2>1 DEF Manifests
    <3>2. CASE plan.mode = "continue"
      BY <2>1, <2>2, <2>4, <3>1, <3>2 DEF FitNow, Fit, Mine, Home, Missing
    <3>3. CASE plan.mode # "continue"
      BY <2>1, <2>2, <2>4, <3>1, <3>3 DEF FitNow, Fit, Mine, Home, Missing
    <3> QED BY <3>2, <3>3
  <2> QED BY <2>3, <2>4
<1>10. CASE Save
  <2>1. /\ UNCHANGED <<src, dst, undo, plan, man, quiet>> /\ disk' = man /\ pc \notin Idle
        /\ pc # "verify" /\ pc' \notin {"place", "verify"} /\ pc \notin {"purgeDir", "finish"}
    BY <1>10, SMTT(30) DEF Save, After
  <2>2. ~disk.undone
    BY <2>1 DEF OnDisk
  <2> QED BY <1>b, <2>1, <2>2 DEF FitNow, Fit, Back, Mine, Home, Missing
<1>11. CASE Stash
  <2>1. /\ pc \in {"stash", "take"} /\ pc' = pc /\ UNCHANGED <<dst, plan, disk, quiet>>
        /\ k \in plan.files /\ k \in Files /\ src[k] # None /\ plan.mode \in {"move", "delete"}
        /\ undo' = [undo EXCEPT ![k] = src[k]] /\ src' = [src EXCEPT ![k] = None]
        /\ man'.created = man.created /\ man'.moved = man.moved \cup {k}
    <3>1. /\ pc \in {"stash", "take"} /\ pc' = pc /\ UNCHANGED <<dst, plan, disk, quiet>>
          /\ k \in plan.files /\ undo' = [undo EXCEPT ![k] = src[k]]
          /\ src' = [src EXCEPT ![k] = None]
          /\ man'.created = man.created /\ man'.moved = man.moved \cup {k}
      BY <1>a, <1>11 DEF Stash, At, Manifests
    <3>2. k \in Files /\ src[k] # None /\ plan.mode \in {"move", "delete"}
      BY <1>a, <3>1, Basics DEF SrcKept, Control, Stashing, Deleting, Typed, TypeOK
    <3> QED BY <3>1, <3>2
  <2>2. CASE f = k
    <3>1. undo'[f] = src[f] /\ src'[f] = None /\ src[f] # None
      BY <1>a, <2>1, <2>2
    <3> QED BY <1>b, <2>1, <3>1 DEF FitNow, Fit, Back, Mine, Home, Missing
  <2>3. CASE f # k
    <3>1. undo'[f] = undo[f] /\ src'[f] = src[f] /\ (f \in man'.moved <=> f \in man.moved)
      BY <1>a, <2>1, <2>3
    <3> QED BY <1>b, <2>1, <3>1 DEF FitNow, Fit, Back, Mine, Home, Missing
  <2> QED BY <2>2, <2>3
<1>12. CASE List
  <2>1. /\ pc = "list" /\ pc' \in {"saveListed", "close"} /\ plan.mode = "delete"
        /\ plan'.mode = "delete" /\ UNCHANGED <<src, dst, undo, disk, quiet>>
        /\ man'.created = man.created /\ man.created[f] = None /\ undo[f] = None
        /\ man'.moved \in {man.moved, Present(src)}
    <3>1. /\ pc = "list" /\ pc' \in {"saveListed", "close"} /\ UNCHANGED <<src, dst, undo, disk, quiet>>
          /\ plan'.mode = plan.mode /\ man'.created = man.created
          /\ man'.moved \in {man.moved, Present(src)}
      BY <1>a, <1>12 DEF List, Manifests, Typed, TypeOK
    <3>2. plan.mode = "delete" /\ man.created[f] = None /\ undo[f] = None
      BY <3>1 DEF Control, Saved, UndoDir, AllHome, Deleting
    <3> QED BY <3>1, <3>2
  <2>2. CASE man'.moved = man.moved
    BY <1>g, <2>1, <2>2
  <2>3. CASE man'.moved = Present(src)
    BY <1>b, <2>1, <2>3 DEF FitNow, Fit, Back, Mine, Home, Missing, Present
  <2> QED BY <2>1, <2>2, <2>3
<1>13. CASE AllBack
  <2>1. /\ pc = "putBack" /\ pc' = "saveSkipped" /\ plan.mode = "delete" /\ man.created[f] = None
        /\ UNCHANGED <<src, dst, undo, plan, disk, quiet>>
        /\ man'.created = man.created /\ man'.moved = {}
    BY <1>a, <1>13 DEF AllBack, Control, Saved, Deleting, Manifests
  <2> QED BY <1>b, <2>1 DEF FitNow, Fit, Back, Mine, Home, Missing
<1>14. CASE \E g \in Files : PutBack(g) \/ Restore(g)
  <2> PICK g \in Files : PutBack(g) \/ Restore(g)
    BY <1>14
  <2>1. /\ UNCHANGED <<plan, man, disk, quiet>> /\ pc \in {"putBack", "restore"} /\ pc' = pc
        /\ undo[g] # None /\ undo'[g] = None /\ Home(g)' = undo[g]
        /\ pc = "putBack" => plan.mode = "delete"
        /\ pc = "restore" => g \in man.moved
    BY <1>a DEF PutBack, LastMoved, Restore, Home, Control, Deleting
  <2>2. ~disk.undone /\ Fit(disk, f) /\ Fit(man, f)
    BY <1>b, <2>1 DEF FitNow
  <2>3. CASE f # g
    <3>1. undo'[f] = undo[f] /\ dst'[f] = dst[f] /\ src'[f] = src[f]
      BY <1>a, <2>3 DEF PutBack, Restore
    <3> QED BY <2>1, <2>2, <3>1 DEF FitNow, Fit, Back, Mine, Home, Missing
  <2>4. CASE f = g /\ plan.mode = "continue"
    <3>1. f \in disk.moved \/ disk.created[f] = None
      BY <2>1, <2>2, <2>4 DEF OnDisk, Blank
    <3>2. f \in man.moved
      BY <2>1, <2>4
    <3> QED BY <2>1, <2>2, <2>4, <3>1, <3>2 DEF FitNow, Fit, Back, Mine, Missing
  <2>5. CASE f = g /\ plan.mode # "continue"
    <3>1. dst'[f] = dst[f]
      BY <1>a, <2>5 DEF PutBack, Restore
    <3> QED BY <2>1, <2>2, <2>5, <3>1 DEF FitNow, Fit, Back, Mine, Missing
  <2> QED BY <2>3, <2>4, <2>5
<1>15. CASE \E g \in Files : Rollback(g)
  <2> PICK g \in Files : Rollback(g)
    BY <1>15
  <2>1. /\ UNCHANGED <<src, undo, plan, man, disk, quiet>> /\ pc = "rollback" /\ pc' = pc
        /\ dst'[g] = None /\ (f # g => dst'[f] = dst[f])
        /\ plan.mode = "continue" => g \notin man.moved
    BY <1>a DEF Rollback, Leftover
  <2>2. ~disk.undone /\ Fit(disk, f) /\ Fit(man, f)
    BY <1>b, <2>1 DEF FitNow
  <2>3. plan.mode = "continue" => g \notin disk.moved
    BY <2>1, <2>2 DEF OnDisk, Blank
  <2> QED BY <2>1, <2>2, <2>3 DEF FitNow, Fit, Back, Mine, Home, Missing
<1>16. CASE Purge \/ PurgeDir \/ Prune \/ Close
  <2>1. disk'.undone
    BY <1>a, <1>16, Basics DEF Purge, PurgeDir, Prune, Close, Saved, Manifests
  <2> QED BY <2>1
<1>17. CASE GivesUp /\ pc \notin Idle /\ pc # "verify"
            /\ UNCHANGED <<src, dst, undo, plan, man, quiet>>
            /\ pc \notin {"purgeDir", "finish"}
  <2>1. ~disk.undone /\ pc' = "idle" /\ disk' \in {disk, man}
    BY <1>17 DEF GivesUp, OnDisk
  <2> QED BY <1>b, <1>17, <2>1 DEF FitNow, Fit, Back, Mine, Home, Missing
<1>18. CASE Stuck
  BY <1>17, <1>18 DEF Stuck
<1>19. CASE IoError
  <2>1. UNCHANGED <<src, dst, undo, plan, man, quiet>> /\ pc # "verify"
    BY <1>19, IoErrorCases
  <2>2. CASE UNCHANGED disk /\ pc \notin Idle /\ pc' \notin {"place", "verify"}
    BY <1>g, <2>1, <2>2
  <2>3. CASE pc' = GoesOn[pc] /\ UNCHANGED disk
             /\ pc \in {"saveListed", "take", "saveSkipped", "purge", "purgeDir"}
    BY <2>2, <2>3 DEF GoesOn
  <2> QED BY <1>17, <1>19, <2>1, <2>2, <2>3, IoErrorCases
<1>20. CASE Undo
  BY <1>20 DEF Undo, Undoable, FitNow, Fit, Back, Mine, Home, Missing
<1>21. CASE Crash
  <2>1. /\ UNCHANGED <<src, dst, undo, plan, disk, quiet>> /\ pc' = "idle"
    BY <1>21 DEF Crash
  <2> QED BY <1>b, <2>1 DEF Fit, Back, Mine, Home, Missing
<1>22. CASE LookBeforeCopy
  <2>1. /\ UNCHANGED <<src, dst, undo, disk, plan, man, quiet, k>> /\ pc \in {"copy", "again"}
        /\ pc' \in {"place", "restore"} /\ (pc' = "place" => dst[k] = None)
    BY <1>22 DEF LookBeforeCopy, At, Fail
  <2> QED BY <1>b, <2>1 DEF FitNow, Fit, Back, Mine, Home, Missing
<1> QED BY <1>1, <1>2, <1>3, <1>4, <1>5, <1>6, <1>7, <1>8, <1>9, <1>10, <1>11, <1>12, <1>13, <1>14,
           <1>15, <1>16, <1>18, <1>19, <1>20, <1>21, <1>22 DEF Next

---------------------------------------------------------------------------
(* The results.                                                            *)

\* The invariant holds at the start, and every step keeps it.
LEMMA IInvInit == Init => IInv
<1> SUFFICES ASSUME Init PROVE IInv
  OBVIOUS
<1>1. Typed
  BY TypedInit
<1>2. Control /\ Saved
  BY Basics DEF Init, Control, Saved, Discarded, AllHome, Copying, Stashing, Deleting, Ending, Idle
<1>3. UndoDir
  BY DEF Init, UndoDir, AllHome, Copying, Idle
<1>4. SafeAll
  <2> SUFFICES ASSUME NEW f \in Files PROVE Safe(f)
    BY DEF SafeAll
  <2>1. wrote[f] \ missed \subseteq L(src[f], missed)
    <3>1. {0} # None
      BY Basics DEF Lines
    <3> QED BY <3>1 DEF Init, L
  <2>2. undo[f] = None /\ pc = "idle" /\ disk.undone /\ plan.mode = "copy"
    BY Basics DEF Init
  <2> HIDE DEF L
  <2> QED BY <2>1, <2>2 DEF Safe, Copying, Idle
<1>5. OnDisk
  BY Basics DEF Init, OnDisk, Idle
<1> QED BY <1>1, <1>2, <1>3, <1>4, <1>5 DEF IInv

\* The invariant holds in every state that is reached.
LEMMA Invariance == Spec => []IInv
<1>1. IInv /\ [Next]_vars => IInv'
  BY TypedNext, ControlNext, SavedNext, UndoDirNext, OnDiskNext, SafeNext DEF IInv
<1> QED BY <1>1, IInvInit, PTL DEF Spec

\* No line of the conversation is ever lost, however many files the session
\* has and however often the job, its undo and their retries fail or die.
THEOREM NeverLostCorrect == Spec => []NeverLost
<1>1. IInv => NeverLost
  <2> SUFFICES ASSUME IInv, NEW f \in Files, ~Void
               PROVE  wrote[f] \ missed \subseteq Kept(f)
    BY DEF NeverLost, Void
  <2>1. wrote[f] \ missed \subseteq L(src[f], missed) \cup L(dst[f], missed) \cup L(undo[f], missed)
    BY DEF IInv, SafeAll, Safe
  <2> QED BY <2>1 DEF L, Kept
<1> QED BY <1>1, Invariance, PTL

\* The whole invariant holds at the start.
LEMMA FInvInit == Init => FInv
<1> SUFFICES ASSUME Init PROVE FInv
  OBVIOUS
<1>1. IInv
  BY IInvInit
<1>2. Numbered
  <2>1. writes = 0 /\ Old(None) /\ Old({0})
    BY Basics DEF Init, Old
  <2>2. \A f \in Files : src[f] \in {None, {0}} /\ dst[f] \in {None, {0}} /\ undo[f] = None
    BY DEF Init
  <2>3. \A f \in Files : man.created[f] = None /\ disk.created[f] = None
    BY Basics DEF Init
  <2> QED BY <2>1, <2>2, <2>3 DEF Numbered
<1>3. TornEnds /\ SrcKept /\ Entries /\ Target /\ Ready
  BY Basics DEF Init, TornEnds, SrcKept, Entries, Original, Target, Apart, Ready, Copying, Idle
<1> QED BY <1>1, <1>2, <1>3 DEF FInv

\* It holds in every state that is reached.
LEMMA FInvariance == Spec => []FInv
<1>1. FInv /\ [Next]_vars => FInv'
  <2> SUFFICES ASSUME FInv, [Next]_vars PROVE FInv'
    OBVIOUS
  <2>1. Typed /\ Control /\ Saved /\ UndoDir /\ OnDisk /\ SafeAll
    BY DEF FInv, IInv
  <2>2. IInv'
    BY <2>1, TypedNext, ControlNext, SavedNext, UndoDirNext, OnDiskNext, SafeNext DEF IInv
  <2> QED BY <2>1, <2>2, TornEndsNext, NumberedNext, SrcKeptNext, EntriesNext, TargetNext,
             ReadyNext DEF FInv
<1> QED BY <1>1, FInvInit, PTL DEF Spec

\* A run that failed, and an undo that is done, leave what the job found.
LEMMA CleanEnd ==
  ASSUME FInv, job \in {"failed", "undone"}, ~Void
  PROVE  /\ plan.files \subseteq Present(src)
         /\ Present(dst) \ (Unwatched \cup stray) = found \ (Unwatched \cup stray)
         /\ conf = [from |-> TRUE, to |-> FALSE]
<1>1. plan.files \subseteq Files /\ found \subseteq Files
  BY DEF FInv, IInv, Typed, TypeOK
<1>2. \A f \in plan.files : src[f] # None
  BY DEF FInv, SrcKept
<1>3. \A f \in Files : f \notin Unwatched \cup stray => (dst[f] # None <=> f \in found)
  BY DEF FInv, Target, Apart
<1>4. conf = [from |-> TRUE, to |-> FALSE]
  BY DEF FInv, Entries, Original
<1> QED BY <1>1, <1>2, <1>3, <1>4 DEF Present

\* A run that failed leaves both directories and both entries as they were,
\* wherever it failed and however the rollback was reached.
THEOREM FailedIsCleanCorrect == Spec => []FailedIsClean
<1>1. FInv => FailedIsClean
  <2> SUFFICES ASSUME FInv, job = "failed" PROVE FailedIsClean
    BY DEF FailedIsClean
  <2>1. ~Void
    BY DEF FInv, TornEnds, Void, Discarded
  <2> QED BY <2>1, CleanEnd DEF FailedIsClean
<1> QED BY <1>1, FInvariance, PTL

\* An undo that is done, at the first attempt or a later one, leaves every
\* file in its place and nothing of the job in the target.
THEOREM UndoneIsBackCorrect == Spec => []UndoneIsBack
<1>1. FInv => UndoneIsBack
  <2> SUFFICES ASSUME FInv, job = "undone", torn => plan.mode = "delete" PROVE UndoneIsBack
    BY DEF UndoneIsBack
  <2>1. ~Void
    BY DEF Void, Discarded
  <2> QED BY <2>1, CleanEnd DEF UndoneIsBack
<1> QED BY <1>1, FInvariance, PTL

\* A job nobody wrote to since can be undone, wherever it or an earlier undo
\* failed or died.
THEOREM UndoAcceptedCorrect == Spec => []UndoAccepted
<1>1. FInv => UndoAccepted
  BY DEF FInv, IInv, Typed, TypeOK, Manifests, Ready, Fit, UndoAccepted, Undoable
<1> QED BY <1>1, FInvariance, PTL
=============================================================================
