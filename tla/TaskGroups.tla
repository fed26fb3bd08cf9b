----------------------------- MODULE TaskGroups -----------------------------
(***************************************************************************)
(* The repository of waypoint task groups below one version of a map       *)
(* (agt_navigation, task_group.py): a file for each task group, numbered   *)
(* backups of it, an index of the files, and an archive.  A save rotates   *)
(* the backups, replaces the file and replaces the index, and puts the     *)
(* file back when that fails; every write may fail before the file is      *)
(* replaced or, late, after it, and the process may crash at any step.     *)
(*                                                                         *)
(* The time at which it was saved stands for the content of a file.        *)
(* Programs work on tasks they loaded before: a save counts the revision   *)
(* from that task, not from the file.                                      *)
(***************************************************************************)
EXTENDS Naturals, FiniteSets

CONSTANTS Ids,      \* task group ids
          Editors,  \* what holds a task in memory
          Backups,  \* backup_count
          MaxSaves  \* bound: saves that are begun

ASSUME TaskGroupsAssumption == Backups \in Nat \ {0} /\ MaxSaves \in Nat

VARIABLES groupFiles, \* the file of each task group
          backups,    \* its backups, the newest first
          taskIndex,  \* task_index.json: the file as it was listed
          archived,   \* the directory archive: ids and contents
          held,       \* the task in the memory of each editor
          work,       \* the operation under way
          clock,      \* the saves begun
          torn,       \* history: the index was left behind, or ahead
          kept,       \* history: the last content of each id whose save succeeded
          fails       \* history: saves of each id that failed since

groupVars == <<groupFiles, backups, taskIndex, archived, held, work, clock, torn, kept, fails>>

Slots == 1..Backups
NoContent == [saved |-> 0, revision |-> 0, readable |-> FALSE]
NoGroup == [id |-> "none", revision |-> 0, sound |-> FALSE]
NoWork == [does |-> "nothing", id |-> "none", step |-> "done", previous |-> NoContent,
         next |-> NoContent, for |-> {}]

GroupsInit ==
  /\ groupFiles = [i \in Ids |-> NoContent]
  /\ backups = [i \in Ids |-> [n \in Slots |-> NoContent]]
  /\ taskIndex = [i \in Ids |-> NoContent]
  /\ archived = {}
  /\ held = [e \in Editors |-> NoGroup]
  /\ work = NoWork
  /\ clock = 0 /\ torn = FALSE
  /\ kept = [i \in Ids |-> NoContent]
  /\ fails = [i \in Ids |-> 0]

Exists(i) == groupFiles[i] # NoContent
Free == work = NoWork
During(kind, step) == work.does = kind /\ work.step = step
Goes(step) == work' = [work EXCEPT !.step = step]

(* from_json, which also compares content_sha256 *)
IsReadable(i) == Exists(i) /\ groupFiles[i].readable

(* TaskGroup.validate *)
Sound(t) == t # NoGroup /\ t.sound

----------------------------------------------------------------------------
(* What the editors do with the tasks they hold. *)
LoadGroup(e, i) ==
  /\ Free /\ IsReadable(i)
  /\ held' = [held EXCEPT ![e] = [id |-> i, revision |-> groupFiles[i].revision, sound |-> TRUE]]
  /\ UNCHANGED <<groupFiles, backups, taskIndex, archived, work, clock, torn, kept, fails>>

(* import_legacy makes the task, and does not save it. *)
ImportLegacy(e, i) ==
  /\ Free /\ ~Exists(i)
  /\ held' = [held EXCEPT ![e] = [id |-> i, revision |-> 1, sound |-> TRUE]]
  /\ UNCHANGED <<groupFiles, backups, taskIndex, archived, work, clock, torn, kept, fails>>

EditGroup(e) ==
  /\ Free /\ held[e] # NoGroup
  /\ held' = [held EXCEPT ![e].sound = ~@]
  /\ UNCHANGED <<groupFiles, backups, taskIndex, archived, work, clock, torn, kept, fails>>

(* The index keeps what it listed. *)
EditFileByHand(i) ==
  /\ Free /\ IsReadable(i)
  /\ groupFiles' = [groupFiles EXCEPT ![i].readable = FALSE]
  /\ torn' = TRUE
  /\ kept' = [kept EXCEPT ![i] = NoContent]
  /\ UNCHANGED <<backups, taskIndex, archived, held, work, clock, fails>>

----------------------------------------------------------------------------
(* save *)
Revision(t) == IF Exists(t.id) THEN t.revision + 1 ELSE t.revision

BeginSave(t, for) ==
  /\ Free /\ Sound(t) /\ clock < MaxSaves
  /\ clock' = clock + 1
  /\ work' = [does |-> "save", id |-> t.id, step |-> "rotate", previous |-> groupFiles[t.id],
            next |-> [saved |-> clock', revision |-> Revision(t), readable |-> TRUE],
            for |-> for]
  /\ UNCHANGED <<groupFiles, backups, taskIndex, archived, held, torn, kept, fails>>

SaveGroup(e) == BeginSave(held[e], {e})

CopyGroup(i, j) ==
  /\ ~Exists(j) /\ IsReadable(i)
  /\ BeginSave([id |-> j, revision |-> 1, sound |-> TRUE], {})

CountFailure == fails' = [fails EXCEPT ![work.id] = @ + 1]

(* _rotate_backups, which an exception may leave when it has shifted the   *)
(* backups from m on, and has not yet copied the file.                     *)
Shifted(b, m) == [n \in Slots |-> IF n < m THEN b[n] ELSE IF n = m THEN NoContent ELSE b[n - 1]]

Rotate_NoBackup ==
  /\ During("save", "rotate")
  /\ Goes("write")
  /\ UNCHANGED <<groupFiles, backups, taskIndex, archived, held, clock, torn, kept, fails>>

Rotate ==
  /\ During("save", "rotate")
  /\ \/ ~Exists(work.id) /\ Goes("write") /\ UNCHANGED <<backups, fails>>
     \/ /\ Exists(work.id)
        /\ backups' = [backups EXCEPT ![work.id] = [Shifted(@, 1) EXCEPT ![1] = groupFiles[work.id]]]
        /\ Goes("write") /\ UNCHANGED fails
     \/ /\ Exists(work.id)
        /\ \E m \in Slots : backups' = [backups EXCEPT ![work.id] = Shifted(@, m)]
        /\ work' = NoWork /\ CountFailure
  /\ UNCHANGED <<groupFiles, taskIndex, archived, held, clock, torn, kept>>

WriteGroup ==
  /\ During("save", "write")
  /\ \/ groupFiles' = [groupFiles EXCEPT ![work.id] = work.next] /\ Goes("index")
     \/ groupFiles' \in {groupFiles, [groupFiles EXCEPT ![work.id] = work.next]} /\ Goes("restore")
  /\ UNCHANGED <<backups, taskIndex, archived, held, clock, torn, kept, fails>>

(* _write_index_atomic: list_tasks names every file, readable or not. *)
WriteIndex(to) ==
  \/ taskIndex' = groupFiles /\ Goes(to) /\ torn' = FALSE
  \/ taskIndex' = taskIndex /\ Goes("restore") /\ UNCHANGED torn
  \/ taskIndex' = groupFiles /\ Goes("restore") /\ torn' = TRUE

IndexSave ==
  /\ During("save", "index")
  /\ WriteIndex("saved")
  /\ UNCHANGED <<groupFiles, backups, archived, held, clock, kept, fails>>

EndSave ==
  /\ During("save", "saved")
  /\ held' = [e \in Editors |->
                IF e \in work.for THEN [held[e] EXCEPT !.revision = work.next.revision]
                ELSE held[e]]
  /\ kept' = [kept EXCEPT ![work.id] = work.next]
  /\ fails' = [fails EXCEPT ![work.id] = 0]
  /\ work' = NoWork
  /\ UNCHANGED <<groupFiles, backups, taskIndex, archived, clock, torn>>

RestoreGroup_Keeps ==
  /\ During("save", "restore")
  /\ work' = NoWork /\ CountFailure
  /\ UNCHANGED <<groupFiles, backups, taskIndex, archived, held, clock, torn, kept>>

(* The previous file is written back, or the new one is unlinked; that may *)
(* fail too.                                                               *)
RestoreGroup ==
  /\ During("save", "restore")
  /\ \/ groupFiles' = [groupFiles EXCEPT ![work.id] = work.previous] /\ UNCHANGED torn
     \/ UNCHANGED groupFiles /\ torn' = TRUE
  /\ work' = NoWork /\ CountFailure
  /\ UNCHANGED <<backups, taskIndex, archived, held, clock, kept>>

----------------------------------------------------------------------------
(* archive *)
BeginArchive(i) ==
  /\ Free /\ Exists(i)
  /\ work' = [NoWork EXCEPT !.does = "archive", !.id = i, !.step = "move", !.previous = groupFiles[i]]
  /\ UNCHANGED <<groupFiles, backups, taskIndex, archived, held, clock, torn, kept, fails>>

MoveToArchive ==
  /\ During("archive", "move")
  /\ \/ work' = NoWork /\ UNCHANGED <<groupFiles, archived>>
     \/ /\ groupFiles' = [groupFiles EXCEPT ![work.id] = NoContent]
        /\ archived' = archived \cup {<<work.id, work.previous>>}
        /\ Goes("index")
  /\ UNCHANGED <<backups, taskIndex, held, clock, torn, kept, fails>>

IndexArchive ==
  /\ During("archive", "index")
  /\ WriteIndex("prune")
  /\ UNCHANGED <<groupFiles, backups, archived, held, clock, kept, fails>>

PutBack ==
  /\ During("archive", "restore")
  /\ \/ /\ groupFiles' = [groupFiles EXCEPT ![work.id] = work.previous]
        /\ archived' = archived \ {<<work.id, work.previous>>}
        /\ UNCHANGED torn
     \/ UNCHANGED <<groupFiles, archived>> /\ torn' = TRUE
  /\ work' = NoWork
  /\ UNCHANGED <<backups, taskIndex, held, clock, kept, fails>>

(* The backups are removed one by one, in any order; the file that was     *)
(* archived is then what is left of the task.                              *)
PruneBackups ==
  /\ During("archive", "prune")
  /\ kept' = [kept EXCEPT ![work.id] = IF @ = work.previous THEN @ ELSE NoContent]
  /\ \E left \in SUBSET Slots :
       backups' = [backups EXCEPT ![work.id] = [n \in Slots |-> IF n \in left THEN @[n] ELSE NoContent]]
  /\ work' = NoWork
  /\ UNCHANGED <<groupFiles, taskIndex, archived, held, clock, torn, fails>>

----------------------------------------------------------------------------
(* The process ends at any step, and its editors with it. *)
CrashGroups ==
  /\ ~Free
  /\ work' = NoWork
  /\ held' = [e \in Editors |-> NoGroup]
  /\ torn' = TRUE
  /\ IF work.does = "save" THEN CountFailure ELSE UNCHANGED fails
  /\ UNCHANGED <<groupFiles, backups, taskIndex, archived, clock, kept>>

GroupsNext ==
  \/ \E e \in Editors :
       \/ \E i \in Ids : LoadGroup(e, i) \/ ImportLegacy(e, i)
       \/ EditGroup(e) \/ SaveGroup(e)
  \/ \E i, j \in Ids : CopyGroup(i, j)
  \/ \E i \in Ids : EditFileByHand(i) \/ BeginArchive(i)
  \/ Rotate \/ WriteGroup \/ IndexSave \/ EndSave \/ RestoreGroup
  \/ MoveToArchive \/ IndexArchive \/ PutBack \/ PruneBackups
  \/ CrashGroups

GroupsSpec == GroupsInit /\ [][GroupsNext]_groupVars

----------------------------------------------------------------------------
(* A file and its entry in the index are one update: between operations    *)
(* the index lists the files as they are, unless a file was edited by hand *)
(* or an operation crashed, could not be undone, or replaced the index     *)
(* before it failed; the next index that is written makes up for that.     *)
IndexMatches == (Free /\ ~torn) => taskIndex = groupFiles

(* What was saved with success is not lost: through failures and crashes   *)
(* of later saves, fewer than there are backups, it is the file or a       *)
(* backup of it; an archive keeps it when it is the file.                  *)
LastSavedIsKept ==
  \A i \in Ids :
    (kept[i] # NoContent /\ fails[i] < Backups) =>
      \/ groupFiles[i] = kept[i]
      \/ \E n \in Slots : backups[i][n] = kept[i]
      \/ <<i, kept[i]>> \in archived
=============================================================================
