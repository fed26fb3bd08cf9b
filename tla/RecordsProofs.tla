--------------------------- MODULE RecordsProofs ---------------------------
(***************************************************************************)
(* What is kept of maps, tasks, routes and edits, for every set of         *)
(* versions, ids, editors, terminals and contents, every number of backups *)
(* and every limit of the history: proofs about MapRegistry, TaskGroups,   *)
(* TeachMapping and EditHistory.                                           *)
(***************************************************************************)
EXTENDS MapRegistry, TaskGroups, TeachMapping, EditHistory, SequenceTheorems, TLAPS

-----------------------------------------------------------------------------
(* The files of task groups.                                               *)

Content == [saved : Nat, revision : Nat, readable : BOOLEAN]
Group == [id : Ids, revision : Nat, sound : BOOLEAN] \cup {NoGroup}
Working ==
  [does : {"save", "archive"}, id : Ids, step : {"rotate", "write", "index", "saved",
   "restore", "move", "prune"}, previous : Content, next : Content, for : SUBSET Editors]

GroupsTypeOK ==
  /\ groupFiles \in [Ids -> Content] /\ taskIndex \in [Ids -> Content]
  /\ backups \in [Ids -> [Slots -> Content]]
  /\ held \in [Editors -> Group]
  /\ work \in Working \cup {NoWork}
  /\ clock \in Nat /\ torn \in BOOLEAN
  /\ kept \in [Ids -> Content] /\ fails \in [Ids -> Nat]
  /\ \A e \in work.for : held[e] # NoGroup

\* The steps a save, and an archiving, goes through, and what it relies on.
Written == work.does = "save" /\ work.step \in {"write", "index", "saved", "restore"}
GroupsShape ==
  /\ work.step \in {"rotate", "write", "saved"} => work.does = "save"
  /\ work.step \in {"move", "prune"} => work.does = "archive"
  /\ work.step \in {"rotate", "write", "move"} => groupFiles[work.id] = work.previous
  /\ During("save", "index") \/ During("save", "saved") => groupFiles[work.id] = work.next
  /\ work.does = "archive" /\ work.step # "move" =>
       <<work.id, work.previous>> \in archived /\ ~Exists(work.id)

\* The index is the files, with the one that is replaced as it was before.
IndexFollows ==
  ~torn => taskIndex = IF work.step \in {"index", "restore"}
                         THEN [groupFiles EXCEPT ![work.id] = work.previous]
                         ELSE groupFiles

\* What was saved is the file or no deeper in the backups than saves have failed
\* since; the save that rotates it one deeper fails next, or takes its place.
Within(i, depth) == \E n \in Slots : n <= depth /\ backups[i][n] = kept[i]
SavedWithin ==
  \A i \in Ids :
    (kept[i] # NoContent /\ fails[i] < Backups) =>
      \/ <<i, kept[i]>> \in archived
      \/ IF Written /\ work.id = i THEN Within(i, fails[i] + 1)
         ELSE groupFiles[i] = kept[i] \/ Within(i, fails[i])

GroupsInv == GroupsTypeOK /\ GroupsShape /\ IndexFollows /\ SavedWithin

LEMMA GroupsInvInit == GroupsInit => GroupsInv
<1> SUFFICES ASSUME GroupsInit PROVE GroupsInv
  OBVIOUS
<1> USE TaskGroupsAssumption DEF GroupsInit, NoContent, NoWork
<1>1. GroupsTypeOK
  BY DEF GroupsTypeOK, Content, Slots, Group
<1>2. GroupsShape /\ IndexFollows
  BY DEF GroupsShape, IndexFollows, During
<1>3. SavedWithin
  BY DEF SavedWithin
<1>4. QED
  BY <1>1, <1>2, <1>3 DEF GroupsInv

\* While nothing is under way, an operation is in none of its steps.
LEMMA FreeIsIdle ==
  ASSUME GroupsTypeOK
  PROVE  /\ Free => work.does = "nothing" /\ work.step = "done"
         /\ Free => work.for = {}
         /\ ~Free => work \in Working
         /\ NoContent \in Content
BY DEF GroupsTypeOK, Free, NoWork, Working, NoContent, Content

LEMMA ShiftedType ==
  ASSUME NEW b \in [Slots -> Content], NEW m \in Slots
  PROVE  Shifted(b, m) \in [Slots -> Content]
<1>1. NoContent \in Content
  BY DEF NoContent, Content
<1>2. ASSUME NEW n \in Slots, ~(n < m), n # m PROVE n - 1 \in Slots
  BY <1>2, TaskGroupsAssumption DEF Slots
<1>3. QED
  BY <1>1, <1>2 DEF Shifted

LEMMA GroupsTypeStep == GroupsTypeOK /\ [GroupsNext]_groupVars => GroupsTypeOK'
<1> SUFFICES ASSUME GroupsTypeOK, [GroupsNext]_groupVars PROVE GroupsTypeOK'
  OBVIOUS
<1> USE FreeIsIdle
<1>0. NoWork.for = {}
  BY DEF NoWork
<1>1. CASE UNCHANGED groupVars
  BY <1>1 DEF groupVars, GroupsTypeOK, Slots
<1>2. ASSUME NEW e \in Editors, NEW i \in Ids, LoadGroup(e, i) \/ ImportLegacy(e, i)
      PROVE  GroupsTypeOK'
  <2>1. [id |-> i, revision |-> groupFiles[i].revision, sound |-> TRUE] \in Group
        /\ [id |-> i, revision |-> 1, sound |-> TRUE] \in Group
    BY DEF GroupsTypeOK, Content, Group
  <2>2. QED
    BY <1>2, <2>1 DEF LoadGroup, ImportLegacy, GroupsTypeOK, Slots
<1>3. ASSUME NEW e \in Editors, EditGroup(e) PROVE GroupsTypeOK'
  <2>1. [held[e] EXCEPT !.sound = ~@] \in Group
    BY <1>3 DEF EditGroup, GroupsTypeOK, Group
  <2>2. held' \in [Editors -> Group]
    BY <1>3, <2>1 DEF EditGroup, GroupsTypeOK
  <2>3. QED
    BY <1>3, <2>2 DEF EditGroup, GroupsTypeOK, Slots
<1>4. ASSUME NEW t, NEW for \in SUBSET Editors, BeginSave(t, for), t.id \in Ids, t.revision \in Nat,
             \A e \in for : held[e] # NoGroup
      PROVE  GroupsTypeOK'
  <2>1. [saved |-> clock', revision |-> Revision(t), readable |-> TRUE] \in Content
    BY <1>4 DEF BeginSave, Revision, GroupsTypeOK, Content
  <2>2. work' \in Working
    BY <1>4, <2>1 DEF BeginSave, GroupsTypeOK, Working
  <2>3. QED
    BY <1>4, <2>2 DEF BeginSave, GroupsTypeOK, Slots
<1>5. ASSUME NEW e \in Editors, SaveGroup(e) PROVE GroupsTypeOK'
  <2>1. held[e].id \in Ids /\ held[e].revision \in Nat /\ held[e] # NoGroup
    BY <1>5 DEF SaveGroup, BeginSave, Sound, GroupsTypeOK, Group
  <2>2. QED
    BY <1>4, <1>5, <2>1 DEF SaveGroup
<1>6. ASSUME NEW i \in Ids, NEW j \in Ids, CopyGroup(i, j) PROVE GroupsTypeOK'
  BY <1>4, <1>6 DEF CopyGroup
<1>7. ASSUME NEW i \in Ids, EditFileByHand(i) PROVE GroupsTypeOK'
  <2>1. groupFiles' \in [Ids -> Content]
    BY <1>7 DEF EditFileByHand, GroupsTypeOK, Content
  <2>2. QED
    BY <1>7, <2>1 DEF EditFileByHand, GroupsTypeOK, Slots
<1>8. ASSUME NEW i \in Ids, BeginArchive(i) PROVE GroupsTypeOK'
  <2>1. work' = [does |-> "archive", id |-> i, step |-> "move", previous |-> groupFiles[i],
                 next |-> NoContent, for |-> {}]
    BY <1>8 DEF BeginArchive, NoWork
  <2>2. work' \in Working /\ work'.for = {}
    BY <2>1 DEF GroupsTypeOK, Working
  <2>3. QED
    BY <1>8, <2>2 DEF BeginArchive, GroupsTypeOK, Slots
\* The steps of an operation.
<1>9. ASSUME work \in Working, NEW to \in {"write", "index", "saved", "restore", "prune"}, Goes(to)
      PROVE  work' \in Working /\ work'.for = work.for
  BY <1>9 DEF Goes, Working
<1>10. work \in Working => work.id \in Ids /\ work.previous \in Content /\ work.next \in Content
  BY DEF Working
<1>11. CASE Rotate
  <2>1. work \in Working
    BY <1>11, FreeIsIdle DEF Rotate, During
  <2>2. Slots # {} /\ 1 \in Slots
    BY TaskGroupsAssumption DEF Slots
  <2>3. backups' \in [Ids -> [Slots -> Content]]
    <3>1. groupFiles[work.id] \in Content /\ backups[work.id] \in [Slots -> Content]
      BY <1>10, <2>1 DEF GroupsTypeOK
    <3>2. \A m \in Slots : Shifted(backups[work.id], m) \in [Slots -> Content]
      BY <3>1, ShiftedType
    <3>3. [Shifted(backups[work.id], 1) EXCEPT ![1] = groupFiles[work.id]] \in [Slots -> Content]
      BY <2>2, <3>1, <3>2
    <3>4. \E b \in [Slots -> Content] : backups' = [backups EXCEPT ![work.id] = b] \/ backups' = backups
      BY <1>11, <3>1, <3>2, <3>3 DEF Rotate
    <3>5. QED
      BY <3>4 DEF GroupsTypeOK
  <2>4. fails' \in [Ids -> Nat]
    BY <1>10, <1>11, <2>1 DEF Rotate, CountFailure, GroupsTypeOK
  <2>5. work' \in Working \cup {NoWork} /\ work'.for \subseteq work.for
    BY <1>0, <1>9, <1>11, <2>1 DEF Rotate
  <2>6. QED
    BY <1>11, <2>3, <2>4, <2>5 DEF Rotate, GroupsTypeOK, Slots
<1>12. CASE WriteGroup \/ RestoreGroup
  <2>1. work \in Working
    BY <1>12, FreeIsIdle DEF WriteGroup, RestoreGroup, During
  <2>2. groupFiles' \in [Ids -> Content]
    BY <1>10, <1>12, <2>1 DEF WriteGroup, RestoreGroup, GroupsTypeOK
  <2>3. work' \in Working \cup {NoWork} /\ work'.for \subseteq work.for
    BY <1>0, <1>9, <1>12, <2>1 DEF WriteGroup, RestoreGroup
  <2>4. fails' \in [Ids -> Nat]
    BY <1>10, <1>12, <2>1 DEF WriteGroup, RestoreGroup, CountFailure, GroupsTypeOK
  <2>6. torn' \in BOOLEAN
    BY <1>12 DEF WriteGroup, RestoreGroup, GroupsTypeOK
  <2>5. QED
    BY <1>12, <2>2, <2>3, <2>4, <2>6 DEF WriteGroup, RestoreGroup, GroupsTypeOK, Slots
<1>13. CASE IndexSave \/ IndexArchive
  <2>1. work \in Working
    BY <1>13, FreeIsIdle DEF IndexSave, IndexArchive, During
  <2>2. work' \in Working /\ work'.for = work.for
    BY <1>9, <1>13, <2>1 DEF IndexSave, IndexArchive, WriteIndex
  <2>3. taskIndex' \in [Ids -> Content] /\ torn' \in BOOLEAN
    BY <1>13 DEF IndexSave, IndexArchive, WriteIndex, GroupsTypeOK
  <2>4. QED
    BY <1>13, <2>2, <2>3 DEF IndexSave, IndexArchive, GroupsTypeOK, Slots
<1>14. CASE EndSave
  <2>1. work \in Working /\ work.next.revision \in Nat
    BY <1>14, FreeIsIdle DEF EndSave, During, Working, Content
  <2>2. ASSUME NEW e \in Editors PROVE held'[e] \in Group
    BY <1>14, <2>1 DEF EndSave, GroupsTypeOK, Group, NoGroup
  <2>3. held' \in [Editors -> Group]
    BY <1>14, <2>2 DEF EndSave
  <2>4. kept' \in [Ids -> Content] /\ fails' \in [Ids -> Nat]
    BY <1>10, <1>14, <2>1 DEF EndSave, GroupsTypeOK
  <2>5. QED
    BY <1>0, <1>14, <2>3, <2>4 DEF EndSave, GroupsTypeOK, Slots
<1>15. CASE MoveToArchive \/ PutBack
  <2>1. work \in Working
    BY <1>15, FreeIsIdle DEF MoveToArchive, PutBack, During
  <2>2. groupFiles' \in [Ids -> Content]
    BY <1>10, <1>15, <2>1 DEF MoveToArchive, PutBack, GroupsTypeOK
  <2>3. work' \in Working \cup {NoWork} /\ work'.for \subseteq work.for
    BY <1>0, <1>9, <1>15, <2>1 DEF MoveToArchive, PutBack
  <2>4. QED
    BY <1>15, <2>2, <2>3 DEF MoveToArchive, PutBack, GroupsTypeOK, Slots
<1>16. CASE PruneBackups
  <2>1. work.id \in Ids
    BY <1>10, <1>16, FreeIsIdle DEF PruneBackups, During
  <2>2. PICK left \in SUBSET Slots :
          backups' = [backups EXCEPT ![work.id] = [n \in Slots |-> IF n \in left THEN @[n] ELSE NoContent]]
    BY <1>16 DEF PruneBackups
  <2>3. backups' \in [Ids -> [Slots -> Content]]
    BY <2>1, <2>2 DEF GroupsTypeOK
  <2>4. kept' \in [Ids -> Content]
    BY <1>16, <2>1 DEF PruneBackups, GroupsTypeOK
  <2>5. QED
    BY <1>0, <1>16, <2>3, <2>4 DEF PruneBackups, GroupsTypeOK, Slots
<1>17. CASE CrashGroups
  <2>1. NoGroup \in Group /\ work.id \in Ids
    BY <1>10, <1>17, FreeIsIdle DEF CrashGroups, Group
  <2>2. held' \in [Editors -> Group] /\ fails' \in [Ids -> Nat]
    BY <1>17, <2>1 DEF CrashGroups, CountFailure, GroupsTypeOK
  <2>3. QED
    BY <1>0, <1>17, <2>2 DEF CrashGroups, GroupsTypeOK, Slots
<1>18. QED
  BY <1>1, <1>2, <1>3, <1>5, <1>6, <1>7, <1>8, <1>11, <1>12, <1>13, <1>14, <1>15, <1>16,
     <1>17 DEF GroupsNext

LEMMA GroupsShapeStep ==
  GroupsTypeOK /\ GroupsShape /\ [GroupsNext]_groupVars => GroupsShape'
<1> SUFFICES ASSUME GroupsTypeOK, GroupsShape, [GroupsNext]_groupVars PROVE GroupsShape'
  OBVIOUS
<1> USE FreeIsIdle
<1>1. NoWork.does = "nothing" /\ NoWork.step = "done"
  BY DEF NoWork
<1>2. CASE UNCHANGED groupVars
  BY <1>2 DEF groupVars, GroupsShape, During, Exists
<1>3. CASE UNCHANGED <<groupFiles, archived, work>>
  BY <1>3 DEF GroupsShape, During, Exists
<1>4. CASE work' = NoWork
  BY <1>1, <1>4 DEF GroupsShape, During, Exists
<1>5. ASSUME NEW t, NEW for, BeginSave(t, for) PROVE GroupsShape'
  <2>1. work'.does = "save" /\ work'.id = t.id /\ work'.step = "rotate" /\ work'.previous = groupFiles[t.id]
        /\ groupFiles' = groupFiles
    BY <1>5 DEF BeginSave
  <2>2. QED
    BY <2>1 DEF GroupsShape, During, Exists
<1>6. ASSUME NEW i \in Ids, BeginArchive(i) PROVE GroupsShape'
  <2>1. work'.does = "archive" /\ work'.id = i /\ work'.step = "move" /\ work'.previous = groupFiles[i]
        /\ groupFiles' = groupFiles
    BY <1>6 DEF BeginArchive, NoWork
  <2>2. QED
    BY <2>1 DEF GroupsShape, During, Exists
<1>7. ASSUME NEW to, Goes(to), work \in Working
      PROVE  /\ work'.step = to /\ work'.does = work.does /\ work'.id = work.id
             /\ work'.previous = work.previous /\ work'.next = work.next
  BY <1>7 DEF Goes, Working
<1>8. CASE Rotate
  <2>1. work \in Working /\ groupFiles' = groupFiles /\ archived' = archived
    BY <1>8 DEF Rotate, During
  <2>2. CASE Goes("write")
    BY <1>7, <1>8, <2>1, <2>2 DEF Rotate, GroupsShape, During, Exists
  <2>3. QED
    BY <1>4, <1>8, <2>2 DEF Rotate
<1>9. CASE WriteGroup
  <2>1. work \in Working /\ archived' = archived /\ work.does = "save" /\ work.id \in Ids
    BY <1>9 DEF WriteGroup, During, Working
  <2>2. CASE groupFiles' = [groupFiles EXCEPT ![work.id] = work.next] /\ Goes("index")
    <3>1. groupFiles'[work.id] = work.next
      BY <2>1, <2>2 DEF GroupsTypeOK
    <3>2. QED
      BY <1>7, <2>1, <2>2, <3>1 DEF GroupsShape, During, Exists
  <2>3. CASE Goes("restore")
    BY <1>7, <2>1, <2>3 DEF GroupsShape, During, Exists
  <2>4. QED
    BY <1>9, <2>2, <2>3 DEF WriteGroup
<1>10. CASE IndexSave \/ IndexArchive
  <2>1. work \in Working /\ groupFiles' = groupFiles /\ archived' = archived
    BY <1>10 DEF IndexSave, IndexArchive, During
  <2>2. \/ During("save", "index") /\ (Goes("saved") \/ Goes("restore"))
        \/ During("archive", "index") /\ (Goes("prune") \/ Goes("restore"))
    BY <1>10 DEF IndexSave, IndexArchive, WriteIndex
  <2>3. QED
    BY <1>7, <2>1, <2>2 DEF GroupsShape, During, Exists
<1>11. CASE MoveToArchive
  <2>1. work \in Working /\ work.does = "archive" /\ work.id \in Ids
    BY <1>11 DEF MoveToArchive, During, Working
  <2>2. CASE /\ groupFiles' = [groupFiles EXCEPT ![work.id] = NoContent]
             /\ archived' = archived \cup {<<work.id, work.previous>>} /\ Goes("index")
    <3>1. groupFiles'[work.id] = NoContent
      BY <2>1, <2>2 DEF GroupsTypeOK
    <3>2. QED
      BY <1>7, <2>1, <2>2, <3>1 DEF GroupsShape, During, Exists
  <2>3. QED
    BY <1>4, <1>11, <2>2 DEF MoveToArchive
<1>12. CASE EndSave \/ RestoreGroup \/ PutBack \/ PruneBackups \/ CrashGroups
  BY <1>4, <1>12 DEF EndSave, RestoreGroup, PutBack, PruneBackups, CrashGroups
<1>13. ASSUME NEW i \in Ids, EditFileByHand(i) PROVE GroupsShape'
  BY <1>13 DEF EditFileByHand, GroupsShape, During
<1>14. ASSUME NEW e \in Editors, NEW i \in Ids, LoadGroup(e, i) \/ ImportLegacy(e, i) \/ EditGroup(e)
      PROVE  GroupsShape'
  BY <1>3, <1>14 DEF LoadGroup, ImportLegacy, EditGroup
<1>15. ASSUME NEW e \in Editors, EditGroup(e) \/ SaveGroup(e) PROVE GroupsShape'
  BY <1>3, <1>5, <1>15 DEF EditGroup, SaveGroup
<1>16. QED
  BY <1>2, <1>5, <1>6, <1>8, <1>9, <1>10, <1>11, <1>12, <1>13, <1>14, <1>15 DEF GroupsNext, CopyGroup

LEMMA IndexStep ==
  GroupsTypeOK /\ GroupsShape /\ IndexFollows /\ [GroupsNext]_groupVars => IndexFollows'
<1> SUFFICES ASSUME GroupsTypeOK, GroupsShape, IndexFollows, [GroupsNext]_groupVars
             PROVE  IndexFollows'
  OBVIOUS
<1> USE FreeIsIdle
<1>1. NoWork.step = "done"
  BY DEF NoWork
<1>2. CASE UNCHANGED groupVars
  BY <1>2 DEF groupVars, IndexFollows
<1>3. CASE UNCHANGED <<groupFiles, taskIndex, torn>> /\ work.step \notin {"index", "restore"}
           /\ work'.step \notin {"index", "restore"}
  BY <1>3 DEF IndexFollows
<1>4. ASSUME NEW i \in Ids, EditFileByHand(i) PROVE IndexFollows'
  BY <1>4 DEF EditFileByHand, IndexFollows, GroupsTypeOK
<1>5. ASSUME NEW t, NEW for, BeginSave(t, for) PROVE IndexFollows'
  BY <1>3, <1>5 DEF BeginSave
<1>6. ASSUME NEW i \in Ids, BeginArchive(i) PROVE IndexFollows'
  BY <1>3, <1>6 DEF BeginArchive, NoWork
<1>7. ASSUME NEW to, Goes(to), work \in Working
      PROVE  work'.step = to /\ work'.id = work.id /\ work'.previous = work.previous
  BY <1>7 DEF Goes, Working
<1>8. CASE Rotate \/ EndSave \/ PruneBackups
  <2>1. UNCHANGED <<groupFiles, taskIndex, torn>> /\ work.step \notin {"index", "restore"}
    BY <1>8 DEF Rotate, EndSave, PruneBackups, During
  <2>2. work'.step \notin {"index", "restore"}
    BY <1>1, <1>7, <1>8 DEF Rotate, EndSave, PruneBackups, During
  <2>3. QED
    BY <1>3, <2>1, <2>2
\* Replacing one file, the index is of the files with the previous one.
<1>9. ASSUME work \in Working, work.step \notin {"index", "restore"}, UNCHANGED <<taskIndex, torn>>,
             groupFiles[work.id] = work.previous,
             \/ groupFiles' = groupFiles
             \/ \E new : groupFiles' = [groupFiles EXCEPT ![work.id] = new],
             Goes("index") \/ Goes("restore")
      PROVE  IndexFollows'
  <2>1. groupFiles = [groupFiles' EXCEPT ![work.id] = work.previous]
    BY <1>9 DEF GroupsTypeOK, Working
  <2>2. work'.step \in {"index", "restore"} /\ work'.id = work.id /\ work'.previous = work.previous
    BY <1>7, <1>9
  <2>3. QED
    BY <1>9, <2>1, <2>2 DEF IndexFollows
<1>10. CASE WriteGroup
  BY <1>9, <1>10 DEF WriteGroup, During, GroupsShape
<1>11. CASE MoveToArchive
  <2>1. CASE work' = NoWork /\ UNCHANGED <<groupFiles, archived>>
    BY <1>1, <1>3, <1>11, <2>1 DEF MoveToArchive, During
  <2>2. QED
    BY <1>9, <1>11, <2>1 DEF MoveToArchive, During, GroupsShape
<1>12. CASE IndexSave \/ IndexArchive
  <2>1. work \in Working /\ work.step = "index" /\ groupFiles' = groupFiles
    BY <1>12 DEF IndexSave, IndexArchive, During
  <2>2. \/ \E to \in {"saved", "prune"} : taskIndex' = groupFiles /\ Goes(to)
        \/ taskIndex' = taskIndex /\ Goes("restore") /\ UNCHANGED torn
        \/ torn' = TRUE
    BY <1>12 DEF IndexSave, IndexArchive, WriteIndex
  <2>3. QED
    BY <1>7, <2>1, <2>2 DEF IndexFollows
<1>13. CASE RestoreGroup \/ PutBack
  <2>1. work \in Working /\ work.step = "restore" /\ taskIndex' = taskIndex /\ work' = NoWork
    BY <1>13 DEF RestoreGroup, PutBack, During
  <2>2. \/ groupFiles' = [groupFiles EXCEPT ![work.id] = work.previous] /\ UNCHANGED torn
        \/ torn' = TRUE
    BY <1>13 DEF RestoreGroup, PutBack
  <2>3. QED
    BY <1>1, <2>1, <2>2 DEF IndexFollows
<1>14. CASE CrashGroups
  BY <1>14 DEF CrashGroups, IndexFollows
<1>15. ASSUME NEW e \in Editors, NEW i \in Ids, LoadGroup(e, i) \/ ImportLegacy(e, i)
       PROVE  IndexFollows'
  BY <1>3, <1>15 DEF LoadGroup, ImportLegacy
<1>16. ASSUME NEW e \in Editors, EditGroup(e) \/ SaveGroup(e) PROVE IndexFollows'
  BY <1>3, <1>5, <1>16 DEF EditGroup, SaveGroup
<1>17. QED
  BY <1>2, <1>4, <1>5, <1>6, <1>8, <1>10, <1>11, <1>12, <1>13, <1>14, <1>15, <1>16
     DEF GroupsNext, CopyGroup

\* Where the content last saved under one id is, before and after a step.
Safe(i) ==
  (kept[i] # NoContent /\ fails[i] < Backups) =>
    \/ <<i, kept[i]>> \in archived
    \/ IF Written /\ work.id = i THEN Within(i, fails[i] + 1)
       ELSE groupFiles[i] = kept[i] \/ Within(i, fails[i])

LEMMA SavedStep ==
  GroupsTypeOK /\ GroupsShape /\ SavedWithin /\ [GroupsNext]_groupVars => SavedWithin'
<1> SUFFICES ASSUME GroupsTypeOK, GroupsShape, SavedWithin, [GroupsNext]_groupVars, NEW i \in Ids
             PROVE  Safe(i)'
  BY DEF SavedWithin, Safe
<1> USE FreeIsIdle
<1>s. Safe(i) /\ fails[i] \in Nat /\ Backups \in Nat /\ Slots = 1..Backups
  BY TaskGroupsAssumption DEF SavedWithin, Safe, GroupsTypeOK, Slots
<1>n. NoWork.does = "nothing" /\ NoWork.step = "done"
  BY DEF NoWork
<1>g. ASSUME NEW to, Goes(to), work \in Working
      PROVE  work'.step = to /\ work'.id = work.id /\ work'.previous = work.previous
             /\ work'.does = work.does
  BY <1>g DEF Goes, Working
\* A failed save puts the content one deeper at most.
<1>w. ASSUME kept[i] # NoContent, fails[i] < Backups, ~(<<i, kept[i]>> \in archived)
      PROVE  groupFiles[i] = kept[i] \/ Within(i, fails[i] + 1)
  BY <1>w, <1>s DEF Safe, Within
<1>1. CASE UNCHANGED <<groupFiles, backups, archived, kept, fails>> /\ (Written /\ work.id = i <=> Written' /\ work'.id = i)
  BY <1>1, <1>s DEF Safe, Within
<1>2. CASE UNCHANGED groupVars
  BY <1>1, <1>2 DEF groupVars, Written
<1>3. ASSUME NEW j \in Ids, EditFileByHand(j) PROVE Safe(i)'
  <2>1. CASE j = i
    <3>1. kept'[i] = NoContent
      BY <1>3, <2>1 DEF EditFileByHand, GroupsTypeOK
    <3>2. QED
      BY <3>1 DEF Safe
  <2>2. CASE j # i
    <3>1. kept'[i] = kept[i] /\ groupFiles'[i] = groupFiles[i] /\ UNCHANGED <<backups, archived, fails, work>>
      BY <1>3, <2>2 DEF EditFileByHand, GroupsTypeOK
    <3>2. QED
      BY <1>s, <3>1 DEF Safe, Within, Written
  <2>3. QED
    BY <2>1, <2>2
<1>4. ASSUME NEW t, NEW for, BeginSave(t, for) PROVE Safe(i)'
  <2>1. ~Written /\ work'.step = "rotate"
    BY <1>4 DEF BeginSave, Written
  <2>2. QED
    BY <1>1, <1>4, <2>1 DEF BeginSave, Written
<1>5. ASSUME NEW j \in Ids, BeginArchive(j) PROVE Safe(i)'
  <2>1. ~Written /\ work'.step = "move"
    BY <1>5 DEF BeginArchive, Written, NoWork
  <2>2. QED
    BY <1>1, <1>5, <2>1 DEF BeginArchive, Written
<1>6. CASE Rotate
  <2>1. /\ work \in Working /\ work.does = "save" /\ work.step = "rotate" /\ ~Written /\ work.id \in Ids
        /\ UNCHANGED <<groupFiles, archived, kept>>
    BY <1>6 DEF Rotate, During, Written, Working
  <2>2. CASE work.id # i
    <3>1. backups'[i] = backups[i] /\ fails'[i] = fails[i]
      BY <1>6, <2>1, <2>2 DEF Rotate, GroupsTypeOK, CountFailure
    <3>2. ~(Written' /\ work'.id = i)
      BY <1>6, <1>n, <1>g, <2>1, <2>2 DEF Rotate, Written
    <3>3. QED
      BY <1>s, <2>1, <2>2, <3>1, <3>2 DEF Safe, Within
  <2>3. CASE work.id = i /\ ~Exists(i) /\ Goes("write") /\ UNCHANGED <<backups, fails>>
    <3>1. Written' /\ work'.id = i
      BY <1>g, <2>1, <2>3 DEF Written
    <3>2. QED
      BY <1>s, <2>1, <2>3, <3>1 DEF Safe, Within, Exists
  <2>4. CASE /\ work.id = i /\ Goes("write") /\ UNCHANGED fails
             /\ backups' = [backups EXCEPT ![i] = [Shifted(backups[i], 1) EXCEPT ![1] = groupFiles[i]]]
    <3>1. Written' /\ work'.id = i
      BY <1>g, <2>1, <2>4 DEF Written
    <3>2. 1 \in Slots /\ backups'[i][1] = groupFiles[i]
      BY <1>s, <2>4, TaskGroupsAssumption DEF GroupsTypeOK, Shifted
    <3>3. ASSUME NEW n \in Slots, n + 1 \in Slots PROVE backups'[i][n + 1] = backups[i][n]
      BY <1>s, <2>4, <3>3, TaskGroupsAssumption DEF GroupsTypeOK, Shifted
    <3>4. ASSUME NEW n \in Slots, n <= fails[i], fails[i] < Backups
          PROVE  n + 1 \in Slots /\ n + 1 <= fails[i] + 1
      BY <1>s, <3>4
    <3>5. ASSUME kept[i] # NoContent, fails[i] < Backups, ~(<<i, kept[i]>> \in archived)
          PROVE  Within(i, fails[i] + 1)'
      BY <1>s, <2>1, <2>4, <3>2, <3>3, <3>4, <3>5 DEF Safe, Within
    <3>6. QED
      BY <2>1, <2>4, <3>1, <3>5 DEF Safe
  <2>5. ASSUME work.id = i, work' = NoWork, CountFailure, NEW m \in Slots,
               backups' = [backups EXCEPT ![i] = Shifted(backups[i], m)]
        PROVE  Safe(i)'
    <3>1. fails'[i] = fails[i] + 1 /\ ~Written'
      BY <1>n, <2>5 DEF CountFailure, GroupsTypeOK, Written
    <3>2. ASSUME NEW n \in Slots, n + 1 \in Slots
          PROVE  backups'[i][n] = backups[i][n] \/ backups'[i][n + 1] = backups[i][n]
      BY <1>s, <2>5, <3>2 DEF GroupsTypeOK, Shifted
    <3>3. ASSUME NEW n \in Slots, n <= fails[i], fails[i] < Backups
          PROVE  n + 1 \in Slots /\ n + 1 <= fails[i] + 1
      BY <1>s, <3>3
    <3>4. ASSUME kept[i] # NoContent, fails[i] < Backups, ~(<<i, kept[i]>> \in archived),
                 groupFiles[i] # kept[i]
          PROVE  Within(i, fails[i])'
      BY <1>s, <2>1, <2>5, <3>1, <3>2, <3>3, <3>4 DEF Safe, Within
    <3>5. QED
      BY <1>s, <2>1, <3>1, <3>4 DEF Safe
  <2>6. QED
    BY <1>6, <2>2, <2>3, <2>4, <2>5 DEF Rotate
<1>7. CASE WriteGroup
  <2>1. work \in Working /\ Written /\ work.id \in Ids /\ UNCHANGED <<backups, archived, kept, fails>>
    BY <1>7 DEF WriteGroup, During, Written, Working
  <2>2. Written' /\ work'.id = work.id
    BY <1>7, <1>g, <2>1 DEF WriteGroup, Written, During
  <2>3. work.id # i => groupFiles'[i] = groupFiles[i]
    BY <1>7, <2>1 DEF WriteGroup, GroupsTypeOK
  <2>4. QED
    BY <1>s, <2>1, <2>2, <2>3 DEF Safe, Within
<1>8. CASE IndexSave \/ IndexArchive
  <2>1. work \in Working /\ UNCHANGED <<groupFiles, backups, archived, kept, fails>>
    BY <1>8 DEF IndexSave, IndexArchive, During
  <2>2. work'.id = work.id /\ (Written' <=> Written)
    BY <1>8, <1>g, <2>1 DEF IndexSave, IndexArchive, WriteIndex, Written, During
  <2>3. QED
    BY <1>1, <2>1, <2>2
<1>9. CASE EndSave
  <2>1. /\ groupFiles[work.id] = work.next /\ work.id \in Ids /\ ~Written'
        /\ UNCHANGED <<groupFiles, backups, archived>>
        /\ kept' = [kept EXCEPT ![work.id] = work.next] /\ fails' = [fails EXCEPT ![work.id] = 0]
    BY <1>9, <1>n DEF EndSave, During, GroupsShape, Working, Written
  <2>2. CASE work.id = i
    BY <2>1, <2>2 DEF Safe, GroupsTypeOK
  <2>3. CASE work.id # i
    <3>1. kept'[i] = kept[i] /\ fails'[i] = fails[i]
      BY <2>1, <2>3 DEF GroupsTypeOK
    <3>2. QED
      BY <1>s, <2>1, <2>3, <3>1 DEF Safe, Within
  <2>4. QED
    BY <2>2, <2>3
<1>10. CASE RestoreGroup \/ (CrashGroups /\ work.does = "save")
  <2>1. /\ work \in Working /\ work.id \in Ids /\ ~Written' /\ CountFailure
        /\ UNCHANGED <<backups, archived, kept>>
    BY <1>10, <1>n DEF RestoreGroup, CrashGroups, During, Working, Written
  <2>2. CASE work.id # i
    <3>1. fails'[i] = fails[i] /\ groupFiles'[i] = groupFiles[i]
      BY <1>10, <2>1, <2>2 DEF RestoreGroup, CrashGroups, CountFailure, GroupsTypeOK
    <3>2. QED
      BY <1>s, <2>1, <2>2, <3>1 DEF Safe, Within
  <2>3. CASE work.id = i
    <3>1. fails'[i] = fails[i] + 1
      BY <2>1, <2>3 DEF CountFailure, GroupsTypeOK
    <3>2. groupFiles' = groupFiles \/ Written
      BY <1>10 DEF RestoreGroup, CrashGroups, During, Written
    <3>3. QED
      BY <1>s, <1>w, <2>1, <2>3, <3>1, <3>2 DEF Safe, Within
  <2>4. QED
    BY <2>2, <2>3
<1>11. CASE MoveToArchive
  <2>1. /\ work \in Working /\ work.id \in Ids /\ ~Written /\ ~Written'
        /\ groupFiles[work.id] = work.previous /\ UNCHANGED <<backups, kept, fails>>
        /\ \/ UNCHANGED <<groupFiles, archived>>
           \/ /\ groupFiles' = [groupFiles EXCEPT ![work.id] = NoContent]
              /\ archived' = archived \cup {<<work.id, work.previous>>}
    BY <1>11, <1>n, <1>g DEF MoveToArchive, During, GroupsShape, Working, Written
  <2>2. groupFiles'[i] = groupFiles[i] \/ <<i, groupFiles[i]>> \in archived'
    BY <2>1 DEF GroupsTypeOK
  <2>3. archived \subseteq archived'
    BY <2>1
  <2>4. QED
    BY <1>s, <2>1, <2>2, <2>3 DEF Safe, Within
<1>12. CASE PutBack
  <2>1. /\ work.id \in Ids /\ ~Written /\ ~Written' /\ UNCHANGED <<backups, kept, fails>>
        /\ \/ UNCHANGED <<groupFiles, archived>>
           \/ /\ groupFiles' = [groupFiles EXCEPT ![work.id] = work.previous]
              /\ archived' = archived \ {<<work.id, work.previous>>}
    BY <1>12, <1>n DEF PutBack, During, Working, Written
  <2>2. CASE groupFiles' = [groupFiles EXCEPT ![work.id] = work.previous] /\ work.id = i
    <3>1. \/ groupFiles'[i] = work.previous /\ archived' = archived \ {<<i, work.previous>>}
          \/ UNCHANGED <<groupFiles, archived>>
      BY <2>1, <2>2 DEF GroupsTypeOK
    <3>2. <<i, kept[i]>> \in archived => <<i, kept[i]>> \in archived' \/ groupFiles'[i] = kept[i]
      BY <3>1
    <3>3. groupFiles[i] = NoContent
      BY <1>12, <2>2 DEF PutBack, During, GroupsShape, Exists
    <3>4. QED
      BY <1>s, <2>1, <2>2, <3>1, <3>2, <3>3 DEF Safe, Within
  <2>3. QED
    BY <1>s, <2>1, <2>2 DEF Safe, Within, GroupsTypeOK
<1>13. CASE PruneBackups
  <2>1. /\ work.id \in Ids /\ ~Written /\ ~Written' /\ UNCHANGED <<groupFiles, archived, fails>>
        /\ <<work.id, work.previous>> \in archived
    BY <1>13, <1>n DEF PruneBackups, During, Working, Written, GroupsShape
  <2>2. CASE work.id = i
    <3>1. kept'[i] = NoContent \/ kept'[i] = work.previous
      BY <1>13, <2>2 DEF PruneBackups, GroupsTypeOK
    <3>2. QED
      BY <2>1, <2>2, <3>1 DEF Safe
  <2>3. CASE work.id # i
    <3>1. kept'[i] = kept[i] /\ backups'[i] = backups[i]
      BY <1>13, <2>1, <2>3 DEF PruneBackups, GroupsTypeOK
    <3>2. QED
      BY <1>s, <2>1, <2>3, <3>1 DEF Safe, Within
  <2>4. QED
    BY <2>2, <2>3
<1>14. CASE CrashGroups /\ work.does # "save"
  BY <1>1, <1>14, <1>n DEF CrashGroups, Written
<1>15. ASSUME NEW e \in Editors, NEW j \in Ids, LoadGroup(e, j) \/ ImportLegacy(e, j)
       PROVE  Safe(i)'
  BY <1>1, <1>15 DEF LoadGroup, ImportLegacy, Written
<1>16. ASSUME NEW e \in Editors, EditGroup(e) \/ SaveGroup(e) PROVE Safe(i)'
  BY <1>1, <1>4, <1>16 DEF EditGroup, SaveGroup, Written
<1>17. QED
  BY <1>2, <1>3, <1>4, <1>5, <1>6, <1>7, <1>8, <1>9, <1>10, <1>11, <1>12, <1>13, <1>14, <1>15,
     <1>16 DEF GroupsNext, CopyGroup

LEMMA GroupsInvAlways == GroupsSpec => []GroupsInv
<1>1. GroupsInv /\ [GroupsNext]_groupVars => GroupsInv'
  BY GroupsTypeStep, GroupsShapeStep, IndexStep, SavedStep DEF GroupsInv
<1>2. QED
  BY <1>1, GroupsInvInit, PTL DEF GroupsSpec

\* Saving, copying and archiving keep the index and the files one update: between
\* operations the index lists the files, unless one crashed, could not be undone, or
\* failed after the index was replaced (TaskGroupRepository.save and archive).
THEOREM IndexAlwaysMatches == GroupsSpec => []IndexMatches
<1>1. GroupsInv => IndexMatches
  BY FreeIsIdle DEF GroupsInv, IndexFollows, IndexMatches
<1>2. QED
  BY <1>1, GroupsInvAlways, PTL

\* What was saved is still a file, one of its backups or archived, for every number
\* of backups, after fewer failed or crashed saves than there are backups.
THEOREM LastSavedAlwaysKept == GroupsSpec => []LastSavedIsKept
<1>1. GroupsInv => LastSavedIsKept
  <2> SUFFICES ASSUME GroupsInv, NEW i \in Ids, kept[i] # NoContent, fails[i] < Backups
               PROVE  \/ groupFiles[i] = kept[i]
                      \/ \E n \in Slots : backups[i][n] = kept[i]
                      \/ <<i, kept[i]>> \in archived
    BY DEF LastSavedIsKept
  <2>1. QED
    BY DEF GroupsInv, SavedWithin, Within
<1>2. QED
  BY <1>1, GroupsInvAlways, PTL

-----------------------------------------------------------------------------
(* The sessions of teach mapping.                                          *)

NoNames == {"none", "absent", "nothing", "mixed"}
Candidate == [name : MapNames \cup {"none"}, holds : Bags \cup NoNames, ready : BOOLEAN]
Session ==
  [stage : Stages \cup {"FAILED"}, last : Stages, boot : Contents \cup {0},
   route : Contents \cup {0}, bag : Bags \cup {"none"}, candidate : Candidate]
Program ==
  [does : {"mapping", "player", "saver"}, by : Terminals, name : MapNames \cup {"none"},
   bag : Bags \cup {"none"}]
Alone == {"init", "extract", "extracted", "register", "build"} \cup Building

TeachMapTypeOK ==
  /\ teachSession \in Session \cup {NoFile}
  /\ bootstrap \in Contents /\ routeManifest \in Contents \cup {0}
  /\ candidates \in [MapNames -> Bags \cup NoNames]
  /\ programs \subseteq Program
  /\ doing \in [Terminals -> {"idle", "report"} \cup Alone]
  /\ loaded \in [Terminals -> Session \cup {NoFile}]
  /\ killed \in BOOLEAN /\ outlived \in BOOLEAN
  /\ \A t \in Terminals :
       /\ doing[t] # "idle" => loaded[t] \in Session
       /\ doing[t] \in Building => Name(t) \in MapNames /\ teachSession \in Session

\* In every copy of the session, a candidate that is ready is its last stage and holds
\* its rescan; the stage of a build that is under way is not one to come back to.
Honest(s) ==
  s # NoFile =>
    /\ s.last # "CANDIDATE_MAP_BUILDING"
    /\ s.stage \in {"FAILED", "CANDIDATE_MAP_BUILDING", s.last}
    /\ s.stage = "CANDIDATE_MAP_BUILDING" => s.last = "RESCAN_RECORDED"
    /\ s.candidate.ready => s.last = "CANDIDATE_MAP_READY" /\ s.candidate.holds = s.bag

\* One command at a time writes successes, and the programs are those of its build.
OneBuild ==
  /\ \A t, u \in Terminals : doing[t] \in Alone /\ doing[u] \in Alone => t = u
  /\ \A p \in programs :
       /\ doing[p.by] \in {"ready", "play", "save", "cleanup"}
       /\ p.does = "player" => doing[p.by] # "ready"

\* What each step of a command relies on.
ReliesOn(t) ==
  /\ doing[t] = "init" => loaded[t] = Created
  /\ doing[t] = "extracted" => Effective(loaded[t]) = "BOOTSTRAP_READY"
  /\ doing[t] \in Building \ {"cleanup"} =>
       (teachSession.stage = "CANDIDATE_MAP_BUILDING" => teachSession.bag = loaded[t].bag)
  /\ doing[t] = "ready" => candidates[Name(t)] = "nothing"
  /\ doing[t] \in {"play", "save", "stopped"} => candidates[Name(t)] = loaded[t].bag
Relies == \A t \in Terminals : ReliesOn(t)

TeachMapInv ==
  /\ TeachMapTypeOK
  /\ ~killed /\ ~outlived =>
       /\ Honest(teachSession) /\ \A t \in Terminals : Honest(loaded[t])
       /\ OneBuild /\ Relies

LEMMA TeachMapInvInit == TeachMapInit => TeachMapInv
<1> SUFFICES ASSUME TeachMapInit PROVE TeachMapInv
  OBVIOUS
<1>1. \A t \in Terminals : doing[t] = "idle" /\ loaded[t] = NoFile
  BY DEF TeachMapInit
<1>2. TeachMapTypeOK
  BY <1>1 DEF TeachMapInit, TeachMapTypeOK, NoNames, Building
<1>3. OneBuild /\ Relies
  BY <1>1 DEF TeachMapInit, OneBuild, Relies, ReliesOn, Alone, Building
<1>4. QED
  BY <1>1, <1>2, <1>3 DEF TeachMapInit, TeachMapInv, Honest

\* The records the commands write.
LEMMA Records ==
  ASSUME NEW s \in Session
  PROVE  /\ MarkFailed(s) \in Session /\ MarkFailed(s).stage = "FAILED"
         /\ MarkFailed(s).last = s.last /\ MarkFailed(s).bag = s.bag
         /\ MarkFailed(s).candidate = s.candidate
         /\ \A stage \in Stages :
              /\ Reach(s, stage) \in Session
              /\ Reach(s, stage).stage = stage /\ Reach(s, stage).last = stage
              /\ Reach(s, stage).bag = s.bag /\ Reach(s, stage).candidate = s.candidate
         /\ s # NoFile
<1>1. s.stage # "none" /\ NoFile.stage = "none"
  BY DEF Session, Stages, NoFile
<1>2. /\ MarkFailed(s) \in Session /\ MarkFailed(s).stage = "FAILED"
      /\ MarkFailed(s).last = s.last /\ MarkFailed(s).bag = s.bag
      /\ MarkFailed(s).candidate = s.candidate
  BY DEF Session, MarkFailed
<1>3. ASSUME NEW stage \in Stages
      PROVE  /\ Reach(s, stage) \in Session
             /\ Reach(s, stage).stage = stage /\ Reach(s, stage).last = stage
             /\ Reach(s, stage).bag = s.bag /\ Reach(s, stage).candidate = s.candidate
  BY DEF Session, Reach
<1>4. QED
  BY <1>1, <1>2, <1>3

LEMMA SessionFields ==
  ASSUME NEW s \in Session
  PROVE  /\ s.stage \in Stages \cup {"FAILED"} /\ s.last \in Stages /\ s.bag \in Bags \cup {"none"}
         /\ s.candidate \in Candidate /\ s.candidate.name \in MapNames \cup {"none"}
  BY DEF Session, Candidate

LEMMA NoCandidateType == NoCandidate \in Candidate /\ ~NoCandidate.ready /\ Created \in Session
BY DEF NoCandidate, Candidate, NoNames, Created, Session, Stages

\* A command that leaves, and one that moves on, leave the others as they are.
LEMMA TeachMapTypeStep == TeachMapTypeOK /\ [TeachMapNext]_teachMapVars => TeachMapTypeOK'
<1> SUFFICES ASSUME TeachMapTypeOK, [TeachMapNext]_teachMapVars PROVE TeachMapTypeOK'
  OBVIOUS
<1> USE NoCandidateType
<1>1. CASE UNCHANGED teachMapVars
  BY <1>1 DEF teachMapVars, TeachMapTypeOK, Name
\* What is left of the type when the session is written, and when a command leaves.
<1>2. ASSUME NEW t \in Terminals, Leaves(t), teachSession' \in Session \cup {NoFile},
             teachSession \in Session => teachSession' \in Session,
             bootstrap' \in Contents, routeManifest' \in Contents \cup {0},
             candidates' = candidates, programs' \subseteq Program,
             killed' \in BOOLEAN, outlived' \in BOOLEAN
      PROVE  TeachMapTypeOK'
  <2>1. /\ doing' \in [Terminals -> {"idle", "report"} \cup Alone]
        /\ loaded' \in [Terminals -> Session \cup {NoFile}]
    BY <1>2 DEF Leaves, TeachMapTypeOK
  <2>2. ASSUME NEW u \in Terminals
        PROVE  doing'[u] = "idle" \/ (doing'[u] = doing[u] /\ loaded'[u] = loaded[u])
    BY <1>2 DEF Leaves, TeachMapTypeOK
  <2>3. "idle" \notin Building
    BY DEF Building
  <2>4. QED
    BY <1>2, <2>1, <2>2, <2>3 DEF TeachMapTypeOK, Name
<1>3. ASSUME NEW t \in Terminals, NEW to \in {"idle", "report"} \cup Alone,
             doing' = [doing EXCEPT ![t] = to],
             loaded' \in [Terminals -> Session \cup {NoFile}], loaded'[t] \in Session,
             \A u \in Terminals : u # t => loaded'[u] = loaded[u],
             teachSession' \in Session \cup {NoFile},
             teachSession \in Session => teachSession' \in Session,
             to \in Building => teachSession' \in Session /\ loaded'[t].candidate.name \in MapNames,
             bootstrap' \in Contents, routeManifest' \in Contents \cup {0},
             candidates' \in [MapNames -> Bags \cup NoNames], programs' \subseteq Program,
             killed' \in BOOLEAN, outlived' \in BOOLEAN
      PROVE  TeachMapTypeOK'
  <2>1. doing' \in [Terminals -> {"idle", "report"} \cup Alone] /\ doing'[t] = to
    BY <1>3 DEF TeachMapTypeOK
  <2>2. \A u \in Terminals : u # t => doing'[u] = doing[u] /\ loaded'[u] = loaded[u]
    BY <1>3 DEF TeachMapTypeOK
  <2>3. QED
    BY <1>3, <2>1, <2>2 DEF TeachMapTypeOK, Name
<1>4. Building \subseteq Alone /\ {"idle", "report", "init"} \cap Building = {}
      /\ {"extract", "extracted", "register", "build"} \cap Building = {}
      /\ {"init", "extract", "extracted", "register", "build"} \subseteq Alone
  BY DEF Building, Alone
<1>l. ASSUME NEW t \in Terminals PROVE doing[t] # "idle" => loaded[t] \in Session
  BY DEF TeachMapTypeOK
<1>5. ASSUME NEW t \in Terminals, NEW c \in {"extract", "register", "build", "report"},
             LoadSession(t, c)
      PROVE  TeachMapTypeOK'
  <2>1. /\ loaded' \in [Terminals -> Session \cup {NoFile}] /\ loaded'[t] \in Session
        /\ \A u \in Terminals : u # t => loaded'[u] = loaded[u]
    BY <1>5 DEF LoadSession, TeachMapTypeOK
  <2>2. QED
    BY <1>3, <1>4, <1>5, <2>1 DEF LoadSession, disk, TeachMapTypeOK
<1>6. ASSUME NEW t \in Terminals, InitSession(t) PROVE TeachMapTypeOK'
  <2>1. /\ loaded' \in [Terminals -> Session \cup {NoFile}] /\ loaded'[t] \in Session
        /\ \A u \in Terminals : u # t => loaded'[u] = loaded[u]
    BY <1>6 DEF InitSession, TeachMapTypeOK
  <2>2. QED
    BY <1>3, <1>4, <1>6, <2>1 DEF InitSession, disk, TeachMapTypeOK
<1>7. ASSUME NEW t \in Terminals,
             InitEnds(t) \/ ExtractEnds(t) \/ ExtractFails(t) \/ RegisterRescan(t) \/ CreateReport(t)
      PROVE  TeachMapTypeOK'
  <2>1. loaded[t] \in Session
    BY <1>7, <1>l DEF InitEnds, ExtractEnds, ExtractFails, RegisterRescan, CreateReport
  <2>2. /\ MarkFailed(loaded[t]) \in Session
        /\ Reach(loaded[t], "BOOTSTRAP_READY") \in Session
        /\ Reach(loaded[t], "PATH_EXTRACTED") \in Session
        /\ Reach(loaded[t], "RESCAN_RECORDED") \in Session
    BY <2>1, Records DEF Stages
  <2>3. /\ [Reach(loaded[t], "BOOTSTRAP_READY") EXCEPT !.boot = bootstrap] \in Session
        /\ [Reach(loaded[t], "PATH_EXTRACTED") EXCEPT !.route = routeManifest] \in Session
        /\ \A b \in Bags : [Reach(loaded[t], "RESCAN_RECORDED") EXCEPT !.bag = b] \in Session
    BY <2>2 DEF Session, TeachMapTypeOK
  <2>4. teachSession' \in Session \/ teachSession' = teachSession
    BY <1>7, <2>2, <2>3 DEF InitEnds, ExtractEnds, ExtractFails, RegisterRescan, CreateReport
  <2>5. Leaves(t) /\ UNCHANGED <<bootstrap, routeManifest, candidates, programs, killed, outlived>>
    BY <1>7 DEF InitEnds, ExtractEnds, ExtractFails, RegisterRescan, CreateReport, disk
  <2>6. QED
    BY <1>2, <2>4, <2>5 DEF TeachMapTypeOK
<1>8. ASSUME NEW t \in Terminals, WriteRoute(t) PROVE TeachMapTypeOK'
  BY <1>3, <1>4, <1>8, <1>l DEF WriteRoute, Moves, TeachMapTypeOK
<1>9. ASSUME NEW t \in Terminals, BeginBuild(t) PROVE TeachMapTypeOK'
  <2>1. PICK n \in MapNames :
          /\ teachSession' = [Reach(loaded[t], "CANDIDATE_MAP_BUILDING") EXCEPT
                               !.last = "RESCAN_RECORDED",
                               !.candidate = [NoCandidate EXCEPT !.name = n]]
          /\ loaded' = [loaded EXCEPT ![t].candidate.name = n]
    BY <1>9 DEF BeginBuild
  <2>2. loaded[t] \in Session /\ doing' = [doing EXCEPT ![t] = "mapping"]
    BY <1>9, <1>l DEF BeginBuild
  <2>3. [NoCandidate EXCEPT !.name = n] \in Candidate
    BY DEF Candidate
  <2>4. Reach(loaded[t], "CANDIDATE_MAP_BUILDING") \in Session
    BY <2>2, Records DEF Stages
  <2>5. teachSession' \in Session
    BY <2>1, <2>3, <2>4 DEF Session, Stages
  <2>6. [loaded[t] EXCEPT !.candidate.name = n] \in Session
        /\ [loaded[t] EXCEPT !.candidate.name = n].candidate.name = n
    BY <2>2 DEF Session, Candidate
  <2>7. loaded' = [loaded EXCEPT ![t] = [loaded[t] EXCEPT !.candidate.name = n]]
    BY <2>1 DEF TeachMapTypeOK
  <2>8. /\ loaded' \in [Terminals -> Session \cup {NoFile}] /\ loaded'[t] \in Session
        /\ \A u \in Terminals : u # t => loaded'[u] = loaded[u]
        /\ loaded'[t].candidate.name \in MapNames
    BY <2>6, <2>7 DEF TeachMapTypeOK
  <2>9. QED
    BY <1>3, <1>4, <1>9, <2>2, <2>5, <2>8 DEF BeginBuild, disk, TeachMapTypeOK, Building
\* The steps of a build after the first.
<1>10. ASSUME NEW t \in Terminals, doing[t] \in Building, NEW to \in Building, Moves(t, to),
              teachSession' \in Session, UNCHANGED <<bootstrap, routeManifest, killed, outlived>>,
              candidates' \in [MapNames -> Bags \cup NoNames], programs' \subseteq Program
       PROVE  TeachMapTypeOK'
  <2>1. doing[t] # "idle" /\ to \in {"idle", "report"} \cup Alone /\ loaded[t] \in Session
    BY <1>4, <1>10, <1>l
  <2>2. loaded[t].candidate.name \in MapNames /\ loaded \in [Terminals -> Session \cup {NoFile}]
    BY <1>10 DEF TeachMapTypeOK, Name
  <2>3. doing' = [doing EXCEPT ![t] = to] /\ loaded' = loaded
    BY <1>10 DEF Moves
  <2>4. QED
    BY <1>3, <1>10, <2>1, <2>2, <2>3 DEF TeachMapTypeOK
<1>11. ASSUME NEW t \in Terminals, doing[t] \in Building
       PROVE  /\ loaded[t] \in Session /\ Name(t) \in MapNames /\ teachSession \in Session
              /\ loaded[t].bag \in Bags \cup {"none"}
  BY <1>11, SessionFields DEF TeachMapTypeOK, Building
<1>12. {"mapping", "ready", "play", "save", "stop", "stopped", "cleanup"} \subseteq Building
  BY DEF Building
<1>13. ASSUME NEW t \in Terminals, StartMapping(t) \/ Play(t) \/ Save(t) \/ StopMapping(t)
       PROVE  TeachMapTypeOK'
  <2>1. doing[t] \in Building
    BY <1>12, <1>13 DEF StartMapping, Play, Save, StopMapping
  <2>2. /\ Mapping(t, Name(t)) \in Program /\ Player(t, loaded[t].bag) \in Program
        /\ Saver(t) \in Program
    BY <1>11, <2>1 DEF Mapping, Player, Saver, Program
  <2>3. programs' \subseteq Program
    BY <1>13, <2>2 DEF StartMapping, Play, Save, StopMapping, TeachMapTypeOK
  <2>4. candidates' \in [MapNames -> Bags \cup NoNames]
    <3>1. CASE StartMapping(t)
      BY <3>1 DEF StartMapping, TeachMapTypeOK, NoNames
    <3>2. CASE Play(t)
      <4>1. loaded[t].bag \in Bags \cup NoNames
        BY <1>11, <2>1 DEF NoNames
      <4>2. \A n \in MapNames : candidates'[n] \in Bags \cup NoNames
        BY <3>2, <4>1 DEF Play, TeachMapTypeOK, NoNames
      <4>3. QED
        BY <3>2, <4>2 DEF Play
    <3>3. QED
      BY <1>13, <3>1, <3>2 DEF Save, StopMapping, TeachMapTypeOK
  <2>5. \E to \in Building : Moves(t, to)
    BY <1>12, <1>13 DEF StartMapping, Play, Save, StopMapping
  <2>6. teachSession' \in Session /\ UNCHANGED <<bootstrap, routeManifest, killed, outlived>>
    BY <1>11, <1>13, <2>1 DEF StartMapping, Play, Save, StopMapping
  <2>7. QED
    BY <1>10, <2>1, <2>3, <2>4, <2>5, <2>6
<1>14. ASSUME NEW t \in Terminals, CandidateBuilt(t) \/ RescanBuildFails(t) PROVE TeachMapTypeOK'
  <2>1. doing[t] \in Building
    BY <1>12, <1>14 DEF CandidateBuilt, RescanBuildFails
  <2>2. [name |-> Name(t), holds |-> candidates[Name(t)], ready |-> TRUE] \in Candidate
    BY <1>11, <2>1 DEF TeachMapTypeOK, Candidate
  <2>3. Reach(teachSession, "CANDIDATE_MAP_READY") \in Session /\ MarkFailed(teachSession) \in Session
    BY <1>11, <2>1, Records DEF Stages
  <2>4. [Reach(teachSession, "CANDIDATE_MAP_READY") EXCEPT
          !.candidate = [name |-> Name(t), holds |-> candidates[Name(t)], ready |-> TRUE]] \in Session
    BY <2>2, <2>3 DEF Session
  <2>5. teachSession' \in Session
    BY <1>14, <2>3, <2>4 DEF CandidateBuilt, CandidateAssets, RescanBuildFails
  <2>6. QED
    BY <1>10, <1>12, <1>14, <2>1, <2>5 DEF CandidateBuilt, RescanBuildFails, disk, TeachMapTypeOK
<1>15. ASSUME NEW t \in Terminals, Cleanup(t) PROVE TeachMapTypeOK'
  <2>1. teachSession \in Session /\ MarkFailed(teachSession) \in Session
    BY <1>11, <1>12, <1>15, Records DEF Cleanup
  <2>2. PICK left \in SUBSET StartedBy(t) :
          /\ programs' = programs \ (StartedBy(t) \ left)
          /\ outlived' = (outlived \/ left # {})
          /\ teachSession' = IF left = {} THEN teachSession ELSE MarkFailed(teachSession)
    BY <1>15 DEF Cleanup
  <2>3. teachSession' \in Session /\ programs' \subseteq Program /\ outlived' \in BOOLEAN
    BY <2>1, <2>2 DEF TeachMapTypeOK
  <2>4. QED
    BY <1>2, <1>15, <2>3 DEF Cleanup, TeachMapTypeOK
<1>16. ASSUME NEW t \in Terminals, RefuseBuild(t) \/ Kill(t) PROVE TeachMapTypeOK'
  <2>1. killed' \in BOOLEAN
    BY <1>16 DEF RefuseBuild, Kill, TeachMapTypeOK
  <2>2. /\ Leaves(t)
        /\ UNCHANGED <<teachSession, bootstrap, routeManifest, candidates, programs, outlived>>
    BY <1>16 DEF RefuseBuild, Kill, disk
  <2>3. QED
    BY <1>2, <2>1, <2>2 DEF TeachMapTypeOK
<1>17. CASE ProgramEnds \/ EditBootstrap
  BY <1>17 DEF ProgramEnds, EditBootstrap, TeachMapTypeOK, Name
<1>18. QED
  BY <1>1, <1>5, <1>6, <1>7, <1>8, <1>9, <1>13, <1>14, <1>15, <1>16, <1>17
     DEF TeachMapNext, BuildStep

\* No step takes back that a build was killed, or that a program outlived its signals.
LEMMA StillClaimed ==
  ASSUME TeachMapInv, [TeachMapNext]_teachMapVars, ~killed', ~outlived'
  PROVE  /\ TeachMapTypeOK /\ Honest(teachSession) /\ \A t \in Terminals : Honest(loaded[t])
         /\ OneBuild /\ Relies
<1>0. ~killed /\ ~outlived
  BY DEF TeachMapInv, TeachMapTypeOK, teachMapVars, TeachMapNext, LoadSession, InitSession, InitEnds,
         WriteRoute, ExtractEnds, ExtractFails, RegisterRescan, BuildStep, RefuseBuild, BeginBuild,
         StartMapping, Play, Save, StopMapping, CandidateBuilt, RescanBuildFails, Cleanup,
         CreateReport, Kill, ProgramEnds, EditBootstrap
<1>1. QED
  BY <1>0 DEF TeachMapInv

\* The copies of the session stay honest.
LEMMA HonestStep ==
  ASSUME TeachMapInv, [TeachMapNext]_teachMapVars, ~killed', ~outlived'
  PROVE  Honest(teachSession') /\ \A t \in Terminals : Honest(loaded'[t])
<1>i. /\ TeachMapTypeOK /\ Honest(teachSession) /\ \A t \in Terminals : Honest(loaded[t])
      /\ OneBuild /\ Relies
  BY StillClaimed
<1>l. ASSUME NEW t \in Terminals, doing[t] # "idle"
      PROVE  loaded[t] \in Session /\ Honest(loaded[t]) /\ loaded[t] # NoFile
  BY <1>i, <1>l, Records DEF TeachMapTypeOK
<1>f. ASSUME NEW s \in Session, Honest(s) PROVE Honest(MarkFailed(s))
  BY <1>f, Records DEF Honest
<1>r. ASSUME NEW s \in Session, NEW stage \in Stages, stage # "CANDIDATE_MAP_BUILDING",
             ~s.candidate.ready
      PROVE  Honest(Reach(s, stage))
  BY <1>r, Records DEF Honest
\* Before the candidate is there, none is ready.
<1>e. ASSUME NEW s \in Session, Honest(s), Effective(s) # "CANDIDATE_MAP_READY"
      PROVE  ~s.candidate.ready
  BY <1>e, Records DEF Honest, Effective
<1>1. CASE UNCHANGED <<teachSession, loaded>>
  BY <1>1, <1>i
<1>n. Honest(NoFile) /\ Honest(Created) /\ ~Created.candidate.ready /\ Created \in Session
  BY NoCandidateType DEF Honest, Created
<1>v. ASSUME NEW t \in Terminals, Leaves(t) PROVE \A u \in Terminals : Honest(loaded'[u])
  BY <1>v, <1>i, <1>n DEF Leaves, TeachMapTypeOK
<1>2. ASSUME NEW t \in Terminals, NEW c \in {"extract", "register", "build", "report"},
             LoadSession(t, c)
      PROVE  Honest(teachSession') /\ \A u \in Terminals : Honest(loaded'[u])
  BY <1>2, <1>i DEF LoadSession, TeachMapTypeOK
<1>3. ASSUME NEW t \in Terminals, InitSession(t)
      PROVE  Honest(teachSession') /\ \A u \in Terminals : Honest(loaded'[u])
  BY <1>3, <1>i, <1>n DEF InitSession, TeachMapTypeOK
<1>4. ASSUME NEW t \in Terminals, InitEnds(t) PROVE Honest(teachSession')
  <2>1. loaded[t] \in Session /\ Honest(loaded[t]) /\ loaded[t] = Created
    BY <1>4, <1>l, <1>i DEF InitEnds, Relies, ReliesOn
  <2>2. Honest(Reach(loaded[t], "BOOTSTRAP_READY"))
        /\ Reach(loaded[t], "BOOTSTRAP_READY") \in Session
    BY <1>n, <1>r, <2>1, Records DEF Stages
  <2>3. Honest([Reach(loaded[t], "BOOTSTRAP_READY") EXCEPT !.boot = bootstrap])
    BY <2>2, <1>n, <2>1, Records DEF Honest, Session
  <2>4. QED
    BY <1>4, <1>f, <2>1, <2>3 DEF InitEnds
<1>5. ASSUME NEW t \in Terminals, ExtractEnds(t) PROVE Honest(teachSession')
  <2>1. loaded[t] \in Session /\ Honest(loaded[t]) /\ Effective(loaded[t]) = "BOOTSTRAP_READY"
    BY <1>5, <1>l, <1>i DEF ExtractEnds, Relies, ReliesOn
  <2>2. ~loaded[t].candidate.ready
    BY <1>e, <2>1
  <2>3. Honest(Reach(loaded[t], "PATH_EXTRACTED"))
        /\ Reach(loaded[t], "PATH_EXTRACTED") \in Session
        /\ ~Reach(loaded[t], "PATH_EXTRACTED").candidate.ready
    BY <1>r, <2>1, <2>2, Records DEF Stages
  <2>4. [Reach(loaded[t], "PATH_EXTRACTED") EXCEPT !.route = routeManifest].candidate
          = Reach(loaded[t], "PATH_EXTRACTED").candidate
        /\ [Reach(loaded[t], "PATH_EXTRACTED") EXCEPT !.route = routeManifest].stage = "PATH_EXTRACTED"
        /\ [Reach(loaded[t], "PATH_EXTRACTED") EXCEPT !.route = routeManifest].last = "PATH_EXTRACTED"
    BY <2>1, <2>3, Records DEF Session, Stages
  <2>5. QED
    BY <1>5, <2>3, <2>4 DEF ExtractEnds, Honest
<1>6. ASSUME NEW t \in Terminals, ExtractFails(t) \/ CreateReport(t) PROVE Honest(teachSession')
  <2>1. loaded[t] \in Session /\ Honest(loaded[t])
    BY <1>6, <1>l DEF ExtractFails, CreateReport
  <2>2. QED
    BY <1>6, <1>f, <1>i, <2>1 DEF ExtractFails, CreateReport
<1>7. ASSUME NEW t \in Terminals, RegisterRescan(t) PROVE Honest(teachSession')
  <2>1. loaded[t] \in Session /\ Honest(loaded[t])
    BY <1>7, <1>l DEF RegisterRescan
  <2>2. CASE teachSession' \in {teachSession, MarkFailed(loaded[t])}
    BY <1>f, <1>i, <2>1, <2>2
  <2>3. ASSUME Effective(loaded[t]) = "PATH_EXTRACTED", NEW b \in Bags,
               teachSession' = [Reach(loaded[t], "RESCAN_RECORDED") EXCEPT !.bag = b]
        PROVE  Honest(teachSession')
    <3>1. ~loaded[t].candidate.ready
      BY <1>e, <2>1, <2>3
    <3>2. Honest(Reach(loaded[t], "RESCAN_RECORDED"))
          /\ Reach(loaded[t], "RESCAN_RECORDED") \in Session
          /\ ~Reach(loaded[t], "RESCAN_RECORDED").candidate.ready
      BY <1>r, <2>1, <3>1, Records DEF Stages
    <3>3. /\ teachSession'.candidate = Reach(loaded[t], "RESCAN_RECORDED").candidate
          /\ teachSession'.stage = "RESCAN_RECORDED" /\ teachSession'.last = "RESCAN_RECORDED"
      BY <2>1, <2>3, <3>2, Records DEF Session, Stages
    <3>4. QED
      BY <3>2, <3>3 DEF Honest
  <2>4. QED
    BY <1>7, <2>2, <2>3 DEF RegisterRescan
<1>8. ASSUME NEW t \in Terminals, BeginBuild(t)
      PROVE  Honest(teachSession') /\ \A u \in Terminals : Honest(loaded'[u])
  <2>1. PICK n \in MapNames :
          /\ teachSession' = [Reach(loaded[t], "CANDIDATE_MAP_BUILDING") EXCEPT
                               !.last = "RESCAN_RECORDED",
                               !.candidate = [NoCandidate EXCEPT !.name = n]]
          /\ loaded' = [loaded EXCEPT ![t].candidate.name = n]
    BY <1>8 DEF BeginBuild
  <2>2. loaded[t] \in Session /\ Honest(loaded[t])
    BY <1>8, <1>l DEF BeginBuild
  <2>3. /\ Reach(loaded[t], "CANDIDATE_MAP_BUILDING") \in Session
        /\ Reach(loaded[t], "CANDIDATE_MAP_BUILDING").stage = "CANDIDATE_MAP_BUILDING"
    BY <2>2, Records DEF Stages
  <2>4. /\ teachSession'.stage = "CANDIDATE_MAP_BUILDING" /\ teachSession'.last = "RESCAN_RECORDED"
        /\ teachSession'.candidate = [NoCandidate EXCEPT !.name = n]
    BY <2>1, <2>3 DEF Session
  <2>5. Honest(teachSession')
    BY <2>4 DEF Honest, NoCandidate
  <2>6. Honest([loaded[t] EXCEPT !.candidate.name = n])
    BY <2>2, Records DEF Honest, Session, Candidate
  <2>7. QED
    BY <1>i, <2>1, <2>5, <2>6 DEF TeachMapTypeOK
<1>9. ASSUME NEW t \in Terminals, CandidateBuilt(t) PROVE Honest(teachSession')
  <2>1. /\ doing[t] = "stopped" /\ teachSession \in Session
        /\ "CANDIDATE_MAP_READY" \in NextStage[Effective(teachSession)]
    BY <1>9, <1>i DEF CandidateBuilt, TeachMapTypeOK, Building
  <2>2. Effective(teachSession) = "CANDIDATE_MAP_BUILDING"
    <3>1. Effective(teachSession) \in Stages
      BY <2>1, SessionFields DEF Effective
    <3>2. QED
      BY <2>1, <3>1 DEF NextStage, Stages
  <2>3. teachSession.stage = "CANDIDATE_MAP_BUILDING"
    BY <1>i, <2>1, <2>2, Records DEF Effective, Honest
  <2>4. candidates[Name(t)] = teachSession.bag
    BY <1>i, <2>1, <2>3 DEF Relies, ReliesOn, Building
  <2>5. /\ teachSession'.stage = "CANDIDATE_MAP_READY" /\ teachSession'.last = "CANDIDATE_MAP_READY"
        /\ teachSession'.bag = teachSession.bag
        /\ teachSession'.candidate.holds = candidates[Name(t)]
    BY <1>9, <2>1, Records DEF CandidateBuilt, CandidateAssets, Stages, Session
  <2>6. QED
    BY <2>4, <2>5 DEF Honest
<1>10. ASSUME NEW t \in Terminals, RescanBuildFails(t) PROVE Honest(teachSession')
  <2>1. teachSession \in Session
    BY <1>10, <1>i DEF RescanBuildFails, TeachMapTypeOK
  <2>2. QED
    BY <1>10, <1>f, <1>i, <2>1 DEF RescanBuildFails
<1>11. ASSUME NEW t \in Terminals, Cleanup(t) PROVE Honest(teachSession')
  <2>1. teachSession \in Session
    BY <1>11, <1>i DEF Cleanup, TeachMapTypeOK, Building
  <2>2. QED
    BY <1>11, <1>f, <1>i, <2>1 DEF Cleanup
<1>12. ASSUME NEW t \in Terminals,
              InitEnds(t) \/ ExtractEnds(t) \/ ExtractFails(t) \/ RegisterRescan(t) \/ RefuseBuild(t)
              \/ Cleanup(t) \/ CreateReport(t) \/ Kill(t)
       PROVE  Leaves(t)
  BY <1>12 DEF InitEnds, ExtractEnds, ExtractFails, RegisterRescan, RefuseBuild, Cleanup,
               CreateReport, Kill
<1>13. ASSUME NEW t \in Terminals,
              WriteRoute(t) \/ StartMapping(t) \/ Play(t) \/ Save(t) \/ StopMapping(t)
       PROVE  Honest(teachSession') /\ \A u \in Terminals : Honest(loaded'[u])
  BY <1>1, <1>13 DEF WriteRoute, StartMapping, Play, Save, StopMapping, Moves
<1>14. ASSUME NEW t \in Terminals, CandidateBuilt(t) \/ RescanBuildFails(t) PROVE loaded' = loaded
  BY <1>14 DEF CandidateBuilt, RescanBuildFails, Moves
<1>15. ASSUME NEW t \in Terminals, RefuseBuild(t) \/ Kill(t) PROVE teachSession' = teachSession
  BY <1>15 DEF RefuseBuild, Kill
<1>16. CASE ProgramEnds \/ EditBootstrap \/ UNCHANGED teachMapVars
  BY <1>1, <1>16 DEF ProgramEnds, EditBootstrap, teachMapVars
<1>17. QED
  BY <1>i, <1>v, <1>2, <1>3, <1>4, <1>5, <1>6, <1>7, <1>8, <1>9, <1>10, <1>11, <1>12, <1>13,
     <1>14, <1>15, <1>16 DEF TeachMapNext, BuildStep

\* What a step does to the commands: those of the other terminals stay as they are, and
\* only one that begins while they are idle or report joins those that stand alone.
LEMMA CommandsStep ==
  ASSUME TeachMapTypeOK, TeachMapNext
  PROVE  \/ ProgramEnds \/ EditBootstrap
         \/ \E t \in Terminals :
              /\ \A u \in Terminals : u # t => doing'[u] = doing[u] /\ loaded'[u] = loaded[u]
              /\ doing'[t] \in Alone => doing[t] \in Alone
                                      \/ \A u \in Terminals : doing[u] \in {"idle", "report"}
<1>1. Building \subseteq Alone /\ {"idle", "report"} \cap Alone = {}
      /\ {"init", "extract", "extracted", "register", "build"} \subseteq Alone
  BY DEF Building, Alone
<1>2. ASSUME NEW t \in Terminals, Leaves(t)
      PROVE  /\ \A u \in Terminals : u # t => doing'[u] = doing[u] /\ loaded'[u] = loaded[u]
             /\ doing'[t] \notin Alone
  BY <1>1, <1>2 DEF Leaves, TeachMapTypeOK
<1>3. ASSUME NEW t \in Terminals, NEW to, Moves(t, to), doing[t] \in Alone
      PROVE  \A u \in Terminals : u # t => doing'[u] = doing[u] /\ loaded'[u] = loaded[u]
  BY <1>3 DEF Moves, TeachMapTypeOK
<1>4. ASSUME NEW t \in Terminals, NEW c \in {"extract", "register", "build", "report"},
             LoadSession(t, c)
      PROVE  /\ \A u \in Terminals : u # t => doing'[u] = doing[u] /\ loaded'[u] = loaded[u]
             /\ doing'[t] \in Alone => \A u \in Terminals : doing[u] \in {"idle", "report"}
  <2>1. \A u \in Terminals : u # t => doing'[u] = doing[u] /\ loaded'[u] = loaded[u]
    BY <1>4 DEF LoadSession, TeachMapTypeOK
  <2>2. doing'[t] = c
    BY <1>4 DEF LoadSession, TeachMapTypeOK
  <2>3. QED
    BY <1>1, <1>4, <2>1, <2>2 DEF LoadSession
<1>5. ASSUME NEW t \in Terminals, InitSession(t)
      PROVE  /\ \A u \in Terminals : u # t => doing'[u] = doing[u] /\ loaded'[u] = loaded[u]
             /\ \A u \in Terminals : doing[u] \in {"idle", "report"}
  BY <1>5 DEF InitSession, TeachMapTypeOK
<1>6. ASSUME NEW t \in Terminals, BeginBuild(t)
      PROVE  /\ \A u \in Terminals : u # t => doing'[u] = doing[u] /\ loaded'[u] = loaded[u]
             /\ doing[t] \in Alone
  BY <1>1, <1>6 DEF BeginBuild, TeachMapTypeOK
<1>7. ASSUME NEW t \in Terminals,
             InitEnds(t) \/ ExtractEnds(t) \/ ExtractFails(t) \/ RegisterRescan(t) \/ RefuseBuild(t)
             \/ Cleanup(t) \/ CreateReport(t) \/ Kill(t)
      PROVE  Leaves(t)
  BY <1>7 DEF InitEnds, ExtractEnds, ExtractFails, RegisterRescan, RefuseBuild, Cleanup,
              CreateReport, Kill
<1>8. ASSUME NEW t \in Terminals,
             WriteRoute(t) \/ StartMapping(t) \/ Play(t) \/ Save(t) \/ StopMapping(t)
             \/ CandidateBuilt(t) \/ RescanBuildFails(t)
      PROVE  doing[t] \in Alone /\ \E to : Moves(t, to)
  BY <1>1, <1>8 DEF WriteRoute, StartMapping, Play, Save, StopMapping, CandidateBuilt,
                    RescanBuildFails, Building
<1>9. QED
  BY <1>2, <1>3, <1>4, <1>5, <1>6, <1>7, <1>8 DEF TeachMapNext, BuildStep

LEMMA OneBuildStep ==
  ASSUME TeachMapInv, [TeachMapNext]_teachMapVars, ~killed', ~outlived'
  PROVE  OneBuild'
<1>i. TeachMapTypeOK /\ OneBuild
  BY StillClaimed
<1>1. CASE UNCHANGED <<doing, programs>> \/ ProgramEnds \/ EditBootstrap
  BY <1>1, <1>i DEF OneBuild, ProgramEnds, EditBootstrap
<1>2. CASE TeachMapNext /\ ~ProgramEnds /\ ~EditBootstrap
  <2>1. Building \subseteq Alone /\ {"idle", "report"} \cap Alone = {}
    BY DEF Building, Alone
  <2>2. ASSUME NEW t \in Terminals, NEW u \in Terminals, doing'[t] \in Alone, doing'[u] \in Alone
        PROVE  t = u
    BY <1>2, <1>i, <2>1, <2>2, CommandsStep DEF OneBuild
  <2>3. \A p \in programs : p.by \in Terminals
    BY <1>i DEF TeachMapTypeOK, Program
\* A step of t that leaves, ends or starts programs of t only.
  <2>4. ASSUME NEW t \in Terminals,
               \A u \in Terminals : u # t => doing'[u] = doing[u],
               \A p \in programs' : p.by # t => p \in programs,
               \A p \in programs' : p.by = t =>
                 /\ doing'[t] \in {"ready", "play", "save", "cleanup"}
                 /\ p.does = "player" => doing'[t] # "ready"
        PROVE  OneBuild'
    BY <1>i, <2>2, <2>3, <2>4 DEF OneBuild
  <2>5. \A t \in Terminals : doing[t] \notin {"ready", "play", "save", "cleanup"} =>
          \A p \in programs : p.by # t
    BY <1>i DEF OneBuild
  <2>6. ASSUME NEW t \in Terminals, doing[t] \notin {"ready", "play", "save", "cleanup"},
               \A u \in Terminals : u # t => doing'[u] = doing[u], programs' = programs
        PROVE  OneBuild'
    BY <2>4, <2>5, <2>6
  <2>7. ASSUME NEW t \in Terminals, NEW to, doing' = [doing EXCEPT ![t] = to]
        PROVE  doing'[t] = to /\ \A u \in Terminals : u # t => doing'[u] = doing[u]
    BY <1>i, <2>7 DEF TeachMapTypeOK
  <2>8. ASSUME NEW t \in Terminals,
               \/ \E c \in {"extract", "register", "build", "report"} : LoadSession(t, c)
               \/ InitSession(t) \/ InitEnds(t) \/ WriteRoute(t) \/ ExtractEnds(t)
               \/ ExtractFails(t) \/ RegisterRescan(t) \/ RefuseBuild(t) \/ BeginBuild(t)
               \/ CandidateBuilt(t) \/ CreateReport(t)
        PROVE  OneBuild'
    <3>1. doing[t] \notin {"ready", "play", "save", "cleanup"} /\ programs' = programs
      BY <2>8 DEF LoadSession, InitSession, InitEnds, WriteRoute, ExtractEnds, ExtractFails,
                  RegisterRescan, RefuseBuild, BeginBuild, CandidateBuilt, CreateReport, disk
    <3>2. \E to : doing' = [doing EXCEPT ![t] = to]
      BY <2>8 DEF LoadSession, InitSession, InitEnds, WriteRoute, ExtractEnds, ExtractFails,
                  RegisterRescan, RefuseBuild, BeginBuild, CandidateBuilt, CreateReport, Leaves, Moves
    <3>3. QED
      BY <2>6, <2>7, <3>1, <3>2
  <2>9. ASSUME NEW t \in Terminals, Kill(t) PROVE OneBuild'
    <3>1. doing[t] \notin Building /\ programs' = programs /\ doing' = [doing EXCEPT ![t] = "idle"]
      BY <2>9 DEF Kill, Leaves, disk
    <3>2. QED
      BY <2>6, <2>7, <3>1 DEF Building
  <2>10. ASSUME NEW t \in Terminals, StartMapping(t) PROVE OneBuild'
    <3>1. /\ doing[t] = "mapping" /\ programs' = programs \cup {Mapping(t, Name(t))}
          /\ doing' = [doing EXCEPT ![t] = "ready"]
      BY <2>10 DEF StartMapping, Moves
    <3>2. Mapping(t, Name(t)).by = t /\ Mapping(t, Name(t)).does = "mapping"
      BY DEF Mapping
    <3>3. doing'[t] = "ready" /\ \A u \in Terminals : u # t => doing'[u] = doing[u]
      BY <2>7, <3>1
    <3>4. /\ \A p \in programs' : p.by # t => p \in programs
          /\ \A p \in programs' : p.by = t => p.does = "mapping"
      BY <2>5, <3>1, <3>2
    <3>5. QED
      BY <2>4, <3>3, <3>4
  <2>11. ASSUME NEW t \in Terminals, Play(t) PROVE OneBuild'
    <3>1. /\ programs' = programs \cup {Player(t, loaded[t].bag)}
          /\ doing' = [doing EXCEPT ![t] = "play"]
      BY <2>11 DEF Play, Moves
    <3>2. Player(t, loaded[t].bag).by = t
      BY DEF Player
    <3>3. doing'[t] = "play" /\ \A u \in Terminals : u # t => doing'[u] = doing[u]
      BY <2>7, <3>1
    <3>4. \A p \in programs' : p.by # t => p \in programs
      BY <3>1, <3>2
    <3>5. QED
      BY <2>4, <3>3, <3>4
  <2>12. ASSUME NEW t \in Terminals, Save(t) PROVE OneBuild'
    <3>1. /\ programs' \subseteq programs \cup {Saver(t)} /\ doing' = [doing EXCEPT ![t] = "save"]
      BY <2>12 DEF Save, Moves
    <3>2. Saver(t).by = t
      BY DEF Saver
    <3>3. doing'[t] = "save" /\ \A u \in Terminals : u # t => doing'[u] = doing[u]
      BY <2>7, <3>1
    <3>4. \A p \in programs' : p.by # t => p \in programs
      BY <3>1, <3>2
    <3>5. QED
      BY <2>4, <3>3, <3>4
  <2>13. ASSUME NEW t \in Terminals, StopMapping(t) \/ Cleanup(t) PROVE OneBuild'
    <3>1. programs' = programs \ StartedBy(t)
      BY <2>13 DEF StopMapping, Cleanup
    <3>2. \E to : doing' = [doing EXCEPT ![t] = to]
      BY <2>13 DEF StopMapping, Cleanup, Moves, Leaves
    <3>3. programs' \subseteq programs /\ \A p \in programs' : p.by # t
      BY <3>1 DEF StartedBy
    <3>4. QED
      BY <2>4, <2>7, <3>2, <3>3
  <2>14. ASSUME NEW t \in Terminals, RescanBuildFails(t) PROVE OneBuild'
    <3>1. programs' = programs /\ doing' = [doing EXCEPT ![t] = "cleanup"]
      BY <2>14 DEF RescanBuildFails, Moves, disk
    <3>2. doing'[t] = "cleanup" /\ \A u \in Terminals : u # t => doing'[u] = doing[u]
      BY <2>7, <3>1
    <3>3. QED
      BY <2>4, <3>1, <3>2
  <2>15. QED
    BY <1>2, <2>8, <2>9, <2>10, <2>11, <2>12, <2>13, <2>14 DEF TeachMapNext, BuildStep
<1>3. QED
  BY <1>1, <1>2 DEF teachMapVars

LEMMA ReliesStep ==
  ASSUME TeachMapInv, [TeachMapNext]_teachMapVars, ~killed', ~outlived'
  PROVE  Relies'
<1>i. TeachMapTypeOK /\ OneBuild /\ Relies
  BY StillClaimed
<1>1. CASE UNCHANGED <<doing, loaded, teachSession, candidates>>
  BY <1>1, <1>i DEF Relies, ReliesOn, Name
<1>a. {"init", "extracted", "ready", "play", "save", "stopped"} \cup Building \subseteq Alone
      /\ {"idle", "report"} \cap Alone = {} /\ {"extract", "register", "build"} \subseteq Alone
  BY DEF Building, Alone
\* A command that is idle or reports relies on nothing.
<1>u. ASSUME NEW u \in Terminals, doing'[u] \notin Alone PROVE ReliesOn(u)'
  BY <1>a, <1>u DEF ReliesOn
<1>o. ASSUME NEW t \in Terminals, doing[t] \in Alone \/ \A u \in Terminals : doing[u] \in {"idle", "report"},
             \A u \in Terminals : u # t => doing'[u] = doing[u], ReliesOn(t)'
      PROVE  Relies'
  BY <1>a, <1>i, <1>o, <1>u DEF Relies, OneBuild
<1>l. ASSUME NEW t \in Terminals, Leaves(t)
      PROVE  ReliesOn(t)' /\ \A u \in Terminals : u # t => doing'[u] = doing[u] /\ loaded'[u] = loaded[u]
  <2>1. doing'[t] = "idle" /\ \A u \in Terminals : u # t => doing'[u] = doing[u] /\ loaded'[u] = loaded[u]
    BY <1>i, <1>l DEF Leaves, TeachMapTypeOK
  <2>2. QED
    BY <1>a, <1>u, <2>1
<1>m. ASSUME NEW t \in Terminals, NEW to, Moves(t, to)
      PROVE  doing'[t] = to /\ loaded' = loaded /\ \A u \in Terminals : u # t => doing'[u] = doing[u]
  BY <1>m, <1>i DEF Moves, TeachMapTypeOK
<1>2. ASSUME NEW t \in Terminals, NEW c \in {"extract", "register", "build", "report"},
             LoadSession(t, c)
      PROVE  Relies'
  <2>1. /\ doing'[t] = c /\ UNCHANGED <<teachSession, candidates>>
        /\ \A u \in Terminals : u # t => doing'[u] = doing[u] /\ loaded'[u] = loaded[u]
    BY <1>2, <1>i DEF LoadSession, disk, TeachMapTypeOK
  <2>2. ReliesOn(t)'
    BY <2>1 DEF ReliesOn, Building
  <2>3. \A u \in Terminals : u # t => ReliesOn(u)'
    BY <1>i, <2>1 DEF Relies, ReliesOn, Name
  <2>4. QED
    BY <2>2, <2>3 DEF Relies
<1>3. ASSUME NEW t \in Terminals, InitSession(t) PROVE Relies'
  <2>1. /\ doing'[t] = "init" /\ loaded'[t] = Created
        /\ \A u \in Terminals : u # t => doing'[u] = doing[u]
        /\ \A u \in Terminals : doing[u] \in {"idle", "report"}
    BY <1>3, <1>i DEF InitSession, TeachMapTypeOK
  <2>2. ReliesOn(t)'
    BY <2>1 DEF ReliesOn, Building
  <2>3. QED
    BY <1>o, <2>1, <2>2
<1>4. ASSUME NEW t \in Terminals,
             InitEnds(t) \/ ExtractEnds(t) \/ ExtractFails(t) \/ RegisterRescan(t) \/ RefuseBuild(t)
             \/ Cleanup(t)
      PROVE  Relies'
  <2>1. doing[t] \in Alone /\ Leaves(t)
    BY <1>4, <1>a DEF InitEnds, ExtractEnds, ExtractFails, RegisterRescan, RefuseBuild, Cleanup, Building,
       Alone
  <2>2. QED
    BY <1>l, <1>o, <2>1
<1>5. ASSUME NEW t \in Terminals, CreateReport(t) \/ Kill(t) PROVE Relies'
  <2>1. Leaves(t) /\ candidates' = candidates /\ doing[t] # "idle"
    BY <1>5 DEF CreateReport, Kill, disk
  <2>2. teachSession' = teachSession \/ teachSession'.stage = "FAILED"
    <3>1. loaded[t] \in Session
      BY <1>i, <2>1 DEF TeachMapTypeOK
    <3>2. QED
      BY <1>5, <3>1, Records DEF CreateReport, Kill
  <2>3. ASSUME NEW u \in Terminals, u # t PROVE ReliesOn(u)'
    BY <1>i, <1>l, <2>1, <2>2, <2>3 DEF Relies, ReliesOn, Name
  <2>4. QED
    BY <1>l, <2>1, <2>3 DEF Relies
<1>6. ASSUME NEW t \in Terminals, WriteRoute(t) PROVE Relies'
  <2>1. doing[t] \in Alone /\ Effective(loaded[t]) = "BOOTSTRAP_READY" /\ Moves(t, "extracted")
    BY <1>6, <1>a DEF WriteRoute, Alone
  <2>2. ReliesOn(t)'
    BY <1>m, <2>1 DEF ReliesOn, Building, Effective
  <2>3. QED
    BY <1>m, <1>o, <2>1, <2>2
<1>7. ASSUME NEW t \in Terminals, BeginBuild(t) PROVE Relies'
  <2>1. PICK n \in MapNames :
          /\ teachSession' = [Reach(loaded[t], "CANDIDATE_MAP_BUILDING") EXCEPT
                               !.last = "RESCAN_RECORDED",
                               !.candidate = [NoCandidate EXCEPT !.name = n]]
          /\ loaded' = [loaded EXCEPT ![t].candidate.name = n]
    BY <1>7 DEF BeginBuild
  <2>2. /\ loaded[t] \in Session /\ doing[t] \in Alone /\ doing'[t] = "mapping"
        /\ \A u \in Terminals : u # t => doing'[u] = doing[u]
    BY <1>7, <1>i, <1>a DEF BeginBuild, TeachMapTypeOK
  <2>3. Reach(loaded[t], "CANDIDATE_MAP_BUILDING") \in Session
        /\ Reach(loaded[t], "CANDIDATE_MAP_BUILDING").bag = loaded[t].bag
    BY <2>2, Records DEF Stages
  <2>4. teachSession'.bag = loaded[t].bag
    BY <2>1, <2>3 DEF Session
  <2>5. loaded'[t].bag = loaded[t].bag
    BY <1>i, <2>1, <2>2 DEF TeachMapTypeOK, Session
  <2>6. ReliesOn(t)'
    BY <2>2, <2>4, <2>5 DEF ReliesOn
  <2>7. QED
    BY <1>o, <2>2, <2>6
\* The steps of a build keep the rescan that the session records.
<1>b. ASSUME NEW t \in Terminals, doing[t] \in Building \ {"cleanup"},
             NEW to \in Building, Moves(t, to), teachSession' = teachSession,
             to = "ready" => candidates'[Name(t)] = "nothing",
             to \in {"play", "save", "stopped"} => candidates'[Name(t)] = loaded[t].bag
      PROVE  Relies'
  <2>1. doing'[t] = to /\ loaded' = loaded /\ \A u \in Terminals : u # t => doing'[u] = doing[u]
    BY <1>b, <1>m
  <2>2. teachSession.stage = "CANDIDATE_MAP_BUILDING" => teachSession.bag = loaded[t].bag
    BY <1>i, <1>b DEF Relies, ReliesOn
  <2>3. ReliesOn(t)'
    BY <1>b, <2>1, <2>2 DEF ReliesOn, Name, Building
  <2>4. QED
    BY <1>a, <1>b, <1>o, <2>1, <2>3
<1>8. ASSUME NEW t \in Terminals, StartMapping(t) PROVE Relies'
  <2>1. doing[t] = "mapping" /\ Name(t) \in MapNames
    BY <1>8, <1>i DEF StartMapping, TeachMapTypeOK, Building
  <2>2. ~Plays
    <3>1. ASSUME NEW p \in programs, p.does = "player" PROVE FALSE
      <4>1. p.by \in Terminals /\ doing[p.by] \in {"play", "save", "cleanup"}
        BY <1>i, <3>1 DEF OneBuild, TeachMapTypeOK, Program
      <4>2. p.by = t
        BY <1>i, <2>1, <4>1 DEF OneBuild, Alone, Building
      <4>3. QED
        BY <2>1, <4>1, <4>2
    <3>2. QED
      BY <3>1 DEF Plays
  <2>3. candidates'[Name(t)] = "nothing"
    BY <1>8, <1>i, <2>1, <2>2 DEF StartMapping, TeachMapTypeOK
  <2>4. QED
    BY <1>8, <1>b, <2>1, <2>3 DEF StartMapping, Building
<1>9. ASSUME NEW t \in Terminals, Play(t) PROVE Relies'
  <2>1. doing[t] = "ready" /\ Name(t) \in MapNames /\ candidates[Name(t)] = "nothing"
    BY <1>9, <1>i DEF Play, TeachMapTypeOK, Building, Relies, ReliesOn
  <2>2. Mapping(t, Name(t)) \in programs /\ Mapping(t, Name(t)).does = "mapping"
        /\ Mapping(t, Name(t)).name = Name(t)
    BY <1>9 DEF Play, Mapping
  <2>3. candidates'[Name(t)] = loaded[t].bag
    BY <1>9, <2>1, <2>2 DEF Play
  <2>4. QED
    BY <1>9, <1>b, <2>1, <2>3 DEF Play, Building
<1>10. ASSUME NEW t \in Terminals, Save(t) \/ StopMapping(t) PROVE Relies'
  <2>1. doing[t] \in {"play", "save"} /\ candidates[Name(t)] = loaded[t].bag
        /\ UNCHANGED <<teachSession, candidates>> /\ (Moves(t, "save") \/ Moves(t, "stopped"))
    BY <1>10, <1>i DEF Save, StopMapping, Relies, ReliesOn
  <2>2. QED
    BY <1>b, <2>1 DEF Building
<1>11. ASSUME NEW t \in Terminals, CandidateBuilt(t) \/ RescanBuildFails(t) PROVE Relies'
  <2>1. doing[t] \in Alone /\ Moves(t, "cleanup")
    BY <1>11, <1>a DEF CandidateBuilt, RescanBuildFails, Building
  <2>2. ReliesOn(t)'
    BY <1>m, <2>1 DEF ReliesOn
  <2>3. QED
    BY <1>m, <1>o, <2>1, <2>2
<1>12. CASE ProgramEnds \/ EditBootstrap \/ UNCHANGED teachMapVars
  BY <1>1, <1>12 DEF ProgramEnds, EditBootstrap, teachMapVars
<1>13. QED
  BY <1>2, <1>3, <1>4, <1>5, <1>6, <1>7, <1>8, <1>9, <1>10, <1>11, <1>12 DEF TeachMapNext, BuildStep

\* Unless a build was killed or a program outlived its signals, a candidate that is ready
\* holds the rescan that the session records, whatever other commands reported, failed or
\* were killed meanwhile (teach_mapping.py, build_candidate and create_report).
THEOREM CandidateAlwaysPure == TeachMapSpec => []CandidateIsPure
<1>1. TeachMapInv /\ [TeachMapNext]_teachMapVars => TeachMapInv'
  BY TeachMapTypeStep, HonestStep, OneBuildStep, ReliesStep DEF TeachMapInv
<1>2. TeachMapInv => CandidateIsPure
  BY DEF TeachMapInv, Honest, CandidateIsPure
<1>3. QED
  BY <1>1, <1>2, TeachMapInvInit, PTL DEF TeachMapSpec

-----------------------------------------------------------------------------
(* The undo history: a timeline, its two stacks and the documents that they *)
(* should give back, one way (undo) or the other (redo), are a ladder whose *)
(* next step is its last entry.                                            *)

Part == {"map", "semantic"}

\* c[k] is the number of entries of one part that come after entry k, of n.
Counts(c, n, tl, part) ==
  /\ c \in [0..n -> Nat] /\ c[n] = 0
  /\ \A j, k \in 0..n : j <= k => c[k] <= c[j] /\ c[j] <= c[k] + (k - j)
  /\ \A k \in 1..n : c[k - 1] = IF tl[k] = part THEN c[k] + 1 ELSE c[k]

\* The entries of one part are the newest of its stack, in their order.
Places(c, n, tl, part, s, ds, i) ==
  \A k \in 1..n : tl[k] = part => c[k] < Len(s) /\ s[Len(s) - c[k]] = ds[k][i]

OnStack(tl, part, s, ds, i) ==
  \E c : Counts(c, Len(tl), tl, part) /\ Places(c, Len(tl), tl, part, s, ds, i)
\* Each entry changed one part of its document: the other is that of the document that
\* came next, which is d for the last.
Chain(tl, ds, d) ==
  \A k \in 1..Len(tl) :
    LET next == IF k = Len(tl) THEN d ELSE ds[k + 1]
    IN  IF tl[k] = "map" THEN ds[k][2] = next[2] ELSE ds[k][1] = next[1]

Ladder(tl, ms, ts, ds, d) ==
  /\ Len(ds) = Len(tl) /\ Chain(tl, ds, d)
  /\ OnStack(tl, "map", ms, ds, 1) /\ OnStack(tl, "semantic", ts, ds, 2)

Document == Pictures \X Tasks
HistoryTypeOK ==
  /\ picture \in Pictures /\ task \in Tasks /\ begun \in Document
  /\ stroke \in [held : BOOLEAN, started : BOOLEAN]
  /\ before \subseteq Pictures
  /\ stacks \in [mapUndo : Seq(Pictures), mapRedo : Seq(Pictures),
                 taskUndo : Seq(Tasks), taskRedo : Seq(Tasks)]
  /\ editTimeline \in Seq(Part) /\ redoTimeline \in Seq(Part)
  /\ past \in Seq(Document) /\ future \in Seq(Document)
  /\ astray \in BOOLEAN /\ unkept \in BOOLEAN

\* The document from which undo and redo lead: during a stroke, that before it.
Base == IF InStroke THEN begun ELSE document

HistoryInv ==
  /\ HistoryTypeOK
  /\ ~astray /\ ~unkept =>
       /\ Ladder(editTimeline, stacks.mapUndo, stacks.taskUndo, past, Base)
       /\ Ladder(redoTimeline, stacks.mapRedo, stacks.taskRedo, future, Base)
       /\ Len(editTimeline) + Len(redoTimeline) <= Limit
       /\ (stroke.started => stroke.held) /\ InStroke = stroke.started
       /\ InStroke => before = {begun[1]} /\ task = begun[2]


LEMMA FrontOf ==
  ASSUME NEW S, NEW s \in Seq(S), s # <<>>
  PROVE  /\ Len(s) \in Nat \ {0} /\ Last(s) = s[Len(s)] /\ Last(s) \in S
         /\ Front(s) \in Seq(S) /\ Len(Front(s)) = Len(s) - 1
         /\ \A k \in 1..Len(s) - 1 : Front(s)[k] = s[k]
<1>1. Len(s) \in Nat \ {0}
  OBVIOUS
<1>2. Last(s) = s[Len(s)] /\ Last(s) \in S
  BY <1>1 DEF Last
<1>3. PICK n \in Nat : Len(s) = n + 1
  BY <1>1
<1>4. 1 \in Int /\ n \in Int /\ \A i \in 1..n : s[i] \in S
  BY <1>3
<1> DEFINE t == SubSeq(s, 1, n)
<1>5. /\ t \in Seq(S) /\ Len(t) = IF 1 <= n THEN n - 1 + 1 ELSE 0
      /\ \A i \in 1..n - 1 + 1 : t[i] = s[1 + i - 1]
  BY <1>4, SubSeqProperties
<1>6. Len(s) - 1 = n /\ Front(s) = t
  BY <1>3 DEF Front
<1> HIDE DEF t
<1>7. Len(t) = n
  BY <1>3, <1>5
<1>8. ASSUME NEW k \in 1..n PROVE t[k] = s[k]
  <2>1. k \in 1..n - 1 + 1 /\ 1 + k - 1 = k
    BY <1>3
  <2>2. t[k] = s[1 + k - 1]
    BY <1>5, <2>1
  <2>3. QED
    BY <2>1, <2>2
<1>9. QED
  BY <1>1, <1>2, <1>5, <1>6, <1>7, <1>8

LEMMA TailOf ==
  ASSUME NEW S, NEW s \in Seq(S), s # <<>>
  PROVE  /\ Len(s) \in Nat \ {0} /\ Tail(s) \in Seq(S) /\ Len(Tail(s)) = Len(s) - 1
         /\ \A k \in 1..Len(s) - 1 : Tail(s)[k] = s[k + 1]
OBVIOUS

LEMMA AppendOf ==
  ASSUME NEW S, NEW s \in Seq(S), NEW x \in S
  PROVE  /\ Append(s, x) \in Seq(S) /\ Len(Append(s, x)) = Len(s) + 1 /\ Len(s) \in Nat
         /\ Append(s, x) # <<>>
         /\ \A k \in 1..Len(s) : Append(s, x)[k] = s[k]
         /\ Append(s, x)[Len(s) + 1] = x
OBVIOUS

\* One entry more, of the same part or of the other.
LEMMA CountsMore ==
  ASSUME NEW n \in Nat, NEW tl, NEW T, NEW part, NEW c, NEW e, NEW one \in {0, 1},
         Counts(c, n, tl, part), \A k \in 1..n : T[k] = tl[k],
         one = 1 <=> T[n + 1] = part,
         e \in [0..n + 1 -> Nat], e[n + 1] = 0, \A k \in 0..n : e[k] = c[k] + one
  PROVE  Counts(e, n + 1, T, part)
<1>1. /\ c \in [0..n -> Nat] /\ c[n] = 0
      /\ \A j, k \in 0..n : j <= k => c[k] <= c[j] /\ c[j] <= c[k] + (k - j)
      /\ \A k \in 1..n : c[k - 1] = IF tl[k] = part THEN c[k] + 1 ELSE c[k]
  BY DEF Counts
<1>0. \A k \in 0..n : c[k] \in Nat
  BY <1>1
<1>2. e \in [0..n + 1 -> Nat] /\ e[n + 1] = 0 /\ \A k \in 0..n : e[k] = c[k] + one
  OBVIOUS
<1>3. ASSUME NEW j \in 0..n + 1, NEW k \in 0..n + 1, j <= k
      PROVE  e[k] <= e[j] /\ e[j] <= e[k] + (k - j)
  <2>1. CASE k \in 0..n
    <3>1. j \in 0..n /\ c[j] \in Nat /\ c[k] \in Nat
      BY <1>0, <1>3, <2>1
    <3>2. c[k] <= c[j] /\ c[j] <= c[k] + (k - j) /\ e[j] = c[j] + one /\ e[k] = c[k] + one
      BY <1>1, <1>2, <1>3, <2>1, <3>1
    <3>3. c[k] + one <= c[j] + one /\ c[j] + one <= c[k] + one + (k - j)
      <4>1. one \in Nat /\ j \in Int /\ k \in Int
        BY <1>3
      <4>2. \A a, b \in Nat, x \in Int : a <= b /\ b <= a + x => a + one <= b + one /\ b + one <= a + one + x
        BY <4>1
      <4>3. k - j \in Int
        BY <4>1
      <4>4. QED
        BY <3>1, <3>2, <4>2, <4>3
    <3>4. QED
      BY <3>2, <3>3
  <2>2. CASE k = n + 1 /\ j \in 0..n
    <3>1. c[j] \in Nat /\ j <= n /\ n \in 0..n
      BY <1>0, <2>2
    <3>2. c[j] <= c[n] + (n - j) /\ c[n] = 0 /\ e[j] = c[j] + one /\ e[k] = 0
      BY <1>1, <1>2, <2>2, <3>1
    <3>3. c[j] <= n - j /\ k - j = (n - j) + 1 /\ n - j \in Nat
      <4>1. j \in Nat /\ n \in Nat /\ k = n + 1 /\ j <= n
        BY <2>2, <3>1
      <4>2. k - j = (n - j) + 1 /\ n - j \in Nat
        BY <4>1
      <4>3. c[j] <= 0 + (n - j)
        BY <3>2, Zenon
      <4>4. QED
        BY <4>2, <4>3
    <3>4. QED
      BY <3>1, <3>2, <3>3
  <2>3. CASE k = n + 1 /\ j = n + 1
    BY <1>2, <2>3
  <2>4. QED
    BY <2>1, <2>2, <2>3
<1>4. ASSUME NEW k \in 1..n + 1
      PROVE  e[k - 1] = IF T[k] = part THEN e[k] + 1 ELSE e[k]
  <2>1. CASE k = n + 1
    <3>1. e[k - 1] = one /\ e[k] = 0
      BY <1>1, <1>2, <2>1
    <3>2. QED
      BY <2>1, <3>1
  <2>2. CASE k \in 1..n
    <3>1. k \in 0..n /\ k - 1 \in 0..n
      BY <2>2
    <3>2. e[k] = c[k] + one /\ e[k - 1] = c[k - 1] + one /\ c[k] \in Nat
      BY <1>0, <1>2, <3>1
    <3>3. (c[k - 1] = IF tl[k] = part THEN c[k] + 1 ELSE c[k]) /\ T[k] = tl[k]
      BY <1>1, <2>2
    <3>4. QED
      BY <3>2, <3>3
  <2>3. QED
    BY <2>1, <2>2
<1>5. QED
  BY <1>2, <1>3, <1>4 DEF Counts

\* One entry less, the last.
LEMMA CountsLess ==
  ASSUME NEW n \in Nat \ {0}, NEW tl, NEW T, NEW part, NEW c, NEW e, NEW one \in {0, 1},
         Counts(c, n, tl, part), \A k \in 1..n - 1 : T[k] = tl[k],
         one = 1 <=> tl[n] = part, e = [k \in 0..n - 1 |-> c[k] - one]
  PROVE  /\ Counts(e, n - 1, T, part)
         /\ \A k \in 0..n - 1 : c[k] >= one /\ e[k] = c[k] - one
<1>1. /\ c \in [0..n -> Nat] /\ c[n] = 0
      /\ \A j, k \in 0..n : j <= k => c[k] <= c[j] /\ c[j] <= c[k] + (k - j)
      /\ \A k \in 1..n : c[k - 1] = IF tl[k] = part THEN c[k] + 1 ELSE c[k]
  BY DEF Counts
<1>0. \A k \in 0..n : c[k] \in Nat
  BY <1>1
<1>2. c[n - 1] = one /\ n - 1 \in 0..n
  <2>1. c[n - 1] = IF tl[n] = part THEN c[n] + 1 ELSE c[n]
    <3>1. n \in 1..n
      OBVIOUS
    <3>2. QED
      BY <1>1, <3>1
  <2>2. QED
    BY <1>1, <2>1
<1>3. \A k \in 0..n - 1 : c[k] \in Nat /\ c[k] >= one
  <2> SUFFICES ASSUME NEW k \in 0..n - 1 PROVE c[k] \in Nat /\ c[k] >= one
    OBVIOUS
  <2>1. k \in 0..n /\ k <= n - 1
    OBVIOUS
  <2>2. c[n - 1] <= c[k]
    BY <1>1, <1>2, <2>1
  <2>3. QED
    BY <1>0, <1>2, <2>1, <2>2
<1>4. e \in [0..n - 1 -> Nat] /\ e[n - 1] = 0 /\ \A k \in 0..n - 1 : e[k] = c[k] - one
  BY <1>2, <1>3
<1>5. \A j, k \in 0..n - 1 : j <= k => e[k] <= e[j] /\ e[j] <= e[k] + (k - j)
  <2> SUFFICES ASSUME NEW j \in 0..n - 1, NEW k \in 0..n - 1, j <= k
               PROVE  e[k] <= e[j] /\ e[j] <= e[k] + (k - j)
    OBVIOUS
  <2>1. j \in 0..n /\ k \in 0..n /\ c[j] \in Nat /\ c[k] \in Nat
    BY <1>3
  <2>2. c[k] <= c[j] /\ c[j] <= c[k] + (k - j) /\ e[j] = c[j] - one /\ e[k] = c[k] - one
    BY <1>1, <1>4, <2>1
  <2>3. QED
    BY <2>1, <2>2
<1>6. ASSUME NEW k \in 1..n - 1
      PROVE  e[k - 1] = IF T[k] = part THEN e[k] + 1 ELSE e[k]
  <2>1. /\ e[k] = c[k] - one /\ e[k - 1] = c[k - 1] - one /\ c[k] \in Nat /\ k \in 1..n /\ T[k] = tl[k]
    BY <1>3, <1>4
  <2>2. c[k - 1] = IF tl[k] = part THEN c[k] + 1 ELSE c[k]
    BY <1>1, <2>1
  <2>3. QED
    BY <2>1, <2>2
<1>7. QED
  BY <1>3, <1>4, <1>5, <1>6 DEF Counts

\* One entry less, the oldest.
LEMMA CountsOlder ==
  ASSUME NEW n \in Nat \ {0}, NEW tl, NEW T, NEW part, NEW c, NEW e,
         Counts(c, n, tl, part), \A k \in 1..n - 1 : T[k] = tl[k + 1],
         e \in [0..n - 1 -> Nat], \A k \in 0..n - 1 : e[k] = c[k + 1]
  PROVE  Counts(e, n - 1, T, part)
<1>1. /\ c \in [0..n -> Nat] /\ c[n] = 0
      /\ \A j, k \in 0..n : j <= k => c[k] <= c[j] /\ c[j] <= c[k] + (k - j)
      /\ \A k \in 1..n : c[k - 1] = IF tl[k] = part THEN c[k] + 1 ELSE c[k]
  BY DEF Counts
<1>2. e \in [0..n - 1 -> Nat] /\ e[n - 1] = 0 /\ \A k \in 0..n - 1 : e[k] = c[k + 1]
  <2>1. n - 1 \in 0..n - 1 /\ (n - 1) + 1 = n
    OBVIOUS
  <2>2. QED
    BY <1>1, <2>1
<1>3. ASSUME NEW j \in 0..n - 1, NEW k \in 0..n - 1, j <= k
      PROVE  e[k] <= e[j] /\ e[j] <= e[k] + (k - j)
  <2>1. j + 1 \in 0..n /\ k + 1 \in 0..n /\ j + 1 <= k + 1 /\ (k + 1) - (j + 1) = k - j
    BY <1>3
  <2>2. c[k + 1] <= c[j + 1] /\ c[j + 1] <= c[k + 1] + ((k + 1) - (j + 1))
    BY <1>1, <2>1
  <2>3. QED
    BY <1>2, <2>1, <2>2
<1>4. ASSUME NEW k \in 1..n - 1
      PROVE  e[k - 1] = IF T[k] = part THEN e[k] + 1 ELSE e[k]
  <2>1. k + 1 \in 1..n /\ (k + 1) - 1 = k /\ (k - 1) + 1 = k /\ k - 1 \in 0..n - 1
    OBVIOUS
  <2>2. c[k] = IF tl[k + 1] = part THEN c[k + 1] + 1 ELSE c[k + 1]
    BY <1>1, <2>1, ZenonT(60)
  <2>3. e[k] = c[k + 1] /\ e[k - 1] = c[k]
    BY <1>2, <2>1
  <2>4. QED
    BY <2>2, <2>3
<1>5. QED
  BY <1>2, <1>3, <1>4 DEF Counts

\* The ladder, one entry more, the last one less, or the oldest one less.
LEMMA OnStackMore ==
  ASSUME NEW S, NEW D, NEW tl \in Seq(Part), NEW part \in Part, NEW s \in Seq(S), NEW ds \in Seq(D),
         NEW i, NEW d \in D, Len(ds) = Len(tl), OnStack(tl, part, s, ds, i)
  PROVE  /\ \A x \in S : x = d[i] => OnStack(Append(tl, part), part, Append(s, x), Append(ds, d), i)
         /\ \A other \in Part : other # part => OnStack(Append(tl, other), part, s, Append(ds, d), i)
<1> DEFINE n == Len(tl)
<1>1. PICK c : Counts(c, n, tl, part) /\ Places(c, n, tl, part, s, ds, i)
  BY DEF OnStack
<1>0. c \in [0..n -> Nat] /\ c[n] = 0
  BY <1>1 DEF Counts
<1>2. n \in Nat /\ Len(s) \in Nat /\ \A k \in 0..n : c[k] \in Nat
  BY <1>0
<1>3. ASSUME NEW x \in S, x = d[i] PROVE OnStack(Append(tl, part), part, Append(s, x), Append(ds, d), i)
  <2> DEFINE T == Append(tl, part)  U == Append(s, x)  V == Append(ds, d)
             e == [k \in 0..n + 1 |-> IF k = n + 1 THEN 0 ELSE c[k] + 1]
  <2>1. /\ Len(T) = n + 1 /\ T[n + 1] = part /\ \A k \in 1..n : T[k] = tl[k]
        /\ Len(U) = Len(s) + 1 /\ U[Len(s) + 1] = x /\ \A k \in 1..Len(s) : U[k] = s[k]
        /\ V[n + 1] = d /\ \A k \in 1..n : V[k] = ds[k]
    BY AppendOf
  <2>e. e \in [0..n + 1 -> Nat] /\ e[n + 1] = 0 /\ \A k \in 0..n : e[k] = c[k] + 1
    <3>1. \A k \in 0..n : c[k] + 1 \in Nat
      BY <1>2
    <3>2. \A k \in 0..n : k \in 0..n + 1 /\ k # n + 1
      BY <1>2
    <3>3. \A k \in 0..n + 1 : k = n + 1 \/ k \in 0..n
      BY <1>2
    <3>4. n + 1 \in 0..n + 1
      BY <1>2
    <3> HIDE DEF n
    <3>5. QED
      BY <3>1, <3>2, <3>3, <3>4
  <2> HIDE DEF T, U, V, n, e
  <2>2. Counts(e, n + 1, T, part) /\ e[n + 1] = 0 /\ \A k \in 1..n : e[k] = c[k] + 1
    <3>1. 1 \in {0, 1} /\ (1 = 1 <=> T[n + 1] = part) /\ \A k \in 1..n : T[k] = tl[k]
      BY <2>1
    <3>2. Counts(e, n + 1, T, part)
      BY <1>1, <1>2, <2>e, <3>1, CountsMore
    <3>3. \A k \in 1..n : k \in 0..n
      BY <1>2
    <3>4. QED
      BY <2>e, <3>2, <3>3
  <2>4. ASSUME NEW k \in 1..n + 1, T[k] = part
        PROVE  e[k] < Len(U) /\ U[Len(U) - e[k]] = V[k][i]
    <3>1. CASE k = n + 1
      BY <1>2, <1>3, <2>1, <2>2, <3>1
    <3>2. CASE k \in 1..n
      <4>0. k \in 0..n /\ T[k] = tl[k] /\ V[k] = ds[k]
        BY <2>1, <3>2
      <4>1. tl[k] = part /\ V[k] = ds[k] /\ e[k] = c[k] + 1 /\ c[k] \in Nat
        BY <1>2, <2>2, <2>4, <3>2, <4>0
      <4>2. c[k] < Len(s) /\ s[Len(s) - c[k]] = ds[k][i]
        BY <1>1, <3>2, <4>1 DEF Places
      <4>3. Len(U) - e[k] = Len(s) - c[k] /\ Len(s) - c[k] \in 1..Len(s) /\ e[k] < Len(U)
        BY <1>2, <2>1, <4>1, <4>2
      <4>4. QED
        BY <2>1, <4>1, <4>2, <4>3
    <3>3. QED
      BY <1>2, <3>1, <3>2
  <2>5. OnStack(T, part, U, V, i)
    BY <2>1, <2>2, <2>4 DEF OnStack, Places
  <2>6. QED
    BY <2>5 DEF T, U, V
<1>4. ASSUME NEW other \in Part, other # part
      PROVE  OnStack(Append(tl, other), part, s, Append(ds, d), i)
  <2> DEFINE T == Append(tl, other)  V == Append(ds, d)
             e == [k \in 0..n + 1 |-> IF k = n + 1 THEN 0 ELSE c[k] + 0]
  <2>1. /\ Len(T) = n + 1 /\ T[n + 1] = other /\ \A k \in 1..n : T[k] = tl[k]
        /\ \A k \in 1..n : V[k] = ds[k]
    BY AppendOf
  <2>e. e \in [0..n + 1 -> Nat] /\ e[n + 1] = 0 /\ \A k \in 0..n : e[k] = c[k] + 0
    <3>1. \A k \in 0..n : c[k] + 0 \in Nat
      BY <1>2
    <3>2. \A k \in 0..n : k \in 0..n + 1 /\ k # n + 1
      BY <1>2
    <3>3. \A k \in 0..n + 1 : k = n + 1 \/ k \in 0..n
      BY <1>2
    <3>4. n + 1 \in 0..n + 1
      BY <1>2
    <3> HIDE DEF n
    <3>5. QED
      BY <3>1, <3>2, <3>3, <3>4
  <2> HIDE DEF T, V, n, e
  <2>2. Counts(e, n + 1, T, part) /\ \A k \in 1..n : e[k] = c[k]
    <3>1. 0 \in {0, 1} /\ (0 = 1 <=> T[n + 1] = part) /\ \A k \in 1..n : T[k] = tl[k]
      BY <1>4, <2>1
    <3>2. Counts(e, n + 1, T, part)
      BY <1>1, <1>2, <2>e, <3>1, CountsMore
    <3>3. \A k \in 1..n : k \in 0..n /\ c[k] + 0 = c[k]
      BY <1>2
    <3>4. QED
      BY <2>e, <3>2, <3>3
  <2>4. ASSUME NEW k \in 1..n + 1, T[k] = part
        PROVE  e[k] < Len(s) /\ s[Len(s) - e[k]] = V[k][i]
    <3>1. k \in 1..n
      BY <1>2, <1>4, <2>1, <2>4
    <3>2. QED
      BY <1>1, <2>1, <2>2, <2>4, <3>1 DEF Places
  <2>5. OnStack(T, part, s, V, i)
    BY <2>1, <2>2, <2>4 DEF OnStack, Places
  <2>6. QED
    BY <2>5 DEF T, V
<1>5. QED
  BY <1>3, <1>4

LEMMA OnStackLess ==
  ASSUME NEW S, NEW D, NEW tl \in Seq(Part), NEW part \in Part, NEW s \in Seq(S), NEW ds \in Seq(D),
         NEW i, tl # <<>>, Len(ds) = Len(tl), OnStack(tl, part, s, ds, i)
  PROVE  /\ Last(tl) = part =>
              /\ s # <<>> /\ Last(s) = Last(ds)[i]
              /\ OnStack(Front(tl), part, Front(s), Front(ds), i)
         /\ Last(tl) # part => OnStack(Front(tl), part, s, Front(ds), i)
<1> DEFINE n == Len(tl)  T == Front(tl)  V == Front(ds)
<1>1. PICK c : Counts(c, n, tl, part) /\ Places(c, n, tl, part, s, ds, i)
  BY DEF OnStack
<1>0. c \in [0..n -> Nat] /\ c[n] = 0
  BY <1>1 DEF Counts
<1>2. n \in Nat \ {0} /\ Len(s) \in Nat /\ \A k \in 0..n : c[k] \in Nat
  BY <1>0
<1>3. /\ Len(T) = n - 1 /\ Last(tl) = tl[n] /\ \A k \in 1..n - 1 : T[k] = tl[k]
      /\ Last(ds) = ds[n] /\ \A k \in 1..n - 1 : V[k] = ds[k]
  <2>1. ds # <<>>
    BY <1>2
  <2>2. QED
    BY <2>1, FrontOf
<1>5. ASSUME Last(tl) = part
      PROVE  s # <<>> /\ Last(s) = Last(ds)[i] /\ OnStack(T, part, Front(s), V, i)
  <2> DEFINE U == Front(s)  e == [k \in 0..n - 1 |-> c[k] - 1]
  <2>1. 0 < Len(s) /\ s[Len(s) - 0] = ds[n][i]
    <3>1. n \in 1..n /\ tl[n] = part
      BY <1>2, <1>3, <1>5
    <3>2. c[n] < Len(s) /\ s[Len(s) - c[n]] = ds[n][i]
      BY <1>1, <3>1 DEF Places
    <3>3. QED
      BY <1>0, <3>2
  <2>2. s # <<>>
    BY <2>1
  <2>3. Last(s) = s[Len(s)] /\ Len(U) = Len(s) - 1 /\ \A k \in 1..Len(s) - 1 : U[k] = s[k]
    BY <2>2, FrontOf
  <2>e. e = [k \in 0..n - 1 |-> c[k] - 1]
    OBVIOUS
  <2> HIDE DEF T, U, V, n, e
  <2>5. Counts(e, n - 1, T, part) /\ \A k \in 0..n - 1 : c[k] >= 1 /\ e[k] = c[k] - 1
    <3>1. 1 \in {0, 1} /\ (1 = 1 <=> tl[n] = part) /\ \A k \in 1..n - 1 : T[k] = tl[k]
      BY <1>3, <1>5
    <3>2. QED
      BY <1>1, <1>2, <2>e, <3>1, CountsLess
  <2>6. ASSUME NEW k \in 1..n - 1, T[k] = part
        PROVE  e[k] < Len(U) /\ U[Len(U) - e[k]] = V[k][i]
    <3>1. /\ tl[k] = part /\ V[k] = ds[k] /\ e[k] = c[k] - 1 /\ c[k] \in Nat /\ c[k] >= 1
          /\ k \in 1..n
      BY <1>2, <1>3, <2>5, <2>6
    <3>2. c[k] < Len(s) /\ s[Len(s) - c[k]] = ds[k][i]
      BY <1>1, <3>1 DEF Places
    <3>3. Len(U) - e[k] = Len(s) - c[k] /\ Len(s) - c[k] \in 1..Len(s) - 1 /\ e[k] < Len(U)
      <4>1. \A a, b \in Nat : b >= 1 /\ b < a =>
                /\ (a - 1) - (b - 1) = a - b /\ a - b \in 1..a - 1 /\ b - 1 < a - 1
        OBVIOUS
      <4>2. Len(s) \in Nat /\ Len(U) = Len(s) - 1
        BY <1>2, <2>3
      <4>3. QED
        BY <3>1, <3>2, <4>1, <4>2, Zenon
    <3>4. QED
      BY <2>3, <3>1, <3>2, <3>3
  <2>7. OnStack(T, part, U, V, i)
    BY <1>3, <2>5, <2>6 DEF OnStack, Places
  <2>8. QED
    BY <1>2, <1>3, <2>1, <2>2, <2>3, <2>7 DEF U
<1>6. ASSUME Last(tl) # part PROVE OnStack(T, part, s, V, i)
  <2> DEFINE e == [k \in 0..n - 1 |-> c[k] - 0]
  <2>e. e = [k \in 0..n - 1 |-> c[k] - 0]
    OBVIOUS
  <2> HIDE DEF T, V, n, e
  <2>2. Counts(e, n - 1, T, part) /\ \A k \in 1..n - 1 : e[k] = c[k]
    <3>1. 0 \in {0, 1} /\ (0 = 1 <=> tl[n] = part) /\ \A k \in 1..n - 1 : T[k] = tl[k]
      BY <1>3, <1>6
    <3>2. Counts(e, n - 1, T, part) /\ \A k \in 0..n - 1 : e[k] = c[k] - 0
      BY <1>1, <1>2, <2>e, <3>1, CountsLess
    <3>3. \A k \in 1..n - 1 : c[k] - 0 = c[k]
      BY <1>2
    <3>4. QED
      BY <3>2, <3>3
  <2>3. ASSUME NEW k \in 1..n - 1, T[k] = part
        PROVE  e[k] < Len(s) /\ s[Len(s) - e[k]] = V[k][i]
    <3>1. k \in 1..n /\ tl[k] = part /\ V[k] = ds[k] /\ e[k] = c[k]
      BY <1>2, <1>3, <2>2, <2>3
    <3>2. QED
      BY <1>1, <3>1 DEF Places
  <2>4. QED
    BY <1>3, <2>2, <2>3 DEF OnStack, Places
<1>7. QED
  BY <1>5, <1>6

LEMMA OnStackOlder ==
  ASSUME NEW S, NEW D, NEW tl \in Seq(Part), NEW part \in Part, NEW s \in Seq(S), NEW ds \in Seq(D),
         NEW i, Len(ds) = Len(tl), OnStack(tl, part, s, ds, i)
  PROVE  /\ tl # <<>> => OnStack(Tail(tl), part, s, Tail(ds), i)
         /\ Len(tl) < Len(s) => OnStack(tl, part, Tail(s), ds, i)
<1> DEFINE n == Len(tl)
<1>1. PICK c : Counts(c, n, tl, part) /\ Places(c, n, tl, part, s, ds, i)
  BY DEF OnStack
<1>0. c \in [0..n -> Nat] /\ c[n] = 0
  BY <1>1 DEF Counts
<1>2. n \in Nat /\ Len(s) \in Nat /\ \A k \in 0..n : c[k] \in Nat
  BY <1>0
<1>3. ASSUME tl # <<>> PROVE OnStack(Tail(tl), part, s, Tail(ds), i)
  <2> DEFINE T == Tail(tl)  V == Tail(ds)  e == [k \in 0..n - 1 |-> c[k + 1]]
  <2>1. /\ n \in Nat \ {0} /\ Len(T) = n - 1 /\ \A k \in 1..n - 1 : T[k] = tl[k + 1]
        /\ \A k \in 1..n - 1 : V[k] = ds[k + 1]
    <3>1. n \in Nat \ {0} /\ ds # <<>>
      BY <1>3
    <3>2. QED
      BY <1>3, <3>1, TailOf
  <2>e. e \in [0..n - 1 -> Nat] /\ \A k \in 0..n - 1 : e[k] = c[k + 1]
    <3>1. \A k \in 0..n - 1 : c[k + 1] \in Nat
      BY <1>2, <2>1
    <3>2. QED
      BY <3>1
  <2> HIDE DEF T, V, n, e
  <2>3. Counts(e, n - 1, T, part) /\ \A k \in 1..n - 1 : e[k] = c[k + 1]
    <3>1. Counts(e, n - 1, T, part)
      BY <1>1, <2>1, <2>e, CountsOlder
    <3>2. \A k \in 1..n - 1 : k \in 0..n - 1
      OBVIOUS
    <3>3. QED
      BY <2>e, <3>1, <3>2
  <2>4. ASSUME NEW k \in 1..n - 1, T[k] = part
        PROVE  e[k] < Len(s) /\ s[Len(s) - e[k]] = V[k][i]
    <3>1. k + 1 \in 1..n /\ tl[k + 1] = part /\ V[k] = ds[k + 1] /\ e[k] = c[k + 1]
      BY <1>2, <2>1, <2>3, <2>4
    <3>2. QED
      BY <1>1, <3>1 DEF Places
  <2>5. OnStack(T, part, s, V, i)
    BY <2>1, <2>3, <2>4 DEF OnStack, Places
  <2>6. QED
    BY <2>5 DEF T, V
<1>4. ASSUME n < Len(s) PROVE OnStack(tl, part, Tail(s), ds, i)
  <2> DEFINE U == Tail(s)
  <2>1. s # <<>>
    BY <1>2, <1>4
  <2>2. Len(U) = Len(s) - 1 /\ \A k \in 1..Len(s) - 1 : U[k] = s[k + 1]
    BY <2>1, TailOf
  <2> HIDE DEF U, n
  <2>3. ASSUME NEW k \in 1..n, tl[k] = part
        PROVE  c[k] < Len(U) /\ U[Len(U) - c[k]] = ds[k][i]
    <3>1. c[k] <= c[n] + (n - k) /\ c[n] = 0 /\ c[k] \in Nat
      <4>1. k \in 0..n /\ n \in 0..n /\ k <= n
        BY <1>2
      <4>2. QED
        BY <1>1, <1>2, <4>1 DEF Counts
    <3>2. c[k] < Len(s) - 1
      BY <1>2, <1>4, <3>1
    <3>3. s[Len(s) - c[k]] = ds[k][i]
      BY <1>1, <2>3 DEF Places
    <3>4. Len(U) - c[k] \in 1..Len(s) - 1 /\ (Len(U) - c[k]) + 1 = Len(s) - c[k]
      <4>1. c[k] \in Nat /\ Len(s) \in Nat /\ Len(U) = Len(s) - 1 /\ c[k] < Len(s) - 1
        BY <1>2, <2>2, <3>1, <3>2
      <4>2. QED
        BY <4>1
    <3>5. QED
      BY <2>2, <3>2, <3>3, <3>4
  <2>4. OnStack(tl, part, U, ds, i)
    BY <1>1, <2>3 DEF OnStack, Places, n
  <2>5. QED
    BY <2>4 DEF U
<1>5. QED
  BY <1>3, <1>4

-----------------------------------------------------------------------------
(* The ladder: an entry more, the last less, the oldest less.              *)

LadderTypes(tl, ms, ts, ds, d) ==
  /\ tl \in Seq(Part) /\ ms \in Seq(Pictures) /\ ts \in Seq(Tasks)
  /\ ds \in Seq(Document) /\ d \in Document

LEMMA LadderMore ==
  ASSUME NEW tl, NEW ms, NEW ts, NEW ds, NEW d, NEW d2 \in Document,
         LadderTypes(tl, ms, ts, ds, d), Ladder(tl, ms, ts, ds, d)
  PROVE  /\ d2[2] = d[2] => Ladder(Append(tl, "map"), Append(ms, d[1]), ts, Append(ds, d), d2)
         /\ d2[1] = d[1] => Ladder(Append(tl, "semantic"), ms, Append(ts, d[2]), Append(ds, d), d2)
<1> DEFINE n == Len(tl)  V == Append(ds, d)
<1>1. /\ "map" \in Part /\ "semantic" \in Part /\ "map" # "semantic"
      /\ d[1] \in Pictures /\ d[2] \in Tasks
  BY DEF Part, LadderTypes, Document
<1>2. /\ n \in Nat /\ Len(ds) = n /\ Len(V) = n + 1 /\ V[n + 1] = d /\ \A k \in 1..n : V[k] = ds[k]
  BY AppendOf DEF Ladder, LadderTypes
<1>3. ASSUME NEW part \in Part, IF part = "map" THEN d2[2] = d[2] ELSE d2[1] = d[1]
      PROVE  Len(V) = Len(Append(tl, part)) /\ Chain(Append(tl, part), V, d2)
  <2> DEFINE T == Append(tl, part)
  <2>1. Len(T) = n + 1 /\ T[n + 1] = part /\ \A k \in 1..n : T[k] = tl[k]
    BY AppendOf DEF LadderTypes
  <2> HIDE DEF T, V, n
  <2>2. ASSUME NEW k \in 1..n + 1
        PROVE  LET next == IF k = n + 1 THEN d2 ELSE V[k + 1]
               IN  IF T[k] = "map" THEN V[k][2] = next[2] ELSE V[k][1] = next[1]
    <3>1. CASE k = n + 1
      BY <1>2, <1>3, <2>1, <3>1
    <3>2. CASE k \in 1..n - 1
      <4>1. k \in 1..n /\ k + 1 \in 1..n /\ k # n /\ k # n + 1
        BY <1>2, <3>2
      <4>2. V[k] = ds[k] /\ V[k + 1] = ds[k + 1] /\ T[k] = tl[k]
        BY <1>2, <2>1, <4>1
      <4>3. IF tl[k] = "map" THEN ds[k][2] = ds[k + 1][2] ELSE ds[k][1] = ds[k + 1][1]
        BY <4>1 DEF Ladder, Chain, n
      <4>4. QED
        BY <4>1, <4>2, <4>3
    <3>3. CASE k = n
      <4>1. k \in 1..n /\ k # n + 1
        BY <1>2, <2>2, <3>3
      <4>2. V[k] = ds[k] /\ V[k + 1] = d /\ T[k] = tl[k]
        BY <1>2, <2>1, <3>3, <4>1
      <4>3. IF tl[k] = "map" THEN ds[k][2] = d[2] ELSE ds[k][1] = d[1]
        BY <3>3, <4>1 DEF Ladder, Chain, n
      <4>4. QED
        BY <4>1, <4>2, <4>3
    <3>4. QED
      BY <1>2, <3>1, <3>2, <3>3
  <2>3. QED
    BY <1>2, <2>1, <2>2 DEF Chain, T
<1>4. ASSUME d2[2] = d[2]
      PROVE  Ladder(Append(tl, "map"), Append(ms, d[1]), ts, V, d2)
  <2>1. OnStack(Append(tl, "map"), "map", Append(ms, d[1]), V, 1)
    BY <1>1, OnStackMore DEF Ladder, LadderTypes
  <2>2. OnStack(Append(tl, "map"), "semantic", ts, V, 2)
    BY <1>1, OnStackMore DEF Ladder, LadderTypes
  <2>3. QED
    BY <1>1, <1>3, <1>4, <2>1, <2>2 DEF Ladder
<1>5. ASSUME d2[1] = d[1]
      PROVE  Ladder(Append(tl, "semantic"), ms, Append(ts, d[2]), V, d2)
  <2>1. OnStack(Append(tl, "semantic"), "map", ms, V, 1)
    BY <1>1, OnStackMore DEF Ladder, LadderTypes
  <2>2. OnStack(Append(tl, "semantic"), "semantic", Append(ts, d[2]), V, 2)
    BY <1>1, OnStackMore DEF Ladder, LadderTypes
  <2>3. QED
    BY <1>1, <1>3, <1>5, <2>1, <2>2 DEF Ladder
<1>6. QED
  BY <1>4, <1>5

LEMMA LadderLess ==
  ASSUME NEW tl, NEW ms, NEW ts, NEW ds, NEW d, tl # <<>>,
         LadderTypes(tl, ms, ts, ds, d), Ladder(tl, ms, ts, ds, d)
  PROVE  /\ ds # <<>> /\ Last(ds) \in Document
         /\ Last(tl) = "map" =>
              /\ ms # <<>> /\ Last(ds) = <<Last(ms), d[2]>>
              /\ Ladder(Front(tl), Front(ms), ts, Front(ds), Last(ds))
         /\ Last(tl) # "map" =>
              /\ ts # <<>> /\ Last(ds) = <<d[1], Last(ts)>>
              /\ Ladder(Front(tl), ms, Front(ts), Front(ds), Last(ds))
<1> DEFINE n == Len(tl)  T == Front(tl)  V == Front(ds)
<1>1. /\ "map" \in Part /\ "semantic" \in Part /\ Last(tl) \in Part
      /\ Last(tl) # "map" => Last(tl) = "semantic"
  <2>1. tl \in Seq(Part)
    BY DEF LadderTypes
  <2>2. Last(tl) \in Part
    BY <2>1, FrontOf
  <2>3. QED
    BY <2>2 DEF Part
<1>2. /\ n \in Nat \ {0} /\ Len(ds) = n /\ ds # <<>> /\ Last(tl) = tl[n]
      /\ Len(T) = n - 1 /\ \A k \in 1..n - 1 : T[k] = tl[k]
  BY FrontOf DEF Ladder, LadderTypes
<1>3. /\ Last(ds) = ds[n] /\ Last(ds) \in Document
      /\ Len(V) = n - 1 /\ \A k \in 1..n - 1 : V[k] = ds[k]
  BY <1>2, FrontOf DEF LadderTypes
<1>4. Last(ds) = <<Last(ds)[1], Last(ds)[2]>>
  BY <1>3 DEF Document
<1>5. IF tl[n] = "map" THEN ds[n][2] = d[2] ELSE ds[n][1] = d[1]
  BY <1>2 DEF Ladder, Chain
<1>6. Chain(T, V, Last(ds))
  <2> HIDE DEF T, V, n
  <2>1. ASSUME NEW k \in 1..n - 1
        PROVE  LET next == IF k = n - 1 THEN Last(ds) ELSE V[k + 1]
               IN  IF T[k] = "map" THEN V[k][2] = next[2] ELSE V[k][1] = next[1]
    <3>1. k \in 1..n /\ k # n /\ V[k] = ds[k] /\ T[k] = tl[k]
      BY <1>2, <1>3
    <3>2. IF tl[k] = "map" THEN ds[k][2] = ds[k + 1][2] ELSE ds[k][1] = ds[k + 1][1]
      BY <3>1 DEF Ladder, Chain, n
    <3>3. CASE k = n - 1
      <4>1. k + 1 = n
        BY <1>2, <3>3
      <4>2. QED
        BY <1>3, <3>1, <3>2, <3>3, <4>1
    <3>4. CASE k # n - 1
      <4>1. V[k + 1] = ds[k + 1]
        BY <1>2, <1>3, <3>4
      <4>2. QED
        BY <3>1, <3>2, <3>4, <4>1
    <3>5. QED
      BY <3>3, <3>4
  <2>2. QED
    BY <1>2, <2>1 DEF Chain
<1>7. CASE Last(tl) = "map"
  <2>1. ms # <<>> /\ Last(ms) = Last(ds)[1] /\ OnStack(T, "map", Front(ms), V, 1)
    BY <1>1, <1>7, OnStackLess DEF Ladder, LadderTypes
  <2>2. OnStack(T, "semantic", ts, V, 2)
    BY <1>1, <1>7, OnStackLess DEF Ladder, LadderTypes
  <2>3. QED
    BY <1>2, <1>3, <1>4, <1>5, <1>6, <1>7, <2>1, <2>2 DEF Ladder
<1>8. CASE Last(tl) # "map"
  <2>1. ts # <<>> /\ Last(ts) = Last(ds)[2] /\ OnStack(T, "semantic", Front(ts), V, 2)
    BY <1>1, <1>8, OnStackLess DEF Ladder, LadderTypes
  <2>2. OnStack(T, "map", ms, V, 1)
    BY <1>1, <1>8, OnStackLess DEF Ladder, LadderTypes
  <2>3. QED
    BY <1>2, <1>3, <1>4, <1>5, <1>6, <1>8, <2>1, <2>2 DEF Ladder
<1>9. QED
  BY <1>2, <1>3, <1>7, <1>8

LEMMA LadderOlder ==
  ASSUME NEW tl, NEW ms, NEW ts, NEW ds, NEW d,
         LadderTypes(tl, ms, ts, ds, d), Ladder(tl, ms, ts, ds, d)
  PROVE  /\ tl # <<>> => Ladder(Tail(tl), ms, ts, Tail(ds), d)
         /\ Len(tl) < Len(ms) => Ladder(tl, Tail(ms), ts, ds, d)
         /\ Len(tl) < Len(ts) => Ladder(tl, ms, Tail(ts), ds, d)
<1> DEFINE n == Len(tl)  T == Tail(tl)  V == Tail(ds)
<1>1. "map" \in Part /\ "semantic" \in Part
  BY DEF Part
<1>2. ASSUME tl # <<>> PROVE Ladder(T, ms, ts, V, d)
  <2>1. n \in Nat \ {0} /\ Len(ds) = n /\ ds # <<>>
    BY <1>2 DEF Ladder, LadderTypes
  <2>2. /\ Len(T) = n - 1 /\ \A k \in 1..n - 1 : T[k] = tl[k + 1]
        /\ Len(V) = n - 1 /\ \A k \in 1..n - 1 : V[k] = ds[k + 1]
    BY <1>2, <2>1, TailOf DEF LadderTypes
  <2>3. Chain(T, V, d)
    <3> HIDE DEF T, V, n
    <3>1. ASSUME NEW k \in 1..n - 1
          PROVE  LET next == IF k = n - 1 THEN d ELSE V[k + 1]
                 IN  IF T[k] = "map" THEN V[k][2] = next[2] ELSE V[k][1] = next[1]
      <4>1. k + 1 \in 1..n /\ V[k] = ds[k + 1] /\ T[k] = tl[k + 1] /\ (k + 1 = n <=> k = n - 1)
        BY <2>1, <2>2
      <4>2. LET next == IF k + 1 = n THEN d ELSE ds[k + 1 + 1]
            IN  IF tl[k + 1] = "map" THEN ds[k + 1][2] = next[2] ELSE ds[k + 1][1] = next[1]
        BY <4>1 DEF Ladder, Chain, n
      <4>3. CASE k = n - 1
        BY <4>1, <4>2, <4>3
      <4>4. CASE k # n - 1
        <5>1. V[k + 1] = ds[k + 1 + 1]
          BY <2>1, <2>2, <4>4
        <5>2. QED
          BY <4>1, <4>2, <4>4, <5>1
      <4>5. QED
        BY <4>3, <4>4
    <3>2. QED
      BY <2>2, <3>1 DEF Chain
  <2>4. OnStack(T, "map", ms, V, 1) /\ OnStack(T, "semantic", ts, V, 2)
    BY <1>1, <1>2, OnStackOlder DEF Ladder, LadderTypes
  <2>5. QED
    BY <2>2, <2>3, <2>4 DEF Ladder
<1>3. ASSUME Len(tl) < Len(ms) PROVE Ladder(tl, Tail(ms), ts, ds, d)
  BY <1>1, <1>3, OnStackOlder DEF Ladder, LadderTypes
<1>4. ASSUME Len(tl) < Len(ts) PROVE Ladder(tl, ms, Tail(ts), ds, d)
  BY <1>1, <1>4, OnStackOlder DEF Ladder, LadderTypes
<1>5. QED
  BY <1>2, <1>3, <1>4

LEMMA LadderEmpty ==
  ASSUME NEW ms, NEW ts, NEW d
  PROVE  Ladder(<<>>, ms, ts, <<>>, d)
<1> DEFINE c == [k \in 0..0 |-> 0]
<1>1. c \in [0..0 -> Nat] /\ c[0] = 0
  OBVIOUS
<1>2. Len(<<>>) = 0
  OBVIOUS
<1> HIDE DEF c
<1>3. ASSUME NEW part PROVE Counts(c, 0, <<>>, part)
  BY <1>1 DEF Counts
<1>4. ASSUME NEW part, NEW s, NEW i PROVE OnStack(<<>>, part, s, <<>>, i)
  BY <1>2, <1>3 DEF OnStack, Places
<1>5. QED
  BY <1>2, <1>4 DEF Ladder, Chain

LEMMA PushOf ==
  ASSUME NEW S, NEW s \in Seq(S), NEW x \in S
  PROVE  /\ Push(s, x) \in Seq(S)
         /\ Push(s, x) = IF Len(s) < Limit THEN Append(s, x) ELSE Tail(Append(s, x))
         /\ Append(s, x) \in Seq(S) /\ Append(s, x) # <<>> /\ Tail(Append(s, x)) \in Seq(S)
         /\ Len(s) \in Nat /\ Len(Append(s, x)) = Len(s) + 1 /\ Len(Tail(Append(s, x))) = Len(s)
<1>1. Append(s, x) \in Seq(S) /\ Append(s, x) # <<>> /\ Len(Append(s, x)) = Len(s) + 1 /\ Len(s) \in Nat
  BY AppendOf
<1>2. Tail(Append(s, x)) \in Seq(S) /\ Len(Tail(Append(s, x))) = Len(s)
  BY <1>1, TailOf
<1>3. QED
  BY <1>1, <1>2 DEF Push

\* An entry more, when timeline, stack and documents forget their oldest beyond the limit.
LEMMA LadderPush ==
  ASSUME NEW tl, NEW ms, NEW ts, NEW ds, NEW d, NEW d2 \in Document,
         LadderTypes(tl, ms, ts, ds, d), Ladder(tl, ms, ts, ds, d), Len(tl) <= Limit
  PROVE  /\ d2[2] = d[2] =>
              Ladder(Push(tl, "map"), Push(ms, d[1]), ts, Push(ds, d), d2)
         /\ d2[1] = d[1] =>
              Ladder(Push(tl, "semantic"), ms, Push(ts, d[2]), Push(ds, d), d2)
         /\ \A part \in Part : Len(Push(tl, part)) <= Limit
<1>0. /\ Limit \in Nat \ {0} /\ d[1] \in Pictures /\ d[2] \in Tasks
      /\ "map" \in Part /\ "semantic" \in Part
  BY HistoryAssumption DEF LadderTypes, Document, Part
<1>1. /\ tl \in Seq(Part) /\ ms \in Seq(Pictures) /\ ts \in Seq(Tasks) /\ ds \in Seq(Document)
      /\ d \in Document /\ Len(ds) = Len(tl)
      /\ Len(tl) \in Nat /\ Len(ms) \in Nat /\ Len(ts) \in Nat
  BY DEF LadderTypes, Ladder
<1>2. ASSUME NEW part \in Part PROVE Len(Push(tl, part)) <= Limit
  <2>1. /\ Len(Append(tl, part)) = Len(tl) + 1 /\ Len(Tail(Append(tl, part))) = Len(tl)
        /\ Push(tl, part) = IF Len(tl) < Limit THEN Append(tl, part) ELSE Tail(Append(tl, part))
    BY <1>1, PushOf
  <2>2. QED
    BY <1>0, <1>1, <2>1
<1>3. ASSUME NEW part \in Part, NEW MS \in Seq(Pictures), NEW TS \in Seq(Tasks),
             Ladder(Append(tl, part), MS, TS, Append(ds, d), d2)
      PROVE  Ladder(Push(tl, part), MS, TS, Push(ds, d), d2)
  <2>1. CASE Len(tl) < Limit
    BY <1>1, <1>3, <2>1, PushOf
  <2>2. CASE ~(Len(tl) < Limit)
    <3>1. /\ Append(tl, part) \in Seq(Part) /\ Append(tl, part) # <<>>
          /\ Append(ds, d) \in Seq(Document)
      BY <1>1, PushOf
    <3>2. LadderTypes(Append(tl, part), MS, TS, Append(ds, d), d2)
      BY <3>1 DEF LadderTypes
    <3>3. Ladder(Tail(Append(tl, part)), MS, TS, Tail(Append(ds, d)), d2)
      BY <1>3, <3>1, <3>2, LadderOlder
    <3>4. Push(tl, part) = Tail(Append(tl, part)) /\ Push(ds, d) = Tail(Append(ds, d))
      BY <1>1, <2>2, PushOf
    <3>5. QED
      BY <3>3, <3>4
  <2>3. QED
    BY <2>1, <2>2
<1>4. ASSUME d2[2] = d[2]
      PROVE  Ladder(Push(tl, "map"), Push(ms, d[1]), ts, Push(ds, d), d2)
  <2>1. Append(ms, d[1]) \in Seq(Pictures) /\ Len(Append(ms, d[1])) = Len(ms) + 1
    BY <1>0, <1>1, PushOf
  <2>2. Ladder(Push(tl, "map"), Append(ms, d[1]), ts, Push(ds, d), d2)
    <3>1. Ladder(Append(tl, "map"), Append(ms, d[1]), ts, Append(ds, d), d2)
      BY <1>4, LadderMore
    <3>2. QED
      BY <1>0, <1>1, <1>3, <2>1, <3>1
  <2>3. CASE Len(ms) < Limit
    BY <1>0, <1>1, <2>2, <2>3, PushOf
  <2>4. CASE ~(Len(ms) < Limit)
    <3>1. Push(tl, "map") \in Seq(Part) /\ Push(ds, d) \in Seq(Document)
      BY <1>0, <1>1, PushOf
    <3>2. LadderTypes(Push(tl, "map"), Append(ms, d[1]), ts, Push(ds, d), d2)
      BY <1>1, <2>1, <3>1 DEF LadderTypes
    <3>3. Len(Push(tl, "map")) < Len(Append(ms, d[1]))
      <4>1. Len(Push(tl, "map")) <= Limit /\ Len(Push(tl, "map")) \in Nat
        BY <1>0, <1>2, <3>1
      <4>2. QED
        BY <1>0, <1>1, <2>1, <2>4, <4>1
    <3>4. Ladder(Push(tl, "map"), Tail(Append(ms, d[1])), ts, Push(ds, d), d2)
      BY <2>2, <3>2, <3>3, LadderOlder
    <3>5. Push(ms, d[1]) = Tail(Append(ms, d[1]))
      BY <1>0, <1>1, <2>4, PushOf
    <3>6. QED
      BY <3>4, <3>5
  <2>5. QED
    BY <2>3, <2>4
<1>5. ASSUME d2[1] = d[1]
      PROVE  Ladder(Push(tl, "semantic"), ms, Push(ts, d[2]), Push(ds, d), d2)
  <2>1. Append(ts, d[2]) \in Seq(Tasks) /\ Len(Append(ts, d[2])) = Len(ts) + 1
    BY <1>0, <1>1, PushOf
  <2>2. Ladder(Push(tl, "semantic"), ms, Append(ts, d[2]), Push(ds, d), d2)
    <3>1. Ladder(Append(tl, "semantic"), ms, Append(ts, d[2]), Append(ds, d), d2)
      BY <1>5, LadderMore
    <3>2. QED
      BY <1>0, <1>1, <1>3, <2>1, <3>1
  <2>3. CASE Len(ts) < Limit
    BY <1>0, <1>1, <2>2, <2>3, PushOf
  <2>4. CASE ~(Len(ts) < Limit)
    <3>1. Push(tl, "semantic") \in Seq(Part) /\ Push(ds, d) \in Seq(Document)
      BY <1>0, <1>1, PushOf
    <3>2. LadderTypes(Push(tl, "semantic"), ms, Append(ts, d[2]), Push(ds, d), d2)
      BY <1>1, <2>1, <3>1 DEF LadderTypes
    <3>3. Len(Push(tl, "semantic")) < Len(Append(ts, d[2]))
      <4>1. Len(Push(tl, "semantic")) <= Limit /\ Len(Push(tl, "semantic")) \in Nat
        BY <1>0, <1>2, <3>1
      <4>2. QED
        BY <1>0, <1>1, <2>1, <2>4, <4>1
    <3>4. Ladder(Push(tl, "semantic"), ms, Tail(Append(ts, d[2])), Push(ds, d), d2)
      BY <2>2, <3>2, <3>3, LadderOlder
    <3>5. Push(ts, d[2]) = Tail(Append(ts, d[2]))
      BY <1>0, <1>1, <2>4, PushOf
    <3>6. QED
      BY <3>4, <3>5
  <2>5. QED
    BY <2>3, <2>4
<1>6. QED
  BY <1>2, <1>4, <1>5

-----------------------------------------------------------------------------
\* The ladders of undo and of redo, which meet in one document.
Ladders(edit, redo, st, p, f, d) ==
  /\ Ladder(edit, st.mapUndo, st.taskUndo, p, d)
  /\ Ladder(redo, st.mapRedo, st.taskRedo, f, d)
  /\ Len(edit) + Len(redo) <= Limit

Strokes ==
  /\ (stroke.started => stroke.held) /\ InStroke = stroke.started
  /\ InStroke => before = {begun[1]} /\ task = begun[2]

LEMMA HistoryInvParts ==
  HistoryInv <=> /\ HistoryTypeOK
                 /\ ~astray /\ ~unkept =>
                      /\ Ladders(editTimeline, redoTimeline, stacks, past, future, Base)
                      /\ Strokes
BY Zenon DEF HistoryInv, Ladders, Strokes

LEMMA NewDocument ==
  ASSUME Limit \in Nat \ {0}, NEW d, NEW st, st = NoStacks
  PROVE  Ladders(<<>>, <<>>, st, <<>>, <<>>, d)
BY LadderEmpty DEF Ladders, NoStacks

LEMMA HistoryInitInv == HistoryInit => HistoryInv
<1> SUFFICES ASSUME HistoryInit PROVE HistoryInv
  OBVIOUS
<1>1. HistoryTypeOK
  <2>1. picture \in Pictures /\ task \in Tasks /\ begun = <<picture, task>> /\ before = {}
    BY DEF HistoryInit, document
  <2>2. stroke = [held |-> FALSE, started |-> FALSE] /\ astray = FALSE /\ unkept = FALSE
    BY DEF HistoryInit, NoStroke
  <2>3. stacks = [mapUndo |-> <<>>, mapRedo |-> <<>>, taskUndo |-> <<>>, taskRedo |-> <<>>]
    BY DEF HistoryInit, NoStacks
  <2>4. editTimeline = <<>> /\ redoTimeline = <<>> /\ past = <<>> /\ future = <<>>
    BY DEF HistoryInit
  <2>5. \A S : <<>> \in Seq(S)
    BY EmptySeq
  <2>6. stacks \in [mapUndo : Seq(Pictures), mapRedo : Seq(Pictures),
                   taskUndo : Seq(Tasks), taskRedo : Seq(Tasks)]
    BY <2>3, <2>5
  <2>7. QED
    BY <2>1, <2>2, <2>4, <2>5, <2>6 DEF HistoryTypeOK, Document
<1>2. Ladders(editTimeline, redoTimeline, stacks, past, future, Base)
  BY HistoryAssumption, NewDocument DEF HistoryInit
<1>3. Strokes
  BY DEF HistoryInit, Strokes, InStroke, NoStroke
<1>4. QED
  BY <1>1, <1>2, <1>3, HistoryInvParts

StackRecords == [mapUndo : Seq(Pictures), mapRedo : Seq(Pictures),
            taskUndo : Seq(Tasks), taskRedo : Seq(Tasks)]

LEMMA ShorterOf ==
  ASSUME NEW S, NEW s \in Seq(S)
  PROVE  /\ Rest(s) \in Seq(S) /\ <<>> \in Seq(S)
         /\ s # <<>> => Front(s) \in Seq(S) /\ Last(s) \in S /\ Rest(s) = Front(s)
         /\ \A x \in S : Push(s, x) \in Seq(S) /\ Append(s, x) \in Seq(S)
BY FrontOf, PushOf, EmptySeq DEF Rest

\* One edit: what the ladders become, for a document of which one part changes.
LEMMA Edited ==
  ASSUME HistoryTypeOK, NEW d \in Document, NEW d2 \in Document, NEW st, NEW st2,
         st \in StackRecords, NEW part \in Part,
         Ladders(editTimeline, redoTimeline, st, past, future, d),
         \/ /\ part = "map" /\ d2[2] = d[2]
            /\ st2 = [st EXCEPT !.mapUndo = Push(@, d[1]), !.mapRedo = <<>>]
         \/ /\ part = "semantic" /\ d2[1] = d[1]
            /\ st2 = [st EXCEPT !.taskUndo = Push(@, d[2]), !.taskRedo = <<>>]
  PROVE  Ladders(Push(editTimeline, part), <<>>, st2, Push(past, d), <<>>, d2)
<1>1. /\ LadderTypes(editTimeline, st.mapUndo, st.taskUndo, past, d)
      /\ Ladder(editTimeline, st.mapUndo, st.taskUndo, past, d)
      /\ Len(editTimeline) \in Nat /\ Len(redoTimeline) \in Nat
  BY DEF Ladders, LadderTypes, HistoryTypeOK, StackRecords
<1>2. Len(editTimeline) <= Limit
  BY <1>1, HistoryAssumption DEF Ladders
<1>3. /\ d2[2] = d[2] => Ladder(Push(editTimeline, "map"), Push(st.mapUndo, d[1]), st.taskUndo, Push(past, d), d2)
      /\ d2[1] = d[1] => Ladder(Push(editTimeline, "semantic"), st.mapUndo, Push(st.taskUndo, d[2]), Push(past, d), d2)
      /\ Len(Push(editTimeline, part)) <= Limit
  BY <1>1, <1>2, LadderPush
<1>4. Len(Push(editTimeline, part)) + Len(<<>>) <= Limit
  <2>1. Push(editTimeline, part) \in Seq(Part)
    BY PushOf DEF HistoryTypeOK
  <2>2. QED
    BY <1>3, <2>1, HistoryAssumption
<1>5. Ladder(<<>>, st2.mapRedo, st2.taskRedo, <<>>, d2)
  BY LadderEmpty
<1>6. Ladder(Push(editTimeline, part), st2.mapUndo, st2.taskUndo, Push(past, d), d2)
  <2>1. CASE part = "map" /\ d2[2] = d[2] /\ st2 = [st EXCEPT !.mapUndo = Push(@, d[1]), !.mapRedo = <<>>]
    <3>1. st2.mapUndo = Push(st.mapUndo, d[1]) /\ st2.taskUndo = st.taskUndo
      BY <2>1 DEF StackRecords
    <3>2. QED
      BY <1>3, <2>1, <3>1
  <2>2. CASE part = "semantic" /\ d2[1] = d[1] /\ st2 = [st EXCEPT !.taskUndo = Push(@, d[2]), !.taskRedo = <<>>]
    <3>1. st2.taskUndo = Push(st.taskUndo, d[2]) /\ st2.mapUndo = st.mapUndo
      BY <2>2 DEF StackRecords
    <3>2. QED
      BY <1>3, <2>2, <3>1
  <2>3. QED
    BY <2>1, <2>2
<1>7. QED
  BY <1>4, <1>5, <1>6 DEF Ladders

\* One step back on a ladder e is one step on the other, r.
LEMMA Moved ==
  ASSUME NEW e, NEW r, NEW em, NEW et, NEW rm, NEW rt, NEW p, NEW f,
         NEW d \in Document, NEW d2 \in Document, e # <<>>,
         LadderTypes(e, em, et, p, d), Ladder(e, em, et, p, d),
         LadderTypes(r, rm, rt, f, d), Ladder(r, rm, rt, f, d)
  PROVE  /\ (Last(e) = "map" /\ d2 = <<Last(em), d[2]>>) =>
              /\ Ladder(Front(e), Front(em), et, Front(p), d2)
              /\ Ladder(Append(r, "map"), Append(rm, d[1]), rt, Append(f, d), d2)
         /\ (Last(e) # "map" /\ d2 = <<d[1], Last(et)>>) =>
              /\ Ladder(Front(e), em, Front(et), Front(p), d2)
              /\ Ladder(Append(r, "semantic"), rm, Append(rt, d[2]), Append(f, d), d2)
         /\ Last(e) = "map" => em # <<>>
         /\ p # <<>>
         /\ Len(Front(e)) + Len(Append(r, "map")) = Len(e) + Len(r)
         /\ Len(Front(e)) + Len(Append(r, "semantic")) = Len(e) + Len(r)
<1>1. /\ p # <<>>
      /\ Last(e) = "map" =>
           /\ em # <<>> /\ Last(p) = <<Last(em), d[2]>>
           /\ Ladder(Front(e), Front(em), et, Front(p), Last(p))
      /\ Last(e) # "map" =>
           /\ et # <<>> /\ Last(p) = <<d[1], Last(et)>>
           /\ Ladder(Front(e), em, Front(et), Front(p), Last(p))
  BY LadderLess
<1>2. /\ d2[2] = d[2] => Ladder(Append(r, "map"), Append(rm, d[1]), rt, Append(f, d), d2)
      /\ d2[1] = d[1] => Ladder(Append(r, "semantic"), rm, Append(rt, d[2]), Append(f, d), d2)
  BY LadderMore
<1>3. /\ Len(Front(e)) = Len(e) - 1 /\ Len(e) \in Nat /\ Len(r) \in Nat
      /\ Len(Append(r, "map")) = Len(r) + 1 /\ Len(Append(r, "semantic")) = Len(r) + 1
  <2>1. e \in Seq(Part) /\ r \in Seq(Part) /\ "map" \in Part /\ "semantic" \in Part
    BY DEF LadderTypes, Part
  <2>2. QED
    BY <2>1, FrontOf, AppendOf
<1>4. /\ Len(Front(e)) + Len(Append(r, "map")) = Len(e) + Len(r)
      /\ Len(Front(e)) + Len(Append(r, "semantic")) = Len(e) + Len(r)
  BY <1>3
<1>5. ASSUME Last(e) = "map", d2 = <<Last(em), d[2]>>
      PROVE  /\ Ladder(Front(e), Front(em), et, Front(p), d2)
             /\ Ladder(Append(r, "map"), Append(rm, d[1]), rt, Append(f, d), d2)
  BY <1>1, <1>2, <1>5
<1>6. ASSUME Last(e) # "map", d2 = <<d[1], Last(et)>>
      PROVE  /\ Ladder(Front(e), em, Front(et), Front(p), d2)
             /\ Ladder(Append(r, "semantic"), rm, Append(rt, d[2]), Append(f, d), d2)
  BY <1>1, <1>2, <1>6
<1>7. QED
  BY <1>1, <1>4, <1>5, <1>6

LEMMA HistoryTypeStep == HistoryTypeOK /\ [HistoryNext]_historyVars => HistoryTypeOK'
<1> SUFFICES ASSUME HistoryTypeOK, [HistoryNext]_historyVars PROVE HistoryTypeOK'
  OBVIOUS
<1> USE DEF HistoryTypeOK
<1>0. /\ "map" \in Part /\ "semantic" \in Part /\ document \in Document
      /\ \A S : <<>> \in Seq(S)
  BY EmptySeq DEF Part, document, Document
<1>1. CASE Press
  <2>1. /\ picture' \in Pictures /\ begun' = document /\ stroke' = [held |-> TRUE, started |-> TRUE]
        /\ UNCHANGED <<task, stacks, editTimeline, redoTimeline, past, future, astray, unkept>>
        /\ before' = IF InStroke THEN before ELSE {picture}
    BY <1>1 DEF Press
  <2>2. before' \subseteq Pictures
    BY <2>1
  <2>3. QED
    BY <1>0, <2>1, <2>2
<1>2. CASE Paint
  <2>1. /\ picture' \in Pictures
        /\ UNCHANGED <<task, stroke, before, stacks, editTimeline, redoTimeline, begun, astray>>
    BY <1>2 DEF Paint
  <2>2. past' \in Seq(Document) /\ future' \in Seq(Document) /\ unkept' \in BOOLEAN
    <3>1. Push(past, document) \in Seq(Document)
      BY <1>0, ShorterOf
    <3>2. QED
      BY <1>0, <1>2, <3>1 DEF Paint
  <2>3. QED
    BY <2>1, <2>2
<1>3. CASE Release
  <2>1. stroke' = NoStroke /\ UNCHANGED <<task, begun, astray, unkept>>
    BY <1>3 DEF Release
  <2>2. CASE ~stroke.started
    BY <1>3, <2>1, <2>2 DEF Release, NoStroke
  <2>3. CASE stroke.started
    <3>1. picture' \in Pictures /\ before' = {}
      BY <1>3, <2>3 DEF Release, CommitStroke
    <3>2. CASE UNCHANGED <<stacks, editTimeline, redoTimeline, past, future>>
      BY <2>1, <3>1, <3>2 DEF NoStroke
    <3>3. CASE ~UNCHANGED <<stacks, editTimeline, redoTimeline, past, future>>
      <4>1. PICK snapshot \in before :
              /\ stacks' = [stacks EXCEPT !.mapUndo = Push(@, snapshot), !.mapRedo = <<>>]
              /\ RecordEditDomain("map") /\ past' = Push(past, begun) /\ future' = <<>>
        BY <1>3, <2>3, <3>3 DEF Release, CommitStroke
      <4>2. Push(stacks.mapUndo, snapshot) \in Seq(Pictures) /\ past' \in Seq(Document)
        BY <4>1, ShorterOf
      <4>3. editTimeline' \in Seq(Part) /\ redoTimeline' \in Seq(Part) /\ future' \in Seq(Document)
        BY <1>0, <4>1, ShorterOf DEF RecordEditDomain
      <4>4. stacks' \in StackRecords
        BY <1>0, <4>1, <4>2 DEF StackRecords
      <4>5. QED
        BY <2>1, <3>1, <4>2, <4>3, <4>4 DEF NoStroke, StackRecords
    <3>4. QED
      BY <3>2, <3>3
  <2>4. QED
    BY <2>2, <2>3
<1>4. CASE CancelDrawing
  BY <1>4 DEF CancelDrawing
<1>5. CASE EditTask
  <2>1. /\ task' \in Tasks /\ UNCHANGED <<picture, stroke, before, begun, unkept>>
        /\ stacks' = [stacks EXCEPT !.taskUndo = Push(@, task), !.taskRedo = <<>>]
        /\ RecordEditDomain("semantic") /\ past' = Push(past, document) /\ future' = <<>>
    BY <1>5 DEF EditTask
  <2>2. Push(stacks.taskUndo, task) \in Seq(Tasks) /\ past' \in Seq(Document)
    BY <1>0, <2>1, ShorterOf
  <2>3. editTimeline' \in Seq(Part) /\ redoTimeline' \in Seq(Part) /\ future' \in Seq(Document)
    BY <1>0, <2>1, ShorterOf DEF RecordEditDomain
  <2>4. stacks' \in StackRecords
    BY <1>0, <2>1, <2>2 DEF StackRecords
  <2>5. astray' \in BOOLEAN
    BY Zenon, <1>5 DEF EditTask, InStroke
  <2>6. QED
    BY <2>1, <2>2, <2>3, <2>4, <2>5 DEF StackRecords
<1>6. CASE Undo
  <2>1. /\ past' = Rest(past) /\ future' = Append(future, document)
        /\ UNCHANGED <<stroke, before, begun, unkept>>
    BY <1>6 DEF Undo
  <2>2. past' \in Seq(Document) /\ future' \in Seq(Document)
    BY <1>0, <2>1, ShorterOf
  <2>3. astray' \in BOOLEAN
    BY Zenon, <1>6 DEF Undo, InStroke
  <2>4. CASE UndoMap
    <3>1. /\ stacks.mapUndo # <<>> /\ picture' = Last(stacks.mapUndo) /\ UNCHANGED task
          /\ stacks' = [stacks EXCEPT !.mapUndo = Front(@), !.mapRedo = Append(@, picture)]
          /\ editTimeline' = Rest(editTimeline) /\ redoTimeline' = Append(redoTimeline, "map")
      BY <2>4 DEF UndoMap
    <3>2. /\ Front(stacks.mapUndo) \in Seq(Pictures) /\ picture' \in Pictures
          /\ Append(stacks.mapRedo, picture) \in Seq(Pictures)
      BY <3>1, ShorterOf
    <3>3. editTimeline' \in Seq(Part) /\ redoTimeline' \in Seq(Part)
      BY <1>0, <3>1, ShorterOf
    <3>4. stacks' \in StackRecords
      BY <3>1, <3>2 DEF StackRecords
    <3>5. QED
      BY <2>1, <2>2, <2>3, <3>1, <3>2, <3>3, <3>4 DEF StackRecords
  <2>5. CASE UndoTask
    <3>1. /\ stacks.taskUndo # <<>> /\ task' = Last(stacks.taskUndo) /\ UNCHANGED picture
          /\ stacks' = [stacks EXCEPT !.taskUndo = Front(@), !.taskRedo = Append(@, task)]
          /\ editTimeline' = Rest(editTimeline) /\ redoTimeline' = Append(redoTimeline, "semantic")
      BY <2>5 DEF UndoTask
    <3>2. /\ Front(stacks.taskUndo) \in Seq(Tasks) /\ task' \in Tasks
          /\ Append(stacks.taskRedo, task) \in Seq(Tasks)
      BY <3>1, ShorterOf
    <3>3. editTimeline' \in Seq(Part) /\ redoTimeline' \in Seq(Part)
      BY <1>0, <3>1, ShorterOf
    <3>4. stacks' \in StackRecords
      BY <3>1, <3>2 DEF StackRecords
    <3>5. QED
      BY <2>1, <2>2, <2>3, <3>1, <3>2, <3>3, <3>4 DEF StackRecords
  <2>6. QED
    BY <1>6, <2>4, <2>5 DEF Undo
<1>7. CASE Redo
  <2>1. /\ future' = Rest(future) /\ past' = Append(past, document)
        /\ UNCHANGED <<stroke, before, begun, unkept>>
    BY <1>7 DEF Redo
  <2>2. past' \in Seq(Document) /\ future' \in Seq(Document)
    BY <1>0, <2>1, ShorterOf
  <2>3. astray' \in BOOLEAN
    BY Zenon, <1>7 DEF Redo, InStroke
  <2>4. CASE RedoMap
    <3>1. /\ stacks.mapRedo # <<>> /\ picture' = Last(stacks.mapRedo) /\ UNCHANGED task
          /\ stacks' = [stacks EXCEPT !.mapRedo = Front(@), !.mapUndo = Append(@, picture)]
          /\ redoTimeline' = Rest(redoTimeline) /\ editTimeline' = Append(editTimeline, "map")
      BY <2>4 DEF RedoMap
    <3>2. /\ Front(stacks.mapRedo) \in Seq(Pictures) /\ picture' \in Pictures
          /\ Append(stacks.mapUndo, picture) \in Seq(Pictures)
      BY <3>1, ShorterOf
    <3>3. editTimeline' \in Seq(Part) /\ redoTimeline' \in Seq(Part)
      BY <1>0, <3>1, ShorterOf
    <3>4. stacks' \in StackRecords
      BY <3>1, <3>2 DEF StackRecords
    <3>5. QED
      BY <2>1, <2>2, <2>3, <3>1, <3>2, <3>3, <3>4 DEF StackRecords
  <2>5. CASE RedoTask
    <3>1. /\ stacks.taskRedo # <<>> /\ task' = Last(stacks.taskRedo) /\ UNCHANGED picture
          /\ stacks' = [stacks EXCEPT !.taskRedo = Front(@), !.taskUndo = Append(@, task)]
          /\ redoTimeline' = Rest(redoTimeline) /\ editTimeline' = Append(editTimeline, "semantic")
      BY <2>5 DEF RedoTask
    <3>2. /\ Front(stacks.taskRedo) \in Seq(Tasks) /\ task' \in Tasks
          /\ Append(stacks.taskUndo, task) \in Seq(Tasks)
      BY <3>1, ShorterOf
    <3>3. editTimeline' \in Seq(Part) /\ redoTimeline' \in Seq(Part)
      BY <1>0, <3>1, ShorterOf
    <3>4. stacks' \in StackRecords
      BY <3>1, <3>2 DEF StackRecords
    <3>5. QED
      BY <2>1, <2>2, <2>3, <3>1, <3>2, <3>3, <3>4 DEF StackRecords
  <2>6. QED
    BY <1>7, <2>4, <2>5 DEF Redo
<1>8. CASE OpenDocument
  <2>1. /\ picture' \in Pictures /\ task' \in Tasks /\ begun' = <<picture', task'>>
        /\ stroke' = NoStroke /\ before' = {} /\ stacks' = NoStacks
        /\ astray' = FALSE /\ unkept' = FALSE
        /\ editTimeline' = <<>> /\ redoTimeline' = <<>> /\ past' = <<>> /\ future' = <<>>
    BY <1>8 DEF OpenDocument, document
  <2>2. stacks' \in StackRecords
    BY <1>0, <2>1 DEF StackRecords, NoStacks
  <2>3. QED
    BY <1>0, <2>1, <2>2 DEF StackRecords, NoStroke, Document
<1>9. CASE UNCHANGED historyVars
  BY <1>9 DEF historyVars
<1>10. CASE PressOutside
  BY <1>0, <1>10 DEF PressOutside
<1>11. QED
  BY <1>1, <1>2, <1>3, <1>4, <1>5, <1>6, <1>7, <1>8, <1>9, <1>10 DEF HistoryNext

LEMMA HistoryInvStep == HistoryInv /\ [HistoryNext]_historyVars => HistoryInv'
<1> SUFFICES ASSUME HistoryInv, [HistoryNext]_historyVars PROVE HistoryInv'
  OBVIOUS
<1>0. HistoryTypeOK /\ HistoryTypeOK'
  BY HistoryTypeStep DEF HistoryInv
<1>n. SUFFICES ASSUME ~astray', ~unkept'
               PROVE  /\ Ladders(editTimeline', redoTimeline', stacks', past', future', Base')
                      /\ Strokes'
  BY Zenon, <1>0 DEF HistoryInv, Ladders, Strokes
<1>a. ASSUME ~astray, ~unkept
      PROVE  /\ Ladders(editTimeline, redoTimeline, stacks, past, future, Base)
             /\ Strokes
  BY <1>a, HistoryInvParts
<1>b. /\ document \in Document /\ document' \in Document /\ begun \in Document /\ stacks \in StackRecords
      /\ document = <<picture, task>> /\ document' = <<picture', task'>>
      /\ document[1] = picture /\ document[2] = task
      /\ document'[1] = picture' /\ document'[2] = task'
      /\ "map" \in Part /\ "semantic" \in Part
  BY <1>0 DEF document, Document, HistoryTypeOK, Part, StackRecords
<1>t. ASSUME NEW d \in Document
      PROVE  /\ LadderTypes(editTimeline, stacks.mapUndo, stacks.taskUndo, past, d)
             /\ LadderTypes(redoTimeline, stacks.mapRedo, stacks.taskRedo, future, d)
             /\ Len(editTimeline) \in Nat /\ Len(redoTimeline) \in Nat
  BY <1>0 DEF LadderTypes, HistoryTypeOK
<1>1. CASE Press
  <2>1. /\ ~stroke.held /\ stroke' = [held |-> TRUE, started |-> TRUE] /\ begun' = document
        /\ before' = (IF InStroke THEN before ELSE {picture})
        /\ UNCHANGED <<task, stacks, editTimeline, redoTimeline, past, future, astray, unkept>>
    BY <1>1 DEF Press
  <2>2. ~InStroke /\ Base = document
    BY <1>a, <1>n, <2>1 DEF Strokes, Base
  <2>3. before' = {picture} /\ InStroke'
    BY <2>1, <2>2 DEF InStroke
  <2>4. Base' = Base
    BY <2>1, <2>2, <2>3 DEF Base
  <2>5. Strokes'
    <3>1. /\ stroke'.held = TRUE /\ stroke'.started = TRUE /\ InStroke' = TRUE
          /\ begun'[1] = picture /\ begun'[2] = task'
      BY <1>b, <2>1, <2>3 DEF InStroke
    <3>2. QED
      BY Zenon, <2>3, <3>1 DEF Strokes
  <2>6. QED
    BY <1>a, <1>n, <2>1, <2>4, <2>5
<1>2. CASE Paint
  <2>1. /\ InStroke \/ picture' = picture
        /\ UNCHANGED <<task, stroke, before, stacks, editTimeline, redoTimeline>>
        /\ UNCHANGED <<past, future, begun, astray, unkept>>
    BY <1>2, <1>n DEF Paint
  <2>2. InStroke' = InStroke
    BY <2>1 DEF InStroke
  <2>3. Base' = Base
    BY <1>b, <2>1, <2>2 DEF Base
  <2>4. Strokes'
    BY <1>a, <1>n, <2>1 DEF Strokes, InStroke
  <2>5. QED
    BY <1>a, <1>n, <2>1, <2>3, <2>4
<1>3. CASE Release
  <2>1. stroke.held /\ stroke' = NoStroke /\ UNCHANGED <<task, begun, astray, unkept>>
    BY <1>3 DEF Release
  <2>u. CASE ~stroke.started
    <3>1. UNCHANGED <<picture, before, stacks, editTimeline, redoTimeline, past, future>>
      BY <1>3, <2>u DEF Release
    <3>2. ~InStroke /\ ~InStroke'
      BY <1>a, <1>n, <2>1, <2>u, <3>1 DEF Strokes, InStroke
    <3>3. Base' = Base
      BY <1>b, <2>1, <3>1, <3>2 DEF Base
    <3>4. stroke'.held = FALSE /\ stroke'.started = FALSE /\ InStroke' = FALSE
      BY <2>1, <3>2 DEF NoStroke, InStroke
    <3>5. Strokes'
      BY Zenon, <3>4 DEF Strokes
    <3>6. QED
      BY <1>a, <1>n, <2>1, <3>1, <3>3, <3>5
  <2>p. SUFFICES ASSUME stroke.started
                 PROVE  /\ Ladders(editTimeline', redoTimeline', stacks', past', future', Base')
                        /\ Strokes'
    BY <2>u
  <2>2. stroke.started /\ InStroke /\ before = {begun[1]} /\ task = begun[2]
    BY <1>a, <1>n, <2>1, <2>p DEF Strokes
  <2>3. CommitStroke(picture') /\ before' = {}
    BY <1>3, <2>2 DEF Release, CommitStroke
  <2>4. ~InStroke' /\ Base = begun /\ Base' = document'
    BY <2>2, <2>3 DEF InStroke, Base
  <2>5. Strokes'
    <3>1. stroke'.held = FALSE /\ stroke'.started = FALSE /\ InStroke' = FALSE
      BY <2>1, <2>3 DEF NoStroke, InStroke
    <3>2. QED
      BY Zenon, <3>1 DEF Strokes
  <2>6. Ladders(editTimeline, redoTimeline, stacks, past, future, begun)
    BY <1>a, <1>n, <2>1, <2>4
  <2>7. CASE before = {picture'}
    <3>1. UNCHANGED <<stacks, editTimeline, redoTimeline, past, future>>
      BY <2>3, <2>7 DEF CommitStroke
    <3>2. picture' = begun[1] /\ begun = <<begun[1], begun[2]>>
      BY <1>b, <2>2, <2>7 DEF Document
    <3>3. document' = begun
      BY <1>b, <2>1, <2>2, <3>2
    <3>4. QED
      BY <2>4, <2>5, <2>6, <3>1, <3>3
  <2>8. CASE before # {picture'}
    <3>1. PICK snapshot \in before :
            stacks' = [stacks EXCEPT !.mapUndo = Push(@, snapshot), !.mapRedo = <<>>]
      BY <2>3, <2>8 DEF CommitStroke
    <3>2. snapshot = begun[1]
      BY <2>2
    <3>3. /\ editTimeline' = Push(editTimeline, "map") /\ redoTimeline' = <<>>
          /\ past' = Push(past, begun) /\ future' = <<>>
      BY <2>3, <2>8 DEF CommitStroke, RecordEditDomain
    <3>4. document'[2] = begun[2]
      BY <1>b, <2>1, <2>2
    <3>5. Ladders(Push(editTimeline, "map"), <<>>, stacks', Push(past, begun), <<>>, document')
      BY <1>0, <1>b, <2>6, <3>1, <3>2, <3>4, Edited
    <3>6. QED
      BY <2>4, <2>5, <3>3, <3>5
  <2>9. QED
    BY <2>7, <2>8
<1>4. CASE CancelDrawing
  BY <1>4, <1>n DEF CancelDrawing
<1>5. CASE EditTask
  <2>1. /\ UNCHANGED <<picture, stroke, before, begun, unkept>>
        /\ stacks' = [stacks EXCEPT !.taskUndo = Push(@, task), !.taskRedo = <<>>]
        /\ editTimeline' = Push(editTimeline, "semantic") /\ redoTimeline' = <<>>
        /\ past' = Push(past, document) /\ future' = <<>>
    BY <1>5 DEF EditTask, RecordEditDomain
  <2>u. ~unkept
    BY <1>n, <2>1
  <2>2. ~astray /\ ~InStroke
    BY Zenon, <1>5, <1>n DEF EditTask
  <2>3. ~InStroke' /\ Base = document /\ Base' = document'
    BY <2>1, <2>2 DEF InStroke, Base
  <2>4. Strokes'
    BY Zenon, <1>a, <2>1, <2>u, <2>2, <2>3 DEF Strokes, InStroke
  <2>5. Ladders(Push(editTimeline, "semantic"), <<>>, stacks', Push(past, document), <<>>, document')
    <3>1. document'[1] = document[1]
      BY <1>b, <2>1
    <3>2. Ladders(editTimeline, redoTimeline, stacks, past, future, document)
      BY <1>a, <2>u, <2>2, <2>3
    <3>3. stacks' = [stacks EXCEPT !.taskUndo = Push(@, document[2]), !.taskRedo = <<>>]
      BY <1>b, <2>1
    <3>4. QED
      BY <1>0, <1>b, <3>1, <3>2, <3>3, Edited
  <2>6. QED
    BY <2>1, <2>3, <2>4, <2>5
<1>6. CASE Undo
  <2>1. /\ past' = Rest(past) /\ future' = Append(future, document)
        /\ UNCHANGED <<stroke, before, begun, unkept>>
    BY <1>6 DEF Undo
  <2>u. ~unkept
    BY <1>n, <2>1
  <2>2. ~astray /\ ~InStroke /\ editTimeline # <<>>
    BY Zenon, <1>6, <1>n DEF Undo
  <2>3. ~InStroke' /\ Base = document /\ Base' = document'
    BY <2>1, <2>2 DEF InStroke, Base
  <2>4. Strokes'
    BY Zenon, <1>a, <2>1, <2>u, <2>2, <2>3 DEF Strokes, InStroke
  <2>5. Ladders(editTimeline, redoTimeline, stacks, past, future, document)
    BY <1>a, <2>u, <2>2, <2>3
  <2>6. /\ LadderTypes(editTimeline, stacks.mapUndo, stacks.taskUndo, past, document)
        /\ Ladder(editTimeline, stacks.mapUndo, stacks.taskUndo, past, document)
        /\ LadderTypes(redoTimeline, stacks.mapRedo, stacks.taskRedo, future, document)
        /\ Ladder(redoTimeline, stacks.mapRedo, stacks.taskRedo, future, document)
        /\ Len(editTimeline) + Len(redoTimeline) <= Limit
    BY <1>b, <1>t, <2>5 DEF Ladders
  <2>7. Domain(editTimeline) = Last(editTimeline) /\ Rest(editTimeline) = Front(editTimeline)
    BY <2>2 DEF Domain, Rest
  <2>8. past # <<>> /\ (Last(editTimeline) = "map" => stacks.mapUndo # <<>>)
    BY <1>b, <2>2, <2>6, Moved
  <2>9. past' = Front(past)
    BY <2>1, <2>8 DEF Rest
  <2>10. CASE UndoMap
    <3>1. /\ Last(editTimeline) = "map" /\ picture' = Last(stacks.mapUndo) /\ task' = task
          /\ stacks' = [stacks EXCEPT !.mapUndo = Front(@), !.mapRedo = Append(@, picture)]
          /\ editTimeline' = Front(editTimeline) /\ redoTimeline' = Append(redoTimeline, "map")
      BY <2>7, <2>10 DEF UndoMap
    <3>2. document' = <<Last(stacks.mapUndo), document[2]>>
      BY <1>b, <3>1
    <3>3. /\ Ladder(editTimeline', Front(stacks.mapUndo), stacks.taskUndo, past', document')
          /\ Ladder(redoTimeline', Append(stacks.mapRedo, document[1]), stacks.taskRedo, future', document')
          /\ Len(editTimeline') + Len(redoTimeline') <= Limit
      <4>1. document \in Document /\ document' \in Document /\ future' = Append(future, document)
        BY <1>b, <2>1
      <4>2. Len(editTimeline') + Len(redoTimeline') <= Limit
        BY <2>2, <2>6, <3>1, <4>1, Moved
      <4>3. /\ Ladder(editTimeline', Front(stacks.mapUndo), stacks.taskUndo, past', document')
            /\ Ladder(redoTimeline', Append(stacks.mapRedo, document[1]), stacks.taskRedo, future', document')
        BY <2>2, <2>6, <2>9, <3>1, <3>2, <4>1, Moved
      <4>4. QED
        BY <4>2, <4>3
    <3>4. /\ stacks'.mapUndo = Front(stacks.mapUndo) /\ stacks'.taskUndo = stacks.taskUndo
          /\ stacks'.mapRedo = Append(stacks.mapRedo, document[1]) /\ stacks'.taskRedo = stacks.taskRedo
      BY <1>b, <3>1 DEF StackRecords
    <3>5. QED
      BY <2>3, <2>4, <3>3, <3>4 DEF Ladders
  <2>11. CASE UndoTask
    <3>1. /\ Last(editTimeline) # "map" /\ task' = Last(stacks.taskUndo) /\ picture' = picture
          /\ stacks' = [stacks EXCEPT !.taskUndo = Front(@), !.taskRedo = Append(@, task)]
          /\ editTimeline' = Front(editTimeline) /\ redoTimeline' = Append(redoTimeline, "semantic")
      BY <2>7, <2>8, <2>11 DEF UndoTask
    <3>2. document' = <<document[1], Last(stacks.taskUndo)>>
      BY <1>b, <3>1
    <3>3. /\ Ladder(editTimeline', stacks.mapUndo, Front(stacks.taskUndo), past', document')
          /\ Ladder(redoTimeline', stacks.mapRedo, Append(stacks.taskRedo, document[2]), future', document')
          /\ Len(editTimeline') + Len(redoTimeline') <= Limit
      <4>1. document \in Document /\ document' \in Document /\ future' = Append(future, document)
        BY <1>b, <2>1
      <4>2. Len(editTimeline') + Len(redoTimeline') <= Limit
        BY <2>2, <2>6, <3>1, <4>1, Moved
      <4>3. /\ Ladder(editTimeline', stacks.mapUndo, Front(stacks.taskUndo), past', document')
            /\ Ladder(redoTimeline', stacks.mapRedo, Append(stacks.taskRedo, document[2]), future', document')
        BY <2>2, <2>6, <2>9, <3>1, <3>2, <4>1, Moved
      <4>4. QED
        BY <4>2, <4>3
    <3>4. /\ stacks'.mapUndo = stacks.mapUndo /\ stacks'.taskUndo = Front(stacks.taskUndo)
          /\ stacks'.mapRedo = stacks.mapRedo /\ stacks'.taskRedo = Append(stacks.taskRedo, document[2])
      BY <1>b, <3>1 DEF StackRecords
    <3>5. QED
      BY <2>3, <2>4, <3>3, <3>4 DEF Ladders
  <2>12. QED
    BY <1>6, <2>10, <2>11 DEF Undo
<1>7. CASE Redo
  <2>1. /\ future' = Rest(future) /\ past' = Append(past, document)
        /\ UNCHANGED <<stroke, before, begun, unkept>>
    BY <1>7 DEF Redo
  <2>u. ~unkept
    BY <1>n, <2>1
  <2>2. ~astray /\ ~InStroke /\ redoTimeline # <<>>
    BY Zenon, <1>7, <1>n DEF Redo
  <2>3. ~InStroke' /\ Base = document /\ Base' = document'
    BY <2>1, <2>2 DEF InStroke, Base
  <2>4. Strokes'
    BY Zenon, <1>a, <2>1, <2>u, <2>2, <2>3 DEF Strokes, InStroke
  <2>5. Ladders(editTimeline, redoTimeline, stacks, past, future, document)
    BY <1>a, <2>u, <2>2, <2>3
  <2>6. /\ LadderTypes(editTimeline, stacks.mapUndo, stacks.taskUndo, past, document)
        /\ Ladder(editTimeline, stacks.mapUndo, stacks.taskUndo, past, document)
        /\ LadderTypes(redoTimeline, stacks.mapRedo, stacks.taskRedo, future, document)
        /\ Ladder(redoTimeline, stacks.mapRedo, stacks.taskRedo, future, document)
        /\ Len(editTimeline) + Len(redoTimeline) <= Limit
        /\ Len(editTimeline) \in Nat /\ Len(redoTimeline) \in Nat
    BY <1>b, <1>t, <2>5 DEF Ladders
  <2>7. Domain(redoTimeline) = Last(redoTimeline) /\ Rest(redoTimeline) = Front(redoTimeline)
    BY <2>2 DEF Domain, Rest
  <2>8. future # <<>> /\ (Last(redoTimeline) = "map" => stacks.mapRedo # <<>>)
    BY <1>b, <2>2, <2>6, Moved
  <2>9. future' = Front(future)
    BY <2>1, <2>8 DEF Rest
  <2>s. ASSUME NEW a \in Part
        PROVE  Len(Append(editTimeline, a)) + Len(Front(redoTimeline)) <= Limit
    <3>1. /\ Len(Append(editTimeline, a)) = Len(editTimeline) + 1
          /\ Len(Front(redoTimeline)) = Len(redoTimeline) - 1
      <4>1. editTimeline \in Seq(Part) /\ redoTimeline \in Seq(Part)
        BY <1>0 DEF HistoryTypeOK
      <4>2. QED
        BY <2>2, <4>1, AppendOf, FrontOf
    <3>2. QED
      BY <2>6, <3>1, HistoryAssumption
  <2>10. CASE RedoMap
    <3>1. /\ Last(redoTimeline) = "map" /\ picture' = Last(stacks.mapRedo) /\ task' = task
          /\ stacks' = [stacks EXCEPT !.mapRedo = Front(@), !.mapUndo = Append(@, picture)]
          /\ redoTimeline' = Front(redoTimeline) /\ editTimeline' = Append(editTimeline, "map")
      BY <2>7, <2>10 DEF RedoMap
    <3>2. document' = <<Last(stacks.mapRedo), document[2]>>
      BY <1>b, <3>1
    <3>3. /\ Ladder(redoTimeline', Front(stacks.mapRedo), stacks.taskRedo, future', document')
          /\ Ladder(editTimeline', Append(stacks.mapUndo, document[1]), stacks.taskUndo, past', document')
      BY <1>b, <2>1, <2>2, <2>6, <2>9, <3>1, <3>2, Moved
    <3>4. /\ stacks'.mapRedo = Front(stacks.mapRedo) /\ stacks'.taskRedo = stacks.taskRedo
          /\ stacks'.mapUndo = Append(stacks.mapUndo, document[1]) /\ stacks'.taskUndo = stacks.taskUndo
      BY <1>b, <3>1 DEF StackRecords
    <3>5. Len(editTimeline') + Len(redoTimeline') <= Limit
      BY <1>b, <2>s, <3>1
    <3>6. QED
      BY <2>3, <2>4, <3>3, <3>4, <3>5 DEF Ladders
  <2>11. CASE RedoTask
    <3>1. /\ Last(redoTimeline) # "map" /\ task' = Last(stacks.taskRedo) /\ picture' = picture
          /\ stacks' = [stacks EXCEPT !.taskRedo = Front(@), !.taskUndo = Append(@, task)]
          /\ redoTimeline' = Front(redoTimeline) /\ editTimeline' = Append(editTimeline, "semantic")
      BY <2>7, <2>8, <2>11 DEF RedoTask
    <3>2. document' = <<document[1], Last(stacks.taskRedo)>>
      BY <1>b, <3>1
    <3>3. /\ Ladder(redoTimeline', stacks.mapRedo, Front(stacks.taskRedo), future', document')
          /\ Ladder(editTimeline', stacks.mapUndo, Append(stacks.taskUndo, document[2]), past', document')
      BY <1>b, <2>1, <2>2, <2>6, <2>9, <3>1, <3>2, Moved
    <3>4. /\ stacks'.mapRedo = stacks.mapRedo /\ stacks'.taskRedo = Front(stacks.taskRedo)
          /\ stacks'.mapUndo = stacks.mapUndo /\ stacks'.taskUndo = Append(stacks.taskUndo, document[2])
      BY <1>b, <3>1 DEF StackRecords
    <3>5. Len(editTimeline') + Len(redoTimeline') <= Limit
      BY <1>b, <2>s, <3>1
    <3>6. QED
      BY <2>3, <2>4, <3>3, <3>4, <3>5 DEF Ladders
  <2>12. QED
    BY <1>7, <2>10, <2>11 DEF Redo
<1>8. CASE OpenDocument
  <2>1. /\ stroke' = NoStroke /\ before' = {} /\ stacks' = NoStacks
        /\ editTimeline' = <<>> /\ redoTimeline' = <<>> /\ past' = <<>> /\ future' = <<>>
    BY <1>8 DEF OpenDocument
  <2>2. Strokes'
    BY <2>1 DEF Strokes, InStroke, NoStroke
  <2>3. QED
    BY <2>1, <2>2, HistoryAssumption, NewDocument
<1>9. CASE UNCHANGED historyVars
  <2>1. /\ UNCHANGED <<picture, task, stroke, before, stacks, editTimeline, redoTimeline>>
        /\ UNCHANGED <<past, future, begun, astray, unkept>>
    BY <1>9 DEF historyVars
  <2>2. Base' = Base /\ Strokes' = Strokes
    BY <2>1 DEF Base, Strokes, InStroke, document
  <2>3. QED
    BY <1>a, <1>n, <2>1, <2>2
<1>10. CASE PressOutside
  <2>1. /\ ~stroke.held /\ stroke' = [held |-> TRUE, started |-> FALSE]
        /\ UNCHANGED <<picture, task, before, stacks, editTimeline, redoTimeline>>
        /\ UNCHANGED <<past, future, astray, unkept>>
    BY <1>10 DEF PressOutside
  <2>2. ~InStroke /\ ~InStroke'
    BY <1>a, <1>n, <2>1 DEF Strokes, InStroke
  <2>3. Base' = Base
    BY <1>b, <2>1, <2>2 DEF Base
  <2>4. stroke'.held = TRUE /\ stroke'.started = FALSE /\ InStroke' = FALSE
    BY <2>1, <2>2 DEF InStroke
  <2>5. Strokes'
    BY Zenon, <2>4 DEF Strokes
  <2>6. QED
    BY <1>a, <1>n, <2>1, <2>3, <2>5
<1>11. QED
  BY <1>1, <1>2, <1>3, <1>4, <1>5, <1>6, <1>7, <1>8, <1>9, <1>10 DEF HistoryNext

LEMMA HistoryInvImplies == HistoryInv => HistoryIsTrue
<1> SUFFICES ASSUME HistoryInv, ~astray, ~unkept, ~InStroke
             PROVE  /\ editTimeline # <<>> =>
                         Given(editTimeline, stacks.mapUndo, stacks.taskUndo) \cap Top(past) # {}
                    /\ redoTimeline # <<>> =>
                         Given(redoTimeline, stacks.mapRedo, stacks.taskRedo) \cap Top(future) # {}
  BY DEF HistoryIsTrue
<1>1. /\ HistoryTypeOK /\ Base = document
      /\ Ladder(editTimeline, stacks.mapUndo, stacks.taskUndo, past, document)
      /\ Ladder(redoTimeline, stacks.mapRedo, stacks.taskRedo, future, document)
  BY HistoryInvParts DEF Ladders, Base
<1>2. /\ LadderTypes(editTimeline, stacks.mapUndo, stacks.taskUndo, past, document)
      /\ LadderTypes(redoTimeline, stacks.mapRedo, stacks.taskRedo, future, document)
      /\ document = <<picture, task>> /\ document[1] = picture /\ document[2] = task
  BY <1>1 DEF HistoryTypeOK, LadderTypes, document, Document
<1>3. ASSUME NEW tl, NEW ms, NEW ts, NEW ds, tl # <<>>,
             LadderTypes(tl, ms, ts, ds, document), Ladder(tl, ms, ts, ds, document)
      PROVE  Given(tl, ms, ts) \cap Top(ds) # {}
  <2>1. /\ ds # <<>>
        /\ Last(tl) = "map" => ms # <<>> /\ Last(ds) = <<Last(ms), document[2]>>
        /\ Last(tl) # "map" => ts # <<>> /\ Last(ds) = <<document[1], Last(ts)>>
    BY <1>3, LadderLess
  <2>2. Last(ds) \in Given(tl, ms, ts)
    BY <1>2, <2>1 DEF Given, Top
  <2>3. QED
    BY <2>1, <2>2 DEF Top
<1>4. QED
  BY <1>1, <1>2, <1>3

\* Between strokes, while none was canceled, interrupted or dragged in from outside the
\* picture, the next undo takes back exactly the last of the edits that the timelines remember, in whichever part of the document it
\* was, and the next redo repeats exactly the edit that was undone last
\* (semantic_editor_qt5.py undo, redo and _record_edit_domain).
THEOREM HistoryAlwaysTrue == HistorySpec => []HistoryIsTrue
<1>1. HistoryInit => HistoryInv
  BY HistoryInitInv
<1>2. HistoryInv /\ [HistoryNext]_historyVars => HistoryInv'
  BY HistoryInvStep
<1>3. HistoryInv => HistoryIsTrue
  BY HistoryInvImplies
<1>4. QED
  BY <1>1, <1>2, <1>3, PTL DEF HistorySpec

-----------------------------------------------------------------------------
(* The map registry.  An operation that an exception would undo counts as  *)
(* not done: the invariants are about the pointer and the manifests it     *)
(* would write back, and about how far the operation has come from them.   *)


Undoing == step \in Activation \cup {"pin", "archive"}
P == IF Undoing THEN saved.pointer ELSE pointer
M == IF Undoing THEN saved.manifest ELSE manifest

\* What the running operation relies on, crashes or not.
Shape ==
  /\ ~AtRest => target \in Versions
  /\ step \in Activation =>
       target \in index /\ files[target] = "live" /\ row[target].state = "READY"
  /\ step \in {"pin", "archive"} =>
       target \in index /\ files[target] = "live" /\ place[target] = "live"
  /\ step \in {"pointer", "pin", "archive"} => saved.pointer = pointer
  /\ step \in {"selected", "old"} => pointer = target
  /\ step = "archive" => ~row[target].active
  /\ step = "trash" => files[target] = "trash"
  /\ step = "purge" => files[target] = "gone"
  /\ step = "register" => files[target] = "live"
  /\ \A v \in index : files[v] # "none"
  /\ \A v \in index : place[v] = "trash" => row[v].state = "ARCHIVED"

\* The pointer and the index name the same active version, which is kept.
Agree ==
  /\ \A v \in Versions : (v \in index /\ row[v].active) <=> v = P
  /\ P \in Versions => files[P] = "live"

\* The manifests name it too, and the index says what they say.
Same ==
  /\ \A v \in index : files[v] = "live" => place[v] = "live" /\ row[v] = M[v]
  /\ \A v \in Versions : M[v].active <=> v = P
  /\ P \in Versions => M[P].state = "READY"

\* How far the operation has come from the manifests it began with.
Progress ==
  /\ step \in {"pointer", "selected"} =>
       manifest = saved.manifest /\ old = ActiveRows \ {target}
  /\ step = "old" =>
       /\ old \subseteq ActiveRows \ {target}
       /\ \A v \in Versions :
            /\ manifest[v].active <=> v = target \/ v \in old
            /\ manifest[v].state = saved.manifest[v].state
            /\ manifest[v].pinned = saved.manifest[v].pinned
  /\ step = "pin" => \E on \in BOOLEAN :
       manifest = [saved.manifest EXCEPT ![target].pinned = on]
  /\ step = "archive" =>
       manifest = [saved.manifest EXCEPT ![target].state = "ARCHIVED"]

IInv ==
  /\ TypeOK /\ Shape
  /\ settled \/ ~crashed => Agree
  /\ ~crashed => Same /\ Progress

Inv == TypeOK /\ Shape

-----------------------------------------------------------------------------

LEMMA InvInit == Init => IInv
<1> SUFFICES ASSUME Init PROVE IInv
  OBVIOUS
<1> USE DEF Init, Blank, NewManifest
<1>1. TypeOK
  BY DEF TypeOK, Manifest, State, Place, Step
<1>2. Shape
  BY DEF Shape, AtRest, Activation
<1>3. ~Undoing
  BY DEF Undoing, Activation
<1>4. Agree /\ Same
  BY <1>3, RegistryAssumption DEF Agree, Same, P, M
<1>5. Progress
  BY DEF Progress
<1>6. QED
  BY <1>1, <1>2, <1>4, <1>5 DEF IInv

\* The steps, one operation at a time.
Operation(v) ==
  \/ Activate(v) \/ Archive(v) \/ SoftDelete(v) \/ Purge(v) \/ Import(v) \/ Register(v)
  \/ \E on \in BOOLEAN : SetPinned(v, on)
Commit ==
  \/ CommitActivation \/ CommitPinned \/ CommitArchive \/ CommitDelete
  \/ CommitPurge \/ CommitRegister
Write == WritePointer \/ WriteSelected \/ \E u \in Versions : WriteOld(u)
Interrupted == Fails \/ FailsForGood \/ Crash

LEMMA NextCases ==
  ASSUME Next
  PROVE  (\E v \in Versions : Operation(v)) \/ Write \/ Commit \/ RebuildIndex \/ Interrupted
BY DEF Next, Operation, Write, Commit, Interrupted

LEMMA OperationShape ==
  ASSUME Inv, NEW v \in Versions, Operation(v) PROVE Inv'
<1> USE DEF Inv, Shape, Begin, AtRest, stores, Readable, Valid
<1>1. CASE Activate(v)
  <2>1. TypeOK'
    BY <1>1 DEF Activate, TypeOK, Step, Activation, ActiveRows
  <2>2. files[v] = "live"
    BY <1>1 DEF Activate, TypeOK
  <2>3. QED
    BY <1>1, <2>1, <2>2 DEF Activate, Activation
<1>2. CASE Archive(v)
  <2>1. TypeOK'
    BY <1>2, SMTT(30) DEF Archive, TypeOK, Step, Manifest, State
  <2>2. QED
    BY <1>2, <2>1 DEF Archive, Activation, TypeOK
<1>3. CASE SoftDelete(v)
  <2>1. TypeOK'
    BY <1>3 DEF SoftDelete, TypeOK, Step, Place
  <2>2. QED
    BY <1>3, <2>1 DEF SoftDelete, Activation, TypeOK
<1>4. CASE Purge(v)
  <2>1. TypeOK'
    BY <1>4 DEF Purge, TypeOK, Step, Place
  <2>2. QED
    BY <1>4, <2>1 DEF Purge, Activation, TypeOK
<1>5. CASE Import(v)
  <2>1. TypeOK'
    BY <1>5 DEF Import, TypeOK, Step, Place, NewManifest, Manifest, State
  <2>2. QED
    BY <1>5, <2>1 DEF Import, Activation, TypeOK
<1>6. CASE Register(v)
  BY <1>6 DEF Register, Activation, TypeOK, Step
<1>7. ASSUME NEW on \in BOOLEAN, SetPinned(v, on) PROVE Inv'
  <2>1. TypeOK'
    BY <1>7 DEF SetPinned, TypeOK, Step, Manifest
  <2>2. QED
    BY <1>7, <2>1 DEF SetPinned, Activation, TypeOK
<1>8. QED
  BY <1>1, <1>2, <1>3, <1>4, <1>5, <1>6, <1>7 DEF Operation

LEMMA CommitShape == ASSUME Inv, Commit PROVE Inv'
<1> USE DEF Inv, Shape, Continue, AtRest
<1>1. CASE CommitActivation
  <2>1. TypeOK'
    BY <1>1 DEF CommitActivation, CommitActive, TypeOK, Step, Manifest
  <2>2. QED
    BY <1>1, <2>1 DEF CommitActivation, CommitActive, Activation, TypeOK, Manifest
<1>2. CASE CommitPinned
  <2>1. TypeOK'
    BY <1>2 DEF CommitPinned, TypeOK, Step, Manifest
  <2>2. QED
    BY <1>2, <2>1 DEF CommitPinned, Activation, TypeOK, Manifest
<1>3. CASE CommitArchive
  <2>1. TypeOK'
    BY <1>3 DEF CommitArchive, TypeOK, Step, Manifest, State
  <2>2. QED
    BY <1>3, <2>1 DEF CommitArchive, Activation, TypeOK, Manifest
<1>4. CASE CommitDelete
  <2>1. TypeOK'
    BY <1>4 DEF CommitDelete, TypeOK, Step, Manifest, State
  <2>2. QED
    BY <1>4, <2>1 DEF CommitDelete, Activation, TypeOK, Manifest
<1>5. CASE CommitPurge
  BY <1>5 DEF CommitPurge, Activation, TypeOK, Step
<1>6. CASE CommitRegister
  <2>1. TypeOK'
    BY <1>6 DEF CommitRegister, TypeOK, Step, Activation
  <2>2. QED
    BY <1>6, <2>1 DEF CommitRegister, Activation, TypeOK
<1>7. QED
  BY <1>1, <1>2, <1>3, <1>4, <1>5, <1>6 DEF Commit

LEMMA OtherShape ==
  ASSUME Inv, Write \/ RebuildIndex \/ Interrupted PROVE Inv'
<1> USE DEF Inv, Shape, Continue, AtRest
<1>1. CASE WritePointer
  BY <1>1 DEF WritePointer, Activation, TypeOK, Step
<1>2. CASE WriteSelected
  <2>1. TypeOK'
    BY <1>2 DEF WriteSelected, TypeOK, Step, Manifest, Activation
  <2>2. QED
    BY <1>2, <2>1 DEF WriteSelected, Activation, TypeOK
<1>3. ASSUME NEW u \in Versions, WriteOld(u) PROVE Inv'
  <2>1. TypeOK'
    BY <1>3 DEF WriteOld, TypeOK, Step, Manifest, Activation
  <2>2. QED
    BY <1>3, <2>1 DEF WriteOld, Activation, TypeOK
<1>4. CASE RebuildIndex
  BY <1>4 DEF RebuildIndex, Activation, TypeOK
<1>5. CASE Fails
  BY <1>5 DEF Fails, WriteBack, Activation, TypeOK, Step
<1>6. CASE FailsForGood
  BY <1>6 DEF FailsForGood, stores, Activation, TypeOK, Step
<1>7. CASE Crash
  BY <1>7 DEF Crash, stores, Activation, TypeOK, Step
<1>8. QED
  BY <1>1, <1>2, <1>3, <1>4, <1>5, <1>6, <1>7 DEF Write, Interrupted

-----------------------------------------------------------------------------
(* The committed pointer and manifests, step by step. *)

LEMMA OperationCommitted ==
  ASSUME Inv, NEW v \in Versions, Operation(v)
  PROVE  /\ P' = P /\ P = pointer /\ M = manifest
         /\ ~Import(v) => M' = M
         /\ settled' = settled /\ crashed' = crashed
         /\ index' = index /\ row' = row /\ place' = place
<1> USE DEF Operation, Begin, AtRest, P, M, Undoing, Activation, stores
<1>1. QED
  BY DEF Activate, Archive, SoftDelete, Purge, Import, Register, SetPinned

LEMMA WriteCommitted ==
  ASSUME Inv, Write
  PROVE  P' = P /\ M' = M /\ UNCHANGED <<files, index, row, place, settled, crashed>>
BY DEF Inv, Shape, Write, WritePointer, WriteSelected, WriteOld, Continue, P, M, Undoing, Activation

\* Whatever is interrupted, the committed pointer is what is left - unless a crash
\* leaves an activation half done.
LEMMA InterruptedCommitted ==
  ASSUME Inv, Interrupted
  PROVE  /\ UNCHANGED <<files, index, row, place>>
         /\ settled' \/ ~crashed' => P' = P
         /\ settled' => settled
         /\ ~crashed' => ~crashed /\ M' = M /\ step' = "rest"
<1> USE DEF Inv, Shape, Continue, AtRest, P, M, Undoing, Activation, stores
<1>1. CASE Fails
  BY <1>1 DEF Fails, WriteBack
<1>2. CASE FailsForGood
  BY <1>2 DEF FailsForGood
<1>3. CASE Crash
  BY <1>3 DEF Crash
<1>4. QED
  BY <1>1, <1>2, <1>3 DEF Interrupted

-----------------------------------------------------------------------------
(* The pointer and the index. *)

LEMMA AgreeStep ==
  ASSUME IInv, Next, settled' \/ ~crashed' PROVE Agree'
<1> USE DEF IInv, Inv, Agree
<1>1. ASSUME NEW v \in Versions, Operation(v) PROVE Agree'
  <2>1. Agree /\ P' = P /\ index' = index /\ row' = row
    BY <1>1, OperationCommitted
  <2>2. P \in Versions => files'[P] = "live"
    <3> SUFFICES ASSUME P \in Versions PROVE files'[P] = "live"
      OBVIOUS
    <3>1. files[P] = "live" /\ P \in index /\ row[P].active
      BY <2>1
    <3>2. SoftDelete(v) => v # P
      BY <3>1 DEF SoftDelete, Protected
    <3>3. Purge(v) => v # P
      BY <3>1 DEF Purge, Readable
    <3>4. Import(v) => files' = [files EXCEPT ![v] = "live"]
      BY DEF Import
    <3>5. QED
      BY <1>1, <3>1, <3>2, <3>3, <3>4
      DEF TypeOK, Operation, Activate, Archive, SoftDelete, Purge, Register, SetPinned, stores
  <2>3. QED
    BY <2>1, <2>2
<1>2. CASE Write
  BY <1>2, WriteCommitted
<1>3. CASE CommitActivation
  <2>1. P' = target /\ target \in index /\ files[target] = "live" /\ target \in Versions
    BY <1>3 DEF CommitActivation, Continue, Shape, P, Undoing, Activation, AtRest
  <2>2. \A v \in Versions : row'[v].active <=> v = target
    BY <1>3 DEF CommitActivation, CommitActive, TypeOK, Manifest
  <2>3. index' = index /\ files' = files
    BY <1>3 DEF CommitActivation
  <2>4. QED
    BY <2>1, <2>2, <2>3
<1>4. CASE CommitPinned \/ CommitArchive \/ CommitDelete \/ CommitPurge
  <2>1. target \in Versions /\ files' = files /\ settled' = settled /\ crashed' = crashed
    BY <1>4 DEF CommitPinned, CommitArchive, CommitDelete, CommitPurge, Continue, Shape, AtRest
  <2>2. P' = P
    BY <1>4 DEF CommitPinned, CommitArchive, CommitDelete, CommitPurge, Continue, Shape, P,
                Undoing, Activation
  <2>3. \A v \in Versions : row'[v].active <=> row[v].active
    <3>1. CASE CommitPinned
      <4>1. PICK on \in BOOLEAN : row' = [row EXCEPT ![target].pinned = on]
        BY <2>1, <3>1 DEF CommitPinned, TypeOK, Manifest
      <4>2. QED
        BY <2>1, <4>1 DEF TypeOK, Manifest
    <3>2. CASE CommitArchive
      BY <2>1, <3>2 DEF CommitArchive, TypeOK, Manifest
    <3>3. CASE CommitDelete
      BY <2>1, <3>3 DEF CommitDelete, TypeOK, Manifest
    <3>4. CASE CommitPurge
      BY <3>4 DEF CommitPurge
    <3>5. QED
      BY <1>4, <3>1, <3>2, <3>3, <3>4
  <2>4. CommitPurge => target # P
    BY <2>1 DEF CommitPurge, Shape
  <2>5. \A v \in Versions : v # target \/ ~CommitPurge => (v \in index' <=> v \in index)
    BY <1>4 DEF CommitPinned, CommitArchive, CommitDelete, CommitPurge
  <2>6. CommitPurge => target \notin index'
    BY DEF CommitPurge
  <2>7. Agree
    BY <2>1
  <2>8. QED
    BY <2>1, <2>2, <2>3, <2>4, <2>5, <2>6, <2>7
<1>5. CASE CommitRegister
  <2>1. target \in Versions /\ files' = files /\ ~crashed
    BY <1>5 DEF CommitRegister, Continue, Shape, AtRest
  <2>2. P' = P /\ M = manifest
    BY <1>5 DEF CommitRegister, Continue, P, M, Undoing, Activation
  <2>3. row'[target].active <=> target = P
    BY <1>5, <2>1, <2>2 DEF CommitRegister, Same, TypeOK
  <2>4. \A v \in Versions : v # target => row'[v] = row[v] /\ (v \in index' <=> v \in index)
    BY <1>5 DEF CommitRegister, TypeOK
  <2>5. target \in index'
    BY <1>5 DEF CommitRegister
  <2>6. QED
    BY <2>1, <2>2, <2>3, <2>4, <2>5
<1>6. CASE RebuildIndex
  <2>1. ~crashed /\ P' = P /\ M = manifest /\ files' = files
    BY <1>6 DEF RebuildIndex, AtRest, P, M, Undoing, Activation
  <2>2. \A v \in Versions : v \in index' <=> files[v] = "live"
    BY <1>6 DEF RebuildIndex
  <2>3. \A v \in Versions : files[v] = "live" => row'[v] = manifest[v]
    BY <1>6 DEF RebuildIndex
  <2>4. QED
    BY <2>1, <2>2, <2>3 DEF Same
<1>7. CASE Interrupted
  BY <1>7, InterruptedCommitted
<1>8. QED
  BY <1>1, <1>2, <1>3, <1>4, <1>5, <1>6, <1>7, NextCases DEF Commit

-----------------------------------------------------------------------------
(* The manifests. *)

LEMMA OperationSame ==
  ASSUME IInv, ~crashed, NEW v \in Versions, Operation(v) PROVE Same' /\ Progress'
<1> USE DEF IInv, Inv, Same
<1>1. /\ P' = P /\ P = pointer /\ M = manifest
      /\ index' = index /\ row' = row /\ place' = place
      /\ ~Import(v) => M' = M
  BY OperationCommitted
<1>2. Same /\ Agree
  OBVIOUS
<1>3. CASE Import(v)
  <2>1. files[v] = "none" /\ v \notin index /\ v # P
    BY <1>2, <1>3 DEF Import, Shape, Agree
  <2>2. M' = manifest'
    BY <1>3 DEF Import, Begin, M, Undoing, Activation
  <2>3. manifest'[v].active = FALSE
    BY <1>3 DEF Import, NewManifest, TypeOK
  <2>4. \A u \in Versions : u # v => manifest'[u] = manifest[u] /\ files'[u] = files[u]
    BY <1>3 DEF Import, TypeOK
  <2>5. Progress'
    BY <1>3 DEF Import, Begin, Progress
  <2>6. QED
    BY <1>1, <1>2, <2>1, <2>2, <2>3, <2>4, <2>5 DEF TypeOK
<1>4. CASE ~Import(v)
  <2>1. \A u \in Versions : files'[u] = "live" => files[u] = "live"
    BY <1>4 DEF Operation, Activate, Archive, SoftDelete, Purge, Register, SetPinned, stores,
                TypeOK
  <2>2. Same'
    BY <1>1, <1>2, <1>4, <2>1 DEF TypeOK
  <2>3. Progress'
    <3>1. CASE Activate(v)
      BY <3>1 DEF Activate, Begin, Progress, stores, ActiveRows
    <3>2. CASE Archive(v)
      BY <3>2 DEF Archive, Begin, Progress
    <3>3. CASE SoftDelete(v) \/ Purge(v) \/ Register(v)
      BY <3>3 DEF SoftDelete, Purge, Register, Begin, Progress
    <3>4. ASSUME NEW on \in BOOLEAN, SetPinned(v, on) PROVE Progress'
      BY <3>4 DEF SetPinned, Begin, Progress
    <3>5. QED
      BY <1>4, <3>1, <3>2, <3>3, <3>4 DEF Operation
  <2>4. QED
    BY <2>2, <2>3
<1>5. QED
  BY <1>3, <1>4

LEMMA WriteSame ==
  ASSUME IInv, ~crashed, Write PROVE Same' /\ Progress'
<1> USE DEF IInv, Inv
<1>1. P' = P /\ M' = M /\ UNCHANGED <<files, index, row, place>>
  BY WriteCommitted
<1>2. Same'
  BY <1>1 DEF Same
<1>3. ActiveRows' = ActiveRows
  BY <1>1 DEF ActiveRows
<1>4. CASE WritePointer
  <2>1. /\ manifest = saved.manifest /\ old = ActiveRows \ {target}
        /\ step' = "selected" /\ UNCHANGED <<manifest, target, saved, old>>
    BY <1>4 DEF WritePointer, Continue, Progress
  <2>2. manifest' = saved'.manifest /\ old' = ActiveRows' \ {target'}
    BY <1>3, <2>1
  <2>3. QED
    BY <1>2, <2>1, <2>2 DEF Progress
<1>5. CASE WriteSelected
  <2>1. /\ manifest = saved.manifest /\ old = ActiveRows \ {target}
        /\ manifest' = [manifest EXCEPT ![target].active = TRUE]
        /\ step' = "old" /\ UNCHANGED <<target, saved, old>>
    BY <1>5 DEF WriteSelected, Continue, Progress
  <2>2. target \in Versions /\ M = saved.manifest
    BY <1>5 DEF WriteSelected, Shape, AtRest, M, Undoing, Activation
  <2>3. \A v \in Versions : v # target => (manifest[v].active <=> v \in old)
    BY <2>1, <2>2 DEF Same, Agree, ActiveRows
  <2>4. \A v \in Versions : v # target => manifest'[v] = manifest[v]
    BY <2>1 DEF TypeOK
  <2>5. /\ manifest'[target].active = TRUE
        /\ manifest'[target].state = manifest[target].state
        /\ manifest'[target].pinned = manifest[target].pinned
    BY <2>1, <2>2 DEF TypeOK, Manifest
  <2>6. old' \subseteq ActiveRows' \ {target'}
    BY <1>3, <2>1
  <2>7. \A v \in Versions :
          /\ manifest'[v].active <=> v = target' \/ v \in old'
          /\ manifest'[v].state = saved'.manifest[v].state
          /\ manifest'[v].pinned = saved'.manifest[v].pinned
    BY <2>1, <2>2, <2>3, <2>4, <2>5
  <2>8. QED
    BY <1>2, <2>1, <2>6, <2>7 DEF Progress
<1>6. ASSUME NEW u \in Versions, WriteOld(u) PROVE Progress'
  <2>1. u \in old /\ old \subseteq ActiveRows \ {target}
    BY <1>6 DEF WriteOld, Progress
  <2>2. Readable(u)
    BY <2>1 DEF ActiveRows, Agree, Same, Readable
  <2>3. /\ manifest' = [manifest EXCEPT ![u].active = FALSE]
        /\ old' = old \ {u} /\ step = "old" /\ step' = "old" /\ UNCHANGED <<target, saved>>
    BY <1>6, <2>2 DEF WriteOld, Continue
  <2>4. /\ manifest'[u].active = FALSE
        /\ manifest'[u].state = manifest[u].state /\ manifest'[u].pinned = manifest[u].pinned
        /\ \A v \in Versions : v # u => manifest'[v] = manifest[v]
    BY <2>3 DEF TypeOK, Manifest
  <2>5. QED
    BY <1>3, <2>1, <2>3, <2>4 DEF Progress
<1>7. QED
  BY <1>2, <1>4, <1>5, <1>6 DEF Write

LEMMA SameRecords ==
  ASSUME NEW m \in Manifest, NEW n \in Manifest,
         m.state = n.state, m.active = n.active, m.pinned = n.pinned
  PROVE  m = n
BY DEF Manifest

LEMMA CommitSame ==
  ASSUME IInv, ~crashed, Commit PROVE Same' /\ Progress'
<1> USE DEF IInv, Inv
<1>1. /\ files' = files /\ M' = manifest' /\ manifest' = manifest /\ step' = "rest"
      /\ target \in Versions /\ step # "rest"
  BY DEF Commit, CommitActivation, CommitPinned, CommitArchive, CommitDelete, CommitPurge,
         CommitRegister, Continue, Shape, AtRest, M, Undoing, Activation
<1>2. Progress'
  BY <1>1 DEF Progress
<1>3. Same /\ Agree /\ Progress
  OBVIOUS
<1>4. CASE CommitActivation
  <2>1. step = "old" /\ old = {} /\ P' = target /\ M = saved.manifest
    BY <1>4 DEF CommitActivation, Continue, Shape, P, M, Undoing, Activation
  <2>2. target \in index /\ files[target] = "live" /\ row[target].state = "READY"
    BY <2>1 DEF Shape, Activation
  <2>3. \A v \in Versions :
          /\ manifest[v].active <=> v = target
          /\ manifest[v].state = M[v].state /\ manifest[v].pinned = M[v].pinned
    BY <1>3, <2>1 DEF Progress
  <2>4. index' = index /\ place' = place
    BY <1>4 DEF CommitActivation
  <2>5. ASSUME NEW v \in index, files[v] = "live" PROVE place[v] = "live" /\ row'[v] = manifest[v]
    <3>1. v \in Versions /\ row[v] \in Manifest /\ manifest[v] \in Manifest
      BY DEF TypeOK
    <3>2. row'[v] = [row[v] EXCEPT !.active = (v = target)]
      BY <1>4, <3>1 DEF CommitActivation, CommitActive
    <3>3. /\ row'[v] \in Manifest
          /\ row'[v].state = row[v].state /\ row'[v].pinned = row[v].pinned
          /\ row'[v].active = (v = target)
      BY <3>1, <3>2 DEF Manifest
    <3>4. row[v] = M[v] /\ place[v] = "live"
      BY <1>3, <2>5 DEF Same
    <3>5. manifest[v].active \in BOOLEAN
      BY <3>1 DEF Manifest
    <3>6. manifest[v].active = (v = target)
      BY <2>3, <3>1, <3>5
    <3>7. QED
      BY <2>3, <3>1, <3>3, <3>4, <3>6, SameRecords
  <2>6. manifest[target].state = "READY"
    BY <1>1, <1>3, <2>2, <2>3 DEF Same
  <2>7. QED
    BY <1>1, <1>2, <2>1, <2>3, <2>4, <2>5, <2>6 DEF Same
<1>5. CASE ~CommitActivation
  <2>1. P' = P
    BY <1>5 DEF Commit, CommitPinned, CommitArchive, CommitDelete, CommitPurge, CommitRegister,
                Continue, Shape, P, Undoing, Activation
  <2>2. /\ \A v \in Versions : manifest[v].active <=> v = P
        /\ P \in Versions => manifest[P].state = "READY"
    <3>1. CASE CommitPinned
      <4>1. M = saved.manifest
        BY <3>1 DEF CommitPinned, M, Undoing
      <4>2. PICK on \in BOOLEAN : manifest = [M EXCEPT ![target].pinned = on]
        BY <1>3, <3>1, <4>1 DEF CommitPinned, Progress
      <4>3. \A v \in Versions : manifest[v].active = M[v].active /\ manifest[v].state = M[v].state
        BY <1>1, <4>1, <4>2 DEF TypeOK, Manifest
      <4>4. QED
        BY <1>3, <4>3 DEF Same
    <3>2. CASE CommitArchive
      <4>1. M = saved.manifest /\ ~row[target].active
        BY <3>2 DEF CommitArchive, M, Undoing, Shape
      <4>2. manifest = [M EXCEPT ![target].state = "ARCHIVED"]
        BY <1>3, <3>2, <4>1 DEF CommitArchive, Progress
      <4>3. \A v \in Versions :
              /\ manifest[v].active = M[v].active
              /\ v # target => manifest[v].state = M[v].state
        BY <1>1, <4>1, <4>2 DEF TypeOK, Manifest
      <4>4. target # P
        BY <1>1, <1>3, <4>1 DEF Agree
      <4>5. QED
        BY <1>3, <4>3, <4>4 DEF Same
    <3>3. CASE CommitDelete \/ CommitPurge \/ CommitRegister
      <4>1. M = manifest
        BY <3>3 DEF CommitDelete, CommitPurge, CommitRegister, M, Undoing, Activation
      <4>2. QED
        BY <1>3, <4>1 DEF Same
    <3>4. QED
      BY <1>5, <3>1, <3>2, <3>3 DEF Commit
  <2>3. ASSUME NEW v \in index', files[v] = "live"
        PROVE  place'[v] = "live" /\ row'[v] = manifest[v]
    <3>0. v \in index \/ (v = target /\ CommitRegister)
      BY <1>5 DEF Commit, CommitPinned, CommitArchive, CommitDelete, CommitPurge, CommitRegister
    <3>1. CASE CommitPinned
      <4>1. M = saved.manifest /\ M \in [Versions -> Manifest] /\ row \in [Versions -> Manifest]
        BY <3>1 DEF CommitPinned, M, Undoing, TypeOK
      <4>2. PICK on \in BOOLEAN : manifest = [M EXCEPT ![target].pinned = on]
        BY <1>3, <3>1, <4>1 DEF CommitPinned, Progress
      <4>3. v \in index /\ place' = place
        BY <3>0, <3>1 DEF CommitPinned, CommitRegister
      <4>4. row[v] = M[v] /\ place[v] = "live"
        BY <1>3, <2>3, <4>3 DEF Same
      <4>5. manifest[target].pinned = on
        BY <1>1, <4>1, <4>2 DEF Manifest
      <4>6. row' = [row EXCEPT ![target].pinned = on]
        BY <3>1, <4>5 DEF CommitPinned
      <4>7. v \in Versions
        BY <4>3 DEF TypeOK
      <4>8. QED
        BY <1>1, <4>1, <4>2, <4>3, <4>4, <4>6, <4>7
    <3>2. CASE CommitArchive
      <4>1. M = saved.manifest /\ M \in [Versions -> Manifest] /\ row \in [Versions -> Manifest]
        BY <3>2 DEF CommitArchive, M, Undoing, TypeOK
      <4>2. manifest = [M EXCEPT ![target].state = "ARCHIVED"]
        BY <1>3, <3>2, <4>1 DEF CommitArchive, Progress
      <4>3. v \in index /\ place' = place
        BY <3>0, <3>2 DEF CommitArchive, CommitRegister
      <4>4. row[v] = M[v] /\ place[v] = "live"
        BY <1>3, <2>3, <4>3 DEF Same
      <4>5. row' = [row EXCEPT ![target].state = "ARCHIVED"]
        BY <3>2 DEF CommitArchive
      <4>6. v \in Versions
        BY <4>3 DEF TypeOK
      <4>7. QED
        BY <1>1, <4>1, <4>2, <4>3, <4>4, <4>5, <4>6
    <3>3. CASE CommitDelete \/ CommitPurge
      <4>1. M = manifest /\ v # target
        BY <2>3, <3>3 DEF CommitDelete, CommitPurge, M, Undoing, Activation, Shape
      <4>2. v \in index /\ v \in Versions
        BY <3>0, <4>1 DEF TypeOK
      <4>3. row'[v] = row[v] /\ place'[v] = place[v]
        BY <3>3, <4>1, <4>2 DEF CommitDelete, CommitPurge, TypeOK
      <4>4. QED
        BY <1>3, <2>3, <4>1, <4>2, <4>3 DEF Same
    <3>4. CASE CommitRegister
      <4>1. M = manifest
        BY <3>4 DEF CommitRegister, M, Undoing, Activation
      <4>2. CASE v = target
        BY <1>1, <3>4, <4>2 DEF CommitRegister, TypeOK
      <4>3. CASE v # target
        <5>1. row'[v] = row[v] /\ place'[v] = place[v]
          BY <3>0, <3>4, <4>3 DEF CommitRegister, TypeOK
        <5>2. QED
          BY <1>3, <2>3, <3>0, <4>1, <4>3, <5>1 DEF Same
      <4>4. QED
        BY <4>2, <4>3
    <3>5. QED
      BY <1>5, <3>1, <3>2, <3>3, <3>4 DEF Commit
  <2>4. QED
    BY <1>1, <1>2, <2>1, <2>2, <2>3 DEF Same
<1>6. QED
  BY <1>4, <1>5

LEMMA OtherSame ==
  ASSUME IInv, ~crashed', RebuildIndex \/ Interrupted PROVE Same' /\ Progress'
<1> USE DEF IInv, Inv
<1>1. CASE RebuildIndex
  <2>1. /\ ~crashed /\ P' = P /\ M = manifest /\ M' = manifest /\ files' = files
        /\ step' = "rest"
    BY <1>1 DEF RebuildIndex, AtRest, P, M, Undoing, Activation
  <2>2. \A v \in index' : v \in Versions /\ place'[v] = "live" /\ row'[v] = manifest[v]
    BY <1>1 DEF RebuildIndex
  <2>3. QED
    BY <2>1, <2>2 DEF Same, Progress
<1>2. CASE Interrupted
  <2>1. /\ UNCHANGED <<files, index, row, place>>
        /\ ~crashed /\ P' = P /\ M' = M /\ step' = "rest"
    BY <1>2, InterruptedCommitted
  <2>2. QED
    BY <2>1 DEF Same, Progress
<1>3. QED
  BY <1>1, <1>2

-----------------------------------------------------------------------------

LEMMA InvStep == ASSUME IInv, [Next]_vars PROVE IInv'
<1>1. CASE UNCHANGED vars
  BY <1>1 DEF vars, stores, IInv, TypeOK, Shape, Agree, Same, Progress, P, M, Undoing, AtRest,
              ActiveRows
<1>2. CASE Next
  <2>1. Inv
    BY DEF IInv, Inv
  <2>2. Inv'
    BY <1>2, <2>1, NextCases, OperationShape, CommitShape, OtherShape
  <2>3. settled' \/ ~crashed' => Agree'
    BY <1>2, AgreeStep
  <2>4. ASSUME ~crashed' PROVE Same' /\ Progress'
    <3>1. ~crashed \/ RebuildIndex \/ Interrupted
      BY <1>2, <2>1, <2>4, NextCases, OperationCommitted, WriteCommitted
      DEF Commit, CommitActivation, CommitPinned, CommitArchive, CommitDelete, CommitPurge,
          CommitRegister, Continue
    <3>2. QED
      BY <1>2, <2>4, <3>1, NextCases, OperationSame, WriteSame, CommitSame, OtherSame
  <2>5. QED
    BY <2>2, <2>3, <2>4 DEF IInv, Inv
<1>3. QED
  BY <1>1, <1>2

LEMMA InvAlways == Spec => []IInv
<1>1. Init => IInv
  BY InvInit
<1>2. IInv /\ [Next]_vars => IInv'
  BY InvStep
<1>3. QED
  BY <1>1, <1>2, PTL DEF Spec

\* At rest nothing is to be undone.
LEMMA Committed == AtRest => P = pointer /\ M = manifest
BY DEF AtRest, P, M, Undoing, Activation

\* Type correctness of the stores and of the running operation, for every set of
\* versions: the operations of MapRegistry in registry.py.
THEOREM TypeCorrect == Spec => []TypeOK
<1>1. IInv => TypeOK
  BY DEF IInv
<1>2. QED
  BY <1>1, InvAlways, PTL

\* For every set of versions, with exceptions in every operation: between two
\* operations the index is what rebuild_index would make of the manifests.
LEMMA Rebuildable == Spec => []IndexIsRebuildable
<1>1. IInv => IndexIsRebuildable
  BY Committed DEF IInv, Same, IndexIsRebuildable
<1>2. QED
  BY <1>1, InvAlways, PTL

\* For every set of versions: active_map.yaml, the manifests and the index name
\* the same version, which is READY and not deleted, whatever activate, archive,
\* soft_delete and rebuild_index did and wherever an exception stopped them.
LEMMA SelectedActive == Spec => []SelectedIsActive
<1>1. IInv => SelectedIsActive
  <2> SUFFICES ASSUME IInv, AtRest, ~crashed
               PROVE  /\ ActiveRows = Selected
                      /\ {v \in Versions : manifest[v].active} = Selected
                      /\ \A v \in Selected : files[v] = "live" /\ manifest[v].state = "READY"
    BY DEF SelectedIsActive
  <2>1. Agree /\ Same /\ P = pointer /\ M = manifest /\ index \subseteq Versions
    BY Committed DEF IInv, TypeOK
  <2>2. ActiveRows = Selected
    BY <2>1 DEF Agree, ActiveRows, Selected
  <2>3. {v \in Versions : manifest[v].active} = Selected
    BY <2>1 DEF Same, Selected
  <2>4. QED
    BY <2>1, <2>2, <2>3 DEF Agree, Same, Selected
<1>2. QED
  BY <1>1, InvAlways, PTL

\* Both together: without crashes the pointer, the index and the manifests agree
\* between operations, for every set of versions and wherever exceptions strike.
THEOREM RecordsAlwaysAgree == Spec => []RecordsAgree
BY Rebuildable, SelectedActive, PTL DEF RecordsAgree

\* For every set of versions, with crashes inside every operation: an activation
\* that completes makes the pointer and the index agree on a version that is
\* there, and they agree until a crash inside another activation.
THEOREM Restores == Spec => []ActivationRestores
<1>1. IInv => ActivationRestores
  <2> SUFFICES ASSUME IInv, AtRest, settled
               PROVE  ActiveRows = Selected /\ \A v \in Selected : files[v] = "live"
    BY DEF ActivationRestores
  <2>1. Agree /\ P = pointer /\ index \subseteq Versions
    BY Committed DEF IInv, TypeOK
  <2>2. QED
    BY <2>1 DEF Agree, ActiveRows, Selected
<1>2. QED
  BY <1>1, InvAlways, PTL
=============================================================================
