---------------------------- MODULE MapRegistry -----------------------------
(***************************************************************************)
(* The map registry of agt_map_manager (agt_map_manager/registry.py).  A   *)
(* map version is a directory with a manifest; the registry keeps a row    *)
(* per version in an SQLite index and, in active_map.yaml, a pointer to    *)
(* the version the robot uses.  The three stores are written one after the *)
(* other: an exception in between is rolled back where the code does so,   *)
(* a crash is not.                                                         *)
(*                                                                         *)
(* One process at a time uses the directory, and its lock serialises the   *)
(* operations: an action is a whole operation, or one of its writes.  A    *)
(* roll back is taken to succeed.  Assets are abstracted: their validation *)
(* may fail for any version, and then nothing happens.                     *)
(***************************************************************************)
EXTENDS FiniteSets

CONSTANTS
  Versions,   \* the map versions that are ever made; their names are unique
  NoVersion,  \* active_map.yaml does not exist
  Parent      \* parent_version_id of each version, or NoVersion

ASSUME RegistryAssumption ==
  NoVersion \notin Versions /\ Parent \in [Versions -> Versions \cup {NoVersion}]

State == {"PROCESSING", "READY", "INVALID", "ARCHIVED"}
Manifest == [state : State, active : BOOLEAN, pinned : BOOLEAN]
Place == {"none", "live", "trash", "gone"}

VARIABLES
  files,     \* where the directory of each version is
  manifest,  \* manifest.yaml of each version
  index,     \* the versions that have a row
  row,       \* what the row says of the manifest ...
  place,     \* ... and where it says the manifest is (its flag deleted: in the trash)
  pointer,   \* the version named by active_map.yaml
  step,      \* the write the running operation has to do next
  target,    \* the version it is about
  old,       \* activate: the other active versions whose manifest is not written yet
  saved,     \* what is written back on an exception: pointer and manifests
  crashed,   \* a crash has interrupted some operation
  settled    \* an activation has completed since the last crash inside one, and the
             \* index was not read from manifests which that crash may have left

stores == <<files, manifest, index, row, place, pointer>>
vars == <<stores, step, target, old, saved, crashed, settled>>

Activation == {"pointer", "selected", "old"}
Step == Activation \cup {"rest", "pin", "archive", "trash", "purge", "register"}

TypeOK ==
  /\ files \in [Versions -> Place]
  /\ manifest \in [Versions -> Manifest]
  /\ index \subseteq Versions
  /\ row \in [Versions -> Manifest]
  /\ place \in [Versions -> {"live", "trash"}]
  /\ pointer \in Versions \cup {NoVersion}
  /\ step \in Step
  /\ target \in Versions \cup {NoVersion}
  /\ old \subseteq Versions
  /\ saved \in [pointer : Versions \cup {NoVersion}, manifest : [Versions -> Manifest]]
  /\ crashed \in BOOLEAN /\ settled \in BOOLEAN

NewManifest(state) == [state |-> state, active |-> FALSE, pinned |-> FALSE]
Blank == [v \in Versions |-> NewManifest("INVALID")]

Init ==
  /\ files = [v \in Versions |-> "none"]
  /\ manifest = Blank
  /\ index = {} /\ row = Blank /\ place = [v \in Versions |-> "live"]
  /\ pointer = NoVersion
  /\ step = "rest" /\ target = NoVersion /\ old = {}
  /\ saved = [pointer |-> NoVersion, manifest |-> Blank]
  /\ crashed = FALSE /\ settled = TRUE

-----------------------------------------------------------------------------
AtRest == step = "rest"

ActiveRows == {v \in index : row[v].active}

\* The manifest is where the row says it is.
Readable(v) == v \in index /\ files[v] = place[v]

\* What an exception writes back is the same for every operation: what was there
\* when it began.
Begin(v, write) ==
  /\ AtRest
  /\ step' = write
  /\ target' = v
  /\ saved' = [pointer |-> pointer, manifest |-> manifest]
  /\ UNCHANGED <<crashed, settled>>

Continue(write) ==
  /\ step' = write
  /\ UNCHANGED <<target, saved, crashed>>

-----------------------------------------------------------------------------
(* activate *)

\* validate_manifest needs the manifest; what it finds wrong with the assets of a
\* version it may find at any time, and then activate does nothing.
Valid(v) == Readable(v)

Activate(v) ==
  /\ Valid(v) /\ row[v].state = "READY"
  /\ Begin(v, "pointer")
  /\ old' = ActiveRows \ {v}
  /\ UNCHANGED stores

WritePointer ==
  /\ step = "pointer"
  /\ pointer' = target
  /\ Continue("selected")
  /\ UNCHANGED <<files, manifest, index, row, place, old, settled>>

WriteSelected ==
  /\ step = "selected"
  /\ manifest' = [manifest EXCEPT ![target].active = TRUE]
  /\ Continue("old")
  /\ UNCHANGED <<files, index, row, place, pointer, old, settled>>

\* The manifests of the versions that were active, those that exist.
WriteOld(u) ==
  /\ step = "old" /\ u \in old
  /\ manifest' = IF Readable(u) THEN [manifest EXCEPT ![u].active = FALSE] ELSE manifest
  /\ old' = old \ {u}
  /\ Continue("old")
  /\ UNCHANGED <<files, index, row, place, pointer, settled>>

CommitActive ==
  row' = [v \in Versions |-> [row[v] EXCEPT !.active = (v = target)]]

CommitActivation ==
  /\ step = "old" /\ old = {}
  /\ CommitActive
  /\ Continue("rest")
  /\ settled' = TRUE
  /\ UNCHANGED <<files, manifest, index, place, pointer, old>>

-----------------------------------------------------------------------------
(* set_pinned, archive, soft_delete, purge *)

SetPinned(v, on) ==
  /\ Readable(v) /\ place[v] # "trash"
  /\ Begin(v, "pin")
  /\ manifest' = [manifest EXCEPT ![v].pinned = on]
  /\ UNCHANGED <<files, index, row, place, pointer, old>>

CommitPinned ==
  /\ step = "pin"
  /\ row' = [row EXCEPT ![target].pinned = manifest[target].pinned]
  /\ Continue("rest")
  /\ UNCHANGED <<files, manifest, index, place, pointer, old, settled>>

Archive(v) ==
  /\ Readable(v) /\ place[v] # "trash" /\ ~row[v].active
  /\ Begin(v, "archive")
  /\ manifest' = [manifest EXCEPT ![v].state = "ARCHIVED"]
  /\ UNCHANGED <<files, index, row, place, pointer, old>>

CommitArchive ==
  /\ step = "archive"
  /\ row' = [row EXCEPT ![target].state = "ARCHIVED"]
  /\ Continue("rest")
  /\ UNCHANGED <<files, manifest, index, place, pointer, old, settled>>

\* A version is protected while it is active, pinned, processed or the parent of a
\* version that is not deleted.
IsParent(v) == \E u \in index : place[u] = "live" /\ Parent[u] = v
Protected_NotActive(v) == row[v].pinned \/ row[v].state = "PROCESSING" \/ IsParent(v)
Protected(v) ==
  row[v].active \/ row[v].pinned \/ row[v].state = "PROCESSING" \/ IsParent(v)

SoftDelete(v) ==
  /\ Readable(v) /\ place[v] # "trash" /\ ~Protected(v)
  /\ Begin(v, "trash")
  /\ files' = [files EXCEPT ![v] = "trash"]
  /\ UNCHANGED <<manifest, index, row, place, pointer, old>>

CommitDelete ==
  /\ step = "trash"
  /\ row' = [row EXCEPT ![target].state = "ARCHIVED"]
  /\ place' = [place EXCEPT ![target] = "trash"]
  /\ Continue("rest")
  /\ UNCHANGED <<files, manifest, index, pointer, old, settled>>

Purge(v) ==
  /\ Readable(v) /\ place[v] = "trash"
  /\ Begin(v, "purge")
  /\ files' = [files EXCEPT ![v] = "gone"]
  /\ UNCHANGED <<manifest, index, row, place, pointer, old>>

CommitPurge ==
  /\ step = "purge"
  /\ index' = index \ {target}
  /\ Continue("rest")
  /\ UNCHANGED <<files, manifest, row, place, pointer, old, settled>>

-----------------------------------------------------------------------------
(* import_legacy, register_manifest, rebuild_index *)

\* A new version: its assets are copied and its manifest is written (PROCESSING is
\* for versions that were packaged by other means, and are only registered).
Import(v) ==
  /\ files[v] = "none"
  /\ Begin(v, "register")
  /\ files' = [files EXCEPT ![v] = "live"]
  /\ \E state \in {"READY", "INVALID", "PROCESSING"} :
       manifest' = [manifest EXCEPT ![v] = NewManifest(state)]
  /\ UNCHANGED <<index, row, place, pointer, old>>

\* register_manifest of a version whose manifest is there.
Register(v) ==
  /\ files[v] = "live"
  /\ Begin(v, "register")
  /\ UNCHANGED <<stores, old>>

CommitRegister ==
  /\ step = "register"
  /\ index' = index \cup {target}
  /\ row' = [row EXCEPT ![target] = manifest[target]]
  /\ place' = [place EXCEPT ![target] = "live"]
  /\ Continue("rest")
  /\ settled' = (settled /\ ~crashed)
  /\ UNCHANGED <<files, manifest, pointer, old>>

\* The index is replaced by one made from the manifests outside the trash.
RebuildIndex ==
  /\ AtRest
  /\ index' = {v \in Versions : files[v] = "live"}
  /\ row' = [v \in Versions |-> IF files[v] = "live" THEN manifest[v] ELSE row[v]]
  /\ place' = [v \in Versions |-> "live"]
  /\ settled' = ~crashed
  /\ UNCHANGED <<files, manifest, pointer, step, target, old, saved, crashed>>

-----------------------------------------------------------------------------
(* Failures. *)

\* An exception before the last write: the pointer and the manifests are written
\* back; what was moved or removed is not.
WriteBack_PointerOnly == pointer' = saved.pointer /\ UNCHANGED manifest
WriteBack == pointer' = saved.pointer /\ manifest' = saved.manifest

Fails ==
  /\ step \in Activation \cup {"pin", "archive"}
  /\ WriteBack
  /\ Continue("rest")
  /\ UNCHANGED <<files, index, row, place, old, settled>>

FailsForGood ==
  /\ step \in {"trash", "purge", "register"}
  /\ Continue("rest")
  /\ UNCHANGED <<stores, old, settled>>

Crash ==
  /\ ~AtRest
  /\ step' = "rest"
  /\ crashed' = TRUE
  /\ settled' = (settled /\ step \notin Activation)
  /\ UNCHANGED <<stores, target, old, saved>>

-----------------------------------------------------------------------------
Next ==
  \/ \E v \in Versions :
       \/ Activate(v) \/ WriteOld(v) \/ Archive(v) \/ SoftDelete(v) \/ Purge(v)
       \/ Import(v) \/ Register(v)
       \/ \E on \in BOOLEAN : SetPinned(v, on)
  \/ WritePointer \/ WriteSelected \/ CommitActivation
  \/ CommitPinned \/ CommitArchive \/ CommitDelete \/ CommitPurge
  \/ CommitRegister \/ RebuildIndex
  \/ Fails \/ FailsForGood \/ Crash

Spec == Init /\ [][Next]_vars

-----------------------------------------------------------------------------
(* Properties. *)

Selected == {pointer} \cap Versions

\* Between operations the index says of every version what its manifest says, so
\* rebuild_index changes nothing: no order of operations, and no exception in any
\* of them, makes the index more than an index.  A crash may.
IndexIsRebuildable ==
  AtRest /\ ~crashed =>
    \A v \in index : files[v] = "live" => place[v] = "live" /\ row[v] = manifest[v]

\* The version active_map.yaml names is the only one that the index and the
\* manifests call active, it is READY, and it is not in the trash.
SelectedIsActive ==
  AtRest /\ ~crashed =>
    /\ ActiveRows = Selected
    /\ {v \in Versions : manifest[v].active} = Selected
    /\ \A v \in Selected : files[v] = "live" /\ manifest[v].state = "READY"

\* The three records of a map version agree between operations, whatever activate,
\* archive, soft_delete and rebuild_index did and wherever an exception stopped
\* them (_write_manifest, _upsert, activate's restore).
RecordsAgree == IndexIsRebuildable /\ SelectedIsActive

\* Crashes are repaired by the next activation: once it has completed, the pointer
\* and the index agree and the version they name stays, whatever an interrupted
\* operation had left before and whatever runs, fails or crashes after - until a
\* crash inside another activation, or until the index is read again from the
\* manifests which the first crash may have left active.
ActivationRestores ==
  AtRest /\ settled =>
    /\ ActiveRows = Selected
    /\ \A v \in Selected : files[v] = "live"
=============================================================================
