---------------------------- MODULE EditHistory ----------------------------
(***************************************************************************)
(* Undo and redo in the semantic map editor (agt_ui_bridge,                *)
(* semantic_editor_qt5.py and semantic_scene.py).  The document has two    *)
(* parts, the picture of the base map and the semantic task, each with its *)
(* own stacks; two timelines say which part the next undo and the next     *)
(* redo are about.  A brush stroke on the picture is one edit, from the    *)
(* press of the button to its release; keys that are hit in between are    *)
(* handled in between.  A press outside the picture begins no edit, and    *)
(* the drag that follows paints all the same once it is over the picture.  *)
(*                                                                         *)
(* Pictures and Tasks are the contents the two parts may have.  What the   *)
(* editor draws again after each change has no state of its own here.  The *)
(* files, and the flags for unsaved changes, are left out.                 *)
(***************************************************************************)
EXTENDS Naturals, Sequences, SequencesExt

CONSTANTS Pictures, Tasks,
          Limit  \* history_limit

ASSUME HistoryAssumption == Limit \in Nat \ {0}

VARIABLES picture,       \* map_array
          task,          \* the semantic map of model_scene
          stroke,        \* the mouse button and map_stroke_start
          before,        \* _map_edit_before
          stacks,        \* the four stacks of snapshots
          editTimeline, redoTimeline,
          past, future,  \* history: the documents an undo and a redo should restore
          begun,         \* history: the document when the stroke began
          astray,        \* history: a stroke was canceled or interrupted, or the
                         \* timelines were empty when something was undone or redone
          unkept         \* history: a drag from outside changed the picture

historyVars == <<picture, task, stroke, before, stacks, editTimeline, redoTimeline,
                 past, future, begun, astray, unkept>>
ghosts == <<past, future, begun, astray, unkept>>

document == <<picture, task>>
NoStroke == [held |-> FALSE, started |-> FALSE]
NoStacks == [mapUndo |-> <<>>, mapRedo |-> <<>>, taskUndo |-> <<>>, taskRedo |-> <<>>]

HistoryInit ==
  /\ picture \in Pictures /\ task \in Tasks
  /\ stroke = NoStroke /\ before = {}
  /\ stacks = NoStacks /\ editTimeline = <<>> /\ redoTimeline = <<>>
  /\ past = <<>> /\ future = <<>> /\ begun = document
  /\ astray = FALSE /\ unkept = FALSE

(* A stack forgets its oldest entry beyond the limit. *)
Push(s, x) == IF Len(s) < Limit THEN Append(s, x) ELSE Tail(Append(s, x))

RecordEditDomain_KeepsRedo(domain) ==
  /\ editTimeline' = Push(editTimeline, domain)
  /\ UNCHANGED redoTimeline

(* _record_edit_domain *)
RecordEditDomain(domain) ==
  /\ editTimeline' = Push(editTimeline, domain)
  /\ redoTimeline' = <<>>

InStroke == before # {}

----------------------------------------------------------------------------
(* A stroke: begin_map_edit, apply_map_brush, apply_map_line,              *)
(* commit_map_edit.  Painting may leave the picture as it is.              *)
Press ==
  /\ ~stroke.held
  /\ stroke' = [held |-> TRUE, started |-> TRUE]
  /\ before' = IF InStroke THEN before ELSE {picture}
  /\ picture' \in Pictures
  /\ begun' = document
  /\ UNCHANGED <<task, stacks, editTimeline, redoTimeline,
                 past, future, astray, unkept>>

PressOutside ==
  /\ ~stroke.held
  /\ stroke' = [held |-> TRUE, started |-> FALSE]
  /\ begun' = document
  /\ UNCHANGED <<picture, task, before, stacks, editTimeline, redoTimeline,
                 past, future, astray, unkept>>

(* The mouse moves with the button down, wherever it was pressed.  What is *)
(* painted with no copy kept is a change that an undo should take back too.*)
Paint ==
  /\ stroke.held
  /\ picture' \in Pictures
  /\ IF InStroke \/ picture' = picture
     THEN UNCHANGED <<past, future, unkept>>
     ELSE past' = Push(past, document) /\ future' = <<>> /\ unkept' = TRUE
  /\ UNCHANGED <<task, stroke, before, stacks, editTimeline, redoTimeline,
                 begun, astray>>

(* The picture as the release leaves it, p, is compared with the one kept. *)
CommitStroke(p) ==
  /\ before' = {}
  /\ IF before = {p}
     THEN UNCHANGED <<stacks, editTimeline, redoTimeline, past, future>>
     ELSE /\ \E kept \in before :
               stacks' = [stacks EXCEPT !.mapUndo = Push(@, kept), !.mapRedo = <<>>]
          /\ RecordEditDomain("map")
          /\ past' = Push(past, begun) /\ future' = <<>>

Release ==
  /\ stroke.held
  /\ stroke' = NoStroke
  /\ IF stroke.started
     THEN picture' \in Pictures /\ CommitStroke(picture')
     ELSE UNCHANGED <<picture, before, stacks, editTimeline, redoTimeline, past, future>>
  /\ UNCHANGED <<task, begun, astray, unkept>>

(* Escape, another tool or another draw mode: cancel_drawing forgets where *)
(* the stroke started, and not the picture from before it.                 *)
CancelDrawing ==
  /\ stroke.started
  /\ stroke' = [stroke EXCEPT !.started = FALSE]
  /\ astray' = TRUE
  /\ UNCHANGED <<picture, task, before, stacks, editTimeline, redoTimeline,
                 past, future, begun, unkept>>

----------------------------------------------------------------------------
(* finish_feature_from_scene, _vertex_moved, apply_properties and          *)
(* delete_selected, each through SemanticScene._record_state.              *)
EditTask ==
  /\ task' \in Tasks
  /\ stacks' = [stacks EXCEPT !.taskUndo = Push(@, task), !.taskRedo = <<>>]
  /\ RecordEditDomain("semantic")
  /\ past' = Push(past, document) /\ future' = <<>>
  /\ astray' = (astray \/ InStroke)
  /\ UNCHANGED <<picture, stroke, before, begun, unkept>>

Domain(timeline) == IF timeline = <<>> THEN "semantic" ELSE Last(timeline)
Rest(s) == IF s = <<>> THEN s ELSE Front(s)

(* undo and redo: the part that the timeline names, or the task when that  *)
(* part has nothing left.                                                  *)
UndoMap ==
  /\ Domain(editTimeline) = "map" /\ stacks.mapUndo # <<>>
  /\ picture' = Last(stacks.mapUndo)
  /\ stacks' = [stacks EXCEPT !.mapUndo = Front(@), !.mapRedo = Append(@, picture)]
  /\ editTimeline' = Rest(editTimeline)
  /\ redoTimeline' = Append(redoTimeline, "map")
  /\ UNCHANGED task

UndoTask ==
  /\ Domain(editTimeline) = "semantic" \/ stacks.mapUndo = <<>>
  /\ stacks.taskUndo # <<>>
  /\ task' = Last(stacks.taskUndo)
  /\ stacks' = [stacks EXCEPT !.taskUndo = Front(@), !.taskRedo = Append(@, task)]
  /\ editTimeline' = Rest(editTimeline)
  /\ redoTimeline' = Append(redoTimeline, "semantic")
  /\ UNCHANGED picture

Undo ==
  /\ UndoMap \/ UndoTask
  /\ past' = Rest(past) /\ future' = Append(future, document)
  /\ astray' = (astray \/ InStroke \/ editTimeline = <<>>)
  /\ UNCHANGED <<stroke, before, begun, unkept>>

RedoMap ==
  /\ Domain(redoTimeline) = "map" /\ stacks.mapRedo # <<>>
  /\ picture' = Last(stacks.mapRedo)
  /\ stacks' = [stacks EXCEPT !.mapRedo = Front(@), !.mapUndo = Append(@, picture)]
  /\ redoTimeline' = Rest(redoTimeline)
  /\ editTimeline' = Append(editTimeline, "map")
  /\ UNCHANGED task

RedoTask ==
  /\ Domain(redoTimeline) = "semantic" \/ stacks.mapRedo = <<>>
  /\ stacks.taskRedo # <<>>
  /\ task' = Last(stacks.taskRedo)
  /\ stacks' = [stacks EXCEPT !.taskRedo = Front(@), !.taskUndo = Append(@, task)]
  /\ redoTimeline' = Rest(redoTimeline)
  /\ editTimeline' = Append(editTimeline, "semantic")
  /\ UNCHANGED picture

Redo ==
  /\ RedoMap \/ RedoTask
  /\ future' = Rest(future) /\ past' = Append(past, document)
  /\ astray' = (astray \/ InStroke \/ redoTimeline = <<>>)
  /\ UNCHANGED <<stroke, before, begun, unkept>>

(* load_task, load_base_map and reload, from dialogs. *)
OpenDocument ==
  /\ ~stroke.held
  /\ picture' \in Pictures /\ task' \in Tasks
  /\ stroke' = NoStroke /\ before' = {}
  /\ stacks' = NoStacks /\ editTimeline' = <<>> /\ redoTimeline' = <<>>
  /\ past' = <<>> /\ future' = <<>> /\ begun' = document'
  /\ astray' = FALSE /\ unkept' = FALSE

HistoryNext ==
  \/ Press \/ PressOutside \/ Paint \/ Release \/ CancelDrawing
  \/ EditTask \/ Undo \/ Redo \/ OpenDocument

HistorySpec == HistoryInit /\ [][HistoryNext]_historyVars

----------------------------------------------------------------------------
Top(s) == IF s = <<>> THEN {} ELSE {Last(s)}

(* The document that the next undo, or the next redo, of an edit in a      *)
(* timeline gives, if its stack is not empty.                              *)
Given(timeline, ofMap, ofTask) ==
  IF Last(timeline) = "map" THEN Top(ofMap) \X {task} ELSE {picture} \X Top(ofTask)

(* Of the edits the timelines remember, in whichever part, the next undo   *)
(* takes back exactly the last one, and the next redo repeats exactly the  *)
(* one that was undone last: never a state the document was not in.  This  *)
(* is between strokes, while no stroke was canceled or interrupted by      *)
(* another edit, no drag from outside the picture changed it, and nothing  *)
(* was undone or redone past the timelines.                                *)
HistoryIsTrue ==
  (~astray /\ ~unkept /\ ~InStroke) =>
     /\ (editTimeline # <<>>) =>
          Given(editTimeline, stacks.mapUndo, stacks.taskUndo) \cap Top(past) # {}
     /\ (redoTimeline # <<>>) =>
          Given(redoTimeline, stacks.mapRedo, stacks.taskRedo) \cap Top(future) # {}
=============================================================================
