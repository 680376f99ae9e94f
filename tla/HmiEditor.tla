----------------------------- MODULE HmiEditor ------------------------------
(***************************************************************************)
(* The operator panel's editor (HMI/ui.js, graphics.js, properties.js,     *)
(* objects.js): the list of objects in the order they are drawn, what the  *)
(* mouse and the keys do to it in edit mode and in run mode, and the box   *)
(* with the properties of the selected object.  Selections are indices     *)
(* into the list, from 0 as in JavaScript.                                 *)
(* The screen is a line of points and an object covers one: of its two     *)
(* coordinates one is kept, and its size, which only the resizing changes, *)
(* and its colours and texts are left out.                                 *)
(***************************************************************************)
EXTENDS Integers, FiniteSets, SequencesExt

CONSTANTS
  Points,     \* the screen; objects are not moved off it
  Layers,     \* the layers in use
  Widgets,    \* objects that the user may add, on the highest layer
  HmiLoaded   \* the project's list of objects, selected as when it was saved

\* The types the editor tells apart; every other one is a display.
HmiObjects ==
  [name : STRING, type : {"rect", "input", "display"}, layer : Layers, x : Points, x_start : Int,
   locked : BOOLEAN, selected : BOOLEAN]

ASSUME HmiAssumption ==
  /\ Points \subseteq Int /\ Layers \subseteq Int /\ \E top \in Layers : \A l \in Layers : l <= top
  /\ HmiLoaded \in Seq(HmiObjects) /\ Widgets \subseteq STRING

VARIABLES
  disp_objects,      \* [name, type, layer, x, x_start, locked, selected]
  view_mode,         \* "edit" or "run"
  ui_mode,           \* UIMODE
  selected_objects,  \* the indices in it (a set: only their number and, of
                     \* one, which it is, matter)
  object_selected,   \* the object that was pressed last
  click_index,       \* the object that was clicked
  mouse,             \* [down, start]: the left button and where it went down
  object_moved,      \* the mouse moved since
  selecting,         \* a rectangle may be drawn
  shown,             \* the name of the object the box is open for, or Closed
  stale,             \* the list changed under the indices, or was loaded with flags
  relayered          \* a layer was edited since the list was loaded

pressVars == <<object_selected, click_index, mouse, object_moved, selecting>>
hmiVars == <<disp_objects, view_mode, ui_mode, selected_objects, pressVars, shown, stale, relayered>>

Closed == "closed"
NoObject == -1      \* INVALID_OBJECT
Indices == 0 .. Len(disp_objects) - 1
Obj(i) == disp_objects[i + 1]

HmiTypeOK ==
  /\ \A i \in Indices : Obj(i).x \in Points /\ Obj(i).layer \in Layers
  /\ view_mode \in {"edit", "run"} /\ ui_mode \in {"none", "select", "resize", "move", "drag"}
  /\ selected_objects \subseteq Indices /\ {object_selected, click_index} \subseteq Indices \cup {NoObject}
  /\ {mouse.down, object_moved, selecting, stale, relayered} \subseteq BOOLEAN

-----------------------------------------------------------------------------
(* The list.                                                               *)

\* object_add: before the first object of the same or a higher layer.
Placed(o, list) ==
  LET above == {i \in DOMAIN list : o.layer <= list[i].layer}
  IN  IF above = {} THEN Append(list, o) ELSE InsertAt(list, Min(above), o)

\* find_index: of the objects at a point the last one of the highest layer.
FindIndex(p) ==
  LET at == {i \in Indices : Obj(i).x = p}
      best == {i \in at : \A j \in at : Obj(j).layer < Obj(i).layer \/ (Obj(j).layer = Obj(i).layer /\ j <= i)}
  IN  IF at = {} THEN NoObject ELSE CHOOSE i \in best : TRUE

\* Changes object i of the list for each i of a set.
With(list, is, Change(_)) ==
  [k \in DOMAIN list |-> IF k - 1 \in is THEN Change(list[k]) ELSE list[k]]
Flagged(list, is) == With(list, is, LAMBDA o : [o EXCEPT !.selected = TRUE])
Started(list, is) == With(list, is, LAMBDA o : [o EXCEPT !.x_start = o.x])

\* Faulty variant of Unflagged: the flags stay.
UnflaggedNot(list) == list

\* clear_selections of graphics.js.
Unflagged(list) == With(list, 0 .. Len(list) - 1, LAMBDA o : [o EXCEPT !.selected = FALSE])

\* clear_selections of the editor; list is what else became of the objects.
Clear(list) ==
  /\ disp_objects' = Unflagged(list) /\ selected_objects' = {}
  /\ shown' = (IF Cardinality(selected_objects) > 1 THEN shown ELSE Closed)
  /\ object_selected' = NoObject /\ ui_mode' = "none" /\ selecting' = FALSE
  /\ stale' = (stale /\ mouse.down)

\* process_object_list: one object after the other.
Loading[n \in 0 .. Len(HmiLoaded)] ==
  IF n = 0 THEN <<>> ELSE Placed(HmiLoaded[n], Loading[n - 1])

\* What was selected when the project was saved has its flag still.
HmiInit ==
  /\ disp_objects = Loading[Len(HmiLoaded)]
  /\ view_mode = "edit" /\ ui_mode = "none" /\ selected_objects = {}
  /\ object_selected = NoObject /\ click_index = NoObject /\ selecting = FALSE
  /\ mouse = [down |-> FALSE, start |-> 0] /\ object_moved = FALSE
  /\ shown = Closed /\ stale = (\E k \in DOMAIN disp_objects : disp_objects[k].selected)
  /\ relayered = FALSE

-----------------------------------------------------------------------------
(* The mouse.                                                              *)

Presses(p) ==
  /\ ~mouse.down /\ mouse' = [down |-> TRUE, start |-> p] /\ object_moved' = FALSE

\* save of the box; the list is not sorted again.
SavedInto(is, x, l) == With(disp_objects, is, LAMBDA o : [o EXCEPT !.x = x, !.layer = l])

\* action_click_open: the box is saved and closed.  What the user typed into
\* it goes to the object with the selected index.
PressOpen(p) ==
  /\ FindIndex(p) = NoObject /\ Presses(p) /\ click_index' = NoObject
  /\ \E x \in Points, l \in Layers :
       LET saved == Cardinality(selected_objects) = 1 /\ view_mode = "edit" /\ shown # Closed
           edited == IF saved THEN SavedInto(selected_objects, x, l) ELSE disp_objects
       IN  /\ disp_objects' = Unflagged(edited)
           /\ relayered' = (relayered \/ \E k \in DOMAIN edited : edited[k].layer # disp_objects[k].layer)
  /\ selected_objects' = {} /\ object_selected' = NoObject /\ ui_mode' = "drag"
  /\ shown' = (IF Cardinality(selected_objects) > 1 THEN shown ELSE Closed)
  /\ selecting' = (view_mode = "edit")
  /\ stale' = (stale /\ mouse.down)
  /\ UNCHANGED view_mode

\* action_resize_start: the object pressed before is pressed again.
PressAgain(p) ==
  /\ view_mode = "edit" /\ FindIndex(p) # NoObject /\ FindIndex(p) = object_selected
  /\ Presses(p) /\ click_index' = FindIndex(p)
  /\ ui_mode' = (IF Cardinality(selected_objects) = 1 THEN "resize" ELSE ui_mode)
  /\ UNCHANGED <<disp_objects, view_mode, selected_objects, object_selected, selecting, shown, stale,
                 relayered>>

\* action_select_start: in run mode a rectangle is not selected, and the flags
\* are cleared, not the list.
PressObject(p) ==
  /\ FindIndex(p) # NoObject /\ (view_mode = "run" \/ FindIndex(p) # object_selected)
  /\ Presses(p)
  /\ IF view_mode = "run" /\ Obj(FindIndex(p)).type = "rect"
     THEN /\ disp_objects' = Unflagged(disp_objects)
          /\ click_index' = NoObject /\ UNCHANGED object_selected
     ELSE /\ disp_objects' = Started(disp_objects, {FindIndex(p)})
          /\ click_index' = FindIndex(p) /\ object_selected' = FindIndex(p)
  /\ UNCHANGED <<view_mode, ui_mode, selected_objects, selecting, shown, stale, relayered>>

\* action_move: the selected objects, or the pressed one if none is selected.
Moving(pressed) ==
  LET is == IF selected_objects = {} THEN {pressed} ELSE selected_objects
  IN  {i \in is : ~Obj(i).locked}
Dragged(p, is) ==
  With(disp_objects, is, LAMBDA o : [o EXCEPT !.x = o.x_start + p - mouse.start])

MouseMove(p) ==
  /\ view_mode = "edit" /\ mouse.down
  /\ object_moved' = (object_moved \/ p # mouse.start)
  /\ LET pressed == IF object_selected # NoObject /\ Obj(object_selected).locked THEN NoObject
                    ELSE object_selected
     IN  /\ object_selected' = pressed
         /\ IF ui_mode = "resize" \/ (selected_objects = {} /\ pressed = NoObject)
            THEN UNCHANGED <<disp_objects, click_index, ui_mode>>
            ELSE /\ click_index' = pressed /\ ui_mode' = "move"
                 /\ disp_objects' = Dragged(p, Moving(pressed))
                 /\ \A i \in Indices : disp_objects'[i + 1].x \in Points
  /\ UNCHANGED <<view_mode, selected_objects, mouse, selecting, shown, stale, relayered>>

Clicked == click_index # NoObject /\ ~object_moved

\* What the next press overwrites is forgotten.
Released ==
  /\ mouse.down /\ mouse' = [down |-> FALSE, start |-> 0]
  /\ click_index' = NoObject /\ object_moved' = FALSE

\* show of the box, or hide.
Shown(is) == IF Cardinality(is) = 1 THEN Obj(CHOOSE i \in is : TRUE).name ELSE Closed

\* action_select_end: a click selects and deselects, and one selected object
\* has its properties shown.
ReleaseClick ==
  /\ Released /\ Clicked
  /\ view_mode = "run" => Obj(click_index).type # "input"
  /\ ui_mode' = "select"
  /\ LET i == click_index
         new == IF i \in selected_objects THEN selected_objects \ {i} ELSE selected_objects \cup {i}
     IN  /\ selected_objects' = new
         /\ disp_objects' = With(disp_objects, {i}, LAMBDA o : [o EXCEPT !.selected = i \in new])
         /\ shown' = Shown(new)
  /\ UNCHANGED <<view_mode, object_selected, selecting, stale, relayered>>

\* Faulty variant of Grouped: the places a move starts from are not noted.
GroupedOnly(is) == Flagged(disp_objects, is)

\* action_group_select: the objects in the rectangle.
Grouped(is) == Started(Flagged(disp_objects, is), is)

Between(p, q) == {i \in Indices : Obj(i).x \in (p .. q) \cup (q .. p)}
ReleaseGroup(p) ==
  /\ view_mode = "edit" /\ Released
  /\ ~Clicked /\ ui_mode \notin {"resize", "move"} /\ selecting
  /\ selected_objects' = Between(mouse.start, p) /\ disp_objects' = Grouped(Between(mouse.start, p))
  /\ UNCHANGED <<view_mode, ui_mode, object_selected, selecting, shown, stale, relayered>>

\* action_resize_end: with several objects selected, resize mode is kept.
ResizeEnd ==
  IF Cardinality(selected_objects) = 1 THEN Clear(disp_objects)
  ELSE UNCHANGED <<disp_objects, selected_objects, shown, object_selected, ui_mode, selecting, stale>>

\* action_move_end: what was moved is sent to the node, and let go.
MoveEnd == Clear(disp_objects)

\* In run mode an input was clicked and its variable written, or nothing was.
ReleaseEnd ==
  /\ Released
  /\ IF view_mode = "run" THEN Clicked => Obj(click_index).type = "input"
     ELSE ~Clicked /\ (selecting => ui_mode \in {"resize", "move"})
  /\ CASE view_mode = "run" -> Clear(disp_objects)
       [] view_mode = "edit" /\ ui_mode = "resize" -> ResizeEnd
       [] OTHER -> MoveEnd
  /\ UNCHANGED <<view_mode, relayered>>

Mouse ==
  \E p \in Points :
    \/ PressOpen(p) \/ PressAgain(p) \/ PressObject(p) \/ MouseMove(p)
    \/ ReleaseClick \/ ReleaseGroup(p) \/ ReleaseEnd

-----------------------------------------------------------------------------
(* The keys and the menu.                                                  *)

Escape ==
  /\ Clear(disp_objects)
  /\ UNCHANGED <<view_mode, click_index, mouse, object_moved, relayered>>

\* set_lock by 'q' and 'w', or by the button in the box.
SetLock(l) ==
  /\ selected_objects # {}
  /\ Clear(With(disp_objects, selected_objects, LAMBDA o : [o EXCEPT !.locked = l]))
  /\ UNCHANGED <<view_mode, click_index, mouse, object_moved, relayered>>

SetMode(m) ==
  /\ view_mode # m /\ view_mode' = m /\ ~mouse.down
  /\ UNCHANGED <<disp_objects, ui_mode, selected_objects, pressVars, shown, stale, relayered>>

Uses == selected_objects # {} \/ object_selected # NoObject

\* ui_add: the indices are not moved along.
Add(w, x) ==
  /\ ~mouse.down /\ \A i \in Indices : Obj(i).name # w
  /\ LET top == CHOOSE l \in Layers : \A k \in Layers : k <= l
         o == [name |-> w, type |-> "input", layer |-> top, x |-> x, x_start |-> x,
               locked |-> FALSE, selected |-> FALSE]
     IN  disp_objects' = Placed(o, disp_objects)
  /\ stale' = (stale \/ Uses)
  /\ UNCHANGED <<view_mode, ui_mode, selected_objects, pressVars, shown, relayered>>

HmiNext ==
  \/ Mouse \/ Escape
  \/ \E l \in BOOLEAN : SetLock(l)
  \/ \E m \in {"edit", "run"} : SetMode(m)
  \/ \E w \in Widgets, x \in Points : Add(w, x)

HmiSpec == HmiInit /\ [][HmiNext]_hmiVars

-----------------------------------------------------------------------------
(* Between clicks the marked objects are those the editor works on, and    *)
(* the box, which is saved into the object with the selected index, is     *)
(* open for that one: unless an object was added under the selection, the  *)
(* list was saved with objects selected, or the button was released where  *)
(* the canvas does not learn of it.                                        *)
SelectionAgrees ==
  (~stale /\ ~mouse.down) =>
    /\ selected_objects = {i \in Indices : Obj(i).selected}
    /\ shown # Closed => Cardinality(selected_objects) = 1 /\ \A i \in selected_objects : Obj(i).name = shown

(* Objects that are moved together keep their distances, however they came *)
(* to be selected; unless the button was released where the canvas does    *)
(* not learn of it.                                                        *)
GroupKeepsShape ==
  [][(mouse.down /\ mouse'.down /\ ~stale') =>
       \A i, j \in {k \in selected_objects' : ~Obj(k).locked} :
         Obj(i)'.x - Obj(i).x = Obj(j)'.x - Obj(j).x]_hmiVars

(* A click finds the object that is drawn last at its place, so the one    *)
(* that is seen: objects are inserted by their layer, until one's layer is *)
(* edited in the box, which does not move it in the list.                  *)
ClickHitsTop ==
  relayered \/
    \A i \in Indices : FindIndex(Obj(i).x) = Max({j \in Indices : Obj(j).x = Obj(i).x})

(* Both: what is selected is marked and what is clicked is seen.           *)
EditorAgrees == SelectionAgrees /\ ClickHitsTop

=============================================================================
