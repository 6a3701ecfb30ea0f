--------------------------- MODULE DrawingHistory ---------------------------
(***************************************************************************)
(* One drawing of a room's whiteboard - the board tab, or one page of a    *)
(* PDF tab - with its undo and redo stacks (video/video.gateway.ts: the    *)
(* whiteboard-stroke-*, -clear, -undo and -redo handlers).  Every handler  *)
(* here is synchronous and open to the room's creator only, so the actions *)
(* are the handlers, in any order.  A stroke is its id and how many points *)
(* it has; its colour, text and coordinates are left out.  The names that  *)
(* every specification has begin with Drawing here, so that a module can   *)
(* extend this one together with Whiteboard.                               *)
(***************************************************************************)
EXTENDS Naturals, Sequences, SequencesExt

CONSTANTS Ids,           \* stroke ids, chosen by the client
          MaxStrokes,    \* WHITEBOARD_MAX_STROKES
          MaxPoints,     \* WHITEBOARD_MAX_POINTS_PER_STROKE
          MaxHistory     \* WHITEBOARD_MAX_HISTORY_ENTRIES

ASSUME LimitsAssumption ==
    /\ MaxStrokes \in Nat \ {0}
    /\ MaxPoints \in Nat \ {0}
    /\ MaxHistory \in Nat \ {0}

VARIABLES active,        \* room.whiteboard.isActive
          strokes,       \* target.strokes
          undo, redo     \* target.undoStack, target.redoStack

drawingVars == <<active, strokes, undo, redo>>

Stroke == [id : Ids, points : 1..MaxPoints]

Drawing == BoundedSeq(Stroke, MaxStrokes)

DrawingTypeOK ==
    /\ active \in BOOLEAN
    /\ strokes \in Drawing
    /\ undo \in Seq(Drawing) /\ Len(undo) <= MaxHistory
    /\ redo \in Seq(Drawing) /\ Len(redo) <= MaxHistory

DrawingInit == active = FALSE /\ strokes = <<>> /\ undo = <<>> /\ redo = <<>>

-----------------------------------------------------------------------------
HasId(d, id) == \E i \in DOMAIN d : d[i].id = id

\* slice(length - n): the n newest entries.
Newest(s, n) == IF Len(s) <= n THEN s ELSE SubSeq(s, Len(s) - n + 1, Len(s))

\* pushWhiteboardHistory
PushHistory_Bug(next) ==                                    \* redo survives an edit
    /\ undo' = Newest(Append(undo, strokes), MaxHistory)
    /\ redo' = redo
    /\ strokes' = next
PushHistory(next) ==
    /\ undo' = Newest(Append(undo, strokes), MaxHistory)
    /\ redo' = <<>>
    /\ strokes' = next

-----------------------------------------------------------------------------
\* whiteboard-start, -tab-activate and -pdf-add; whiteboard-stop
Activate == active' = TRUE /\ UNCHANGED <<strokes, undo, redo>>
Deactivate == active' = FALSE /\ UNCHANGED <<strokes, undo, redo>>

\* A stroke whose id is on the drawing already is skipped.
StrokeAdd_Bug(id, n) ==                                   \* a repeated start is drawn
    /\ active
    /\ PushHistory(Newest(Append(strokes, [id |-> id, points |-> n]), MaxStrokes))
    /\ UNCHANGED active
StrokeAdd(id, n) ==
    /\ active /\ ~ HasId(strokes, id)
    /\ PushHistory(Newest(Append(strokes, [id |-> id, points |-> n]), MaxStrokes))
    /\ UNCHANGED active

\* Points beyond the cap are dropped; no version is pushed.
Appended(i, n) == [strokes EXCEPT ![i].points = IF @ + n <= MaxPoints THEN @ + n ELSE MaxPoints]

StrokeAppend_Bug(i, n) ==                                   \* undo shares its strokes
    /\ active /\ strokes[i].points < MaxPoints
    /\ strokes' = Appended(i, n)
    /\ undo' = [k \in DOMAIN undo |->
                  [j \in DOMAIN undo[k] |->
                     IF undo[k][j].id = strokes[i].id THEN strokes'[i] ELSE undo[k][j]]]
    /\ UNCHANGED <<active, redo>>
StrokeAppend(i, n) ==
    /\ active /\ strokes[i].points < MaxPoints
    /\ strokes' = Appended(i, n)
    /\ UNCHANGED <<active, undo, redo>>

\* The filter drops the one stroke with the id asked for (see UniqueIds).
StrokeRemove(i) ==
    /\ active
    /\ PushHistory(RemoveAt(strokes, i))
    /\ UNCHANGED active

\* The stroke gets other points, or only another style.
StrokeUpdate(i, n) ==
    /\ active
    /\ PushHistory([strokes EXCEPT ![i].points = n])
    /\ UNCHANGED active

\* Open while the whiteboard is stopped, too.
StrokesClear ==
    /\ strokes # <<>>
    /\ PushHistory(<<>>)
    /\ UNCHANGED active

Undo ==
    /\ active /\ undo # <<>>
    /\ redo' = Newest(Append(redo, strokes), MaxHistory)
    /\ strokes' = Last(undo)
    /\ undo' = Front(undo)
    /\ UNCHANGED active

Redo ==
    /\ active /\ redo # <<>>
    /\ undo' = Newest(Append(undo, strokes), MaxHistory)
    /\ strokes' = Last(redo)
    /\ redo' = Front(redo)
    /\ UNCHANGED active

\* removePeer of the creator's seat: createDefaultWhiteboardState
Reset == active' = FALSE /\ strokes' = <<>> /\ undo' = <<>> /\ redo' = <<>>

DrawingNext ==
    \/ Activate \/ Deactivate \/ StrokesClear \/ Undo \/ Redo \/ Reset
    \/ \E id \in Ids, n \in 1..MaxPoints : StrokeAdd(id, n)
    \/ \E i \in DOMAIN strokes : StrokeRemove(i)
    \/ \E i \in DOMAIN strokes, n \in 1..MaxPoints : StrokeAppend(i, n) \/ StrokeUpdate(i, n)

DrawingSpec == DrawingInit /\ [][DrawingNext]_drawingVars

-----------------------------------------------------------------------------
(* Properties *)

\* A stroke id names one stroke: in the drawing shown and in every version that
\* undo or redo can bring back, although an id can be drawn again after its
\* stroke was removed, cleared, undone or trimmed away.
UniqueIds ==
    \A d \in {strokes} \cup Range(undo) \cup Range(redo) :
        \A i, j \in DOMAIN d : d[i].id = d[j].id => i = j

\* The two stacks together never outgrow one history, so the trimming inside
\* undo and redo never costs a version: what was undone can be redone.
HistoryFits == Len(undo) + Len(redo) <= MaxHistory

\* The stacks implement the timeline: the undo stack is the past, the redo stack
\* read backwards is the future.
Grown(d, e) ==
    /\ DOMAIN e = DOMAIN d
    /\ \A i \in DOMAIN d : e[i].id = d[i].id /\ e[i].points >= d[i].points

Versions == undo \o <<strokes>> \o Reverse(redo)

Line == INSTANCE Timeline
          WITH Drawings <- Drawing, Blank <- <<>>, Window <- MaxHistory + 1,
               Grows <- Grown, versions <- Versions, at <- Len(undo) + 1

ImplementsTimeline == Line!Spec
=============================================================================
