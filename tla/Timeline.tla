------------------------------ MODULE Timeline ------------------------------
(***************************************************************************)
(* What undo and redo promise the owner of a whiteboard: the versions of a *)
(* drawing lie on one line, the owner stands at one of them, undo and redo *)
(* walk along it without changing any, a new edit replaces everything that *)
(* had been undone, and only the version shown now can still grow.         *)
(***************************************************************************)
EXTENDS Naturals, Sequences

CONSTANTS Drawings,      \* what can be on the board
          Blank,         \* the drawing a board starts with
          Window,        \* how many versions are remembered
          Grows(_, _)    \* the second drawing is the first, drawn further

VARIABLES versions, at

Init == versions = <<Blank>> /\ at = 1

\* A new version after the present one; the oldest is forgotten when too many.
Edit(d) ==
    LET line == Append(SubSeq(versions, 1, at), d)
    IN  IF at < Window THEN versions' = line /\ at' = at + 1
        ELSE versions' = Tail(line) /\ at' = at

Undo == at > 1 /\ at' = at - 1 /\ versions' = versions

Redo == at < Len(versions) /\ at' = at + 1 /\ versions' = versions

\* The pen moves on: the stroke in progress grows within the present version.
Extend(d) ==
    /\ Grows(versions[at], d)
    /\ versions' = [versions EXCEPT ![at] = d] /\ at' = at

\* The owner's seat goes and the room gets a new whiteboard.
Reset == versions' = <<Blank>> /\ at' = 1

Next == (\E d \in Drawings : Edit(d) \/ Extend(d)) \/ Undo \/ Redo \/ Reset

Spec == Init /\ [][Next]_<<versions, at>>
=============================================================================
