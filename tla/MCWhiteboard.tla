---------------------------- MODULE MCWhiteboard ----------------------------
(***************************************************************************)
(* An instance of Whiteboard for TLC.  Page states, adds under way and the *)
(* moves of the creator's own devices do not read each other's state: a    *)
(* behaviour with two adds under way is followed while no tab has pages    *)
(* and no device is joining.                                               *)
(***************************************************************************)
EXTENDS Whiteboard, TLC

CONSTANTS f1, f2, f3

MCSizeOf == f1 :> 1 @@ f2 :> 1 @@ f3 :> 2
MCPdfTabLimit == "none" :> 1 @@ "premium" :> 2
MCBytesLimit == "none" :> 1 @@ "premium" :> 2

OneConcern ==
    Cardinality({r \in Requests : adds[r].op # "none"}) > 1
      => joining = {} /\ \A t \in PdfTabs : wb.pages[t] = {}

Symmetry ==
    Permutations(Sockets) \cup Permutations(TabIds) \cup Permutations(Requests)
      \cup Permutations({f1, f2})
=============================================================================
