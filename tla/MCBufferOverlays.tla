--------------------------- MODULE MCBufferOverlays ---------------------------
(***************************************************************************)
(* Few overlays with every property anywhere in a short text, and more of  *)
(* them, for the shapes of the tree, with fewer places to be in.           *)
(***************************************************************************)
EXTENDS BufferOverlays, TLC

CONSTANTS front, rear, both, p1, p2, p3, p4, p5, p6

MCPlain == {p1, p2, p3, p4, p5, p6}
MCKinds  == [overlays |-> {front, rear, both}, z |-> 3, max |-> 3, length |-> 2]
MCShapes == [overlays |-> MCPlain, z |-> 2, max |-> 2, length |-> 1]
MCSetups == {MCKinds, MCShapes}

(* The plain overlays are interchangeable: two trees of the same shape whose *)
(* nodes have the same fields are one state.  This is what symmetry over     *)
(* MCPlain would do, without going through its 720 permutations.  A state    *)
(* that is no tree is itself.                                                *)
RECURSIVE MCShape(_)
MCShape(x) ==
  IF x = Nil THEN <<>>
  ELSE << IF x \in MCPlain THEN Nil ELSE x,
          [tree.n[x] EXCEPT !.parent = Nil, !.left = MCShape(@), !.right = MCShape(@)] >>

MCView == IF TypeOK THEN <<setup, z, MCShape(tree.root)>> ELSE vars
=============================================================================
