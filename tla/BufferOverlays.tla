---------------------------- MODULE BufferOverlays ----------------------------
(***************************************************************************)
(* The overlays of one buffer (buffer.c) kept in an interval tree: making, *)
(* moving and deleting them, the edits of the text that move them, and the *)
(* questions asked of them, which bring the part of the tree they go       *)
(* through up to date.  An overlay and its node are the same thing here.   *)
(***************************************************************************)
EXTENDS Itree

CONSTANTS
  Evaporate,   \* the overlays with that property
  Setups       \* bounds: the overlays that occur, the end of the text at first, the
               \* farthest it may get, and the most that is inserted or deleted at once

ASSUME BufferOverlaysAssumption ==
  /\ Evaporate \subseteq Node
  /\ Setups \subseteq [overlays : SUBSET Node, z : Nat \ {0}, max : Nat, length : Nat]

VARIABLES
  setup,      \* one of Setups
  tree,       \* buffer->overlays
  attached,   \* the overlays whose buffer field is this buffer
  z           \* Z, the end of the text

vars == <<setup, tree, attached, z>>

BEG == 1

-------------------------------------------------------------------------------
(* Overlays come and go *)

(* A tree and the overlays attached to it *)
State(t, overlays) == [tree |-> t, attached |-> overlays]
Becomes(s) == tree' = s.tree /\ attached' = s.attached

add_buffer_overlay(s, o, begin, end) ==
  State(itree_insert(s.tree, o, begin, end), s.attached \union {o})

(* The positions are read on the way, which makes the node clean; what a   *)
(* node keeps once it is out of the tree is not looked at again.           *)
drop_overlay(s, o) ==
  State([itree_remove(itree_validate(s.tree, o), o) EXCEPT !.n[o] = Loose], s.attached \ {o})

Evaporates(s, o) == o \in Evaporate /\ s.tree.n[o].begin = s.tree.n[o].end
Settle(s, o) == IF Evaporates(s, o) THEN drop_overlay(s, o) ELSE s

(* Fmake_overlay, and Fmove_overlay of an overlay that is in no buffer.  One *)
(* that evaporates is given the property next, by Foverlay_put.             *)
MakeOverlay(o, begin, end) ==
  /\ o \notin attached
  /\ Becomes(Settle(add_buffer_overlay(State(tree, attached), o, begin, end), o))
  /\ UNCHANGED <<setup, z>>

(* Fmove_overlay within its buffer *)
MoveOverlay(o, begin, end) ==
  /\ o \in attached
  /\ Becomes(Settle(State(itree_node_set_region(tree, o, begin, end), attached), o))
  /\ UNCHANGED <<setup, z>>

DeleteOverlay(o) ==
  /\ o \in attached
  /\ Becomes(drop_overlay(State(tree, attached), o))
  /\ UNCHANGED <<setup, z>>

Everywhere == Iterator(-1, setup.max + 2, "post_order")
Unlinked(t, x) == [t EXCEPT !.n[x].parent = Nil, !.n[x].left = Nil, !.n[x].right = Nil]

(* The loop unlinks the nodes while it goes over the tree, each when the    *)
(* iterator is already at the next.                                         *)
RECURSIVE Release(_, _)
Release(c, overlays) ==
  LET Unlink(next) == Cursor(Unlinked(next.t, c.node), next.node)
  IN IF c.node = Nil THEN overlays
     ELSE Release(Unlink(itree_iter_next_in_subtree(c, Everywhere)), overlays \ {c.node})

delete_all_overlays ==
  State(itree_create, Release(itree_iterator_first_node(tree, Everywhere), attached))

DeleteAllOverlays ==
  /\ Becomes(delete_all_overlays)
  /\ UNCHANGED <<setup, z>>

-------------------------------------------------------------------------------
(* Edits of the text *)

adjust_overlays_for_insert(s, pos, length, before_markers) ==
  [s EXCEPT !.tree = itree_insert_gap(@, pos, length, before_markers)]

(* The overlays that evaporate are collected first and deleted then, the    *)
(* last one found first.                                                    *)
adjust_overlays_for_delete(s, pos, length) ==
  LET Empty(r) == SelectSeq(r.nodes, LAMBDA o : /\ r.t.n[o].begin = pos
                                                /\ r.t.n[o].end = pos
                                                /\ o \in Evaporate)
      Dropped(r) == FoldLeft(drop_overlay, State(r.t, s.attached), Reverse(Empty(r)))
  IN Dropped(ITREE_FOREACH(itree_delete_gap(s.tree, pos, length), Iterator(pos, pos, "ascending")))

InsertText(pos, length, before_markers) ==
  /\ z + length <= setup.max
  /\ z' = z + length
  /\ Becomes(adjust_overlays_for_insert(State(tree, attached), pos, length, before_markers))
  /\ UNCHANGED setup

DeleteText(pos, length) ==
  /\ pos + length <= z
  /\ z' = z - length
  /\ Becomes(adjust_overlays_for_delete(State(tree, attached), pos, length))
  /\ UNCHANGED setup

(* adjust_markers_for_replace *)
ReplaceText(from, old, new) ==
  /\ from + old <= z
  /\ z + new - old <= setup.max
  /\ z' = z + new - old
  /\ Becomes(adjust_overlays_for_delete(
       adjust_overlays_for_insert(State(tree, attached), from + old, new, TRUE), from, old))
  /\ UNCHANGED setup

-------------------------------------------------------------------------------
(* Questions *)

(* Foverlay_start, Foverlay_end *)
AskPosition(o) ==
  /\ o \in attached
  /\ tree' = itree_validate(tree, o)
  /\ UNCHANGED <<setup, attached, z>>

AskOverlays(begin, end) ==
  /\ tree' = ITREE_FOREACH(tree, Iterator(begin, end, "ascending")).t
  /\ UNCHANGED <<setup, attached, z>>

FoundIn(t, beg, end, empty, trailing) ==
  ITREE_FOREACH(t, Iterator(beg, IF end >= z /\ (empty \/ trailing) THEN z + 1 ELSE z, "ascending"))

(* The nodes come in the order of where they begin, so that leaving the     *)
(* loop leaves out all that begin at or after the place where it is left.   *)
Wanted(r, beg, end, empty) ==
  {o \in ToSet(r.nodes) :
     LET k == r.t.n[o] IN
     /\ \/ k.begin < end
        \/ k.begin = end /\ ~((~empty \/ end < z) /\ beg < end) /\ (empty => k.begin = k.end)
     /\ empty \/ k.begin # k.end}

overlays_in(t, beg, end, empty, trailing) ==
  Wanted(FoundIn(t, beg, end, empty, trailing), beg, end, empty)

(* The rest of the loop of next_overlay_change, it.end being what is found so far *)
RECURSIVE NextChange(_, _)
NextChange(c, it) ==
  LET k == c.t.n[c.node]
      narrow == k.begin < k.end /\ k.end < it.end
  IN IF c.node = Nil THEN it.end
     ELSE IF Yields(c, it) /\ k.begin > it.begin THEN k.begin
     ELSE NextChange(itree_iter_next_in_subtree(c, it),
                     IF Yields(c, it) /\ narrow THEN [it EXCEPT !.end = k.end] ELSE it)

NextChangeFrom(t, it) == NextChange(itree_iterator_first_node(t, it), it)
next_overlay_change(t, pos) == NextChangeFrom(t, Iterator(pos, z, "ascending"))

(* Mutant: an overlay that ends before the range is taken by where it begins. *)
Back_Begin(k, it) == Max({it.begin, k.begin})

Back(k, it) == IF k.end < it.end THEN k.end ELSE Max({it.begin, k.begin})

RECURSIVE PreviousChange(_, _)
PreviousChange(c, it) ==
  IF c.node = Nil THEN it.begin
  ELSE PreviousChange(itree_iter_next_in_subtree(c, it),
                      IF Yields(c, it) THEN [it EXCEPT !.begin = Back(c.t.n[c.node], it)] ELSE it)

PreviousChangeFrom(t, it) == PreviousChange(itree_iterator_first_node(t, it), it)
previous_overlay_change(t, pos) == PreviousChangeFrom(t, Iterator(BEG, pos, "descending"))

-------------------------------------------------------------------------------

Init ==
  /\ setup \in Setups
  /\ tree = itree_create
  /\ attached = {}
  /\ z = setup.z

Lengths == 1..setup.length

Next ==
  \/ \E begin, end \in BEG..z :
       /\ begin <= end
       /\ \/ AskOverlays(begin, end)
          \/ \E o \in setup.overlays : MakeOverlay(o, begin, end) \/ MoveOverlay(o, begin, end)
  \/ \E o \in setup.overlays : DeleteOverlay(o) \/ AskPosition(o)
  \/ DeleteAllOverlays
  \/ \E pos \in BEG..z, length \in Lengths :
       \/ DeleteText(pos, length)
       \/ \E before_markers \in BOOLEAN : InsertText(pos, length, before_markers)
       \/ \E new \in Lengths : ReplaceText(pos, length, new)

Spec == Init /\ [][Next]_vars

-------------------------------------------------------------------------------
(* Properties *)

RECURSIVE Below(_)
Below(x) == IF x = Nil THEN {} ELSE {x} \union UNION {Below(c) : c \in Children(tree, x)}

RECURSIVE InOrder(_)
InOrder(x) ==
  IF x = Nil THEN <<>> ELSE InOrder(tree.n[x].left) \o <<x>> \o InOrder(tree.n[x].right)

RECURSIVE BlackHeights(_)
BlackHeights(x) ==
  IF x = Nil THEN {0}
  ELSE {h + (IF IsRed(tree, x) THEN 0 ELSE 1) :
          h \in BlackHeights(tree.n[x].left) \union BlackHeights(tree.n[x].right)}

BeginOf(x) == tree.n[x].begin + itree_total_offset(tree, x)
EndOf(x)   == tree.n[x].end + itree_total_offset(tree, x)
LimitOf(x) == tree.n[x].limit + itree_total_offset(tree, x)

(* Where the overlays are in the text *)
Regions == [x \in attached |-> [begin |-> BeginOf(x), end |-> EndOf(x)]]

NodeLink == Node \union {Nil}
NodeRecord == [parent : NodeLink, left : NodeLink, right : NodeLink, begin : Int, end : Int,
               limit : Int, offset : Int, clean : BOOLEAN, red : BOOLEAN]

(* The shape of the state: what is not in the tree is loose, and what is in  *)
(* it is linked both ways.                                                   *)
TypeOK ==
  /\ tree \in [root : NodeLink, n : [Node -> NodeRecord]]
  /\ attached \subseteq setup.overlays
  /\ z \in BEG..setup.max
  /\ \A x \in Node \ attached : tree.n[x] = Loose
  /\ \A x \in attached : \A c \in Children(tree, x) : tree.n[c].parent = x
  /\ Below(tree.root) = attached

(* Read from left to right the nodes begin later and later, with the shifts  *)
(* that are still waiting anywhere on the way down counted in.               *)
BeginsInOrder ==
  LET nodes == InOrder(tree.root)
  IN \A i \in 2..Len(nodes) : BeginOf(nodes[i - 1]) <= BeginOf(nodes[i])

(* A limit is the greatest end in the subtree, neither less, which would     *)
(* hide nodes from a search, nor more: check_tree asserts as much.           *)
LimitsExact ==
  \A x \in attached : LimitOf(x) = Max({EndOf(y) : y \in Below(x)})

(* The tree is balanced: no red node has a red child, and every way down     *)
(* passes as many black nodes.                                               *)
RedBlack ==
  /\ ~IsRed(tree, tree.root)
  /\ \A x \in attached : IsRed(tree, x) => \A c \in Children(tree, x) : ~IsRed(tree, c)
  /\ Cardinality(BlackHeights(tree.root)) = 1

(* A clean node can be read as it stands, and so can the nodes above it.     *)
CleanIsCurrent ==
  \A x \in attached :
    tree.n[x].clean =>
      /\ tree.n[x].offset = 0
      /\ tree.n[x].parent = Nil \/ tree.n[tree.n[x].parent].clean

(* What check_tree asserts before and after every change of the tree, and    *)
(* that its links lead to the attached overlays and back.                    *)
check_tree == TypeOK /\ BeginsInOrder /\ LimitsExact /\ RedBlack /\ CleanIsCurrent

Positions == BEG..z

(* An iteration in any order finds every overlay in the range once and no    *)
(* other, whatever part of the tree is out of date when it begins.           *)
IterationFindsRange ==
  LET r == Regions IN
  \A begin, end \in Positions : begin <= end =>
    LET within == {x \in attached : \/ begin < r[x].end /\ r[x].begin < end
                                   \/ r[x] = [begin |-> begin, end |-> begin]}
    IN \A order \in {"ascending", "descending", "pre_order", "post_order"} :
         LET nodes == ITREE_FOREACH(tree, Iterator(begin, end, order)).nodes
         IN ToSet(nodes) = within /\ Len(nodes) = Cardinality(within)

(* What overlays-in and overlays-at return: the overlays that overlap the    *)
(* range, and for the former the empty ones at its start, in it, or at its   *)
(* end if that is the buffer's.  Between different ends overlap means what   *)
(* the doc string says, a character in common.  Between equal ends there is  *)
(* no character, and by the doc string only empty overlays; the code returns *)
(* also those that have the place inside them.                               *)
OverlaysOverlap ==
  LET r == Regions IN
  \A beg, end \in Positions : beg <= end =>
    /\ overlays_in(tree, beg, end, TRUE, FALSE) =
         {x \in attached :
            IF r[x].begin < r[x].end THEN r[x].begin < end /\ beg < r[x].end
            ELSE \/ r[x].begin \in {beg} \union beg..(end - 1)
                 \/ r[x].begin = end /\ end = z}
    /\ overlays_in(tree, beg, beg + 1, FALSE, TRUE) =
         {x \in attached : r[x].begin <= beg /\ beg < r[x].end}

(* The next and the previous change are the nearest places where an overlay  *)
(* starts or ends, although the search narrows its range while it is on it.  *)
ChangesAreNearest ==
  LET boundaries == {Regions[x].begin : x \in attached} \union {Regions[x].end : x \in attached}
  IN \A pos \in Positions :
       /\ next_overlay_change(tree, pos) = Min({p \in boundaries : p > pos} \union {z})
       /\ previous_overlay_change(tree, pos) = Max({p \in boundaries : p < pos} \union {BEG})

(* Every question Lisp asks has the documented answer, but for overlays-in   *)
(* between equal ends, whose answer is the one OverlaysOverlap gives.        *)
AnswersAsDocumentedUnlessEqualEnds == OverlaysOverlap /\ ChangesAreNearest

(* The tree is nothing but a way to keep the overlays where they belong.     *)
Promise == INSTANCE Overlays WITH
  Overlay <- Node,
  region <- [x \in Node |-> IF x \in attached THEN Regions[x] ELSE Nil]

ImplementsOverlays == Promise!Spec
=============================================================================
