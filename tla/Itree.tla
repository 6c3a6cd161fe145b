-------------------------------- MODULE Itree --------------------------------
(***************************************************************************)
(* The interval tree that holds the overlays of a buffer (itree.c): a      *)
(* red-black tree ordered by where the intervals begin, in which every     *)
(* node knows the greatest end below it (limit) and a shift of a whole     *)
(* subtree is left in its root (offset) until somebody goes through.       *)
(*                                                                         *)
(* A tree is [root, n], n giving the fields of every node; an operator     *)
(* named after a C function maps a tree to what the function leaves.       *)
(* otick is kept as "clean": whether the node's otick is the tree's.       *)
(* Left and right are fields picked by name, so that the two mirror images *)
(* of a case are one.  The count of nodes and the assertions are left out. *)
(* A cursor [t, node] is a tree and a place in it.                         *)
(***************************************************************************)
EXTENDS Integers, Sequences, FiniteSets, SequencesExt, FiniteSetsExt

CONSTANTS
  Node, Nil,
  FrontAdvance, RearAdvance   \* the nodes whose ends advance over text inserted there

ASSUME ItreeAssumption == Nil \notin Node /\ FrontAdvance \subseteq Node /\ RearAdvance \subseteq Node

Side == {"left", "right"}
Opposite == [left |-> "right", right |-> "left"]

(* A node that is in no tree *)
Loose == [parent |-> Nil, left |-> Nil, right |-> Nil, begin |-> 0, end |-> 0,
          limit |-> 0, offset |-> 0, clean |-> FALSE, red |-> FALSE]

Cursor(t, x) == [t |-> t, node |-> x]

itree_create == [root |-> Nil, n |-> [x \in Node |-> Loose]]

Children(t, x) == {t.n[x].left, t.n[x].right} \ {Nil}
IsRed(t, x) == x # Nil /\ t.n[x].red

Paint(t, blacks, reds) ==
  [t EXCEPT !.n = [x \in Node |-> [t.n[x] EXCEPT !.red = (@ \/ x \in reds) /\ x \notin blacks]]]

-------------------------------------------------------------------------------
(* Limits and offsets *)

itree_newlimit(t, x) ==
  Max({t.n[x].end} \union {t.n[c].limit + t.n[c].offset : c \in Children(t, x)})

itree_update_limit(t, x) == [t EXCEPT !.n[x].limit = itree_newlimit(t, x)]

RECURSIVE itree_propagate_limit(_, _)
itree_propagate_limit(t, x) ==
  IF x = Nil \/ t.n[x].limit = itree_newlimit(t, x) THEN t
  ELSE itree_propagate_limit(itree_update_limit(t, x), t.n[x].parent)

itree_inherit_offset(t, x) ==
  LET k == t.n[x] IN
  IF k.clean THEN t
  ELSE [t EXCEPT !.n = [y \in Node |->
         CASE y = x -> [k EXCEPT !.begin = k.begin + k.offset, !.end = k.end + k.offset,
                                 !.limit = k.limit + k.offset, !.offset = 0,
                                 !.clean = k.parent = Nil \/ t.n[k.parent].clean]
           [] y \in Children(t, x) -> [t.n[y] EXCEPT !.offset = @ + k.offset]
           [] OTHER -> t.n[y]]]

RECURSIVE itree_validate(_, _)
itree_validate(t, x) ==
  IF t.n[x].clean THEN t
  ELSE itree_inherit_offset(IF x = t.root THEN t ELSE itree_validate(t, t.n[x].parent), x)

(* What is still to be applied to a node below x *)
RECURSIVE itree_total_offset(_, _)
itree_total_offset(t, x) ==
  t.n[x].offset + (IF t.n[x].parent = Nil THEN 0 ELSE itree_total_offset(t, t.n[x].parent))

(* The subtree of x is shifted, and nothing in the tree is clean any more. *)
ShiftSubtree(t, x, length) ==
  [t EXCEPT !.n = [y \in Node |->
     [t.n[y] EXCEPT !.clean = FALSE, !.offset = IF y = x THEN @ + length ELSE @]]]

-------------------------------------------------------------------------------
(* Linking and rotating *)

Link(t, parent, side, child) ==
  [t EXCEPT !.n = [y \in Node |->
     CASE y = parent -> [t.n[y] EXCEPT ![side] = child]
       [] y = child  -> [t.n[y] EXCEPT !.parent = parent]
       [] OTHER      -> t.n[y]]]

(* source takes the place of dest below dest's parent. *)
itree_replace_child(t, source, dest) ==
  LET parent == t.n[dest].parent
      side   == IF t.n[parent].left = dest THEN "left" ELSE "right"
  IN [t EXCEPT !.root = IF @ = dest THEN source ELSE @,
               !.n = [y \in Node |->
                 CASE y = source -> [t.n[y] EXCEPT !.parent = parent]
                   [] y = parent -> [t.n[y] EXCEPT ![side] = source]
                   [] OTHER      -> t.n[y]]]

(* ... with dest's children and colour as well. *)
itree_transplant(t, source, dest) ==
  LET k == t.n[dest]
  IN [Link(Link(itree_replace_child(t, source, dest), source, "left", k.left),
           source, "right", k.right) EXCEPT !.n[source].red = k.red]

(* x goes down on the side, and its child on the other side comes up.  To   *)
(* the right the limits are computed in the order the comment in the mirror *)
(* image warns of.                                                          *)
Turn(t, x, up, side) ==
  FoldLeft(itree_update_limit,
           Link(itree_replace_child(Link(t, x, Opposite[side], t.n[up][side]), up, x), up, side, x),
           IF side = "left" THEN <<x, up>> ELSE <<up, x>>)

itree_rotate(t, x, side) ==
  LET up == t.n[x][Opposite[side]]
  IN Turn(itree_inherit_offset(itree_inherit_offset(t, x), up), x, up, side)

-------------------------------------------------------------------------------
(* Insertion *)

RECURSIVE itree_insert_fix(_, _)
itree_insert_fix(t, x) ==
  LET parent == t.n[x].parent IN
  IF ~IsRed(t, parent) THEN Paint(t, {t.root}, {})
  ELSE LET grand  == t.n[parent].parent
           side   == IF parent = t.n[grand].left THEN "left" ELSE "right"
           uncle  == t.n[grand][Opposite[side]]
           inner  == x = t.n[parent][Opposite[side]]
           turned == IF inner THEN itree_rotate(t, parent, side) ELSE t
           upper  == IF inner THEN x ELSE parent
           lower  == IF inner THEN parent ELSE x
       IN IF IsRed(t, uncle)
          THEN itree_insert_fix(Paint(t, {parent, uncle}, {grand}), grand)
          ELSE itree_insert_fix(
                 itree_rotate(Paint(turned, {upper}, {grand}), grand, Opposite[side]), lower)

(* Down to the place where x belongs, raising the limits on the way *)
RECURSIVE Descend(_, _, _)
Descend(t, parent, x) ==
  LET side  == IF t.n[x].begin <= t.n[parent].begin THEN "left" ELSE "right"
      child == IF parent = Nil THEN t.root ELSE t.n[parent][side]
      Raised(u) == [u EXCEPT !.n[child].limit = Max({@, t.n[x].end})]
  IN IF child = Nil THEN Cursor(t, parent)
     ELSE Descend(Raised(itree_inherit_offset(t, child)), child, x)

Fresh(k, parent) ==
  [k EXCEPT !.parent = parent, !.left = Nil, !.right = Nil, !.offset = 0, !.limit = k.end,
            !.red = parent # Nil]

Attach(c, x) ==
  LET added == [c.t EXCEPT !.n[x] = Fresh(@, c.node)]
      side  == IF added.n[x].begin <= added.n[c.node].begin THEN "left" ELSE "right"
  IN IF c.node = Nil THEN [added EXCEPT !.root = x]
     ELSE itree_insert_fix(Link(added, c.node, side, x), x)

itree_insert_node(t, x) == Attach(Descend(t, Nil, x), x)

itree_insert(t, x, begin, end) ==
  itree_insert_node([t EXCEPT !.n[x].begin = begin, !.n[x].end = end, !.n[x].clean = TRUE], x)

-------------------------------------------------------------------------------
(* Removal *)

RECURSIVE itree_subtree_min(_, _)
itree_subtree_min(t, x) ==
  IF t.n[x].left = Nil THEN Cursor(itree_inherit_offset(t, x), x)
  ELSE itree_subtree_min(itree_inherit_offset(t, x), t.n[x].left)

(* Mutant: the node that comes up does not take over the parent's colour. *)
LastTurn_OwnColour(t, parent, side) ==
  LET away == Opposite[side]
  IN itree_rotate(Paint(t, {parent, t.n[t.n[parent][away]][away]}, {}), parent, side)

(* The side of parent is a black node short, and its other child is black:  *)
(* the last rotation makes up for it.                                       *)
LastTurn(t, parent, side) ==
  LET away  == Opposite[side]
      other == t.n[parent][away]
      black == {parent, t.n[other][away]} \union (IF IsRed(t, parent) THEN {} ELSE {other})
  IN itree_rotate(Paint(t, black, {other} \ black), parent, side)

BlackRoot(t) == Paint(t, {t.root}, {})

(* The subtree of x below parent is a black node short. *)
RECURSIVE itree_remove_fix(_, _, _)
itree_remove_fix(t, x, parent) ==
  LET side  == IF x = t.n[parent].left THEN "left" ELSE "right"
      away  == Opposite[side]
      first == t.n[parent][away]
      BelowBlack(u) ==
        LET other == u.n[parent][away]
            near  == u.n[other][side]
            far   == u.n[other][away]
        IN IF ~IsRed(u, near) /\ ~IsRed(u, far)
           THEN itree_remove_fix(Paint(u, {}, {other}), parent, u.n[parent].parent)
           ELSE BlackRoot(LastTurn(
                  IF IsRed(u, far) THEN u ELSE itree_rotate(Paint(u, {near}, {other}), other, away),
                  parent, side))
  IN IF parent = Nil \/ IsRed(t, x) THEN Paint(t, {x}, {})
     ELSE BelowBlack(IF ~IsRed(t, first) THEN t
                     ELSE itree_rotate(Paint(t, {first}, {parent}), parent, side))

(* What is spliced out: x, or its successor when x has two children *)
Splice(t, x) ==
  IF Cardinality(Children(t, x)) < 2 THEN Cursor(t, x) ELSE itree_subtree_min(t, t.n[x].right)

(* splice, which is out of its place, takes the place of x. *)
Exchange(t, splice, x, subtree_parent) ==
  LET Limits(u) == IF splice = subtree_parent THEN u ELSE itree_update_limit(u, splice)
  IN IF splice = x THEN t
     ELSE Limits(itree_propagate_limit(itree_transplant(t, splice, x), subtree_parent))

Rebalance(t, removed_black, subtree, parent) ==
  IF removed_black THEN itree_remove_fix(t, subtree, parent) ELSE t

(* x, which must be clean, is taken out; its begin and end stay. *)
RemoveWith(c, x) ==
  LET k       == c.t.n[c.node]
      subtree == IF k.left # Nil THEN k.left ELSE k.right
      subtree_parent == IF k.parent # x THEN k.parent ELSE c.node
      swapped == Exchange(itree_replace_child(c.t, subtree, c.node), c.node, x, subtree_parent)
  IN [Rebalance(itree_propagate_limit(swapped, c.t.n[x].parent), ~k.red, subtree, subtree_parent)
      EXCEPT !.n[x].red = FALSE, !.n[x].parent = Nil, !.n[x].left = Nil,
             !.n[x].right = Nil, !.n[x].limit = 0]

itree_remove(t, x) == RemoveWith(Splice(itree_inherit_offset(t, x), x), x)

SetEnds(t, x, begin, end) == [t EXCEPT !.n[x].begin = begin, !.n[x].end = end]

SetRegion(t, x, begin, end) ==
  IF begin # t.n[x].begin THEN itree_insert_node(SetEnds(itree_remove(t, x), x, begin, end), x)
  ELSE itree_propagate_limit(SetEnds(t, x, begin, end), x)

itree_node_set_region(t, x, begin, end) == SetRegion(itree_validate(t, x), x, begin, end)

-------------------------------------------------------------------------------
(* Iteration *)

itree_node_intersects(t, x, begin, end) ==
  LET k == t.n[x] IN
  \/ begin < k.end /\ k.begin < end
  \/ k.begin = k.end /\ begin = k.begin

(* The first ancestor that x is not on the given side of *)
RECURSIVE Climb(_, _, _)
Climb(t, x, side) ==
  LET up == t.n[x].parent IN
  IF up = Nil \/ t.n[up][side] # x THEN up ELSE Climb(t, up, side)

RECURSIVE Leftmost(_, _)
Leftmost(c, begin) ==
  LET left == c.t.n[c.node].left
      From(t) == IF begin <= t.n[left].limit THEN Leftmost(Cursor(t, left), begin)
                 ELSE Cursor(t, c.node)
  IN IF left = Nil THEN c ELSE From(itree_inherit_offset(c.t, left))

RECURSIVE Rightmost(_, _)
Rightmost(c, end) ==
  LET right == c.t.n[c.node].right IN
  IF c.t.n[c.node].begin > end \/ right = Nil THEN c
  ELSE Rightmost(Cursor(itree_inherit_offset(c.t, right), right), end)

(* The next right subtree to go into on the way up *)
RECURSIVE ClimbToRight(_, _, _)
ClimbToRight(t, x, end) ==
  LET up    == t.n[x].parent
      right == t.n[up].right
  IN IF up = Nil THEN Cursor(t, Nil)
     ELSE IF right # x /\ t.n[up].begin <= end /\ right # Nil
          THEN Cursor(itree_inherit_offset(t, right), right)
     ELSE ClimbToRight(t, up, end)

(* The left child of x has been brought up to date, whether or not its limit *)
(* is before the range.                                                      *)
Look(t, x) == IF t.n[x].left = Nil THEN t ELSE itree_inherit_offset(t, t.n[x].left)

(* Mutant: a subtree that ends where the range begins is passed over. *)
Reaches_Short(t, x, begin) == t.n[x].left # Nil /\ begin < t.n[t.n[x].left].limit

Reaches(t, x, begin) == t.n[x].left # Nil /\ begin <= t.n[t.n[x].left].limit

RECURSIVE Deepest(_, _, _, _)
Deepest(t, x, begin, end) ==
  LET From(u) ==
        LET right == u.n[x].right IN
        IF Reaches(u, x, begin) THEN Deepest(u, u.n[x].left, begin, end)
        ELSE IF u.n[x].begin <= end /\ right # Nil
             THEN Deepest(itree_inherit_offset(u, right), right, begin, end)
        ELSE Cursor(u, x)
  IN From(Look(t, x))

(* Ascending stops at the first node that begins after the range. *)
CutOff(c, end) == IF c.node # Nil /\ c.t.n[c.node].begin > end THEN [c EXCEPT !.node = Nil] ELSE c

Ascend(t, x, it) ==
  LET right == t.n[x].right
  IN CutOff(IF right = Nil THEN Cursor(t, Climb(t, x, "right"))
            ELSE Leftmost(Cursor(itree_inherit_offset(t, right), right), it.begin), it.end)

GoDown(t, x, it) ==
  IF Reaches(t, x, it.begin) THEN Rightmost(Cursor(t, t.n[x].left), it.end)
  ELSE Cursor(t, Climb(t, x, "left"))

PreOrder(t, x, it) ==
  LET right == t.n[x].right
  IN IF Reaches(t, x, it.begin) THEN Cursor(t, t.n[x].left)
     ELSE IF t.n[x].begin <= it.end /\ right # Nil
          THEN Cursor(itree_inherit_offset(t, right), right)
     ELSE ClimbToRight(t, x, it.end)

PostOrder(t, x, it) ==
  LET up    == t.n[x].parent
      other == t.n[up].right
  IN IF up = Nil \/ other = x \/ t.n[up].begin > it.end \/ other = Nil THEN Cursor(t, up)
     ELSE Deepest(itree_inherit_offset(t, other), other, it.begin, it.end)

itree_iter_next_in_subtree(c, it) ==
  CASE it.order = "ascending"  -> Ascend(c.t, c.node, it)
    [] it.order = "descending" -> GoDown(Look(c.t, c.node), c.node, it)
    [] it.order = "pre_order"  -> PreOrder(Look(c.t, c.node), c.node, it)
    [] it.order = "post_order" -> PostOrder(c.t, c.node, it)

FirstFrom(c, it) ==
  CASE it.order = "ascending"  -> CutOff(Leftmost(c, it.begin), it.end)
    [] it.order = "descending" -> IF c.t.n[c.node].limit < it.begin THEN Cursor(c.t, Nil)
                                  ELSE Rightmost(c, it.end)
    [] it.order = "pre_order"  -> c
    [] it.order = "post_order" -> Deepest(c.t, c.node, it.begin, it.end)

itree_iterator_first_node(t, it) ==
  IF t.root = Nil THEN Cursor(t, Nil)
  ELSE FirstFrom(Cursor(itree_inherit_offset(t, t.root), t.root), it)

Iterator(begin, end, order) == [begin |-> begin, end |-> end, order |-> order]

Yields(c, it) == itree_node_intersects(c.t, c.node, it.begin, it.end)

(* What is left of an iteration that is at c: the tree after it and the      *)
(* nodes it yields.  The iterator is one node ahead of the loop it serves.   *)
RECURSIVE Rest(_, _, _)
Rest(c, it, found) ==
  IF c.node = Nil THEN [t |-> c.t, nodes |-> found]
  ELSE Rest(itree_iter_next_in_subtree(c, it), it,
            IF Yields(c, it) THEN Append(found, c.node) ELSE found)

ITREE_FOREACH(t, it) == Rest(itree_iterator_first_node(t, it), it, <<>>)

-------------------------------------------------------------------------------
(* Gaps *)

(* The nodes whose beginning goes over a gap at pos that others stay before *)
Advancing(t, nodes, pos) ==
  SelectSeq(nodes, LAMBDA x : /\ t.n[x].begin = pos /\ x \in FrontAdvance
                              /\ t.n[x].begin # t.n[x].end \/ x \in RearAdvance)

(* Where the walk still has to go from a node, right first; not to the right *)
(* when that subtree has been shifted as a whole.                            *)
Onward(k, whole) ==
  SelectSeq(IF whole THEN <<k.left>> ELSE <<k.right, k.left>>, LAMBDA c : c # Nil)

(* One node under an insertion, g being the gap *)
Expand(t, x, g) ==
  LET k == t.n[x]
      moved == IF k.begin > g.pos \/ (g.before_markers /\ k.begin = g.pos)
               THEN k.begin + g.length ELSE k.begin
  IN IF k.end > g.pos \/ (k.end = g.pos /\ (g.before_markers \/ x \in RearAdvance))
     THEN itree_propagate_limit(SetEnds(t, x, moved, k.end + g.length), x)
     ELSE SetEnds(t, x, moved, k.end)

RECURSIVE InsertWalk(_, _, _)
InsertWalk(t, stack, g) ==
  LET x == Last(stack)
      From(u) ==
        LET k     == u.n[x]
            whole == k.right # Nil /\ k.begin > g.pos
        IN IF g.pos > k.limit THEN InsertWalk(u, Front(stack), g)
           ELSE InsertWalk(Expand(IF whole THEN ShiftSubtree(u, k.right, g.length) ELSE u, x, g),
                           Front(stack) \o Onward(k, whole), g)
  IN IF stack = <<>> THEN t ELSE From(itree_inherit_offset(t, x))

Walked(t, g) == IF t.root = Nil THEN t ELSE InsertWalk(t, <<t.root>>, g)

(* The nodes in between are taken out of the way and put back behind the gap. *)
InsertAround(t, saved, g) ==
  LET PutBack(u, x) == itree_insert(u, x, u.n[x].begin + g.length, u.n[x].end + g.length)
  IN FoldLeft(PutBack, Walked(FoldLeft(itree_remove, t, saved), g), Reverse(saved))

itree_insert_gap(t, pos, length, before_markers) ==
  LET g == [pos |-> pos, length |-> length, before_markers |-> before_markers]
      Around(r) == InsertAround(r.t, Advancing(r.t, r.nodes, pos), g)
  IN IF t.root = Nil THEN t
     ELSE IF before_markers THEN InsertAround(t, <<>>, g)
     ELSE Around(ITREE_FOREACH(t, Iterator(pos, pos + 1, "pre_order")))

(* One node under a deletion *)
Contract(t, x, pos, length) ==
  LET k == t.n[x]
      moved == IF pos < k.begin THEN Max({pos, k.begin - length}) ELSE k.begin
  IN IF k.end > pos
     THEN itree_propagate_limit(SetEnds(t, x, moved, Max({pos, k.end - length})), x)
     ELSE SetEnds(t, x, moved, k.end)

(* Mutant: a subtree is shifted whole as soon as it is behind the start. *)
Behind_Start(k, pos, length) == k.right # Nil /\ k.begin > pos

Behind(k, pos, length) == k.right # Nil /\ k.begin > pos + length

RECURSIVE DeleteWalk(_, _, _, _)
DeleteWalk(t, stack, pos, length) ==
  LET x == Last(stack)
      From(u) ==
        LET k     == u.n[x]
            whole == Behind(k, pos, length)
        IN IF pos > k.limit THEN DeleteWalk(u, Front(stack), pos, length)
           ELSE DeleteWalk(Contract(IF whole THEN ShiftSubtree(u, k.right, -length) ELSE u,
                                    x, pos, length),
                           Front(stack) \o Onward(k, whole), pos, length)
  IN IF stack = <<>> THEN t ELSE From(itree_inherit_offset(t, x))

itree_delete_gap(t, pos, length) ==
  IF t.root = Nil THEN t ELSE DeleteWalk(t, <<t.root>>, pos, length)
=============================================================================
