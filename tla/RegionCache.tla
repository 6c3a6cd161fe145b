----------------------------- MODULE RegionCache -----------------------------
(***************************************************************************)
(* The region cache (region-cache.c): what is known of the text, kept as a *)
(* sorted array of boundaries with a gap.  Positions before the gap count  *)
(* from the start of the buffer and those after it from its end, so that   *)
(* an edit at the gap moves them by changing buffer_end alone.  Edits only *)
(* narrow beg_unchanged and end_unchanged; the boundaries are put right    *)
(* when the cache is next used.                                            *)
(*                                                                         *)
(* A cache is a record; the array is the sequence c.boundaries without the *)
(* room of its gap, and its indices start at 1.                            *)
(***************************************************************************)
EXTENDS Integers, Sequences, FiniteSetsExt

CONSTANT PreserveThreshold   \* PRESERVE_THRESHOLD

BEG == 1

(* struct region_cache *)
Cache == [boundaries : Seq([pos : Int, value : {0, 1}]), gap_start : Int,
          beg_unchanged : Int, end_unchanged : Int, buffer_end : Int]

new_region_cache ==
  [boundaries |-> <<[pos |-> 0, value |-> 0]>>, gap_start |-> 1,
   beg_unchanged |-> 0, end_unchanged |-> 0, buffer_end |-> BEG]

cache_len(c) == Len(c.boundaries)

BOUNDARY_POS(c, i) ==
  (IF i <= c.gap_start THEN BEG ELSE c.buffer_end) + c.boundaries[i].pos

BOUNDARY_VALUE(c, i) == c.boundaries[i].value

SET_BOUNDARY_VALUE(c, i, v) == [c EXCEPT !.boundaries[i].value = v]

(* The last boundary at or before POS. *)
find_cache_boundary(c, pos) ==
  Max({i \in 1..cache_len(c) : BOUNDARY_POS(c, i) <= pos} \cup {1})

(* The first N boundaries count from the start of the buffer from now on. *)
move_cache_gap(c, n) ==
  [c EXCEPT !.gap_start = n,
            !.boundaries =
              [i \in 1..cache_len(c) |->
                [@[i] EXCEPT !.pos =
                   BOUNDARY_POS(c, i) - (IF i <= n THEN BEG ELSE c.buffer_end)]]]

(* A new boundary with index I, before the gap, which is just there. *)
InsertAtGap(c, i, pos, value) ==
  [c EXCEPT !.boundaries = SubSeq(@, 1, i - 1)
                           \o <<[pos |-> pos - BEG, value |-> value]>>
                           \o SubSeq(@, i, Len(@)),
            !.gap_start = i]

insert_cache_boundary(c, i, pos, value) == InsertAtGap(move_cache_gap(c, i - 1), i, pos, value)

(* The boundaries from index START up to, but not including, END are gone. *)
DeleteAtGap(c, start, end) ==
  [c EXCEPT !.boundaries = SubSeq(@, 1, start - 1) \o SubSeq(@, end, Len(@)),
            !.gap_start = start - 1]

delete_cache_boundaries(c, start, end) ==
  IF start = end THEN c
  ELSE DeleteAtGap(IF c.gap_start < start THEN move_cache_gap(c, start - 1)
                   ELSE IF end <= c.gap_start + 1 THEN move_cache_gap(c, end - 1)
                   ELSE c, start, end)

(* The boundary at START: changed, removed, added or left out. *)
StartRegion(c, ix, start, value) ==
  IF BOUNDARY_POS(c, ix) = start
  THEN IF ix > 1 /\ BOUNDARY_VALUE(c, ix - 1) = value
       THEN [cache |-> delete_cache_boundaries(c, ix, ix + 1), ix |-> ix - 1]
       ELSE [cache |-> SET_BOUNDARY_VALUE(c, ix, value), ix |-> ix]
  ELSE IF BOUNDARY_VALUE(c, ix) # value
       THEN [cache |-> insert_cache_boundary(c, ix + 1, start, value), ix |-> ix + 1]
       ELSE [cache |-> c, ix |-> ix]

(* The boundary at END, with what followed there before; S is what           *)
(* StartRegion left.                                                         *)
EndRegion(s, end, value, value_at_end) ==
  IF end = s.cache.buffer_end THEN s.cache
  ELSE IF s.ix = cache_len(s.cache) \/ end < BOUNDARY_POS(s.cache, s.ix + 1)
  THEN IF value_at_end # value THEN insert_cache_boundary(s.cache, s.ix + 1, end, value_at_end)
       ELSE s.cache
  ELSE IF value = BOUNDARY_VALUE(s.cache, s.ix + 1)
       THEN delete_cache_boundaries(s.cache, s.ix + 1, s.ix + 2) ELSE s.cache

(* The text from START up to END has VALUE. *)
set_cache_region(c, start, end, value) ==
  LET start_ix == find_cache_boundary(c, start)
      last_ix  == find_cache_boundary(c, end - 1)
  IN IF start = end THEN c
     ELSE EndRegion(StartRegion(delete_cache_boundaries(c, start_ix + 1, last_ix + 1),
                                start_ix, start, value),
                    end, value, BOUNDARY_VALUE(c, last_ix))

(* Two boundaries a deletion brought to one position, at the gap, become one *)
(* or none.                                                                  *)
Collapse(c) ==
  LET ix == c.gap_start + 1 IN
  IF ix <= cache_len(c) /\ BOUNDARY_POS(c, ix - 1) = BOUNDARY_POS(c, ix)
  THEN IF ix > 2 /\ BOUNDARY_VALUE(c, ix) = BOUNDARY_VALUE(c, ix - 2)
       THEN delete_cache_boundaries(c, ix - 1, ix + 1)
       ELSE delete_cache_boundaries(SET_BOUNDARY_VALUE(c, ix - 1, BOUNDARY_VALUE(c, ix)),
                                    ix, ix + 1)
  ELSE c

(* Mutant: the gap is left where it is. *)
Rebase_NoGapMove(c, head, Z) == [c EXCEPT !.buffer_end = Z]

(* With the gap behind the last boundary up to HEAD, the boundaries after it *)
(* move with the end of the buffer.                                          *)
Rebase(c, head, Z) ==
  [move_cache_gap(c, find_cache_boundary(c, head)) EXCEPT !.buffer_end = Z]

(* What is known of the text between the unchanged head and tail is given   *)
(* up, and the rest is moved to where it is in a buffer that ends at Z.     *)
revalidate_region_cache(c, Z) ==
  LET head == BEG + c.beg_unchanged
      tail == c.buffer_end - c.end_unchanged
  IN IF head > tail THEN c
     ELSE [IF head = tail THEN set_cache_region(Rebase(c, head, Z), head, Z - c.end_unchanged, 0)
           ELSE Collapse(Rebase(set_cache_region(c, head, tail, 0), head, Z))
           EXCEPT !.beg_unchanged = Z - BEG, !.end_unchanged = Z - BEG]

(* The first HEAD and the last TAIL characters of a buffer that ends at Z    *)
(* are unchanged.  If much would be lost the cache is put right first.       *)
Narrow(c, head, tail) ==
  [c EXCEPT !.beg_unchanged = Min({@, head}), !.end_unchanged = Min({@, tail})]

invalidate_region_cache(c, head, tail, Z) ==
  Narrow(IF \/ (BEG + c.beg_unchanged) - (Z - tail) > PreserveThreshold
            \/ (BEG + head) - (Z - c.end_unchanged) > PreserveThreshold
         THEN revalidate_region_cache(c, Z) ELSE c, head, tail)

(* The text from START up to END is known. *)
know_region_cache(c, start, end, Z) ==
  set_cache_region(revalidate_region_cache(c, Z), start, end, 1)

(* Whether a cache just put right knows the character at POS, and up to     *)
(* where the answer is the same.                                            *)
region_cache_forward(c, pos, Z) ==
  LET i == find_cache_boundary(c, pos)
      others == {j \in (i + 1)..cache_len(c) : BOUNDARY_VALUE(c, j) # BOUNDARY_VALUE(c, i)}
  IN IF pos >= Z THEN [value |-> 0, next |-> Z]
     ELSE [value |-> BOUNDARY_VALUE(c, i),
           next  |-> IF others = {} THEN Z ELSE BOUNDARY_POS(c, Min(others))]

(* "A sorted array": boundaries in order, the first at the start of the      *)
(* buffer and never after the gap.                                          *)
CacheInOrder(c) ==
  /\ c.gap_start \in 1..cache_len(c)
  /\ BOUNDARY_POS(c, 1) = BEG
  /\ \A i \in 2..cache_len(c) : BOUNDARY_POS(c, i - 1) < BOUNDARY_POS(c, i)
=============================================================================
