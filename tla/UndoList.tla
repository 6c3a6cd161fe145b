------------------------------- MODULE UndoList -------------------------------
(***************************************************************************)
(* buffer-undo-list: the records undo.c makes when the text is about to be *)
(* changed, and what primitive-undo (simple.el) does with them.  The list  *)
(* is a sequence with the newest record first, or Qt while undo is off.    *)
(***************************************************************************)
EXTENDS Integers, SequencesExt

CONSTANTS Qt, Marker,
          InsertionType   \* the markers that advance when text goes in at them

Boundary == [k |-> "boundary"]
First    == [k |-> "first"]

record_first_change(list) == IF list = Qt THEN list ELSE <<First>> \o list

(* Point at the last command boundary, if the record about to be made would *)
(* not bring it back; CLEAN says that the buffer is as it was saved.         *)
record_point(list, beg, point_before, clean) ==
  LET at_boundary == list = <<>> \/ Head(list) = Boundary
      l == IF clean THEN record_first_change(list) ELSE list
  IN IF at_boundary /\ point_before # beg
     THEN <<[k |-> "point", pos |-> point_before]>> \o l ELSE l

(* Mutant: an insertion is merged with the one before it wherever it is. *)
record_insert_MergesAny(list, beg, length, point_before, clean) ==
  IF list = Qt THEN list
  ELSE LET l == record_point(list, beg, point_before, clean) IN
       IF l # <<>> /\ Head(l).k = "insert" /\ Head(l).end >= beg
       THEN [l EXCEPT ![1].end = @ + length]
       ELSE <<[k |-> "insert", beg |-> beg, end |-> beg + length]>> \o l

(* LENGTH characters are inserted at BEG; an insertion that follows the one  *)
(* on top of the list is merged with it.                                     *)
record_insert(list, beg, length, point_before, clean) ==
  IF list = Qt THEN list
  ELSE LET l == record_point(list, beg, point_before, clean) IN
       IF l # <<>> /\ Head(l).k = "insert" /\ Head(l).end = beg
       THEN [l EXCEPT ![1].end = beg + length]
       ELSE <<[k |-> "insert", beg |-> beg, end |-> beg + length]>> \o l

(* How far undoing will miss each marker in the text being deleted. *)
record_marker_adjustments(list, from, to, charpos) ==
  LET adjustment(m) == (IF m \in InsertionType THEN to ELSE from) - charpos[m]
      moved == {m \in Marker : charpos[m] \in from..to /\ adjustment(m) # 0}
  IN [i \in 1..Cardinality(moved) |->
        LET m == SetToSeq(moved)[i] IN [k |-> "adjust", marker |-> m, by |-> adjustment(m)]]
     \o list

(* CHARS are deleted at BEG; the adjustments lie below the deletion. *)
record_delete(list, beg, chars, record_markers, charpos, PT, point_before, clean) ==
  IF list = Qt THEN list
  ELSE LET l == record_point(list, beg, point_before, clean) IN
       <<[k |-> "delete", chars |-> chars, pos |-> beg, at_end |-> PT = beg + Len(chars)]>>
       \o IF record_markers
          THEN record_marker_adjustments(l, beg, beg + Len(chars), charpos) ELSE l

Fundo_boundary(list) ==
  IF list = Qt \/ (list # <<>> /\ Head(list) = Boundary) THEN list ELSE <<Boundary>> \o list

-------------------------------------------------------------------------------
(* primitive-undo on the text S: its characters, its markers and point. *)

PutBack(s, r) ==
  LET n == Len(r.chars) IN
  [chars   |-> SubSeq(s.chars, 1, r.pos - 1) \o r.chars \o SubSeq(s.chars, r.pos, Len(s.chars)),
   charpos |-> [m \in Marker |->
                  s.charpos[m] + IF s.charpos[m] > r.pos
                                    \/ (s.charpos[m] = r.pos /\ m \in InsertionType)
                                 THEN n ELSE 0],
   PT      |-> IF r.at_end THEN r.pos + n ELSE r.pos]

TakeOut(s, r) ==
  [chars   |-> SubSeq(s.chars, 1, r.beg - 1) \o SubSeq(s.chars, r.end, Len(s.chars)),
   charpos |-> [m \in Marker |-> s.charpos[m] - Cardinality({i \in r.beg..(r.end - 1) : i < s.charpos[m]})],
   PT      |-> r.beg]

(* The adjustments recorded with the deletion at index I whose markers are   *)
(* still where the deletion left them.                                       *)
ValidAdjustments(s, list, i) ==
  {list[j] : j \in {j \in (i + 1)..Len(list) :
     /\ \A h \in (i + 1)..j : list[h].k = "adjust"
     /\ s.charpos[list[j].marker] = list[i].pos}}

UndoRecord(s, list, i) ==
  LET r == list[i] IN
  CASE r.k = "insert" -> TakeOut(s, r)
    [] r.k = "delete" ->
         LET valid == ValidAdjustments(s, list, i) IN
         [PutBack(s, r) EXCEPT
            !.charpos = [m \in Marker |->
               IF \E a \in valid : a.marker = m
               THEN @[m] - (CHOOSE a \in valid : a.marker = m).by ELSE @[m]]]
    [] r.k = "point"  -> [s EXCEPT !.PT = r.pos]
    [] OTHER          -> s

(* All the records are undone, the newest first. *)
primitive_undo(s, list) ==
  LET undone[i \in 0..Len(list)] == IF i = 0 THEN s ELSE UndoRecord(undone[i - 1], list, i)
  IN undone[Len(list)]
=============================================================================
