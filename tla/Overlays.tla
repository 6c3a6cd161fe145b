------------------------------- MODULE Overlays -------------------------------
(***************************************************************************)
(* What the manual promises of the overlays of a buffer: every overlay is  *)
(* a stretch of text (or in no buffer), and an edit moves each of its ends *)
(* by a rule that looks at nothing but that overlay.                       *)
(***************************************************************************)
EXTENDS Integers, FiniteSetsExt

CONSTANTS
  Overlay, Nil,
  FrontAdvance, RearAdvance, Evaporate   \* the overlays with that property

VARIABLES
  region,   \* where an overlay is, or Nil
  z         \* the end of the text

vars == <<region, z>>

BEG == 1
Region(begin, end) == [begin |-> begin, end |-> end]

Gone(o, r) == r.begin = r.end /\ o \in Evaporate
Placed(o, r) == IF Gone(o, r) THEN Nil ELSE r

(* An empty overlay whose beginning advances and whose end does not stays empty. *)
AfterInsert(o, r, pos, length, before_markers) ==
  LET begins == /\ r.begin = pos
                /\ before_markers \/ (o \in FrontAdvance /\ (r.begin # r.end \/ o \in RearAdvance))
      ends   == r.end = pos /\ (before_markers \/ o \in RearAdvance)
  IN Region(IF r.begin > pos \/ begins THEN r.begin + length ELSE r.begin,
            IF r.end > pos \/ ends THEN r.end + length ELSE r.end)

AfterDelete(r, pos, length) ==
  LET To(p) == IF p <= pos THEN p ELSE Max({pos, p - length})
  IN Region(To(r.begin), To(r.end))

(* Only what is empty at the place of a deletion evaporates. *)
Deleted(o, r, pos, length) ==
  IF AfterDelete(r, pos, length) = Region(pos, pos) THEN Placed(o, Region(pos, pos))
  ELSE AfterDelete(r, pos, length)

Adjust(F(_, _)) == region' = [o \in Overlay |-> IF region[o] = Nil THEN Nil ELSE F(o, region[o])]

Init == region = [o \in Overlay |-> Nil] /\ z \in Nat \ {0}

Move(o) ==
  \E begin, end \in BEG..z :
    /\ begin <= end
    /\ region' = [region EXCEPT ![o] = Placed(o, Region(begin, end))]
    /\ UNCHANGED z

Delete(S) == region' = [o \in Overlay |-> IF o \in S THEN Nil ELSE region[o]] /\ UNCHANGED z

InsertText ==
  \E pos \in BEG..z, before_markers \in BOOLEAN :
    /\ z' > z
    /\ Adjust(LAMBDA o, r : AfterInsert(o, r, pos, z' - z, before_markers))

DeleteText ==
  \E pos \in BEG..z :
    /\ z' \in pos..(z - 1)
    /\ Adjust(LAMBDA o, r : Deleted(o, r, pos, z - z'))

(* The new text goes in after the old, in front of whatever is there. *)
ReplaceText ==
  \E from \in BEG..z : \E old \in 1..(z - from) :
    LET new == z' - z + old IN
    /\ new > 0
    /\ Adjust(LAMBDA o, r : Deleted(o, AfterInsert(o, r, from + old, new, TRUE), from, old))

Next ==
  \/ \E o \in Overlay : Move(o) \/ Delete({o})
  \/ Delete(Overlay)
  \/ InsertText \/ DeleteText \/ ReplaceText

Spec == Init /\ [][Next]_vars
=============================================================================
