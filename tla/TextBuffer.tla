------------------------------ MODULE TextBuffer ------------------------------
(***************************************************************************)
(* What the text of a buffer promises its users: a sequence of characters, *)
(* point and markers, which are positions between characters.  A position  *)
(* stays between the same two characters while they are there.             *)
(***************************************************************************)
EXTENDS Integers, Sequences, FiniteSets

CONSTANTS Char, Marker,
          InsertionType   \* the markers that advance when text goes in at them

VARIABLES chars, PT, charpos

vars == <<chars, PT, charpos>>

Position == 1..(Len(chars) + 1)

TypeOK ==
  /\ chars \in Seq(Char)
  /\ PT \in Int
  /\ charpos \in [Marker -> Int]

(* Every position is in the text: point and the markers can be used as      *)
(* places to read, insert and delete at (insdel.c adjusts them on each edit, *)
(* check_markers aborts otherwise).                                          *)
PositionsInText ==
  /\ PT \in Position
  /\ \A m \in Marker : charpos[m] \in Position

Init ==
  /\ chars \in Seq(Char)
  /\ PT \in Position
  /\ charpos \in [Marker -> Position]

Spliced(from, to, new) == SubSeq(chars, 1, from - 1) \o new \o SubSeq(chars, to, Len(chars))

(* NEW goes in at POS; the positions in GOES move behind it if they are there. *)
Insert(pos, new, ahead, goes) ==
  /\ chars' = Spliced(pos, pos, new)
  /\ charpos' = [m \in Marker |->
                   IF charpos[m] > pos \/ (charpos[m] = pos /\ m \in goes)
                   THEN charpos[m] + Len(new) ELSE charpos[m]]
  /\ PT' = IF PT > pos \/ (PT = pos /\ ahead) THEN PT + Len(new) ELSE PT

AfterDelete(pos, from, to) ==
  IF pos >= to THEN pos - (to - from) ELSE IF pos > from THEN from ELSE pos

Delete(from, to) ==
  /\ chars' = Spliced(from, to, <<>>)
  /\ charpos' = [m \in Marker |-> AfterDelete(charpos[m], from, to)]
  /\ PT' = AfterDelete(PT, from, to)

(* The text from FROM to TO becomes NEW: markers in it go to its start, point *)
(* to its end.                                                               *)
Replace(from, to, new) ==
  /\ chars' = Spliced(from, to, new)
  /\ charpos' = [m \in Marker |->
                   IF charpos[m] >= to THEN charpos[m] + Len(new) - (to - from)
                   ELSE IF charpos[m] > from THEN from ELSE charpos[m]]
  /\ PT' = IF PT >= to THEN PT + Len(new) - (to - from)
           ELSE IF PT > from THEN from + Len(new) ELSE PT

(* Characters are exchanged for others, at least one for each: the markers   *)
(* keep their positions and point its distance from the end.                 *)
Recase(from, to, new) ==
  /\ Len(new) >= to - from
  /\ chars' = Spliced(from, to, new)
  /\ UNCHANGED charpos
  /\ PT' \in PT..(PT + Len(new) - (to - from))

Goto(pos) == PT' = pos /\ UNCHANGED <<chars, charpos>>

SetMarker(m, pos) == charpos' = [charpos EXCEPT ![m] = pos] /\ UNCHANGED <<chars, PT>>

(* What is now in the place of the text from FROM to TO. *)
Became(from, to) == SubSeq(chars', from, to - 1 + Len(chars') - Len(chars))

Edit(from, to, new) ==
  \/ \E ahead \in BOOLEAN, goes \in {InsertionType, Marker} :
       from = to /\ Insert(from, new, ahead, goes)
  \/ from < to /\ (Delete(from, to) \/ Replace(from, to, new) \/ Recase(from, to, new))

Next ==
  /\ chars' \in Seq(Char)
  /\ \/ \E from, to \in Position : Edit(from, to, Became(from, to))
     \/ \E pos \in Position : Goto(pos) \/ \E m \in Marker : SetMarker(m, pos)

Spec == Init /\ [][Next]_vars
=============================================================================
