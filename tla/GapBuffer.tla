------------------------------ MODULE GapBuffer ------------------------------
(***************************************************************************)
(* The text of one buffer (insdel.c, undo.c, casefiddle.c): characters on  *)
(* both sides of a gap, point and markers as pairs of a character and a    *)
(* byte position, the undo list, the newline cache, and the two numbers    *)
(* that tell redisplay which part of the text it need not look at.         *)
(*                                                                         *)
(* BUF is struct buffer with its struct buffer_text; an operator named     *)
(* after a C function maps it to what that function leaves behind.  The    *)
(* room in the gap, narrowing, text properties and overlays are left out.  *)
(***************************************************************************)
EXTENDS RegionCache, UndoList

CONSTANTS
  Char, Newline,
  CharLen,       \* bytes of a character
  Upcase,        \* what a character is in upper case: one or more characters
  Nil,
  Setups         \* bounds: the text to begin with, the texts that are inserted,
                 \* the highest modiff to edit at, and what is looked at

(* The records of an undo list *)
Record ==
  [k : {"boundary"}] \cup [k : {"first"}] \cup [k : {"point"}, pos : Int]
  \cup [k : {"insert"}, beg : Int, end : Int]
  \cup [k : {"delete"}, chars : Seq(Char), pos : Int, at_end : BOOLEAN]
  \cup [k : {"adjust"}, marker : Marker, by : Int]

ASSUME GapBufferAssumption ==
  /\ Newline \in Char /\ CharLen[Newline] = 1
  /\ CharLen \in [Char -> Nat \ {0}]
  /\ Upcase \in [Char -> Seq(Char) \ {<<>>}]
  /\ Setups \subseteq [chars : Seq(Char), pieces : SUBSET (Seq(Char) \ {<<>>}), max : Nat,
                     looks : {"markers", "undo", "cache", "display"}]
  /\ IsFiniteSet(Marker) /\ InsertionType \subseteq Marker
  /\ Qt # Nil /\ Nil \notin Cache /\ Qt \notin Seq(Record)

VARIABLES
  setup,          \* one of Setups
  buf,
  point_before,   \* point_before_last_command_or_undo
  pending,        \* the deletion whose before-change hook has just run, or Nil
  hooked,         \* history: a hook moved text it had been told the place of
  ahead,          \* history: since redisplay, the unchanged head has reached past the gap
  shown           \* history: the text as redisplay last saw it, or Nil

vars == <<setup, buf, point_before, pending, hooked, ahead, shown>>

-------------------------------------------------------------------------------
(* Positions and text *)

Bytes(chars) ==
  LET upto[i \in 0..Len(chars)] == IF i = 0 THEN 0 ELSE upto[i - 1] + CharLen[chars[i]]
  IN upto[Len(chars)]
Shift(p, nchars, nbytes) == [c |-> p.c + nchars, b |-> p.b + nbytes]
Less(p, q) == p.c < q.c   \* positions in step: either part decides

Chars(t) == t.before \o t.after
CHAR_TO_BYTE(t, c) == BEG + Bytes(SubSeq(Chars(t), 1, c - 1))
Both(t, c) == [c |-> c, b |-> CHAR_TO_BYTE(t, c)]
Between(t, from, to) == SubSeq(Chars(t), from, to - 1)

CharPositions(t) == [m \in Marker |-> t.markers[m].c]

(* elogb(len) + 1 for the lengths that occur *)
modiff_incr(t, len) == [t EXCEPT !.modiff = @ + (IF len < 2 THEN 1 ELSE IF len < 4 THEN 2 ELSE 3)]

Clean(t) == t.modiff <= t.save_modiff

-------------------------------------------------------------------------------
(* What redisplay is told *)

(* Mutant: only the first change since redisplay counts. *)
BUF_COMPUTE_UNCHANGED_FirstOnly(t, start, end) ==
  IF t.unchanged_modified = t.modiff
  THEN [t EXCEPT !.beg_unchanged = start - BEG, !.end_unchanged = t.z.c - end]
  ELSE t

BUF_COMPUTE_UNCHANGED(t, start, end) ==
  IF t.unchanged_modified = t.modiff
  THEN [t EXCEPT !.beg_unchanged = start - BEG, !.end_unchanged = t.z.c - end]
  ELSE [t EXCEPT !.beg_unchanged = Min({@, start - BEG}),
                 !.end_unchanged = Min({@, t.z.c - end})]

LowerEnd(t) == [t EXCEPT !.end_unchanged = Min({@, t.z.c - t.gpt.c})]
LowerBoth(t) == [LowerEnd(t) EXCEPT !.beg_unchanged = Min({@, t.gpt.c - BEG})]

-------------------------------------------------------------------------------
(* The gap *)

GapAt(t, p) ==
  [t EXCEPT !.before = SubSeq(Chars(t), 1, p.c - BEG),
            !.after  = SubSeq(Chars(t), p.c, Len(Chars(t))), !.gpt = p]

(* gap_left and gap_right; after a quit the gap is at STOP. *)
gap_motion(t, p, stop) == GapAt(BUF_COMPUTE_UNCHANGED(t, p.c, t.gpt.c), stop)

move_gap_both(t, p) == IF p.b = t.gpt.b THEN t ELSE gap_motion(t, p, p)

(* The gap in or next to the text from FROM to TO. *)
GapToward(t, from, to) ==
  LET right == IF from.c > t.gpt.c THEN gap_motion(t, from, from) ELSE t IN
  IF to.c < right.gpt.c THEN gap_motion(right, to, to) ELSE right

(* CHARS, put into the gap, become text before it. *)
TakeIn(t, chars) ==
  [t EXCEPT !.before = @ \o chars,
            !.gpt = Shift(@, Len(chars), Bytes(chars)),
            !.z = Shift(@, Len(chars), Bytes(chars))]

(* The text from FROM to TO, with the gap in or next to it, becomes gap. *)
GiveUp(t, from, to) ==
  [t EXCEPT !.before = SubSeq(@, 1, from.c - BEG),
            !.after = SubSeq(Chars(t), to.c, Len(Chars(t))),
            !.gpt = from,
            !.z = Shift(@, from.c - to.c, from.b - to.b)]

-------------------------------------------------------------------------------
(* Markers and point *)

(* Mutant: byte positions are left alone. *)
adjust_markers_for_delete_CharsOnly(t, from, to) ==
  [t EXCEPT !.markers = [m \in Marker |->
     IF Less(to, @[m]) THEN Shift(@[m], from.c - to.c, 0)
     ELSE IF Less(from, @[m]) THEN from ELSE @[m]]]

adjust_markers_for_delete(t, from, to) ==
  [t EXCEPT !.markers = [m \in Marker |->
     IF Less(to, @[m]) THEN Shift(@[m], from.c - to.c, from.b - to.b)
     ELSE IF Less(from, @[m]) THEN from ELSE @[m]]]

(* Mutant: an advancing marker at the place stays behind. *)
adjust_markers_for_insert_Stays(t, from, to, before_markers) ==
  [t EXCEPT !.markers = [m \in Marker |->
     IF @[m].b = from.b THEN IF before_markers THEN to ELSE @[m]
     ELSE IF @[m].b > from.b THEN Shift(@[m], to.c - from.c, to.b - from.b) ELSE @[m]]]

adjust_markers_for_insert(t, from, to, before_markers) ==
  [t EXCEPT !.markers = [m \in Marker |->
     IF @[m].b = from.b THEN IF m \in InsertionType \/ before_markers THEN to ELSE @[m]
     ELSE IF @[m].b > from.b THEN Shift(@[m], to.c - from.c, to.b - from.b) ELSE @[m]]]

adjust_markers_for_replace(t, from, to, chars) ==
  LET nchars == Len(chars)
      nbytes == Bytes(chars) IN
  IF from = to THEN adjust_markers_for_insert(t, from, Shift(from, nchars, nbytes), FALSE)
  ELSE [t EXCEPT !.markers = [m \in Marker |->
          IF @[m].b >= to.b
          THEN Shift(@[m], nchars - (to.c - from.c), nbytes - (to.b - from.b))
          ELSE IF @[m].b > from.b THEN from ELSE @[m]]]

(* Character positions stay; the bytes of those behind FROM are counted anew. *)
adjust_markers_bytepos(t, from) ==
  [t EXCEPT !.markers = [m \in Marker |->
     IF @[m].b > from.b THEN Both(t, @[m].c) ELSE @[m]]]

adjust_point(t, nchars, nbytes) == [t EXCEPT !.pt = Shift(@, nchars, nbytes)]

-------------------------------------------------------------------------------
(* Caches and the undo list *)

invalidate_buffer_caches(t, start, end) ==
  IF t.newline_cache = Nil THEN t
  ELSE [t EXCEPT !.newline_cache = invalidate_region_cache(@, start - BEG, t.z.c - end, t.z.c)]

RecordInsert(t, beg, length) ==
  [t EXCEPT !.undo_list = record_insert(@, beg, length, point_before, Clean(t))]

RecordDelete(t, beg, chars, record_markers) ==
  [t EXCEPT !.undo_list =
     record_delete(@, beg, chars, record_markers, CharPositions(t), t.pt.c, point_before, Clean(t))]

-------------------------------------------------------------------------------
(* The editing primitives; prepare_to_modify_buffer without hooks only       *)
(* invalidates the caches.                                                   *)

insert_1_both(t, chars, before_markers) ==
  LET t1 == move_gap_both(invalidate_buffer_caches(t, t.pt.c, t.pt.c), t.pt)
      t2 == modiff_incr(RecordInsert(t1, t.pt.c, Len(chars)), Len(chars))
      t3 == LowerEnd(TakeIn(t2, chars))
      t4 == adjust_markers_for_insert(t3, t.pt, Shift(t.pt, Len(chars), Bytes(chars)),
                                      before_markers)
  IN adjust_point(t4, Len(chars), Bytes(chars))

(* Output that a decoder left in the gap, which is at point *)
insert_from_gap(t, chars, before_markers) ==
  LET t1 == invalidate_buffer_caches(t, t.gpt.c, t.gpt.c)
      t2 == modiff_incr(RecordInsert(t1, t.gpt.c, Len(chars)), Len(chars))
      t3 == adjust_markers_for_insert(TakeIn(t2, chars), t.gpt,
                                      Shift(t.gpt, Len(chars), Bytes(chars)), before_markers)
  IN IF t.gpt.c < t.pt.c THEN adjust_point(t3, Len(chars), Bytes(chars)) ELSE t3

del_range_2(t, from, to) ==
  LET t1 == RecordDelete(GapToward(t, from, to), from.c, Between(t, from.c, to.c), TRUE)
      t2 == modiff_incr(adjust_markers_for_delete(t1, from, to), to.c - from.c)
      past == IF Less(to, t.pt) THEN to ELSE t.pt
      t3 == IF Less(from, t.pt) THEN adjust_point(t2, from.c - past.c, from.b - past.b) ELSE t2
  IN LowerBoth(GiveUp(t3, from, to))

replace_range(t, from, to, chars) ==
  LET t1 == GapToward(invalidate_buffer_caches(t, from.c, to.c), from, to)
      t2 == LowerBoth(GiveUp(t1, from, to))
      \* recorded while the deleted text is already gone
      t3 == RecordInsert(t2, to.c, Len(chars))
      t4 == RecordDelete(t3, from.c, Between(t, from.c, to.c), FALSE)
      t5 == adjust_markers_for_replace(TakeIn(t4, chars), from, to, chars)
      past == IF Less(to, t.pt) THEN to ELSE t.pt
      t6 == IF Less(from, t.pt) \/ t.pt.c = to.c
            THEN adjust_point(t5, from.c + Len(chars) - past.c, from.b + Bytes(chars) - past.b)
            ELSE t5
  IN modiff_incr(t6, (to.c - from.c) + Len(chars))

(* One character becomes CHARS, as casify_region does it: no hooks, no undo. *)
replace_range_2(t, from, to, chars) ==
  LET t1 == LowerBoth(GiveUp(GapToward(t, from, to), from, to))
      t2 == adjust_markers_bytepos(TakeIn(t1, chars), from)
      t3 == IF Less(from, t.pt)
            THEN adjust_point(t2, Len(chars) - (to.c - from.c), Bytes(chars) - (to.b - from.b))
            ELSE t2
  IN modiff_incr(t3, (to.c - from.c) + Len(chars))

-------------------------------------------------------------------------------
(* casify_region *)

modify_text(t, start, end) ==
  LET t1 == BUF_COMPUTE_UNCHANGED(invalidate_buffer_caches(t, start, end), start - 1, end)
      t2 == IF Clean(t) THEN [t1 EXCEPT !.undo_list = record_first_change(@)] ELSE t1
  IN modiff_incr(t2, end - start)

Overwrite(t, c, ch) ==
  IF c < t.gpt.c THEN [t EXCEPT !.before[c] = ch] ELSE [t EXCEPT !.after[c - t.gpt.c + 1] = ch]

(* One turn of the loop, at A.pos *)
casify_one(a, ch) ==
  LET new  == Upcase[ch]
      from == Both(a.t, a.pos)
      to   == Shift(from, 1, CharLen[ch])
  IN [t |-> IF new = <<ch>> THEN a.t
            ELSE IF Len(new) = 1 /\ Bytes(new) = CharLen[ch]
            THEN Overwrite(a.t, a.pos, new[1])
            ELSE replace_range_2(a.t, from, to, new),
      pos |-> a.pos + Len(new)]

casify_region(t, from, to) ==
  LET t1 == modify_text(t, from, to)
      t2 == RecordDelete(t1, from, Between(t, from, to), FALSE)
      turn[i \in from..to] ==
        IF i = from THEN [t |-> t2, pos |-> from] ELSE casify_one(turn[i - 1], Chars(t)[i - 1])
  IN RecordInsert(turn[to].t, from, turn[to].pos - from)

-------------------------------------------------------------------------------
Init ==
  /\ setup \in Setups
  /\ LET len == Len(setup.chars)
         all == [before |-> setup.chars, after |-> <<>>] IN
     \E g, p \in 1..(len + 1) :
       /\ g = BEG \/ setup.looks = "display"
       /\ buf = [before |-> SubSeq(setup.chars, 1, g - 1),
              after  |-> SubSeq(setup.chars, g, len),
              gpt |-> Both(all, g), z |-> Both(all, len + 1), pt |-> Both(all, p),
              markers |-> [m \in Marker |-> Both(all, BEG)],
              modiff |-> 1, save_modiff |-> 1, unchanged_modified |-> 1,
              beg_unchanged |-> g - BEG, end_unchanged |-> len + 1 - g,
              undo_list |-> IF setup.looks \in {"markers", "undo"} THEN <<>> ELSE Qt,
              newline_cache |-> IF setup.looks = "cache" THEN new_region_cache ELSE Nil]
  /\ shown = (IF setup.looks = "display" THEN setup.chars ELSE Nil)
  /\ point_before = BEG
  /\ pending = Nil
  /\ hooked = FALSE
  /\ ahead = FALSE

Position == BEG..buf.z.c

Looks(at) == setup.looks = at

history == <<setup, hooked, ahead, shown>>

Edit(t) == /\ buf.modiff < setup.max
           /\ buf' = t
           /\ UNCHANGED <<point_before, pending, history>>

HeadPastGap == ahead' = (ahead \/ buf'.beg_unchanged > buf'.gpt.c - BEG)

Insert(chars, before_markers) ==
  /\ before_markers => Looks("markers")
  /\ Edit(insert_1_both(buf, chars, before_markers))

(* Process output: the decoder moves the gap to point and leaves the text there. *)
InsertFromGap(chars) ==
  /\ ~Looks("undo")
  /\ Edit(insert_from_gap(move_gap_both(buf, buf.pt), chars, TRUE))

del_range(from, to) ==
  /\ from < to
  /\ Edit(del_range_2(invalidate_buffer_caches(buf, from, to), Both(buf, from), Both(buf, to)))

(* The same with a before-change hook that inserts CHARS at POS and leaves   *)
(* point where it was: FROM is kept in a marker meanwhile.                   *)
prepare_to_modify_buffer(from, to, pos, chars) ==
  LET n == Len(chars)
      changed == insert_1_both([buf EXCEPT !.pt = Both(buf, pos)], chars, FALSE)
  IN /\ Looks("cache")
     /\ from < to
     /\ buf.modiff < setup.max
     /\ buf' = [changed EXCEPT !.pt = IF buf.pt.c > pos THEN Shift(buf.pt, n, Bytes(chars))
                                      ELSE buf.pt]
     /\ pending' = [start |-> from, end |-> to, from |-> IF from > pos THEN from + n ELSE from]
     /\ hooked' = (hooked \/ from > pos)
     /\ UNCHANGED <<setup, point_before, ahead, shown>>

(* What del_range_1 does after the hook; the caches are told of the place as  *)
(* it was before.                                                            *)
del_range_1 ==
  LET to == Min({buf.z.c, pending.from + (pending.end - pending.start)})
      t  == invalidate_buffer_caches(buf, pending.start, pending.end)
  IN /\ pending # Nil
     /\ buf' = del_range_2(t, Both(buf, pending.from), Both(buf, to))
     /\ pending' = Nil
     /\ UNCHANGED <<point_before, history>>

Replace(from, to, chars) ==
  from < to /\ Edit(replace_range(buf, Both(buf, from), Both(buf, to), chars))

Casify(from, to) ==
  /\ from < to
  /\ buf.modiff < setup.max
  /\ buf' = casify_region(buf, from, to)
  /\ HeadPastGap
  /\ UNCHANGED <<setup, point_before, pending, hooked, shown>>

(* A quit while the gap moves to point leaves it on the way; nothing is      *)
(* inserted.                                                                 *)
QuitInGapMotion(stop) ==
  /\ Looks("display")
  /\ \/ buf.pt.c < stop /\ stop < buf.gpt.c
     \/ buf.gpt.c < stop /\ stop < buf.pt.c
  /\ buf' = gap_motion(invalidate_buffer_caches(buf, buf.pt.c, buf.pt.c), buf.pt, Both(buf, stop))
  /\ HeadPastGap
  /\ UNCHANGED <<setup, point_before, pending, hooked, shown>>

goto_char(pos) ==
  /\ buf' = [buf EXCEPT !.pt = Both(buf, pos)]
  /\ UNCHANGED <<point_before, pending, history>>

set_marker(m, pos) ==
  /\ Looks("markers")
  /\ buf' = [buf EXCEPT !.markers[m] = Both(buf, pos)]
  /\ UNCHANGED <<point_before, pending, history>>

set_buffer_unmodified ==
  /\ Looks("undo") /\ ~Clean(buf)
  /\ buf' = [buf EXCEPT !.save_modiff = buf.modiff]
  /\ UNCHANGED <<point_before, pending, history>>

undo_boundary ==
  /\ Looks("undo")
  /\ buf' = [buf EXCEPT !.undo_list = Fundo_boundary(@)]
  /\ point_before' = buf.pt.c
  /\ UNCHANGED <<pending, history>>

(* One turn of the loop of find_newline: what is known is skipped, the text  *)
(* up to the next newline, the gap or the next known text becomes known.     *)
find_newline(start) ==
  /\ Looks("cache")
  /\ start < buf.z.c
  /\ LET c       == revalidate_region_cache(buf.newline_cache, buf.z.c)
         r       == region_cache_forward(c, start, buf.z.c)
         ceiling == Min({r.next, IF start < buf.gpt.c THEN buf.gpt.c ELSE buf.z.c})
         stops   == {i \in start..(ceiling - 1) : Chars(buf)[i] = Newline}
     IN buf' = [buf EXCEPT !.newline_cache =
                  IF r.value = 1 \/ Chars(buf)[start] = Newline THEN c
                  ELSE know_region_cache(c, start, Min(stops \cup {ceiling}), buf.z.c)]
  /\ UNCHANGED <<point_before, pending, history>>

mark_window_display_accurate ==
  /\ Looks("display")
  /\ buf' = [buf EXCEPT !.unchanged_modified = buf.modiff,
                        !.beg_unchanged = buf.gpt.c - BEG,
                        !.end_unchanged = buf.z.c - buf.gpt.c]
  /\ shown' = Chars(buf)
  /\ ahead' = FALSE
  /\ UNCHANGED <<setup, point_before, pending, hooked>>

Command ==
  /\ pending = Nil
  /\ \/ \E chars \in setup.pieces, before_markers \in BOOLEAN : Insert(chars, before_markers)
     \/ \E chars \in setup.pieces : InsertFromGap(chars)
     \/ \E from, to \in Position : del_range(from, to)
     \/ \E from, to, pos \in Position, chars \in setup.pieces :
          prepare_to_modify_buffer(from, to, pos, chars)
     \/ \E from, to \in Position, chars \in setup.pieces : Replace(from, to, chars)
     \/ \E from, to \in Position : Casify(from, to)
     \/ \E stop \in Position : QuitInGapMotion(stop)
     \/ \E pos \in Position : goto_char(pos)
     \/ \E m \in Marker, pos \in Position : set_marker(m, pos)
     \/ set_buffer_unmodified
     \/ undo_boundary
     \/ \E start \in Position : find_newline(start)
     \/ mark_window_display_accurate

Next == Command \/ del_range_1

Spec == Init /\ [][Next]_vars

-------------------------------------------------------------------------------
(* Properties *)

Pos == [c : Int, b : Int]

(* The shape of the state. *)
TypeOK ==
  /\ buf.before \in Seq(Char) /\ buf.after \in Seq(Char)
  /\ {buf.gpt, buf.z, buf.pt} \subseteq Pos
  /\ buf.markers \in [Marker -> Pos]
  /\ buf.modiff \in Nat /\ buf.save_modiff \in 0..buf.modiff
  /\ buf.unchanged_modified \in 0..buf.modiff
  /\ buf.undo_list = Qt \/ buf.undo_list \in Seq(Record)
  /\ point_before \in Nat
  /\ {hooked, ahead} \subseteq BOOLEAN

(* The character and the byte part of the gap, the end, point and every      *)
(* marker name one place in the text, at the start of a character: each      *)
(* primitive moves the two parts by its own arithmetic.                      *)
PositionsAgree ==
  /\ TypeOK
  /\ buf.gpt = Both(buf, Len(buf.before) + 1)
  /\ buf.z = Both(buf, Len(Chars(buf)) + 1)
  /\ \A p \in {buf.pt} \cup {buf.markers[m] : m \in Marker} : p.c \in Position /\ p = Both(buf, p.c)

(* What primitive-undo works on *)
Snapshot(t) == [chars |-> Chars(t), charpos |-> CharPositions(t), PT |-> t.pt.c]

(* Undoing everything on the undo list gives the text the list began with,   *)
(* whatever commands, merged insertions and boundaries it is made of.        *)
UndoRestoresText ==
  Looks("undo") =>
    primitive_undo(Snapshot(buf), buf.undo_list).chars = setup.chars

(* A deletion undone at once leaves the text and every marker as before,     *)
(* those in the deleted text included, of both insertion types.              *)
DeletionUndone ==
  Looks("markers") =>
    \A from, to \in Position : from < to =>
      LET t == del_range_2(buf, Both(buf, from), Both(buf, to))
          undone == primitive_undo(Snapshot(t),
                      SubSeq(t.undo_list, 1, Len(t.undo_list) - Len(buf.undo_list)))
      IN undone.chars = Chars(buf) /\ undone.charpos = CharPositions(buf)

(* Undo takes back a whole list of changes, and the last of them exactly. *)
UndoRestores == UndoRestoresText /\ DeletionUndone

Known(c) == {i \in BEG..(buf.z.c - 1) : region_cache_forward(c, i, buf.z.c).value = 1}

(* Text the newline cache knows has no newline in it, after any edits made   *)
(* since the cache was last put right.                                       *)
KnownHasNoNewline ==
  Looks("cache") =>
    \A i \in Known(revalidate_region_cache(buf.newline_cache, buf.z.c)) :
      Chars(buf)[i] # Newline

(* The boundaries of the cache stay in order, the first at the start of the  *)
(* buffer, and no two of the same value meet.                                *)
BoundariesInOrder ==
  Looks("cache") =>
    CacheInOrder(revalidate_region_cache(buf.newline_cache, buf.z.c))

(* Both, the first as long as no before-change hook has moved the text whose *)
(* change it announced.                                                      *)
CacheSoundUnlessHooked == BoundariesInOrder /\ (~hooked => KnownHasNoNewline)

(* What redisplay takes for unchanged, the head and the tail of the text,    *)
(* is as it was shown; and a buffer with the counter of that time is.        *)
UnchangedIsUnchanged ==
  Looks("display") =>
    LET chars == Chars(buf)
        beg == Min({buf.beg_unchanged, buf.gpt.c - BEG})
        end == Min({buf.end_unchanged, buf.z.c - buf.gpt.c})
    IN /\ buf.modiff = buf.unchanged_modified => chars = shown
       /\ \A i \in 1..beg : i <= Len(shown) /\ chars[i] = shown[i]
       /\ \A i \in 0..(end - 1) :
            i < Len(shown) /\ chars[Len(chars) - i] = shown[Len(shown) - i]

(* The same, unless the unchanged head has reached past the gap since. *)
UnchangedIsUnchangedUnlessAhead == ~ahead => UnchangedIsUnchanged

(* The gap, the bytes and the bookkeeping implement a text with positions.   *)
Text == INSTANCE TextBuffer WITH
          chars <- Chars(buf), PT <- buf.pt.c, charpos <- CharPositions(buf)

ImplementsText == Text!Spec
=============================================================================
