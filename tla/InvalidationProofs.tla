-------------------------- MODULE InvalidationProofs --------------------------
(***************************************************************************)
(* Proofs about what an edit makes known to be stale (GapBuffer), for      *)
(* every text and edits: the two numbers that tell redisplay which part of *)
(* the text it need not look at, and the newline cache (RegionCache).      *)
(*                                                                         *)
(* Redisplay: an edit lowers the numbers in two places, where the gap is   *)
(* moved and where text is put in or given up.  The invariant that makes   *)
(* the two enough is that the head does not reach past the gap: text put   *)
(* in at the gap is then behind the head, and the tail counts from behind  *)
(* the gap.                                                                *)
(*                                                                         *)
(* The cache: what it knows of a position is the value of the last         *)
(* boundary at or before it (Rules, ValueAt), and every operation on the   *)
(* array is described by what it does to that value at each position.  The *)
(* invariant is that the cache is either right for the text as it is, or   *)
(* was right for an earlier one of which a head and a tail that do not     *)
(* overlap are still there (CacheOK), and that what it says of those two   *)
(* ends is so (Sound).                                                     *)
(***************************************************************************)
EXTENDS GapBufferProofs

-------------------------------------------------------------------------------
(* What redisplay has seen                                                   *)

(* The parts of a text that the numbers depend on *)
Laid(t) ==
  /\ DOMAIN t = Fields /\ t.before \in Seq(Char) /\ t.after \in Seq(Char)
  /\ t.gpt \in Pos /\ t.gpt.c = Len(t.before) + 1
  /\ t.z \in Pos /\ t.z.c = Len(Chars(t)) + 1
  /\ t.modiff \in Nat /\ t.unchanged_modified \in 0 .. t.modiff
  /\ t.beg_unchanged \in Int /\ t.end_unchanged \in Int

(* The first and the last N characters of CHARS are as in S. *)
SameHead(chars, s, n) == \A i \in 1 .. n : i <= Len(s) /\ chars[i] = s[i]
SameTail(chars, s, n) ==
  \A i \in Nat : i < n => i < Len(s) /\ chars[Len(chars) - i] = s[Len(s) - i]

(* The head is as in S wherever the gap is, the tail as far as the gap. *)
Seen(t, s) ==
  /\ Laid(t)
  /\ SameHead(Chars(t), s, t.beg_unchanged)
  /\ \A n \in Int : n <= t.end_unchanged /\ n <= t.z.c - t.gpt.c => SameTail(Chars(t), s, n)

Fresh(t, s) == t.modiff = t.unchanged_modified => Chars(t) = s
Changed(t)  == t.unchanged_modified < t.modiff
Capped(t)   == t.beg_unchanged <= t.gpt.c - BEG
Lower(t, u) == u.beg_unchanged <= t.beg_unchanged /\ u.end_unchanged <= t.end_unchanged

LEMMA LessOf == \A x, y \in Int : Min({x, y}) = IF x <= y THEN x ELSE y
  BY DEF Min

LEMMA LaidParts ==
  ASSUME NEW t, Laid(t)
  PROVE  /\ Chars(t) \in Seq(Char) /\ Len(Chars(t)) \in Nat /\ Len(t.before) \in Nat
         /\ t.gpt.c \in Nat /\ t.gpt.c >= 1 /\ t.gpt.c <= Len(Chars(t)) + 1
         /\ t.gpt.c \in Places(Chars(t)) /\ t.z.c \in Nat
<1>1. /\ Chars(t) \in Seq(Char) /\ Len(Chars(t)) = Len(t.before) + Len(t.after)
      /\ Len(Chars(t)) \in Nat /\ Len(t.before) \in Nat /\ Len(t.after) \in Nat
  BY CharsType DEF Laid
<1>2. t.gpt.c = Len(t.before) + 1 /\ t.z.c = Len(Chars(t)) + 1
  BY DEF Laid
<1>3. \A x, y, n, g \in Nat : n = x + y /\ g = x + 1 => g >= 1 /\ g <= n + 1 /\ g \in 1 .. n + 1
  OBVIOUS
<1>4. t.gpt.c \in Nat /\ t.z.c \in Nat
  <2>1. \A n \in Nat : n + 1 \in Nat
    OBVIOUS
  <2>. QED BY <1>1, <1>2, <2>1, Zenon
<1>. QED BY <1>1, <1>2, <1>3, <1>4 DEF Places

LEMMA SameEndsFewer ==
  ASSUME NEW chars, NEW s, NEW n \in Int, NEW k \in Int, k <= n
  PROVE  /\ SameHead(chars, s, n) => SameHead(chars, s, k)
         /\ SameTail(chars, s, n) => SameTail(chars, s, k)
  BY DEF SameHead, SameTail

LEMMA SameEndsOfItself ==
  ASSUME NEW chars \in Seq(Char), NEW n \in Int, n <= Len(chars)
  PROVE  SameHead(chars, chars, n) /\ SameTail(chars, chars, n)
<1>1. Len(chars) \in Nat
  BY LenProperties
<1>. QED BY <1>1 DEF SameHead, SameTail

(* The same text and numbers, whatever else: bookkeeping *)
Alike(t, u) ==
  /\ DOMAIN u = Fields /\ SameText(t, u) /\ SameView(t, u)
  /\ u.modiff \in Nat /\ u.modiff >= t.modiff /\ u.unchanged_modified = t.unchanged_modified

LEMMA AlikeTwice ==
  ASSUME NEW t, t.modiff \in Nat, NEW u, NEW v, Alike(t, u), Alike(u, v)
  PROVE  Alike(t, v)
<1>1. \A a, b, c \in Nat : b >= a /\ c >= b => c >= a
  OBVIOUS
<1>2. v.modiff >= t.modiff
  BY <1>1 DEF Alike
<1>. QED BY <1>2, Zenon DEF Alike, SameText, SameView

LEMMA AlikeItself ==
  ASSUME NEW t, Laid(t)
  PROVE  Alike(t, t)
<1>1. t.modiff \in Nat /\ t.modiff >= t.modiff
  BY DEF Laid
<1>. QED BY <1>1, Zenon DEF Alike, SameText, SameView, Laid

LEMMA AlikeSeen ==
  ASSUME NEW t, NEW u, Alike(t, u), NEW s, Seen(t, s)
  PROVE  /\ Seen(u, s) /\ Chars(u) = Chars(t) /\ Lower(t, u)
         /\ Capped(t) => Capped(u)
         /\ Changed(t) => Changed(u)
<1>1. Chars(u) = Chars(t) /\ u.gpt = t.gpt /\ u.z = t.z
  BY DEF Alike, SameText, Chars
<1>2. Laid(u)
  <2>1. u.unchanged_modified \in 0 .. u.modiff
    BY DEF Alike, Seen, Laid
  <2>. QED BY <1>1, <2>1, Zenon DEF Alike, Seen, Laid, SameText, SameView
<1>3. u.beg_unchanged = t.beg_unchanged /\ u.end_unchanged = t.end_unchanged
  BY DEF Alike, SameView
<1>4. Seen(u, s)
  BY <1>1, <1>2, <1>3, Zenon DEF Seen
<1>5. Lower(t, u) /\ (Changed(t) => Changed(u))
  BY <1>3 DEF Lower, Changed, Alike, Seen, Laid
<1>. QED BY <1>1, <1>3, <1>4, <1>5 DEF Capped

(* Each step of bookkeeping *)
LEMMA AlikeCaches ==
  ASSUME NEW t, Laid(t), NEW start, NEW end
  PROVE  /\ Alike(t, invalidate_buffer_caches(t, start, end))
         /\ SameCounts(t, invalidate_buffer_caches(t, start, end))
<1>. DEFINE u == invalidate_buffer_caches(t, start, end)
<1>1. DOMAIN u = Fields /\ SameText(t, u) /\ SameCounts(t, u) /\ SameView(t, u)
  BY OfCaches DEF Laid
<1>. HIDE DEF u
<1>2. t.modiff \in Nat /\ t.modiff >= t.modiff
  BY DEF Laid
<1>3. Alike(t, u) /\ SameCounts(t, u)
  BY <1>1, <1>2, Zenon DEF Alike, SameCounts
<1>. QED BY <1>3 DEF u

LEMMA AlikeUndo ==
  ASSUME NEW t, Laid(t), NEW list
  PROVE  Alike(t, [t EXCEPT !.undo_list = list])
<1>. DEFINE u == [t EXCEPT !.undo_list = list]
<1>1. DOMAIN t = Fields /\ t.modiff \in Nat /\ t.modiff >= t.modiff
  BY DEF Laid
<1>2. DOMAIN u = Fields /\ SameText(t, u) /\ SameCounts(t, u) /\ SameView(t, u)
  BY <1>1 DEF Fields, SameText, SameCounts, SameView
<1>. HIDE DEF u
<1>3. Alike(t, u)
  BY <1>1, <1>2, Zenon DEF Alike, SameCounts
<1>. QED BY <1>3 DEF u

LEMMA AlikeRecordInsert ==
  ASSUME NEW t, Laid(t), NEW beg, NEW length
  PROVE  Alike(t, RecordInsert(t, beg, length))
<1>. HIDE DEF Alike
<1>. QED BY AlikeUndo DEF RecordInsert

LEMMA AlikeRecordDelete ==
  ASSUME NEW t, Laid(t), NEW beg, NEW chars, NEW marks
  PROVE  Alike(t, RecordDelete(t, beg, chars, marks))
<1>. HIDE DEF Alike
<1>. QED BY AlikeUndo DEF RecordDelete

LEMMA AlikeModiff ==
  ASSUME NEW t, Laid(t), NEW len
  PROVE  Alike(t, modiff_incr(t, len)) /\ Changed(modiff_incr(t, len))
<1>. DEFINE u == modiff_incr(t, len)
<1>1. /\ DOMAIN u = Fields /\ SameText(t, u) /\ SameView(t, u)
      /\ u.modiff \in Nat /\ u.modiff > t.modiff /\ u.unchanged_modified = t.unchanged_modified
  BY OfModiff DEF Laid
<1>. HIDE DEF u
<1>2. u.modiff >= t.modiff /\ Changed(u)
  BY <1>1 DEF Laid, Changed
<1>3. Alike(t, u) /\ Changed(u)
  BY <1>1, <1>2, Zenon DEF Alike
<1>. QED BY <1>3 DEF u

LEMMA AlikeMarkers ==
  ASSUME NEW t, Laid(t), NEW u, NEW markers, MarkersSet(t, u, markers)
  PROVE  Alike(t, u)
<1>1. t.modiff \in Nat /\ t.modiff >= t.modiff
  BY DEF Laid
<1>. QED BY <1>1, Zenon DEF Alike, MarkersSet, SameCounts

LEMMA AlikePoint ==
  ASSUME NEW t, Laid(t), NEW nchars, NEW nbytes
  PROVE  Alike(t, adjust_point(t, nchars, nbytes))
<1>. DEFINE u == adjust_point(t, nchars, nbytes)
<1>1. DOMAIN u = Fields /\ SameText(t, u) /\ SameCounts(t, u) /\ SameView(t, u)
  BY OfPoint DEF Laid
<1>. HIDE DEF u
<1>2. t.modiff \in Nat /\ t.modiff >= t.modiff
  BY DEF Laid
<1>3. Alike(t, u)
  BY <1>1, <1>2, Zenon DEF Alike, SameCounts
<1>. QED BY <1>3 DEF u

-------------------------------------------------------------------------------
(* What an edit leaves of the head and the tail                              *)

LEMMA SpliceEnds ==
  ASSUME NEW chars \in Seq(Char), NEW from \in Places(chars), NEW to \in Places(chars),
         from <= to, NEW new \in Seq(Char)
  PROVE  LET S == Splice(chars, from, to, new) IN
         /\ \A i \in 1 .. from - 1 : S[i] = chars[i]
         /\ \A i \in Nat : i <= Len(chars) - to => S[Len(S) - i] = chars[Len(chars) - i]
<1>. DEFINE n == Len(chars)
            k == Len(new)
            x == SubSeq(chars, 1, from - 1)
            y == SubSeq(chars, to, n)
            w == x \o new
            S == w \o y
<1>1. n \in Nat /\ k \in Nat /\ from \in 1 .. n + 1 /\ to \in 1 .. n + 1
  BY LenProperties DEF Places
<1>2. /\ x \in Seq(Char) /\ Len(x) = from - 1
      /\ \A i \in 1 .. from - 1 : x[i] = chars[i]
  <2>1. /\ 1 \in 1 .. n + 1 /\ from - 1 \in 0 .. n /\ 1 <= (from - 1) + 1
        /\ (from - 1) + 1 - 1 = from - 1 /\ \A i \in 1 .. from - 1 : 1 + i - 1 = i
    BY <1>1
  <2>2. /\ x \in Seq(Char) /\ Len(x) = (from - 1) + 1 - 1
        /\ \A i \in 1 .. (from - 1) + 1 - 1 : x[i] = chars[1 + i - 1]
    BY <2>1, PartType
  <2>. HIDE DEF x
  <2>. QED BY <2>1, <2>2
<1>3. /\ y \in Seq(Char) /\ Len(y) = n + 1 - to
      /\ \A i \in 1 .. n + 1 - to : y[i] = chars[to + i - 1]
  <2>1. n \in 0 .. n /\ to <= n + 1
    BY <1>1
  <2>. QED BY <1>1, <2>1, PartType
<1>4. /\ w \in Seq(Char) /\ Len(w) = (from - 1) + k
      /\ \A i \in 1 .. from - 1 : w[i] = x[i]
  BY <1>1, <1>2, ConcatProperties
<1>. HIDE DEF x, y, w
<1>5. /\ Len(S) = Len(w) + Len(y)
      /\ \A i \in 1 .. Len(w) + Len(y) : S[i] = IF i <= Len(w) THEN w[i] ELSE y[i - Len(w)]
  <2>1. w \in Seq(Char) /\ y \in Seq(Char)
    BY <1>3, <1>4
  <2>. QED BY <2>1, ConcatProperties
<1>. HIDE DEF S
<1>6. \A i \in 1 .. from - 1 : S[i] = chars[i]
  <2>. TAKE i \in 1 .. from - 1
  <2>1. i \in 1 .. Len(w) + Len(y) /\ i <= Len(w)
    BY <1>1, <1>3, <1>4
  <2>. QED BY <1>2, <1>4, <1>5, <2>1
<1>7. \A i \in Nat : i <= n - to => S[Len(S) - i] = chars[n - i]
  <2>. SUFFICES ASSUME NEW i \in Nat, i <= n - to PROVE S[Len(S) - i] = chars[n - i]
    OBVIOUS
  <2>. DEFINE l == Len(w)
              m == Len(y)
  <2>1. l \in Nat /\ m = n + 1 - to /\ m \in Nat
    BY <1>1, <1>3, <1>4, LenProperties
  <2>2. Len(S) = l + m
    BY <1>5
  <2>. HIDE DEF l, m
  <2>3. /\ (l + m) - i \in 1 .. l + m /\ ~((l + m) - i <= l) /\ ((l + m) - i) - l = m - i
        /\ m - i \in 1 .. n + 1 - to /\ to + (m - i) - 1 = n - i
    BY <1>1, <2>1
  <2>4. S[(l + m) - i] = y[((l + m) - i) - l]
    BY <1>5, <2>3 DEF l, m
  <2>5. y[m - i] = chars[to + (m - i) - 1]
    BY <1>3, <2>3
  <2>. HIDE DEF n
  <2>6. S[(l + m) - i] = chars[n - i]
    BY <2>3, <2>4, <2>5, Zenon
  <2>. QED BY <2>2, <2>6, Zenon
<1>. QED BY <1>6, <1>7 DEF Splice, S, w, x, y

LEMMA SpliceSame ==
  ASSUME NEW chars \in Seq(Char), NEW from \in Places(chars), NEW to \in Places(chars),
         from <= to, NEW new \in Seq(Char), NEW s, NEW n \in Int
  PROVE  LET S == Splice(chars, from, to, new) IN
         /\ SameHead(chars, s, n) /\ n < from => SameHead(S, s, n)
         /\ SameTail(chars, s, n) /\ n <= Len(chars) + 1 - to => SameTail(S, s, n)
<1>. DEFINE S == Splice(chars, from, to, new)
            k == Len(chars)
<1>1. /\ \A i \in 1 .. from - 1 : S[i] = chars[i]
      /\ \A i \in Nat : i <= k - to => S[Len(S) - i] = chars[k - i]
  BY SpliceEnds
<1>. HIDE DEF S
<1>2. k \in Nat /\ from \in Int /\ to \in Int
  BY LenProperties DEF Places
<1>3. ASSUME SameHead(chars, s, n), n < from
      PROVE  SameHead(S, s, n)
  <2>1. \A i \in 1 .. n : i \in 1 .. from - 1
    BY <1>2, <1>3
  <2>. QED BY <1>1, <1>3, <2>1 DEF SameHead
<1>4. ASSUME SameTail(chars, s, n), n <= k + 1 - to
      PROVE  SameTail(S, s, n)
  <2>1. \A i \in Nat : i < n => i <= k - to
    BY <1>2, <1>4
  <2>. QED BY <1>1, <1>4, <2>1, Zenon DEF SameTail
<1>. QED BY <1>3, <1>4 DEF S

-------------------------------------------------------------------------------
(* The gap moves                                                             *)

(* The gap alone has moved. *)
Shifted(t, u) ==
  /\ Laid(u) /\ Chars(u) = Chars(t) /\ u.z = t.z
  /\ u.modiff = t.modiff /\ u.unchanged_modified = t.unchanged_modified

LEMMA ShiftedTwice ==
  ASSUME NEW t, NEW u, NEW v, Shifted(t, u), Shifted(u, v)
  PROVE  Shifted(t, v)
  BY Zenon DEF Shifted

LEMMA LowerTwice ==
  ASSUME NEW t, NEW u, NEW v, Laid(t), Laid(u), Laid(v), Lower(t, u), Lower(u, v)
  PROVE  Lower(t, v)
<1>1. \A x, y, z \in Int : y <= x /\ z <= y => z <= x
  OBVIOUS
<1>. QED BY <1>1, Zenon DEF Lower, Laid

LEMMA LowerItself ==
  ASSUME NEW t, Laid(t)
  PROVE  Lower(t, t)
  BY DEF Lower, Laid

LEMMA LowerOf ==
  ASSUME NEW b \in Int, NEW c \in Int, NEW n, n = Min({b, c})
  PROVE  n \in Int /\ n <= b /\ n <= c
BY LessOf

(* What a change from START to END leaves of the two numbers *)
LEMMA ComputeUnchanged ==
  ASSUME NEW t, Laid(t), NEW start \in Int, NEW end \in Int
  PROVE  LET u == BUF_COMPUTE_UNCHANGED(t, start, end) IN
         /\ DOMAIN u = Fields /\ SameText(t, u) /\ SameCounts(t, u)
         /\ u.beg_unchanged \in Int /\ u.end_unchanged \in Int
         /\ u.beg_unchanged <= start - 1 /\ u.end_unchanged <= t.z.c - end
         /\ Changed(t) => Lower(t, u)
<1>. DEFINE u == BUF_COMPUTE_UNCHANGED(t, start, end)
            b == t.beg_unchanged
            e == t.end_unchanged
            sb == start - BEG
            ze == t.z.c - end
<1>0. DOMAIN t = Fields /\ b \in Int /\ e \in Int /\ t.z.c \in Int
  BY LaidParts DEF Laid
<1>1. DOMAIN u = Fields /\ SameText(t, u) /\ SameCounts(t, u)
  BY <1>0, OfUnchanged
<1>2. sb \in Int /\ ze \in Int /\ sb = start - 1
  BY <1>0 DEF BEG
<1>3. CASE t.unchanged_modified = t.modiff
  <2>1. u.beg_unchanged = sb /\ u.end_unchanged = ze
    BY <1>0, <1>3 DEF Fields, BUF_COMPUTE_UNCHANGED
  <2>2. ~Changed(t)
    BY <1>3 DEF Changed, Laid
  <2>. HIDE DEF u
  <2>3. u.beg_unchanged <= start - 1 /\ u.end_unchanged <= ze
    BY <1>2, <2>1
  <2>. QED BY <1>1, <1>2, <2>1, <2>2, <2>3 DEF u, ze
<1>4. CASE t.unchanged_modified # t.modiff
  <2>1. u.beg_unchanged = Min({b, sb}) /\ u.end_unchanged = Min({e, ze})
    BY <1>0, <1>4 DEF Fields, BUF_COMPUTE_UNCHANGED
  <2>. HIDE DEF u, b, e, sb, ze
  <2>2. u.beg_unchanged \in Int /\ u.beg_unchanged <= b /\ u.beg_unchanged <= sb
    BY <1>0, <1>2, <2>1, LowerOf
  <2>3. u.end_unchanged \in Int /\ u.end_unchanged <= e /\ u.end_unchanged <= ze
    BY <1>0, <1>2, <2>1, LowerOf
  <2>. QED BY <1>1, <1>2, <2>2, <2>3, Zenon DEF Lower, u, b, e, ze
<1>. QED BY <1>3, <1>4

LEMMA MotionSeen ==
  ASSUME NEW t, NEW s, Seen(t, s), Fresh(t, s), NEW p \in Pos, p.c \in Places(Chars(t)),
         NEW stop \in Pos, stop.c \in Places(Chars(t))
  PROVE  LET u == gap_motion(t, p, stop) IN
         /\ Seen(u, s) /\ Shifted(t, u) /\ u.gpt = stop
         /\ Changed(t) => Lower(t, u)
         /\ p = stop => Capped(u)
<1>. DEFINE C == Chars(t)
            v == BUF_COMPUTE_UNCHANGED(t, p.c, t.gpt.c)
            u == GapAt(v, stop)
            B == v.beg_unchanged
            E == v.end_unchanged
<1>0. Laid(t) /\ DOMAIN t = Fields
  BY DEF Seen, Laid
<1>1. /\ DOMAIN v = Fields /\ SameText(t, v) /\ SameCounts(t, v)
      /\ B \in Int /\ E \in Int /\ B <= p.c - 1 /\ E <= t.z.c - t.gpt.c
      /\ Changed(t) => Lower(t, v)
  <2>1. p.c \in Int /\ t.gpt.c \in Int
    BY <1>0, LaidParts DEF Pos
  <2>. QED BY <1>0, <2>1, ComputeUnchanged
<1>2. Chars(v) = C
  BY <1>1 DEF SameText, Chars
<1>. HIDE DEF v
<1>3. /\ DOMAIN u = Fields /\ SameCounts(v, u) /\ SameView(v, u)
      /\ u.before = SubSeq(Chars(v), 1, stop.c - BEG)
      /\ u.after = SubSeq(Chars(v), stop.c, Len(Chars(v))) /\ u.gpt = stop /\ u.z = v.z
  <2>1. DOMAIN v = Fields
    BY <1>1
  <2>. QED BY <2>1, OfGapAt
<1>4. gap_motion(t, p, stop) = u
  BY DEF gap_motion, v
<1>. HIDE DEF u
<1>5. /\ C \in Seq(Char) /\ Len(C) \in Nat /\ t.z.c = Len(C) + 1 /\ t.gpt.c \in Nat /\ t.gpt.c >= 1
      /\ t.gpt.c <= Len(C) + 1 /\ t.beg_unchanged \in Int /\ t.end_unchanged \in Int
      /\ p.c \in Int /\ stop.c \in Int
  BY <1>0, LaidParts DEF Laid, Pos
<1>6. /\ u.before \o u.after = C /\ u.before \in Seq(Char) /\ u.after \in Seq(Char)
      /\ stop.c = Len(u.before) + 1
  <2>1. /\ SubSeq(C, 1, stop.c - BEG) \o SubSeq(C, stop.c, Len(C)) = C
        /\ SubSeq(C, 1, stop.c - BEG) \in Seq(Char) /\ Len(SubSeq(C, 1, stop.c - BEG)) + 1 = stop.c
        /\ SubSeq(C, stop.c, Len(C)) \in Seq(Char)
    BY <1>5, TwoParts
  <2>. QED BY <1>2, <1>3, <2>1, Zenon
<1>7. Chars(u) = C /\ u.z = t.z
  BY <1>1, <1>3, <1>6, Zenon DEF Chars, SameText
<1>8. /\ u.modiff = t.modiff /\ u.unchanged_modified = t.unchanged_modified
      /\ u.beg_unchanged = B /\ u.end_unchanged = E
  BY <1>1, <1>3, Zenon DEF SameCounts, SameView
<1>9. /\ p.c >= 1 /\ p.c <= Len(C) + 1 /\ BEG = 1
  BY <1>5 DEF Places, BEG
<1>10. /\ B \in Int /\ E \in Int /\ B <= p.c - 1 /\ E <= t.z.c - t.gpt.c
       /\ t.unchanged_modified # t.modiff => B <= t.beg_unchanged /\ E <= t.end_unchanged
  <2>1. t.unchanged_modified # t.modiff => Changed(t)
    BY <1>0 DEF Changed, Laid
  <2>. QED BY <1>1, <2>1 DEF Lower
<1>. HIDE DEF B, E
<1>11. Laid(u)
  <2>1. t.modiff \in Nat /\ t.unchanged_modified \in 0 .. t.modiff /\ t.z \in Pos
    BY <1>0 DEF Laid
  <2>. QED BY <1>3, <1>5, <1>6, <1>7, <1>8, <1>10, <2>1, Zenon DEF Laid
<1>12. SameHead(C, s, B) /\ \A n \in Int : n <= E => SameTail(C, s, n)
  <2>1. CASE t.unchanged_modified = t.modiff
    <3>1. C = s
      BY <2>1 DEF Fresh
    <3>2. B <= Len(C) /\ \A n \in Int : n <= E => n <= Len(C)
      BY <1>5, <1>9, <1>10
    <3>. HIDE DEF C
    <3>. QED BY <1>5, <1>10, <3>1, <3>2, SameEndsOfItself
  <2>2. CASE t.unchanged_modified # t.modiff
    <3>1. /\ SameHead(C, s, t.beg_unchanged)
          /\ \A n \in Int : n <= t.end_unchanged /\ n <= t.z.c - t.gpt.c => SameTail(C, s, n)
      BY DEF Seen
    <3>2. \A n \in Int : n <= E => n <= t.end_unchanged /\ n <= t.z.c - t.gpt.c
      BY <1>5, <1>10, <2>2
    <3>3. SameHead(C, s, B)
      <4>. HIDE DEF C
      <4>. QED BY <1>5, <1>10, <2>2, <3>1, SameEndsFewer
    <3>. QED BY <3>1, <3>2, <3>3
  <2>. QED BY <2>1, <2>2
<1>13. Seen(u, s)
  BY <1>7, <1>8, <1>11, <1>12 DEF Seen
<1>14. Changed(t) => Lower(t, u)
  <2>1. Changed(t) => t.unchanged_modified # t.modiff
    BY <1>0 DEF Changed, Laid
  <2>. QED BY <1>8, <1>10, <2>1 DEF Lower
<1>15. p = stop => Capped(u)
  BY <1>3, <1>8, <1>9, <1>10 DEF Capped
<1>. HIDE DEF C
<1>16. Shifted(t, u)
  BY <1>7, <1>8, <1>11 DEF Shifted, C
<1>. QED BY <1>3, <1>4, <1>13, <1>14, <1>15, <1>16

LEMMA ShiftedFresh ==
  ASSUME NEW t, NEW u, Shifted(t, u), NEW s
  PROVE  /\ Fresh(t, s) => Fresh(u, s)
         /\ Changed(t) => Changed(u)
  BY DEF Shifted, Fresh, Changed

LEMMA TowardSeen ==
  ASSUME NEW t, NEW s, Seen(t, s), Fresh(t, s), NEW from \in Pos, from.c \in Places(Chars(t)),
         NEW to \in Pos, to.c \in Places(Chars(t)), from.c <= to.c
  PROVE  LET u == GapToward(t, from, to) IN
         /\ Seen(u, s) /\ Shifted(t, u) /\ from.c <= u.gpt.c /\ u.gpt.c <= to.c
         /\ Changed(t) => Lower(t, u)
<1>. DEFINE r == IF from.c > t.gpt.c THEN gap_motion(t, from, from) ELSE t
            u == IF to.c < r.gpt.c THEN gap_motion(r, to, to) ELSE r
<1>1. GapToward(t, from, to) = u
  BY DEF GapToward
<1>2. Laid(t) /\ t.gpt.c \in Nat /\ from.c \in Int /\ to.c \in Int
  BY LaidParts DEF Seen, Pos
<1>3. Shifted(t, t) /\ Lower(t, t)
  BY <1>2, LowerItself DEF Shifted
<1>4. /\ Seen(r, s) /\ Shifted(t, r) /\ from.c <= r.gpt.c
      /\ Changed(t) => Lower(t, r)
  <2>1. CASE from.c > t.gpt.c
    <3>1. r = gap_motion(t, from, from)
      BY <2>1
    <3>. HIDE DEF r
    <3>2. Seen(r, s) /\ Shifted(t, r) /\ r.gpt = from /\ (Changed(t) => Lower(t, r))
      BY <3>1, MotionSeen
    <3>. QED BY <1>2, <3>2
  <2>2. CASE ~(from.c > t.gpt.c)
    <3>1. r = t
      BY <2>2
    <3>. QED BY <1>2, <1>3, <2>2, <3>1
  <2>. QED BY <2>1, <2>2
<1>. HIDE DEF r
<1>5. Fresh(r, s) /\ Chars(r) = Chars(t) /\ Laid(r) /\ r.gpt.c \in Nat
  BY <1>4, ShiftedFresh, LaidParts DEF Shifted, Seen
<1>6. CASE to.c < r.gpt.c
  <2>1. u = gap_motion(r, to, to)
    BY <1>6
  <2>. HIDE DEF u
  <2>2. Seen(u, s) /\ Shifted(r, u) /\ u.gpt = to /\ (Changed(r) => Lower(r, u))
    BY <1>4, <1>5, <2>1, MotionSeen
  <2>3. Shifted(t, u)
    BY <1>4, <2>2, ShiftedTwice
  <2>4. Changed(t) => Lower(t, u)
    <3>1. Changed(t) => Changed(r)
      BY <1>4, ShiftedFresh
    <3>. QED BY <1>2, <1>4, <1>5, <2>2, <3>1, LowerTwice DEF Seen
  <2>. QED BY <1>1, <1>2, <2>2, <2>3, <2>4
<1>7. CASE ~(to.c < r.gpt.c)
  <2>1. u = r
    BY <1>7
  <2>. HIDE DEF u
  <2>. QED BY <1>1, <1>2, <1>4, <1>5, <1>7, <2>1
<1>. QED BY <1>6, <1>7


-------------------------------------------------------------------------------
(* Text is put in, or given up                                               *)

LEMMA TakeInSeen ==
  ASSUME NEW t, NEW s, Seen(t, s), Capped(t), NEW new \in Seq(Char)
  PROVE  LET u == TakeIn(t, new) IN
         /\ Seen(u, s) /\ Capped(u) /\ Lower(t, u)
         /\ Changed(t) => Changed(u)
<1>. DEFINE u == TakeIn(t, new)
            C == Chars(t)
            g == t.gpt
            S == Splice(C, g.c, g.c, new)
            n == Len(new)
<1>0. Laid(t) /\ DOMAIN t = Fields
  BY DEF Seen, Laid
<1>1. /\ DOMAIN u = Fields /\ SameCounts(t, u) /\ SameView(t, u)
      /\ u.before = t.before \o new /\ u.after = t.after
      /\ u.gpt = Shift(g, n, Bytes(new)) /\ u.z = Shift(t.z, n, Bytes(new))
  BY <1>0, OfTakeIn
<1>. HIDE DEF u
<1>2. /\ C \in Seq(Char) /\ Len(C) \in Nat /\ Len(C) = Len(t.before) + Len(t.after)
      /\ t.before \in Seq(Char) /\ t.after \in Seq(Char)
      /\ Len(t.before) \in Nat /\ Len(t.after) \in Nat
      /\ g \in Pos /\ t.z \in Pos /\ g.c = Len(t.before) + 1 /\ t.z.c = Len(C) + 1
      /\ g.c \in Places(C) /\ g.c \in Nat
      /\ n \in Nat /\ Bytes(new) \in Nat
      /\ t.beg_unchanged \in Int /\ t.end_unchanged \in Int
  BY <1>0, LaidParts, CharsType, LenProperties, BytesConcat DEF Laid
<1>3. Chars(u) = S
  <2>1. /\ t.before = SubSeq(Chars(t), 1, g.c - BEG)
        /\ t.after = SubSeq(Chars(t), g.c, Len(Chars(t)))
    BY <1>2, GapParts
  <2>2. g.c - BEG = g.c - 1
    BY DEF BEG
  <2>. QED BY <1>1, <2>1, <2>2, Zenon DEF Chars, Splice
<1>4. u.before \in Seq(Char) /\ u.after \in Seq(Char) /\ Len(u.before) = Len(t.before) + n
  BY <1>1, <1>2, ConcatProperties
<1>5. /\ u.gpt \in Pos /\ u.gpt.c = g.c + n /\ u.z \in Pos /\ u.z.c = t.z.c + n
  <2>1. n \in Int /\ Bytes(new) \in Int /\ g \in Pos /\ t.z \in Pos
    BY <1>2
  <2>. HIDE DEF n, g
  <2>. QED BY <1>1, <2>1, ShiftParts
<1>6. Len(Chars(u)) = Len(u.before) + Len(u.after)
  BY <1>4, CharsType
<1>7. u.gpt.c = Len(u.before) + 1 /\ u.z.c = Len(Chars(u)) + 1 /\ u.z.c - u.gpt.c = t.z.c - g.c
  <2>1. Len(u.after) = Len(t.after)
    BY <1>1
  <2>. HIDE DEF C, g, n
  <2>. DEFINE before == Len(t.before)
              after  == Len(t.after)
              chars  == Len(C)
              gc     == g.c
              zc     == t.z.c
              ubefore == Len(u.before)
              uchars  == Len(Chars(u))
              ugc     == u.gpt.c
              uzc     == u.z.c
  <2>2. /\ before \in Nat /\ after \in Nat /\ n \in Nat
        /\ chars = before + after /\ gc = before + 1 /\ zc = chars + 1
        /\ ubefore = before + n /\ uchars = ubefore + after
        /\ ugc = gc + n /\ uzc = zc + n
    BY <1>2, <1>4, <1>5, <1>6, <2>1, Zenon
  <2>. HIDE DEF before, after, chars, gc, zc, ubefore, uchars, ugc, uzc
  <2>3. ugc = ubefore + 1 /\ uzc = uchars + 1 /\ uzc - ugc = zc - gc
    BY <2>2
  <2>. QED BY <2>3, Zenon DEF chars, gc, zc, ubefore, uchars, ugc, uzc
<1>. HIDE DEF S, n
<1>8. /\ u.beg_unchanged = t.beg_unchanged /\ u.end_unchanged = t.end_unchanged
      /\ u.modiff = t.modiff /\ u.unchanged_modified = t.unchanged_modified
  BY <1>1 DEF SameView, SameCounts
<1>9. Laid(u)
  BY <1>0, <1>1, <1>4, <1>5, <1>7, <1>8, Zenon DEF Laid
<1>10. SameHead(S, s, u.beg_unchanged)
  <2>1. t.beg_unchanged < g.c /\ g.c <= g.c
    BY <1>2 DEF Capped, BEG
  <2>2. SameHead(C, s, t.beg_unchanged)
    BY DEF Seen
  <2>. HIDE DEF C
  <2>. QED BY <1>2, <1>8, <2>1, <2>2, SpliceSame DEF S
<1>11. ASSUME NEW k \in Int, k <= u.end_unchanged, k <= u.z.c - u.gpt.c
       PROVE  SameTail(S, s, k)
  <2>1. SameTail(C, s, k)
    BY <1>7, <1>8, <1>11 DEF Seen
  <2>. HIDE DEF C
  <2>2. k <= Len(C) + 1 - g.c /\ g.c <= g.c
    <3>1. \A x \in Nat : x <= x
      OBVIOUS
    <3>. HIDE DEF g
    <3>2. u.z.c - u.gpt.c = (Len(C) + 1) - g.c
      BY <1>2, <1>7, Zenon
    <3>3. \A x, y \in Nat : (x + 1) - y = x + 1 - y
      OBVIOUS
    <3>4. u.z.c - u.gpt.c = Len(C) + 1 - g.c
      BY <1>2, <3>2, <3>3, Zenon
    <3>. QED BY <1>2, <1>11, <3>1, <3>4, Zenon
  <2>. QED BY <1>2, <2>1, <2>2, SpliceSame DEF S
<1>12. Seen(u, s)
  BY <1>3, <1>9, <1>10, <1>11, Zenon DEF Seen
<1>13. Capped(u)
  <2>1. \A b, x \in Int, k \in Nat : b <= x - 1 => b <= (x + k) - 1
    OBVIOUS
  <2>. QED BY <1>2, <1>5, <1>8, <2>1 DEF Capped, BEG
<1>14. Lower(t, u) /\ (Changed(t) => Changed(u))
  BY <1>2, <1>8 DEF Lower, Changed
<1>. QED BY <1>12, <1>13, <1>14 DEF u

LEMMA GiveUpSeen ==
  ASSUME NEW t, NEW s, Seen(t, s), NEW from \in Pos, from.c \in Places(Chars(t)),
         NEW to \in Pos, to.c \in Places(Chars(t)), from.c <= t.gpt.c, t.gpt.c <= to.c
  PROVE  LET u == LowerBoth(GiveUp(t, from, to)) IN
         /\ Seen(u, s) /\ Capped(u) /\ Lower(t, u)
         /\ Changed(t) => Changed(u)
<1>. DEFINE v == GiveUp(t, from, to)
            u == LowerBoth(v)
            C == Chars(t)
            S == Splice(C, from.c, to.c, <<>>)
<1>0. Laid(t) /\ DOMAIN t = Fields
  BY DEF Seen, Laid
<1>1. /\ DOMAIN v = Fields /\ SameCounts(t, v) /\ SameView(t, v)
      /\ v.before = SubSeq(t.before, 1, from.c - BEG)
      /\ v.after = SubSeq(C, to.c, Len(C)) /\ v.gpt = from
      /\ v.z = Shift(t.z, from.c - to.c, from.b - to.b)
  BY <1>0, OfGiveUp
<1>. HIDE DEF v
<1>2. /\ DOMAIN u = Fields /\ SameText(v, u) /\ SameCounts(v, u)
      /\ u.beg_unchanged = Min({v.beg_unchanged, v.gpt.c - BEG})
      /\ u.end_unchanged = Min({v.end_unchanged, v.z.c - v.gpt.c})
  BY <1>1, OfLowerBoth
<1>. HIDE DEF u
<1>3. /\ C \in Seq(Char) /\ Len(C) \in Nat /\ C = t.before \o t.after
      /\ t.before \in Seq(Char) /\ t.after \in Seq(Char) /\ Len(t.before) \in Nat
      /\ t.z \in Pos /\ t.gpt.c = Len(t.before) + 1 /\ t.z.c = Len(C) + 1 /\ t.gpt.c \in Nat
      /\ t.beg_unchanged \in Int /\ t.end_unchanged \in Int
  BY <1>0, LaidParts DEF Laid, Chars
<1>4. /\ from.c \in 1 .. Len(C) + 1 /\ to.c \in 1 .. Len(C) + 1
      /\ from.c \in Nat /\ to.c \in Nat /\ from.b \in Int /\ to.b \in Int /\ from.c <= to.c
  <2>1. from.c \in 1 .. Len(C) + 1 /\ to.c \in 1 .. Len(C) + 1
    BY DEF Places
  <2>2. from.b \in Int /\ to.b \in Int
    BY DEF Pos
  <2>. HIDE DEF C
  <2>3. \A n, g \in Nat : \A x, y \in 1 .. n + 1 :
          x \in Nat /\ y \in Nat /\ (x <= g /\ g <= y => x <= y)
    OBVIOUS
  <2>4. Len(C) \in Nat /\ t.gpt.c \in Nat
    BY <1>3
  <2>. QED BY <2>1, <2>2, <2>3, <2>4, Zenon
<1>5. v.before = SubSeq(C, 1, from.c - BEG)
  <2>1. from.c - BEG \in 0 .. Len(t.before)
    <3>. HIDE DEF C
    <3>. QED BY <1>3, <1>4 DEF BEG
  <2>. HIDE DEF C
  <2>. QED BY <1>1, <1>3, <2>1, FrontOfFront
<1>6. /\ v.before \in Seq(Char) /\ Len(v.before) + 1 = from.c /\ v.after \in Seq(Char)
      /\ Len(v.after) = Len(C) + 1 - to.c
  <2>1. from.c \in Places(C) /\ to.c \in Places(C) /\ Len(C) \in 0 .. Len(C) /\ to.c <= Len(C) + 1
    <3>1. \A n \in Nat : n \in 0 .. n /\ \A x \in 1 .. n + 1 : x <= n + 1
      OBVIOUS
    <3>. HIDE DEF C
    <3>. QED BY <1>3, <1>4, <3>1, Zenon DEF Places
  <2>2. /\ SubSeq(C, 1, from.c - BEG) \in Seq(Char) /\ Len(SubSeq(C, 1, from.c - BEG)) + 1 = from.c
        /\ SubSeq(C, to.c, Len(C)) \in Seq(Char)
    BY <1>3, <2>1, TwoParts
  <2>3. Len(SubSeq(C, to.c, Len(C))) = Len(C) + 1 - to.c
    <3>. HIDE DEF C
    <3>. QED BY <1>3, <1>4, <2>1, PartType
  <2>. HIDE DEF C
  <2>. QED BY <1>1, <1>5, <2>2, <2>3, Zenon
<1>7. Chars(v) = S
  <2>1. v.before \o <<>> = v.before
    BY <1>6, ConcatEmptySeq
  <2>2. from.c - BEG = from.c - 1
    BY DEF BEG
  <2>. QED BY <1>1, <1>5, <2>1, <2>2, Zenon DEF Chars, Splice
<1>8. v.z \in Pos /\ v.z.c = t.z.c + (from.c - to.c)
  <2>1. from.c - to.c \in Int /\ from.b - to.b \in Int
    BY <1>4
  <2>2. t.z \in Pos /\ v.z = Shift(t.z, from.c - to.c, from.b - to.b)
    BY <1>1, <1>3, Zenon
  <2>. HIDE DEF C
  <2>. QED BY <2>1, <2>2, ShiftParts
<1>9. Len(Chars(v)) = Len(v.before) + Len(v.after) /\ Len(v.before) \in Nat
  BY <1>6, CharsType
<1>. HIDE DEF S, C
<1>10. v.z.c = Len(Chars(v)) + 1 /\ v.z.c - v.gpt.c = Len(C) + 1 - to.c /\ v.gpt.c - BEG = from.c - 1
       /\ v.gpt = from
  <2>1. v.gpt = from /\ v.gpt.c - BEG = from.c - 1
    BY <1>1 DEF BEG
  <2>. DEFINE chars == Len(C)
              f == from.c
              e == to.c
              zc == t.z.c
              vbefore == Len(v.before)
              vafter  == Len(v.after)
              vchars  == Len(Chars(v))
              vzc     == v.z.c
  <2>2. /\ chars \in Nat /\ f \in Nat /\ e \in Nat /\ vbefore \in Nat
        /\ zc = chars + 1 /\ vzc = zc + (f - e) /\ vbefore + 1 = f
        /\ vafter = chars + 1 - e /\ vchars = vbefore + vafter
    BY <1>3, <1>4, <1>6, <1>8, <1>9, Zenon
  <2>. HIDE DEF chars, f, e, zc, vbefore, vafter, vchars, vzc
  <2>3. vzc = vchars + 1 /\ vzc - f = chars + 1 - e
    BY <2>2
  <2>. QED BY <2>1, <2>3, Zenon DEF chars, f, e, vchars, vzc
<1>. DEFINE B == u.beg_unchanged
            E == u.end_unchanged
<1>11. /\ B \in Int /\ B <= t.beg_unchanged /\ B <= from.c - 1
       /\ E \in Int /\ E <= t.end_unchanged /\ E <= Len(C) + 1 - to.c
  <2>1. v.beg_unchanged = t.beg_unchanged /\ v.end_unchanged = t.end_unchanged
    BY <1>1 DEF SameView
  <2>2. from.c - 1 \in Int /\ Len(C) + 1 - to.c \in Int
    <3>1. \A x, y, n \in Nat : x - 1 \in Int /\ n + 1 - y \in Int
      OBVIOUS
    <3>. QED BY <1>3, <1>4, <3>1, Zenon
  <2>3. B = Min({t.beg_unchanged, from.c - 1}) /\ E = Min({t.end_unchanged, Len(C) + 1 - to.c})
    BY <1>2, <1>10, <2>1
  <2>. HIDE DEF B, E
  <2>. QED BY <1>3, <2>2, <2>3, LowerOf
<1>12. Chars(u) = S /\ u.gpt = from /\ u.z = v.z /\ u.before = v.before /\ u.after = v.after
       /\ u.modiff = t.modiff /\ u.unchanged_modified = t.unchanged_modified
  BY <1>1, <1>2, <1>7 DEF SameText, SameCounts, Chars
<1>13. Laid(u)
  <2>1. u.gpt.c = Len(u.before) + 1 /\ u.z.c = Len(Chars(u)) + 1
    BY <1>6, <1>7, <1>10, <1>12, Zenon
  <2>2. u.modiff \in Nat /\ u.unchanged_modified \in 0 .. u.modiff
    BY <1>0, <1>12 DEF Laid
  <2>. QED BY <1>2, <1>6, <1>8, <1>11, <1>12, <2>1, <2>2, Zenon DEF Laid
<1>. HIDE DEF B, E
<1>14. <<>> \in Seq(Char) /\ from.c \in Places(C) /\ to.c \in Places(C)
  BY EmptySeq DEF C
<1>15. SameHead(S, s, B)
  <2>1. SameHead(C, s, t.beg_unchanged)
    BY DEF Seen, C
  <2>2. SameHead(C, s, B)
    BY <1>3, <1>11, <2>1, SameEndsFewer
  <2>3. B < from.c
    BY <1>4, <1>11
  <2>. QED BY <1>3, <1>4, <1>11, <1>14, <2>2, <2>3, SpliceSame DEF S
<1>16. ASSUME NEW k \in Int, k <= E
       PROVE  SameTail(S, s, k)
  <2>1. k <= t.end_unchanged /\ k <= t.z.c - t.gpt.c /\ k <= Len(C) + 1 - to.c
    <3>1. \A e, f, n \in Int : k <= e /\ e <= f /\ e <= n => k <= f /\ k <= n
      BY <1>16
    <3>2. \A n, g, y \in Nat : /\ n + 1 - y \in Int
                              /\ (g <= y /\ k <= n + 1 - y => k <= (n + 1) - g)
      BY <1>16
    <3>3. E \in Int /\ t.end_unchanged \in Int /\ Len(C) + 1 - to.c \in Int
      BY <1>3, <1>4, <1>11, <3>2, Zenon
    <3>4. k <= t.end_unchanged /\ k <= Len(C) + 1 - to.c
      BY <1>11, <1>16, <3>1, <3>3, Zenon
    <3>. QED BY <1>3, <1>4, <3>2, <3>4, Zenon
  <2>2. SameTail(C, s, k)
    BY <2>1 DEF Seen, C
  <2>. QED BY <1>3, <1>4, <1>14, <1>16, <2>1, <2>2, SpliceSame DEF S
<1>17. Seen(u, s)
  BY <1>12, <1>13, <1>15, <1>16, Zenon DEF Seen, B, E
<1>18. Capped(u)
  BY <1>4, <1>11, <1>12 DEF Capped, BEG, B
<1>19. Lower(t, u) /\ (Changed(t) => Changed(u))
  BY <1>11, <1>12 DEF Lower, Changed, B, E
<1>. QED BY <1>17, <1>18, <1>19 DEF u, v

LEMMA LowerEndSeen ==
  ASSUME NEW t, NEW s, Seen(t, s)
  PROVE  LET u == LowerEnd(t) IN
         /\ Seen(u, s) /\ Lower(t, u)
         /\ Capped(t) => Capped(u)
         /\ Changed(t) => Changed(u)
<1>. DEFINE u == LowerEnd(t)
<1>0. Laid(t) /\ DOMAIN t = Fields /\ t.z.c - t.gpt.c \in Int
  BY LaidParts DEF Seen, Laid
<1>1. /\ DOMAIN u = Fields /\ SameText(t, u) /\ SameCounts(t, u)
      /\ u.beg_unchanged = t.beg_unchanged
      /\ u.end_unchanged = Min({t.end_unchanged, t.z.c - t.gpt.c})
  BY <1>0, OfLowerEnd
<1>. HIDE DEF u
<1>2. u.end_unchanged \in Int /\ u.end_unchanged <= t.end_unchanged
  <2>1. t.end_unchanged \in Int
    BY <1>0 DEF Laid
  <2>. QED BY <1>0, <1>1, <2>1, LowerOf
<1>3. /\ Chars(u) = Chars(t) /\ u.before = t.before /\ u.after = t.after /\ u.gpt = t.gpt /\ u.z = t.z
      /\ u.modiff = t.modiff /\ u.unchanged_modified = t.unchanged_modified
  BY <1>1 DEF SameText, SameCounts, Chars
<1>4. Laid(u)
  BY <1>0, <1>1, <1>2, <1>3, Zenon DEF Laid
<1>5. \A n \in Int : n <= u.end_unchanged => n <= t.end_unchanged
  BY <1>0, <1>2 DEF Laid
<1>6. Seen(u, s)
  BY <1>1, <1>3, <1>4, <1>5, Zenon DEF Seen
<1>7. Lower(t, u)
  BY <1>0, <1>1, <1>2 DEF Lower, Laid
<1>. QED BY <1>1, <1>3, <1>6, <1>7 DEF Capped, Changed, u

-------------------------------------------------------------------------------
(* The primitives                                                            *)

(* The numbers of U are true of its text, and only lower than those of T. *)
Onward(t, u, s) == Seen(u, s) /\ Lower(t, u) /\ (Changed(t) => Changed(u))

LEMMA OnwardTwice ==
  ASSUME NEW t, Laid(t), NEW u, NEW v, NEW s, Onward(t, u, s), Onward(u, v, s)
  PROVE  Onward(t, v, s)
<1>1. Lower(t, v)
  BY LowerTwice DEF Onward, Seen
<1>. QED BY <1>1 DEF Onward

LEMMA OnwardAlike ==
  ASSUME NEW t, NEW s, Seen(t, s), NEW u, Alike(t, u)
  PROVE  /\ Onward(t, u, s) /\ Laid(u) /\ Chars(u) = Chars(t) /\ u.gpt = t.gpt
         /\ Capped(t) => Capped(u)
<1>1. u.gpt = t.gpt
  BY DEF Alike, SameText
<1>. QED BY <1>1, AlikeSeen DEF Onward, Seen

LEMMA MoveBothSeen ==
  ASSUME NEW t, Shaped(t), GapPlaced(t), NEW p, Place(Chars(t), p),
         NEW s, Seen(t, s), Capped(t), Fresh(t, s)
  PROVE  Seen(move_gap_both(t, p), s) /\ Capped(move_gap_both(t, p))
<1>1. CASE p.b = t.gpt.b
  BY <1>1 DEF move_gap_both
<1>2. CASE p.b # t.gpt.b
  <2>1. Chars(t) \in Seq(Char)
    BY CharsType DEF Shaped
  <2>2. p \in Pos /\ p.c \in Places(Chars(t))
    BY <2>1, PlaceType DEF Place
  <2>3. move_gap_both(t, p) = gap_motion(t, p, p)
    BY <1>2 DEF move_gap_both
  <2>. QED BY <2>2, <2>3, MotionSeen
<1>. QED BY <1>1, <1>2

LEMMA FreshAlike ==
  ASSUME NEW t, NEW u, NEW s, Fresh(t, s), Chars(u) = Chars(t), SameCounts(t, u)
  PROVE  Fresh(u, s)
BY DEF Fresh, SameCounts

LEMMA CachesSeen ==
  ASSUME NEW t, NEW s, Seen(t, s), NEW start, NEW end
  PROVE  LET u == invalidate_buffer_caches(t, start, end) IN
         /\ Onward(t, u, s) /\ Laid(u) /\ Chars(u) = Chars(t) /\ u.gpt = t.gpt
         /\ Capped(t) => Capped(u)
         /\ Fresh(t, s) => Fresh(u, s)
<1>. DEFINE u == invalidate_buffer_caches(t, start, end)
<1>1. Alike(t, u) /\ SameCounts(t, u)
  BY AlikeCaches DEF Seen
<1>. HIDE DEF u
<1>2. Onward(t, u, s) /\ Laid(u) /\ Chars(u) = Chars(t) /\ u.gpt = t.gpt /\ (Capped(t) => Capped(u))
  BY <1>1, OnwardAlike
<1>3. Fresh(t, s) => Fresh(u, s)
  BY <1>1, <1>2, FreshAlike
<1>. QED BY <1>2, <1>3 DEF u

(* Up to the text being in *)
LEMMA InsertTextSeen ==
  ASSUME NEW t, NEW s, Seen(t, s), Capped(t), NEW new \in Seq(Char), NEW beg, NEW n
  PROVE  LET u == TakeIn(modiff_incr(RecordInsert(t, beg, Len(new)), n), new) IN
         Seen(u, s) /\ Capped(u) /\ Changed(u)
<1>. DEFINE r == RecordInsert(t, beg, Len(new))
            m == modiff_incr(r, n)
            u == TakeIn(m, new)
<1>1. Alike(t, r)
  BY AlikeRecordInsert DEF Seen
<1>. HIDE DEF r
<1>2. Seen(r, s) /\ Capped(r)
  BY <1>1, AlikeSeen
<1>3. Alike(r, m) /\ Changed(m)
  BY <1>2, AlikeModiff DEF Seen
<1>. HIDE DEF m
<1>4. Seen(m, s) /\ Capped(m)
  BY <1>2, <1>3, AlikeSeen
<1>5. Seen(u, s) /\ Capped(u) /\ Changed(u)
  BY <1>3, <1>4, TakeInSeen
<1>. QED BY <1>5 DEF u, m, r

(* Then markers and point follow *)
LEMMA MarkersSeen ==
  ASSUME NEW t, NEW s, Seen(t, s), Capped(t), Changed(t), NEW u, NEW markers,
         MarkersSet(t, u, markers)
  PROVE  Seen(u, s) /\ Capped(u) /\ Changed(u)
<1>1. Alike(t, u)
  BY AlikeMarkers DEF Seen
<1>. QED BY <1>1, AlikeSeen

LEMMA PointSeen ==
  ASSUME NEW t, NEW s, Seen(t, s), Capped(t), Changed(t), NEW nchars, NEW nbytes
  PROVE  LET u == adjust_point(t, nchars, nbytes) IN Seen(u, s) /\ Capped(u) /\ Changed(u)
<1>. DEFINE u == adjust_point(t, nchars, nbytes)
<1>1. Alike(t, u)
  BY AlikePoint DEF Seen
<1>. HIDE DEF u
<1>2. Seen(u, s) /\ Capped(u) /\ Changed(u)
  BY <1>1, AlikeSeen
<1>. QED BY <1>2 DEF u

LEMMA InsertSeen ==
  ASSUME NEW t, Good(t), NEW s, Seen(t, s), Capped(t), Fresh(t, s), NEW new \in Seq(Char),
         NEW before_markers
  PROVE  LET u == insert_1_both(t, new, before_markers) IN
         Seen(u, s) /\ Capped(u) /\ Changed(u)
<1>. DEFINE at == t.pt
            a  == invalidate_buffer_caches(t, at.c, at.c)
            t1 == move_gap_both(a, at)
            v  == TakeIn(modiff_incr(RecordInsert(t1, at.c, Len(new)), Len(new)), new)
            t3 == LowerEnd(v)
            t4 == adjust_markers_for_insert(t3, at, Shift(at, Len(new), Bytes(new)), before_markers)
            u  == adjust_point(t4, Len(new), Bytes(new))
<1>1. /\ Seen(a, s) /\ Capped(a) /\ Fresh(a, s)
  BY CachesSeen DEF Onward
<1>2. Near(t, a)
  BY NearCaches DEF Good
<1>. HIDE DEF a
<1>3. Shaped(a) /\ GapPlaced(a) /\ Place(Chars(a), at)
  BY <1>2 DEF Near, Good
<1>4. Seen(t1, s) /\ Capped(t1)
  BY <1>1, <1>3, MoveBothSeen
<1>. HIDE DEF t1
<1>5. Seen(v, s) /\ Capped(v) /\ Changed(v)
  BY <1>4, InsertTextSeen
<1>. HIDE DEF v
<1>6. Seen(t3, s) /\ Capped(t3) /\ Changed(t3)
  BY <1>5, LowerEndSeen
<1>. HIDE DEF t3
<1>7. Seen(t4, s) /\ Capped(t4) /\ Changed(t4)
  <2>1. DOMAIN t3 = Fields
    BY <1>6 DEF Seen, Laid
  <2>2. \E markers : MarkersSet(t3, t4, markers)
    BY <2>1, OfMarkersInsert
  <2>. HIDE DEF t4
  <2>. QED BY <1>6, <2>2, MarkersSeen
<1>. HIDE DEF t4
<1>8. Seen(u, s) /\ Capped(u) /\ Changed(u)
  BY <1>7, PointSeen
<1>. QED BY <1>8 DEF insert_1_both, u, t4, t3, v, t1, a

LEMMA InsertFromGapSeen ==
  ASSUME NEW t, NEW s, Seen(t, s), Capped(t), NEW new \in Seq(Char), NEW before_markers
  PROVE  LET u == insert_from_gap(t, new, before_markers) IN
         Seen(u, s) /\ Capped(u) /\ Changed(u)
<1>. DEFINE at == t.gpt
            a  == invalidate_buffer_caches(t, at.c, at.c)
            v  == TakeIn(modiff_incr(RecordInsert(a, at.c, Len(new)), Len(new)), new)
            t3 == adjust_markers_for_insert(v, at, Shift(at, Len(new), Bytes(new)), before_markers)
            w  == adjust_point(t3, Len(new), Bytes(new))
            u  == IF at.c < t.pt.c THEN w ELSE t3
<1>1. Seen(a, s) /\ Capped(a)
  BY CachesSeen DEF Onward
<1>. HIDE DEF a
<1>2. Seen(v, s) /\ Capped(v) /\ Changed(v)
  BY <1>1, InsertTextSeen
<1>. HIDE DEF v
<1>3. Seen(t3, s) /\ Capped(t3) /\ Changed(t3)
  <2>1. DOMAIN v = Fields
    BY <1>2 DEF Seen, Laid
  <2>2. \E markers : MarkersSet(v, t3, markers)
    BY <2>1, OfMarkersInsert
  <2>. HIDE DEF t3
  <2>. QED BY <1>2, <2>2, MarkersSeen
<1>. HIDE DEF t3
<1>4. Seen(w, s) /\ Capped(w) /\ Changed(w)
  BY <1>3, PointSeen
<1>. HIDE DEF w
<1>5. Seen(u, s) /\ Capped(u) /\ Changed(u)
  BY <1>3, <1>4
<1>. QED BY <1>5 DEF insert_from_gap, u, w, t3, v, a

(* A place to delete or to replace at *)
Span(chars, from, to) ==
  /\ from \in Pos /\ from.c \in Places(chars) /\ to \in Pos /\ to.c \in Places(chars)
  /\ from.c <= to.c

LEMMA TowardThenGiveUp ==
  ASSUME NEW t, NEW s, Seen(t, s), Fresh(t, s), NEW from, NEW to, Span(Chars(t), from, to)
  PROVE  LET g == GapToward(t, from, to) IN
         /\ Onward(t, g, s) \/ ~Changed(t)
         /\ Seen(g, s) /\ Span(Chars(g), from, to) /\ from.c <= g.gpt.c /\ g.gpt.c <= to.c
         /\ Changed(t) => Changed(g)
<1>. DEFINE g == GapToward(t, from, to)
<1>1. /\ Seen(g, s) /\ Shifted(t, g) /\ from.c <= g.gpt.c /\ g.gpt.c <= to.c
      /\ Changed(t) => Lower(t, g)
  BY TowardSeen DEF Span
<1>. HIDE DEF g
<1>2. Chars(g) = Chars(t) /\ (Changed(t) => Changed(g))
  BY <1>1, ShiftedFresh DEF Shifted
<1>3. Span(Chars(g), from, to)
  BY <1>2
<1>4. Onward(t, g, s) \/ ~Changed(t)
  BY <1>1, <1>2 DEF Onward
<1>. QED BY <1>1, <1>2, <1>3, <1>4 DEF g

LEMMA GivenUp ==
  ASSUME NEW t, NEW s, Seen(t, s), NEW from, NEW to, Span(Chars(t), from, to),
         from.c <= t.gpt.c, t.gpt.c <= to.c
  PROVE  LET u == LowerBoth(GiveUp(t, from, to)) IN
         Onward(t, u, s) /\ Seen(u, s) /\ Capped(u) /\ (Changed(t) => Changed(u))
BY GiveUpSeen DEF Span, Onward

LEMMA DeleteSeen ==
  ASSUME NEW t, NEW s, Seen(t, s), Fresh(t, s), NEW from, NEW to, Span(Chars(t), from, to)
  PROVE  LET u == del_range_2(t, from, to) IN
         Seen(u, s) /\ Capped(u) /\ Changed(u)
<1>. DEFINE g  == GapToward(t, from, to)
            t1 == RecordDelete(g, from.c, Between(t, from.c, to.c), TRUE)
            ma == adjust_markers_for_delete(t1, from, to)
            t2 == modiff_incr(ma, to.c - from.c)
            past == IF Less(to, t.pt) THEN to ELSE t.pt
            pm == adjust_point(t2, from.c - past.c, from.b - past.b)
            t3 == IF Less(from, t.pt) THEN pm ELSE t2
            u  == LowerBoth(GiveUp(t3, from, to))
<1>1. Seen(g, s) /\ Span(Chars(g), from, to) /\ from.c <= g.gpt.c /\ g.gpt.c <= to.c
  BY TowardThenGiveUp
<1>. HIDE DEF g
<1>2. Seen(t1, s) /\ Chars(t1) = Chars(g) /\ t1.gpt = g.gpt
  <2>1. Alike(g, t1)
    BY <1>1, AlikeRecordDelete DEF Seen
  <2>. HIDE DEF t1
  <2>. QED BY <1>1, <2>1, OnwardAlike DEF Onward
<1>. HIDE DEF t1
<1>3. Seen(ma, s) /\ Chars(ma) = Chars(g) /\ ma.gpt = g.gpt
  <2>1. DOMAIN t1 = Fields /\ Laid(t1)
    BY <1>2 DEF Seen, Laid
  <2>2. \E markers : MarkersSet(t1, ma, markers)
    BY <2>1, OfMarkersDelete
  <2>. HIDE DEF ma
  <2>3. Alike(t1, ma)
    BY <2>1, <2>2, AlikeMarkers
  <2>. QED BY <1>2, <2>3, OnwardAlike DEF Onward
<1>. HIDE DEF ma
<1>4. Seen(t2, s) /\ Chars(t2) = Chars(g) /\ t2.gpt = g.gpt /\ Changed(t2)
  <2>1. Alike(ma, t2) /\ Changed(t2)
    BY <1>3, AlikeModiff DEF Seen
  <2>. HIDE DEF t2
  <2>. QED BY <1>3, <2>1, OnwardAlike DEF Onward
<1>. HIDE DEF t2, past
<1>5. Seen(t3, s) /\ Chars(t3) = Chars(g) /\ t3.gpt = g.gpt /\ Changed(t3)
  <2>1. Alike(t2, pm)
    BY <1>4, AlikePoint DEF Seen
  <2>. HIDE DEF pm
  <2>2. Seen(pm, s) /\ Chars(pm) = Chars(g) /\ pm.gpt = g.gpt /\ Changed(pm)
    BY <1>4, <2>1, OnwardAlike DEF Onward
  <2>. QED BY <1>4, <2>2
<1>. HIDE DEF t3
<1>6. Seen(u, s) /\ Capped(u) /\ Changed(u)
  BY <1>1, <1>5, GivenUp
<1>. QED BY <1>6 DEF del_range_2, u, t3, pm, past, t2, ma, t1, g

LEMMA ReplaceSeen ==
  ASSUME NEW t, NEW s, Seen(t, s), Fresh(t, s), NEW from, NEW to, Span(Chars(t), from, to),
         from # to, NEW new \in Seq(Char)
  PROVE  LET u == replace_range(t, from, to, new) IN
         Seen(u, s) /\ Capped(u) /\ Changed(u)
<1>. DEFINE c  == invalidate_buffer_caches(t, from.c, to.c)
            t1 == GapToward(c, from, to)
            t2 == LowerBoth(GiveUp(t1, from, to))
            t3 == RecordInsert(t2, to.c, Len(new))
            t4 == RecordDelete(t3, from.c, Between(t, from.c, to.c), FALSE)
            v  == TakeIn(t4, new)
            t5 == adjust_markers_for_replace(v, from, to, new)
            past == IF Less(to, t.pt) THEN to ELSE t.pt
            pm == adjust_point(t5, from.c + Len(new) - past.c, from.b + Bytes(new) - past.b)
            t6 == IF Less(from, t.pt) \/ t.pt.c = to.c THEN pm ELSE t5
            u  == modiff_incr(t6, (to.c - from.c) + Len(new))
<1>1. Seen(c, s) /\ Fresh(c, s) /\ Span(Chars(c), from, to)
  BY CachesSeen DEF Onward
<1>. HIDE DEF c
<1>2. Seen(t1, s) /\ Span(Chars(t1), from, to) /\ from.c <= t1.gpt.c /\ t1.gpt.c <= to.c
  BY <1>1, TowardThenGiveUp
<1>. HIDE DEF t1
<1>3. Seen(t2, s) /\ Capped(t2)
  BY <1>2, GivenUp
<1>. HIDE DEF t2
<1>4. Seen(t3, s) /\ Capped(t3)
  <2>1. Alike(t2, t3)
    BY <1>3, AlikeRecordInsert DEF Seen
  <2>. HIDE DEF t3
  <2>. QED BY <1>3, <2>1, AlikeSeen
<1>. HIDE DEF t3
<1>5. Seen(t4, s) /\ Capped(t4)
  <2>1. Alike(t3, t4)
    BY <1>4, AlikeRecordDelete DEF Seen
  <2>. HIDE DEF t4
  <2>. QED BY <1>4, <2>1, AlikeSeen
<1>. HIDE DEF t4
<1>6. Seen(v, s) /\ Capped(v)
  BY <1>5, TakeInSeen
<1>. HIDE DEF v
<1>7. Seen(t5, s) /\ Capped(t5)
  <2>1. DOMAIN v = Fields /\ Laid(v)
    BY <1>6 DEF Seen, Laid
  <2>2. \E markers : MarkersSet(v, t5, markers)
    BY <2>1, OfMarkersReplace
  <2>. HIDE DEF t5
  <2>3. Alike(v, t5)
    BY <2>1, <2>2, AlikeMarkers
  <2>. QED BY <1>6, <2>3, AlikeSeen
<1>. HIDE DEF t5, past
<1>8. Seen(t6, s) /\ Capped(t6)
  <2>1. Alike(t5, pm)
    BY <1>7, AlikePoint DEF Seen
  <2>. HIDE DEF pm
  <2>2. Seen(pm, s) /\ Capped(pm)
    BY <1>7, <2>1, AlikeSeen
  <2>. QED BY <1>7, <2>2
<1>. HIDE DEF t6
<1>9. Alike(t6, u) /\ Changed(u)
  BY <1>8, AlikeModiff DEF Seen
<1>. HIDE DEF u
<1>10. Seen(u, s) /\ Capped(u) /\ Changed(u)
  BY <1>8, <1>9, AlikeSeen
<1>. QED BY <1>10 DEF replace_range, u, t6, pm, past, t5, v, t4, t3, t2, t1, c

(* No hooks and no undo, and a change already announced *)
LEMMA Replace2Seen ==
  ASSUME NEW t, NEW s, Seen(t, s), Changed(t), NEW from, NEW to, Span(Chars(t), from, to),
         NEW new \in Seq(Char)
  PROVE  LET u == replace_range_2(t, from, to, new) IN
         Onward(t, u, s) /\ Changed(u)
<1>. DEFINE g  == GapToward(t, from, to)
            l  == LowerBoth(GiveUp(g, from, to))
            v  == TakeIn(l, new)
            t2 == adjust_markers_bytepos(v, from)
            pm == adjust_point(t2, Len(new) - (to.c - from.c), Bytes(new) - (to.b - from.b))
            t3 == IF Less(from, t.pt) THEN pm ELSE t2
            u  == modiff_incr(t3, (to.c - from.c) + Len(new))
<1>0. Laid(t) /\ Fresh(t, s)
  BY DEF Seen, Laid, Changed, Fresh
<1>1. /\ Onward(t, g, s) /\ Seen(g, s) /\ Span(Chars(g), from, to)
      /\ from.c <= g.gpt.c /\ g.gpt.c <= to.c
  BY <1>0, TowardThenGiveUp
<1>. HIDE DEF g
<1>2. Onward(g, l, s) /\ Seen(l, s) /\ Capped(l)
  BY <1>1, GivenUp
<1>. HIDE DEF l
<1>3. Onward(l, v, s) /\ Seen(v, s)
  BY <1>2, TakeInSeen DEF Onward
<1>. HIDE DEF v
<1>4. Onward(v, t2, s) /\ Seen(t2, s)
  <2>1. DOMAIN v = Fields /\ Laid(v)
    BY <1>3 DEF Seen, Laid
  <2>2. \E markers : MarkersSet(v, t2, markers)
    BY <2>1, OfMarkersBytes
  <2>. HIDE DEF t2
  <2>3. Alike(v, t2)
    BY <2>1, <2>2, AlikeMarkers
  <2>. QED BY <1>3, <2>3, OnwardAlike DEF Onward
<1>. HIDE DEF t2
<1>5. Onward(t2, t3, s) /\ Seen(t3, s)
  <2>1. Alike(t2, pm)
    BY <1>4, AlikePoint DEF Seen
  <2>2. Alike(t2, t2)
    BY <1>4, AlikeItself DEF Seen
  <2>. HIDE DEF pm
  <2>3. Onward(t2, pm, s) /\ Onward(t2, t2, s)
    BY <1>4, <2>1, <2>2, OnwardAlike
  <2>. QED BY <1>4, <2>3 DEF Onward
<1>. HIDE DEF t3
<1>6. Onward(t3, u, s) /\ Changed(u)
  <2>1. Alike(t3, u) /\ Changed(u)
    BY <1>5, AlikeModiff DEF Seen
  <2>. HIDE DEF u
  <2>. QED BY <1>5, <2>1, OnwardAlike
<1>. HIDE DEF u
<1>7. Onward(t, l, s)
  BY <1>0, <1>1, <1>2, OnwardTwice
<1>8. Onward(t, v, s)
  BY <1>0, <1>3, <1>7, OnwardTwice
<1>9. Onward(t, t2, s)
  BY <1>0, <1>4, <1>8, OnwardTwice
<1>10. Onward(t, t3, s)
  BY <1>0, <1>5, <1>9, OnwardTwice
<1>11. Onward(t, u, s)
  BY <1>0, <1>6, <1>10, OnwardTwice
<1>. QED BY <1>6, <1>11 DEF replace_range_2, u, t3, pm, t2, v, l, g

-------------------------------------------------------------------------------
(* casify_region                                                             *)

LEMMA UnchangedSeen ==
  ASSUME NEW t, NEW s, Seen(t, s), Fresh(t, s), NEW start \in Int, NEW end \in Int,
         start <= t.z.c, end >= 1
  PROVE  LET u == BUF_COMPUTE_UNCHANGED(t, start, end) IN
         /\ Seen(u, s) /\ Chars(u) = Chars(t)
         /\ u.beg_unchanged <= start - 1 /\ u.end_unchanged <= t.z.c - end
<1>. DEFINE u == BUF_COMPUTE_UNCHANGED(t, start, end)
            C == Chars(t)
            B == u.beg_unchanged
            E == u.end_unchanged
<1>0. Laid(t)
  BY DEF Seen
<1>1. /\ DOMAIN u = Fields /\ SameText(t, u) /\ SameCounts(t, u)
      /\ B \in Int /\ E \in Int /\ B <= start - 1 /\ E <= t.z.c - end
      /\ Changed(t) => Lower(t, u)
  BY <1>0, ComputeUnchanged
<1>. HIDE DEF u
<1>2. /\ Chars(u) = C /\ u.before = t.before /\ u.after = t.after /\ u.gpt = t.gpt /\ u.z = t.z
      /\ u.modiff = t.modiff /\ u.unchanged_modified = t.unchanged_modified
  BY <1>1 DEF SameText, SameCounts, Chars
<1>3. Laid(u)
  BY <1>0, <1>1, <1>2, Zenon DEF Laid
<1>4. C \in Seq(Char) /\ Len(C) \in Nat /\ t.z.c = Len(C) + 1
  BY <1>0, LaidParts DEF Laid
<1>5. CASE t.unchanged_modified = t.modiff
  <2>1. C = s
    BY <1>5 DEF Fresh
  <2>. HIDE DEF C, B, E
  <2>2. B <= Len(C) /\ \A n \in Int : n <= E => n <= Len(C)
    BY <1>1, <1>4
  <2>3. SameHead(C, s, B) /\ \A n \in Int : n <= E => SameTail(C, s, n)
    BY <1>1, <1>4, <2>1, <2>2, SameEndsOfItself
  <2>4. Seen(u, s)
    BY <1>2, <1>3, <2>3, Zenon DEF Seen, B, E
  <2>. QED BY <1>1, <1>2, <2>4 DEF u, B, E, C
<1>6. CASE t.unchanged_modified # t.modiff
  <2>1. B <= t.beg_unchanged /\ E <= t.end_unchanged
    <3>1. Changed(t)
      BY <1>0, <1>6 DEF Changed, Laid
    <3>. QED BY <1>1, <3>1, Zenon DEF Lower
  <2>2. t.beg_unchanged \in Int /\ t.end_unchanged \in Int
    BY <1>0 DEF Laid
  <2>3. /\ SameHead(C, s, t.beg_unchanged)
        /\ \A n \in Int : n <= t.end_unchanged /\ n <= t.z.c - t.gpt.c => SameTail(C, s, n)
    BY DEF Seen
  <2>. HIDE DEF C, B, E
  <2>4. SameHead(C, s, B)
    BY <1>1, <1>4, <2>1, <2>2, <2>3, SameEndsFewer
  <2>5. \A n \in Int : n <= E => n <= t.end_unchanged
    BY <1>1, <2>1, <2>2
  <2>6. Seen(u, s)
    BY <1>2, <1>3, <2>3, <2>4, <2>5, Zenon DEF Seen, B, E, C
  <2>. QED BY <1>1, <1>2, <2>6 DEF u, B, E, C
<1>. QED BY <1>5, <1>6

LEMMA ModifySeen ==
  ASSUME NEW t, NEW s, Seen(t, s), Fresh(t, s), NEW from \in Places(Chars(t)),
         NEW to \in Places(Chars(t))
  PROVE  LET u == modify_text(t, from, to) IN
         /\ Seen(u, s) /\ Changed(u) /\ Chars(u) = Chars(t)
         /\ u.beg_unchanged <= from - 2 /\ u.end_unchanged <= Len(Chars(t)) + 1 - to
<1>. DEFINE v  == invalidate_buffer_caches(t, from, to)
            t1 == BUF_COMPUTE_UNCHANGED(v, from - 1, to)
            r  == [t1 EXCEPT !.undo_list = record_first_change(@)]
            t2 == IF Clean(t) THEN r ELSE t1
            u  == modiff_incr(t2, to - from)
<1>1. Seen(v, s) /\ Fresh(v, s) /\ Chars(v) = Chars(t) /\ Laid(v)
  BY CachesSeen DEF Onward
<1>. HIDE DEF v
<1>2. /\ v.z.c = Len(Chars(t)) + 1 /\ Len(Chars(t)) \in Nat
      /\ from \in 1 .. Len(Chars(t)) + 1 /\ to \in 1 .. Len(Chars(t)) + 1
  BY <1>1, LaidParts DEF Laid, Places
<1>3. /\ Seen(t1, s) /\ Chars(t1) = Chars(t)
      /\ t1.beg_unchanged <= from - 2 /\ t1.end_unchanged <= Len(Chars(t)) + 1 - to
      /\ t1.beg_unchanged \in Int
  <2>1. /\ from - 1 \in Int /\ to \in Int /\ from - 1 <= v.z.c /\ to >= 1
        /\ (from - 1) - 1 = from - 2 /\ v.z.c - to = Len(Chars(t)) + 1 - to
    BY <1>2
  <2>2. /\ Seen(t1, s) /\ Chars(t1) = Chars(v)
        /\ t1.beg_unchanged <= (from - 1) - 1 /\ t1.end_unchanged <= v.z.c - to
    BY <1>1, <2>1, UnchangedSeen
  <2>. HIDE DEF t1
  <2>. QED BY <1>1, <2>1, <2>2 DEF Seen, Laid
<1>. HIDE DEF t1
<1>4. /\ Seen(t2, s) /\ Chars(t2) = Chars(t1)
      /\ t2.beg_unchanged = t1.beg_unchanged /\ t2.end_unchanged = t1.end_unchanged
  <2>1. Alike(t1, r)
    BY <1>3, AlikeUndo DEF Seen
  <2>. HIDE DEF r
  <2>2. Seen(r, s) /\ Chars(r) = Chars(t1) /\ SameView(t1, r)
    BY <1>3, <2>1, AlikeSeen DEF Alike
  <2>. QED BY <1>3, <2>2 DEF SameView
<1>. HIDE DEF t2
<1>5. Alike(t2, u) /\ Changed(u)
  BY <1>4, AlikeModiff DEF Seen
<1>. HIDE DEF u
<1>6. /\ Seen(u, s) /\ Chars(u) = Chars(t2)
      /\ u.beg_unchanged = t2.beg_unchanged /\ u.end_unchanged = t2.end_unchanged
  BY <1>4, <1>5, AlikeSeen DEF Alike, SameView
<1>7. /\ Seen(u, s) /\ Changed(u) /\ Chars(u) = Chars(t)
      /\ u.beg_unchanged <= from - 2 /\ u.end_unchanged <= Len(Chars(t)) + 1 - to
  BY <1>3, <1>4, <1>5, <1>6
<1>. QED BY <1>7 DEF modify_text, u, t2, r, t1, v

LEMMA OverwriteView ==
  ASSUME NEW t, DOMAIN t = Fields, NEW c, NEW ch
  PROVE  SameView(t, Overwrite(t, c, ch))
<1>1. CASE c < t.gpt.c
  BY <1>1 DEF Fields, Overwrite, SameView
<1>2. CASE ~(c < t.gpt.c)
  BY <1>2 DEF Fields, Overwrite, SameView
<1>. QED BY <1>1, <1>2

(* The character is behind the head and before the tail. *)
LEMMA OverwriteSeen ==
  ASSUME NEW t, Good(t), NEW s, Seen(t, s), NEW c \in 1 .. Len(Chars(t)), NEW ch \in Char,
         CharLen[ch] = CharLen[Chars(t)[c]],
         t.beg_unchanged < c, t.end_unchanged <= Len(Chars(t)) - c
  PROVE  Onward(t, Overwrite(t, c, ch), s)
<1>. DEFINE u == Overwrite(t, c, ch)
            C == Chars(t)
            S == Splice(C, c, c + 1, <<ch>>)
            B == t.beg_unchanged
            E == t.end_unchanged
<1>0. Laid(t) /\ DOMAIN t = Fields
  BY DEF Seen, Laid
<1>1. Good(u) /\ Chars(u) = S
  BY OverwriteInPlace
<1>2. /\ SameCounts(t, u) /\ u.gpt = t.gpt /\ u.z = t.z
      /\ u.beg_unchanged = B /\ u.end_unchanged = E
  <2>1. Overwritten(t, u, c, ch) /\ SameView(t, u)
    BY <1>0, OfOverwrite, OverwriteView
  <2>. HIDE DEF u
  <2>. QED BY <2>1 DEF Overwritten, SameView
<1>. HIDE DEF u
<1>3. B \in Int /\ E \in Int /\ C \in Seq(Char) /\ Len(C) \in Nat
  BY <1>0, LaidParts DEF Laid
<1>4. Laid(u)
  BY <1>1, <1>2, <1>3 DEF Good, Shaped, GapPlaced, Place, Laid
<1>5. /\ c \in Places(C) /\ c + 1 \in Places(C) /\ c <= c + 1 /\ <<ch>> \in Seq(Char)
      /\ Len(C) + 1 - (c + 1) = Len(C) - c
  <2>. HIDE DEF C
  <2>1. c \in 1 .. Len(C)
    BY DEF C
  <2>. QED BY <1>3, <2>1 DEF Places
<1>6. SameHead(C, s, B) /\ \A n \in Int : n <= E /\ n <= t.z.c - t.gpt.c => SameTail(C, s, n)
  BY DEF Seen
<1>7. B < c /\ E <= Len(C) - c /\ c \in Int
  OBVIOUS
<1>. HIDE DEF C, B, E
<1>8. SameHead(S, s, B)
  BY <1>3, <1>5, <1>6, <1>7, SpliceSame
<1>9. ASSUME NEW n \in Int, n <= E, n <= t.z.c - t.gpt.c
      PROVE  SameTail(S, s, n)
  <2>1. SameTail(C, s, n)
    BY <1>6, <1>9
  <2>2. n <= Len(C) + 1 - (c + 1)
    BY <1>3, <1>5, <1>7, <1>9
  <2>. QED BY <1>3, <1>5, <2>1, <2>2, SpliceSame
<1>10. Seen(u, s)
  BY <1>1, <1>2, <1>4, <1>8, <1>9, Zenon DEF Seen
<1>11. Lower(t, u) /\ (Changed(t) => Changed(u))
  BY <1>2, <1>3 DEF Lower, Changed, SameCounts, B, E
<1>. QED BY <1>10, <1>11 DEF Onward, u

LEMMA TurnSeen ==
  ASSUME NEW a, Good(a.t), a.pos \in 1 .. Len(Chars(a.t)), NEW ch, ch = Chars(a.t)[a.pos],
         NEW s, Seen(a.t, s), Changed(a.t),
         a.t.beg_unchanged < a.pos, a.t.end_unchanged <= Len(Chars(a.t)) - a.pos
  PROVE  Onward(a.t, casify_one(a, ch).t, s)
<1>. DEFINE t    == a.t
            c    == a.pos
            C    == Chars(t)
            new  == Upcase[ch]
            from == Both(t, c)
            to   == Shift(from, 1, CharLen[ch])
            u    == casify_one(a, ch).t
<1>1. /\ C \in Seq(Char) /\ c \in 1 .. Len(C) /\ ch \in Char /\ c \in Places(C)
      /\ c + 1 \in Places(C) /\ c \in Nat
  <2>1. C \in Seq(Char) /\ c \in 1 .. Len(C) /\ C[c] = ch
    BY GoodParts
  <2>. HIDE DEF C, c
  <2>. QED BY <2>1, OneChar
<1>2. new \in Seq(Char) /\ CharLen[ch] \in Nat
  BY <1>1, GapBufferAssumption
<1>3. u = IF new = <<ch>> THEN t
          ELSE IF Len(new) = 1 /\ Bytes(new) = CharLen[ch] THEN Overwrite(t, c, new[1])
          ELSE replace_range_2(t, from, to, new)
  BY Zenon DEF casify_one
<1>. HIDE DEF u
<1>4. CASE new = <<ch>>
  <2>1. u = t
    BY <1>3, <1>4
  <2>2. Onward(t, t, s)
    BY LowerItself DEF Onward, Seen
  <2>. QED BY <2>1, <2>2 DEF u
<1>5. CASE new # <<ch>> /\ Len(new) = 1 /\ Bytes(new) = CharLen[ch]
  <2>1. u = Overwrite(t, c, new[1])
    BY <1>3, <1>5, Zenon
  <2>2. new[1] \in Char /\ new = <<new[1]>>
    <3>. HIDE DEF new
    <3>1. new \in Seq(Char) /\ Len(new) = 1
      BY <1>2, <1>5
    <3>2. new[1] \in Char
      <4>1. 1 \in 1 .. Len(new)
        BY <3>1
      <4>. QED BY <3>1, <4>1, ElementOfSeq, Zenon
    <3>3. <<new[1]>> \in Seq(Char) /\ Len(<<new[1]>>) = 1 /\ <<new[1]>>[1] = new[1]
      BY <3>2
    <3>. QED BY <3>1, <3>2, <3>3, SeqEqual
  <2>3. CharLen[new[1]] = CharLen[C[c]]
    <3>1. Bytes(<<new[1]>>) = CharLen[new[1]]
      <4>. HIDE DEF new
      <4>. QED BY <2>2, BytesSmall
    <3>. QED BY <1>5, <2>2, <3>1, Zenon
  <2>4. Onward(t, Overwrite(t, c, new[1]), s)
    <3>1. Good(t) /\ Seen(t, s) /\ t.beg_unchanged < c /\ t.end_unchanged <= Len(Chars(t)) - c
      OBVIOUS
    <3>. HIDE DEF t, c, new
    <3>. QED BY <1>1, <2>2, <2>3, <3>1, OverwriteSeen
  <2>. QED BY <2>1, <2>4 DEF u
<1>6. CASE new # <<ch>> /\ ~(Len(new) = 1 /\ Bytes(new) = CharLen[ch])
  <2>1. u = replace_range_2(t, from, to, new)
    BY <1>3, <1>6, Zenon
  <2>2. from \in Pos /\ from.c = c
    BY <1>1, PlaceIsBoth DEF Place
  <2>3. to \in Pos /\ to.c = c + 1
    <3>. HIDE DEF from
    <3>. QED BY <1>2, <2>2, ShiftParts
  <2>4. c <= c + 1
    BY <1>1
  <2>5. Span(C, from, to)
    <3>. HIDE DEF from, to, C, c
    <3>. QED BY <1>1, <2>2, <2>3, <2>4 DEF Span
  <2>6. Seen(t, s) /\ Changed(t)
    OBVIOUS
  <2>. HIDE DEF from, to, new, t, c
  <2>7. Onward(t, u, s)
    BY <1>2, <2>1, <2>5, <2>6, Replace2Seen
  <2>. QED BY <2>7 DEF u, t
<1>. QED BY <1>4, <1>5, <1>6

LEMMA NextTurn ==
  ASSUME NEW l \in Nat, NEW from \in Nat, NEW to \in Nat, from < to, NEW i \in from .. to - 1,
         NEW k \in Nat, NEW n, n = l + k - (i - from), NEW b \in Int, b <= from - 2,
         NEW e \in Int, e <= l + 1 - to
  PROVE  b < from + k /\ e <= n - (from + k)
OBVIOUS

LEMMA TurnsSeen ==
  ASSUME NEW t, Good(t), NEW s, Seen(t, s), Changed(t),
         NEW from \in Places(Chars(t)), NEW to \in Places(Chars(t)), from < to,
         t.beg_unchanged <= from - 2, t.end_unchanged <= Len(Chars(t)) + 1 - to,
         NEW g, Turns(g, t, Chars(t), from, to)
  PROVE  Onward(t, g[to].t, s)
<1>. DEFINE C == Chars(t)
            S == {k \in Nat : k <= to - from => Onward(t, g[from + k].t, s)}
<1>1. /\ C \in Seq(Char) /\ Len(C) \in Nat /\ from \in Nat /\ to \in Nat /\ from <= to
      /\ from \in 1 .. Len(C) + 1 /\ to \in 1 .. Len(C) + 1
      /\ t.beg_unchanged \in Int /\ t.end_unchanged \in Int /\ Laid(t)
  <2>1. C \in Seq(Char) /\ Len(C) \in Nat
    BY GoodParts
  <2>2. from \in 1 .. Len(C) + 1 /\ to \in 1 .. Len(C) + 1
    BY DEF Places
  <2>3. t.beg_unchanged \in Int /\ t.end_unchanged \in Int /\ Laid(t)
    BY DEF Seen, Laid
  <2>. HIDE DEF C
  <2>. QED BY <2>1, <2>2, <2>3
<1>2. /\ g[from].t = t
      /\ \A i \in from .. to - 1 : g[i + 1] = casify_one(g[i], C[i])
  BY DEF Turns
<1>3. \A i \in from .. to : Turned(g, t, from, i)
  BY <1>1, TurnsRecased
<1>4. 0 \in S
  <2>1. Onward(t, t, s)
    BY LowerItself DEF Onward, Seen
  <2>2. from + 0 = from
    BY <1>1
  <2>. QED BY <1>2, <2>1, <2>2
<1>5. ASSUME NEW k \in Nat, k \in S
      PROVE  k + 1 \in S
  <2>1. SUFFICES ASSUME k + 1 <= to - from
                 PROVE  Onward(t, g[from + (k + 1)].t, s)
    OBVIOUS
  <2>. DEFINE i == from + k
              a == g[i]
  <2>2. /\ i \in from .. Len(C) /\ i \in from .. to - 1 /\ i \in from .. to
        /\ from + (k + 1) = i + 1 /\ k <= to - from
    BY <1>1, <2>1
  <2>3. Onward(t, a.t, s)
    BY <1>5, <2>2
  <2>4. g[i + 1] = casify_one(a, C[i])
    BY <1>2, <2>2
  <2>. HIDE DEF i
  <2>5. PICK new \in Seq(Char) : Recased(t, a.t, from, i, new) /\ a.pos = from + Len(new)
    BY <1>3, <2>2 DEF Turned
  <2>. HIDE DEF a
  <2>6. Good(a.t) /\ Chars(a.t) = Splice(C, from, i, new)
    BY <2>5 DEF Recased
  <2>7. a.pos \in 1 .. Len(Chars(a.t)) /\ Chars(a.t)[a.pos] = C[i]
    <3>1. <<>> \in Seq(Char)
      BY EmptySeq
    <3>2. from + Len(new) \in 1 .. Len(Splice(C, from, i, new))
          /\ Splice(C, from, i, new)[from + Len(new)] = C[i]
      <4>. HIDE DEF C
      <4>1. from \in Places(C)
        BY DEF C
      <4>. QED BY <1>1, <2>2, <3>1, <4>1, SpliceNext
    <3>. QED BY <2>5, <2>6, <3>2
  <2>8. Len(Chars(a.t)) = Len(C) + Len(new) - (i - from) /\ Len(new) \in Nat
    <3>1. i \in Places(C) /\ from <= i /\ from \in Places(C)
      BY <1>1, <2>2 DEF Places
    <3>. HIDE DEF C
    <3>2. Len(Splice(C, from, i, new)) = Len(C) + Len(new) - (i - from) /\ Len(new) \in Nat
      BY <1>1, <3>1, SpliceType
    <3>. QED BY <2>6, <3>2, Zenon
  <2>9. /\ a.t.beg_unchanged < a.pos /\ a.t.end_unchanged <= Len(Chars(a.t)) - a.pos
        /\ Seen(a.t, s) /\ Changed(a.t)
    <3>1. /\ Seen(a.t, s) /\ Changed(a.t)
          /\ a.t.beg_unchanged <= t.beg_unchanged /\ a.t.end_unchanged <= t.end_unchanged
      BY <2>3 DEF Onward, Lower
    <3>2. a.t.beg_unchanged \in Int /\ a.t.end_unchanged \in Int
      BY <3>1 DEF Seen, Laid
    <3>3. a.t.beg_unchanged <= from - 2 /\ a.t.end_unchanged <= Len(C) + 1 - to
      <4>1. \A x, y, z \in Int : x <= y /\ y <= z => x <= z
        OBVIOUS
      <4>2. from - 2 \in Int /\ Len(C) + 1 - to \in Int
        <5>1. \A x, y, z \in Nat : x - 2 \in Int /\ y + 1 - z \in Int
          OBVIOUS
        <5>. QED BY <1>1, <5>1, Zenon
      <4>. QED BY <1>1, <3>1, <3>2, <4>1, <4>2, Zenon
    <3>4. a.t.beg_unchanged < from + Len(new) /\ a.t.end_unchanged <= Len(Chars(a.t)) - (from + Len(new))
      <4>. HIDE DEF C
      <4>. QED BY <1>1, <2>2, <2>8, <3>2, <3>3, NextTurn
    <3>. QED BY <2>5, <3>1, <3>4
  <2>10. Onward(a.t, casify_one(a, C[i]).t, s)
    BY <2>6, <2>7, <2>9, TurnSeen
  <2>11. Onward(t, casify_one(a, C[i]).t, s)
    BY <1>1, <2>3, <2>10, OnwardTwice
  <2>. QED BY <2>2, <2>4, <2>11
<1>6. \A k \in Nat : k \in S
  <2>. HIDE DEF S
  <2>. QED BY <1>4, <1>5, SetInduction
<1>7. to - from \in Nat /\ from + (to - from) = to /\ to - from <= to - from
  BY <1>1
<1>. QED BY <1>6, <1>7

LEMMA CasifySeen ==
  ASSUME NEW t, Good(t), point_before \in Int, NEW s, Seen(t, s), Fresh(t, s),
         NEW from \in Places(Chars(t)), NEW to \in Places(Chars(t)), from < to
  PROVE  LET u == casify_region(t, from, to) IN Seen(u, s) /\ Changed(u)
<1>. DEFINE t1 == modify_text(t, from, to)
            t2 == RecordDelete(t1, from, Between(t, from, to), FALSE)
            u  == casify_region(t, from, to)
<1>1. from \in Nat /\ to \in Nat /\ from <= to /\ Chars(t) \in Seq(Char)
  <2>1. Chars(t) \in Seq(Char) /\ Len(Chars(t)) \in Nat
    BY GoodParts
  <2>. QED BY <2>1 DEF Places
<1>2. PICK g : /\ Turns(g, t2, Chars(t), from, to)
               /\ u = RecordInsert(g[to].t, from, g[to].pos - from)
  BY <1>1, CasifyByTurns
<1>3. /\ Seen(t1, s) /\ Changed(t1) /\ Chars(t1) = Chars(t) /\ Laid(t1)
      /\ t1.beg_unchanged <= from - 2 /\ t1.end_unchanged <= Len(Chars(t)) + 1 - to
  BY ModifySeen DEF Seen
<1>4. Good(t1)
  BY ModifyText, NearGood
<1>. HIDE DEF t1
<1>5. Alike(t1, t2)
  BY <1>3, AlikeRecordDelete
<1>6. Good(t2)
  <2>1. Between(t, from, to) \in Seq(Char)
    BY <1>1, BetweenType
  <2>2. Shaped(t1) /\ GapPlaced(t1) /\ t1.markers \in [Marker -> Pos] /\ t1.pt \in Pos
    BY <1>4, GoodParts
  <2>3. from \in Int /\ FALSE \in BOOLEAN
    BY <1>1
  <2>4. UndoSet(t1, t2)
    BY <2>1, <2>2, <2>3, OfRecordDelete
  <2>. HIDE DEF t2
  <2>5. Near(t1, t2)
    BY <2>2, <2>4, NearUndo
  <2>. QED BY <1>4, <2>5, NearGood
<1>. HIDE DEF t2, u
<1>7. /\ Seen(t2, s) /\ Changed(t2) /\ Chars(t2) = Chars(t)
      /\ t2.beg_unchanged <= from - 2 /\ t2.end_unchanged <= Len(Chars(t2)) + 1 - to
  <2>1. Seen(t2, s) /\ Chars(t2) = Chars(t1) /\ Changed(t2)
    BY <1>3, <1>5, AlikeSeen
  <2>2. t2.beg_unchanged = t1.beg_unchanged /\ t2.end_unchanged = t1.end_unchanged
    BY <1>5 DEF Alike, SameView
  <2>. QED BY <1>3, <2>1, <2>2
<1>8. Onward(t2, g[to].t, s)
  BY <1>2, <1>6, <1>7, TurnsSeen
<1>9. Seen(g[to].t, s) /\ Changed(g[to].t) /\ Laid(g[to].t)
  BY <1>7, <1>8 DEF Onward, Seen
<1>10. Alike(g[to].t, u)
  BY <1>2, <1>9, AlikeRecordInsert
<1>11. Seen(u, s) /\ Changed(u)
  BY <1>9, <1>10, AlikeSeen
<1>. QED BY <1>11 DEF u

-------------------------------------------------------------------------------
(* The invariant                                                             *)

(* Since redisplay last saw the text and unless the head has reached past    *)
(* the gap, the two numbers are true of the text.                            *)
Told(t, s) == Seen(t, s) /\ Capped(t) /\ Fresh(t, s)

ToldOK == Looks("display") => pending = Nil /\ (~ahead => Told(buf, shown))

DInv == IInv /\ ToldOK

LEMMA ChangedIsFresh ==
  ASSUME NEW t, NEW s, Seen(t, s), Changed(t)
  PROVE  Fresh(t, s)
BY DEF Seen, Laid, Changed, Fresh

LEMMA StillTold ==
  ASSUME NEW t, NEW s, Told(t, s), NEW u, Alike(t, u), u.modiff = t.modiff
  PROVE  Told(u, s)
<1>1. Seen(u, s) /\ Capped(u) /\ Chars(u) = Chars(t)
  BY AlikeSeen DEF Told
<1>2. Fresh(u, s)
  BY <1>1 DEF Told, Fresh, Alike
<1>. QED BY <1>1, <1>2 DEF Told

LEMMA ToldAnew ==
  ASSUME Good(buf), mark_window_display_accurate
  PROVE  Told(buf', shown')
<1>. DEFINE t == buf
            C == Chars(buf)
<1>1. /\ DOMAIN t = Fields /\ t.before \in Seq(Char) /\ t.after \in Seq(Char)
      /\ t.gpt \in Pos /\ t.gpt.c = Len(t.before) + 1 /\ t.z \in Pos /\ t.z.c = Len(C) + 1
      /\ t.modiff \in Nat
  BY DEF Good, Shaped, GapPlaced, Place
<1>2. buf' = [buf EXCEPT !.unchanged_modified = buf.modiff,
                         !.beg_unchanged = buf.gpt.c - BEG,
                         !.end_unchanged = buf.z.c - buf.gpt.c]
  BY DEF mark_window_display_accurate
<1>3. /\ DOMAIN buf' = Fields /\ SameText(t, buf')
      /\ buf'.modiff = t.modiff /\ buf'.unchanged_modified = t.modiff
      /\ buf'.beg_unchanged = t.gpt.c - BEG /\ buf'.end_unchanged = t.z.c - t.gpt.c
  BY <1>1, <1>2 DEF Fields, SameText
<1>4. Chars(buf') = C /\ shown' = C
  BY <1>3 DEF Chars, SameText, mark_window_display_accurate
<1>5. /\ C \in Seq(Char) /\ Len(C) \in Nat /\ Len(C) = Len(t.before) + Len(t.after)
      /\ Len(t.before) \in Nat /\ Len(t.after) \in Nat
  BY <1>1, CharsType
<1>. HIDE DEF C
<1>6. /\ t.gpt.c - BEG \in Int /\ t.z.c - t.gpt.c \in Int /\ t.gpt.c - BEG <= Len(C)
      /\ \A n \in Int : n <= t.z.c - t.gpt.c => n <= Len(C)
      /\ t.gpt.c - BEG <= t.gpt.c - BEG /\ t.modiff \in 0 .. t.modiff
  <2>. DEFINE b == Len(t.before)
              a == Len(t.after)
              len == Len(C)
              g == t.gpt.c
              z == t.z.c
              m == t.modiff
  <2>1. /\ b \in Nat /\ a \in Nat /\ len \in Nat /\ len = b + a /\ g = b + 1 /\ z = len + 1
        /\ m \in Nat
    BY <1>1, <1>5, Zenon
  <2>. HIDE DEF b, a, len, g, z, m
  <2>2. /\ g - 1 \in Int /\ z - g \in Int /\ g - 1 <= len /\ g - 1 <= g - 1
        /\ \A n \in Int : n <= z - g => n <= len
        /\ m \in 0 .. m
    BY <2>1
  <2>. QED BY <2>2, Zenon DEF BEG, g, z, len, m
<1>7. Laid(buf')
  BY <1>1, <1>3, <1>4, <1>6, Zenon DEF Laid, SameText
<1>8. SameHead(C, C, t.gpt.c - BEG) /\ \A n \in Int : n <= t.z.c - t.gpt.c => SameTail(C, C, n)
  BY <1>5, <1>6, SameEndsOfItself
<1>9. Seen(buf', shown')
  BY <1>3, <1>4, <1>7, <1>8, Zenon DEF Seen
<1>10. Capped(buf') /\ Fresh(buf', shown')
  BY <1>3, <1>4, <1>6 DEF Capped, Fresh, SameText
<1>. QED BY <1>9, <1>10 DEF Told

LEMMA AlikeBut ==
  ASSUME Laid(buf), NEW u,
         \/ \E x : u = [buf EXCEPT !.pt = x]
         \/ \E x : u = [buf EXCEPT !.markers = x]
         \/ \E x : u = [buf EXCEPT !.save_modiff = x]
         \/ \E x : u = [buf EXCEPT !.undo_list = x]
  PROVE  Alike(buf, u) /\ u.modiff = buf.modiff
<1>1. DOMAIN buf = Fields /\ buf.modiff \in Nat /\ buf.modiff >= buf.modiff
  BY DEF Laid
<1>2. DOMAIN u = Fields /\ SameText(buf, u) /\ SameView(buf, u)
      /\ u.modiff = buf.modiff /\ u.unchanged_modified = buf.unchanged_modified
  BY <1>1 DEF Fields, SameText, SameView
<1>. QED BY <1>1, <1>2, Zenon DEF Alike

LEMMA DisplayInit == Init => DInv
<1>. SUFFICES ASSUME Init PROVE DInv
  OBVIOUS
<1>0. IInv
  BY InitGood
<1>. SUFFICES ASSUME Looks("display") PROVE Told(buf, shown)
  BY <1>0 DEF DInv, ToldOK, Init
<1>. DEFINE C   == setup.chars
            len == Len(setup.chars)
            all == [before |-> setup.chars, after |-> <<>>]
<1>1. PICK g \in 1 .. len + 1, p \in 1 .. len + 1 :
        buf = [before |-> SubSeq(setup.chars, 1, g - 1),
               after  |-> SubSeq(setup.chars, g, len),
               gpt |-> Both(all, g), z |-> Both(all, len + 1), pt |-> Both(all, p),
               markers |-> [m \in Marker |-> Both(all, BEG)],
               modiff |-> 1, save_modiff |-> 1, unchanged_modified |-> 1,
               beg_unchanged |-> g - BEG, end_unchanged |-> len + 1 - g,
               undo_list |-> IF setup.looks \in {"markers", "undo"} THEN <<>> ELSE Qt,
               newline_cache |-> IF setup.looks = "cache" THEN new_region_cache ELSE Nil]
  BY DEF Init
<1>2. C \in Seq(Char) /\ len \in Nat
  BY <1>0, GapBufferAssumption, LenProperties DEF IInv
<1>3. /\ buf.beg_unchanged = g - BEG /\ buf.end_unchanged = len + 1 - g
      /\ buf.modiff = 1 /\ buf.unchanged_modified = 1
      /\ buf.before = SubSeq(C, 1, g - BEG) /\ buf.after = SubSeq(C, g, Len(C))
      /\ buf.gpt.c = g
  BY <1>1 DEF Both, BEG
<1>4. Chars(buf) = C
  <2>1. g \in Places(C)
    BY DEF Places
  <2>. HIDE DEF C
  <2>2. SubSeq(C, 1, g - BEG) \o SubSeq(C, g, Len(C)) = C
    BY <1>2, <2>1, TwoParts
  <2>. QED BY <1>3, <2>2, Zenon DEF Chars
<1>5. shown = C
  BY DEF Init, Looks
<1>. HIDE DEF C, all
<1>6. Laid(buf)
  <2>1. /\ DOMAIN buf = Fields /\ buf.before \in Seq(Char) /\ buf.after \in Seq(Char)
        /\ buf.gpt \in Pos /\ buf.gpt.c = Len(buf.before) + 1 /\ buf.z \in Pos
        /\ buf.z.c = Len(Chars(buf)) + 1 /\ buf.modiff \in Nat
        /\ buf.unchanged_modified \in 0 .. buf.modiff
    BY <1>0 DEF IInv, Good, Shaped, GapPlaced, Place
  <2>2. buf.beg_unchanged \in Int /\ buf.end_unchanged \in Int
    BY <1>2, <1>3 DEF BEG
  <2>. QED BY <2>1, <2>2 DEF Laid
<1>7. /\ g - BEG \in Int /\ g - BEG <= len /\ \A n \in Int : n <= len + 1 - g => n <= len
      /\ g - BEG <= g - BEG
  BY <1>2 DEF BEG
<1>8. SameHead(C, C, g - BEG) /\ \A n \in Int : n <= len + 1 - g => SameTail(C, C, n)
  <2>. len = Len(C)
    BY DEF C
  <2>. HIDE DEF len
  <2>. QED BY <1>2, <1>7, SameEndsOfItself
<1>9. Seen(buf, shown)
  BY <1>3, <1>4, <1>5, <1>6, <1>8, Zenon DEF Seen
<1>10. Capped(buf) /\ Fresh(buf, shown)
  BY <1>3, <1>4, <1>5, <1>7 DEF Capped, Fresh
<1>. QED BY <1>9, <1>10 DEF Told

(* An edit that does not look for the head reaching past the gap *)
LEMMA EditTold ==
  ASSUME Seen(buf', shown) /\ Capped(buf') /\ Changed(buf'), shown' = shown
  PROVE  Told(buf', shown')
BY ChangedIsFresh DEF Told

(* No action changes the setup of the behaviour. *)
LEMMA SetupKept == Next => setup' = setup
<1>1. \A t : Edit(t) => setup' = setup
  BY DEF Edit, history
<1>. HIDE DEF Edit
<1>2. /\ \A chars, before_markers : Insert(chars, before_markers) => setup' = setup
      /\ \A chars : InsertFromGap(chars) => setup' = setup
      /\ \A from, to : del_range(from, to) => setup' = setup
      /\ \A from, to, chars : Replace(from, to, chars) => setup' = setup
      /\ \A pos : goto_char(pos) => setup' = setup
  BY <1>1, Zenon DEF Insert, InsertFromGap, del_range, Replace, goto_char, history
<1>3. \A from, to, pos, chars : prepare_to_modify_buffer(from, to, pos, chars) => setup' = setup
  BY Zenon DEF prepare_to_modify_buffer
<1>4. /\ \A from, to : Casify(from, to) => setup' = setup
      /\ \A stop : QuitInGapMotion(stop) => setup' = setup
  BY Zenon DEF Casify, QuitInGapMotion
<1>5. /\ \A m, pos : set_marker(m, pos) => setup' = setup
      /\ set_buffer_unmodified => setup' = setup
      /\ undo_boundary => setup' = setup
      /\ mark_window_display_accurate => setup' = setup
  BY Zenon DEF set_marker, set_buffer_unmodified, undo_boundary, mark_window_display_accurate, history
<1>6. \A start : find_newline(start) => setup' = setup
  BY Zenon DEF find_newline, history
<1>7. del_range_1 => setup' = setup
  BY Zenon DEF del_range_1, history
<1>. QED BY <1>2, <1>3, <1>4, <1>5, <1>6, <1>7, Zenon DEF Next, Command

(* No step makes redisplay take changed text for unchanged.                  *)
LEMMA DisplayStep == DInv /\ [Next]_vars => DInv'
<1>. SUFFICES ASSUME DInv, [Next]_vars PROVE DInv'
  OBVIOUS
<1>0. IInv /\ IInv' /\ ToldOK /\ Good(buf) /\ point_before \in Int
  BY StepGood DEF DInv, IInv
<1>. SUFFICES ASSUME Looks("display")' PROVE pending' = Nil /\ (~ahead' => Told(buf', shown'))
  BY <1>0 DEF DInv, ToldOK
<1>1. CASE UNCHANGED vars
  BY <1>0, <1>1 DEF vars, ToldOK, Looks, Told, Seen, Laid, Capped, Fresh, Chars
<1>2. CASE Next
  <2>0. Looks("display") /\ pending = Nil /\ (~ahead => Told(buf, shown))
    <3>1. setup' = setup
      BY <1>2, SetupKept
    <3>2. Looks("display")
      BY <3>1 DEF Looks
    <3>. QED BY <1>0, <3>2 DEF ToldOK
  <2>. DEFINE Kept2 == pending' = pending /\ ahead' = ahead /\ shown' = shown
              Goal  == pending' = Nil /\ (~ahead' => Told(buf', shown'))
  <2>1. ASSUME NEW chars \in setup.pieces, NEW before_markers \in BOOLEAN,
               Insert(chars, before_markers)
        PROVE  Goal
    <3>1. Kept2 /\ buf' = insert_1_both(buf, chars, before_markers)
      BY <2>1 DEF Insert, Edit, history
    <3>2. chars \in Seq(Char)
      BY <1>0, PiecesAreTexts
    <3>3. ASSUME ~ahead PROVE Told(buf', shown')
      <4>1. Seen(buf', shown) /\ Capped(buf') /\ Changed(buf')
        BY <1>0, <2>0, <3>1, <3>2, <3>3, InsertSeen DEF Told
      <4>. QED BY <3>1, <4>1, EditTold
    <3>. QED BY <2>0, <3>1, <3>3
  <2>2. ASSUME NEW chars \in setup.pieces, InsertFromGap(chars)
        PROVE  Goal
    <3>. DEFINE m == move_gap_both(buf, buf.pt)
    <3>1. Kept2 /\ buf' = insert_from_gap(m, chars, TRUE)
      BY <2>2 DEF InsertFromGap, Edit, history
    <3>2. chars \in Seq(Char)
      BY <1>0, PiecesAreTexts
    <3>3. ASSUME ~ahead PROVE Told(buf', shown')
      <4>1. Shaped(buf) /\ GapPlaced(buf) /\ Place(Chars(buf), buf.pt)
        BY <1>0 DEF Good
      <4>2. Seen(m, shown) /\ Capped(m)
        BY <2>0, <3>3, <4>1, MoveBothSeen DEF Told
      <4>. HIDE DEF m
      <4>3. Seen(buf', shown) /\ Capped(buf') /\ Changed(buf')
        BY <3>1, <3>2, <4>2, InsertFromGapSeen
      <4>. QED BY <3>1, <4>3, EditTold
    <3>. QED BY <2>0, <3>1, <3>3
  <2>3. ASSUME NEW from \in Position, NEW to \in Position, del_range(from, to)
        PROVE  Goal
    <3>. DEFINE v == invalidate_buffer_caches(buf, from, to)
    <3>1. Kept2 /\ from < to /\ buf' = del_range_2(v, Both(buf, from), Both(buf, to))
      BY <2>3 DEF del_range, Edit, history
    <3>2. Span(Chars(buf), Both(buf, from), Both(buf, to))
      BY <1>0, <3>1, PositionPlace DEF Span, Place
    <3>3. ASSUME ~ahead PROVE Told(buf', shown')
      <4>1. Seen(v, shown) /\ Fresh(v, shown) /\ Chars(v) = Chars(buf)
        BY <2>0, <3>3, CachesSeen DEF Told, Onward
      <4>. HIDE DEF v
      <4>2. Span(Chars(v), Both(buf, from), Both(buf, to))
        BY <3>2, <4>1
      <4>3. Seen(buf', shown) /\ Capped(buf') /\ Changed(buf')
        BY <3>1, <4>1, <4>2, DeleteSeen
      <4>. QED BY <3>1, <4>3, EditTold
    <3>. QED BY <2>0, <3>1, <3>3
  <2>4. ASSUME NEW from \in Position, NEW to \in Position, NEW chars \in setup.pieces,
               Replace(from, to, chars)
        PROVE  Goal
    <3>1. Kept2 /\ from < to /\ buf' = replace_range(buf, Both(buf, from), Both(buf, to), chars)
      BY <2>4 DEF Replace, Edit, history
    <3>2. chars \in Seq(Char)
      BY <1>0, PiecesAreTexts
    <3>3. /\ Span(Chars(buf), Both(buf, from), Both(buf, to))
          /\ Both(buf, from) # Both(buf, to)
      <4>1. /\ Place(Chars(buf), Both(buf, from)) /\ Both(buf, from).c = from /\ from \in Nat
            /\ Place(Chars(buf), Both(buf, to)) /\ Both(buf, to).c = to /\ to \in Nat
            /\ from \in Places(Chars(buf)) /\ to \in Places(Chars(buf))
        BY <1>0, PositionPlace
      <4>2. from # to /\ from <= to
        BY <3>1, <4>1
      <4>. QED BY <4>1, <4>2 DEF Span, Place
    <3>4. ASSUME ~ahead PROVE Told(buf', shown')
      <4>1. Seen(buf', shown) /\ Capped(buf') /\ Changed(buf')
        BY <2>0, <3>1, <3>2, <3>3, <3>4, ReplaceSeen DEF Told
      <4>. QED BY <3>1, <4>1, EditTold
    <3>. QED BY <2>0, <3>1, <3>4
  <2>5. ASSUME NEW from \in Position, NEW to \in Position, Casify(from, to)
        PROVE  Goal
    <3>1. /\ from < to /\ buf' = casify_region(buf, from, to)
          /\ pending' = pending /\ shown' = shown
      BY <2>5 DEF Casify
    <3>2. from \in Places(Chars(buf)) /\ to \in Places(Chars(buf))
      BY <1>0, PositionPlace
    <3>3. ASSUME ~ahead' PROVE Told(buf', shown')
      <4>1. ~ahead /\ ~(buf'.beg_unchanged > buf'.gpt.c - BEG)
        BY <2>5, <3>3 DEF Casify, HeadPastGap
      <4>2. Seen(buf', shown) /\ Changed(buf')
        BY <1>0, <2>0, <3>1, <3>2, <4>1, CasifySeen DEF Told
      <4>3. Capped(buf')
        BY <4>1, <4>2 DEF Capped, Seen, Laid, Pos, BEG
      <4>. QED BY <3>1, <4>2, <4>3, EditTold
    <3>. QED BY <2>0, <3>1, <3>3
  <2>6. ASSUME NEW stop \in Position, QuitInGapMotion(stop)
        PROVE  Goal
    <3>. DEFINE v == invalidate_buffer_caches(buf, buf.pt.c, buf.pt.c)
    <3>1. /\ buf' = gap_motion(v, buf.pt, Both(buf, stop))
          /\ pending' = pending /\ shown' = shown
      BY <2>6 DEF QuitInGapMotion
    <3>2. ASSUME ~ahead' PROVE Told(buf', shown')
      <4>1. ~ahead /\ ~(buf'.beg_unchanged > buf'.gpt.c - BEG)
        BY <2>6, <3>2 DEF QuitInGapMotion, HeadPastGap
      <4>2. Seen(v, shown) /\ Fresh(v, shown) /\ Chars(v) = Chars(buf)
        BY <2>0, <4>1, CachesSeen DEF Told, Onward
      <4>. HIDE DEF v
      <4>3. /\ buf.pt \in Pos /\ buf.pt.c \in Places(Chars(v))
            /\ Both(buf, stop) \in Pos /\ Both(buf, stop).c \in Places(Chars(v))
        <5>1. buf.pt \in Pos /\ buf.pt.c \in Places(Chars(buf))
          BY <1>0, GoodParts, PlaceType
        <5>2. /\ Place(Chars(buf), Both(buf, stop)) /\ Both(buf, stop).c = stop
              /\ stop \in Places(Chars(buf))
          BY <1>0, PositionPlace
        <5>. QED BY <4>2, <5>1, <5>2 DEF Place
      <4>4. Seen(buf', shown) /\ Shifted(v, buf')
        BY <3>1, <4>2, <4>3, MotionSeen
      <4>5. Capped(buf')
        BY <4>1, <4>4 DEF Capped, Seen, Laid, Pos, BEG
      <4>6. Fresh(buf', shown)
        BY <4>2, <4>4, ShiftedFresh
      <4>. QED BY <3>1, <4>4, <4>5, <4>6 DEF Told
    <3>. QED BY <2>0, <3>1, <3>2
  <2>7. ASSUME Kept2, ~ahead => Alike(buf, buf') /\ buf'.modiff = buf.modiff
        PROVE  Goal
    BY <2>0, <2>7, StillTold
  <2>8. Laid(buf) \/ ahead
    BY <2>0 DEF Told, Seen
  <2>9. ASSUME NEW pos \in Position, goto_char(pos)
        PROVE  Goal
    <3>1. Kept2 /\ buf' = [buf EXCEPT !.pt = Both(buf, pos)]
      BY <2>9 DEF goto_char, history
    <3>2. Laid(buf) => Alike(buf, buf') /\ buf'.modiff = buf.modiff
      BY <3>1, AlikeBut
    <3>. QED BY <2>7, <2>8, <3>1, <3>2
  <2>10. ASSUME NEW m \in Marker, NEW pos \in Position, set_marker(m, pos)
         PROVE  Goal
    <3>1. Kept2 /\ \E marks : buf' = [buf EXCEPT !.markers = marks]
      BY <2>10 DEF set_marker, history
    <3>2. Laid(buf) => Alike(buf, buf') /\ buf'.modiff = buf.modiff
      BY <3>1, AlikeBut
    <3>. QED BY <2>7, <2>8, <3>1, <3>2
  <2>11. ASSUME set_buffer_unmodified
         PROVE  Goal
    <3>1. Kept2 /\ buf' = [buf EXCEPT !.save_modiff = buf.modiff]
      BY <2>11 DEF set_buffer_unmodified, history
    <3>2. Laid(buf) => Alike(buf, buf') /\ buf'.modiff = buf.modiff
      BY <3>1, AlikeBut
    <3>. QED BY <2>7, <2>8, <3>1, <3>2
  <2>12. ASSUME undo_boundary
         PROVE  Goal
    <3>1. Kept2 /\ \E list : buf' = [buf EXCEPT !.undo_list = list]
      BY <2>12 DEF undo_boundary, history
    <3>2. Laid(buf) => Alike(buf, buf') /\ buf'.modiff = buf.modiff
      BY <3>1, AlikeBut
    <3>. QED BY <2>7, <2>8, <3>1, <3>2
  <2>13. ASSUME mark_window_display_accurate
         PROVE  Goal
    <3>1. Told(buf', shown') /\ pending' = pending
      BY <1>0, <2>13, ToldAnew DEF mark_window_display_accurate
    <3>. QED BY <2>0, <3>1
  <2>14. Goal
    <3>1. ~Looks("cache")
      BY <2>0 DEF Looks
    <3>. QED BY <1>2, <2>0, <2>1, <2>2, <2>3, <2>4, <2>5, <2>6, <2>9, <2>10, <2>11, <2>12, <2>13, <3>1
             DEF Next, Command, del_range_1, prepare_to_modify_buffer, find_newline
  <2>. QED BY <2>14
<1>. QED BY <1>1, <1>2

LEMMA ToldIsUnchanged == DInv => UnchangedIsUnchangedUnlessAhead
<1>. SUFFICES ASSUME DInv, ~ahead, Looks("display") PROVE UnchangedIsUnchanged
  BY DEF UnchangedIsUnchangedUnlessAhead, UnchangedIsUnchanged
<1>. DEFINE chars == Chars(buf)
            h == buf.gpt.c - BEG
            l == buf.z.c - buf.gpt.c
            beg == Min({buf.beg_unchanged, h})
            end == Min({buf.end_unchanged, l})
<1>1. Seen(buf, shown) /\ Fresh(buf, shown) /\ Laid(buf)
  BY DEF DInv, ToldOK, Told, Seen
<1>2. buf.beg_unchanged \in Int /\ buf.end_unchanged \in Int /\ h \in Int /\ l \in Int
  BY <1>1, LaidParts DEF Laid, BEG
<1>. HIDE DEF h, l
<1>3. /\ beg \in Int /\ beg <= buf.beg_unchanged
      /\ end \in Int /\ end <= buf.end_unchanged /\ end <= l
  BY <1>2, LowerOf
<1>. HIDE DEF beg, end
<1>4. SameHead(chars, shown, beg)
  <2>1. SameHead(chars, shown, buf.beg_unchanged)
    BY <1>1 DEF Seen
  <2>. HIDE DEF chars
  <2>. QED BY <1>2, <1>3, <2>1, SameEndsFewer
<1>5. SameTail(chars, shown, end)
  BY <1>1, <1>3 DEF Seen, l
<1>6. \A i \in 0 .. (end - 1) : i \in Nat /\ i < end
  BY <1>3
<1>7. \A i \in 0 .. (end - 1) : i < Len(shown) /\ chars[Len(chars) - i] = shown[Len(shown) - i]
  BY <1>5, <1>6 DEF SameTail
<1>8. buf.modiff = buf.unchanged_modified => chars = shown
  BY <1>1 DEF Fresh
<1>. QED BY <1>4, <1>7, <1>8 DEF UnchangedIsUnchanged, SameHead, beg, end, h, l

(* What redisplay takes for unchanged, the head and the tail of the text by  *)
(* the two numbers of BUF_COMPUTE_UNCHANGED, is as it was last shown, after   *)
(* any edits: as long as the head has not reached past the gap.              *)
THEOREM UnchangedIsAsShown == Spec => []UnchangedIsUnchangedUnlessAhead
<1>1. Spec => []DInv
  BY DisplayInit, DisplayStep, PTL DEF Spec
<1>2. DInv => UnchangedIsUnchangedUnlessAhead
  BY ToldIsUnchanged
<1>. QED BY <1>1, <1>2, PTL

-------------------------------------------------------------------------------
(* The array of boundaries by its absolute positions                         *)

(* The sorted array of boundaries, by its absolute positions *)
CacheBoundary == [pos : Int, value : {0, 1}]

Array(c) == c \in Cache /\ c.gap_start \in 1 .. cache_len(c)

SameNumbers(c, d) ==
  /\ d.beg_unchanged = c.beg_unchanged /\ d.end_unchanged = c.end_unchanged
  /\ d.buffer_end = c.buffer_end

LEMMA ArrayParts ==
  ASSUME NEW c, Array(c)
  PROVE  /\ c.boundaries \in Seq(CacheBoundary) /\ Len(c.boundaries) = cache_len(c)
         /\ cache_len(c) \in Nat /\ cache_len(c) >= 1 /\ 1 \in 1 .. cache_len(c)
         /\ c.gap_start \in 1 .. cache_len(c) /\ c.gap_start \in Int
         /\ c.beg_unchanged \in Int /\ c.end_unchanged \in Int /\ c.buffer_end \in Int
         /\ \A i \in 1 .. cache_len(c) :
              /\ c.boundaries[i] \in CacheBoundary /\ c.boundaries[i].pos \in Int
              /\ BOUNDARY_POS(c, i) \in Int /\ BOUNDARY_VALUE(c, i) \in {0, 1}
<1>1. /\ c.boundaries \in Seq(CacheBoundary) /\ c.gap_start \in 1 .. cache_len(c)
      /\ c.beg_unchanged \in Int /\ c.end_unchanged \in Int /\ c.buffer_end \in Int
      /\ c.gap_start \in Int
  BY DEF Array, Cache, CacheBoundary
<1>2. cache_len(c) \in Nat /\ Len(c.boundaries) = cache_len(c)
  BY <1>1, LenProperties DEF cache_len
<1>3. cache_len(c) >= 1 /\ 1 \in 1 .. cache_len(c)
  BY <1>1, <1>2
<1>4. \A i \in 1 .. cache_len(c) : c.boundaries[i] \in CacheBoundary
  BY <1>1, <1>2, ElementOfSeq
<1>5. \A i \in 1 .. cache_len(c) :
        c.boundaries[i].pos \in Int /\ c.boundaries[i].value \in {0, 1}
  BY <1>4 DEF CacheBoundary
<1>6. \A i \in 1 .. cache_len(c) : BOUNDARY_POS(c, i) \in Int /\ BOUNDARY_VALUE(c, i) \in {0, 1}
  BY <1>1, <1>5 DEF BOUNDARY_POS, BOUNDARY_VALUE, BEG
<1>. QED BY <1>1, <1>2, <1>3, <1>4, <1>5, <1>6

(* How an array is put together *)
(* Where the boundary B is, if its index is I and the gap is behind G *)
PlacedAt(b, i, g, end) == (IF i <= g THEN BEG ELSE end) + b.pos

ArrayWith(c, b, g) == [c EXCEPT !.boundaries = b, !.gap_start = g]

(* D is C with the boundaries B and the gap behind the one with index G      *)
Made(c, d, b, g) ==
  /\ Array(d) /\ SameNumbers(c, d) /\ d.boundaries = b /\ d.gap_start = g
  /\ cache_len(d) = Len(b)
  /\ \A i \in 1 .. Len(b) :
       /\ BOUNDARY_POS(d, i) = PlacedAt(b[i], i, g, c.buffer_end)
       /\ BOUNDARY_VALUE(d, i) = b[i].value

LEMMA ArrayOf ==
  ASSUME NEW c, Array(c), NEW b \in Seq(CacheBoundary), NEW g \in 1 .. Len(b)
  PROVE  Made(c, ArrayWith(c, b, g), b, g)
<1>. DEFINE d == ArrayWith(c, b, g)
<1>1. Len(b) \in Nat /\ g \in Int
  BY LenProperties
<1>2. c \in Cache
  BY DEF Array
<1>3. /\ d \in Cache /\ SameNumbers(c, d) /\ d.boundaries = b /\ d.gap_start = g
      /\ d.buffer_end = c.buffer_end
  BY <1>1, <1>2 DEF Cache, CacheBoundary, SameNumbers, ArrayWith
<1>. HIDE DEF d
<1>4. cache_len(d) = Len(b)
  BY <1>3 DEF cache_len
<1>5. Array(d)
  BY <1>3, <1>4 DEF Array
<1>6. \A i \in 1 .. Len(b) :
              /\ BOUNDARY_POS(d, i) = PlacedAt(b[i], i, g, c.buffer_end)
              /\ BOUNDARY_VALUE(d, i) = b[i].value
  BY <1>3 DEF BOUNDARY_POS, BOUNDARY_VALUE, PlacedAt
<1>. QED BY <1>3, <1>4, <1>5, <1>6 DEF d, Made

(* The same array *)
SameArray(c, d) ==
  /\ SameNumbers(c, d) /\ cache_len(d) = cache_len(c)
  /\ \A i \in 1 .. cache_len(c) :
       BOUNDARY_POS(d, i) = BOUNDARY_POS(c, i) /\ BOUNDARY_VALUE(d, i) = BOUNDARY_VALUE(c, i)

LEMMA MovedGap ==
  ASSUME NEW c, Array(c), NEW n \in 1 .. cache_len(c)
  PROVE  LET d == move_cache_gap(c, n) IN
         Array(d) /\ d.gap_start = n /\ SameArray(c, d)
<1>. DEFINE len == cache_len(c)
            P(i) == BOUNDARY_POS(c, i) - (IF i <= n THEN BEG ELSE c.buffer_end)
            b == [i \in 1 .. len |-> [c.boundaries[i] EXCEPT !.pos = P(i)]]
            d == move_cache_gap(c, n)
<1>1. /\ len \in Nat /\ c.buffer_end \in Int /\ n \in Int
      /\ \A i \in 1 .. len : /\ c.boundaries[i] \in CacheBoundary /\ BOUNDARY_POS(c, i) \in Int
                             /\ BOUNDARY_VALUE(c, i) = c.boundaries[i].value
  BY ArrayParts DEF BOUNDARY_VALUE
<1>2. d = [[c EXCEPT !.gap_start = n] EXCEPT !.boundaries = b]
  BY DEF move_cache_gap
<1>3. d = ArrayWith(c, b, n)
  <2>1. c \in Cache
    BY DEF Array
  <2>. HIDE DEF b, d
  <2>. QED BY <1>2, <2>1 DEF Cache, ArrayWith
<1>4. \A i \in 1 .. len : P(i) \in Int
  BY <1>1 DEF BEG
<1>5. \A i \in 1 .. len : [c.boundaries[i] EXCEPT !.pos = P(i)] \in CacheBoundary
  <2>. HIDE DEF P
  <2>. QED BY <1>1, <1>4 DEF CacheBoundary
<1>6. b \in Seq(CacheBoundary) /\ Len(b) = len
  <2>1. b \in [1 .. len -> CacheBoundary]
    <3>. HIDE DEF P
    <3>. QED BY <1>5
  <2>. HIDE DEF b, len
  <2>. QED BY <1>1, <2>1
<1>7. \A i \in 1 .. len : b[i].pos = P(i) /\ b[i].value = BOUNDARY_VALUE(c, i)
  <2>. HIDE DEF P
  <2>. QED BY <1>1 DEF CacheBoundary
<1>. HIDE DEF b, d
<1>8. /\ Array(d) /\ SameNumbers(c, d) /\ d.gap_start = n /\ cache_len(d) = len
      /\ \A i \in 1 .. len :
           /\ BOUNDARY_POS(d, i) = PlacedAt(b[i], i, n, c.buffer_end)
           /\ BOUNDARY_VALUE(d, i) = b[i].value
  <2>1. n \in 1 .. Len(b)
    BY <1>6
  <2>2. Made(c, d, b, n)
    BY <1>3, <1>6, <2>1, ArrayOf, Zenon
  <2>. QED BY <1>6, <2>2 DEF Made
<1>9. \A i \in 1 .. len : BOUNDARY_POS(d, i) = BOUNDARY_POS(c, i)
  <2>. TAKE i \in 1 .. len
  <2>1. \A x, y \in Int : y + (x - y) = x
    OBVIOUS
  <2>2. (IF i <= n THEN BEG ELSE c.buffer_end) \in Int
    BY <1>1 DEF BEG
  <2>. QED BY <1>1, <1>7, <1>8, <2>1, <2>2 DEF PlacedAt
<1>. QED BY <1>7, <1>8, <1>9 DEF SameArray, d

(* What an array cut in two or three pieces is made of *)
LEMMA CutParts ==
  ASSUME NEW s \in Seq(CacheBoundary), NEW a \in 0 .. Len(s), NEW b \in 1 .. Len(s) + 1,
         NEW mid \in Seq(CacheBoundary)
  PROVE  LET r == SubSeq(s, 1, a) \o mid \o SubSeq(s, b, Len(s)) IN
         /\ r \in Seq(CacheBoundary) /\ Len(r) = a + Len(mid) + (Len(s) + 1 - b)
         /\ \A i \in 1 .. a : r[i] = s[i]
         /\ \A i \in 1 .. Len(mid) : r[a + i] = mid[i]
         /\ \A i \in 1 .. Len(s) + 1 - b : r[a + Len(mid) + i] = s[b + i - 1]
<1>. DEFINE n == Len(s)
            m == Len(mid)
            k == n + 1 - b
            x == SubSeq(s, 1, a)
            y == SubSeq(s, b, n)
            w == x \o mid
            r == w \o y
<1>1. /\ n \in Nat /\ m \in Nat /\ a \in Nat /\ a <= n /\ b \in Nat /\ b >= 1 /\ b <= n + 1
      /\ k \in Nat /\ \A i \in 1 .. n : s[i] \in CacheBoundary
  BY LenProperties, ElementOfSeq
<1>2. x \in Seq(CacheBoundary) /\ Len(x) = a /\ \A i \in 1 .. a : x[i] = s[i]
  <2>1. 1 \in Int /\ a \in Int /\ \A i \in 1 .. a : s[i] \in CacheBoundary
    BY <1>1
  <2>2. /\ x \in Seq(CacheBoundary) /\ Len(x) = IF 1 <= a THEN a - 1 + 1 ELSE 0
        /\ \A i \in 1 .. a - 1 + 1 : x[i] = s[1 + i - 1]
    BY <2>1, SubSeqProperties
  <2>. HIDE DEF x
  <2>3. /\ (IF 1 <= a THEN a - 1 + 1 ELSE 0) = a
        /\ \A i \in 1 .. a : i \in 1 .. a - 1 + 1 /\ 1 + i - 1 = i
    BY <1>1
  <2>. QED BY <2>2, <2>3
<1>3. y \in Seq(CacheBoundary) /\ Len(y) = k /\ \A i \in 1 .. k : y[i] = s[b + i - 1]
  <2>1. b \in Int /\ n \in Int /\ \A i \in b .. n : s[i] \in CacheBoundary
    BY <1>1
  <2>2. /\ y \in Seq(CacheBoundary) /\ Len(y) = IF b <= n THEN n - b + 1 ELSE 0
        /\ \A i \in 1 .. n - b + 1 : y[i] = s[b + i - 1]
    BY <2>1, SubSeqProperties
  <2>. HIDE DEF y
  <2>3. (IF b <= n THEN n - b + 1 ELSE 0) = k /\ n - b + 1 = k
    BY <1>1
  <2>. QED BY <2>2, <2>3
<1>. HIDE DEF x, y, k
<1>4. /\ w \in Seq(CacheBoundary) /\ Len(w) = a + m
      /\ \A i \in 1 .. a + m : w[i] = IF i <= a THEN x[i] ELSE mid[i - a]
  BY <1>2, ConcatProperties
<1>. HIDE DEF w
<1>5. /\ r \in Seq(CacheBoundary) /\ Len(r) = Len(w) + Len(y)
      /\ \A i \in 1 .. Len(w) + Len(y) : r[i] = IF i <= Len(w) THEN w[i] ELSE y[i - Len(w)]
  <2>1. w \in Seq(CacheBoundary) /\ y \in Seq(CacheBoundary)
    BY <1>3, <1>4
  <2>. QED BY <2>1, ConcatProperties
<1>. HIDE DEF r
<1>6. /\ Len(r) = a + m + k
      /\ \A i \in 1 .. a + m + k : r[i] = IF i <= a + m THEN w[i] ELSE y[i - (a + m)]
  BY <1>3, <1>4, <1>5
<1>. HIDE DEF n, m
<1>7. \A i \in 1 .. a : r[i] = s[i]
  <2>. TAKE i \in 1 .. a
  <2>1. i \in 1 .. a + m + k /\ i <= a + m /\ i \in 1 .. a + m /\ i <= a
    BY <1>1
  <2>. QED BY <1>2, <1>4, <1>6, <2>1
<1>8. \A i \in 1 .. m : r[a + i] = mid[i]
  <2>. TAKE i \in 1 .. m
  <2>1. a + i \in 1 .. a + m + k /\ a + i <= a + m /\ a + i \in 1 .. a + m /\ ~(a + i <= a)
        /\ (a + i) - a = i
    BY <1>1
  <2>2. r[a + i] = w[a + i] /\ w[a + i] = mid[(a + i) - a]
    BY <1>4, <1>6, <2>1
  <2>. QED BY <2>1, <2>2, Zenon
<1>9. \A i \in 1 .. k : r[a + m + i] = s[b + i - 1]
  <2>. TAKE i \in 1 .. k
  <2>1. a + m + i \in 1 .. a + m + k /\ ~(a + m + i <= a + m) /\ (a + m + i) - (a + m) = i
    BY <1>1
  <2>2. r[a + m + i] = y[(a + m + i) - (a + m)]
    BY <1>6, <2>1
  <2>3. y[i] = s[b + i - 1]
    BY <1>3
  <2>. QED BY <2>1, <2>2, <2>3, Zenon
<1>. QED BY <1>5, <1>6, <1>7, <1>8, <1>9 DEF r, w, x, y, k, m, n

(* A boundary more, with index I *)
BoundaryAdded(c, d, i, pos, value) ==
  /\ SameNumbers(c, d) /\ cache_len(d) = cache_len(c) + 1
  /\ \A j \in 1 .. i - 1 :
       BOUNDARY_POS(d, j) = BOUNDARY_POS(c, j) /\ BOUNDARY_VALUE(d, j) = BOUNDARY_VALUE(c, j)
  /\ BOUNDARY_POS(d, i) = pos /\ BOUNDARY_VALUE(d, i) = value
  /\ \A j \in i .. cache_len(c) :
       /\ BOUNDARY_POS(d, j + 1) = BOUNDARY_POS(c, j)
       /\ BOUNDARY_VALUE(d, j + 1) = BOUNDARY_VALUE(c, j)

LEMMA AddedAtGap ==
  ASSUME NEW c, Array(c), NEW i \in 2 .. cache_len(c) + 1, c.gap_start = i - 1,
         NEW pos \in Int, NEW value \in {0, 1}
  PROVE  LET d == InsertAtGap(c, i, pos, value) IN
         Array(d) /\ BoundaryAdded(c, d, i, pos, value)
<1>. DEFINE len == cache_len(c)
            new == [pos |-> pos - BEG, value |-> value]
            s   == c.boundaries
            b   == SubSeq(s, 1, i - 1) \o <<new>> \o SubSeq(s, i, Len(s))
            d   == InsertAtGap(c, i, pos, value)
<1>1. /\ s \in Seq(CacheBoundary) /\ Len(s) = len /\ len \in Nat /\ c.buffer_end \in Int
      /\ i \in Nat /\ i >= 2 /\ i <= len + 1
      /\ \A j \in 1 .. len : s[j].pos \in Int /\ BOUNDARY_VALUE(c, j) = s[j].value
                            /\ BOUNDARY_POS(c, j) = PlacedAt(s[j], j, i - 1, c.buffer_end)
  BY ArrayParts DEF BOUNDARY_VALUE, BOUNDARY_POS, PlacedAt
<1>2. new \in CacheBoundary /\ <<new>> \in Seq(CacheBoundary) /\ Len(<<new>>) = 1 /\ <<new>>[1] = new
      /\ new.pos = pos - 1 /\ new.value = value
  BY DEF CacheBoundary, BEG
<1>3. d = ArrayWith(c, b, i)
  BY DEF InsertAtGap, ArrayWith
<1>. HIDE DEF d, new, s, len
<1>4. /\ b \in Seq(CacheBoundary) /\ Len(b) = len + 1
      /\ \A j \in 1 .. i - 1 : b[j] = s[j]
      /\ b[i] = new
      /\ \A j \in i .. len : b[j + 1] = s[j]
  <2>1. /\ i - 1 \in 0 .. Len(s) /\ i \in 1 .. Len(s) + 1 /\ (i - 1) + 1 = i
        /\ (i - 1) + 1 + (len + 1 - i) = len + 1 /\ 1 \in 1 .. 1
        /\ \A j \in i .. len : /\ (j + 1 - i) \in 1 .. len + 1 - i
                               /\ (i - 1) + 1 + (j + 1 - i) = j + 1 /\ i + (j + 1 - i) - 1 = j
    BY <1>1
  <2>2. /\ b \in Seq(CacheBoundary) /\ Len(b) = (i - 1) + Len(<<new>>) + (Len(s) + 1 - i)
        /\ \A j \in 1 .. i - 1 : b[j] = s[j]
        /\ \A j \in 1 .. Len(<<new>>) : b[(i - 1) + j] = <<new>>[j]
        /\ \A j \in 1 .. Len(s) + 1 - i : b[(i - 1) + Len(<<new>>) + j] = s[i + j - 1]
    BY <1>1, <1>2, <2>1, CutParts
  <2>. HIDE DEF b
  <2>3. b[i] = new
    <3>1. b[(i - 1) + 1] = <<new>>[1]
      BY <1>2, <2>1, <2>2
    <3>. QED BY <1>2, <2>1, <3>1
  <2>4. Len(b) = len + 1
    BY <1>1, <1>2, <2>1, <2>2
  <2>5. ASSUME NEW j \in i .. len PROVE b[j + 1] = s[j]
    <3>1. b[(i - 1) + 1 + (j + 1 - i)] = s[i + (j + 1 - i) - 1]
      BY <1>1, <1>2, <2>1, <2>2
    <3>. QED BY <2>1, <3>1
  <2>. QED BY <2>2, <2>3, <2>4, <2>5
<1>. HIDE DEF b
<1>5. /\ i \in 1 .. Len(b) /\ 1 .. i - 1 \subseteq 1 .. Len(b)
      /\ \A j \in i .. len : j + 1 \in 1 .. Len(b) /\ ~(j + 1 <= i) /\ ~(j <= i - 1)
      /\ \A j \in 1 .. i - 1 : j <= i /\ j <= i - 1 /\ j \in 1 .. len
      /\ i <= i /\ i .. len \subseteq 1 .. len
  BY <1>1, <1>4
<1>6. /\ Array(d) /\ SameNumbers(c, d) /\ cache_len(d) = Len(b)
      /\ \A j \in 1 .. Len(b) :
           /\ BOUNDARY_POS(d, j) = PlacedAt(b[j], j, i, c.buffer_end)
           /\ BOUNDARY_VALUE(d, j) = b[j].value
  <2>1. b \in Seq(CacheBoundary) /\ i \in 1 .. Len(b)
    BY <1>4, <1>5
  <2>2. Made(c, d, b, i)
    BY <1>3, <2>1, ArrayOf, Zenon
  <2>. QED BY <2>2 DEF Made
<1>7. \A j \in 1 .. i - 1 :
        BOUNDARY_POS(d, j) = BOUNDARY_POS(c, j) /\ BOUNDARY_VALUE(d, j) = BOUNDARY_VALUE(c, j)
  <2>. TAKE j \in 1 .. i - 1
  <2>1. j \in 1 .. Len(b) /\ j \in 1 .. len /\ b[j] = s[j] /\ (j <= i) = (j <= i - 1)
    BY <1>4, <1>5
  <2>2. PlacedAt(s[j], j, i, c.buffer_end) = PlacedAt(s[j], j, i - 1, c.buffer_end)
    BY <2>1 DEF PlacedAt
  <2>. QED BY <1>1, <1>6, <2>1, <2>2
<1>8. BOUNDARY_POS(d, i) = pos /\ BOUNDARY_VALUE(d, i) = value
  <2>1. BOUNDARY_POS(d, i) = PlacedAt(new, i, i, c.buffer_end) /\ BOUNDARY_VALUE(d, i) = new.value
    BY <1>4, <1>5, <1>6
  <2>2. 1 + (pos - 1) = pos
    OBVIOUS
  <2>. QED BY <1>2, <1>5, <2>1, <2>2 DEF PlacedAt, BEG
<1>9. \A j \in i .. len : /\ BOUNDARY_POS(d, j + 1) = BOUNDARY_POS(c, j)
                         /\ BOUNDARY_VALUE(d, j + 1) = BOUNDARY_VALUE(c, j)
  <2>. TAKE j \in i .. len
  <2>1. /\ j + 1 \in 1 .. Len(b) /\ j \in 1 .. len /\ b[j + 1] = s[j]
        /\ (j + 1 <= i) = (j <= i - 1)
    BY <1>4, <1>5
  <2>2. PlacedAt(s[j], j + 1, i, c.buffer_end) = PlacedAt(s[j], j, i - 1, c.buffer_end)
    BY <2>1 DEF PlacedAt
  <2>. QED BY <1>1, <1>6, <2>1, <2>2
<1>. QED BY <1>4, <1>6, <1>7, <1>8, <1>9 DEF BoundaryAdded, d, len

LEMMA Added ==
  ASSUME NEW c, Array(c), NEW i \in 2 .. cache_len(c) + 1, NEW pos \in Int, NEW value \in {0, 1}
  PROVE  LET d == insert_cache_boundary(c, i, pos, value) IN
         Array(d) /\ BoundaryAdded(c, d, i, pos, value)
<1>. DEFINE m == move_cache_gap(c, i - 1)
            d == InsertAtGap(m, i, pos, value)
<1>1. cache_len(c) \in Nat /\ i - 1 \in 1 .. cache_len(c)
      /\ 1 .. i - 1 \subseteq 1 .. cache_len(c) /\ i .. cache_len(c) \subseteq 1 .. cache_len(c)
  BY ArrayParts
<1>2. Array(m) /\ m.gap_start = i - 1 /\ SameArray(c, m)
  BY <1>1, MovedGap
<1>. HIDE DEF m
<1>3. i \in 2 .. cache_len(m) + 1
  BY <1>2 DEF SameArray
<1>4. Array(d) /\ BoundaryAdded(m, d, i, pos, value)
  BY <1>2, <1>3, AddedAtGap
<1>. HIDE DEF d
<1>5. BoundaryAdded(c, d, i, pos, value)
  BY <1>1, <1>2, <1>4 DEF BoundaryAdded, SameArray, SameNumbers
<1>. QED BY <1>4, <1>5 DEF insert_cache_boundary, d, m

(* The boundaries from index START up to END gone *)
BoundariesGone(c, d, start, end) ==
  /\ SameNumbers(c, d) /\ cache_len(d) = cache_len(c) - (end - start)
  /\ \A j \in 1 .. start - 1 :
       BOUNDARY_POS(d, j) = BOUNDARY_POS(c, j) /\ BOUNDARY_VALUE(d, j) = BOUNDARY_VALUE(c, j)
  /\ \A j \in end .. cache_len(c) :
       /\ BOUNDARY_POS(d, j - (end - start)) = BOUNDARY_POS(c, j)
       /\ BOUNDARY_VALUE(d, j - (end - start)) = BOUNDARY_VALUE(c, j)

LEMMA GoneAtGap ==
  ASSUME NEW c, Array(c), NEW start \in 2 .. cache_len(c) + 1,
         NEW end \in start .. cache_len(c) + 1, start - 1 <= c.gap_start, c.gap_start <= end - 1
  PROVE  LET d == DeleteAtGap(c, start, end) IN
         Array(d) /\ BoundariesGone(c, d, start, end)
<1>. DEFINE len == cache_len(c)
            s   == c.boundaries
            g   == c.gap_start
            b   == SubSeq(s, 1, start - 1) \o <<>> \o SubSeq(s, end, Len(s))
            d   == DeleteAtGap(c, start, end)
            n   == end - start
<1>1. /\ s \in Seq(CacheBoundary) /\ Len(s) = len /\ len \in Nat /\ c.buffer_end \in Int
      /\ g \in Int /\ start \in Int /\ end \in Int
      /\ \A j \in 1 .. len : s[j].pos \in Int /\ BOUNDARY_VALUE(c, j) = s[j].value
                            /\ BOUNDARY_POS(c, j) = PlacedAt(s[j], j, g, c.buffer_end)
  BY ArrayParts DEF BOUNDARY_VALUE, BOUNDARY_POS, PlacedAt
<1>2. <<>> \in Seq(CacheBoundary) /\ Len(<<>>) = 0
  BY EmptySeq
<1>3. d = ArrayWith(c, b, start - 1)
  <2>1. /\ start - 1 \in 0 .. Len(s) /\ 1 \in Int /\ start - 1 \in Int
        /\ \A i \in 1 .. start - 1 : s[i] \in CacheBoundary
    <3>1. 1 .. start - 1 \subseteq 1 .. len /\ start - 1 \in 0 .. len
      BY <1>1
    <3>. QED BY <1>1, <3>1, ElementOfSeq
  <2>2. SubSeq(s, 1, start - 1) \in Seq(CacheBoundary)
    BY <2>1, SubSeqProperties
  <2>3. SubSeq(s, 1, start - 1) \o <<>> = SubSeq(s, 1, start - 1)
    BY <2>2, ConcatEmptySeq
  <2>. QED BY <2>3 DEF DeleteAtGap, ArrayWith
<1>4. start \in 2 .. len + 1 /\ end \in start .. len + 1 /\ start - 1 <= g /\ g <= end - 1
  OBVIOUS
<1>. HIDE DEF d, s, len, g
<1>5. /\ b \in Seq(CacheBoundary) /\ Len(b) = len - n
      /\ \A j \in 1 .. start - 1 : b[j] = s[j]
      /\ \A j \in end .. len : b[j - n] = s[j]
  <2>1. /\ start - 1 \in 0 .. Len(s) /\ end \in 1 .. Len(s) + 1
        /\ (start - 1) + 0 + (len + 1 - end) = len - n
        /\ \A j \in end .. len : /\ (j + 1 - end) \in 1 .. len + 1 - end
                                 /\ (start - 1) + 0 + (j + 1 - end) = j - n
                                 /\ end + (j + 1 - end) - 1 = j
    BY <1>1, <1>4
  <2>2. /\ b \in Seq(CacheBoundary) /\ Len(b) = (start - 1) + Len(<<>>) + (Len(s) + 1 - end)
        /\ \A j \in 1 .. start - 1 : b[j] = s[j]
        /\ \A j \in 1 .. Len(s) + 1 - end : b[(start - 1) + Len(<<>>) + j] = s[end + j - 1]
    BY <1>1, <1>2, <2>1, CutParts
  <2>. HIDE DEF b, n
  <2>3. Len(b) = len - n
    BY <1>1, <1>2, <2>1, <2>2
  <2>4. ASSUME NEW j \in end .. len PROVE b[j - n] = s[j]
    <3>1. b[(start - 1) + 0 + (j + 1 - end)] = s[end + (j + 1 - end) - 1]
      BY <1>1, <1>2, <2>1, <2>2
    <3>. QED BY <2>1, <3>1
  <2>. QED BY <2>2, <2>3, <2>4
<1>. HIDE DEF b
<1>6. /\ start - 1 \in 1 .. Len(b) /\ 1 .. start - 1 \subseteq 1 .. Len(b)
      /\ \A j \in end .. len : /\ j - n \in 1 .. Len(b) /\ j \in 1 .. len
                               /\ ~(j - n <= start - 1) /\ ~(j <= g)
      /\ \A j \in 1 .. start - 1 : j <= start - 1 /\ j <= g /\ j \in 1 .. len
  BY <1>1, <1>4, <1>5
<1>. HIDE DEF n
<1>7. /\ Array(d) /\ SameNumbers(c, d) /\ cache_len(d) = Len(b)
      /\ \A j \in 1 .. Len(b) :
           /\ BOUNDARY_POS(d, j) = PlacedAt(b[j], j, start - 1, c.buffer_end)
           /\ BOUNDARY_VALUE(d, j) = b[j].value
  <2>1. b \in Seq(CacheBoundary) /\ start - 1 \in 1 .. Len(b)
    BY <1>5, <1>6
  <2>2. Made(c, d, b, start - 1)
    BY <1>3, <2>1, ArrayOf, Zenon
  <2>. QED BY <2>2 DEF Made
<1>8. \A j \in 1 .. start - 1 :
        BOUNDARY_POS(d, j) = BOUNDARY_POS(c, j) /\ BOUNDARY_VALUE(d, j) = BOUNDARY_VALUE(c, j)
  <2>. TAKE j \in 1 .. start - 1
  <2>1. j \in 1 .. Len(b) /\ j \in 1 .. len /\ b[j] = s[j] /\ (j <= start - 1) = (j <= g)
    BY <1>5, <1>6
  <2>2. PlacedAt(s[j], j, start - 1, c.buffer_end) = PlacedAt(s[j], j, g, c.buffer_end)
    BY <2>1 DEF PlacedAt
  <2>. QED BY <1>1, <1>7, <2>1, <2>2
<1>9. \A j \in end .. len : /\ BOUNDARY_POS(d, j - n) = BOUNDARY_POS(c, j)
                           /\ BOUNDARY_VALUE(d, j - n) = BOUNDARY_VALUE(c, j)
  <2>. TAKE j \in end .. len
  <2>1. /\ j - n \in 1 .. Len(b) /\ j \in 1 .. len /\ b[j - n] = s[j]
        /\ (j - n <= start - 1) = (j <= g)
    BY <1>5, <1>6
  <2>2. PlacedAt(s[j], j - n, start - 1, c.buffer_end) = PlacedAt(s[j], j, g, c.buffer_end)
    BY <2>1 DEF PlacedAt
  <2>. QED BY <1>1, <1>7, <2>1, <2>2
<1>. QED BY <1>5, <1>7, <1>8, <1>9 DEF BoundariesGone, d, len, n

LEMMA Gone ==
  ASSUME NEW c, Array(c), NEW start \in 2 .. cache_len(c) + 1, NEW end \in start .. cache_len(c) + 1
  PROVE  LET d == delete_cache_boundaries(c, start, end) IN
         Array(d) /\ BoundariesGone(c, d, start, end)
<1>. DEFINE d == delete_cache_boundaries(c, start, end)
<1>1. /\ cache_len(c) \in Nat /\ c.gap_start \in Int /\ c.gap_start \in 1 .. cache_len(c)
      /\ start \in Int /\ end \in Int
  BY ArrayParts
<1>2. CASE start = end
  <2>1. d = c /\ end - start = 0 /\ cache_len(c) - 0 = cache_len(c)
        /\ \A j \in end .. cache_len(c) : j - 0 = j
    BY <1>1, <1>2 DEF delete_cache_boundaries
  <2>. HIDE DEF d
  <2>2. BoundariesGone(c, c, start, end)
    BY <2>1 DEF BoundariesGone, SameNumbers
  <2>. QED BY <2>1, <2>2 DEF d
<1>3. CASE start # end
  <2>. DEFINE m == IF c.gap_start < start THEN move_cache_gap(c, start - 1)
                   ELSE IF end <= c.gap_start + 1 THEN move_cache_gap(c, end - 1) ELSE c
  <2>1. d = DeleteAtGap(m, start, end)
    BY <1>3 DEF delete_cache_boundaries
  <2>2. Array(m) /\ SameArray(c, m) /\ start - 1 <= m.gap_start /\ m.gap_start <= end - 1
    <3>1. start - 1 \in 1 .. cache_len(c) /\ end - 1 \in 1 .. cache_len(c) /\ start - 1 <= end - 1
          /\ start - 1 <= start - 1 /\ end - 1 <= end - 1
      BY <1>1, <1>3
    <3>2. CASE c.gap_start < start
      <4>1. m = move_cache_gap(c, start - 1)
        BY <3>2
      <4>. HIDE DEF m
      <4>. QED BY <3>1, <4>1, MovedGap
    <3>3. CASE ~(c.gap_start < start) /\ end <= c.gap_start + 1
      <4>1. m = move_cache_gap(c, end - 1)
        BY <3>3
      <4>. HIDE DEF m
      <4>. QED BY <3>1, <4>1, MovedGap
    <3>4. CASE ~(c.gap_start < start) /\ ~(end <= c.gap_start + 1)
      <4>1. m = c
        BY <3>4
      <4>2. start - 1 <= c.gap_start /\ c.gap_start <= end - 1
        BY <1>1, <3>4
      <4>. QED BY <4>1, <4>2 DEF SameArray, SameNumbers
    <3>. QED BY <3>2, <3>3, <3>4
  <2>. HIDE DEF m, d
  <2>3. start \in 2 .. cache_len(m) + 1 /\ end \in start .. cache_len(m) + 1
    BY <2>2 DEF SameArray
  <2>4. Array(d) /\ BoundariesGone(m, d, start, end)
    BY <2>1, <2>2, <2>3, GoneAtGap
  <2>5. 1 .. start - 1 \subseteq 1 .. cache_len(c) /\ end .. cache_len(c) \subseteq 1 .. cache_len(c)
    BY <1>1
  <2>6. BoundariesGone(c, d, start, end)
    BY <2>2, <2>4, <2>5 DEF BoundariesGone, SameArray, SameNumbers
  <2>. QED BY <2>4, <2>6 DEF d
<1>. QED BY <1>2, <1>3

(* The value of the boundary I changed *)
ValueSet(c, d, i, value) ==
  /\ SameNumbers(c, d) /\ cache_len(d) = cache_len(c) /\ d.gap_start = c.gap_start
  /\ \A j \in 1 .. cache_len(c) :
       /\ BOUNDARY_POS(d, j) = BOUNDARY_POS(c, j)
       /\ BOUNDARY_VALUE(d, j) = IF j = i THEN value ELSE BOUNDARY_VALUE(c, j)

LEMMA SetValue ==
  ASSUME NEW c, Array(c), NEW i \in 1 .. cache_len(c), NEW value \in {0, 1}
  PROVE  LET d == SET_BOUNDARY_VALUE(c, i, value) IN Array(d) /\ ValueSet(c, d, i, value)
<1>. DEFINE s == c.boundaries
            e == [s[i] EXCEPT !.value = value]
            b == [s EXCEPT ![i] = e]
            d == SET_BOUNDARY_VALUE(c, i, value)
            g == c.gap_start
<1>1. /\ s \in Seq(CacheBoundary) /\ Len(s) = cache_len(c) /\ cache_len(c) \in Nat
      /\ g \in 1 .. Len(s) /\ \A j \in 1 .. cache_len(c) : s[j] \in CacheBoundary
      /\ c.buffer_end \in Int
  BY ArrayParts
<1>2. e \in CacheBoundary /\ e.pos = s[i].pos /\ e.value = value
  BY <1>1 DEF CacheBoundary
<1>3. d = ArrayWith(c, b, g)
  <2>1. c \in Cache
    BY DEF Array
  <2>2. d = [c EXCEPT !.boundaries = b]
    BY DEF SET_BOUNDARY_VALUE
  <2>. HIDE DEF b, d
  <2>. QED BY <2>1, <2>2 DEF ArrayWith, Cache
<1>. HIDE DEF d, e, s, g
<1>4. /\ b \in Seq(CacheBoundary) /\ Len(b) = Len(s)
      /\ \A j \in 1 .. Len(s) : b[j] = IF j = i THEN e ELSE s[j]
  BY <1>1, <1>2, ExceptSeq
<1>. HIDE DEF b
<1>5. /\ Array(d) /\ SameNumbers(c, d) /\ cache_len(d) = Len(b) /\ d.gap_start = g
      /\ \A j \in 1 .. Len(b) :
           /\ BOUNDARY_POS(d, j) = PlacedAt(b[j], j, g, c.buffer_end)
           /\ BOUNDARY_VALUE(d, j) = b[j].value
  <2>1. b \in Seq(CacheBoundary) /\ g \in 1 .. Len(b)
    BY <1>1, <1>4
  <2>2. Made(c, d, b, g)
    BY <1>3, <2>1, ArrayOf, Zenon
  <2>. QED BY <2>2 DEF Made
<1>6. \A j \in 1 .. cache_len(c) :
       /\ BOUNDARY_POS(d, j) = BOUNDARY_POS(c, j)
       /\ BOUNDARY_VALUE(d, j) = IF j = i THEN value ELSE BOUNDARY_VALUE(c, j)
  <2>. TAKE j \in 1 .. cache_len(c)
  <2>1. /\ BOUNDARY_POS(d, j) = PlacedAt(b[j], j, g, c.buffer_end)
        /\ BOUNDARY_VALUE(d, j) = b[j].value /\ b[j].pos = s[j].pos
        /\ b[j] = IF j = i THEN e ELSE s[j]
    BY <1>1, <1>2, <1>4, <1>5
  <2>2. BOUNDARY_POS(c, j) = PlacedAt(s[j], j, g, c.buffer_end) /\ BOUNDARY_VALUE(c, j) = s[j].value
    BY DEF BOUNDARY_POS, BOUNDARY_VALUE, PlacedAt, s, g
  <2>3. BOUNDARY_POS(d, j) = BOUNDARY_POS(c, j)
    BY <2>1, <2>2 DEF PlacedAt
  <2>. QED BY <1>2, <2>1, <2>2, <2>3
<1>. QED BY <1>1, <1>4, <1>5, <1>6 DEF ValueSet, d, g

-------------------------------------------------------------------------------
(* The boundary that rules a position                                        *)

LEMMA Greatest ==
  ASSUME NEW n \in Nat, NEW S, S \subseteq 1 .. n, S # {}
  PROVE  Max(S) \in S /\ \A y \in S : y <= Max(S)
<1>1. PICK x \in S : \A y \in S : y <= x
  <2>. DEFINE T == {n - x : x \in S}
  <2>1. \A x \in S : n - x \in Nat
    OBVIOUS
  <2>2. T \subseteq Nat /\ T # {}
    BY <2>1
  <2>3. PICK k \in T : \A y \in T : k <= y
    BY <2>2, LeastNumber
  <2>4. PICK x \in S : k = n - x
    BY <2>3
  <2>5. \A y \in S : n - x <= n - y
    BY <2>3, <2>4
  <2>6. \A y \in S : y <= x
    BY <2>5
  <2>. QED BY <2>6
<1>2. \A y \in S : x >= y
  BY <1>1
<1>3. Max(S) \in S /\ \A y \in S : Max(S) >= y
  BY <1>2 DEF Max
<1>4. \A y \in S : y <= Max(S)
  BY <1>3
<1>. QED BY <1>3, <1>4

(* The boundary I is the last one at or before P. *)
Rules(c, p, i) ==
  /\ i \in 1 .. cache_len(c) /\ BOUNDARY_POS(c, i) <= p
  /\ \A j \in 1 .. cache_len(c) : i < j => p < BOUNDARY_POS(c, j)

ValueAt(c, p) == BOUNDARY_VALUE(c, find_cache_boundary(c, p))

LEMMA RulerFound ==
  ASSUME NEW c, Array(c), NEW p \in Int, BOUNDARY_POS(c, 1) <= p
  PROVE  Rules(c, p, find_cache_boundary(c, p))
<1>. DEFINE len == cache_len(c)
            S == {i \in 1 .. len : BOUNDARY_POS(c, i) <= p} \cup {1}
            f == Max(S)
<1>1. len \in Nat /\ 1 \in 1 .. len /\ \A i \in 1 .. len : BOUNDARY_POS(c, i) \in Int
  BY ArrayParts
<1>. HIDE DEF len
<1>2. S \subseteq 1 .. len /\ S # {}
  BY <1>1
<1>3. f \in S /\ \A y \in S : y <= f
  BY <1>1, <1>2, Greatest
<1>. HIDE DEF f
<1>4. f \in 1 .. len /\ BOUNDARY_POS(c, f) <= p
  BY <1>1, <1>3
<1>5. \A j \in 1 .. len : f < j => p < BOUNDARY_POS(c, j)
  <2>. SUFFICES ASSUME NEW j \in 1 .. len, f < j PROVE p < BOUNDARY_POS(c, j)
    OBVIOUS
  <2>1. j \notin S
    BY <1>1, <1>2, <1>3
  <2>. QED BY <1>1, <2>1
<1>. QED BY <1>4, <1>5 DEF Rules, find_cache_boundary, f, len

LEMMA OneRules ==
  ASSUME NEW c, Array(c), NEW p \in Int, NEW i, NEW j, Rules(c, p, i), Rules(c, p, j)
  PROVE  i = j
<1>1. i \in 1 .. cache_len(c) /\ j \in 1 .. cache_len(c) /\ cache_len(c) \in Nat
  BY ArrayParts DEF Rules
<1>2. BOUNDARY_POS(c, i) \in Int /\ BOUNDARY_POS(c, j) \in Int
  BY <1>1, ArrayParts
<1>3. ~(i < j) /\ ~(j < i)
  BY <1>1, <1>2 DEF Rules
<1>. QED BY <1>1, <1>3

LEMMA RulerIs ==
  ASSUME NEW c, Array(c), NEW p \in Int, NEW i, Rules(c, p, i), BOUNDARY_POS(c, 1) <= p
  PROVE  find_cache_boundary(c, p) = i /\ ValueAt(c, p) = BOUNDARY_VALUE(c, i)
<1>1. find_cache_boundary(c, p) = i
  BY RulerFound, OneRules
<1>. QED BY <1>1 DEF ValueAt

(* "A sorted array", that begins at the start of the buffer and ends in it *)
WellKept(c) ==
  /\ Array(c) /\ BOUNDARY_POS(c, 1) = BEG /\ BEG <= c.buffer_end
  /\ \A i, j \in 1 .. cache_len(c) : i < j => BOUNDARY_POS(c, i) < BOUNDARY_POS(c, j)
  /\ \A i \in 1 .. cache_len(c) : BOUNDARY_POS(c, i) <= c.buffer_end

LEMMA KeptParts ==
  ASSUME NEW c, WellKept(c)
  PROVE  /\ Array(c) /\ cache_len(c) \in Nat /\ 1 \in 1 .. cache_len(c) /\ c.buffer_end \in Int
         /\ c.beg_unchanged \in Int /\ c.end_unchanged \in Int /\ 1 <= c.buffer_end
         /\ BOUNDARY_POS(c, 1) = 1
         /\ \A i \in 1 .. cache_len(c) :
              BOUNDARY_POS(c, i) \in Int /\ BOUNDARY_VALUE(c, i) \in {0, 1}
         /\ \A i, j \in 1 .. cache_len(c) : i < j => BOUNDARY_POS(c, i) < BOUNDARY_POS(c, j)
         /\ \A i \in 1 .. cache_len(c) : BOUNDARY_POS(c, i) <= c.buffer_end
  BY ArrayParts DEF WellKept, BEG

-------------------------------------------------------------------------------
(* Deleting, adding and changing one boundary                                *)

(* What a deletion of boundaries leaves *)
LEMMA GoneIndex ==
  ASSUME NEW c, Array(c), NEW d, NEW s \in 2 .. cache_len(c) + 1, NEW e \in s .. cache_len(c) + 1,
         BoundariesGone(c, d, s, e)
  PROVE  /\ cache_len(d) = cache_len(c) - (e - s) /\ cache_len(d) \in Nat /\ cache_len(d) >= 1
         /\ \A j \in 1 .. cache_len(d) :
              LET k == IF j < s THEN j ELSE j + (e - s) IN
              /\ k \in 1 .. cache_len(c) /\ (j < s \/ k >= e)
              /\ BOUNDARY_POS(d, j) = BOUNDARY_POS(c, k)
              /\ BOUNDARY_VALUE(d, j) = BOUNDARY_VALUE(c, k)
<1>. DEFINE n == e - s
            len == cache_len(c)
<1>1. cache_len(d) = len - n /\ len \in Nat /\ s \in Int /\ e \in Int
  BY ArrayParts DEF BoundariesGone
<1>2. cache_len(d) \in Nat /\ cache_len(d) >= 1
  BY <1>1
<1>3. ASSUME NEW j \in 1 .. cache_len(d)
      PROVE  LET k == IF j < s THEN j ELSE j + (e - s) IN
              /\ k \in 1 .. cache_len(c) /\ (j < s \/ k >= e)
              /\ BOUNDARY_POS(d, j) = BOUNDARY_POS(c, k)
              /\ BOUNDARY_VALUE(d, j) = BOUNDARY_VALUE(c, k)
  <2>1. CASE j < s
    <3>1. j \in 1 .. s - 1 /\ j \in 1 .. len
      BY <1>1, <2>1
    <3>. QED BY <2>1, <3>1 DEF BoundariesGone
  <2>2. CASE ~(j < s)
    <3>. DEFINE k == j + n
    <3>1. k \in e .. len /\ k - n = j /\ k \in 1 .. len /\ k >= e
      BY <1>1, <2>2
    <3>. HIDE DEF k
    <3>2. BOUNDARY_POS(d, k - (e - s)) = BOUNDARY_POS(c, k)
          /\ BOUNDARY_VALUE(d, k - (e - s)) = BOUNDARY_VALUE(c, k)
      BY <3>1 DEF BoundariesGone
    <3>3. BOUNDARY_POS(d, j) = BOUNDARY_POS(c, k) /\ BOUNDARY_VALUE(d, j) = BOUNDARY_VALUE(c, k)
      BY <3>1, <3>2
    <3>. QED BY <2>2, <3>1, <3>3 DEF k
  <2>. QED BY <2>1, <2>2
<1>. QED BY <1>1, <1>2, <1>3

LEMMA GoneKept ==
  ASSUME NEW c, WellKept(c), NEW d, Array(d), NEW s \in 2 .. cache_len(c) + 1,
         NEW e \in s .. cache_len(c) + 1, BoundariesGone(c, d, s, e)
  PROVE  WellKept(d)
<1>. DEFINE K(j) == IF j < s THEN j ELSE j + (e - s)
<1>0. Array(c)
  BY DEF WellKept
<1>1. /\ cache_len(d) \in Nat /\ cache_len(d) >= 1
      /\ \A j \in 1 .. cache_len(d) : K(j) \in 1 .. cache_len(c)
                                      /\ BOUNDARY_POS(d, j) = BOUNDARY_POS(c, K(j))
  BY <1>0, GoneIndex
<1>2. /\ cache_len(c) \in Nat /\ s \in Int /\ e \in Int /\ s <= e /\ d.buffer_end = c.buffer_end
      /\ s >= 2
  BY KeptParts DEF BoundariesGone, SameNumbers
<1>3. \A i, j \in 1 .. cache_len(d) : i < j => K(i) < K(j)
  BY <1>1, <1>2
<1>4. 1 \in 1 .. cache_len(d) /\ K(1) = 1
  BY <1>1, <1>2
<1>. HIDE DEF K
<1>5. BOUNDARY_POS(d, 1) = BOUNDARY_POS(c, 1)
  BY <1>1, <1>4
<1>. QED BY <1>1, <1>2, <1>3, <1>5 DEF WellKept

LEMMA GoneRules ==
  ASSUME NEW c, Array(c), NEW d, NEW s \in 2 .. cache_len(c) + 1, NEW e \in s .. cache_len(c) + 1,
         BoundariesGone(c, d, s, e), NEW p \in Int, NEW i, Rules(c, p, i)
  PROVE  /\ i < s => Rules(d, p, i) /\ BOUNDARY_VALUE(d, i) = BOUNDARY_VALUE(c, i)
         /\ i >= e => /\ Rules(d, p, i - (e - s))
                      /\ BOUNDARY_VALUE(d, i - (e - s)) = BOUNDARY_VALUE(c, i)
<1>. DEFINE K(j) == IF j < s THEN j ELSE j + (e - s)
<1>1. /\ cache_len(d) = cache_len(c) - (e - s) /\ cache_len(d) \in Nat
      /\ \A j \in 1 .. cache_len(d) : /\ K(j) \in 1 .. cache_len(c)
                                      /\ BOUNDARY_POS(d, j) = BOUNDARY_POS(c, K(j))
                                      /\ BOUNDARY_VALUE(d, j) = BOUNDARY_VALUE(c, K(j))
  BY GoneIndex
<1>2. /\ cache_len(c) \in Nat /\ s \in Int /\ e \in Int /\ s <= e /\ s >= 2
      /\ i \in 1 .. cache_len(c)
  BY ArrayParts DEF Rules
<1>3. ASSUME NEW k \in 1 .. cache_len(d), K(k) = i
      PROVE  Rules(d, p, k) /\ BOUNDARY_VALUE(d, k) = BOUNDARY_VALUE(c, i)
  <2>1. \A j \in 1 .. cache_len(d) : k < j => K(k) < K(j)
    BY <1>1, <1>2
  <2>. HIDE DEF K
  <2>. QED BY <1>1, <1>3, <2>1 DEF Rules
<1>4. i < s => i \in 1 .. cache_len(d) /\ K(i) = i
  BY <1>1, <1>2
<1>5. i >= e => i - (e - s) \in 1 .. cache_len(d) /\ K(i - (e - s)) = i
  BY <1>1, <1>2
<1>. HIDE DEF K
<1>6. i < s => Rules(d, p, i) /\ BOUNDARY_VALUE(d, i) = BOUNDARY_VALUE(c, i)
  BY <1>3, <1>4
<1>7. i >= e => /\ Rules(d, p, i - (e - s))
                /\ BOUNDARY_VALUE(d, i - (e - s)) = BOUNDARY_VALUE(c, i)
  BY <1>3, <1>5
<1>. QED BY <1>6, <1>7

(* Boundaries that can go, and one after them that rules P *)
RulesAfter(c, s, e, p, i) ==
  /\ s \in 2 .. cache_len(c) + 1 /\ e \in s .. cache_len(c) + 1
  /\ Rules(c, p, i) /\ p \in Int /\ i >= e

LEMMA GoneAfter ==
  ASSUME NEW c, Array(c), NEW d, NEW s, NEW e, NEW p, NEW i, BoundariesGone(c, d, s, e),
         RulesAfter(c, s, e, p, i)
  PROVE  \E l : Rules(d, p, l) /\ BOUNDARY_VALUE(d, l) = BOUNDARY_VALUE(c, i)
<1>1. Rules(d, p, i - (e - s)) /\ BOUNDARY_VALUE(d, i - (e - s)) = BOUNDARY_VALUE(c, i)
  BY GoneRules DEF RulesAfter
<1>. QED BY <1>1

(* Boundaries that can go, and one before them that rules P *)
RulesBefore(c, s, e, p, i) ==
  /\ s \in 2 .. cache_len(c) + 1 /\ e \in s .. cache_len(c) + 1
  /\ Rules(c, p, i) /\ p \in Int /\ i < s

LEMMA GoneBefore ==
  ASSUME NEW c, Array(c), NEW d, NEW s, NEW e, NEW p, NEW i, BoundariesGone(c, d, s, e),
         RulesBefore(c, s, e, p, i)
  PROVE  Rules(d, p, i) /\ BOUNDARY_VALUE(d, i) = BOUNDARY_VALUE(c, i)
  BY GoneRules DEF RulesBefore

(* What a new boundary leaves *)
LEMMA AddedIndex ==
  ASSUME NEW c, Array(c), NEW d, NEW i \in 2 .. cache_len(c) + 1, NEW pos, NEW value,
         BoundaryAdded(c, d, i, pos, value)
  PROVE  /\ cache_len(d) = cache_len(c) + 1 /\ cache_len(d) \in Nat
         /\ \A j \in 1 .. cache_len(d) :
              LET k == IF j < i THEN j ELSE j - 1 IN
              j # i => /\ k \in 1 .. cache_len(c)
                       /\ BOUNDARY_POS(d, j) = BOUNDARY_POS(c, k)
                       /\ BOUNDARY_VALUE(d, j) = BOUNDARY_VALUE(c, k)
<1>1. cache_len(c) \in Nat /\ cache_len(d) = cache_len(c) + 1 /\ i \in Int
  BY ArrayParts DEF BoundaryAdded
<1>2. ASSUME NEW j \in 1 .. cache_len(d), j # i
      PROVE  LET k == IF j < i THEN j ELSE j - 1 IN
              /\ k \in 1 .. cache_len(c)
              /\ BOUNDARY_POS(d, j) = BOUNDARY_POS(c, k)
              /\ BOUNDARY_VALUE(d, j) = BOUNDARY_VALUE(c, k)
  <2>1. CASE j < i
    <3>1. j \in 1 .. i - 1 /\ j \in 1 .. cache_len(c)
      BY <1>1, <2>1
    <3>. QED BY <2>1, <3>1 DEF BoundaryAdded
  <2>2. CASE ~(j < i)
    <3>. DEFINE k == j - 1
    <3>1. k \in i .. cache_len(c) /\ k + 1 = j /\ k \in 1 .. cache_len(c)
      BY <1>1, <1>2, <2>2
    <3>. HIDE DEF k
    <3>2. BOUNDARY_POS(d, k + 1) = BOUNDARY_POS(c, k) /\ BOUNDARY_VALUE(d, k + 1) = BOUNDARY_VALUE(c, k)
      BY <3>1 DEF BoundaryAdded
    <3>3. BOUNDARY_POS(d, j) = BOUNDARY_POS(c, k) /\ BOUNDARY_VALUE(d, j) = BOUNDARY_VALUE(c, k)
      BY <3>1, <3>2
    <3>. QED BY <2>2, <3>1, <3>3 DEF k
  <2>. QED BY <2>1, <2>2
<1>. QED BY <1>1, <1>2

LEMMA AddedKept ==
  ASSUME NEW c, WellKept(c), NEW d, Array(d), NEW i \in 2 .. cache_len(c) + 1,
         NEW pos \in Int, NEW value, BoundaryAdded(c, d, i, pos, value),
         BOUNDARY_POS(c, i - 1) < pos, pos <= c.buffer_end,
         i \in 1 .. cache_len(c) => pos < BOUNDARY_POS(c, i)
  PROVE  WellKept(d)
<1>. DEFINE K(j) == IF j < i THEN j ELSE j - 1
<1>0. Array(c)
  BY DEF WellKept
<1>1. /\ cache_len(d) = cache_len(c) + 1 /\ cache_len(d) \in Nat
      /\ \A j \in 1 .. cache_len(d) : j # i => /\ K(j) \in 1 .. cache_len(c)
                                               /\ BOUNDARY_POS(d, j) = BOUNDARY_POS(c, K(j))
  BY <1>0, AddedIndex
<1>2. /\ cache_len(c) \in Nat /\ i \in Int /\ i >= 2 /\ i <= cache_len(c) + 1
      /\ d.buffer_end = c.buffer_end /\ c.buffer_end \in Int /\ BOUNDARY_POS(d, i) = pos
      /\ \A k \in 1 .. cache_len(c) : BOUNDARY_POS(c, k) \in Int
      /\ \A k, j \in 1 .. cache_len(c) : k < j => BOUNDARY_POS(c, k) < BOUNDARY_POS(c, j)
      /\ \A k \in 1 .. cache_len(c) : BOUNDARY_POS(c, k) <= c.buffer_end
  BY KeptParts DEF BoundaryAdded, SameNumbers
<1>3. ASSUME NEW k \in 1 .. cache_len(c)
      PROVE  /\ k < i => BOUNDARY_POS(c, k) < pos
             /\ k >= i => pos < BOUNDARY_POS(c, k)
  <2>1. CASE k < i
    <3>1. i - 1 \in 1 .. cache_len(c) /\ (k = i - 1 \/ k < i - 1)
      BY <1>2, <2>1
    <3>2. BOUNDARY_POS(c, i - 1) \in Int /\ BOUNDARY_POS(c, k) \in Int
          /\ (k < i - 1 => BOUNDARY_POS(c, k) < BOUNDARY_POS(c, i - 1))
      BY <1>2, <3>1
    <3>3. BOUNDARY_POS(c, k) < pos
      BY <3>1, <3>2
    <3>. QED BY <1>2, <2>1, <3>3
  <2>2. CASE ~(k < i)
    <3>1. i \in 1 .. cache_len(c) /\ (k = i \/ i < k)
      BY <1>2, <2>2
    <3>2. BOUNDARY_POS(c, i) \in Int /\ BOUNDARY_POS(c, k) \in Int /\ pos < BOUNDARY_POS(c, i)
          /\ (i < k => BOUNDARY_POS(c, i) < BOUNDARY_POS(c, k))
      BY <1>2, <3>1
    <3>3. pos < BOUNDARY_POS(c, k)
      BY <3>1, <3>2
    <3>. QED BY <2>2, <3>3
  <2>. QED BY <2>1, <2>2
<1>4. ASSUME NEW x \in 1 .. cache_len(d), NEW y \in 1 .. cache_len(d), x < y
      PROVE  BOUNDARY_POS(d, x) < BOUNDARY_POS(d, y)
  <2>1. CASE x # i /\ y # i
    <3>1. K(x) < K(y)
      BY <1>1, <1>2, <1>4, <2>1
    <3>. HIDE DEF K
    <3>. QED BY <1>1, <1>2, <2>1, <3>1
  <2>2. CASE x = i /\ y # i
    <3>1. K(y) \in 1 .. cache_len(c) /\ K(y) >= i /\ BOUNDARY_POS(d, y) = BOUNDARY_POS(c, K(y))
      BY <1>1, <1>2, <1>4, <2>2
    <3>. HIDE DEF K
    <3>. QED BY <1>2, <1>3, <2>2, <3>1
  <2>3. CASE x # i /\ y = i
    <3>1. K(x) \in 1 .. cache_len(c) /\ K(x) < i /\ BOUNDARY_POS(d, x) = BOUNDARY_POS(c, K(x))
      BY <1>1, <1>2, <1>4, <2>3
    <3>. HIDE DEF K
    <3>. QED BY <1>2, <1>3, <2>3, <3>1
  <2>. QED BY <1>2, <1>4, <2>1, <2>2, <2>3
<1>5. \A x \in 1 .. cache_len(d) : BOUNDARY_POS(d, x) <= d.buffer_end
  <2>. HIDE DEF K
  <2>. QED BY <1>1, <1>2
<1>6. BOUNDARY_POS(d, 1) = BOUNDARY_POS(c, 1)
  <2>1. 1 \in 1 .. cache_len(d) /\ 1 # i /\ K(1) = 1
    BY <1>1, <1>2
  <2>. HIDE DEF K
  <2>. QED BY <1>1, <2>1
<1>. QED BY <1>2, <1>4, <1>5, <1>6 DEF WellKept

LEMMA AddedRules ==
  ASSUME NEW c, Array(c), NEW d, NEW i \in 2 .. cache_len(c) + 1, NEW pos \in Int, NEW value,
         BoundaryAdded(c, d, i, pos, value), NEW p \in Int, NEW k, Rules(c, p, k)
  PROVE  /\ k < i /\ p < pos => Rules(d, p, k) /\ BOUNDARY_VALUE(d, k) = BOUNDARY_VALUE(c, k)
         /\ k >= i => Rules(d, p, k + 1) /\ BOUNDARY_VALUE(d, k + 1) = BOUNDARY_VALUE(c, k)
         /\ k = i - 1 /\ pos <= p => Rules(d, p, i) /\ BOUNDARY_VALUE(d, i) = value
<1>. DEFINE K(j) == IF j < i THEN j ELSE j - 1
<1>1. /\ cache_len(d) = cache_len(c) + 1 /\ cache_len(d) \in Nat
      /\ \A j \in 1 .. cache_len(d) : j # i => /\ K(j) \in 1 .. cache_len(c)
                                               /\ BOUNDARY_POS(d, j) = BOUNDARY_POS(c, K(j))
                                               /\ BOUNDARY_VALUE(d, j) = BOUNDARY_VALUE(c, K(j))
  BY AddedIndex
<1>2. /\ cache_len(c) \in Nat /\ i \in Int /\ i >= 2 /\ i <= cache_len(c) + 1
      /\ BOUNDARY_POS(d, i) = pos /\ BOUNDARY_VALUE(d, i) = value
      /\ k \in 1 .. cache_len(c) /\ k \in Int
  BY ArrayParts DEF Rules, BoundaryAdded
<1>3. ASSUME NEW x \in 1 .. cache_len(d), x # i, K(x) = k, i < x \/ p < pos
      PROVE  Rules(d, p, x) /\ BOUNDARY_VALUE(d, x) = BOUNDARY_VALUE(c, k)
  <2>1. \A j \in 1 .. cache_len(d) : x < j /\ j # i => k < K(j)
    BY <1>1, <1>2, <1>3
  <2>2. \A j \in 1 .. cache_len(d) : x < j => p < BOUNDARY_POS(d, j)
    <3>. TAKE j \in 1 .. cache_len(d)
    <3>1. CASE j = i
      BY <1>1, <1>2, <1>3, <3>1
    <3>2. CASE j # i
      <4>. HIDE DEF K
      <4>. QED BY <1>1, <2>1, <3>2 DEF Rules
    <3>. QED BY <3>1, <3>2
  <2>. HIDE DEF K
  <2>. QED BY <1>1, <1>3, <2>2 DEF Rules
<1>4. ASSUME k = i - 1, pos <= p
      PROVE  Rules(d, p, i) /\ BOUNDARY_VALUE(d, i) = value
  <2>1. i \in 1 .. cache_len(d) /\ \A j \in 1 .. cache_len(d) : i < j => j # i /\ k < K(j)
    BY <1>1, <1>2, <1>4
  <2>. HIDE DEF K
  <2>. QED BY <1>1, <1>2, <1>4, <2>1 DEF Rules
<1>5. k < i => k \in 1 .. cache_len(d) /\ k # i /\ K(k) = k
  BY <1>1, <1>2
<1>6. k >= i => k + 1 \in 1 .. cache_len(d) /\ k + 1 # i /\ K(k + 1) = k /\ i < k + 1
  BY <1>1, <1>2
<1>. HIDE DEF K
<1>7. k < i /\ p < pos => Rules(d, p, k) /\ BOUNDARY_VALUE(d, k) = BOUNDARY_VALUE(c, k)
  BY <1>3, <1>5
<1>8. k >= i => Rules(d, p, k + 1) /\ BOUNDARY_VALUE(d, k + 1) = BOUNDARY_VALUE(c, k)
  BY <1>3, <1>6
<1>. QED BY <1>4, <1>7, <1>8

(* A changed value *)
LEMMA SetKept ==
  ASSUME NEW c, WellKept(c), NEW d, Array(d), NEW i, NEW value, ValueSet(c, d, i, value)
  PROVE  WellKept(d) /\ \A p \in Int : \A k : Rules(c, p, k) => Rules(d, p, k)
<1>1. cache_len(c) \in Nat /\ 1 \in 1 .. cache_len(c)
  BY KeptParts
<1>2. WellKept(d)
  BY <1>1 DEF WellKept, ValueSet, SameNumbers
<1>3. \A p \in Int : \A k : Rules(c, p, k) => Rules(d, p, k)
  BY DEF Rules, ValueSet
<1>. QED BY <1>2, <1>3

-------------------------------------------------------------------------------
(* A region cut free of the boundaries in it                                 *)

LEMMA Ruled ==
  ASSUME NEW c, WellKept(c), NEW p \in Int, 1 <= p
  PROVE  \E i \in 1 .. cache_len(c) : Rules(c, p, i) /\ ValueAt(c, p) = BOUNDARY_VALUE(c, i)
<1>1. BOUNDARY_POS(c, 1) <= p /\ Array(c)
  BY KeptParts
<1>2. Rules(c, p, find_cache_boundary(c, p))
  BY <1>1, RulerFound
<1>. QED BY <1>2 DEF ValueAt, Rules

LEMMA RulerTells ==
  ASSUME NEW c, WellKept(c), NEW p \in Int, 1 <= p, NEW i, Rules(c, p, i)
  PROVE  ValueAt(c, p) = BOUNDARY_VALUE(c, i)
<1>1. BOUNDARY_POS(c, 1) <= p /\ Array(c)
  BY KeptParts
<1>. QED BY <1>1, RulerIs

(* The boundaries gone leave their text to the one before them *)
LEMMA GoneMiddle ==
  ASSUME NEW c, WellKept(c), NEW d, NEW s \in 2 .. cache_len(c) + 1, NEW e \in s .. cache_len(c) + 1,
         BoundariesGone(c, d, s, e), NEW p \in Int, NEW i, Rules(c, p, i), s <= i, i < e
  PROVE  Rules(d, p, s - 1) /\ BOUNDARY_VALUE(d, s - 1) = BOUNDARY_VALUE(c, s - 1)
<1>. DEFINE K(j) == IF j < s THEN j ELSE j + (e - s)
<1>0. Array(c)
  BY DEF WellKept
<1>1. /\ cache_len(d) = cache_len(c) - (e - s) /\ cache_len(d) \in Nat
      /\ \A j \in 1 .. cache_len(d) : /\ K(j) \in 1 .. cache_len(c)
                                      /\ BOUNDARY_POS(d, j) = BOUNDARY_POS(c, K(j))
                                      /\ BOUNDARY_VALUE(d, j) = BOUNDARY_VALUE(c, K(j))
  BY <1>0, GoneIndex
<1>2. /\ cache_len(c) \in Nat /\ s \in Int /\ e \in Int /\ s <= e /\ s >= 2
      /\ i \in 1 .. cache_len(c) /\ e <= cache_len(c) + 1
  BY KeptParts DEF Rules
<1>3. /\ s - 1 \in 1 .. cache_len(d) /\ K(s - 1) = s - 1 /\ s - 1 \in 1 .. cache_len(c) /\ s - 1 < i
      /\ \A j \in 1 .. cache_len(d) : s - 1 < j => i < K(j)
  BY <1>1, <1>2
<1>. HIDE DEF K
<1>4. BOUNDARY_POS(c, s - 1) < BOUNDARY_POS(c, i) /\ BOUNDARY_POS(c, i) <= p
      /\ BOUNDARY_POS(c, s - 1) \in Int /\ BOUNDARY_POS(c, i) \in Int
  BY <1>2, <1>3, KeptParts DEF Rules
<1>5. BOUNDARY_POS(d, s - 1) <= p /\ BOUNDARY_VALUE(d, s - 1) = BOUNDARY_VALUE(c, s - 1)
  BY <1>1, <1>3, <1>4
<1>6. \A j \in 1 .. cache_len(d) : s - 1 < j => p < BOUNDARY_POS(d, j)
  BY <1>1, <1>3 DEF Rules
<1>. QED BY <1>3, <1>5, <1>6 DEF Rules

(* What the cache D still knows of C while a region of C is set: K is the  *)
(* last boundary before END, and what it follows END if none comes first   *)
Split(c, d, k, start, end, after) ==
  /\ WellKept(d) /\ SameNumbers(c, d)
  /\ k \in 1 .. cache_len(d) /\ BOUNDARY_POS(d, k) <= start
  /\ \A j \in 1 .. cache_len(d) : k < j => end <= BOUNDARY_POS(d, j)
  /\ \A p \in BEG .. (start - 1) : ValueAt(d, p) = ValueAt(c, p)
  /\ \A p \in end .. (c.buffer_end - 1) : \A i :
       Rules(d, p, i) => ValueAt(c, p) = IF i <= k THEN after ELSE BOUNDARY_VALUE(d, i)

LEMMA RegionCut ==
  ASSUME NEW c, WellKept(c), NEW start \in Int, NEW end \in Int, BEG <= start, start < end
  PROVE  LET x == find_cache_boundary(c, start)
             y == find_cache_boundary(c, end - 1)
         IN Split(c, delete_cache_boundaries(c, x + 1, y + 1), x, start, end, BOUNDARY_VALUE(c, y))
            /\ BOUNDARY_VALUE(c, y) \in {0, 1}
<1>. DEFINE x == find_cache_boundary(c, start)
            y == find_cache_boundary(c, end - 1)
            s == x + 1
            e == y + 1
            d == delete_cache_boundaries(c, s, e)
<1>1. Array(c) /\ cache_len(c) \in Nat /\ BOUNDARY_POS(c, 1) = 1 /\ 1 <= start
      /\ \A i \in 1 .. cache_len(c) : BOUNDARY_POS(c, i) \in Int /\ BOUNDARY_VALUE(c, i) \in {0, 1}
  BY KeptParts DEF BEG
<1>2. Rules(c, start, x) /\ Rules(c, end - 1, y)
  BY <1>1, RulerFound
<1>. HIDE DEF x, y
<1>3. x \in 1 .. cache_len(c) /\ y \in 1 .. cache_len(c) /\ BOUNDARY_POS(c, x) <= start
      /\ (\A j \in 1 .. cache_len(c) : y < j => end - 1 < BOUNDARY_POS(c, j))
      /\ (\A j \in 1 .. cache_len(c) : x < j => start < BOUNDARY_POS(c, j))
  BY <1>2 DEF Rules
<1>4. x <= y
  <2>. SUFFICES ASSUME y < x PROVE FALSE
    BY <1>1, <1>3
  <2>. QED BY <1>1, <1>3
<1>5. s \in 2 .. cache_len(c) + 1 /\ e \in s .. cache_len(c) + 1
  BY <1>1, <1>3, <1>4
<1>6. Array(d) /\ BoundariesGone(c, d, s, e)
  BY <1>1, <1>5, Gone
<1>. HIDE DEF d
<1>7. WellKept(d)
  BY <1>5, <1>6, GoneKept
<1>8. SameNumbers(c, d) /\ cache_len(d) = cache_len(c) - (y - x) /\ cache_len(d) \in Nat
  BY <1>1, <1>3, <1>4, <1>6 DEF BoundariesGone
<1>9. x \in 1 .. cache_len(d) /\ BOUNDARY_POS(d, x) = BOUNDARY_POS(c, x)
  BY <1>1, <1>3, <1>4, <1>6, <1>8 DEF BoundariesGone
<1>10. ASSUME NEW j \in 1 .. cache_len(d), x < j
       PROVE  end <= BOUNDARY_POS(d, j)
  <2>. DEFINE k == j + (e - s)
  <2>1. k \in 1 .. cache_len(c) /\ k >= e /\ BOUNDARY_POS(d, j) = BOUNDARY_POS(c, k)
    BY <1>1, <1>3, <1>5, <1>6, <1>10, GoneIndex
  <2>. HIDE DEF k
  <2>2. y < k
    BY <1>3, <2>1
  <2>. QED BY <1>1, <1>3, <2>1, <2>2
<1>11. ASSUME NEW p \in BEG .. (start - 1)
       PROVE  ValueAt(d, p) = ValueAt(c, p)
  <2>1. p \in Int /\ 1 <= p /\ p < start
    BY DEF BEG
  <2>2. PICK i \in 1 .. cache_len(c) : Rules(c, p, i) /\ ValueAt(c, p) = BOUNDARY_VALUE(c, i)
    BY <2>1, Ruled
  <2>3. ~(x < i)
    BY <1>1, <1>3, <2>1, <2>2 DEF Rules
  <2>4. i < s
    BY <1>1, <1>3, <2>3
  <2>5. Rules(d, p, i) /\ BOUNDARY_VALUE(d, i) = BOUNDARY_VALUE(c, i)
    BY <1>1, <1>5, <1>6, <2>1, <2>2, <2>4, GoneRules
  <2>. QED BY <1>7, <2>1, <2>2, <2>5, RulerTells
<1>12. ASSUME NEW p \in end .. (c.buffer_end - 1), NEW i, Rules(d, p, i)
       PROVE  ValueAt(c, p) = IF i <= x THEN BOUNDARY_VALUE(c, y) ELSE BOUNDARY_VALUE(d, i)
  <2>1. p \in Int /\ 1 <= p /\ end <= p
    BY <1>1
  <2>2. PICK l \in 1 .. cache_len(c) : Rules(c, p, l) /\ ValueAt(c, p) = BOUNDARY_VALUE(c, l)
    BY <2>1, Ruled
  <2>3. ~(l < y)
    <3>1. BOUNDARY_POS(c, y) <= end - 1 /\ BOUNDARY_POS(c, y) \in Int
      BY <1>1, <1>2, <1>3 DEF Rules
    <3>. QED BY <1>3, <2>1, <2>2, <3>1 DEF Rules
  <2>4. i \in 1 .. cache_len(d)
    BY <1>12 DEF Rules
  <2>5. CASE l = y
    <3>1. Rules(d, p, x)
      <4>1. CASE x = y
        <5>1. l < s
          BY <1>3, <2>5, <4>1
        <5>. QED BY <1>1, <1>5, <1>6, <2>1, <2>2, <2>5, <4>1, <5>1, GoneRules
      <4>2. CASE x # y
        <5>1. s <= l /\ l < e /\ s - 1 = x
          BY <1>1, <1>3, <1>4, <2>5, <4>2
        <5>2. Rules(d, p, s - 1)
          BY <1>5, <1>6, <2>1, <2>2, <5>1, GoneMiddle
        <5>. QED BY <5>1, <5>2
      <4>. QED BY <4>1, <4>2
    <3>2. i = x
      BY <1>6, <1>12, <2>1, <3>1, OneRules
    <3>. QED BY <1>3, <2>2, <2>5, <3>2
  <2>6. CASE l # y
    <3>1. l >= e /\ l - (e - s) > x
      BY <1>1, <1>3, <2>2, <2>3, <2>6
    <3>2. Rules(d, p, l - (e - s)) /\ BOUNDARY_VALUE(d, l - (e - s)) = BOUNDARY_VALUE(c, l)
      BY <1>1, <1>5, <1>6, <2>1, <2>2, <3>1, GoneRules
    <3>3. i = l - (e - s)
      BY <1>6, <1>12, <2>1, <3>2, OneRules
    <3>4. ~(i <= x)
      BY <1>3, <2>4, <3>1, <3>3
    <3>. QED BY <2>2, <3>2, <3>3, <3>4
  <2>. QED BY <2>5, <2>6
<1>13. Split(c, d, x, start, end, BOUNDARY_VALUE(c, y))
  BY <1>3, <1>7, <1>8, <1>9, <1>10, <1>11, <1>12 DEF Split
<1>14. BOUNDARY_VALUE(c, y) \in {0, 1}
  BY <1>1, <1>3
<1>. QED BY <1>13, <1>14 DEF d, s, e, x, y

-------------------------------------------------------------------------------
(* The boundary at the start of a region                                     *)

LEMMA SplitParts ==
  ASSUME NEW c, WellKept(c), NEW d, NEW k, NEW start \in Int, NEW end \in Int, NEW after,
         BEG <= start, start < end, Split(c, d, k, start, end, after)
  PROVE  /\ Array(d) /\ WellKept(d) /\ cache_len(d) \in Nat /\ k \in 1 .. cache_len(d) /\ k \in Int
         /\ c.buffer_end \in Int /\ SameNumbers(c, d) /\ d.buffer_end = c.buffer_end /\ BEG = 1
         /\ BOUNDARY_POS(d, k) <= start
         /\ \A j \in 1 .. cache_len(d) : BOUNDARY_POS(d, j) \in Int /\ BOUNDARY_VALUE(d, j) \in {0, 1}
         /\ \A j \in 1 .. cache_len(d) : k < j => end <= BOUNDARY_POS(d, j)
         /\ \A p \in BEG .. (start - 1) : ValueAt(d, p) = ValueAt(c, p)
         /\ \A p \in end .. (c.buffer_end - 1) : \A i :
              Rules(d, p, i) => ValueAt(c, p) = IF i <= k THEN after ELSE BOUNDARY_VALUE(d, i)
<1>1. WellKept(d) /\ Array(d) /\ SameNumbers(c, d)
  BY KeptParts DEF Split
<1>2. /\ cache_len(d) \in Nat /\ c.buffer_end \in Int /\ d.buffer_end = c.buffer_end
      /\ \A j \in 1 .. cache_len(d) : BOUNDARY_POS(d, j) \in Int /\ BOUNDARY_VALUE(d, j) \in {0, 1}
  BY <1>1, KeptParts DEF SameNumbers
<1>. QED BY <1>1, <1>2 DEF Split, BEG

(* Which boundary rules P, by the side of the region P is on *)
LEMMA SplitRulers ==
  ASSUME NEW c, WellKept(c), NEW d, NEW k, NEW start \in Int, NEW end \in Int, NEW after,
         BEG <= start, start < end, Split(c, d, k, start, end, after),
         NEW p \in Int, BEG <= p
  PROVE  \E i \in 1 .. cache_len(d) :
            /\ Rules(d, p, i) /\ ValueAt(d, p) = BOUNDARY_VALUE(d, i)
            /\ p < end => i <= k
            /\ p < BOUNDARY_POS(d, k) => i < k
            /\ start <= p => i >= k
            /\ end <= p /\ p < c.buffer_end =>
                 ValueAt(c, p) = IF i <= k THEN after ELSE BOUNDARY_VALUE(d, i)
<1>1. /\ WellKept(d) /\ cache_len(d) \in Nat /\ k \in 1 .. cache_len(d) /\ c.buffer_end \in Int
      /\ BOUNDARY_POS(d, k) <= start
      /\ \A j \in 1 .. cache_len(d) : BOUNDARY_POS(d, j) \in Int
      /\ \A j \in 1 .. cache_len(d) : k < j => end <= BOUNDARY_POS(d, j)
      /\ \A q \in end .. (c.buffer_end - 1) : \A i :
           Rules(d, q, i) => ValueAt(c, q) = IF i <= k THEN after ELSE BOUNDARY_VALUE(d, i)
  BY SplitParts
<1>2. 1 <= p
  BY DEF BEG
<1>3. PICK i \in 1 .. cache_len(d) : Rules(d, p, i) /\ ValueAt(d, p) = BOUNDARY_VALUE(d, i)
  BY <1>1, <1>2, Ruled
<1>4. BOUNDARY_POS(d, i) <= p /\ BOUNDARY_POS(d, i) \in Int /\ BOUNDARY_POS(d, k) \in Int
      /\ (i < k => p < BOUNDARY_POS(d, k)) /\ i \in Int /\ k \in Int
  BY <1>1, <1>3 DEF Rules
<1>5. p < end => i <= k
  <2>. SUFFICES ASSUME p < end, ~(i <= k) PROVE FALSE
    OBVIOUS
  <2>1. end <= BOUNDARY_POS(d, i)
    BY <1>1, <1>3, <1>4
  <2>. QED BY <1>4, <2>1
<1>6. start <= p => i >= k
  BY <1>1, <1>4
<1>7. p < BOUNDARY_POS(d, k) => i < k
  <2>. SUFFICES ASSUME p < BOUNDARY_POS(d, k), ~(i < k) PROVE FALSE
    OBVIOUS
  <2>1. i # k
    BY <1>4
  <2>2. end <= BOUNDARY_POS(d, i)
    BY <1>1, <1>3, <1>4, <2>1
  <2>. QED BY <1>1, <1>4, <2>2
<1>8. end <= p /\ p < c.buffer_end => p \in end .. (c.buffer_end - 1)
  BY <1>1
<1>. QED BY <1>1, <1>3, <1>5, <1>6, <1>7, <1>8

LEMMA StartDrops ==
  ASSUME NEW c, WellKept(c), NEW d, NEW x, NEW start \in Int, NEW end \in Int, NEW after,
         BEG <= start, start < end, end <= c.buffer_end, Split(c, d, x, start, end, after),
         BOUNDARY_POS(d, x) = start, x > 1
  PROVE  Split(c, delete_cache_boundaries(d, x, x + 1), x - 1, start, end, after)
         /\ BOUNDARY_VALUE(delete_cache_boundaries(d, x, x + 1), x - 1) = BOUNDARY_VALUE(d, x - 1)
<1>. DEFINE e == delete_cache_boundaries(d, x, x + 1)
            k == x - 1
<1>1. /\ Array(d) /\ WellKept(d) /\ cache_len(d) \in Nat /\ x \in 1 .. cache_len(d) /\ x \in Int
      /\ c.buffer_end \in Int /\ SameNumbers(c, d) /\ BEG = 1
      /\ \A j \in 1 .. cache_len(d) : BOUNDARY_POS(d, j) \in Int /\ BOUNDARY_VALUE(d, j) \in {0, 1}
      /\ \A j \in 1 .. cache_len(d) : x < j => end <= BOUNDARY_POS(d, j)
      /\ \A p \in BEG .. (start - 1) : ValueAt(d, p) = ValueAt(c, p)
  BY SplitParts
<1>2. x \in 2 .. cache_len(d) + 1 /\ x + 1 \in x .. cache_len(d) + 1 /\ (x + 1) - x = 1
  BY <1>1
<1>3. Array(e) /\ BoundariesGone(d, e, x, x + 1)
  BY <1>1, <1>2, Gone
<1>. HIDE DEF e
<1>4. WellKept(e)
  BY <1>1, <1>2, <1>3, GoneKept
<1>5. /\ SameNumbers(c, e) /\ cache_len(e) = cache_len(d) - 1 /\ cache_len(e) \in Nat
      /\ k \in 1 .. cache_len(e) /\ k \in 1 .. cache_len(d) /\ k < x /\ k \in Int /\ k + 1 = x
  BY <1>1, <1>2, <1>3 DEF BoundariesGone, SameNumbers
<1>6. BOUNDARY_POS(e, k) = BOUNDARY_POS(d, k) /\ BOUNDARY_VALUE(e, k) = BOUNDARY_VALUE(d, k)
  BY <1>1, <1>3, <1>5 DEF BoundariesGone
<1>7. BOUNDARY_POS(d, k) <= start
  <2>1. BOUNDARY_POS(d, k) < BOUNDARY_POS(d, x)
    BY <1>1, <1>5, KeptParts
  <2>. QED BY <1>1, <1>5, <2>1
<1>8. ASSUME NEW j \in 1 .. cache_len(e), k < j
      PROVE  end <= BOUNDARY_POS(e, j)
  <2>1. j + 1 \in 1 .. cache_len(d) /\ x < j + 1 /\ ~(j < x)
    BY <1>1, <1>5, <1>8
  <2>2. BOUNDARY_POS(e, j) = BOUNDARY_POS(d, j + 1)
    BY <1>1, <1>2, <1>3, <2>1, GoneIndex
  <2>. QED BY <1>1, <2>1, <2>2
<1>9. ASSUME NEW p \in BEG .. (start - 1)
      PROVE  ValueAt(e, p) = ValueAt(c, p)
  <2>1. p \in Int /\ 1 <= p /\ p < start /\ BEG <= p
    BY <1>1
  <2>2. PICK i \in 1 .. cache_len(d) : Rules(d, p, i) /\ ValueAt(d, p) = BOUNDARY_VALUE(d, i) /\ i < x
    BY <2>1, SplitRulers
  <2>. DEFINE m == x + 1
  <2>3. Array(d) /\ BoundariesGone(d, e, x, m) /\ RulesBefore(d, x, m, p, i)
    BY <1>1, <1>2, <1>3, <2>1, <2>2 DEF RulesBefore
  <2>. HIDE DEF m
  <2>5. Rules(e, p, i) /\ BOUNDARY_VALUE(e, i) = BOUNDARY_VALUE(d, i)
    BY <2>3, GoneBefore
  <2>4. ValueAt(e, p) = ValueAt(d, p)
    BY <1>4, <2>1, <2>2, <2>5, RulerTells
  <2>. QED BY <1>1, <2>4
<1>10. ASSUME NEW p \in end .. (c.buffer_end - 1), NEW i, Rules(e, p, i)
       PROVE  ValueAt(c, p) = IF i <= k THEN after ELSE BOUNDARY_VALUE(e, i)
  <2>1. p \in Int /\ 1 <= p /\ start <= p /\ BEG <= p /\ end <= p /\ p < c.buffer_end
    BY <1>1
  <2>2. PICK l \in 1 .. cache_len(d) :
          /\ Rules(d, p, l) /\ l >= x
          /\ ValueAt(c, p) = IF l <= x THEN after ELSE BOUNDARY_VALUE(d, l)
    BY <2>1, SplitRulers
  <2>3. CASE l = x
    <3>1. x <= l /\ l < x + 1
      BY <1>1, <2>3
    <3>2. Rules(e, p, k)
      BY <1>1, <1>2, <1>3, <2>1, <2>2, <3>1, GoneMiddle
    <3>3. i = k
      BY <1>3, <1>10, <2>1, <3>2, OneRules
    <3>. QED BY <1>1, <1>5, <2>2, <2>3, <3>3
  <2>4. CASE l # x
    <3>1. l >= x + 1 /\ l - ((x + 1) - x) = l - 1 /\ ~(l <= x) /\ ~(l - 1 <= k)
      BY <1>1, <1>5, <2>2, <2>4
    <3>2. Rules(e, p, l - 1) /\ BOUNDARY_VALUE(e, l - 1) = BOUNDARY_VALUE(d, l)
      BY <1>1, <1>2, <1>3, <2>1, <2>2, <3>1, GoneRules
    <3>3. i = l - 1
      BY <1>3, <1>10, <2>1, <3>2, OneRules
    <3>. QED BY <2>2, <3>1, <3>2, <3>3
  <2>. QED BY <2>3, <2>4
<1>11. Split(c, e, k, start, end, after)
  BY <1>4, <1>5, <1>6, <1>7, <1>8, <1>9, <1>10 DEF Split
<1>. QED BY <1>6, <1>11 DEF e

LEMMA StartSets ==
  ASSUME NEW c, WellKept(c), NEW d, NEW x, NEW start \in Int, NEW end \in Int, NEW after,
         BEG <= start, start < end, end <= c.buffer_end, Split(c, d, x, start, end, after),
         BOUNDARY_POS(d, x) = start, NEW value \in {0, 1}
  PROVE  LET e == SET_BOUNDARY_VALUE(d, x, value)
         IN  Split(c, e, x, start, end, after) /\ BOUNDARY_VALUE(e, x) = value
<1>. DEFINE e == SET_BOUNDARY_VALUE(d, x, value)
<1>1. /\ Array(d) /\ WellKept(d) /\ cache_len(d) \in Nat /\ x \in 1 .. cache_len(d) /\ x \in Int
      /\ c.buffer_end \in Int /\ SameNumbers(c, d) /\ BEG = 1
      /\ \A j \in 1 .. cache_len(d) : x < j => end <= BOUNDARY_POS(d, j)
      /\ \A p \in BEG .. (start - 1) : ValueAt(d, p) = ValueAt(c, p)
  BY SplitParts
<1>2. Array(e) /\ ValueSet(d, e, x, value)
  BY <1>1, SetValue
<1>. HIDE DEF e
<1>3. WellKept(e) /\ \A p \in Int : \A k : Rules(d, p, k) => Rules(e, p, k)
  BY <1>1, <1>2, SetKept
<1>4. SameNumbers(c, e) /\ cache_len(e) = cache_len(d) /\ BOUNDARY_VALUE(e, x) = value
  BY <1>1, <1>2 DEF ValueSet, SameNumbers
<1>5. \A j \in 1 .. cache_len(d) : /\ BOUNDARY_POS(e, j) = BOUNDARY_POS(d, j)
                                   /\ j # x => BOUNDARY_VALUE(e, j) = BOUNDARY_VALUE(d, j)
  BY <1>2 DEF ValueSet
<1>6. BOUNDARY_POS(e, x) <= start
  BY <1>1, <1>5
<1>7. ASSUME NEW p \in BEG .. (start - 1)
      PROVE  ValueAt(e, p) = ValueAt(c, p)
  <2>1. p \in Int /\ 1 <= p /\ p < start /\ BEG <= p
    BY <1>1
  <2>2. PICK i \in 1 .. cache_len(d) : Rules(d, p, i) /\ ValueAt(d, p) = BOUNDARY_VALUE(d, i) /\ i < x
    BY <2>1, SplitRulers
  <2>3. Rules(e, p, i) /\ BOUNDARY_VALUE(e, i) = BOUNDARY_VALUE(d, i)
    BY <1>1, <1>3, <1>5, <2>1, <2>2
  <2>4. ValueAt(e, p) = ValueAt(d, p)
    BY <1>3, <2>1, <2>2, <2>3, RulerTells
  <2>. QED BY <1>1, <2>4
<1>8. ASSUME NEW p \in end .. (c.buffer_end - 1), NEW i, Rules(e, p, i)
      PROVE  ValueAt(c, p) = IF i <= x THEN after ELSE BOUNDARY_VALUE(e, i)
  <2>1. p \in Int /\ 1 <= p /\ BEG <= p /\ end <= p /\ p < c.buffer_end
    BY <1>1
  <2>2. PICK l \in 1 .. cache_len(d) :
          /\ Rules(d, p, l)
          /\ ValueAt(c, p) = IF l <= x THEN after ELSE BOUNDARY_VALUE(d, l)
    BY <2>1, SplitRulers
  <2>3. i = l
    BY <1>2, <1>3, <1>8, <2>1, <2>2, OneRules
  <2>. QED BY <1>1, <1>5, <2>2, <2>3
<1>9. Split(c, e, x, start, end, after)
  BY <1>1, <1>3, <1>4, <1>5, <1>6, <1>7, <1>8 DEF Split
<1>. QED BY <1>4, <1>9 DEF e

LEMMA StartAdds ==
  ASSUME NEW c, WellKept(c), NEW d, NEW x, NEW start \in Int, NEW end \in Int, NEW after,
         BEG <= start, start < end, end <= c.buffer_end, Split(c, d, x, start, end, after),
         BOUNDARY_POS(d, x) # start, NEW value \in {0, 1}
  PROVE  LET e == insert_cache_boundary(d, x + 1, start, value)
         IN  Split(c, e, x + 1, start, end, after) /\ BOUNDARY_VALUE(e, x + 1) = value
<1>. DEFINE k == x + 1
            e == insert_cache_boundary(d, k, start, value)
<1>1. /\ Array(d) /\ WellKept(d) /\ cache_len(d) \in Nat /\ x \in 1 .. cache_len(d) /\ x \in Int
      /\ c.buffer_end \in Int /\ SameNumbers(c, d) /\ BEG = 1 /\ d.buffer_end = c.buffer_end
      /\ \A j \in 1 .. cache_len(d) : BOUNDARY_POS(d, j) \in Int
      /\ BOUNDARY_POS(d, x) <= start
      /\ \A j \in 1 .. cache_len(d) : x < j => end <= BOUNDARY_POS(d, j)
      /\ \A p \in BEG .. (start - 1) : ValueAt(d, p) = ValueAt(c, p)
  BY SplitParts
<1>2. k \in 2 .. cache_len(d) + 1 /\ k - 1 = x /\ x < k /\ k \in Int
  BY <1>1
<1>3. Array(e) /\ BoundaryAdded(d, e, k, start, value)
  BY <1>1, <1>2, Added
<1>. HIDE DEF e
<1>4. /\ BOUNDARY_POS(d, k - 1) < start /\ start <= d.buffer_end
      /\ k \in 1 .. cache_len(d) => start < BOUNDARY_POS(d, k)
  BY <1>1, <1>2
<1>5. WellKept(e)
  BY <1>1, <1>2, <1>3, <1>4, AddedKept
<1>6. /\ SameNumbers(c, e) /\ cache_len(e) = cache_len(d) + 1 /\ cache_len(e) \in Nat
      /\ k \in 1 .. cache_len(e) /\ BOUNDARY_POS(e, k) = start /\ BOUNDARY_VALUE(e, k) = value
  BY <1>1, <1>2, <1>3 DEF BoundaryAdded, SameNumbers
<1>7. ASSUME NEW j \in 1 .. cache_len(e), k < j
      PROVE  end <= BOUNDARY_POS(e, j)
  <2>1. j - 1 \in 1 .. cache_len(d) /\ x < j - 1 /\ ~(j < k) /\ j # k
    BY <1>1, <1>2, <1>6, <1>7
  <2>2. BOUNDARY_POS(e, j) = BOUNDARY_POS(d, j - 1)
    BY <1>1, <1>2, <1>3, <2>1, AddedIndex
  <2>. QED BY <1>1, <2>1, <2>2
<1>8. ASSUME NEW p \in BEG .. (start - 1)
      PROVE  ValueAt(e, p) = ValueAt(c, p)
  <2>1. p \in Int /\ 1 <= p /\ p < start /\ BEG <= p /\ p < end
    BY <1>1
  <2>2. PICK i \in 1 .. cache_len(d) : Rules(d, p, i) /\ ValueAt(d, p) = BOUNDARY_VALUE(d, i) /\ i <= x
    BY <2>1, SplitRulers
  <2>3. i < k
    BY <1>1, <1>2, <2>2
  <2>4. Rules(e, p, i) /\ BOUNDARY_VALUE(e, i) = BOUNDARY_VALUE(d, i)
    <3>1. /\ Array(d) /\ k \in 2 .. cache_len(d) + 1 /\ start \in Int /\ p \in Int
          /\ BoundaryAdded(d, e, k, start, value) /\ Rules(d, p, i) /\ i < k /\ p < start
      BY <1>1, <1>2, <1>3, <2>1, <2>2, <2>3
    <3>. HIDE DEF k
    <3>. QED BY <3>1, AddedRules
  <2>5. ValueAt(e, p) = ValueAt(d, p)
    BY <1>5, <2>1, <2>2, <2>4, RulerTells
  <2>. QED BY <1>1, <2>5
<1>9. ASSUME NEW p \in end .. (c.buffer_end - 1), NEW i, Rules(e, p, i)
      PROVE  ValueAt(c, p) = IF i <= k THEN after ELSE BOUNDARY_VALUE(e, i)
  <2>1. p \in Int /\ 1 <= p /\ start <= p /\ BEG <= p /\ end <= p /\ p < c.buffer_end
    BY <1>1
  <2>2. PICK l \in 1 .. cache_len(d) :
          /\ Rules(d, p, l) /\ l >= x
          /\ ValueAt(c, p) = IF l <= x THEN after ELSE BOUNDARY_VALUE(d, l)
    BY <2>1, SplitRulers
  <2>3. CASE l = x
    <3>1. Rules(e, p, k)
      BY <1>1, <1>2, <1>3, <2>1, <2>2, <2>3, AddedRules
    <3>2. i = k
      BY <1>3, <1>9, <2>1, <3>1, OneRules
    <3>. QED BY <1>1, <1>2, <2>2, <2>3, <3>2
  <2>4. CASE l # x
    <3>1. l >= k /\ ~(l <= x) /\ ~(l + 1 <= k)
      BY <1>1, <1>2, <2>2, <2>4
    <3>2. Rules(e, p, l + 1) /\ BOUNDARY_VALUE(e, l + 1) = BOUNDARY_VALUE(d, l)
      <4>1. /\ Array(d) /\ k \in 2 .. cache_len(d) + 1 /\ start \in Int /\ p \in Int
            /\ BoundaryAdded(d, e, k, start, value) /\ Rules(d, p, l) /\ l >= k
        BY <1>1, <1>2, <1>3, <2>1, <2>2, <3>1
      <4>. HIDE DEF k
      <4>. QED BY <4>1, AddedRules
    <3>3. i = l + 1
      BY <1>3, <1>9, <2>1, <3>2, OneRules
    <3>. QED BY <2>2, <3>1, <3>2, <3>3
  <2>. QED BY <2>3, <2>4
<1>10. BOUNDARY_POS(e, k) <= start
  BY <1>6
<1>11. Split(c, e, k, start, end, after)
  BY <1>5, <1>6, <1>7, <1>8, <1>9, <1>10 DEF Split
<1>. QED BY <1>6, <1>11 DEF e

(* What StartRegion leaves: the region cut free, with VALUE at its start     *)
Started(c, s, start, end, value, after) ==
  Split(c, s.cache, s.ix, start, end, after) /\ BOUNDARY_VALUE(s.cache, s.ix) = value

LEMMA StartSplit ==
  ASSUME NEW c, WellKept(c), NEW d, NEW x, NEW start \in Int, NEW end \in Int, NEW after,
         BEG <= start, start < end, end <= c.buffer_end, Split(c, d, x, start, end, after),
         NEW value \in {0, 1}
  PROVE  Started(c, StartRegion(d, x, start, value), start, end, value, after)
<1>1. CASE BOUNDARY_POS(d, x) = start /\ x > 1 /\ BOUNDARY_VALUE(d, x - 1) = value
  <2>1. StartRegion(d, x, start, value) = [cache |-> delete_cache_boundaries(d, x, x + 1), ix |-> x - 1]
    BY <1>1 DEF StartRegion
  <2>. QED BY <1>1, <2>1, StartDrops DEF Started
<1>2. CASE BOUNDARY_POS(d, x) = start /\ ~(x > 1 /\ BOUNDARY_VALUE(d, x - 1) = value)
  <2>1. StartRegion(d, x, start, value) = [cache |-> SET_BOUNDARY_VALUE(d, x, value), ix |-> x]
    BY <1>2 DEF StartRegion
  <2>. QED BY <1>2, <2>1, StartSets DEF Started
<1>3. CASE BOUNDARY_POS(d, x) # start /\ BOUNDARY_VALUE(d, x) # value
  <2>1. StartRegion(d, x, start, value)
          = [cache |-> insert_cache_boundary(d, x + 1, start, value), ix |-> x + 1]
    BY <1>3 DEF StartRegion
  <2>. QED BY <1>3, <2>1, StartAdds DEF Started
<1>4. CASE BOUNDARY_POS(d, x) # start /\ BOUNDARY_VALUE(d, x) = value
  <2>1. StartRegion(d, x, start, value) = [cache |-> d, ix |-> x]
    BY <1>4 DEF StartRegion
  <2>. QED BY <1>4, <2>1 DEF Started
<1>. QED BY <1>1, <1>2, <1>3, <1>4

-------------------------------------------------------------------------------
(* set_cache_region                                                          *)

(* The text from START up to END has VALUE, and the rest what it had *)
RegionSet(c, e, start, end, value) ==
  /\ WellKept(e) /\ SameNumbers(c, e)
  /\ \A p \in BEG .. (c.buffer_end - 1) :
       ValueAt(e, p) = IF start <= p /\ p < end THEN value ELSE ValueAt(c, p)
  /\ \A j \in 1 .. cache_len(e) : BOUNDARY_POS(e, j) <= start \/ end <= BOUNDARY_POS(e, j)

LEMMA EndSame ==
  ASSUME NEW c, WellKept(c), NEW d, NEW k, NEW start \in Int, NEW end \in Int, NEW after,
         BEG <= start, start < end, end <= c.buffer_end, Split(c, d, k, start, end, after),
         \A p \in end .. (c.buffer_end - 1) : Rules(d, p, k) => after = BOUNDARY_VALUE(d, k)
  PROVE  RegionSet(c, d, start, end, BOUNDARY_VALUE(d, k))
<1>1. /\ Array(d) /\ WellKept(d) /\ cache_len(d) \in Nat /\ k \in 1 .. cache_len(d) /\ k \in Int
      /\ c.buffer_end \in Int /\ SameNumbers(c, d) /\ BEG = 1
      /\ BOUNDARY_POS(d, k) <= start
      /\ \A j \in 1 .. cache_len(d) : BOUNDARY_POS(d, j) \in Int
      /\ \A j \in 1 .. cache_len(d) : k < j => end <= BOUNDARY_POS(d, j)
      /\ \A p \in BEG .. (start - 1) : ValueAt(d, p) = ValueAt(c, p)
  BY SplitParts
<1>2. ASSUME NEW p \in BEG .. (c.buffer_end - 1)
      PROVE  ValueAt(d, p) = IF start <= p /\ p < end THEN BOUNDARY_VALUE(d, k) ELSE ValueAt(c, p)
  <2>1. p \in Int /\ BEG <= p /\ p < c.buffer_end
    BY <1>1
  <2>2. PICK i \in 1 .. cache_len(d) :
          /\ Rules(d, p, i) /\ ValueAt(d, p) = BOUNDARY_VALUE(d, i)
          /\ p < end => i <= k
          /\ start <= p => i >= k
          /\ end <= p /\ p < c.buffer_end =>
               ValueAt(c, p) = IF i <= k THEN after ELSE BOUNDARY_VALUE(d, i)
    BY <2>1, SplitRulers
  <2>3. CASE p < start
    <3>1. p \in BEG .. (start - 1)
      BY <1>1, <2>1, <2>3
    <3>. QED BY <1>1, <2>1, <2>3, <3>1
  <2>4. CASE start <= p /\ p < end
    <3>1. i = k
      BY <1>1, <2>2, <2>4
    <3>. QED BY <2>2, <2>4, <3>1
  <2>5. CASE end <= p
    <3>1. p \in end .. (c.buffer_end - 1) /\ start <= p /\ ~(p < end)
      BY <1>1, <2>1, <2>5
    <3>2. i <= k => i = k
      BY <1>1, <2>2, <3>1
    <3>. QED BY <2>1, <2>2, <2>5, <3>1, <3>2
  <2>. QED BY <2>1, <2>3, <2>4, <2>5
<1>3. ASSUME NEW j \in 1 .. cache_len(d)
      PROVE  BOUNDARY_POS(d, j) <= start \/ end <= BOUNDARY_POS(d, j)
  <2>1. CASE k < j
    BY <1>1, <2>1
  <2>2. CASE j = k
    BY <1>1, <2>2
  <2>3. CASE j < k
    <3>1. BOUNDARY_POS(d, j) < BOUNDARY_POS(d, k)
      BY <1>1, <2>3, KeptParts
    <3>. QED BY <1>1, <3>1
  <2>. QED BY <1>1, <2>1, <2>2, <2>3
<1>. QED BY <1>1, <1>2, <1>3 DEF RegionSet

LEMMA EndAdds ==
  ASSUME NEW c, WellKept(c), NEW d, NEW k, NEW start \in Int, NEW end \in Int, NEW after \in {0, 1},
         BEG <= start, start < end, end <= c.buffer_end, Split(c, d, k, start, end, after),
         k + 1 \in 1 .. cache_len(d) => end < BOUNDARY_POS(d, k + 1)
  PROVE  RegionSet(c, insert_cache_boundary(d, k + 1, end, after), start, end, BOUNDARY_VALUE(d, k))
<1>. DEFINE m == k + 1
            e == insert_cache_boundary(d, m, end, after)
<1>1. /\ Array(d) /\ WellKept(d) /\ cache_len(d) \in Nat /\ k \in 1 .. cache_len(d) /\ k \in Int
      /\ c.buffer_end \in Int /\ SameNumbers(c, d) /\ BEG = 1 /\ d.buffer_end = c.buffer_end
      /\ BOUNDARY_POS(d, k) <= start
      /\ \A j \in 1 .. cache_len(d) : BOUNDARY_POS(d, j) \in Int
      /\ \A j \in 1 .. cache_len(d) : k < j => end <= BOUNDARY_POS(d, j)
      /\ \A p \in BEG .. (start - 1) : ValueAt(d, p) = ValueAt(c, p)
  BY SplitParts
<1>2. m \in 2 .. cache_len(d) + 1 /\ m - 1 = k /\ k < m /\ m \in Int /\ k = m - 1
      /\ \A i \in Int : (i < m) = (i <= k)
  BY <1>1
<1>3. m \in 1 .. cache_len(d) => end < BOUNDARY_POS(d, m)
  OBVIOUS
<1>4. Array(e) /\ BoundaryAdded(d, e, m, end, after)
  BY <1>1, <1>2, Added
<1>. HIDE DEF e, m
<1>5. WellKept(e)
  <2>1. BOUNDARY_POS(d, m - 1) < end /\ end <= d.buffer_end
    BY <1>1, <1>2
  <2>. QED BY <1>1, <1>2, <1>3, <1>4, <2>1, AddedKept
<1>6. SameNumbers(c, e) /\ cache_len(e) = cache_len(d) + 1
  BY <1>1, <1>4 DEF BoundaryAdded, SameNumbers
<1>7. ASSUME NEW p \in BEG .. (c.buffer_end - 1)
      PROVE  ValueAt(e, p) = IF start <= p /\ p < end THEN BOUNDARY_VALUE(d, k) ELSE ValueAt(c, p)
  <2>1. p \in Int /\ BEG <= p /\ p < c.buffer_end /\ 1 <= p
    BY <1>1
  <2>2. PICK i \in 1 .. cache_len(d) :
          /\ Rules(d, p, i) /\ ValueAt(d, p) = BOUNDARY_VALUE(d, i)
          /\ p < end => i <= k
          /\ start <= p => i >= k
          /\ end <= p /\ p < c.buffer_end =>
               ValueAt(c, p) = IF i <= k THEN after ELSE BOUNDARY_VALUE(d, i)
    BY <2>1, SplitRulers
  <2>3. CASE p < end
    <3>1. i < m
      BY <1>2, <2>2, <2>3
    <3>2. Rules(e, p, i) /\ BOUNDARY_VALUE(e, i) = BOUNDARY_VALUE(d, i)
      BY <1>1, <1>2, <1>4, <2>1, <2>2, <2>3, <3>1, AddedRules
    <3>3. ValueAt(e, p) = ValueAt(d, p)
      BY <1>5, <2>1, <2>2, <3>2, RulerTells
    <3>4. CASE p < start
      <4>1. p \in BEG .. (start - 1)
        BY <1>1, <2>1, <3>4
      <4>. QED BY <1>1, <2>1, <3>3, <3>4, <4>1
    <3>5. CASE start <= p
      <4>1. i = k
        BY <1>1, <2>2, <2>3, <3>5
      <4>. QED BY <2>2, <2>3, <3>3, <3>5, <4>1
    <3>. QED BY <2>1, <3>4, <3>5
  <2>4. CASE end <= p
    <3>0. start <= p /\ ~(p < end)
      BY <2>1, <2>4
    <3>1. CASE i <= k
      <4>1. i = m - 1
        BY <1>1, <1>2, <2>2, <3>0, <3>1
      <4>2. Rules(e, p, m) /\ BOUNDARY_VALUE(e, m) = after
        BY <1>1, <1>2, <1>4, <2>1, <2>2, <2>4, <4>1, AddedRules
      <4>3. ValueAt(e, p) = after
        BY <1>5, <2>1, <4>2, RulerTells
      <4>. QED BY <2>1, <2>2, <2>4, <3>0, <3>1, <4>3
    <3>2. CASE ~(i <= k)
      <4>1. i >= m
        BY <1>1, <1>2, <2>2, <3>2
      <4>2. Rules(e, p, i + 1) /\ BOUNDARY_VALUE(e, i + 1) = BOUNDARY_VALUE(d, i)
        <5>1. /\ Array(d) /\ m \in 2 .. cache_len(d) + 1 /\ BoundaryAdded(d, e, m, end, after)
              /\ p \in Int /\ Rules(d, p, i) /\ i >= m
          BY <1>1, <1>2, <1>4, <2>1, <2>2, <4>1
        <5>. QED BY <5>1, AddedRules
      <4>3. ValueAt(e, p) = BOUNDARY_VALUE(d, i)
        BY <1>5, <2>1, <4>2, RulerTells
      <4>. QED BY <2>1, <2>2, <2>4, <3>0, <3>2, <4>3
    <3>. QED BY <3>1, <3>2
  <2>. QED BY <2>1, <2>3, <2>4
<1>8. ASSUME NEW j \in 1 .. cache_len(e)
      PROVE  BOUNDARY_POS(e, j) <= start \/ end <= BOUNDARY_POS(e, j)
  <2>0. /\ BOUNDARY_POS(e, m) = end /\ cache_len(e) \in Nat /\ m \in 1 .. cache_len(e) /\ j \in Int
        /\ \A i \in 1 .. cache_len(e) : BOUNDARY_POS(e, i) \in Int
    BY <1>1, <1>2, <1>4, <1>5, <1>6, KeptParts DEF BoundaryAdded
  <2>1. CASE j < m
    <3>1. BOUNDARY_POS(e, j) = BOUNDARY_POS(d, j) /\ j \in 1 .. cache_len(d) /\ j <= k
      BY <1>1, <1>2, <1>4, <2>0, <2>1 DEF BoundaryAdded
    <3>2. j < k => BOUNDARY_POS(d, j) < BOUNDARY_POS(d, k)
      BY <1>1, <3>1, KeptParts
    <3>3. j = k \/ j < k
      BY <1>1, <3>1
    <3>4. BOUNDARY_POS(d, j) <= start
      BY <1>1, <3>1, <3>2, <3>3
    <3>. QED BY <3>1, <3>4
  <2>2. CASE j = m
    BY <2>0, <2>2
  <2>3. CASE m < j
    <3>1. BOUNDARY_POS(e, m) < BOUNDARY_POS(e, j)
      BY <1>5, <2>0, <2>3, KeptParts
    <3>. QED BY <2>0, <3>1
  <2>. QED BY <1>2, <2>0, <2>1, <2>2, <2>3
<1>9. RegionSet(c, e, start, end, BOUNDARY_VALUE(d, k))
  BY <1>5, <1>6, <1>7, <1>8 DEF RegionSet
<1>. QED BY <1>9 DEF e, m

LEMMA EndDrops ==
  ASSUME NEW c, WellKept(c), NEW d, NEW k, NEW start \in Int, NEW end \in Int, NEW after,
         BEG <= start, start < end, end <= c.buffer_end, Split(c, d, k, start, end, after),
         k + 1 \in 1 .. cache_len(d), BOUNDARY_POS(d, k + 1) = end,
         BOUNDARY_VALUE(d, k + 1) = BOUNDARY_VALUE(d, k)
  PROVE  RegionSet(c, delete_cache_boundaries(d, k + 1, k + 2), start, end, BOUNDARY_VALUE(d, k))
<1>. DEFINE m == k + 1
            n == k + 2
            e == delete_cache_boundaries(d, m, n)
<1>1. /\ Array(d) /\ WellKept(d) /\ cache_len(d) \in Nat /\ k \in 1 .. cache_len(d) /\ k \in Int
      /\ c.buffer_end \in Int /\ SameNumbers(c, d) /\ BEG = 1 /\ d.buffer_end = c.buffer_end
      /\ BOUNDARY_POS(d, k) <= start
      /\ \A j \in 1 .. cache_len(d) : BOUNDARY_POS(d, j) \in Int
      /\ \A j \in 1 .. cache_len(d) : k < j => end <= BOUNDARY_POS(d, j)
      /\ \A p \in BEG .. (start - 1) : ValueAt(d, p) = ValueAt(c, p)
  BY SplitParts
<1>2. m \in 2 .. cache_len(d) + 1 /\ n \in m .. cache_len(d) + 1 /\ m - 1 = k /\ n - m = 1
      /\ k < m /\ m < n /\ m \in Int /\ n \in Int /\ m \in 1 .. cache_len(d) /\ m = k + 1
      /\ n = m + 1
      /\ \A i \in Int : (i < m) = (i <= k)
  BY <1>1
<1>3. BOUNDARY_POS(d, m) = end /\ BOUNDARY_VALUE(d, m) = BOUNDARY_VALUE(d, k)
  OBVIOUS
<1>4. Array(e) /\ BoundariesGone(d, e, m, n)
  BY <1>1, <1>2, Gone
<1>. HIDE DEF e, m, n
<1>5. WellKept(e)
  BY <1>1, <1>2, <1>4, GoneKept
<1>6. SameNumbers(c, e)
  BY <1>1, <1>4 DEF BoundariesGone, SameNumbers
<1>7. ASSUME NEW p \in BEG .. (c.buffer_end - 1)
      PROVE  ValueAt(e, p) = IF start <= p /\ p < end THEN BOUNDARY_VALUE(d, k) ELSE ValueAt(c, p)
  <2>1. p \in Int /\ BEG <= p /\ p < c.buffer_end /\ 1 <= p
    BY <1>1
  <2>2. PICK i \in 1 .. cache_len(d) :
          /\ Rules(d, p, i) /\ ValueAt(d, p) = BOUNDARY_VALUE(d, i)
          /\ p < end => i <= k
          /\ start <= p => i >= k
          /\ end <= p /\ p < c.buffer_end =>
               ValueAt(c, p) = IF i <= k THEN after ELSE BOUNDARY_VALUE(d, i)
    BY <2>1, SplitRulers
  <2>3. CASE p < end
    <3>1. i < m
      BY <1>2, <2>2, <2>3
    <3>2. Rules(e, p, i) /\ BOUNDARY_VALUE(e, i) = BOUNDARY_VALUE(d, i)
      <4>1. Array(d) /\ BoundariesGone(d, e, m, n) /\ RulesBefore(d, m, n, p, i)
        BY <1>1, <1>2, <1>4, <2>1, <2>2, <3>1 DEF RulesBefore
      <4>. QED BY <4>1, GoneBefore
    <3>3. ValueAt(e, p) = ValueAt(d, p)
      BY <1>5, <2>1, <2>2, <3>2, RulerTells
    <3>4. CASE p < start
      <4>1. p \in BEG .. (start - 1)
        BY <1>1, <2>1, <3>4
      <4>. QED BY <1>1, <2>1, <3>3, <3>4, <4>1
    <3>5. CASE start <= p
      <4>1. i = k
        BY <1>1, <2>2, <2>3, <3>5
      <4>. QED BY <2>2, <2>3, <3>3, <3>5, <4>1
    <3>. QED BY <2>1, <3>4, <3>5
  <2>4. CASE end <= p
    <3>0. start <= p /\ ~(p < end)
      BY <2>1, <2>4
    <3>1. ~(i <= k)
      <4>. SUFFICES ASSUME i <= k PROVE FALSE
        OBVIOUS
      <4>1. i < m /\ BOUNDARY_POS(d, m) <= p
        BY <1>2, <1>3, <2>2, <2>4
      <4>. QED BY <1>1, <1>2, <2>1, <2>2, <4>1 DEF Rules
    <3>2. i >= m /\ ValueAt(c, p) = BOUNDARY_VALUE(d, i)
      BY <1>1, <1>2, <2>1, <2>2, <2>4, <3>1
    <3>3. ValueAt(e, p) = BOUNDARY_VALUE(d, i)
      <4>1. CASE i = m
        <5>1. m <= i /\ i < n
          BY <1>2, <4>1
        <5>2. Rules(e, p, m - 1) /\ BOUNDARY_VALUE(e, m - 1) = BOUNDARY_VALUE(d, m - 1)
          BY <1>1, <1>2, <1>4, <2>1, <2>2, <5>1, GoneMiddle
        <5>. QED BY <1>2, <1>3, <1>5, <2>1, <4>1, <5>2, RulerTells
      <4>2. CASE i # m
        <5>1. i >= n
          BY <1>1, <1>2, <3>2, <4>2
        <5>2. PICK l : Rules(e, p, l) /\ BOUNDARY_VALUE(e, l) = BOUNDARY_VALUE(d, i)
          <6>1. RulesAfter(d, m, n, p, i)
            BY <1>2, <2>1, <2>2, <5>1 DEF RulesAfter
          <6>. QED BY <1>1, <1>4, <6>1, GoneAfter
        <5>. QED BY <1>5, <2>1, <5>2, RulerTells
      <4>. QED BY <4>1, <4>2
    <3>. QED BY <3>0, <3>2, <3>3
  <2>. QED BY <2>1, <2>3, <2>4
<1>8. ASSUME NEW j \in 1 .. cache_len(e)
      PROVE  BOUNDARY_POS(e, j) <= start \/ end <= BOUNDARY_POS(e, j)
  <2>. DEFINE l == IF j < m THEN j ELSE j + (n - m)
  <2>1. l \in 1 .. cache_len(d) /\ BOUNDARY_POS(e, j) = BOUNDARY_POS(d, l)
    BY <1>1, <1>2, <1>4, GoneIndex
  <2>. HIDE DEF l
  <2>2. l < k => BOUNDARY_POS(d, l) < BOUNDARY_POS(d, k)
    BY <1>1, <2>1, KeptParts
  <2>3. l < k \/ l = k \/ k < l
    BY <1>1, <2>1
  <2>4. BOUNDARY_POS(d, l) <= start \/ end <= BOUNDARY_POS(d, l)
    BY <1>1, <2>1, <2>2, <2>3
  <2>. QED BY <2>1, <2>4
<1>9. RegionSet(c, e, start, end, BOUNDARY_VALUE(d, k))
  BY <1>5, <1>6, <1>7, <1>8 DEF RegionSet
<1>. QED BY <1>9 DEF e, m, n

LEMMA EndSplit ==
  ASSUME NEW c, WellKept(c), NEW s, NEW start \in Int, NEW end \in Int, NEW after \in {0, 1},
         BEG <= start, start < end, end <= c.buffer_end, NEW value,
         Started(c, s, start, end, value, after)
  PROVE  RegionSet(c, EndRegion(s, end, value, after), start, end, value)
<1>. DEFINE d == s.cache
            k == s.ix
            e == EndRegion(s, end, value, after)
<1>0. Split(c, d, k, start, end, after) /\ BOUNDARY_VALUE(d, k) = value
  BY DEF Started
<1>1. /\ cache_len(d) \in Nat /\ k \in 1 .. cache_len(d) /\ k \in Int /\ c.buffer_end \in Int
      /\ d.buffer_end = c.buffer_end
      /\ \A j \in 1 .. cache_len(d) : BOUNDARY_POS(d, j) \in Int
      /\ \A j \in 1 .. cache_len(d) : k < j => end <= BOUNDARY_POS(d, j)
  BY <1>0, SplitParts
<1>. DEFINE last == k = cache_len(d) \/ end < BOUNDARY_POS(d, k + 1)
<1>2. e = IF end = d.buffer_end THEN d
          ELSE IF last
          THEN IF after # value THEN insert_cache_boundary(d, k + 1, end, after) ELSE d
          ELSE IF value = BOUNDARY_VALUE(d, k + 1) THEN delete_cache_boundaries(d, k + 1, k + 2) ELSE d
  BY DEF EndRegion
<1>3. last => (k + 1 \in 1 .. cache_len(d) => end < BOUNDARY_POS(d, k + 1))
  BY <1>1
<1>4. ~last => k + 1 \in 1 .. cache_len(d) /\ BOUNDARY_POS(d, k + 1) = end
  BY <1>1
<1>5. Split(c, d, k, start, end, after) /\ BOUNDARY_VALUE(d, k) = value
  BY <1>0
<1>. HIDE DEF d, k, e
<1>6. CASE end = d.buffer_end
  <2>1. e = d /\ \A p \in end .. (c.buffer_end - 1) : FALSE
    BY <1>1, <1>2, <1>6
  <2>. QED BY <1>5, <2>1, EndSame DEF e
<1>7. CASE end # d.buffer_end /\ last /\ after # value
  <2>1. e = insert_cache_boundary(d, k + 1, end, after)
    BY <1>2, <1>7
  <2>2. k + 1 \in 1 .. cache_len(d) => end < BOUNDARY_POS(d, k + 1)
    BY <1>3, <1>7
  <2>3. RegionSet(c, insert_cache_boundary(d, k + 1, end, after), start, end, BOUNDARY_VALUE(d, k))
    BY <1>5, <2>2, EndAdds
  <2>. QED BY <1>5, <2>1, <2>3 DEF e
<1>8. CASE end # d.buffer_end /\ last /\ after = value
  <2>1. e = d
    BY <1>2, <1>8
  <2>. QED BY <1>5, <1>8, <2>1, EndSame DEF e
<1>9. CASE end # d.buffer_end /\ ~last
  <2>0. k + 1 \in 1 .. cache_len(d) /\ BOUNDARY_POS(d, k + 1) = end /\ k < k + 1
    BY <1>1, <1>4, <1>9
  <2>1. CASE value = BOUNDARY_VALUE(d, k + 1)
    <3>1. e = delete_cache_boundaries(d, k + 1, k + 2)
      BY <1>2, <1>9, <2>1
    <3>2. RegionSet(c, delete_cache_boundaries(d, k + 1, k + 2), start, end, BOUNDARY_VALUE(d, k))
      BY <1>5, <2>0, <2>1, EndDrops
    <3>. QED BY <1>5, <3>1, <3>2 DEF e
  <2>2. CASE value # BOUNDARY_VALUE(d, k + 1)
    <3>1. e = d
      BY <1>2, <1>9, <2>2
    <3>2. ASSUME NEW p \in end .. (c.buffer_end - 1), Rules(d, p, k)
          PROVE  FALSE
      <4>1. p < BOUNDARY_POS(d, k + 1)
        BY <2>0, <3>2 DEF Rules
      <4>. QED BY <1>1, <2>0, <4>1
    <3>. QED BY <1>5, <3>1, <3>2, EndSame DEF e
  <2>. QED BY <2>1, <2>2
<1>. QED BY <1>6, <1>7, <1>8, <1>9

(* set_cache_region sets the region and nothing else *)
LEMMA SetsRegion ==
  ASSUME NEW c, WellKept(c), NEW start \in Int, NEW end \in Int, BEG <= start, start <= end,
         end <= c.buffer_end, NEW value \in {0, 1}
  PROVE  RegionSet(c, set_cache_region(c, start, end, value), start, end, value)
<1>1. CASE start = end
  <2>1. set_cache_region(c, start, end, value) = c
    BY <1>1 DEF set_cache_region
  <2>2. \A p \in BEG .. (c.buffer_end - 1) : ~(start <= p /\ p < end)
    BY <1>1, KeptParts DEF BEG
  <2>3. \A j \in 1 .. cache_len(c) : BOUNDARY_POS(c, j) <= start \/ end <= BOUNDARY_POS(c, j)
    BY <1>1, KeptParts
  <2>. QED BY <2>1, <2>2, <2>3 DEF RegionSet, SameNumbers
<1>2. CASE start # end
  <2>. DEFINE x == find_cache_boundary(c, start)
              y == find_cache_boundary(c, end - 1)
              d == delete_cache_boundaries(c, x + 1, y + 1)
              r == StartRegion(d, x, start, value)
              after == BOUNDARY_VALUE(c, y)
  <2>0. start < end
    BY <1>2
  <2>1. Split(c, d, x, start, end, after) /\ after \in {0, 1}
    BY <2>0, RegionCut
  <2>2. set_cache_region(c, start, end, value) = EndRegion(r, end, value, after)
    BY <1>2 DEF set_cache_region
  <2>. HIDE DEF x, after, d
  <2>3. Started(c, r, start, end, value, after)
    BY <2>0, <2>1, StartSplit
  <2>. HIDE DEF r
  <2>4. RegionSet(c, EndRegion(r, end, value, after), start, end, value)
    BY <2>0, <2>1, <2>3, EndSplit
  <2>. QED BY <2>2, <2>4
<1>. QED BY <1>1, <1>2

-------------------------------------------------------------------------------
(* The gap of the array moves, and with it the end of the buffer             *)

(* The cache with other numbers *)
WithNumbers(c, u, v) == [c EXCEPT !.beg_unchanged = u, !.end_unchanged = v]

LEMMA Numbered ==
  ASSUME NEW c, WellKept(c), NEW u \in Int, NEW v \in Int
  PROVE  LET d == WithNumbers(c, u, v) IN
         /\ WellKept(d) /\ d.beg_unchanged = u /\ d.end_unchanged = v
         /\ d.buffer_end = c.buffer_end
         /\ \A p : ValueAt(d, p) = ValueAt(c, p)
<1>. DEFINE d == WithNumbers(c, u, v)
<1>1. c \in Cache
  BY DEF WellKept, Array
<1>2. d \in Cache /\ d.beg_unchanged = u /\ d.end_unchanged = v
      /\ d.buffer_end = c.buffer_end /\ d.boundaries = c.boundaries /\ d.gap_start = c.gap_start
  BY <1>1 DEF Cache, WithNumbers
<1>. HIDE DEF d
<1>3. cache_len(d) = cache_len(c) /\ \A i : /\ BOUNDARY_POS(d, i) = BOUNDARY_POS(c, i)
                                           /\ BOUNDARY_VALUE(d, i) = BOUNDARY_VALUE(c, i)
  BY <1>2 DEF cache_len, BOUNDARY_POS, BOUNDARY_VALUE
<1>4. WellKept(d)
  BY <1>2, <1>3 DEF WellKept, Array
<1>5. \A p : find_cache_boundary(d, p) = find_cache_boundary(c, p)
  BY <1>3 DEF find_cache_boundary
<1>6. \A p : ValueAt(d, p) = ValueAt(c, p)
  BY <1>3, <1>5 DEF ValueAt
<1>. QED BY <1>2, <1>4, <1>6 DEF d

(* The boundaries up to G where they are, and those after it moved with the *)
(* end of the buffer                                                        *)
MovedEnd(c, d, g, Z) ==
  /\ Array(d) /\ d.gap_start = g /\ d.buffer_end = Z /\ cache_len(d) = cache_len(c)
  /\ d.beg_unchanged = c.beg_unchanged /\ d.end_unchanged = c.end_unchanged
  /\ \A i \in 1 .. cache_len(c) :
       /\ BOUNDARY_VALUE(d, i) = BOUNDARY_VALUE(c, i)
       /\ i <= g => BOUNDARY_POS(d, i) = BOUNDARY_POS(c, i)
       /\ i > g => BOUNDARY_POS(d, i) = BOUNDARY_POS(c, i) + Z - c.buffer_end

LEMMA Rebased ==
  ASSUME NEW c, WellKept(c), NEW head \in Int, BEG <= head, NEW Z \in Int
  PROVE  LET g == find_cache_boundary(c, head) IN
         Rules(c, head, g) /\ MovedEnd(c, Rebase(c, head, Z), g, Z)
<1>. DEFINE g == find_cache_boundary(c, head)
            m == move_cache_gap(c, g)
            d == Rebase(c, head, Z)
<1>1. Array(c) /\ BOUNDARY_POS(c, 1) <= head /\ cache_len(c) \in Nat /\ c.buffer_end \in Int
  BY KeptParts DEF BEG
<1>2. Rules(c, head, g)
  BY <1>1, RulerFound
<1>. HIDE DEF g
<1>3. g \in 1 .. cache_len(c)
  BY <1>2 DEF Rules
<1>4. Array(m) /\ m.gap_start = g /\ SameArray(c, m)
  BY <1>1, <1>3, MovedGap
<1>5. d = [m EXCEPT !.buffer_end = Z]
  BY DEF Rebase, g
<1>. HIDE DEF m, d
<1>6. /\ d \in Cache /\ d.boundaries = m.boundaries /\ d.gap_start = g /\ d.buffer_end = Z
      /\ d.beg_unchanged = m.beg_unchanged /\ d.end_unchanged = m.end_unchanged
  BY <1>4, <1>5 DEF Array, Cache
<1>7. cache_len(d) = cache_len(m) /\ cache_len(m) = cache_len(c)
      /\ m.buffer_end = c.buffer_end
      /\ m.beg_unchanged = c.beg_unchanged /\ m.end_unchanged = c.end_unchanged
  BY <1>4, <1>6 DEF cache_len, SameArray, SameNumbers
<1>8. Array(d)
  BY <1>3, <1>6, <1>7 DEF Array
<1>9. ASSUME NEW i \in 1 .. cache_len(c)
      PROVE  /\ BOUNDARY_VALUE(d, i) = BOUNDARY_VALUE(c, i)
             /\ i <= g => BOUNDARY_POS(d, i) = BOUNDARY_POS(c, i)
             /\ i > g => BOUNDARY_POS(d, i) = BOUNDARY_POS(c, i) + Z - c.buffer_end
  <2>1. BOUNDARY_VALUE(d, i) = BOUNDARY_VALUE(m, i) /\ BOUNDARY_VALUE(m, i) = BOUNDARY_VALUE(c, i)
        /\ BOUNDARY_POS(m, i) = BOUNDARY_POS(c, i)
    BY <1>4, <1>6 DEF BOUNDARY_VALUE, SameArray
  <2>2. m.boundaries[i].pos \in Int
    BY <1>4, <1>7, ArrayParts
  <2>3. BOUNDARY_POS(m, i) = (IF i <= g THEN BEG ELSE c.buffer_end) + m.boundaries[i].pos
    BY <1>4, <1>7 DEF BOUNDARY_POS
  <2>4. BOUNDARY_POS(d, i) = (IF i <= g THEN BEG ELSE Z) + m.boundaries[i].pos
    BY <1>6 DEF BOUNDARY_POS
  <2>5. i \in Int /\ g \in Int
    BY <1>3
  <2>6. i <= g => BOUNDARY_POS(d, i) = BOUNDARY_POS(c, i)
    BY <2>1, <2>3, <2>4
  <2>7. i > g => BOUNDARY_POS(d, i) = BOUNDARY_POS(c, i) + Z - c.buffer_end
    <3>1. SUFFICES ASSUME i > g PROVE BOUNDARY_POS(d, i) = BOUNDARY_POS(c, i) + Z - c.buffer_end
      OBVIOUS
    <3>2. ~(i <= g)
      BY <2>5, <3>1
    <3>3. BOUNDARY_POS(c, i) = c.buffer_end + m.boundaries[i].pos
      BY <2>1, <2>3, <3>2
    <3>4. BOUNDARY_POS(d, i) = Z + m.boundaries[i].pos
      BY <2>4, <3>2
    <3>. QED BY <1>1, <2>2, <3>3, <3>4
  <2>. QED BY <2>1, <2>6, <2>7
<1>10. MovedEnd(c, d, g, Z)
  BY <1>6, <1>7, <1>8, <1>9 DEF MovedEnd
<1>. QED BY <1>2, <1>10 DEF g, d

(* What the moved cache knows, when no boundary was between HEAD and TAIL *)
LEMMA MovedRules ==
  ASSUME NEW c, WellKept(c), NEW d, NEW g, NEW Z \in Int, MovedEnd(c, d, g, Z),
         NEW head \in Int, NEW tail \in Int, BEG <= head, head <= tail,
         Rules(c, head, g), \A j \in 1 .. cache_len(c) : g < j => tail <= BOUNDARY_POS(c, j),
         head <= tail + Z - c.buffer_end
  PROVE  /\ \A p \in Int : \A i : p < head /\ Rules(c, p, i) => Rules(d, p, i)
         /\ \A p \in Int : head <= p /\ p < tail + Z - c.buffer_end => Rules(d, p, g)
         /\ \A p \in Int : \A i : tail + Z - c.buffer_end <= p /\ Rules(c, p + c.buffer_end - Z, i)
                                  => Rules(d, p, i)
         /\ \A i \in 1 .. cache_len(c) : g < i => tail + Z - c.buffer_end <= BOUNDARY_POS(d, i)
<1>. DEFINE E == c.buffer_end
            T == tail + Z - E
<1>1. /\ cache_len(c) \in Nat /\ E \in Int /\ g \in 1 .. cache_len(c) /\ g \in Int
      /\ BOUNDARY_POS(c, g) <= head
      /\ \A i \in 1 .. cache_len(c) : BOUNDARY_POS(c, i) \in Int
      /\ \A j \in 1 .. cache_len(c) : g < j => head < BOUNDARY_POS(c, j)
      /\ \A i, j \in 1 .. cache_len(c) : i < j => BOUNDARY_POS(c, i) < BOUNDARY_POS(c, j)
  BY KeptParts DEF Rules
<1>2. /\ cache_len(d) = cache_len(c)
      /\ \A i \in 1 .. cache_len(c) :
           /\ i <= g => BOUNDARY_POS(d, i) = BOUNDARY_POS(c, i)
           /\ i > g => BOUNDARY_POS(d, i) = BOUNDARY_POS(c, i) + Z - E
  BY DEF MovedEnd
<1>. HIDE DEF E
<1>3. T \in Int /\ head <= T
  BY <1>1 DEF E
<1>4. ASSUME NEW i \in 1 .. cache_len(c), g < i
      PROVE  T <= BOUNDARY_POS(d, i)
  <2>1. BOUNDARY_POS(d, i) = BOUNDARY_POS(c, i) + Z - E /\ BOUNDARY_POS(c, i) \in Int
        /\ tail <= BOUNDARY_POS(c, i)
    BY <1>1, <1>2, <1>4
  <2>. QED BY <1>1, <2>1
<1>5. ASSUME NEW p \in Int, NEW i, p < head, Rules(c, p, i)
      PROVE  Rules(d, p, i)
  <2>1. i \in 1 .. cache_len(c) /\ BOUNDARY_POS(c, i) <= p
        /\ \A j \in 1 .. cache_len(c) : i < j => p < BOUNDARY_POS(c, j)
    BY <1>5 DEF Rules
  <2>2. i <= g
    <3>. SUFFICES ASSUME g < i PROVE FALSE
      BY <1>1, <2>1
    <3>1. head < BOUNDARY_POS(c, i) /\ BOUNDARY_POS(c, i) \in Int
      BY <1>1, <2>1
    <3>. QED BY <1>5, <2>1, <3>1
  <2>3. ASSUME NEW j \in 1 .. cache_len(c), i < j
        PROVE  p < BOUNDARY_POS(d, j)
    <3>1. CASE j <= g
      BY <1>2, <2>1, <2>3, <3>1
    <3>2. CASE g < j
      <4>1. T <= BOUNDARY_POS(d, j) /\ BOUNDARY_POS(d, j) = BOUNDARY_POS(c, j) + Z - E
            /\ BOUNDARY_POS(c, j) \in Int
        BY <1>1, <1>2, <1>4, <3>2
      <4>2. BOUNDARY_POS(d, j) \in Int
        BY <1>1, <4>1
      <4>. HIDE DEF T
      <4>. QED BY <1>3, <1>5, <4>1, <4>2
    <3>. QED BY <1>1, <3>1, <3>2
  <2>. QED BY <1>2, <2>1, <2>2, <2>3 DEF Rules
<1>6. ASSUME NEW p \in Int, head <= p, p < T
      PROVE  Rules(d, p, g)
  <2>1. BOUNDARY_POS(d, g) = BOUNDARY_POS(c, g) /\ BOUNDARY_POS(c, g) \in Int
    BY <1>1, <1>2
  <2>2. BOUNDARY_POS(d, g) <= p
    BY <1>1, <1>6, <2>1
  <2>3. ASSUME NEW j \in 1 .. cache_len(c), g < j
        PROVE  p < BOUNDARY_POS(d, j)
    <3>1. T <= BOUNDARY_POS(d, j) /\ BOUNDARY_POS(d, j) = BOUNDARY_POS(c, j) + Z - E
          /\ BOUNDARY_POS(c, j) \in Int
      BY <1>1, <1>2, <1>4, <2>3
    <3>2. BOUNDARY_POS(d, j) \in Int
      BY <1>1, <3>1
    <3>. HIDE DEF T
    <3>. QED BY <1>3, <1>6, <3>1, <3>2
  <2>. QED BY <1>1, <1>2, <2>2, <2>3 DEF Rules
<1>7. ASSUME NEW p \in Int, NEW i, T <= p, Rules(c, p + E - Z, i)
      PROVE  Rules(d, p, i)
  <2>. DEFINE q == p + E - Z
  <2>1. i \in 1 .. cache_len(c) /\ BOUNDARY_POS(c, i) <= q /\ i \in Int
        /\ \A j \in 1 .. cache_len(c) : i < j => q < BOUNDARY_POS(c, j)
    BY <1>7 DEF Rules
  <2>2. q \in Int /\ tail <= q /\ p = q + Z - E /\ head <= p /\ head <= q
    BY <1>1, <1>3, <1>7
  <2>. HIDE DEF q
  <2>3. g <= i
    <3>. SUFFICES ASSUME i < g PROVE FALSE
      BY <1>1, <2>1
    <3>1. q < BOUNDARY_POS(c, g) /\ BOUNDARY_POS(c, g) \in Int
      BY <1>1, <2>1
    <3>. QED BY <1>1, <2>2, <3>1
  <2>4. BOUNDARY_POS(d, i) <= p
    <3>1. CASE i = g
      <4>1. BOUNDARY_POS(d, i) = BOUNDARY_POS(c, g) /\ BOUNDARY_POS(c, g) \in Int
        BY <1>1, <1>2, <3>1
      <4>. QED BY <1>1, <2>2, <4>1
    <3>2. CASE i # g
      <4>1. BOUNDARY_POS(d, i) = BOUNDARY_POS(c, i) + Z - E /\ BOUNDARY_POS(c, i) \in Int
        BY <1>1, <1>2, <2>1, <2>3, <3>2
      <4>. QED BY <1>1, <2>1, <2>2, <4>1
    <3>. QED BY <3>1, <3>2
  <2>5. ASSUME NEW j \in 1 .. cache_len(c), i < j
        PROVE  p < BOUNDARY_POS(d, j)
    <3>1. BOUNDARY_POS(d, j) = BOUNDARY_POS(c, j) + Z - E /\ BOUNDARY_POS(c, j) \in Int
      BY <1>1, <1>2, <2>1, <2>3, <2>5
    <3>2. q < BOUNDARY_POS(c, j)
      BY <2>1, <2>5
    <3>. QED BY <1>1, <2>2, <3>1, <3>2
  <2>. QED BY <1>2, <2>1, <2>4, <2>5 DEF Rules
<1>. QED BY <1>4, <1>5, <1>6, <1>7 DEF E

-------------------------------------------------------------------------------
(* Two boundaries that meet                                                  *)

(* The boundaries that stay are in order, whatever those that go are *)
LEMMA GoneLoose ==
  ASSUME NEW c, Array(c), NEW d, Array(d), NEW s \in 2 .. cache_len(c) + 1,
         NEW e \in s .. cache_len(c) + 1, BoundariesGone(c, d, s, e),
         BOUNDARY_POS(c, 1) = BEG, BEG <= c.buffer_end,
         \A i \in 1 .. cache_len(c) : BOUNDARY_POS(c, i) <= c.buffer_end,
         \A i, j \in 1 .. cache_len(c) :
            i < j /\ (i < s \/ i >= e) /\ (j < s \/ j >= e) => BOUNDARY_POS(c, i) < BOUNDARY_POS(c, j)
  PROVE  WellKept(d)
<1>. DEFINE K(j) == IF j < s THEN j ELSE j + (e - s)
<1>1. /\ cache_len(d) \in Nat /\ cache_len(d) >= 1
      /\ \A j \in 1 .. cache_len(d) : /\ K(j) \in 1 .. cache_len(c) /\ (j < s \/ K(j) >= e)
                                      /\ BOUNDARY_POS(d, j) = BOUNDARY_POS(c, K(j))
  BY GoneIndex
<1>2. /\ cache_len(c) \in Nat /\ s \in Int /\ e \in Int /\ s <= e /\ d.buffer_end = c.buffer_end
      /\ s >= 2
  BY ArrayParts DEF BoundariesGone, SameNumbers
<1>3. \A i, j \in 1 .. cache_len(d) : i < j => K(i) < K(j)
  BY <1>1, <1>2
<1>4. 1 \in 1 .. cache_len(d) /\ K(1) = 1
  BY <1>1, <1>2
<1>5. \A j \in 1 .. cache_len(d) : K(j) < s \/ K(j) >= e
  BY <1>1, <1>2
<1>. HIDE DEF K
<1>6. BOUNDARY_POS(d, 1) = BOUNDARY_POS(c, 1)
  BY <1>1, <1>4
<1>7. \A i, j \in 1 .. cache_len(d) : i < j => BOUNDARY_POS(d, i) < BOUNDARY_POS(d, j)
  BY <1>1, <1>3, <1>5
<1>8. \A i \in 1 .. cache_len(d) : BOUNDARY_POS(d, i) <= d.buffer_end
  BY <1>1, <1>2
<1>. QED BY <1>2, <1>6, <1>7, <1>8 DEF WellKept

LEMMA GoneUnder ==
  ASSUME NEW c, Array(c), NEW d, NEW s \in 2 .. cache_len(c) + 1, NEW e \in s .. cache_len(c) + 1,
         BoundariesGone(c, d, s, e), NEW p \in Int, NEW i, Rules(c, p, i), s <= i, i < e,
         BOUNDARY_POS(c, s - 1) <= p
  PROVE  Rules(d, p, s - 1) /\ BOUNDARY_VALUE(d, s - 1) = BOUNDARY_VALUE(c, s - 1)
<1>. DEFINE K(j) == IF j < s THEN j ELSE j + (e - s)
<1>1. /\ cache_len(d) = cache_len(c) - (e - s) /\ cache_len(d) \in Nat
      /\ \A j \in 1 .. cache_len(d) : /\ K(j) \in 1 .. cache_len(c)
                                      /\ BOUNDARY_POS(d, j) = BOUNDARY_POS(c, K(j))
                                      /\ BOUNDARY_VALUE(d, j) = BOUNDARY_VALUE(c, K(j))
  BY GoneIndex
<1>2. /\ cache_len(c) \in Nat /\ s \in Int /\ e \in Int /\ s <= e /\ s >= 2
      /\ i \in 1 .. cache_len(c) /\ e <= cache_len(c) + 1
  BY ArrayParts DEF Rules
<1>3. /\ s - 1 \in 1 .. cache_len(d) /\ K(s - 1) = s - 1 /\ s - 1 \in 1 .. cache_len(c) /\ s - 1 < i
      /\ \A j \in 1 .. cache_len(d) : s - 1 < j => i < K(j)
  BY <1>1, <1>2
<1>. HIDE DEF K
<1>4. BOUNDARY_POS(d, s - 1) <= p /\ BOUNDARY_VALUE(d, s - 1) = BOUNDARY_VALUE(c, s - 1)
  BY <1>1, <1>3
<1>5. \A j \in 1 .. cache_len(d) : s - 1 < j => p < BOUNDARY_POS(d, j)
  BY <1>1, <1>3 DEF Rules
<1>. QED BY <1>3, <1>4, <1>5 DEF Rules

(* In order but for the two boundaries at the gap, which may be at one place *)
NearlyKept(c) ==
  /\ Array(c) /\ BOUNDARY_POS(c, 1) = BEG /\ BEG <= c.buffer_end
  /\ \A i \in 1 .. cache_len(c) : BOUNDARY_POS(c, i) <= c.buffer_end
  /\ \A i, j \in 1 .. cache_len(c) : i < j =>
       /\ BOUNDARY_POS(c, i) <= BOUNDARY_POS(c, j)
       /\ i # c.gap_start \/ j # c.gap_start + 1 => BOUNDARY_POS(c, i) < BOUNDARY_POS(c, j)

LEMMA CollapseDrops ==
  ASSUME NEW c, NearlyKept(c), c.gap_start + 1 \in 1 .. cache_len(c), c.gap_start > 1,
         BOUNDARY_POS(c, c.gap_start) = BOUNDARY_POS(c, c.gap_start + 1),
         BOUNDARY_VALUE(c, c.gap_start + 1) = BOUNDARY_VALUE(c, c.gap_start - 1)
  PROVE  LET d == delete_cache_boundaries(c, c.gap_start, c.gap_start + 2) IN
         /\ WellKept(d) /\ SameNumbers(c, d)
         /\ \A p \in Int : \A i : 1 <= p /\ Rules(c, p, i) => ValueAt(d, p) = BOUNDARY_VALUE(c, i)
<1>. DEFINE s == c.gap_start
            e == s + 2
            d == delete_cache_boundaries(c, s, e)
<1>1. /\ Array(c) /\ cache_len(c) \in Nat /\ c.gap_start \in Int
      /\ \A i \in 1 .. cache_len(c) : BOUNDARY_POS(c, i) \in Int
  BY ArrayParts DEF NearlyKept
<1>2. /\ s \in Int /\ e \in Int /\ s \in 2 .. cache_len(c) + 1 /\ e \in s .. cache_len(c) + 1
      /\ e = s + 2 /\ s \in 1 .. cache_len(c) /\ s - 1 \in 1 .. cache_len(c)
      /\ s + 1 \in 1 .. cache_len(c)
      /\ BOUNDARY_POS(c, s) = BOUNDARY_POS(c, s + 1)
      /\ BOUNDARY_VALUE(c, s + 1) = BOUNDARY_VALUE(c, s - 1)
  BY <1>1
<1>3. Array(d) /\ BoundariesGone(c, d, s, e)
  BY <1>1, <1>2, Gone
<1>4. /\ BOUNDARY_POS(c, 1) = BEG /\ BEG <= c.buffer_end
      /\ \A i \in 1 .. cache_len(c) : BOUNDARY_POS(c, i) <= c.buffer_end
      /\ \A i, j \in 1 .. cache_len(c) : i < j =>
           /\ BOUNDARY_POS(c, i) <= BOUNDARY_POS(c, j)
           /\ i # s \/ j # s + 1 => BOUNDARY_POS(c, i) < BOUNDARY_POS(c, j)
  BY DEF NearlyKept
<1>. HIDE DEF d, e, s
<1>5. \A i, j \in 1 .. cache_len(c) :
        i < j /\ (i < s \/ i >= e) /\ (j < s \/ j >= e) => BOUNDARY_POS(c, i) < BOUNDARY_POS(c, j)
  BY <1>2, <1>4
<1>6. WellKept(d)
  BY <1>1, <1>2, <1>3, <1>4, <1>5, GoneLoose
<1>7. SameNumbers(c, d)
  BY <1>3 DEF BoundariesGone
<1>8. ASSUME NEW p \in Int, NEW i, 1 <= p, Rules(c, p, i)
      PROVE  ValueAt(d, p) = BOUNDARY_VALUE(c, i)
  <2>1. i \in 1 .. cache_len(c) /\ i \in Int /\ BOUNDARY_POS(c, i) <= p
        /\ \A j \in 1 .. cache_len(c) : i < j => p < BOUNDARY_POS(c, j)
    BY <1>8 DEF Rules
  <2>2. CASE i < s
    <3>1. Rules(d, p, i) /\ BOUNDARY_VALUE(d, i) = BOUNDARY_VALUE(c, i)
      BY <1>1, <1>2, <1>3, <1>8, <2>2, GoneRules
    <3>. QED BY <1>6, <1>8, <3>1, RulerTells
  <2>3. i # s
    <3>. SUFFICES ASSUME i = s PROVE FALSE
      OBVIOUS
    <3>1. i < s + 1 /\ BOUNDARY_POS(c, s + 1) <= p /\ s + 1 \in 1 .. cache_len(c)
          /\ BOUNDARY_POS(c, s + 1) \in Int
      BY <1>1, <1>2, <2>1
    <3>2. p < BOUNDARY_POS(c, s + 1)
      BY <2>1, <3>1
    <3>. QED BY <1>8, <3>1, <3>2
  <2>4. CASE i = s + 1
    <3>1. s <= i /\ i < e
      BY <1>2, <2>4
    <3>2. BOUNDARY_POS(c, s - 1) <= p
      <4>1. BOUNDARY_POS(c, s - 1) <= BOUNDARY_POS(c, i) /\ BOUNDARY_POS(c, s - 1) \in Int
            /\ BOUNDARY_POS(c, i) \in Int
        BY <1>1, <1>2, <1>4, <2>1, <2>4
      <4>. QED BY <1>8, <2>1, <4>1
    <3>3. Rules(d, p, s - 1) /\ BOUNDARY_VALUE(d, s - 1) = BOUNDARY_VALUE(c, s - 1)
      BY <1>1, <1>2, <1>3, <1>8, <3>1, <3>2, GoneUnder
    <3>. QED BY <1>2, <1>6, <1>8, <2>4, <3>3, RulerTells
  <2>5. CASE i > s + 1
    <3>1. RulesAfter(c, s, e, p, i)
      BY <1>2, <1>8, <2>1, <2>5 DEF RulesAfter
    <3>2. PICK l : Rules(d, p, l) /\ BOUNDARY_VALUE(d, l) = BOUNDARY_VALUE(c, i)
      BY <1>1, <1>3, <3>1, GoneAfter
    <3>. QED BY <1>6, <1>8, <3>2, RulerTells
  <2>. QED BY <1>2, <2>1, <2>2, <2>3, <2>4, <2>5
<1>. QED BY <1>6, <1>7, <1>8 DEF d, e, s

LEMMA CollapseJoins ==
  ASSUME NEW c, NearlyKept(c), c.gap_start + 1 \in 1 .. cache_len(c),
         BOUNDARY_POS(c, c.gap_start) = BOUNDARY_POS(c, c.gap_start + 1)
  PROVE  LET d == delete_cache_boundaries(
                    SET_BOUNDARY_VALUE(c, c.gap_start, BOUNDARY_VALUE(c, c.gap_start + 1)),
                    c.gap_start + 1, c.gap_start + 2) IN
         /\ WellKept(d) /\ SameNumbers(c, d)
         /\ \A p \in Int : \A i : 1 <= p /\ Rules(c, p, i) => ValueAt(d, p) = BOUNDARY_VALUE(c, i)
<1>. DEFINE g == c.gap_start
            s == g + 1
            e == g + 2
            v == BOUNDARY_VALUE(c, s)
            b == SET_BOUNDARY_VALUE(c, g, v)
            d == delete_cache_boundaries(b, s, e)
<1>1. /\ Array(c) /\ cache_len(c) \in Nat /\ g \in Int /\ g \in 1 .. cache_len(c)
      /\ \A i \in 1 .. cache_len(c) : BOUNDARY_POS(c, i) \in Int /\ BOUNDARY_VALUE(c, i) \in {0, 1}
      /\ s \in 1 .. cache_len(c)
  BY ArrayParts DEF NearlyKept
<1>2. v \in {0, 1}
  BY <1>1
<1>3. Array(b) /\ ValueSet(c, b, g, v)
  BY <1>1, <1>2, SetValue
<1>. HIDE DEF b
<1>4. /\ SameNumbers(c, b) /\ cache_len(b) = cache_len(c) /\ b.buffer_end = c.buffer_end
      /\ \A i \in 1 .. cache_len(c) :
           /\ BOUNDARY_POS(b, i) = BOUNDARY_POS(c, i)
           /\ BOUNDARY_VALUE(b, i) = IF i = g THEN v ELSE BOUNDARY_VALUE(c, i)
  BY <1>3 DEF ValueSet, SameNumbers
<1>5. /\ s \in Int /\ e \in Int /\ s \in 2 .. cache_len(b) + 1 /\ e \in s .. cache_len(b) + 1
      /\ e = s + 1 /\ s - 1 = g /\ BOUNDARY_POS(c, g) = BOUNDARY_POS(c, s) /\ g < s
      /\ BOUNDARY_VALUE(c, s) = v
  BY <1>1, <1>4
<1>6. Array(d) /\ BoundariesGone(b, d, s, e)
  BY <1>3, <1>5, Gone
<1>7. /\ BOUNDARY_POS(c, 1) = BEG /\ BEG <= c.buffer_end
      /\ \A i \in 1 .. cache_len(c) : BOUNDARY_POS(c, i) <= c.buffer_end
      /\ \A i, j \in 1 .. cache_len(c) : i < j =>
           /\ BOUNDARY_POS(c, i) <= BOUNDARY_POS(c, j)
           /\ i # g \/ j # s => BOUNDARY_POS(c, i) < BOUNDARY_POS(c, j)
  BY DEF NearlyKept
<1>. HIDE DEF d, e, s, g, v
<1>8. WellKept(d)
  <2>1. /\ BOUNDARY_POS(b, 1) = BEG /\ BEG <= b.buffer_end
        /\ \A i \in 1 .. cache_len(b) : BOUNDARY_POS(b, i) <= b.buffer_end
    <3>1. 1 \in 1 .. cache_len(c)
      BY <1>1
    <3>. QED BY <1>4, <1>7, <3>1
  <2>2. \A i, j \in 1 .. cache_len(b) :
         i < j /\ (i < s \/ i >= e) /\ (j < s \/ j >= e) => BOUNDARY_POS(b, i) < BOUNDARY_POS(b, j)
    <3>. SUFFICES ASSUME NEW i \in 1 .. cache_len(c), NEW j \in 1 .. cache_len(c), i < j,
                         j < s \/ j >= e
                  PROVE  BOUNDARY_POS(c, i) < BOUNDARY_POS(c, j)
      BY <1>4
    <3>1. j # s
      BY <1>5
    <3>. QED BY <1>7, <3>1
  <2>. QED BY <1>3, <1>5, <1>6, <2>1, <2>2, GoneLoose
<1>9. SameNumbers(c, d)
  BY <1>4, <1>6 DEF BoundariesGone, SameNumbers
<1>10. ASSUME NEW p \in Int, NEW i, 1 <= p, Rules(c, p, i)
       PROVE  ValueAt(d, p) = BOUNDARY_VALUE(c, i)
  <2>1. i \in 1 .. cache_len(c) /\ i \in Int /\ BOUNDARY_POS(c, i) <= p
        /\ \A j \in 1 .. cache_len(c) : i < j => p < BOUNDARY_POS(c, j)
    BY <1>10 DEF Rules
  <2>2. Rules(b, p, i)
    BY <1>4, <2>1 DEF Rules
  <2>3. i # g
    <3>. SUFFICES ASSUME i = g PROVE FALSE
      OBVIOUS
    <3>1. i < s /\ BOUNDARY_POS(c, s) <= p /\ BOUNDARY_POS(c, s) \in Int
      BY <1>1, <1>5, <2>1
    <3>2. p < BOUNDARY_POS(c, s)
      BY <1>1, <2>1, <3>1
    <3>. QED BY <1>10, <3>1, <3>2
  <2>4. BOUNDARY_VALUE(b, i) = BOUNDARY_VALUE(c, i)
    BY <1>4, <2>1, <2>3
  <2>5. CASE i < s
    <3>1. Rules(d, p, i) /\ BOUNDARY_VALUE(d, i) = BOUNDARY_VALUE(b, i)
      <4>1. RulesBefore(b, s, e, p, i)
        BY <1>5, <1>10, <2>2, <2>5 DEF RulesBefore
      <4>. QED BY <1>3, <1>6, <4>1, GoneBefore
    <3>. QED BY <1>8, <1>10, <2>4, <3>1, RulerTells
  <2>6. CASE i = s
    <3>1. s <= i /\ i < e
      BY <1>5, <2>6
    <3>2. BOUNDARY_POS(b, s - 1) <= p
      BY <1>1, <1>4, <1>5, <2>1, <2>6
    <3>3. Rules(d, p, s - 1) /\ BOUNDARY_VALUE(d, s - 1) = BOUNDARY_VALUE(b, s - 1)
      BY <1>3, <1>5, <1>6, <1>10, <2>2, <3>1, <3>2, GoneUnder
    <3>4. BOUNDARY_VALUE(b, s - 1) = BOUNDARY_VALUE(c, i)
      BY <1>1, <1>4, <1>5, <2>6
    <3>. QED BY <1>8, <1>10, <3>3, <3>4, RulerTells
  <2>7. CASE i > s
    <3>1. RulesAfter(b, s, e, p, i)
      BY <1>5, <1>10, <2>1, <2>2, <2>7 DEF RulesAfter
    <3>2. PICK l : Rules(d, p, l) /\ BOUNDARY_VALUE(d, l) = BOUNDARY_VALUE(b, i)
      BY <1>3, <1>6, <3>1, GoneAfter
    <3>. QED BY <1>8, <1>10, <2>4, <3>2, RulerTells
  <2>. QED BY <1>5, <2>1, <2>5, <2>6, <2>7
<1>. QED BY <1>8, <1>9, <1>10 DEF d, b, e, s, v, g

(* Collapse puts the two boundaries right and changes nothing that is known *)
LEMMA Collapsed ==
  ASSUME NEW c, NearlyKept(c)
  PROVE  /\ WellKept(Collapse(c)) /\ SameNumbers(c, Collapse(c))
         /\ \A p \in Int : \A i : 1 <= p /\ Rules(c, p, i) =>
              ValueAt(Collapse(c), p) = BOUNDARY_VALUE(c, i)
<1>. DEFINE g == c.gap_start
            x == g + 1
<1>1. /\ Array(c) /\ cache_len(c) \in Nat /\ g \in Int /\ g \in 1 .. cache_len(c)
      /\ \A i \in 1 .. cache_len(c) : BOUNDARY_POS(c, i) \in Int
  BY ArrayParts DEF NearlyKept
<1>2. x - 1 = g /\ x - 2 = g - 1 /\ x + 1 = g + 2 /\ ((x > 2) = (g > 1))
      /\ ((x <= cache_len(c)) = (x \in 1 .. cache_len(c)))
  BY <1>1
<1>3. Collapse(c) =
        IF x \in 1 .. cache_len(c) /\ BOUNDARY_POS(c, g) = BOUNDARY_POS(c, x)
        THEN IF g > 1 /\ BOUNDARY_VALUE(c, x) = BOUNDARY_VALUE(c, g - 1)
             THEN delete_cache_boundaries(c, g, g + 2)
             ELSE delete_cache_boundaries(SET_BOUNDARY_VALUE(c, g, BOUNDARY_VALUE(c, x)), x, g + 2)
        ELSE c
  BY <1>2 DEF Collapse
<1>4. CASE ~(x \in 1 .. cache_len(c) /\ BOUNDARY_POS(c, g) = BOUNDARY_POS(c, x))
  <2>1. Collapse(c) = c
    BY <1>3, <1>4
  <2>2. /\ BOUNDARY_POS(c, 1) = BEG /\ BEG <= c.buffer_end
        /\ \A i \in 1 .. cache_len(c) : BOUNDARY_POS(c, i) <= c.buffer_end
        /\ \A i, j \in 1 .. cache_len(c) : i < j =>
             /\ BOUNDARY_POS(c, i) <= BOUNDARY_POS(c, j)
             /\ i # g \/ j # x => BOUNDARY_POS(c, i) < BOUNDARY_POS(c, j)
    BY DEF NearlyKept
  <2>. HIDE DEF x, g
  <2>3. \A i, j \in 1 .. cache_len(c) : i < j => BOUNDARY_POS(c, i) < BOUNDARY_POS(c, j)
    <3>. SUFFICES ASSUME NEW i \in 1 .. cache_len(c), NEW j \in 1 .. cache_len(c), i < j
                  PROVE  BOUNDARY_POS(c, i) < BOUNDARY_POS(c, j)
      OBVIOUS
    <3>1. CASE i = g /\ j = x
      <4>1. BOUNDARY_POS(c, i) <= BOUNDARY_POS(c, j) /\ BOUNDARY_POS(c, i) # BOUNDARY_POS(c, j)
        BY <1>4, <2>2, <3>1
      <4>2. BOUNDARY_POS(c, i) \in Int /\ BOUNDARY_POS(c, j) \in Int
        BY <1>1
      <4>. QED BY <4>1, <4>2
    <3>2. CASE i # g \/ j # x
      BY <2>2, <3>2
    <3>. QED BY <3>1, <3>2
  <2>4. WellKept(c)
    BY <1>1, <2>2, <2>3 DEF WellKept
  <2>. QED BY <2>1, <2>4, RulerTells DEF SameNumbers
<1>5. CASE x \in 1 .. cache_len(c) /\ BOUNDARY_POS(c, g) = BOUNDARY_POS(c, x)
           /\ g > 1 /\ BOUNDARY_VALUE(c, x) = BOUNDARY_VALUE(c, g - 1)
  <2>1. Collapse(c) = delete_cache_boundaries(c, g, g + 2)
    BY <1>3, <1>5
  <2>. QED BY <1>5, <2>1, CollapseDrops
<1>6. CASE x \in 1 .. cache_len(c) /\ BOUNDARY_POS(c, g) = BOUNDARY_POS(c, x)
           /\ ~(g > 1 /\ BOUNDARY_VALUE(c, x) = BOUNDARY_VALUE(c, g - 1))
  <2>1. Collapse(c) =
          delete_cache_boundaries(SET_BOUNDARY_VALUE(c, g, BOUNDARY_VALUE(c, x)), x, g + 2)
    BY <1>3, <1>6
  <2>. QED BY <1>6, <2>1, CollapseJoins
<1>. QED BY <1>4, <1>5, <1>6

-------------------------------------------------------------------------------
(* revalidate_region_cache                                                   *)

(* A cache that was just put right for a buffer that ends at Z *)
Current(c, Z) == c.beg_unchanged = Z - BEG /\ c.end_unchanged = Z - BEG /\ c.buffer_end = Z

(* A cache some edits behind: the unchanged head and tail do not overlap, in *)
(* the text it was made for and in the text there is now                     *)
Stale(c, Z) ==
  /\ c.beg_unchanged >= 0 /\ c.end_unchanged >= 0
  /\ BEG + c.beg_unchanged + c.end_unchanged <= Z
  /\ BEG + c.beg_unchanged + c.end_unchanged <= c.buffer_end

CacheOK(c, Z) == WellKept(c) /\ (Current(c, Z) \/ Stale(c, Z))

(* The cache knows the character at P of a text that ends at Z, as part of   *)
(* the unchanged head or of the unchanged tail                               *)
Says(c, Z, p) ==
  \/ p < BEG + c.beg_unchanged /\ ValueAt(c, p) = 1
  \/ p >= Z - c.end_unchanged /\ ValueAt(c, p + c.buffer_end - Z) = 1

(* Put right, the cache D knows no more than C did *)
PutRight(c, d, Z) ==
  /\ WellKept(d) /\ Current(d, Z)
  /\ \A p \in BEG .. (Z - 1) : ValueAt(d, p) = 1 => Says(c, Z, p)

LEMMA CurrentOrStale ==
  ASSUME NEW c, NEW Z \in Int, CacheOK(c, Z)
  PROVE  /\ BEG <= Z
         /\ BEG + c.beg_unchanged > c.buffer_end - c.end_unchanged => Current(c, Z)
         /\ ~(BEG + c.beg_unchanged > c.buffer_end - c.end_unchanged) => Stale(c, Z)
<1>1. /\ c.buffer_end \in Int /\ c.beg_unchanged \in Int /\ c.end_unchanged \in Int
      /\ 1 <= c.buffer_end /\ BEG = 1
  BY KeptParts DEF CacheOK, BEG
<1>2. CASE Current(c, Z)
  BY <1>1, <1>2 DEF Current, Stale
<1>3. CASE Stale(c, Z)
  BY <1>1, <1>3 DEF Stale
<1>. QED BY <1>2, <1>3 DEF CacheOK

LEMMA RightNow ==
  ASSUME NEW c, NEW Z \in Int, WellKept(c), Current(c, Z)
  PROVE  PutRight(c, c, Z)
<1>1. Z \in Int /\ BEG + c.beg_unchanged = Z
  BY DEF Current, BEG
<1>2. \A p \in BEG .. (Z - 1) : ValueAt(c, p) = 1 => Says(c, Z, p)
  BY <1>1 DEF Says, BEG
<1>. QED BY <1>2 DEF PutRight

(* The unchanged head and tail meet: nothing is known of what is between     *)
(* them now                                                                  *)
LEMMA RightJoined ==
  ASSUME NEW c, NEW Z \in Int, WellKept(c), Stale(c, Z),
         BEG + c.beg_unchanged = c.buffer_end - c.end_unchanged
  PROVE  LET head == BEG + c.beg_unchanged
             e == set_cache_region(Rebase(c, head, Z), head, Z - c.end_unchanged, 0)
         IN  /\ WellKept(e) /\ e.buffer_end = Z
             /\ \A p \in BEG .. (Z - 1) : ValueAt(e, p) = 1 => Says(c, Z, p)
<1>. DEFINE head == BEG + c.beg_unchanged
            tail == c.buffer_end - c.end_unchanged
            T == tail + Z - c.buffer_end
            g == find_cache_boundary(c, head)
            d == Rebase(c, head, Z)
            e == set_cache_region(d, head, T, 0)
<1>1. /\ c.buffer_end \in Int /\ c.beg_unchanged \in Int /\ c.end_unchanged \in Int
      /\ cache_len(c) \in Nat /\ BEG = 1
      /\ \A i \in 1 .. cache_len(c) : BOUNDARY_POS(c, i) \in Int /\ BOUNDARY_POS(c, i) <= c.buffer_end
      /\ \A i, j \in 1 .. cache_len(c) : i < j => BOUNDARY_POS(c, i) < BOUNDARY_POS(c, j)
      /\ BOUNDARY_POS(c, 1) = 1 /\ 1 \in 1 .. cache_len(c)
  BY KeptParts DEF BEG
<1>2. /\ head \in Int /\ tail \in Int /\ T \in Int /\ head = tail /\ head <= T /\ T <= Z
      /\ BEG <= head /\ T = Z - c.end_unchanged /\ tail = T + c.buffer_end - Z
      /\ tail <= c.buffer_end
  BY <1>1 DEF Stale
<1>3. Rules(c, head, g) /\ MovedEnd(c, d, g, Z)
  BY <1>2, Rebased
<1>. HIDE DEF d, g, head, tail, T
<1>4. /\ g \in 1 .. cache_len(c) /\ BOUNDARY_POS(c, g) <= head /\ g \in Int
      /\ \A j \in 1 .. cache_len(c) : g < j => head < BOUNDARY_POS(c, j)
  BY <1>3 DEF Rules
<1>5. \A j \in 1 .. cache_len(c) : g < j => tail <= BOUNDARY_POS(c, j)
  BY <1>1, <1>2, <1>4
<1>6. /\ Array(d) /\ d.buffer_end = Z /\ cache_len(d) = cache_len(c)
      /\ \A i \in 1 .. cache_len(c) :
           /\ BOUNDARY_VALUE(d, i) = BOUNDARY_VALUE(c, i)
           /\ i <= g => BOUNDARY_POS(d, i) = BOUNDARY_POS(c, i)
           /\ i > g => BOUNDARY_POS(d, i) = BOUNDARY_POS(c, i) + Z - c.buffer_end
  BY <1>3 DEF MovedEnd
<1>7. WellKept(d)
  <2>1. BOUNDARY_POS(d, 1) = BEG /\ BEG <= d.buffer_end
    BY <1>1, <1>2, <1>4, <1>6
  <2>2. ASSUME NEW i \in 1 .. cache_len(c), NEW j \in 1 .. cache_len(c), i < j
        PROVE  BOUNDARY_POS(d, i) < BOUNDARY_POS(d, j)
    <3>1. BOUNDARY_POS(c, i) < BOUNDARY_POS(c, j) /\ BOUNDARY_POS(c, i) \in Int
          /\ BOUNDARY_POS(c, j) \in Int
      BY <1>1, <2>2
    <3>2. CASE j <= g
      BY <1>4, <1>6, <2>2, <3>1, <3>2
    <3>3. CASE i > g
      <4>1. BOUNDARY_POS(d, i) = BOUNDARY_POS(c, i) + Z - c.buffer_end
            /\ BOUNDARY_POS(d, j) = BOUNDARY_POS(c, j) + Z - c.buffer_end
        BY <1>4, <1>6, <2>2, <3>3
      <4>. QED BY <1>1, <3>1, <4>1
    <3>4. CASE i <= g /\ g < j
      <4>1. /\ BOUNDARY_POS(d, i) = BOUNDARY_POS(c, i) /\ head < BOUNDARY_POS(c, j)
            /\ BOUNDARY_POS(d, j) = BOUNDARY_POS(c, j) + Z - c.buffer_end
            /\ BOUNDARY_POS(c, g) \in Int
        BY <1>1, <1>4, <1>6, <3>4
      <4>2. i = g \/ BOUNDARY_POS(c, i) < BOUNDARY_POS(c, g)
        BY <1>1, <1>4, <3>4
      <4>3. BOUNDARY_POS(c, i) <= head
        BY <1>2, <1>4, <3>1, <4>1, <4>2
      <4>. QED BY <1>1, <1>2, <3>1, <4>1, <4>3
    <3>. QED BY <1>4, <3>2, <3>3, <3>4
  <2>3. ASSUME NEW i \in 1 .. cache_len(c)
        PROVE  BOUNDARY_POS(d, i) <= d.buffer_end
    <3>0. BOUNDARY_POS(c, i) \in Int /\ BOUNDARY_POS(c, i) <= c.buffer_end /\ BOUNDARY_POS(c, g) \in Int
      BY <1>1, <1>4
    <3>1. CASE i > g
      <4>1. BOUNDARY_POS(d, i) = BOUNDARY_POS(c, i) + Z - c.buffer_end
        BY <1>6, <3>1
      <4>. QED BY <1>1, <1>6, <3>0, <4>1
    <3>2. CASE i <= g
      <4>1. i = g \/ BOUNDARY_POS(c, i) < BOUNDARY_POS(c, g)
        BY <1>1, <1>4, <3>2
      <4>2. BOUNDARY_POS(c, i) <= head
        BY <1>2, <1>4, <3>0, <4>1
      <4>. QED BY <1>2, <1>6, <3>0, <3>2, <4>2
    <3>. QED BY <1>4, <3>1, <3>2
  <2>. QED BY <1>6, <2>1, <2>2, <2>3 DEF WellKept
<1>8. RegionSet(d, e, head, T, 0)
  BY <1>2, <1>6, <1>7, SetsRegion
<1>. HIDE DEF e
<1>9. WellKept(e) /\ e.buffer_end = Z
      /\ \A p \in BEG .. (Z - 1) : ValueAt(e, p) = IF head <= p /\ p < T THEN 0 ELSE ValueAt(d, p)
  BY <1>6, <1>8 DEF RegionSet, SameNumbers
<1>10. ASSUME NEW p \in BEG .. (Z - 1), ValueAt(e, p) = 1
       PROVE  Says(c, Z, p)
  <2>0. p \in Int /\ 1 <= p /\ p < Z /\ BEG <= p
    BY <1>1
  <2>1. ~(head <= p /\ p < T) /\ ValueAt(d, p) = 1
    BY <1>9, <1>10
  <2>2. /\ \A q \in Int : \A i : q < head /\ Rules(c, q, i) => Rules(d, q, i)
        /\ \A q \in Int : \A i : T <= q /\ Rules(c, q + c.buffer_end - Z, i) => Rules(d, q, i)
    <3>1. head <= tail /\ head <= tail + Z - c.buffer_end
      BY <1>2 DEF T
    <3>. QED BY <1>2, <1>3, <1>5, <3>1, MovedRules DEF T
  <2>3. CASE p < head
    <3>1. PICK i \in 1 .. cache_len(c) : Rules(c, p, i) /\ ValueAt(c, p) = BOUNDARY_VALUE(c, i)
      BY <2>0, Ruled
    <3>2. Rules(d, p, i)
      BY <2>0, <2>2, <2>3, <3>1
    <3>3. ValueAt(d, p) = BOUNDARY_VALUE(c, i)
      BY <1>6, <1>7, <2>0, <3>2, RulerTells
    <3>. QED BY <2>1, <2>3, <3>1, <3>3 DEF Says, head
  <2>4. CASE T <= p
    <3>. DEFINE q == p + c.buffer_end - Z
    <3>1. q \in Int /\ 1 <= q
      BY <1>1, <1>2, <2>0, <2>4
    <3>. HIDE DEF q
    <3>2. PICK i \in 1 .. cache_len(c) : Rules(c, q, i) /\ ValueAt(c, q) = BOUNDARY_VALUE(c, i)
      BY <3>1, Ruled
    <3>3. Rules(d, p, i)
      BY <2>0, <2>2, <2>4, <3>2 DEF q
    <3>4. ValueAt(d, p) = BOUNDARY_VALUE(c, i)
      BY <1>6, <1>7, <2>0, <3>3, RulerTells
    <3>5. p >= Z - c.end_unchanged
      BY <1>2, <2>4
    <3>. QED BY <2>1, <3>2, <3>4, <3>5 DEF Says, q
  <2>. QED BY <1>2, <2>0, <2>1, <2>3, <2>4
<1>11. e = set_cache_region(Rebase(c, head, Z), head, Z - c.end_unchanged, 0)
  BY <1>2 DEF e, d
<1>. QED BY <1>9, <1>10, <1>11 DEF head

(* Text lies between the unchanged head and tail: what was known of it is    *)
(* given up first                                                            *)
LEMMA RightApart ==
  ASSUME NEW c, NEW Z \in Int, WellKept(c), Stale(c, Z),
         BEG + c.beg_unchanged < c.buffer_end - c.end_unchanged
  PROVE  LET head == BEG + c.beg_unchanged
             e == Collapse(Rebase(set_cache_region(c, head, c.buffer_end - c.end_unchanged, 0), head, Z))
         IN  /\ WellKept(e) /\ e.buffer_end = Z
             /\ \A p \in BEG .. (Z - 1) : ValueAt(e, p) = 1 => Says(c, Z, p)
<1>. DEFINE head == BEG + c.beg_unchanged
            tail == c.buffer_end - c.end_unchanged
            T == tail + Z - c.buffer_end
            b == set_cache_region(c, head, tail, 0)
            g == find_cache_boundary(b, head)
            d == Rebase(b, head, Z)
            e == Collapse(d)
<1>1. /\ c.buffer_end \in Int /\ c.beg_unchanged \in Int /\ c.end_unchanged \in Int /\ BEG = 1
  BY KeptParts DEF BEG
<1>2. /\ head \in Int /\ tail \in Int /\ T \in Int /\ head < tail /\ head <= T /\ T <= Z
      /\ BEG <= head /\ T = Z - c.end_unchanged /\ tail = T + c.buffer_end - Z
      /\ tail <= c.buffer_end /\ head <= tail
  BY <1>1 DEF Stale
<1>. HIDE DEF head, tail, T
<1>3. RegionSet(c, b, head, tail, 0)
  BY <1>2, SetsRegion
<1>. HIDE DEF b
<1>4. /\ WellKept(b) /\ b.buffer_end = c.buffer_end
      /\ \A p \in BEG .. (c.buffer_end - 1) :
           ValueAt(b, p) = IF head <= p /\ p < tail THEN 0 ELSE ValueAt(c, p)
      /\ \A j \in 1 .. cache_len(b) : BOUNDARY_POS(b, j) <= head \/ tail <= BOUNDARY_POS(b, j)
  BY <1>3 DEF RegionSet, SameNumbers
<1>5. Rules(b, head, g) /\ MovedEnd(b, d, g, Z)
  BY <1>2, <1>4, Rebased
<1>. HIDE DEF d, g
<1>6. /\ cache_len(b) \in Nat /\ BOUNDARY_POS(b, 1) = 1 /\ 1 \in 1 .. cache_len(b)
      /\ \A i \in 1 .. cache_len(b) : BOUNDARY_POS(b, i) \in Int /\ BOUNDARY_POS(b, i) <= c.buffer_end
      /\ \A i, j \in 1 .. cache_len(b) : i < j => BOUNDARY_POS(b, i) < BOUNDARY_POS(b, j)
  BY <1>4, KeptParts
<1>7. /\ g \in 1 .. cache_len(b) /\ BOUNDARY_POS(b, g) <= head /\ g \in Int
      /\ \A j \in 1 .. cache_len(b) : g < j => head < BOUNDARY_POS(b, j)
  BY <1>5 DEF Rules
<1>8. \A j \in 1 .. cache_len(b) : g < j => tail <= BOUNDARY_POS(b, j)
  BY <1>2, <1>4, <1>6, <1>7
<1>9. /\ Array(d) /\ d.buffer_end = Z /\ cache_len(d) = cache_len(b) /\ d.gap_start = g
      /\ \A i \in 1 .. cache_len(b) :
           /\ BOUNDARY_VALUE(d, i) = BOUNDARY_VALUE(b, i)
           /\ i <= g => BOUNDARY_POS(d, i) = BOUNDARY_POS(b, i)
           /\ i > g => BOUNDARY_POS(d, i) = BOUNDARY_POS(b, i) + Z - c.buffer_end
  BY <1>4, <1>5 DEF MovedEnd
<1>10. NearlyKept(d)
  <2>1. BOUNDARY_POS(d, 1) = BEG /\ BEG <= d.buffer_end
    BY <1>1, <1>2, <1>6, <1>7, <1>9
  <2>2. ASSUME NEW i \in 1 .. cache_len(b), NEW j \in 1 .. cache_len(b), i < j
        PROVE  /\ BOUNDARY_POS(d, i) <= BOUNDARY_POS(d, j)
               /\ i # g \/ j # g + 1 => BOUNDARY_POS(d, i) < BOUNDARY_POS(d, j)
    <3>1. BOUNDARY_POS(b, i) < BOUNDARY_POS(b, j) /\ BOUNDARY_POS(b, i) \in Int
          /\ BOUNDARY_POS(b, j) \in Int /\ i \in Int /\ j \in Int
      BY <1>6, <2>2
    <3>2. CASE j <= g
      BY <1>7, <1>9, <2>2, <3>1, <3>2
    <3>3. CASE i > g
      <4>1. BOUNDARY_POS(d, i) = BOUNDARY_POS(b, i) + Z - c.buffer_end
            /\ BOUNDARY_POS(d, j) = BOUNDARY_POS(b, j) + Z - c.buffer_end
        BY <1>7, <1>9, <2>2, <3>3
      <4>. QED BY <1>1, <3>1, <4>1
    <3>4. CASE i <= g /\ g < j
      <4>1. /\ BOUNDARY_POS(d, i) = BOUNDARY_POS(b, i) /\ tail <= BOUNDARY_POS(b, j)
            /\ BOUNDARY_POS(d, j) = BOUNDARY_POS(b, j) + Z - c.buffer_end
            /\ BOUNDARY_POS(b, g) \in Int
        BY <1>6, <1>7, <1>8, <1>9, <3>4
      <4>2. i = g \/ BOUNDARY_POS(b, i) < BOUNDARY_POS(b, g)
        BY <1>6, <1>7, <3>4
      <4>3. BOUNDARY_POS(b, i) <= head /\ (i # g => BOUNDARY_POS(b, i) < head)
        BY <1>2, <1>7, <3>1, <4>1, <4>2
      <4>4. T <= BOUNDARY_POS(d, j) /\ BOUNDARY_POS(d, j) \in Int
        BY <1>1, <1>2, <3>1, <4>1
      <4>5. g + 1 \in 1 .. cache_len(b) /\ (j # g + 1 => g + 1 < j) /\ g < g + 1
        BY <1>6, <1>7, <3>1, <3>4
      <4>6. j # g + 1 => T < BOUNDARY_POS(d, j)
        <5>. SUFFICES ASSUME j # g + 1 PROVE T < BOUNDARY_POS(d, j)
          OBVIOUS
        <5>1. tail <= BOUNDARY_POS(b, g + 1) /\ BOUNDARY_POS(b, g + 1) < BOUNDARY_POS(b, j)
              /\ BOUNDARY_POS(b, g + 1) \in Int
          BY <1>6, <1>8, <4>5
        <5>. QED BY <1>1, <1>2, <3>1, <4>1, <5>1
      <4>. QED BY <1>2, <3>1, <4>1, <4>3, <4>4, <4>6
    <3>. QED BY <1>7, <3>1, <3>2, <3>3, <3>4
  <2>3. ASSUME NEW i \in 1 .. cache_len(b)
        PROVE  BOUNDARY_POS(d, i) <= d.buffer_end
    <3>0. BOUNDARY_POS(b, i) \in Int /\ BOUNDARY_POS(b, i) <= c.buffer_end /\ BOUNDARY_POS(b, g) \in Int
      BY <1>6, <1>7
    <3>1. CASE i > g
      <4>1. BOUNDARY_POS(d, i) = BOUNDARY_POS(b, i) + Z - c.buffer_end
        BY <1>9, <3>1
      <4>. QED BY <1>1, <1>9, <3>0, <4>1
    <3>2. CASE i <= g
      <4>1. i = g \/ BOUNDARY_POS(b, i) < BOUNDARY_POS(b, g)
        BY <1>6, <1>7, <3>2
      <4>2. BOUNDARY_POS(b, i) <= head
        BY <1>2, <1>7, <3>0, <4>1
      <4>. QED BY <1>2, <1>9, <3>0, <3>2, <4>2
    <3>. QED BY <1>7, <3>1, <3>2
  <2>. QED BY <1>9, <2>1, <2>2, <2>3 DEF NearlyKept
<1>11. /\ WellKept(e) /\ SameNumbers(d, e)
       /\ \A p \in Int : \A i : 1 <= p /\ Rules(d, p, i) => ValueAt(e, p) = BOUNDARY_VALUE(d, i)
  BY <1>10, Collapsed
<1>. HIDE DEF e
<1>12. /\ \A q \in Int : \A i : q < head /\ Rules(b, q, i) => Rules(d, q, i)
       /\ \A q \in Int : head <= q /\ q < T => Rules(d, q, g)
       /\ \A q \in Int : \A i : T <= q /\ Rules(b, q + c.buffer_end - Z, i) => Rules(d, q, i)
  <2>1. head <= tail + Z - b.buffer_end
    BY <1>2, <1>4 DEF T
  <2>. QED BY <1>2, <1>4, <1>5, <1>8, <2>1, MovedRules DEF T
<1>13. ASSUME NEW p \in BEG .. (Z - 1), ValueAt(e, p) = 1
       PROVE  Says(c, Z, p)
  <2>0. p \in Int /\ 1 <= p /\ p < Z /\ BEG <= p
    BY <1>1
  <2>1. CASE p < head
    <3>1. PICK i \in 1 .. cache_len(b) : Rules(b, p, i) /\ ValueAt(b, p) = BOUNDARY_VALUE(b, i)
      BY <1>4, <2>0, Ruled
    <3>2. ValueAt(e, p) = BOUNDARY_VALUE(d, i)
      BY <1>11, <1>12, <2>0, <2>1, <3>1
    <3>3. ValueAt(b, p) = ValueAt(c, p)
      <4>1. p \in BEG .. (c.buffer_end - 1) /\ ~(head <= p /\ p < tail)
        BY <1>1, <1>2, <2>0, <2>1
      <4>. QED BY <1>4, <4>1
    <3>. QED BY <1>9, <1>13, <2>1, <3>1, <3>2, <3>3 DEF Says, head
  <2>2. CASE head <= p /\ p < T
    <3>1. ValueAt(e, p) = BOUNDARY_VALUE(d, g)
      BY <1>11, <1>12, <2>0, <2>2
    <3>2. head \in BEG .. (c.buffer_end - 1) /\ head <= head /\ 1 <= head
      BY <1>1, <1>2
    <3>3. ValueAt(b, head) = 0
      BY <1>2, <1>4, <3>2
    <3>4. ValueAt(b, head) = BOUNDARY_VALUE(b, g)
      BY <1>2, <1>4, <1>5, <3>2, RulerTells
    <3>. QED BY <1>7, <1>9, <1>13, <3>1, <3>3, <3>4
  <2>3. CASE T <= p
    <3>. DEFINE q == p + c.buffer_end - Z
    <3>1. q \in Int /\ 1 <= q /\ tail <= q /\ q < c.buffer_end /\ BEG <= q
      BY <1>1, <1>2, <2>0, <2>3
    <3>2. T <= p /\ p + c.buffer_end - Z = q
      BY <2>3
    <3>. HIDE DEF q
    <3>3. PICK i \in 1 .. cache_len(b) : Rules(b, q, i) /\ ValueAt(b, q) = BOUNDARY_VALUE(b, i)
      BY <1>4, <3>1, Ruled
    <3>4. Rules(d, p, i)
      BY <1>12, <2>0, <3>2, <3>3
    <3>5. ValueAt(e, p) = BOUNDARY_VALUE(d, i)
      BY <1>11, <2>0, <3>4
    <3>6. ValueAt(b, q) = ValueAt(c, q)
      <4>1. q \in BEG .. (c.buffer_end - 1) /\ ~(head <= q /\ q < tail)
        BY <1>1, <1>2, <3>1
      <4>. QED BY <1>4, <4>1
    <3>7. p >= Z - c.end_unchanged
      BY <1>2, <2>3
    <3>8. ValueAt(c, q) = 1
      BY <1>9, <1>13, <3>3, <3>5, <3>6
    <3>. QED BY <3>2, <3>7, <3>8 DEF Says
  <2>. QED BY <1>2, <2>0, <2>1, <2>2, <2>3
<1>14. e.buffer_end = Z
  BY <1>9, <1>11 DEF SameNumbers
<1>15. e = Collapse(Rebase(set_cache_region(c, head, c.buffer_end - c.end_unchanged, 0), head, Z))
  BY DEF e, d, b, tail
<1>. QED BY <1>11, <1>13, <1>14, <1>15 DEF head

(* revalidate_region_cache makes no text known *)
LEMMA Revalidated ==
  ASSUME NEW c, NEW Z \in Int, CacheOK(c, Z)
  PROVE  PutRight(c, revalidate_region_cache(c, Z), Z)
<1>. DEFINE head == BEG + c.beg_unchanged
            tail == c.buffer_end - c.end_unchanged
            joined == set_cache_region(Rebase(c, head, Z), head, Z - c.end_unchanged, 0)
            apart == Collapse(Rebase(set_cache_region(c, head, tail, 0), head, Z))
            e == IF head = tail THEN joined ELSE apart
            n == Z - BEG
            d == WithNumbers(e, n, n)
<1>1. WellKept(c) /\ head \in Int /\ tail \in Int /\ n \in Int
  BY KeptParts DEF CacheOK, BEG
<1>2. revalidate_region_cache(c, Z) = IF head > tail THEN c ELSE d
  BY DEF revalidate_region_cache, WithNumbers
<1>3. CASE head > tail
  BY <1>1, <1>2, <1>3, CurrentOrStale, RightNow
<1>4. CASE ~(head > tail)
  <2>1. Stale(c, Z)
    BY <1>4, CurrentOrStale
  <2>2. WellKept(e) /\ e.buffer_end = Z /\ \A p \in BEG .. (Z - 1) : ValueAt(e, p) = 1 => Says(c, Z, p)
    <3>1. CASE head = tail
      BY <1>1, <2>1, <3>1, RightJoined
    <3>2. CASE head # tail
      <4>1. head < tail
        BY <1>1, <1>4, <3>2
      <4>. QED BY <1>1, <2>1, <3>2, <4>1, RightApart
    <3>. QED BY <3>1, <3>2
  <2>. HIDE DEF e, n
  <2>3. /\ WellKept(d) /\ d.beg_unchanged = n /\ d.end_unchanged = n /\ d.buffer_end = e.buffer_end
        /\ \A p : ValueAt(d, p) = ValueAt(e, p)
    BY <1>1, <2>2, Numbered
  <2>. HIDE DEF d
  <2>4. PutRight(c, d, Z)
    BY <2>2, <2>3 DEF PutRight, Current, n
  <2>. QED BY <1>2, <1>4, <2>4
<1>. QED BY <1>3, <1>4

-------------------------------------------------------------------------------
(* invalidate_region_cache                                                   *)

(* What is put right has its boundaries in order.                            *)
LEMMA OrderKept ==
  ASSUME NEW c, WellKept(c)
  PROVE  CacheInOrder(c)
<1>1. /\ c.gap_start \in 1 .. cache_len(c) /\ BOUNDARY_POS(c, 1) = BEG /\ cache_len(c) \in Nat
      /\ \A i, j \in 1 .. cache_len(c) : i < j => BOUNDARY_POS(c, i) < BOUNDARY_POS(c, j)
  BY KeptParts DEF WellKept, Array
<1>2. \A i \in 2 .. cache_len(c) :
        i - 1 \in 1 .. cache_len(c) /\ i \in 1 .. cache_len(c) /\ i - 1 < i
  BY <1>1
<1>3. \A i \in 2 .. cache_len(c) : BOUNDARY_POS(c, i - 1) < BOUNDARY_POS(c, i)
  BY <1>1, <1>2
<1>. QED BY <1>1, <1>3 DEF CacheInOrder

(* What the cache D says of a text that ends at Y, C said of the first HEAD  *)
(* or the last TAIL characters of a text that ended at Z                     *)
SaysOfEnds(c, d, head, tail, Z, Y) ==
  \A p \in BEG .. (Y - 1) : Says(d, Y, p) =>
    \/ p < BEG + head /\ p < Z /\ Says(c, Z, p)
    \/ /\ p >= Y - tail /\ p - Y + Z \in BEG .. (Z - 1)
       /\ Says(c, Z, p - Y + Z)

(* A cache that knows less is sound if the other one is.                     *)
LEMMA FewerSays ==
  ASSUME NEW c, NEW Z \in Int, CacheOK(c, Z), NEW Y \in Int,
         NEW head \in Int, NEW tail \in Int, 0 <= head, 0 <= tail,
         BEG + head + tail <= Z, BEG + head + tail <= Y
  PROVE  LET d == Narrow(c, head, tail) IN
         CacheOK(d, Y) /\ SaysOfEnds(c, d, head, tail, Z, Y)
<1>. DEFINE u == Min({c.beg_unchanged, head})
            v == Min({c.end_unchanged, tail})
            d == Narrow(c, head, tail)
<1>1. /\ c.buffer_end \in Int /\ c.beg_unchanged \in Int /\ c.end_unchanged \in Int
      /\ BEG = 1 /\ WellKept(c) /\ c \in Cache
  BY KeptParts DEF CacheOK, BEG, WellKept, Array
<1>2. /\ u \in Int /\ v \in Int /\ u <= c.beg_unchanged /\ u <= head
      /\ v <= c.end_unchanged /\ v <= tail
      /\ u = c.beg_unchanged \/ u = head
      /\ v = c.end_unchanged \/ v = tail
  BY <1>1, LessOf
<1>3. d = [c EXCEPT !.beg_unchanged = u, !.end_unchanged = v]
  BY <1>1 DEF Narrow, Cache
<1>. HIDE DEF u, v, d
<1>4. d = WithNumbers(c, u, v)
  BY <1>3 DEF WithNumbers
<1>5. /\ WellKept(d) /\ d.beg_unchanged = u /\ d.end_unchanged = v
      /\ d.buffer_end = c.buffer_end /\ \A p : ValueAt(d, p) = ValueAt(c, p)
  BY <1>1, <1>2, <1>4, Numbered
<1>6. Stale(d, Y)
  <2>1. CASE Current(c, Z)
    <3>1. u >= 0 /\ v >= 0
      BY <1>1, <1>2, <2>1 DEF Current
    <3>2. BEG + u + v <= Y /\ BEG + u + v <= c.buffer_end
      BY <1>1, <1>2, <2>1 DEF Current
    <3>. QED BY <1>5, <3>1, <3>2 DEF Stale
  <2>2. CASE Stale(c, Z)
    <3>1. u >= 0 /\ v >= 0
      BY <1>1, <1>2, <2>2 DEF Stale
    <3>2. BEG + u + v <= Y /\ BEG + u + v <= c.buffer_end
      BY <1>1, <1>2, <2>2 DEF Stale
    <3>. QED BY <1>5, <3>1, <3>2 DEF Stale
  <2>. QED BY <2>1, <2>2 DEF CacheOK
<1>7. ASSUME NEW p \in BEG .. (Y - 1), Says(d, Y, p)
      PROVE  \/ p < BEG + head /\ p < Z /\ Says(c, Z, p)
             \/ /\ p >= Y - tail /\ p - Y + Z \in BEG .. (Z - 1)
                /\ Says(c, Z, p - Y + Z)
  <2>0. p \in Int /\ p < Y /\ 1 <= p
    BY <1>1
  <2>1. CASE p < BEG + u /\ ValueAt(c, p) = 1
    <3>1. p < BEG + c.beg_unchanged /\ p < BEG + head /\ p < Z
      BY <1>1, <1>2, <2>0, <2>1
    <3>. QED BY <2>1, <3>1 DEF Says
  <2>2. CASE p >= Y - v /\ ValueAt(c, p + c.buffer_end - Y) = 1
    <3>. DEFINE q == p - Y + Z
    <3>1. /\ p >= Y - tail /\ q \in BEG .. (Z - 1)
          /\ q >= Z - c.end_unchanged /\ q + c.buffer_end - Z = p + c.buffer_end - Y
      BY <1>1, <1>2, <2>0, <2>2
    <3>. HIDE DEF q
    <3>2. Says(c, Z, q)
      BY <2>2, <3>1 DEF Says
    <3>. QED BY <3>1, <3>2 DEF q
  <2>. QED BY <1>5, <1>7, <2>1, <2>2 DEF Says
<1>8. CacheOK(d, Y) /\ SaysOfEnds(c, d, head, tail, Z, Y)
  BY <1>5, <1>6, <1>7 DEF CacheOK, SaysOfEnds
<1>. QED BY <1>8 DEF d

(* invalidate_region_cache keeps what is known of the two ends               *)
LEMMA Narrowed ==
  ASSUME NEW c, NEW Z \in Int, CacheOK(c, Z), NEW Y \in Int,
         NEW head \in Int, NEW tail \in Int, 0 <= head, 0 <= tail,
         BEG + head + tail <= Z, BEG + head + tail <= Y
  PROVE  LET d == invalidate_region_cache(c, head, tail, Z) IN
         CacheOK(d, Y) /\ SaysOfEnds(c, d, head, tail, Z, Y)
<1>. DEFINE b == revalidate_region_cache(c, Z)
            d == invalidate_region_cache(c, head, tail, Z)
<1>1. d = Narrow(c, head, tail) \/ d = Narrow(b, head, tail)
  BY DEF invalidate_region_cache
<1>2. PutRight(c, b, Z)
  BY Revalidated
<1>. HIDE DEF b, d
<1>3. CacheOK(b, Z) /\ \A p \in BEG .. (Z - 1) : Says(b, Z, p) => Says(c, Z, p)
  <2>1. WellKept(b) /\ Current(b, Z)
    BY <1>2 DEF PutRight
  <2>2. ASSUME NEW p \in BEG .. (Z - 1), Says(b, Z, p)
        PROVE  Says(c, Z, p)
    <3>1. b.buffer_end = Z /\ p \in Int /\ p + Z - Z = p
      BY <2>1 DEF Current, BEG
    <3>2. ValueAt(b, p) = 1
      BY <2>2, <3>1 DEF Says
    <3>. QED BY <1>2, <3>2 DEF PutRight
  <2>. QED BY <2>1, <2>2 DEF CacheOK
<1>4. CASE d = Narrow(c, head, tail)
  BY <1>4, FewerSays DEF d
<1>5. CASE d = Narrow(b, head, tail)
  <2>1. CacheOK(d, Y) /\ SaysOfEnds(b, d, head, tail, Z, Y)
    BY <1>3, <1>5, FewerSays
  <2>2. SaysOfEnds(c, d, head, tail, Z, Y)
    <3>. SUFFICES ASSUME NEW p \in BEG .. (Y - 1), Says(d, Y, p)
                  PROVE  \/ p < BEG + head /\ p < Z /\ Says(c, Z, p)
                         \/ /\ p >= Y - tail /\ p - Y + Z \in BEG .. (Z - 1)
                            /\ Says(c, Z, p - Y + Z)
      BY DEF SaysOfEnds
    <3>1. \/ p < BEG + head /\ p < Z /\ Says(b, Z, p)
          \/ /\ p >= Y - tail /\ p - Y + Z \in BEG .. (Z - 1)
             /\ Says(b, Z, p - Y + Z)
      BY <2>1 DEF SaysOfEnds
    <3>2. p < Z => p \in BEG .. (Z - 1)
      BY DEF BEG
    <3>. QED BY <1>3, <3>1, <3>2, Zenon
  <2>. QED BY <2>1, <2>2 DEF d
<1>. QED BY <1>1, <1>4, <1>5

-------------------------------------------------------------------------------
(* Text without newlines                                                     *)

(* What the cache knows has no newline in it. *)
Sound(c, Z, chars) == \A p \in BEG .. (Z - 1) : Says(c, Z, p) => chars[p] # Newline

(* The cache is told of the place of a change, and then the change is made   *)
LEMMA SpliceSound ==
  ASSUME NEW chars \in Seq(Char), NEW from \in Places(chars), NEW to \in Places(chars),
         from <= to, NEW new \in Seq(Char), NEW c, CacheOK(c, Len(chars) + 1)
  PROVE  LET Z == Len(chars) + 1
             S == Splice(chars, from, to, new)
             d == invalidate_region_cache(c, from - BEG, Z - to, Z)
         IN  /\ CacheOK(d, Len(S) + 1)
             /\ Sound(c, Z, chars) => Sound(d, Len(S) + 1, S)
<1>. DEFINE n == Len(chars)
            Z == n + 1
            S == Splice(chars, from, to, new)
            Y == Len(S) + 1
            head == from - BEG
            tail == Z - to
            d == invalidate_region_cache(c, head, tail, Z)
<1>1. /\ n \in Nat /\ Len(new) \in Nat /\ from \in Int /\ to \in Int
      /\ 1 <= from /\ to <= n + 1 /\ BEG = 1
  BY LenProperties DEF Places, BEG
<1>2. Len(S) = n + Len(new) - (to - from)
  BY SpliceType
<1>3. /\ \A i \in 1 .. from - 1 : S[i] = chars[i]
      /\ \A i \in Nat : i <= n - to => S[Len(S) - i] = chars[n - i]
  BY SpliceEnds
<1>. HIDE DEF n, S
<1>4. /\ Z \in Int /\ Y \in Int /\ head \in Int /\ tail \in Int /\ 0 <= head /\ 0 <= tail
      /\ BEG + head + tail <= Z /\ BEG + head + tail <= Y
  BY <1>1, <1>2
<1>5. CacheOK(c, Z)
  BY DEF n
<1>. HIDE DEF Z, Y, head, tail, d
<1>6. CacheOK(d, Y) /\ SaysOfEnds(c, d, head, tail, Z, Y)
  BY <1>4, <1>5, Narrowed DEF d
<1>7. ASSUME Sound(c, Z, chars), NEW p \in BEG .. (Y - 1), Says(d, Y, p)
      PROVE  S[p] # Newline
  <2>0. p \in Int /\ 1 <= p /\ p < Y /\ Y = Len(S) + 1 /\ Z = n + 1 /\ tail = Z - to
        /\ head = from - 1
    BY <1>1, <1>4 DEF Y, Z, tail, head
  <2>1. \/ p < BEG + head /\ p < Z /\ Says(c, Z, p)
        \/ /\ p >= Y - tail /\ p - Y + Z \in BEG .. (Z - 1)
           /\ Says(c, Z, p - Y + Z)
    BY <1>6, <1>7 DEF SaysOfEnds
  <2>2. CASE p < BEG + head /\ p < Z /\ Says(c, Z, p)
    <3>1. p \in 1 .. from - 1 /\ p \in BEG .. (Z - 1)
      BY <1>1, <1>4, <2>0, <2>2
    <3>. QED BY <1>3, <1>7, <2>2, <3>1 DEF Sound
  <2>3. CASE p >= Y - tail /\ p - Y + Z \in BEG .. (Z - 1) /\ Says(c, Z, p - Y + Z)
    <3>. DEFINE i == Len(S) - p
    <3>1. /\ i \in Nat /\ i <= n - to /\ Len(S) - i = p /\ n - i = p - Y + Z
      <4>1. /\ Len(S) \in Int /\ Y \in Int /\ Z \in Int /\ tail \in Int /\ n \in Int
            /\ Y = Len(S) + 1 /\ Z = n + 1 /\ tail = Z - to /\ p >= Y - tail /\ p < Y
            /\ p \in Int /\ to \in Int
        BY <1>1, <1>2, <1>4, <2>0, <2>3
      <4>. QED BY <4>1
    <3>. HIDE DEF i
    <3>2. S[p] = chars[p - Y + Z]
      <4>1. S[Len(S) - i] = chars[n - i]
        BY <1>3, <3>1
      <4>. QED BY <3>1, <4>1
    <3>. QED BY <1>7, <2>3, <3>2 DEF Sound
  <2>. QED BY <2>1, <2>2, <2>3
<1>8. CacheOK(d, Y) /\ (Sound(c, Z, chars) => Sound(d, Y, S))
  BY <1>6, <1>7 DEF Sound
<1>. QED BY <1>8 DEF d, Y, Z, head, tail, n, S

(* A new cache knows nothing. *)
LEMMA NewCache ==
  ASSUME NEW Z \in Int, BEG <= Z
  PROVE  CacheOK(new_region_cache, Z) /\ \A p \in BEG .. (Z - 1) : ~Says(new_region_cache, Z, p)
<1>. DEFINE c == new_region_cache
            b == <<[pos |-> 0, value |-> 0]>>
<1>1. /\ c.boundaries = b /\ c.gap_start = 1 /\ c.beg_unchanged = 0 /\ c.end_unchanged = 0
      /\ c.buffer_end = BEG /\ BEG = 1
  BY DEF new_region_cache, BEG
<1>2. b \in Seq([pos : Int, value : {0, 1}]) /\ Len(b) = 1 /\ b[1] = [pos |-> 0, value |-> 0]
  OBVIOUS
<1>3. c \in Cache
  BY <1>1, <1>2 DEF Cache, new_region_cache
<1>. HIDE DEF c, b
<1>4. /\ cache_len(c) = 1 /\ c.gap_start \in 1 .. cache_len(c)
      /\ BOUNDARY_POS(c, 1) = 1 /\ \A i \in 1 .. cache_len(c) : i = 1
  BY <1>1, <1>2 DEF cache_len, BOUNDARY_POS
<1>5. WellKept(c)
  BY <1>1, <1>3, <1>4 DEF WellKept, Array
<1>6. Stale(c, Z)
  BY <1>1 DEF Stale
<1>7. ASSUME NEW p \in BEG .. (Z - 1) PROVE ~Says(c, Z, p)
  BY <1>1, <1>7 DEF Says
<1>. QED BY <1>5, <1>6, <1>7 DEF CacheOK, c

-------------------------------------------------------------------------------
(* know_region_cache and region_cache_forward                                *)

LEMMA Least ==
  ASSUME NEW S, S \subseteq Nat, S # {}
  PROVE  Min(S) \in S /\ \A y \in S : Min(S) <= y
<1>1. PICK k \in S : \A y \in S : k <= y
  BY LeastNumber
<1>. QED BY <1>1 DEF Min

LEMMA CurrentSays ==
  ASSUME NEW c, NEW Z \in Int, Current(c, Z), NEW p \in BEG .. (Z - 1), Says(c, Z, p)
  PROVE  ValueAt(c, p) = 1
<1>1. c.buffer_end = Z /\ p \in Int /\ p + Z - Z = p
  BY DEF Current, BEG
<1>. QED BY <1>1 DEF Says

(* Put right, a cache knows nothing it did not know before.                  *)
LEMMA RightSound ==
  ASSUME NEW c, NEW Z \in Int, NEW d, PutRight(c, d, Z), NEW chars, Sound(c, Z, chars)
  PROVE  Sound(d, Z, chars)
<1>. SUFFICES ASSUME NEW p \in BEG .. (Z - 1), Says(d, Z, p) PROVE chars[p] # Newline
  BY DEF Sound
<1>1. ValueAt(d, p) = 1
  BY CurrentSays DEF PutRight
<1>2. Says(c, Z, p)
  BY <1>1 DEF PutRight
<1>. QED BY <1>2 DEF Sound

(* know_region_cache makes known what it is told and no more.                *)
LEMMA KnownSound ==
  ASSUME NEW c, NEW Z \in Int, CacheOK(c, Z), NEW start \in Int, NEW end \in Int,
         BEG <= start, start <= end, end <= Z, NEW chars
  PROVE  LET d == know_region_cache(c, start, end, Z) IN
         /\ CacheOK(d, Z)
         /\ Sound(c, Z, chars) /\ (\A p \in start .. (end - 1) : chars[p] # Newline)
              => Sound(d, Z, chars)
<1>. DEFINE b == revalidate_region_cache(c, Z)
            d == set_cache_region(b, start, end, 1)
<1>1. PutRight(c, b, Z)
  BY Revalidated
<1>. HIDE DEF b
<1>2. WellKept(b) /\ Current(b, Z) /\ b.buffer_end = Z
  BY <1>1 DEF PutRight, Current
<1>3. RegionSet(b, d, start, end, 1)
  BY <1>2, SetsRegion
<1>. HIDE DEF d
<1>4. /\ WellKept(d) /\ SameNumbers(b, d)
      /\ \A p \in BEG .. (Z - 1) :
           ValueAt(d, p) = IF start <= p /\ p < end THEN 1 ELSE ValueAt(b, p)
  BY <1>2, <1>3 DEF RegionSet
<1>5. Current(d, Z)
  BY <1>2, <1>4 DEF Current, SameNumbers
<1>6. ASSUME Sound(c, Z, chars), \A p \in start .. (end - 1) : chars[p] # Newline,
             NEW p \in BEG .. (Z - 1), Says(d, Z, p)
      PROVE  chars[p] # Newline
  <2>1. ValueAt(d, p) = 1
    BY <1>5, <1>6, CurrentSays
  <2>2. CASE start <= p /\ p < end
    <3>1. p \in start .. (end - 1)
      BY <2>2 DEF BEG
    <3>. QED BY <1>6, <3>1
  <2>3. CASE ~(start <= p /\ p < end)
    <3>1. ValueAt(b, p) = 1
      BY <1>4, <2>1, <2>3
    <3>. QED BY <1>1, <1>6, <3>1 DEF PutRight, Sound
  <2>. QED BY <2>2, <2>3
<1>7. CacheOK(d, Z) /\ (Sound(c, Z, chars) /\ (\A p \in start .. (end - 1) : chars[p] # Newline)
                          => Sound(d, Z, chars))
  BY <1>4, <1>5, <1>6 DEF CacheOK, Sound
<1>8. d = know_region_cache(c, start, end, Z)
  BY DEF know_region_cache, d, b
<1>. QED BY <1>7, <1>8

(* region_cache_forward answers for more than the character it is asked about *)
LEMMA Forward ==
  ASSUME NEW c, NEW Z \in Int, WellKept(c), Current(c, Z), NEW pos \in BEG .. (Z - 1)
  PROVE  LET r == region_cache_forward(c, pos, Z) IN
         r.value = ValueAt(c, pos) /\ r.next \in Int /\ pos < r.next /\ r.next <= Z
<1>. DEFINE i == find_cache_boundary(c, pos)
            others == {j \in (i + 1)..cache_len(c) : BOUNDARY_VALUE(c, j) # BOUNDARY_VALUE(c, i)}
            next == IF others = {} THEN Z ELSE BOUNDARY_POS(c, Min(others))
            r == region_cache_forward(c, pos, Z)
<1>1. /\ cache_len(c) \in Nat /\ BOUNDARY_POS(c, 1) = 1 /\ Array(c)
      /\ \A j \in 1 .. cache_len(c) : BOUNDARY_POS(c, j) \in Int /\ BOUNDARY_POS(c, j) <= c.buffer_end
  BY KeptParts
<1>2. pos \in Int /\ BEG = 1 /\ 1 <= pos /\ pos < Z /\ ~(pos >= Z) /\ c.buffer_end = Z
  BY DEF BEG, Current
<1>3. Rules(c, pos, i)
  BY <1>1, <1>2, RulerFound
<1>4. r.value = ValueAt(c, pos) /\ r.next = next
  BY <1>2 DEF region_cache_forward, ValueAt
<1>. HIDE DEF i, r
<1>5. i \in 1 .. cache_len(c) /\ i \in Int
      /\ \A j \in 1 .. cache_len(c) : i < j => pos < BOUNDARY_POS(c, j)
  BY <1>3 DEF Rules
<1>6. next \in Int /\ pos < next /\ next <= Z
  <2>1. CASE others = {}
    BY <1>2, <2>1
  <2>2. CASE others # {}
    <3>1. \A j \in others : j \in Nat /\ j \in 1 .. cache_len(c) /\ i < j
      BY <1>1, <1>5
    <3>2. Min(others) \in others
      <4>1. others \subseteq Nat
        BY <3>1
      <4>. HIDE DEF others
      <4>. QED BY <2>2, <4>1, Least
    <3>3. Min(others) \in 1 .. cache_len(c) /\ i < Min(others)
      BY <3>1, <3>2
    <3>4. next = BOUNDARY_POS(c, Min(others))
      BY <2>2
    <3>. HIDE DEF next, others
    <3>. QED BY <1>1, <1>2, <1>5, <3>3, <3>4
  <2>. QED BY <2>1, <2>2
<1>. QED BY <1>4, <1>6 DEF r

(* What is known of text that has just been put right is so.                 *)
LEMMA NoNewlineKnown ==
  ASSUME NEW c, NEW Z \in Int, CacheOK(c, Z), NEW chars, Sound(c, Z, chars),
         NEW p \in BEG .. (Z - 1),
         region_cache_forward(revalidate_region_cache(c, Z), p, Z).value = 1
  PROVE  chars[p] # Newline
<1>. DEFINE b == revalidate_region_cache(c, Z)
<1>1. PutRight(c, b, Z)
  BY Revalidated
<1>. HIDE DEF b
<1>2. WellKept(b) /\ Current(b, Z)
  BY <1>1 DEF PutRight
<1>3. region_cache_forward(b, p, Z).value = ValueAt(b, p)
  BY <1>2, Forward
<1>4. ValueAt(b, p) = 1
  BY <1>3 DEF b
<1>5. Says(c, Z, p)
  BY <1>1, <1>4 DEF PutRight
<1>. QED BY <1>5 DEF Sound

(* What one turn of find_newline leaves of the cache C                       *)
Searched(c, chars, start, lim, Z) ==
  LET b       == revalidate_region_cache(c, Z)
      r       == region_cache_forward(b, start, Z)
      ceiling == Min({r.next, lim})
      stops   == {i \in start..(ceiling - 1) : chars[i] = Newline}
  IN IF r.value = 1 \/ chars[start] = Newline THEN b
     ELSE know_region_cache(b, start, Min(stops \cup {ceiling}), Z)

LEMMA SearchedSound ==
  ASSUME NEW c, NEW Z \in Int, CacheOK(c, Z), NEW chars, NEW start \in BEG .. (Z - 1),
         NEW lim \in Int, start < lim, lim <= Z
  PROVE  LET d == Searched(c, chars, start, lim, Z) IN
         CacheOK(d, Z) /\ (Sound(c, Z, chars) => Sound(d, Z, chars))
<1>. DEFINE b == revalidate_region_cache(c, Z)
            r == region_cache_forward(b, start, Z)
            next == r.next
            ceiling == Min({next, lim})
            stops == {i \in start..(ceiling - 1) : chars[i] = Newline}
            all == stops \cup {ceiling}
            end == Min(all)
            e == know_region_cache(b, start, end, Z)
            d == Searched(c, chars, start, lim, Z)
<1>1. PutRight(c, b, Z)
  BY Revalidated
<1>2. d = b \/ d = e
  BY DEF Searched
<1>. HIDE DEF b, d
<1>3. WellKept(b) /\ Current(b, Z) /\ CacheOK(b, Z)
  BY <1>1 DEF PutRight, CacheOK
<1>4. next \in Int /\ start < next /\ next <= Z
  BY <1>3, Forward
<1>. HIDE DEF next
<1>5. start \in Int /\ 1 <= start /\ BEG = 1 /\ BEG <= start
  BY DEF BEG
<1>6. ceiling \in Int /\ start < ceiling /\ ceiling <= Z
  BY <1>4, LessOf
<1>. HIDE DEF ceiling
<1>7. all \subseteq Nat /\ all # {} /\ \A i \in all : start <= i
  BY <1>5, <1>6
<1>8. end \in all /\ \A y \in all : end <= y
  <2>. HIDE DEF all
  <2>. QED BY <1>7, Least
<1>9. end \in Int /\ start <= end /\ end <= ceiling /\ end <= Z
  <2>1. ceiling \in all /\ end \in Nat
    BY <1>7, <1>8
  <2>. HIDE DEF all, end
  <2>. QED BY <1>6, <1>7, <1>8, <2>1
<1>10. \A p \in start .. (end - 1) : chars[p] # Newline
  <2>. SUFFICES ASSUME NEW p \in start .. (end - 1), chars[p] = Newline PROVE FALSE
    OBVIOUS
  <2>. HIDE DEF end
  <2>1. p \in Int /\ p < end /\ p \in start .. (ceiling - 1)
    BY <1>5, <1>6, <1>9
  <2>2. p \in all
    BY <2>1
  <2>3. end <= p
    BY <1>8, <2>2
  <2>. QED BY <1>9, <2>1, <2>3
<1>. HIDE DEF end, all
<1>11. CacheOK(e, Z) /\ (Sound(b, Z, chars) => Sound(e, Z, chars))
  BY <1>3, <1>5, <1>9, <1>10, KnownSound
<1>12. Sound(c, Z, chars) => Sound(b, Z, chars)
  BY <1>1, RightSound
<1>. QED BY <1>2, <1>3, <1>11, <1>12 DEF d

-------------------------------------------------------------------------------
(* Which operators touch the newline cache                                   *)

SameCache(t, u) == DOMAIN t = Fields => DOMAIN u = Fields /\ u.newline_cache = t.newline_cache

LEMMA SameCacheTwice ==
  ASSUME NEW t, NEW u, NEW v, SameCache(t, u), SameCache(u, v)
  PROVE  SameCache(t, v)
BY DEF SameCache

LEMMA SameCacheBut ==
  ASSUME NEW t, NEW x
  PROVE  /\ SameCache(t, t)
         /\ SameCache(t, [t EXCEPT !.pt = x])
         /\ SameCache(t, [t EXCEPT !.markers = x])
         /\ SameCache(t, [t EXCEPT !.modiff = x])
         /\ SameCache(t, [t EXCEPT !.save_modiff = x])
         /\ SameCache(t, [t EXCEPT !.undo_list = x])
         /\ SameCache(t, [t EXCEPT !.beg_unchanged = x])
         /\ SameCache(t, [t EXCEPT !.end_unchanged = x])
BY DEF SameCache, Fields

LEMMA UndoAndCountsCache ==
  ASSUME NEW t
  PROVE  /\ \A beg, length : SameCache(t, RecordInsert(t, beg, length))
         /\ \A beg, chars, rm : SameCache(t, RecordDelete(t, beg, chars, rm))
         /\ \A len : SameCache(t, modiff_incr(t, len))
         /\ \A n, m : SameCache(t, adjust_point(t, n, m))
BY DEF SameCache, Fields, RecordInsert, RecordDelete, modiff_incr, adjust_point

LEMMA ViewCache ==
  ASSUME NEW t
  PROVE  /\ SameCache(t, LowerEnd(t)) /\ SameCache(t, LowerBoth(t))
         /\ \A s, e : SameCache(t, BUF_COMPUTE_UNCHANGED(t, s, e))
<1>1. SameCache(t, LowerEnd(t))
  BY DEF SameCache, Fields, LowerEnd
<1>2. SameCache(LowerEnd(t), LowerBoth(t))
  <2>. DEFINE u == LowerEnd(t)
  <2>1. LowerBoth(t) = [u EXCEPT !.beg_unchanged = Min({u.beg_unchanged, t.gpt.c - BEG})] 
        \/ DOMAIN u # Fields
    BY DEF LowerBoth, Fields
  <2>. HIDE DEF u
  <2>2. SameCache(u, LowerBoth(t))
    BY <2>1 DEF SameCache, Fields
  <2>. QED BY <2>2 DEF u
<1>3. SameCache(t, LowerBoth(t))
  BY <1>1, <1>2, SameCacheTwice
<1>4. \A s, e : SameCache(t, BUF_COMPUTE_UNCHANGED(t, s, e))
  BY DEF SameCache, Fields, BUF_COMPUTE_UNCHANGED
<1>. QED BY <1>1, <1>3, <1>4

LEMMA GapCache ==
  ASSUME NEW t
  PROVE  /\ \A p : SameCache(t, GapAt(t, p))
         /\ \A chars : SameCache(t, TakeIn(t, chars))
         /\ \A from, to : SameCache(t, GiveUp(t, from, to))
BY DEF SameCache, Fields, GapAt, TakeIn, GiveUp

LEMMA MotionCache ==
  ASSUME NEW t
  PROVE  /\ \A p, stop : SameCache(t, gap_motion(t, p, stop))
         /\ \A p : SameCache(t, move_gap_both(t, p))
         /\ \A from, to : SameCache(t, GapToward(t, from, to))
<1>1. \A v : \A p, stop : SameCache(v, gap_motion(v, p, stop))
  <2>. TAKE v, p, stop
  <2>. DEFINE u == BUF_COMPUTE_UNCHANGED(v, p.c, v.gpt.c)
  <2>1. SameCache(v, u)
    BY ViewCache
  <2>2. SameCache(u, GapAt(u, stop))
    BY GapCache
  <2>. QED BY <2>1, <2>2, SameCacheTwice DEF gap_motion
<1>2. \A p : SameCache(t, move_gap_both(t, p))
  BY <1>1, SameCacheBut DEF move_gap_both
<1>3. ASSUME NEW from, NEW to PROVE SameCache(t, GapToward(t, from, to))
  <2>. DEFINE right == IF from.c > t.gpt.c THEN gap_motion(t, from, from) ELSE t
  <2>1. SameCache(t, right)
    BY <1>1, SameCacheBut
  <2>2. SameCache(right, IF to.c < right.gpt.c THEN gap_motion(right, to, to) ELSE right)
    <3>. HIDE DEF right
    <3>. QED BY <1>1, SameCacheBut
  <2>3. GapToward(t, from, to) = IF to.c < right.gpt.c THEN gap_motion(right, to, to) ELSE right
    BY DEF GapToward
  <2>. HIDE DEF right
  <2>. QED BY <2>1, <2>2, <2>3, SameCacheTwice
<1>. QED BY <1>1, <1>2, <1>3

LEMMA MarkersCache ==
  ASSUME NEW t
  PROVE  /\ \A from, to : SameCache(t, adjust_markers_for_delete(t, from, to))
         /\ \A from, to, bm : SameCache(t, adjust_markers_for_insert(t, from, to, bm))
         /\ \A from, to, chars : SameCache(t, adjust_markers_for_replace(t, from, to, chars))
         /\ \A from : SameCache(t, adjust_markers_bytepos(t, from))
<1>1. \A from, to : SameCache(t, adjust_markers_for_delete(t, from, to))
  BY DEF SameCache, Fields, adjust_markers_for_delete
<1>2. \A from, to, bm : SameCache(t, adjust_markers_for_insert(t, from, to, bm))
  BY DEF SameCache, Fields, adjust_markers_for_insert
<1>3. ASSUME NEW from, NEW to, NEW chars
      PROVE  SameCache(t, adjust_markers_for_replace(t, from, to, chars))
  <2>1. CASE from = to
    BY <1>2, <2>1 DEF adjust_markers_for_replace
  <2>2. CASE from # to
    BY <2>2 DEF SameCache, Fields, adjust_markers_for_replace
  <2>. QED BY <2>1, <2>2
<1>4. \A from : SameCache(t, adjust_markers_bytepos(t, from))
  BY DEF SameCache, Fields, adjust_markers_bytepos
<1>. QED BY <1>1, <1>2, <1>3, <1>4

(* U is T after its cache was told of a change from START to END.            *)
Narrower(t, u, start, end) ==
  DOMAIN t = Fields =>
    /\ DOMAIN u = Fields
    /\ u.newline_cache = IF t.newline_cache = Nil THEN Nil
                         ELSE invalidate_region_cache(t.newline_cache, start - BEG, t.z.c - end, t.z.c)

LEMMA NarrowerThenSame ==
  ASSUME NEW t, NEW u, NEW v, NEW start, NEW end, Narrower(t, u, start, end), SameCache(u, v)
  PROVE  Narrower(t, v, start, end)
BY DEF Narrower, SameCache

LEMMA SameThenNarrower ==
  ASSUME NEW t, NEW u, NEW v, NEW start, NEW end, SameCache(t, u), u.z = t.z,
         Narrower(u, v, start, end)
  PROVE  Narrower(t, v, start, end)
BY DEF Narrower, SameCache

LEMMA CachesNarrower ==
  ASSUME NEW t, NEW start, NEW end
  PROVE  Narrower(t, invalidate_buffer_caches(t, start, end), start, end)
BY DEF Narrower, invalidate_buffer_caches, Fields

LEMMA InsertCache ==
  ASSUME NEW t, NEW chars, NEW before_markers
  PROVE  Narrower(t, insert_1_both(t, chars, before_markers), t.pt.c, t.pt.c)
<1>. DEFINE n == Len(chars)
            k == Bytes(chars)
            v0 == invalidate_buffer_caches(t, t.pt.c, t.pt.c)
            v1 == move_gap_both(v0, t.pt)
            v2 == RecordInsert(v1, t.pt.c, n)
            v3 == modiff_incr(v2, n)
            v4 == TakeIn(v3, chars)
            v5 == LowerEnd(v4)
            v6 == adjust_markers_for_insert(v5, t.pt, Shift(t.pt, n, k), before_markers)
            v7 == adjust_point(v6, n, k)
<1>0. insert_1_both(t, chars, before_markers) = v7
  BY DEF insert_1_both
<1>1. Narrower(t, v0, t.pt.c, t.pt.c)
  BY CachesNarrower
<1>2. SameCache(v0, v1) /\ SameCache(v1, v2) /\ SameCache(v2, v3) /\ SameCache(v3, v4)
      /\ SameCache(v4, v5) /\ SameCache(v5, v6) /\ SameCache(v6, v7)
  <2>1. SameCache(v0, v1)
    <3>. HIDE DEF v0
    <3>. QED BY MotionCache
  <2>2. SameCache(v1, v2)
    <3>. HIDE DEF v1
    <3>. QED BY UndoAndCountsCache
  <2>3. SameCache(v2, v3)
    <3>. HIDE DEF v2
    <3>. QED BY UndoAndCountsCache
  <2>4. SameCache(v3, v4)
    <3>. HIDE DEF v3
    <3>. QED BY GapCache
  <2>5. SameCache(v4, v5)
    <3>. HIDE DEF v4
    <3>. QED BY ViewCache
  <2>6. SameCache(v5, v6)
    <3>. HIDE DEF v5
    <3>. QED BY MarkersCache
  <2>7. SameCache(v6, v7)
    <3>. HIDE DEF v6
    <3>. QED BY UndoAndCountsCache
  <2>. QED BY <2>1, <2>2, <2>3, <2>4, <2>5, <2>6, <2>7
<1>. HIDE DEF v0, v1, v2, v3, v4, v5, v6, v7
<1>3. Narrower(t, v7, t.pt.c, t.pt.c)
  BY <1>1, <1>2 DEF Narrower, SameCache
<1>. QED BY <1>0, <1>3

LEMMA InsertFromGapCache ==
  ASSUME NEW t, NEW chars, NEW before_markers
  PROVE  Narrower(t, insert_from_gap(t, chars, before_markers), t.gpt.c, t.gpt.c)
<1>. DEFINE n == Len(chars)
            k == Bytes(chars)
            v0 == invalidate_buffer_caches(t, t.gpt.c, t.gpt.c)
            v1 == RecordInsert(v0, t.gpt.c, n)
            v2 == modiff_incr(v1, n)
            v3 == TakeIn(v2, chars)
            v4 == adjust_markers_for_insert(v3, t.gpt, Shift(t.gpt, n, k), before_markers)
            v5 == IF t.gpt.c < t.pt.c THEN adjust_point(v4, n, k) ELSE v4
<1>0. insert_from_gap(t, chars, before_markers) = v5
  BY DEF insert_from_gap
<1>1. Narrower(t, v0, t.gpt.c, t.gpt.c)
  BY CachesNarrower
<1>2. SameCache(v0, v1) /\ SameCache(v1, v2) /\ SameCache(v2, v3) /\ SameCache(v3, v4)
      /\ SameCache(v4, v5)
  <2>1. SameCache(v0, v1)
    <3>. HIDE DEF v0
    <3>. QED BY UndoAndCountsCache
  <2>2. SameCache(v1, v2)
    <3>. HIDE DEF v1
    <3>. QED BY UndoAndCountsCache
  <2>3. SameCache(v2, v3)
    <3>. HIDE DEF v2
    <3>. QED BY GapCache
  <2>4. SameCache(v3, v4)
    <3>. HIDE DEF v3
    <3>. QED BY MarkersCache
  <2>5. SameCache(v4, v5)
    <3>. HIDE DEF v4
    <3>. QED BY UndoAndCountsCache, SameCacheBut
  <2>. QED BY <2>1, <2>2, <2>3, <2>4, <2>5
<1>. HIDE DEF v0, v1, v2, v3, v4, v5
<1>3. Narrower(t, v5, t.gpt.c, t.gpt.c)
  BY <1>1, <1>2 DEF Narrower, SameCache
<1>. QED BY <1>0, <1>3

LEMMA DeleteCache ==
  ASSUME NEW t, NEW from, NEW to
  PROVE  SameCache(t, del_range_2(t, from, to))
<1>. DEFINE v0 == GapToward(t, from, to)
            v1 == RecordDelete(v0, from.c, Between(t, from.c, to.c), TRUE)
            v2 == adjust_markers_for_delete(v1, from, to)
            v3 == modiff_incr(v2, to.c - from.c)
            past == IF Less(to, t.pt) THEN to ELSE t.pt
            v4 == IF Less(from, t.pt) THEN adjust_point(v3, from.c - past.c, from.b - past.b) ELSE v3
            v5 == GiveUp(v4, from, to)
            v6 == LowerBoth(v5)
<1>0. del_range_2(t, from, to) = v6
  BY DEF del_range_2
<1>1. SameCache(t, v0) /\ SameCache(v0, v1) /\ SameCache(v1, v2) /\ SameCache(v2, v3)
      /\ SameCache(v3, v4) /\ SameCache(v4, v5) /\ SameCache(v5, v6)
  <2>1. SameCache(t, v0)
    BY MotionCache
  <2>2. SameCache(v0, v1)
    <3>. HIDE DEF v0
    <3>. QED BY UndoAndCountsCache
  <2>3. SameCache(v1, v2)
    <3>. HIDE DEF v1
    <3>. QED BY MarkersCache
  <2>4. SameCache(v2, v3)
    <3>. HIDE DEF v2
    <3>. QED BY UndoAndCountsCache
  <2>5. SameCache(v3, v4)
    <3>. HIDE DEF v3, past
    <3>. QED BY UndoAndCountsCache, SameCacheBut
  <2>6. SameCache(v4, v5)
    <3>. HIDE DEF v4
    <3>. QED BY GapCache
  <2>7. SameCache(v5, v6)
    <3>. HIDE DEF v5
    <3>. QED BY ViewCache
  <2>. QED BY <2>1, <2>2, <2>3, <2>4, <2>5, <2>6, <2>7
<1>. HIDE DEF v0, v1, v2, v3, v4, v5, v6
<1>2. SameCache(t, v6)
  BY <1>1 DEF SameCache
<1>. QED BY <1>0, <1>2

LEMMA ReplaceCache ==
  ASSUME NEW t, NEW from, NEW to, NEW chars
  PROVE  Narrower(t, replace_range(t, from, to, chars), from.c, to.c)
<1>. DEFINE n == Len(chars)
            k == Bytes(chars)
            v0 == invalidate_buffer_caches(t, from.c, to.c)
            v1 == GapToward(v0, from, to)
            v2 == GiveUp(v1, from, to)
            v3 == LowerBoth(v2)
            v4 == RecordInsert(v3, to.c, n)
            v5 == RecordDelete(v4, from.c, Between(t, from.c, to.c), FALSE)
            v6 == TakeIn(v5, chars)
            v7 == adjust_markers_for_replace(v6, from, to, chars)
            past == IF Less(to, t.pt) THEN to ELSE t.pt
            v8 == IF Less(from, t.pt) \/ t.pt.c = to.c
                  THEN adjust_point(v7, from.c + n - past.c, from.b + k - past.b)
                  ELSE v7
            v9 == modiff_incr(v8, (to.c - from.c) + n)
<1>0. replace_range(t, from, to, chars) = v9
  BY DEF replace_range
<1>1. Narrower(t, v0, from.c, to.c)
  BY CachesNarrower
<1>2. SameCache(v0, v1) /\ SameCache(v1, v2) /\ SameCache(v2, v3) /\ SameCache(v3, v4)
      /\ SameCache(v4, v5) /\ SameCache(v5, v6) /\ SameCache(v6, v7) /\ SameCache(v7, v8)
      /\ SameCache(v8, v9)
  <2>1. SameCache(v0, v1)
    <3>. HIDE DEF v0
    <3>. QED BY MotionCache
  <2>2. SameCache(v1, v2)
    <3>. HIDE DEF v1
    <3>. QED BY GapCache
  <2>3. SameCache(v2, v3)
    <3>. HIDE DEF v2
    <3>. QED BY ViewCache
  <2>4. SameCache(v3, v4)
    <3>. HIDE DEF v3
    <3>. QED BY UndoAndCountsCache
  <2>5. SameCache(v4, v5)
    <3>. HIDE DEF v4
    <3>. QED BY UndoAndCountsCache
  <2>6. SameCache(v5, v6)
    <3>. HIDE DEF v5
    <3>. QED BY GapCache
  <2>7. SameCache(v6, v7)
    <3>. HIDE DEF v6
    <3>. QED BY MarkersCache
  <2>8. SameCache(v7, v8)
    <3>. HIDE DEF v7, past
    <3>. QED BY UndoAndCountsCache, SameCacheBut
  <2>9. SameCache(v8, v9)
    <3>. HIDE DEF v8
    <3>. QED BY UndoAndCountsCache
  <2>. QED BY <2>1, <2>2, <2>3, <2>4, <2>5, <2>6, <2>7, <2>8, <2>9
<1>. HIDE DEF v0, v1, v2, v3, v4, v5, v6, v7, v8, v9
<1>3. Narrower(t, v9, from.c, to.c)
  BY <1>1, <1>2 DEF Narrower, SameCache
<1>. QED BY <1>0, <1>3

LEMMA TurnCache ==
  ASSUME NEW a, NEW ch
  PROVE  SameCache(a.t, casify_one(a, ch).t)
<1>1. ASSUME NEW t, NEW from, NEW to, NEW chars
      PROVE  SameCache(t, replace_range_2(t, from, to, chars))
  <2>. DEFINE n == Len(chars)
              v0 == GapToward(t, from, to)
              v1 == GiveUp(v0, from, to)
              v2 == LowerBoth(v1)
              v3 == TakeIn(v2, chars)
              v4 == adjust_markers_bytepos(v3, from)
              v5 == IF Less(from, t.pt)
                    THEN adjust_point(v4, n - (to.c - from.c), Bytes(chars) - (to.b - from.b))
                    ELSE v4
              v6 == modiff_incr(v5, (to.c - from.c) + n)
  <2>0. replace_range_2(t, from, to, chars) = v6
    BY DEF replace_range_2
  <2>1. SameCache(t, v0)
    BY MotionCache
  <2>2. SameCache(v0, v1)
    <3>. HIDE DEF v0
    <3>. QED BY GapCache
  <2>3. SameCache(v1, v2)
    <3>. HIDE DEF v1
    <3>. QED BY ViewCache
  <2>4. SameCache(v2, v3)
    <3>. HIDE DEF v2
    <3>. QED BY GapCache
  <2>5. SameCache(v3, v4)
    <3>. HIDE DEF v3
    <3>. QED BY MarkersCache
  <2>6. SameCache(v4, v5)
    <3>. HIDE DEF v4
    <3>. QED BY UndoAndCountsCache, SameCacheBut
  <2>7. SameCache(v5, v6)
    <3>. HIDE DEF v5
    <3>. QED BY UndoAndCountsCache
  <2>. HIDE DEF v0, v1, v2, v3, v4, v5, v6
  <2>8. SameCache(t, v6)
    BY <2>1, <2>2, <2>3, <2>4, <2>5, <2>6, <2>7 DEF SameCache
  <2>. QED BY <2>0, <2>8
<1>2. ASSUME NEW t, NEW c, NEW x
      PROVE  SameCache(t, Overwrite(t, c, x))
  BY DEF SameCache, Overwrite, Fields
<1>3. casify_one(a, ch).t =
        IF Upcase[ch] = <<ch>> THEN a.t
        ELSE IF Len(Upcase[ch]) = 1 /\ Bytes(Upcase[ch]) = CharLen[ch]
        THEN Overwrite(a.t, a.pos, Upcase[ch][1])
        ELSE replace_range_2(a.t, Both(a.t, a.pos), Shift(Both(a.t, a.pos), 1, CharLen[ch]), Upcase[ch])
  BY Zenon DEF casify_one
<1>4. \/ casify_one(a, ch).t = a.t
      \/ \E c, x : casify_one(a, ch).t = Overwrite(a.t, c, x)
      \/ \E from, to, chars : casify_one(a, ch).t = replace_range_2(a.t, from, to, chars)
  BY <1>3, Zenon
<1>5. SameCache(a.t, a.t)
  BY SameCacheBut
<1>. QED BY <1>1, <1>2, <1>4, <1>5, Zenon

LEMMA TurnsCache ==
  ASSUME NEW first, NEW chars, NEW from \in Nat, NEW to \in Nat, from <= to,
         NEW g, Turns(g, first, chars, from, to)
  PROVE  SameCache(first, g[to].t)
<1>. DEFINE S == {k \in Nat : k <= to - from => SameCache(first, g[from + k].t)}
<1>1. 0 \in S
  <2>1. from + 0 = from /\ g[from].t = first
    BY DEF Turns
  <2>. QED BY <2>1, SameCacheBut
<1>2. ASSUME NEW k \in Nat, k \in S
      PROVE  k + 1 \in S
  <2>1. SUFFICES ASSUME k + 1 <= to - from
                 PROVE  SameCache(first, g[from + (k + 1)].t)
    OBVIOUS
  <2>. DEFINE i == from + k
  <2>2. i \in from .. to - 1 /\ from + (k + 1) = i + 1 /\ k <= to - from
    BY <2>1
  <2>3. SameCache(first, g[i].t)
    BY <1>2, <2>2
  <2>. HIDE DEF i
  <2>4. g[i + 1] = casify_one(g[i], chars[i])
    BY <2>2 DEF Turns
  <2>5. SameCache(g[i].t, g[i + 1].t)
    BY <2>4, TurnCache
  <2>. QED BY <2>2, <2>3, <2>5, SameCacheTwice
<1>3. \A k \in Nat : k \in S
  <2>. HIDE DEF S
  <2>. QED BY <1>1, <1>2, SetInduction
<1>4. to - from \in Nat /\ from + (to - from) = to /\ to - from <= to - from
  OBVIOUS
<1>. QED BY <1>3, <1>4

LEMMA CasifyCache ==
  ASSUME NEW t, NEW from \in Nat, NEW to \in Nat, from <= to
  PROVE  Narrower(t, casify_region(t, from, to), from, to)
<1>. DEFINE v0 == invalidate_buffer_caches(t, from, to)
            v1 == BUF_COMPUTE_UNCHANGED(v0, from - 1, to)
            v2 == IF Clean(t) THEN [v1 EXCEPT !.undo_list = record_first_change(v1.undo_list)] ELSE v1
            v3 == modify_text(t, from, to)
            v4 == RecordDelete(v3, from, Between(t, from, to), FALSE)
            u == casify_region(t, from, to)
<1>1. v3 = modiff_incr(v2, to - from)
  BY DEF modify_text
<1>2. Narrower(t, v0, from, to)
  BY CachesNarrower
<1>3. SameCache(v0, v1)
  <2>. HIDE DEF v0
  <2>. QED BY ViewCache
<1>4. SameCache(v1, v2)
  <2>. HIDE DEF v1
  <2>. QED BY SameCacheBut
<1>5. SameCache(v2, v3)
  <2>. HIDE DEF v2, v3
  <2>. QED BY <1>1, UndoAndCountsCache
<1>6. SameCache(v3, v4)
  <2>. HIDE DEF v3
  <2>. QED BY UndoAndCountsCache
<1>7. PICK g : /\ Turns(g, v4, Chars(t), from, to)
               /\ u = RecordInsert(g[to].t, from, g[to].pos - from)
  BY CasifyByTurns
<1>. HIDE DEF v0, v1, v2, v3, v4, u
<1>8. SameCache(v4, g[to].t)
  BY <1>7, TurnsCache
<1>9. SameCache(g[to].t, u)
  BY <1>7, UndoAndCountsCache
<1>10. Narrower(t, u, from, to)
  BY <1>2, <1>3, <1>4, <1>5, <1>6, <1>8, <1>9 DEF Narrower, SameCache
<1>. QED BY <1>10 DEF u

-------------------------------------------------------------------------------
(* The invariant: the newline cache                                          *)

LEMMA GoodEnd ==
  ASSUME NEW t, Good(t)
  PROVE  /\ DOMAIN t = Fields /\ Chars(t) \in Seq(Char) /\ Len(Chars(t)) \in Nat
         /\ t.z.c = Len(Chars(t)) + 1 /\ t.z.c \in Int /\ t.z.c \in Nat /\ BEG <= t.z.c
<1>1. DOMAIN t = Fields /\ Chars(t) \in Seq(Char) /\ Len(Chars(t)) \in Nat
  BY GoodParts
<1>2. t.z.c = Len(Chars(t)) + 1
  BY DEF Good, GapPlaced, Place
<1>. QED BY <1>1, <1>2 DEF BEG

(* An edit whose place the cache was told *)
LEMMA EditKept ==
  ASSUME NEW t, Good(t), NEW u, Good(u), NEW from \in Places(Chars(t)), NEW to \in Places(Chars(t)),
         from <= to, NEW new \in Seq(Char), Chars(u) = Splice(Chars(t), from, to, new),
         Narrower(t, u, from, to), CacheOK(t.newline_cache, t.z.c)
  PROVE  /\ CacheOK(u.newline_cache, u.z.c)
         /\ Sound(t.newline_cache, t.z.c, Chars(t)) => Sound(u.newline_cache, u.z.c, Chars(u))
<1>. DEFINE C == Chars(t)
            S == Chars(u)
            c == t.newline_cache
            d == u.newline_cache
<1>1. /\ DOMAIN t = Fields /\ C \in Seq(Char) /\ t.z.c = Len(C) + 1 /\ u.z.c = Len(S) + 1
      /\ S = Splice(C, from, to, new)
  BY GoodEnd
<1>2. c # Nil
  BY GapBufferAssumption DEF CacheOK, WellKept, Array
<1>3. d = invalidate_region_cache(c, from - BEG, t.z.c - to, t.z.c)
  BY <1>1, <1>2 DEF Narrower
<1>4. CacheOK(c, Len(C) + 1) /\ from \in Places(C) /\ to \in Places(C)
  BY <1>1
<1>. HIDE DEF C, S, c, d
<1>5. /\ CacheOK(d, Len(S) + 1)
      /\ Sound(c, Len(C) + 1, C) => Sound(d, Len(S) + 1, S)
  BY <1>1, <1>3, <1>4, SpliceSound
<1>. QED BY <1>1, <1>5 DEF C, S, c, d

LEMMA SpliceGrows ==
  ASSUME NEW t, Good(t), NEW u, Good(u), NEW from \in Places(Chars(t)), NEW to \in Places(Chars(t)),
         from <= to, NEW new \in Seq(Char), Chars(u) = Splice(Chars(t), from, to, new)
  PROVE  u.z.c = t.z.c + Len(new) - (to - from) /\ Len(new) \in Nat
<1>. DEFINE C == Chars(t)
            n == Len(new)
<1>1. C \in Seq(Char) /\ Len(C) \in Nat /\ t.z.c = Len(C) + 1 /\ u.z.c = Len(Chars(u)) + 1
  BY GoodEnd
<1>2. from \in Places(C) /\ to \in Places(C) /\ Chars(u) = Splice(C, from, to, new)
  OBVIOUS
<1>. HIDE DEF C
<1>3. from \in Int /\ to \in Int /\ n \in Nat
  BY <1>1, <1>2, LenProperties DEF Places
<1>4. Len(Splice(C, from, to, new)) = Len(C) + n - (to - from)
  BY <1>1, <1>2, <1>3, SpliceType
<1>. HIDE DEF n
<1>5. u.z.c = t.z.c + n - (to - from)
  BY <1>1, <1>2, <1>3, <1>4
<1>. QED BY <1>3, <1>5 DEF n

(* The cache is in order, what it knows has no newline in it as long as it   *)
(* was told the right places, and a deletion that waits for its hook lies in *)
(* the text.                                                                 *)
CacheKept(t) ==
  /\ CacheOK(t.newline_cache, t.z.c)
  /\ ~hooked => Sound(t.newline_cache, t.z.c, Chars(t))

PendingKept ==
  pending # Nil => /\ BEG <= pending.start /\ pending.end <= buf.z.c
                   /\ ~hooked => pending.from = pending.start

CInv == IInv /\ (Looks("cache") => CacheKept(buf) /\ PendingKept)

(* A new cache knows nothing.                                                *)
LEMMA CacheInit == Init => CInv
<1>. SUFFICES ASSUME Init PROVE CInv
  OBVIOUS
<1>0. IInv /\ Good(buf)
  BY InitGood DEF IInv
<1>. SUFFICES ASSUME Looks("cache") PROVE CacheKept(buf) /\ PendingKept
  BY <1>0 DEF CInv
<1>1. pending = Nil /\ setup.looks = "cache"
  BY DEF Init, Looks
<1>2. buf.newline_cache = new_region_cache
  BY <1>1 DEF Init
<1>3. buf.z.c \in Int /\ BEG <= buf.z.c
  BY <1>0, GoodEnd
<1>4. /\ CacheOK(new_region_cache, buf.z.c)
      /\ \A p \in BEG .. (buf.z.c - 1) : ~Says(new_region_cache, buf.z.c, p)
  BY <1>3, NewCache
<1>. QED BY <1>1, <1>2, <1>4 DEF CacheKept, PendingKept, Sound

(* The deletion that waited for its hook: the cache is told of the place     *)
(* where the text was before                                                 *)
LEMMA HookedKept ==
  ASSUME IInv, CacheKept(buf), PendingKept, del_range_1
  PROVE  CacheKept(buf')
<1>. DEFINE start == pending.start
            end  == pending.end
            from == pending.from
            z    == buf.z.c
            to   == Min({z, from + (end - start)})
            C    == Chars(buf)
            v    == invalidate_buffer_caches(buf, start, end)
            u    == del_range_2(v, Both(buf, from), Both(buf, to))
            c    == buf.newline_cache
            d    == buf'.newline_cache
            y    == buf'.z.c
<1>1. pending # Nil /\ buf' = u
  BY DEF del_range_1
<1>2. /\ to \in Position /\ from \in Position /\ from < to
      /\ Good(buf') /\ Chars(buf') = Splice(C, from, to, <<>>)
  BY DoesDeleteAfterHook DEF DeletedFrom
<1>3. /\ start \in Nat /\ end \in Nat /\ start < end /\ 1 <= start
      /\ end <= z /\ (~hooked => from = start) /\ BEG = 1
  BY <1>1 DEF IInv, PendingOK, PendingKept, BEG
<1>4. /\ Good(buf) /\ z = Len(C) + 1 /\ z \in Int /\ C \in Seq(Char)
      /\ y = Len(Chars(buf')) + 1 /\ y \in Int /\ DOMAIN buf = Fields
  BY <1>2, GoodEnd DEF IInv
<1>5. from \in Places(C) /\ to \in Places(C) /\ from \in Int /\ to \in Int
  BY <1>2, PositionPlace
<1>6. to = IF z <= from + (end - start) THEN z ELSE from + (end - start)
  BY <1>3, <1>4, <1>5, LessOf
<1>7. Narrower(buf, buf', start, end)
  <2>1. Narrower(buf, v, start, end)
    BY CachesNarrower
  <2>2. SameCache(v, u)
    <3>. HIDE DEF v
    <3>. QED BY DeleteCache
  <2>. HIDE DEF u, v, start, end
  <2>. QED BY <1>1, <2>1, <2>2, NarrowerThenSame
<1>8. CacheOK(c, z) /\ (~hooked => Sound(c, z, C))
  BY DEF CacheKept
<1>. HIDE DEF start, end, from, z, to, C, v, u, y
<1>9. CASE hooked
  <2>1. y = z - (to - from)
    <3>1. PICK new \in Seq(Char) : new = <<>> /\ Len(new) = 0
      BY EmptySeq
    <3>2. from <= to
      BY <1>2, <1>5
    <3>3. /\ from \in Places(Chars(buf)) /\ to \in Places(Chars(buf))
          /\ Chars(buf') = Splice(Chars(buf), from, to, new)
      BY <1>2, <1>5, <3>1 DEF C
    <3>4. buf'.z.c = buf.z.c + Len(new) - (to - from)
      BY <1>2, <1>4, <3>2, <3>3, SpliceGrows
    <3>5. y = z + 0 - (to - from)
      BY <3>1, <3>4 DEF y, z
    <3>6. \A p, q, r \in Int : p + 0 - (q - r) = p - (q - r)
      OBVIOUS
    <3>. QED BY <1>4, <1>5, <3>5, <3>6, Zenon
  <2>2. to - from <= end - start
    BY <1>3, <1>4, <1>5, <1>6
  <2>. DEFINE head == start - BEG
              tail == z - end
  <2>3. /\ head \in Int /\ tail \in Int /\ 0 <= head /\ 0 <= tail
        /\ BEG + head + tail <= z /\ BEG + head + tail <= y
    BY <1>3, <1>4, <1>5, <2>1, <2>2
  <2>4. c # Nil
    BY <1>8, GapBufferAssumption DEF CacheOK, WellKept, Array
  <2>5. d = invalidate_region_cache(c, head, tail, z)
    BY <1>4, <1>7, <2>4 DEF Narrower, z
  <2>. HIDE DEF head, tail, c, d
  <2>6. CacheOK(d, y)
    BY <1>4, <1>8, <2>3, <2>5, Narrowed
  <2>. QED BY <1>9, <2>6 DEF CacheKept, y, d
<1>10. CASE ~hooked
  <2>1. from = start /\ to = end /\ from <= to
    BY <1>2, <1>3, <1>4, <1>5, <1>6, <1>10
  <2>2. Narrower(buf, buf', from, to)
    BY <1>7, <2>1
  <2>3. <<>> \in Seq(Char)
    BY EmptySeq
  <2>4. /\ CacheOK(buf'.newline_cache, buf'.z.c)
        /\ Sound(buf.newline_cache, buf.z.c, Chars(buf))
             => Sound(buf'.newline_cache, buf'.z.c, Chars(buf'))
    <3>1. from \in Places(Chars(buf)) /\ to \in Places(Chars(buf))
          /\ Chars(buf') = Splice(Chars(buf), from, to, <<>>)
      BY <1>2, <1>5 DEF C
    <3>2. CacheOK(buf.newline_cache, buf.z.c)
      BY DEF CacheKept
    <3>. QED BY <1>2, <1>4, <2>1, <2>2, <2>3, <3>1, <3>2, EditKept
  <2>. QED BY <1>10, <2>4 DEF CacheKept
<1>. QED BY <1>9, <1>10

(* An edit at once, of a text that waits for no hook *)
LEMMA CommandKept ==
  ASSUME IInv, IInv', CacheKept(buf), NEW from \in Places(Chars(buf)), NEW to \in Places(Chars(buf)),
         from <= to, NEW new \in Seq(Char), Chars(buf') = Splice(Chars(buf), from, to, new),
         Narrower(buf, buf', from, to)
  PROVE  CacheKept(buf')
<1>1. Good(buf) /\ Good(buf')
  BY DEF IInv
<1>2. CacheOK(buf.newline_cache, buf.z.c)
  BY DEF CacheKept
<1>3. /\ CacheOK(buf'.newline_cache, buf'.z.c)
      /\ Sound(buf.newline_cache, buf.z.c, Chars(buf))
           => Sound(buf'.newline_cache, buf'.z.c, Chars(buf'))
  BY <1>1, <1>2, EditKept
<1>. QED BY <1>3 DEF CacheKept

LEMMA SearchKept ==
  ASSUME IInv, IInv', CacheKept(buf), NEW start \in Position, find_newline(start)
  PROVE  CacheKept(buf')
<1>. DEFINE Z == buf.z.c
            C == Chars(buf)
            c == buf.newline_cache
            lim == IF start < buf.gpt.c THEN buf.gpt.c ELSE buf.z.c
            d == Searched(c, C, start, lim, Z)
<1>1. start < Z /\ buf' = [buf EXCEPT !.newline_cache = d]
  BY DEF find_newline, Searched
<1>2. Good(buf) /\ DOMAIN buf = Fields /\ Z \in Int
  BY GoodEnd DEF IInv
<1>. HIDE DEF d
<1>3. /\ buf'.newline_cache = d /\ buf'.z = buf.z
      /\ buf'.before = buf.before /\ buf'.after = buf.after
  BY <1>1, <1>2 DEF Fields
<1>4. Chars(buf') = C /\ buf'.z.c = Z
  BY <1>3 DEF Chars
<1>5. /\ start \in BEG .. (Z - 1) /\ start \in Int
      /\ buf.gpt.c \in Int /\ buf.gpt.c <= Z
  <2>1. start \in Nat /\ start >= 1
    BY PositionPlace
  <2>2. buf.gpt.c \in Places(C) /\ C \in Seq(Char)
    BY <1>2, GoodParts, PlaceType
  <2>3. Z = Len(C) + 1
    BY <1>2, GoodEnd
  <2>4. buf.gpt.c \in 1 .. Z
    BY <2>2, <2>3 DEF Places
  <2>. HIDE DEF Z
  <2>. QED BY <1>1, <1>2, <2>1, <2>4 DEF BEG
<1>6. lim \in Int /\ start < lim /\ lim <= Z
  BY <1>1, <1>2, <1>5
<1>7. CacheOK(c, Z) /\ (~hooked => Sound(c, Z, C))
  BY DEF CacheKept
<1>. HIDE DEF Z, C, c, lim
<1>8. CacheOK(d, Z) /\ (Sound(c, Z, C) => Sound(d, Z, C))
  BY <1>2, <1>5, <1>6, <1>7, SearchedSound DEF d
<1>. QED BY <1>3, <1>4, <1>7, <1>8 DEF CacheKept

LEMMA PrepareKept ==
  ASSUME IInv, IInv', CacheKept(buf), pending = Nil,
         NEW from \in Position, NEW to \in Position, NEW pos \in Position,
         NEW chars \in setup.pieces, prepare_to_modify_buffer(from, to, pos, chars)
  PROVE  CacheKept(buf)' /\ PendingKept'
<1>. DEFINE moved == [buf EXCEPT !.pt = Both(buf, pos)]
            changed == insert_1_both(moved, chars, FALSE)
            n == Len(chars)
            pt == IF buf.pt.c > pos THEN Shift(buf.pt, n, Bytes(chars)) ELSE buf.pt
<1>1. /\ from < to
      /\ buf' = [changed EXCEPT !.pt = pt]
      /\ pending' = [start |-> from, end |-> to, from |-> IF from > pos THEN from + n ELSE from]
      /\ hooked' = (hooked \/ from > pos)
  BY DEF prepare_to_modify_buffer
<1>2. /\ Good(buf) /\ Good(buf') /\ DOMAIN buf = Fields /\ buf.z.c \in Int
      /\ hooked \in BOOLEAN
  BY GoodEnd DEF IInv
<1>3. Chars(buf') = Splice(Chars(buf), pos, pos, chars)
  BY DoesPrepare DEF InsertedAt
<1>4. chars \in Seq(Char)
  BY PiecesAreTexts
<1>5. /\ pos \in Places(Chars(buf)) /\ pos \in Nat /\ Both(buf, pos).c = pos
      /\ from \in Nat /\ to \in Nat /\ 1 <= from
  BY PositionPlace
<1>6. Narrower(buf, buf', pos, pos)
  <2>1. /\ SameCache(buf, moved) /\ moved.z = buf.z /\ moved.pt.c = pos
    BY <1>2, <1>5 DEF SameCache, Fields
  <2>. HIDE DEF moved
  <2>2. Narrower(moved, changed, pos, pos)
    BY <2>1, InsertCache
  <2>. HIDE DEF changed, pt
  <2>3. SameCache(changed, buf')
    BY <1>1, SameCacheBut
  <2>. QED BY <2>1, <2>2, <2>3, SameThenNarrower, NarrowerThenSame
<1>. HIDE DEF moved, changed, pt
<1>7. CacheKept(buf')
  <2>1. pos <= pos
    BY <1>5
  <2>. QED BY <1>3, <1>4, <1>5, <1>6, <2>1, CommandKept
<1>8. CacheKept(buf)'
  BY <1>1, <1>2, <1>7 DEF CacheKept
<1>9. PendingKept'
  <2>1. to <= buf.z.c
    BY <1>2, <1>5 DEF Position
  <2>2. buf'.z.c = buf.z.c + Len(chars) - (pos - pos) /\ Len(chars) \in Nat
    <3>1. pos <= pos
      BY <1>5
    <3>. QED BY <1>2, <1>3, <1>4, <1>5, <3>1, SpliceGrows
  <2>3. to <= buf'.z.c
    BY <1>2, <1>5, <2>1, <2>2
  <2>4. ~hooked' => ~(from > pos)
    BY <1>1
  <2>5. pending'.start = from /\ pending'.end = to /\ (~hooked' => pending'.from = from)
    BY <1>1, <2>4
  <2>. QED BY <1>5, <2>3, <2>5 DEF PendingKept, BEG
<1>. QED BY <1>8, <1>9

(* A step that neither edits nor looks for newlines *)
LEMMA QuietKept ==
  ASSUME IInv, NEW u, SameCache(buf, u), SameText(buf, u), CacheKept(buf)
  PROVE  CacheKept(u)
<1>1. /\ u.newline_cache = buf.newline_cache /\ u.z.c = buf.z.c
      /\ Chars(u) = Chars(buf)
  BY GoodEnd DEF IInv, SameCache, SameText, Chars
<1>. QED BY <1>1 DEF CacheKept

(* No step makes the cache know what is not so.                              *)
LEMMA CacheStep == CInv /\ [Next]_vars => CInv'
<1>. SUFFICES ASSUME CInv, [Next]_vars PROVE CInv'
  OBVIOUS
<1>0. IInv /\ IInv' /\ Good(buf) /\ DOMAIN buf = Fields
  <2>1. IInv /\ IInv' /\ Good(buf)
    BY StepGood DEF CInv, IInv
  <2>. QED BY <2>1, GoodEnd
<1>. SUFFICES ASSUME Looks("cache")' PROVE CacheKept(buf)' /\ PendingKept'
  BY <1>0 DEF CInv
<1>1. CASE UNCHANGED vars
  <2>1. Looks("cache")
    BY <1>1 DEF vars, Looks
  <2>. QED BY <1>1, <2>1 DEF CInv, vars, CacheKept, PendingKept, Chars
<1>2. CASE Next
  <2>0. Looks("cache") /\ CacheKept(buf) /\ PendingKept
    <3>1. setup' = setup
      BY <1>2, SetupKept
    <3>2. Looks("cache")
      BY <3>1 DEF Looks
    <3>. QED BY <3>2 DEF CInv
  <2>. DEFINE Goal == CacheKept(buf)' /\ PendingKept'
  <2>1. ASSUME CacheKept(buf'), hooked' = hooked, pending' = Nil
        PROVE  Goal
    BY <2>1 DEF CacheKept, PendingKept
  <2>2. CASE Command
    <3>0. pending = Nil
      BY <2>2 DEF Command
    <3>1. ASSUME NEW chars \in setup.pieces, NEW before_markers \in BOOLEAN,
                 Insert(chars, before_markers)
          PROVE  Goal
      <4>1. /\ pending' = Nil /\ hooked' = hooked
            /\ buf' = insert_1_both(buf, chars, before_markers)
        BY <3>0, <3>1 DEF Insert, Edit, history
      <4>2. Chars(buf') = Splice(Chars(buf), buf.pt.c, buf.pt.c, chars)
        BY <1>0, <3>1, DoesInsert DEF InsertedAt
      <4>3. chars \in Seq(Char)
        BY <1>0, PiecesAreTexts
      <4>4. buf.pt.c \in Places(Chars(buf)) /\ buf.pt.c <= buf.pt.c
        BY <1>0, GoodParts, PlaceType
      <4>5. Narrower(buf, buf', buf.pt.c, buf.pt.c)
        BY <4>1, InsertCache
      <4>6. CacheKept(buf')
        BY <1>0, <2>0, <4>2, <4>3, <4>4, <4>5, CommandKept
      <4>. QED BY <2>1, <4>1, <4>6
    <3>2. ASSUME NEW chars \in setup.pieces, InsertFromGap(chars)
          PROVE  Goal
      <4>. DEFINE m == move_gap_both(buf, buf.pt)
      <4>1. /\ pending' = Nil /\ hooked' = hooked
            /\ buf' = insert_from_gap(m, chars, TRUE)
        BY <3>0, <3>2 DEF InsertFromGap, Edit, history
      <4>2. Chars(buf') = Splice(Chars(buf), buf.pt.c, buf.pt.c, chars)
        BY <1>0, <3>2, DoesInsertFromGap DEF InsertedAt
      <4>3. chars \in Seq(Char)
        BY <1>0, PiecesAreTexts
      <4>4. buf.pt.c \in Places(Chars(buf)) /\ buf.pt.c <= buf.pt.c
        BY <1>0, GoodParts, PlaceType
      <4>5. m.z = buf.z /\ m.gpt.c = buf.pt.c
        <5>1. Shaped(buf) /\ GapPlaced(buf) /\ Place(Chars(buf), buf.pt)
          BY <1>0 DEF Good
        <5>. QED BY <5>1, MoveGapBoth DEF Moved
      <4>6. SameCache(buf, m)
        BY MotionCache
      <4>. HIDE DEF m
      <4>7. Narrower(m, buf', buf.pt.c, buf.pt.c)
        BY <4>1, <4>5, InsertFromGapCache
      <4>8. Narrower(buf, buf', buf.pt.c, buf.pt.c)
        BY <4>5, <4>6, <4>7, SameThenNarrower
      <4>9. CacheKept(buf')
        BY <1>0, <2>0, <4>2, <4>3, <4>4, <4>8, CommandKept
      <4>. QED BY <2>1, <4>1, <4>9
    <3>3. ASSUME NEW from \in Position, NEW to \in Position, del_range(from, to)
          PROVE  Goal
      <4>. DEFINE v == invalidate_buffer_caches(buf, from, to)
      <4>1. /\ pending' = Nil /\ hooked' = hooked
            /\ buf' = del_range_2(v, Both(buf, from), Both(buf, to))
        BY <3>0, <3>3 DEF del_range, Edit, history
      <4>2. from < to /\ Chars(buf') = Splice(Chars(buf), from, to, <<>>)
        BY <1>0, <3>3, DoesDelete DEF DeletedFrom
      <4>3. from \in Places(Chars(buf)) /\ to \in Places(Chars(buf)) /\ from \in Nat /\ to \in Nat
        BY <1>0, PositionPlace
      <4>4. <<>> \in Seq(Char) /\ from <= to
        BY <4>2, <4>3, EmptySeq
      <4>5. Narrower(buf, v, from, to)
        BY CachesNarrower
      <4>. HIDE DEF v
      <4>6. SameCache(v, buf')
        BY <4>1, DeleteCache
      <4>7. Narrower(buf, buf', from, to)
        BY <4>5, <4>6, NarrowerThenSame
      <4>8. CacheKept(buf')
        BY <1>0, <2>0, <4>2, <4>3, <4>4, <4>7, CommandKept
      <4>. QED BY <2>1, <4>1, <4>8
    <3>4. ASSUME NEW from \in Position, NEW to \in Position, NEW chars \in setup.pieces,
                 Replace(from, to, chars)
          PROVE  Goal
      <4>1. /\ pending' = Nil /\ hooked' = hooked
            /\ buf' = replace_range(buf, Both(buf, from), Both(buf, to), chars)
        BY <3>0, <3>4 DEF Replace, Edit, history
      <4>2. from < to /\ Chars(buf') = Splice(Chars(buf), from, to, chars)
        BY <1>0, <3>4, DoesReplace DEF ReplacedBy
      <4>3. /\ from \in Places(Chars(buf)) /\ to \in Places(Chars(buf)) /\ from \in Nat /\ to \in Nat
            /\ Both(buf, from).c = from /\ Both(buf, to).c = to
        BY <1>0, PositionPlace
      <4>4. chars \in Seq(Char) /\ from <= to
        BY <1>0, <4>2, <4>3, PiecesAreTexts
      <4>5. Narrower(buf, buf', from, to)
        BY <4>1, <4>3, ReplaceCache
      <4>6. CacheKept(buf')
        BY <1>0, <2>0, <4>2, <4>3, <4>4, <4>5, CommandKept
      <4>. QED BY <2>1, <4>1, <4>6
    <3>5. ASSUME NEW from \in Position, NEW to \in Position, Casify(from, to)
          PROVE  Goal
      <4>1. /\ pending' = Nil /\ hooked' = hooked /\ buf' = casify_region(buf, from, to)
        BY <3>0, <3>5 DEF Casify
      <4>2. PICK new \in Seq(Char) : from < to /\ Chars(buf') = Splice(Chars(buf), from, to, new)
        BY <1>0, <3>5, DoesCasify DEF Recased
      <4>3. from \in Places(Chars(buf)) /\ to \in Places(Chars(buf)) /\ from \in Nat /\ to \in Nat
        BY <1>0, PositionPlace
      <4>4. from <= to
        BY <4>2, <4>3
      <4>5. Narrower(buf, buf', from, to)
        BY <4>1, <4>3, <4>4, CasifyCache
      <4>6. CacheKept(buf')
        BY <1>0, <2>0, <4>2, <4>3, <4>4, <4>5, CommandKept
      <4>. QED BY <2>1, <4>1, <4>6
    <3>6. ASSUME NEW from \in Position, NEW to \in Position, NEW pos \in Position,
                 NEW chars \in setup.pieces, prepare_to_modify_buffer(from, to, pos, chars)
          PROVE  Goal
      BY <1>0, <2>0, <3>0, <3>6, PrepareKept
    <3>7. ASSUME NEW pos \in Position, goto_char(pos)
          PROVE  Goal
      <4>1. pending' = Nil /\ hooked' = hooked /\ buf' = [buf EXCEPT !.pt = Both(buf, pos)]
        BY <3>0, <3>7 DEF goto_char, history
      <4>2. SameCache(buf, buf') /\ SameText(buf, buf')
        BY <1>0, <4>1 DEF SameCache, SameText, Fields
      <4>. QED BY <1>0, <2>0, <2>1, <4>1, <4>2, QuietKept
    <3>8. ASSUME NEW start \in Position, find_newline(start)
          PROVE  Goal
      <4>1. pending' = Nil /\ hooked' = hooked
        BY <3>0, <3>8 DEF find_newline, history
      <4>. QED BY <1>0, <2>0, <2>1, <3>8, <4>1, SearchKept
    <3>9. /\ ~Looks("markers") /\ ~Looks("undo") /\ ~Looks("display")
      BY <2>0 DEF Looks
    <3>. QED BY <2>2, <3>1, <3>2, <3>3, <3>4, <3>5, <3>6, <3>7, <3>8, <3>9
             DEF Command, QuitInGapMotion, set_marker, set_buffer_unmodified, undo_boundary,
                 mark_window_display_accurate
  <2>3. CASE del_range_1
    <3>1. pending' = Nil /\ hooked' = hooked
      BY <2>3 DEF del_range_1, history
    <3>. QED BY <1>0, <2>0, <2>1, <2>3, <3>1, HookedKept
  <2>. QED BY <1>2, <2>2, <2>3 DEF Next
<1>. QED BY <1>1, <1>2

(* What is not so of the cache as it stands is not so after it is put right. *)
LEMMA KeptIsSound == CInv => CacheSoundUnlessHooked
<1>. SUFFICES ASSUME CInv PROVE CacheSoundUnlessHooked
  OBVIOUS
<1>. DEFINE Z == buf.z.c
            c == buf.newline_cache
            b == revalidate_region_cache(c, Z)
<1>0. Z \in Int
  BY GoodEnd DEF CInv, IInv
<1>1. BoundariesInOrder
  <2>. SUFFICES ASSUME Looks("cache") PROVE CacheInOrder(b)
    BY DEF BoundariesInOrder
  <2>1. CacheOK(c, Z)
    BY DEF CInv, CacheKept
  <2>. HIDE DEF Z, c
  <2>2. PutRight(c, b, Z)
    BY <1>0, <2>1, Revalidated
  <2>. HIDE DEF b
  <2>. QED BY <2>2, OrderKept DEF PutRight
<1>2. ASSUME ~hooked PROVE KnownHasNoNewline
  <2>. SUFFICES ASSUME Looks("cache"), NEW p \in BEG .. (Z - 1),
                       region_cache_forward(b, p, Z).value = 1
                PROVE  Chars(buf)[p] # Newline
    BY DEF KnownHasNoNewline, Known
  <2>1. CacheOK(c, Z) /\ Sound(c, Z, Chars(buf))
    BY <1>2 DEF CInv, CacheKept
  <2>. HIDE DEF Z, c
  <2>. QED BY <1>0, <2>1, NoNewlineKnown
<1>. QED BY <1>1, <1>2 DEF CacheSoundUnlessHooked

(* Whatever the edits since it was last put right, the newline cache knows   *)
(* no text that has a newline in it, unless a hook has moved the text whose  *)
(* change it announced; and its boundaries are in order in any case          *)
(* (region-cache.c, and what each primitive of insdel.c tells it).           *)
THEOREM CacheTellsTheTruth == Spec => []CacheSoundUnlessHooked
<1>1. Spec => []CInv
  BY CacheInit, CacheStep, PTL DEF Spec
<1>. QED BY <1>1, KeptIsSound, PTL
=============================================================================
