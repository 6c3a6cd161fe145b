--------------------------- MODULE GapBufferProofs ---------------------------
(***************************************************************************)
(* Proofs about the text of a buffer (GapBuffer), for every set of         *)
(* characters, bytes per character, markers and texts.                     *)
(*                                                                         *)
(* Bytes are summed by a recursive function; that it exists, and what it   *)
(* gives for two texts in a row, is proved by induction over the length.   *)
(* From that follows what an edit does to the place of a position, and     *)
(* from that what each primitive of insdel.c does to point, the markers,   *)
(* the gap and the end.                                                    *)
(*                                                                         *)
(* What each primitive puts on the undo list is then weighed against what  *)
(* it does to the text: undoing the one gives back the other.              *)
(***************************************************************************)
EXTENDS GapBuffer, FiniteSetTheorems, SequenceTheorems, WellFoundedInduction, TLAPS

-------------------------------------------------------------------------------
(* Induction over the natural numbers, by a set instead of a predicate       *)

LEMMA LessWellFounded == IsWellFoundedOn({ss \in Nat \X Nat : ss[1] < ss[2]}, Nat)
BY NatLessThanWellFounded DEF OpToRel

LEMMA LeastNumber ==
  ASSUME NEW T, T \subseteq Nat, T # {}
  PROVE  \E x \in T : \A y \in T : x <= y
<1>. DEFINE Before == {ss \in Nat \X Nat : ss[1] < ss[2]}
<1>1. IsWellFoundedOn(Before, Nat)
  BY LessWellFounded
<1>2. \A x, y \in Nat : <<y, x>> \notin Before => x <= y
  OBVIOUS
<1>. HIDE DEF Before
<1>3. \E x \in T : \A y \in T : ~(<<y, x>> \in Before)
  BY <1>1, WFMin, Zenon
<1>. QED BY <1>2, <1>3

LEMMA SetInduction ==
  ASSUME NEW S, 0 \in S, \A n \in Nat : n \in S => n + 1 \in S
  PROVE  Nat \subseteq S
<1> SUFFICES ASSUME Nat \ S # {} PROVE FALSE
  OBVIOUS
<1>1. PICK x \in Nat \ S : \A y \in Nat \ S : x <= y
  BY LeastNumber
<1>2. x # 0 /\ x - 1 \in Nat /\ x = (x - 1) + 1
  BY <1>1
<1>. QED BY <1>1, <1>2

-------------------------------------------------------------------------------
(* The bytes of a text                                                       *)

IsUpto(g, chars) ==
  g = [i \in 0 .. Len(chars) |-> IF i = 0 THEN 0 ELSE g[i - 1] + CharLen[chars[i]]]

LEMMA SumIsNat == \A x, y \in Nat : x + y \in Nat
OBVIOUS

LEMMA SumRegrouped == \A x, y, z \in Nat : (x + y) + z = x + (y + z)
OBVIOUS

LEMMA JoinRegrouped ==
  \A x, y, z \in Seq(Char) : (x \o y) \o z = x \o (y \o z)
<1>. TAKE x, y, z \in Seq(Char)
<1>. QED BY ConcatAssociative

LEMMA UptoValues ==
  ASSUME NEW chars \in Seq(Char), NEW g, IsUpto(g, chars)
  PROVE  /\ g[0] = 0
         /\ \A i \in 1 .. Len(chars) : g[i] = g[i - 1] + CharLen[chars[i]]
<1>1. Len(chars) \in Nat
  BY LenProperties
<1>2. g = [i \in 0 .. Len(chars) |-> IF i = 0 THEN 0 ELSE g[i - 1] + CharLen[chars[i]]]
  BY DEF IsUpto
<1>3. \A i \in 0 .. Len(chars) : g[i] = IF i = 0 THEN 0 ELSE g[i - 1] + CharLen[chars[i]]
  BY <1>2, Zenon
<1>4. 0 \in 0 .. Len(chars) /\ \A i \in 1 .. Len(chars) : i \in 0 .. Len(chars) /\ i # 0
  BY <1>1
<1>. QED BY <1>3, <1>4

LEMMA UptoExists ==
  ASSUME NEW chars \in Seq(Char)
  PROVE  \E g : IsUpto(g, chars)
<1>. DEFINE To(g, n) == g = [i \in 0 .. n |-> IF i = 0 THEN 0 ELSE g[i - 1] + CharLen[chars[i]]]
            S == {n \in Nat : \E g : To(g, n)}
<1>1. 0 \in S
  <2>1. To([i \in 0 .. 0 |-> 0], 0)
    OBVIOUS
  <2>. QED BY <2>1
<1>2. ASSUME NEW n \in Nat, n \in S
      PROVE  n + 1 \in S
  <2>1. PICK g : To(g, n)
    BY <1>2
  <2>. DEFINE f == [i \in 0 .. n + 1 |-> IF i <= n THEN g[i] ELSE g[n] + CharLen[chars[n + 1]]]
  <2>2. /\ f = [i \in 0 .. n + 1 |-> f[i]]
        /\ \A i \in 0 .. n : f[i] = g[i]
        /\ f[n + 1] = g[n] + CharLen[chars[n + 1]]
    OBVIOUS
  <2>. HIDE DEF f
  <2>3. \A i \in 0 .. n : g[i] = IF i = 0 THEN 0 ELSE g[i - 1] + CharLen[chars[i]]
    BY <2>1, Zenon
  <2>4. \A i \in 0 .. n + 1 : f[i] = IF i = 0 THEN 0 ELSE f[i - 1] + CharLen[chars[i]]
    <3>. 0 \in 0 .. n /\ n \in 0 .. n
      OBVIOUS
    <3>1. f[0] = 0
      BY <2>2, <2>3
    <3>2. ASSUME NEW i \in 1 .. n
          PROVE  f[i] = f[i - 1] + CharLen[chars[i]]
      <4>1. i \in 0 .. n /\ i - 1 \in 0 .. n /\ i # 0
        OBVIOUS
      <4>. QED BY <2>2, <2>3, <4>1
    <3>3. f[n + 1] = f[n] + CharLen[chars[n + 1]]
      BY <2>2
    <3>4. ASSUME NEW i \in 0 .. n + 1
          PROVE  f[i] = IF i = 0 THEN 0 ELSE f[i - 1] + CharLen[chars[i]]
      <4>1. \/ i = 0
            \/ i # 0 /\ i \in 1 .. n
            \/ i # 0 /\ i = n + 1 /\ i - 1 = n
        OBVIOUS
      <4>. QED BY <3>1, <3>2, <3>3, <4>1
    <3>. QED BY <3>4
  <2>5. To(f, n + 1)
    BY <2>2, <2>4
  <2>. QED BY <2>5
<1>. HIDE DEF S
<1>3. Len(chars) \in S
  BY <1>1, <1>2, SetInduction, LenProperties
<1>. QED BY <1>3 DEF S, IsUpto

LEMMA BytesUpto ==
  ASSUME NEW chars \in Seq(Char)
  PROVE  \E g : IsUpto(g, chars) /\ Bytes(chars) = g[Len(chars)]
<1>. DEFINE g == CHOOSE f : IsUpto(f, chars)
<1>1. IsUpto(g, chars)
  BY UptoExists
<1>2. Bytes(chars) = g[Len(chars)]
  BY DEF Bytes, IsUpto
<1>. QED BY <1>1, <1>2

(* A text has at least a byte for each of its characters, and the bytes of   *)
(* two texts in a row are those of the one and those of the other.           *)
LEMMA BytesConcat ==
  ASSUME NEW s \in Seq(Char), NEW t \in Seq(Char)
  PROVE  /\ Bytes(s) \in Nat /\ Bytes(s) >= Len(s)
         /\ Bytes(s \o t) = Bytes(s) + Bytes(t)
<1>1. PICK gs : IsUpto(gs, s) /\ Bytes(s) = gs[Len(s)]
  BY BytesUpto
<1>2. PICK gt : IsUpto(gt, t) /\ Bytes(t) = gt[Len(t)]
  BY BytesUpto
<1>3. /\ s \o t \in Seq(Char) /\ Len(s \o t) = Len(s) + Len(t)
      /\ \A i \in 1 .. Len(s) + Len(t) :
           (s \o t)[i] = IF i <= Len(s) THEN s[i] ELSE t[i - Len(s)]
      /\ Len(s) \in Nat /\ Len(t) \in Nat
  BY ConcatProperties, LenProperties
<1>4. PICK g : IsUpto(g, s \o t) /\ Bytes(s \o t) = g[Len(s) + Len(t)]
  BY <1>3, BytesUpto
<1>5. \A c \in Char : CharLen[c] \in Nat /\ CharLen[c] >= 1
  BY GapBufferAssumption
<1>6. \A i \in 1 .. Len(s) : s[i] \in Char
  BY ElementOfSeq
<1>7. \A i \in 1 .. Len(t) : t[i] \in Char
  BY ElementOfSeq
<1>8. gs[0] = 0 /\ \A i \in 1 .. Len(s) : gs[i] = gs[i - 1] + CharLen[s[i]]
  BY <1>1, UptoValues
<1>9. gt[0] = 0 /\ \A i \in 1 .. Len(t) : gt[i] = gt[i - 1] + CharLen[t[i]]
  BY <1>2, UptoValues
<1>10. g[0] = 0 /\ \A i \in 1 .. Len(s) + Len(t) : g[i] = g[i - 1] + CharLen[(s \o t)[i]]
  <2>1. IsUpto(g, s \o t) /\ s \o t \in Seq(Char)
    BY <1>3, <1>4
  <2>2. g[0] = 0 /\ \A i \in 1 .. Len(s \o t) : g[i] = g[i - 1] + CharLen[(s \o t)[i]]
    BY <2>1, UptoValues
  <2>. QED BY <1>3, <2>2
<1>. DEFINE S == {n \in Nat : n <= Len(s) => gs[n] \in Nat /\ gs[n] >= n /\ g[n] = gs[n]}
            T == {n \in Nat : n <= Len(t) => gt[n] \in Nat /\ g[Len(s) + n] = gs[Len(s)] + gt[n]}
<1>11. 0 \in S
  BY <1>8, <1>10
<1>12. ASSUME NEW n \in Nat, n \in S
       PROVE  n + 1 \in S
  <2>1. SUFFICES ASSUME n + 1 <= Len(s)
                 PROVE  gs[n + 1] \in Nat /\ gs[n + 1] >= n + 1 /\ g[n + 1] = gs[n + 1]
    OBVIOUS
  <2>2. n + 1 \in 1 .. Len(s) /\ n + 1 \in 1 .. Len(s) + Len(t) /\ (n + 1) - 1 = n /\ n <= Len(s)
    BY <1>3, <2>1
  <2>3. gs[n + 1] = gs[n] + CharLen[s[n + 1]] /\ g[n + 1] = g[n] + CharLen[s[n + 1]]
    BY <1>3, <1>8, <1>10, <2>1, <2>2
  <2>4. gs[n] \in Nat /\ gs[n] >= n /\ g[n] = gs[n]
    BY <1>12, <2>2
  <2>5. CharLen[s[n + 1]] \in Nat /\ CharLen[s[n + 1]] >= 1
    BY <1>5, <1>6, <2>2
  <2>. QED BY <2>3, <2>4, <2>5
<1>. HIDE DEF S
<1>13. Nat \subseteq S
  BY <1>11, <1>12, SetInduction
<1>14. gs[Len(s)] \in Nat /\ gs[Len(s)] >= Len(s) /\ g[Len(s)] = gs[Len(s)]
  <2>1. Len(s) \in S
    BY <1>3, <1>13
  <2>. QED BY <2>1, <1>3 DEF S
<1>15. 0 \in T
  BY <1>3, <1>9, <1>14
<1>16. ASSUME NEW n \in Nat, n \in T
       PROVE  n + 1 \in T
  <2>1. SUFFICES ASSUME n + 1 <= Len(t)
                 PROVE  gt[n + 1] \in Nat /\ g[Len(s) + (n + 1)] = gs[Len(s)] + gt[n + 1]
    OBVIOUS
  <2>2. /\ n + 1 \in 1 .. Len(t) /\ (n + 1) - 1 = n /\ n <= Len(t)
        /\ Len(s) + (n + 1) \in 1 .. Len(s) + Len(t)
        /\ (Len(s) + (n + 1)) - 1 = Len(s) + n
        /\ (Len(s) + (n + 1)) - Len(s) = n + 1 /\ ~(Len(s) + (n + 1) <= Len(s))
    BY <1>3, <2>1
  <2>3. gt[n + 1] = gt[n] + CharLen[t[n + 1]]
    BY <1>9, <2>2
  <2>4. g[Len(s) + (n + 1)] = g[Len(s) + n] + CharLen[t[n + 1]]
    BY <1>3, <1>10, <2>2
  <2>5. gt[n] \in Nat /\ g[Len(s) + n] = gs[Len(s)] + gt[n]
    BY <1>16, <2>2
  <2>6. CharLen[t[n + 1]] \in Nat
    BY <1>5, <1>7, <2>2
  <2>7. gt[n + 1] \in Nat
    BY <2>3, <2>5, <2>6, SumIsNat, Zenon
  <2>8. (gs[Len(s)] + gt[n]) + CharLen[t[n + 1]] = gs[Len(s)] + gt[n + 1]
    <3>1. (gs[Len(s)] + gt[n]) + CharLen[t[n + 1]] = gs[Len(s)] + (gt[n] + CharLen[t[n + 1]])
      <4>1. gs[Len(s)] \in Nat /\ gt[n] \in Nat /\ CharLen[t[n + 1]] \in Nat
        BY <1>14, <2>5, <2>6
      <4>. QED BY <4>1, SumRegrouped, ZenonT(30)
    <3>. QED BY <2>3, <3>1, Zenon
  <2>. QED BY <2>4, <2>5, <2>7, <2>8, Zenon
<1>. HIDE DEF T
<1>17. Nat \subseteq T
  BY <1>15, <1>16, SetInduction
<1>18. g[Len(s) + Len(t)] = gs[Len(s)] + gt[Len(t)]
  <2>1. Len(t) \in T
    BY <1>3, <1>17
  <2>. QED BY <2>1, <1>3 DEF T
<1>. QED BY <1>1, <1>2, <1>4, <1>14, <1>18

LEMMA BytesSmall ==
  /\ Bytes(<<>>) = 0
  /\ \A c \in Char : Bytes(<<c>>) = CharLen[c]
<1>1. ASSUME NEW s \in Seq(Char) PROVE Bytes(s) \in Nat
  BY BytesConcat, EmptySeq
<1>2. Bytes(<<>>) = 0
  <2>1. <<>> \in Seq(Char) /\ Len(<<>>) = 0
    BY EmptySeq
  <2>2. PICK g : IsUpto(g, <<>>) /\ Bytes(<<>>) = g[0]
    BY <2>1, BytesUpto
  <2>. QED BY <2>1, <2>2, UptoValues
<1>3. ASSUME NEW c \in Char PROVE Bytes(<<c>>) = CharLen[c]
  <2>1. <<c>> \in Seq(Char) /\ Len(<<c>>) = 1 /\ <<c>>[1] = c
    OBVIOUS
  <2>2. PICK g : IsUpto(g, <<c>>) /\ Bytes(<<c>>) = g[1]
    BY <2>1, BytesUpto
  <2>3. g[0] = 0 /\ \A i \in 1 .. Len(<<c>>) : g[i] = g[i - 1] + CharLen[<<c>>[i]]
    BY <2>1, <2>2, UptoValues
  <2>4. 1 \in 1 .. Len(<<c>>) /\ g[1 - 1] = g[0]
    BY <2>1
  <2>5. g[1] = g[0] + CharLen[c]
    BY <2>1, <2>3, <2>4
  <2>6. CharLen[c] \in Nat
    BY GapBufferAssumption
  <2>. QED BY <2>2, <2>3, <2>5, <2>6
<1>. QED BY <1>2, <1>3

-------------------------------------------------------------------------------
(* Places: positions whose two parts name one place of a text                *)

(* Parts of a text, joined: those that meet may be taken as one. *)
LEMMA PartType ==
  ASSUME NEW chars \in Seq(Char), NEW from \in 1 .. Len(chars) + 1,
         NEW to \in 0 .. Len(chars), from <= to + 1
  PROVE  /\ SubSeq(chars, from, to) \in Seq(Char)
         /\ Len(SubSeq(chars, from, to)) = to + 1 - from
         /\ \A i \in 1 .. to + 1 - from : SubSeq(chars, from, to)[i] = chars[from + i - 1]
<1>1. Len(chars) \in Nat /\ \A i \in 1 .. Len(chars) : chars[i] \in Char
  BY LenProperties, ElementOfSeq
<1>2. from \in Int /\ to \in Int /\ \A i \in from .. to : chars[i] \in Char
  BY <1>1
<1>3. /\ SubSeq(chars, from, to) \in Seq(Char)
      /\ Len(SubSeq(chars, from, to)) = IF from <= to THEN to - from + 1 ELSE 0
      /\ \A i \in 1 .. to - from + 1 : SubSeq(chars, from, to)[i] = chars[from + i - 1]
  BY <1>2, SubSeqProperties
<1>4. to - from + 1 = to + 1 - from /\ (~(from <= to) => to + 1 - from = 0)
  BY <1>1
<1>. QED BY <1>3, <1>4

LEMMA PartsJoin ==
  ASSUME NEW chars \in Seq(Char), NEW from \in 1 .. Len(chars) + 1,
         NEW mid \in from .. Len(chars) + 1, NEW to \in mid - 1 .. Len(chars)
  PROVE  SubSeq(chars, from, mid - 1) \o SubSeq(chars, mid, to) = SubSeq(chars, from, to)
<1>1. Len(chars) \in Nat
  BY LenProperties
<1>2. /\ from \in 1 .. Len(chars) + 1 /\ mid - 1 \in from - 1 .. Len(chars)
      /\ to \in mid - 1 .. Len(chars) /\ (mid - 1) + 1 = mid
  BY <1>1
<1>3. SubSeq(chars, from, mid - 1) \o SubSeq(chars, (mid - 1) + 1, to) = SubSeq(chars, from, to)
  BY <1>2, ConcatAdjacentSubSeq
<1>. QED BY <1>2, <1>3

Byte(chars, c) == BEG + Bytes(SubSeq(chars, 1, c - 1))

Places(chars) == 1 .. Len(chars) + 1

LEMMA ByteDifference ==
  ASSUME NEW chars \in Seq(Char), NEW c \in Places(chars), NEW d \in Places(chars), c <= d
  PROVE  /\ Byte(chars, c) \in Nat /\ Byte(chars, c) >= 1
         /\ Byte(chars, d) = Byte(chars, c) + Bytes(SubSeq(chars, c, d - 1))
         /\ Bytes(SubSeq(chars, c, d - 1)) \in Nat
         /\ Bytes(SubSeq(chars, c, d - 1)) >= d - c
<1>1. Len(chars) \in Nat
  BY LenProperties
<1>2. 1 \in 1 .. Len(chars) + 1 /\ c \in 1 .. Len(chars) + 1 /\ d \in 1 .. Len(chars) + 1
  BY <1>1 DEF Places
<1>3. SubSeq(chars, 1, c - 1) \in Seq(Char)
  BY <1>1, <1>2, PartType
<1>4. SubSeq(chars, c, d - 1) \in Seq(Char) /\ Len(SubSeq(chars, c, d - 1)) = d - c
  <2>1. d - 1 \in 0 .. Len(chars) /\ c <= (d - 1) + 1 /\ (d - 1) + 1 - c = d - c
    BY <1>1, <1>2
  <2>. QED BY <1>2, <2>1, PartType
<1>5. SubSeq(chars, 1, c - 1) \o SubSeq(chars, c, d - 1) = SubSeq(chars, 1, d - 1)
  BY <1>1, <1>2, PartsJoin
<1>6. /\ Bytes(SubSeq(chars, 1, c - 1)) \in Nat
      /\ Bytes(SubSeq(chars, c, d - 1)) \in Nat
      /\ Bytes(SubSeq(chars, c, d - 1)) >= d - c
      /\ Bytes(SubSeq(chars, 1, d - 1)) = Bytes(SubSeq(chars, 1, c - 1)) + Bytes(SubSeq(chars, c, d - 1))
  BY <1>3, <1>4, <1>5, BytesConcat
<1>. QED BY <1>6 DEF Byte, BEG

-------------------------------------------------------------------------------
(* What an edit does to places                                               *)

Splice(chars, from, to, new) ==
  SubSeq(chars, 1, from - 1) \o new \o SubSeq(chars, to, Len(chars))

LEMMA SpliceType ==
  ASSUME NEW chars \in Seq(Char), NEW from \in Places(chars), NEW to \in Places(chars),
         from <= to, NEW new \in Seq(Char)
  PROVE  /\ Splice(chars, from, to, new) \in Seq(Char)
         /\ Len(Splice(chars, from, to, new)) = Len(chars) + Len(new) - (to - from)
         /\ Len(chars) \in Nat /\ Len(new) \in Nat
         /\ SubSeq(chars, 1, from - 1) \in Seq(Char) /\ Len(SubSeq(chars, 1, from - 1)) = from - 1
         /\ SubSeq(chars, to, Len(chars)) \in Seq(Char)
         /\ Len(SubSeq(chars, to, Len(chars))) = Len(chars) + 1 - to
<1>1. Len(chars) \in Nat /\ Len(new) \in Nat
  BY LenProperties
<1>2. 1 \in 1 .. Len(chars) + 1 /\ from \in 1 .. Len(chars) + 1 /\ to \in 1 .. Len(chars) + 1
  BY <1>1 DEF Places
<1>3. SubSeq(chars, 1, from - 1) \in Seq(Char) /\ Len(SubSeq(chars, 1, from - 1)) = from - 1
  <2>1. from - 1 \in 0 .. Len(chars) /\ 1 <= (from - 1) + 1 /\ (from - 1) + 1 - 1 = from - 1
    BY <1>1, <1>2
  <2>. QED BY <1>2, <2>1, PartType
<1>4. /\ SubSeq(chars, to, Len(chars)) \in Seq(Char)
      /\ Len(SubSeq(chars, to, Len(chars))) = Len(chars) + 1 - to
  <2>1. Len(chars) \in 0 .. Len(chars) /\ to <= Len(chars) + 1
    BY <1>1, <1>2
  <2>. QED BY <1>2, <2>1, PartType
<1>5. /\ SubSeq(chars, 1, from - 1) \o new \in Seq(Char)
      /\ Len(SubSeq(chars, 1, from - 1) \o new) = from - 1 + Len(new)
  BY <1>3, ConcatProperties
<1>6. /\ (SubSeq(chars, 1, from - 1) \o new) \o SubSeq(chars, to, Len(chars)) \in Seq(Char)
      /\ Len((SubSeq(chars, 1, from - 1) \o new) \o SubSeq(chars, to, Len(chars)))
         = (from - 1 + Len(new)) + (Len(chars) + 1 - to)
  BY <1>4, <1>5, ConcatProperties
<1>7. (from - 1 + Len(new)) + (Len(chars) + 1 - to) = Len(chars) + Len(new) - (to - from)
  BY <1>1, <1>2
<1>. QED BY <1>1, <1>3, <1>4, <1>6, <1>7, Zenon DEF Splice

(* The front of the front, and the front behind it *)
LEMMA FrontOfJoin ==
  ASSUME NEW s \in Seq(Char), NEW t \in Seq(Char), NEW n \in 0 .. Len(t)
  PROVE  SubSeq(s \o t, 1, Len(s) + n) = s \o SubSeq(t, 1, n)
<1>1. /\ s \o t \in Seq(Char) /\ Len(s \o t) = Len(s) + Len(t)
      /\ \A i \in 1 .. Len(s) + Len(t) :
           (s \o t)[i] = IF i <= Len(s) THEN s[i] ELSE t[i - Len(s)]
      /\ Len(s) \in Nat /\ Len(t) \in Nat
  BY ConcatProperties, LenProperties
<1>. DEFINE a == SubSeq(s \o t, 1, Len(s) + n)
            u == SubSeq(t, 1, n)
<1>2. /\ a \in Seq(Char) /\ Len(a) = Len(s) + n
      /\ \A i \in 1 .. Len(s) + n : a[i] = (s \o t)[i]
  <2>1. /\ 1 \in 1 .. Len(s \o t) + 1 /\ Len(s) + n \in 0 .. Len(s \o t) /\ 1 <= (Len(s) + n) + 1
        /\ (Len(s) + n) + 1 - 1 = Len(s) + n /\ \A i \in 1 .. Len(s) + n : 1 + i - 1 = i
    BY <1>1
  <2>. QED BY <1>1, <2>1, PartType
<1>3. u \in Seq(Char) /\ Len(u) = n /\ \A i \in 1 .. n : u[i] = t[i]
  <2>1. /\ 1 \in 1 .. Len(t) + 1 /\ n \in 0 .. Len(t) /\ 1 <= n + 1
        /\ n + 1 - 1 = n /\ \A i \in 1 .. n : 1 + i - 1 = i
    BY <1>1
  <2>. QED BY <1>1, <2>1, PartType
<1>4. /\ s \o u \in Seq(Char) /\ Len(s \o u) = Len(s) + n
      /\ \A i \in 1 .. Len(s) + n : (s \o u)[i] = IF i <= Len(s) THEN s[i] ELSE u[i - Len(s)]
  BY <1>3, ConcatProperties
<1>. HIDE DEF a, u
<1>5. ASSUME NEW i \in 1 .. Len(s) + n PROVE a[i] = (s \o u)[i]
  <2>1. i \in 1 .. Len(s) + Len(t) /\ (~(i <= Len(s)) => i - Len(s) \in 1 .. n)
    BY <1>1
  <2>. QED BY <1>1, <1>2, <1>3, <1>4, <2>1
<1>6. a = s \o u
  BY <1>2, <1>4, <1>5, SeqEqual
<1>. QED BY <1>6 DEF a, u

LEMMA FrontOfFront ==
  ASSUME NEW s \in Seq(Char), NEW t \in Seq(Char), NEW n \in 0 .. Len(s)
  PROVE  SubSeq(s \o t, 1, n) = SubSeq(s, 1, n)
<1>1. /\ s \o t \in Seq(Char) /\ Len(s \o t) = Len(s) + Len(t)
      /\ \A i \in 1 .. Len(s) + Len(t) :
           (s \o t)[i] = IF i <= Len(s) THEN s[i] ELSE t[i - Len(s)]
      /\ Len(s) \in Nat /\ Len(t) \in Nat
  BY ConcatProperties, LenProperties
<1>. DEFINE a == SubSeq(s \o t, 1, n)
            u == SubSeq(s, 1, n)
<1>2. a \in Seq(Char) /\ Len(a) = n /\ \A i \in 1 .. n : a[i] = (s \o t)[i]
  <2>1. /\ 1 \in 1 .. Len(s \o t) + 1 /\ n \in 0 .. Len(s \o t) /\ 1 <= n + 1
        /\ n + 1 - 1 = n /\ \A i \in 1 .. n : 1 + i - 1 = i
    BY <1>1
  <2>. QED BY <1>1, <2>1, PartType
<1>3. u \in Seq(Char) /\ Len(u) = n /\ \A i \in 1 .. n : u[i] = s[i]
  <2>1. /\ 1 \in 1 .. Len(s) + 1 /\ n \in 0 .. Len(s) /\ 1 <= n + 1
        /\ n + 1 - 1 = n /\ \A i \in 1 .. n : 1 + i - 1 = i
    BY <1>1
  <2>. QED BY <1>1, <2>1, PartType
<1>. HIDE DEF a, u
<1>4. ASSUME NEW i \in 1 .. n PROVE a[i] = u[i]
  <2>1. i \in 1 .. Len(s) + Len(t) /\ i <= Len(s)
    BY <1>1
  <2>. QED BY <1>1, <1>2, <1>3, <2>1
<1>5. a = u
  BY <1>2, <1>3, <1>4, SeqEqual
<1>. QED BY <1>5 DEF a, u

(* The byte of a place in an edited text: before the edit, at the end of     *)
(* what is new, and behind it.                                               *)
LEMMA SpliceBytes ==
  ASSUME NEW chars \in Seq(Char), NEW from \in Places(chars), NEW to \in Places(chars),
         from <= to, NEW new \in Seq(Char), NEW c \in Places(chars)
  PROVE  LET after == Splice(chars, from, to, new) IN
         /\ c <= from => Byte(after, c) = Byte(chars, c)
         /\ Byte(after, from + Len(new)) = Byte(chars, from) + Bytes(new)
         /\ c >= to => Byte(after, c + (Len(new) - (to - from)))
                       = Byte(chars, c) + (Bytes(new) - (Byte(chars, to) - Byte(chars, from)))
<1>. DEFINE front == SubSeq(chars, 1, from - 1)
            rest  == SubSeq(chars, from, Len(chars))
            back  == SubSeq(chars, to, Len(chars))
            after == Splice(chars, from, to, new)
<1>1. /\ Len(chars) \in Nat /\ Len(new) \in Nat
      /\ front \in Seq(Char) /\ Len(front) = from - 1
      /\ back \in Seq(Char) /\ Len(back) = Len(chars) + 1 - to
  BY SpliceType
<1>2. from \in 1 .. Len(chars) + 1 /\ to \in 1 .. Len(chars) + 1 /\ c \in 1 .. Len(chars) + 1
  BY <1>1 DEF Places
<1>3. Byte(chars, from) = BEG + Bytes(front)
  BY DEF Byte
<1>4. after = (front \o new) \o back
  BY DEF Splice
<1>5. rest \in Seq(Char)
  <2>1. Len(chars) \in 0 .. Len(chars) /\ from <= Len(chars) + 1
    BY <1>1, <1>2
  <2>. QED BY <1>2, <2>1, PartType
<1>6. chars = front \o rest
  <2>1. front \o rest = SubSeq(chars, 1, Len(chars))
    <3>1. /\ 1 \in 1 .. Len(chars) + 1 /\ from \in 1 .. Len(chars) + 1
          /\ Len(chars) \in from - 1 .. Len(chars)
      BY <1>1, <1>2
    <3>. QED BY <3>1, PartsJoin
  <2>. QED BY <2>1, SubSeqFull
<1>7. ASSUME c >= to
      PROVE  LET n == c - to
                 part == SubSeq(chars, to, c - 1) IN
             /\ n \in 0 .. Len(back)
             /\ part \in Seq(Char) /\ SubSeq(back, 1, n) = part
             /\ Byte(chars, c) = Byte(chars, to) + Bytes(part) /\ Byte(chars, to) \in Nat
  <2>. DEFINE n == c - to
              part == SubSeq(chars, to, c - 1)
              tail == SubSeq(chars, c, Len(chars))
  <2>1. /\ c - 1 \in 0 .. Len(chars) /\ to <= (c - 1) + 1 /\ (c - 1) + 1 - to = n
        /\ n \in Nat /\ n \in 0 .. n /\ n <= Len(back)
        /\ Len(chars) \in 0 .. Len(chars) /\ c <= Len(chars) + 1
        /\ c \in to .. Len(chars) + 1 /\ Len(chars) \in c - 1 .. Len(chars)
    BY <1>1, <1>2, <1>7
  <2>2. part \in Seq(Char) /\ Len(part) = n
    <3>1. part \in Seq(Char) /\ Len(part) = (c - 1) + 1 - to
      BY <1>2, <2>1, PartType
    <3>. QED BY <2>1, <3>1
  <2>3. tail \in Seq(Char)
    BY <1>2, <2>1, PartType
  <2>4. part \o tail = back
    BY <1>2, <2>1, PartsJoin
  <2>5. Byte(chars, c) = Byte(chars, to) + Bytes(part) /\ Byte(chars, to) \in Nat
    BY <1>7, ByteDifference, <1>1, <1>2
  <2>. HIDE DEF part, tail, n, back
  <2>6. SubSeq(part \o tail, 1, n) = SubSeq(part, 1, n)
    BY <2>1, <2>2, <2>3, FrontOfFront
  <2>7. SubSeq(part, 1, Len(part)) = part
    BY <2>2, SubSeqFull
  <2>8. SubSeq(back, 1, n) = part
    BY <2>2, <2>4, <2>6, <2>7
  <2>9. n \in 0 .. Len(back)
    <3>1. Len(back) \in Nat
      BY <1>1, LenProperties
    <3>. QED BY <2>1, <3>1
  <2>. QED BY <2>2, <2>5, <2>8, <2>9 DEF n, part
<1>. HIDE DEF front, rest, back
<1>8. /\ front \o new \in Seq(Char) /\ Len(front \o new) = from - 1 + Len(new)
      /\ new \o back \in Seq(Char)
  BY <1>1, ConcatProperties
<1>9. (front \o new) \o back = front \o (new \o back)
  <2>1. front \in Seq(Char) /\ new \in Seq(Char) /\ back \in Seq(Char)
    BY <1>1
  <2>. HIDE DEF front, back
  <2>. QED BY <2>1, JoinRegrouped, Zenon
<1>10. after = front \o (new \o back)
  BY <1>4, <1>9
<1>. HIDE DEF after
<1>11. ASSUME c <= from
       PROVE  Byte(after, c) = Byte(chars, c)
  <2>1. c - 1 \in 0 .. Len(front)
    BY <1>1, <1>2, <1>11
  <2>2. SubSeq(front \o (new \o back), 1, c - 1) = SubSeq(front, 1, c - 1)
    BY <1>1, <1>8, <2>1, FrontOfFront
  <2>3. SubSeq(front \o rest, 1, c - 1) = SubSeq(front, 1, c - 1)
    BY <1>1, <1>5, <2>1, FrontOfFront
  <2>4. SubSeq(after, 1, c - 1) = SubSeq(chars, 1, c - 1)
    BY <1>10, <1>6, <2>2, <2>3
  <2>. QED BY <2>4 DEF Byte
<1>12. Byte(after, from + Len(new)) = Byte(chars, from) + Bytes(new)
  <2>. DEFINE head == front \o new
  <2>1. head \in Seq(Char) /\ Len(head) \in 0 .. Len(head) /\ (from + Len(new)) - 1 = Len(head)
    BY <1>1, <1>2, <1>8
  <2>2. /\ Bytes(head) = Bytes(front) + Bytes(new)
        /\ Bytes(front) \in Nat /\ Bytes(new) \in Nat
    BY <1>1, BytesConcat
  <2>3. after = head \o back
    BY <1>4
  <2>. HIDE DEF head
  <2>4. SubSeq(head \o back, 1, Len(head)) = SubSeq(head, 1, Len(head))
    BY <1>1, <2>1, FrontOfFront
  <2>5. SubSeq(head, 1, Len(head)) = head
    BY <2>1, SubSeqFull
  <2>6. SubSeq(after, 1, (from + Len(new)) - 1) = head
    BY <2>1, <2>3, <2>4, <2>5
  <2>7. Byte(after, from + Len(new)) = BEG + (Bytes(front) + Bytes(new))
    BY <2>2, <2>6 DEF Byte
  <2>. QED BY <2>2, <2>7, <1>3 DEF BEG
<1>13. ASSUME c >= to
       PROVE  Byte(after, c + (Len(new) - (to - from)))
              = Byte(chars, c) + (Bytes(new) - (Byte(chars, to) - Byte(chars, from)))
  <2>. DEFINE n == c - to
              part == SubSeq(chars, to, c - 1)
              head == front \o new
  <2>1. (c + (Len(new) - (to - from))) - 1 = Len(head) + n
    BY <1>1, <1>2, <1>8, <1>13
  <2>2. /\ n \in 0 .. Len(back)
        /\ part \in Seq(Char) /\ SubSeq(back, 1, n) = part
        /\ Byte(chars, c) = Byte(chars, to) + Bytes(part) /\ Byte(chars, to) \in Nat
    BY <1>7, <1>13
  <2>3. after = head \o back /\ head \in Seq(Char)
    BY <1>4, <1>8
  <2>4. Bytes(head) = Bytes(front) + Bytes(new) /\ Bytes(front) \in Nat /\ Bytes(new) \in Nat
    BY <1>1, BytesConcat
  <2>. HIDE DEF head, part, n
  <2>5. SubSeq(head \o back, 1, Len(head) + n) = head \o part
    BY <1>1, <2>2, <2>3, FrontOfJoin
  <2>6. Bytes(head \o part) = Bytes(head) + Bytes(part) /\ Bytes(part) \in Nat
    BY <2>2, <2>3, BytesConcat
  <2>7. Byte(after, c + (Len(new) - (to - from))) = BEG + Bytes(head \o part)
    BY <2>1, <2>3, <2>5 DEF Byte
  <2>8. Byte(after, c + (Len(new) - (to - from))) = BEG + ((Bytes(front) + Bytes(new)) + Bytes(part))
    BY <2>4, <2>6, <2>7
  <2>. DEFINE Same(y, w, p, e) == BEG + ((e + w) + p) = (y + p) + (w - (y - (BEG + e)))
  <2>9. \A y, w, p, e \in Nat : Same(y, w, p, e)
    BY DEF BEG
  <2>. HIDE DEF Same
  <2>10. Same(Byte(chars, to), Bytes(new), Bytes(part), Bytes(front))
    BY <2>2, <2>4, <2>6, <2>9
  <2>11. BEG + ((Bytes(front) + Bytes(new)) + Bytes(part))
         = (Byte(chars, to) + Bytes(part))
           + (Bytes(new) - (Byte(chars, to) - (BEG + Bytes(front))))
    BY <2>10, Zenon DEF Same
  <2>. QED BY <1>3, <2>2, <2>8, <2>11, Zenon
<1>. QED BY <1>11, <1>12, <1>13 DEF after

(* The character position C and the byte position B name one place. *)
At(chars, c, b) == c \in Places(chars) /\ b = Byte(chars, c)

LEMMA AtType ==
  ASSUME NEW chars \in Seq(Char), NEW c, NEW b, At(chars, c, b)
  PROVE  c \in Nat /\ b \in Nat /\ c >= 1 /\ c <= Len(chars) + 1 /\ b >= 1
<1>1. Len(chars) \in Nat
  BY LenProperties
<1>2. c \in 1 .. Len(chars) + 1 /\ b = Byte(chars, c)
  BY DEF At, Places
<1>3. Byte(chars, c) \in Nat /\ Byte(chars, c) >= 1
  BY <1>1, <1>2, ByteDifference DEF Places
<1>. QED BY <1>1, <1>2, <1>3

(* A position follows its place in the text: one before an edit stays, the   *)
(* end of what is new is a place, and one behind moves by what the text grew. *)
LEMMA SpliceAt ==
  ASSUME NEW chars \in Seq(Char), NEW fc, NEW fb, NEW tc, NEW tb,
         At(chars, fc, fb), At(chars, tc, tb), fc <= tc, NEW new \in Seq(Char),
         NEW c, NEW b, At(chars, c, b)
  PROVE  LET after == Splice(chars, fc, tc, new) IN
         /\ after \in Seq(Char)
         /\ c <= fc => At(after, c, b)
         /\ At(after, fc + Len(new), fb + Bytes(new))
         /\ c >= tc => At(after, c + (Len(new) - (tc - fc)), b + (Bytes(new) - (tb - fb)))
<1>. DEFINE after == Splice(chars, fc, tc, new)
<1>1. /\ fc \in Places(chars) /\ tc \in Places(chars) /\ c \in Places(chars)
      /\ fb = Byte(chars, fc) /\ tb = Byte(chars, tc) /\ b = Byte(chars, c)
  BY DEF At
<1>2. /\ after \in Seq(Char) /\ Len(after) = Len(chars) + Len(new) - (tc - fc)
      /\ Len(chars) \in Nat /\ Len(new) \in Nat
  BY <1>1, SpliceType
<1>3. /\ c <= fc => Byte(after, c) = b
      /\ Byte(after, fc + Len(new)) = fb + Bytes(new)
      /\ c >= tc => Byte(after, c + (Len(new) - (tc - fc))) = b + (Bytes(new) - (tb - fb))
  BY <1>1, SpliceBytes
<1>. HIDE DEF after
<1>4. /\ fc \in Nat /\ fc >= 1 /\ fc <= Len(chars) + 1 /\ tc \in Nat /\ tc <= Len(chars) + 1
      /\ c \in Nat /\ c >= 1 /\ c <= Len(chars) + 1
  BY AtType
<1>5. c <= fc => c \in Places(after)
  BY <1>2, <1>4 DEF Places
<1>6. fc + Len(new) \in Places(after)
  BY <1>2, <1>4 DEF Places
<1>7. c >= tc => c + (Len(new) - (tc - fc)) \in Places(after)
  BY <1>2, <1>4 DEF Places
<1>8. /\ c <= fc => At(after, c, b)
      /\ At(after, fc + Len(new), fb + Bytes(new))
      /\ c >= tc => At(after, c + (Len(new) - (tc - fc)), b + (Bytes(new) - (tb - fb)))
  BY <1>3, <1>5, <1>6, <1>7 DEF At
<1>. QED BY <1>2, <1>8 DEF after

-------------------------------------------------------------------------------
(* Places as records                                                         *)

Place(chars, p) == p \in Pos /\ At(chars, p.c, p.b)

LEMMA PlaceType ==
  ASSUME NEW chars \in Seq(Char), NEW p, Place(chars, p)
  PROVE  /\ p \in [c : Int, b : Int] /\ p.c \in Nat /\ p.b \in Nat /\ p.c >= 1
         /\ p.c <= Len(chars) + 1 /\ p.b >= 1 /\ p.c \in Places(chars)
  BY AtType DEF Place, Pos, At

LEMMA PlaceIsBoth ==
  ASSUME NEW t, Chars(t) \in Seq(Char)
  PROVE  /\ \A p : Place(Chars(t), p) => p = Both(t, p.c)
         /\ \A c \in Places(Chars(t)) : /\ Place(Chars(t), Both(t, c)) /\ Both(t, c).c = c
<1>1. ASSUME NEW p, Place(Chars(t), p)
      PROVE  p = Both(t, p.c)
  BY <1>1 DEF Place, Pos, At, Both, CHAR_TO_BYTE, Byte
<1>2. ASSUME NEW c \in Places(Chars(t))
      PROVE  Place(Chars(t), Both(t, c)) /\ Both(t, c).c = c
  <2>1. Both(t, c) = [c |-> c, b |-> Byte(Chars(t), c)]
    BY DEF Both, CHAR_TO_BYTE, Byte
  <2>2. At(Chars(t), c, Byte(Chars(t), c))
    BY DEF At
  <2>3. c \in Nat /\ Byte(Chars(t), c) \in Nat
    BY <2>2, AtType
  <2>. QED BY <2>1, <2>2, <2>3 DEF Place, Pos
<1>. QED BY <1>1, <1>2

LEMMA PlaceOrder ==
  ASSUME NEW chars \in Seq(Char), NEW p, NEW q, Place(chars, p), Place(chars, q)
  PROVE  /\ p.c < q.c <=> p.b < q.b
         /\ p.c = q.c <=> p.b = q.b
         /\ p.c = q.c => p = q
<1>1. Len(chars) \in Nat /\ Places(chars) \subseteq Nat
  BY LenProperties DEF Places
<1>2. /\ p \in [c : Int, b : Int] /\ q \in [c : Int, b : Int]
      /\ p.c \in Places(chars) /\ q.c \in Places(chars)
      /\ p.b = Byte(chars, p.c) /\ q.b = Byte(chars, q.c)
  BY DEF Place, Pos, At
<1>3. \A c, d \in Places(chars) : c < d => Byte(chars, c) < Byte(chars, d)
  <2>1. SUFFICES ASSUME NEW c \in Places(chars), NEW d \in Places(chars), c < d
                 PROVE  Byte(chars, c) < Byte(chars, d)
    OBVIOUS
  <2>2. c \in Nat /\ d \in Nat /\ c <= d
    BY <1>1, <2>1
  <2>3. /\ Byte(chars, c) \in Nat /\ Byte(chars, d) = Byte(chars, c) + Bytes(SubSeq(chars, c, d - 1))
        /\ Bytes(SubSeq(chars, c, d - 1)) \in Nat /\ Bytes(SubSeq(chars, c, d - 1)) >= d - c
    BY <2>2, ByteDifference
  <2>. QED BY <2>1, <2>2, <2>3
<1>4. p.c \in Nat /\ q.c \in Nat /\ p.b \in Nat /\ q.b \in Nat
  BY PlaceType
<1>5. p.c < q.c => p.b < q.b
  BY <1>2, <1>3
<1>6. q.c < p.c => q.b < p.b
  BY <1>2, <1>3
<1>7. p.c = q.c => p.b = q.b /\ p = q
  BY <1>2
<1>8. \A x, y \in Nat : x < y \/ y < x \/ x = y
  OBVIOUS
<1>9. \A x, y \in Nat : ~(x < y /\ y < x) /\ ~(x < y /\ x = y)
  OBVIOUS
<1>10. p.c < q.c <=> p.b < q.b
  <2>1. p.b < q.b => ~(q.c < p.c) /\ ~(p.c = q.c)
    BY <1>4, <1>6, <1>7, <1>9, Zenon
  <2>. QED BY <1>4, <1>5, <1>8, <2>1, Zenon
<1>11. p.c = q.c <=> p.b = q.b
  <2>1. p.b = q.b => ~(q.c < p.c) /\ ~(p.c < q.c)
    BY <1>4, <1>5, <1>6, <1>9, Zenon
  <2>. QED BY <1>4, <1>7, <1>8, <2>1, Zenon
<1>. QED BY <1>7, <1>10, <1>11

(* What an edit does to places *)
LEMMA SplicePlaces ==
  ASSUME NEW chars \in Seq(Char), NEW from, NEW to, Place(chars, from), Place(chars, to),
         from.c <= to.c, NEW new \in Seq(Char), NEW p, Place(chars, p)
  PROVE  LET after == Splice(chars, from.c, to.c, new) IN
         /\ p.c <= from.c => Place(after, p)
         /\ Place(after, Shift(from, Len(new), Bytes(new)))
         /\ p.c >= to.c => Place(after, Shift(p, Len(new) - (to.c - from.c),
                                                 Bytes(new) - (to.b - from.b)))
<1>. DEFINE after == Splice(chars, from.c, to.c, new)
<1>1. /\ At(chars, from.c, from.b) /\ At(chars, to.c, to.b) /\ At(chars, p.c, p.b)
      /\ p \in Pos /\ from \in Pos /\ to \in Pos
  BY DEF Place
<1>2. /\ p.c <= from.c => At(after, p.c, p.b)
      /\ At(after, from.c + Len(new), from.b + Bytes(new))
      /\ p.c >= to.c => At(after, p.c + (Len(new) - (to.c - from.c)),
                                  p.b + (Bytes(new) - (to.b - from.b)))
  BY <1>1, SpliceAt
<1>. HIDE DEF after
<1>3. \A q \in Pos, k, kb \in Int : /\ Shift(q, k, kb) \in Pos
                                    /\ Shift(q, k, kb).c = q.c + k
                                    /\ Shift(q, k, kb).b = q.b + kb
  BY DEF Shift, Pos
<1>4. Len(new) \in Int /\ Bytes(new) \in Int
  BY LenProperties, BytesConcat
<1>5. Len(new) - (to.c - from.c) \in Int /\ Bytes(new) - (to.b - from.b) \in Int
  <2>1. \A x, y, z \in Int : x - (y - z) \in Int
    OBVIOUS
  <2>2. from.c \in Int /\ to.c \in Int /\ from.b \in Int /\ to.b \in Int
    BY <1>1 DEF Pos
  <2>. QED BY <1>4, <2>1, <2>2, Zenon
<1>6. p.c <= from.c => Place(after, p)
  BY <1>1, <1>2 DEF Place
<1>7. Place(after, Shift(from, Len(new), Bytes(new)))
  <2>1. /\ Shift(from, Len(new), Bytes(new)) \in Pos
        /\ Shift(from, Len(new), Bytes(new)).c = from.c + Len(new)
        /\ Shift(from, Len(new), Bytes(new)).b = from.b + Bytes(new)
    BY <1>1, <1>3, <1>4
  <2>. QED BY <1>2, <2>1, Zenon DEF Place
<1>8. ASSUME p.c >= to.c
      PROVE  Place(after, Shift(p, Len(new) - (to.c - from.c), Bytes(new) - (to.b - from.b)))
  <2>. DEFINE n == Len(new) - (to.c - from.c)
              nb == Bytes(new) - (to.b - from.b)
  <2>1. n \in Int /\ nb \in Int /\ At(after, p.c + n, p.b + nb)
    BY <1>2, <1>5, <1>8
  <2>. HIDE DEF n, nb
  <2>2. Shift(p, n, nb) \in Pos /\ Shift(p, n, nb).c = p.c + n /\ Shift(p, n, nb).b = p.b + nb
    BY <1>1, <1>3, <2>1
  <2>3. Place(after, Shift(p, n, nb))
    BY <2>1, <2>2, Zenon DEF Place
  <2>. QED BY <2>3 DEF n, nb
<1>. QED BY <1>6, <1>7, <1>8 DEF after

-------------------------------------------------------------------------------
(* The records of the undo list                                              *)

UndoOK(list) == list = Qt \/ list \in Seq(Record)

LEMMA OnTop ==
  ASSUME NEW list \in Seq(Record), NEW r \in Record
  PROVE  <<r>> \o list \in Seq(Record)
  BY ConcatProperties

LEMMA RecordFirstChangeType ==
  ASSUME NEW list, UndoOK(list)
  PROVE  UndoOK(record_first_change(list)) /\ (list # Qt => record_first_change(list) \in Seq(Record))
<1>1. First \in Record
  BY DEF First, Record
<1>. QED BY <1>1, OnTop DEF UndoOK, record_first_change

LEMMA RecordPointType ==
  ASSUME NEW list \in Seq(Record), NEW beg \in Int, NEW before \in Int, NEW clean \in BOOLEAN,
         list # Qt
  PROVE  record_point(list, beg, before, clean) \in Seq(Record)
<1>1. [k |-> "point", pos |-> before] \in Record
  BY DEF Record
<1>. DEFINE l == IF clean THEN record_first_change(list) ELSE list
<1>2. l \in Seq(Record)
  BY RecordFirstChangeType DEF UndoOK
<1>3. <<[k |-> "point", pos |-> before]>> \o l \in Seq(Record)
  BY <1>1, <1>2, OnTop
<1>. QED BY <1>2, <1>3 DEF record_point

LEMMA RecordInsertType ==
  ASSUME NEW list, UndoOK(list), NEW beg \in Int, NEW length \in Int, NEW before \in Int,
         NEW clean \in BOOLEAN
  PROVE  UndoOK(record_insert(list, beg, length, before, clean))
<1>1. CASE list = Qt
  BY <1>1 DEF UndoOK, record_insert
<1>2. CASE list # Qt
  <2>. DEFINE l == record_point(list, beg, before, clean)
              r == [k |-> "insert", beg |-> beg, end |-> beg + length]
  <2>1. l \in Seq(Record)
    BY <1>2, RecordPointType DEF UndoOK
  <2>2. r \in Record
    BY DEF Record
  <2>3. <<r>> \o l \in Seq(Record)
    BY <2>1, <2>2, OnTop
  <2>. HIDE DEF l
  <2>4. ASSUME l # <<>>, Head(l).k = "insert"
        PROVE  [l EXCEPT ![1].end = beg + length] \in Seq(Record)
    <3>1. Len(l) \in Nat \ {0} /\ 1 \in 1 .. Len(l) /\ l[1] \in Record /\ Head(l) = l[1]
      BY <2>1, <2>4, EmptySeq, LenProperties, ElementOfSeq
    <3>2. l[1] \in [k : {"insert"}, beg : Int, end : Int]
      BY <2>4, <3>1 DEF Record
    <3>. DEFINE e == [l[1] EXCEPT !.end = beg + length]
    <3>3. e \in Record
      BY <3>2 DEF Record
    <3>4. [l EXCEPT ![1].end = beg + length] = [l EXCEPT ![1] = e]
      OBVIOUS
    <3>. HIDE DEF e
    <3>5. [l EXCEPT ![1] = e] \in Seq(Record)
      BY <2>1, <3>1, <3>3, ExceptSeq
    <3>. QED BY <3>4, <3>5
  <2>. QED BY <1>2, <2>1, <2>3, <2>4 DEF record_insert, UndoOK, l
<1>. QED BY <1>1, <1>2

(* The adjustments are as many as there are markers in the deleted text that *)
(* undoing would miss, and each is for a marker.                             *)
LEMMA AdjustmentsType ==
  ASSUME NEW list \in Seq(Record), NEW from \in Int, NEW to \in Int,
         NEW charpos \in [Marker -> Int]
  PROVE  record_marker_adjustments(list, from, to, charpos) \in Seq(Record)
<1>. DEFINE adjustment(m) == (IF m \in InsertionType THEN to ELSE from) - charpos[m]
            moved == {m \in Marker : charpos[m] \in from .. to /\ adjustment(m) # 0}
            s == SetToSeq(moved)
            r(i) == [k |-> "adjust", marker |-> s[i], by |-> adjustment(s[i])]
            mine == [i \in 1 .. Cardinality(moved) |-> r(i)]
<1>1. IsFiniteSet(moved) /\ moved \subseteq Marker
  <2>1. IsFiniteSet(Marker) /\ moved \subseteq Marker
    BY GapBufferAssumption
  <2>. QED BY <2>1, FS_Subset, Zenon
<1>2. \A m \in Marker : adjustment(m) \in Int
  OBVIOUS
<1>3. record_marker_adjustments(list, from, to, charpos) = mine \o list
  BY DEF record_marker_adjustments
<1>. HIDE DEF moved, adjustment
<1>4. Cardinality(moved) \in Nat
  BY <1>1, FS_CardinalityType
<1>5. s \in [1 .. Cardinality(moved) -> moved]
  <2>1. PICK f \in Bijection(1 .. Cardinality(moved), moved) : TRUE
    BY <1>1, FS_CardinalityType DEF ExistsBijection
  <2>2. f \in [1 .. Cardinality(moved) -> moved] /\ IsInjective(f)
    BY <2>1 DEF Bijection, Injection
  <2>. QED BY <2>2, Zenon DEF SetToSeq
<1>. HIDE DEF s
<1>6. ASSUME NEW i \in 1 .. Cardinality(moved)
      PROVE  r(i) \in Record
  <2>1. s[i] \in Marker /\ adjustment(s[i]) \in Int
    BY <1>1, <1>2, <1>5
  <2>. QED BY <2>1 DEF Record
<1>. HIDE DEF r
<1>7. mine \in Seq(Record)
  <2>1. mine \in [1 .. Cardinality(moved) -> Record]
    BY <1>6
  <2>. QED BY <1>4, <2>1
<1>. HIDE DEF mine
<1>. QED BY <1>3, <1>7, ConcatProperties

LEMMA RecordDeleteType ==
  ASSUME NEW list, UndoOK(list), NEW beg \in Int, NEW chars \in Seq(Char),
         NEW marks \in BOOLEAN, NEW charpos \in [Marker -> Int], NEW p \in Int,
         NEW before \in Int, NEW clean \in BOOLEAN
  PROVE  UndoOK(record_delete(list, beg, chars, marks, charpos, p, before, clean))
<1>1. CASE list = Qt
  BY <1>1 DEF UndoOK, record_delete
<1>2. CASE list # Qt
  <2>. DEFINE l == record_point(list, beg, before, clean)
              r == [k |-> "delete", chars |-> chars, pos |-> beg,
                    at_end |-> p = beg + Len(chars)]
              below == IF marks THEN record_marker_adjustments(l, beg, beg + Len(chars), charpos)
                       ELSE l
  <2>1. l \in Seq(Record)
    BY <1>2, RecordPointType DEF UndoOK
  <2>2. r \in Record
    <3>1. (p = beg + Len(chars)) \in BOOLEAN
      OBVIOUS
    <3>. QED BY <3>1 DEF Record
  <2>. HIDE DEF l
  <2>3. below \in Seq(Record)
    <3>1. beg + Len(chars) \in Int
      BY LenProperties
    <3>. QED BY <2>1, <3>1, AdjustmentsType
  <2>. HIDE DEF below, r
  <2>4. <<r>> \o below \in Seq(Record)
    BY <2>2, <2>3, OnTop
  <2>5. record_delete(list, beg, chars, marks, charpos, p, before, clean) = <<r>> \o below
    BY <1>2 DEF record_delete, l, below, r
  <2>. QED BY <2>4, <2>5 DEF UndoOK
<1>. QED BY <1>1, <1>2

-------------------------------------------------------------------------------
(* A buffer is a record of these fields; each operator changes some of them. *)

Fields == {"before", "after", "gpt", "z", "pt", "markers", "modiff", "save_modiff",
           "unchanged_modified", "beg_unchanged", "end_unchanged", "undo_list", "newline_cache"}

SameText(t, u)   == u.before = t.before /\ u.after = t.after /\ u.gpt = t.gpt /\ u.z = t.z
SamePlaces(t, u) == u.pt = t.pt /\ u.markers = t.markers
SameCounts(t, u) == /\ u.modiff = t.modiff /\ u.save_modiff = t.save_modiff
                    /\ u.unchanged_modified = t.unchanged_modified
SameView(t, u)   == u.beg_unchanged = t.beg_unchanged /\ u.end_unchanged = t.end_unchanged
SameUndo(t, u)   == u.undo_list = t.undo_list

(* The types of everything but the positions *)
Shaped(t) ==
  /\ DOMAIN t = Fields
  /\ t.before \in Seq(Char) /\ t.after \in Seq(Char)
  /\ t.modiff \in Nat /\ t.save_modiff \in 0 .. t.modiff /\ t.unchanged_modified \in 0 .. t.modiff
  /\ UndoOK(t.undo_list)

(* The gap and the end are where the text says they are. *)
GapPlaced(t) ==
  /\ Place(Chars(t), t.gpt) /\ t.gpt.c = Len(t.before) + 1
  /\ Place(Chars(t), t.z) /\ t.z.c = Len(Chars(t)) + 1

(* And so are point and the markers. *)
Good(t) ==
  /\ Shaped(t) /\ GapPlaced(t)
  /\ Place(Chars(t), t.pt)
  /\ t.markers \in [Marker -> Pos]
  /\ \A m \in Marker : Place(Chars(t), t.markers[m])

LEMMA CharsType ==
  ASSUME NEW t, t.before \in Seq(Char), t.after \in Seq(Char)
  PROVE  /\ Chars(t) \in Seq(Char) /\ Len(Chars(t)) = Len(t.before) + Len(t.after)
         /\ Len(Chars(t)) \in Nat /\ Len(t.before) \in Nat /\ Len(t.after) \in Nat
<1>. PICK x \in Seq(Char), y \in Seq(Char) : x = t.before /\ y = t.after
  OBVIOUS
<1>1. x \o y \in Seq(Char) /\ Len(x \o y) = Len(x) + Len(y)
  BY ConcatProperties
<1>. QED BY <1>1, LenProperties DEF Chars

(* The operators, one by one *)

LEMMA OfCaches ==
  ASSUME NEW t, DOMAIN t = Fields, NEW start, NEW end
  PROVE  LET u == invalidate_buffer_caches(t, start, end) IN
         /\ DOMAIN u = Fields /\ SameText(t, u) /\ SamePlaces(t, u) /\ SameCounts(t, u)
         /\ SameView(t, u) /\ SameUndo(t, u)
  BY DEF Fields, invalidate_buffer_caches, SameText, SamePlaces, SameCounts, SameView, SameUndo

LEMMA OfModiff ==
  ASSUME NEW t, DOMAIN t = Fields, t.modiff \in Nat, NEW len
  PROVE  LET u == modiff_incr(t, len) IN
         /\ DOMAIN u = Fields /\ SameText(t, u) /\ SamePlaces(t, u)
         /\ SameView(t, u) /\ SameUndo(t, u)
         /\ u.modiff \in Nat /\ u.modiff > t.modiff /\ u.save_modiff = t.save_modiff
         /\ u.unchanged_modified = t.unchanged_modified
  BY DEF Fields, modiff_incr, SameText, SamePlaces, SameView, SameUndo

LEMMA OfUnchanged ==
  ASSUME NEW t, DOMAIN t = Fields, NEW start, NEW end
  PROVE  LET u == BUF_COMPUTE_UNCHANGED(t, start, end) IN
         /\ DOMAIN u = Fields /\ SameText(t, u) /\ SamePlaces(t, u) /\ SameCounts(t, u)
         /\ SameUndo(t, u)
         /\ u.beg_unchanged = IF t.unchanged_modified = t.modiff THEN start - BEG
                              ELSE Min({t.beg_unchanged, start - BEG})
         /\ u.end_unchanged = IF t.unchanged_modified = t.modiff THEN t.z.c - end
                              ELSE Min({t.end_unchanged, t.z.c - end})
  BY DEF Fields, BUF_COMPUTE_UNCHANGED, SameText, SamePlaces, SameCounts, SameUndo

LEMMA OfLowerEnd ==
  ASSUME NEW t, DOMAIN t = Fields
  PROVE  LET u == LowerEnd(t) IN
         /\ DOMAIN u = Fields /\ SameText(t, u) /\ SamePlaces(t, u) /\ SameCounts(t, u)
         /\ SameUndo(t, u)
         /\ u.beg_unchanged = t.beg_unchanged
         /\ u.end_unchanged = Min({t.end_unchanged, t.z.c - t.gpt.c})
  BY DEF Fields, LowerEnd, SameText, SamePlaces, SameCounts, SameUndo

LEMMA OfLowerBoth ==
  ASSUME NEW t, DOMAIN t = Fields
  PROVE  LET u == LowerBoth(t) IN
         /\ DOMAIN u = Fields /\ SameText(t, u) /\ SamePlaces(t, u) /\ SameCounts(t, u)
         /\ SameUndo(t, u)
         /\ u.beg_unchanged = Min({t.beg_unchanged, t.gpt.c - BEG})
         /\ u.end_unchanged = Min({t.end_unchanged, t.z.c - t.gpt.c})
  BY DEF Fields, LowerEnd, LowerBoth, SameText, SamePlaces, SameCounts, SameUndo

LEMMA OfGapAt ==
  ASSUME NEW t, DOMAIN t = Fields, NEW p
  PROVE  LET u == GapAt(t, p) IN
         /\ DOMAIN u = Fields /\ SamePlaces(t, u) /\ SameCounts(t, u)
         /\ SameView(t, u) /\ SameUndo(t, u)
         /\ u.before = SubSeq(Chars(t), 1, p.c - BEG)
         /\ u.after = SubSeq(Chars(t), p.c, Len(Chars(t))) /\ u.gpt = p /\ u.z = t.z
  BY DEF Fields, GapAt, SamePlaces, SameCounts, SameView, SameUndo

LEMMA OfTakeIn ==
  ASSUME NEW t, DOMAIN t = Fields, NEW chars
  PROVE  LET u == TakeIn(t, chars) IN
         /\ DOMAIN u = Fields /\ SamePlaces(t, u) /\ SameCounts(t, u)
         /\ SameView(t, u) /\ SameUndo(t, u)
         /\ u.before = t.before \o chars /\ u.after = t.after
         /\ u.gpt = Shift(t.gpt, Len(chars), Bytes(chars))
         /\ u.z = Shift(t.z, Len(chars), Bytes(chars))
  BY DEF Fields, TakeIn, SamePlaces, SameCounts, SameView, SameUndo

LEMMA OfGiveUp ==
  ASSUME NEW t, DOMAIN t = Fields, NEW from, NEW to
  PROVE  LET u == GiveUp(t, from, to) IN
         /\ DOMAIN u = Fields /\ SamePlaces(t, u) /\ SameCounts(t, u)
         /\ SameView(t, u) /\ SameUndo(t, u)
         /\ u.before = SubSeq(t.before, 1, from.c - BEG)
         /\ u.after = SubSeq(Chars(t), to.c, Len(Chars(t))) /\ u.gpt = from
         /\ u.z = Shift(t.z, from.c - to.c, from.b - to.b)
  BY DEF Fields, GiveUp, SamePlaces, SameCounts, SameView, SameUndo

LEMMA OfPoint ==
  ASSUME NEW t, DOMAIN t = Fields, NEW nchars, NEW nbytes
  PROVE  LET u == adjust_point(t, nchars, nbytes) IN
         /\ DOMAIN u = Fields /\ SameText(t, u) /\ SameCounts(t, u)
         /\ SameView(t, u) /\ SameUndo(t, u)
         /\ u.pt = Shift(t.pt, nchars, nbytes) /\ u.markers = t.markers
  BY DEF Fields, adjust_point, SameText, SameCounts, SameView, SameUndo

(* Only the markers differ. *)
MarkersSet(t, u, markers) ==
  /\ DOMAIN u = Fields /\ SameText(t, u) /\ SameCounts(t, u)
  /\ SameView(t, u) /\ SameUndo(t, u)
  /\ u.pt = t.pt /\ u.markers = markers

LEMMA OfMarkersDelete ==
  ASSUME NEW t, DOMAIN t = Fields, NEW from, NEW to
  PROVE  MarkersSet(t, adjust_markers_for_delete(t, from, to), [m \in Marker |->
           IF Less(to, t.markers[m]) THEN Shift(t.markers[m], from.c - to.c, from.b - to.b)
           ELSE IF Less(from, t.markers[m]) THEN from ELSE t.markers[m]])
  BY DEF Fields, adjust_markers_for_delete, MarkersSet, SameText, SameCounts, SameView, SameUndo

LEMMA OfMarkersInsert ==
  ASSUME NEW t, DOMAIN t = Fields, NEW from, NEW to, NEW goes
  PROVE  MarkersSet(t, adjust_markers_for_insert(t, from, to, goes), [m \in Marker |->
           IF t.markers[m].b = from.b
           THEN IF m \in InsertionType \/ goes THEN to ELSE t.markers[m]
           ELSE IF t.markers[m].b > from.b
                THEN Shift(t.markers[m], to.c - from.c, to.b - from.b) ELSE t.markers[m]])
  BY DEF Fields, adjust_markers_for_insert, MarkersSet, SameText, SameCounts, SameView, SameUndo

LEMMA OfMarkersReplace ==
  ASSUME NEW t, DOMAIN t = Fields, NEW from, NEW to, from # to, NEW chars
  PROVE  MarkersSet(t, adjust_markers_for_replace(t, from, to, chars), [m \in Marker |->
           IF t.markers[m].b >= to.b
           THEN Shift(t.markers[m], Len(chars) - (to.c - from.c), Bytes(chars) - (to.b - from.b))
           ELSE IF t.markers[m].b > from.b THEN from ELSE t.markers[m]])
  BY DEF Fields, adjust_markers_for_replace, MarkersSet, SameText, SameCounts, SameView, SameUndo

LEMMA OfMarkersBytes ==
  ASSUME NEW t, DOMAIN t = Fields, NEW from
  PROVE  MarkersSet(t, adjust_markers_bytepos(t, from), [m \in Marker |->
           IF t.markers[m].b > from.b THEN Both(t, t.markers[m].c) ELSE t.markers[m]])
  BY DEF Fields, adjust_markers_bytepos, MarkersSet, SameText, SameCounts, SameView, SameUndo

(* Only the undo list differs, and it is still one. *)
UndoSet(t, u) ==
  /\ DOMAIN u = Fields /\ SameText(t, u) /\ SamePlaces(t, u) /\ SameCounts(t, u)
  /\ SameView(t, u) /\ UndoOK(u.undo_list)

LEMMA OfRecordInsert ==
  ASSUME NEW t, Shaped(t), NEW beg \in Int, NEW length \in Int, point_before \in Int
  PROVE  UndoSet(t, RecordInsert(t, beg, length))
<1>1. DOMAIN t = Fields /\ UndoOK(t.undo_list) /\ Clean(t) \in BOOLEAN
  BY DEF Shaped, Clean
<1>2. UndoOK(record_insert(t.undo_list, beg, length, point_before, Clean(t)))
  BY <1>1, RecordInsertType
<1>. QED BY <1>1, <1>2
     DEF Fields, RecordInsert, UndoSet, SameText, SamePlaces, SameCounts, SameView

LEMMA OfRecordDelete ==
  ASSUME NEW t, Shaped(t), t.markers \in [Marker -> Pos], t.pt \in Pos,
         NEW beg \in Int, NEW chars \in Seq(Char), NEW marks \in BOOLEAN, point_before \in Int
  PROVE  UndoSet(t, RecordDelete(t, beg, chars, marks))
<1>1. DOMAIN t = Fields /\ UndoOK(t.undo_list) /\ Clean(t) \in BOOLEAN
  BY DEF Shaped, Clean
<1>2. CharPositions(t) \in [Marker -> Int] /\ t.pt.c \in Int
  BY DEF CharPositions, Pos
<1>3. UndoOK(record_delete(t.undo_list, beg, chars, marks, CharPositions(t), t.pt.c, point_before,
                           Clean(t)))
  BY <1>1, <1>2, RecordDeleteType
<1>. QED BY <1>1, <1>3
     DEF Fields, RecordDelete, UndoSet, SameText, SamePlaces, SameCounts, SameView

-------------------------------------------------------------------------------
(* The gap and the text                                                      *)

LEMMA EndsOfJoin ==
  ASSUME NEW x \in Seq(Char), NEW y \in Seq(Char)
  PROVE  SubSeq(x \o y, 1, Len(x)) = x /\ SubSeq(x \o y, Len(x) + 1, Len(x \o y)) = y
<1>. DEFINE j == x \o y
            back == SubSeq(j, Len(x) + 1, Len(j))
<1>1. Len(x) \in Nat /\ Len(y) \in Nat
  BY LenProperties
<1>2. /\ j \in Seq(Char) /\ Len(j) = Len(x) + Len(y)
      /\ \A i \in 1 .. Len(x) + Len(y) : j[i] = IF i <= Len(x) THEN x[i] ELSE y[i - Len(x)]
  BY ConcatProperties
<1>3. SubSeq(j, 1, Len(x)) = x
  <2>1. SubSeq(j, 1, Len(x)) = SubSeq(x, 1, Len(x))
    <3>1. Len(x) \in 0 .. Len(x)
      BY <1>1
    <3>. QED BY <3>1, FrontOfFront
  <2>. QED BY <2>1, SubSeqFull
<1>. HIDE DEF j
<1>4. /\ Len(x) + 1 \in 1 .. Len(j) + 1 /\ Len(j) \in 0 .. Len(j)
      /\ Len(x) + 1 <= Len(j) + 1 /\ Len(j) + 1 - (Len(x) + 1) = Len(y)
  BY <1>1, <1>2
<1>5. /\ back \in Seq(Char) /\ Len(back) = Len(j) + 1 - (Len(x) + 1)
      /\ \A i \in 1 .. Len(j) + 1 - (Len(x) + 1) : back[i] = j[(Len(x) + 1) + i - 1]
  BY <1>2, <1>4, PartType
<1>. HIDE DEF back
<1>6. ASSUME NEW i \in 1 .. Len(y) PROVE back[i] = y[i]
  <2>1. /\ (Len(x) + 1) + i - 1 = Len(x) + i /\ Len(x) + i \in 1 .. Len(x) + Len(y)
        /\ ~(Len(x) + i <= Len(x)) /\ (Len(x) + i) - Len(x) = i
    BY <1>1
  <2>2. j[Len(x) + i] = y[i]
    BY <1>2, <2>1
  <2>. QED BY <1>4, <1>5, <2>1, <2>2
<1>7. back = y
  BY <1>4, <1>5, <1>6, SeqEqual
<1>. QED BY <1>3, <1>7 DEF back, j

(* The two sides of the gap are the text before and behind it. *)
LEMMA GapParts ==
  ASSUME NEW t, t.before \in Seq(Char), t.after \in Seq(Char), t.gpt.c = Len(t.before) + 1
  PROVE  /\ t.before = SubSeq(Chars(t), 1, t.gpt.c - BEG)
         /\ t.after = SubSeq(Chars(t), t.gpt.c, Len(Chars(t)))
<1>1. /\ SubSeq(Chars(t), 1, Len(t.before)) = t.before
      /\ SubSeq(Chars(t), Len(t.before) + 1, Len(Chars(t))) = t.after
  BY EndsOfJoin DEF Chars
<1>2. Len(t.before) \in Nat
  BY CharsType
<1>3. t.gpt.c - BEG = Len(t.before)
  BY <1>2 DEF BEG
<1>. QED BY <1>1, <1>3

LEMMA TwoParts ==
  ASSUME NEW chars \in Seq(Char), NEW c \in Places(chars)
  PROVE  /\ SubSeq(chars, 1, c - BEG) \o SubSeq(chars, c, Len(chars)) = chars
         /\ SubSeq(chars, 1, c - BEG) \in Seq(Char) /\ Len(SubSeq(chars, 1, c - BEG)) + 1 = c
         /\ SubSeq(chars, c, Len(chars)) \in Seq(Char)
<1>1. Len(chars) \in Nat /\ c \in 1 .. Len(chars) + 1 /\ c - BEG = c - 1
  BY LenProperties DEF Places, BEG
<1>2. /\ 1 \in 1 .. Len(chars) + 1 /\ Len(chars) \in c - 1 .. Len(chars) /\ c - 1 \in 0 .. Len(chars)
      /\ 1 <= (c - 1) + 1 /\ (c - 1) + 1 - 1 = c - 1 /\ Len(chars) \in 0 .. Len(chars)
      /\ c <= Len(chars) + 1 /\ (c - 1) + 1 = c
  BY <1>1
<1>3. SubSeq(chars, 1, c - 1) \o SubSeq(chars, c, Len(chars)) = SubSeq(chars, 1, Len(chars))
  BY <1>1, <1>2, PartsJoin
<1>4. SubSeq(chars, 1, Len(chars)) = chars
  BY SubSeqFull
<1>5. SubSeq(chars, 1, c - 1) \in Seq(Char) /\ Len(SubSeq(chars, 1, c - 1)) = (c - 1) + 1 - 1
  BY <1>2, PartType
<1>6. SubSeq(chars, c, Len(chars)) \in Seq(Char)
  BY <1>1, <1>2, PartType
<1>7. Len(SubSeq(chars, 1, c - 1)) + 1 = c
  BY <1>2, <1>5, Zenon
<1>. QED BY <1>1, <1>3, <1>4, <1>5, <1>6, <1>7, Zenon

(* Moving the gap moves nothing else. *)
Moved(t, u) ==
  /\ Shaped(u) /\ GapPlaced(u) /\ Chars(u) = Chars(t) /\ u.z = t.z
  /\ SamePlaces(t, u) /\ SameCounts(t, u) /\ SameUndo(t, u)

LEMMA MovedTwice ==
  ASSUME NEW t, NEW u, NEW v, Moved(t, u), Moved(u, v)
  PROVE  Moved(t, v)
  BY Zenon DEF Moved, SamePlaces, SameCounts, SameUndo

LEMMA MoveGap ==
  ASSUME NEW t, Shaped(t), GapPlaced(t), NEW p, NEW stop, Place(Chars(t), stop)
  PROVE  /\ Moved(t, gap_motion(t, p, stop)) /\ gap_motion(t, p, stop).gpt = stop
<1>. DEFINE v == BUF_COMPUTE_UNCHANGED(t, p.c, t.gpt.c)
            u == GapAt(v, stop)
<1>1. /\ DOMAIN v = Fields /\ SameText(t, v) /\ SamePlaces(t, v) /\ SameCounts(t, v)
      /\ SameUndo(t, v)
  BY OfUnchanged DEF Shaped
<1>2. Chars(v) = Chars(t)
  BY <1>1 DEF SameText, Chars
<1>. HIDE DEF v
<1>3. /\ DOMAIN u = Fields /\ SamePlaces(v, u) /\ SameCounts(v, u) /\ SameUndo(v, u)
      /\ u.before = SubSeq(Chars(v), 1, stop.c - BEG)
      /\ u.after = SubSeq(Chars(v), stop.c, Len(Chars(v))) /\ u.gpt = stop /\ u.z = v.z
  BY <1>1, OfGapAt
<1>4. gap_motion(t, p, stop) = u
  BY DEF gap_motion, v
<1>. HIDE DEF u
<1>5. Chars(t) \in Seq(Char) /\ stop.c \in Places(Chars(t))
  BY CharsType, PlaceType DEF Shaped
<1>6. /\ u.before \o u.after = Chars(t) /\ u.before \in Seq(Char) /\ u.after \in Seq(Char)
      /\ stop.c = Len(u.before) + 1
  <2>1. /\ SubSeq(Chars(t), 1, stop.c - BEG) \o SubSeq(Chars(t), stop.c, Len(Chars(t))) = Chars(t)
        /\ SubSeq(Chars(t), 1, stop.c - BEG) \in Seq(Char)
        /\ Len(SubSeq(Chars(t), 1, stop.c - BEG)) + 1 = stop.c
        /\ SubSeq(Chars(t), stop.c, Len(Chars(t))) \in Seq(Char)
    BY <1>5, TwoParts
  <2>. QED BY <1>2, <1>3, <2>1, Zenon
<1>7. Chars(u) = Chars(t) /\ u.z = t.z
  <2>1. Chars(u) = Chars(t)
    BY <1>6, Zenon DEF Chars
  <2>. QED BY <1>1, <1>3, <2>1, Zenon DEF SameText
<1>8. SamePlaces(t, u) /\ SameCounts(t, u) /\ SameUndo(t, u)
  BY <1>1, <1>3, Zenon DEF SamePlaces, SameCounts, SameUndo
<1>9. Shaped(u)
  BY <1>3, <1>6, <1>8 DEF Shaped, SameCounts, SameUndo
<1>10. GapPlaced(u)
  BY <1>3, <1>6, <1>7 DEF GapPlaced
<1>. QED BY <1>3, <1>4, <1>7, <1>8, <1>9, <1>10 DEF Moved

LEMMA MovedNowhere ==
  ASSUME NEW t, Shaped(t), GapPlaced(t)
  PROVE  Moved(t, t)
  BY DEF Moved, SamePlaces, SameCounts, SameUndo

LEMMA MoveGapBoth ==
  ASSUME NEW t, Shaped(t), GapPlaced(t), NEW p, Place(Chars(t), p)
  PROVE  Moved(t, move_gap_both(t, p)) /\ move_gap_both(t, p).gpt = p
<1>1. CASE p.b = t.gpt.b
  <2>1. Place(Chars(t), t.gpt) /\ Chars(t) \in Seq(Char)
    BY CharsType DEF GapPlaced, Shaped
  <2>2. p = t.gpt
    BY <1>1, <2>1, PlaceOrder
  <2>. QED BY <1>1, <2>2, MovedNowhere DEF move_gap_both
<1>2. CASE p.b # t.gpt.b
  BY <1>2, MoveGap DEF move_gap_both
<1>. QED BY <1>1, <1>2

LEMMA MoveGapToward ==
  ASSUME NEW t, Shaped(t), GapPlaced(t), NEW from, NEW to,
         Place(Chars(t), from), Place(Chars(t), to), from.c <= to.c
  PROVE  LET u == GapToward(t, from, to) IN
         Moved(t, u) /\ from.c <= u.gpt.c /\ u.gpt.c <= to.c
<1>. DEFINE r == IF from.c > t.gpt.c THEN gap_motion(t, from, from) ELSE t
            u == IF to.c < r.gpt.c THEN gap_motion(r, to, to) ELSE r
<1>1. GapToward(t, from, to) = u
  BY DEF GapToward
<1>2. Chars(t) \in Seq(Char) /\ Place(Chars(t), t.gpt)
  BY CharsType DEF GapPlaced, Shaped
<1>3. from.c \in Nat /\ to.c \in Nat /\ t.gpt.c \in Nat
  BY <1>2, PlaceType
<1>4. Moved(t, r) /\ r.gpt.c \in Nat /\ from.c <= r.gpt.c
  <2>1. CASE from.c > t.gpt.c
    <3>1. Moved(t, r) /\ r.gpt = from
      BY <2>1, MoveGap
    <3>. QED BY <1>3, <3>1
  <2>2. CASE ~(from.c > t.gpt.c)
    <3>1. r = t
      BY <2>2
    <3>. QED BY <1>3, <2>2, <3>1, MovedNowhere
  <2>. QED BY <2>1, <2>2
<1>5. Shaped(r) /\ GapPlaced(r) /\ Chars(r) = Chars(t)
  BY <1>4 DEF Moved
<1>. HIDE DEF r
<1>6. CASE to.c < r.gpt.c
  <2>1. Moved(r, u) /\ u.gpt = to
    BY <1>5, <1>6, MoveGap
  <2>. HIDE DEF u
  <2>2. Moved(t, u)
    BY <1>4, <2>1, MovedTwice
  <2>. QED BY <1>1, <1>3, <2>1, <2>2
<1>7. CASE ~(to.c < r.gpt.c)
  <2>1. u = r
    BY <1>7
  <2>. QED BY <1>1, <1>3, <1>4, <1>7, <2>1
<1>. QED BY <1>6, <1>7

-------------------------------------------------------------------------------
(* Steps that leave the text alone, and steps that edit it                   *)

Grown(t, u) ==
  /\ u.modiff \in Nat /\ u.modiff >= t.modiff
  /\ u.save_modiff = t.save_modiff /\ u.unchanged_modified = t.unchanged_modified

(* The same text, perhaps with the gap elsewhere *)
Near(t, u) ==
  /\ Shaped(u) /\ GapPlaced(u) /\ Chars(u) = Chars(t)
  /\ SamePlaces(t, u) /\ Grown(t, u)

(* The text from FROM to TO has become NEW; point and the markers are yet to *)
(* follow.                                                                   *)
Edited(t, u, from, to, new) ==
  /\ Shaped(u) /\ GapPlaced(u) /\ Chars(u) = Splice(Chars(t), from.c, to.c, new)
  /\ SamePlaces(t, u) /\ Grown(t, u)

LEMMA StillShaped ==
  ASSUME NEW t, Shaped(t), NEW u, DOMAIN u = Fields, SameText(t, u), UndoOK(u.undo_list), Grown(t, u)
  PROVE  /\ Shaped(u) /\ Chars(u) = Chars(t)
         /\ GapPlaced(t) => GapPlaced(u)
<1>1. /\ t.modiff \in Nat /\ t.save_modiff \in Int /\ 0 <= t.save_modiff
      /\ t.save_modiff <= t.modiff /\ t.unchanged_modified \in Int /\ 0 <= t.unchanged_modified
      /\ t.unchanged_modified <= t.modiff
  BY DEF Shaped
<1>2. \A a \in Int, b, c \in Nat : 0 <= a /\ a <= b /\ c >= b => a \in 0 .. c
  OBVIOUS
<1>3. u.save_modiff \in 0 .. u.modiff /\ u.unchanged_modified \in 0 .. u.modiff /\ u.modiff \in Nat
  BY <1>1, <1>2, Zenon DEF Grown
<1>4. Shaped(u)
  BY <1>3, Zenon DEF Shaped, SameText
<1>5. Chars(u) = Chars(t)
  BY Zenon DEF Chars, SameText
<1>6. GapPlaced(t) => GapPlaced(u)
  BY <1>5, Zenon DEF GapPlaced, SameText
<1>. QED BY <1>4, <1>5, <1>6

LEMMA SameGrown ==
  ASSUME NEW t, Shaped(t), NEW u, SameCounts(t, u)
  PROVE  Grown(t, u)
<1>1. t.modiff \in Nat /\ t.modiff >= t.modiff
  BY DEF Shaped
<1>. QED BY <1>1, Zenon DEF SameCounts, Grown

LEMMA NearTwice ==
  ASSUME NEW t, Shaped(t), NEW u, NEW v, Near(t, u), Near(u, v)
  PROVE  Near(t, v)
<1>1. u.modiff >= t.modiff /\ v.modiff >= u.modiff /\ t.modiff \in Nat /\ u.modiff \in Nat
      /\ v.modiff \in Nat
  BY DEF Near, Grown, Shaped
<1>2. \A a, b, c \in Nat : b >= a /\ c >= b => c >= a
  OBVIOUS
<1>3. v.modiff >= t.modiff
  BY <1>1, <1>2, Zenon
<1>. QED BY <1>3, Zenon DEF Near, Grown, SamePlaces

LEMMA EditedThenNear ==
  ASSUME NEW t, Shaped(t), NEW u, NEW v, NEW from, NEW to, NEW new,
         Edited(t, u, from, to, new), Near(u, v)
  PROVE  Edited(t, v, from, to, new)
<1>1. u.modiff >= t.modiff /\ v.modiff >= u.modiff /\ t.modiff \in Nat /\ u.modiff \in Nat
      /\ v.modiff \in Nat
  BY DEF Near, Edited, Grown, Shaped
<1>2. \A a, b, c \in Nat : b >= a /\ c >= b => c >= a
  OBVIOUS
<1>3. v.modiff >= t.modiff
  BY <1>1, <1>2, Zenon
<1>. QED BY <1>3, Zenon DEF Near, Edited, Grown, SamePlaces

LEMMA NearThenEdited ==
  ASSUME NEW t, Shaped(t), NEW u, NEW v, NEW from, NEW to, NEW new,
         Near(t, u), Edited(u, v, from, to, new)
  PROVE  Edited(t, v, from, to, new)
<1>1. u.modiff >= t.modiff /\ v.modiff >= u.modiff /\ t.modiff \in Nat /\ u.modiff \in Nat
      /\ v.modiff \in Nat
  BY DEF Near, Edited, Grown, Shaped
<1>2. \A a, b, c \in Nat : b >= a /\ c >= b => c >= a
  OBVIOUS
<1>3. v.modiff >= t.modiff
  BY <1>1, <1>2, Zenon
<1>. QED BY <1>3, Zenon DEF Near, Edited, Grown, SamePlaces

(* Bookkeeping *)

LEMMA NearItself ==
  ASSUME NEW t, Shaped(t), GapPlaced(t)
  PROVE  Near(t, t)
<1>1. Grown(t, t)
  BY SameGrown DEF SameCounts
<1>. QED BY <1>1 DEF Near, SamePlaces

LEMMA NearMoved ==
  ASSUME NEW t, Shaped(t), NEW u, Moved(t, u)
  PROVE  Near(t, u)
<1>1. Grown(t, u)
  BY SameGrown DEF Moved
<1>. QED BY <1>1 DEF Near, Moved

LEMMA NearCaches ==
  ASSUME NEW t, Shaped(t), GapPlaced(t), NEW start, NEW end
  PROVE  LET u == invalidate_buffer_caches(t, start, end) IN
         Near(t, u) /\ u.gpt = t.gpt /\ SameView(t, u) /\ u.z = t.z
<1>. DEFINE u == invalidate_buffer_caches(t, start, end)
<1>1. /\ DOMAIN u = Fields /\ SameText(t, u) /\ SamePlaces(t, u) /\ SameCounts(t, u)
      /\ SameView(t, u) /\ SameUndo(t, u)
  BY OfCaches DEF Shaped
<1>. HIDE DEF u
<1>2. Grown(t, u) /\ UndoOK(u.undo_list)
  BY <1>1, SameGrown DEF Shaped, SameUndo
<1>3. Shaped(u) /\ Chars(u) = Chars(t) /\ GapPlaced(u)
  BY <1>1, <1>2, StillShaped
<1>4. Near(t, u) /\ u.gpt = t.gpt /\ SameView(t, u) /\ u.z = t.z
  BY <1>1, <1>2, <1>3 DEF Near, SameText
<1>. QED BY <1>4 DEF u

LEMMA NearModiff ==
  ASSUME NEW t, Shaped(t), GapPlaced(t), NEW len
  PROVE  LET u == modiff_incr(t, len) IN
         Near(t, u) /\ SameText(t, u) /\ SameView(t, u) /\ u.modiff > t.modiff
<1>. DEFINE u == modiff_incr(t, len)
<1>1. /\ DOMAIN u = Fields /\ SameText(t, u) /\ SamePlaces(t, u)
      /\ SameView(t, u) /\ SameUndo(t, u)
      /\ u.modiff \in Nat /\ u.modiff > t.modiff /\ u.save_modiff = t.save_modiff
      /\ u.unchanged_modified = t.unchanged_modified
  BY OfModiff DEF Shaped
<1>. HIDE DEF u
<1>2. UndoOK(u.undo_list)
  BY <1>1 DEF Shaped, SameUndo
<1>3. \A a, b \in Nat : a > b => a >= b
  OBVIOUS
<1>4. t.modiff \in Nat
  BY DEF Shaped
<1>5. Grown(t, u)
  BY <1>1, <1>3, <1>4 DEF Grown
<1>6. Shaped(u) /\ Chars(u) = Chars(t) /\ GapPlaced(u)
  BY <1>1, <1>2, <1>5, StillShaped
<1>7. Near(t, u) /\ SameText(t, u) /\ SameView(t, u) /\ u.modiff > t.modiff
  BY <1>1, <1>5, <1>6 DEF Near
<1>. QED BY <1>7 DEF u

LEMMA NearUndo ==
  ASSUME NEW t, Shaped(t), GapPlaced(t), NEW u, UndoSet(t, u)
  PROVE  Near(t, u) /\ SameText(t, u) /\ SameView(t, u) /\ SameCounts(t, u)
<1>1. Grown(t, u)
  BY SameGrown DEF UndoSet
<1>2. Shaped(u) /\ Chars(u) = Chars(t) /\ GapPlaced(u)
  BY <1>1, StillShaped DEF UndoSet
<1>. QED BY <1>1, <1>2 DEF Near, UndoSet

(* What redisplay is told is not part of the text. *)
LEMMA NearView ==
  ASSUME NEW t, Shaped(t), GapPlaced(t), NEW u, DOMAIN u = Fields, SameText(t, u),
         SamePlaces(t, u), SameCounts(t, u), SameUndo(t, u)
  PROVE  Near(t, u)
<1>1. Grown(t, u) /\ UndoOK(u.undo_list)
  BY SameGrown DEF Shaped, SameUndo
<1>2. Shaped(u) /\ Chars(u) = Chars(t) /\ GapPlaced(u)
  BY <1>1, StillShaped
<1>. QED BY <1>1, <1>2 DEF Near

LEMMA NearLower ==
  ASSUME NEW t, Shaped(t), GapPlaced(t)
  PROVE  /\ Near(t, LowerEnd(t)) /\ SameText(t, LowerEnd(t))
         /\ Near(t, LowerBoth(t)) /\ SameText(t, LowerBoth(t))
<1>1. DOMAIN t = Fields
  BY DEF Shaped
<1>. QED BY <1>1, OfLowerEnd, OfLowerBoth, NearView

(* Shifting *)

LEMMA ShiftParts ==
  ASSUME NEW p \in Pos, NEW k \in Int, NEW kb \in Int
  PROVE  /\ Shift(p, k, kb) \in Pos
         /\ Shift(p, k, kb).c = p.c + k /\ Shift(p, k, kb).b = p.b + kb
         /\ Shift(p, 0, 0) = p
  BY DEF Shift, Pos

LEMMA ShiftChars ==
  \A p \in Pos, n \in Int, nb \in Int : Shift(p, n, nb).c = p.c + n
  BY DEF Shift, Pos

LEMMA ShiftTwice ==
  ASSUME NEW p \in Pos, NEW k \in Int, NEW kb \in Int, NEW l \in Int, NEW lb \in Int
  PROVE  Shift(Shift(p, k, kb), l, lb) = Shift(p, k + l, kb + lb)
  BY DEF Shift, Pos

(* The same, where text is only put in and where it is only taken out *)
LEMMA SpliceInto ==
  ASSUME NEW chars \in Seq(Char), NEW at, Place(chars, at), NEW new \in Seq(Char)
  PROVE  LET after == Splice(chars, at.c, at.c, new) IN
         /\ after \in Seq(Char) /\ Len(after) = Len(chars) + Len(new)
         /\ Place(after, Shift(at, Len(new), Bytes(new)))
         /\ \A p : Place(chars, p) =>
              /\ p.c <= at.c => Place(after, p)
              /\ p.c >= at.c => Place(after, Shift(p, Len(new), Bytes(new)))
<1>. DEFINE after == Splice(chars, at.c, at.c, new)
<1>1. /\ Len(chars) \in Nat /\ Len(new) \in Nat /\ Bytes(new) \in Nat
      /\ at \in [c : Int, b : Int] /\ at.c \in Places(chars) /\ at.c <= at.c
  BY LenProperties, BytesConcat, PlaceType
<1>2. at.c - at.c = 0 /\ at.b - at.b = 0
  BY <1>1
<1>3. /\ after \in Seq(Char)
      /\ Len(after) = Len(chars) + Len(new) - (at.c - at.c)
  BY <1>1, SpliceType
<1>4. Place(after, Shift(at, Len(new), Bytes(new)))
  BY <1>1, SplicePlaces
<1>5. ASSUME NEW p, Place(chars, p)
      PROVE  /\ p.c <= at.c => Place(after, p)
             /\ p.c >= at.c => Place(after, Shift(p, Len(new) - (at.c - at.c),
                                                     Bytes(new) - (at.b - at.b)))
  BY <1>1, <1>5, SplicePlaces
<1>6. \A x \in Nat : x - 0 = x /\ \A y \in Nat : y + x - 0 = y + x
  OBVIOUS
<1>. HIDE DEF after
<1>7. Len(after) = Len(chars) + Len(new)
  BY <1>1, <1>2, <1>3, <1>6, Zenon
<1>8. Len(new) - (at.c - at.c) = Len(new) /\ Bytes(new) - (at.b - at.b) = Bytes(new)
  BY <1>1, <1>2, <1>6, Zenon
<1>9. \A p : Place(chars, p) =>
        /\ p.c <= at.c => Place(after, p)
        /\ p.c >= at.c => Place(after, Shift(p, Len(new), Bytes(new)))
  BY <1>5, <1>8, Zenon
<1>. QED BY <1>3, <1>4, <1>7, <1>9 DEF after

LEMMA SpliceOut ==
  ASSUME NEW chars \in Seq(Char), NEW from, NEW to, Place(chars, from), Place(chars, to),
         from.c <= to.c
  PROVE  LET after == Splice(chars, from.c, to.c, <<>>) IN
         /\ after \in Seq(Char) /\ Len(after) = Len(chars) + (from.c - to.c)
         /\ \A p : Place(chars, p) =>
              /\ p.c <= from.c => Place(after, p)
              /\ p.c >= to.c => Place(after, Shift(p, from.c - to.c, from.b - to.b))
<1>. DEFINE after == Splice(chars, from.c, to.c, <<>>)
<1>1. /\ Len(chars) \in Nat /\ Len(<<>>) = 0 /\ Bytes(<<>>) = 0 /\ <<>> \in Seq(Char)
      /\ from \in [c : Int, b : Int] /\ to \in [c : Int, b : Int]
      /\ from.c \in Places(chars) /\ to.c \in Places(chars)
  BY LenProperties, EmptySeq, BytesSmall, PlaceType
<1>2. /\ 0 - (to.c - from.c) = from.c - to.c /\ 0 - (to.b - from.b) = from.b - to.b
      /\ \A n \in Nat : n + 0 - (to.c - from.c) = n + (from.c - to.c)
  BY <1>1
<1>3. /\ after \in Seq(Char)
      /\ Len(after) = Len(chars) + Len(<<>>) - (to.c - from.c)
  BY <1>1, SpliceType
<1>4. ASSUME NEW p, Place(chars, p)
      PROVE  /\ p.c <= from.c => Place(after, p)
             /\ p.c >= to.c => Place(after, Shift(p, Len(<<>>) - (to.c - from.c),
                                                     Bytes(<<>>) - (to.b - from.b)))
  BY <1>1, <1>4, SplicePlaces
<1>. HIDE DEF after
<1>5. Len(after) = Len(chars) + (from.c - to.c)
  BY <1>1, <1>2, <1>3, Zenon
<1>6. \A p : Place(chars, p) =>
        /\ p.c <= from.c => Place(after, p)
        /\ p.c >= to.c => Place(after, Shift(p, from.c - to.c, from.b - to.b))
  BY <1>1, <1>2, <1>4, Zenon
<1>. QED BY <1>3, <1>5, <1>6 DEF after

(* The order of places *)

LEMMA PlaceLess ==
  ASSUME NEW chars \in Seq(Char), NEW p, Place(chars, p), NEW q, Place(chars, q)
  PROVE  /\ p.c <= p.c /\ p.c >= p.c
         /\ p.c <= q.c \/ q.c < p.c
         /\ p.c <= q.c <=> q.c >= p.c
         /\ p.c < q.c => p.c <= q.c
         /\ p.c <= q.c <=> ~(q.c < p.c)
         /\ p.b > q.b <=> q.c < p.c
         /\ p.b >= q.b <=> q.c <= p.c
         /\ p.b = q.b <=> p = q
<1>1. /\ p \in [c : Int, b : Int] /\ q \in [c : Int, b : Int]
      /\ p.c < q.c <=> p.b < q.b
      /\ q.c < p.c <=> q.b < p.b
      /\ p.c = q.c <=> p.b = q.b
      /\ p.c = q.c => p = q
  BY PlaceType, PlaceOrder
<1>2. p = q => p.b = q.b
  OBVIOUS
<1>3. p.b = q.b <=> p = q
  BY <1>1, <1>2
<1>. QED BY <1>1, <1>3

LEMMA PlaceOrdered ==
  ASSUME NEW chars \in Seq(Char), NEW p, Place(chars, p), NEW q, Place(chars, q),
         NEW r, Place(chars, r), p.c <= q.c, q.c <= r.c
  PROVE  p.c <= r.c
<1>1. /\ p \in [c : Int, b : Int] /\ q \in [c : Int, b : Int] /\ r \in [c : Int, b : Int]
  BY PlaceType
<1>. QED BY <1>1

LEMMA EndIsLast ==
  ASSUME NEW chars \in Seq(Char), NEW z, Place(chars, z), z.c = Len(chars) + 1,
         NEW p, Place(chars, p)
  PROVE  p.c <= z.c /\ z.c >= p.c
<1>1. /\ p \in [c : Int, b : Int] /\ z \in [c : Int, b : Int] /\ Len(chars) \in Nat
      /\ p.c <= Len(chars) + 1
  BY PlaceType, LenProperties
<1>. QED BY <1>1

Behind(p, n) == p.c = n + 1

LEMMA EndShifted ==
  ASSUME NEW z \in Pos, NEW n \in Int, Behind(z, n), NEW k \in Int, NEW kb \in Int
  PROVE  Behind(Shift(z, k, kb), n + k)
  BY DEF Pos, Shift, Behind

(* The text is put in where the gap is. *)
LEMMA TakeInText ==
  ASSUME NEW t, Shaped(t), GapPlaced(t), NEW new \in Seq(Char)
  PROVE  LET u == TakeIn(t, new) IN
         /\ Edited(t, u, t.gpt, t.gpt, new) /\ SameView(t, u) /\ SameCounts(t, u)
         /\ u.before = t.before \o new /\ u.after = t.after
         /\ u.gpt = Shift(t.gpt, Len(new), Bytes(new))
         /\ u.z = Shift(t.z, Len(new), Bytes(new))
<1>. DEFINE u == TakeIn(t, new)
            g == t.gpt
            S == Splice(Chars(t), g.c, g.c, new)
<1>1. /\ DOMAIN u = Fields /\ SamePlaces(t, u) /\ SameCounts(t, u)
      /\ SameView(t, u) /\ SameUndo(t, u)
      /\ u.before = t.before \o new /\ u.after = t.after
      /\ u.gpt = Shift(g, Len(new), Bytes(new))
      /\ u.z = Shift(t.z, Len(new), Bytes(new))
  BY OfTakeIn DEF Shaped
<1>. HIDE DEF u
<1>2. /\ Chars(t) \in Seq(Char) /\ Len(Chars(t)) \in Nat /\ Len(t.before) \in Nat
      /\ Place(Chars(t), g) /\ g.c = Len(t.before) + 1
      /\ Place(Chars(t), t.z) /\ t.z.c = Len(Chars(t)) + 1
      /\ t.before \in Seq(Char) /\ t.after \in Seq(Char)
      /\ Len(new) \in Nat /\ Bytes(new) \in Nat
  BY CharsType, LenProperties, BytesConcat DEF GapPlaced, Shaped
<1>3. g \in Pos /\ t.z \in Pos
  BY <1>2 DEF Place
<1>4. u.before \in Seq(Char) /\ Len(u.before) = Len(t.before) + Len(new) /\ u.after \in Seq(Char)
  BY <1>1, <1>2, ConcatProperties
<1>5. Chars(u) = S
  <2>1. /\ t.before = SubSeq(Chars(t), 1, g.c - BEG)
        /\ t.after = SubSeq(Chars(t), g.c, Len(Chars(t)))
    BY <1>2, GapParts
  <2>2. g.c - BEG = g.c - 1
    BY DEF BEG
  <2>. QED BY <1>1, <2>1, <2>2, Zenon DEF Chars, Splice
<1>6. /\ S \in Seq(Char) /\ Len(S) = Len(Chars(t)) + Len(new)
      /\ Place(S, Shift(g, Len(new), Bytes(new)))
      /\ Place(S, Shift(t.z, Len(new), Bytes(new)))
  <2>1. t.z.c >= g.c
    BY <1>2, EndIsLast
  <2>2. /\ S \in Seq(Char) /\ Len(S) = Len(Chars(t)) + Len(new)
        /\ Place(S, Shift(g, Len(new), Bytes(new)))
        /\ \A p : Place(Chars(t), p) =>
             (p.c >= g.c => Place(S, Shift(p, Len(new), Bytes(new))))
    BY <1>2, SpliceInto
  <2>. QED BY <1>2, <2>1, <2>2, Zenon
<1>. HIDE DEF S
<1>7. Place(S, u.gpt) /\ Place(S, u.z)
  BY <1>1, <1>6, Zenon
<1>8. u.gpt.c = Len(u.before) + 1 /\ u.z.c = Len(S) + 1
  <2>1. Len(new) \in Int /\ Bytes(new) \in Int /\ Len(t.before) \in Int /\ Len(Chars(t)) \in Int
    BY <1>2
  <2>2. Behind(g, Len(t.before)) /\ Behind(t.z, Len(Chars(t)))
    BY <1>2, Zenon DEF Behind
  <2>3. /\ Behind(Shift(g, Len(new), Bytes(new)), Len(t.before) + Len(new))
        /\ Behind(Shift(t.z, Len(new), Bytes(new)), Len(Chars(t)) + Len(new))
    BY <1>3, <2>1, <2>2, EndShifted
  <2>. QED BY <1>1, <1>4, <1>6, <2>3, Zenon DEF Behind
<1>9. GapPlaced(u)
  BY <1>5, <1>7, <1>8, Zenon DEF GapPlaced
<1>10. Shaped(u) /\ Grown(t, u)
  BY <1>1, <1>4, SameGrown DEF Shaped, SameCounts, SameUndo
<1>11. Edited(t, u, g, g, new)
  BY <1>1, <1>5, <1>9, <1>10 DEF Edited, S
<1>. QED BY <1>1, <1>11 DEF u

(* The text from FROM to TO is given up, with the gap in or next to it. *)
LEMMA GiveUpText ==
  ASSUME NEW t, Shaped(t), GapPlaced(t), NEW from, NEW to,
         Place(Chars(t), from), Place(Chars(t), to), from.c <= t.gpt.c, t.gpt.c <= to.c
  PROVE  LET u == GiveUp(t, from, to) IN
         /\ Edited(t, u, from, to, <<>>) /\ SameView(t, u) /\ SameCounts(t, u)
         /\ u.before = SubSeq(Chars(t), 1, from.c - BEG)
         /\ u.after = SubSeq(Chars(t), to.c, Len(Chars(t)))
         /\ u.gpt = from
         /\ u.z = Shift(t.z, from.c - to.c, from.b - to.b)
<1>. DEFINE u == GiveUp(t, from, to)
            C == Chars(t)
            S == Splice(C, from.c, to.c, <<>>)
<1>1. /\ DOMAIN u = Fields /\ SamePlaces(t, u) /\ SameCounts(t, u)
      /\ SameView(t, u) /\ SameUndo(t, u)
      /\ u.before = SubSeq(t.before, 1, from.c - BEG)
      /\ u.after = SubSeq(C, to.c, Len(C)) /\ u.gpt = from
      /\ u.z = Shift(t.z, from.c - to.c, from.b - to.b)
  BY OfGiveUp DEF Shaped
<1>. HIDE DEF u
<1>2. /\ C \in Seq(Char) /\ Len(C) \in Nat /\ Len(t.before) \in Nat
      /\ Place(C, t.gpt) /\ t.gpt.c = Len(t.before) + 1
      /\ Place(C, t.z) /\ t.z.c = Len(C) + 1
      /\ t.before \in Seq(Char) /\ t.after \in Seq(Char) /\ C = t.before \o t.after
  BY CharsType DEF GapPlaced, Shaped, Chars
<1>3. Place(C, from) /\ Place(C, to)
  OBVIOUS
<1>. HIDE DEF C
<1>4. /\ from \in Pos /\ to \in Pos /\ t.z \in Pos /\ t.gpt \in Pos
      /\ from.c \in Nat /\ from.c >= 1 /\ to.c \in Nat
      /\ from.c \in Places(C) /\ to.c \in Places(C)
      /\ from.c - to.c \in Int /\ from.b - to.b \in Int
  <2>1. from \in Pos /\ to \in Pos /\ t.z \in Pos /\ t.gpt \in Pos
    BY <1>2, <1>3 DEF Place
  <2>2. from.c - to.c \in Int /\ from.b - to.b \in Int
    BY <2>1 DEF Pos
  <2>. QED BY <1>2, <1>3, <2>1, <2>2, PlaceType
<1>5. from.c <= to.c
  BY <1>2, <1>3, PlaceOrdered
<1>6. u.before = SubSeq(C, 1, from.c - BEG)
  <2>1. \A g \in Pos, n \in Nat : g.c = n + 1 /\ from.c <= g.c => from.c - BEG \in 0 .. n
    BY <1>4 DEF Pos, BEG
  <2>2. from.c - BEG \in 0 .. Len(t.before)
    BY <1>2, <1>4, <2>1
  <2>. QED BY <1>1, <1>2, <2>2, FrontOfFront
<1>7. /\ S \in Seq(Char) /\ Len(S) = Len(C) + (from.c - to.c)
      /\ Place(S, from) /\ Place(S, Shift(t.z, from.c - to.c, from.b - to.b))
  <2>1. from.c <= from.c /\ t.z.c >= to.c
    BY <1>2, <1>3, EndIsLast, PlaceLess
  <2>. QED BY <1>2, <1>3, <1>5, <2>1, SpliceOut
<1>8. /\ SubSeq(C, 1, from.c - BEG) \in Seq(Char) /\ Len(SubSeq(C, 1, from.c - BEG)) + 1 = from.c
      /\ SubSeq(C, to.c, Len(C)) \in Seq(Char)
  BY <1>2, <1>4, TwoParts
<1>9. u.before \in Seq(Char) /\ Len(u.before) + 1 = from.c /\ u.after \in Seq(Char)
  BY <1>1, <1>6, <1>8, Zenon
<1>10. Chars(u) = S
  <2>1. u.before \o <<>> = u.before
    BY <1>9, ConcatEmptySeq
  <2>2. from.c - BEG = from.c - 1
    BY DEF BEG
  <2>. QED BY <1>1, <1>6, <2>1, <2>2, Zenon DEF Chars, Splice
<1>. HIDE DEF S
<1>11. Place(S, u.gpt) /\ Place(S, u.z)
  BY <1>1, <1>7, Zenon
<1>12. u.z.c = Len(S) + 1
  <2>1. Len(C) \in Int
    BY <1>2
  <2>2. Behind(t.z, Len(C))
    BY <1>2, Zenon DEF Behind
  <2>3. Behind(Shift(t.z, from.c - to.c, from.b - to.b), Len(C) + (from.c - to.c))
    BY <1>4, <2>1, <2>2, EndShifted
  <2>. QED BY <1>1, <1>7, <2>3, Zenon DEF Behind
<1>13. GapPlaced(u)
  BY <1>1, <1>9, <1>10, <1>11, <1>12, Zenon DEF GapPlaced
<1>14. Shaped(u) /\ Grown(t, u)
  BY <1>1, <1>9, SameGrown DEF Shaped, SameCounts, SameUndo
<1>15. Edited(t, u, from, to, <<>>)
  BY <1>1, <1>10, <1>13, <1>14 DEF Edited, S, C
<1>. QED BY <1>1, <1>6, <1>15 DEF u, C
-------------------------------------------------------------------------------
(* What an edit does to point and to a marker                                *)

LEMMA GoodFrom ==
  ASSUME NEW t, Shaped(t), GapPlaced(t), NEW u, DOMAIN u = Fields,
         SameText(t, u), SameCounts(t, u), SameUndo(t, u),
         Place(Chars(t), u.pt), u.markers \in [Marker -> Pos],
         \A m \in Marker : Place(Chars(t), u.markers[m])
  PROVE  Good(u) /\ Chars(u) = Chars(t) /\ Grown(t, u)
<1>1. Grown(t, u) /\ UndoOK(u.undo_list)
  BY SameGrown DEF Shaped, SameUndo
<1>2. Shaped(u) /\ Chars(u) = Chars(t) /\ GapPlaced(u)
  BY <1>1, StillShaped
<1>. QED BY <1>1, <1>2 DEF Good

AfterInsert(p, at, to, goes) ==
  IF p.b = at.b THEN IF goes THEN to ELSE p
  ELSE IF p.b > at.b THEN Shift(p, to.c - at.c, to.b - at.b) ELSE p

LEMMA InsertMoves ==
  ASSUME NEW chars \in Seq(Char), NEW at, Place(chars, at), NEW new \in Seq(Char),
         NEW p, Place(chars, p), NEW goes \in BOOLEAN
  PROVE  LET q == AfterInsert(p, at, Shift(at, Len(new), Bytes(new)), goes) IN
         /\ Place(Splice(chars, at.c, at.c, new), q)
         /\ q.c = IF p.c > at.c \/ (p.c = at.c /\ goes) THEN p.c + Len(new) ELSE p.c
<1>. DEFINE to == Shift(at, Len(new), Bytes(new))
            after == Splice(chars, at.c, at.c, new)
            q == AfterInsert(p, at, to, goes)
<1>1. /\ at \in Pos /\ p \in Pos /\ Len(new) \in Int /\ Bytes(new) \in Int
  BY LenProperties, BytesConcat DEF Place
<1>2. /\ to.c = at.c + Len(new) /\ to.b = at.b + Bytes(new)
      /\ Shift(p, Len(new), Bytes(new)).c = p.c + Len(new)
  BY <1>1, ShiftParts
<1>3. to.c - at.c = Len(new) /\ to.b - at.b = Bytes(new)
  BY <1>1, <1>2 DEF Pos
<1>4. /\ Place(after, to)
      /\ p.c <= at.c => Place(after, p)
      /\ p.c >= at.c => Place(after, Shift(p, Len(new), Bytes(new)))
  BY SpliceInto
<1>5. /\ p.b = at.b <=> p = at
      /\ p.b > at.b <=> at.c < p.c
      /\ (p.c <= at.c <=> ~(at.c < p.c)) /\ (at.c <= p.c <=> p.c >= at.c)
      /\ at.c < p.c => at.c <= p.c
  BY PlaceLess
<1>. HIDE DEF after, to
<1>6. CASE p.b = at.b
  <2>1. p = at /\ ~(p.c > at.c)
    BY <1>1, <1>5, <1>6 DEF Pos
  <2>2. CASE goes
    <3>1. q = to
      BY <1>6, <2>2 DEF AfterInsert
    <3>. QED BY <1>2, <1>4, <2>1, <2>2, <3>1 DEF to, after
  <2>3. CASE ~goes
    <3>1. q = p
      BY <1>6, <2>3 DEF AfterInsert
    <3>2. p.c <= at.c
      BY <1>1, <2>1 DEF Pos
    <3>. QED BY <1>4, <2>1, <2>3, <3>1, <3>2 DEF to, after
  <2>. QED BY <2>2, <2>3
<1>7. CASE p.b > at.b
  <2>1. p.b # at.b /\ at.c < p.c /\ p.c >= at.c /\ p.c > at.c
    BY <1>1, <1>7, PlaceLess DEF Pos
  <2>2. q = Shift(p, Len(new), Bytes(new))
    BY <1>3, <1>7, <2>1 DEF AfterInsert
  <2>. QED BY <1>2, <1>4, <2>1, <2>2 DEF to, after
<1>8. CASE p.b # at.b /\ ~(p.b > at.b)
  <2>1. p.c <= at.c /\ p.c # at.c /\ ~(p.c > at.c)
    BY <1>1, <1>8, PlaceLess, PlaceOrder DEF Pos
  <2>2. q = p
    BY <1>8 DEF AfterInsert
  <2>. QED BY <1>4, <2>1, <2>2 DEF to, after
<1>. QED BY <1>6, <1>7, <1>8

AfterDeletion(p, from, to) ==
  IF Less(to, p) THEN Shift(p, from.c - to.c, from.b - to.b)
  ELSE IF Less(from, p) THEN from ELSE p

LEMMA DeleteMoves ==
  ASSUME NEW chars \in Seq(Char), NEW from, NEW to, Place(chars, from), Place(chars, to),
         from.c <= to.c, NEW p, Place(chars, p)
  PROVE  LET q == AfterDeletion(p, from, to) IN
         /\ Place(Splice(chars, from.c, to.c, <<>>), q)
         /\ q.c = IF p.c >= to.c THEN p.c - (to.c - from.c) ELSE IF p.c > from.c THEN from.c ELSE p.c
<1>. DEFINE after == Splice(chars, from.c, to.c, <<>>)
            q == AfterDeletion(p, from, to)
            k == from.c - to.c
            kb == from.b - to.b
<1>1. /\ from \in Pos /\ to \in Pos /\ p \in Pos
      /\ from \in [c : Int, b : Int] /\ to \in [c : Int, b : Int] /\ p \in [c : Int, b : Int]
  BY DEF Place, Pos
<1>2. k \in Int /\ kb \in Int
  BY <1>1
<1>3. /\ \A r : Place(chars, r) =>
           /\ r.c <= from.c => Place(after, r)
           /\ r.c >= to.c => Place(after, Shift(r, k, kb))
  BY SpliceOut
<1>4. from.c <= from.c
  BY PlaceLess
<1>. HIDE DEF after, k, kb
<1>5. Shift(p, k, kb).c = p.c + k
  BY <1>1, <1>2, ShiftParts
<1>6. CASE Less(to, p)
  <2>1. q = Shift(p, k, kb)
    BY <1>6 DEF AfterDeletion, k, kb
  <2>2. p.c >= to.c /\ p.c + k = p.c - (to.c - from.c)
    BY <1>1, <1>6 DEF Less, k
  <2>. QED BY <1>3, <1>5, <2>1, <2>2, Zenon DEF after
<1>7. CASE ~Less(to, p) /\ Less(from, p)
  <2>1. q = from
    BY <1>7 DEF AfterDeletion
  <2>2. /\ p.c > from.c /\ (p.c >= to.c => p.c - (to.c - from.c) = from.c)
    BY <1>1, <1>7 DEF Less
  <2>. QED BY <1>3, <1>4, <2>1, <2>2, Zenon DEF after
<1>8. CASE ~Less(to, p) /\ ~Less(from, p)
  <2>1. q = p
    BY <1>8 DEF AfterDeletion
  <2>2. /\ p.c <= from.c /\ ~(p.c > from.c) /\ (p.c >= to.c => p.c - (to.c - from.c) = p.c)
    BY <1>1, <1>8 DEF Less
  <2>. QED BY <1>3, <2>1, <2>2, Zenon DEF after
<1>. QED BY <1>6, <1>7, <1>8

(* Point, once the text is deleted *)
LEMMA DeleteMovesPoint ==
  ASSUME NEW from \in Pos, NEW to \in Pos, NEW p \in Pos, from.c <= to.c
  PROVE  LET past == IF Less(to, p) THEN to ELSE p IN
         AfterDeletion(p, from, to)
         = IF Less(from, p) THEN Shift(p, from.c - past.c, from.b - past.b) ELSE p
<1>1. from \in [c : Int, b : Int] /\ to \in [c : Int, b : Int] /\ p \in [c : Int, b : Int]
  BY DEF Pos
<1>2. CASE Less(to, p)
  <2>1. Less(from, p)
    BY <1>1, <1>2 DEF Less
  <2>. QED BY <1>2, <2>1 DEF AfterDeletion
<1>3. CASE ~Less(to, p) /\ Less(from, p)
  <2>1. Shift(p, from.c - p.c, from.b - p.b) = from
    BY <1>1 DEF Shift
  <2>. QED BY <1>3, <2>1 DEF AfterDeletion
<1>4. CASE ~Less(to, p) /\ ~Less(from, p)
  BY <1>4 DEF AfterDeletion
<1>. QED BY <1>2, <1>3, <1>4

AfterReplace(p, from, to, new) ==
  IF p.b >= to.b
  THEN Shift(p, Len(new) - (to.c - from.c), Bytes(new) - (to.b - from.b))
  ELSE IF p.b > from.b THEN from ELSE p

LEMMA ReplaceMoves ==
  ASSUME NEW chars \in Seq(Char), NEW from, NEW to, Place(chars, from), Place(chars, to),
         from.c <= to.c, NEW new \in Seq(Char), NEW p, Place(chars, p)
  PROVE  LET q == AfterReplace(p, from, to, new) IN
         /\ Place(Splice(chars, from.c, to.c, new), q)
         /\ q.c = IF p.c >= to.c THEN p.c + Len(new) - (to.c - from.c)
                  ELSE IF p.c > from.c THEN from.c ELSE p.c
<1>. DEFINE after == Splice(chars, from.c, to.c, new)
            q == AfterReplace(p, from, to, new)
            k == Len(new) - (to.c - from.c)
            kb == Bytes(new) - (to.b - from.b)
<1>1. /\ from \in Pos /\ to \in Pos /\ p \in Pos
      /\ from \in [c : Int, b : Int] /\ to \in [c : Int, b : Int] /\ p \in [c : Int, b : Int]
      /\ Len(new) \in Int /\ Bytes(new) \in Int
  BY LenProperties, BytesConcat DEF Place, Pos
<1>. /\ from.c \in Int /\ from.b \in Int /\ to.c \in Int /\ to.b \in Int /\ p.c \in Int /\ p.b \in Int
  BY <1>1
<1>2. k \in Int /\ kb \in Int /\ p.c + k = p.c + Len(new) - (to.c - from.c)
  <2>1. \A n, x, y, z \in Int : n - (y - x) \in Int /\ z + (n - (y - x)) = z + n - (y - x)
    OBVIOUS
  <2>. QED BY <1>1, <2>1, Zenon
<1>3. /\ p.c <= from.c => Place(after, p)
      /\ from.c <= from.c => Place(after, from)
      /\ p.c >= to.c => Place(after, Shift(p, k, kb))
  BY SplicePlaces
<1>4. from.c <= from.c
  BY PlaceLess
<1>. HIDE DEF after, k, kb
<1>5. Shift(p, k, kb).c = p.c + k
  BY <1>1, <1>2, ShiftParts
<1>6. CASE p.b >= to.b
  <2>1. q = Shift(p, k, kb)
    BY <1>6 DEF AfterReplace, k, kb
  <2>2. p.c >= to.c
    BY <1>1, <1>6, PlaceLess
  <2>. QED BY <1>2, <1>3, <1>5, <2>1, <2>2, Zenon DEF after
<1>7. CASE ~(p.b >= to.b) /\ p.b > from.b
  <2>1. q = from
    BY <1>7 DEF AfterReplace
  <2>2. p.c > from.c /\ ~(p.c >= to.c)
    BY <1>1, <1>7, PlaceLess
  <2>. QED BY <1>3, <1>4, <2>1, <2>2, Zenon DEF after
<1>8. CASE ~(p.b >= to.b) /\ ~(p.b > from.b)
  <2>1. q = p
    BY <1>8 DEF AfterReplace
  <2>2. p.c <= from.c /\ ~(p.c > from.c) /\ ~(p.c >= to.c)
    BY <1>1, <1>8, PlaceLess
  <2>. QED BY <1>3, <2>1, <2>2, Zenon DEF after
<1>. QED BY <1>6, <1>7, <1>8

LEMMA ReplaceMovesPoint ==
  ASSUME NEW chars \in Seq(Char), NEW from, NEW to, Place(chars, from), Place(chars, to),
         from.c < to.c, NEW new \in Seq(Char), NEW p, Place(chars, p)
  PROVE  LET past == IF Less(to, p) THEN to ELSE p
             q == IF Less(from, p) \/ p.c = to.c
                  THEN Shift(p, from.c + Len(new) - past.c, from.b + Bytes(new) - past.b) ELSE p
         IN /\ Place(Splice(chars, from.c, to.c, new), q)
            /\ q.c = IF p.c >= to.c THEN p.c + Len(new) - (to.c - from.c)
                     ELSE IF p.c > from.c THEN from.c + Len(new) ELSE p.c
<1>. DEFINE after == Splice(chars, from.c, to.c, new)
            past == IF Less(to, p) THEN to ELSE p
            q == IF Less(from, p) \/ p.c = to.c
                 THEN Shift(p, from.c + Len(new) - past.c, from.b + Bytes(new) - past.b) ELSE p
            k == Len(new) - (to.c - from.c)
            kb == Bytes(new) - (to.b - from.b)
<1>1. /\ from \in Pos /\ to \in Pos /\ p \in Pos
      /\ from \in [c : Int, b : Int] /\ to \in [c : Int, b : Int] /\ p \in [c : Int, b : Int]
      /\ Len(new) \in Int /\ Bytes(new) \in Int
  BY LenProperties, BytesConcat DEF Place, Pos
<1>. /\ from.c \in Int /\ from.b \in Int /\ to.c \in Int /\ to.b \in Int /\ p.c \in Int /\ p.b \in Int
  BY <1>1
<1>2. k \in Int /\ kb \in Int /\ p.c + k = p.c + Len(new) - (to.c - from.c)
  <2>1. \A n, x, y, z \in Int : n - (y - x) \in Int /\ z + (n - (y - x)) = z + n - (y - x)
    OBVIOUS
  <2>. QED BY <1>1, <2>1, Zenon
<1>3. from.c <= to.c
  BY <1>1
<1>4. /\ p.c <= from.c => Place(after, p)
      /\ Place(after, Shift(from, Len(new), Bytes(new)))
      /\ p.c >= to.c => Place(after, Shift(p, k, kb))
  BY <1>3, SplicePlaces, Zenon
<1>5. Shift(p, k, kb).c = p.c + k /\ Shift(from, Len(new), Bytes(new)).c = from.c + Len(new)
  <2>. HIDE DEF k, kb
  <2>. QED BY <1>1, <1>2, ShiftChars, Zenon
<1>. HIDE DEF after
<1>6. CASE Less(to, p)
  <2>1. \A n \in Int : /\ from.c + n - to.c = n - (to.c - from.c)
                       /\ from.b + n - to.b = n - (to.b - from.b)
    BY <1>1
  <2>2. Less(from, p) /\ p.c >= to.c
    BY <1>1, <1>6 DEF Less
  <2>3. from.c + Len(new) - to.c = k /\ from.b + Bytes(new) - to.b = kb
    BY <1>1, <2>1, Zenon
  <2>4. q = Shift(p, k, kb)
    BY <1>6, <2>2, <2>3, Zenon
  <2>. QED BY <1>2, <1>4, <1>5, <2>2, <2>4, Zenon DEF after
<1>7. CASE ~Less(to, p) /\ Less(from, p)
  <2>1. q = Shift(p, from.c + Len(new) - p.c, from.b + Bytes(new) - p.b)
    BY <1>7
  <2>2. Shift(p, from.c + Len(new) - p.c, from.b + Bytes(new) - p.b)
        = Shift(from, Len(new), Bytes(new))
    <3>1. \A n, x, z \in Int : z + (x + n - z) = x + n
      OBVIOUS
    <3>. QED BY <1>1, <3>1, Zenon DEF Shift
  <2>3. q = Shift(from, Len(new), Bytes(new))
    BY <2>1, <2>2
  <2>4. p.c > from.c /\ (p.c >= to.c => from.c + Len(new) = p.c + Len(new) - (to.c - from.c))
    <3>. DEFINE Same(n, x, y) == x + n = y + n - (y - x)
    <3>1. \A n, x, y \in Int : Same(n, x, y)
      OBVIOUS
    <3>. HIDE DEF Same
    <3>2. p.c > from.c
      BY <1>1, <1>7 DEF Less
    <3>3. ASSUME p.c >= to.c PROVE from.c + Len(new) = p.c + Len(new) - (to.c - from.c)
      <4>1. p.c = to.c
        BY <1>1, <1>7, <3>3 DEF Less
      <4>2. from.c + Len(new) = to.c + Len(new) - (to.c - from.c)
        <5>1. Same(Len(new), from.c, to.c)
          BY <1>1, <3>1, Zenon
        <5>. QED BY <5>1, Zenon DEF Same
      <4>. QED BY <4>1, <4>2
    <3>. QED BY <3>2, <3>3
  <2>. QED BY <1>4, <1>5, <2>3, <2>4, Zenon DEF after
<1>8. CASE ~Less(to, p) /\ ~Less(from, p)
  <2>1. p.c # to.c /\ p.c <= from.c /\ ~(p.c > from.c) /\ ~(p.c >= to.c)
    BY <1>1, <1>8 DEF Less
  <2>2. q = p
    BY <1>8, <2>1
  <2>. QED BY <1>4, <2>1, <2>2, Zenon DEF after
<1>. QED BY <1>6, <1>7, <1>8
-------------------------------------------------------------------------------
(* The primitives                                                            *)

(* NEW has gone in at AT: point moves if it is behind, or there and AHEAD;   *)
(* a marker if it is behind, or there and in GOES.                           *)
InsertedAt(t, u, at, new, moves, goes) ==
  /\ Good(u) /\ Chars(u) = Splice(Chars(t), at, at, new)
  /\ u.pt.c = IF t.pt.c > at \/ (t.pt.c = at /\ moves) THEN t.pt.c + Len(new) ELSE t.pt.c
  /\ \A m \in Marker :
       u.markers[m].c = IF t.markers[m].c > at \/ (t.markers[m].c = at /\ m \in goes)
                        THEN t.markers[m].c + Len(new) ELSE t.markers[m].c

Goes(before_markers) == IF before_markers THEN Marker ELSE InsertionType

LEMMA GoodParts ==
  ASSUME NEW t, Good(t)
  PROVE  /\ Shaped(t) /\ GapPlaced(t) /\ DOMAIN t = Fields
         /\ Chars(t) \in Seq(Char) /\ Len(Chars(t)) \in Nat
         /\ Place(Chars(t), t.pt) /\ t.pt \in Pos /\ t.pt.c \in Nat
         /\ Place(Chars(t), t.gpt) /\ t.gpt \in Pos /\ t.gpt.c \in Nat
         /\ t.markers \in [Marker -> Pos]
         /\ \A m \in Marker : Place(Chars(t), t.markers[m])
  BY CharsType, PlaceType DEF Good, Shaped, GapPlaced, Place

(* Up to the text being in and the counts raised, for every insertion *)
LEMMA InsertText ==
  ASSUME NEW t, Shaped(t), GapPlaced(t), t.gpt \in Pos, point_before \in Int,
         NEW new \in Seq(Char), NEW n
  PROVE  LET u == modiff_incr(RecordInsert(t, t.gpt.c, Len(new)), n) IN
         /\ Near(t, u) /\ u.gpt = t.gpt
         /\ Edited(t, TakeIn(u, new), t.gpt, t.gpt, new)
<1>. DEFINE b == RecordInsert(t, t.gpt.c, Len(new))
            u == modiff_incr(b, n)
            v == TakeIn(u, new)
<1>1. t.gpt.c \in Int /\ Len(new) \in Int
  BY LenProperties DEF Pos
<1>2. UndoSet(t, b)
  BY <1>1, OfRecordInsert
<1>3. Near(t, b) /\ b.gpt = t.gpt
  BY <1>2, NearUndo DEF SameText
<1>. HIDE DEF b
<1>4. Shaped(b) /\ GapPlaced(b)
  BY <1>3 DEF Near
<1>5. Near(b, u) /\ u.gpt = b.gpt
  BY <1>4, NearModiff DEF SameText
<1>. HIDE DEF u
<1>6. Near(t, u) /\ u.gpt = t.gpt
  BY <1>3, <1>5, NearTwice
<1>7. Shaped(u) /\ GapPlaced(u)
  BY <1>6 DEF Near
<1>8. Edited(u, v, u.gpt, u.gpt, new)
  BY <1>7, TakeInText
<1>. HIDE DEF v
<1>9. Edited(t, v, t.gpt, t.gpt, new)
  BY <1>6, <1>8, NearThenEdited
<1>. QED BY <1>6, <1>9 DEF v, u, b

(* What an operation that only moves the markers leaves, for any text *)
Carried(v, u, chars) ==
  /\ DOMAIN u = Fields /\ SameText(v, u) /\ SameCounts(v, u) /\ SameUndo(v, u)
  /\ u.markers \in [Marker -> Pos] /\ \A m \in Marker : Place(chars, u.markers[m])

LEMMA MarkersAfterInsert ==
  ASSUME NEW t, Good(t), NEW at, Place(Chars(t), at), NEW new \in Seq(Char),
         NEW before_markers \in BOOLEAN, NEW v, DOMAIN v = Fields, v.markers = t.markers
  PROVE  LET u == adjust_markers_for_insert(v, at, Shift(at, Len(new), Bytes(new)), before_markers)
         IN /\ Carried(v, u, Splice(Chars(t), at.c, at.c, new)) /\ u.pt = v.pt
            /\ \A m \in Marker :
                 u.markers[m].c = IF t.markers[m].c > at.c
                                     \/ (t.markers[m].c = at.c /\ m \in Goes(before_markers))
                                  THEN t.markers[m].c + Len(new) ELSE t.markers[m].c
<1>. DEFINE to == Shift(at, Len(new), Bytes(new))
            u  == adjust_markers_for_insert(v, at, to, before_markers)
            S  == Splice(Chars(t), at.c, at.c, new)
            F(m) == AfterInsert(t.markers[m], at, to, m \in InsertionType \/ before_markers)
<1>1. /\ Chars(t) \in Seq(Char) /\ \A m \in Marker : Place(Chars(t), t.markers[m])
  BY GoodParts
<1>2. MarkersSet(v, u, [m \in Marker |-> F(m)])
  <2>1. MarkersSet(v, u, [m \in Marker |->
           IF v.markers[m].b = at.b
           THEN IF m \in InsertionType \/ before_markers THEN to ELSE v.markers[m]
           ELSE IF v.markers[m].b > at.b
                THEN Shift(v.markers[m], to.c - at.c, to.b - at.b) ELSE v.markers[m]])
    BY OfMarkersInsert
  <2>. QED BY <2>1 DEF AfterInsert
<1>. HIDE DEF u
<1>3. ASSUME NEW m \in Marker
      PROVE  /\ Place(S, F(m))
             /\ F(m).c = IF t.markers[m].c > at.c \/ (t.markers[m].c = at.c /\ m \in Goes(before_markers))
                         THEN t.markers[m].c + Len(new) ELSE t.markers[m].c
  <2>. DEFINE goes == m \in InsertionType \/ before_markers
              q == AfterInsert(t.markers[m], at, to, goes)
  <2>1. goes \in BOOLEAN /\ Place(Chars(t), t.markers[m])
    BY <1>1
  <2>2. m \in Goes(before_markers) <=> goes
    BY GapBufferAssumption DEF Goes
  <2>. HIDE DEF goes
  <2>3. /\ Place(S, q)
        /\ q.c = IF t.markers[m].c > at.c \/ (t.markers[m].c = at.c /\ goes)
                 THEN t.markers[m].c + Len(new) ELSE t.markers[m].c
    BY <1>1, <2>1, InsertMoves
  <2>. QED BY <2>2, <2>3 DEF goes
<1>. HIDE DEF F, S
<1>4. u.markers = [m \in Marker |-> F(m)]
  BY <1>2 DEF MarkersSet
<1>5. \A m \in Marker : u.markers[m] = F(m) /\ F(m) \in Pos
  BY <1>3, <1>4 DEF Place
<1>6. u.markers \in [Marker -> Pos]
  BY <1>4, <1>5
<1>7. Carried(v, u, S) /\ u.pt = v.pt
  BY <1>2, <1>3, <1>5, <1>6 DEF MarkersSet, Carried
<1>. QED BY <1>3, <1>5, <1>7 DEF u, S

LEMMA PointAfter ==
  ASSUME NEW t, NEW v, NEW chars, Carried(t, v, chars), NEW nchars, NEW nbytes
  PROVE  LET u == adjust_point(v, nchars, nbytes) IN
         /\ Carried(t, u, chars) /\ u.markers = v.markers /\ u.pt = Shift(v.pt, nchars, nbytes)
<1>. DEFINE u == adjust_point(v, nchars, nbytes)
<1>1. /\ DOMAIN u = Fields /\ SameText(v, u) /\ SameCounts(v, u) /\ SameUndo(v, u)
      /\ u.pt = Shift(v.pt, nchars, nbytes) /\ u.markers = v.markers
  BY OfPoint DEF Carried
<1>. HIDE DEF u
<1>2. Carried(t, u, chars)
  BY <1>1, Zenon DEF Carried, SameText, SameCounts, SameUndo
<1>. QED BY <1>1, <1>2 DEF u

LEMMA GoodCarried ==
  ASSUME NEW v, Shaped(v), GapPlaced(v), NEW u, Carried(v, u, Chars(v)), Place(Chars(v), u.pt)
  PROVE  Good(u) /\ Chars(u) = Chars(v)
  BY GoodFrom DEF Carried

LEMMA Insert1Both ==
  ASSUME NEW t, Good(t), point_before \in Int, NEW new \in Seq(Char), NEW before_markers \in BOOLEAN
  PROVE  InsertedAt(t, insert_1_both(t, new, before_markers), t.pt.c, new, TRUE, Goes(before_markers))
<1>. DEFINE at == t.pt
            to == Shift(at, Len(new), Bytes(new))
            a  == invalidate_buffer_caches(t, at.c, at.c)
            t1 == move_gap_both(a, at)
            t2 == modiff_incr(RecordInsert(t1, at.c, Len(new)), Len(new))
            v  == TakeIn(t2, new)
            t3 == LowerEnd(v)
            t4 == adjust_markers_for_insert(t3, at, to, before_markers)
            u  == adjust_point(t4, Len(new), Bytes(new))
            S  == Splice(Chars(t), at.c, at.c, new)
<1>1. /\ Shaped(t) /\ GapPlaced(t) /\ Chars(t) \in Seq(Char) /\ Place(Chars(t), at) /\ at \in Pos
  BY GoodParts
<1>2. Near(t, a)
  BY <1>1, NearCaches
<1>. HIDE DEF a
<1>3. Shaped(a) /\ GapPlaced(a) /\ Place(Chars(a), at)
  BY <1>1, <1>2 DEF Near
<1>4. Moved(a, t1) /\ t1.gpt = at
  BY <1>3, MoveGapBoth
<1>. HIDE DEF t1
<1>5. Near(t, t1)
  BY <1>1, <1>2, <1>3, <1>4, NearMoved, NearTwice
<1>6. Shaped(t1) /\ GapPlaced(t1)
  BY <1>5 DEF Near
<1>7. Edited(t1, v, at, at, new)
  <2>1. /\ t1.gpt \in Pos
        /\ Edited(t1, TakeIn(modiff_incr(RecordInsert(t1, t1.gpt.c, Len(new)), Len(new)), new),
                  t1.gpt, t1.gpt, new)
    BY <1>1, <1>4, <1>6, InsertText
  <2>. QED BY <1>4, <2>1
<1>. HIDE DEF v
<1>8. Edited(t, v, at, at, new)
  BY <1>1, <1>5, <1>7, NearThenEdited
<1>9. Shaped(v) /\ GapPlaced(v)
  BY <1>8 DEF Edited
<1>10. Near(v, t3)
  BY <1>9, NearLower
<1>. HIDE DEF t3
<1>11. Edited(t, t3, at, at, new)
  BY <1>1, <1>8, <1>10, EditedThenNear
<1>12. /\ Shaped(t3) /\ GapPlaced(t3) /\ Chars(t3) = S /\ t3.pt = at /\ t3.markers = t.markers
       /\ DOMAIN t3 = Fields
  BY <1>11 DEF Edited, SamePlaces, Shaped
<1>13. /\ Carried(t3, t4, S) /\ t4.pt = t3.pt
       /\ \A m \in Marker :
            t4.markers[m].c = IF t.markers[m].c > at.c
                                 \/ (t.markers[m].c = at.c /\ m \in Goes(before_markers))
                              THEN t.markers[m].c + Len(new) ELSE t.markers[m].c
  BY <1>1, <1>12, MarkersAfterInsert
<1>. HIDE DEF t4, S
<1>14. Carried(t3, u, S) /\ u.markers = t4.markers /\ u.pt = to
  BY <1>12, <1>13, PointAfter
<1>. HIDE DEF u
<1>15. Place(S, to) /\ to.c = at.c + Len(new)
  <2>1. Place(S, to)
    BY <1>1, SpliceInto DEF S
  <2>2. Len(new) \in Int /\ Bytes(new) \in Int
    BY LenProperties, BytesConcat
  <2>. QED BY <1>1, <2>1, <2>2, ShiftParts
<1>16. Good(u) /\ Chars(u) = S
  BY <1>12, <1>14, <1>15, GoodCarried
<1>17. InsertedAt(t, u, at.c, new, TRUE, Goes(before_markers))
  BY <1>13, <1>14, <1>15, <1>16 DEF InsertedAt, S
<1>. QED BY <1>17 DEF insert_1_both, u, t4, t3, v, t1, a, to

LEMMA InsertFromGap1 ==
  ASSUME NEW t, Good(t), point_before \in Int, NEW new \in Seq(Char), NEW before_markers \in BOOLEAN
  PROVE  InsertedAt(t, insert_from_gap(t, new, before_markers), t.gpt.c, new, FALSE,
                    Goes(before_markers))
<1>. DEFINE at == t.gpt
            to == Shift(at, Len(new), Bytes(new))
            a  == invalidate_buffer_caches(t, at.c, at.c)
            t2 == modiff_incr(RecordInsert(a, at.c, Len(new)), Len(new))
            v  == TakeIn(t2, new)
            t3 == adjust_markers_for_insert(v, at, to, before_markers)
            u  == IF at.c < t.pt.c THEN adjust_point(t3, Len(new), Bytes(new)) ELSE t3
            S  == Splice(Chars(t), at.c, at.c, new)
<1>1. /\ Shaped(t) /\ GapPlaced(t) /\ Chars(t) \in Seq(Char) /\ Place(Chars(t), at) /\ at \in Pos
      /\ Place(Chars(t), t.pt) /\ t.pt \in Pos
  BY GoodParts
<1>2. Near(t, a) /\ a.gpt = at
  BY <1>1, NearCaches
<1>. HIDE DEF a
<1>3. Shaped(a) /\ GapPlaced(a)
  BY <1>2 DEF Near
<1>4. Edited(a, v, at, at, new)
  <2>1. /\ a.gpt \in Pos
        /\ Edited(a, TakeIn(modiff_incr(RecordInsert(a, a.gpt.c, Len(new)), Len(new)), new),
                  a.gpt, a.gpt, new)
    BY <1>1, <1>2, <1>3, InsertText
  <2>. QED BY <1>2, <2>1
<1>. HIDE DEF v
<1>5. Edited(t, v, at, at, new)
  BY <1>1, <1>2, <1>4, NearThenEdited
<1>6. /\ Shaped(v) /\ GapPlaced(v) /\ Chars(v) = S /\ v.pt = t.pt /\ v.markers = t.markers
      /\ DOMAIN v = Fields
  BY <1>5 DEF Edited, SamePlaces, Shaped
<1>7. /\ Carried(v, t3, S) /\ t3.pt = v.pt
      /\ \A m \in Marker :
           t3.markers[m].c = IF t.markers[m].c > at.c
                                \/ (t.markers[m].c = at.c /\ m \in Goes(before_markers))
                             THEN t.markers[m].c + Len(new) ELSE t.markers[m].c
  BY <1>1, <1>6, MarkersAfterInsert
<1>. HIDE DEF t3
<1>8. /\ t.pt.c <= at.c => Place(S, t.pt)
      /\ t.pt.c >= at.c => Place(S, Shift(t.pt, Len(new), Bytes(new)))
  BY <1>1, SpliceInto
<1>. HIDE DEF S
<1>9. ASSUME at.c < t.pt.c
      PROVE  InsertedAt(t, u, at.c, new, FALSE, Goes(before_markers))
  <2>1. u = adjust_point(t3, Len(new), Bytes(new))
    BY <1>9
  <2>2. Carried(v, u, S) /\ u.markers = t3.markers /\ u.pt = Shift(t.pt, Len(new), Bytes(new))
    BY <1>6, <1>7, <2>1, PointAfter
  <2>3. t.pt.c >= at.c /\ t.pt.c > at.c
    BY <1>1, <1>9, PlaceLess
  <2>4. Len(new) \in Int /\ Bytes(new) \in Int
    BY LenProperties, BytesConcat
  <2>5. u.pt.c = t.pt.c + Len(new)
    BY <1>1, <2>2, <2>4, ShiftParts
  <2>. HIDE DEF u
  <2>6. Good(u) /\ Chars(u) = S
    BY <1>6, <1>8, <2>2, <2>3, GoodCarried
  <2>. QED BY <1>7, <2>2, <2>3, <2>5, <2>6 DEF InsertedAt, S
<1>10. ASSUME ~(at.c < t.pt.c)
      PROVE  InsertedAt(t, u, at.c, new, FALSE, Goes(before_markers))
  <2>1. u = t3
    BY <1>10
  <2>2. t.pt.c <= at.c /\ ~(t.pt.c > at.c)
    BY <1>1, <1>10, PlaceLess
  <2>. HIDE DEF u
  <2>3. Good(u) /\ Chars(u) = S
    BY <1>6, <1>7, <1>8, <2>1, <2>2, GoodCarried
  <2>. QED BY <1>6, <1>7, <2>1, <2>2, <2>3 DEF InsertedAt, S
<1>11. InsertedAt(t, u, at.c, new, FALSE, Goes(before_markers))
  BY <1>9, <1>10
<1>. HIDE DEF u
<1>. QED BY <1>11 DEF insert_from_gap, u, t3, v, a, to
(* Deleting, and replacing *)

LEMMA CarriedShaped ==
  ASSUME NEW t, Shaped(t), GapPlaced(t), NEW u, NEW chars, Carried(t, u, chars)
  PROVE  /\ Shaped(u) /\ GapPlaced(u) /\ Chars(u) = Chars(t) /\ u.gpt = t.gpt
         /\ Grown(t, u)
<1>1. Grown(t, u) /\ UndoOK(u.undo_list)
  BY SameGrown DEF Carried, Shaped, SameUndo
<1>. QED BY <1>1, StillShaped DEF Carried, SameText

LEMMA CarriedItself ==
  ASSUME NEW t, DOMAIN t = Fields, NEW chars, t.markers \in [Marker -> Pos],
         \A m \in Marker : Place(chars, t.markers[m])
  PROVE  Carried(t, t, chars)
  BY DEF Carried, SameText, SameCounts, SameUndo

LEMMA MarkersAfterDelete ==
  ASSUME NEW t, Good(t), NEW from, NEW to, Place(Chars(t), from), Place(Chars(t), to),
         from.c <= to.c, NEW v, DOMAIN v = Fields, v.markers = t.markers
  PROVE  LET u == adjust_markers_for_delete(v, from, to) IN
         /\ Carried(v, u, Splice(Chars(t), from.c, to.c, <<>>)) /\ u.pt = v.pt
         /\ \A m \in Marker :
              u.markers[m].c = IF t.markers[m].c >= to.c THEN t.markers[m].c - (to.c - from.c)
                               ELSE IF t.markers[m].c > from.c THEN from.c ELSE t.markers[m].c
<1>. DEFINE u == adjust_markers_for_delete(v, from, to)
            S == Splice(Chars(t), from.c, to.c, <<>>)
            F(m) == AfterDeletion(t.markers[m], from, to)
<1>1. /\ Chars(t) \in Seq(Char) /\ \A m \in Marker : Place(Chars(t), t.markers[m])
  BY GoodParts
<1>2. MarkersSet(v, u, [m \in Marker |-> F(m)])
  BY OfMarkersDelete DEF AfterDeletion
<1>. HIDE DEF u
<1>3. ASSUME NEW m \in Marker
      PROVE  /\ Place(S, F(m))
             /\ F(m).c = IF t.markers[m].c >= to.c THEN t.markers[m].c - (to.c - from.c)
                         ELSE IF t.markers[m].c > from.c THEN from.c ELSE t.markers[m].c
  BY <1>1, DeleteMoves
<1>. HIDE DEF F, S
<1>4. u.markers = [m \in Marker |-> F(m)]
  BY <1>2 DEF MarkersSet
<1>5. \A m \in Marker : u.markers[m] = F(m) /\ F(m) \in Pos
  BY <1>3, <1>4 DEF Place
<1>6. u.markers \in [Marker -> Pos]
  BY <1>4, <1>5
<1>7. Carried(v, u, S) /\ u.pt = v.pt
  BY <1>2, <1>3, <1>5, <1>6 DEF MarkersSet, Carried
<1>. QED BY <1>3, <1>5, <1>7 DEF u, S

LEMMA MarkersAfterReplace ==
  ASSUME NEW t, Good(t), NEW from, NEW to, Place(Chars(t), from), Place(Chars(t), to),
         from.c <= to.c, from # to, NEW new \in Seq(Char),
         NEW v, DOMAIN v = Fields, v.markers = t.markers
  PROVE  LET u == adjust_markers_for_replace(v, from, to, new) IN
         /\ Carried(v, u, Splice(Chars(t), from.c, to.c, new)) /\ u.pt = v.pt
         /\ \A m \in Marker :
              u.markers[m].c = IF t.markers[m].c >= to.c
                               THEN t.markers[m].c + Len(new) - (to.c - from.c)
                               ELSE IF t.markers[m].c > from.c THEN from.c ELSE t.markers[m].c
<1>. DEFINE u == adjust_markers_for_replace(v, from, to, new)
            S == Splice(Chars(t), from.c, to.c, new)
            F(m) == AfterReplace(t.markers[m], from, to, new)
<1>1. /\ Chars(t) \in Seq(Char) /\ \A m \in Marker : Place(Chars(t), t.markers[m])
  BY GoodParts
<1>2. MarkersSet(v, u, [m \in Marker |-> F(m)])
  BY OfMarkersReplace DEF AfterReplace
<1>. HIDE DEF u
<1>3. ASSUME NEW m \in Marker
      PROVE  /\ Place(S, F(m))
             /\ F(m).c = IF t.markers[m].c >= to.c THEN t.markers[m].c + Len(new) - (to.c - from.c)
                         ELSE IF t.markers[m].c > from.c THEN from.c ELSE t.markers[m].c
  BY <1>1, ReplaceMoves
<1>. HIDE DEF F, S
<1>4. u.markers = [m \in Marker |-> F(m)]
  BY <1>2 DEF MarkersSet
<1>5. \A m \in Marker : u.markers[m] = F(m) /\ F(m) \in Pos
  BY <1>3, <1>4 DEF Place
<1>6. u.markers \in [Marker -> Pos]
  BY <1>4, <1>5
<1>7. Carried(v, u, S) /\ u.pt = v.pt
  BY <1>2, <1>3, <1>5, <1>6 DEF MarkersSet, Carried
<1>. QED BY <1>3, <1>5, <1>7 DEF u, S

LEMMA BetweenType ==
  ASSUME NEW t, Chars(t) \in Seq(Char), NEW from \in Places(Chars(t)), NEW to \in Places(Chars(t)),
         from <= to
  PROVE  Between(t, from, to) \in Seq(Char) /\ Len(Between(t, from, to)) = to - from
<1>1. Len(Chars(t)) \in Nat
  BY LenProperties
<1>2. /\ from \in 1 .. Len(Chars(t)) + 1 /\ to - 1 \in 0 .. Len(Chars(t)) /\ from <= (to - 1) + 1
      /\ (to - 1) + 1 - from = to - from
  BY <1>1 DEF Places
<1>. QED BY <1>2, PartType DEF Between

(* The text from FROM to TO has gone: a position in it is now at its start. *)
DeletedFrom(t, u, from, to) ==
  LET after(c) == IF c >= to THEN c - (to - from) ELSE IF c > from THEN from ELSE c IN
  /\ Good(u) /\ Chars(u) = Splice(Chars(t), from, to, <<>>)
  /\ u.pt.c = after(t.pt.c)
  /\ \A m \in Marker : u.markers[m].c = after(t.markers[m].c)

LEMMA DelRange2 ==
  ASSUME NEW t, Good(t), point_before \in Int, NEW from, NEW to,
         Place(Chars(t), from), Place(Chars(t), to), from.c <= to.c
  PROVE  DeletedFrom(t, del_range_2(t, from, to), from.c, to.c)
<1>. DEFINE g  == GapToward(t, from, to)
            t1 == RecordDelete(g, from.c, Between(t, from.c, to.c), TRUE)
            ma == adjust_markers_for_delete(t1, from, to)
            t2 == modiff_incr(ma, to.c - from.c)
            past == IF Less(to, t.pt) THEN to ELSE t.pt
            t3 == IF Less(from, t.pt) THEN adjust_point(t2, from.c - past.c, from.b - past.b) ELSE t2
            v  == GiveUp(t3, from, to)
            u  == LowerBoth(v)
            S  == Splice(Chars(t), from.c, to.c, <<>>)
            after(c) == IF c >= to.c THEN c - (to.c - from.c) ELSE IF c > from.c THEN from.c ELSE c
<1>1. /\ Shaped(t) /\ GapPlaced(t) /\ Chars(t) \in Seq(Char) /\ Place(Chars(t), t.pt)
      /\ t.pt \in Pos /\ t.markers \in [Marker -> Pos]
      /\ from \in Pos /\ to \in Pos /\ from.c \in Places(Chars(t)) /\ to.c \in Places(Chars(t))
      /\ from.c \in Int
  BY GoodParts, PlaceType DEF Place
<1>2. Moved(t, g) /\ from.c <= g.gpt.c /\ g.gpt.c <= to.c
  BY <1>1, MoveGapToward
<1>. HIDE DEF g
<1>3. Shaped(g) /\ GapPlaced(g) /\ Chars(g) = Chars(t) /\ g.pt = t.pt /\ g.markers = t.markers
  BY <1>2 DEF Moved, SamePlaces
<1>4. UndoSet(g, t1)
  <2>1. Between(t, from.c, to.c) \in Seq(Char) /\ TRUE \in BOOLEAN
    BY <1>1, BetweenType
  <2>. QED BY <1>1, <1>3, <2>1, OfRecordDelete
<1>. HIDE DEF t1
<1>5. /\ Shaped(t1) /\ GapPlaced(t1) /\ Chars(t1) = Chars(t) /\ t1.pt = t.pt
      /\ t1.markers = t.markers /\ DOMAIN t1 = Fields /\ t1.gpt = g.gpt
  <2>1. Near(g, t1) /\ SameText(g, t1)
    BY <1>3, <1>4, NearUndo
  <2>. QED BY <1>3, <2>1 DEF Near, SamePlaces, SameText, Shaped
<1>6. /\ Carried(t1, ma, S) /\ ma.pt = t1.pt
      /\ \A m \in Marker : ma.markers[m].c = after(t.markers[m].c)
  BY <1>5, MarkersAfterDelete
<1>. HIDE DEF ma
<1>7. Shaped(ma) /\ GapPlaced(ma) /\ Chars(ma) = Chars(t) /\ ma.gpt = g.gpt
  BY <1>5, <1>6, CarriedShaped
<1>8. /\ Shaped(t2) /\ GapPlaced(t2) /\ Chars(t2) = Chars(t) /\ t2.gpt = g.gpt
      /\ t2.pt = t.pt /\ t2.markers = ma.markers /\ DOMAIN t2 = Fields
  <2>1. Near(ma, t2) /\ SameText(ma, t2)
    BY <1>7, NearModiff
  <2>. QED BY <1>5, <1>6, <1>7, <2>1 DEF Near, SamePlaces, SameText, Shaped
<1>. HIDE DEF t2
<1>9. Carried(t2, t2, S)
  BY <1>6, <1>8, CarriedItself DEF Carried
<1>10. Place(S, AfterDeletion(t.pt, from, to)) /\ AfterDeletion(t.pt, from, to).c = after(t.pt.c)
  BY <1>1, DeleteMoves
<1>11. AfterDeletion(t.pt, from, to)
       = IF Less(from, t.pt) THEN Shift(t.pt, from.c - past.c, from.b - past.b) ELSE t.pt
  BY <1>1, DeleteMovesPoint
<1>. HIDE DEF S, past, after
<1>12. Carried(t2, t3, S) /\ t3.markers = t2.markers /\ t3.pt = AfterDeletion(t.pt, from, to)
  <2>1. CASE Less(from, t.pt)
    BY <1>8, <1>9, <1>11, <2>1, PointAfter
  <2>2. CASE ~Less(from, t.pt)
    BY <1>8, <1>9, <1>11, <2>2
  <2>. QED BY <2>1, <2>2
<1>. HIDE DEF t3
<1>13. Shaped(t3) /\ GapPlaced(t3) /\ Chars(t3) = Chars(t) /\ t3.gpt = g.gpt
  BY <1>8, <1>12, CarriedShaped
<1>14. Edited(t3, v, from, to, <<>>)
  BY <1>2, <1>13, GiveUpText
<1>. HIDE DEF v
<1>15. /\ Shaped(v) /\ GapPlaced(v) /\ Chars(v) = S /\ v.pt = t3.pt /\ v.markers = t3.markers
  BY <1>13, <1>14 DEF Edited, SamePlaces, S
<1>16. /\ Shaped(u) /\ GapPlaced(u) /\ Chars(u) = S /\ u.pt = t3.pt /\ u.markers = t3.markers
  <2>1. Near(v, u)
    BY <1>15, NearLower
  <2>. QED BY <1>15, <2>1 DEF Near, SamePlaces
<1>. HIDE DEF u
<1>17. Good(u)
  BY <1>10, <1>12, <1>16 DEF Good, Carried
<1>18. DeletedFrom(t, u, from.c, to.c)
  BY <1>6, <1>8, <1>10, <1>12, <1>16, <1>17, Zenon DEF DeletedFrom, S, after
<1>. QED BY <1>18 DEF del_range_2, u, v, t3, past, t2, ma, t1, g

(* The text between is given up and NEW put in its place. *)
LEMMA PutInPlace ==
  ASSUME NEW t, Shaped(t), GapPlaced(t), NEW from, NEW to, Place(Chars(t), from), Place(Chars(t), to),
         from.c <= t.gpt.c, t.gpt.c <= to.c, NEW w,
         Near(LowerBoth(GiveUp(t, from, to)), w), SameText(LowerBoth(GiveUp(t, from, to)), w),
         NEW new \in Seq(Char)
  PROVE  Edited(t, TakeIn(w, new), from, to, new)
<1>. DEFINE g == GiveUp(t, from, to)
            l == LowerBoth(g)
            v == TakeIn(w, new)
<1>1. /\ Edited(t, g, from, to, <<>>)
      /\ g.before = SubSeq(Chars(t), 1, from.c - BEG)
      /\ g.after = SubSeq(Chars(t), to.c, Len(Chars(t)))
  BY GiveUpText
<1>. HIDE DEF g
<1>2. Shaped(g) /\ GapPlaced(g)
  BY <1>1 DEF Edited
<1>3. Near(g, l) /\ SameText(g, l)
  BY <1>2, NearLower
<1>4. Near(l, w) /\ SameText(l, w)
  BY DEF g
<1>. HIDE DEF l
<1>5. Edited(t, w, from, to, <<>>)
  <2>1. Edited(t, l, from, to, <<>>)
    BY <1>1, <1>3, EditedThenNear
  <2>. QED BY <1>4, <2>1, EditedThenNear
<1>6. Shaped(w) /\ GapPlaced(w)
  BY <1>5 DEF Edited
<1>7. /\ Edited(w, v, w.gpt, w.gpt, new) /\ v.before = w.before \o new /\ v.after = w.after
  BY <1>6, TakeInText
<1>. HIDE DEF v
<1>8. Chars(v) = Splice(Chars(t), from.c, to.c, new)
  <2>1. w.before = g.before /\ w.after = g.after
    BY <1>3, <1>4 DEF SameText
  <2>2. from.c - BEG = from.c - 1
    BY DEF BEG
  <2>. QED BY <1>1, <1>7, <2>1, <2>2, Zenon DEF Chars, Splice
<1>9. SamePlaces(t, v) /\ Grown(t, v)
  <2>1. /\ t.modiff \in Nat /\ w.modiff \in Nat /\ v.modiff \in Nat
        /\ w.modiff >= t.modiff /\ v.modiff >= w.modiff
    BY <1>5, <1>7 DEF Edited, Grown, Shaped
  <2>2. \A a, b, c \in Nat : b >= a /\ c >= b => c >= a
    OBVIOUS
  <2>3. v.modiff >= t.modiff
    BY <2>1, <2>2, Zenon
  <2>. QED BY <1>5, <1>7, <2>3, Zenon DEF Edited, SamePlaces, Grown
<1>10. Edited(t, v, from, to, new)
  BY <1>7, <1>8, <1>9 DEF Edited
<1>. QED BY <1>10 DEF v

(* The text from FROM to TO has become NEW: a marker in it is at its start,  *)
(* point at its end.                                                         *)
ReplacedBy(t, u, from, to, new) ==
  /\ Good(u) /\ Chars(u) = Splice(Chars(t), from, to, new)
  /\ u.pt.c = IF t.pt.c >= to THEN t.pt.c + Len(new) - (to - from)
              ELSE IF t.pt.c > from THEN from + Len(new) ELSE t.pt.c
  /\ \A m \in Marker :
       u.markers[m].c = IF t.markers[m].c >= to THEN t.markers[m].c + Len(new) - (to - from)
                        ELSE IF t.markers[m].c > from THEN from ELSE t.markers[m].c

LEMMA ReplaceRange ==
  ASSUME NEW t, Good(t), point_before \in Int, NEW from, NEW to,
         Place(Chars(t), from), Place(Chars(t), to), from.c < to.c, NEW new \in Seq(Char)
  PROVE  ReplacedBy(t, replace_range(t, from, to, new), from.c, to.c, new)
<1>. DEFINE a  == invalidate_buffer_caches(t, from.c, to.c)
            t1 == GapToward(a, from, to)
            t2 == LowerBoth(GiveUp(t1, from, to))
            t3 == RecordInsert(t2, to.c, Len(new))
            t4 == RecordDelete(t3, from.c, Between(t, from.c, to.c), FALSE)
            v  == TakeIn(t4, new)
            t5 == adjust_markers_for_replace(v, from, to, new)
            past == IF Less(to, t.pt) THEN to ELSE t.pt
            q  == IF Less(from, t.pt) \/ t.pt.c = to.c
                  THEN Shift(t.pt, from.c + Len(new) - past.c, from.b + Bytes(new) - past.b)
                  ELSE t.pt
            t6 == IF Less(from, t.pt) \/ t.pt.c = to.c
                  THEN adjust_point(t5, from.c + Len(new) - past.c, from.b + Bytes(new) - past.b)
                  ELSE t5
            u  == modiff_incr(t6, (to.c - from.c) + Len(new))
            S  == Splice(Chars(t), from.c, to.c, new)
<1>1. /\ Shaped(t) /\ GapPlaced(t) /\ Chars(t) \in Seq(Char) /\ Place(Chars(t), t.pt)
      /\ t.pt \in Pos /\ t.markers \in [Marker -> Pos]
      /\ from \in Pos /\ to \in Pos /\ from.c \in Places(Chars(t)) /\ to.c \in Places(Chars(t))
      /\ from.c \in Int /\ to.c \in Int /\ Len(new) \in Int
  BY GoodParts, PlaceType, LenProperties DEF Place
<1>2. from.c <= to.c /\ from # to
  BY <1>1
<1>3. Near(t, a)
  BY <1>1, NearCaches
<1>. HIDE DEF a
<1>4. Shaped(a) /\ GapPlaced(a) /\ Chars(a) = Chars(t)
  BY <1>3 DEF Near
<1>5. Moved(a, t1) /\ from.c <= t1.gpt.c /\ t1.gpt.c <= to.c
  BY <1>2, <1>4, MoveGapToward
<1>. HIDE DEF t1
<1>6. Near(t, t1)
  BY <1>1, <1>3, <1>4, <1>5, NearMoved, NearTwice
<1>7. /\ Shaped(t1) /\ GapPlaced(t1) /\ Chars(t1) = Chars(t) /\ t1.pt = t.pt
      /\ t1.markers = t.markers
  BY <1>6 DEF Near, SamePlaces
<1>8. Shaped(t2) /\ GapPlaced(t2) /\ t2.pt = t.pt /\ t2.markers = t.markers
  <2>. DEFINE g == GiveUp(t1, from, to)
  <2>1. Edited(t1, g, from, to, <<>>)
    BY <1>5, <1>7, GiveUpText
  <2>. HIDE DEF g
  <2>2. Shaped(g) /\ GapPlaced(g) /\ g.pt = t.pt /\ g.markers = t.markers
    BY <1>7, <2>1 DEF Edited, SamePlaces
  <2>3. Near(g, LowerBoth(g))
    BY <2>2, NearLower
  <2>4. /\ Shaped(LowerBoth(g)) /\ GapPlaced(LowerBoth(g))
        /\ LowerBoth(g).pt = t.pt /\ LowerBoth(g).markers = t.markers
    BY <2>2, <2>3 DEF Near, SamePlaces
  <2>. QED BY <2>4 DEF g
<1>. HIDE DEF t2
<1>9. Near(t2, t4) /\ SameText(t2, t4)
  <2>1. UndoSet(t2, t3)
    BY <1>1, <1>8, OfRecordInsert
  <2>. HIDE DEF t3
  <2>2. Near(t2, t3) /\ SameText(t2, t3)
    BY <1>8, <2>1, NearUndo
  <2>3. Shaped(t3) /\ GapPlaced(t3) /\ t3.pt = t.pt /\ t3.markers = t.markers
    BY <1>8, <2>2 DEF Near, SamePlaces
  <2>4. Between(t, from.c, to.c) \in Seq(Char) /\ FALSE \in BOOLEAN
    BY <1>1, <1>2, BetweenType
  <2>5. UndoSet(t3, t4)
    BY <1>1, <2>3, <2>4, OfRecordDelete
  <2>. HIDE DEF t4
  <2>6. Near(t3, t4) /\ SameText(t3, t4)
    BY <2>3, <2>5, NearUndo
  <2>7. Near(t2, t4)
    BY <1>8, <2>2, <2>6, NearTwice
  <2>. QED BY <2>2, <2>6, <2>7 DEF SameText
<1>. HIDE DEF t4
<1>10. Edited(t1, v, from, to, new)
  BY <1>5, <1>7, <1>9, PutInPlace DEF t2
<1>. HIDE DEF v
<1>11. Edited(t, v, from, to, new)
  BY <1>1, <1>6, <1>10, NearThenEdited
<1>12. /\ Shaped(v) /\ GapPlaced(v) /\ Chars(v) = S /\ v.pt = t.pt /\ v.markers = t.markers
       /\ DOMAIN v = Fields
  BY <1>11 DEF Edited, SamePlaces, Shaped
<1>13. /\ Carried(v, t5, S) /\ t5.pt = v.pt
       /\ \A m \in Marker :
            t5.markers[m].c = IF t.markers[m].c >= to.c
                              THEN t.markers[m].c + Len(new) - (to.c - from.c)
                              ELSE IF t.markers[m].c > from.c THEN from.c ELSE t.markers[m].c
  BY <1>2, <1>12, MarkersAfterReplace
<1>. HIDE DEF t5
<1>14. /\ Place(S, q)
       /\ q.c = IF t.pt.c >= to.c THEN t.pt.c + Len(new) - (to.c - from.c)
                ELSE IF t.pt.c > from.c THEN from.c + Len(new) ELSE t.pt.c
  BY <1>1, ReplaceMovesPoint
<1>. HIDE DEF S
<1>15. Carried(v, t6, S) /\ t6.markers = t5.markers /\ t6.pt = q
  <2>. HIDE DEF past
  <2>1. CASE Less(from, t.pt) \/ t.pt.c = to.c
    BY <1>12, <1>13, <2>1, PointAfter
  <2>2. CASE ~(Less(from, t.pt) \/ t.pt.c = to.c)
    BY <1>12, <1>13, <2>2
  <2>. QED BY <2>1, <2>2
<1>. HIDE DEF t6, q
<1>16. Good(t6) /\ Chars(t6) = S
  BY <1>12, <1>14, <1>15, GoodCarried
<1>17. Near(t6, u)
  BY <1>16, NearModiff DEF Good
<1>. HIDE DEF u
<1>18. Good(u) /\ Chars(u) = S /\ u.pt = q /\ u.markers = t5.markers
  BY <1>15, <1>16, <1>17 DEF Good, Near, SamePlaces
<1>19. ReplacedBy(t, u, from.c, to.c, new)
  BY <1>13, <1>14, <1>18, Zenon DEF ReplacedBy, S
<1>. QED BY <1>19 DEF replace_range, u, t6, past, t5, v, t4, t3, t2, t1, a

(* One character becomes NEW in place: markers keep their positions.         *)
LEMMA ReplaceRange2 ==
  ASSUME NEW t, Good(t), NEW from, NEW to, Place(Chars(t), from), Place(Chars(t), to),
         to.c = from.c + 1, NEW new \in Seq(Char), Len(new) >= 1
  PROVE  LET u == replace_range_2(t, from, to, new) IN
         /\ Good(u) /\ Chars(u) = Splice(Chars(t), from.c, to.c, new)
         /\ u.pt.c = IF t.pt.c > from.c THEN t.pt.c + (Len(new) - 1) ELSE t.pt.c
         /\ \A m \in Marker : u.markers[m].c = t.markers[m].c
<1>. DEFINE g  == GapToward(t, from, to)
            l  == LowerBoth(GiveUp(g, from, to))
            v  == TakeIn(l, new)
            t2 == adjust_markers_bytepos(v, from)
            t3 == IF Less(from, t.pt)
                  THEN adjust_point(t2, Len(new) - (to.c - from.c), Bytes(new) - (to.b - from.b))
                  ELSE t2
            u  == modiff_incr(t3, (to.c - from.c) + Len(new))
            S  == Splice(Chars(t), from.c, to.c, new)
            q  == IF Less(from, t.pt)
                  THEN Shift(t.pt, Len(new) - (to.c - from.c), Bytes(new) - (to.b - from.b))
                  ELSE t.pt
            F(m) == IF t.markers[m].b > from.b THEN Both(v, t.markers[m].c) ELSE t.markers[m]
<1>1. /\ Shaped(t) /\ GapPlaced(t) /\ Chars(t) \in Seq(Char) /\ Place(Chars(t), t.pt)
      /\ t.pt \in Pos /\ t.markers \in [Marker -> Pos]
      /\ \A m \in Marker : Place(Chars(t), t.markers[m])
      /\ from \in Pos /\ to \in Pos /\ from.c \in Places(Chars(t)) /\ to.c \in Places(Chars(t))
      /\ from.c \in Int /\ to.c \in Int /\ from.b \in Int /\ to.b \in Int
      /\ Len(Chars(t)) \in Nat /\ Len(new) \in Nat /\ Bytes(new) \in Nat
  BY GoodParts, PlaceType, LenProperties, BytesConcat DEF Place
<1>2. from.c <= to.c /\ to.c - from.c = 1
  <2>1. \A x \in Int : x <= x + 1 /\ (x + 1) - x = 1
    OBVIOUS
  <2>. QED BY <1>1, <2>1
<1>3. Moved(t, g) /\ from.c <= g.gpt.c /\ g.gpt.c <= to.c
  BY <1>1, <1>2, MoveGapToward
<1>. HIDE DEF g
<1>4. Near(t, g) /\ Shaped(g) /\ GapPlaced(g) /\ Chars(g) = Chars(t)
  BY <1>1, <1>3, NearMoved DEF Moved
<1>5. Edited(g, v, from, to, new)
  <2>1. Shaped(l) /\ GapPlaced(l)
    <3>. DEFINE gu == GiveUp(g, from, to)
    <3>1. Edited(g, gu, from, to, <<>>)
      BY <1>3, <1>4, GiveUpText
    <3>. HIDE DEF gu
    <3>2. Shaped(gu) /\ GapPlaced(gu)
      BY <3>1 DEF Edited
    <3>3. Near(gu, LowerBoth(gu))
      BY <3>2, NearLower
    <3>. QED BY <3>3 DEF Near, gu
  <2>. HIDE DEF l
  <2>2. Near(l, l) /\ SameText(l, l)
    BY <2>1, NearItself DEF SameText
  <2>3. l = LowerBoth(GiveUp(g, from, to)) /\ Place(Chars(g), from) /\ Place(Chars(g), to)
    BY <1>4 DEF l
  <2>. QED BY <1>3, <1>4, <2>2, <2>3, PutInPlace, Zenon
<1>. HIDE DEF v
<1>6. Edited(t, v, from, to, new)
  BY <1>1, <1>4, <1>5, NearThenEdited
<1>7. /\ Shaped(v) /\ GapPlaced(v) /\ Chars(v) = S /\ v.pt = t.pt /\ v.markers = t.markers
      /\ DOMAIN v = Fields
  BY <1>6 DEF Edited, SamePlaces, Shaped
<1>8. MarkersSet(v, t2, [m \in Marker |-> F(m)])
  BY <1>7, OfMarkersBytes
<1>. HIDE DEF t2
<1>9. S \in Seq(Char) /\ Len(S) >= Len(Chars(t))
  <2>1. Len(S) = Len(Chars(t)) + Len(new) - (to.c - from.c) /\ S \in Seq(Char)
    BY <1>1, <1>2, SpliceType, Zenon
  <2>2. \A x, y \in Nat : y >= 1 => x + y - 1 >= x
    OBVIOUS
  <2>. HIDE DEF S
  <2>. QED BY <1>1, <1>2, <2>1, <2>2
<1>10. \A p : Place(Chars(t), p) =>
         /\ p.c <= from.c => Place(S, p)
         /\ p.c >= to.c => Place(S, Shift(p, Len(new) - (to.c - from.c), Bytes(new) - (to.b - from.b)))
  BY <1>1, <1>2, SplicePlaces
<1>. HIDE DEF S
<1>11. \A m \in Marker : Place(S, F(m)) /\ F(m).c = t.markers[m].c
  <2>. TAKE m \in Marker
  <2>1. Place(Chars(t), t.markers[m]) /\ t.markers[m].c \in Places(Chars(t))
    BY <1>1, PlaceType
  <2>2. CASE t.markers[m].b > from.b
    <3>1. F(m) = Both(v, t.markers[m].c)
      BY <2>2
    <3>2. t.markers[m].c \in Places(S)
      <4>1. \A c, n, k \in Nat : c \in 1 .. n + 1 /\ k >= n => c \in 1 .. k + 1
        OBVIOUS
      <4>2. Len(S) \in Nat /\ t.markers[m].c \in Nat
        BY <1>1, <1>9, <2>1, LenProperties, PlaceType
      <4>. QED BY <1>1, <1>9, <2>1, <4>1, <4>2, Zenon DEF Places
    <3>. QED BY <1>7, <1>9, <3>1, <3>2, PlaceIsBoth
  <2>3. CASE ~(t.markers[m].b > from.b)
    <3>1. t.markers[m].c <= from.c
      BY <1>1, <2>1, <2>3, PlaceLess
    <3>. QED BY <1>10, <2>1, <2>3, <3>1
  <2>. QED BY <2>2, <2>3
<1>. HIDE DEF F
<1>12. t2.markers = [m \in Marker |-> F(m)] /\ t2.pt = t.pt
  BY <1>7, <1>8 DEF MarkersSet
<1>13. \A m \in Marker : t2.markers[m] = F(m) /\ F(m) \in Pos
  BY <1>11, <1>12 DEF Place
<1>14. t2.markers \in [Marker -> Pos]
  BY <1>12, <1>13
<1>15. Carried(v, t2, S)
  BY <1>8, <1>11, <1>13, <1>14 DEF MarkersSet, Carried
<1>16. Carried(v, t3, S) /\ t3.markers = t2.markers /\ t3.pt = q
  <2>1. CASE Less(from, t.pt)
    BY <1>12, <1>15, <2>1, PointAfter
  <2>2. CASE ~Less(from, t.pt)
    BY <1>12, <1>15, <2>2
  <2>. QED BY <2>1, <2>2
<1>. HIDE DEF t3
<1>17. Place(S, q) /\ q.c = IF t.pt.c > from.c THEN t.pt.c + (Len(new) - 1) ELSE t.pt.c
  <2>1. CASE Less(from, t.pt)
    <3>. DEFINE k  == Len(new) - (to.c - from.c)
                kb == Bytes(new) - (to.b - from.b)
    <3>1. t.pt.c >= to.c /\ t.pt.c > from.c
      <4>1. \A x, y \in Int : x < y => y >= x + 1 /\ y > x
        OBVIOUS
      <4>2. t.pt.c \in Int
        BY <1>1 DEF Pos
      <4>. QED BY <1>1, <2>1, <4>1, <4>2 DEF Less
    <3>2. q = Shift(t.pt, k, kb) /\ Place(S, q)
      <4>1. q = Shift(t.pt, k, kb)
        BY <2>1
      <4>2. Place(Chars(t), t.pt) /\ t.pt.c >= to.c
        BY <1>1, <3>1
      <4>. QED BY <1>10, <4>1, <4>2, Zenon
    <3>3. k \in Int /\ kb \in Int /\ k = Len(new) - 1
      <4>1. \A n, x, y \in Int : n - (y - x) \in Int
        OBVIOUS
      <4>2. k \in Int /\ kb \in Int
        <5>1. Len(new) \in Int /\ Bytes(new) \in Int
          BY <1>1
        <5>. QED BY <1>1, <4>1, <5>1, Zenon
      <4>. QED BY <1>2, <4>2
    <3>. HIDE DEF k, kb
    <3>4. q.c = t.pt.c + k
      <4>1. t.pt \in Pos
        BY <1>1
      <4>2. Shift(t.pt, k, kb).c = t.pt.c + k
        BY <3>3, <4>1, ShiftChars, Zenon
      <4>. QED BY <3>2, <4>2, Zenon
    <3>. QED BY <3>1, <3>2, <3>3, <3>4
  <2>2. CASE ~Less(from, t.pt)
    <3>1. t.pt.c <= from.c /\ ~(t.pt.c > from.c)
      BY <1>1, <2>2, PlaceLess DEF Less
    <3>. QED BY <1>1, <1>10, <2>2, <3>1
  <2>. QED BY <2>1, <2>2
<1>. HIDE DEF q
<1>18. Good(t3) /\ Chars(t3) = S
  BY <1>7, <1>16, <1>17, GoodCarried
<1>19. Near(t3, u)
  BY <1>18, NearModiff DEF Good
<1>. HIDE DEF u
<1>20. Good(u) /\ Chars(u) = S /\ u.pt = q /\ u.markers = t2.markers
  BY <1>16, <1>18, <1>19 DEF Good, Near, SamePlaces
<1>21. u.pt.c = IF t.pt.c > from.c THEN t.pt.c + (Len(new) - 1) ELSE t.pt.c
  BY <1>17, <1>20, Zenon
<1>22. \A m \in Marker : u.markers[m].c = t.markers[m].c
  BY <1>11, <1>13, <1>20
<1>. QED BY <1>20, <1>21, <1>22 DEF replace_range_2, u, t3, t2, v, l, g, S

-------------------------------------------------------------------------------
(* Changing the case                                                         *)

LEMMA OneChar ==
  ASSUME NEW chars \in Seq(Char), NEW c \in 1 .. Len(chars)
  PROVE  /\ c \in Places(chars) /\ c + 1 \in Places(chars) /\ chars[c] \in Char
         /\ Byte(chars, c + 1) = Byte(chars, c) + CharLen[chars[c]]
<1>1. Len(chars) \in Nat
  BY LenProperties
<1>2. /\ c \in Places(chars) /\ c + 1 \in Places(chars) /\ c <= c + 1 /\ (c + 1) - 1 = c
  BY <1>1 DEF Places
<1>3. chars[c] \in Char
  BY ElementOfSeq
<1>4. SubSeq(chars, c, c) = <<chars[c]>>
  <2>1. c \in 1 .. Len(chars) + 1 /\ c \in 0 .. Len(chars) /\ c + 1 - c = 1 /\ c + 1 - 1 = c
    BY <1>1
  <2>2. /\ SubSeq(chars, c, c) \in Seq(Char) /\ Len(SubSeq(chars, c, c)) = c + 1 - c
        /\ \A i \in 1 .. c + 1 - c : SubSeq(chars, c, c)[i] = chars[c + i - 1]
    BY <1>2, <2>1, PartType
  <2>3. SubSeq(chars, c, c)[1] = chars[c]
    BY <2>1, <2>2
  <2>4. <<chars[c]>> \in Seq(Char) /\ Len(<<chars[c]>>) = 1 /\ <<chars[c]>>[1] = chars[c]
    BY <1>3
  <2>. DEFINE p == SubSeq(chars, c, c)
              q == <<chars[c]>>
  <2>5. \A i \in 1 .. 1 : p[i] = q[i]
    BY <2>3, <2>4
  <2>6. Len(p) = 1
    BY <2>1, <2>2
  <2>. HIDE DEF p, q
  <2>7. p \in Seq(Char) /\ q \in Seq(Char) /\ Len(q) = 1
    BY <2>2, <2>4 DEF p, q
  <2>8. p = q
    BY <2>5, <2>6, <2>7, SeqEqual
  <2>. QED BY <2>8 DEF p, q
<1>5. Byte(chars, c + 1) = Byte(chars, c) + Bytes(SubSeq(chars, c, (c + 1) - 1))
  BY <1>2, ByteDifference
<1>6. Bytes(<<chars[c]>>) = CharLen[chars[c]]
  BY <1>3, BytesSmall
<1>. QED BY <1>2, <1>3, <1>4, <1>5, <1>6

(* A character in the place of another *)
LEMMA SpliceOne ==
  ASSUME NEW chars \in Seq(Char), NEW c \in 1 .. Len(chars), NEW ch \in Char
  PROVE  Splice(chars, c, c + 1, <<ch>>) = [chars EXCEPT ![c] = ch]
<1>. DEFINE x == SubSeq(chars, 1, c - 1)
            o == <<ch>>
            y == SubSeq(chars, c + 1, Len(chars))
            e == [chars EXCEPT ![c] = ch]
            s == (x \o o) \o y
<1>1. Len(chars) \in Nat
  BY LenProperties
<1>2. /\ 1 \in 1 .. Len(chars) + 1 /\ c - 1 \in 0 .. Len(chars) /\ 1 <= (c - 1) + 1
      /\ c + 1 \in 1 .. Len(chars) + 1 /\ Len(chars) \in 0 .. Len(chars) /\ c + 1 <= Len(chars) + 1
      /\ (c - 1) + 1 - 1 = c - 1 /\ Len(chars) + 1 - (c + 1) = Len(chars) - c
  BY <1>1
<1>3. /\ x \in Seq(Char) /\ Len(x) = (c - 1) + 1 - 1
      /\ \A i \in 1 .. (c - 1) + 1 - 1 : x[i] = chars[1 + i - 1]
  BY <1>2, PartType
<1>4. /\ y \in Seq(Char) /\ Len(y) = Len(chars) + 1 - (c + 1)
      /\ \A i \in 1 .. Len(chars) + 1 - (c + 1) : y[i] = chars[(c + 1) + i - 1]
  BY <1>2, PartType
<1>5. o \in Seq(Char) /\ Len(o) = 1 /\ o[1] = ch
  OBVIOUS
<1>6. e \in Seq(Char) /\ Len(e) = Len(chars)
      /\ \A i \in 1 .. Len(chars) : e[i] = IF i = c THEN ch ELSE chars[i]
  <2>1. e \in Seq(Char) /\ Len(e) = Len(chars)
    BY ExceptSeq
  <2>2. DOMAIN chars = 1 .. Len(chars)
    BY LenProperties
  <2>. QED BY <2>1, <2>2
<1>. HIDE DEF x, y, o, e
<1>7. /\ x \o o \in Seq(Char) /\ Len(x \o o) = c
      /\ \A i \in 1 .. c : (x \o o)[i] = IF i <= c - 1 THEN x[i] ELSE o[i - (c - 1)]
  <2>1. /\ x \o o \in Seq(Char) /\ Len(x \o o) = Len(x) + Len(o)
        /\ \A i \in 1 .. Len(x) + Len(o) : (x \o o)[i] = IF i <= Len(x) THEN x[i] ELSE o[i - Len(x)]
    BY <1>3, <1>5, ConcatProperties
  <2>2. Len(x) = c - 1 /\ Len(x) + Len(o) = c
    BY <1>1, <1>2, <1>3, <1>5
  <2>. QED BY <2>1, <2>2
<1>8. /\ s \in Seq(Char) /\ Len(s) = Len(chars)
      /\ \A i \in 1 .. Len(chars) : s[i] = IF i <= c THEN (x \o o)[i] ELSE y[i - c]
  <2>1. /\ s \in Seq(Char) /\ Len(s) = Len(x \o o) + Len(y)
        /\ \A i \in 1 .. Len(x \o o) + Len(y) :
             s[i] = IF i <= Len(x \o o) THEN (x \o o)[i] ELSE y[i - Len(x \o o)]
    <3>1. x \o o \in Seq(Char) /\ y \in Seq(Char)
      BY <1>4, <1>7
    <3>. QED BY <3>1, ConcatProperties
  <2>2. Len(x \o o) + Len(y) = Len(chars)
    BY <1>1, <1>2, <1>4, <1>7
  <2>. QED BY <1>7, <2>1, <2>2
<1>. DEFINE j == x \o o
<1>. HIDE DEF s, j
<1>9. ASSUME NEW i \in 1 .. Len(chars) PROVE s[i] = e[i]
  <2>0. \A k \in 1 .. c : j[k] = IF k <= c - 1 THEN x[k] ELSE o[k - (c - 1)]
    BY <1>7 DEF j
  <2>00. \A k \in 1 .. Len(chars) : s[k] = IF k <= c THEN j[k] ELSE y[k - c]
    BY <1>8 DEF j
  <2>1. CASE i < c
    <3>1. /\ i \in 1 .. (c - 1) + 1 - 1 /\ i \in 1 .. c /\ i <= c /\ i <= c - 1 /\ i # c
          /\ 1 + i - 1 = i
      BY <1>1, <2>1
    <3>2. s[i] = x[i]
      BY <2>0, <2>00, <3>1
    <3>3. x[i] = chars[i]
      BY <1>3, <3>1
    <3>. QED BY <1>6, <3>1, <3>2, <3>3
  <2>2. CASE i = c
    <3>1. c \in 1 .. c /\ c <= c /\ ~(c <= c - 1) /\ c - (c - 1) = 1
      BY <1>1
    <3>2. s[c] = o[1]
      BY <2>0, <2>00, <2>2, <3>1
    <3>. QED BY <1>5, <1>6, <2>2, <3>2
  <2>3. CASE i > c
    <3>1. /\ i - c \in 1 .. Len(chars) + 1 - (c + 1) /\ ~(i <= c) /\ i # c
          /\ (c + 1) + (i - c) - 1 = i
      BY <1>1, <2>3
    <3>2. s[i] = y[i - c]
      BY <2>00, <3>1
    <3>3. y[i - c] = chars[i]
      BY <1>4, <3>1
    <3>. QED BY <1>6, <3>1, <3>2, <3>3
  <2>. QED BY <1>1, <2>1, <2>2, <2>3
<1>10. s = e
  BY <1>6, <1>8, <1>9, SeqEqual
<1>. QED BY <1>10 DEF s, e, x, o, y, Splice

LEMMA NextPlace ==
  ASSUME NEW pos \in Nat, pos >= 1, NEW l \in Nat, NEW i \in Nat, i <= l,
         NEW h \in Int, NEW b \in Int, h = pos - 1, b = l + 1 - i
  PROVE  /\ pos \in 1 .. h + b /\ h + b \in Nat /\ (h + b) - pos = l - i
         /\ pos + 1 \in 1 .. (h + b) + 1 /\ pos + 1 <= (h + b) + 1
         /\ (h + b) + 1 - (pos + 1) = l - i /\ l + 1 - (i + 1) = l - i
         /\ h + b \in 0 .. h + b
OBVIOUS

LEMMA BehindNextPlace ==
  ASSUME NEW pos \in Nat, pos >= 1, NEW l \in Nat, NEW i \in Nat, i <= l,
         NEW n \in Nat, n - pos = l - i, NEW k \in 1 .. l - i
  PROVE  /\ (pos + 1) + k - 1 = pos + k /\ pos + k \in 1 .. n /\ ~(pos + k <= pos - 1)
         /\ (pos + k) - (pos - 1) = k + 1 /\ k + 1 \in 1 .. l + 1 - i
         /\ i + (k + 1) - 1 = i + k /\ (i + 1) + k - 1 = i + k
OBVIOUS

(* An edit right behind another is one edit. *)
LEMMA SpliceNext ==
  ASSUME NEW chars \in Seq(Char), NEW from \in Places(chars), NEW i \in from .. Len(chars),
         NEW new \in Seq(Char), NEW more \in Seq(Char)
  PROVE  LET after == Splice(chars, from, i, new)
             pos   == from + Len(new)
         IN /\ after \in Seq(Char) /\ pos \in 1 .. Len(after) /\ after[pos] = chars[i]
            /\ Splice(after, pos, pos + 1, more) = Splice(chars, from, i + 1, new \o more)
<1>. DEFINE front == SubSeq(chars, 1, from - 1)
            back  == SubSeq(chars, i, Len(chars))
            rest  == SubSeq(chars, i + 1, Len(chars))
            head  == front \o new
            after == head \o back
            pos   == from + Len(new)
            tail  == SubSeq(after, pos + 1, Len(after))
<1>1. /\ Len(chars) \in Nat /\ Len(new) \in Nat /\ from \in Nat /\ i \in Nat /\ from >= 1
      /\ i \in Places(chars) /\ i + 1 \in Places(chars) /\ from <= i /\ i <= Len(chars)
  BY LenProperties DEF Places
<1>2. /\ front \in Seq(Char) /\ Len(front) = from - 1
      /\ back \in Seq(Char) /\ Len(back) = Len(chars) + 1 - i
  BY <1>1, SpliceType
<1>3. after = Splice(chars, from, i, new)
  BY DEF Splice
<1>4. \A k \in 1 .. Len(chars) + 1 - i : back[k] = chars[i + k - 1]
  <2>1. i \in 1 .. Len(chars) + 1 /\ Len(chars) \in 0 .. Len(chars) /\ i <= Len(chars) + 1
    BY <1>1
  <2>. QED BY <2>1, PartType
<1>5. /\ rest \in Seq(Char) /\ Len(rest) = Len(chars) + 1 - (i + 1)
      /\ \A k \in 1 .. Len(chars) + 1 - (i + 1) : rest[k] = chars[(i + 1) + k - 1]
  <2>1. i + 1 \in 1 .. Len(chars) + 1 /\ Len(chars) \in 0 .. Len(chars) /\ i + 1 <= Len(chars) + 1
    BY <1>1
  <2>. QED BY <2>1, PartType
<1>. HIDE DEF front, back, rest
<1>6. head \in Seq(Char) /\ Len(head) = pos - 1
  <2>1. head \in Seq(Char) /\ Len(head) = Len(front) + Len(new)
    BY <1>2, ConcatProperties
  <2>. QED BY <1>1, <1>2, <2>1
<1>. HIDE DEF head
<1>7. /\ after \in Seq(Char) /\ Len(after) = Len(head) + Len(back)
      /\ \A k \in 1 .. Len(head) + Len(back) :
           after[k] = IF k <= Len(head) THEN head[k] ELSE back[k - Len(head)]
  <2>1. head \in Seq(Char) /\ back \in Seq(Char)
    BY <1>2, <1>6
  <2>. QED BY <2>1, ConcatProperties
<1>8. SubSeq(after, 1, Len(head)) = head
  BY <1>2, <1>6, EndsOfJoin
<1>. DEFINE n == Len(after)
<1>. HIDE DEF after
<1>. HIDE DEF n
<1>0. pos \in Nat /\ pos >= 1
  BY <1>1
<1>. DEFINE h == Len(head)
            b == Len(back)
            l == Len(chars)
<1>9. /\ pos \in 1 .. n /\ n \in Nat /\ n - pos = l - i /\ h + b = n
      /\ pos + 1 \in 1 .. n + 1 /\ pos + 1 <= n + 1
      /\ n + 1 - (pos + 1) = l - i /\ l + 1 - (i + 1) = l - i /\ n \in 0 .. n
  <2>. HIDE DEF pos
  <2>1. h \in Int /\ b \in Int /\ h = pos - 1 /\ b = l + 1 - i /\ l \in Nat /\ i \in Nat /\ i <= l
    BY <1>1, <1>2, <1>6, LenProperties
  <2>2. h + b = n
    BY <1>7 DEF n
  <2>. HIDE DEF h, b, l
  <2>3. /\ pos \in 1 .. h + b /\ h + b \in Nat /\ (h + b) - pos = l - i
        /\ pos + 1 \in 1 .. (h + b) + 1 /\ pos + 1 <= (h + b) + 1
        /\ (h + b) + 1 - (pos + 1) = l - i /\ l + 1 - (i + 1) = l - i
        /\ h + b \in 0 .. h + b
    BY <1>0, <2>1, NextPlace
  <2>. QED BY <2>2, <2>3
<1>10. after[pos] = chars[i]
  <2>. HIDE DEF pos
  <2>1. /\ ~(pos <= pos - 1) /\ pos - (pos - 1) = 1 /\ i + 1 - 1 = i
        /\ 1 \in 1 .. Len(chars) + 1 - i
    BY <1>0, <1>1
  <2>2. after[pos] = back[1]
    BY <1>6, <1>7, <1>9, <2>1
  <2>. QED BY <1>4, <2>1, <2>2
<1>11. /\ tail \in Seq(Char) /\ Len(tail) = n + 1 - (pos + 1)
       /\ \A k \in 1 .. n + 1 - (pos + 1) : tail[k] = after[(pos + 1) + k - 1]
  <2>. HIDE DEF pos
  <2>. QED BY <1>7, <1>9, PartType DEF n
<1>. HIDE DEF tail
<1>12. Len(tail) = l - i /\ Len(rest) = l - i
  <2>. HIDE DEF pos
  <2>. QED BY <1>5, <1>9, <1>11
<1>13. ASSUME NEW k \in 1 .. l - i PROVE tail[k] = rest[k]
  <2>. HIDE DEF pos
  <2>1. /\ (pos + 1) + k - 1 = pos + k /\ pos + k \in 1 .. n /\ ~(pos + k <= pos - 1)
        /\ (pos + k) - (pos - 1) = k + 1 /\ k + 1 \in 1 .. l + 1 - i
        /\ i + (k + 1) - 1 = i + k /\ (i + 1) + k - 1 = i + k
    <3>. l \in Nat /\ i \in Nat /\ i <= l /\ n \in Nat /\ n - pos = l - i
      BY <1>1, <1>9
    <3>. HIDE DEF l
    <3>. QED BY <1>0, BehindNextPlace
  <2>2. k \in 1 .. n + 1 - (pos + 1) /\ k \in 1 .. l + 1 - (i + 1)
    BY <1>9
  <2>3. tail[k] = after[pos + k]
    BY <1>11, <2>1, <2>2
  <2>4. after[pos + k] = back[k + 1]
    BY <1>6, <1>7, <1>9, <2>1
  <2>5. back[k + 1] = chars[i + k]
    BY <1>4, <2>1
  <2>6. rest[k] = chars[i + k]
    BY <1>5, <2>1, <2>2
  <2>. QED BY <2>3, <2>4, <2>5, <2>6
<1>14. tail = rest
  <2>. tail \in Seq(Char) /\ rest \in Seq(Char)
    BY <1>5, <1>11
  <2>. QED BY <1>12, <1>13, SeqEqual
<1>15. Splice(after, pos, pos + 1, more) = (head \o more) \o rest
  BY <1>6, <1>8, <1>14 DEF Splice, tail
<1>16. Splice(chars, from, i + 1, new \o more) = (front \o (new \o more)) \o rest
  <2>1. (i + 1) - 1 = i
    BY <1>1
  <2>. QED BY <2>1 DEF Splice, front, rest
<1>17. head \o more = front \o (new \o more)
  <2>1. front \in Seq(Char) /\ new \in Seq(Char) /\ more \in Seq(Char) /\ head = front \o new
    BY <1>2 DEF head
  <2>. HIDE DEF front, head
  <2>2. (front \o new) \o more = front \o (new \o more)
    BY <2>1, JoinRegrouped, Zenon
  <2>. QED BY <2>1, <2>2
<1>18. after \in Seq(Char) /\ pos \in 1 .. Len(after)
  BY <1>7, <1>9 DEF n
<1>. QED BY <1>3, <1>10, <1>15, <1>16, <1>17, <1>18

(* U is T with CH at C. *)
Overwritten(t, u, c, ch) ==
  /\ DOMAIN u = Fields /\ SamePlaces(t, u) /\ SameCounts(t, u) /\ SameUndo(t, u)
  /\ u.gpt = t.gpt /\ u.z = t.z
  /\ u.before = IF c < t.gpt.c THEN [t.before EXCEPT ![c] = ch] ELSE t.before
  /\ u.after = IF c < t.gpt.c THEN t.after ELSE [t.after EXCEPT ![c - t.gpt.c + 1] = ch]

LEMMA OfOverwrite ==
  ASSUME NEW t, DOMAIN t = Fields, NEW c, NEW ch
  PROVE  Overwritten(t, Overwrite(t, c, ch), c, ch)
<1>1. CASE c < t.gpt.c
  BY <1>1 DEF Fields, Overwritten, Overwrite, SamePlaces, SameCounts, SameUndo
<1>2. CASE ~(c < t.gpt.c)
  BY <1>2 DEF Fields, Overwritten, Overwrite, SamePlaces, SameCounts, SameUndo
<1>. QED BY <1>1, <1>2

(* The character is exchanged on its side of the gap. *)
Put(s, c, ch) == [s EXCEPT ![c] = ch]

Exchanged(x, y, c, ch) ==
  IF c < Len(x) + 1 THEN [x EXCEPT ![c] = ch] \o y ELSE x \o [y EXCEPT ![c - Len(x)] = ch]

LEMMA ExceptJoin ==
  ASSUME NEW x \in Seq(Char), NEW y \in Seq(Char), NEW c \in 1 .. Len(x) + Len(y), NEW ch \in Char
  PROVE  Put(x \o y, c, ch) = Exchanged(x, y, c, ch)
<1>1. Len(x) \in Nat /\ Len(y) \in Nat
  BY LenProperties
<1>. DEFINE j == x \o y
            e == [j EXCEPT ![c] = ch]
<1>2. /\ j \in Seq(Char) /\ Len(j) = Len(x) + Len(y)
      /\ \A i \in 1 .. Len(x) + Len(y) : j[i] = IF i <= Len(x) THEN x[i] ELSE y[i - Len(x)]
  BY ConcatProperties
<1>. HIDE DEF j
<1>3. /\ e \in Seq(Char) /\ Len(e) = Len(j) /\ DOMAIN j = 1 .. Len(j)
      /\ \A i \in 1 .. Len(j) : e[i] = IF i = c THEN ch ELSE j[i]
  <2>1. c \in 1 .. Len(j) /\ DOMAIN j = 1 .. Len(j)
    BY <1>2, LenProperties
  <2>2. e \in Seq(Char) /\ Len(e) = Len(j)
    BY <1>2, <2>1, ExceptSeq
  <2>. QED BY <2>1, <2>2
<1>. HIDE DEF e
<1>4. ASSUME c < Len(x) + 1
      PROVE  e = [x EXCEPT ![c] = ch] \o y
  <2>. DEFINE f == [x EXCEPT ![c] = ch]
              k == f \o y
  <2>1. c \in 1 .. Len(x) /\ DOMAIN x = 1 .. Len(x)
    BY <1>1, <1>4, LenProperties
  <2>2. /\ f \in Seq(Char) /\ Len(f) = Len(x)
        /\ \A i \in 1 .. Len(x) : f[i] = IF i = c THEN ch ELSE x[i]
    <3>1. f \in Seq(Char) /\ Len(f) = Len(x)
      BY <2>1, ExceptSeq
    <3>. QED BY <2>1, <3>1
  <2>. HIDE DEF f
  <2>3. /\ k \in Seq(Char) /\ Len(k) = Len(f) + Len(y)
        /\ \A i \in 1 .. Len(f) + Len(y) : k[i] = IF i <= Len(f) THEN f[i] ELSE y[i - Len(f)]
    <3>1. f \in Seq(Char)
      BY <2>2
    <3>. QED BY <3>1, ConcatProperties
  <2>. HIDE DEF k
  <2>4. ASSUME NEW i \in 1 .. Len(x) + Len(y) PROVE e[i] = k[i]
    <3>1. i \in 1 .. Len(j) /\ i \in 1 .. Len(f) + Len(y)
      BY <1>2, <2>2
    <3>2. CASE i <= Len(x)
      <4>1. i \in 1 .. Len(x)
        BY <1>1, <3>2
      <4>2. k[i] = f[i] /\ j[i] = x[i]
        BY <1>2, <2>2, <2>3, <3>1, <3>2
      <4>. QED BY <1>3, <2>2, <3>1, <4>1, <4>2
    <3>3. CASE ~(i <= Len(x))
      <4>1. i # c
        BY <2>1, <3>3
      <4>2. k[i] = y[i - Len(x)] /\ j[i] = y[i - Len(x)]
        BY <1>2, <2>2, <2>3, <3>1, <3>3
      <4>. QED BY <1>3, <3>1, <4>1, <4>2
    <3>. QED BY <3>2, <3>3
  <2>5. Len(e) = Len(x) + Len(y) /\ Len(k) = Len(x) + Len(y)
    BY <1>2, <1>3, <2>2, <2>3
  <2>6. e = k
    BY <1>3, <2>3, <2>4, <2>5, SeqEqual
  <2>. QED BY <2>6 DEF k, f
<1>5. ASSUME ~(c < Len(x) + 1)
      PROVE  e = x \o [y EXCEPT ![c - Len(x)] = ch]
  <2>. DEFINE d == c - Len(x)
              f == [y EXCEPT ![d] = ch]
              k == x \o f
  <2>1. d \in 1 .. Len(y) /\ DOMAIN y = 1 .. Len(y) /\ c = Len(x) + d
    BY <1>1, <1>5, LenProperties
  <2>. HIDE DEF d
  <2>2. /\ f \in Seq(Char) /\ Len(f) = Len(y)
        /\ \A i \in 1 .. Len(y) : f[i] = IF i = d THEN ch ELSE y[i]
    <3>1. f \in Seq(Char) /\ Len(f) = Len(y)
      BY <2>1, ExceptSeq
    <3>. QED BY <2>1, <3>1
  <2>. HIDE DEF f
  <2>3. /\ k \in Seq(Char) /\ Len(k) = Len(x) + Len(f)
        /\ \A i \in 1 .. Len(x) + Len(f) : k[i] = IF i <= Len(x) THEN x[i] ELSE f[i - Len(x)]
    <3>1. f \in Seq(Char)
      BY <2>2
    <3>. QED BY <3>1, ConcatProperties
  <2>. HIDE DEF k
  <2>4. ASSUME NEW i \in 1 .. Len(x) + Len(y) PROVE e[i] = k[i]
    <3>1. i \in 1 .. Len(j) /\ i \in 1 .. Len(x) + Len(f)
      BY <1>2, <2>2
    <3>2. CASE i <= Len(x)
      <4>1. i # c
        BY <1>1, <1>5, <3>2
      <4>2. k[i] = x[i] /\ j[i] = x[i]
        BY <1>2, <2>3, <3>1, <3>2
      <4>. QED BY <1>3, <3>1, <4>1, <4>2
    <3>3. CASE ~(i <= Len(x))
      <4>1. i - Len(x) \in 1 .. Len(y) /\ (i = c <=> i - Len(x) = d)
        BY <1>1, <2>1, <3>3
      <4>2. k[i] = f[i - Len(x)] /\ j[i] = y[i - Len(x)]
        BY <1>2, <2>2, <2>3, <3>1, <3>3
      <4>. QED BY <1>3, <2>2, <3>1, <4>1, <4>2
    <3>. QED BY <3>2, <3>3
  <2>5. Len(e) = Len(x) + Len(y) /\ Len(k) = Len(x) + Len(y)
    BY <1>2, <1>3, <2>2, <2>3
  <2>6. e = k
    BY <1>3, <2>3, <2>4, <2>5, SeqEqual
  <2>. QED BY <2>6 DEF k, f, d
<1>. QED BY <1>4, <1>5 DEF e, j, Exchanged, Put

LEMMA OverwriteInPlace ==
  ASSUME NEW t, Good(t), NEW c \in 1 .. Len(Chars(t)), NEW ch \in Char,
         CharLen[ch] = CharLen[Chars(t)[c]]
  PROVE  LET u == Overwrite(t, c, ch) IN
         /\ Good(u) /\ Chars(u) = Splice(Chars(t), c, c + 1, <<ch>>)
         /\ u.pt = t.pt /\ u.markers = t.markers
<1>. DEFINE u == Overwrite(t, c, ch)
            C == Chars(t)
            S == Splice(C, c, c + 1, <<ch>>)
            from == Both(t, c)
            to == Both(t, c + 1)
<1>1. /\ Shaped(t) /\ GapPlaced(t) /\ DOMAIN t = Fields
      /\ t.before \in Seq(Char) /\ t.after \in Seq(Char)
      /\ C \in Seq(Char) /\ Len(C) = Len(t.before) + Len(t.after)
      /\ Len(t.before) \in Nat /\ Len(t.after) \in Nat
      /\ t.gpt.c = Len(t.before) + 1 /\ C = t.before \o t.after
      /\ Place(C, t.gpt) /\ Place(C, t.z) /\ t.z.c = Len(C) + 1
      /\ Place(C, t.pt) /\ t.markers \in [Marker -> Pos] /\ \A m \in Marker : Place(C, t.markers[m])
  BY CharsType DEF Good, Shaped, GapPlaced, Chars
<1>2. /\ DOMAIN u = Fields /\ SamePlaces(t, u) /\ SameCounts(t, u) /\ SameUndo(t, u)
      /\ u.gpt = t.gpt /\ u.z = t.z
      /\ u.before = IF c < t.gpt.c THEN [t.before EXCEPT ![c] = ch] ELSE t.before
      /\ u.after = IF c < t.gpt.c THEN t.after ELSE [t.after EXCEPT ![c - t.gpt.c + 1] = ch]
  <2>1. DOMAIN t = Fields
    BY <1>1
  <2>2. Overwritten(t, u, c, ch)
    BY <2>1, OfOverwrite
  <2>. HIDE DEF u
  <2>. QED BY <2>2 DEF Overwritten
<1>. HIDE DEF u
<1>3. S = [C EXCEPT ![c] = ch] /\ Len(S) = Len(C) /\ S \in Seq(Char)
  <2>. HIDE DEF C
  <2>1. S = [C EXCEPT ![c] = ch]
    BY <1>1, SpliceOne DEF C
  <2>. HIDE DEF S
  <2>2. Len([C EXCEPT ![c] = ch]) = Len(C) /\ [C EXCEPT ![c] = ch] \in Seq(Char)
    <3>1. c \in 1 .. Len(C)
      BY DEF C
    <3>2. C \in Seq(Char)
      BY <1>1
    <3>. QED BY <3>1, <3>2, ExceptSeq
  <2>. QED BY <2>1, <2>2
<1>4. /\ c \in 1 .. Len(t.before) + Len(t.after) /\ c - t.gpt.c + 1 = c - Len(t.before)
  <2>1. c \in 1 .. Len(C) /\ c \in Int
    OBVIOUS
  <2>2. c \in 1 .. Len(t.before) + Len(t.after)
    BY <1>1, <2>1
  <2>3. \A n \in Nat : c - (n + 1) + 1 = c - n
    BY <2>1
  <2>. QED BY <1>1, <2>2, <2>3
<1>5. Chars(u) = S /\ u.before \in Seq(Char) /\ u.after \in Seq(Char) /\ Len(u.before) = Len(t.before)
  <2>1. CASE c < Len(t.before) + 1
    <3>1. u.before = [t.before EXCEPT ![c] = ch] /\ u.after = t.after
      BY <1>1, <1>2, <2>1
    <3>2. c \in 1 .. Len(t.before)
      BY <1>1, <1>4, <2>1
    <3>3. [t.before EXCEPT ![c] = ch] \in Seq(Char) /\ Len([t.before EXCEPT ![c] = ch]) = Len(t.before)
      BY <1>1, <3>2, ExceptSeq
    <3>4. [t.before \o t.after EXCEPT ![c] = ch] = [t.before EXCEPT ![c] = ch] \o t.after
      <4>1. t.before \in Seq(Char) /\ t.after \in Seq(Char)
        BY <1>1
      <4>2. c \in 1 .. Len(t.before) + Len(t.after)
        BY <1>4
      <4>3. Put(t.before \o t.after, c, ch)
              = Exchanged(t.before, t.after, c, ch)
        BY <4>1, <4>2, ExceptJoin
      <4>. QED BY <2>1, <4>3, Zenon DEF Exchanged, Put
    <3>. QED BY <1>1, <1>3, <3>1, <3>3, <3>4 DEF Chars
  <2>2. CASE ~(c < Len(t.before) + 1)
    <3>1. u.before = t.before /\ u.after = [t.after EXCEPT ![c - Len(t.before)] = ch]
      BY <1>1, <1>2, <1>4, <2>2
    <3>2. c - Len(t.before) \in 1 .. Len(t.after)
      <4>1. \A x, y \in Nat : c \in 1 .. x + y /\ ~(c < x + 1) => c - x \in 1 .. y
        OBVIOUS
      <4>. QED BY <1>1, <1>4, <2>2, <4>1
    <3>3. [t.after EXCEPT ![c - Len(t.before)] = ch] \in Seq(Char)
      BY <1>1, <3>2, ExceptSeq
    <3>4. [t.before \o t.after EXCEPT ![c] = ch] = t.before \o [t.after EXCEPT ![c - Len(t.before)] = ch]
      <4>1. t.before \in Seq(Char) /\ t.after \in Seq(Char)
        BY <1>1
      <4>2. c \in 1 .. Len(t.before) + Len(t.after)
        BY <1>4
      <4>3. Put(t.before \o t.after, c, ch)
              = Exchanged(t.before, t.after, c, ch)
        BY <4>1, <4>2, ExceptJoin
      <4>. QED BY <2>2, <4>3, Zenon DEF Exchanged, Put
    <3>. QED BY <1>1, <1>3, <3>1, <3>3, <3>4 DEF Chars
  <2>. QED BY <2>1, <2>2
<1>6. ASSUME NEW p, Place(C, p) PROVE Place(S, p)
  <2>1. /\ c \in Places(C) /\ c + 1 \in Places(C) /\ C[c] \in Char
        /\ Byte(C, c + 1) = Byte(C, c) + CharLen[C[c]]
    BY <1>1, OneChar
  <2>2. /\ Place(C, from) /\ from.c = c /\ Place(C, to) /\ to.c = c + 1
    BY <1>1, <2>1, PlaceIsBoth
  <2>3. CharLen[ch] \in Nat
    BY GapBufferAssumption
  <2>4. from.b \in Nat /\ from.b = Byte(C, c) /\ to.b = Byte(C, c + 1)
    <3>1. from.b \in Nat
      BY <1>1, <2>2, PlaceType
    <3>. QED BY <3>1, <2>2 DEF Place, At
  <2>5. to.b = from.b + CharLen[ch]
    BY <2>1, <2>4
  <2>6. Bytes(<<ch>>) = CharLen[ch] /\ Len(<<ch>>) = 1 /\ <<ch>> \in Seq(Char)
    BY BytesSmall
  <2>. HIDE DEF from, to, C
  <2>7. from.c <= to.c /\ to.c - from.c = 1
    BY <2>2
  <2>8. \A x, y \in Nat : y - ((x + y) - x) = 0
    OBVIOUS
  <2>9. Len(<<ch>>) - (to.c - from.c) = 0
    BY <2>6, <2>7
  <2>10. Bytes(<<ch>>) - (to.b - from.b) = 0
    BY <2>3, <2>4, <2>5, <2>6, <2>8, Zenon
  <2>11. /\ p.c <= from.c => Place(S, p)
         /\ p.c >= to.c => Place(S, Shift(p, Len(<<ch>>) - (to.c - from.c),
                                             Bytes(<<ch>>) - (to.b - from.b)))
    BY <1>1, <1>6, <2>2, <2>6, <2>7, SplicePlaces
  <2>12. p \in Pos
    BY <1>6 DEF Place
  <2>13. Shift(p, 0, 0) = p
    BY <2>12 DEF Shift, Pos
  <2>14. p.c <= from.c \/ p.c >= to.c
    BY <2>2, <2>12 DEF Pos
  <2>. QED BY <2>9, <2>10, <2>11, <2>13, <2>14, Zenon
<1>. HIDE DEF S
<1>7. GapPlaced(u)
  BY <1>1, <1>2, <1>3, <1>5, <1>6 DEF GapPlaced
<1>8. Shaped(u)
  BY <1>1, <1>2, <1>5 DEF Shaped, SameCounts, SameUndo
<1>9. Good(u) /\ u.pt = t.pt /\ u.markers = t.markers
  BY <1>1, <1>2, <1>5, <1>6, <1>7, <1>8 DEF Good, SamePlaces
<1>. QED BY <1>5, <1>9 DEF u, S

(* The character at AT has become NEW: the markers stay, point by no more    *)
(* than what the text has grown.                                             *)
CasedAt(t, u, at, new) ==
  /\ Good(u) /\ Chars(u) = Splice(Chars(t), at, at + 1, new)
  /\ u.pt.c \in t.pt.c .. t.pt.c + (Len(new) - 1)
  /\ \A m \in Marker : u.markers[m].c = t.markers[m].c

LEMMA CasedStill ==
  ASSUME NEW t, Good(t), NEW u, Good(u), NEW at, NEW new \in Seq(Char), Len(new) >= 1,
         Chars(u) = Splice(Chars(t), at, at + 1, new),
         u.pt = t.pt, u.markers = t.markers
  PROVE  CasedAt(t, u, at, new)
<1>1. \A x, n \in Nat : n >= 1 => x \in x .. x + (n - 1)
  OBVIOUS
<1>2. t.pt.c \in Nat /\ Len(new) \in Nat
  BY GoodParts, LenProperties
<1>3. t.pt.c \in t.pt.c .. t.pt.c + (Len(new) - 1)
  BY <1>1, <1>2
<1>. QED BY <1>3 DEF CasedAt

(* One turn of the loop of casify_region *)
LEMMA CasifyOne ==
  ASSUME NEW a, Good(a.t), a.pos \in 1 .. Len(Chars(a.t)), NEW ch, ch = Chars(a.t)[a.pos]
  PROVE  /\ CasedAt(a.t, casify_one(a, ch).t, a.pos, Upcase[ch])
         /\ casify_one(a, ch).pos = a.pos + Len(Upcase[ch])
         /\ Upcase[ch] \in Seq(Char) /\ Len(Upcase[ch]) >= 1
<1>. DEFINE t    == a.t
            c    == a.pos
            C    == Chars(t)
            new  == Upcase[ch]
            from == Both(t, c)
            to   == Shift(from, 1, CharLen[ch])
            u    == casify_one(a, ch).t
<1>1. C \in Seq(Char) /\ Len(C) \in Nat /\ c \in 1 .. Len(C) /\ ch \in Char
  <2>1. C \in Seq(Char) /\ Len(C) \in Nat /\ c \in 1 .. Len(C)
    BY GoodParts
  <2>. HIDE DEF c
  <2>2. C[c] \in Char
    BY <2>1, OneChar
  <2>. QED BY <2>1, <2>2 DEF c
<1>2. new \in Seq(Char) /\ Len(new) \in Nat /\ Len(new) >= 1 /\ CharLen[ch] \in Nat
  <2>1. new \in Seq(Char) /\ new # <<>> /\ CharLen[ch] \in Nat
    BY <1>1, GapBufferAssumption
  <2>. HIDE DEF new
  <2>2. Len(new) \in Nat /\ Len(new) # 0
    BY <2>1, EmptySeq, LenProperties
  <2>. QED BY <2>1, <2>2
<1>3. /\ casify_one(a, ch).pos = c + Len(new)
      /\ u = IF new = <<ch>> THEN t
             ELSE IF Len(new) = 1 /\ Bytes(new) = CharLen[ch] THEN Overwrite(t, c, new[1])
             ELSE replace_range_2(t, from, to, new)
  BY Zenon DEF casify_one
<1>. HIDE DEF u
<1>4. CASE new = <<ch>>
  <2>1. u = t
    BY <1>3, <1>4
  <2>. HIDE DEF new, t
  <2>. HIDE DEF c
  <2>2. Splice(C, c, c + 1, <<ch>>) = [C EXCEPT ![c] = ch]
    BY <1>1, SpliceOne
  <2>3. C[c] = ch
    BY DEF c, t
  <2>. HIDE DEF C
  <2>4. [C EXCEPT ![c] = ch] = C
    BY <1>1, <2>3
  <2>5. C = Splice(C, c, c + 1, new)
    BY <1>4, <2>2, <2>4
  <2>6. Good(t)
    BY DEF t
  <2>7. CasedAt(t, t, c, new)
    BY <1>2, <2>5, <2>6, CasedStill DEF C
  <2>. QED BY <1>2, <1>3, <2>1, <2>7 DEF c, t, new, u
<1>5. CASE new # <<ch>> /\ Len(new) = 1 /\ Bytes(new) = CharLen[ch]
  <2>1. u = Overwrite(t, c, new[1])
    BY <1>3, <1>5, Zenon
  <2>2. new[1] \in Char /\ new = <<new[1]>>
    <3>. HIDE DEF new
    <3>1. new \in Seq(Char) /\ Len(new) = 1
      BY <1>2, <1>5
    <3>2. new[1] \in Char
      BY <3>1, ElementOfSeq
    <3>3. <<new[1]>> \in Seq(Char) /\ Len(<<new[1]>>) = 1 /\ <<new[1]>>[1] = new[1]
      BY <3>2
    <3>. QED BY <3>1, <3>2, <3>3, SeqEqual
  <2>3. CharLen[new[1]] = CharLen[C[c]]
    <3>1. Bytes(<<new[1]>>) = CharLen[new[1]]
      <4>. HIDE DEF new
      <4>. QED BY <2>2, BytesSmall
    <3>. QED BY <1>5, <2>2, <3>1, Zenon
  <2>. HIDE DEF new, t
  <2>. HIDE DEF c
  <2>4. Good(t)
    BY DEF t
  <2>5. /\ Good(u) /\ Chars(u) = Splice(C, c, c + 1, <<new[1]>>)
        /\ u.pt = t.pt /\ u.markers = t.markers
    BY <1>1, <2>1, <2>2, <2>3, <2>4, OverwriteInPlace
  <2>6. Chars(u) = Splice(C, c, c + 1, new)
    BY <2>2, <2>5, Zenon
  <2>7. CasedAt(t, u, c, new)
    BY <1>2, <2>4, <2>5, <2>6, CasedStill
  <2>. QED BY <1>2, <1>3, <2>7 DEF c, t, new, u
<1>6. CASE new # <<ch>> /\ ~(Len(new) = 1 /\ Bytes(new) = CharLen[ch])
  <2>1. u = replace_range_2(t, from, to, new)
    BY <1>3, <1>6, Zenon
  <2>2. /\ c \in Places(C) /\ c + 1 \in Places(C) /\ c \in Nat
        /\ Byte(C, c + 1) = Byte(C, c) + CharLen[ch]
    <3>. HIDE DEF c
    <3>1. C[c] = ch
      BY DEF c
    <3>. QED BY <1>1, <3>1, OneChar
  <2>3. Place(C, from) /\ from.c = c
    BY <1>1, <2>2, PlaceIsBoth
  <2>4. Place(C, to) /\ to.c = from.c + 1
    <3>1. from.c \in Nat /\ from.b \in Nat /\ from.b = Byte(C, c)
      BY <1>1, <2>3, PlaceType DEF Place, At
    <3>. HIDE DEF from
    <3>2. to.c = from.c + 1 /\ to.b = from.b + CharLen[ch] /\ to \in Pos
      BY <1>2, <3>1 DEF Shift, Pos
    <3>. HIDE DEF to
    <3>. QED BY <2>2, <2>3, <3>1, <3>2 DEF Place, At
  <2>. HIDE DEF from, to, new, t
  <2>. HIDE DEF c
  <2>5. Good(t)
    BY DEF t
  <2>6. /\ Good(u) /\ Chars(u) = Splice(C, from.c, to.c, new)
        /\ u.pt.c = IF t.pt.c > from.c THEN t.pt.c + (Len(new) - 1) ELSE t.pt.c
        /\ \A m \in Marker : u.markers[m].c = t.markers[m].c
    BY <1>2, <2>1, <2>3, <2>4, <2>5, ReplaceRange2
  <2>7. u.pt.c \in t.pt.c .. t.pt.c + (Len(new) - 1)
    <3>1. \A x, n \in Nat : n >= 1 => x \in x .. x + (n - 1) /\ x + (n - 1) \in x .. x + (n - 1)
      OBVIOUS
    <3>2. t.pt.c \in Nat
      BY <2>5, GoodParts
    <3>. QED BY <1>2, <2>6, <3>1, <3>2, Zenon
  <2>8. CasedAt(t, u, c, new)
    BY <2>3, <2>4, <2>6, <2>7, Zenon DEF CasedAt, C
  <2>. QED BY <1>2, <1>3, <2>8 DEF c, t, new, u
<1>. QED BY <1>4, <1>5, <1>6

(* The text from FROM to TO has become NEW, at least a character for each:   *)
(* the markers stay, point moves by no more than what the text has grown.    *)
Recased(t, u, from, to, new) ==
  /\ Good(u) /\ Chars(u) = Splice(Chars(t), from, to, new)
  /\ Len(new) >= to - from
  /\ u.pt.c \in t.pt.c .. t.pt.c + (Len(new) - (to - from))
  /\ \A m \in Marker : u.markers[m].c = t.markers[m].c

LEMMA OneMore ==
  ASSUME NEW from \in Nat, NEW i \in Nat, from <= i, NEW n \in Nat, n >= i - from,
         NEW k \in Nat, k >= 1, NEW p \in Nat, NEW q \in p .. p + (n - (i - from)),
         NEW r \in q .. q + (k - 1)
  PROVE  /\ n + k >= (i + 1) - from /\ r \in p .. p + ((n + k) - ((i + 1) - from))
         /\ (from + n) + k = from + (n + k)
OBVIOUS

LEMMA RecasedNext ==
  ASSUME NEW t, Good(t), NEW from \in Places(Chars(t)), NEW i \in from .. Len(Chars(t)),
         NEW new \in Seq(Char), NEW a, Recased(t, a.t, from, i, new), a.pos = from + Len(new),
         NEW ch, ch = Chars(t)[i]
  PROVE  LET b == casify_one(a, ch) IN
         \E more \in Seq(Char) : /\ Recased(t, b.t, from, i + 1, more)
                                 /\ b.pos = from + Len(more)
<1>. DEFINE C    == Chars(t)
            up   == Upcase[ch]
            b    == casify_one(a, ch)
            more == new \o up
<1>1. /\ C \in Seq(Char) /\ t.pt.c \in Nat /\ from \in Nat /\ i \in Nat /\ from <= i
      /\ Len(new) \in Nat
  <2>1. C \in Seq(Char) /\ t.pt.c \in Nat /\ Len(C) \in Nat /\ Len(new) \in Nat
    BY GoodParts, LenProperties
  <2>2. from \in Nat
    BY <2>1 DEF Places
  <2>. QED BY <2>1, <2>2
<1>2. /\ Good(a.t) /\ Chars(a.t) = Splice(C, from, i, new) /\ Len(new) >= i - from
      /\ a.t.pt.c \in t.pt.c .. t.pt.c + (Len(new) - (i - from))
      /\ \A m \in Marker : a.t.markers[m].c = t.markers[m].c
  BY DEF Recased
<1>3. /\ a.pos \in 1 .. Len(Chars(a.t)) /\ Chars(a.t)[a.pos] = ch
      /\ up \in Seq(Char) =>
           Splice(Chars(a.t), a.pos, a.pos + 1, up) = Splice(C, from, i + 1, more)
  <2>. DEFINE after == Splice(C, from, i, new)
              pos   == from + Len(new)
  <2>1. pos \in 1 .. Len(after) /\ after[pos] = C[i]
    BY <1>1, SpliceNext
  <2>2. ASSUME up \in Seq(Char)
        PROVE  Splice(after, pos, pos + 1, up) = Splice(C, from, i + 1, more)
    <3>. HIDE DEF up
    <3>. QED BY <1>1, <2>2, SpliceNext
  <2>3. a.pos = pos /\ Chars(a.t) = after
    BY <1>2
  <2>. HIDE DEF after, pos
  <2>. QED BY <2>1, <2>2, <2>3
<1>4. /\ CasedAt(a.t, b.t, a.pos, up) /\ b.pos = a.pos + Len(up)
      /\ up \in Seq(Char) /\ Len(up) >= 1
  BY <1>2, <1>3, CasifyOne
<1>. HIDE DEF b, up
<1>5. more \in Seq(Char) /\ Len(more) = Len(new) + Len(up) /\ Len(up) \in Nat
  BY <1>4, ConcatProperties, LenProperties
<1>. HIDE DEF more
<1>6. Good(b.t) /\ Chars(b.t) = Splice(C, from, i + 1, more)
  BY <1>3, <1>4 DEF CasedAt
<1>7. \A m \in Marker : b.t.markers[m].c = t.markers[m].c
  BY <1>2, <1>4 DEF CasedAt
<1>8. /\ Len(more) >= (i + 1) - from
      /\ b.t.pt.c \in t.pt.c .. t.pt.c + (Len(more) - ((i + 1) - from))
      /\ b.pos = from + Len(more)
  <2>. DEFINE n == Len(new)
              k == Len(up)
              p == t.pt.c
              q == a.t.pt.c
              r == b.t.pt.c
  <2>1. /\ n \in Nat /\ k \in Nat /\ k >= 1 /\ n >= i - from /\ p \in Nat
        /\ q \in p .. p + (n - (i - from)) /\ r \in q .. q + (k - 1)
    BY <1>1, <1>2, <1>4, <1>5 DEF CasedAt
  <2>. HIDE DEF n, k, p, q, r
  <2>2. /\ n + k >= (i + 1) - from /\ r \in p .. p + ((n + k) - ((i + 1) - from))
        /\ (from + n) + k = from + (n + k)
    BY <1>1, <2>1, OneMore
  <2>3. b.pos = (from + n) + k
    BY <1>4 DEF n, k
  <2>. QED BY <1>5, <2>2, <2>3, Zenon DEF n, k, p, r
<1>9. Recased(t, b.t, from, i + 1, more)
  BY <1>6, <1>7, <1>8 DEF Recased
<1>. QED BY <1>5, <1>8, <1>9 DEF b

(* The turns of the loop *)
IsTurns(g, first, chars, from, to) ==
  g = [i \in from .. to |->
        IF i = from THEN [t |-> first, pos |-> from] ELSE casify_one(g[i - 1], chars[i - 1])]

LEMMA TurnsExist ==
  ASSUME NEW first, NEW chars, NEW from \in Int, NEW n \in Nat
  PROVE  \E g : IsTurns(g, first, chars, from, from + n)
<1>. DEFINE a == [t |-> first, pos |-> from]
            One(x, i) == casify_one(x, chars[i])
            To(g, k) == g = [i \in from .. from + k |->
                               IF i = from THEN a ELSE One(g[i - 1], i - 1)]
            S == {k \in Nat : \E g : To(g, k)}
<1>. HIDE DEF a, One
<1>1. 0 \in S
  <2>1. To([i \in from .. from + 0 |-> a], 0)
    OBVIOUS
  <2>. QED BY <2>1
<1>2. ASSUME NEW k \in Nat, k \in S
      PROVE  k + 1 \in S
  <2>1. PICK g : To(g, k)
    BY <1>2
  <2>. DEFINE f == [i \in from .. from + (k + 1) |->
                      IF i <= from + k THEN g[i] ELSE One(g[from + k], from + k)]
  <2>2. /\ f = [i \in from .. from + (k + 1) |-> f[i]]
        /\ \A i \in from .. from + k : f[i] = g[i]
        /\ f[from + (k + 1)] = One(g[from + k], from + k)
    OBVIOUS
  <2>. HIDE DEF f
  <2>3. \A i \in from .. from + k : g[i] = IF i = from THEN a ELSE One(g[i - 1], i - 1)
    BY <2>1, Zenon
  <2>4. \A i \in from .. from + (k + 1) : f[i] = IF i = from THEN a ELSE One(f[i - 1], i - 1)
    <3>. from \in from .. from + k /\ from + k \in from .. from + k
      OBVIOUS
    <3>1. f[from] = a
      BY <2>2, <2>3
    <3>2. ASSUME NEW i \in from + 1 .. from + k
          PROVE  f[i] = One(f[i - 1], i - 1)
      <4>1. i \in from .. from + k /\ i - 1 \in from .. from + k /\ i # from
        OBVIOUS
      <4>. QED BY <2>2, <2>3, <4>1
    <3>3. f[from + (k + 1)] = One(f[from + k], from + k)
      BY <2>2
    <3>4. ASSUME NEW i \in from .. from + (k + 1)
          PROVE  f[i] = IF i = from THEN a ELSE One(f[i - 1], i - 1)
      <4>1. \/ i = from
            \/ i # from /\ i \in from + 1 .. from + k
            \/ i # from /\ i = from + (k + 1) /\ i - 1 = from + k
        OBVIOUS
      <4>. QED BY <3>1, <3>2, <3>3, <4>1
    <3>. QED BY <3>4
  <2>5. To(f, k + 1)
    BY <2>2, <2>4
  <2>. QED BY <2>5
<1>. HIDE DEF S
<1>3. n \in S
  BY <1>1, <1>2, SetInduction
<1>. QED BY <1>3 DEF S, IsTurns, a, One

Turns(g, first, chars, from, to) ==
  /\ g[from].t = first /\ g[from].pos = from
  /\ \A i \in from .. to - 1 : g[i + 1] = casify_one(g[i], chars[i])

LEMMA TurnsValues ==
  ASSUME NEW first, NEW chars, NEW from \in Int, NEW to \in Int, from <= to,
         NEW g, IsTurns(g, first, chars, from, to)
  PROVE  Turns(g, first, chars, from, to)
<1>. DEFINE a == [t |-> first, pos |-> from]
            One(x, i) == casify_one(x, chars[i])
<1>1. a.t = first /\ a.pos = from
  OBVIOUS
<1>2. g = [i \in from .. to |-> IF i = from THEN a ELSE One(g[i - 1], i - 1)]
  BY DEF IsTurns
<1>. HIDE DEF a, One
<1>3. \A i \in from .. to : g[i] = IF i = from THEN a ELSE One(g[i - 1], i - 1)
  BY <1>2, Zenon
<1>4. /\ from \in from .. to
      /\ \A i \in from .. to - 1 : i + 1 \in from .. to /\ i + 1 # from /\ (i + 1) - 1 = i
  OBVIOUS
<1>5. g[from] = a
  BY <1>3, <1>4
<1>6. \A i \in from .. to - 1 : g[i + 1] = One(g[i], i)
  BY <1>3, <1>4
<1>. QED BY <1>1, <1>5, <1>6 DEF One, Turns

LEMMA NothingSpliced ==
  ASSUME NEW chars \in Seq(Char), NEW c \in Places(chars)
  PROVE  Splice(chars, c, c, <<>>) = chars
<1>1. /\ SubSeq(chars, 1, c - BEG) \o SubSeq(chars, c, Len(chars)) = chars
      /\ SubSeq(chars, 1, c - BEG) \in Seq(Char)
  BY TwoParts
<1>2. SubSeq(chars, 1, c - 1) \o <<>> = SubSeq(chars, 1, c - 1)
  BY <1>1, ConcatEmptySeq DEF BEG
<1>. QED BY <1>1, <1>2 DEF Splice, BEG

LEMMA NearGood ==
  ASSUME NEW t, Good(t), NEW u, Near(t, u)
  PROVE  /\ Good(u) /\ Chars(u) = Chars(t) /\ u.pt = t.pt /\ u.markers = t.markers
  BY DEF Good, Near, SamePlaces

LEMMA ModifyText ==
  ASSUME NEW t, Good(t), NEW start, NEW end
  PROVE  Near(t, modify_text(t, start, end))
<1>. DEFINE v  == invalidate_buffer_caches(t, start, end)
            t1 == BUF_COMPUTE_UNCHANGED(v, start - 1, end)
            r  == [t1 EXCEPT !.undo_list = record_first_change(@)]
            t2 == IF Clean(t) THEN r ELSE t1
            u  == modiff_incr(t2, end - start)
<1>1. Shaped(t) /\ GapPlaced(t)
  BY DEF Good
<1>2. Near(t, v) /\ Shaped(v) /\ GapPlaced(v) /\ DOMAIN v = Fields
  BY <1>1, NearCaches DEF Near, Shaped
<1>. HIDE DEF v
<1>3. Near(v, t1)
  <2>1. DOMAIN t1 = Fields /\ SameText(v, t1) /\ SamePlaces(v, t1) /\ SameCounts(v, t1) /\ SameUndo(v, t1)
    BY <1>2, OfUnchanged
  <2>. HIDE DEF t1
  <2>. QED BY <1>2, <2>1, NearView
<1>. HIDE DEF t1
<1>4. Shaped(t1) /\ GapPlaced(t1) /\ DOMAIN t1 = Fields /\ UndoOK(t1.undo_list)
  BY <1>3 DEF Near, Shaped
<1>5. Near(t1, r)
  <2>1. UndoOK(record_first_change(t1.undo_list))
    BY <1>4, RecordFirstChangeType
  <2>2. UndoSet(t1, r)
    BY <1>4, <2>1 DEF Fields, UndoSet, SameText, SamePlaces, SameCounts, SameView
  <2>. HIDE DEF r
  <2>. QED BY <1>4, <2>2, NearUndo
<1>6. Near(t1, t2)
  <2>. HIDE DEF r
  <2>. QED BY <1>4, <1>5, NearItself
<1>. HIDE DEF t2
<1>7. Near(t2, u)
  <2>1. Shaped(t2) /\ GapPlaced(t2)
    BY <1>6 DEF Near
  <2>. QED BY <2>1, NearModiff
<1>. HIDE DEF u
<1>8. Near(t1, u)
  BY <1>4, <1>6, <1>7, NearTwice
<1>9. Near(v, u)
  BY <1>2, <1>3, <1>8, NearTwice
<1>10. Near(t, u)
  BY <1>1, <1>2, <1>9, NearTwice
<1>. QED BY <1>10 DEF modify_text, u, t2, r, t1, v

LEMMA RecasedNear ==
  ASSUME NEW t, NEW v, Good(v), Chars(v) = Chars(t), v.pt = t.pt, v.markers = t.markers,
         NEW u, NEW w, NEW from, NEW to, NEW new, Recased(v, u, from, to, new), Near(u, w)
  PROVE  Recased(t, w, from, to, new)
<1>1. Good(u)
  BY DEF Recased
<1>2. Good(w) /\ Chars(w) = Chars(u) /\ w.pt = u.pt /\ w.markers = u.markers
  BY <1>1, NearGood
<1>. QED BY <1>2, Zenon DEF Recased

(* After each turn the text so far has become what the turns have put in. *)
Turned(g, t, from, i) ==
  \E new \in Seq(Char) : Recased(t, g[i].t, from, i, new) /\ g[i].pos = from + Len(new)

LEMMA TurnsRecased ==
  ASSUME NEW t, Good(t), NEW from \in Places(Chars(t)), NEW to \in Places(Chars(t)), from <= to,
         NEW g, Turns(g, t, Chars(t), from, to)
  PROVE  \A i \in from .. to : Turned(g, t, from, i)
<1>. DEFINE C == Chars(t)
            S == {k \in Nat : k <= to - from => Turned(g, t, from, from + k)}
<1>1. C \in Seq(Char) /\ from \in Nat /\ to \in Nat /\ from >= 1 /\ Len(C) \in Nat
      /\ \A k \in Nat : k + 1 <= to - from => from + k \in from .. Len(C)
  <2>1. C \in Seq(Char) /\ Len(C) \in Nat
    BY GoodParts
  <2>2. from \in 1 .. Len(C) + 1 /\ to \in 1 .. Len(C) + 1
    BY DEF Places
  <2>. HIDE DEF C
  <2>. QED BY <2>1, <2>2
<1>2. /\ g[from].t = t /\ g[from].pos = from
      /\ \A i \in from .. to - 1 : g[i + 1] = casify_one(g[i], C[i])
  BY DEF Turns
<1>3. Turned(g, t, from, from)
  <2>1. <<>> \in Seq(Char) /\ Len(<<>>) = 0
    BY EmptySeq
  <2>2. Splice(Chars(t), from, from, <<>>) = Chars(t)
    BY <1>1, NothingSpliced
  <2>3. /\ Len(<<>>) >= from - from
        /\ t.pt.c \in t.pt.c .. t.pt.c + (Len(<<>>) - (from - from))
        /\ g[from].pos = from + Len(<<>>)
    <3>1. \A x, y \in Nat : 0 >= x - x /\ y \in y .. y + (0 - (x - x)) /\ x + 0 = x
      OBVIOUS
    <3>2. t.pt.c \in Nat
      BY GoodParts
    <3>. QED BY <1>1, <1>2, <2>1, <3>1, <3>2, Zenon
  <2>4. Recased(t, g[from].t, from, from, <<>>)
    BY <1>2, <2>2, <2>3 DEF Recased
  <2>. QED BY <2>1, <2>3, <2>4 DEF Turned
<1>4. 0 \in S
  BY <1>1, <1>3
<1>5. ASSUME NEW k \in Nat, k \in S
      PROVE  k + 1 \in S
  <2>1. SUFFICES ASSUME k + 1 <= to - from
                 PROVE  Turned(g, t, from, from + (k + 1))
    OBVIOUS
  <2>. DEFINE i == from + k
  <2>2. i \in from .. Len(C) /\ i \in from .. to - 1 /\ from + (k + 1) = i + 1 /\ k <= to - from
    BY <1>1, <2>1
  <2>3. PICK new \in Seq(Char) : Recased(t, g[i].t, from, i, new) /\ g[i].pos = from + Len(new)
    BY <1>5, <2>2 DEF Turned
  <2>4. g[i + 1] = casify_one(g[i], C[i])
    BY <1>2, <2>2
  <2>. HIDE DEF i
  <2>5. \E more \in Seq(Char) : /\ Recased(t, casify_one(g[i], C[i]).t, from, i + 1, more)
                                /\ casify_one(g[i], C[i]).pos = from + Len(more)
    <3>1. i \in from .. Len(Chars(t)) /\ C[i] = Chars(t)[i]
      BY <2>2
    <3>. QED BY <2>3, <3>1, RecasedNext
  <2>6. Turned(g, t, from, i + 1)
    BY <2>4, <2>5 DEF Turned
  <2>. QED BY <2>2, <2>6
<1>6. \A k \in Nat : k \in S
  <2>. HIDE DEF S
  <2>. QED BY <1>4, <1>5, SetInduction
<1>. QED
  <2>. TAKE i \in from .. to
  <2>1. i - from \in Nat /\ i - from <= to - from /\ from + (i - from) = i
    BY <1>1
  <2>. QED BY <1>6, <2>1

LEMMA CasifyByTurns ==
  ASSUME NEW t, NEW from \in Nat, NEW to \in Nat, from <= to
  PROVE  LET first == RecordDelete(modify_text(t, from, to), from, Between(t, from, to), FALSE) IN
         \E g : /\ Turns(g, first, Chars(t), from, to)
               /\ casify_region(t, from, to) = RecordInsert(g[to].t, from, g[to].pos - from)
<1>. DEFINE C == Chars(t)
            first == RecordDelete(modify_text(t, from, to), from, Between(t, from, to), FALSE)
            g == CHOOSE f : IsTurns(f, first, C, from, to)
<1>1. casify_region(t, from, to) = RecordInsert(g[to].t, from, g[to].pos - from)
  BY DEF casify_region, IsTurns
<1>. HIDE DEF C, first
<1>2. from \in Int /\ to \in Int /\ to - from \in Nat /\ from + (to - from) = to
  OBVIOUS
<1>3. IsTurns(g, first, C, from, to)
  <2>1. \E f : IsTurns(f, first, C, from, from + (to - from))
    BY <1>2, TurnsExist
  <2>. QED BY <1>2, <2>1, Zenon
<1>. HIDE DEF g
<1>4. Turns(g, first, C, from, to)
  BY <1>2, <1>3, TurnsValues
<1>. QED BY <1>1, <1>4 DEF C, first

LEMMA CasifyRegion ==
  ASSUME NEW t, Good(t), point_before \in Int,
         NEW from \in Places(Chars(t)), NEW to \in Places(Chars(t)), from < to
  PROVE  \E new \in Seq(Char) :
           /\ Recased(t, casify_region(t, from, to), from, to, new)
           /\ \E g : /\ Turns(g, RecordDelete(modify_text(t, from, to), from,
                                              Between(t, from, to), FALSE), Chars(t), from, to)
                     /\ casify_region(t, from, to) = RecordInsert(g[to].t, from, Len(new))
<1>. DEFINE C  == Chars(t)
            t1 == modify_text(t, from, to)
            t2 == RecordDelete(t1, from, Between(t, from, to), FALSE)
            u  == casify_region(t, from, to)
<1>1. C \in Seq(Char) /\ from \in Nat /\ to \in Nat /\ from <= to
  <2>1. C \in Seq(Char) /\ Len(C) \in Nat
    BY GoodParts
  <2>2. from \in 1 .. Len(C) + 1 /\ to \in 1 .. Len(C) + 1
    BY DEF Places
  <2>. HIDE DEF C
  <2>. QED BY <2>1, <2>2
<1>2. PICK g : /\ Turns(g, t2, C, from, to)
               /\ u = RecordInsert(g[to].t, from, g[to].pos - from)
  BY <1>1, CasifyByTurns
<1>3. Near(t, t1) /\ Good(t1)
  BY ModifyText, NearGood
<1>. HIDE DEF t1
<1>4. Near(t1, t2)
  <2>1. Between(t, from, to) \in Seq(Char)
    BY <1>1, BetweenType
  <2>2. Shaped(t1) /\ GapPlaced(t1) /\ t1.markers \in [Marker -> Pos] /\ t1.pt \in Pos
    BY <1>3, GoodParts
  <2>3. from \in Int /\ FALSE \in BOOLEAN
    BY <1>1
  <2>4. UndoSet(t1, t2)
    BY <2>1, <2>2, <2>3, OfRecordDelete
  <2>. HIDE DEF t2
  <2>. QED BY <2>2, <2>4, NearUndo
<1>. HIDE DEF t2
<1>5. Good(t2) /\ Chars(t2) = C /\ t2.pt = t.pt /\ t2.markers = t.markers
  <2>1. Good(t1) /\ Chars(t1) = C /\ t1.pt = t.pt /\ t1.markers = t.markers
    BY <1>3, NearGood
  <2>2. Good(t2) /\ Chars(t2) = Chars(t1) /\ t2.pt = t1.pt /\ t2.markers = t1.markers
    BY <1>3, <1>4, NearGood
  <2>. QED BY <2>1, <2>2
<1>. DEFINE w == g[to].t
            len == g[to].pos - from
<1>6. PICK new \in Seq(Char) : Recased(t2, w, from, to, new) /\ g[to].pos = from + Len(new)
  <2>1. Turns(g, t2, Chars(t2), from, to) /\ to \in from .. to
    BY <1>1, <1>2, <1>5
  <2>2. Turned(g, t2, from, to)
    BY <1>1, <1>5, <2>1, TurnsRecased
  <2>. QED BY <2>2 DEF Turned
<1>7. Near(w, u) /\ len = Len(new)
  <2>1. Shaped(w) /\ GapPlaced(w)
    BY <1>6 DEF Recased, Good
  <2>2. from \in Int /\ len \in Int /\ len = Len(new)
    <3>1. Len(new) \in Nat
      BY LenProperties
    <3>. QED BY <1>1, <1>6, <3>1
  <2>3. u = RecordInsert(w, from, len)
    BY <1>2
  <2>. HIDE DEF u, w, len
  <2>4. UndoSet(w, u)
    BY <2>1, <2>2, <2>3, OfRecordInsert
  <2>. QED BY <2>1, <2>2, <2>4, NearUndo
<1>. HIDE DEF u
<1>8. u = RecordInsert(g[to].t, from, Len(new))
  BY <1>2, <1>7
<1>. HIDE DEF w
<1>9. Recased(t, u, from, to, new)
  BY <1>5, <1>6, <1>7, RecasedNear
<1>. QED BY <1>2, <1>8, <1>9 DEF u, C, t2, t1

-------------------------------------------------------------------------------
(* What each command does to the text, point and the markers                 *)

(* The text, point and the markers are as before. *)
Kept(t, u) ==
  Good(u) /\ Chars(u) = Chars(t) /\ u.pt = t.pt /\ u.markers = t.markers

LEMMA MovedKept ==
  ASSUME NEW t, Good(t), NEW u, Moved(t, u)
  PROVE  Kept(t, u)
<1>1. Shaped(t)
  BY DEF Good
<1>2. Near(t, u)
  BY <1>1, NearMoved
<1>. QED BY <1>2, NearGood DEF Kept

LEMMA CachesKept ==
  ASSUME NEW t, Good(t), NEW start, NEW end
  PROVE  Kept(t, invalidate_buffer_caches(t, start, end))
<1>1. Near(t, invalidate_buffer_caches(t, start, end))
  BY NearCaches DEF Good
<1>. HIDE DEF invalidate_buffer_caches
<1>. QED BY <1>1, NearGood DEF Kept

LEMMA KeptThenInserted ==
  ASSUME NEW t, NEW v, Kept(t, v), NEW u, NEW at, NEW new, NEW moves, NEW goes,
         InsertedAt(v, u, at, new, moves, goes)
  PROVE  InsertedAt(t, u, at, new, moves, goes)
  BY Zenon DEF Kept, InsertedAt

LEMMA KeptThenDeleted ==
  ASSUME NEW t, NEW v, Kept(t, v), NEW u, NEW from, NEW to, DeletedFrom(v, u, from, to)
  PROVE  DeletedFrom(t, u, from, to)
  BY Zenon DEF Kept, DeletedFrom

LEMMA BothPlace ==
  ASSUME NEW t, Good(t), NEW c \in BEG .. t.z.c
  PROVE  /\ c \in Places(Chars(t)) /\ c \in Nat /\ c >= 1
         /\ Place(Chars(t), Both(t, c)) /\ Both(t, c).c = c
<1>1. Chars(t) \in Seq(Char) /\ Len(Chars(t)) \in Nat /\ t.z.c = Len(Chars(t)) + 1
  BY GoodParts DEF GapPlaced
<1>2. c \in Places(Chars(t)) /\ c \in Nat /\ c >= 1
  BY <1>1 DEF Places, BEG
<1>. QED BY <1>1, <1>2, PlaceIsBoth

LEMMA PointSet ==
  ASSUME NEW t, Good(t), NEW p, Place(Chars(t), p)
  PROVE  LET u == [t EXCEPT !.pt = p] IN
         Good(u) /\ Chars(u) = Chars(t) /\ u.pt = p /\ u.markers = t.markers
<1>. DEFINE u == [t EXCEPT !.pt = p]
<1>1. Shaped(t) /\ GapPlaced(t) /\ DOMAIN t = Fields
  BY GoodParts
<1>2. /\ DOMAIN u = Fields /\ SameText(t, u) /\ SameCounts(t, u) /\ SameUndo(t, u)
      /\ u.pt = p /\ u.markers = t.markers
  BY <1>1 DEF Fields, SameText, SameCounts, SameUndo
<1>. HIDE DEF u
<1>3. Good(u) /\ Chars(u) = Chars(t)
  BY <1>1, <1>2, GoodParts, GoodFrom
<1>. QED BY <1>2, <1>3 DEF u

LEMMA MarkerSet ==
  ASSUME NEW t, Good(t), NEW m \in Marker, NEW p, Place(Chars(t), p)
  PROVE  LET u == [t EXCEPT !.markers[m] = p] IN
         /\ Good(u) /\ Chars(u) = Chars(t) /\ u.pt = t.pt
         /\ u.markers = [t.markers EXCEPT ![m] = p]
<1>. DEFINE u == [t EXCEPT !.markers[m] = p]
<1>1. Shaped(t) /\ GapPlaced(t) /\ DOMAIN t = Fields /\ t.markers \in [Marker -> Pos] /\ p \in Pos
  BY GoodParts DEF Place
<1>2. /\ DOMAIN u = Fields /\ SameText(t, u) /\ SameCounts(t, u) /\ SameUndo(t, u)
      /\ u.pt = t.pt /\ u.markers = [t.markers EXCEPT ![m] = p]
  BY <1>1 DEF Fields, SameText, SameCounts, SameUndo
<1>. HIDE DEF u
<1>3. \A k \in Marker : u.markers[k] = IF k = m THEN p ELSE t.markers[k]
  BY <1>1, <1>2
<1>4. u.markers \in [Marker -> Pos]
  BY <1>1, <1>2
<1>5. \A k \in Marker : Place(Chars(t), u.markers[k])
  BY <1>3, GoodParts
<1>6. Place(Chars(t), u.pt)
  BY <1>2, GoodParts
<1>7. Good(u) /\ Chars(u) = Chars(t)
  BY <1>1, <1>2, <1>4, <1>5, <1>6, GoodFrom
<1>. QED BY <1>2, <1>7 DEF u

(* The counts of modifications, the undo list and the caches are no part of  *)
(* the text.                                                                 *)
LEMMA StillGood ==
  ASSUME NEW t, Good(t), NEW u, DOMAIN u = Fields, SameText(t, u), SamePlaces(t, u),
         u.modiff = t.modiff, u.save_modiff \in 0 .. t.modiff,
         u.unchanged_modified \in 0 .. t.modiff, UndoOK(u.undo_list)
  PROVE  Kept(t, u)
<1>1. Shaped(u)
  BY DEF Shaped, Good, SameText
<1>2. Chars(u) = Chars(t) /\ u.pt = t.pt /\ u.markers = t.markers
  BY DEF Chars, SameText, SamePlaces
<1>3. GapPlaced(u)
  BY <1>2 DEF Good, GapPlaced, SameText
<1>. QED BY <1>1, <1>2, <1>3 DEF Kept, Good

(* The inductive invariant: the text is good in all its parts, and a         *)
(* deletion whose hook has run still has its text before it.                 *)
PendingOK ==
  pending # Nil =>
    /\ pending.start \in Nat /\ pending.end \in Nat /\ pending.start < pending.end
    /\ pending.from \in Position /\ pending.from < buf.z.c

IInv ==
  /\ Good(buf) /\ setup \in Setups /\ point_before \in Nat
  /\ hooked \in BOOLEAN /\ ahead \in BOOLEAN /\ PendingOK

LEMMA PiecesAreTexts ==
  ASSUME IInv, NEW chars \in setup.pieces
  PROVE  chars \in Seq(Char) /\ chars # <<>> /\ Len(chars) \in Nat /\ Len(chars) >= 1
<1>1. chars \in Seq(Char) /\ chars # <<>>
  BY GapBufferAssumption DEF IInv
<1>2. Len(chars) \in Nat /\ Len(chars) # 0
  BY <1>1, EmptySeq, LenProperties
<1>. QED BY <1>1, <1>2

LEMMA PositionPlace ==
  ASSUME IInv, NEW c \in Position
  PROVE  /\ c \in Places(Chars(buf)) /\ c \in Nat /\ c >= 1
         /\ Place(Chars(buf), Both(buf, c)) /\ Both(buf, c).c = c
  BY BothPlace DEF IInv, Position

LEMMA DoesInsert ==
  ASSUME IInv, NEW chars \in setup.pieces, NEW before_markers \in BOOLEAN,
         Insert(chars, before_markers)
  PROVE  InsertedAt(buf, buf', buf.pt.c, chars, TRUE, Goes(before_markers))
<1>1. buf' = insert_1_both(buf, chars, before_markers)
  BY DEF Insert, Edit
<1>2. Good(buf) /\ point_before \in Int /\ chars \in Seq(Char)
  BY PiecesAreTexts DEF IInv
<1>. QED BY <1>1, <1>2, Insert1Both

LEMMA DoesInsertFromGap ==
  ASSUME IInv, NEW chars \in setup.pieces, InsertFromGap(chars)
  PROVE  InsertedAt(buf, buf', buf.pt.c, chars, FALSE, Marker)
<1>. DEFINE m == move_gap_both(buf, buf.pt)
<1>1. buf' = insert_from_gap(m, chars, TRUE)
  BY DEF InsertFromGap, Edit
<1>2. Good(buf) /\ point_before \in Int /\ chars \in Seq(Char)
  BY PiecesAreTexts DEF IInv
<1>3. Moved(buf, m) /\ m.gpt = buf.pt
  BY <1>2, GoodParts, MoveGapBoth
<1>. HIDE DEF m
<1>4. Kept(buf, m)
  BY <1>2, <1>3, MovedKept
<1>5. InsertedAt(m, buf', m.gpt.c, chars, FALSE, Goes(TRUE))
  <2>1. Good(m)
    BY <1>4 DEF Kept
  <2>. QED BY <1>1, <1>2, <2>1, InsertFromGap1
<1>6. InsertedAt(buf, buf', m.gpt.c, chars, FALSE, Goes(TRUE))
  BY <1>4, <1>5, KeptThenInserted
<1>. QED BY <1>3, <1>6 DEF Goes

LEMMA DoesDelete ==
  ASSUME IInv, NEW from \in Position, NEW to \in Position, del_range(from, to)
  PROVE  from < to /\ DeletedFrom(buf, buf', from, to)
<1>. DEFINE v == invalidate_buffer_caches(buf, from, to)
<1>1. from < to /\ buf' = del_range_2(v, Both(buf, from), Both(buf, to))
  BY DEF del_range, Edit
<1>2. Good(buf) /\ point_before \in Int
  BY DEF IInv
<1>3. Kept(buf, v)
  BY <1>2, CachesKept
<1>. HIDE DEF v
<1>4. /\ Place(Chars(v), Both(buf, from)) /\ Both(buf, from).c = from /\ from \in Nat
      /\ Place(Chars(v), Both(buf, to)) /\ Both(buf, to).c = to /\ to \in Nat
  BY <1>3, PositionPlace DEF Kept
<1>5. DeletedFrom(v, buf', from, to)
  <2>1. Good(v)
    BY <1>3 DEF Kept
  <2>2. Both(buf, from).c <= Both(buf, to).c
    BY <1>1, <1>4
  <2>3. DeletedFrom(v, buf', Both(buf, from).c, Both(buf, to).c)
    BY <1>1, <1>2, <1>4, <2>1, <2>2, DelRange2
  <2>. QED BY <1>4, <2>3
<1>. QED BY <1>1, <1>3, <1>5, KeptThenDeleted

LEMMA DoesReplace ==
  ASSUME IInv, NEW from \in Position, NEW to \in Position, NEW chars \in setup.pieces,
         Replace(from, to, chars)
  PROVE  from < to /\ ReplacedBy(buf, buf', from, to, chars)
<1>1. from < to /\ buf' = replace_range(buf, Both(buf, from), Both(buf, to), chars)
  BY DEF Replace, Edit
<1>2. Good(buf) /\ point_before \in Int /\ chars \in Seq(Char)
  BY PiecesAreTexts DEF IInv
<1>3. /\ Place(Chars(buf), Both(buf, from)) /\ Both(buf, from).c = from
      /\ Place(Chars(buf), Both(buf, to)) /\ Both(buf, to).c = to
  BY PositionPlace
<1>4. ReplacedBy(buf, buf', Both(buf, from).c, Both(buf, to).c, chars)
  BY <1>1, <1>2, <1>3, ReplaceRange
<1>. QED BY <1>1, <1>3, <1>4

LEMMA DoesCasify ==
  ASSUME IInv, NEW from \in Position, NEW to \in Position, Casify(from, to)
  PROVE  from < to /\ \E new \in Seq(Char) : Recased(buf, buf', from, to, new)
<1>1. from < to /\ buf' = casify_region(buf, from, to)
  BY DEF Casify
<1>2. Good(buf) /\ point_before \in Int
  BY DEF IInv
<1>3. from \in Places(Chars(buf)) /\ to \in Places(Chars(buf))
  BY PositionPlace
<1>. QED BY <1>1, <1>2, <1>3, CasifyRegion

LEMMA DoesQuitInGapMotion ==
  ASSUME IInv, NEW stop \in Position, QuitInGapMotion(stop)
  PROVE  Kept(buf, buf')
<1>. DEFINE v == invalidate_buffer_caches(buf, buf.pt.c, buf.pt.c)
<1>1. buf' = gap_motion(v, buf.pt, Both(buf, stop))
  BY DEF QuitInGapMotion
<1>2. Kept(buf, v)
  BY CachesKept DEF IInv
<1>. HIDE DEF v
<1>3. Good(v) /\ Place(Chars(v), Both(buf, stop))
  BY <1>2, PositionPlace DEF Kept
<1>4. Moved(v, buf')
  BY <1>1, <1>3, MoveGap DEF Good
<1>5. Kept(v, buf')
  BY <1>3, <1>4, MovedKept
<1>. QED BY <1>2, <1>5 DEF Kept

LEMMA DoesGoto ==
  ASSUME IInv, NEW pos \in Position, goto_char(pos)
  PROVE  /\ Good(buf') /\ Chars(buf') = Chars(buf) /\ buf'.pt.c = pos
         /\ buf'.markers = buf.markers
<1>1. buf' = [buf EXCEPT !.pt = Both(buf, pos)]
  BY DEF goto_char
<1>2. Good(buf) /\ Place(Chars(buf), Both(buf, pos)) /\ Both(buf, pos).c = pos
  BY PositionPlace DEF IInv
<1>. QED BY <1>1, <1>2, PointSet

LEMMA DoesSetMarker ==
  ASSUME IInv, NEW m \in Marker, NEW pos \in Position, set_marker(m, pos)
  PROVE  /\ Good(buf') /\ Chars(buf') = Chars(buf) /\ buf'.pt = buf.pt
         /\ buf'.markers = [buf.markers EXCEPT ![m] = Both(buf, pos)] /\ Both(buf, pos).c = pos
<1>1. buf' = [buf EXCEPT !.markers[m] = Both(buf, pos)]
  BY DEF set_marker
<1>2. Good(buf) /\ Place(Chars(buf), Both(buf, pos)) /\ Both(buf, pos).c = pos
  BY PositionPlace DEF IInv
<1>. QED BY <1>1, <1>2, MarkerSet

(* The hook inserts at POS, with point put back: point is moved only if it   *)
(* is behind.                                                                *)
LEMMA DoesPrepare ==
  ASSUME IInv, NEW from \in Position, NEW to \in Position, NEW pos \in Position,
         NEW chars \in setup.pieces, prepare_to_modify_buffer(from, to, pos, chars)
  PROVE  InsertedAt(buf, buf', pos, chars, FALSE, InsertionType)
<1>. DEFINE at == Both(buf, pos)
            b  == [buf EXCEPT !.pt = at]
            v  == insert_1_both(b, chars, FALSE)
            S  == Splice(Chars(buf), pos, pos, chars)
            q  == IF buf.pt.c > pos THEN Shift(buf.pt, Len(chars), Bytes(chars)) ELSE buf.pt
            u  == [v EXCEPT !.pt = q]
<1>1. buf' = u
  BY DEF prepare_to_modify_buffer
<1>2. /\ Good(buf) /\ point_before \in Int /\ chars \in Seq(Char) /\ Len(chars) \in Nat
      /\ Bytes(chars) \in Nat
  BY PiecesAreTexts, BytesConcat DEF IInv
<1>3. /\ Place(Chars(buf), at) /\ at.c = pos /\ pos \in Nat /\ Chars(buf) \in Seq(Char)
      /\ Place(Chars(buf), buf.pt) /\ buf.pt \in Pos /\ buf.pt.c \in Nat
      /\ at.b \in Nat
  <2>1. Place(Chars(buf), at) /\ at.c = pos /\ pos \in Nat
    BY PositionPlace
  <2>2. Chars(buf) \in Seq(Char) /\ Place(Chars(buf), buf.pt) /\ buf.pt \in Pos /\ buf.pt.c \in Nat
    BY <1>2, GoodParts
  <2>. HIDE DEF at
  <2>. QED BY <2>1, <2>2, PlaceType
<1>. HIDE DEF at
<1>4. Good(b) /\ Chars(b) = Chars(buf) /\ b.pt = at /\ b.markers = buf.markers
  BY <1>2, <1>3, PointSet
<1>. HIDE DEF b
<1>5. InsertedAt(b, v, pos, chars, TRUE, InsertionType)
  <2>1. InsertedAt(b, v, b.pt.c, chars, TRUE, Goes(FALSE))
    <3>. FALSE \in BOOLEAN
      OBVIOUS
    <3>. QED BY <1>2, <1>4, Insert1Both
  <2>. HIDE DEF v
  <2>. QED BY <1>3, <1>4, <2>1 DEF Goes
<1>. HIDE DEF v
<1>6. /\ Good(v) /\ Chars(v) = S
      /\ \A m \in Marker :
           v.markers[m].c = IF buf.markers[m].c > pos \/ (buf.markers[m].c = pos /\ m \in InsertionType)
                            THEN buf.markers[m].c + Len(chars) ELSE buf.markers[m].c
  BY <1>4, <1>5, Zenon DEF InsertedAt
<1>7. /\ Place(S, q)
      /\ q.c = IF buf.pt.c > pos \/ (buf.pt.c = pos /\ FALSE)
               THEN buf.pt.c + Len(chars) ELSE buf.pt.c
  <2>1. /\ buf.pt.c <= at.c => Place(S, buf.pt)
        /\ buf.pt.c >= at.c => Place(S, Shift(buf.pt, Len(chars) - (at.c - at.c),
                                                      Bytes(chars) - (at.b - at.b)))
    <3>. at.c <= at.c
      BY <1>3
    <3>. QED BY <1>2, <1>3, SplicePlaces
  <2>2. Len(chars) - (at.c - at.c) = Len(chars) /\ Bytes(chars) - (at.b - at.b) = Bytes(chars)
    BY <1>2, <1>3
  <2>. HIDE DEF S
  <2>3. ASSUME buf.pt.c > pos
        PROVE  Place(S, q) /\ q.c = buf.pt.c + Len(chars)
    <3>1. q = Shift(buf.pt, Len(chars), Bytes(chars)) /\ buf.pt.c >= at.c
      BY <1>3, <2>3
    <3>2. Shift(buf.pt, Len(chars), Bytes(chars)).c = buf.pt.c + Len(chars)
      BY DEF Shift
    <3>. QED BY <2>1, <2>2, <3>1, <3>2
  <2>4. ASSUME ~(buf.pt.c > pos)
        PROVE  Place(S, q) /\ q.c = buf.pt.c
    <3>1. q = buf.pt /\ buf.pt.c <= at.c
      BY <1>3, <2>4
    <3>. QED BY <2>1, <3>1
  <2>. QED BY <2>3, <2>4
<1>. HIDE DEF q, S
<1>8. Good(u) /\ Chars(u) = S /\ u.pt = q /\ u.markers = v.markers
  BY <1>6, <1>7, PointSet
<1>. HIDE DEF u
<1>. QED BY <1>1, <1>6, <1>7, <1>8 DEF InsertedAt, S

(* After the hook the text to delete is still before some text. *)
LEMMA DoesDeleteAfterHook ==
  ASSUME IInv, del_range_1
  PROVE  LET to == Min({buf.z.c, pending.from + (pending.end - pending.start)}) IN
         /\ to \in Position /\ pending.from \in Position /\ pending.from < to
         /\ DeletedFrom(buf, buf', pending.from, to)
<1>. DEFINE n  == pending.end - pending.start
            to == Min({buf.z.c, pending.from + n})
            v  == invalidate_buffer_caches(buf, pending.start, pending.end)
            from == pending.from
<1>1. buf' = del_range_2(v, Both(buf, from), Both(buf, to)) /\ pending # Nil
  BY DEF del_range_1
<1>2. /\ pending.start \in Nat /\ pending.end \in Nat /\ pending.start < pending.end
      /\ from \in Position /\ from < buf.z.c /\ Good(buf) /\ point_before \in Int
  BY <1>1 DEF IInv, PendingOK
<1>3. buf.z.c \in Nat
  BY <1>2, PlaceType, GoodParts DEF GapPlaced
<1>4. to \in Position /\ from < to
  <2>1. \A z, f, s, e \in Nat : s < e /\ f < z /\ f >= 1 =>
          /\ f + (e - s) \in Int /\ f < f + (e - s)
          /\ z \in 1 .. z
          /\ f + (e - s) <= z => f + (e - s) \in 1 .. z
    OBVIOUS
  <2>2. from \in Nat /\ from >= 1
    BY <1>2, <1>3 DEF Position, BEG
  <2>3. from + n \in Int /\ from < from + n /\ buf.z.c \in 1 .. buf.z.c
        /\ (from + n <= buf.z.c => from + n \in 1 .. buf.z.c)
    BY <1>2, <1>3, <2>1, <2>2
  <2>. HIDE DEF n
  <2>4. to = IF from + n <= buf.z.c THEN from + n ELSE buf.z.c
    <3>1. \A x \in Nat, y \in Int : Min({x, y}) = IF y <= x THEN y ELSE x
      BY DEF Min
    <3>. QED BY <1>3, <2>3, <3>1, Zenon
  <2>. HIDE DEF to
  <2>. QED BY <1>2, <2>3, <2>4 DEF Position, BEG
<1>. HIDE DEF to, n
<1>5. Kept(buf, v)
  BY <1>2, CachesKept
<1>. HIDE DEF v
<1>6. /\ Place(Chars(v), Both(buf, from)) /\ Both(buf, from).c = from /\ from \in Nat
      /\ Place(Chars(v), Both(buf, to)) /\ Both(buf, to).c = to /\ to \in Nat
  BY <1>2, <1>4, <1>5, PositionPlace DEF Kept
<1>. HIDE DEF from
<1>7. DeletedFrom(v, buf', from, to)
  <2>1. Good(v)
    BY <1>5 DEF Kept
  <2>2. Both(buf, from).c <= Both(buf, to).c
    BY <1>4, <1>6
  <2>3. DeletedFrom(v, buf', Both(buf, from).c, Both(buf, to).c)
    BY <1>1, <1>2, <1>6, <2>1, <2>2, DelRange2
  <2>. QED BY <1>6, <2>3
<1>8. DeletedFrom(buf, buf', from, to)
  BY <1>5, <1>7, KeptThenDeleted
<1>. QED BY <1>2, <1>4, <1>8 DEF from, to, n

LEMMA GoodCounts ==
  ASSUME NEW t, Good(t)
  PROVE  /\ DOMAIN t = Fields /\ t.modiff \in Nat /\ t.save_modiff \in 0 .. t.modiff
         /\ t.unchanged_modified \in 0 .. t.modiff /\ UndoOK(t.undo_list)
         /\ t.modiff \in 0 .. t.modiff
  BY DEF Good, Shaped

(* Neither the text nor a position changes. *)
LEMMA DoesNothing ==
  ASSUME IInv,
         \/ set_buffer_unmodified \/ undo_boundary \/ mark_window_display_accurate
         \/ \E start \in Position : find_newline(start)
  PROVE  Kept(buf, buf')
<1>. DEFINE t == buf
<1>1. /\ Good(t) /\ DOMAIN t = Fields /\ t.modiff \in Nat /\ t.save_modiff \in 0 .. t.modiff
      /\ t.unchanged_modified \in 0 .. t.modiff /\ UndoOK(t.undo_list)
      /\ t.modiff \in 0 .. t.modiff
  BY GoodCounts DEF IInv
<1>2. CASE set_buffer_unmodified
  <2>1. buf' = [buf EXCEPT !.save_modiff = buf.modiff]
    BY <1>2 DEF set_buffer_unmodified
  <2>2. /\ DOMAIN buf' = Fields /\ SameText(t, buf') /\ SamePlaces(t, buf')
        /\ buf'.modiff = t.modiff /\ buf'.save_modiff = t.modiff
        /\ buf'.unchanged_modified = t.unchanged_modified /\ buf'.undo_list = t.undo_list
    BY <1>1, <2>1 DEF Fields, SameText, SamePlaces
  <2>. QED BY <1>1, <2>2, StillGood
<1>3. CASE undo_boundary
  <2>1. buf' = [buf EXCEPT !.undo_list = Fundo_boundary(@)]
    BY <1>3 DEF undo_boundary
  <2>2. UndoOK(Fundo_boundary(t.undo_list))
    <3>1. Boundary \in Record
      BY DEF Boundary, Record
    <3>2. CASE t.undo_list = Qt \/ (t.undo_list # <<>> /\ Head(t.undo_list) = Boundary)
      BY <1>1, <3>2 DEF Fundo_boundary
    <3>3. CASE ~(t.undo_list = Qt \/ (t.undo_list # <<>> /\ Head(t.undo_list) = Boundary))
      <4>1. t.undo_list \in Seq(Record) /\ Fundo_boundary(t.undo_list) = <<Boundary>> \o t.undo_list
        BY <1>1, <3>3 DEF Fundo_boundary, UndoOK
      <4>. QED BY <3>1, <4>1, OnTop DEF UndoOK
    <3>. QED BY <3>2, <3>3
  <2>3. /\ DOMAIN buf' = Fields /\ SameText(t, buf') /\ SamePlaces(t, buf')
        /\ buf'.modiff = t.modiff /\ buf'.save_modiff = t.save_modiff
        /\ buf'.unchanged_modified = t.unchanged_modified
        /\ buf'.undo_list = Fundo_boundary(t.undo_list)
    BY <1>1, <2>1 DEF Fields, SameText, SamePlaces
  <2>. QED BY <1>1, <2>2, <2>3, StillGood
<1>4. CASE mark_window_display_accurate
  <2>1. buf' = [buf EXCEPT !.unchanged_modified = buf.modiff,
                           !.beg_unchanged = buf.gpt.c - BEG,
                           !.end_unchanged = buf.z.c - buf.gpt.c]
    BY <1>4 DEF mark_window_display_accurate
  <2>2. /\ DOMAIN buf' = Fields /\ SameText(t, buf') /\ SamePlaces(t, buf')
        /\ buf'.modiff = t.modiff /\ buf'.save_modiff = t.save_modiff
        /\ buf'.unchanged_modified = t.modiff /\ buf'.undo_list = t.undo_list
    BY <1>1, <2>1 DEF Fields, SameText, SamePlaces
  <2>. QED BY <1>1, <2>2, StillGood
<1>5. CASE \E start \in Position : find_newline(start)
  <2>1. \E c : buf' = [buf EXCEPT !.newline_cache = c]
    BY <1>5 DEF find_newline
  <2>2. /\ DOMAIN buf' = Fields /\ SameText(t, buf') /\ SamePlaces(t, buf')
        /\ buf'.modiff = t.modiff /\ buf'.save_modiff = t.save_modiff
        /\ buf'.unchanged_modified = t.unchanged_modified /\ buf'.undo_list = t.undo_list
    BY <1>1, <2>1 DEF Fields, SameText, SamePlaces
  <2>. QED BY <1>1, <2>2, StillGood
<1>. QED BY <1>2, <1>3, <1>4, <1>5

-------------------------------------------------------------------------------
(* The invariant                                                             *)

LEMMA InitGood == Init => IInv
<1>. SUFFICES ASSUME Init PROVE IInv
  OBVIOUS
<1>. DEFINE C   == setup.chars
            len == Len(setup.chars)
            all == [before |-> setup.chars, after |-> <<>>]
<1>1. /\ setup \in Setups /\ C \in Seq(Char) /\ len \in Nat
      /\ setup.looks \in {"markers", "undo", "cache", "display"}
  BY GapBufferAssumption, LenProperties DEF Init
<1>2. PICK g \in 1 .. len + 1, p \in 1 .. len + 1 :
        buf = [before |-> SubSeq(setup.chars, 1, g - 1),
               after  |-> SubSeq(setup.chars, g, len),
               gpt |-> Both(all, g), z |-> Both(all, len + 1), pt |-> Both(all, p),
               markers |-> [m \in Marker |-> Both(all, BEG)],
               modiff |-> 1, save_modiff |-> 1, unchanged_modified |-> 1,
               beg_unchanged |-> g - BEG, end_unchanged |-> len + 1 - g,
               undo_list |-> IF setup.looks \in {"markers", "undo"} THEN <<>> ELSE Qt,
               newline_cache |-> IF setup.looks = "cache" THEN new_region_cache ELSE Nil]
  BY DEF Init
<1>3. Chars(all) = C
  <2>1. all.before = C /\ all.after = <<>>
    OBVIOUS
  <2>. HIDE DEF all, C
  <2>. QED BY <1>1, <2>1, ConcatEmptySeq DEF Chars
<1>4. \A c \in 1 .. len + 1 : Place(C, Both(all, c)) /\ Both(all, c).c = c
  BY <1>1, <1>3, PlaceIsBoth DEF Places
<1>. HIDE DEF all
<1>5. /\ DOMAIN buf = Fields
      /\ buf.before = SubSeq(C, 1, g - 1) /\ buf.after = SubSeq(C, g, len)
      /\ buf.gpt = Both(all, g) /\ buf.z = Both(all, len + 1) /\ buf.pt = Both(all, p)
      /\ buf.markers = [m \in Marker |-> Both(all, BEG)]
      /\ buf.modiff = 1 /\ buf.save_modiff = 1 /\ buf.unchanged_modified = 1
      /\ (buf.undo_list = <<>> \/ buf.undo_list = Qt)
  BY <1>2 DEF Fields
<1>6. /\ buf.before \in Seq(Char) /\ buf.after \in Seq(Char) /\ buf.before \o buf.after = C
      /\ g = Len(buf.before) + 1
  <2>1. /\ SubSeq(C, 1, g - BEG) \o SubSeq(C, g, Len(C)) = C
        /\ SubSeq(C, 1, g - BEG) \in Seq(Char) /\ Len(SubSeq(C, 1, g - BEG)) + 1 = g
        /\ SubSeq(C, g, Len(C)) \in Seq(Char)
    <3>. g \in Places(C)
      BY DEF Places
    <3>. HIDE DEF C
    <3>. QED BY <1>1, TwoParts
  <2>. QED BY <1>5, <2>1, Zenon DEF BEG
<1>7. Chars(buf) = C
  BY <1>6, Zenon DEF Chars
<1>8. UndoOK(buf.undo_list)
  <2>1. <<>> \in Seq(Record)
    BY EmptySeq
  <2>. QED BY <1>5, <2>1 DEF UndoOK
<1>9. Shaped(buf)
  BY <1>5, <1>6, <1>8 DEF Shaped
<1>10. 1 \in 1 .. len + 1 /\ len + 1 \in 1 .. len + 1
  BY <1>1
<1>. HIDE DEF C, len
<1>11. GapPlaced(buf)
  BY <1>4, <1>5, <1>6, <1>7, <1>10 DEF GapPlaced, C, len
<1>12. \A m \in Marker : buf.markers[m] = Both(all, BEG) /\ Both(all, BEG) \in Pos
                         /\ Place(C, Both(all, BEG))
  BY <1>4, <1>5, <1>10 DEF BEG, Place
<1>13. buf.markers \in [Marker -> Pos]
  BY <1>5, <1>12
<1>14. Good(buf)
  BY <1>4, <1>5, <1>7, <1>9, <1>11, <1>12, <1>13 DEF Good
<1>15. /\ point_before \in Nat /\ hooked \in BOOLEAN /\ ahead \in BOOLEAN /\ pending = Nil
  BY DEF Init, BEG
<1>. QED BY <1>1, <1>14, <1>15 DEF IInv, PendingOK

LEMMA StillInvariant ==
  ASSUME IInv, Good(buf'), setup' = setup, point_before' \in Nat, hooked' \in BOOLEAN,
         ahead' \in BOOLEAN, pending' = Nil
  PROVE  IInv'
  BY DEF IInv, PendingOK

LEMMA StepGood == IInv /\ [Next]_vars => IInv'
<1>. SUFFICES ASSUME IInv, [Next]_vars PROVE IInv'
  OBVIOUS
<1>0. /\ Good(buf) /\ setup \in Setups /\ point_before \in Nat /\ hooked \in BOOLEAN
      /\ ahead \in BOOLEAN /\ PendingOK
  BY DEF IInv
<1>. DEFINE Rest == setup' = setup /\ point_before' = point_before /\ hooked' = hooked
                    /\ ahead' = ahead
<1>1. ASSUME pending = Nil, NEW chars \in setup.pieces, NEW before_markers \in BOOLEAN,
             Insert(chars, before_markers)
      PROVE  IInv'
  <2>1. Good(buf')
    BY <1>1, DoesInsert DEF InsertedAt
  <2>2. Rest /\ pending' = Nil
    BY <1>1 DEF Insert, Edit, history
  <2>. QED BY <1>0, <2>1, <2>2, StillInvariant
<1>2. ASSUME pending = Nil, NEW chars \in setup.pieces, InsertFromGap(chars)
      PROVE  IInv'
  <2>1. Good(buf')
    BY <1>2, DoesInsertFromGap DEF InsertedAt
  <2>2. Rest /\ pending' = Nil
    BY <1>2 DEF InsertFromGap, Edit, history
  <2>. QED BY <1>0, <2>1, <2>2, StillInvariant
<1>3. ASSUME pending = Nil, NEW from \in Position, NEW to \in Position, del_range(from, to)
      PROVE  IInv'
  <2>1. Good(buf')
    BY <1>3, DoesDelete DEF DeletedFrom
  <2>2. Rest /\ pending' = Nil
    BY <1>3 DEF del_range, Edit, history
  <2>. QED BY <1>0, <2>1, <2>2, StillInvariant
<1>4. ASSUME NEW from \in Position, NEW to \in Position, NEW pos \in Position,
             NEW chars \in setup.pieces, prepare_to_modify_buffer(from, to, pos, chars)
      PROVE  IInv'
  <2>1. /\ Good(buf') /\ Chars(buf') = Splice(Chars(buf), pos, pos, chars)
    BY <1>4, DoesPrepare DEF InsertedAt
  <2>2. /\ setup' = setup /\ point_before' = point_before /\ hooked' \in BOOLEAN /\ ahead' = ahead
        /\ from < to
        /\ pending' = [start |-> from, end |-> to,
                       from |-> IF from > pos THEN from + Len(chars) ELSE from]
    BY <1>0, <1>4 DEF prepare_to_modify_buffer
  <2>3. /\ from \in Nat /\ from >= 1 /\ to \in Nat /\ pos \in Nat
        /\ pos \in Places(Chars(buf)) /\ chars \in Seq(Char) /\ Len(chars) \in Nat
        /\ Chars(buf) \in Seq(Char) /\ Len(Chars(buf)) \in Nat
        /\ buf.z.c = Len(Chars(buf)) + 1 /\ to <= buf.z.c
    <3>1. Chars(buf) \in Seq(Char) /\ Len(Chars(buf)) \in Nat /\ buf.z.c = Len(Chars(buf)) + 1
      BY <1>0, GoodParts DEF GapPlaced
    <3>2. from \in Nat /\ from >= 1 /\ to \in Nat /\ pos \in Nat /\ pos \in Places(Chars(buf))
      BY PositionPlace
    <3>3. to <= buf.z.c
      BY <3>1 DEF Position, BEG
    <3>. QED BY <3>1, <3>2, <3>3, PiecesAreTexts
  <2>4. buf'.z.c = buf.z.c + Len(chars)
    <3>1. buf'.z.c = Len(Chars(buf')) + 1
      BY <2>1 DEF Good, GapPlaced
    <3>2. Len(Splice(Chars(buf), pos, pos, chars)) = Len(Chars(buf)) + Len(chars) - (pos - pos)
      <4>. pos <= pos
        BY <2>3
      <4>. QED BY <2>3, SpliceType
    <3>3. \A l, n, x \in Nat : (l + n - (x - x)) + 1 = (l + 1) + n
      OBVIOUS
    <3>4. (Len(Chars(buf)) + Len(chars) - (pos - pos)) + 1 = (Len(Chars(buf)) + 1) + Len(chars)
      BY <2>3, <3>3
    <3>5. buf'.z.c = (Len(Chars(buf)) + Len(chars) - (pos - pos)) + 1
      BY <2>1, <3>1, <3>2, Zenon
    <3>. QED BY <2>3, <3>4, <3>5, Zenon
  <2>5. PendingOK'
    <3>. DEFINE n == Len(chars)
                z == buf.z.c
    <3>1. n \in Nat /\ z \in Nat
      BY <2>3
    <3>2. buf'.z.c = z + n /\ pending' = [start |-> from, end |-> to,
                                          from |-> IF from > pos THEN from + n ELSE from]
      BY <2>2, <2>4
    <3>3. to <= z
      BY <2>3
    <3>. HIDE DEF n, z
    <3>4. /\ pending'.start = from /\ pending'.end = to
          /\ pending'.from = IF from > pos THEN from + n ELSE from
      BY <3>2
    <3>5. pending'.from \in BEG .. z + n /\ pending'.from < z + n
      BY <2>2, <2>3, <3>1, <3>3, <3>4 DEF BEG
    <3>. QED BY <2>2, <2>3, <3>2, <3>4, <3>5 DEF PendingOK, Position
  <2>. QED BY <1>0, <2>1, <2>2, <2>5 DEF IInv
<1>5. ASSUME pending = Nil, NEW from \in Position, NEW to \in Position, NEW chars \in setup.pieces,
             Replace(from, to, chars)
      PROVE  IInv'
  <2>1. Good(buf')
    BY <1>5, DoesReplace DEF ReplacedBy
  <2>2. Rest /\ pending' = Nil
    BY <1>5 DEF Replace, Edit, history
  <2>. QED BY <1>0, <2>1, <2>2, StillInvariant
<1>6. ASSUME pending = Nil, NEW from \in Position, NEW to \in Position, Casify(from, to)
      PROVE  IInv'
  <2>1. Good(buf')
    BY <1>6, DoesCasify DEF Recased
  <2>2. /\ setup' = setup /\ point_before' = point_before /\ hooked' = hooked
        /\ ahead' \in BOOLEAN /\ pending' = Nil
    BY <1>6 DEF Casify, HeadPastGap
  <2>. QED BY <1>0, <2>1, <2>2, StillInvariant
<1>7. ASSUME pending = Nil, NEW stop \in Position, QuitInGapMotion(stop)
      PROVE  IInv'
  <2>1. Good(buf')
    BY <1>7, DoesQuitInGapMotion DEF Kept
  <2>2. /\ setup' = setup /\ point_before' = point_before /\ hooked' = hooked
        /\ ahead' \in BOOLEAN /\ pending' = Nil
    BY <1>7 DEF QuitInGapMotion, HeadPastGap
  <2>. QED BY <1>0, <2>1, <2>2, StillInvariant
<1>8. ASSUME pending = Nil, NEW pos \in Position, goto_char(pos)
      PROVE  IInv'
  <2>1. Good(buf')
    BY <1>8, DoesGoto
  <2>2. Rest /\ pending' = Nil
    BY <1>8 DEF goto_char, history
  <2>. QED BY <1>0, <2>1, <2>2, StillInvariant
<1>9. ASSUME pending = Nil, NEW m \in Marker, NEW pos \in Position, set_marker(m, pos)
      PROVE  IInv'
  <2>1. Good(buf')
    BY <1>9, DoesSetMarker
  <2>2. Rest /\ pending' = Nil
    BY <1>9 DEF set_marker, history
  <2>. QED BY <1>0, <2>1, <2>2, StillInvariant
<1>10. ASSUME pending = Nil, set_buffer_unmodified
       PROVE  IInv'
  <2>1. Good(buf')
    BY <1>10, DoesNothing DEF Kept
  <2>2. Rest /\ pending' = Nil
    BY <1>10 DEF set_buffer_unmodified, history
  <2>. QED BY <1>0, <2>1, <2>2, StillInvariant
<1>11. ASSUME pending = Nil, undo_boundary
       PROVE  IInv'
  <2>1. Good(buf')
    BY <1>11, DoesNothing DEF Kept
  <2>2. /\ setup' = setup /\ point_before' = buf.pt.c /\ hooked' = hooked /\ ahead' = ahead
        /\ pending' = Nil
    BY <1>11 DEF undo_boundary, history
  <2>3. buf.pt.c \in Nat
    BY <1>0, GoodParts
  <2>. QED BY <1>0, <2>1, <2>2, <2>3, StillInvariant
<1>12. ASSUME pending = Nil, NEW start \in Position, find_newline(start)
       PROVE  IInv'
  <2>1. Good(buf')
    BY <1>12, DoesNothing DEF Kept
  <2>2. Rest /\ pending' = Nil
    BY <1>12 DEF find_newline, history
  <2>. QED BY <1>0, <2>1, <2>2, StillInvariant
<1>13. ASSUME pending = Nil, mark_window_display_accurate
       PROVE  IInv'
  <2>1. Good(buf')
    BY <1>13, DoesNothing DEF Kept
  <2>2. /\ setup' = setup /\ point_before' = point_before /\ hooked' = hooked /\ ahead' = FALSE
        /\ pending' = Nil
    BY <1>13 DEF mark_window_display_accurate
  <2>. QED BY <1>0, <2>1, <2>2, StillInvariant
<1>14. ASSUME del_range_1
       PROVE  IInv'
  <2>1. Good(buf')
    BY <1>14, DoesDeleteAfterHook DEF DeletedFrom
  <2>2. Rest /\ pending' = Nil
    BY <1>14 DEF del_range_1, history
  <2>. QED BY <1>0, <2>1, <2>2, StillInvariant
<1>15. ASSUME UNCHANGED vars
       PROVE  IInv'
  BY <1>15 DEF vars, IInv, PendingOK, Position
<1>. QED BY <1>1, <1>2, <1>3, <1>4, <1>5, <1>6, <1>7, <1>8, <1>9, <1>10, <1>11, <1>12, <1>13,
            <1>14, <1>15 DEF Next, Command

LEMMA AlwaysGood == Spec => []IInv
<1>. QED BY InitGood, StepGood, PTL DEF Spec

LEMMA GoodAgrees == IInv => PositionsAgree
<1>. SUFFICES ASSUME IInv PROVE PositionsAgree
  OBVIOUS
<1>1. /\ Shaped(buf) /\ GapPlaced(buf) /\ Chars(buf) \in Seq(Char) /\ Len(Chars(buf)) \in Nat
      /\ Place(Chars(buf), buf.pt) /\ Place(Chars(buf), buf.gpt) /\ Place(Chars(buf), buf.z)
      /\ buf.markers \in [Marker -> Pos] /\ \A m \in Marker : Place(Chars(buf), buf.markers[m])
  BY GoodParts DEF IInv, GapPlaced
<1>2. TypeOK
  <2>1. {buf.gpt, buf.z, buf.pt} \subseteq Pos
    BY <1>1 DEF Place
  <2>2. buf.undo_list = Qt \/ buf.undo_list \in Seq(Record)
    BY <1>1 DEF Shaped, UndoOK
  <2>. QED BY <1>1, <2>1, <2>2 DEF IInv, TypeOK, Shaped
<1>3. buf.gpt = Both(buf, Len(buf.before) + 1) /\ buf.z = Both(buf, Len(Chars(buf)) + 1)
  BY <1>1, PlaceIsBoth DEF GapPlaced
<1>4. ASSUME NEW p, Place(Chars(buf), p)
      PROVE  p.c \in Position /\ p = Both(buf, p.c)
  <2>1. p = Both(buf, p.c)
    BY <1>1, <1>4, PlaceIsBoth
  <2>2. p.c \in Position
    BY <1>1, <1>4, PlaceType DEF Position, GapPlaced, BEG
  <2>. QED BY <2>1, <2>2
<1>. QED BY <1>1, <1>2, <1>3, <1>4 DEF PositionsAgree

(* In every reachable state the character and the byte part of the gap, the  *)
(* end, point and every marker name one place in the text, at the start of a *)
(* character, whatever edits insdel.c and casefiddle.c have made, with       *)
(* characters of any number of bytes.                                        *)
THEOREM PositionsAlwaysAgree == Spec => []PositionsAgree
<1>. QED BY AlwaysGood, GoodAgrees, PTL

-------------------------------------------------------------------------------
(* The text as its users see it (TextBuffer)                                 *)

(* What an edit has put in is found where it was put. *)
LEMMA FoundAgain ==
  ASSUME NEW chars \in Seq(Char), NEW from \in Places(chars), NEW to \in Places(chars),
         from <= to, NEW new \in Seq(Char)
  PROVE  LET after == Splice(chars, from, to, new) IN
         SubSeq(after, from, to - 1 + Len(after) - Len(chars)) = new
<1>. DEFINE front == SubSeq(chars, 1, from - 1)
            back  == SubSeq(chars, to, Len(chars))
            x     == front \o new
            after == x \o back
            last  == to - 1 + Len(after) - Len(chars)
<1>1. /\ after \in Seq(Char) /\ Len(after) = Len(chars) + Len(new) - (to - from)
      /\ Len(chars) \in Nat /\ Len(new) \in Nat
      /\ front \in Seq(Char) /\ Len(front) = from - 1 /\ back \in Seq(Char)
  BY SpliceType DEF Splice
<1>2. from \in Nat /\ from >= 1 /\ to \in Nat
  BY <1>1 DEF Places
<1>. HIDE DEF front, back
<1>3. x \in Seq(Char) /\ Len(x) = Len(front) + Len(new)
  BY <1>1, ConcatProperties
<1>4. SubSeq(x, Len(front) + 1, Len(x)) = new
  BY <1>1, EndsOfJoin
<1>. HIDE DEF x
<1>5. last = Len(x)
  <2>1. \A l, n, f, t \in Nat : t - 1 + (l + n - (t - f)) - l = (f - 1) + n
    OBVIOUS
  <2>. HIDE DEF after
  <2>2. last = to - 1 + (Len(chars) + Len(new) - (to - from)) - Len(chars)
    BY <1>1
  <2>. HIDE DEF last
  <2>3. last = (from - 1) + Len(new)
    <3>. Len(chars) \in Nat /\ Len(new) \in Nat
      BY <1>1
    <3>1. to - 1 + (Len(chars) + Len(new) - (to - from)) - Len(chars) = (from - 1) + Len(new)
      BY <1>2, <2>1
    <3>. QED BY <2>2, <3>1, Zenon
  <2>. QED BY <1>1, <1>3, <2>3
<1>. HIDE DEF last
<1>6. from = Len(front) + 1
  BY <1>1, <1>2
<1>7. CASE Len(new) = 0
  <2>1. new = <<>>
    BY <1>1, <1>7, EmptySeq
  <2>2. last \in Int /\ from \in Int /\ last < from
    BY <1>1, <1>2, <1>3, <1>5, <1>6, <1>7
  <2>3. SubSeq(after, from, last) = <<>>
    <3>. HIDE DEF after
    <3>. QED BY <2>2, SubSeqEmpty
  <2>. QED BY <2>1, <2>3 DEF Splice, front, back, x, last
<1>8. CASE Len(new) # 0
  <2>1. from \in 1 .. Len(x) /\ last \in 1 .. Len(x)
    <3>1. \A f, n \in Nat : n # 0 => f + 1 \in 1 .. f + n /\ f + n \in 1 .. f + n
      OBVIOUS
    <3>2. Len(front) \in Nat /\ Len(new) \in Nat
      BY <1>1, LenProperties
    <3>3. Len(front) + 1 \in 1 .. Len(front) + Len(new)
          /\ Len(front) + Len(new) \in 1 .. Len(front) + Len(new)
      BY <1>8, <3>1, <3>2, Zenon
    <3>. QED BY <1>3, <1>5, <1>6, <3>3, Zenon
  <2>2. SubSeq(after, from, last) = SubSeq(x, from, last)
    BY <1>1, <1>3, <2>1, SubSeqOfConcat1
  <2>3. SubSeq(after, from, last) = new
    BY <1>4, <1>5, <1>6, <2>2
  <2>. QED BY <2>3 DEF Splice, front, back, x, last
<1>. QED BY <1>7, <1>8

LEMMA EditsText ==
  ASSUME IInv, NEW from, NEW to, from \in Places(Chars(buf)), to \in Places(Chars(buf)),
         from <= to, NEW new \in Seq(Char), Chars(buf') = Splice(Chars(buf), from, to, new)
  PROVE  /\ Chars(buf)' \in Seq(Char) /\ from \in Text!Position /\ to \in Text!Position
         /\ Text!Became(from, to) = new
         /\ Chars(buf)' = Text!Spliced(from, to, new)
<1>1. Chars(buf) \in Seq(Char)
  BY GoodParts DEF IInv
<1>2. Chars(buf)' = Splice(Chars(buf), from, to, new)
  BY DEF Chars
<1>3. Chars(buf)' \in Seq(Char)
  BY <1>1, <1>2, SpliceType
<1>4. Text!Became(from, to) = new
  <2>1. SubSeq(Splice(Chars(buf), from, to, new), from,
               to - 1 + Len(Splice(Chars(buf), from, to, new)) - Len(Chars(buf))) = new
    BY <1>1, FoundAgain
  <2>. QED BY <1>2, <2>1, Zenon DEF Text!Became
<1>. QED BY <1>2, <1>3, <1>4 DEF Text!Position, Places, Text!Spliced, Splice

LEMMA PositionsOf ==
  /\ \A m \in Marker : CharPositions(buf)[m] = buf.markers[m].c
  /\ CharPositions(buf)' = [m \in Marker |-> buf'.markers[m].c]
  BY DEF CharPositions

LEMMA TextInserts ==
  ASSUME IInv, NEW at, at \in Places(Chars(buf)), NEW new \in Seq(Char), NEW moves \in BOOLEAN,
         NEW goes, goes \in {InsertionType, Marker},
         InsertedAt(buf, buf', at, new, moves, goes)
  PROVE  Text!Next
<1>1. at <= at
  <2>1. Len(Chars(buf)) \in Nat
    BY GoodParts DEF IInv
  <2>. QED BY <2>1 DEF Places
<1>2. /\ Chars(buf)' \in Seq(Char) /\ at \in Text!Position
      /\ Text!Became(at, at) = new /\ Chars(buf)' = Text!Spliced(at, at, new)
  BY <1>1, EditsText DEF InsertedAt
<1>3. buf'.pt.c = IF buf.pt.c > at \/ (buf.pt.c = at /\ moves) THEN buf.pt.c + Len(new) ELSE buf.pt.c
  BY DEF InsertedAt
<1>4. CharPositions(buf)' =
        [m \in Marker |->
           IF CharPositions(buf)[m] > at \/ (CharPositions(buf)[m] = at /\ m \in goes)
           THEN CharPositions(buf)[m] + Len(new) ELSE CharPositions(buf)[m]]
  <2>1. \A m \in Marker :
          buf'.markers[m].c = IF buf.markers[m].c > at \/ (buf.markers[m].c = at /\ m \in goes)
                              THEN buf.markers[m].c + Len(new) ELSE buf.markers[m].c
    BY DEF InsertedAt
  <2>. QED BY <2>1, PositionsOf
<1>5. Text!Insert(at, new, moves, goes)
  BY <1>2, <1>3, <1>4 DEF Text!Insert
<1>6. Text!Edit(at, at, Text!Became(at, at))
  BY <1>2, <1>5 DEF Text!Edit
<1>. QED BY <1>2, <1>6 DEF Text!Next

LEMMA TextDeletes ==
  ASSUME IInv, NEW from, NEW to, from \in Places(Chars(buf)), to \in Places(Chars(buf)),
         from < to, DeletedFrom(buf, buf', from, to)
  PROVE  Text!Next
<1>0. <<>> \in Seq(Char) /\ from <= to
  <2>1. Len(Chars(buf)) \in Nat
    BY GoodParts DEF IInv
  <2>2. from <= to
    BY <2>1 DEF Places
  <2>. QED BY <2>2, EmptySeq
<1>1. /\ Chars(buf)' \in Seq(Char) /\ from \in Text!Position /\ to \in Text!Position
      /\ Text!Became(from, to) = <<>> /\ Chars(buf)' = Text!Spliced(from, to, <<>>)
  BY <1>0, EditsText DEF DeletedFrom
<1>2. buf'.pt.c = Text!AfterDelete(buf.pt.c, from, to)
  BY DEF DeletedFrom, Text!AfterDelete
<1>3. CharPositions(buf)' = [m \in Marker |-> Text!AfterDelete(CharPositions(buf)[m], from, to)]
  <2>1. \A m \in Marker : buf'.markers[m].c = Text!AfterDelete(buf.markers[m].c, from, to)
    BY DEF DeletedFrom, Text!AfterDelete
  <2>. QED BY <2>1, PositionsOf
<1>4. Text!Delete(from, to)
  BY <1>1, <1>2, <1>3 DEF Text!Delete
<1>5. Text!Edit(from, to, Text!Became(from, to))
  BY <1>4 DEF Text!Edit
<1>. QED BY <1>1, <1>5 DEF Text!Next

LEMMA TextReplaces ==
  ASSUME IInv, NEW from, NEW to, from \in Places(Chars(buf)), to \in Places(Chars(buf)),
         from < to, NEW new \in Seq(Char), ReplacedBy(buf, buf', from, to, new)
  PROVE  Text!Next
<1>0. from <= to
  <2>1. Len(Chars(buf)) \in Nat
    BY GoodParts DEF IInv
  <2>. QED BY <2>1 DEF Places
<1>1. /\ Chars(buf)' \in Seq(Char) /\ from \in Text!Position /\ to \in Text!Position
      /\ Text!Became(from, to) = new /\ Chars(buf)' = Text!Spliced(from, to, new)
  BY <1>0, EditsText DEF ReplacedBy
<1>2. buf'.pt.c = IF buf.pt.c >= to THEN buf.pt.c + Len(new) - (to - from)
                  ELSE IF buf.pt.c > from THEN from + Len(new) ELSE buf.pt.c
  BY DEF ReplacedBy
<1>3. CharPositions(buf)' =
        [m \in Marker |->
           IF CharPositions(buf)[m] >= to THEN CharPositions(buf)[m] + Len(new) - (to - from)
           ELSE IF CharPositions(buf)[m] > from THEN from ELSE CharPositions(buf)[m]]
  <2>1. \A m \in Marker :
          buf'.markers[m].c = IF buf.markers[m].c >= to THEN buf.markers[m].c + Len(new) - (to - from)
                              ELSE IF buf.markers[m].c > from THEN from ELSE buf.markers[m].c
    BY DEF ReplacedBy
  <2>. QED BY <2>1, PositionsOf
<1>4. Text!Replace(from, to, new)
  BY <1>1, <1>2, <1>3 DEF Text!Replace
<1>5. Text!Edit(from, to, Text!Became(from, to))
  BY <1>1, <1>4 DEF Text!Edit
<1>. QED BY <1>1, <1>5 DEF Text!Next

LEMMA TextRecases ==
  ASSUME IInv, NEW from, NEW to, from \in Places(Chars(buf)), to \in Places(Chars(buf)),
         from < to, NEW new \in Seq(Char), Recased(buf, buf', from, to, new)
  PROVE  Text!Next
<1>0. from <= to
  <2>1. Len(Chars(buf)) \in Nat
    BY GoodParts DEF IInv
  <2>. QED BY <2>1 DEF Places
<1>1. /\ Chars(buf)' \in Seq(Char) /\ from \in Text!Position /\ to \in Text!Position
      /\ Text!Became(from, to) = new /\ Chars(buf)' = Text!Spliced(from, to, new)
  BY <1>0, EditsText DEF Recased
<1>2. /\ Len(new) >= to - from
      /\ buf'.pt.c \in buf.pt.c .. buf.pt.c + (Len(new) - (to - from))
  BY DEF Recased
<1>3. buf'.pt.c \in buf.pt.c .. buf.pt.c + Len(new) - (to - from)
  <2>1. \A p, n, x \in Int : p + (n - x) = p + n - x
    OBVIOUS
  <2>2. buf.pt.c \in Int /\ Len(new) \in Int /\ to - from \in Int
    <3>1. Len(Chars(buf)) \in Nat /\ buf.pt.c \in Nat /\ Len(new) \in Nat
      BY GoodParts, LenProperties DEF IInv
    <3>. QED BY <3>1 DEF Places
  <2>3. buf.pt.c + (Len(new) - (to - from)) = buf.pt.c + Len(new) - (to - from)
    BY <2>1, <2>2, Zenon
  <2>. QED BY <1>2, <2>3, Zenon
<1>4. CharPositions(buf)' = CharPositions(buf)
  <2>1. \A m \in Marker : buf'.markers[m].c = buf.markers[m].c
    BY DEF Recased
  <2>. QED BY <2>1 DEF CharPositions
<1>5. Text!Recase(from, to, new)
  BY <1>1, <1>2, <1>3, <1>4 DEF Text!Recase
<1>6. Text!Edit(from, to, Text!Became(from, to))
  BY <1>1, <1>5 DEF Text!Edit
<1>. QED BY <1>1, <1>6 DEF Text!Next

LEMMA KeptIsStutter ==
  ASSUME Kept(buf, buf')
  PROVE  UNCHANGED Text!vars
<1>1. Chars(buf)' = Chars(buf) /\ CharPositions(buf)' = CharPositions(buf) /\ buf'.pt.c = buf.pt.c
  BY DEF Kept, Chars, CharPositions
<1>. QED BY <1>1 DEF Text!vars

LEMMA TextInit == Init => Text!Init
<1>. SUFFICES ASSUME Init PROVE Text!Init
  OBVIOUS
<1>1. Good(buf)
  BY InitGood DEF IInv
<1>2. /\ Chars(buf) \in Seq(Char) /\ Place(Chars(buf), buf.pt)
      /\ \A m \in Marker : Place(Chars(buf), buf.markers[m])
  BY <1>1, GoodParts
<1>3. buf.pt.c \in Text!Position /\ \A m \in Marker : buf.markers[m].c \in Text!Position
  BY <1>2, PlaceType DEF Text!Position, Places
<1>4. CharPositions(buf) \in [Marker -> Text!Position]
  BY <1>3 DEF CharPositions
<1>. QED BY <1>2, <1>3, <1>4 DEF Text!Init

LEMMA TextStep == IInv /\ [Next]_vars => [Text!Next]_(Text!vars)
<1>. SUFFICES ASSUME IInv, [Next]_vars PROVE Text!Next \/ UNCHANGED Text!vars
  OBVIOUS
<1>0. Chars(buf) \in Seq(Char) /\ buf.pt.c \in Places(Chars(buf)) /\ Good(buf)
  BY GoodParts, PlaceType DEF IInv
<1>1. ASSUME NEW chars \in setup.pieces, NEW before_markers \in BOOLEAN,
             Insert(chars, before_markers)
      PROVE  Text!Next
  <2>1. InsertedAt(buf, buf', buf.pt.c, chars, TRUE, Goes(before_markers))
    BY <1>1, DoesInsert
  <2>2. Goes(before_markers) \in {InsertionType, Marker} /\ chars \in Seq(Char) /\ TRUE \in BOOLEAN
    BY PiecesAreTexts DEF Goes
  <2>. QED BY <1>0, <2>1, <2>2, TextInserts
<1>2. ASSUME NEW chars \in setup.pieces, InsertFromGap(chars)
      PROVE  Text!Next
  <2>1. InsertedAt(buf, buf', buf.pt.c, chars, FALSE, Marker)
    BY <1>2, DoesInsertFromGap
  <2>2. Marker \in {InsertionType, Marker} /\ chars \in Seq(Char) /\ FALSE \in BOOLEAN
    BY PiecesAreTexts
  <2>. QED BY <1>0, <2>1, <2>2, TextInserts
<1>3. ASSUME NEW from \in Position, NEW to \in Position, del_range(from, to)
      PROVE  Text!Next
  <2>1. from < to /\ DeletedFrom(buf, buf', from, to)
    BY <1>3, DoesDelete
  <2>. QED BY <2>1, PositionPlace, TextDeletes
<1>4. ASSUME NEW from \in Position, NEW to \in Position, NEW pos \in Position,
             NEW chars \in setup.pieces, prepare_to_modify_buffer(from, to, pos, chars)
      PROVE  Text!Next
  <2>1. InsertedAt(buf, buf', pos, chars, FALSE, InsertionType)
    BY <1>4, DoesPrepare
  <2>2. /\ InsertionType \in {InsertionType, Marker} /\ chars \in Seq(Char) /\ FALSE \in BOOLEAN
        /\ pos \in Places(Chars(buf))
    BY PiecesAreTexts, PositionPlace
  <2>. QED BY <2>1, <2>2, TextInserts
<1>5. ASSUME NEW from \in Position, NEW to \in Position, NEW chars \in setup.pieces,
             Replace(from, to, chars)
      PROVE  Text!Next
  <2>1. from < to /\ ReplacedBy(buf, buf', from, to, chars)
    BY <1>5, DoesReplace
  <2>2. chars \in Seq(Char) /\ from \in Places(Chars(buf)) /\ to \in Places(Chars(buf))
    BY PiecesAreTexts, PositionPlace
  <2>. QED BY <2>1, <2>2, TextReplaces
<1>6. ASSUME NEW from \in Position, NEW to \in Position, Casify(from, to)
      PROVE  Text!Next
  <2>1. from < to /\ \E new \in Seq(Char) : Recased(buf, buf', from, to, new)
    BY <1>6, DoesCasify
  <2>2. from \in Places(Chars(buf)) /\ to \in Places(Chars(buf))
    BY PositionPlace
  <2>. QED BY <2>1, <2>2, TextRecases
<1>7. ASSUME NEW stop \in Position, QuitInGapMotion(stop)
      PROVE  UNCHANGED Text!vars
  BY <1>7, DoesQuitInGapMotion, KeptIsStutter
<1>8. ASSUME NEW pos \in Position, goto_char(pos)
      PROVE  Text!Next
  <2>1. /\ Chars(buf') = Chars(buf) /\ buf'.pt.c = pos /\ buf'.markers = buf.markers
        /\ pos \in Places(Chars(buf))
    BY <1>8, DoesGoto, PositionPlace
  <2>2. Chars(buf)' = Chars(buf) /\ CharPositions(buf)' = CharPositions(buf)
    BY <2>1 DEF Chars, CharPositions
  <2>3. Text!Goto(pos)
    BY <2>1, <2>2 DEF Text!Goto
  <2>. QED BY <1>0, <2>1, <2>2, <2>3 DEF Text!Next, Text!Position, Places
<1>9. ASSUME NEW m \in Marker, NEW pos \in Position, set_marker(m, pos)
      PROVE  Text!Next
  <2>1. /\ Chars(buf') = Chars(buf) /\ buf'.pt = buf.pt
        /\ buf'.markers = [buf.markers EXCEPT ![m] = Both(buf, pos)] /\ Both(buf, pos).c = pos
        /\ pos \in Places(Chars(buf)) /\ buf.markers \in [Marker -> Pos]
    BY <1>0, <1>9, DoesSetMarker, PositionPlace, GoodParts
  <2>2. Chars(buf)' = Chars(buf)
    BY <2>1 DEF Chars
  <2>3. CharPositions(buf)' = [CharPositions(buf) EXCEPT ![m] = pos]
    BY <2>1 DEF CharPositions
  <2>4. Text!SetMarker(m, pos)
    BY <2>1, <2>2, <2>3 DEF Text!SetMarker
  <2>. QED BY <1>0, <2>1, <2>2, <2>4 DEF Text!Next, Text!Position, Places
<1>10. ASSUME \/ set_buffer_unmodified \/ undo_boundary \/ mark_window_display_accurate
              \/ \E start \in Position : find_newline(start)
       PROVE  UNCHANGED Text!vars
  BY <1>10, DoesNothing, KeptIsStutter
<1>11. ASSUME del_range_1
       PROVE  Text!Next
  <2>. DEFINE to == Min({buf.z.c, pending.from + (pending.end - pending.start)})
  <2>1. /\ to \in Position /\ pending.from \in Position /\ pending.from < to
        /\ DeletedFrom(buf, buf', pending.from, to)
    BY <1>11, DoesDeleteAfterHook
  <2>. HIDE DEF to
  <2>. QED BY <2>1, PositionPlace, TextDeletes
<1>12. ASSUME UNCHANGED vars
       PROVE  UNCHANGED Text!vars
  BY <1>12 DEF vars, Text!vars, Chars, CharPositions
<1>. QED BY <1>1, <1>2, <1>3, <1>4, <1>5, <1>6, <1>7, <1>8, <1>9, <1>10, <1>11, <1>12
         DEF Next, Command

(* The gap, the two parts of each position and the bookkeeping do what the   *)
(* abstract text promises: every command of the model is one edit, one move  *)
(* of point or of a marker, or nothing, to those who see only the characters *)
(* and the character positions.                                              *)
THEOREM GapImplementsText == Spec => ImplementsText
<1>. QED BY AlwaysGood, TextInit, TextStep, PTL DEF Spec, ImplementsText, Text!Spec

-------------------------------------------------------------------------------
(* Undoing                                                                   *)

(* What undoing the record R makes of the characters C *)
CharsUndone(c, r) ==
  IF r.k = "insert" THEN SubSeq(c, 1, r.beg - 1) \o SubSeq(c, r.end, Len(c))
  ELSE IF r.k = "delete" THEN SubSeq(c, 1, r.pos - 1) \o r.chars \o SubSeq(c, r.pos, Len(c))
  ELSE c

IsSnapshot(s) == DOMAIN s = {"chars", "charpos", "PT"}

(* Only insertions and deletions touch the characters and the markers. *)
LEMMA OneUndone ==
  ASSUME NEW s, IsSnapshot(s), NEW list, NEW i
  PROVE  LET u == UndoRecord(s, list, i) IN
         /\ IsSnapshot(u) /\ u.chars = CharsUndone(s.chars, list[i])
         /\ list[i].k # "insert" /\ list[i].k # "delete" => u.charpos = s.charpos
<1>. DEFINE r == list[i]
            u == UndoRecord(s, list, i)
<1>1. CASE r.k = "insert"
  <2>1. u = TakeOut(s, r)
    BY <1>1 DEF UndoRecord
  <2>2. /\ DOMAIN TakeOut(s, r) = {"chars", "charpos", "PT"}
        /\ TakeOut(s, r).chars
           = SubSeq(s.chars, 1, r.beg - 1) \o SubSeq(s.chars, r.end, Len(s.chars))
    BY DEF TakeOut
  <2>. HIDE DEF u
  <2>3. IsSnapshot(u) /\ u.chars = CharsUndone(s.chars, r)
    BY <1>1, <2>1, <2>2 DEF CharsUndone, IsSnapshot
  <2>. QED BY <1>1, <2>3 DEF u
<1>2. CASE r.k = "delete"
  <2>1. \E f : u = [PutBack(s, r) EXCEPT !.charpos = f]
    BY <1>2 DEF UndoRecord
  <2>2. IsSnapshot(PutBack(s, r)) /\ PutBack(s, r).chars = CharsUndone(s.chars, r)
    BY <1>2 DEF PutBack, CharsUndone, IsSnapshot
  <2>. HIDE DEF u
  <2>3. IsSnapshot(u) /\ u.chars = PutBack(s, r).chars
    BY <2>1, <2>2 DEF IsSnapshot
  <2>. QED BY <1>2, <2>2, <2>3 DEF u
<1>3. CASE r.k = "point"
  <2>1. u = [s EXCEPT !.PT = r.pos]
    BY <1>3 DEF UndoRecord
  <2>. QED BY <1>3, <2>1 DEF CharsUndone, IsSnapshot
<1>4. CASE r.k \notin {"insert", "delete", "point"}
  <2>1. u = s
    BY <1>4 DEF UndoRecord
  <2>. QED BY <1>4, <2>1 DEF CharsUndone
<1>. QED BY <1>1, <1>2, <1>3, <1>4

(* The loop of primitive-undo *)
IsUndone(g, s, list) ==
  g = [i \in 0 .. Len(list) |-> IF i = 0 THEN s ELSE UndoRecord(g[i - 1], list, i)]

LEMMA UndoneExists ==
  ASSUME NEW s, NEW list, Len(list) \in Nat
  PROVE  \E g : IsUndone(g, s, list)
<1>. DEFINE One(x, i) == UndoRecord(x, list, i)
            To(g, k) == g = [i \in 0 .. k |-> IF i = 0 THEN s ELSE One(g[i - 1], i)]
            S == {k \in Nat : \E g : To(g, k)}
<1>. HIDE DEF One
<1>1. 0 \in S
  <2>1. To([i \in 0 .. 0 |-> s], 0)
    OBVIOUS
  <2>. QED BY <2>1
<1>2. ASSUME NEW k \in Nat, k \in S
      PROVE  k + 1 \in S
  <2>1. PICK g : To(g, k)
    BY <1>2
  <2>. DEFINE f == [i \in 0 .. k + 1 |-> IF i <= k THEN g[i] ELSE One(g[k], k + 1)]
  <2>2. /\ f = [i \in 0 .. k + 1 |-> f[i]]
        /\ \A i \in 0 .. k : f[i] = g[i]
        /\ f[k + 1] = One(g[k], k + 1)
    OBVIOUS
  <2>. HIDE DEF f
  <2>3. \A i \in 0 .. k : g[i] = IF i = 0 THEN s ELSE One(g[i - 1], i)
    BY <2>1, Zenon
  <2>4. \A i \in 0 .. k + 1 : f[i] = IF i = 0 THEN s ELSE One(f[i - 1], i)
    <3>. 0 \in 0 .. k /\ k \in 0 .. k
      OBVIOUS
    <3>1. f[0] = s
      BY <2>2, <2>3
    <3>2. ASSUME NEW i \in 1 .. k
          PROVE  f[i] = One(f[i - 1], i)
      <4>1. i \in 0 .. k /\ i - 1 \in 0 .. k /\ i # 0
        OBVIOUS
      <4>. QED BY <2>2, <2>3, <4>1
    <3>3. f[k + 1] = One(f[k], k + 1)
      BY <2>2
    <3>4. ASSUME NEW i \in 0 .. k + 1
          PROVE  f[i] = IF i = 0 THEN s ELSE One(f[i - 1], i)
      <4>1. \/ i = 0
            \/ i # 0 /\ i \in 1 .. k
            \/ i # 0 /\ i = k + 1 /\ i - 1 = k
        OBVIOUS
      <4>. QED BY <3>1, <3>2, <3>3, <4>1
    <3>. QED BY <3>4
  <2>5. To(f, k + 1)
    BY <2>2, <2>4
  <2>. QED BY <2>5
<1>. HIDE DEF S
<1>3. Len(list) \in S
  BY <1>1, <1>2, SetInduction
<1>. QED BY <1>3 DEF S, IsUndone, One

LEMMA UndoneValues ==
  ASSUME NEW s, NEW list, Len(list) \in Nat
  PROVE  \E g : /\ g[0] = s /\ primitive_undo(s, list) = g[Len(list)]
                /\ \A i \in 1 .. Len(list) : g[i] = UndoRecord(g[i - 1], list, i)
<1>. DEFINE One(x, i) == UndoRecord(x, list, i)
            g == CHOOSE f : IsUndone(f, s, list)
<1>1. primitive_undo(s, list) = g[Len(list)]
  BY DEF primitive_undo, IsUndone
<1>2. IsUndone(g, s, list)
  BY UndoneExists, Zenon
<1>. HIDE DEF g, One
<1>3. g = [i \in 0 .. Len(list) |-> IF i = 0 THEN s ELSE One(g[i - 1], i)]
  BY <1>2 DEF IsUndone, One
<1>4. \A i \in 0 .. Len(list) : g[i] = IF i = 0 THEN s ELSE One(g[i - 1], i)
  BY <1>3, Zenon
<1>5. 0 \in 0 .. Len(list) /\ \A i \in 1 .. Len(list) : i \in 0 .. Len(list) /\ i # 0
  OBVIOUS
<1>6. g[0] = s /\ \A i \in 1 .. Len(list) : g[i] = One(g[i - 1], i)
  BY <1>4, <1>5
<1>. QED BY <1>1, <1>6 DEF One

(* Undoing LIST makes D of the characters C. *)
UndoneTo(c, list, d) ==
  \E g : /\ g[0] = c /\ g[Len(list)] = d
         /\ \A i \in 1 .. Len(list) : g[i] = CharsUndone(g[i - 1], list[i])

(* An insertion ends behind its beginning. *)
Ranged(r) == r.k = "insert" => r.beg \in Nat /\ r.end \in Nat /\ 1 <= r.beg /\ r.beg <= r.end

Undoes(c, list, d) ==
  /\ list \in Seq(Record) /\ \A i \in 1 .. Len(list) : Ranged(list[i])
  /\ UndoneTo(c, list, d)

LEMMA UndoneText ==
  ASSUME NEW s, IsSnapshot(s), NEW list, NEW d, Undoes(s.chars, list, d)
  PROVE  primitive_undo(s, list).chars = d
<1>1. Len(list) \in Nat
  BY LenProperties DEF Undoes
<1>2. PICK g : /\ g[0] = s /\ primitive_undo(s, list) = g[Len(list)]
               /\ \A i \in 1 .. Len(list) : g[i] = UndoRecord(g[i - 1], list, i)
  BY <1>1, UndoneValues
<1>3. PICK h : /\ h[0] = s.chars /\ h[Len(list)] = d
               /\ \A i \in 1 .. Len(list) : h[i] = CharsUndone(h[i - 1], list[i])
  BY DEF Undoes, UndoneTo
<1>. DEFINE S == {n \in Nat : n <= Len(list) => IsSnapshot(g[n]) /\ g[n].chars = h[n]}
<1>4. 0 \in S
  BY <1>2, <1>3
<1>5. ASSUME NEW n \in Nat, n \in S
      PROVE  n + 1 \in S
  <2>1. SUFFICES ASSUME n + 1 <= Len(list)
                 PROVE  IsSnapshot(g[n + 1]) /\ g[n + 1].chars = h[n + 1]
    OBVIOUS
  <2>2. n + 1 \in 1 .. Len(list) /\ (n + 1) - 1 = n /\ n <= Len(list)
    BY <1>1, <2>1
  <2>3. IsSnapshot(g[n]) /\ g[n].chars = h[n]
    BY <1>5, <2>2
  <2>4. g[n + 1] = UndoRecord(g[n], list, n + 1) /\ h[n + 1] = CharsUndone(h[n], list[n + 1])
    BY <1>2, <1>3, <2>2
  <2>5. /\ IsSnapshot(UndoRecord(g[n], list, n + 1))
        /\ UndoRecord(g[n], list, n + 1).chars = CharsUndone(g[n].chars, list[n + 1])
    <3>. DEFINE x == g[n]
                j == n + 1
    <3>1. IsSnapshot(x)
      BY <2>3
    <3>. HIDE DEF x, j
    <3>2. IsSnapshot(UndoRecord(x, list, j)) /\ UndoRecord(x, list, j).chars = CharsUndone(x.chars, list[j])
      BY <3>1, OneUndone
    <3>. QED BY <3>2 DEF x, j
  <2>. QED BY <2>3, <2>4, <2>5
<1>. HIDE DEF S
<1>6. Len(list) \in S
  BY <1>1, <1>4, <1>5, SetInduction
<1>. QED BY <1>1, <1>2, <1>3, <1>6 DEF S

(* A record on top of a list is undone first. *)
LEMMA TopParts ==
  ASSUME NEW r \in Record, NEW list \in Seq(Record)
  PROVE  LET m == <<r>> \o list IN
         /\ m \in Seq(Record) /\ Len(m) = Len(list) + 1 /\ m[1] = r /\ Len(list) \in Nat
         /\ \A i \in 1 .. Len(list) : m[i + 1] = list[i]
<1>1. <<r>> \in Seq(Record) /\ Len(<<r>>) = 1 /\ <<r>>[1] = r /\ Len(list) \in Nat
  BY LenProperties
<1>. DEFINE m == <<r>> \o list
<1>2. /\ m \in Seq(Record) /\ Len(m) = 1 + Len(list)
      /\ \A i \in 1 .. 1 + Len(list) : m[i] = IF i <= 1 THEN <<r>>[i] ELSE list[i - 1]
  <2>1. /\ m \in Seq(Record) /\ Len(m) = Len(<<r>>) + Len(list)
        /\ \A i \in 1 .. Len(<<r>>) + Len(list) :
             m[i] = IF i <= Len(<<r>>) THEN <<r>>[i] ELSE list[i - Len(<<r>>)]
    BY <1>1, ConcatProperties
  <2>. HIDE DEF m
  <2>. QED BY <1>1, <2>1
<1>. HIDE DEF m
<1>3. /\ 1 \in 1 .. 1 + Len(list) /\ 1 <= 1
      /\ \A i \in 1 .. Len(list) : /\ i + 1 \in 1 .. 1 + Len(list) /\ ~(i + 1 <= 1)
                                   /\ (i + 1) - 1 = i
  BY <1>1
<1>4. m[1] = r /\ Len(m) = Len(list) + 1
  BY <1>1, <1>2, <1>3
<1>5. \A i \in 1 .. Len(list) : m[i + 1] = list[i]
  BY <1>2, <1>3
<1>. QED BY <1>1, <1>2, <1>4, <1>5 DEF m

LEMMA UndoneMore ==
  ASSUME NEW c, NEW r \in Record, Ranged(r), NEW list, NEW d, Undoes(CharsUndone(c, r), list, d)
  PROVE  Undoes(c, <<r>> \o list, d)
<1>. DEFINE m == <<r>> \o list
<1>0. list \in Seq(Record) /\ \A i \in 1 .. Len(list) : Ranged(list[i])
  BY DEF Undoes
<1>1. /\ m \in Seq(Record) /\ Len(m) = Len(list) + 1 /\ m[1] = r /\ Len(list) \in Nat
      /\ \A i \in 1 .. Len(list) : m[i + 1] = list[i]
  BY <1>0, TopParts
<1>. HIDE DEF m
<1>2. PICK g : /\ g[0] = CharsUndone(c, r) /\ g[Len(list)] = d
               /\ \A i \in 1 .. Len(list) : g[i] = CharsUndone(g[i - 1], list[i])
  BY DEF Undoes, UndoneTo
<1>3. \A i \in 1 .. Len(m) : i = 1 \/ (i - 1 \in 1 .. Len(list) /\ (i - 1) + 1 = i)
  BY <1>1
<1>4. \A i \in 1 .. Len(m) : Ranged(m[i])
  BY <1>0, <1>1, <1>3
<1>. DEFINE f == [i \in 0 .. Len(m) |-> IF i = 0 THEN c ELSE g[i - 1]]
<1>5. f[0] = c /\ \A i \in 1 .. Len(m) : f[i] = g[i - 1]
  BY <1>1
<1>. HIDE DEF f
<1>6. f[Len(m)] = d
  <2>1. Len(m) \in 1 .. Len(m) /\ Len(m) - 1 = Len(list)
    BY <1>1
  <2>. QED BY <1>2, <1>5, <2>1
<1>7. ASSUME NEW i \in 1 .. Len(m) PROVE f[i] = CharsUndone(f[i - 1], m[i])
  <2>1. CASE i = 1
    <3>1. f[1] = g[0] /\ i - 1 = 0 /\ 1 - 1 = 0
      BY <1>5, <2>1
    <3>. QED BY <1>1, <1>2, <1>5, <2>1, <3>1
  <2>2. CASE i # 1
    <3>1. i - 1 \in 1 .. Len(list) /\ i - 1 \in 1 .. Len(m) /\ (i - 1) + 1 = i
      BY <1>1, <2>2
    <3>. QED BY <1>1, <1>2, <1>5, <3>1
  <2>. QED BY <2>1, <2>2
<1>. QED BY <1>1, <1>4, <1>5, <1>6, <1>7 DEF Undoes, UndoneTo, m

LEMMA UndoneLess ==
  ASSUME NEW c, NEW r \in Record, NEW list \in Seq(Record), NEW d, Undoes(c, <<r>> \o list, d)
  PROVE  Undoes(CharsUndone(c, r), list, d)
<1>. DEFINE m == <<r>> \o list
<1>1. /\ m \in Seq(Record) /\ Len(m) = Len(list) + 1 /\ m[1] = r /\ Len(list) \in Nat
      /\ \A i \in 1 .. Len(list) : m[i + 1] = list[i]
  BY TopParts
<1>2. \A i \in 1 .. Len(m) : Ranged(m[i])
  BY DEF Undoes
<1>3. PICK g : /\ g[0] = c /\ g[Len(m)] = d
               /\ \A i \in 1 .. Len(m) : g[i] = CharsUndone(g[i - 1], m[i])
  BY DEF Undoes, UndoneTo
<1>. HIDE DEF m
<1>4. \A i \in 1 .. Len(list) : i + 1 \in 1 .. Len(m) /\ (i + 1) - 1 = i
  BY <1>1
<1>5. \A i \in 1 .. Len(list) : Ranged(list[i])
  BY <1>1, <1>2, <1>4
<1>. DEFINE f == [i \in 0 .. Len(list) |-> g[i + 1]]
<1>6. \A i \in 0 .. Len(list) : f[i] = g[i + 1]
  OBVIOUS
<1>. HIDE DEF f
<1>7. f[0] = CharsUndone(c, r) /\ f[Len(list)] = d
  <2>1. 0 \in 0 .. Len(list) /\ 0 + 1 = 1 /\ Len(list) \in 0 .. Len(list) /\ 1 \in 1 .. Len(m)
        /\ 1 - 1 = 0
    BY <1>1
  <2>2. g[1] = CharsUndone(g[0], m[1])
    BY <1>3, <2>1
  <2>. QED BY <1>1, <1>3, <1>6, <2>1, <2>2
<1>8. ASSUME NEW i \in 1 .. Len(list) PROVE f[i] = CharsUndone(f[i - 1], list[i])
  <2>1. i \in 0 .. Len(list) /\ i - 1 \in 0 .. Len(list) /\ (i - 1) + 1 = i
    BY <1>1
  <2>2. f[i] = g[i + 1] /\ f[i - 1] = g[i]
    BY <1>6, <2>1
  <2>. QED BY <1>1, <1>3, <1>4, <2>2
<1>. QED BY <1>5, <1>7, <1>8 DEF Undoes, UndoneTo

(* Records of anything but insertions and deletions leave the characters. *)
LEMMA NeutralOnTop ==
  ASSUME NEW c, NEW r \in Record, r.k \in {"adjust", "boundary", "first", "point"}, NEW list, NEW d,
         Undoes(c, list, d)
  PROVE  Undoes(c, <<r>> \o list, d)
<1>1. CharsUndone(c, r) = c /\ Ranged(r)
  BY DEF CharsUndone, Ranged
<1>. QED BY <1>1, UndoneMore

LEMMA AdjustmentsOnTop ==
  ASSUME NEW c, NEW pre \in Seq(Record), \A i \in 1 .. Len(pre) : pre[i].k = "adjust",
         NEW list, NEW d, Undoes(c, list, d)
  PROVE  Undoes(c, pre \o list, d)
<1>. DEFINE m == pre \o list
            k == Len(pre)
            n == Len(list)
<1>0. list \in Seq(Record) /\ \A i \in 1 .. n : Ranged(list[i])
  BY DEF Undoes
<1>1. /\ m \in Seq(Record) /\ Len(m) = k + n /\ k \in Nat /\ n \in Nat
      /\ \A i \in 1 .. k + n : m[i] = IF i <= k THEN pre[i] ELSE list[i - k]
  BY <1>0, ConcatProperties, LenProperties
<1>2. PICK g : /\ g[0] = c /\ g[n] = d
               /\ \A i \in 1 .. n : g[i] = CharsUndone(g[i - 1], list[i])
  BY DEF Undoes, UndoneTo
<1>3. \A i \in 1 .. k : pre[i].k = "adjust"
  OBVIOUS
<1>. HIDE DEF m, k, n
<1>. DEFINE f == [i \in 0 .. k + n |-> IF i <= k THEN c ELSE g[i - k]]
<1>4. \A i \in 0 .. k + n : f[i] = IF i <= k THEN c ELSE g[i - k]
  OBVIOUS
<1>. HIDE DEF f
<1>5. \A i \in 1 .. k + n : \/ i <= k /\ i \in 1 .. k
                            \/ ~(i <= k) /\ i - k \in 1 .. n
  BY <1>1
<1>6. \A i \in 1 .. k + n : Ranged(m[i])
  <2>. TAKE i \in 1 .. k + n
  <2>1. CASE i <= k /\ i \in 1 .. k
    BY <1>1, <1>3, <2>1 DEF Ranged
  <2>2. CASE ~(i <= k) /\ i - k \in 1 .. n
    BY <1>0, <1>1, <2>2 DEF n
  <2>. QED BY <1>5, <2>1, <2>2
<1>7. f[0] = c /\ f[k + n] = d
  <2>1. 0 \in 0 .. k + n /\ 0 <= k /\ k + n \in 0 .. k + n /\ (k + n) - k = n
        /\ (k + n <= k => n = 0)
    BY <1>1
  <2>. QED BY <1>2, <1>4, <2>1
<1>8. ASSUME NEW i \in 1 .. k + n PROVE f[i] = CharsUndone(f[i - 1], m[i])
  <2>1. i \in 0 .. k + n /\ i - 1 \in 0 .. k + n
    BY <1>1
  <2>2. CASE i <= k
    <3>1. i - 1 <= k /\ i \in 1 .. k
      BY <1>1, <2>2
    <3>2. f[i] = c /\ f[i - 1] = c /\ m[i].k = "adjust"
      BY <1>1, <1>3, <1>4, <2>1, <2>2, <3>1
    <3>. QED BY <3>2 DEF CharsUndone
  <2>3. CASE ~(i <= k)
    <3>1. i - k \in 1 .. n /\ (i - 1) - k = (i - k) - 1 /\ (i - 1 <= k => (i - k) - 1 = 0)
      BY <1>1, <2>3
    <3>2. f[i] = g[i - k] /\ m[i] = list[i - k] /\ f[i - 1] = g[(i - k) - 1]
      BY <1>1, <1>2, <1>4, <2>1, <2>3, <3>1
    <3>. QED BY <1>2, <3>1, <3>2
  <2>. QED BY <2>2, <2>3
<1>. QED BY <1>1, <1>6, <1>7, <1>8 DEF Undoes, UndoneTo, m

-------------------------------------------------------------------------------
(* What the records undo                                                     *)

LEMMA ListNotOff == \A list \in Seq(Record) : list # Qt
  BY GapBufferAssumption

LEMMA FirstUndone ==
  ASSUME NEW c, NEW list, NEW d, Undoes(c, list, d)
  PROVE  Undoes(c, record_first_change(list), d)
<1>1. list # Qt
  BY ListNotOff DEF Undoes
<1>2. First \in Record /\ First.k = "first"
  BY DEF First, Record
<1>3. Undoes(c, <<First>> \o list, d)
  BY <1>2, NeutralOnTop
<1>. QED BY <1>1, <1>3 DEF record_first_change

LEMMA PointUndone ==
  ASSUME NEW c, NEW list, NEW d, Undoes(c, list, d), NEW beg, NEW before \in Int,
         NEW clean \in BOOLEAN
  PROVE  Undoes(c, record_point(list, beg, before, clean), d)
<1>. DEFINE l == IF clean THEN record_first_change(list) ELSE list
            r == [k |-> "point", pos |-> before]
<1>1. r \in Record /\ r.k = "point"
  BY DEF Record
<1>2. Undoes(c, l, d)
  BY FirstUndone
<1>. HIDE DEF l, r
<1>3. Undoes(c, <<r>> \o l, d)
  BY <1>1, <1>2, NeutralOnTop
<1>. QED BY <1>2, <1>3 DEF record_point, l, r

(* An insertion that began before AT and was continued there is taken out whole. *)
LEMMA InsertionTakenOut ==
  ASSUME NEW c \in Seq(Char), NEW at \in Places(c), NEW new \in Seq(Char),
         NEW r, r.k = "insert", r.beg \in 1 .. at, r.end = at + Len(new)
  PROVE  CharsUndone(Splice(c, at, at, new), r) = SubSeq(c, 1, r.beg - 1) \o SubSeq(c, at, Len(c))
<1>. DEFINE b == r.beg
            p == SubSeq(c, 1, at - 1)
            y == SubSeq(c, at, Len(c))
            e == Splice(c, at, at, new)
<1>1. /\ p \o y = c /\ p \in Seq(Char) /\ y \in Seq(Char) /\ Len(p) + 1 = at
      /\ Len(p) \in Nat /\ Len(new) \in Nat
  BY TwoParts, LenProperties DEF BEG
<1>2. /\ p \o new \in Seq(Char) /\ Len(p \o new) = Len(p) + Len(new)
      /\ e = (p \o new) \o y
  BY <1>1, ConcatProperties DEF Splice
<1>. HIDE DEF p, y, e
<1>0. b \in 1 .. at /\ r.end = at + Len(new) /\ r.k = "insert"
  OBVIOUS
<1>. HIDE DEF b
<1>3. b - 1 \in 0 .. Len(p) /\ b - 1 \in 0 .. Len(p \o new) /\ at + Len(new) = Len(p \o new) + 1
  <2>1. \A i, j, k \in Nat : \A l \in 1 .. k :
          i + 1 = k => l - 1 \in 0 .. i /\ l - 1 \in 0 .. i + j /\ k + j = (i + j) + 1
    OBVIOUS
  <2>2. at \in Nat
    BY <1>1
  <2>3. b - 1 \in 0 .. Len(p) /\ b - 1 \in 0 .. Len(p) + Len(new)
        /\ at + Len(new) = (Len(p) + Len(new)) + 1
    BY <1>0, <1>1, <2>1, <2>2
  <2>. QED BY <1>2, <2>3
<1>4. SubSeq(e, 1, b - 1) = SubSeq(p \o new, 1, b - 1)
  BY <1>1, <1>2, <1>3, FrontOfFront
<1>5. SubSeq(p \o new, 1, b - 1) = SubSeq(p, 1, b - 1)
  BY <1>1, <1>3, FrontOfFront
<1>6. SubSeq(p \o y, 1, b - 1) = SubSeq(p, 1, b - 1)
  BY <1>1, <1>3, FrontOfFront
<1>7. SubSeq(e, Len(p \o new) + 1, Len(e)) = y
  BY <1>1, <1>2, EndsOfJoin
<1>8. CharsUndone(e, r) = SubSeq(e, 1, b - 1) \o SubSeq(e, at + Len(new), Len(e))
  BY <1>0 DEF CharsUndone, b
<1>9. CharsUndone(e, r) = SubSeq(c, 1, b - 1) \o y
  BY <1>1, <1>3, <1>4, <1>5, <1>6, <1>7, <1>8
<1>. QED BY <1>9 DEF e, y, b

LEMMA InsertUndone ==
  ASSUME NEW c \in Seq(Char), NEW at \in Places(c), NEW new \in Seq(Char),
         NEW list, NEW d, Undoes(c, list, d), NEW before \in Int, NEW clean \in BOOLEAN
  PROVE  Undoes(Splice(c, at, at, new), record_insert(list, at, Len(new), before, clean), d)
<1>. DEFINE l == record_point(list, at, before, clean)
            n == Len(new)
            e == Splice(c, at, at, new)
            u == record_insert(list, at, n, before, clean)
<1>1. Undoes(c, l, d) /\ list # Qt
  BY PointUndone, ListNotOff DEF Undoes
<1>2. u = IF l # <<>> /\ Head(l).k = "insert" /\ Head(l).end = at
          THEN [l EXCEPT ![1].end = at + n]
          ELSE <<[k |-> "insert", beg |-> at, end |-> at + n]>> \o l
  BY <1>1 DEF record_insert
<1>3. n \in Nat /\ at \in Nat /\ 1 <= at /\ Len(c) \in Nat
  BY LenProperties DEF Places
<1>. HIDE DEF l, u
<1>4. CASE l # <<>> /\ Head(l).k = "insert" /\ Head(l).end = at
  <2>. DEFINE r == Head(l)
              m == Tail(l)
              s == [r EXCEPT !.end = at + n]
  <2>0. l \in Seq(Record) /\ \A i \in 1 .. Len(l) : Ranged(l[i])
    BY <1>1 DEF Undoes
  <2>1. r \in Record /\ m \in Seq(Record) /\ Len(l) \in Nat \ {0} /\ r = l[1]
        /\ Len(m) = Len(l) - 1 /\ \A i \in 1 .. Len(m) : m[i] = l[i + 1]
    BY <1>4, <2>0, HeadTailProperties, EmptySeq
  <2>2. r \in [k : {"insert"}, beg : Int, end : Int]
    BY <1>4, <2>1 DEF Record
  <2>3. r.beg \in 1 .. at /\ r.end = at /\ r.k = "insert"
    <3>1. 1 \in 1 .. Len(l)
      BY <2>1
    <3>2. Ranged(r)
      BY <2>0, <2>1, <3>1
    <3>. QED BY <1>4, <3>2 DEF Ranged
  <2>4. s \in Record /\ s.k = "insert" /\ s.beg = r.beg /\ s.end = at + n
    <3>1. s \in [k : {"insert"}, beg : Int, end : Int] /\ s.k = "insert" /\ s.beg = r.beg
          /\ s.end = at + n
      BY <1>3, <2>2
    <3>. QED BY <3>1 DEF Record
  <2>. HIDE DEF r, m
  <2>5. l = <<r>> \o m
    <3>1. /\ <<r>> \o m \in Seq(Record) /\ Len(<<r>> \o m) = Len(m) + 1 /\ (<<r>> \o m)[1] = r
          /\ \A i \in 1 .. Len(m) : (<<r>> \o m)[i + 1] = m[i]
      BY <2>1, TopParts
    <3>2. ASSUME NEW i \in 1 .. Len(l) PROVE l[i] = (<<r>> \o m)[i]
      <4>1. i = 1 \/ (i - 1 \in 1 .. Len(m) /\ (i - 1) + 1 = i)
        BY <2>1
      <4>. QED BY <2>1, <3>1, <4>1
    <3>3. Len(l) = Len(<<r>> \o m)
      BY <2>1, <3>1
    <3>. QED BY <2>0, <3>1, <3>2, <3>3, SeqEqual
  <2>6. u = <<s>> \o m
    <3>. HIDE DEF s
    <3>1. /\ <<s>> \o m \in Seq(Record) /\ Len(<<s>> \o m) = Len(m) + 1 /\ (<<s>> \o m)[1] = s
          /\ \A i \in 1 .. Len(m) : (<<s>> \o m)[i + 1] = m[i]
      BY <2>1, <2>4, TopParts
    <3>2. u = [l EXCEPT ![1] = s]
      BY <1>2, <1>4, <2>1 DEF s
    <3>3. 1 \in 1 .. Len(l)
      BY <2>1
    <3>4. /\ u \in Seq(Record) /\ Len(u) = Len(l)
          /\ \A i \in 1 .. Len(l) : u[i] = IF i = 1 THEN s ELSE l[i]
      BY <2>0, <2>4, <3>2, <3>3, ExceptSeq
    <3>5. ASSUME NEW i \in 1 .. Len(u) PROVE u[i] = (<<s>> \o m)[i]
      <4>1. i = 1 \/ (i # 1 /\ i - 1 \in 1 .. Len(m) /\ (i - 1) + 1 = i)
        BY <2>1, <3>4
      <4>. QED BY <2>1, <3>1, <3>4, <4>1
    <3>6. Len(u) = Len(<<s>> \o m)
      BY <2>1, <3>1, <3>4
    <3>. QED BY <3>1, <3>4, <3>5, <3>6, SeqEqual
  <2>. HIDE DEF s, e
  <2>7. Undoes(CharsUndone(c, r), m, d)
    BY <1>1, <2>1, <2>5, UndoneLess
  <2>8. CharsUndone(e, s) = CharsUndone(c, r)
    <3>1. CharsUndone(e, s) = SubSeq(c, 1, r.beg - 1) \o SubSeq(c, at, Len(c))
      <4>1. s.beg \in 1 .. at /\ s.k = "insert" /\ s.end = at + Len(new)
        BY <2>3, <2>4 DEF n
      <4>2. CharsUndone(e, s) = SubSeq(c, 1, s.beg - 1) \o SubSeq(c, at, Len(c))
        BY <4>1, InsertionTakenOut DEF e
      <4>. QED BY <2>4, <4>2
    <3>2. CharsUndone(c, r) = SubSeq(c, 1, r.beg - 1) \o SubSeq(c, at, Len(c))
      BY <2>3 DEF CharsUndone
    <3>. QED BY <3>1, <3>2
  <2>9. Ranged(s)
    BY <1>3, <2>3, <2>4 DEF Ranged
  <2>10. Undoes(e, u, d)
    BY <2>4, <2>6, <2>7, <2>8, <2>9, UndoneMore
  <2>. QED BY <2>10 DEF u, e, n
<1>5. CASE ~(l # <<>> /\ Head(l).k = "insert" /\ Head(l).end = at)
  <2>. DEFINE r == [k |-> "insert", beg |-> at, end |-> at + n]
  <2>1. r \in Record /\ r.k = "insert" /\ r.beg = at /\ r.end = at + n /\ Ranged(r)
    BY <1>3 DEF Record, Ranged
  <2>2. u = <<r>> \o l
    BY <1>2, <1>5
  <2>. HIDE DEF r, e
  <2>3. CharsUndone(e, r) = SubSeq(c, 1, at - 1) \o SubSeq(c, at, Len(c))
    <3>1. at \in 1 .. at
      BY <1>3
    <3>. QED BY <2>1, <3>1, InsertionTakenOut DEF e, n
  <2>4. CharsUndone(e, r) = c
    BY <2>3, TwoParts DEF BEG
  <2>5. Undoes(e, u, d)
    BY <1>1, <2>1, <2>2, <2>4, UndoneMore
  <2>. QED BY <2>5 DEF u, e, n
<1>. QED BY <1>4, <1>5

(* The text from FROM to TO, put back before the text that replaced it *)
LEMMA DeletionPutBack ==
  ASSUME NEW c \in Seq(Char), NEW from \in Places(c), NEW to \in Places(c), from <= to,
         NEW new \in Seq(Char), NEW r, r.k = "delete", r.pos = from,
         r.chars = SubSeq(c, from, to - 1)
  PROVE  CharsUndone(Splice(c, from, to, new), r) = Splice(c, to, to, new)
<1>. DEFINE p == SubSeq(c, 1, from - 1)
            o == SubSeq(c, from, to - 1)
            y == SubSeq(c, to, Len(c))
            e == Splice(c, from, to, new)
<1>0. /\ from \in Nat /\ 1 <= from /\ to \in Nat /\ Len(c) \in Nat /\ to <= Len(c) + 1
      /\ from <= Len(c) + 1
  BY LenProperties DEF Places
<1>1. /\ p \in Seq(Char) /\ Len(p) + 1 = from /\ Len(p) \in Nat /\ y \in Seq(Char)
  BY TwoParts, LenProperties DEF BEG
<1>2. o \in Seq(Char)
  <2>1. from \in 1 .. Len(c) + 1 /\ to - 1 \in 0 .. Len(c) /\ from <= (to - 1) + 1
    BY <1>0
  <2>. QED BY <2>1, PartType
<1>3. p \o o = SubSeq(c, 1, to - 1)
  <2>1. /\ 1 \in 1 .. Len(c) + 1 /\ from \in 1 .. Len(c) + 1 /\ to - 1 \in from - 1 .. Len(c)
    BY <1>0
  <2>. QED BY <2>1, PartsJoin
<1>4. e = (p \o new) \o y
  BY DEF Splice
<1>. DEFINE z == new \o y
            x == SubSeq(c, 1, to - 1)
<1>5. z \in Seq(Char)
  BY <1>1, ConcatProperties
<1>. HIDE DEF p, o, y, e
<1>6. e = p \o z
  BY <1>1, <1>4, JoinRegrouped, Zenon
<1>. HIDE DEF z
<1>7. SubSeq(e, 1, Len(p)) = p /\ SubSeq(e, Len(p) + 1, Len(e)) = z
  BY <1>1, <1>5, <1>6, EndsOfJoin
<1>8. CharsUndone(e, r) = SubSeq(e, 1, from - 1) \o r.chars \o SubSeq(e, from, Len(e))
  BY DEF CharsUndone
<1>9. from - 1 = Len(p)
  BY <1>0, <1>1
<1>10. CharsUndone(e, r) = (p \o o) \o z
  BY <1>1, <1>7, <1>8, <1>9, Zenon DEF o
<1>11. x \in Seq(Char)
  BY <1>1, <1>2, <1>3, ConcatProperties
<1>12. CharsUndone(e, r) = x \o z
  BY <1>3, <1>10
<1>. HIDE DEF x
<1>13. x \o (new \o y) = (x \o new) \o y
  BY <1>1, <1>11, JoinRegrouped, Zenon
<1>14. CharsUndone(e, r) = (x \o new) \o y
  BY <1>12, <1>13 DEF z
<1>. QED BY <1>14 DEF e, y, x, Splice

-------------------------------------------------------------------------------
(* The adjustments recorded with a deletion                                  *)

Adjustment(m, from, to, charpos) == (IF m \in InsertionType THEN to ELSE from) - charpos[m]

(* One for each marker in the deleted text that undoing would miss *)
Adjusts(mine, from, to, charpos) ==
  /\ mine \in Seq(Record)
  /\ \A i \in 1 .. Len(mine) :
       /\ mine[i].k = "adjust" /\ mine[i].marker \in Marker
       /\ charpos[mine[i].marker] \in from .. to
       /\ mine[i].by = Adjustment(mine[i].marker, from, to, charpos)
  /\ \A m \in Marker : charpos[m] \in from .. to =>
       \/ Adjustment(m, from, to, charpos) = 0
       \/ \E i \in 1 .. Len(mine) : mine[i].marker = m

LEMMA AdjustmentsAre ==
  ASSUME NEW from \in Int, NEW to \in Int, NEW charpos \in [Marker -> Int]
  PROVE  \E mine : /\ Adjusts(mine, from, to, charpos)
                   /\ \A list : record_marker_adjustments(list, from, to, charpos) = mine \o list
<1>. DEFINE adjustment(m) == (IF m \in InsertionType THEN to ELSE from) - charpos[m]
            moved == {m \in Marker : charpos[m] \in from .. to /\ adjustment(m) # 0}
            s == SetToSeq(moved)
            K == Cardinality(moved)
            mine == [i \in 1 .. K |->
                       [k |-> "adjust", marker |-> s[i], by |-> adjustment(s[i])]]
<1>1. IsFiniteSet(moved)
  <2>1. IsFiniteSet(Marker) /\ moved \subseteq Marker
    BY GapBufferAssumption
  <2>. QED BY <2>1, FS_Subset, Zenon
<1>2. \A m \in Marker : adjustment(m) \in Int /\ adjustment(m) = Adjustment(m, from, to, charpos)
  BY DEF Adjustment
<1>3. \A m \in moved : m \in Marker /\ charpos[m] \in from .. to
  OBVIOUS
<1>4. \A m \in Marker : charpos[m] \in from .. to => adjustment(m) = 0 \/ m \in moved
  OBVIOUS
<1>5. \A list : record_marker_adjustments(list, from, to, charpos) = mine \o list
  BY DEF record_marker_adjustments
<1>. HIDE DEF moved, adjustment
<1>6. K \in Nat
  BY <1>1, FS_CardinalityType
<1>7. s \in [1 .. K -> moved] /\ IsInjective(s)
  <2>1. PICK f \in Bijection(1 .. K, moved) : TRUE
    BY <1>1, FS_CardinalityType DEF ExistsBijection
  <2>2. f \in [1 .. K -> moved] /\ IsInjective(f)
    BY <2>1 DEF Bijection, Injection
  <2>. QED BY <2>2, Zenon DEF SetToSeq
<1>. HIDE DEF s
<1>8. \A m \in moved : \E i \in 1 .. K : s[i] = m
  <2>1. s \in Injection(1 .. K, moved)
    BY <1>7 DEF Injection
  <2>2. IsFiniteSet(1 .. K) /\ Cardinality(1 .. K) = Cardinality(moved)
    <3>1. Cardinality(1 .. K) = IF 1 > K THEN 0 ELSE K - 1 + 1
      BY <1>6, FS_Interval
    <3>2. IsFiniteSet(1 .. K)
      BY <1>6, FS_Interval
    <3>3. Cardinality(1 .. K) = K
      BY <1>6, <3>1
    <3>. QED BY <3>2, <3>3
  <2>3. s \in Surjection(1 .. K, moved)
    BY <1>1, <2>1, <2>2, FS_Injection
  <2>. QED BY <2>3 DEF Surjection
<1>9. \A i \in 1 .. K : s[i] \in moved /\ s[i] \in Marker /\ adjustment(s[i]) \in Int
  BY <1>2, <1>3, <1>7
<1>10. ASSUME NEW i \in 1 .. K
       PROVE  mine[i] \in Record /\ mine[i].k = "adjust" /\ mine[i].marker = s[i]
              /\ mine[i].by = adjustment(s[i])
  <2>1. mine[i] = [k |-> "adjust", marker |-> s[i], by |-> adjustment(s[i])]
    OBVIOUS
  <2>. HIDE DEF mine
  <2>. QED BY <1>9, <2>1 DEF Record
<1>11. mine \in Seq(Record) /\ Len(mine) = K
  <2>1. mine \in [1 .. K -> Record]
    BY <1>10
  <2>. HIDE DEF mine, K
  <2>. QED BY <1>6, <2>1
<1>. HIDE DEF mine, K
<1>12. Adjusts(mine, from, to, charpos)
  <2>1. ASSUME NEW i \in 1 .. Len(mine)
        PROVE  /\ mine[i].k = "adjust" /\ mine[i].marker \in Marker
               /\ charpos[mine[i].marker] \in from .. to
               /\ mine[i].by = Adjustment(mine[i].marker, from, to, charpos)
    BY <1>2, <1>3, <1>9, <1>10, <1>11
  <2>2. ASSUME NEW m \in Marker, charpos[m] \in from .. to
        PROVE  \/ Adjustment(m, from, to, charpos) = 0
               \/ \E i \in 1 .. Len(mine) : mine[i].marker = m
    BY <1>2, <1>4, <1>8, <1>10, <1>11, <2>2
  <2>. QED BY <1>11, <2>1, <2>2 DEF Adjusts
<1>. QED BY <1>5, <1>12

LEMMA DeleteUndone ==
  ASSUME NEW c, NEW beg \in Int, NEW chars \in Seq(Char), NEW c1,
         SubSeq(c, 1, beg - 1) \o chars \o SubSeq(c, beg, Len(c)) = c1,
         NEW list, NEW d, Undoes(c1, list, d), NEW marks \in BOOLEAN,
         NEW charpos, marks = FALSE \/ charpos \in [Marker -> Int], NEW p, NEW before \in Int, NEW clean \in BOOLEAN
  PROVE  Undoes(c, record_delete(list, beg, chars, marks, charpos, p, before, clean), d)
<1>. DEFINE l == record_point(list, beg, before, clean)
            r == [k |-> "delete", chars |-> chars, pos |-> beg, at_end |-> p = beg + Len(chars)]
            below == IF marks THEN record_marker_adjustments(l, beg, beg + Len(chars), charpos)
                     ELSE l
<1>1. Undoes(c1, l, d) /\ list # Qt
  BY PointUndone, ListNotOff DEF Undoes
<1>2. record_delete(list, beg, chars, marks, charpos, p, before, clean) = <<r>> \o below
  BY <1>1 DEF record_delete
<1>3. r \in Record /\ r.k = "delete" /\ Ranged(r) /\ CharsUndone(c, r) = c1
  <2>1. (p = beg + Len(chars)) \in BOOLEAN
    OBVIOUS
  <2>2. r \in Record /\ r.k = "delete" /\ r.pos = beg /\ r.chars = chars
    BY <2>1 DEF Record
  <2>. HIDE DEF r
  <2>. QED BY <2>2 DEF Ranged, CharsUndone
<1>. HIDE DEF l, r
<1>4. Undoes(c1, below, d)
  <2>1. CASE marks
    <3>1. beg + Len(chars) \in Int
      BY LenProperties
    <3>2. PICK mine : /\ Adjusts(mine, beg, beg + Len(chars), charpos)
                      /\ \A m : record_marker_adjustments(m, beg, beg + Len(chars), charpos)
                                = mine \o m
      BY <2>1, <3>1, AdjustmentsAre
    <3>3. mine \in Seq(Record) /\ \A i \in 1 .. Len(mine) : mine[i].k = "adjust"
      BY <3>2 DEF Adjusts
    <3>4. Undoes(c1, mine \o l, d)
      BY <1>1, <3>3, AdjustmentsOnTop
    <3>. QED BY <2>1, <3>2, <3>4
  <2>2. CASE ~marks
    BY <1>1, <2>2
  <2>. QED BY <2>1, <2>2
<1>. HIDE DEF below
<1>5. Undoes(c, <<r>> \o below, d)
  BY <1>3, <1>4, UndoneMore
<1>. QED BY <1>2, <1>5

-------------------------------------------------------------------------------
(* What each primitive does to the undo list                                 *)

KeepsUndo(t, u) == DOMAIN u = Fields /\ u.undo_list = t.undo_list

LEMMA KeepsTwice ==
  ASSUME NEW t, NEW u, NEW v, KeepsUndo(t, u), KeepsUndo(u, v)
  PROVE  KeepsUndo(t, v)
  BY DEF KeepsUndo

LEMMA KeptFields ==
  ASSUME NEW t, NEW u, KeepsUndo(t, u)
  PROVE  DOMAIN u = Fields
  BY DEF KeepsUndo

(* All but record_insert and record_delete keep it. *)
LEMMA KeptByAll ==
  ASSUME NEW t, DOMAIN t = Fields
  PROVE  /\ KeepsUndo(t, t)
         /\ \A start, end : KeepsUndo(t, invalidate_buffer_caches(t, start, end))
         /\ \A start, end : KeepsUndo(t, BUF_COMPUTE_UNCHANGED(t, start, end))
         /\ \A len : KeepsUndo(t, modiff_incr(t, len))
         /\ KeepsUndo(t, LowerEnd(t)) /\ KeepsUndo(t, LowerBoth(t))
         /\ \A p : KeepsUndo(t, GapAt(t, p))
         /\ \A chars : KeepsUndo(t, TakeIn(t, chars))
         /\ \A from, to : KeepsUndo(t, GiveUp(t, from, to))
         /\ \A n, k : KeepsUndo(t, adjust_point(t, n, k))
         /\ \A from, to : KeepsUndo(t, adjust_markers_for_delete(t, from, to))
         /\ \A from, to, goes : KeepsUndo(t, adjust_markers_for_insert(t, from, to, goes))
         /\ \A from : KeepsUndo(t, adjust_markers_bytepos(t, from))
         /\ \A c, ch : KeepsUndo(t, Overwrite(t, c, ch))
<1>1. KeepsUndo(t, t)
  BY DEF KeepsUndo
<1>2. \A start, end : KeepsUndo(t, invalidate_buffer_caches(t, start, end))
  BY DEF KeepsUndo, Fields, invalidate_buffer_caches
<1>3. \A start, end : KeepsUndo(t, BUF_COMPUTE_UNCHANGED(t, start, end))
  BY DEF KeepsUndo, Fields, BUF_COMPUTE_UNCHANGED
<1>4. \A len : KeepsUndo(t, modiff_incr(t, len))
  BY DEF KeepsUndo, Fields, modiff_incr
<1>5. KeepsUndo(t, LowerEnd(t)) /\ KeepsUndo(t, LowerBoth(t))
  BY DEF KeepsUndo, Fields, LowerEnd, LowerBoth
<1>6. \A p : KeepsUndo(t, GapAt(t, p))
  BY DEF KeepsUndo, Fields, GapAt
<1>7. \A chars : KeepsUndo(t, TakeIn(t, chars))
  BY DEF KeepsUndo, Fields, TakeIn
<1>8. \A from, to : KeepsUndo(t, GiveUp(t, from, to))
  BY DEF KeepsUndo, Fields, GiveUp
<1>9. \A n, k : KeepsUndo(t, adjust_point(t, n, k))
  BY DEF KeepsUndo, Fields, adjust_point
<1>10. \A from, to : KeepsUndo(t, adjust_markers_for_delete(t, from, to))
  BY DEF KeepsUndo, Fields, adjust_markers_for_delete
<1>11. \A from, to, goes : KeepsUndo(t, adjust_markers_for_insert(t, from, to, goes))
  BY DEF KeepsUndo, Fields, adjust_markers_for_insert
<1>12. \A from : KeepsUndo(t, adjust_markers_bytepos(t, from))
  BY DEF KeepsUndo, Fields, adjust_markers_bytepos
<1>13. \A c, ch : KeepsUndo(t, Overwrite(t, c, ch))
  BY DEF KeepsUndo, Fields, Overwrite
<1>. QED BY <1>1, <1>2, <1>3, <1>4, <1>5, <1>6, <1>7, <1>8, <1>9, <1>10, <1>11, <1>12, <1>13

LEMMA ReplacedMarkersKeep ==
  ASSUME NEW t, DOMAIN t = Fields, NEW from, NEW to, NEW chars
  PROVE  KeepsUndo(t, adjust_markers_for_replace(t, from, to, chars))
<1>1. CASE from = to
  BY <1>1, KeptByAll DEF adjust_markers_for_replace
<1>2. CASE from # to
  BY <1>2 DEF KeepsUndo, Fields, adjust_markers_for_replace
<1>. QED BY <1>1, <1>2

(* Neither is point or a marker moved with the gap. *)
LEMMA GapKeeps ==
  ASSUME NEW t, DOMAIN t = Fields
  PROVE  /\ \A p, stop : KeepsUndo(t, gap_motion(t, p, stop))
         /\ \A p, stop : SamePlaces(t, gap_motion(t, p, stop))
         /\ \A p : KeepsUndo(t, move_gap_both(t, p))
<1>1. ASSUME NEW p, NEW stop
      PROVE  KeepsUndo(t, gap_motion(t, p, stop)) /\ SamePlaces(t, gap_motion(t, p, stop))
  <2>. DEFINE v == BUF_COMPUTE_UNCHANGED(t, p.c, t.gpt.c)
              u == GapAt(v, stop)
  <2>1. DOMAIN v = Fields /\ SamePlaces(t, v) /\ SameUndo(t, v)
    BY OfUnchanged
  <2>. HIDE DEF v
  <2>2. DOMAIN u = Fields /\ SamePlaces(v, u) /\ SameUndo(v, u)
    BY <2>1, OfGapAt
  <2>. HIDE DEF u
  <2>3. KeepsUndo(t, u) /\ SamePlaces(t, u)
    BY <2>1, <2>2 DEF SamePlaces, SameUndo, KeepsUndo
  <2>. QED BY <2>3 DEF gap_motion, u, v
<1>2. ASSUME NEW p PROVE KeepsUndo(t, move_gap_both(t, p))
  BY <1>1, KeptByAll DEF move_gap_both
<1>. QED BY <1>1, <1>2

LEMMA TowardKeeps ==
  ASSUME NEW t, DOMAIN t = Fields, NEW from, NEW to
  PROVE  KeepsUndo(t, GapToward(t, from, to)) /\ SamePlaces(t, GapToward(t, from, to))
<1>. DEFINE right == IF from.c > t.gpt.c THEN gap_motion(t, from, from) ELSE t
            u == IF to.c < right.gpt.c THEN gap_motion(right, to, to) ELSE right
<1>1. KeepsUndo(t, right) /\ SamePlaces(t, right)
  BY GapKeeps, KeptByAll DEF SamePlaces
<1>. HIDE DEF right
<1>2. KeepsUndo(right, u) /\ SamePlaces(right, u)
  BY <1>1, GapKeeps, KeptByAll DEF SamePlaces, KeepsUndo
<1>. HIDE DEF u
<1>3. KeepsUndo(t, u) /\ SamePlaces(t, u)
  BY <1>1, <1>2, KeepsTwice DEF SamePlaces
<1>. QED BY <1>3 DEF GapToward, u, right

LEMMA CleanIsBoolean == \A t : Clean(t) \in BOOLEAN
  BY DEF Clean

LEMMA InsertRecorded ==
  ASSUME NEW t, DOMAIN t = Fields, NEW beg, NEW length
  PROVE  LET u == RecordInsert(t, beg, length) IN
         /\ DOMAIN u = Fields /\ SamePlaces(t, u)
         /\ \E clean \in BOOLEAN :
              u.undo_list = record_insert(t.undo_list, beg, length, point_before, clean)
<1>. DEFINE u == RecordInsert(t, beg, length)
<1>1. /\ DOMAIN u = Fields /\ SamePlaces(t, u)
      /\ u.undo_list = record_insert(t.undo_list, beg, length, point_before, Clean(t))
  BY DEF RecordInsert, Fields, SamePlaces
<1>. HIDE DEF u
<1>. QED BY <1>1, CleanIsBoolean DEF u

LEMMA DeleteRecorded ==
  ASSUME NEW t, DOMAIN t = Fields, NEW beg, NEW chars, NEW marks
  PROVE  LET u == RecordDelete(t, beg, chars, marks) IN
         /\ DOMAIN u = Fields /\ SamePlaces(t, u)
         /\ \E clean \in BOOLEAN :
              u.undo_list = record_delete(t.undo_list, beg, chars, marks, CharPositions(t), t.pt.c,
                                          point_before, clean)
<1>. DEFINE u == RecordDelete(t, beg, chars, marks)
<1>1. /\ DOMAIN u = Fields /\ SamePlaces(t, u)
      /\ u.undo_list = record_delete(t.undo_list, beg, chars, marks, CharPositions(t), t.pt.c,
                                     point_before, Clean(t))
  BY DEF RecordDelete, Fields, SamePlaces
<1>. HIDE DEF u
<1>. QED BY <1>1, CleanIsBoolean DEF u

LEMMA Insert1Recorded ==
  ASSUME NEW t, DOMAIN t = Fields, NEW new, NEW before_markers
  PROVE  LET u == insert_1_both(t, new, before_markers) IN
         /\ DOMAIN u = Fields
         /\ \E clean \in BOOLEAN :
              u.undo_list = record_insert(t.undo_list, t.pt.c, Len(new), point_before, clean)
<1>. DEFINE at == t.pt
            a  == invalidate_buffer_caches(t, at.c, at.c)
            t1 == move_gap_both(a, at)
            r  == RecordInsert(t1, at.c, Len(new))
            t2 == modiff_incr(r, Len(new))
            v  == TakeIn(t2, new)
            t3 == LowerEnd(v)
            t4 == adjust_markers_for_insert(t3, at, Shift(at, Len(new), Bytes(new)), before_markers)
            u  == adjust_point(t4, Len(new), Bytes(new))
<1>1. KeepsUndo(t, a)
  BY KeptByAll
<1>. HIDE DEF a
<1>2. KeepsUndo(a, t1)
  BY <1>1, KeptFields, GapKeeps
<1>. HIDE DEF t1
<1>3. /\ DOMAIN r = Fields
      /\ \E clean \in BOOLEAN :
           r.undo_list = record_insert(t1.undo_list, at.c, Len(new), point_before, clean)
  BY <1>2, KeptFields, InsertRecorded
<1>. HIDE DEF r
<1>4. KeepsUndo(r, t2)
  BY <1>3, KeptByAll
<1>. HIDE DEF t2
<1>5. KeepsUndo(t2, v)
  BY <1>4, KeptFields, KeptByAll
<1>. HIDE DEF v
<1>6. KeepsUndo(v, t3)
  BY <1>5, KeptFields, KeptByAll
<1>. HIDE DEF t3
<1>7. KeepsUndo(t3, t4)
  BY <1>6, KeptFields, KeptByAll
<1>. HIDE DEF t4
<1>8. KeepsUndo(t4, u)
  BY <1>7, KeptFields, KeptByAll
<1>. HIDE DEF u
<1>9. /\ DOMAIN u = Fields
      /\ \E clean \in BOOLEAN :
           u.undo_list = record_insert(t.undo_list, at.c, Len(new), point_before, clean)
  BY <1>1, <1>2, <1>3, <1>4, <1>5, <1>6, <1>7, <1>8 DEF KeepsUndo
<1>. QED BY <1>9 DEF insert_1_both, u, t4, t3, v, t2, r, t1, a

LEMMA FromGapRecorded ==
  ASSUME NEW t, DOMAIN t = Fields, NEW new, NEW before_markers
  PROVE  LET u == insert_from_gap(t, new, before_markers) IN
         /\ DOMAIN u = Fields
         /\ \E clean \in BOOLEAN :
              u.undo_list = record_insert(t.undo_list, t.gpt.c, Len(new), point_before, clean)
<1>. DEFINE at == t.gpt
            a  == invalidate_buffer_caches(t, at.c, at.c)
            r  == RecordInsert(a, at.c, Len(new))
            t2 == modiff_incr(r, Len(new))
            v  == TakeIn(t2, new)
            t3 == adjust_markers_for_insert(v, at, Shift(at, Len(new), Bytes(new)), before_markers)
            u  == IF at.c < t.pt.c THEN adjust_point(t3, Len(new), Bytes(new)) ELSE t3
<1>1. KeepsUndo(t, a)
  BY KeptByAll
<1>. HIDE DEF a
<1>2. /\ DOMAIN r = Fields
      /\ \E clean \in BOOLEAN :
           r.undo_list = record_insert(a.undo_list, at.c, Len(new), point_before, clean)
  BY <1>1, KeptFields, InsertRecorded
<1>. HIDE DEF r
<1>3. KeepsUndo(r, t2)
  BY <1>2, KeptByAll
<1>. HIDE DEF t2
<1>4. KeepsUndo(t2, v)
  BY <1>3, KeptFields, KeptByAll
<1>. HIDE DEF v
<1>5. KeepsUndo(v, t3)
  BY <1>4, KeptFields, KeptByAll
<1>. HIDE DEF t3
<1>6. KeepsUndo(t3, u)
  BY <1>5, KeptFields, KeptByAll
<1>. HIDE DEF u
<1>7. /\ DOMAIN u = Fields
      /\ \E clean \in BOOLEAN :
           u.undo_list = record_insert(t.undo_list, at.c, Len(new), point_before, clean)
  BY <1>1, <1>2, <1>3, <1>4, <1>5, <1>6 DEF KeepsUndo
<1>. QED BY <1>7 DEF insert_from_gap, u, t3, v, t2, r, a

LEMMA DelRangeRecorded ==
  ASSUME NEW t, DOMAIN t = Fields, NEW from, NEW to
  PROVE  LET u == del_range_2(t, from, to) IN
         /\ DOMAIN u = Fields
         /\ \E clean \in BOOLEAN :
              u.undo_list = record_delete(t.undo_list, from.c, Between(t, from.c, to.c), TRUE,
                                          CharPositions(t), t.pt.c, point_before, clean)
<1>. DEFINE g  == GapToward(t, from, to)
            d  == Between(t, from.c, to.c)
            t1 == RecordDelete(g, from.c, d, TRUE)
            ma == adjust_markers_for_delete(t1, from, to)
            t2 == modiff_incr(ma, to.c - from.c)
            past == IF Less(to, t.pt) THEN to ELSE t.pt
            t3 == IF Less(from, t.pt) THEN adjust_point(t2, from.c - past.c, from.b - past.b) ELSE t2
            v  == GiveUp(t3, from, to)
            u  == LowerBoth(v)
<1>1. KeepsUndo(t, g) /\ CharPositions(g) = CharPositions(t) /\ g.pt = t.pt
  BY TowardKeeps DEF SamePlaces, CharPositions
<1>. HIDE DEF g, d
<1>2. /\ DOMAIN t1 = Fields
      /\ \E clean \in BOOLEAN :
           t1.undo_list = record_delete(g.undo_list, from.c, d, TRUE, CharPositions(g), g.pt.c,
                                        point_before, clean)
  BY <1>1, DeleteRecorded DEF KeepsUndo
<1>. HIDE DEF t1
<1>3. KeepsUndo(t1, ma)
  BY <1>2, KeptByAll
<1>. HIDE DEF ma
<1>4. KeepsUndo(ma, t2)
  BY <1>3, KeptFields, KeptByAll
<1>. HIDE DEF t2, past
<1>5. KeepsUndo(t2, t3)
  BY <1>4, KeptFields, KeptByAll
<1>. HIDE DEF t3
<1>6. KeepsUndo(t3, v)
  BY <1>5, KeptFields, KeptByAll
<1>. HIDE DEF v
<1>7. KeepsUndo(v, u)
  BY <1>6, KeptFields, KeptByAll
<1>. HIDE DEF u
<1>8. /\ DOMAIN u = Fields
      /\ \E clean \in BOOLEAN :
           u.undo_list = record_delete(t.undo_list, from.c, d, TRUE, CharPositions(t), t.pt.c,
                                       point_before, clean)
  BY <1>1, <1>2, <1>3, <1>4, <1>5, <1>6, <1>7 DEF KeepsUndo
<1>. QED BY <1>8 DEF del_range_2, u, v, t3, past, t2, ma, t1, d, g

(* The deletion is recorded on top of the insertion. *)
ReplacementRecorded(list, new_list, from, to, old, n) ==
  \E c1, c2 \in BOOLEAN : \E charpos, p :
    new_list = record_delete(record_insert(list, to, n, point_before, c1), from, old, FALSE,
                             charpos, p, point_before, c2)

LEMMA ReplaceRecorded ==
  ASSUME NEW t, DOMAIN t = Fields, NEW from, NEW to, NEW new
  PROVE  LET u == replace_range(t, from, to, new) IN
         /\ DOMAIN u = Fields
         /\ ReplacementRecorded(t.undo_list, u.undo_list, from.c, to.c, Between(t, from.c, to.c),
                                Len(new))
<1>. DEFINE a  == invalidate_buffer_caches(t, from.c, to.c)
            t1 == GapToward(a, from, to)
            g  == GiveUp(t1, from, to)
            t2 == LowerBoth(g)
            t3 == RecordInsert(t2, to.c, Len(new))
            d  == Between(t, from.c, to.c)
            t4 == RecordDelete(t3, from.c, d, FALSE)
            v  == TakeIn(t4, new)
            t5 == adjust_markers_for_replace(v, from, to, new)
            past == IF Less(to, t.pt) THEN to ELSE t.pt
            t6 == IF Less(from, t.pt) \/ t.pt.c = to.c
                  THEN adjust_point(t5, from.c + Len(new) - past.c, from.b + Bytes(new) - past.b)
                  ELSE t5
            u  == modiff_incr(t6, (to.c - from.c) + Len(new))
<1>1. KeepsUndo(t, a)
  BY KeptByAll
<1>. HIDE DEF a
<1>2. KeepsUndo(a, t1)
  BY <1>1, KeptFields, TowardKeeps
<1>. HIDE DEF t1
<1>3. KeepsUndo(t1, g)
  BY <1>2, KeptFields, KeptByAll
<1>. HIDE DEF g
<1>4. KeepsUndo(g, t2)
  BY <1>3, KeptFields, KeptByAll
<1>. HIDE DEF t2
<1>5. /\ DOMAIN t3 = Fields
      /\ \E clean \in BOOLEAN :
           t3.undo_list = record_insert(t2.undo_list, to.c, Len(new), point_before, clean)
  BY <1>4, KeptFields, InsertRecorded
<1>. HIDE DEF t3, d
<1>6. /\ DOMAIN t4 = Fields
      /\ \E clean \in BOOLEAN :
           t4.undo_list = record_delete(t3.undo_list, from.c, d, FALSE, CharPositions(t3), t3.pt.c,
                                        point_before, clean)
  BY <1>5, DeleteRecorded
<1>. HIDE DEF t4
<1>7. KeepsUndo(t4, v)
  BY <1>6, KeptByAll
<1>. HIDE DEF v
<1>8. KeepsUndo(v, t5)
  BY <1>7, KeptFields, ReplacedMarkersKeep
<1>. HIDE DEF t5, past
<1>9. KeepsUndo(t5, t6)
  BY <1>8, KeptFields, KeptByAll
<1>. HIDE DEF t6
<1>10. KeepsUndo(t6, u)
  BY <1>9, KeptFields, KeptByAll
<1>. HIDE DEF u
<1>11. /\ DOMAIN u = Fields /\ u.undo_list = t4.undo_list
       /\ t2.undo_list = t.undo_list
  BY <1>1, <1>2, <1>3, <1>4, <1>7, <1>8, <1>9, <1>10 DEF KeepsUndo
<1>12. ReplacementRecorded(t.undo_list, u.undo_list, from.c, to.c, d, Len(new))
  BY <1>5, <1>6, <1>11 DEF ReplacementRecorded
<1>. QED BY <1>11, <1>12
     DEF replace_range, u, t6, past, t5, v, t4, d, t3, t2, g, t1, a

(* casify_region records all at its ends, none in its turns. *)
LEMMA Replace2Keeps ==
  ASSUME NEW t, DOMAIN t = Fields, NEW from, NEW to, NEW new
  PROVE  KeepsUndo(t, replace_range_2(t, from, to, new))
<1>. DEFINE g  == GapToward(t, from, to)
            o  == GiveUp(g, from, to)
            l  == LowerBoth(o)
            v  == TakeIn(l, new)
            t2 == adjust_markers_bytepos(v, from)
            t3 == IF Less(from, t.pt)
                  THEN adjust_point(t2, Len(new) - (to.c - from.c), Bytes(new) - (to.b - from.b))
                  ELSE t2
            u  == modiff_incr(t3, (to.c - from.c) + Len(new))
<1>1. KeepsUndo(t, g)
  BY TowardKeeps
<1>. HIDE DEF g
<1>2. KeepsUndo(g, o)
  BY <1>1, KeptFields, KeptByAll
<1>. HIDE DEF o
<1>3. KeepsUndo(o, l)
  BY <1>2, KeptFields, KeptByAll
<1>. HIDE DEF l
<1>4. KeepsUndo(l, v)
  BY <1>3, KeptFields, KeptByAll
<1>. HIDE DEF v
<1>5. KeepsUndo(v, t2)
  BY <1>4, KeptFields, KeptByAll
<1>. HIDE DEF t2
<1>6. KeepsUndo(t2, t3)
  BY <1>5, KeptFields, KeptByAll
<1>. HIDE DEF t3
<1>7. KeepsUndo(t3, u)
  BY <1>6, KeptFields, KeptByAll
<1>. HIDE DEF u
<1>8. KeepsUndo(t, u)
  BY <1>1, <1>2, <1>3, <1>4, <1>5, <1>6, <1>7 DEF KeepsUndo
<1>. QED BY <1>8 DEF replace_range_2, u, t3, t2, v, l, o, g

LEMMA TurnKeeps ==
  ASSUME NEW a, DOMAIN a.t = Fields, NEW ch
  PROVE  KeepsUndo(a.t, casify_one(a, ch).t)
<1>. DEFINE new  == Upcase[ch]
            from == Both(a.t, a.pos)
            to   == Shift(from, 1, CharLen[ch])
<1>1. casify_one(a, ch).t
      = IF new = <<ch>> THEN a.t
        ELSE IF Len(new) = 1 /\ Bytes(new) = CharLen[ch]
        THEN Overwrite(a.t, a.pos, new[1])
        ELSE replace_range_2(a.t, from, to, new)
  BY DEF casify_one
<1>. HIDE DEF new, from, to
<1>2. KeepsUndo(a.t, a.t) /\ KeepsUndo(a.t, Overwrite(a.t, a.pos, new[1]))
      /\ KeepsUndo(a.t, replace_range_2(a.t, from, to, new))
  BY KeptByAll, Replace2Keeps
<1>. QED BY <1>1, <1>2

LEMMA TurnsKeep ==
  ASSUME NEW first, DOMAIN first = Fields, NEW chars, NEW from \in Nat, NEW to \in Nat, from <= to,
         NEW g, Turns(g, first, chars, from, to)
  PROVE  KeepsUndo(first, g[to].t)
<1>. DEFINE S == {k \in Nat : k <= to - from => KeepsUndo(first, g[from + k].t)}
<1>1. /\ g[from].t = first /\ \A i \in from .. to - 1 : g[i + 1] = casify_one(g[i], chars[i])
  BY DEF Turns
<1>2. 0 \in S
  <2>1. from + 0 = from
    OBVIOUS
  <2>. QED BY <1>1, <2>1, KeptByAll
<1>3. ASSUME NEW k \in Nat, k \in S PROVE k + 1 \in S
  <2>1. SUFFICES ASSUME k + 1 <= to - from PROVE KeepsUndo(first, g[from + (k + 1)].t)
    OBVIOUS
  <2>2. from + k \in from .. to - 1 /\ from + (k + 1) = (from + k) + 1 /\ k <= to - from
    BY <2>1
  <2>3. KeepsUndo(first, g[from + k].t)
    BY <1>3, <2>2
  <2>4. KeepsUndo(g[from + k].t, g[(from + k) + 1].t)
    BY <1>1, <2>2, <2>3, TurnKeeps DEF KeepsUndo
  <2>. QED BY <2>2, <2>3, <2>4, KeepsTwice
<1>4. to - from \in Nat /\ from + (to - from) = to /\ to - from <= to - from
  OBVIOUS
<1>. HIDE DEF S
<1>5. to - from \in S
  BY <1>2, <1>3, <1>4, SetInduction
<1>. QED BY <1>4, <1>5 DEF S

LEMMA ModifyRecords ==
  ASSUME NEW t, DOMAIN t = Fields, NEW start, NEW end
  PROVE  LET u == modify_text(t, start, end) IN
         /\ DOMAIN u = Fields
         /\ u.undo_list \in {t.undo_list, record_first_change(t.undo_list)}
<1>. DEFINE v  == invalidate_buffer_caches(t, start, end)
            t1 == BUF_COMPUTE_UNCHANGED(v, start - 1, end)
            t2 == IF Clean(t) THEN [t1 EXCEPT !.undo_list = record_first_change(@)] ELSE t1
            u  == modiff_incr(t2, end - start)
<1>1. KeepsUndo(t, v)
  BY KeptByAll
<1>. HIDE DEF v
<1>2. KeepsUndo(v, t1)
  BY <1>1, KeptFields, KeptByAll
<1>. HIDE DEF t1
<1>3. /\ DOMAIN t2 = Fields
      /\ t2.undo_list \in {t1.undo_list, record_first_change(t1.undo_list)}
  BY <1>2 DEF KeepsUndo, Fields
<1>. HIDE DEF t2
<1>4. KeepsUndo(t2, u)
  BY <1>3, KeptByAll
<1>. HIDE DEF u
<1>5. DOMAIN u = Fields /\ u.undo_list \in {t.undo_list, record_first_change(t.undo_list)}
  BY <1>1, <1>2, <1>3, <1>4 DEF KeepsUndo
<1>. QED BY <1>5 DEF modify_text, u, t2, t1, v

(* The insertion is recorded on top of the deletion. *)
RecasingRecorded(list, new_list, from, old, n) ==
  \E l \in {list, record_first_change(list)}, c1, c2 \in BOOLEAN : \E charpos, p :
    new_list = record_insert(record_delete(l, from, old, FALSE, charpos, p, point_before, c1),
                             from, n, point_before, c2)

LEMMA CasifyRecorded ==
  ASSUME NEW t, DOMAIN t = Fields, NEW from \in Nat, NEW to \in Nat, from <= to, NEW n \in Nat,
         NEW g, Turns(g, RecordDelete(modify_text(t, from, to), from, Between(t, from, to), FALSE),
                      Chars(t), from, to),
         NEW u, u = RecordInsert(g[to].t, from, n)
  PROVE  RecasingRecorded(t.undo_list, u.undo_list, from, Between(t, from, to), n)
<1>. DEFINE t1 == modify_text(t, from, to)
            d  == Between(t, from, to)
            t2 == RecordDelete(t1, from, d, FALSE)
            w  == g[to].t
<1>1. DOMAIN t1 = Fields /\ t1.undo_list \in {t.undo_list, record_first_change(t.undo_list)}
  BY ModifyRecords
<1>2. Turns(g, t2, Chars(t), from, to)
  OBVIOUS
<1>. HIDE DEF t1, d
<1>3. /\ DOMAIN t2 = Fields
      /\ \E clean \in BOOLEAN :
           t2.undo_list = record_delete(t1.undo_list, from, d, FALSE, CharPositions(t1), t1.pt.c,
                                        point_before, clean)
  BY <1>1, DeleteRecorded
<1>. HIDE DEF t2
<1>4. KeepsUndo(t2, w)
  BY <1>2, <1>3, TurnsKeep
<1>. HIDE DEF w
<1>5. \E clean \in BOOLEAN :
        u.undo_list = record_insert(w.undo_list, from, n, point_before, clean)
  <2>1. DOMAIN w = Fields
    BY <1>4, KeptFields
  <2>2. u = RecordInsert(w, from, n)
    BY DEF w
  <2>. QED BY <2>1, <2>2, InsertRecorded
<1>6. w.undo_list = t2.undo_list
  BY <1>4 DEF KeepsUndo
<1>7. RecasingRecorded(t.undo_list, u.undo_list, from, d, n)
  BY <1>1, <1>3, <1>5, <1>6 DEF RecasingRecorded
<1>. QED BY <1>7 DEF d

-------------------------------------------------------------------------------
(* Undoing after each command                                                *)

LEMMA SpliceAgain ==
  ASSUME NEW c \in Seq(Char), NEW from \in Places(c), NEW to \in Places(c), from <= to,
         NEW new \in Seq(Char)
  PROVE  LET e == Splice(c, from, to, <<>>) IN
         /\ e \in Seq(Char) /\ from \in Places(e)
         /\ Splice(e, from, from, new) = Splice(c, from, to, new)
<1>. DEFINE p == SubSeq(c, 1, from - 1)
            y == SubSeq(c, to, Len(c))
            e == Splice(c, from, to, <<>>)
<1>1. /\ p \in Seq(Char) /\ Len(p) + 1 = from /\ y \in Seq(Char)
      /\ Len(p) \in Nat /\ Len(y) \in Nat
  BY TwoParts, LenProperties DEF BEG
<1>2. e = p \o y
  BY <1>1, ConcatEmptySeq DEF Splice
<1>3. Splice(c, from, to, new) = (p \o new) \o y
  BY DEF Splice
<1>. HIDE DEF p, y, e
<1>4. e \in Seq(Char) /\ Len(e) = Len(p) + Len(y)
  BY <1>1, <1>2, ConcatProperties
<1>5. SubSeq(e, 1, Len(p)) = p /\ SubSeq(e, Len(p) + 1, Len(e)) = y
  BY <1>1, <1>2, EndsOfJoin
<1>6. from - 1 = Len(p)
  BY <1>1
<1>7. Splice(e, from, from, new) = (p \o new) \o y
  BY <1>1, <1>5, <1>6 DEF Splice
<1>8. from \in Places(e)
  BY <1>1, <1>4 DEF Places
<1>. QED BY <1>3, <1>4, <1>7, <1>8 DEF e

(* The text is D again once what is on the list of T is undone. *)
Restores(t, d) == Undoes(Chars(t), t.undo_list, d)

LEMMA InsertionRestores ==
  ASSUME NEW t, Good(t), NEW d, Restores(t, d), NEW u, NEW at, Place(Chars(t), at),
         NEW new \in Seq(Char), Chars(u) = Splice(Chars(t), at.c, at.c, new), point_before \in Nat,
         \E clean \in BOOLEAN :
           u.undo_list = record_insert(t.undo_list, at.c, Len(new), point_before, clean)
  PROVE  Restores(u, d)
<1>1. Chars(t) \in Seq(Char) /\ at.c \in Places(Chars(t)) /\ point_before \in Int
  BY GoodParts, PlaceType
<1>2. PICK clean \in BOOLEAN :
        u.undo_list = record_insert(t.undo_list, at.c, Len(new), point_before, clean)
  OBVIOUS
<1>. QED BY <1>1, <1>2, InsertUndone DEF Restores

(* The record of a deletion undoes it. *)
LEMMA RecordPutsBack ==
  ASSUME NEW c \in Seq(Char), NEW from \in Places(c), NEW to \in Places(c), from <= to,
         NEW new \in Seq(Char)
  PROVE  LET e == Splice(c, from, to, new)
             old == SubSeq(c, from, to - 1) IN
         /\ old \in Seq(Char) /\ Len(old) = to - from
         /\ SubSeq(e, 1, from - 1) \o old \o SubSeq(e, from, Len(e)) = Splice(c, to, to, new)
<1>. DEFINE old == SubSeq(c, from, to - 1)
            r == [k |-> "delete", chars |-> old, pos |-> from]
            e == Splice(c, from, to, new)
<1>1. old \in Seq(Char) /\ Len(old) = to - from
  <2>1. /\ from \in 1 .. Len(c) + 1 /\ to - 1 \in 0 .. Len(c) /\ from <= (to - 1) + 1
        /\ (to - 1) + 1 - from = to - from
    BY LenProperties DEF Places
  <2>. QED BY <2>1, PartType
<1>2. r.k = "delete" /\ r.pos = from /\ r.chars = old
  OBVIOUS
<1>. HIDE DEF r
<1>3. CharsUndone(e, r) = Splice(c, to, to, new)
  BY <1>2, DeletionPutBack
<1>. HIDE DEF old, e
<1>4. CharsUndone(e, r) = SubSeq(e, 1, from - 1) \o old \o SubSeq(e, from, Len(e))
  BY <1>2 DEF CharsUndone
<1>. QED BY <1>1, <1>3, <1>4 DEF old, e

LEMMA DeletionRestores ==
  ASSUME NEW t, Good(t), NEW d, Restores(t, d), NEW u, NEW from \in Places(Chars(t)),
         NEW to \in Places(Chars(t)), from <= to,
         Chars(u) = Splice(Chars(t), from, to, <<>>), point_before \in Nat,
         \E clean \in BOOLEAN :
           u.undo_list = record_delete(t.undo_list, from, Between(t, from, to), TRUE,
                                       CharPositions(t), t.pt.c, point_before, clean)
  PROVE  Restores(u, d)
<1>. DEFINE c == Chars(t)
            e == Splice(c, from, to, <<>>)
            old == SubSeq(c, from, to - 1)
<1>1. c \in Seq(Char) /\ point_before \in Int /\ from \in Int /\ <<>> \in Seq(Char)
  BY GoodParts, EmptySeq DEF Places
<1>2. CharPositions(t) \in [Marker -> Int]
  BY GoodParts DEF CharPositions, Pos
<1>3. PICK clean \in BOOLEAN :
        u.undo_list = record_delete(t.undo_list, from, old, TRUE, CharPositions(t), t.pt.c,
                                    point_before, clean)
  BY DEF Between
<1>4. /\ old \in Seq(Char)
      /\ SubSeq(e, 1, from - 1) \o old \o SubSeq(e, from, Len(e)) = c
  BY <1>1, RecordPutsBack, NothingSpliced
<1>5. Undoes(c, t.undo_list, d) /\ Chars(u) = e
  BY DEF Restores
<1>. DEFINE p == t.pt.c
            charpos == CharPositions(t)
            list == t.undo_list
            marks == TRUE
<1>7. u.undo_list = record_delete(list, from, old, marks, charpos, p, point_before, clean)
  BY <1>3
<1>8. Undoes(c, list, d) /\ charpos \in [Marker -> Int] /\ marks \in BOOLEAN
  BY <1>2, <1>5
<1>. HIDE DEF c, e, old, p, charpos, list, marks
<1>6. Undoes(e, u.undo_list, d)
  <2>1. Undoes(e, record_delete(list, from, old, marks, charpos, p, point_before, clean), d)
    BY <1>1, <1>4, <1>8, DeleteUndone
  <2>. QED BY <1>7, <2>1
<1>. QED BY <1>5, <1>6 DEF Restores

LEMMA ReplacementRestores ==
  ASSUME NEW t, Good(t), NEW d, Restores(t, d), NEW u, NEW from \in Places(Chars(t)),
         NEW to \in Places(Chars(t)), from <= to, NEW new \in Seq(Char),
         Chars(u) = Splice(Chars(t), from, to, new), point_before \in Nat,
         ReplacementRecorded(t.undo_list, u.undo_list, from, to, Between(t, from, to), Len(new))
  PROVE  Restores(u, d)
<1>. DEFINE c == Chars(t)
            e == Splice(c, from, to, new)
            i == Splice(c, to, to, new)
            old == SubSeq(c, from, to - 1)
<1>1. c \in Seq(Char) /\ point_before \in Int /\ from \in Int
  BY GoodParts DEF Places
<1>2. PICK c1 \in BOOLEAN, c2 \in BOOLEAN : \E charpos, p :
        u.undo_list = record_delete(record_insert(t.undo_list, to, Len(new), point_before, c1), from,
                                    old, FALSE, charpos, p, point_before, c2)
  BY DEF ReplacementRecorded, Between
<1>3. PICK charpos, p :
        u.undo_list = record_delete(record_insert(t.undo_list, to, Len(new), point_before, c1), from,
                                    old, FALSE, charpos, p, point_before, c2)
  BY <1>2
<1>4. /\ old \in Seq(Char)
      /\ SubSeq(e, 1, from - 1) \o old \o SubSeq(e, from, Len(e)) = i
  BY <1>1, RecordPutsBack
<1>5. Undoes(c, t.undo_list, d) /\ Chars(u) = e
  BY DEF Restores
<1>6. Undoes(i, record_insert(t.undo_list, to, Len(new), point_before, c1), d)
  BY <1>1, <1>5, InsertUndone
<1>. DEFINE list == record_insert(t.undo_list, to, Len(new), point_before, c1)
<1>8. /\ u.undo_list = record_delete(list, from, old, FALSE, charpos, p, point_before, c2)
      /\ Undoes(i, list, d) /\ FALSE \in BOOLEAN
  BY <1>3, <1>6
<1>. HIDE DEF c, e, old, i, list
<1>7. Undoes(e, u.undo_list, d)
  BY <1>1, <1>4, <1>8, DeleteUndone
<1>. QED BY <1>5, <1>7 DEF Restores

LEMMA RecasingRestores ==
  ASSUME NEW t, Good(t), NEW d, Restores(t, d), NEW u, NEW from \in Places(Chars(t)),
         NEW to \in Places(Chars(t)), from <= to, NEW new \in Seq(Char),
         Chars(u) = Splice(Chars(t), from, to, new), point_before \in Nat,
         RecasingRecorded(t.undo_list, u.undo_list, from, Between(t, from, to), Len(new))
  PROVE  Restores(u, d)
<1>. DEFINE c == Chars(t)
            e == Splice(c, from, to, <<>>)
            old == SubSeq(c, from, to - 1)
<1>1. c \in Seq(Char) /\ point_before \in Int /\ from \in Int /\ <<>> \in Seq(Char)
  BY GoodParts, EmptySeq DEF Places
<1>2. PICK l \in {t.undo_list, record_first_change(t.undo_list)}, c1 \in BOOLEAN, c2 \in BOOLEAN :
        \E charpos, p :
          u.undo_list = record_insert(record_delete(l, from, old, FALSE, charpos, p, point_before, c1),
                                      from, Len(new), point_before, c2)
  BY DEF RecasingRecorded, Between
<1>3. PICK charpos, p :
        u.undo_list = record_insert(record_delete(l, from, old, FALSE, charpos, p, point_before, c1),
                                    from, Len(new), point_before, c2)
  BY <1>2
<1>. DEFINE m == record_delete(l, from, old, FALSE, charpos, p, point_before, c1)
<1>4. /\ old \in Seq(Char)
      /\ SubSeq(e, 1, from - 1) \o old \o SubSeq(e, from, Len(e)) = c
  BY <1>1, RecordPutsBack, NothingSpliced
<1>5. Undoes(c, l, d)
  BY FirstUndone DEF Restores
<1>6. /\ e \in Seq(Char) /\ from \in Places(e)
      /\ Splice(e, from, from, new) = Chars(u)
  BY <1>1, SpliceAgain
<1>. HIDE DEF c, e, old
<1>7. Undoes(e, m, d)
  <2>1. FALSE \in BOOLEAN
    OBVIOUS
  <2>. QED BY <1>1, <1>4, <1>5, <2>1, DeleteUndone
<1>. HIDE DEF m
<1>8. Undoes(Splice(e, from, from, new), u.undo_list, d)
  BY <1>1, <1>3, <1>6, <1>7, InsertUndone DEF m
<1>. QED BY <1>6, <1>8 DEF Restores

LEMMA BoundaryRestores ==
  ASSUME NEW t, NEW d, Restores(t, d), NEW u, Chars(u) = Chars(t),
         u.undo_list = Fundo_boundary(t.undo_list)
  PROVE  Restores(u, d)
<1>1. Boundary \in Record /\ Boundary.k = "boundary"
  BY DEF Boundary, Record
<1>2. Undoes(Chars(t), <<Boundary>> \o t.undo_list, d)
  BY <1>1, NeutralOnTop DEF Restores
<1>3. u.undo_list = t.undo_list \/ u.undo_list = <<Boundary>> \o t.undo_list
  BY DEF Fundo_boundary
<1>. QED BY <1>2, <1>3 DEF Restores

-------------------------------------------------------------------------------
(* The invariant: wherever an undo list is kept, undoing it gives the text   *)
(* it began with; a deletion waits for its hook only where a cache is.       *)
ListRestores ==
  /\ pending # Nil => Looks("cache")
  /\ Looks("undo") \/ Looks("markers") => Restores(buf, setup.chars)

UndoInv == IInv /\ ListRestores

LEMMA UndoInit == Init => UndoInv
<1>. SUFFICES ASSUME Init PROVE UndoInv
  OBVIOUS
<1>1. IInv
  BY InitGood
<1>2. pending = Nil
  BY DEF Init
<1>3. ASSUME Looks("undo") \/ Looks("markers") PROVE Restores(buf, setup.chars)
  <2>1. setup.looks \in {"markers", "undo"}
    BY <1>3 DEF Looks
  <2>. DEFINE len == Len(setup.chars)
              all == [before |-> setup.chars, after |-> <<>>]
  <2>2. PICK g \in 1 .. len + 1, p \in 1 .. len + 1 :
          buf = [before |-> SubSeq(setup.chars, 1, g - 1),
                 after  |-> SubSeq(setup.chars, g, len),
                 gpt |-> Both(all, g), z |-> Both(all, len + 1), pt |-> Both(all, p),
                 markers |-> [m \in Marker |-> Both(all, BEG)],
                 modiff |-> 1, save_modiff |-> 1, unchanged_modified |-> 1,
                 beg_unchanged |-> g - BEG, end_unchanged |-> len + 1 - g,
                 undo_list |-> IF setup.looks \in {"markers", "undo"} THEN <<>> ELSE Qt,
                 newline_cache |-> IF setup.looks = "cache" THEN new_region_cache ELSE Nil]
    BY DEF Init
  <2>3. /\ buf.undo_list = <<>> /\ buf.before = SubSeq(setup.chars, 1, g - 1)
        /\ buf.after = SubSeq(setup.chars, g, len)
    BY <2>1, <2>2
  <2>4. setup.chars \in Seq(Char) /\ g \in Places(setup.chars)
    BY GapBufferAssumption DEF Init, Places
  <2>5. Chars(buf) = setup.chars
    <3>. DEFINE k == setup.chars
                x == SubSeq(k, 1, g - BEG)
                y == SubSeq(k, g, Len(k))
    <3>1. x \o y = k
      BY <2>4, TwoParts
    <3>2. buf.before = x /\ buf.after = y
      BY <2>3 DEF BEG
    <3>. HIDE DEF k, x, y
    <3>3. Chars(buf) = k
      BY <3>1, <3>2, Zenon DEF Chars
    <3>. QED BY <3>3 DEF k
  <2>6. <<>> \in Seq(Record) /\ Len(<<>>) = 0
    BY EmptySeq
  <2>7. \A i \in 1 .. Len(<<>>) : FALSE
    BY <2>6
  <2>8. UndoneTo(setup.chars, <<>>, setup.chars)
    <3>. DEFINE g0 == [i \in {0} |-> setup.chars]
    <3>1. g0[0] = setup.chars
      OBVIOUS
    <3>. HIDE DEF g0
    <3>. QED BY <2>6, <2>7, <3>1 DEF UndoneTo
  <2>9. Undoes(setup.chars, <<>>, setup.chars)
    BY <2>6, <2>7, <2>8 DEF Undoes
  <2>. QED BY <2>3, <2>5, <2>9 DEF Restores
<1>. QED BY <1>1, <1>2, <1>3 DEF UndoInv, ListRestores

LEMMA UndoStill ==
  ASSUME UndoInv, setup' = setup, pending' = Nil,
         Looks("undo") \/ Looks("markers") => Restores(buf', setup.chars)
  PROVE  ListRestores'
  BY DEF ListRestores, Looks

LEMMA UndoKept ==
  ASSUME UndoInv, setup' = setup, pending' = Nil, Chars(buf') = Chars(buf),
         buf'.undo_list = buf.undo_list
  PROVE  ListRestores'
<1>1. Looks("undo") \/ Looks("markers") => Restores(buf', setup.chars)
  BY DEF UndoInv, ListRestores, Restores
<1>. QED BY <1>1, UndoStill

LEMMA UndoStep == UndoInv /\ [Next]_vars => ListRestores'
<1>. SUFFICES ASSUME UndoInv, [Next]_vars PROVE ListRestores'
  OBVIOUS
<1>0. /\ IInv /\ Good(buf) /\ point_before \in Nat /\ DOMAIN buf = Fields
      /\ Place(Chars(buf), buf.pt) /\ point_before \in Int
      /\ (Looks("undo") \/ Looks("markers") => Restores(buf, setup.chars))
  BY GoodParts DEF UndoInv, ListRestores, IInv
<1>1. ASSUME pending = Nil, NEW chars \in setup.pieces, NEW before_markers \in BOOLEAN,
             Insert(chars, before_markers)
      PROVE  ListRestores'
  <2>1. /\ setup' = setup /\ pending' = Nil
        /\ buf' = insert_1_both(buf, chars, before_markers)
    BY <1>1 DEF Insert, Edit, history
  <2>2. Chars(buf') = Splice(Chars(buf), buf.pt.c, buf.pt.c, chars) /\ chars \in Seq(Char)
    BY <1>0, <1>1, DoesInsert, PiecesAreTexts DEF InsertedAt
  <2>3. \E clean \in BOOLEAN :
          buf'.undo_list = record_insert(buf.undo_list, buf.pt.c, Len(chars), point_before, clean)
    BY <1>0, <2>1, Insert1Recorded
  <2>4. ASSUME Looks("undo") \/ Looks("markers") PROVE Restores(buf', setup.chars)
    BY <1>0, <2>2, <2>3, <2>4, InsertionRestores
  <2>. QED BY <2>1, <2>4, UndoStill
<1>2. ASSUME pending = Nil, NEW chars \in setup.pieces, InsertFromGap(chars)
      PROVE  ListRestores'
  <2>. DEFINE m == move_gap_both(buf, buf.pt)
  <2>1. setup' = setup /\ pending' = Nil /\ buf' = insert_from_gap(m, chars, TRUE)
    BY <1>2 DEF InsertFromGap, Edit, history
  <2>2. Chars(buf') = Splice(Chars(buf), buf.pt.c, buf.pt.c, chars) /\ chars \in Seq(Char)
    BY <1>0, <1>2, DoesInsertFromGap, PiecesAreTexts DEF InsertedAt
  <2>3. m.gpt = buf.pt /\ KeepsUndo(buf, m)
    BY <1>0, GoodParts, MoveGapBoth, GapKeeps
  <2>. HIDE DEF m
  <2>4. \E clean \in BOOLEAN :
          buf'.undo_list = record_insert(buf.undo_list, buf.pt.c, Len(chars), point_before, clean)
    BY <2>1, <2>3, FromGapRecorded DEF KeepsUndo
  <2>5. ASSUME Looks("undo") \/ Looks("markers") PROVE Restores(buf', setup.chars)
    BY <1>0, <2>2, <2>4, <2>5, InsertionRestores
  <2>. QED BY <2>1, <2>5, UndoStill
<1>3. ASSUME pending = Nil, NEW from \in Position, NEW to \in Position, del_range(from, to)
      PROVE  ListRestores'
  <2>. DEFINE v == invalidate_buffer_caches(buf, from, to)
  <2>1. setup' = setup /\ pending' = Nil /\ buf' = del_range_2(v, Both(buf, from), Both(buf, to))
    BY <1>3 DEF del_range, Edit, history
  <2>2. from < to /\ Chars(buf') = Splice(Chars(buf), from, to, <<>>)
    BY <1>0, <1>3, DoesDelete DEF DeletedFrom
  <2>3. /\ from \in Places(Chars(buf)) /\ to \in Places(Chars(buf)) /\ from \in Nat /\ to \in Nat
        /\ Both(buf, from).c = from /\ Both(buf, to).c = to
    BY <1>0, PositionPlace
  <2>4. KeepsUndo(buf, v) /\ Kept(buf, v)
    BY <1>0, KeptByAll, CachesKept
  <2>. HIDE DEF v
  <2>5. /\ Between(v, from, to) = Between(buf, from, to) /\ v.pt = buf.pt
        /\ CharPositions(v) = CharPositions(buf)
    BY <2>4 DEF Kept, Between, CharPositions
  <2>6. \E clean \in BOOLEAN :
          buf'.undo_list = record_delete(v.undo_list, Both(buf, from).c,
                                         Between(v, Both(buf, from).c, Both(buf, to).c), TRUE,
                                         CharPositions(v), v.pt.c, point_before, clean)
    BY <2>1, <2>4, DelRangeRecorded DEF KeepsUndo
  <2>7. \E clean \in BOOLEAN :
          buf'.undo_list = record_delete(buf.undo_list, from, Between(buf, from, to), TRUE,
                                         CharPositions(buf), buf.pt.c, point_before, clean)
    BY <2>3, <2>4, <2>5, <2>6 DEF KeepsUndo
  <2>8. from <= to
    BY <2>2, <2>3
  <2>9. ASSUME Looks("undo") \/ Looks("markers") PROVE Restores(buf', setup.chars)
    BY <1>0, <2>2, <2>3, <2>7, <2>8, <2>9, DeletionRestores
  <2>. QED BY <2>1, <2>9, UndoStill
<1>4. ASSUME NEW from \in Position, NEW to \in Position, NEW pos \in Position,
             NEW chars \in setup.pieces, prepare_to_modify_buffer(from, to, pos, chars)
      PROVE  ListRestores'
  BY <1>4 DEF prepare_to_modify_buffer, ListRestores, Looks
<1>5. ASSUME pending = Nil, NEW from \in Position, NEW to \in Position, NEW chars \in setup.pieces,
             Replace(from, to, chars)
      PROVE  ListRestores'
  <2>1. setup' = setup /\ pending' = Nil
        /\ buf' = replace_range(buf, Both(buf, from), Both(buf, to), chars)
    BY <1>5 DEF Replace, Edit, history
  <2>2. /\ from < to /\ Chars(buf') = Splice(Chars(buf), from, to, chars)
        /\ chars \in Seq(Char)
    BY <1>0, <1>5, DoesReplace, PiecesAreTexts DEF ReplacedBy
  <2>3. /\ from \in Places(Chars(buf)) /\ to \in Places(Chars(buf)) /\ from \in Nat /\ to \in Nat
        /\ Both(buf, from).c = from /\ Both(buf, to).c = to
    BY <1>0, PositionPlace
  <2>4. ReplacementRecorded(buf.undo_list, buf'.undo_list, from, to, Between(buf, from, to),
                            Len(chars))
    <3>1. ReplacementRecorded(buf.undo_list, buf'.undo_list, Both(buf, from).c, Both(buf, to).c,
                              Between(buf, Both(buf, from).c, Both(buf, to).c), Len(chars))
      BY <1>0, <2>1, ReplaceRecorded
    <3>. QED BY <2>3, <3>1
  <2>5. from <= to
    BY <2>2, <2>3
  <2>6. ASSUME Looks("undo") \/ Looks("markers") PROVE Restores(buf', setup.chars)
    BY <1>0, <2>2, <2>3, <2>4, <2>5, <2>6, ReplacementRestores
  <2>. QED BY <2>1, <2>6, UndoStill
<1>6. ASSUME pending = Nil, NEW from \in Position, NEW to \in Position, Casify(from, to)
      PROVE  ListRestores'
  <2>1. setup' = setup /\ pending' = Nil /\ from < to /\ buf' = casify_region(buf, from, to)
    BY <1>6 DEF Casify
  <2>2. /\ from \in Places(Chars(buf)) /\ to \in Places(Chars(buf)) /\ from \in Nat /\ to \in Nat
    BY <1>0, PositionPlace
  <2>3. PICK new \in Seq(Char) :
          /\ Recased(buf, buf', from, to, new)
          /\ \E g : /\ Turns(g, RecordDelete(modify_text(buf, from, to), from,
                                             Between(buf, from, to), FALSE),
                             Chars(buf), from, to)
                    /\ buf' = RecordInsert(g[to].t, from, Len(new))
    BY <1>0, <2>1, <2>2, CasifyRegion
  <2>4. from <= to /\ Len(new) \in Nat
    BY <2>1, <2>2, LenProperties
  <2>5. RecasingRecorded(buf.undo_list, buf'.undo_list, from, Between(buf, from, to), Len(new))
    BY <1>0, <2>2, <2>3, <2>4, CasifyRecorded
  <2>6. Chars(buf') = Splice(Chars(buf), from, to, new)
    BY <2>3 DEF Recased
  <2>7. ASSUME Looks("undo") \/ Looks("markers") PROVE Restores(buf', setup.chars)
    BY <1>0, <2>2, <2>4, <2>5, <2>6, <2>7, RecasingRestores
  <2>. QED BY <2>1, <2>7, UndoStill
<1>7. ASSUME pending = Nil, NEW stop \in Position, QuitInGapMotion(stop)
      PROVE  ListRestores'
  <2>1. setup' = setup /\ pending' = Nil /\ Looks("display")
    BY <1>7 DEF QuitInGapMotion
  <2>2. ~(Looks("undo") \/ Looks("markers"))
    BY <2>1 DEF Looks
  <2>. QED BY <2>1, <2>2, UndoStill
<1>8. ASSUME pending = Nil, NEW pos \in Position, goto_char(pos)
      PROVE  ListRestores'
  <2>1. setup' = setup /\ pending' = Nil /\ buf' = [buf EXCEPT !.pt = Both(buf, pos)]
    BY <1>8 DEF goto_char, history
  <2>2. buf'.undo_list = buf.undo_list
    BY <1>0, <2>1 DEF Fields
  <2>3. Chars(buf') = Chars(buf)
    BY <1>0, <1>8, DoesGoto
  <2>. QED BY <2>1, <2>2, <2>3, UndoKept
<1>9. ASSUME pending = Nil, NEW m \in Marker, NEW pos \in Position, set_marker(m, pos)
      PROVE  ListRestores'
  <2>1. setup' = setup /\ pending' = Nil /\ buf' = [buf EXCEPT !.markers[m] = Both(buf, pos)]
    BY <1>9 DEF set_marker, history
  <2>2. buf'.undo_list = buf.undo_list
    BY <1>0, <2>1 DEF Fields
  <2>3. Chars(buf') = Chars(buf)
    BY <1>0, <1>9, DoesSetMarker
  <2>. QED BY <2>1, <2>2, <2>3, UndoKept
<1>10. ASSUME pending = Nil, set_buffer_unmodified
       PROVE  ListRestores'
  <2>1. setup' = setup /\ pending' = Nil /\ buf' = [buf EXCEPT !.save_modiff = buf.modiff]
    BY <1>10 DEF set_buffer_unmodified, history
  <2>2. buf'.undo_list = buf.undo_list
    BY <1>0, <2>1 DEF Fields
  <2>3. Chars(buf') = Chars(buf)
    BY <1>0, <1>10, DoesNothing DEF Kept
  <2>. QED BY <2>1, <2>2, <2>3, UndoKept
<1>11. ASSUME pending = Nil, undo_boundary
       PROVE  ListRestores'
  <2>1. setup' = setup /\ pending' = Nil
        /\ buf' = [buf EXCEPT !.undo_list = Fundo_boundary(@)]
    BY <1>11 DEF undo_boundary, history
  <2>2. buf'.undo_list = Fundo_boundary(buf.undo_list)
    BY <1>0, <2>1 DEF Fields
  <2>3. Chars(buf') = Chars(buf)
    BY <1>0, <1>11, DoesNothing DEF Kept
  <2>4. ASSUME Looks("undo") \/ Looks("markers") PROVE Restores(buf', setup.chars)
    BY <1>0, <2>2, <2>3, <2>4, BoundaryRestores
  <2>. QED BY <2>1, <2>4, UndoStill
<1>12. ASSUME pending = Nil, NEW start \in Position, find_newline(start)
       PROVE  ListRestores'
  <2>1. setup' = setup /\ pending' = Nil /\ Looks("cache")
    BY <1>12 DEF find_newline, history
  <2>2. ~(Looks("undo") \/ Looks("markers"))
    BY <2>1 DEF Looks
  <2>. QED BY <2>1, <2>2, UndoStill
<1>13. ASSUME pending = Nil, mark_window_display_accurate
       PROVE  ListRestores'
  <2>1. setup' = setup /\ pending' = Nil /\ Looks("display")
    BY <1>13 DEF mark_window_display_accurate
  <2>2. ~(Looks("undo") \/ Looks("markers"))
    BY <2>1 DEF Looks
  <2>. QED BY <2>1, <2>2, UndoStill
<1>14. ASSUME del_range_1
       PROVE  ListRestores'
  <2>1. setup' = setup /\ pending' = Nil /\ pending # Nil
    BY <1>14 DEF del_range_1, history
  <2>2. Looks("cache")
    BY <2>1 DEF UndoInv, ListRestores
  <2>3. ~(Looks("undo") \/ Looks("markers"))
    BY <2>2 DEF Looks
  <2>. QED BY <2>1, <2>3, UndoStill
<1>15. ASSUME UNCHANGED vars
       PROVE  ListRestores'
  <2>1. buf' = buf /\ setup' = setup /\ pending' = pending
    BY <1>15 DEF vars
  <2>2. Restores(buf, setup.chars)' <=> Restores(buf, setup.chars)
    BY <2>1
  <2>. QED BY <2>1, <2>2 DEF UndoInv, ListRestores, Looks
<1>. QED BY <1>1, <1>2, <1>3, <1>4, <1>5, <1>6, <1>7, <1>8, <1>9, <1>10, <1>11, <1>12, <1>13,
            <1>14, <1>15 DEF Next, Command

LEMMA UndoInvAlways == Spec => []UndoInv
<1>1. UndoInv /\ [Next]_vars => UndoInv'
  BY StepGood, UndoStep DEF UndoInv
<1>. QED BY <1>1, UndoInit, PTL DEF Spec

LEMMA SnapshotIsOne ==
  ASSUME NEW t
  PROVE  /\ IsSnapshot(Snapshot(t)) /\ Snapshot(t).chars = Chars(t)
         /\ Snapshot(t).charpos = CharPositions(t) /\ Snapshot(t).PT = t.pt.c
  BY DEF Snapshot, IsSnapshot

LEMMA AllUndone == UndoInv => UndoRestoresText
<1>. SUFFICES ASSUME UndoInv, Looks("undo")
              PROVE  primitive_undo(Snapshot(buf), buf.undo_list).chars = setup.chars
  BY DEF UndoRestoresText
<1>1. Undoes(Snapshot(buf).chars, buf.undo_list, setup.chars)
  BY SnapshotIsOne DEF UndoInv, ListRestores, Restores
<1>. QED BY <1>1, SnapshotIsOne, UndoneText

-------------------------------------------------------------------------------
(* A deletion undone at once                                                 *)

(* What of a join is in front of its end *)
LEMMA FrontRecords ==
  ASSUME NEW x \in Seq(Record), NEW y \in Seq(Record)
  PROVE  SubSeq(x \o y, 1, Len(x \o y) - Len(y)) = x
<1>. DEFINE j == x \o y
            front == SubSeq(j, 1, Len(x))
<1>1. Len(x) \in Nat /\ Len(y) \in Nat
  BY LenProperties
<1>2. /\ j \in Seq(Record) /\ Len(j) = Len(x) + Len(y)
      /\ \A i \in 1 .. Len(x) + Len(y) : j[i] = IF i <= Len(x) THEN x[i] ELSE y[i - Len(x)]
  BY ConcatProperties
<1>. HIDE DEF j
<1>3. \A i \in 1 .. Len(x) : i \in 1 .. Len(x) + Len(y) /\ i <= Len(x) /\ i \in 1 .. Len(j)
                             /\ 1 + i - 1 = i /\ i \in 1 .. Len(x) - 1 + 1
  BY <1>1, <1>2
<1>4. \A i \in 1 .. Len(x) : j[i] = x[i] /\ j[i] \in Record
  BY <1>2, <1>3, ElementOfSeq
<1>5. /\ front \in Seq(Record)
      /\ Len(front) = IF 1 <= Len(x) THEN Len(x) - 1 + 1 ELSE 0
      /\ \A i \in 1 .. Len(x) - 1 + 1 : front[i] = j[1 + i - 1]
  <2>1. 1 \in Int /\ Len(x) \in Int /\ \A i \in 1 .. Len(x) : j[i] \in Record
    BY <1>1, <1>4
  <2>. QED BY <2>1, SubSeqProperties
<1>. HIDE DEF front
<1>6. Len(front) = Len(x) /\ \A i \in 1 .. Len(front) : front[i] = x[i]
  <2>1. Len(front) = Len(x)
    BY <1>1, <1>5
  <2>. QED BY <1>3, <1>4, <1>5, <2>1
<1>7. front = x
  BY <1>5, <1>6, SeqEqual
<1>8. Len(j) - Len(y) = Len(x)
  BY <1>1, <1>2
<1>. QED BY <1>7, <1>8 DEF front, j

(* The records of point and of the first change, if any *)
Quiet(list) ==
  list \in Seq(Record) /\ \A i \in 1 .. Len(list) : list[i].k \in {"first", "point"}

LEMMA PointRecords ==
  ASSUME NEW list \in Seq(Record), NEW beg, NEW before \in Int, NEW clean
  PROVE  \E top : Quiet(top) /\ record_point(list, beg, before, clean) = top \o list
<1>. DEFINE p == [k |-> "point", pos |-> before]
            l == IF clean THEN record_first_change(list) ELSE list
<1>1. First \in Record /\ First.k = "first" /\ p \in Record /\ p.k = "point" /\ list # Qt
  BY ListNotOff DEF First, Record
<1>2. Quiet(<<>>) /\ <<>> \o list = list /\ <<>> \in Seq(Record)
  BY EmptySeq, ConcatEmptySeq DEF Quiet
<1>. HIDE DEF p
<1>3. Quiet(<<First>>) /\ Quiet(<<p>>)
  BY <1>1 DEF Quiet
<1>5. <<p>> \in Seq(Record) /\ <<First>> \in Seq(Record)
  BY <1>1
<1>. DEFINE both == <<p>> \o <<First>>
<1>4. Quiet(both)
  <2>1. /\ both \in Seq(Record) /\ Len(both) = Len(<<First>>) + 1 /\ both[1] = p
        /\ \A i \in 1 .. Len(<<First>>) : both[i + 1] = <<First>>[i]
    BY <1>1, <1>5, TopParts
  <2>2. Len(<<First>>) = 1 /\ <<First>>[1] = First
    OBVIOUS
  <2>. HIDE DEF both
  <2>3. ASSUME NEW i \in 1 .. Len(both) PROVE both[i].k \in {"first", "point"}
    <3>1. i = 1 \/ i = 1 + 1
      BY <2>1, <2>2
    <3>2. 1 \in 1 .. Len(<<First>>)
      BY <2>2
    <3>3. both[1 + 1] = First
      BY <2>1, <2>2, <3>2
    <3>. QED BY <1>1, <2>1, <3>1, <3>3
  <2>. QED BY <2>1, <2>3 DEF Quiet
<1>8. <<p>> \o (<<First>> \o list) = both \o list
  BY <1>5, ConcatAssociative
<1>. HIDE DEF both
<1>6. l = list \/ l = <<First>> \o list
  BY <1>1 DEF record_first_change
<1>7. \/ record_point(list, beg, before, clean) = l
      \/ record_point(list, beg, before, clean) = <<p>> \o l
  BY DEF record_point, p
<1>. HIDE DEF l
<1>. QED BY <1>2, <1>3, <1>4, <1>6, <1>7, <1>8

(* What a deletion puts on the list *)
DeletionRecord(list, new, beg, chars, charpos) ==
  \E r, mine, quiet :
    /\ Adjusts(mine, beg, beg + Len(chars), charpos) /\ Quiet(quiet)
    /\ r \in Record /\ r.k = "delete" /\ r.chars = chars /\ r.pos = beg
    /\ <<r>> \o (mine \o quiet) \in Seq(Record)
    /\ new = (<<r>> \o (mine \o quiet)) \o list

LEMMA DeletionOnTop ==
  ASSUME NEW list \in Seq(Record), NEW beg \in Int, NEW chars \in Seq(Char),
         NEW charpos \in [Marker -> Int], NEW p, NEW before \in Int, NEW clean
  PROVE  DeletionRecord(list, record_delete(list, beg, chars, TRUE, charpos, p, before, clean), beg,
                        chars, charpos)
<1>. DEFINE r == [k |-> "delete", chars |-> chars, pos |-> beg, at_end |-> p = beg + Len(chars)]
            l == record_point(list, beg, before, clean)
<1>1. PICK quiet : Quiet(quiet) /\ l = quiet \o list
  BY PointRecords
<1>2. PICK mine : /\ Adjusts(mine, beg, beg + Len(chars), charpos)
                  /\ \A m : record_marker_adjustments(m, beg, beg + Len(chars), charpos) = mine \o m
  <2>1. beg + Len(chars) \in Int
    BY LenProperties
  <2>. QED BY <2>1, AdjustmentsAre
<1>3. record_delete(list, beg, chars, TRUE, charpos, p, before, clean) = <<r>> \o (mine \o l)
  <2>1. list # Qt
    BY ListNotOff
  <2>2. record_delete(list, beg, chars, TRUE, charpos, p, before, clean)
        = <<r>> \o record_marker_adjustments(l, beg, beg + Len(chars), charpos)
    BY <2>1 DEF record_delete
  <2>. HIDE DEF r, l
  <2>. QED BY <1>2, <2>2
<1>. HIDE DEF l
<1>4. r \in Record /\ r.k = "delete" /\ r.chars = chars /\ r.pos = beg
  <2>1. (p = beg + Len(chars)) \in BOOLEAN
    OBVIOUS
  <2>. QED BY <2>1 DEF Record
<1>. HIDE DEF r
<1>5. /\ mine \in Seq(Record) /\ quiet \in Seq(Record) /\ <<r>> \in Seq(Record)
  BY <1>1, <1>2, <1>4 DEF Adjusts, Quiet
<1>6. mine \o quiet \in Seq(Record) /\ <<r>> \o (mine \o quiet) \in Seq(Record)
  BY <1>5, ConcatProperties
<1>7. <<r>> \o (mine \o l) = (<<r>> \o (mine \o quiet)) \o list
  <2>1. mine \o (quiet \o list) = (mine \o quiet) \o list
    BY <1>5, ConcatAssociative
  <2>2. (<<r>> \o (mine \o quiet)) \o list = <<r>> \o ((mine \o quiet) \o list)
    BY <1>5, <1>6, ConcatAssociative
  <2>. QED BY <1>1, <2>1, <2>2
<1>8. record_delete(list, beg, chars, TRUE, charpos, p, before, clean)
      = (<<r>> \o (mine \o quiet)) \o list
  BY <1>3, <1>7
<1>9. Adjusts(mine, beg, beg + Len(chars), charpos) /\ Quiet(quiet)
  BY <1>1, <1>2
<1>. DEFINE new == record_delete(list, beg, chars, TRUE, charpos, p, before, clean)
            top == <<r>> \o (mine \o quiet)
<1>10. new = top \o list /\ top \in Seq(Record)
  BY <1>6, <1>8
<1>. HIDE DEF new
<1>11. DeletionRecord(list, new, beg, chars, charpos)
  BY <1>4, <1>9, <1>10 DEF DeletionRecord
<1>. QED BY <1>11 DEF new

(* The records of the deletion, one by one *)
LEMMA DeletionRecords ==
  ASSUME NEW r \in Record, NEW mine \in Seq(Record), NEW quiet \in Seq(Record)
  PROVE  LET top == <<r>> \o (mine \o quiet) IN
         /\ Len(mine) \in Nat /\ Len(quiet) \in Nat /\ Len(top) = 1 + Len(mine) + Len(quiet)
         /\ top[1] = r
         /\ \A i \in 1 .. Len(mine) : top[i + 1] = mine[i]
         /\ \A i \in 1 .. Len(quiet) : top[1 + Len(mine) + i] = quiet[i]
<1>. DEFINE b == mine \o quiet
            top == <<r>> \o b
<1>1. Len(mine) \in Nat /\ Len(quiet) \in Nat
  BY LenProperties
<1>2. /\ b \in Seq(Record) /\ Len(b) = Len(mine) + Len(quiet)
      /\ \A i \in 1 .. Len(mine) + Len(quiet) :
           b[i] = IF i <= Len(mine) THEN mine[i] ELSE quiet[i - Len(mine)]
  BY ConcatProperties
<1>. HIDE DEF b
<1>3. /\ Len(top) = Len(b) + 1 /\ top[1] = r /\ \A i \in 1 .. Len(b) : top[i + 1] = b[i]
  BY <1>2, TopParts
<1>. HIDE DEF top
<1>4. ASSUME NEW i \in 1 .. Len(mine) PROVE top[i + 1] = mine[i]
  <2>1. i \in 1 .. Len(mine) + Len(quiet) /\ i <= Len(mine)
    BY <1>1
  <2>. QED BY <1>2, <1>3, <2>1
<1>5. ASSUME NEW i \in 1 .. Len(quiet) PROVE top[1 + Len(mine) + i] = quiet[i]
  <2>. DEFINE j == Len(mine) + i
  <2>1. /\ j \in 1 .. Len(mine) + Len(quiet) /\ ~(j <= Len(mine)) /\ j - Len(mine) = i
        /\ 1 + Len(mine) + i = j + 1
    BY <1>1
  <2>. HIDE DEF j
  <2>2. top[j + 1] = b[j] /\ b[j] = quiet[i]
    BY <1>2, <1>3, <2>1
  <2>. QED BY <2>1, <2>2
<1>6. Len(top) = 1 + Len(mine) + Len(quiet)
  BY <1>1, <1>2, <1>3
<1>. QED BY <1>1, <1>3, <1>4, <1>5, <1>6 DEF top, b

(* The adjustments that undoing the deletion uses: those recorded with it    *)
(* whose markers are where it left them                                      *)
LEMMA AdjustmentsUsed ==
  ASSUME NEW r \in Record, r.k = "delete", NEW mine, NEW quiet, NEW from \in Int, NEW to \in Int,
         NEW charpos \in [Marker -> Int], Adjusts(mine, from, to, charpos), Quiet(quiet), NEW s
  PROVE  LET valid == ValidAdjustments(s, <<r>> \o (mine \o quiet), 1) IN
         /\ \A a \in valid : /\ a.marker \in Marker /\ charpos[a.marker] \in from .. to
                             /\ a.by = Adjustment(a.marker, from, to, charpos)
         /\ \A m \in Marker : charpos[m] \in from .. to /\ s.charpos[m] = r.pos =>
              \/ Adjustment(m, from, to, charpos) = 0
              \/ \E a \in valid : a.marker = m
<1>. DEFINE top == <<r>> \o (mine \o quiet)
            valid == ValidAdjustments(s, top, 1)
<1>1. /\ Len(mine) \in Nat /\ Len(quiet) \in Nat /\ Len(top) = 1 + Len(mine) + Len(quiet)
      /\ top[1] = r
      /\ \A i \in 1 .. Len(mine) : top[i + 1] = mine[i]
      /\ \A i \in 1 .. Len(quiet) : top[1 + Len(mine) + i] = quiet[i]
  BY DeletionRecords DEF Adjusts, Quiet
<1>. HIDE DEF top
<1>2. valid = {top[j] : j \in {j \in (1 + 1)..Len(top) :
                 /\ \A h \in (1 + 1)..j : top[h].k = "adjust"
                 /\ s.charpos[top[j].marker] = top[1].pos}}
  BY DEF ValidAdjustments
<1>. HIDE DEF valid
<1>3. ASSUME NEW a \in valid
      PROVE  /\ a.marker \in Marker /\ charpos[a.marker] \in from .. to
             /\ a.by = Adjustment(a.marker, from, to, charpos)
  <2>1. PICK j \in 2 .. Len(top) : a = top[j] /\ \A h \in 2 .. j : top[h].k = "adjust"
    BY <1>2
  <2>2. j \in 2 .. j
    OBVIOUS
  <2>3. top[j].k = "adjust"
    BY <2>1, <2>2
  <2>4. j <= 1 + Len(mine)
    <3>1. SUFFICES ASSUME ~(j <= 1 + Len(mine)) PROVE FALSE
      OBVIOUS
    <3>2. j - 1 - Len(mine) \in 1 .. Len(quiet) /\ 1 + Len(mine) + (j - 1 - Len(mine)) = j
      BY <1>1, <3>1
    <3>3. top[j].k \in {"first", "point"}
      BY <1>1, <3>2 DEF Quiet
    <3>. QED BY <2>3, <3>3
  <2>5. j - 1 \in 1 .. Len(mine) /\ (j - 1) + 1 = j
    BY <1>1, <2>4
  <2>6. a = mine[j - 1]
    BY <1>1, <2>1, <2>5
  <2>. QED BY <2>5, <2>6 DEF Adjusts
<1>4. ASSUME NEW m \in Marker, charpos[m] \in from .. to, s.charpos[m] = r.pos,
             Adjustment(m, from, to, charpos) # 0
      PROVE  \E a \in valid : a.marker = m
  <2>1. PICK i \in 1 .. Len(mine) : mine[i].marker = m
    BY <1>4 DEF Adjusts
  <2>6. \A h \in 1 .. Len(mine) : mine[h].k = "adjust"
    BY DEF Adjusts
  <2>2. i + 1 \in 2 .. Len(top) /\ top[i + 1] = mine[i]
    <3>1. i + 1 \in 2 .. 1 + Len(mine) + Len(quiet)
      BY <1>1
    <3>. QED BY <1>1, <3>1
  <2>3. ASSUME NEW h \in 2 .. i + 1 PROVE top[h].k = "adjust"
    <3>1. h - 1 \in 1 .. Len(mine) /\ (h - 1) + 1 = h
      BY <1>1
    <3>2. top[(h - 1) + 1] = mine[h - 1] /\ mine[h - 1].k = "adjust"
      BY <1>1, <2>6, <3>1
    <3>. QED BY <3>1, <3>2
  <2>4. s.charpos[top[i + 1].marker] = top[1].pos
    BY <1>1, <1>4, <2>1, <2>2
  <2>5. top[i + 1] \in valid
    BY <1>2, <2>2, <2>3, <2>4
  <2>. QED BY <2>1, <2>2, <2>5
<1>. QED BY <1>3, <1>4 DEF valid, top

(* Records of neither an insertion nor a deletion leave what the first left. *)
LEMMA RestQuiet ==
  ASSUME NEW s, IsSnapshot(s), NEW list, Len(list) \in Nat
  PROVE  LET u == UndoRecord(s, list, 1) IN
         Len(list) # 0 /\ (\A i \in 2 .. Len(list) : list[i].k \notin {"insert", "delete"}) =>
           primitive_undo(s, list).chars = u.chars /\ primitive_undo(s, list).charpos = u.charpos
<1>. DEFINE u == UndoRecord(s, list, 1)
<1>1. PICK g : /\ g[0] = s /\ primitive_undo(s, list) = g[Len(list)]
               /\ \A i \in 1 .. Len(list) : g[i] = UndoRecord(g[i - 1], list, i)
  BY UndoneValues
<1>. SUFFICES ASSUME Len(list) # 0, \A i \in 2 .. Len(list) : list[i].k \notin {"insert", "delete"}
              PROVE  primitive_undo(s, list).chars = u.chars
                     /\ primitive_undo(s, list).charpos = u.charpos
  OBVIOUS
<1>2. g[1] = u /\ IsSnapshot(u)
  <2>1. 1 \in 1 .. Len(list) /\ 1 - 1 = 0
    OBVIOUS
  <2>. QED BY <1>1, <2>1, OneUndone
<1>. HIDE DEF u
<1>. DEFINE S == {n \in Nat : n + 1 <= Len(list) =>
                    /\ IsSnapshot(g[n + 1]) /\ g[n + 1].chars = u.chars
                    /\ g[n + 1].charpos = u.charpos}
<1>3. 0 \in S
  BY <1>2
<1>4. ASSUME NEW n \in Nat, n \in S PROVE n + 1 \in S
  <2>1. SUFFICES ASSUME (n + 1) + 1 <= Len(list)
                 PROVE  /\ IsSnapshot(g[(n + 1) + 1]) /\ g[(n + 1) + 1].chars = u.chars
                        /\ g[(n + 1) + 1].charpos = u.charpos
    OBVIOUS
  <2>. DEFINE i == (n + 1) + 1
  <2>2. i \in 1 .. Len(list) /\ i \in 2 .. Len(list) /\ i - 1 = n + 1 /\ n + 1 <= Len(list)
    BY <2>1
  <2>. HIDE DEF i
  <2>3. IsSnapshot(g[n + 1]) /\ g[n + 1].chars = u.chars /\ g[n + 1].charpos = u.charpos
    BY <1>4, <2>2
  <2>4. g[i] = UndoRecord(g[n + 1], list, i) /\ list[i].k # "insert" /\ list[i].k # "delete"
    BY <1>1, <2>2
  <2>5. /\ IsSnapshot(g[i]) /\ g[i].chars = CharsUndone(g[n + 1].chars, list[i])
        /\ g[i].charpos = g[n + 1].charpos
    <3>. DEFINE x == g[n + 1]
    <3>1. IsSnapshot(x) /\ g[i] = UndoRecord(x, list, i)
      BY <2>3, <2>4
    <3>. HIDE DEF x
    <3>2. /\ IsSnapshot(UndoRecord(x, list, i))
          /\ UndoRecord(x, list, i).chars = CharsUndone(x.chars, list[i])
          /\ UndoRecord(x, list, i).charpos = x.charpos
      BY <2>4, <3>1, OneUndone
    <3>3. IsSnapshot(g[i]) /\ g[i].chars = CharsUndone(x.chars, list[i]) /\ g[i].charpos = x.charpos
      BY <3>1, <3>2
    <3>. QED BY <3>3 DEF x
  <2>6. CharsUndone(g[n + 1].chars, list[i]) = g[n + 1].chars
    BY <2>4 DEF CharsUndone
  <2>. QED BY <2>3, <2>5, <2>6 DEF i
<1>5. Len(list) - 1 \in Nat /\ (Len(list) - 1) + 1 = Len(list) /\ Len(list) <= Len(list)
  OBVIOUS
<1>. HIDE DEF S
<1>6. Len(list) - 1 \in S
  BY <1>3, <1>4, <1>5, SetInduction
<1>. QED BY <1>1, <1>5, <1>6 DEF S, u

(* A marker at C before the deletion, put back by the text and adjusted *)
LEMMA MarkerPutBack ==
  ASSUME NEW c \in Int, NEW from \in Int, NEW to \in Int, from <= to, NEW goes \in BOOLEAN
  PROVE  LET after == IF c >= to THEN c - (to - from) ELSE IF c > from THEN from ELSE c
             back  == after + IF after > from \/ (after = from /\ goes) THEN to - from ELSE 0
         IN /\ c \notin from .. to => back = c
            /\ c \in from .. to => after = from /\ back - ((IF goes THEN to ELSE from) - c) = c
            /\ back \in Int
OBVIOUS

LEMMA LastDeletionUndone == UndoInv => DeletionUndone
<1>. SUFFICES ASSUME UndoInv, Looks("markers"), NEW from \in Position, NEW to \in Position, from < to
              PROVE  LET t == del_range_2(buf, Both(buf, from), Both(buf, to))
                         undone == primitive_undo(Snapshot(t),
                                     SubSeq(t.undo_list, 1, Len(t.undo_list) - Len(buf.undo_list)))
                     IN undone.chars = Chars(buf) /\ undone.charpos = CharPositions(buf)
  BY DEF DeletionUndone
<1>. DEFINE t == del_range_2(buf, Both(buf, from), Both(buf, to))
            s == Snapshot(t)
            c == Chars(buf)
            old == Between(buf, from, to)
            charpos == CharPositions(buf)
<1>1. /\ IInv /\ Good(buf) /\ DOMAIN buf = Fields /\ c \in Seq(Char) /\ point_before \in Int
      /\ buf.undo_list \in Seq(Record) /\ buf.markers \in [Marker -> Pos]
  BY GoodParts DEF UndoInv, ListRestores, Restores, Undoes, IInv
<1>2. /\ from \in Places(c) /\ to \in Places(c) /\ from \in Nat /\ to \in Nat
      /\ Both(buf, from).c = from /\ Both(buf, to).c = to
      /\ Place(c, Both(buf, from)) /\ Place(c, Both(buf, to))
  BY <1>1, PositionPlace
<1>3. from <= to /\ from \in Int /\ to \in Int
  BY <1>2
<1>4. charpos \in [Marker -> Int] /\ \A m \in Marker : charpos[m] = buf.markers[m].c
  BY <1>1 DEF CharPositions, Pos
<1>5. /\ old \in Seq(Char) /\ Len(old) = to - from
  BY <1>1, <1>2, <1>3, BetweenType
<1>6. DeletedFrom(buf, t, from, to)
  <2>1. DeletedFrom(buf, t, Both(buf, from).c, Both(buf, to).c)
    BY <1>1, <1>2, <1>3, DelRange2
  <2>. QED BY <1>2, <2>1
<1>7. PICK clean \in BOOLEAN :
        t.undo_list = record_delete(buf.undo_list, from, old, TRUE, charpos, buf.pt.c, point_before,
                                    clean)
  <2>1. \E clean \in BOOLEAN :
          t.undo_list = record_delete(buf.undo_list, Both(buf, from).c,
                          Between(buf, Both(buf, from).c, Both(buf, to).c), TRUE, charpos, buf.pt.c,
                          point_before, clean)
    BY <1>1, DelRangeRecorded
  <2>. QED BY <1>2, <2>1
<1>8. from + Len(old) = to
  BY <1>2, <1>5
<1>. HIDE DEF t
<1>9. PICK r, mine, quiet :
        /\ Adjusts(mine, from, to, charpos) /\ Quiet(quiet)
        /\ r \in Record /\ r.k = "delete" /\ r.chars = old /\ r.pos = from
        /\ <<r>> \o (mine \o quiet) \in Seq(Record)
        /\ t.undo_list = (<<r>> \o (mine \o quiet)) \o buf.undo_list
  <2>. DEFINE p == buf.pt.c
              list == buf.undo_list
  <2>0. list \in Seq(Record)
    BY <1>1
  <2>3. t.undo_list = record_delete(list, from, old, TRUE, charpos, p, point_before, clean)
    BY <1>7
  <2>. HIDE DEF charpos, old, p, list
  <2>4. charpos \in [Marker -> Int] /\ old \in Seq(Char) /\ from \in Int /\ point_before \in Int
    BY <1>1, <1>3, <1>4, <1>5
  <2>5. DeletionRecord(list, record_delete(list, from, old, TRUE, charpos, p, point_before, clean),
                       from, old, charpos)
    BY <2>0, <2>4, DeletionOnTop
  <2>6. DeletionRecord(list, t.undo_list, from, old, charpos)
    BY <2>3, <2>5
  <2>. QED BY <1>8, <2>6 DEF DeletionRecord, list
<1>10. r.k = "delete" /\ r.chars = old /\ r.pos = from
  BY <1>9
<1>. DEFINE top == <<r>> \o (mine \o quiet)
            valid == ValidAdjustments(s, top, 1)
            u == UndoRecord(s, top, 1)
<1>11. SubSeq(t.undo_list, 1, Len(t.undo_list) - Len(buf.undo_list)) = top
  BY <1>1, <1>9, FrontRecords
<1>12. /\ Len(top) \in Nat \ {0} /\ top[1] = r
       /\ \A i \in 2 .. Len(top) : top[i].k \notin {"insert", "delete"}
  <2>1. /\ Len(mine) \in Nat /\ Len(quiet) \in Nat /\ Len(top) = 1 + Len(mine) + Len(quiet)
        /\ top[1] = r
        /\ \A i \in 1 .. Len(mine) : top[i + 1] = mine[i]
        /\ \A i \in 1 .. Len(quiet) : top[1 + Len(mine) + i] = quiet[i]
    BY <1>9, DeletionRecords DEF Adjusts, Quiet
  <2>. HIDE DEF top
  <2>2. ASSUME NEW i \in 2 .. Len(top) PROVE top[i].k \notin {"insert", "delete"}
    <3>1. CASE i <= 1 + Len(mine)
      <4>1. i - 1 \in 1 .. Len(mine) /\ (i - 1) + 1 = i
        BY <2>1, <3>1
      <4>. QED BY <1>9, <2>1, <4>1 DEF Adjusts
    <3>2. CASE ~(i <= 1 + Len(mine))
      <4>1. i - 1 - Len(mine) \in 1 .. Len(quiet) /\ 1 + Len(mine) + (i - 1 - Len(mine)) = i
        BY <2>1, <3>2
      <4>. QED BY <1>9, <2>1, <4>1 DEF Quiet
    <3>. QED BY <3>1, <3>2
  <2>. QED BY <2>1, <2>2
<1>13. /\ IsSnapshot(s) /\ s.chars = Splice(c, from, to, <<>>)
       /\ \A m \in Marker :
            s.charpos[m] = IF charpos[m] >= to THEN charpos[m] - (to - from)
                           ELSE IF charpos[m] > from THEN from ELSE charpos[m]
  <2>1. IsSnapshot(s) /\ s.chars = Chars(t) /\ s.charpos = CharPositions(t)
    BY SnapshotIsOne
  <2>2. \A m \in Marker : CharPositions(t)[m] = t.markers[m].c
    BY DEF CharPositions
  <2>. HIDE DEF s
  <2>. QED BY <1>4, <1>6, <2>1, <2>2 DEF DeletedFrom
<1>14. primitive_undo(s, top).chars = u.chars /\ primitive_undo(s, top).charpos = u.charpos
  <2>. HIDE DEF s, top
  <2>1. Len(top) \in Nat /\ Len(top) # 0
    BY <1>12
  <2>. QED BY <1>12, <1>13, <2>1, RestQuiet
<1>15. /\ \A a \in valid : /\ a.marker \in Marker /\ charpos[a.marker] \in from .. to
                           /\ a.by = Adjustment(a.marker, from, to, charpos)
       /\ \A m \in Marker : charpos[m] \in from .. to /\ s.charpos[m] = r.pos =>
            \/ Adjustment(m, from, to, charpos) = 0
            \/ \E a \in valid : a.marker = m
  <2>. HIDE DEF s, charpos
  <2>. QED BY <1>3, <1>4, <1>9, <1>10, AdjustmentsUsed
<1>16. u.chars = c
  <2>. DEFINE e == Splice(c, from, to, <<>>)
  <2>1. u.chars = CharsUndone(s.chars, r)
    <3>. HIDE DEF s, top
    <3>. QED BY <1>12, <1>13, OneUndone
  <2>2. CharsUndone(e, r) = SubSeq(e, 1, from - 1) \o old \o SubSeq(e, from, Len(e))
    BY <1>10 DEF CharsUndone
  <2>3. SubSeq(e, 1, from - 1) \o old \o SubSeq(e, from, Len(e)) = Splice(c, to, to, <<>>)
    <3>1. <<>> \in Seq(Char)
      BY EmptySeq
    <3>. QED BY <1>1, <1>2, <1>3, <3>1, RecordPutsBack DEF Between
  <2>4. Splice(c, to, to, <<>>) = c
    BY <1>1, <1>2, NothingSpliced
  <2>. QED BY <1>13, <2>1, <2>2, <2>3, <2>4
<1>. DEFINE put == PutBack(s, r)
            F(m) == IF \E a \in valid : a.marker = m
                    THEN put.charpos[m] - (CHOOSE a \in valid : a.marker = m).by
                    ELSE put.charpos[m]
<1>17. u.charpos = [m \in Marker |-> F(m)]
  <2>. HIDE DEF s, top
  <2>1. u = [put EXCEPT !.charpos = [m \in Marker |-> F(m)]]
    BY <1>10, <1>12 DEF UndoRecord
  <2>2. "charpos" \in DOMAIN put
    BY DEF PutBack
  <2>. HIDE DEF put, F, u
  <2>. QED BY <2>1, <2>2
<1>18. ASSUME NEW m \in Marker PROVE F(m) = charpos[m]
  <2>. DEFINE p == charpos[m]
              goes == m \in InsertionType
              after == IF p >= to THEN p - (to - from) ELSE IF p > from THEN from ELSE p
              back  == after + IF after > from \/ (after = from /\ goes) THEN to - from ELSE 0
  <2>1. p \in Int /\ goes \in BOOLEAN
    BY <1>4
  <2>2. s.charpos[m] = after
    BY <1>13
  <2>3. put.charpos[m] = back
    <3>. HIDE DEF s, p
    <3>1. put.charpos[m] = s.charpos[m] + IF s.charpos[m] > from \/ (s.charpos[m] = from /\ goes)
                                          THEN Len(old) ELSE 0
      BY <1>10 DEF PutBack
    <3>. QED BY <1>5, <2>2, <3>1
  <2>. HIDE DEF p, goes, put, s, valid
  <2>4. /\ p \notin from .. to => back = p
        /\ p \in from .. to => after = from /\ back - ((IF goes THEN to ELSE from) - p) = p
        /\ back \in Int
    BY <1>3, <2>1, MarkerPutBack
  <2>5. Adjustment(m, from, to, charpos) = (IF goes THEN to ELSE from) - p
    BY DEF Adjustment, goes, p
  <2>. HIDE DEF after, back
  <2>6. CASE p \notin from .. to
    <3>1. ~ \E a \in valid : a.marker = m
      BY <1>15, <2>6 DEF p
    <3>. QED BY <2>3, <2>4, <2>6, <3>1 DEF p
  <2>7. CASE p \in from .. to
    <3>1. s.charpos[m] = r.pos /\ back - Adjustment(m, from, to, charpos) = p
      BY <1>10, <2>2, <2>4, <2>5, <2>7
    <3>2. CASE \E a \in valid : a.marker = m
      <4>1. (CHOOSE a \in valid : a.marker = m).by = Adjustment(m, from, to, charpos)
        BY <1>15, <3>2
      <4>. QED BY <2>3, <3>1, <3>2, <4>1 DEF p
    <3>3. CASE ~ \E a \in valid : a.marker = m
      <4>1. Adjustment(m, from, to, charpos) = 0
        BY <1>15, <2>7, <3>1, <3>3 DEF p
      <4>2. back = p
        BY <2>4, <3>1, <4>1
      <4>. QED BY <2>3, <3>3, <4>2 DEF p
    <3>. QED BY <3>2, <3>3
  <2>. QED BY <2>6, <2>7
<1>19. u.charpos = charpos
  <2>. HIDE DEF F
  <2>1. charpos = [m \in Marker |-> charpos[m]]
    BY <1>4
  <2>. HIDE DEF charpos
  <2>. QED BY <1>17, <1>18, <2>1
<1>. QED BY <1>11, <1>14, <1>16, <1>19 DEF t, s

(* In every reachable state undoing everything on the undo list gives the    *)
(* text the list began with, whatever insertions were merged, deletions,     *)
(* replacements and changes of case it records; and a deletion made now and  *)
(* undone at once leaves the text and every marker where they were           *)
(* (record_insert, record_delete, record_marker_adjustments of undo.c,       *)
(* primitive-undo of simple.el).                                             *)
THEOREM UndoAlwaysRestores == Spec => []UndoRestores
<1>1. UndoInv => UndoRestores
  BY AllUndone, LastDeletionUndone DEF UndoRestores
<1>. QED BY <1>1, UndoInvAlways, PTL
=============================================================================
