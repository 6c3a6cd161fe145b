---------------------------- MODULE SpecpdlProofs ----------------------------
(***************************************************************************)
(* Proofs about dynamic binding (Specpdl), for any threads, buffers and    *)
(* values, any kind of variable and any depth of bindings: exchanging the  *)
(* values of a thread's bindings with what they shadow, whenever another   *)
(* thread takes over, is the same as keeping them apart.                   *)
(*                                                                         *)
(* First the symbol: what each operation of data.c and eval.c does to the  *)
(* values of its cells, wherever they are kept at the time.  Then the      *)
(* bindings: what is below an entry of the stack, when an entry is pushed, *)
(* popped or exchanged.  The two together give every step of the promise.  *)
(***************************************************************************)
EXTENDS Specpdl, SequenceTheorems, WellFoundedInduction, TLAPS

-------------------------------------------------------------------------------
(* The inductive invariant *)

Cells == Buffer \union {Default}
AllCells == Buffer \union {Default, Orphan}

Symbols ==
  [localized : BOOLEAN, auto : BOOLEAN, symval : Value \union {Nil},
   cell : [AllCells -> Value \union {Nil}], local : SUBSET Buffer,
   where : Buffer \union {Nil}, valcell : AllCells]

(* A symbol of kind K when the buffers of L are live.  TypeOK does not say    *)
(* that a buffer's own cell is loaded for nobody else, that every buffer     *)
(* without a slot of its own has the default in it, or that the default has  *)
(* a value while another cell is loaded; the next step needs all three.      *)
Well(k, L, s) ==
  /\ s \in Symbols
  /\ s.local \subseteq L
  /\ s.where \in L => s.valcell = IF s.where \in s.local THEN s.where ELSE Default
  /\ s.valcell \in s.local \union {Default, Orphan}
  /\ s.valcell \in s.local => s.where = s.valcell
  /\ k = "per_buffer" =>
       /\ ~s.localized
       /\ \A c \in Cells : s.cell[c] \in Value
       /\ \A b \in L \ s.local : s.cell[b] = s.cell[Default]
  /\ ~s.localized => s.valcell = Default /\ s.where = Nil
  /\ k # "per_buffer" /\ ~s.localized => s.local = {} /\ ~s.auto
  /\ k # "per_buffer" => \A b \in Buffer : s.cell[b] \in Value <=> b \in s.local
  /\ s.localized => s.cell[Default] \in Value /\ s.cell[s.valcell] \in Value
  /\ k = "forwarded" \/ (k # "per_buffer" /\ ~s.localized) => s.symval \in Value

Entry ==
  {e \in [kind : {"LET", "LET_DEFAULT", "LET_LOCAL", "NOP"},
          where : Buffer \union {Nil}, old_value : Value \union {Nil}] :
     /\ e.kind # "NOP" => e.old_value \in Value
     /\ e.kind \in {"LET_DEFAULT", "LET_LOCAL"} => e.where \in Buffer}

(* What E has bound is still there. *)
Intact(e, local) == e.kind # "NOP" /\ (e.kind = "LET_LOCAL" => e.where \in local)

IInv ==
  /\ kind \in Kinds
  /\ current_thread \in Thread
  /\ live \subseteq Buffer
  /\ buffer \in [Thread -> live]
  /\ broken \in BOOLEAN
  /\ Well(kind, live, sym)
  /\ specpdl \in [Thread -> Seq(Entry)]
  /\ ~broken => \A t \in Thread : \A i \in DOMAIN specpdl[t] : Intact(specpdl[t][i], sym.local)

(* The value of cell c in symbol S of kind K, and of all cells there are *)
ValueIn(k, s, c) ==
  IF k = "per_buffer" \/ (s.localized /\ ~(k = "forwarded" /\ s.valcell = c))
  THEN s.cell[c] ELSE s.symval

Values(k, s) == [c \in Cells |-> IF c = Default \/ c \in s.local THEN ValueIn(k, s, c) ELSE Nil]

(* U is S with the same cells, and the same values in them. *)
Same(k, s, u) == u.local = s.local /\ u.auto = s.auto /\ Values(k, u) = Values(k, s)

(* U is S with V in cell C. *)
Put(k, s, u, c, v) ==
  u.local = s.local /\ u.auto = s.auto /\ Values(k, u) = [Values(k, s) EXCEPT ![c] = v]

-------------------------------------------------------------------------------
(* The symbol *)

LEMMA Names ==
  /\ Default \notin Buffer /\ Orphan \notin Buffer /\ Nil \notin Buffer /\ Nil \notin Value
  /\ Default # Orphan
BY SpecpdlAssumption

LEMMA PutByCells ==
  ASSUME NEW k, NEW s, NEW u, NEW v, u.local = s.local, u.auto = s.auto,
         NEW c \in Cells, c = Default \/ c \in s.local, ValueIn(k, u, c) = v,
         \A d \in Cells : d # c /\ (d = Default \/ d \in s.local) => ValueIn(k, u, d) = ValueIn(k, s, d)
  PROVE  Put(k, s, u, c, v)
BY DEF Put, Values

LEMMA SameByCells ==
  ASSUME NEW k, NEW s, NEW u, u.local = s.local, u.auto = s.auto,
         \A d \in Cells : d = Default \/ d \in s.local => ValueIn(k, u, d) = ValueIn(k, s, d)
  PROVE  Same(k, s, u)
BY DEF Same, Values

LEMMA DefaultSet ==
  ASSUME live \subseteq Buffer, NEW s, Well(kind, live, s), NEW v \in Value,
         NEW u, u = set_default_internal(s, v)
  PROVE  /\ Well(kind, live, u) /\ Put(kind, s, u, Default, v)
         /\ u.localized = s.localized /\ u.where = s.where /\ u.valcell = s.valcell
<1>1. /\ s \in Symbols /\ s.cell \in [AllCells -> Value \union {Nil}] /\ DOMAIN s.cell = AllCells
      /\ PerBuffer => ~s.localized
  BY DEF Well, Symbols, PerBuffer
<1>2. CASE PerBuffer
  <2>. DEFINE cell == [c \in AllCells |-> IF c = Default \/ c \in live \ s.local THEN v ELSE s.cell[c]]
  <2>1. u = [s EXCEPT !.cell = cell]
    <3>1. u = [s EXCEPT !.cell = [c \in DOMAIN s.cell |->
                                    IF c = Default \/ c \in live \ s.local THEN v ELSE s.cell[c]]]
      BY <1>1, <1>2 DEF set_default_internal
    <3>. QED BY <1>1, <3>1
  <2>2. cell \in [AllCells -> Value \union {Nil}]
    BY <1>1
  <2>3. /\ u \in Symbols /\ u.cell = cell /\ u.localized = s.localized /\ u.auto = s.auto
        /\ u.symval = s.symval /\ u.local = s.local /\ u.where = s.where /\ u.valcell = s.valcell
    <3>. HIDE DEF cell
    <3>. QED BY <1>1, <2>1, <2>2 DEF Symbols
  <2>4. \A c \in AllCells : cell[c] = IF c = Default \/ c \in live \ s.local THEN v ELSE s.cell[c]
    OBVIOUS
  <2>. HIDE DEF cell
  <2>5. Well(kind, live, u)
    BY <1>2, <2>3, <2>4, Names DEF Well, Cells, AllCells, PerBuffer
  <2>6. Default \in Cells /\ \A d \in Cells : d \in AllCells
    BY DEF Cells, AllCells
  <2>7. ValueIn(kind, u, Default) = v
    BY <1>2, <2>3, <2>4, Names, <2>6 DEF Well, AllCells, PerBuffer, ValueIn
  <2>8. \A d \in Cells : d # Default /\ d \in s.local => ValueIn(kind, u, d) = ValueIn(kind, s, d)
    BY <1>2, <2>3, <2>4, Names, <2>6 DEF Well, AllCells, PerBuffer, ValueIn
  <2>9. Put(kind, s, u, Default, v)
    BY <2>3, <2>6, <2>7, <2>8, PutByCells
  <2>. QED BY <2>3, <2>5, <2>9
<1>3. CASE ~PerBuffer /\ s.localized
  <2>. DEFINE cell   == [s.cell EXCEPT ![Default] = v]
              symval == IF fwd /\ s.valcell = Default THEN v ELSE s.symval
  <2>1. u = [s EXCEPT !.cell = cell, !.symval = symval]
    BY <1>1, <1>3 DEF set_default_internal
  <2>2. cell \in [AllCells -> Value \union {Nil}] /\ symval \in Value \union {Nil}
    BY <1>1 DEF AllCells, Symbols
  <2>3. /\ u \in Symbols /\ u.cell = cell /\ u.localized = s.localized /\ u.auto = s.auto
        /\ u.symval = symval /\ u.local = s.local /\ u.where = s.where /\ u.valcell = s.valcell
    <3>. HIDE DEF cell, symval
    <3>. QED BY <1>1, <2>1, <2>2 DEF Symbols
  <2>4. \A c \in AllCells : cell[c] = IF c = Default THEN v ELSE s.cell[c]
    BY <1>1
  <2>. HIDE DEF cell
  <2>5. Well(kind, live, u)
    <3>1. s.valcell \in AllCells /\ s.local \subseteq Buffer /\ symval \in Value \union {Nil}
      BY <2>2 DEF Well, AllCells
    <3>. HIDE DEF symval
    <3>2. \A b \in Buffer : u.cell[b] \in Value <=> b \in s.local
      BY <1>3, <2>3, <2>4, Names DEF Well, AllCells, PerBuffer
    <3>3. u.cell[Default] \in Value /\ u.cell[u.valcell] \in Value
      BY <1>3, <2>3, <2>4, <3>1, Names DEF Well, AllCells
    <3>4. fwd => u.symval \in Value
      BY <1>3, <2>3 DEF Well, symval, fwd
    <3>. QED BY <1>3, <2>3, <3>2, <3>3, <3>4 DEF Well, PerBuffer, fwd
  <2>6. Default \in Cells /\ \A d \in Cells : d \in AllCells
    BY DEF Cells, AllCells
  <2>7. ValueIn(kind, u, Default) = v
    BY <1>3, <2>3, <2>4, Names, <2>6 DEF Well, AllCells, PerBuffer, ValueIn, fwd
  <2>8. \A d \in Cells : d # Default /\ d \in s.local => ValueIn(kind, u, d) = ValueIn(kind, s, d)
    BY <1>3, <2>3, <2>4, Names, <2>6 DEF Well, AllCells, PerBuffer, ValueIn, fwd
  <2>9. Put(kind, s, u, Default, v)
    BY <2>3, <2>6, <2>7, <2>8, PutByCells
  <2>. QED BY <2>3, <2>5, <2>9
<1>4. CASE ~PerBuffer /\ ~s.localized
  <2>1. u = [s EXCEPT !.symval = v]
    BY <1>1, <1>4 DEF set_default_internal
  <2>3. /\ u \in Symbols /\ u.cell = s.cell /\ u.localized = s.localized /\ u.auto = s.auto
        /\ u.symval = v /\ u.local = s.local /\ u.where = s.where /\ u.valcell = s.valcell
    <3>. QED BY <1>1, <2>1 DEF Symbols
  <2>5. Well(kind, live, u)
    BY <1>4, <2>3, Names DEF Well, Cells, AllCells, PerBuffer
  <2>6. Default \in Cells /\ \A d \in Cells : d \in AllCells
    BY DEF Cells, AllCells
  <2>7. ValueIn(kind, u, Default) = v
    BY <1>4, <2>3, Names, <2>6 DEF Well, AllCells, PerBuffer, ValueIn
  <2>8. \A d \in Cells : d # Default /\ d \in s.local => ValueIn(kind, u, d) = ValueIn(kind, s, d)
    BY <1>4, <2>3, Names, <2>6 DEF Well, AllCells, PerBuffer, ValueIn
  <2>9. Put(kind, s, u, Default, v)
    BY <2>3, <2>6, <2>7, <2>8, PutByCells
  <2>. QED BY <2>3, <2>5, <2>9
<1>5. PerBuffer \/ (~PerBuffer /\ s.localized) \/ (~PerBuffer /\ ~s.localized)
  OBVIOUS
<1>. QED BY <1>2, <1>3, <1>4, <1>5

(* The cells hold what they are to hold. *)
Settled(s) == \A c \in Cells : c = Default \/ c \in s.local => s.cell[c] = ValueIn(kind, s, c)

LEMMA WrittenOut ==
  ASSUME live \subseteq Buffer, NEW s, Well(kind, live, s), s.localized, NEW u, u = WriteOut(s)
  PROVE  /\ Well(kind, live, u) /\ Same(kind, s, u) /\ Settled(u)
         /\ u.localized /\ u.where = s.where /\ u.valcell = s.valcell
<1>1. /\ s \in Symbols /\ s.cell \in [AllCells -> Value \union {Nil}]
      /\ s.valcell \in AllCells /\ s.local \subseteq Buffer /\ ~PerBuffer
  BY DEF Well, Symbols, PerBuffer, AllCells
<1>2. CASE ~fwd
  <2>1. u = s
    BY <1>2 DEF WriteOut
  <2>2. Settled(s)
    BY <1>1, <1>2 DEF Settled, ValueIn, fwd
  <2>. QED BY <2>1, <2>2 DEF Same
<1>3. CASE fwd
  <2>. DEFINE cell == [s.cell EXCEPT ![s.valcell] = s.symval]
  <2>1. u = [s EXCEPT !.cell = cell]
    BY <1>3 DEF WriteOut
  <2>2. s.symval \in Value /\ cell \in [AllCells -> Value \union {Nil}]
    BY <1>1, <1>3 DEF Well, fwd
  <2>3. /\ u \in Symbols /\ u.cell = cell /\ u.localized = s.localized /\ u.auto = s.auto
        /\ u.symval = s.symval /\ u.local = s.local /\ u.where = s.where /\ u.valcell = s.valcell
    <3>. HIDE DEF cell
    <3>. QED BY <1>1, <2>1, <2>2 DEF Symbols
  <2>4. \A c \in AllCells : cell[c] = IF c = s.valcell THEN s.symval ELSE s.cell[c]
    BY <1>1
  <2>. HIDE DEF cell
  <2>5. Well(kind, live, u)
    <3>1. \A b \in Buffer : u.cell[b] \in Value <=> b \in s.local
      BY <1>1, <2>2, <2>3, <2>4, Names DEF Well, AllCells, PerBuffer
    <3>2. u.cell[Default] \in Value /\ u.cell[u.valcell] \in Value
      BY <1>1, <2>2, <2>3, <2>4, Names DEF Well, AllCells
    <3>. QED BY <1>1, <2>2, <2>3, <3>1, <3>2 DEF Well, PerBuffer
  <2>6. \A d \in Cells : d \in AllCells
    BY DEF Cells, AllCells
  <2>7. \A d \in Cells : u.cell[d] = ValueIn(kind, s, d) /\ u.cell[d] = ValueIn(kind, u, d)
    BY <1>1, <1>3, <2>3, <2>4, <2>6 DEF ValueIn, fwd, PerBuffer
  <2>8. Same(kind, s, u) /\ Settled(u)
    BY <2>3, <2>7, SameByCells DEF Settled
  <2>. QED BY <2>3, <2>5, <2>8
<1>. QED BY <1>2, <1>3

LEMMA LoadedFor ==
  ASSUME live \subseteq Buffer, NEW s, Well(kind, live, s), s.localized, Settled(s),
         NEW where \in live \union {Nil}, NEW cell, cell = IF where \in s.local THEN where ELSE Default,
         NEW u, u = Load(s, where, cell)
  PROVE  /\ Well(kind, live, u) /\ Same(kind, s, u)
         /\ u.localized /\ u.where = where /\ u.valcell = cell
<1>1. /\ s \in Symbols /\ s.cell \in [AllCells -> Value \union {Nil}]
      /\ s.local \subseteq Buffer /\ ~PerBuffer /\ cell \in AllCells /\ cell \in s.local \union {Default}
  BY DEF Well, Symbols, PerBuffer, AllCells
<1>2. s.cell[cell] \in Value
  BY <1>1 DEF Well, PerBuffer
<1>. DEFINE cells  == [s.cell EXCEPT ![Orphan] = Nil]
            symval == IF fwd THEN s.cell[cell] ELSE s.symval
<1>3. u = [s EXCEPT !.where = where, !.valcell = cell, !.cell = cells, !.symval = symval]
  BY DEF Load
<1>4. cells \in [AllCells -> Value \union {Nil}] /\ symval \in Value \union {Nil} /\ where \in Buffer \union {Nil}
  BY <1>1, <1>2 DEF Symbols
<1>5. /\ u \in Symbols /\ u.cell = cells /\ u.localized = s.localized /\ u.auto = s.auto
      /\ u.symval = symval /\ u.local = s.local /\ u.where = where /\ u.valcell = cell
  <2>. HIDE DEF cells, symval
  <2>. QED BY <1>1, <1>3, <1>4 DEF Symbols
<1>6. \A c \in AllCells : c # Orphan => cells[c] = s.cell[c]
  BY <1>1
<1>. HIDE DEF cells
<1>7. Well(kind, live, u)
  <2>1. \A b \in Buffer : u.cell[b] \in Value <=> b \in s.local
    BY <1>1, <1>5, <1>6, Names DEF Well, AllCells, PerBuffer
  <2>2. u.cell[Default] \in Value /\ u.cell[u.valcell] \in Value
    BY <1>1, <1>2, <1>5, <1>6, Names DEF Well, AllCells
  <2>3. fwd => u.symval \in Value
    BY <1>2, <1>5
  <2>4. u.where \in live => u.valcell = IF u.where \in u.local THEN u.where ELSE Default
    BY <1>5
  <2>5. u.valcell \in u.local \union {Default, Orphan} /\ (u.valcell \in u.local => u.where = u.valcell)
    BY <1>1, <1>5, Names
  <2>. QED BY <1>1, <1>5, <2>1, <2>2, <2>3, <2>4, <2>5 DEF Well, PerBuffer, fwd
<1>8. Same(kind, s, u)
  <2>1. \A d \in Cells : d \in AllCells /\ d # Orphan
    BY Names DEF Cells, AllCells
  <2>2. ASSUME NEW d \in Cells, d = Default \/ d \in s.local
        PROVE  ValueIn(kind, u, d) = ValueIn(kind, s, d)
    <3>1. u.cell[d] = s.cell[d] /\ s.cell[d] = ValueIn(kind, s, d)
      BY <1>5, <1>6, <2>1, <2>2 DEF Settled
    <3>2. ValueIn(kind, u, d) = u.cell[d]
      <4>1. u.localized
        BY <1>5
      <4>2. CASE fwd /\ u.valcell = d
        <5>1. u.symval = s.cell[d]
          BY <1>5, <4>2
        <5>. QED BY <3>1, <5>1 DEF ValueIn
      <4>3. CASE ~(fwd /\ u.valcell = d)
        BY <4>1, <4>3 DEF ValueIn, fwd
      <4>. QED BY <4>2, <4>3
    <3>. QED BY <3>1, <3>2
  <2>. QED BY <1>5, <2>2, SameByCells
<1>. QED BY <1>5, <1>7, <1>8

LEMMA SameTwice ==
  ASSUME NEW k, NEW s, NEW u, NEW w, Same(k, s, u), Same(k, u, w)
  PROVE  Same(k, s, w)
BY DEF Same

LEMMA ValuesAre ==
  ASSUME NEW k, NEW s, NEW c \in Cells, c = Default \/ c \in s.local
  PROVE  Values(k, s)[c] = ValueIn(k, s, c)
BY DEF Values

LEMMA SwappedIn ==
  ASSUME live \subseteq Buffer, NEW s, Well(kind, live, s), s.localized, NEW b \in live,
         NEW u, u = swap_in_symval_forwarding(s, b)
  PROVE  Well(kind, live, u) /\ Same(kind, s, u) /\ u.localized /\ u.where = b
<1>1. CASE s.where = b
  BY <1>1 DEF swap_in_symval_forwarding, Same
<1>2. CASE s.where # b
  <2>. DEFINE w    == WriteOut(s)
              cell == IF b \in s.local THEN b ELSE Default
  <2>1. u = Load(w, b, cell)
    BY <1>2 DEF swap_in_symval_forwarding
  <2>. HIDE DEF w, cell
  <2>2. Well(kind, live, w) /\ Same(kind, s, w) /\ Settled(w) /\ w.localized
    BY WrittenOut DEF w
  <2>3. cell = IF b \in w.local THEN b ELSE Default
    BY <2>2 DEF Same, cell
  <2>4. Well(kind, live, u) /\ Same(kind, w, u) /\ u.localized /\ u.where = b
    <3>1. b \in live \union {Nil}
      OBVIOUS
    <3>. QED BY <2>1, <2>2, <2>3, <3>1, LoadedFor
  <2>. QED BY <2>2, <2>4, SameTwice
<1>. QED BY <1>1, <1>2

LEMMA SwappedOut ==
  ASSUME live \subseteq Buffer, NEW s, Well(kind, live, s), s.localized,
         NEW u, u = swap_in_global_binding(s)
  PROVE  /\ Well(kind, live, u) /\ Same(kind, s, u) /\ u.localized
         /\ u.where = Nil /\ u.valcell = Default
<1>. DEFINE w == WriteOut(s)
<1>1. u = Load(w, Nil, Default)
  BY DEF swap_in_global_binding
<1>. HIDE DEF w
<1>2. Well(kind, live, w) /\ Same(kind, s, w) /\ Settled(w) /\ w.localized
  BY WrittenOut DEF w
<1>3. Nil \notin w.local
  BY <1>2, Names DEF Well
<1>4. /\ Well(kind, live, u) /\ Same(kind, w, u) /\ u.localized /\ u.where = Nil /\ u.valcell = Default
  <2>1. Nil \in live \union {Nil} /\ Default = IF Nil \in w.local THEN Nil ELSE Default
    BY <1>3
  <2>. QED BY <1>1, <1>2, <2>1, LoadedFor
<1>. QED BY <1>2, <1>4, SameTwice

(* The cell that has B's value *)
CellFor(s, b) == IF b \in s.local THEN b ELSE Default

LEMMA LocalP ==
  ASSUME NEW s, Well(kind, live, s), NEW b \in live
  PROVE  local_variable_p(s, b) <=> b \in s.local
<1>1. CASE s.localized /\ s.where = b
  <2>1. s.valcell = IF b \in s.local THEN b ELSE Default
    BY <1>1 DEF Well
  <2>2. b \in s.local => b # Default
    BY Names DEF Well, Symbols
  <2>. QED BY <1>1, <2>1, <2>2 DEF local_variable_p
<1>2. CASE ~(s.localized /\ s.where = b)
  BY <1>2 DEF local_variable_p
<1>. QED BY <1>1, <1>2

LEMMA Found ==
  ASSUME live \subseteq Buffer, NEW s, Well(kind, live, s), NEW b \in live,
         NEW u, u = find_symbol_value(s, b)
  PROVE  /\ Well(kind, live, u) /\ Same(kind, s, u) /\ u.localized = s.localized
         /\ u.localized => u.where = b
         /\ Loaded(u, b) = Values(kind, u)[CellFor(u, b)]
<1>1. /\ Well(kind, live, u) /\ Same(kind, s, u) /\ u.localized = s.localized
      /\ u.localized => u.where = b
  <2>1. CASE s.localized
    <3>1. u = swap_in_symval_forwarding(s, b)
      BY <2>1 DEF find_symbol_value
    <3>2. Well(kind, live, u) /\ Same(kind, s, u) /\ u.localized /\ u.where = b
      BY <2>1, <3>1, SwappedIn
    <3>. QED BY <2>1, <3>2 DEF Well, Symbols
  <2>2. CASE ~s.localized
    BY <2>2 DEF find_symbol_value, Same
  <2>. QED BY <2>1, <2>2
<1>. DEFINE c == CellFor(u, b)
<1>2. /\ c \in Cells /\ (c = Default \/ c \in u.local) /\ u.local \subseteq Buffer
  BY <1>1 DEF CellFor, Cells, Well
<1>3. Values(kind, u)[c] = ValueIn(kind, u, c)
  BY <1>2, ValuesAre
<1>4. Loaded(u, b) = ValueIn(kind, u, c)
  <2>1. CASE PerBuffer
    BY <1>1, <2>1 DEF Loaded, ValueIn, PerBuffer, Well, CellFor
  <2>2. CASE ~PerBuffer /\ u.localized
    <3>1. u.valcell = c
      BY <1>1, <2>2 DEF Well, CellFor
    <3>. QED BY <2>2, <3>1 DEF Loaded, ValueIn, PerBuffer, fwd
  <2>3. CASE ~PerBuffer /\ ~u.localized
    BY <2>3 DEF Loaded, ValueIn, PerBuffer
  <2>. QED BY <2>1, <2>2, <2>3
<1>. QED BY <1>1, <1>3, <1>4

LEMMA ConsultedSame ==
  ASSUME live \subseteq Buffer, NEW s, Well(kind, live, s), NEW b, NEW u, u = Consulted(s, b)
  PROVE  /\ Well(kind, live, u) /\ Same(kind, s, u)
         /\ u.localized = s.localized /\ u.where = s.where /\ u.valcell = s.valcell
<1>1. CASE s.localized /\ b \in s.local
  <2>1. u = WriteOut(s)
    BY <1>1 DEF Consulted
  <2>2. /\ Well(kind, live, u) /\ Same(kind, s, u) /\ u.localized
        /\ u.where = s.where /\ u.valcell = s.valcell
    BY <1>1, <2>1, WrittenOut
  <2>. QED BY <1>1, <2>2 DEF Well, Symbols
<1>2. CASE ~(s.localized /\ b \in s.local)
  BY <1>2 DEF Consulted, Same
<1>. QED BY <1>1, <1>2

LEMMA DefaultValue ==
  ASSUME NEW s, Well(kind, live, s)
  PROVE  default_value(s) = Values(kind, s)[Default] /\ default_value(s) \in Value
<1>1. default_value(s) = ValueIn(kind, s, Default)
  BY DEF default_value, ValueIn, PerBuffer, fwd
<1>2. Values(kind, s)[Default] = ValueIn(kind, s, Default)
  BY ValuesAre DEF Cells
<1>3. ValueIn(kind, s, Default) \in Value
  BY DEF ValueIn, Well, Cells
<1>. QED BY <1>1, <1>2, <1>3

LEMMA BufferLocalValue ==
  ASSUME live \subseteq Buffer, NEW s, Well(kind, live, s), NEW b
  PROVE  /\ b \in s.local => buffer_local_value(s, b) = Values(kind, s)[b]
         /\ b \in Buffer => buffer_local_value(s, b) \in Value
<1>1. CASE PerBuffer
  <2>1. buffer_local_value(s, b) = s.cell[b]
    BY <1>1 DEF buffer_local_value
  <2>2. s.local \subseteq Buffer
    BY DEF Well
  <2>3. b \in Buffer => s.cell[b] \in Value
    BY <1>1 DEF Well, Cells, PerBuffer
  <2>4. b \in s.local => Values(kind, s)[b] = s.cell[b]
    BY <1>1, <2>2, ValuesAre DEF Cells, ValueIn, PerBuffer
  <2>. QED BY <2>1, <2>3, <2>4
<1>2. CASE ~PerBuffer /\ b \in s.local
  <2>. DEFINE w == WriteOut(s)
  <2>1. s.localized /\ b \in Cells /\ b \in Buffer
    BY <1>2 DEF Well, PerBuffer, Cells
  <2>2. buffer_local_value(s, b) = w.cell[b]
    BY <1>2, <2>1 DEF buffer_local_value, Consulted
  <2>. HIDE DEF w
  <2>3. Well(kind, live, w) /\ Same(kind, s, w) /\ Settled(w)
    BY <2>1, WrittenOut DEF w
  <2>4. b \in w.local
    BY <1>2, <2>3 DEF Same
  <2>5. w.cell[b] = ValueIn(kind, w, b)
    BY <2>1, <2>3, <2>4 DEF Settled
  <2>6. w.cell[b] = Values(kind, s)[b]
    BY <2>1, <2>3, <2>4, <2>5, ValuesAre DEF Same
  <2>7. w.cell[b] \in Value
    BY <1>2, <2>1, <2>3, <2>4 DEF Well, PerBuffer
  <2>. QED BY <2>2, <2>6, <2>7
<1>3. CASE ~PerBuffer /\ b \notin s.local
  BY <1>3, DefaultValue DEF buffer_local_value
<1>. QED BY <1>1, <1>2, <1>3

(* U is S with a value V of B's own. *)
PutNew(k, s, u, b, v) ==
  u.local = s.local \union {b} /\ u.auto = s.auto /\ Values(k, u) = [Values(k, s) EXCEPT ![b] = v]

LEMMA NewByCells ==
  ASSUME NEW k, NEW s, NEW u, NEW v, NEW b \in Cells, u.local = s.local \union {b}, u.auto = s.auto,
         ValueIn(k, u, b) = v,
         \A d \in Cells : d # b /\ (d = Default \/ d \in s.local) => ValueIn(k, u, d) = ValueIn(k, s, d)
  PROVE  PutNew(k, s, u, b, v)
BY DEF PutNew, Values

LEMMA Stored ==
  ASSUME live \subseteq Buffer, NEW s, Well(kind, live, s), s.localized, NEW v \in Value,
         NEW u, u = StoreLoaded(s, v)
  PROVE  /\ Well(kind, live, u) /\ u.local = s.local /\ u.auto = s.auto
         /\ u.localized /\ u.where = s.where /\ u.valcell = s.valcell
         /\ u.valcell \in Cells => ValueIn(kind, u, u.valcell) = v
         /\ \A d \in Cells : d # u.valcell => ValueIn(kind, u, d) = s.cell[d]
<1>1. /\ s \in Symbols /\ s.cell \in [AllCells -> Value \union {Nil}]
      /\ s.valcell \in AllCells /\ s.local \subseteq Buffer /\ ~PerBuffer
  BY DEF Well, Symbols, PerBuffer, AllCells
<1>. DEFINE cell   == [s.cell EXCEPT ![s.valcell] = v]
            symval == IF fwd THEN v ELSE s.symval
<1>2. u = [s EXCEPT !.cell = cell, !.symval = symval]
  BY DEF StoreLoaded
<1>3. cell \in [AllCells -> Value \union {Nil}] /\ symval \in Value \union {Nil}
  BY <1>1 DEF Symbols
<1>4. /\ u \in Symbols /\ u.cell = cell /\ u.localized = s.localized /\ u.auto = s.auto
      /\ u.symval = symval /\ u.local = s.local /\ u.where = s.where /\ u.valcell = s.valcell
  <2>. HIDE DEF cell, symval
  <2>. QED BY <1>1, <1>2, <1>3 DEF Symbols
<1>5. \A c \in AllCells : cell[c] = IF c = s.valcell THEN v ELSE s.cell[c]
  BY <1>1
<1>. HIDE DEF cell
<1>6. Well(kind, live, u)
  <2>1. \A b \in Buffer : u.cell[b] \in Value <=> b \in s.local
    BY <1>1, <1>4, <1>5, Names DEF Well, AllCells, PerBuffer
  <2>2. u.cell[Default] \in Value /\ u.cell[u.valcell] \in Value
    BY <1>1, <1>4, <1>5, Names DEF Well, AllCells
  <2>3. fwd => u.symval \in Value
    BY <1>4
  <2>. QED BY <1>1, <1>4, <2>1, <2>2, <2>3 DEF Well, PerBuffer, fwd
<1>7. \A d \in Cells : d \in AllCells
  BY DEF Cells, AllCells
<1>8. u.valcell \in Cells => ValueIn(kind, u, u.valcell) = v
  BY <1>1, <1>4, <1>5 DEF ValueIn, PerBuffer, fwd
<1>9. ASSUME NEW d \in Cells, d # u.valcell
      PROVE  ValueIn(kind, u, d) = s.cell[d]
  <2>1. u.cell[d] = s.cell[d] /\ u.localized
    BY <1>4, <1>5, <1>7, <1>9
  <2>. QED BY <1>9, <2>1 DEF ValueIn
<1>. QED BY <1>4, <1>6, <1>8, <1>9

Kept(s, b, bindflag) == b \in s.local \/ bindflag \/ ~s.auto \/ let_shadows_buffer_binding_p

LEMMA PreparedFor ==
  ASSUME live \subseteq Buffer, NEW s, Well(kind, live, s), s.localized,
         NEW b \in live, NEW bindflag \in BOOLEAN,
         NEW u, u = Prepared(s, b, bindflag)
  PROVE  /\ Well(kind, live, u) /\ u.localized /\ u.where = b /\ u.auto = s.auto
         /\ u.valcell = CellFor(u, b)
         /\ u.local = IF Kept(s, b, bindflag) THEN s.local ELSE s.local \union {b}
         /\ \A d \in Cells : d = Default \/ d \in s.local => u.cell[d] = s.cell[d]
<1>1. /\ s \in Symbols /\ s.cell \in [AllCells -> Value \union {Nil}]
      /\ s.valcell \in AllCells /\ s.local \subseteq Buffer /\ ~PerBuffer
      /\ b \in Buffer /\ b \in AllCells /\ s.cell[Default] \in Value
  BY DEF Well, Symbols, PerBuffer, AllCells
<1>. DEFINE stays == b \in s.local \/ bindflag \/ ~s.auto \/ let_shadows_buffer_binding_p
            local == IF stays THEN s.local ELSE s.local \union {b}
            owned == IF stays THEN s.cell ELSE [s.cell EXCEPT ![b] = s.cell[Default]]
            cell  == [owned EXCEPT ![Orphan] = Nil]
            valcell == IF b \in local THEN b ELSE Default
            owner == IF stays THEN s ELSE Own(s, b, s.cell[Default])
<1>2. /\ owner \in Symbols /\ owner.cell = owned /\ owner.localized = s.localized
      /\ owner.auto = s.auto /\ owner.symval = s.symval /\ owner.local = local
  <2>1. CASE stays
    BY <1>1, <2>1
  <2>2. CASE ~stays
    <3>. DEFINE mine == [s.cell EXCEPT ![b] = s.cell[Default]]
    <3>1. owner = [s EXCEPT !.local = s.local \union {b}, !.cell = mine]
      BY <2>2 DEF Own
    <3>2. mine \in [AllCells -> Value \union {Nil}] /\ s.local \union {b} \in SUBSET Buffer
      BY <1>1
    <3>3. mine = owned /\ local = s.local \union {b}
      BY <2>2
    <3>. HIDE DEF mine, owned, stays, local, owner
    <3>. QED BY <1>1, <3>1, <3>2, <3>3 DEF Symbols
  <2>. QED BY <2>1, <2>2
<1>3. u = [owner EXCEPT !.where = b, !.valcell = IF b \in owner.local THEN b ELSE Default, !.cell[Orphan] = Nil]
  BY DEF Prepared
<1>4. /\ owned \in [AllCells -> Value \union {Nil}]
      /\ \A c \in AllCells : owned[c] = IF stays \/ c # b THEN s.cell[c] ELSE s.cell[Default]
  <2>1. CASE stays
    BY <1>1, <2>1
  <2>2. CASE ~stays
    BY <1>1, <2>2
  <2>. QED BY <2>1, <2>2
<1>. HIDE DEF owner, owned
<1>5. /\ u \in Symbols /\ u.cell = cell /\ u.localized = s.localized /\ u.auto = s.auto
      /\ u.symval = s.symval /\ u.local = local /\ u.where = b /\ u.valcell = valcell
  <2>1. cell \in [AllCells -> Value \union {Nil}] /\ valcell \in AllCells
    BY <1>1, <1>4 DEF AllCells
  <2>2. u = [owner EXCEPT !.where = b, !.valcell = valcell, !.cell = cell]
    BY <1>2, <1>3
  <2>. HIDE DEF cell, valcell, local
  <2>. QED BY <1>1, <1>2, <2>1, <2>2 DEF Symbols
<1>6. \A c \in AllCells : cell[c] = IF c = Orphan THEN Nil ELSE owned[c]
  BY <1>4
<1>. HIDE DEF cell
<1>7. \A d \in Cells : d = Default \/ d \in s.local => u.cell[d] = s.cell[d]
  <2>1. \A d \in Cells : d \in AllCells /\ d # Orphan
    BY Names DEF Cells, AllCells
  <2>2. ~stays => b \notin s.local /\ b # Default
    BY <1>1, Names
  <2>. HIDE DEF stays
  <2>. QED BY <1>4, <1>5, <1>6, <2>1, <2>2
<1>8. local \subseteq live /\ s.local \subseteq local
  BY DEF Well
<1>9. Well(kind, live, u)
  <2>1. \A c \in Buffer : u.cell[c] \in Value <=> c \in local
    <3>1. \A c \in Buffer : c \in AllCells /\ c # Orphan
      BY Names DEF AllCells
    <3>2. \A c \in Buffer : u.cell[c] = IF stays \/ c # b THEN s.cell[c] ELSE s.cell[Default]
      BY <1>4, <1>5, <1>6, <3>1
    <3>3. \A c \in Buffer : s.cell[c] \in Value <=> c \in s.local
      BY <1>1 DEF Well, PerBuffer
    <3>. HIDE DEF stays
    <3>. QED BY <1>1, <3>2, <3>3
  <2>2. u.cell[Default] \in Value
    BY <1>1, <1>7 DEF Cells
  <2>3. valcell = b => b \in local
    BY <1>1, Names
  <2>4. u.cell[u.valcell] \in Value
    BY <1>1, <1>5, <2>1, <2>2, <2>3
  <2>5. u.where \in live => u.valcell = IF u.where \in u.local THEN u.where ELSE Default
    BY <1>5
  <2>6. u.valcell \in u.local \union {Default, Orphan} /\ (u.valcell \in u.local => u.where = u.valcell)
    BY <1>1, <1>5, <1>8, Names
  <2>. HIDE DEF local, valcell
  <2>. QED BY <1>1, <1>5, <1>8, <2>1, <2>2, <2>4, <2>5, <2>6 DEF Well, PerBuffer, fwd
<1>. QED BY <1>5, <1>7, <1>9 DEF CellFor, Kept

(* To set the variable in B does not make it B's own. *)
Stays(s, b, bindflag) ==
  b \in s.local \/ bindflag \/ (~s.auto /\ ~PerBuffer) \/ let_shadows_buffer_binding_p

Assigned(s, u, b, bindflag, v) ==
  IF Stays(s, b, bindflag) THEN Put(kind, s, u, CellFor(s, b), v) ELSE PutNew(kind, s, u, b, v)

LEMMA LocalizedSet ==
  ASSUME live \subseteq Buffer, NEW s, Well(kind, live, s), s.localized, NEW v \in Value,
         NEW b \in live, NEW bindflag \in BOOLEAN, NEW u, u = SetLocalized(s, v, b, bindflag)
  PROVE  Well(kind, live, u) /\ Assigned(s, u, b, bindflag, v)
<1>1. ~PerBuffer /\ b \in Buffer /\ b \in Cells /\ s.local \subseteq Buffer /\ b # Default
  BY Names DEF Well, PerBuffer, Cells
<1>2. CASE s.where # b \/ s.valcell = Default
  <2>. DEFINE w == WriteOut(s)
              p == Prepared(w, b, bindflag)
              c == p.valcell
  <2>1. u = StoreLoaded(p, v)
    BY <1>2 DEF SetLocalized
  <2>2. Well(kind, live, w) /\ Same(kind, s, w) /\ Settled(w) /\ w.localized
    BY WrittenOut
  <2>. HIDE DEF w
  <2>3. /\ Well(kind, live, p) /\ p.localized /\ p.where = b /\ p.auto = w.auto
        /\ p.valcell = CellFor(p, b)
        /\ p.local = IF Kept(w, b, bindflag) THEN w.local ELSE w.local \union {b}
        /\ \A d \in Cells : d = Default \/ d \in w.local => p.cell[d] = w.cell[d]
    <3>1. p = Prepared(w, b, bindflag)
      OBVIOUS
    <3>. HIDE DEF p
    <3>. QED BY <2>2, <3>1, PreparedFor
  <2>. HIDE DEF p
  <2>4. /\ Well(kind, live, u) /\ u.local = p.local /\ u.auto = p.auto
        /\ u.valcell = p.valcell
        /\ u.valcell \in Cells => ValueIn(kind, u, u.valcell) = v
        /\ \A d \in Cells : d # u.valcell => ValueIn(kind, u, d) = p.cell[d]
    BY <2>1, <2>3, Stored
  <2>5. w.local = s.local /\ w.auto = s.auto /\ Values(kind, w) = Values(kind, s)
    BY <2>2 DEF Same
  <2>6. ASSUME NEW d \in Cells, d # p.valcell, d = Default \/ d \in s.local
        PROVE  ValueIn(kind, u, d) = ValueIn(kind, s, d)
    <3>1. ValueIn(kind, u, d) = w.cell[d]
      BY <2>3, <2>4, <2>5, <2>6
    <3>2. w.cell[d] = ValueIn(kind, w, d)
      BY <2>2, <2>5, <2>6 DEF Settled
    <3>3. ValueIn(kind, w, d) = ValueIn(kind, s, d)
      BY <2>5, <2>6, ValuesAre
    <3>. QED BY <3>1, <3>2, <3>3
  <2>7. CASE Stays(s, b, bindflag)
    <3>1. p.local = s.local
      BY <1>1, <2>3, <2>5, <2>7 DEF Stays, Kept
    <3>2. /\ p.valcell = CellFor(s, b) /\ p.valcell \in Cells
          /\ p.valcell = Default \/ p.valcell \in s.local
      BY <1>1, <2>3, <3>1 DEF CellFor, Cells
    <3>3. ValueIn(kind, u, p.valcell) = v
      BY <2>4, <3>2
    <3>4. u.local = s.local /\ u.auto = s.auto
      BY <2>3, <2>4, <2>5, <3>1
    <3>5. Put(kind, s, u, p.valcell, v)
      BY <2>6, <3>2, <3>3, <3>4, PutByCells
    <3>. QED BY <2>4, <2>7, <3>2, <3>5 DEF Assigned
  <2>8. CASE ~Stays(s, b, bindflag)
    <3>1. p.local = s.local \union {b}
      BY <1>1, <2>3, <2>5, <2>8 DEF Stays, Kept
    <3>2. p.valcell = b
      BY <2>3, <3>1 DEF CellFor
    <3>3. ValueIn(kind, u, b) = v
      BY <1>1, <2>4, <3>2
    <3>4. u.local = s.local \union {b} /\ u.auto = s.auto
      BY <2>3, <2>4, <2>5, <3>1
    <3>5. PutNew(kind, s, u, b, v)
      BY <1>1, <2>6, <3>2, <3>3, <3>4, NewByCells
    <3>. QED BY <2>4, <2>8, <3>5 DEF Assigned
  <2>. QED BY <2>7, <2>8
<1>3. CASE ~(s.where # b \/ s.valcell = Default)
  <2>1. u = StoreLoaded(s, v)
    BY <1>3 DEF SetLocalized
  <2>2. s.valcell = b /\ b \in s.local
    BY <1>3 DEF Well
  <2>3. /\ Well(kind, live, u) /\ u.local = s.local /\ u.auto = s.auto
        /\ u.valcell = b
        /\ u.valcell \in Cells => ValueIn(kind, u, u.valcell) = v
        /\ \A d \in Cells : d # u.valcell => ValueIn(kind, u, d) = s.cell[d]
    BY <2>1, <2>2, Stored
  <2>4. \A d \in Cells : d # b => ValueIn(kind, s, d) = s.cell[d]
    BY <2>2 DEF ValueIn
  <2>5. Put(kind, s, u, b, v)
    BY <1>1, <2>2, <2>3, <2>4, PutByCells
  <2>. QED BY <2>2, <2>3, <2>5 DEF Assigned, Stays, CellFor
<1>. QED BY <1>2, <1>3

LEMMA PerBufferSet ==
  ASSUME live \subseteq Buffer, NEW s, Well(kind, live, s), PerBuffer, NEW v \in Value,
         NEW b \in live, NEW bindflag \in BOOLEAN, bindflag => b \in s.local,
         NEW u, u = SetPerBuffer(s, v, b, bindflag)
  PROVE  Well(kind, live, u) /\ Assigned(s, u, b, bindflag, v)
<1>1. /\ s \in Symbols /\ s.cell \in [AllCells -> Value \union {Nil}] /\ s.local \subseteq Buffer
      /\ b \in Buffer /\ b \in Cells /\ b # Default /\ ~s.localized
      /\ \A c \in Cells : c \in AllCells /\ s.cell[c] \in Value
  BY Names DEF Well, Symbols, PerBuffer, AllCells, Cells
<1>2. \A x : \A c \in Cells : ValueIn(kind, x, c) = x.cell[c]
  BY DEF ValueIn, PerBuffer
<1>3. CASE b \in s.local
  <2>. DEFINE cell == [s.cell EXCEPT ![b] = v]
  <2>1. u = [s EXCEPT !.cell = cell]
    BY <1>3 DEF SetPerBuffer
  <2>2. cell \in [AllCells -> Value \union {Nil}] /\ \A c \in AllCells : cell[c] = IF c = b THEN v ELSE s.cell[c]
    BY <1>1
  <2>. HIDE DEF cell
  <2>3. /\ u \in Symbols /\ u.cell = cell /\ u.localized = s.localized /\ u.auto = s.auto
        /\ u.symval = s.symval /\ u.local = s.local /\ u.where = s.where /\ u.valcell = s.valcell
    BY <1>1, <2>1, <2>2 DEF Symbols
  <2>4. Well(kind, live, u)
    <3>1. \A c \in Cells : u.cell[c] \in Value
      BY <1>1, <2>2, <2>3
    <3>2. \A c \in live \ s.local : u.cell[c] = u.cell[Default]
      BY <1>1, <1>3, <2>2, <2>3, Names DEF Well, PerBuffer, AllCells
    <3>. QED BY <1>1, <2>3, <3>1, <3>2 DEF Well, PerBuffer
  <2>5. Put(kind, s, u, b, v)
    <3>1. ValueIn(kind, u, b) = v
      BY <1>1, <1>2, <2>2, <2>3
    <3>2. \A d \in Cells : d # b => ValueIn(kind, u, d) = ValueIn(kind, s, d)
      BY <1>1, <1>2, <2>2, <2>3
    <3>. QED BY <1>1, <1>3, <2>3, <3>1, <3>2, PutByCells
  <2>. QED BY <1>3, <2>4, <2>5 DEF Assigned, Stays, CellFor
<1>4. CASE b \notin s.local /\ let_shadows_buffer_binding_p
  <2>. DEFINE w == set_default_internal(s, v)
  <2>1. u = [w EXCEPT !.cell[b] = v]
    BY <1>4 DEF SetPerBuffer
  <2>. HIDE DEF w
  <2>2. Well(kind, live, w) /\ Put(kind, s, w, Default, v)
    BY DefaultSet DEF w
  <2>3. w.cell[b] = v
    <3>1. Default \in Cells /\ w.local = s.local /\ Values(kind, w)[Default] = v
      BY <2>2 DEF Put, Values, Cells
    <3>2. w.cell[Default] = v
      BY <1>2, <3>1, ValuesAre
    <3>. QED BY <1>4, <2>2, <3>1, <3>2 DEF Well, PerBuffer
  <2>4. u = w
    BY <2>1, <2>2, <2>3 DEF Well, Symbols
  <2>. QED BY <1>4, <2>2, <2>4 DEF Assigned, Stays, CellFor
<1>5. CASE b \notin s.local /\ ~let_shadows_buffer_binding_p
  <2>. DEFINE cell == [s.cell EXCEPT ![b] = v]
              w    == Own(s, b, v)
  <2>1. u = [w EXCEPT !.cell[b] = v]
    BY <1>5 DEF SetPerBuffer
  <2>2. w = [s EXCEPT !.local = s.local \union {b}, !.cell = cell]
    BY DEF Own
  <2>3. cell \in [AllCells -> Value \union {Nil}] /\ \A c \in AllCells : cell[c] = IF c = b THEN v ELSE s.cell[c]
    BY <1>1
  <2>. HIDE DEF cell, w
  <2>4. /\ w \in Symbols /\ w.cell = cell /\ w.localized = s.localized /\ w.auto = s.auto
        /\ w.symval = s.symval /\ w.local = s.local \union {b} /\ w.where = s.where /\ w.valcell = s.valcell
    BY <1>1, <2>2, <2>3 DEF Symbols
  <2>5. u = w
    <3>1. w.cell[b] = v
      BY <1>1, <2>3, <2>4
    <3>. QED BY <2>1, <2>4, <3>1 DEF Symbols
  <2>6. Well(kind, live, w)
    <3>1. \A c \in Cells : w.cell[c] \in Value
      BY <1>1, <2>3, <2>4
    <3>2. \A c \in live \ w.local : w.cell[c] = w.cell[Default]
      BY <1>1, <2>3, <2>4, Names DEF Well, PerBuffer, AllCells
    <3>3. w.valcell = Default /\ w.where = Nil /\ Default \notin w.local /\ Nil \notin live
      BY <1>1, <2>4, Names DEF Well
    <3>4. w.local \subseteq live
      BY <2>4 DEF Well
    <3>. QED BY <1>1, <2>4, <3>1, <3>2, <3>3, <3>4 DEF Well, PerBuffer
  <2>7. PutNew(kind, s, w, b, v)
    <3>1. ValueIn(kind, w, b) = v
      BY <1>1, <1>2, <2>3, <2>4
    <3>2. \A d \in Cells : d # b => ValueIn(kind, w, d) = ValueIn(kind, s, d)
      BY <1>1, <1>2, <2>3, <2>4
    <3>. QED BY <1>1, <2>4, <3>1, <3>2, NewByCells
  <2>8. ~Stays(s, b, bindflag)
    BY <1>5 DEF Stays
  <2>. QED BY <2>5, <2>6, <2>7, <2>8 DEF Assigned
<1>. QED BY <1>3, <1>4, <1>5

(* set_internal, in a live buffer; a let of the default of a variable with   *)
(* slots in buffers does not come here.                                      *)
LEMMA InternalSet ==
  ASSUME live \subseteq Buffer, NEW s, Well(kind, live, s), NEW v \in Value,
         NEW b \in live, NEW bindflag \in BOOLEAN, PerBuffer /\ bindflag => b \in s.local,
         NEW u, u = set_internal(s, v, b, bindflag)
  PROVE  Well(kind, live, u) /\ Assigned(s, u, b, bindflag, v)
<1>0. PerBuffer => ~s.localized
  BY DEF Well, PerBuffer
<1>1. CASE PerBuffer
  <2>1. u = SetPerBuffer(s, v, b, bindflag)
    BY <1>0, <1>1 DEF set_internal
  <2>2. bindflag => b \in s.local
    BY <1>1
  <2>. QED BY <1>1, <2>1, <2>2, PerBufferSet
<1>2. CASE ~PerBuffer /\ s.localized
  <2>1. u = SetLocalized(s, v, b, bindflag)
    BY <1>2 DEF set_internal
  <2>. QED BY <1>2, <2>1, LocalizedSet
<1>3. CASE ~PerBuffer /\ ~s.localized
  <2>1. u = [s EXCEPT !.symval = v]
    BY <1>3 DEF set_internal
  <2>2. s \in Symbols /\ s.local = {} /\ ~s.auto
    BY <1>3 DEF Well, PerBuffer
  <2>3. /\ u \in Symbols /\ u.cell = s.cell /\ u.localized = s.localized /\ u.auto = s.auto
        /\ u.symval = v /\ u.local = s.local /\ u.where = s.where /\ u.valcell = s.valcell
    BY <2>1, <2>2 DEF Symbols
  <2>4. Well(kind, live, u)
    BY <1>3, <2>3 DEF Well, PerBuffer
  <2>5. Put(kind, s, u, Default, v)
    <3>1. ValueIn(kind, u, Default) = v /\ Default \in Cells
      BY <1>3, <2>3 DEF ValueIn, PerBuffer, Cells
    <3>. QED BY <2>2, <2>3, <3>1, PutByCells
  <2>. QED BY <1>3, <2>2, <2>4, <2>5 DEF Assigned, Stays, CellFor
<1>. QED BY <1>1, <1>2, <1>3

-------------------------------------------------------------------------------
(* An entry *)

LEMMA EntryParts ==
  ASSUME NEW e \in Entry
  PROVE  /\ e.kind \in {"LET", "LET_DEFAULT", "LET_LOCAL", "NOP"}
         /\ e.where \in Buffer \union {Nil} /\ e.old_value \in Value \union {Nil}
         /\ e.kind # "NOP" => e.old_value \in Value
         /\ e.kind \in {"LET_DEFAULT", "LET_LOCAL"} => e.where \in Buffer
BY DEF Entry

LEMMA EntryHolds ==
  ASSUME NEW e \in Entry, NEW v \in Value, NEW f, f = [e EXCEPT !.old_value = v]
  PROVE  f \in Entry /\ f.old_value = v /\ f.kind = e.kind /\ f.where = e.where
BY DEF Entry

(* The end of a let, or a switch of threads, sets a value of a buffer's own. *)
LEMMA LocalSet ==
  ASSUME live \subseteq Buffer, NEW s, Well(kind, live, s), NEW v \in Value,
         NEW b \in Buffer, local_variable_p(s, b), NEW u, u = set_internal(s, v, b, TRUE)
  PROVE  /\ Well(kind, live, u) /\ u.local = s.local /\ u.auto = s.auto
         /\ b \in s.local => Put(kind, s, u, b, v)
<1>1. CASE b \in live
  <2>1. b \in s.local
    BY <1>1, LocalP
  <2>2. Well(kind, live, u) /\ Assigned(s, u, b, TRUE, v)
    BY <1>1, <2>1, InternalSet
  <2>3. Put(kind, s, u, b, v)
    BY <2>1, <2>2 DEF Assigned, Stays, CellFor
  <2>. QED BY <2>2, <2>3 DEF Put
<1>2. CASE b \notin live
  <2>1. b \notin s.local
    BY <1>2 DEF Well
  <2>2. s.localized /\ s.where = b /\ s.valcell # Default
    BY <2>1 DEF local_variable_p
  <2>3. ~PerBuffer
    BY <2>2 DEF Well, PerBuffer
  <2>4. u = SetLocalized(s, v, b, TRUE)
    BY <2>2, <2>3 DEF set_internal
  <2>5. u = StoreLoaded(s, v)
    BY <2>2, <2>4 DEF SetLocalized
  <2>6. s.localized
    BY <2>2
  <2>7. Well(kind, live, u) /\ u.local = s.local /\ u.auto = s.auto
    BY <2>5, <2>6, Stored, Zenon
  <2>. QED BY <2>1, <2>7
<1>. QED BY <1>1, <1>2

LEMMA Undone ==
  ASSUME live \subseteq Buffer, NEW s, Well(kind, live, s), NEW e \in Entry,
         NEW u, u = do_one_unbind(s, e)
  PROVE  /\ Well(kind, live, u) /\ u.local = s.local /\ u.auto = s.auto
         /\ Intact(e, s.local) => Put(kind, s, u, CellOf(e), e.old_value)
<1>1. CASE e.kind \in {"LET", "LET_DEFAULT"}
  <2>1. e.old_value \in Value /\ u = set_default_internal(s, e.old_value) /\ CellOf(e) = Default
    BY <1>1, EntryParts DEF do_one_unbind, CellOf
  <2>2. Well(kind, live, u) /\ Put(kind, s, u, Default, e.old_value)
    BY <2>1, DefaultSet
  <2>. QED BY <2>1, <2>2 DEF Put
<1>2. CASE e.kind = "LET_LOCAL" /\ local_variable_p(s, e.where)
  <2>1. /\ e.old_value \in Value /\ e.where \in Buffer /\ CellOf(e) = e.where
        /\ u = set_internal(s, e.old_value, e.where, TRUE)
    BY <1>2, EntryParts DEF do_one_unbind, CellOf
  <2>2. /\ Well(kind, live, u) /\ u.local = s.local /\ u.auto = s.auto
        /\ e.where \in s.local => Put(kind, s, u, e.where, e.old_value)
    BY <1>2, <2>1, LocalSet
  <2>. QED BY <1>2, <2>1, <2>2 DEF Intact
<1>3. CASE e.kind = "LET_LOCAL" /\ ~local_variable_p(s, e.where)
  <2>1. u = s
    BY <1>3 DEF do_one_unbind
  <2>2. ~Intact(e, s.local)
    <3>1. e.where \in live => e.where \notin s.local
      BY <1>3, LocalP
    <3>. QED BY <1>3, <3>1 DEF Intact, Well
  <2>. QED BY <2>1, <2>2
<1>4. CASE e.kind = "NOP"
  BY <1>4 DEF do_one_unbind, Intact
<1>. QED BY <1>1, <1>2, <1>3, <1>4, EntryParts

(* One turn of the exchange *)
Turned(x, y, i) ==
  /\ Well(kind, live, y.sym) /\ y.sym.local = x.sym.local /\ y.sym.auto = x.sym.auto
  /\ y.pdl \in Seq(Entry) /\ Len(y.pdl) = Len(x.pdl)
  /\ Intact(x.pdl[i], x.sym.local) =>
       LET c == CellOf(x.pdl[i])
           e == [x.pdl[i] EXCEPT !.old_value = Values(kind, x.sym)[c]]
       IN /\ Put(kind, x.sym, y.sym, c, x.pdl[i].old_value)
          /\ y.pdl = [x.pdl EXCEPT ![i] = e] /\ e \in Entry

LEMMA SwappedOnce ==
  ASSUME live \subseteq Buffer, NEW x, Well(kind, live, x.sym), x.pdl \in Seq(Entry),
         NEW i \in 1 .. Len(x.pdl), NEW y, y = Swapped(x, i)
  PROVE  Turned(x, y, i)
<1>. DEFINE s == x.sym
            e == x.pdl[i]
            c == CellOf(e)
            f == [e EXCEPT !.old_value = Values(kind, s)[c]]
<1>1. e \in Entry
  BY ElementOfSeq
<1>2. \A g \in Entry : [x.pdl EXCEPT ![i] = g] \in Seq(Entry) /\ Len([x.pdl EXCEPT ![i] = g]) = Len(x.pdl)
  BY ExceptSeq
<1>3. CASE e.kind \in {"LET", "LET_DEFAULT"}
  <2>. DEFINE u == set_default_internal(s, e.old_value)
  <2>1. y = Exchange(u, [x.pdl EXCEPT ![i].old_value = default_value(s)])
    BY <1>3 DEF Swapped
  <2>2. c = Default /\ e.old_value \in Value
    BY <1>1, <1>3, EntryParts DEF CellOf
  <2>3. default_value(s) = Values(kind, s)[Default] /\ default_value(s) \in Value
    BY DefaultValue
  <2>4. f \in Entry /\ f = [e EXCEPT !.old_value = default_value(s)]
    BY <1>1, <2>2, <2>3, EntryHolds
  <2>5. y.sym = u /\ y.pdl = [x.pdl EXCEPT ![i] = f]
    <3>1. y.sym = u /\ y.pdl = [x.pdl EXCEPT ![i] = [e EXCEPT !.old_value = default_value(s)]]
      BY <2>1 DEF Exchange
    <3>. HIDE DEF f
    <3>. QED BY <2>4, <3>1
  <2>6. Well(kind, live, u) /\ Put(kind, s, u, Default, e.old_value)
    BY <2>2, DefaultSet
  <2>. HIDE DEF u
  <2>7. u.local = s.local /\ u.auto = s.auto
    BY <2>6 DEF Put
  <2>. HIDE DEF f
  <2>8. y.pdl \in Seq(Entry) /\ Len(y.pdl) = Len(x.pdl)
    BY <1>2, <2>4, <2>5
  <2>. QED BY <2>2, <2>4, <2>5, <2>6, <2>7, <2>8 DEF Turned, f
<1>4. CASE e.kind = "LET_LOCAL" /\ local_variable_p(s, e.where)
  <2>. DEFINE w == Consulted(s, e.where)
              u == set_internal(w, e.old_value, e.where, TRUE)
              v == buffer_local_value(s, e.where)
  <2>1. y = Exchange(u, [x.pdl EXCEPT ![i].old_value = v])
    BY <1>4 DEF Swapped
  <2>2. c = e.where /\ e.old_value \in Value /\ e.where \in Buffer
    BY <1>1, <1>4, EntryParts DEF CellOf
  <2>3. v \in Value /\ (e.where \in s.local => v = Values(kind, s)[e.where])
    BY <2>2, BufferLocalValue
  <2>4. /\ Well(kind, live, w) /\ Same(kind, s, w)
        /\ w.localized = s.localized /\ w.where = s.where /\ w.valcell = s.valcell
    BY ConsultedSame
  <2>5. local_variable_p(w, e.where)
    BY <1>4, <2>4 DEF local_variable_p, Same
  <2>. HIDE DEF w, v
  <2>6. /\ Well(kind, live, u) /\ u.local = w.local /\ u.auto = w.auto
        /\ e.where \in w.local => Put(kind, w, u, e.where, e.old_value)
    BY <2>2, <2>4, <2>5, LocalSet
  <2>7. /\ u.local = s.local /\ u.auto = s.auto
        /\ e.where \in s.local => Put(kind, s, u, e.where, e.old_value)
    BY <2>4, <2>6 DEF Same, Put
  <2>. DEFINE g == [e EXCEPT !.old_value = v]
  <2>8. g \in Entry
    BY <1>1, <2>3, EntryHolds
  <2>9. y.sym = u /\ y.pdl = [x.pdl EXCEPT ![i] = g]
    BY <2>1 DEF Exchange
  <2>10. e.where \in s.local => g = f
    BY <2>2, <2>3
  <2>. HIDE DEF g, f, u
  <2>11. y.pdl \in Seq(Entry) /\ Len(y.pdl) = Len(x.pdl)
    BY <1>2, <2>8, <2>9
  <2>12. Intact(e, s.local) => e.where \in s.local
    BY <1>4 DEF Intact
  <2>. QED BY <2>2, <2>6, <2>7, <2>8, <2>9, <2>10, <2>11, <2>12 DEF Turned, f
<1>5. CASE e.kind = "LET_LOCAL" /\ ~local_variable_p(s, e.where)
  <2>. DEFINE g == Binding("NOP", Nil, Nil)
  <2>1. y.sym = s /\ y.pdl = [x.pdl EXCEPT ![i] = g]
    BY <1>5 DEF Swapped, Exchange
  <2>2. g \in Entry
    BY DEF Binding, Entry
  <2>. HIDE DEF g
  <2>3. y.pdl \in Seq(Entry) /\ Len(y.pdl) = Len(x.pdl)
    BY <1>2, <2>1, <2>2
  <2>4. ~Intact(e, s.local)
    <3>1. e.where \in live => e.where \notin s.local
      BY <1>5, LocalP
    <3>. QED BY <1>5, <3>1 DEF Intact, Well
  <2>. QED BY <2>1, <2>3, <2>4 DEF Turned
<1>6. CASE e.kind = "NOP"
  BY <1>6 DEF Swapped, Intact, Turned
<1>. QED BY <1>1, <1>3, <1>4, <1>5, <1>6, EntryParts

-------------------------------------------------------------------------------
(* The other operations *)

LEMMA ValuesType ==
  ASSUME NEW s, Well(kind, live, s), NEW c \in Cells, c = Default \/ c \in s.local
  PROVE  Values(kind, s)[c] \in Value
<1>1. ValueIn(kind, s, c) \in Value
  BY DEF ValueIn, Well, Cells
<1>. QED BY <1>1, ValuesAre

LEMMA CellForType ==
  ASSUME live \subseteq Buffer, NEW s, Well(kind, live, s), NEW b
  PROVE  CellFor(s, b) \in Cells /\ (CellFor(s, b) = Default \/ CellFor(s, b) \in s.local)
BY DEF CellFor, Cells, Well

LEMMA SpecBound ==
  ASSUME live \subseteq Buffer, current_buffer \in live, NEW s, Well(kind, live, s),
         s.localized => s.where = current_buffer,
         Loaded(s, current_buffer) = Values(kind, s)[CellFor(s, current_buffer)],
         NEW v \in Value, NEW e, e = BindingOf(s), NEW u, u = do_specbind(s, e.kind, v)
  PROVE  /\ e \in Entry /\ Intact(e, s.local) /\ CellOf(e) = CellFor(s, current_buffer)
         /\ e.old_value = Values(kind, s)[CellOf(e)]
         /\ e.kind = "LET_DEFAULT" => e.where = current_buffer
         /\ Well(kind, live, u) /\ Put(kind, s, u, CellOf(e), v)
<1>. DEFINE b == current_buffer
            c == CellFor(s, b)
<1>1. b \in Buffer /\ c \in Cells /\ (c = Default \/ c \in s.local) /\ s.local \subseteq Buffer
  BY CellForType DEF Well
<1>2. Values(kind, s)[c] \in Value
  BY <1>1, ValuesType
<1>3. local_variable_p(s, b) <=> b \in s.local
  BY LocalP
<1>. HIDE DEF b
<1>4. CASE ~PerBuffer /\ ~s.localized
  <2>1. s.local = {} /\ s.symval = Values(kind, s)[Default] /\ c = Default
    <3>1. s.local = {} /\ c = Default
      BY <1>4 DEF Well, PerBuffer, CellFor
    <3>2. ValueIn(kind, s, Default) = s.symval
      BY <1>4 DEF ValueIn, PerBuffer
    <3>. QED BY <3>1, <3>2, ValuesAre DEF Cells
  <2>2. e = Binding("LET", Nil, s.symval)
    BY <1>4 DEF BindingOf
  <2>3. e.kind = "LET" /\ e.where = Nil /\ e.old_value = s.symval /\ e \in Entry
    BY <1>2, <2>1, <2>2 DEF Binding, Entry
  <2>4. Intact(e, s.local) /\ CellOf(e) = Default
    BY <2>3 DEF Intact, CellOf
  <2>5. u = set_internal(s, v, b, TRUE)
    BY <2>3 DEF do_specbind, b
  <2>6. Well(kind, live, u) /\ Assigned(s, u, b, TRUE, v)
    BY <1>4, <2>5, InternalSet DEF b
  <2>7. Put(kind, s, u, Default, v)
    BY <2>1, <2>6 DEF Assigned, Stays
  <2>. QED BY <2>1, <2>3, <2>4, <2>6, <2>7 DEF b
<1>5. CASE (PerBuffer \/ s.localized) /\ b \in s.local
  <2>1. c = b /\ b # Default
    BY <1>1, <1>5, Names DEF CellFor
  <2>2. e = Binding("LET_LOCAL", b, Values(kind, s)[c])
    BY <1>3, <1>5 DEF BindingOf, b
  <2>3. e.kind = "LET_LOCAL" /\ e.where = b /\ e.old_value = Values(kind, s)[c] /\ e \in Entry
    <3>. HIDE DEF c
    <3>. QED BY <1>1, <1>2, <2>2 DEF Binding, Entry
  <2>4. Intact(e, s.local) /\ CellOf(e) = b
    BY <1>5, <2>3 DEF Intact, CellOf
  <2>5. u = set_internal(s, v, b, TRUE)
    BY <2>3 DEF do_specbind, b
  <2>6. Well(kind, live, u) /\ Assigned(s, u, b, TRUE, v)
    BY <1>5, <2>5, InternalSet DEF b
  <2>7. Put(kind, s, u, b, v)
    BY <2>1, <2>6 DEF Assigned, Stays
  <2>. QED BY <2>1, <2>3, <2>4, <2>6, <2>7 DEF b
<1>6. CASE (PerBuffer \/ s.localized) /\ b \notin s.local
  <2>1. c = Default
    BY <1>6 DEF CellFor
  <2>2. e = Binding("LET_DEFAULT", b, Values(kind, s)[c])
    BY <1>3, <1>6 DEF BindingOf, b
  <2>3. e.kind = "LET_DEFAULT" /\ e.where = b /\ e.old_value = Values(kind, s)[c] /\ e \in Entry
    <3>. HIDE DEF c
    <3>. QED BY <1>1, <1>2, <2>2 DEF Binding, Entry
  <2>4. Intact(e, s.local) /\ CellOf(e) = Default
    BY <2>3 DEF Intact, CellOf
  <2>5. Well(kind, live, u) /\ Put(kind, s, u, Default, v)
    <3>1. CASE PerBuffer
      <4>1. u = set_default_internal(s, v)
        BY <2>3, <3>1 DEF do_specbind
      <4>. QED BY <4>1, DefaultSet
    <3>2. CASE ~PerBuffer
      <4>1. u = set_internal(s, v, b, TRUE)
        BY <2>3, <3>2 DEF do_specbind, b
      <4>2. Well(kind, live, u) /\ Assigned(s, u, b, TRUE, v)
        BY <3>2, <4>1, InternalSet DEF b
      <4>. QED BY <2>1, <4>2 DEF Assigned, Stays
    <3>. QED BY <3>1, <3>2
  <2>. QED BY <2>1, <2>3, <2>4, <2>5 DEF b
<1>. QED BY <1>4, <1>5, <1>6

LEMMA Localizes ==
  ASSUME live \subseteq Buffer, NEW s, Well(kind, live, s), NEW u, u = Localized(s)
  PROVE  Well(kind, live, u) /\ Same(kind, s, u) /\ (PerBuffer \/ u.localized)
<1>1. CASE s.localized \/ PerBuffer
  BY <1>1 DEF Localized, Same
<1>2. CASE ~s.localized /\ ~PerBuffer
  <2>. DEFINE cell   == [s.cell EXCEPT ![Default] = s.symval]
              symval == IF fwd THEN s.symval ELSE Nil
  <2>1. u = [s EXCEPT !.localized = TRUE, !.cell = cell, !.symval = symval]
    BY <1>2 DEF Localized
  <2>2. /\ s \in Symbols /\ s.cell \in [AllCells -> Value \union {Nil}] /\ s.symval \in Value
        /\ s.local = {} /\ s.where = Nil /\ s.valcell = Default
    BY <1>2 DEF Well, Symbols, PerBuffer
  <2>3. /\ cell \in [AllCells -> Value \union {Nil}] /\ symval \in Value \union {Nil}
        /\ \A c \in AllCells : cell[c] = IF c = Default THEN s.symval ELSE s.cell[c]
    BY <2>2
  <2>. HIDE DEF cell
  <2>4. /\ u \in Symbols /\ u.cell = cell /\ u.localized /\ u.auto = s.auto
        /\ u.symval = symval /\ u.local = s.local /\ u.where = s.where /\ u.valcell = s.valcell
    <3>. HIDE DEF symval
    <3>. QED BY <2>1, <2>2, <2>3 DEF Symbols
  <2>5. Well(kind, live, u)
    <3>1. u.cell[Default] = s.symval
      BY <2>3, <2>4 DEF AllCells
    <3>2. \A b \in Buffer : u.cell[b] \in Value <=> b \in u.local
      BY <1>2, <2>2, <2>3, <2>4, Names DEF Well, PerBuffer, AllCells
    <3>3. fwd => u.symval \in Value
      BY <2>2, <2>4
    <3>4. Nil \notin live
      BY Names
    <3>. QED BY <1>2, <2>2, <2>4, <3>1, <3>2, <3>3, <3>4 DEF Well, PerBuffer, fwd
  <2>6. ValueIn(kind, u, Default) = ValueIn(kind, s, Default)
    <3>1. ValueIn(kind, s, Default) = s.symval
      BY <1>2 DEF ValueIn, PerBuffer
    <3>2. u.cell[Default] = s.symval /\ (fwd => u.symval = s.symval)
      BY <2>3, <2>4 DEF AllCells
    <3>3. CASE fwd
      BY <2>2, <2>4, <3>1, <3>2, <3>3 DEF ValueIn, fwd
    <3>4. CASE ~fwd
      BY <2>4, <3>1, <3>2, <3>4 DEF ValueIn, fwd
    <3>. QED BY <3>3, <3>4
  <2>7. Same(kind, s, u)
    BY <2>2, <2>4, <2>6, SameByCells
  <2>. QED BY <2>4, <2>5, <2>7
<1>. QED BY <1>1, <1>2

LEMMA Unloads ==
  ASSUME live \subseteq Buffer, NEW s, Well(kind, live, s), NEW b \in live, NEW u, u = Unloaded(s, b)
  PROVE  Well(kind, live, u) /\ Same(kind, s, u) /\ u.localized = s.localized /\ u.where # b
<1>1. CASE s.localized /\ s.where = b
  <2>1. u = swap_in_global_binding(s)
    BY <1>1 DEF Unloaded
  <2>2. s.localized
    BY <1>1
  <2>3. Well(kind, live, u) /\ Same(kind, s, u) /\ u.localized /\ u.where = Nil
    BY <2>1, <2>2, SwappedOut
  <2>4. u.localized = s.localized
    BY <2>2, <2>3 DEF Well, Symbols
  <2>5. b # Nil
    BY Names
  <2>. QED BY <2>3, <2>4, <2>5
<1>2. CASE ~(s.localized /\ s.where = b)
  <2>1. u = s
    BY <1>2 DEF Unloaded
  <2>2. s.where # b
    BY <1>2, Names DEF Well
  <2>. QED BY <2>1, <2>2 DEF Same
<1>. QED BY <1>1, <1>2

LEMMA Owned ==
  ASSUME live \subseteq Buffer, NEW s, Well(kind, live, s), PerBuffer \/ s.localized,
         NEW b \in live \ s.local, s.where # b, NEW v \in Value, NEW u, u = Own(s, b, v)
  PROVE  Well(kind, live, u) /\ PutNew(kind, s, u, b, v) /\ u.localized = s.localized
<1>1. /\ s \in Symbols /\ s.cell \in [AllCells -> Value \union {Nil}] /\ s.local \subseteq Buffer
      /\ b \in Buffer /\ b \in Cells /\ b \in AllCells /\ b # Default /\ b # Orphan
      /\ s.valcell # b /\ s.valcell \in AllCells /\ \A c \in Cells : c \in AllCells
  BY Names DEF Well, Symbols, AllCells, Cells
<1>. DEFINE cell == [s.cell EXCEPT ![b] = v]
<1>2. u = [s EXCEPT !.local = s.local \union {b}, !.cell = cell]
  BY DEF Own
<1>3. cell \in [AllCells -> Value \union {Nil}] /\ \A c \in AllCells : cell[c] = IF c = b THEN v ELSE s.cell[c]
  BY <1>1
<1>. HIDE DEF cell
<1>4. /\ u \in Symbols /\ u.cell = cell /\ u.localized = s.localized /\ u.auto = s.auto
      /\ u.symval = s.symval /\ u.local = s.local \union {b} /\ u.where = s.where /\ u.valcell = s.valcell
  <2>. DEFINE local == s.local \union {b}
  <2>1. local \in SUBSET Buffer /\ cell \in [AllCells -> Value \union {Nil}] /\ s \in Symbols
    BY <1>1, <1>3
  <2>2. u = [s EXCEPT !.local = local, !.cell = cell]
    BY <1>2
  <2>. HIDE DEF local
  <2>3. /\ u \in Symbols /\ u.cell = cell /\ u.localized = s.localized /\ u.auto = s.auto
        /\ u.symval = s.symval /\ u.local = local /\ u.where = s.where /\ u.valcell = s.valcell
    BY <2>1, <2>2 DEF Symbols
  <2>. QED BY <2>3 DEF local
<1>5. Well(kind, live, u)
  <2>1. u.local \subseteq live
    BY <1>4 DEF Well
  <2>2. u.where \in live => u.valcell = IF u.where \in u.local THEN u.where ELSE Default
    BY <1>4 DEF Well
  <2>3. u.valcell \in u.local \union {Default, Orphan} /\ (u.valcell \in u.local => u.where = u.valcell)
    BY <1>1, <1>4 DEF Well
  <2>4. kind = "per_buffer" =>
          /\ \A c \in Cells : u.cell[c] \in Value
          /\ \A c \in live \ u.local : u.cell[c] = u.cell[Default]
    BY <1>1, <1>3, <1>4 DEF Well, AllCells
  <2>5. kind # "per_buffer" => \A c \in Buffer : u.cell[c] \in Value <=> c \in u.local
    BY <1>1, <1>3, <1>4 DEF Well, AllCells
  <2>6. s.localized => u.cell[Default] \in Value /\ u.cell[u.valcell] \in Value
    BY <1>1, <1>3, <1>4 DEF Well, AllCells
  <2>. QED BY <1>4, <2>1, <2>2, <2>3, <2>4, <2>5, <2>6 DEF Well, PerBuffer
<1>6. PutNew(kind, s, u, b, v)
  <2>1. ValueIn(kind, u, b) = v
    BY <1>1, <1>3, <1>4 DEF ValueIn, PerBuffer
  <2>2. ASSUME NEW d \in Cells, d # b
        PROVE  ValueIn(kind, u, d) = ValueIn(kind, s, d)
    <3>1. u.cell[d] = s.cell[d]
      BY <1>1, <1>3, <1>4, <2>2
    <3>. QED BY <1>4, <3>1 DEF ValueIn
  <2>. QED BY <1>1, <1>4, <2>1, <2>2, NewByCells
<1>. QED BY <1>4, <1>5, <1>6

LEMMA Copies ==
  ASSUME live \subseteq Buffer, NEW s, Well(kind, live, s), PerBuffer \/ s.localized,
         NEW b \in live \ s.local, s.where # b, NEW u, u = Copied(s, b)
  PROVE  \E v \in Value : Well(kind, live, u) /\ PutNew(kind, s, u, b, v)
<1>. DEFINE v == IF PerBuffer THEN s.cell[b] ELSE s.cell[Default]
            o == Own(s, b, v)
<1>1. v \in Value
  BY DEF Well, PerBuffer, Cells
<1>2. u = IF fwd THEN swap_in_symval_forwarding(o, b) ELSE o
  BY DEF Copied
<1>. HIDE DEF v
<1>3. Well(kind, live, o) /\ PutNew(kind, s, o, b, v) /\ o.localized = s.localized
  BY <1>1, Owned
<1>. HIDE DEF o
<1>4. CASE fwd
  <2>1. o.localized
    BY <1>3, <1>4 DEF PerBuffer, fwd
  <2>2. Well(kind, live, u) /\ Same(kind, o, u)
    BY <1>2, <1>3, <1>4, <2>1, SwappedIn
  <2>3. PutNew(kind, s, u, b, v)
    BY <1>3, <2>2 DEF PutNew, Same
  <2>. QED BY <1>1, <2>2, <2>3
<1>5. CASE ~fwd
  BY <1>1, <1>2, <1>3, <1>5
<1>. QED BY <1>4, <1>5

(* U is S without a value of B's own. *)
Removed(k, s, u, b) ==
  u.local = s.local \ {b} /\ u.auto = s.auto /\ Values(k, u) = [Values(k, s) EXCEPT ![b] = Nil]

LEMMA RemovedByCells ==
  ASSUME NEW k, NEW s, NEW u, NEW b \in Cells, b # Default, u.local = s.local \ {b}, u.auto = s.auto,
         \A d \in Cells : d # b /\ (d = Default \/ d \in s.local) => ValueIn(k, u, d) = ValueIn(k, s, d)
  PROVE  Removed(k, s, u, b)
BY DEF Removed, Values

LEMMA DisownedFields ==
  ASSUME NEW s \in Symbols, NEW b \in Buffer, NEW u, u = Disowned(s, b)
  PROVE  /\ u \in Symbols /\ u.localized = s.localized /\ u.auto = s.auto
         /\ u.symval = s.symval /\ u.local = s.local \ {b}
         /\ u.where = s.where /\ u.valcell = s.valcell
         /\ \A c \in AllCells :
              u.cell[c] = IF c # b THEN s.cell[c] ELSE IF PerBuffer THEN s.cell[Default] ELSE Nil
<1>. DEFINE local == s.local \ {b}
            cell  == [s.cell EXCEPT ![b] = IF PerBuffer THEN s.cell[Default] ELSE Nil]
<1>1. s.cell \in [AllCells -> Value \union {Nil}] /\ b \in AllCells /\ Default \in AllCells /\ s.local \subseteq Buffer
  BY DEF Symbols, AllCells
<1>2. /\ local \in SUBSET Buffer /\ cell \in [AllCells -> Value \union {Nil}]
      /\ \A c \in AllCells :
           cell[c] = IF c # b THEN s.cell[c] ELSE IF PerBuffer THEN s.cell[Default] ELSE Nil
  BY <1>1
<1>3. u = [s EXCEPT !.local = local, !.cell = cell]
  BY DEF Disowned
<1>. HIDE DEF local, cell
<1>4. /\ u \in Symbols /\ u.cell = cell /\ u.localized = s.localized /\ u.auto = s.auto
      /\ u.symval = s.symval /\ u.local = local /\ u.where = s.where /\ u.valcell = s.valcell
  BY <1>2, <1>3 DEF Symbols
<1>. QED BY <1>2, <1>4 DEF local

LEMMA Disowns ==
  ASSUME live \subseteq Buffer, NEW s, Well(kind, live, s), NEW b \in live, s.where # b,
         NEW u, u = Disowned(s, b)
  PROVE  Well(kind, live, u) /\ Removed(kind, s, u, b)
<1>1. /\ s \in Symbols /\ s.local \subseteq Buffer
      /\ b \in Buffer /\ b \in Cells /\ b \in AllCells /\ b # Default
      /\ s.valcell # b /\ s.valcell \in AllCells /\ \A c \in Cells : c \in AllCells
  BY Names DEF Well, AllCells, Cells
<1>2. /\ u \in Symbols /\ u.localized = s.localized /\ u.auto = s.auto
      /\ u.symval = s.symval /\ u.local = s.local \ {b}
      /\ u.where = s.where /\ u.valcell = s.valcell
      /\ \A c \in AllCells :
           u.cell[c] = IF c # b THEN s.cell[c] ELSE IF PerBuffer THEN s.cell[Default] ELSE Nil
  BY <1>1, DisownedFields
<1>3. Well(kind, live, u)
  <2>1. u.local \subseteq live
    BY <1>2 DEF Well
  <2>2. u.where \in live => u.valcell = IF u.where \in u.local THEN u.where ELSE Default
    BY <1>2 DEF Well
  <2>3. u.valcell \in u.local \union {Default, Orphan} /\ (u.valcell \in u.local => u.where = u.valcell)
    BY <1>1, <1>2 DEF Well
  <2>4. kind = "per_buffer" =>
          /\ \A c \in Cells : u.cell[c] \in Value
          /\ \A c \in live \ u.local : u.cell[c] = u.cell[Default]
    BY <1>1, <1>2 DEF Well, AllCells, PerBuffer, Cells
  <2>5. kind # "per_buffer" => \A c \in Buffer : u.cell[c] \in Value <=> c \in u.local
    BY <1>1, <1>2, Names DEF Well, AllCells, PerBuffer
  <2>6. s.localized => u.cell[Default] \in Value /\ u.cell[u.valcell] \in Value
    BY <1>1, <1>2 DEF Well, AllCells
  <2>7. kind # "per_buffer" /\ ~u.localized => u.local = {} /\ ~u.auto
    BY <1>2 DEF Well
  <2>. QED BY <1>2, <2>1, <2>2, <2>3, <2>4, <2>5, <2>6, <2>7 DEF Well
<1>4. Removed(kind, s, u, b)
  <2>1. ASSUME NEW d \in Cells, d # b
        PROVE  ValueIn(kind, u, d) = ValueIn(kind, s, d)
    <3>1. u.cell[d] = s.cell[d]
      BY <1>1, <1>2, <2>1
    <3>. QED BY <1>2, <3>1 DEF ValueIn
  <2>. QED BY <1>1, <1>2, <2>1, RemovedByCells
<1>. QED BY <1>3, <1>4

(* Of a killed buffer, whose value may still be loaded *)
LEMMA Kills ==
  ASSUME live \subseteq Buffer, NEW s, Well(kind, live, s), NEW b \in live,
         NEW u, u = Disowned(Orphaned(s, b), b)
  PROVE  Well(kind, live \ {b}, u) /\ Removed(kind, s, u, b)
<1>. DEFINE o == Orphaned(s, b)
<1>1. /\ s \in Symbols /\ s.cell \in [AllCells -> Value \union {Nil}] /\ s.local \subseteq Buffer
      /\ b \in Buffer /\ b \in Cells /\ b \in AllCells /\ b # Default /\ b # Orphan
      /\ s.valcell \in AllCells /\ \A c \in Cells : c \in AllCells /\ c # Orphan
  BY Names DEF Well, AllCells, Cells, Symbols
<1>2. /\ o \in Symbols /\ o.localized = s.localized /\ o.auto = s.auto
      /\ o.symval = s.symval /\ o.local = s.local /\ o.where = s.where
      /\ o.valcell = IF s.valcell = b THEN Orphan ELSE s.valcell
      /\ \A c \in AllCells : c # Orphan => o.cell[c] = s.cell[c]
      /\ o.cell[Orphan] = IF s.valcell = b THEN s.cell[b] ELSE s.cell[Orphan]
  <2>1. CASE s.valcell = b
    <3>. DEFINE cell == [s.cell EXCEPT ![Orphan] = s.cell[b]]
    <3>1. o = [s EXCEPT !.valcell = Orphan, !.cell = cell]
      BY <2>1 DEF Orphaned
    <3>2. Orphan \in AllCells
      BY DEF AllCells
    <3>3. cell \in [AllCells -> Value \union {Nil}] /\ cell[Orphan] = s.cell[b]
          /\ \A c \in AllCells : c # Orphan => cell[c] = s.cell[c]
      BY <1>1, <3>2
    <3>. HIDE DEF cell, o
    <3>4. /\ o \in Symbols /\ o.localized = s.localized /\ o.auto = s.auto
          /\ o.symval = s.symval /\ o.local = s.local /\ o.where = s.where
          /\ o.valcell = Orphan /\ o.cell = cell
      BY <1>1, <3>1, <3>2, <3>3 DEF Symbols
    <3>. QED BY <2>1, <3>3, <3>4
  <2>2. CASE s.valcell # b
    BY <1>1, <2>2 DEF Orphaned
  <2>. QED BY <2>1, <2>2
<1>3. u = Disowned(o, b)
  OBVIOUS
<1>. HIDE DEF o
<1>4. /\ u \in Symbols /\ u.localized = s.localized /\ u.auto = s.auto
      /\ u.symval = s.symval /\ u.local = s.local \ {b} /\ u.where = s.where
      /\ u.valcell = IF s.valcell = b THEN Orphan ELSE s.valcell
      /\ \A c \in AllCells :
           u.cell[c] = IF c # b THEN o.cell[c] ELSE IF PerBuffer THEN o.cell[Default] ELSE Nil
  BY <1>1, <1>2, <1>3, DisownedFields
<1>5. /\ \A c \in AllCells : c # Orphan /\ c # b => u.cell[c] = s.cell[c]
      /\ u.cell[Orphan] = IF s.valcell = b THEN s.cell[b] ELSE s.cell[Orphan]
      /\ u.cell[b] = IF PerBuffer THEN s.cell[Default] ELSE Nil
      /\ u.cell[Default] = s.cell[Default]
  BY <1>1, <1>2, <1>4, Names DEF AllCells
<1>6. Well(kind, live \ {b}, u)
  <2>1. u.local \subseteq live \ {b}
    BY <1>4 DEF Well
  <2>2. u.where \in live \ {b} => u.valcell = IF u.where \in u.local THEN u.where ELSE Default
    BY <1>1, <1>4 DEF Well
  <2>3. u.valcell \in u.local \union {Default, Orphan} /\ (u.valcell \in u.local => u.where = u.valcell)
    BY <1>1, <1>4, Names DEF Well
  <2>4. kind = "per_buffer" =>
          /\ \A c \in Cells : u.cell[c] \in Value
          /\ \A c \in (live \ {b}) \ u.local : u.cell[c] = u.cell[Default]
    <3>. SUFFICES ASSUME kind = "per_buffer"
                  PROVE  /\ \A c \in Cells : u.cell[c] \in Value
                         /\ \A c \in (live \ {b}) \ u.local : u.cell[c] = u.cell[Default]
      OBVIOUS
    <3>1. \A c \in Cells : s.cell[c] \in Value
      BY DEF Well
    <3>2. Default \in Cells
      BY DEF Cells
    <3>3. \A c \in Cells : u.cell[c] \in Value
      BY <1>1, <1>5, <3>1, <3>2 DEF PerBuffer
    <3>4. \A c \in (live \ {b}) \ u.local : c \in Cells /\ s.cell[c] = s.cell[Default]
      BY <1>4 DEF Well, Cells
    <3>. QED BY <1>1, <1>5, <3>3, <3>4
  <2>5. kind # "per_buffer" => \A c \in Buffer : u.cell[c] \in Value <=> c \in u.local
    <3>1. \A c \in Buffer : c \in AllCells /\ c # Orphan
      BY Names DEF AllCells
    <3>. QED BY <1>1, <1>4, <1>5, <3>1, Names DEF Well, PerBuffer
  <2>6. s.localized => u.cell[Default] \in Value /\ u.cell[u.valcell] \in Value
    BY <1>1, <1>4, <1>5 DEF Well
  <2>7. kind # "per_buffer" /\ ~u.localized => u.local = {} /\ ~u.auto
    BY <1>4 DEF Well
  <2>8. ~u.localized => u.valcell = Default /\ u.where = Nil
    BY <1>1, <1>4 DEF Well
  <2>9. s.localized => kind # "per_buffer"
    BY DEF Well
  <2>10. kind = "forwarded" \/ (kind # "per_buffer" /\ ~u.localized) => u.symval \in Value
    BY <1>4 DEF Well
  <2>. QED BY <1>4, <2>1, <2>2, <2>3, <2>4, <2>5, <2>6, <2>7, <2>8, <2>9, <2>10 DEF Well
<1>7. Removed(kind, s, u, b)
  <2>1. ASSUME NEW d \in Cells, d # b
        PROVE  ValueIn(kind, u, d) = ValueIn(kind, s, d)
    <3>1. u.cell[d] = s.cell[d] /\ (u.valcell = d <=> s.valcell = d)
      BY <1>1, <1>4, <1>5, <2>1
    <3>. QED BY <1>4, <3>1 DEF ValueIn
  <2>. QED BY <1>1, <1>4, <2>1, RemovedByCells
<1>. QED BY <1>6, <1>7

LEMMA AssignedInC ==
  ASSUME live \subseteq Buffer, NEW s, Well(kind, live, s), fwd, NEW v \in Value,
         NEW u, u = [s EXCEPT !.symval = v]
  PROVE  /\ Well(kind, live, u) /\ u.local = s.local /\ u.auto = s.auto
         /\ \A b : ~(s.localized /\ s.valcell # CellFor(s, b)) => Put(kind, s, u, CellFor(s, b), v)
<1>1. s \in Symbols /\ ~PerBuffer
  BY DEF Well, PerBuffer, fwd
<1>2. /\ u \in Symbols /\ u.cell = s.cell /\ u.localized = s.localized /\ u.auto = s.auto
      /\ u.symval = v /\ u.local = s.local /\ u.where = s.where /\ u.valcell = s.valcell
  BY <1>1 DEF Symbols
<1>3. Well(kind, live, u)
  BY <1>1, <1>2 DEF Well, PerBuffer
<1>4. ASSUME NEW b, ~(s.localized /\ s.valcell # CellFor(s, b))
      PROVE  Put(kind, s, u, CellFor(s, b), v)
  <2>1. CellFor(s, b) \in Cells /\ (CellFor(s, b) = Default \/ CellFor(s, b) \in s.local)
    BY CellForType
  <2>2. CASE s.localized
    <3>1. s.valcell = CellFor(s, b)
      BY <1>4, <2>2
    <3>2. ValueIn(kind, u, CellFor(s, b)) = v
      BY <1>1, <1>2, <3>1 DEF ValueIn, PerBuffer, fwd
    <3>3. \A d \in Cells : d # CellFor(s, b) => ValueIn(kind, u, d) = ValueIn(kind, s, d)
      BY <1>1, <1>2, <2>2, <3>1 DEF ValueIn, PerBuffer
    <3>. QED BY <1>2, <2>1, <3>2, <3>3, PutByCells
  <2>3. CASE ~s.localized
    <3>1. s.local = {} /\ CellFor(s, b) = Default
      BY <1>1, <2>3 DEF Well, PerBuffer, CellFor
    <3>2. ValueIn(kind, u, Default) = v
      BY <1>1, <1>2, <2>3 DEF ValueIn, PerBuffer
    <3>. QED BY <1>2, <2>1, <3>1, <3>2, PutByCells
  <2>. QED BY <2>2, <2>3
<1>. QED BY <1>2, <1>3, <1>4

LEMMA BufferSet ==
  ASSUME live \subseteq Buffer, NEW s, Well(kind, live, s), NEW old, NEW b \in live,
         NEW u, u = set_buffer_internal_2(s, old, b)
  PROVE  Well(kind, live, u) /\ Same(kind, s, u)
<1>1. u = find_symbol_value(s, b) \/ u = s
  BY DEF set_buffer_internal_2
<1>2. CASE u = find_symbol_value(s, b)
  BY <1>2, Found
<1>3. CASE u = s
  BY <1>3 DEF Same
<1>. QED BY <1>1, <1>2, <1>3

-------------------------------------------------------------------------------
(* Induction over the natural numbers, for a property given as a set          *)

LEMMA LessWellFounded == IsWellFoundedOn({ss \in Nat \X Nat : ss[1] < ss[2]}, Nat)
BY NatLessThanWellFounded DEF OpToRel

LEMMA LeastNumber ==
  ASSUME NEW T, T \subseteq Nat, T # {}
  PROVE  \E x \in T : \A y \in T : x <= y
<1>. DEFINE Before == {ss \in Nat \X Nat : ss[1] < ss[2]}
<1>1. IsWellFoundedOn(Before, Nat)
  BY LessWellFounded
<1>2. \A x, y \in Nat : <<y, x>> \notin Before => x <= y
  OBVIOUS
<1>. HIDE DEF Before
<1>3. \E x \in T : \A y \in T : ~(<<y, x>> \in Before)
  BY <1>1, WFMin, Zenon
<1>. QED BY <1>2, <1>3

LEMMA SetInduction ==
  ASSUME NEW S, 0 \in S, \A n \in Nat : n \in S => n + 1 \in S
  PROVE  Nat \subseteq S
<1> SUFFICES ASSUME Nat \ S # {} PROVE FALSE
  OBVIOUS
<1>1. PICK x \in Nat \ S : \A y \in Nat \ S : x <= y
  BY LeastNumber
<1>2. x # 0 /\ x - 1 \in Nat /\ x = (x - 1) + 1
  BY <1>1
<1>. QED BY <1>1, <1>2

(* The last of a set of indices *)
LEMMA GreatestIndex ==
  ASSUME NEW N \in Nat, NEW T, T \subseteq 1 .. N, T # {}
  PROVE  \E x \in T : \A y \in T : y <= x
<1>. DEFINE D == {n \in Nat : N - n \in T}
<1>1. PICK t : t \in T
  OBVIOUS
<1>2. N - t \in D
  <2>1. N - t \in Nat /\ N - (N - t) = t
    BY <1>1
  <2>. QED BY <1>1, <2>1
<1>3. PICK n \in D : \A m \in D : n <= m
  BY <1>2, LeastNumber
<1>4. ASSUME NEW y \in T
      PROVE  y <= N - n
  <2>1. N - y \in Nat /\ N - (N - y) = y
    OBVIOUS
  <2>2. n <= N - y
    BY <1>3, <2>1
  <2>. QED BY <1>3, <2>2
<1>. QED BY <1>3, <1>4

-------------------------------------------------------------------------------
(* The bindings: VALS has the values of the cells, PDL the entries           *)

LaterIn(pdl, c, n) == {i \in DOMAIN pdl : i >= n /\ CellOf(pdl[i]) = c}

FirstOf(vals, pdl, c, later) ==
  IF later = {} THEN vals[c] ELSE pdl[CHOOSE i \in later : \A j \in later : i <= j].old_value

(* The value of cell C below entry N *)
BelowIn(vals, pdl, c, n) == FirstOf(vals, pdl, c, LaterIn(pdl, c, n))

LEMMA BelowAll ==
  ASSUME NEW pdl, NEW N \in Nat, DOMAIN pdl = 1 .. N, NEW vals, NEW c, NEW n \in Nat, n > N
  PROVE  BelowIn(vals, pdl, c, n) = vals[c]
BY DEF BelowIn, FirstOf, LaterIn

LEMMA BelowStep ==
  ASSUME NEW pdl, NEW N \in Nat, DOMAIN pdl = 1 .. N, NEW vals, NEW c, NEW n \in 1 .. N
  PROVE  BelowIn(vals, pdl, c, n) =
           IF CellOf(pdl[n]) = c THEN pdl[n].old_value ELSE BelowIn(vals, pdl, c, n + 1)
<1>1. CASE CellOf(pdl[n]) = c
  <2>1. n \in LaterIn(pdl, c, n)
    BY <1>1 DEF LaterIn
  <2>2. \A i \in LaterIn(pdl, c, n) : i \in 1 .. N /\ n <= i
    BY DEF LaterIn
  <2>. DEFINE i == CHOOSE i \in LaterIn(pdl, c, n) : \A j \in LaterIn(pdl, c, n) : i <= j
  <2>3. i \in LaterIn(pdl, c, n) /\ \A j \in LaterIn(pdl, c, n) : i <= j
    BY <2>1, <2>2
  <2>. HIDE DEF i
  <2>4. i = n
    BY <2>1, <2>2, <2>3
  <2>5. BelowIn(vals, pdl, c, n) = pdl[i].old_value
    BY <2>1 DEF BelowIn, FirstOf, i
  <2>. QED BY <1>1, <2>4, <2>5
<1>2. CASE CellOf(pdl[n]) # c
  <2>1. LaterIn(pdl, c, n) = LaterIn(pdl, c, n + 1)
    BY <1>2 DEF LaterIn
  <2>2. BelowIn(vals, pdl, c, n) = BelowIn(vals, pdl, c, n + 1)
    BY <2>1 DEF BelowIn
  <2>. QED BY <1>2, <2>2
<1>. QED BY <1>1, <1>2

(* What is below an entry does not change when one is pushed. *)
LEMMA BelowPushed ==
  ASSUME NEW N \in Nat, NEW pdl, DOMAIN pdl = 1 .. N, NEW more, DOMAIN more = 1 .. N + 1,
         \A i \in 1 .. N : more[i] = pdl[i],
         NEW vals, NEW now, NEW c, CellOf(more[N + 1]) = c, more[N + 1].old_value = vals[c],
         \A d \in Cells : d # c => now[d] = vals[d]
  PROVE  /\ \A n \in 1 .. N + 1, d \in Cells : BelowIn(now, more, d, n) = BelowIn(vals, pdl, d, n)
         /\ \A d \in Cells : BelowIn(now, more, d, N + 2) = now[d]
<1>1. ASSUME NEW d \in Cells
      PROVE  /\ BelowIn(now, more, d, N + 2) = now[d]
             /\ BelowIn(now, more, d, N + 1) = BelowIn(vals, pdl, d, N + 1)
  <2>1. BelowIn(now, more, d, N + 2) = now[d]
    <3>1. N + 1 \in Nat /\ N + 2 \in Nat /\ N + 2 > N + 1
      OBVIOUS
    <3>. QED BY <3>1, BelowAll
  <2>2. BelowIn(vals, pdl, d, N + 1) = vals[d]
    <3>1. N + 1 \in Nat /\ N + 1 > N
      OBVIOUS
    <3>. QED BY <3>1, BelowAll
  <2>3. BelowIn(now, more, d, N + 1) =
          IF CellOf(more[N + 1]) = d THEN more[N + 1].old_value ELSE BelowIn(now, more, d, N + 2)
    <3>1. N + 1 \in Nat /\ N + 1 \in 1 .. N + 1 /\ (N + 1) + 1 = N + 2
      OBVIOUS
    <3>2. BelowIn(now, more, d, N + 1) =
            IF CellOf(more[N + 1]) = d THEN more[N + 1].old_value ELSE BelowIn(now, more, d, (N + 1) + 1)
      BY <3>1, BelowStep
    <3>. QED BY <3>1, <3>2, Zenon
  <2>. QED BY <2>1, <2>2, <2>3
<1>. DEFINE S == {k \in Nat : k <= N => \A d \in Cells :
                    BelowIn(now, more, d, N + 1 - k) = BelowIn(vals, pdl, d, N + 1 - k)}
<1>2. 0 \in S
  <2>1. N + 1 - 0 = N + 1
    OBVIOUS
  <2>. QED BY <1>1, <2>1
<1>3. ASSUME NEW k \in Nat, k \in S
      PROVE  k + 1 \in S
  <2>. SUFFICES ASSUME k + 1 <= N, NEW d \in Cells
                PROVE  BelowIn(now, more, d, N + 1 - (k + 1)) = BelowIn(vals, pdl, d, N + 1 - (k + 1))
    OBVIOUS
  <2>. DEFINE n == N - k
  <2>1. /\ n \in 1 .. N /\ n \in 1 .. N + 1 /\ N + 1 - (k + 1) = n /\ N + 1 - k = n + 1 /\ k <= N
        /\ N + 1 \in Nat
    OBVIOUS
  <2>2. BelowIn(now, more, d, n + 1) = BelowIn(vals, pdl, d, n + 1)
    BY <1>3, <2>1
  <2>. HIDE DEF n
  <2>3. BelowIn(now, more, d, n) =
          IF CellOf(more[n]) = d THEN more[n].old_value ELSE BelowIn(now, more, d, n + 1)
    BY <2>1, BelowStep
  <2>4. BelowIn(vals, pdl, d, n) =
          IF CellOf(pdl[n]) = d THEN pdl[n].old_value ELSE BelowIn(vals, pdl, d, n + 1)
    BY <2>1, BelowStep
  <2>5. more[n] = pdl[n]
    BY <2>1
  <2>6. BelowIn(now, more, d, n) = BelowIn(vals, pdl, d, n)
    BY <2>2, <2>3, <2>4, <2>5
  <2>. QED BY <2>1, <2>6, Zenon
<1>. HIDE DEF S
<1>4. Nat \subseteq S
  BY <1>2, <1>3, SetInduction
<1>5. ASSUME NEW n \in 1 .. N + 1, NEW d \in Cells
      PROVE  BelowIn(now, more, d, n) = BelowIn(vals, pdl, d, n)
  <2>1. N + 1 - n \in Nat /\ N + 1 - n <= N /\ N + 1 - (N + 1 - n) = n
    OBVIOUS
  <2>2. N + 1 - n \in S
    BY <1>4, <2>1
  <2>. QED BY <2>1, <2>2, Zenon DEF S
<1>. QED BY <1>1, <1>5

(* A value that is set is the default's or a buffer's own if no let is about *)
(* it, and what the last let has bound if there is one.                      *)
LEMMA BelowAssigned ==
  ASSUME NEW pdl, NEW vals, NEW now, NEW c, NEW v, now[c] = v,
         \A d \in Cells : d # c => now[d] = vals[d],
         NEW n, NEW d \in Cells
  PROVE  BelowIn(now, pdl, d, n) =
           IF d = c /\ LaterIn(pdl, c, n) = {} THEN v ELSE BelowIn(vals, pdl, d, n)
<1>1. CASE LaterIn(pdl, d, n) = {}
  <2>1. BelowIn(now, pdl, d, n) = now[d] /\ BelowIn(vals, pdl, d, n) = vals[d]
    BY <1>1 DEF BelowIn, FirstOf
  <2>. QED BY <1>1, <2>1
<1>2. CASE LaterIn(pdl, d, n) # {}
  <2>1. BelowIn(now, pdl, d, n) = BelowIn(vals, pdl, d, n)
    BY <1>2 DEF BelowIn, FirstOf
  <2>. QED BY <1>2, <2>1
<1>. QED BY <1>1, <1>2

LEMMA CellType == \A e \in Entry : CellOf(e) \in Cells
BY DEF Entry, CellOf, Cells

-------------------------------------------------------------------------------
(* The exchange of a whole stack *)

IsAfter(g, s, pdl, order) ==
  g = [n \in 0 .. Len(pdl) |-> IF n = 0 THEN Exchange(s, pdl) ELSE Swapped(g[n - 1], order[n])]

Turns(g, s, pdl, order) ==
  /\ g[0] = Exchange(s, pdl)
  /\ \A n \in 1 .. Len(pdl) : g[n] = Swapped(g[n - 1], order[n])

LEMMA AfterExists ==
  ASSUME NEW s, NEW pdl, NEW order, Len(pdl) \in Nat
  PROVE  \E g : IsAfter(g, s, pdl, order)
<1>. DEFINE x == Exchange(s, pdl)
            To(g, n) == g = [i \in 0 .. n |-> IF i = 0 THEN x ELSE Swapped(g[i - 1], order[i])]
            S == {n \in Nat : \E g : To(g, n)}
<1>. HIDE DEF x
<1>1. 0 \in S
  <2>1. To([i \in 0 .. 0 |-> x], 0)
    OBVIOUS
  <2>. QED BY <2>1
<1>2. ASSUME NEW n \in Nat, n \in S
      PROVE  n + 1 \in S
  <2>1. PICK g : To(g, n)
    BY <1>2
  <2>. DEFINE f == [i \in 0 .. n + 1 |-> IF i <= n THEN g[i] ELSE Swapped(g[n], order[n + 1])]
  <2>2. /\ f = [i \in 0 .. n + 1 |-> f[i]]
        /\ \A i \in 0 .. n : f[i] = g[i]
        /\ f[n + 1] = Swapped(g[n], order[n + 1])
    OBVIOUS
  <2>. HIDE DEF f
  <2>3. \A i \in 0 .. n : g[i] = IF i = 0 THEN x ELSE Swapped(g[i - 1], order[i])
    BY <2>1, Zenon
  <2>4. \A i \in 0 .. n + 1 : f[i] = IF i = 0 THEN x ELSE Swapped(f[i - 1], order[i])
    <3>. 0 \in 0 .. n /\ n \in 0 .. n
      OBVIOUS
    <3>1. f[0] = x
      BY <2>2, <2>3
    <3>2. ASSUME NEW i \in 1 .. n
          PROVE  f[i] = Swapped(f[i - 1], order[i])
      <4>1. i \in 0 .. n /\ i - 1 \in 0 .. n /\ i # 0
        OBVIOUS
      <4>. QED BY <2>2, <2>3, <4>1
    <3>3. f[n + 1] = Swapped(f[n], order[n + 1])
      BY <2>2
    <3>4. ASSUME NEW i \in 0 .. n + 1
          PROVE  f[i] = IF i = 0 THEN x ELSE Swapped(f[i - 1], order[i])
      <4>1. \/ i = 0
            \/ i # 0 /\ i \in 1 .. n
            \/ i # 0 /\ i = n + 1 /\ i - 1 = n
        OBVIOUS
      <4>. QED BY <3>1, <3>2, <3>3, <4>1
    <3>. QED BY <3>4
  <2>5. To(f, n + 1)
    BY <2>2, <2>4
  <2>. QED BY <2>5
<1>. HIDE DEF S
<1>3. Len(pdl) \in S
  BY <1>1, <1>2, SetInduction
<1>. QED BY <1>3 DEF S, IsAfter, x

LEMMA UnrewindsByTurns ==
  ASSUME NEW s, NEW pdl, NEW order, Len(pdl) \in Nat
  PROVE  \E g : Turns(g, s, pdl, order) /\ specpdl_unrewind(s, pdl, order) = g[Len(pdl)]
<1>. DEFINE g == CHOOSE f : IsAfter(f, s, pdl, order)
<1>1. specpdl_unrewind(s, pdl, order) = g[Len(pdl)]
  BY DEF specpdl_unrewind, IsAfter
<1>2. IsAfter(g, s, pdl, order)
  BY AfterExists
<1>. HIDE DEF g
<1>3. Turns(g, s, pdl, order)
  <2>1. \A n \in 0 .. Len(pdl) : g[n] = IF n = 0 THEN Exchange(s, pdl) ELSE Swapped(g[n - 1], order[n])
    BY <1>2, Zenon DEF IsAfter
  <2>2. 0 \in 0 .. Len(pdl) /\ \A n \in 1 .. Len(pdl) : n \in 0 .. Len(pdl) /\ n # 0
    OBVIOUS
  <2>3. g[0] = Exchange(s, pdl)
    BY <2>1, <2>2
  <2>4. ASSUME NEW n \in 1 .. Len(pdl)
        PROVE  g[n] = Swapped(g[n - 1], order[n])
    <3>1. n \in 0 .. Len(pdl) /\ n # 0
      BY <2>2
    <3>. QED BY <2>1, <3>1
  <2>. QED BY <2>3, <2>4 DEF Turns
<1>. QED BY <1>1, <1>3

(* Whatever the order, and whatever has been killed *)
Exchanged(s, pdl, y) ==
  /\ Well(kind, live, y.sym) /\ y.sym.local = s.local /\ y.sym.auto = s.auto
  /\ y.pdl \in Seq(Entry) /\ Len(y.pdl) = Len(pdl)

LEMMA TurnsTyped ==
  ASSUME live \subseteq Buffer, NEW s, Well(kind, live, s), NEW pdl \in Seq(Entry),
         NEW order, \A n \in 1 .. Len(pdl) : order[n] \in 1 .. Len(pdl),
         NEW g, Turns(g, s, pdl, order)
  PROVE  /\ \A n \in 0 .. Len(pdl) : Exchanged(s, pdl, g[n])
         /\ \A n \in 1 .. Len(pdl) : Turned(g[n - 1], g[n], order[n])
<1>. DEFINE N == Len(pdl)
            S == {n \in Nat : n <= N => Exchanged(s, pdl, g[n])}
<1>1. N \in Nat
  BY LenProperties
<1>. HIDE DEF N
<1>2. 0 \in S
  <2>1. Exchanged(s, pdl, g[0])
    BY DEF Turns, Exchange, Exchanged
  <2>. QED BY <2>1
<1>3. ASSUME NEW n \in 1 .. N, Exchanged(s, pdl, g[n - 1])
      PROVE  Turned(g[n - 1], g[n], order[n]) /\ Exchanged(s, pdl, g[n])
  <2>. DEFINE x == g[n - 1]
              y == g[n]
  <2>1. y = Swapped(x, order[n]) /\ order[n] \in 1 .. Len(x.pdl)
    BY <1>3 DEF Turns, Exchanged, N
  <2>2. Well(kind, live, x.sym) /\ x.pdl \in Seq(Entry) /\ Exchanged(s, pdl, x)
    BY <1>3 DEF Exchanged
  <2>. HIDE DEF x, y
  <2>3. Turned(x, y, order[n])
    BY <2>1, <2>2, SwappedOnce
  <2>4. Exchanged(s, pdl, y)
    BY <2>2, <2>3 DEF Turned, Exchanged
  <2>. QED BY <2>3, <2>4 DEF x, y
<1>4. ASSUME NEW n \in Nat, n \in S
      PROVE  n + 1 \in S
  <2>. SUFFICES ASSUME n + 1 <= N
                PROVE  Exchanged(s, pdl, g[n + 1])
    OBVIOUS
  <2>1. n + 1 \in 1 .. N /\ (n + 1) - 1 = n /\ n <= N
    BY <1>1
  <2>2. Exchanged(s, pdl, g[(n + 1) - 1])
    BY <1>4, <2>1
  <2>. QED BY <1>3, <2>1, <2>2
<1>. HIDE DEF S
<1>5. Nat \subseteq S
  BY <1>2, <1>4, SetInduction
<1>6. \A n \in 0 .. N : Exchanged(s, pdl, g[n])
  <2>. TAKE n \in 0 .. N
  <2>1. n \in Nat /\ n <= N /\ n \in S
    BY <1>1, <1>5
  <2>. QED BY <2>1 DEF S
<1>7. \A n \in 1 .. N : n - 1 \in 0 .. N
  BY <1>1
<1>. QED BY <1>3, <1>6, <1>7 DEF N

LEMMA EntryFields ==
  ASSUME NEW e \in Entry, NEW v, NEW f, f = [e EXCEPT !.old_value = v]
  PROVE  f.old_value = v /\ f.kind = e.kind /\ f.where = e.where
BY DEF Entry

(* Entry F binds the same as E, and what it holds is V. *)
Holds(f, e, v) == f.kind = e.kind /\ f.where = e.where /\ f.old_value = v

AllIntact(pdl, local) == \A i \in 1 .. Len(pdl) : Intact(pdl[i], local)

(* What one turn does to the values and to the entry, and that it does       *)
(* nothing to the other entries                                              *)
LEMMA TurnedIntact ==
  ASSUME live \subseteq Buffer, NEW x, x.pdl \in Seq(Entry), NEW i \in 1 .. Len(x.pdl),
         Intact(x.pdl[i], x.sym.local), NEW y, Turned(x, y, i)
  PROVE  LET c == CellOf(x.pdl[i]) IN
         /\ c \in Cells
         /\ Values(kind, y.sym)[c] = x.pdl[i].old_value
         /\ \A d \in Cells : d # c => Values(kind, y.sym)[d] = Values(kind, x.sym)[d]
         /\ Holds(y.pdl[i], x.pdl[i], Values(kind, x.sym)[c])
         /\ \A j \in 1 .. Len(x.pdl) : j # i => y.pdl[j] = x.pdl[j]
<1>. DEFINE c == CellOf(x.pdl[i])
            v == Values(kind, x.sym)[c]
            e == [x.pdl[i] EXCEPT !.old_value = v]
<1>1. x.pdl[i] \in Entry
  BY ElementOfSeq
<1>2. c \in Cells
  BY <1>1, CellType
<1>3. Put(kind, x.sym, y.sym, c, x.pdl[i].old_value) /\ y.pdl = [x.pdl EXCEPT ![i] = e] /\ e \in Entry
  BY DEF Turned
<1>. HIDE DEF v, c
<1>4. e.old_value = v /\ e.kind = x.pdl[i].kind /\ e.where = x.pdl[i].where
  BY <1>1, EntryFields
<1>. HIDE DEF e
<1>5. \A j \in 1 .. Len(x.pdl) : y.pdl[j] = IF j = i THEN e ELSE x.pdl[j]
  BY <1>3, ExceptSeq
<1>6. Holds(y.pdl[i], x.pdl[i], v)
  BY <1>4, <1>5 DEF Holds
<1>7. /\ Values(kind, y.sym)[c] = x.pdl[i].old_value
      /\ \A d \in Cells : d # c => Values(kind, y.sym)[d] = Values(kind, x.sym)[d]
  <2>1. DOMAIN Values(kind, x.sym) = Cells
    BY DEF Values
  <2>. QED BY <1>2, <1>3, <2>1 DEF Put
<1>. QED BY <1>2, <1>5, <1>6, <1>7 DEF v, c

(* Taking a thread's bindings out leaves every cell with what is below them  *)
(* all, and every entry with the value of its let.                           *)
LEMMA TakesOut ==
  ASSUME live \subseteq Buffer, NEW s, Well(kind, live, s), NEW pdl \in Seq(Entry),
         AllIntact(pdl, s.local), NEW y, y = unbind_for_thread_switch(s, pdl)
  PROVE  LET vals == Values(kind, s) IN
         /\ Exchanged(s, pdl, y)
         /\ \A d \in Cells : Values(kind, y.sym)[d] = BelowIn(vals, pdl, d, 1)
         /\ \A i \in 1 .. Len(pdl) :
              Holds(y.pdl[i], pdl[i], BelowIn(vals, pdl, CellOf(pdl[i]), i + 1))
<1>. DEFINE N == Len(pdl)
            vals == Values(kind, s)
            order == Downwards(N)
<1>1. N \in Nat /\ DOMAIN pdl = 1 .. N
  BY LenProperties
<1>2. PICK g : Turns(g, s, pdl, order) /\ y = g[N]
  <2>1. y = specpdl_unrewind(s, pdl, order)
    BY DEF unbind_for_thread_switch
  <2>. HIDE DEF order
  <2>. QED BY <1>1, <2>1, UnrewindsByTurns
<1>3. \A n \in 1 .. N : order[n] = N + 1 - n /\ order[n] \in 1 .. N
  BY <1>1 DEF Downwards
<1>. HIDE DEF order
<1>4. /\ \A n \in 0 .. N : Exchanged(s, pdl, g[n])
      /\ \A n \in 1 .. N : Turned(g[n - 1], g[n], order[n])
  BY <1>2, <1>3, TurnsTyped
<1>. HIDE DEF N, vals
<1>. DEFINE Out(n) == /\ \A d \in Cells : Values(kind, g[n].sym)[d] = BelowIn(vals, pdl, d, (N - n) + 1)
                      /\ \A i \in 1 .. N : i <= N - n => g[n].pdl[i] = pdl[i]
                      /\ \A i \in 1 .. N : i > N - n =>
                           Holds(g[n].pdl[i], pdl[i], BelowIn(vals, pdl, CellOf(pdl[i]), i + 1))
            S == {n \in Nat : n <= N => Out(n)}
<1>5. 0 \in S
  <2>1. g[0].sym = s /\ g[0].pdl = pdl
    BY <1>2 DEF Turns, Exchange
  <2>2. (N - 0) + 1 \in Nat /\ (N - 0) + 1 > N /\ \A i \in 1 .. N : i <= N - 0 /\ ~(i > N - 0)
    BY <1>1
  <2>3. \A d \in Cells : BelowIn(vals, pdl, d, (N - 0) + 1) = vals[d]
    BY <1>1, <2>2, BelowAll
  <2>4. Out(0)
    BY <2>1, <2>2, <2>3 DEF vals
  <2>. HIDE DEF Out
  <2>. QED BY <2>4
<1>6. ASSUME NEW n \in Nat, n \in S
      PROVE  n + 1 \in S
  <2>. SUFFICES ASSUME n + 1 <= N
                PROVE  Out(n + 1)
    <3>. HIDE DEF Out
    <3>. QED OBVIOUS
  <2>. DEFINE i == N - n
              x == g[n]
              u == g[n + 1]
  <2>1. /\ i \in 1 .. N /\ (N - n) + 1 = i + 1 /\ (N - (n + 1)) + 1 = i /\ n <= N
        /\ n \in 0 .. N /\ n + 1 \in 1 .. N /\ (n + 1) - 1 = n /\ N + 1 - (n + 1) = i
        /\ \A j \in 1 .. N : (j <= N - (n + 1) <=> j <= i /\ j # i)
        /\ \A j \in 1 .. N : (j > N - (n + 1) <=> j > i \/ j = i)
    BY <1>1
  <2>2. Out(n)
    <3>. HIDE DEF Out
    <3>. QED BY <1>6, <2>1
  <2>3. /\ \A d \in Cells : Values(kind, x.sym)[d] = BelowIn(vals, pdl, d, i + 1)
        /\ \A j \in 1 .. N : j <= i => x.pdl[j] = pdl[j]
        /\ \A j \in 1 .. N : j > i =>
             Holds(x.pdl[j], pdl[j], BelowIn(vals, pdl, CellOf(pdl[j]), j + 1))
    BY <2>1, <2>2
  <2>4. Exchanged(s, pdl, x) /\ Turned(x, u, i)
    <3>1. order[n + 1] = i
      BY <1>3, <2>1
    <3>2. Turned(g[(n + 1) - 1], g[n + 1], order[n + 1])
      BY <1>4, <2>1
    <3>. QED BY <1>4, <2>1, <3>1, <3>2
  <2>. HIDE DEF i, x, u
  <2>5. x.pdl[i] = pdl[i]
    <3>1. i <= i
      BY <2>1
    <3>. QED BY <2>1, <2>3, <3>1
  <2>. DEFINE c == CellOf(pdl[i])
  <2>6. /\ c \in Cells
        /\ Values(kind, u.sym)[c] = pdl[i].old_value
        /\ \A d \in Cells : d # c => Values(kind, u.sym)[d] = Values(kind, x.sym)[d]
        /\ Holds(u.pdl[i], pdl[i], Values(kind, x.sym)[c])
        /\ \A j \in 1 .. N : j # i => u.pdl[j] = x.pdl[j]
    <3>1. x.pdl \in Seq(Entry) /\ i \in 1 .. Len(x.pdl) /\ Len(x.pdl) = N
      BY <2>1, <2>4 DEF Exchanged, N
    <3>2. Intact(x.pdl[i], x.sym.local)
      BY <2>1, <2>4, <2>5 DEF AllIntact, Exchanged, N
    <3>. QED BY <2>4, <2>5, <3>1, <3>2, TurnedIntact
  <2>7. ASSUME NEW d \in Cells
        PROVE  Values(kind, u.sym)[d] = BelowIn(vals, pdl, d, i)
    <3>1. BelowIn(vals, pdl, d, i) = IF CellOf(pdl[i]) = d THEN pdl[i].old_value ELSE BelowIn(vals, pdl, d, i + 1)
      BY <1>1, <2>1, BelowStep
    <3>. QED BY <2>3, <2>6, <3>1
  <2>8. \A j \in 1 .. N : j <= i /\ j # i => u.pdl[j] = pdl[j]
    BY <2>3, <2>6
  <2>9. \A j \in 1 .. N : j > i \/ j = i =>
          Holds(u.pdl[j], pdl[j], BelowIn(vals, pdl, CellOf(pdl[j]), j + 1))
    <3>. TAKE j \in 1 .. N
    <3>1. CASE j = i
      BY <2>3, <2>6, <3>1
    <3>2. CASE j # i
      BY <2>3, <2>6, <3>2
    <3>. QED BY <3>1, <3>2
  <2>. QED BY <2>1, <2>7, <2>8, <2>9 DEF u
<1>. HIDE DEF S
<1>7. Nat \subseteq S
  BY <1>5, <1>6, SetInduction
<1>8. Out(N)
  <2>1. N \in S /\ N <= N
    BY <1>1, <1>7
  <2>. HIDE DEF Out
  <2>. QED BY <1>1, <2>1 DEF S
<1>9. (N - N) + 1 = 1 /\ N \in 0 .. N /\ \A i \in 1 .. N : i > N - N
  BY <1>1
<1>10. /\ \A d \in Cells : Values(kind, y.sym)[d] = BelowIn(vals, pdl, d, 1)
       /\ \A i \in 1 .. N : Holds(y.pdl[i], pdl[i], BelowIn(vals, pdl, CellOf(pdl[i]), i + 1))
  BY <1>2, <1>8, <1>9
<1>11. Exchanged(s, pdl, y)
  BY <1>2, <1>4, <1>9
<1>. QED BY <1>10, <1>11 DEF vals, N

LEMMA HoldsCell ==
  ASSUME NEW e, NEW f, NEW v, Holds(f, e, v)
  PROVE  CellOf(f) = CellOf(e)
BY DEF Holds, CellOf

(* Putting them back takes the values they hold for what they bind, and      *)
(* keeps below them what the cells have held.                                *)
LEMMA PutsBack ==
  ASSUME live \subseteq Buffer, NEW s, Well(kind, live, s), NEW pdl \in Seq(Entry),
         AllIntact(pdl, s.local), NEW y, y = rebind_for_thread_switch(s, pdl)
  PROVE  LET now == Values(kind, y.sym) IN
         /\ Exchanged(s, pdl, y)
         /\ \A d \in Cells : BelowIn(now, y.pdl, d, 1) = Values(kind, s)[d]
         /\ \A i \in 1 .. Len(pdl) :
              /\ y.pdl[i].kind = pdl[i].kind /\ y.pdl[i].where = pdl[i].where
              /\ BelowIn(now, y.pdl, CellOf(pdl[i]), i + 1) = pdl[i].old_value
<1>. DEFINE N == Len(pdl)
            vals == Values(kind, s)
            order == Upwards(N)
<1>1. N \in Nat /\ DOMAIN pdl = 1 .. N
  BY LenProperties
<1>2. PICK g : Turns(g, s, pdl, order) /\ y = g[N]
  <2>1. y = specpdl_unrewind(s, pdl, order)
    BY DEF rebind_for_thread_switch
  <2>. HIDE DEF order
  <2>. QED BY <1>1, <2>1, UnrewindsByTurns
<1>3. \A n \in 1 .. N : order[n] = n /\ order[n] \in 1 .. N
  BY <1>1 DEF Upwards
<1>. HIDE DEF order
<1>4. /\ \A n \in 0 .. N : Exchanged(s, pdl, g[n])
      /\ \A n \in 1 .. N : Turned(g[n - 1], g[n], order[n])
  BY <1>2, <1>3, TurnsTyped
<1>. HIDE DEF N, vals
<1>. DEFINE First(n) == [j \in 1 .. n |-> g[n].pdl[j]]
            Now(n) == Values(kind, g[n].sym)
            In(n) == /\ \A j \in 1 .. N : j > n => g[n].pdl[j] = pdl[j]
                     /\ \A j \in 1 .. N : j <= n =>
                          /\ g[n].pdl[j].kind = pdl[j].kind /\ g[n].pdl[j].where = pdl[j].where
                          /\ BelowIn(Now(n), First(n), CellOf(pdl[j]), j + 1) = pdl[j].old_value
                     /\ \A d \in Cells : BelowIn(Now(n), First(n), d, 1) = vals[d]
            S == {n \in Nat : n <= N => In(n)}
<1>5. 0 \in S
  <2>1. g[0].sym = s /\ g[0].pdl = pdl
    BY <1>2 DEF Turns, Exchange
  <2>. DEFINE none == First(0)
  <2>2. DOMAIN none = 1 .. 0
    OBVIOUS
  <2>. HIDE DEF none
  <2>3. \A d \in Cells : BelowIn(vals, none, d, 1) = vals[d]
    <3>1. 0 \in Nat /\ 1 \in Nat /\ 1 > 0
      OBVIOUS
    <3>. QED BY <2>2, <3>1, BelowAll
  <2>4. Now(0) = vals
    BY <2>1 DEF vals
  <2>5. \A j \in 1 .. N : j > 0 /\ ~(j <= 0)
    BY <1>1
  <2>6. In(0)
    BY <2>1, <2>3, <2>4, <2>5 DEF none
  <2>. HIDE DEF In
  <2>. QED BY <2>6
<1>6. ASSUME NEW n \in Nat, n \in S
      PROVE  n + 1 \in S
  <2>. SUFFICES ASSUME n + 1 <= N
                PROVE  In(n + 1)
    <3>. HIDE DEF In
    <3>. QED OBVIOUS
  <2>. DEFINE i == n + 1
              x == g[n]
              u == g[n + 1]
              P == First(n)
              Q == First(n + 1)
  <2>1. /\ i \in 1 .. N /\ n <= N /\ n \in 0 .. N /\ i - 1 = n /\ i > n
        /\ \A j \in 1 .. N : (j <= i <=> j <= n \/ j = i) /\ (j <= n => j # i)
        /\ \A j \in 1 .. N : (j > i <=> j > n /\ j # i)
        /\ \A j \in 1 .. N : j <= n => j \in 1 .. n /\ j + 1 \in 1 .. n + 1
        /\ 1 \in 1 .. n + 1 /\ i + 1 = n + 2
        /\ \A j \in 1 .. n : j \in 1 .. i /\ j \in 1 .. N /\ j # i
        /\ i \in 1 .. i
    BY <1>1
  <2>2. In(n)
    <3>. HIDE DEF In
    <3>. QED BY <1>6, <2>1
  <2>3. Exchanged(s, pdl, x) /\ Turned(x, u, i)
    <3>1. order[i] = i
      BY <1>3, <2>1
    <3>2. Turned(g[i - 1], g[i], order[i])
      <4>. HIDE DEF i
      <4>. QED BY <1>4, <2>1
    <3>. QED BY <1>4, <2>1, <3>1, <3>2
  <2>4. /\ \A j \in 1 .. N : j > n => x.pdl[j] = pdl[j]
        /\ \A j \in 1 .. N : j <= n =>
             /\ x.pdl[j].kind = pdl[j].kind /\ x.pdl[j].where = pdl[j].where
             /\ BelowIn(Values(kind, x.sym), P, CellOf(pdl[j]), j + 1) = pdl[j].old_value
        /\ \A d \in Cells : BelowIn(Values(kind, x.sym), P, d, 1) = vals[d]
    BY <2>2
  <2>5. /\ DOMAIN P = 1 .. n /\ DOMAIN Q = 1 .. n + 1
        /\ \A j \in 1 .. n : P[j] = x.pdl[j]
        /\ \A j \in 1 .. i : Q[j] = u.pdl[j]
    OBVIOUS
  <2>6. Q = First(i) /\ Now(i) = Values(kind, u.sym) /\ g[i] = u
    OBVIOUS
  <2>. SUFFICES /\ \A j \in 1 .. N : j > i => u.pdl[j] = pdl[j]
                /\ \A j \in 1 .. N : j <= i =>
                     /\ u.pdl[j].kind = pdl[j].kind /\ u.pdl[j].where = pdl[j].where
                     /\ BelowIn(Values(kind, u.sym), Q, CellOf(pdl[j]), j + 1) = pdl[j].old_value
                /\ \A d \in Cells : BelowIn(Values(kind, u.sym), Q, d, 1) = vals[d]
    BY <2>6
  <2>. HIDE DEF i, x, u, P, Q
  <2>7. x.pdl[i] = pdl[i]
    BY <2>1, <2>4
  <2>. DEFINE c == CellOf(pdl[i])
  <2>8. /\ c \in Cells
        /\ Values(kind, u.sym)[c] = pdl[i].old_value
        /\ \A d \in Cells : d # c => Values(kind, u.sym)[d] = Values(kind, x.sym)[d]
        /\ Holds(u.pdl[i], pdl[i], Values(kind, x.sym)[c])
        /\ \A j \in 1 .. N : j # i => u.pdl[j] = x.pdl[j]
    <3>1. x.pdl \in Seq(Entry) /\ i \in 1 .. Len(x.pdl) /\ Len(x.pdl) = N
      BY <2>1, <2>3 DEF Exchanged, N
    <3>2. Intact(x.pdl[i], x.sym.local)
      BY <2>1, <2>3, <2>7 DEF AllIntact, Exchanged, N
    <3>. QED BY <2>3, <2>7, <3>1, <3>2, TurnedIntact
  <2>9. /\ CellOf(Q[n + 1]) = c /\ Q[n + 1].old_value = Values(kind, x.sym)[c]
        /\ \A j \in 1 .. n : Q[j] = P[j]
    <3>1. Q[i] = u.pdl[i] /\ \A j \in 1 .. n : Q[j] = P[j]
      BY <2>1, <2>5, <2>8
    <3>2. CellOf(u.pdl[i]) = c
      BY <2>8, HoldsCell
    <3>. QED BY <2>8, <3>1, <3>2 DEF i, Holds
  <2>. HIDE DEF c
  <2>10. /\ \A m \in 1 .. n + 1, d \in Cells :
              BelowIn(Values(kind, u.sym), Q, d, m) = BelowIn(Values(kind, x.sym), P, d, m)
         /\ \A d \in Cells : BelowIn(Values(kind, u.sym), Q, d, n + 2) = Values(kind, u.sym)[d]
    BY <2>5, <2>8, <2>9, BelowPushed
  <2>11. \A j \in 1 .. N : j > i => u.pdl[j] = pdl[j]
    BY <2>1, <2>4, <2>8
  <2>12. \A d \in Cells : BelowIn(Values(kind, u.sym), Q, d, 1) = vals[d]
    BY <2>1, <2>4, <2>10
  <2>13. ASSUME NEW j \in 1 .. N, j <= n
         PROVE  /\ u.pdl[j].kind = pdl[j].kind /\ u.pdl[j].where = pdl[j].where
                /\ BelowIn(Values(kind, u.sym), Q, CellOf(pdl[j]), j + 1) = pdl[j].old_value
    <3>1. j # i /\ u.pdl[j] = x.pdl[j] /\ j + 1 \in 1 .. n + 1
      BY <2>1, <2>8, <2>13
    <3>2. CellOf(pdl[j]) \in Cells
      <4>1. pdl[j] \in Entry
        BY ElementOfSeq DEF N
      <4>. QED BY <4>1, CellType
    <3>3. BelowIn(Values(kind, u.sym), Q, CellOf(pdl[j]), j + 1) = BelowIn(Values(kind, x.sym), P, CellOf(pdl[j]), j + 1)
      BY <2>10, <3>1, <3>2
    <3>. QED BY <2>4, <2>13, <3>1, <3>3
  <2>14. /\ u.pdl[i].kind = pdl[i].kind /\ u.pdl[i].where = pdl[i].where
         /\ BelowIn(Values(kind, u.sym), Q, CellOf(pdl[i]), i + 1) = pdl[i].old_value
    BY <2>1, <2>8, <2>10 DEF Holds, c
  <2>. QED BY <2>1, <2>11, <2>12, <2>13, <2>14
<1>. HIDE DEF S
<1>7. Nat \subseteq S
  BY <1>5, <1>6, SetInduction
<1>8. In(N)
  <2>1. N \in S /\ N <= N
    BY <1>1, <1>7
  <2>. HIDE DEF In
  <2>. QED BY <1>1, <2>1 DEF S
<1>9. Exchanged(s, pdl, y)
  <2>1. N \in 0 .. N
    BY <1>1
  <2>. QED BY <1>2, <1>4, <2>1
<1>10. y.pdl = First(N)
  <2>1. y.pdl = [j \in 1 .. N |-> y.pdl[j]]
    <3>1. y.pdl \in Seq(Entry) /\ Len(y.pdl) = N
      BY <1>9 DEF Exchanged, N
    <3>. QED BY <3>1, LenProperties
  <2>. QED BY <1>2, <2>1
<1>11. \A j \in 1 .. N : j <= N
  BY <1>1
<1>12. /\ \A d \in Cells : BelowIn(Values(kind, y.sym), y.pdl, d, 1) = vals[d]
       /\ \A j \in 1 .. N :
            /\ y.pdl[j].kind = pdl[j].kind /\ y.pdl[j].where = pdl[j].where
            /\ BelowIn(Values(kind, y.sym), y.pdl, CellOf(pdl[j]), j + 1) = pdl[j].old_value
  <2>1. Now(N) = Values(kind, y.sym) /\ g[N] = y
    BY <1>2
  <2>. HIDE DEF First
  <2>. QED BY <1>8, <1>10, <1>11, <2>1
<1>. QED BY <1>9, <1>12 DEF vals, N

-------------------------------------------------------------------------------
(* The invariant, action by action *)

LEMMA InitIInv == Init => IInv
<1>. SUFFICES ASSUME Init
              PROVE  IInv
  OBVIOUS
<1>1. PICK v \in Value : sym = Symbol(v)
  BY DEF Init
<1>2. /\ kind \in Kinds /\ current_thread \in Thread /\ live = Buffer /\ broken = FALSE
      /\ buffer \in [Thread -> Buffer] /\ specpdl = [t \in Thread |-> <<>>]
  BY DEF Init
<1>. DEFINE cell == [c \in AllCells |-> IF PerBuffer /\ c # Orphan THEN v ELSE Nil]
<1>3. /\ sym \in Symbols /\ sym.localized = FALSE /\ sym.auto = FALSE /\ sym.cell = cell
      /\ sym.symval = (IF PerBuffer THEN Nil ELSE v) /\ sym.local = {}
      /\ sym.where = Nil /\ sym.valcell = Default
  <2>1. sym = [localized |-> FALSE, auto |-> FALSE, symval |-> IF PerBuffer THEN Nil ELSE v,
               cell |-> cell, local |-> {}, where |-> Nil, valcell |-> Default]
    BY <1>1 DEF Symbol, AllCells
  <2>2. cell \in [AllCells -> Value \union {Nil}]
    OBVIOUS
  <2>3. Default \in AllCells
    BY DEF AllCells
  <2>. HIDE DEF cell
  <2>. QED BY <2>1, <2>2, <2>3 DEF Symbols
<1>4. Well(kind, live, sym)
  <2>1. \A c \in Cells : c \in AllCells /\ c # Orphan
    BY Names DEF Cells, AllCells
  <2>2. \A b \in Buffer : b \in Cells
    BY DEF Cells
  <2>3. Default \in Cells
    BY DEF Cells
  <2>4. sym.where \notin live
    BY <1>2, <1>3, Names
  <2>5. PerBuffer => \A c \in Cells : sym.cell[c] = v
    BY <1>3, <2>1
  <2>6. ~PerBuffer => \A c \in Cells : sym.cell[c] \notin Value
    BY <1>3, <2>1, Names
  <2>. QED BY <1>2, <1>3, <2>2, <2>3, <2>4, <2>5, <2>6 DEF Well, PerBuffer
<1>5. specpdl \in [Thread -> Seq(Entry)] /\ \A t \in Thread : DOMAIN specpdl[t] = {}
  <2>1. <<>> \in Seq(Entry) /\ DOMAIN <<>> = {}
    BY EmptySeq
  <2>. QED BY <1>2, <2>1
<1>. QED BY <1>2, <1>4, <1>5 DEF IInv

LEMMA Typed ==
  ASSUME IInv
  PROVE  /\ live \subseteq Buffer /\ current_thread \in Thread /\ current_buffer \in live
         /\ Well(kind, live, sym) /\ specpdl \in [Thread -> Seq(Entry)]
         /\ specpdl[current_thread] \in Seq(Entry) /\ broken \in BOOLEAN
         /\ buffer \in [Thread -> live]
         /\ ~broken => \A t \in Thread : AllIntact(specpdl[t], sym.local)
<1>1. \A t \in Thread : DOMAIN specpdl[t] = 1 .. Len(specpdl[t])
  BY LenProperties DEF IInv
<1>. QED BY <1>1 DEF IInv, current_buffer, AllIntact

(* A step that leaves the bindings alone *)
LEMMA SymbolMoves ==
  ASSUME IInv, UNCHANGED <<kind, current_thread, specpdl>>, live' \subseteq Buffer,
         buffer' \in [Thread -> live'], Well(kind, live', sym'), broken' \in BOOLEAN,
         ~broken' => /\ ~broken
                     /\ \A t \in Thread : \A i \in DOMAIN specpdl[t] :
                          Intact(specpdl[t][i], sym.local) => Intact(specpdl[t][i], sym'.local)
  PROVE  IInv'
BY DEF IInv

LEMMA IntactGrows ==
  ASSUME NEW e, NEW L, NEW M, L \subseteq M, Intact(e, L)
  PROVE  Intact(e, M)
BY DEF Intact

LEMMA SymbolGrows ==
  ASSUME IInv, Unmoved, UNCHANGED broken, Well(kind, live, sym'), sym.local \subseteq sym'.local
  PROVE  IInv'
<1>1. \A t \in Thread : \A i \in DOMAIN specpdl[t] :
        Intact(specpdl[t][i], sym.local) => Intact(specpdl[t][i], sym'.local)
  BY IntactGrows
<1>2. /\ UNCHANGED <<kind, current_thread, specpdl>> /\ live' \subseteq Buffer
      /\ buffer' \in [Thread -> live'] /\ broken' \in BOOLEAN /\ Well(kind, live', sym')
      /\ (~broken' => ~broken)
  BY DEF IInv, Unmoved
<1>. QED BY <1>1, <1>2, SymbolMoves

LEMMA AssignedLocal ==
  ASSUME NEW s, NEW u, NEW b, NEW bindflag, NEW v, Assigned(s, u, b, bindflag, v)
  PROVE  s.local \subseteq u.local
BY DEF Assigned, Put, PutNew

LEMMA LetIInv ==
  ASSUME IInv, NEW v \in Value, Let(v)
  PROVE  IInv'
<1>. DEFINE s == find_symbol_value(sym, current_buffer)
            e == BindingOf(s)
            p == specpdl[current_thread]
<1>1. /\ Well(kind, live, s) /\ Same(kind, sym, s) /\ (s.localized => s.where = current_buffer)
      /\ Loaded(s, current_buffer) = Values(kind, s)[CellFor(s, current_buffer)]
  BY Typed, Found
<1>2. /\ sym' = do_specbind(s, e.kind, v)
      /\ specpdl' = [specpdl EXCEPT ![current_thread] = Append(p, e)]
      /\ UNCHANGED <<kind, current_thread, buffer, live, broken>>
  BY DEF Let, specbind
<1>. HIDE DEF s
<1>3. /\ e \in Entry /\ Intact(e, s.local) /\ Well(kind, live, sym') /\ Put(kind, s, sym', CellOf(e), v)
  BY <1>1, <1>2, Typed, SpecBound
<1>. HIDE DEF e
<1>4. sym'.local = sym.local /\ s.local = sym.local
  BY <1>1, <1>3 DEF Same, Put
<1>5. /\ Append(p, e) \in Seq(Entry)
      /\ \A i \in DOMAIN Append(p, e) : (i \in DOMAIN p /\ Append(p, e)[i] = p[i]) \/ Append(p, e)[i] = e
  BY <1>3, Typed, AppendProperties, LenProperties
<1>6. specpdl' \in [Thread -> Seq(Entry)]
  BY <1>2, <1>5, Typed
<1>7. ASSUME ~broken, NEW t \in Thread, NEW i \in DOMAIN specpdl'[t]
      PROVE  Intact(specpdl'[t][i], sym'.local)
  <2>1. CASE t = current_thread
    <3>1. specpdl'[t] = Append(p, e)
      BY <1>2, <2>1, Typed
    <3>2. \A j \in DOMAIN p : Intact(p[j], sym.local)
      BY <1>7 DEF IInv
    <3>. QED BY <1>3, <1>4, <1>5, <1>7, <3>1, <3>2
  <2>2. CASE t # current_thread
    <3>1. specpdl'[t] = specpdl[t]
      BY <1>2, <2>2, Typed
    <3>. QED BY <1>4, <1>7, <3>1 DEF IInv
  <2>. QED BY <2>1, <2>2
<1>. QED BY <1>2, <1>3, <1>6, <1>7 DEF IInv

LEMMA UnbindIInv ==
  ASSUME IInv, Unbind
  PROVE  IInv'
<1>. DEFINE p == specpdl[current_thread]
            e == p[Len(p)]
            q == SubSeq(p, 1, Len(p) - 1)
<1>1. /\ p # <<>> /\ sym' = do_one_unbind(sym, e)
      /\ specpdl' = [specpdl EXCEPT ![current_thread] = q]
      /\ UNCHANGED <<kind, current_thread, buffer, live, broken>>
  BY DEF Unbind, Front, Last
<1>2. /\ p \in Seq(Entry) /\ e \in Entry /\ q \in Seq(Entry) /\ Len(p) \in DOMAIN p
      /\ \A i \in DOMAIN q : i \in DOMAIN p /\ q[i] = p[i]
  BY <1>1, Typed, LenProperties, ElementOfSeq, SubSeqProperties
<1>3. Well(kind, live, sym') /\ sym'.local = sym.local
  <2>1. p \in Seq(Entry) /\ e \in Entry
    BY <1>2
  <2>. HIDE DEF e
  <2>. QED BY <1>1, <2>1, Typed, Undone
<1>. HIDE DEF e, q
<1>4. specpdl' \in [Thread -> Seq(Entry)]
  BY <1>1, <1>2, Typed
<1>5. ASSUME ~broken, NEW t \in Thread, NEW i \in DOMAIN specpdl'[t]
      PROVE  Intact(specpdl'[t][i], sym'.local)
  <2>1. CASE t = current_thread
    <3>1. specpdl'[t] = q
      BY <1>1, <2>1, Typed
    <3>. QED BY <1>2, <1>3, <1>5, <3>1, Typed DEF IInv
  <2>2. CASE t # current_thread
    <3>1. specpdl'[t] = specpdl[t]
      BY <1>1, <2>2, Typed
    <3>. QED BY <1>3, <1>5, <3>1 DEF IInv
  <2>. QED BY <2>1, <2>2
<1>. QED BY <1>1, <1>3, <1>4, <1>5 DEF IInv

LEMMA SetIInv ==
  ASSUME IInv, NEW v \in Value, Set(v)
  PROVE  IInv' /\ Assigned(sym, sym', current_buffer, FALSE, v)
<1>1. sym' = set_internal(sym, v, current_buffer, FALSE) /\ Unmoved /\ UNCHANGED broken
  BY DEF Set, Sound
<1>2. Well(kind, live, sym') /\ Assigned(sym, sym', current_buffer, FALSE, v)
  BY <1>1, Typed, InternalSet
<1>3. sym.local \subseteq sym'.local
  BY <1>2, AssignedLocal
<1>. QED BY <1>1, <1>2, <1>3, SymbolGrows

LEMMA SetDefaultIInv ==
  ASSUME IInv, NEW v \in Value, SetDefault(v)
  PROVE  IInv' /\ Put(kind, sym, sym', Default, v)
<1>1. sym' = set_default_internal(sym, v) /\ Unmoved /\ UNCHANGED broken
  BY DEF SetDefault, Sound
<1>2. Well(kind, live, sym') /\ Put(kind, sym, sym', Default, v)
  BY <1>1, Typed, DefaultSet
<1>3. sym.local \subseteq sym'.local
  BY <1>2 DEF Put
<1>. QED BY <1>1, <1>2, <1>3, SymbolGrows

LEMMA AskValueIInv ==
  ASSUME IInv, AskValue
  PROVE  IInv' /\ Same(kind, sym, sym')
<1>1. sym' = find_symbol_value(sym, current_buffer) /\ Unmoved /\ UNCHANGED broken
  BY DEF AskValue, Sound
<1>2. Well(kind, live, sym') /\ Same(kind, sym, sym')
  BY <1>1, Typed, Found
<1>3. sym.local \subseteq sym'.local
  BY <1>2 DEF Same
<1>. QED BY <1>1, <1>2, <1>3, SymbolGrows

LEMMA AskInIInv ==
  ASSUME IInv, NEW b \in Buffer, AskIn(b)
  PROVE  IInv' /\ Same(kind, sym, sym')
<1>1. sym' = Consulted(sym, b) /\ Unmoved /\ UNCHANGED broken
  BY DEF AskIn, Sound
<1>2. Well(kind, live, sym') /\ Same(kind, sym, sym')
  BY <1>1, Typed, ConsultedSame
<1>3. sym.local \subseteq sym'.local
  BY <1>2 DEF Same
<1>. QED BY <1>1, <1>2, <1>3, SymbolGrows

LEMMA AssignInCIInv ==
  ASSUME IInv, NEW v \in Value, AssignInC(v)
  PROVE  IInv' /\ (~broken' => Put(kind, sym, sym', CellFor(sym, current_buffer), v))
<1>1. /\ fwd /\ sym' = [sym EXCEPT !.symval = v] /\ Unmoved
      /\ broken' \in BOOLEAN
      /\ ~broken' => ~broken /\ ~(sym.localized /\ sym.valcell # CellFor(sym, current_buffer))
  BY Typed DEF AssignInC, CellFor
<1>2. /\ Well(kind, live, sym') /\ sym'.local = sym.local
      /\ ~broken' => Put(kind, sym, sym', CellFor(sym, current_buffer), v)
  BY <1>1, Typed, AssignedInC
<1>3. /\ UNCHANGED <<kind, current_thread, specpdl>> /\ live' \subseteq Buffer
      /\ buffer' \in [Thread -> live'] /\ Well(kind, live', sym')
  BY <1>1, <1>2 DEF IInv, Unmoved
<1>. QED BY <1>1, <1>2, <1>3, SymbolMoves

LEMMA MakeAutoIInv ==
  ASSUME IInv, make_variable_buffer_local
  PROVE  /\ IInv' /\ Values(kind, sym') = Values(kind, sym) /\ sym'.local = sym.local
         /\ PerBuffer \/ sym'.auto
<1>1. Unmoved /\ UNCHANGED broken
  BY DEF make_variable_buffer_local, Sound
<1>2. CASE PerBuffer
  <2>1. sym' = sym
    BY <1>2 DEF make_variable_buffer_local
  <2>. QED BY <1>1, <1>2, <2>1, Typed, SymbolGrows
<1>3. CASE ~PerBuffer
  <2>. DEFINE s == Localized(sym)
  <2>1. sym' = [s EXCEPT !.auto = TRUE]
    BY <1>3 DEF make_variable_buffer_local
  <2>2. Well(kind, live, s) /\ Same(kind, sym, s) /\ s.localized
    BY <1>3, Typed, Localizes
  <2>. HIDE DEF s
  <2>3. /\ sym' \in Symbols /\ sym'.auto = TRUE /\ sym'.localized = s.localized
        /\ sym'.symval = s.symval /\ sym'.cell = s.cell /\ sym'.local = s.local
        /\ sym'.where = s.where /\ sym'.valcell = s.valcell
    BY <2>1, <2>2 DEF Well, Symbols
  <2>4. Well(kind, live, sym')
    BY <1>3, <2>2, <2>3 DEF Well, PerBuffer
  <2>5. Values(kind, sym') = Values(kind, s)
    BY <2>3 DEF Values, ValueIn
  <2>6. Values(kind, sym') = Values(kind, sym) /\ sym'.local = sym.local
    BY <2>2, <2>3, <2>5 DEF Same
  <2>. QED BY <1>1, <2>3, <2>4, <2>6, SymbolGrows
<1>. QED BY <1>2, <1>3

LEMMA MakeLocalIInv ==
  ASSUME IInv, make_local_variable
  PROVE  /\ IInv'
         /\ ~broken' =>
              \/ current_buffer \in sym.local /\ Same(kind, sym, sym')
              \/ /\ current_buffer \notin sym.local
                 /\ PutNew(kind, sym, sym', current_buffer, Values(kind, sym)[Default])
<1>. DEFINE b == current_buffer
            s == Localized(sym)
<1>1. /\ sym' = IF b \in sym.local THEN s ELSE Copied(Unloaded(s, b), b)
      /\ broken' = (broken \/ (b \notin sym.local /\
           Loaded(find_symbol_value(sym', b), b) # default_value(sym)))
      /\ UNCHANGED <<kind, current_thread, buffer, specpdl, live>>
  BY DEF make_local_variable, Unmoved
<1>2. Well(kind, live, s) /\ Same(kind, sym, s) /\ (PerBuffer \/ s.localized)
  BY Typed, Localizes
<1>. HIDE DEF s
<1>3. s.local = sym.local /\ s.auto = sym.auto /\ Values(kind, s) = Values(kind, sym)
  BY <1>2 DEF Same
<1>4. /\ Well(kind, live, sym') /\ sym.local \subseteq sym'.local
      /\ \/ b \in sym.local /\ Same(kind, sym, sym')
         \/ b \notin sym.local /\ \E v \in Value : PutNew(kind, sym, sym', b, v)
  <2>1. CASE b \in sym.local
    <3>1. sym' = s
      BY <1>1, <2>1
    <3>. QED BY <1>2, <1>3, <2>1, <3>1
  <2>2. CASE b \notin sym.local
    <3>. DEFINE u == Unloaded(s, b)
    <3>1. /\ Well(kind, live, u) /\ Same(kind, s, u) /\ u.localized = s.localized /\ u.where # b
      BY <1>2, Typed, Unloads
    <3>2. sym' = Copied(u, b)
      BY <1>1, <2>2
    <3>. HIDE DEF u
    <3>3. (PerBuffer \/ u.localized) /\ b \in live \ u.local
      BY <1>2, <1>3, <2>2, <3>1, Typed DEF Same
    <3>4. \E v \in Value : Well(kind, live, sym') /\ PutNew(kind, u, sym', b, v)
      BY <3>1, <3>2, <3>3, Typed, Copies
    <3>5. PICK v \in Value : Well(kind, live, sym') /\ PutNew(kind, u, sym', b, v)
      BY <3>4
    <3>6. PutNew(kind, sym, sym', b, v)
      BY <1>3, <3>1, <3>5 DEF PutNew, Same
    <3>. QED BY <2>2, <3>5, <3>6 DEF PutNew
  <2>. QED BY <2>1, <2>2
<1>5. IInv'
  <2>1. \A t \in Thread : \A i \in DOMAIN specpdl[t] :
          Intact(specpdl[t][i], sym.local) => Intact(specpdl[t][i], sym'.local)
    BY <1>4, IntactGrows
  <2>2. broken' \in BOOLEAN /\ (~broken' => ~broken)
    BY <1>1, Typed
  <2>3. /\ live' \subseteq Buffer /\ buffer' \in [Thread -> live'] /\ Well(kind, live', sym')
    BY <1>1, <1>4, Typed
  <2>. QED BY <1>1, <2>1, <2>2, <2>3, SymbolMoves
<1>6. ASSUME ~broken', b \notin sym.local
      PROVE  PutNew(kind, sym, sym', b, Values(kind, sym)[Default])
  <2>1. PICK v \in Value : PutNew(kind, sym, sym', b, v)
    BY <1>4, <1>6
  <2>. DEFINE w == find_symbol_value(sym', b)
  <2>2. Loaded(w, b) = default_value(sym) /\ default_value(sym) = Values(kind, sym)[Default]
    BY <1>1, <1>6, Typed, DefaultValue
  <2>3. Same(kind, sym', w) /\ Loaded(w, b) = Values(kind, w)[CellFor(w, b)]
    BY <1>4, Typed, Found
  <2>. HIDE DEF w
  <2>4. Loaded(w, b) = v
    <3>1. w.local = sym.local \union {b} /\ Values(kind, w) = [Values(kind, sym) EXCEPT ![b] = v]
      BY <2>1, <2>3 DEF Same, PutNew
    <3>2. CellFor(w, b) = b
      BY <3>1 DEF CellFor
    <3>3. b \in DOMAIN Values(kind, sym)
      BY Typed DEF Values, Cells
    <3>. QED BY <2>3, <3>1, <3>2, <3>3
  <2>. QED BY <2>1, <2>2, <2>4
<1>. QED BY <1>4, <1>5, <1>6

(* When the bindings of a buffer's own value are gone before it is, every    *)
(* binding has what it bound.                                                *)
LEMMA UnboundIntact ==
  ASSUME NEW b, ~Bound(b), NEW t \in Thread, NEW i \in DOMAIN specpdl[t],
         NEW L, Intact(specpdl[t][i], L)
  PROVE  Intact(specpdl[t][i], L \ {b})
BY DEF Bound, Intact

LEMMA KillLocalIInv ==
  ASSUME IInv, kill_local_variable
  PROVE  IInv' /\ Removed(kind, sym, sym', current_buffer)
<1>. DEFINE b == current_buffer
            s == Unloaded(sym, b)
<1>1. /\ sym' = Disowned(s, b) /\ broken' = (broken \/ Bound(b))
      /\ UNCHANGED <<kind, current_thread, buffer, specpdl, live>>
  BY DEF kill_local_variable, Unmoved
<1>2. Well(kind, live, s) /\ Same(kind, sym, s) /\ s.where # b
  BY Typed, Unloads
<1>. HIDE DEF s
<1>3. Well(kind, live, sym') /\ Removed(kind, s, sym', b)
  BY <1>1, <1>2, Typed, Disowns
<1>4. Removed(kind, sym, sym', b)
  BY <1>2, <1>3 DEF Same, Removed
<1>5. broken' \in BOOLEAN /\ (~broken' => ~broken /\ ~Bound(b))
  BY <1>1, Typed DEF Bound
<1>6. ~broken' => \A t \in Thread : \A i \in DOMAIN specpdl[t] :
        Intact(specpdl[t][i], sym.local) => Intact(specpdl[t][i], sym'.local)
  BY <1>4, <1>5, UnboundIntact DEF Removed
<1>7. live' \subseteq Buffer /\ buffer' \in [Thread -> live'] /\ Well(kind, live', sym')
  BY <1>1, <1>3, Typed
<1>. QED BY <1>1, <1>4, <1>5, <1>6, <1>7, SymbolMoves

LEMMA KillBufferIInv ==
  ASSUME IInv, NEW b \in Buffer, KillBuffer(b)
  PROVE  IInv' /\ Removed(kind, sym, sym', b)
<1>1. /\ sym' = Disowned(Orphaned(sym, b), b) /\ broken' = (broken \/ Bound(b))
      /\ UNCHANGED <<kind, current_thread, buffer, specpdl>>
      /\ b \in live /\ live' = live \ {b} /\ \A t \in Thread : buffer[t] # b
  BY DEF KillBuffer
<1>2. Well(kind, live', sym') /\ Removed(kind, sym, sym', b)
  BY <1>1, Typed, Kills
<1>3. broken' \in BOOLEAN /\ (~broken' => ~broken /\ ~Bound(b))
  BY <1>1, Typed DEF Bound
<1>4. ~broken' => \A t \in Thread : \A i \in DOMAIN specpdl[t] :
        Intact(specpdl[t][i], sym.local) => Intact(specpdl[t][i], sym'.local)
  BY <1>2, <1>3, UnboundIntact DEF Removed
<1>5. live' \subseteq Buffer /\ buffer' \in [Thread -> live']
  BY <1>1, Typed
<1>. QED BY <1>1, <1>2, <1>3, <1>4, <1>5, SymbolMoves

LEMMA SetBufferIInv ==
  ASSUME IInv, NEW b \in Buffer, set_buffer(b)
  PROVE  IInv' /\ Same(kind, sym, sym')
<1>1. /\ sym' = set_buffer_internal_2(sym, current_buffer, b)
      /\ UNCHANGED <<kind, current_thread, specpdl, live, broken>>
      /\ b \in live /\ buffer' = [buffer EXCEPT ![current_thread] = b]
  BY DEF set_buffer
<1>2. Well(kind, live, sym') /\ Same(kind, sym, sym')
  BY <1>1, Typed, BufferSet
<1>3. live' \subseteq Buffer /\ buffer' \in [Thread -> live'] /\ Well(kind, live', sym')
  BY <1>1, <1>2, Typed
<1>4. broken' \in BOOLEAN /\ (~broken' => ~broken) /\ sym'.local = sym.local
  BY <1>1, <1>2, Typed DEF Same
<1>. QED BY <1>1, <1>2, <1>3, <1>4, SymbolMoves

LEMMA Unrewound ==
  ASSUME live \subseteq Buffer, NEW s, Well(kind, live, s), NEW pdl \in Seq(Entry),
         NEW y, y = unbind_for_thread_switch(s, pdl) \/ y = rebind_for_thread_switch(s, pdl)
  PROVE  Exchanged(s, pdl, y)
<1>. DEFINE N == Len(pdl)
<1>1. N \in Nat
  BY LenProperties
<1>2. PICK order : /\ y = specpdl_unrewind(s, pdl, order)
                   /\ \A n \in 1 .. N : order[n] \in 1 .. N
  <2>1. /\ \A n \in 1 .. N : Upwards(N)[n] \in 1 .. N
        /\ \A n \in 1 .. N : Downwards(N)[n] \in 1 .. N
    BY <1>1 DEF Upwards, Downwards
  <2>2. y = specpdl_unrewind(s, pdl, Upwards(N)) \/ y = specpdl_unrewind(s, pdl, Downwards(N))
    BY DEF unbind_for_thread_switch, rebind_for_thread_switch
  <2>. HIDE DEF N
  <2>. QED BY <2>1, <2>2
<1>3. PICK g : Turns(g, s, pdl, order) /\ y = g[N]
  BY <1>1, <1>2, UnrewindsByTurns
<1>4. \A n \in 0 .. N : Exchanged(s, pdl, g[n])
  BY <1>2, <1>3, TurnsTyped
<1>. QED BY <1>1, <1>3, <1>4

(* What a switch from one thread to another does to the bindings *)
Handed(t) ==
  LET pdl  == specpdl[current_thread]
      vals == Values(kind, sym)
      more == specpdl'[t]
      now  == Values(kind', sym')
  IN /\ sym'.local = sym.local /\ sym'.auto = sym.auto
     /\ \A u \in Thread : u \notin {current_thread, t} => specpdl'[u] = specpdl[u]
     /\ \A u \in Thread : Len(specpdl'[u]) = Len(specpdl[u])
     /\ \A d \in Cells : BelowIn(now, more, d, 1) = BelowIn(vals, pdl, d, 1)
     /\ \A i \in 1 .. Len(pdl) :
          Holds(specpdl'[current_thread][i], pdl[i], BelowIn(vals, pdl, CellOf(pdl[i]), i + 1))
     /\ \A i \in 1 .. Len(specpdl[t]) :
          /\ more[i].kind = specpdl[t][i].kind /\ more[i].where = specpdl[t][i].where
          /\ BelowIn(now, more, CellOf(specpdl[t][i]), i + 1) = specpdl[t][i].old_value

LEMMA IntactBoth ==
  ASSUME NEW e, NEW f, NEW L, f.kind = e.kind, f.where = e.where, Intact(e, L)
  PROVE  Intact(f, L)
BY DEF Intact

LEMMA SwitchIInv ==
  ASSUME IInv, NEW t \in Thread, SwitchThread(t)
  PROVE  IInv' /\ (~broken => Handed(t))
<1>. DEFINE c   == current_thread
            pdl == specpdl[c]
            out == TakenOut(c)
            in  == rebind_for_thread_switch(out.sym, specpdl[t])
<1>1. /\ t # c /\ current_thread' = t
      /\ specpdl' = [specpdl EXCEPT ![c] = out.pdl, ![t] = in.pdl]
      /\ sym' = set_buffer_internal_2(in.sym, buffer[t], buffer[t])
      /\ UNCHANGED <<kind, buffer, live, broken>>
  BY DEF SwitchThread
<1>2. out = unbind_for_thread_switch(sym, pdl)
  BY DEF TakenOut
<1>. HIDE DEF out
<1>3. Exchanged(sym, pdl, out)
  BY <1>2, Typed, Unrewound
<1>4. specpdl[t] \in Seq(Entry) /\ in = rebind_for_thread_switch(out.sym, specpdl[t])
  BY Typed
<1>. HIDE DEF in
<1>5. Exchanged(out.sym, specpdl[t], in)
  BY <1>3, <1>4, Typed, Unrewound DEF Exchanged
<1>6. Well(kind, live, sym') /\ Same(kind, in.sym, sym')
  BY <1>1, <1>5, Typed, BufferSet DEF Exchanged
<1>7. sym'.local = sym.local /\ sym'.auto = sym.auto /\ Values(kind', sym') = Values(kind, in.sym)
  BY <1>1, <1>3, <1>5, <1>6 DEF Exchanged, Same
<1>8. /\ specpdl' \in [Thread -> Seq(Entry)]
      /\ specpdl'[c] = out.pdl /\ specpdl'[t] = in.pdl
      /\ \A u \in Thread : u \notin {c, t} => specpdl'[u] = specpdl[u]
  BY <1>1, <1>3, <1>5, Typed DEF Exchanged
<1>9. \A u \in Thread : Len(specpdl'[u]) = Len(specpdl[u])
  <2>. TAKE u \in Thread
  <2>1. CASE u \notin {c, t}
    BY <1>8, <2>1
  <2>2. CASE u = c
    BY <1>3, <1>8, <2>2 DEF Exchanged
  <2>3. CASE u = t
    BY <1>5, <1>8, <2>3 DEF Exchanged
  <2>. QED BY <2>1, <2>2, <2>3
<1>10. ASSUME ~broken
       PROVE  /\ \A d \in Cells : Values(kind, out.sym)[d] = BelowIn(Values(kind, sym), pdl, d, 1)
              /\ \A i \in 1 .. Len(pdl) :
                   Holds(out.pdl[i], pdl[i], BelowIn(Values(kind, sym), pdl, CellOf(pdl[i]), i + 1))
              /\ \A d \in Cells : BelowIn(Values(kind, in.sym), in.pdl, d, 1) = Values(kind, out.sym)[d]
              /\ \A i \in 1 .. Len(specpdl[t]) :
                   /\ in.pdl[i].kind = specpdl[t][i].kind /\ in.pdl[i].where = specpdl[t][i].where
                   /\ BelowIn(Values(kind, in.sym), in.pdl, CellOf(specpdl[t][i]), i + 1)
                        = specpdl[t][i].old_value
  <2>1. AllIntact(pdl, sym.local) /\ AllIntact(specpdl[t], out.sym.local)
    BY <1>3, <1>10, Typed DEF Exchanged
  <2>2. Well(kind, live, out.sym)
    BY <1>3 DEF Exchanged
  <2>. QED BY <1>2, <1>4, <2>1, <2>2, Typed, TakesOut, PutsBack
<1>11. ~broken => Handed(t)
  BY <1>7, <1>8, <1>9, <1>10 DEF Handed
<1>12. ASSUME ~broken, NEW u \in Thread, NEW i \in DOMAIN specpdl'[u]
       PROVE  Intact(specpdl'[u][i], sym'.local)
  <2>1. i \in 1 .. Len(specpdl[u])
    BY <1>8, <1>9, LenProperties
  <2>2. Intact(specpdl[u][i], sym'.local)
    BY <1>7, <1>12, <2>1, Typed DEF AllIntact
  <2>3. specpdl'[u][i].kind = specpdl[u][i].kind /\ specpdl'[u][i].where = specpdl[u][i].where
    <3>1. CASE u \notin {c, t}
      BY <1>8, <3>1
    <3>2. CASE u = c
      BY <1>8, <1>10, <1>12, <2>1, <3>2 DEF Holds
    <3>3. CASE u = t
      BY <1>8, <1>10, <1>12, <2>1, <3>3
    <3>. QED BY <3>1, <3>2, <3>3
  <2>. QED BY <2>2, <2>3, IntactBoth
<1>13. IInv'
  BY <1>1, <1>6, <1>8, <1>12, Typed DEF IInv
<1>. QED BY <1>11, <1>13

-------------------------------------------------------------------------------

LEMMA NextIInv == IInv /\ [Next]_vars => IInv'
<1>. SUFFICES ASSUME IInv, [Next]_vars
              PROVE  IInv'
  OBVIOUS
<1>1. CASE UNCHANGED vars
  BY <1>1 DEF vars, IInv
<1>2. ASSUME NEW v \in Value, Let(v) \/ Set(v) \/ SetDefault(v) \/ AssignInC(v)
      PROVE  IInv'
  BY <1>2, LetIInv, SetIInv, SetDefaultIInv, AssignInCIInv
<1>3. CASE Unbind \/ AskValue
  BY <1>3, UnbindIInv, AskValueIInv
<1>4. CASE make_variable_buffer_local \/ make_local_variable \/ kill_local_variable
  BY <1>4, MakeAutoIInv, MakeLocalIInv, KillLocalIInv
<1>5. ASSUME NEW b \in Buffer, AskIn(b) \/ KillBuffer(b) \/ set_buffer(b)
      PROVE  IInv'
  BY <1>5, AskInIInv, KillBufferIInv, SetBufferIInv
<1>6. ASSUME NEW t \in Thread, SwitchThread(t)
      PROVE  IInv'
  BY <1>6, SwitchIInv
<1>. QED BY <1>1, <1>2, <1>3, <1>4, <1>5, <1>6 DEF Next

LEMMA IInvTypeOK == IInv => TypeOK
<1>. SUFFICES ASSUME IInv
              PROVE  TypeOK
  OBVIOUS
<1>1. \A t \in Thread : buffer[t] \in live
  BY DEF IInv
<1>2. Well(kind, live, sym)
  BY DEF IInv
<1>. QED BY <1>1, <1>2 DEF Well, TypeOK, PerBuffer, fwd

LEMMA AlwaysIInv == Spec => []IInv
BY InitIInv, NextIInv, PTL DEF Spec

(* What is loaded in the symbol is always the cell it should be: after any   *)
(* lookup, let, end of a let, setting, killing and switch of threads.        *)
THEOREM TypeCorrect == Spec => []TypeOK
BY AlwaysIInv, IInvTypeOK, PTL

-------------------------------------------------------------------------------
(* The promise's variables, in terms of the values of the cells *)

In(e) == IF e.kind = "LET_DEFAULT" THEN e.where ELSE Nil
FrameOf(e, v) == [cell |-> CellOf(e), in |-> In(e), value |-> v]

OutsideOf(vals, pdl) == [c \in Cells |-> BelowIn(vals, pdl, c, 1)]

Running(vals, pdl) ==
  [i \in DOMAIN pdl |-> FrameOf(pdl[i], BelowIn(vals, pdl, CellOf(pdl[i]), i + 1))]
Waiting(pdl) == [i \in DOMAIN pdl |-> FrameOf(pdl[i], pdl[i].old_value)]

LetsFor(vals, pdls, running) ==
  [t \in Thread |-> IF t = running THEN Running(vals, pdls[t]) ELSE Waiting(pdls[t])]

View ==
  /\ Outside = OutsideOf(Values(kind, sym), specpdl[current_thread])
  /\ Lets = LetsFor(Values(kind, sym), specpdl, current_thread)

LEMMA IntactCell ==
  ASSUME NEW e \in Entry, NEW L, Intact(e, L)
  PROVE  CellOf(e) \in Cells /\ (CellOf(e) = Default \/ CellOf(e) \in L)
BY CellType DEF Intact, CellOf

LEMMA Viewed == IInv /\ ~broken => View
<1>. SUFFICES ASSUME IInv, ~broken
              PROVE  View
  OBVIOUS
<1>. DEFINE vals == Values(kind, sym)
            pdl == specpdl[current_thread]
<1>1. /\ pdl \in Seq(Entry) /\ DOMAIN pdl = 1 .. Len(pdl) /\ sym.local \subseteq Buffer
      /\ current_thread \in Thread
  BY Typed, LenProperties DEF Well
<1>2. \A t \in Thread : \A i \in DOMAIN specpdl[t] :
        specpdl[t][i] \in Entry /\ Intact(specpdl[t][i], sym.local)
  BY LenProperties, ElementOfSeq DEF IInv
<1>3. ASSUME NEW c \in Cells, c = Default \/ c \in sym.local, NEW n
      PROVE  Below(c, n) = BelowIn(vals, pdl, c, n)
  <2>1. Later(c, n) = LaterIn(pdl, c, n)
    BY DEF Later, LaterIn
  <2>2. vals[c] = Truth(c)
    BY <1>3 DEF Values, ValueIn, Truth, PerBuffer, fwd
  <2>. HIDE DEF vals
  <2>. QED BY <2>1, <2>2 DEF Below, BelowIn, FirstOf
<1>4. ASSUME NEW c \in Cells, c # Default, c \notin sym.local
      PROVE  BelowIn(vals, pdl, c, 1) = Nil
  <2>1. vals[c] = Nil
    BY <1>4 DEF Values
  <2>2. \A i \in DOMAIN pdl : CellOf(pdl[i]) # c
    BY <1>1, <1>2, <1>4, IntactCell
  <2>3. LaterIn(pdl, c, 1) = {}
    BY <2>2 DEF LaterIn
  <2>. QED BY <2>1, <2>3 DEF BelowIn, FirstOf
<1>5. Outside = OutsideOf(vals, pdl)
  <2>. DEFINE At(c) == IF c = Default \/ c \in sym.local THEN Below(c, 1) ELSE Nil
  <2>1. Outside = [c \in Cells |-> At(c)]
    BY DEF Outside, Cells
  <2>2. \A c \in Cells : At(c) = BelowIn(vals, pdl, c, 1)
    BY <1>3, <1>4
  <2>. HIDE DEF At, vals
  <2>. QED BY <2>1, <2>2 DEF OutsideOf
<1>6. Lets = LetsFor(vals, specpdl, current_thread)
  <2>. DEFINE At(t, i) == IF t = current_thread THEN Below(CellOf(specpdl[t][i]), i + 1)
                          ELSE specpdl[t][i].old_value
              Of(t) == IF t = current_thread THEN Running(vals, specpdl[t]) ELSE Waiting(specpdl[t])
  <2>1. Lets = [t \in Thread |-> [i \in DOMAIN specpdl[t] |-> FrameOf(specpdl[t][i], At(t, i))]]
    BY DEF Lets, FrameOf, In
  <2>2. ASSUME NEW t \in Thread
        PROVE  [i \in DOMAIN specpdl[t] |-> FrameOf(specpdl[t][i], At(t, i))] = Of(t)
    <3>1. CASE t = current_thread
      <4>1. \A i \in DOMAIN pdl : At(t, i) = BelowIn(vals, pdl, CellOf(pdl[i]), i + 1)
        BY <1>1, <1>2, <1>3, <3>1, IntactCell
      <4>. HIDE DEF At, vals
      <4>. QED BY <3>1, <4>1 DEF Running
    <3>2. CASE t # current_thread
      BY <3>2 DEF Waiting
    <3>. QED BY <3>1, <3>2
  <2>. HIDE DEF At, Of
  <2>3. Lets = [t \in Thread |-> Of(t)]
    BY <2>1, <2>2
  <2>. QED BY <2>3 DEF Of, LetsFor
<1>. QED BY <1>5, <1>6 DEF View

LEMMA ViewedNext == IInv' /\ ~broken' => View'
BY Viewed, PTL

-------------------------------------------------------------------------------
(* What becomes of the view *)

(* The value of one cell changes and the bindings do not: either its value   *)
(* outside of all lets becomes V, or what let M binds.                       *)
Rebased(vals, now, pdl, c, v) ==
  /\ OutsideOf(now, pdl) = [OutsideOf(vals, pdl) EXCEPT ![c] = v]
  /\ Running(now, pdl) = Running(vals, pdl)

Reframed(vals, now, pdl, m, v) ==
  /\ OutsideOf(now, pdl) = OutsideOf(vals, pdl)
  /\ Running(now, pdl) = [Running(vals, pdl) EXCEPT ![m].value = v]

LEMMA BaseAssigned ==
  ASSUME NEW N \in Nat, NEW pdl, DOMAIN pdl = 1 .. N, \A i \in 1 .. N : CellOf(pdl[i]) \in Cells,
         NEW vals, NEW now, NEW c \in Cells, NEW v, now[c] = v,
         \A d \in Cells : d # c => now[d] = vals[d], LaterIn(pdl, c, 1) = {}
  PROVE  Rebased(vals, now, pdl, c, v)
<1>1. \A d \in Cells : BelowIn(now, pdl, d, 1) = IF d = c THEN v ELSE BelowIn(vals, pdl, d, 1)
  BY BelowAssigned
<1>2. OutsideOf(now, pdl) = [OutsideOf(vals, pdl) EXCEPT ![c] = v]
  BY <1>1 DEF OutsideOf
<1>3. ASSUME NEW i \in 1 .. N
      PROVE  BelowIn(now, pdl, CellOf(pdl[i]), i + 1) = BelowIn(vals, pdl, CellOf(pdl[i]), i + 1)
  <2>1. i >= 1
    OBVIOUS
  <2>2. CellOf(pdl[i]) # c
    BY <2>1 DEF LaterIn
  <2>. QED BY <2>2, BelowAssigned
<1>4. Running(now, pdl) = Running(vals, pdl)
  BY <1>3 DEF Running
<1>. QED BY <1>2, <1>4 DEF Rebased

LEMMA FrameAssigned ==
  ASSUME NEW N \in Nat, NEW pdl, DOMAIN pdl = 1 .. N, \A i \in 1 .. N : CellOf(pdl[i]) \in Cells,
         NEW vals, NEW now, NEW c \in Cells, NEW v, now[c] = v,
         \A d \in Cells : d # c => now[d] = vals[d],
         NEW m \in LaterIn(pdl, c, 1), \A j \in LaterIn(pdl, c, 1) : j <= m
  PROVE  Reframed(vals, now, pdl, m, v)
<1>1. m \in 1 .. N /\ CellOf(pdl[m]) = c
  BY DEF LaterIn
<1>2. \A d \in Cells : BelowIn(now, pdl, d, 1) = BelowIn(vals, pdl, d, 1)
  <2>1. LaterIn(pdl, c, 1) # {}
    OBVIOUS
  <2>. QED BY <2>1, BelowAssigned
<1>3. OutsideOf(now, pdl) = OutsideOf(vals, pdl)
  BY <1>2 DEF OutsideOf
<1>4. ASSUME NEW i \in 1 .. N
      PROVE  BelowIn(now, pdl, CellOf(pdl[i]), i + 1)
               = IF i = m THEN v ELSE BelowIn(vals, pdl, CellOf(pdl[i]), i + 1)
  <2>. DEFINE d == CellOf(pdl[i])
  <2>0. BelowIn(now, pdl, d, i + 1)
          = IF d = c /\ LaterIn(pdl, c, i + 1) = {} THEN v ELSE BelowIn(vals, pdl, d, i + 1)
    <3>1. d \in Cells
      OBVIOUS
    <3>. HIDE DEF d
    <3>. QED BY <3>1, BelowAssigned
  <2>1. CASE i = m
    <3>1. \A j \in LaterIn(pdl, c, m + 1) : j \in LaterIn(pdl, c, 1) /\ j >= m + 1
      BY <1>1 DEF LaterIn
    <3>2. \A j \in 1 .. N : ~(j <= m /\ j >= m + 1)
      BY <1>1
    <3>3. LaterIn(pdl, c, m + 1) \subseteq 1 .. N
      BY DEF LaterIn
    <3>4. LaterIn(pdl, c, m + 1) = {}
      BY <3>1, <3>2, <3>3
    <3>. QED BY <1>1, <2>0, <2>1, <3>4
  <2>2. CASE i # m /\ CellOf(pdl[i]) # c
    BY <2>0, <2>2
  <2>3. CASE i # m /\ CellOf(pdl[i]) = c
    <3>1. i \in LaterIn(pdl, c, 1)
      BY <2>3 DEF LaterIn
    <3>2. i <= m
      BY <3>1
    <3>3. m >= i + 1
      BY <1>1, <2>3, <3>2
    <3>4. m \in LaterIn(pdl, c, i + 1)
      BY <1>1, <3>3 DEF LaterIn
    <3>. QED BY <2>0, <2>3, <3>4
  <2>. QED BY <2>1, <2>2, <2>3
<1>5. Running(now, pdl) = [Running(vals, pdl) EXCEPT ![m].value = v]
  <2>. DEFINE Was(i) == FrameOf(pdl[i], BelowIn(vals, pdl, CellOf(pdl[i]), i + 1))
  <2>1. \A i \in 1 .. N : FrameOf(pdl[i], BelowIn(now, pdl, CellOf(pdl[i]), i + 1))
                            = IF i = m THEN [Was(i) EXCEPT !.value = v] ELSE Was(i)
    BY <1>4 DEF FrameOf
  <2>. HIDE DEF Was
  <2>2. Running(vals, pdl) = [i \in 1 .. N |-> Was(i)]
    BY DEF Running, Was
  <2>3. Running(now, pdl) = [i \in 1 .. N |-> IF i = m THEN [Was(i) EXCEPT !.value = v] ELSE Was(i)]
    BY <2>1 DEF Running
  <2>. QED BY <1>1, <2>2, <2>3
<1>. QED BY <1>3, <1>5 DEF Reframed

(* A binding is pushed, or popped: MORE is PDL with one more, which binds V. *)
Pushed(vals, pdl, now, more, v) ==
  LET N == Len(pdl) IN
  /\ OutsideOf(now, more) = OutsideOf(vals, pdl)
  /\ DOMAIN Running(vals, pdl) = 1 .. N /\ DOMAIN Running(now, more) = 1 .. N + 1
  /\ \A i \in 1 .. N : Running(now, more)[i] = Running(vals, pdl)[i]
  /\ Running(now, more)[N + 1] = FrameOf(more[N + 1], v)

LEMMA FramePushed ==
  ASSUME NEW N \in Nat, NEW pdl, DOMAIN pdl = 1 .. N, Len(pdl) = N, NEW more, DOMAIN more = 1 .. N + 1,
         \A i \in 1 .. N : more[i] = pdl[i] /\ CellOf(pdl[i]) \in Cells,
         NEW vals, NEW now, NEW c \in Cells, CellOf(more[N + 1]) = c, more[N + 1].old_value = vals[c],
         \A d \in Cells : d # c => now[d] = vals[d]
  PROVE  Pushed(vals, pdl, now, more, now[c])
<1>1. /\ \A n \in 1 .. N + 1, d \in Cells : BelowIn(now, more, d, n) = BelowIn(vals, pdl, d, n)
      /\ \A d \in Cells : BelowIn(now, more, d, N + 2) = now[d]
  BY BelowPushed
<1>2. 1 \in 1 .. N + 1 /\ N + 1 \in 1 .. N + 1 /\ (N + 1) + 1 = N + 2
      /\ \A i \in 1 .. N : i + 1 \in 1 .. N + 1 /\ i \in 1 .. N + 1
  OBVIOUS
<1>3. OutsideOf(now, more) = OutsideOf(vals, pdl)
  BY <1>1, <1>2 DEF OutsideOf
<1>4. \A i \in 1 .. N : Running(now, more)[i] = Running(vals, pdl)[i]
  BY <1>1, <1>2 DEF Running
<1>5. Running(now, more)[N + 1] = FrameOf(more[N + 1], now[c])
  BY <1>1, <1>2 DEF Running
<1>6. DOMAIN Running(vals, pdl) = 1 .. N /\ DOMAIN Running(now, more) = 1 .. N + 1
  BY DEF Running
<1>. QED BY <1>3, <1>4, <1>5, <1>6 DEF Pushed

-------------------------------------------------------------------------------
(* The promise, action by action *)

LEMMA Entries ==
  ASSUME IInv, ~broken
  PROVE  \A t \in Thread :
           /\ Len(specpdl[t]) \in Nat /\ DOMAIN specpdl[t] = 1 .. Len(specpdl[t])
           /\ \A i \in DOMAIN specpdl[t] :
                /\ specpdl[t][i] \in Entry /\ Intact(specpdl[t][i], sym.local)
                /\ CellOf(specpdl[t][i]) \in Cells
                /\ CellOf(specpdl[t][i]) = Default \/ CellOf(specpdl[t][i]) \in sym.local
<1>. TAKE t \in Thread
<1>1. specpdl[t] \in Seq(Entry) /\ AllIntact(specpdl[t], sym.local)
  BY Typed
<1>2. /\ Len(specpdl[t]) \in Nat /\ DOMAIN specpdl[t] = 1 .. Len(specpdl[t])
      /\ \A i \in DOMAIN specpdl[t] : specpdl[t][i] \in Entry /\ Intact(specpdl[t][i], sym.local)
  BY <1>1, LenProperties, ElementOfSeq DEF AllIntact
<1>. QED BY <1>2, IntactCell

LEMMA LetsOfThread ==
  ASSUME IInv, ~broken, NEW t \in Thread, NEW c
  PROVE  Promise!LetsOf(t, c) = {i \in DOMAIN specpdl[t] : CellOf(specpdl[t][i]) = c}
<1>1. DOMAIN Lets[t] = DOMAIN specpdl[t]
  BY DEF Lets
<1>2. \A i \in DOMAIN specpdl[t] : Lets[t][i].cell = CellOf(specpdl[t][i])
  BY DEF Lets
<1>. QED BY <1>1, <1>2 DEF Promise!LetsOf

LEMMA LetsOfRunning ==
  ASSUME IInv, ~broken, NEW c
  PROVE  Promise!LetsOf(current_thread, c) = LaterIn(specpdl[current_thread], c, 1)
<1>. DEFINE pdl == specpdl[current_thread]
<1>1. DOMAIN pdl = 1 .. Len(pdl)
  BY Typed, Entries
<1>2. \A i \in DOMAIN pdl : i >= 1
  BY <1>1
<1>3. Promise!LetsOf(current_thread, c) = {i \in DOMAIN pdl : CellOf(pdl[i]) = c}
  BY Typed, LetsOfThread
<1>. QED BY <1>2, <1>3 DEF LaterIn

(* The innermost let of a cell that has one *)
LEMMA InnermostIs ==
  ASSUME IInv, ~broken, NEW c, NEW later, later = LaterIn(specpdl[current_thread], c, 1), later # {}
  PROVE  /\ Promise!Innermost(current_thread, c) \in later
         /\ \A j \in later : j <= Promise!Innermost(current_thread, c)
<1>1. later \subseteq 1 .. Len(specpdl[current_thread]) /\ Len(specpdl[current_thread]) \in Nat
  BY Typed, Entries DEF LaterIn
<1>2. \E i \in later : \A j \in later : j <= i
  BY <1>1, GreatestIndex
<1>3. Promise!Innermost(current_thread, c) = CHOOSE i \in later : \A j \in later : j <= i
  BY LetsOfRunning DEF Promise!Innermost
<1>. QED BY <1>2, <1>3

LEMMA OutsideAt ==
  ASSUME IInv, ~broken, NEW b \in Buffer
  PROVE  (Outside[b] = Nil) <=> b \notin sym.local
<1>. DEFINE vals == Values(kind, sym)
            pdl == specpdl[current_thread]
            later == LaterIn(pdl, b, 1)
<1>1. b \in Cells /\ Outside[b] = BelowIn(vals, pdl, b, 1)
  BY Viewed DEF View, OutsideOf, Cells
<1>2. CASE b \in sym.local
  <2>1. vals[b] \in Value
    BY <1>1, <1>2, Typed, ValuesType
  <2>2. \A i \in DOMAIN pdl : pdl[i].old_value \in Value
    <3>. TAKE i \in DOMAIN pdl
    <3>1. pdl[i] \in Entry /\ pdl[i].kind # "NOP"
      BY Typed, Entries DEF Intact
    <3>. QED BY <3>1, EntryParts
  <2>3. later # {} => (CHOOSE i \in later : \A j \in later : i <= j) \in DOMAIN pdl
    <3>1. later \subseteq DOMAIN pdl /\ DOMAIN pdl = 1 .. Len(pdl)
      BY Typed, Entries DEF LaterIn
    <3>. HIDE DEF later
    <3>2. later \subseteq Nat
      BY <3>1
    <3>. QED BY <3>1, <3>2, LeastNumber
  <2>. HIDE DEF vals, later
  <2>4. BelowIn(vals, pdl, b, 1) \in Value
    BY <2>1, <2>2, <2>3 DEF BelowIn, FirstOf, later
  <2>. QED BY <1>1, <1>2, <2>4, Names
<1>3. CASE b \notin sym.local
  <2>1. Outside[b] = Nil
    BY <1>1, <1>3, Names DEF Outside
  <2>. QED BY <1>3, <2>1
<1>. QED BY <1>2, <1>3

LEMMA CellInIs ==
  ASSUME IInv, ~broken, NEW b \in Buffer
  PROVE  Promise!CellIn(b) = CellFor(sym, b)
BY OutsideAt DEF Promise!CellIn, CellFor

LEMMA ShadowedIs ==
  ASSUME IInv, ~broken
  PROVE  Promise!Shadowed(current_thread) <=> let_shadows_buffer_binding_p
<1>. DEFINE pdl == specpdl[current_thread]
<1>1. Promise!LetsOf(current_thread, Default) = {i \in DOMAIN pdl : CellOf(pdl[i]) = Default}
  BY Typed, LetsOfThread
<1>2. \A i \in DOMAIN pdl : Lets[current_thread][i].in = In(pdl[i])
  BY Typed DEF Lets, In
<1>3. buffer[current_thread] # Nil /\ buffer[current_thread] = current_buffer
  BY Typed, Names DEF current_buffer
<1>4. \A i \in DOMAIN pdl : /\ pdl[i].kind = "LET_DEFAULT" => CellOf(pdl[i]) = Default
                            /\ In(pdl[i]) = current_buffer <=>
                                 pdl[i].kind = "LET_DEFAULT" /\ pdl[i].where = current_buffer
  BY <1>3 DEF In, CellOf
<1>. QED BY <1>1, <1>2, <1>3, <1>4 DEF Promise!Shadowed, let_shadows_buffer_binding_p

(* The value of a cell without lets changes. *)
LEMMA BaseStep ==
  ASSUME IInv, ~broken, IInv', ~broken', UNCHANGED <<kind, current_thread, specpdl>>,
         NEW c \in Cells, LaterIn(specpdl[current_thread], c, 1) = {}, NEW v,
         Values(kind, sym') = [Values(kind, sym) EXCEPT ![c] = v]
  PROVE  Outside' = [Outside EXCEPT ![c] = v] /\ Lets' = Lets
<1>. DEFINE vals == Values(kind, sym)
            now  == Values(kind, sym')
            pdl  == specpdl[current_thread]
            N    == Len(pdl)
<1>1. N \in Nat /\ DOMAIN pdl = 1 .. N /\ \A i \in 1 .. N : CellOf(pdl[i]) \in Cells
  BY Typed, Entries
<1>2. now[c] = v /\ \A d \in Cells : d # c => now[d] = vals[d]
  BY DEF Values
<1>3. /\ Outside = OutsideOf(vals, pdl) /\ Lets = LetsFor(vals, specpdl, current_thread)
      /\ Outside' = OutsideOf(now, pdl) /\ Lets' = LetsFor(now, specpdl, current_thread)
  BY Viewed, ViewedNext DEF View
<1>. HIDE DEF vals, now
<1>6. LaterIn(pdl, c, 1) = {}
  OBVIOUS
<1>. HIDE DEF N, pdl
<1>4. Rebased(vals, now, pdl, c, v)
  BY <1>1, <1>2, <1>6, BaseAssigned
<1>5. LetsFor(now, specpdl, current_thread) = LetsFor(vals, specpdl, current_thread)
  BY <1>4 DEF LetsFor, Rebased, pdl
<1>. QED BY <1>3, <1>4, <1>5 DEF Rebased

LEMMA SameStep ==
  ASSUME IInv, ~broken, IInv', ~broken', UNCHANGED <<kind, current_thread, specpdl>>,
         Values(kind, sym') = Values(kind, sym)
  PROVE  Outside' = Outside /\ Lets' = Lets
BY Viewed, ViewedNext DEF View

LEMMA AssignStep ==
  ASSUME IInv, ~broken, IInv', ~broken', UNCHANGED <<kind, current_thread, specpdl>>,
         NEW c \in Cells, NEW v, Put(kind, sym, sym', c, v)
  PROVE  Promise!Assign(current_thread, c, v)
<1>. DEFINE vals == Values(kind, sym)
            now  == Values(kind, sym')
            pdl  == specpdl[current_thread]
            N    == Len(pdl)
            t    == current_thread
            m    == Promise!Innermost(t, c)
<1>1. Values(kind, sym') = [Values(kind, sym) EXCEPT ![c] = v]
  BY DEF Put
<1>2. CASE LaterIn(pdl, c, 1) = {}
  <2>1. Promise!LetsOf(t, c) = {}
    BY <1>2, LetsOfRunning
  <2>2. Outside' = [Outside EXCEPT ![c] = v] /\ Lets' = Lets
    BY <1>1, <1>2, BaseStep
  <2>. QED BY <2>1, <2>2 DEF Promise!Assign
<1>3. CASE LaterIn(pdl, c, 1) # {}
  <2>1. Promise!LetsOf(t, c) # {}
    BY <1>3, LetsOfRunning
  <2>2. m \in LaterIn(pdl, c, 1) /\ \A j \in LaterIn(pdl, c, 1) : j <= m
    BY <1>3, InnermostIs
  <2>. HIDE DEF m
  <2>3. /\ N \in Nat /\ DOMAIN pdl = 1 .. N /\ (\A i \in 1 .. N : CellOf(pdl[i]) \in Cells)
        /\ t \in Thread
    BY Typed, Entries
  <2>4. now[c] = v /\ \A d \in Cells : d # c => now[d] = vals[d]
    BY <1>1 DEF Values
  <2>5. /\ Outside = OutsideOf(vals, pdl) /\ Lets = LetsFor(vals, specpdl, t)
        /\ Outside' = OutsideOf(now, pdl) /\ Lets' = LetsFor(now, specpdl, t)
    BY Viewed, ViewedNext DEF View
  <2>. HIDE DEF vals, now, N, pdl
  <2>6. Reframed(vals, now, pdl, m, v)
    BY <2>2, <2>3, <2>4, FrameAssigned
  <2>. HIDE DEF t
  <2>7. LetsFor(now, specpdl, t) = [LetsFor(vals, specpdl, t) EXCEPT ![t][m].value = v]
    BY <2>3, <2>6 DEF Reframed, LetsFor, pdl, t
  <2>8. Outside' = Outside /\ Lets' = [Lets EXCEPT ![t][m].value = v]
    BY <2>5, <2>6, <2>7 DEF Reframed
  <2>. QED BY <2>1, <2>8 DEF Promise!Assign, m, t
<1>. QED BY <1>2, <1>3

(* A buffer that has no value of its own, or whose value no let has bound *)
LEMMA NoLets ==
  ASSUME IInv, ~broken, NEW b \in Buffer, b \notin sym.local \/ ~Bound(b)
  PROVE  /\ \A t \in Thread : Promise!LetsOf(t, b) = {}
         /\ LaterIn(specpdl[current_thread], b, 1) = {}
<1>1. ASSUME NEW t \in Thread, NEW i \in DOMAIN specpdl[t]
      PROVE  CellOf(specpdl[t][i]) # b
  <2>1. CASE b \notin sym.local
    BY <2>1, Entries, Names
  <2>2. CASE ~Bound(b)
    BY <2>2, Names DEF Bound, CellOf
  <2>. QED BY <2>1, <2>2
<1>2. \A t \in Thread : Promise!LetsOf(t, b) = {}
  BY <1>1, LetsOfThread
<1>. QED BY <1>2, Typed, LetsOfRunning

LEMMA OwnStep ==
  ASSUME IInv, ~broken, IInv', ~broken', Unmoved, current_buffer \notin sym.local,
         NEW v, PutNew(kind, sym, sym', current_buffer, v)
  PROVE  Promise!Own(current_thread, v)
<1>1. current_buffer \in Buffer /\ current_buffer \in Cells
  BY Typed DEF Cells
<1>2. UNCHANGED <<kind, current_thread, specpdl>>
  BY DEF Unmoved
<1>3. LaterIn(specpdl[current_thread], current_buffer, 1) = {}
  BY <1>1, NoLets
<1>4. Values(kind, sym') = [Values(kind, sym) EXCEPT ![current_buffer] = v]
  BY DEF PutNew
<1>5. Outside' = [Outside EXCEPT ![current_buffer] = v] /\ Lets' = Lets
  BY <1>1, <1>2, <1>3, <1>4, BaseStep
<1>. QED BY <1>5 DEF Promise!Own, current_buffer

LEMMA DisownStep ==
  ASSUME IInv, ~broken, IInv', ~broken', UNCHANGED <<kind, current_thread, specpdl, buffer>>,
         NEW b \in Buffer, Removed(kind, sym, sym', b), ~Bound(b)
  PROVE  Promise!Disown(b)
<1>1. b \in Cells /\ Values(kind, sym') = [Values(kind, sym) EXCEPT ![b] = Nil]
  BY DEF Cells, Removed
<1>2. /\ LaterIn(specpdl[current_thread], b, 1) = {}
      /\ \A t \in Thread : Promise!LetsOf(t, b) = {}
  BY NoLets
<1>3. Outside' = [Outside EXCEPT ![b] = Nil] /\ Lets' = Lets
  BY <1>1, <1>2, BaseStep
<1>4. (sym.auto \/ PerBuffer)' = (sym.auto \/ PerBuffer)
  BY DEF Removed, PerBuffer
<1>. QED BY <1>2, <1>3, <1>4 DEF Promise!Disown, Promise!Unbound

(* The running thread's value of the default *)
LEMMA LookupDefault ==
  ASSUME IInv, ~broken
  PROVE  Promise!Lookup(current_thread, Default) = Values(kind, sym)[Default]
<1>. DEFINE vals == Values(kind, sym)
            pdl  == specpdl[current_thread]
            N    == Len(pdl)
            t    == current_thread
            later == LaterIn(pdl, Default, 1)
            m    == Promise!Innermost(t, Default)
<1>1. /\ N \in Nat /\ DOMAIN pdl = 1 .. N /\ t \in Thread /\ Default \in Cells
  BY Typed, Entries DEF Cells
<1>2. Outside = OutsideOf(vals, pdl) /\ Lets = LetsFor(vals, specpdl, t)
  BY Viewed DEF View
<1>3. Promise!LetsOf(t, Default) = later
  BY LetsOfRunning
<1>4. CASE later = {}
  <2>1. BelowIn(vals, pdl, Default, 1) = vals[Default]
    BY <1>4 DEF BelowIn, FirstOf
  <2>. HIDE DEF later
  <2>. QED BY <1>1, <1>2, <1>3, <1>4, <2>1 DEF OutsideOf, Promise!Lookup
<1>5. CASE later # {}
  <2>1. m \in later /\ \A j \in later : j <= m
    BY <1>5, InnermostIs
  <2>. HIDE DEF m
  <2>2. m \in 1 .. N /\ CellOf(pdl[m]) = Default
    BY <1>1, <2>1 DEF LaterIn
  <2>3. LaterIn(pdl, Default, m + 1) = {}
    <3>1. \A j \in LaterIn(pdl, Default, m + 1) : j \in 1 .. N /\ j >= m + 1 /\ j \in later
      BY <1>1, <2>2 DEF LaterIn
    <3>2. \A j \in 1 .. N : ~(j <= m /\ j >= m + 1)
      BY <2>2
    <3>. HIDE DEF later
    <3>. QED BY <2>1, <3>1, <3>2
  <2>4. BelowIn(vals, pdl, Default, m + 1) = vals[Default]
    BY <2>3 DEF BelowIn, FirstOf
  <2>5. Lets[t][m].value = BelowIn(vals, pdl, CellOf(pdl[m]), m + 1)
    <3>1. Lets[t] = Running(vals, pdl)
      BY <1>1, <1>2 DEF LetsFor
    <3>. HIDE DEF vals, pdl, t
    <3>. QED BY <1>1, <2>2, <3>1 DEF Running, FrameOf
  <2>. HIDE DEF later
  <2>. QED BY <1>3, <1>5, <2>2, <2>4, <2>5 DEF Promise!Lookup, m
<1>. QED BY <1>4, <1>5

LEMMA AutoSame ==
  ASSUME sym'.auto = sym.auto, kind' = kind
  PROVE  (sym.auto \/ PerBuffer)' = (sym.auto \/ PerBuffer)
BY DEF PerBuffer

(* A list with one more at its end *)
Listing(r, n) == r = [i \in 1 .. n |-> r[i]]

LEMMA OneMore ==
  ASSUME NEW N \in Nat, NEW r, Listing(r, N), NEW f, Listing(f, N + 1),
         \A i \in 1 .. N : f[i] = r[i], NEW g, g = f[N + 1]
  PROVE  f = Append(r, g) /\ r = SubSeq(f, 1, Len(f) - 1) /\ f # <<>>
<1>. DEFINE S == {f[i] : i \in 1 .. N + 1}
<1>1. (\A i \in 1 .. N + 1 : f[i] \in S) /\ N + 1 \in Nat /\ 1 .. N \subseteq 1 .. N + 1 /\ N + 1 \in 1 .. N + 1
  OBVIOUS
<1>. HIDE DEF S
<1>2. f \in [1 .. N + 1 -> S] /\ r \in [1 .. N -> S] /\ g \in S
  BY <1>1 DEF Listing
<1>3. f \in Seq(S) /\ r \in Seq(S) /\ Len(f) = N + 1 /\ Len(r) = N
  BY <1>1, <1>2
<1>4. f = Append(r, g)
  <2>1. /\ Append(r, g) \in Seq(S) /\ Len(Append(r, g)) = N + 1
        /\ \A i \in 1 .. N : Append(r, g)[i] = r[i]
        /\ Append(r, g)[N + 1] = g
    BY <1>2, <1>3, AppendProperties
  <2>2. \A i \in 1 .. N + 1 : i \in 1 .. N \/ i = N + 1
    OBVIOUS
  <2>3. \A i \in 1 .. N + 1 : f[i] = Append(r, g)[i]
    BY <2>1, <2>2
  <2>. QED BY <1>3, <2>1, <2>3, SeqEqual
<1>5. r = SubSeq(f, 1, Len(f) - 1)
  <2>1. Len(f) - 1 = N /\ 1 \in Int /\ N \in Int /\ (N - 1) + 1 = N /\ \A i \in 1 .. N : 1 + (i - 1) = i
    BY <1>3
  <2>2. \A i \in 1 .. N : f[i] \in S
    BY <1>1
  <2>3. /\ SubSeq(f, 1, N) \in Seq(S)
        /\ Len(SubSeq(f, 1, N)) = IF 1 <= N THEN (N - 1) + 1 ELSE 0
        /\ \A i \in 1 .. (N - 1) + 1 : SubSeq(f, 1, N)[i] = f[1 + (i - 1)]
    BY <2>1, <2>2, SubSeqProperties
  <2>4. Len(SubSeq(f, 1, N)) = N /\ \A i \in 1 .. N : SubSeq(f, 1, N)[i] = r[i]
    BY <2>1, <2>3
  <2>5. r = SubSeq(f, 1, N)
    BY <1>3, <2>3, <2>4, SeqEqual
  <2>. QED BY <2>1, <2>5
<1>6. f # <<>>
  BY <1>3
<1>. QED BY <1>4, <1>5, <1>6

LEMMA LetStep ==
  ASSUME IInv, ~broken, IInv', ~broken', NEW v \in Value, Let(v)
  PROVE  Promise!Let(current_thread, v)
<1>. DEFINE s == find_symbol_value(sym, current_buffer)
            e == BindingOf(s)
            c == CellOf(e)
            t == current_thread
            p == specpdl[t]
            q == Append(p, e)
            N == Len(p)
            vals == Values(kind, s)
            now  == Values(kind, sym')
<1>1. /\ Well(kind, live, s) /\ Same(kind, sym, s) /\ (s.localized => s.where = current_buffer)
      /\ Loaded(s, current_buffer) = Values(kind, s)[CellFor(s, current_buffer)]
  BY Typed, Found
<1>2. /\ sym' = do_specbind(s, e.kind, v) /\ specpdl' = [specpdl EXCEPT ![t] = q]
      /\ UNCHANGED <<kind, current_thread, buffer, live, broken>>
  BY DEF Let, specbind
<1>. HIDE DEF s
<1>3. /\ e \in Entry /\ Put(kind, s, sym', c, v)
      /\ c = CellFor(s, current_buffer) /\ e.old_value = vals[c]
      /\ e.kind = "LET_DEFAULT" => e.where = current_buffer
  BY <1>1, <1>2, Typed, SpecBound
<1>. HIDE DEF e
<1>4. c \in Cells /\ vals = Values(kind, sym) /\ s.local = sym.local /\ s.auto = sym.auto
  BY <1>1, <1>3, CellType DEF Same
<1>5. now[c] = v /\ \A d \in Cells : d # c => now[d] = vals[d]
  BY <1>3, <1>4 DEF Put, Values
<1>6. /\ t \in Thread /\ p \in Seq(Entry) /\ N \in Nat /\ DOMAIN p = 1 .. N
      /\ \A i \in 1 .. N : CellOf(p[i]) \in Cells
  BY Typed, Entries
<1>7. DOMAIN q = 1 .. N + 1 /\ q[N + 1] = e /\ \A i \in 1 .. N : q[i] = p[i]
  BY <1>3, <1>6, AppendProperties, LenProperties
<1>. HIDE DEF vals, now, c, p, q, N
<1>8. Pushed(vals, p, now, q, v)
  <2>1. /\ \A i \in 1 .. N : q[i] = p[i] /\ CellOf(p[i]) \in Cells
        /\ CellOf(q[N + 1]) = c /\ q[N + 1].old_value = vals[c]
    BY <1>3, <1>6, <1>7 DEF c
  <2>2. N = Len(p)
    BY DEF N
  <2>3. Pushed(vals, p, now, q, now[c])
    BY <1>4, <1>5, <1>6, <1>7, <2>1, <2>2, FramePushed
  <2>. QED BY <1>5, <2>3
<1>9. /\ Outside = OutsideOf(vals, p) /\ Lets = LetsFor(vals, specpdl, t)
      /\ Outside' = OutsideOf(now, q) /\ Lets' = LetsFor(now, specpdl', t)
      /\ specpdl'[t] = q /\ \A u \in Thread : u # t => specpdl'[u] = specpdl[u]
  BY <1>2, <1>4, <1>6, Typed, Viewed, ViewedNext DEF View, now, p
<1>10. Outside' = Outside
  BY <1>8, <1>9 DEF Pushed
<1>11. Running(now, q) = Append(Running(vals, p), FrameOf(e, v))
  <2>. DEFINE r == Running(vals, p)
              f == Running(now, q)
  <2>1. /\ DOMAIN r = 1 .. N /\ DOMAIN f = 1 .. N + 1 /\ f[N + 1] = FrameOf(e, v)
        /\ \A i \in 1 .. N : f[i] = r[i]
    BY <1>7, <1>8 DEF Pushed, N
  <2>2. Listing(f, N + 1) /\ Listing(r, N)
    BY <2>1 DEF Running, Listing
  <2>. HIDE DEF r, f
  <2>3. f = Append(r, FrameOf(e, v))
    BY <1>6, <2>1, <2>2, OneMore
  <2>. QED BY <2>3 DEF f, r
<1>12. Lets' = [Lets EXCEPT ![t] = Append(@, FrameOf(e, v))]
  <2>. HIDE DEF t
  <2>1. LetsFor(now, specpdl', t) = [LetsFor(vals, specpdl, t) EXCEPT ![t] = Append(Running(vals, p), FrameOf(e, v))]
    BY <1>6, <1>9, <1>11 DEF LetsFor
  <2>2. Lets[t] = Running(vals, p)
    BY <1>6, <1>9 DEF LetsFor, p
  <2>. QED BY <1>9, <2>1, <2>2
<1>13. FrameOf(e, v) = Promise!Frame(Promise!CellIn(current_buffer), In(e), v)
  <2>1. Promise!CellIn(current_buffer) = c
    <3>1. current_buffer \in Buffer
      BY Typed
    <3>. QED BY <1>3, <1>4, <3>1, CellInIs DEF CellFor
  <2>. QED BY <2>1 DEF FrameOf, Promise!Frame, c
<1>14. In(e) \in {Nil, buffer[t]} /\ buffer[t] = current_buffer
  BY <1>3 DEF In, current_buffer
<1>15. (sym.auto \/ PerBuffer)' = (sym.auto \/ PerBuffer)
  BY <1>2, <1>3, <1>4, AutoSame DEF Put
<1>. QED BY <1>2, <1>10, <1>12, <1>13, <1>14, <1>15 DEF Promise!Let

LEMMA UnbindStep ==
  ASSUME IInv, ~broken, IInv', ~broken', Unbind
  PROVE  Promise!Unbind(current_thread)
<1>. DEFINE t == current_thread
            q == specpdl[t]
            N == Len(q) - 1
            p == SubSeq(q, 1, N)
            e == q[Len(q)]
            c == CellOf(e)
            now  == Values(kind, sym)
            vals == Values(kind, sym')
            v == now[c]
<1>1. /\ q # <<>> /\ sym' = do_one_unbind(sym, e) /\ specpdl' = [specpdl EXCEPT ![t] = p]
      /\ UNCHANGED <<kind, current_thread, buffer, live, broken>>
  BY DEF Unbind, Front, Last
<1>2. /\ t \in Thread /\ q \in Seq(Entry) /\ Len(q) \in Nat \ {0} /\ DOMAIN q = 1 .. Len(q)
      /\ \A i \in 1 .. Len(q) : q[i] \in Entry /\ Intact(q[i], sym.local) /\ CellOf(q[i]) \in Cells
  BY <1>1, Typed, Entries, EmptySeq
<1>3. /\ N \in Nat /\ N + 1 = Len(q) /\ DOMAIN q = 1 .. N + 1 /\ e = q[N + 1]
      /\ \A i \in 1 .. N : i \in 1 .. Len(q)
  BY <1>2
<1>4. e \in Entry /\ Intact(e, sym.local) /\ c \in Cells
  BY <1>2
<1>5. Put(kind, sym, sym', c, e.old_value)
  <2>. HIDE DEF e
  <2>. QED BY <1>1, <1>4, Typed, Undone
<1>6. vals[c] = e.old_value /\ \A d \in Cells : d # c => now[d] = vals[d]
  BY <1>4, <1>5 DEF Put, Values
<1>7. /\ p \in Seq(Entry) /\ Len(p) = N /\ DOMAIN p = 1 .. N /\ \A i \in 1 .. N : q[i] = p[i]
  <2>1. 1 \in Int /\ N \in Int /\ (N - 1) + 1 = N /\ \A i \in 1 .. N : 1 + (i - 1) = i
    BY <1>3
  <2>2. \A i \in 1 .. N : q[i] \in Entry
    BY <1>2, <1>3
  <2>. HIDE DEF q, N
  <2>3. /\ p \in Seq(Entry) /\ Len(p) = IF 1 <= N THEN (N - 1) + 1 ELSE 0
        /\ \A i \in 1 .. (N - 1) + 1 : p[i] = q[1 + (i - 1)]
    BY <2>1, <2>2, SubSeqProperties
  <2>. HIDE DEF p
  <2>4. Len(p) = N /\ \A i \in 1 .. N : p[i] = q[i]
    BY <1>3, <2>1, <2>3
  <2>. QED BY <2>3, <2>4, LenProperties
<1>. HIDE DEF vals, now, c, p, q, N, e
<1>8. Pushed(vals, p, now, q, v)
  <2>1. /\ \A i \in 1 .. N : q[i] = p[i] /\ CellOf(p[i]) \in Cells
        /\ CellOf(q[N + 1]) = c /\ q[N + 1].old_value = vals[c]
    BY <1>2, <1>3, <1>6, <1>7 DEF c
  <2>. QED BY <1>3, <1>4, <1>6, <1>7, <2>1, FramePushed
<1>9. /\ Outside = OutsideOf(now, q) /\ Lets = LetsFor(now, specpdl, t)
      /\ Outside' = OutsideOf(vals, p) /\ Lets' = LetsFor(vals, specpdl', t)
      /\ specpdl'[t] = p /\ \A u \in Thread : u # t => specpdl'[u] = specpdl[u]
  BY <1>1, <1>2, Typed, Viewed, ViewedNext DEF View, now, vals, q
<1>10. Outside' = Outside
  BY <1>8, <1>9 DEF Pushed
<1>. DEFINE r == Running(vals, p)
            f == Running(now, q)
<1>11. r = SubSeq(f, 1, Len(f) - 1) /\ f # <<>>
  <2>1. /\ DOMAIN r = 1 .. N /\ DOMAIN f = 1 .. N + 1 /\ \A i \in 1 .. N : f[i] = r[i]
    BY <1>7, <1>8 DEF Pushed
  <2>2. Listing(f, N + 1) /\ Listing(r, N)
    BY <2>1 DEF Running, Listing
  <2>. HIDE DEF r, f
  <2>. QED BY <1>3, <2>1, <2>2, OneMore
<1>12. Lets[t] = f /\ Lets' = [Lets EXCEPT ![t] = r]
  <2>. HIDE DEF t
  <2>1. LetsFor(vals, specpdl', t) = [LetsFor(now, specpdl, t) EXCEPT ![t] = r]
    BY <1>2, <1>9 DEF LetsFor
  <2>2. Lets[t] = f
    BY <1>2, <1>9 DEF LetsFor, q
  <2>. QED BY <1>9, <2>1, <2>2
<1>13. Lets[t] # <<>> /\ Lets' = [Lets EXCEPT ![t] = SubSeq(@, 1, Len(@) - 1)]
  <2>. HIDE DEF r, f, t
  <2>. QED BY <1>11, <1>12
<1>14. (sym.auto \/ PerBuffer)' = (sym.auto \/ PerBuffer)
  BY <1>1, <1>5, AutoSame DEF Put
<1>. QED BY <1>1, <1>10, <1>13, <1>14 DEF Promise!Unbind

LEMMA SetStep ==
  ASSUME IInv, ~broken, IInv', ~broken', NEW v \in Value, Set(v)
  PROVE  Promise!Set(current_thread, v)
<1>. DEFINE b == current_buffer
            t == current_thread
            auto == sym.auto \/ PerBuffer
<1>1. Unmoved /\ UNCHANGED <<kind, current_thread, specpdl, buffer, live>>
  BY DEF Set, Sound, Unmoved
<1>2. Assigned(sym, sym', b, FALSE, v)
  BY SetIInv
<1>3. b \in Buffer /\ b = buffer[t]
  BY Typed DEF current_buffer
<1>4. /\ Outside[b] = Nil <=> b \notin sym.local
      /\ Promise!CellIn(b) = CellFor(sym, b)
      /\ Promise!Shadowed(t) <=> let_shadows_buffer_binding_p
  BY <1>3, OutsideAt, CellInIs, ShadowedIs
<1>5. Stays(sym, b, FALSE) <=> ~(b \notin sym.local /\ auto /\ ~let_shadows_buffer_binding_p)
  BY DEF Stays
<1>6. sym'.auto = sym.auto
  BY <1>2 DEF Assigned, Put, PutNew
<1>7. auto' = auto
  BY <1>1, <1>6, AutoSame
<1>8. CASE Stays(sym, b, FALSE)
  <2>1. Put(kind, sym, sym', CellFor(sym, b), v)
    BY <1>2, <1>8 DEF Assigned
  <2>2. CellFor(sym, b) \in Cells
    BY Typed, CellForType
  <2>3. Promise!Assign(t, CellFor(sym, b), v)
    BY <1>1, <2>1, <2>2, AssignStep
  <2>4. Promise!Assign(t, Promise!CellIn(b), v)
    BY <1>4, <2>3
  <2>5. ~(Outside[b] = Nil /\ auto /\ ~Promise!Shadowed(t))
    BY <1>4, <1>5, <1>8
  <2>. QED BY <1>1, <1>3, <1>7, <2>4, <2>5 DEF Promise!Set
<1>9. CASE ~Stays(sym, b, FALSE)
  <2>1. PutNew(kind, sym, sym', b, v)
    BY <1>2, <1>9 DEF Assigned
  <2>2. Outside[b] = Nil /\ auto /\ ~Promise!Shadowed(t) /\ b \notin sym.local
    BY <1>4, <1>5, <1>9
  <2>3. Promise!Own(t, v)
    BY <1>1, <2>1, <2>2, OwnStep
  <2>. QED BY <1>1, <1>3, <1>7, <2>2, <2>3 DEF Promise!Set
<1>. QED BY <1>8, <1>9

LEMMA SetDefaultStep ==
  ASSUME IInv, ~broken, IInv', ~broken', NEW v \in Value, SetDefault(v)
  PROVE  Promise!SetDefault(current_thread, v)
<1>1. UNCHANGED <<kind, current_thread, specpdl, buffer, live>>
  BY DEF SetDefault, Sound, Unmoved
<1>2. Put(kind, sym, sym', Default, v) /\ Default \in Cells
  BY SetDefaultIInv DEF Cells
<1>3. Promise!Assign(current_thread, Default, v)
  BY <1>1, <1>2, AssignStep
<1>4. (sym.auto \/ PerBuffer)' = (sym.auto \/ PerBuffer)
  BY <1>1, <1>2, AutoSame DEF Put
<1>. QED BY <1>1, <1>3, <1>4 DEF Promise!SetDefault

LEMMA AssignInCStep ==
  ASSUME IInv, ~broken, IInv', ~broken', NEW v \in Value, AssignInC(v)
  PROVE  Promise!Overwrite(current_thread, v)
<1>1. UNCHANGED <<kind, current_thread, specpdl, buffer, live>>
  BY DEF AssignInC, Unmoved
<1>2. Put(kind, sym, sym', CellFor(sym, current_buffer), v) /\ CellFor(sym, current_buffer) \in Cells
  BY AssignInCIInv, Typed, CellForType
<1>3. Promise!Assign(current_thread, CellFor(sym, current_buffer), v)
  BY <1>1, <1>2, AssignStep
<1>4. CellFor(sym, current_buffer) = Promise!CellIn(buffer[current_thread])
  BY Typed, CellInIs DEF current_buffer
<1>5. (sym.auto \/ PerBuffer)' = (sym.auto \/ PerBuffer)
  BY <1>1, <1>2, AutoSame DEF Put
<1>. QED BY <1>1, <1>3, <1>4, <1>5 DEF Promise!Overwrite

(* Nothing that can be seen *)
LEMMA SameSymbol ==
  ASSUME IInv, ~broken, IInv', ~broken', UNCHANGED <<kind, current_thread, specpdl>>,
         Same(kind, sym, sym')
  PROVE  Outside' = Outside /\ Lets' = Lets /\ (sym.auto \/ PerBuffer)' = (sym.auto \/ PerBuffer)
BY SameStep, AutoSame DEF Same

LEMMA AskStep ==
  ASSUME IInv, ~broken, IInv', ~broken', AskValue \/ \E b \in Buffer : AskIn(b)
  PROVE  UNCHANGED Promise!vars
<1>1. UNCHANGED <<kind, current_thread, specpdl, buffer, live>> /\ Same(kind, sym, sym')
  BY AskValueIInv, AskInIInv DEF AskValue, AskIn, Sound, Unmoved
<1>. QED BY <1>1, SameSymbol DEF Promise!vars

LEMMA MakeAutoStep ==
  ASSUME IInv, ~broken, IInv', ~broken', make_variable_buffer_local
  PROVE  Promise!MakeAutoLocal
<1>1. UNCHANGED <<kind, current_thread, specpdl, buffer, live>>
  BY DEF make_variable_buffer_local, Sound, Unmoved
<1>2. Values(kind, sym') = Values(kind, sym) /\ (PerBuffer \/ sym'.auto)
  BY MakeAutoIInv
<1>3. Outside' = Outside /\ Lets' = Lets
  BY <1>1, <1>2, SameStep
<1>4. sym'.auto \in BOOLEAN
  BY DEF IInv, Well, Symbols
<1>5. (sym.auto \/ PerBuffer)' = TRUE
  BY <1>1, <1>2, <1>4 DEF PerBuffer
<1>. QED BY <1>1, <1>3, <1>5 DEF Promise!MakeAutoLocal

LEMMA MakeLocalStep ==
  ASSUME IInv, ~broken, IInv', ~broken', make_local_variable
  PROVE  Promise!MakeLocal(current_thread) \/ UNCHANGED Promise!vars
<1>1. UNCHANGED <<kind, current_thread, specpdl, buffer, live>> /\ Unmoved
  BY DEF make_local_variable, Unmoved
<1>2. CASE current_buffer \in sym.local
  <2>1. Same(kind, sym, sym')
    BY <1>2, MakeLocalIInv
  <2>. QED BY <1>1, <2>1, SameSymbol DEF Promise!vars
<1>3. CASE current_buffer \notin sym.local
  <2>1. PutNew(kind, sym, sym', current_buffer, Values(kind, sym)[Default])
    BY <1>3, MakeLocalIInv
  <2>2. Promise!Own(current_thread, Values(kind, sym)[Default])
    BY <1>1, <1>3, <2>1, OwnStep
  <2>3. Promise!Own(current_thread, Promise!Lookup(current_thread, Default))
    BY <2>2, LookupDefault
  <2>4. Outside[buffer[current_thread]] = Nil
    BY <1>3, Typed, OutsideAt DEF current_buffer
  <2>5. (sym.auto \/ PerBuffer)' = (sym.auto \/ PerBuffer)
    BY <1>1, <2>1, AutoSame DEF PutNew
  <2>. QED BY <1>1, <2>3, <2>4, <2>5 DEF Promise!MakeLocal
<1>. QED BY <1>2, <1>3

LEMMA KillLocalStep ==
  ASSUME IInv, ~broken, IInv', ~broken', kill_local_variable
  PROVE  Promise!KillLocal(current_thread)
<1>. DEFINE b == current_buffer
<1>1. /\ broken' = (broken \/ Bound(b))
      /\ UNCHANGED <<kind, current_thread, specpdl, buffer, live>>
  BY DEF kill_local_variable, Unmoved
<1>2. ~Bound(b)
  <2>. HIDE DEF b
  <2>. QED BY <1>1 DEF Bound
<1>3. Removed(kind, sym, sym', b) /\ b \in Buffer
  BY Typed, KillLocalIInv
<1>4. Promise!Disown(b)
  BY <1>1, <1>2, <1>3, DisownStep
<1>. QED BY <1>1, <1>4 DEF Promise!KillLocal, current_buffer

LEMMA KillBufferStep ==
  ASSUME IInv, ~broken, IInv', ~broken', NEW b \in Buffer, KillBuffer(b)
  PROVE  Promise!KillBuffer(b)
<1>1. /\ UNCHANGED <<kind, current_thread, specpdl, buffer>> /\ ~Bound(b)
      /\ b \in live /\ live' = live \ {b}
  BY DEF KillBuffer
<1>2. Removed(kind, sym, sym', b)
  BY KillBufferIInv
<1>3. Promise!Disown(b)
  BY <1>1, <1>2, DisownStep
<1>. QED BY <1>1, <1>3 DEF Promise!KillBuffer

LEMMA SetBufferStep ==
  ASSUME IInv, ~broken, IInv', ~broken', NEW b \in Buffer, set_buffer(b)
  PROVE  Promise!SetBuffer(current_thread, b)
<1>1. /\ UNCHANGED <<kind, current_thread, specpdl, live>>
      /\ b \in live /\ buffer' = [buffer EXCEPT ![current_thread] = b]
  BY DEF set_buffer
<1>2. Same(kind, sym, sym')
  BY SetBufferIInv
<1>. QED BY <1>1, <1>2, SameSymbol DEF Promise!SetBuffer

(* What the old thread's bindings hold once they are taken out is what they  *)
(* had bound, and the new thread's have bound what they held.                *)
LEMMA SwitchStep ==
  ASSUME IInv, ~broken, IInv', ~broken', NEW t \in Thread, SwitchThread(t)
  PROVE  UNCHANGED Promise!vars
<1>. DEFINE c    == current_thread
            pdl  == specpdl[c]
            vals == Values(kind, sym)
            now  == Values(kind', sym')
<1>1. t # c /\ current_thread' = t /\ UNCHANGED <<kind, buffer, live>> /\ c \in Thread
  BY Typed DEF SwitchThread
<1>2. /\ sym'.auto = sym.auto
      /\ \A u \in Thread : u \notin {c, t} => specpdl'[u] = specpdl[u]
      /\ \A u \in Thread : Len(specpdl'[u]) = Len(specpdl[u])
      /\ \A d \in Cells : BelowIn(now, specpdl'[t], d, 1) = BelowIn(vals, pdl, d, 1)
      /\ \A i \in 1 .. Len(pdl) :
           Holds(specpdl'[c][i], pdl[i], BelowIn(vals, pdl, CellOf(pdl[i]), i + 1))
      /\ \A i \in 1 .. Len(specpdl[t]) :
           /\ specpdl'[t][i].kind = specpdl[t][i].kind /\ specpdl'[t][i].where = specpdl[t][i].where
           /\ BelowIn(now, specpdl'[t], CellOf(specpdl[t][i]), i + 1) = specpdl[t][i].old_value
  BY SwitchIInv DEF Handed
<1>3. \A u \in Thread : DOMAIN specpdl[u] = 1 .. Len(specpdl[u]) /\ DOMAIN specpdl'[u] = 1 .. Len(specpdl[u])
  BY <1>2, LenProperties DEF IInv
<1>4. /\ Outside = OutsideOf(vals, pdl) /\ Lets = LetsFor(vals, specpdl, c)
      /\ Outside' = OutsideOf(now, specpdl'[t]) /\ Lets' = LetsFor(now, specpdl', t)
  BY <1>1, Viewed, ViewedNext DEF View
<1>. HIDE DEF vals, now
<1>5. Outside' = Outside
  BY <1>2, <1>4 DEF OutsideOf
<1>6. Waiting(specpdl'[c]) = Running(vals, pdl)
  <2>1. ASSUME NEW i \in 1 .. Len(pdl)
        PROVE  FrameOf(specpdl'[c][i], specpdl'[c][i].old_value)
                 = FrameOf(pdl[i], BelowIn(vals, pdl, CellOf(pdl[i]), i + 1))
    <3>1. /\ specpdl'[c][i].kind = pdl[i].kind /\ specpdl'[c][i].where = pdl[i].where
          /\ specpdl'[c][i].old_value = BelowIn(vals, pdl, CellOf(pdl[i]), i + 1)
      BY <1>2 DEF Holds
    <3>2. CellOf(specpdl'[c][i]) = CellOf(pdl[i]) /\ In(specpdl'[c][i]) = In(pdl[i])
      BY <3>1 DEF CellOf, In
    <3>. QED BY <3>1, <3>2 DEF FrameOf
  <2>. QED BY <1>1, <1>3, <2>1 DEF Waiting, Running
<1>7. Running(now, specpdl'[t]) = Waiting(specpdl[t])
  <2>1. ASSUME NEW i \in 1 .. Len(specpdl[t])
        PROVE  FrameOf(specpdl'[t][i], BelowIn(now, specpdl'[t], CellOf(specpdl'[t][i]), i + 1))
                 = FrameOf(specpdl[t][i], specpdl[t][i].old_value)
    <3>1. CellOf(specpdl'[t][i]) = CellOf(specpdl[t][i]) /\ In(specpdl'[t][i]) = In(specpdl[t][i])
      BY <1>2 DEF CellOf, In
    <3>. QED BY <1>2, <3>1 DEF FrameOf
  <2>. QED BY <1>3, <2>1 DEF Waiting, Running
<1>8. Lets' = Lets
  <2>1. \A u \in Thread : (IF u = t THEN Running(now, specpdl'[u]) ELSE Waiting(specpdl'[u]))
                            = (IF u = c THEN Running(vals, specpdl[u]) ELSE Waiting(specpdl[u]))
    <3>. TAKE u \in Thread
    <3>1. CASE u = t
      BY <1>1, <1>7, <3>1
    <3>2. CASE u = c
      BY <1>1, <1>6, <3>2
    <3>3. CASE u \notin {c, t}
      BY <1>2, <3>3
    <3>. QED BY <3>1, <3>2, <3>3
  <2>. QED BY <1>4, <2>1 DEF LetsFor
<1>9. (sym.auto \/ PerBuffer)' = (sym.auto \/ PerBuffer)
  BY <1>1, <1>2, AutoSame
<1>. QED BY <1>1, <1>5, <1>8, <1>9 DEF Promise!vars

-------------------------------------------------------------------------------

LEMMA PromiseInit == Init => Promise!Init
<1>. SUFFICES ASSUME Init
              PROVE  Promise!Init
  OBVIOUS
<1>1. PICK v \in Value : sym = Symbol(v)
  BY DEF Init
<1>2. /\ current_thread \in Thread /\ live = Buffer /\ specpdl = [t \in Thread |-> <<>>]
      /\ \E b \in Buffer : buffer = [t \in Thread |-> b]
  BY DEF Init
<1>3. \A t \in Thread : specpdl[t] = <<>> /\ DOMAIN specpdl[t] = {}
  BY <1>2, EmptySeq
<1>4. \A c \in Cells, n \in Nat : Later(c, n) = {}
  BY <1>2, <1>3 DEF Later
<1>5. Outside = [c \in Buffer \union {Default} |-> IF c = Default THEN v ELSE Nil]
  <2>1. sym.local = {} /\ ~sym.localized
    BY <1>1 DEF Symbol
  <2>2. Truth(Default) = v
    <3>1. CASE PerBuffer
      BY <1>1, <3>1, Names DEF Symbol, Truth
    <3>2. CASE ~PerBuffer
      BY <1>1, <2>1, <3>2 DEF Symbol, Truth
    <3>. QED BY <3>1, <3>2
  <2>3. Below(Default, 1) = v
    BY <1>4, <2>2 DEF Below, Cells
  <2>. QED BY <2>1, <2>3 DEF Outside
<1>6. Lets = [t \in Thread |-> <<>>]
  <2>1. \A t \in Thread : Lets[t] = <<>>
    <3>. TAKE t \in Thread
    <3>1. DOMAIN Lets[t] = {}
      BY <1>3 DEF Lets
    <3>. QED BY <1>3, <3>1 DEF Lets
  <2>. QED BY <2>1 DEF Lets
<1>7. (sym.auto \/ PerBuffer) \in BOOLEAN
  OBVIOUS
<1>. QED BY <1>2, <1>5, <1>6, <1>7 DEF Promise!Init

LEMMA PromiseStep == IInv /\ IInv' /\ [Next]_vars => [broken' \/ Promise!Next]_(Promise!vars)
<1>. SUFFICES ASSUME IInv, IInv', [Next]_vars, ~broken'
              PROVE  Promise!Next \/ UNCHANGED Promise!vars
  OBVIOUS
<1>1. ~broken /\ current_thread \in Thread
  <2>1. broken => broken'
    BY DEF Next, vars, Let, Set, SetDefault, AssignInC, Unbind, AskValue, AskIn, Sound, KillBuffer,
       make_variable_buffer_local, make_local_variable, kill_local_variable, set_buffer, SwitchThread
  <2>. QED BY <2>1, Typed
<1>2. CASE UNCHANGED vars
  <2>1. Outside' = Outside /\ Lets' = Lets
    BY <1>1, <1>2, SameStep DEF vars
  <2>. QED BY <1>2, <2>1, AutoSame DEF vars, Promise!vars
<1>3. ASSUME NEW v \in Value, Let(v) \/ Set(v) \/ SetDefault(v) \/ AssignInC(v)
      PROVE  Promise!Next
  BY <1>1, <1>3, LetStep, SetStep, SetDefaultStep, AssignInCStep DEF Promise!Next
<1>4. CASE Unbind \/ AskValue
  BY <1>1, <1>4, UnbindStep, AskStep DEF Promise!Next
<1>5. CASE make_variable_buffer_local \/ make_local_variable \/ kill_local_variable
  BY <1>1, <1>5, MakeAutoStep, MakeLocalStep, KillLocalStep DEF Promise!Next
<1>6. ASSUME NEW b \in Buffer, AskIn(b) \/ KillBuffer(b) \/ set_buffer(b)
      PROVE  Promise!Next \/ UNCHANGED Promise!vars
  BY <1>1, <1>6, AskStep, KillBufferStep, SetBufferStep DEF Promise!Next
<1>7. ASSUME NEW t \in Thread, SwitchThread(t)
      PROVE  UNCHANGED Promise!vars
  BY <1>1, <1>7, SwitchStep
<1>. QED BY <1>2, <1>3, <1>4, <1>5, <1>6, <1>7 DEF Next

(* Shallow binding keeps the promise of deep binding: every let is seen by   *)
(* the thread that made it and by no other, and what it has shadowed comes   *)
(* back when it ends, whatever threads, buffers and values change in between *)
(* (specbind, unbind_to, set_internal, specpdl_unrewind and the loading of   *)
(* buffer-local values), until one of the three things the code does not     *)
(* provide for has happened.                                                 *)
THEOREM BindsPerThread == Spec => ImplementsDynamicBinding
<1>1. Spec => Promise!Init
  BY PromiseInit DEF Spec
<1>2. Spec => [][broken' \/ Promise!Next]_(Promise!vars)
  BY AlwaysIInv, PromiseStep, PTL DEF Spec
<1>. QED BY <1>1, <1>2 DEF ImplementsDynamicBinding

=============================================================================
