------------------------------- MODULE Specpdl -------------------------------
(***************************************************************************)
(* One Lisp variable as data.c and eval.c keep it: its current value in    *)
(* one place, what a let has shadowed on the binding stack (specpdl) of    *)
(* the thread that made it, and all bindings of a thread exchanged with    *)
(* the values they shadow when another thread takes over.  Buffer-local    *)
(* values are loaded into the symbol when they are first wanted.           *)
(*                                                                         *)
(* Setups give the kind of the variable: "plain" (SYMBOL_PLAINVAL at       *)
(* first), "forwarded" to a C variable, or "per_buffer", in a slot of      *)
(* every buffer.  The first two become SYMBOL_LOCALIZED when they are made *)
(* local anywhere.                                                         *)
(***************************************************************************)
EXTENDS Integers, Sequences, SequencesExt, FiniteSetsExt

CONSTANTS
  Thread, Buffer, Value,
  Default, Orphan, Nil,
  Kinds,      \* the kinds of variable that occur
  MaxDepth    \* bound: bindings on the stacks of all threads together

ASSUME SpecpdlAssumption ==
  /\ Kinds \subseteq {"plain", "forwarded", "per_buffer"}
  /\ MaxDepth \in Nat
  /\ {Default, Orphan, Nil} \intersect (Buffer \union Value) = {}
  /\ Default # Orphan

VARIABLES
  kind,
  sym,              \* the symbol, its Lisp_Buffer_Local_Value, and the buffers' values
  current_thread,
  buffer,           \* every thread's current_buffer
  specpdl,          \* every thread's bindings of the variable
  live,             \* the live buffers
  broken            \* history: the promise has been given up (see below)

vars == <<kind, sym, current_thread, buffer, specpdl, live, broken>>

current_buffer == buffer[current_thread]
PerBuffer == kind = "per_buffer"
fwd == kind = "forwarded"

(* The fields of sym: symval is SYMBOL_VAL, or the C variable; cell has the  *)
(* cars of the default and of the buffers' own values; local says who has    *)
(* one.  where and valcell are what is loaded; found is valcell # Default.   *)
(* Orphan is the cell of a killed buffer that is still loaded.               *)
Symbol(v) ==
  [localized |-> FALSE, auto |-> FALSE, symval |-> IF PerBuffer THEN Nil ELSE v,
   cell  |-> [c \in Buffer \union {Default, Orphan} |->
                IF PerBuffer /\ c # Orphan THEN v ELSE Nil],
   local |-> {}, where |-> Nil, valcell |-> Default]

-------------------------------------------------------------------------------
(* The binding that is loaded *)

(* The C variable is more recent than the cell it was loaded from. *)
WriteOut(s) == IF fwd THEN [s EXCEPT !.cell[s.valcell] = s.symval] ELSE s

Load(s, where, cell) ==
  [s EXCEPT !.where = where, !.valcell = cell, !.cell[Orphan] = Nil,
            !.symval = IF fwd THEN s.cell[cell] ELSE @]

swap_in_global_binding(s) == Load(WriteOut(s), Nil, Default)

swap_in_symval_forwarding(s, b) ==
  IF s.where = b THEN s ELSE Load(WriteOut(s), b, IF b \in s.local THEN b ELSE Default)

(* What find_symbol_value leaves, and what it returns *)
find_symbol_value(s, b) == IF s.localized THEN swap_in_symval_forwarding(s, b) ELSE s

Loaded(s, b) ==
  IF PerBuffer THEN s.cell[b]
  ELSE IF s.localized /\ ~fwd THEN s.cell[s.valcell] ELSE s.symval

default_value(s) ==
  IF PerBuffer \/ (s.localized /\ ~(fwd /\ s.valcell = Default)) THEN s.cell[Default]
  ELSE s.symval

local_variable_p(s, b) == IF s.localized /\ s.where = b THEN s.valcell # Default ELSE b \in s.local

(* buffer_local_value, which brings the cell that is loaded up to date *)
Consulted(s, b) == IF s.localized /\ b \in s.local THEN WriteOut(s) ELSE s
buffer_local_value(s, b) ==
  IF PerBuffer THEN s.cell[b]
  ELSE IF b \in s.local THEN Consulted(s, b).cell[b] ELSE default_value(s)

-------------------------------------------------------------------------------
(* Setting *)

set_default_internal(s, v) ==
  CASE PerBuffer   -> [s EXCEPT !.cell = [c \in DOMAIN s.cell |->
                          IF c = Default \/ c \in live \ s.local THEN v ELSE s.cell[c]]]
    [] s.localized -> [s EXCEPT !.cell[Default] = v,
                                !.symval = IF fwd /\ s.valcell = Default THEN v ELSE @]
    [] OTHER       -> [s EXCEPT !.symval = v]

(* The current buffer's let of the default value *)
let_shadows_buffer_binding_p ==
  \E i \in DOMAIN specpdl[current_thread] :
    /\ specpdl[current_thread][i].kind = "LET_DEFAULT"
    /\ specpdl[current_thread][i].where = current_buffer

Own(s, b, v) == [s EXCEPT !.local = @ \union {b}, !.cell[b] = v]

(* The cell of a buffer is loaded before it is set; a variable that becomes *)
(* local when it is set does so here, unless a let or its end sets it.      *)
Prepared(s, where, bindflag) ==
  LET stays == where \in s.local \/ bindflag \/ ~s.auto \/ let_shadows_buffer_binding_p
      owner == IF stays THEN s ELSE Own(s, where, s.cell[Default])
  IN [owner EXCEPT !.where = where, !.valcell = IF where \in owner.local THEN where ELSE Default,
                   !.cell[Orphan] = Nil]

StoreLoaded(s, v) == [s EXCEPT !.cell[s.valcell] = v, !.symval = IF fwd THEN v ELSE @]

SetLocalized(s, v, where, bindflag) ==
  StoreLoaded(IF s.where # where \/ s.valcell = Default
              THEN Prepared(WriteOut(s), where, bindflag) ELSE s, v)

SetPerBuffer(s, v, where, bindflag) ==
  [IF bindflag \/ where \in s.local THEN s
   ELSE IF let_shadows_buffer_binding_p THEN set_default_internal(s, v)
   ELSE Own(s, where, v) EXCEPT !.cell[where] = v]

(* bindflag: a let, its end or a switch of threads sets it, and not Lisp. *)
set_internal(s, v, where, bindflag) ==
  CASE PerBuffer   -> SetPerBuffer(s, v, where, bindflag)
    [] s.localized -> SetLocalized(s, v, where, bindflag)
    [] OTHER       -> [s EXCEPT !.symval = v]

-------------------------------------------------------------------------------
(* Binding *)

Binding(k, where, old) == [kind |-> k, where |-> where, old_value |-> old]

(* Which of its values a let in the current buffer will bind; s has been     *)
(* looked up there.                                                          *)
BindingOf(s) ==
  IF ~PerBuffer /\ ~s.localized THEN Binding("LET", Nil, s.symval)
  ELSE Binding(IF local_variable_p(s, current_buffer) THEN "LET_LOCAL" ELSE "LET_DEFAULT",
               current_buffer, Loaded(s, current_buffer))

do_specbind(s, k, v) ==
  IF PerBuffer /\ k = "LET_DEFAULT" THEN set_default_internal(s, v)
  ELSE set_internal(s, v, current_buffer, TRUE)

do_one_unbind(s, e) ==
  CASE e.kind \in {"LET", "LET_DEFAULT"} -> set_default_internal(s, e.old_value)
    [] e.kind = "LET_LOCAL" -> IF ~local_variable_p(s, e.where) THEN s
                               ELSE set_internal(s, e.old_value, e.where, TRUE)
    [] OTHER -> s

(* A state of the exchange: the symbol, and the bindings with what they now hold *)
Exchange(s, pdl) == [sym |-> s, pdl |-> pdl]

(* The value in effect and the value shadowed by entry i change places. *)
Swapped(x, i) ==
  LET s == x.sym
      e == x.pdl[i]
  IN CASE e.kind \in {"LET", "LET_DEFAULT"} ->
            Exchange(set_default_internal(s, e.old_value),
                     [x.pdl EXCEPT ![i].old_value = default_value(s)])
       [] e.kind = "LET_LOCAL" /\ local_variable_p(s, e.where) ->
            Exchange(set_internal(Consulted(s, e.where), e.old_value, e.where, TRUE),
                     [x.pdl EXCEPT ![i].old_value = buffer_local_value(s, e.where)])
       [] e.kind = "LET_LOCAL" /\ ~local_variable_p(s, e.where) ->
            Exchange(s, [x.pdl EXCEPT ![i] = Binding("NOP", Nil, Nil)])
       [] OTHER -> x

Upwards(n)   == [i \in 1..n |-> i]
Downwards(n) == [i \in 1..n |-> n + 1 - i]

(* specpdl_unrewind of a whole stack, to take its bindings out or to put     *)
(* them back.                                                                *)
specpdl_unrewind(s, pdl, order) ==
  LET after[n \in 0..Len(pdl)] ==
        IF n = 0 THEN Exchange(s, pdl) ELSE Swapped(after[n - 1], order[n])
  IN after[Len(pdl)]

unbind_for_thread_switch(s, pdl) == specpdl_unrewind(s, pdl, Downwards(Len(pdl)))
rebind_for_thread_switch(s, pdl) == specpdl_unrewind(s, pdl, Upwards(Len(pdl)))

(* Variables that forward to C are loaded for the new buffer if they are    *)
(* local in it or in the old one.                                           *)
set_buffer_internal_2(s, old, b) ==
  IF s.localized /\ fwd /\ {old, b} \intersect s.local # {} THEN find_symbol_value(s, b) ELSE s

-------------------------------------------------------------------------------
(* What the running thread does *)

Init ==
  /\ kind \in Kinds
  /\ \E v \in Value : sym = Symbol(v)
  /\ current_thread \in Thread
  /\ \E b \in Buffer : buffer = [t \in Thread |-> b]
  /\ specpdl = [t \in Thread |-> <<>>]
  /\ live = Buffer
  /\ broken = FALSE

specbind(s, v) ==
  LET e == BindingOf(s) IN
  /\ sym' = do_specbind(s, e.kind, v)
  /\ specpdl' = [specpdl EXCEPT ![current_thread] = Append(@, e)]

Depth == MapThenSumSet(LAMBDA t : Len(specpdl[t]), Thread)

Let(v) ==
  /\ Depth < MaxDepth
  /\ specbind(find_symbol_value(sym, current_buffer), v)
  /\ UNCHANGED <<kind, current_thread, buffer, live, broken>>

(* One turn of unbind_to's loop: the entry is off the stack before it is    *)
(* undone.                                                                  *)
Unbind ==
  /\ specpdl[current_thread] # <<>>
  /\ specpdl' = [specpdl EXCEPT ![current_thread] = Front(@)]
  /\ sym' = do_one_unbind(sym, Last(specpdl[current_thread]))
  /\ UNCHANGED <<kind, current_thread, buffer, live, broken>>

Unmoved == UNCHANGED <<kind, current_thread, buffer, specpdl, live>>
Sound   == Unmoved /\ UNCHANGED broken

Set(v)        == sym' = set_internal(sym, v, current_buffer, FALSE) /\ Sound
SetDefault(v) == sym' = set_default_internal(sym, v) /\ Sound
AskValue      == sym' = find_symbol_value(sym, current_buffer) /\ Sound
AskIn(b)      == sym' = Consulted(sym, b) /\ Sound

(* C code assigns its variable, for the current buffer as it thinks. *)
AssignInC(v) ==
  /\ fwd
  /\ sym' = [sym EXCEPT !.symval = v]
  /\ broken' = (broken \/ (sym.localized /\
       sym.valcell # IF current_buffer \in sym.local THEN current_buffer ELSE Default))
  /\ Unmoved

(* make_blv *)
Localized(s) ==
  IF s.localized \/ PerBuffer THEN s
  ELSE [s EXCEPT !.localized = TRUE, !.cell[Default] = s.symval, !.symval = IF fwd THEN @ ELSE Nil]

make_variable_buffer_local ==
  /\ sym' = IF PerBuffer THEN sym ELSE [Localized(sym) EXCEPT !.auto = TRUE]
  /\ Sound

(* Mutant: the default that is loaded for the buffer stays loaded. *)
Unloaded_Stays(s, b) == s

Unloaded(s, b) == IF s.localized /\ s.where = b THEN swap_in_global_binding(s) ELSE s

Copied(s, b) ==
  LET owner == IF PerBuffer THEN Own(s, b, s.cell[b]) ELSE Own(s, b, s.cell[Default])
  IN IF fwd THEN swap_in_symval_forwarding(owner, b) ELSE owner

(* The new value is a copy of the default's cell, which may be out of date  *)
(* when another buffer's binding is loaded.                                 *)
make_local_variable ==
  /\ sym' = IF current_buffer \in sym.local THEN Localized(sym)
            ELSE Copied(Unloaded(Localized(sym), current_buffer), current_buffer)
  /\ broken' = (broken \/ (current_buffer \notin sym.local /\
       Loaded(find_symbol_value(sym', current_buffer), current_buffer) # default_value(sym)))
  /\ Unmoved

(* Some let has bound the buffer's own value. *)
Bound(b) ==
  \E t \in Thread : \E i \in DOMAIN specpdl[t] :
    specpdl[t][i].kind = "LET_LOCAL" /\ specpdl[t][i].where = b

Disowned(s, b) ==
  [s EXCEPT !.local = @ \ {b}, !.cell[b] = IF PerBuffer THEN s.cell[Default] ELSE Nil]

(* kill-local-variable, and kill-all-local-variables for this variable *)
kill_local_variable ==
  /\ sym' = Disowned(Unloaded(sym, current_buffer), current_buffer)
  /\ broken' = (broken \/ Bound(current_buffer))
  /\ Unmoved

(* kill-buffer of a buffer that no thread is in: the values go, and what is *)
(* loaded in the symbol stays loaded.                                       *)
Orphaned(s, b) ==
  IF s.valcell = b THEN [s EXCEPT !.valcell = Orphan, !.cell[Orphan] = s.cell[b]] ELSE s

KillBuffer(b) ==
  /\ b \in live
  /\ \A t \in Thread : buffer[t] # b
  /\ live' = live \ {b}
  /\ sym' = Disowned(Orphaned(sym, b), b)
  /\ broken' = (broken \/ Bound(b))
  /\ UNCHANGED <<kind, current_thread, buffer, specpdl>>

set_buffer(b) ==
  /\ b \in live \ {current_buffer}
  /\ buffer' = [buffer EXCEPT ![current_thread] = b]
  /\ sym' = set_buffer_internal_2(sym, current_buffer, b)
  /\ UNCHANGED <<kind, current_thread, specpdl, live, broken>>

(* Mutant: the bindings of the old thread are taken out from the bottom up. *)
TakenOut_BottomUp(t) == rebind_for_thread_switch(sym, specpdl[t])

TakenOut(t) == unbind_for_thread_switch(sym, specpdl[t])

(* post_acquire_global_lock, when another thread gets the lock *)
SwitchThread(t) ==
  LET out == TakenOut(current_thread)
      in  == rebind_for_thread_switch(out.sym, specpdl[t])
  IN /\ t # current_thread
     /\ current_thread' = t
     /\ specpdl' = [specpdl EXCEPT ![current_thread] = out.pdl, ![t] = in.pdl]
     /\ sym' = set_buffer_internal_2(in.sym, buffer[t], buffer[t])
     /\ UNCHANGED <<kind, buffer, live, broken>>

Next ==
  \/ \E v \in Value : Let(v) \/ Set(v) \/ SetDefault(v) \/ AssignInC(v)
  \/ Unbind \/ AskValue
  \/ make_variable_buffer_local \/ make_local_variable \/ kill_local_variable
  \/ \E b \in Buffer : AskIn(b) \/ KillBuffer(b) \/ set_buffer(b)
  \/ \E t \in Thread : SwitchThread(t)

Spec == Init /\ [][Next]_vars

-------------------------------------------------------------------------------
(* Properties *)

(* The shape of the state: what is loaded is a cell with a value, who has a   *)
(* value of their own is a live buffer, and what is loaded for a buffer is   *)
(* that value if it has one, and the default if not: find_symbol_value and   *)
(* local-variable-p take it for that without looking at the buffer.          *)
TypeOK ==
  /\ sym.where \in live => sym.valcell = IF sym.where \in sym.local THEN sym.where ELSE Default
  /\ sym.local \subseteq live
  /\ sym.localized => ~PerBuffer /\ sym.cell[sym.valcell] \in Value
  /\ ~sym.localized => sym.valcell = Default /\ sym.where = Nil
  /\ PerBuffer \/ \A b \in Buffer : sym.cell[b] \in Value <=> b \in sym.local
  /\ fwd => sym.symval \in Value
  /\ \A t \in Thread : buffer[t] \in live

(* A C variable has the value that Lisp would find for the current buffer:   *)
(* the comment in make-local-variable calls it an invariant.                 *)
ForwardedHoldsCurrent ==
  fwd => sym.symval = Loaded(find_symbol_value(sym, current_buffer), current_buffer)

(* The value of a cell, wherever it is kept *)
Truth(c) ==
  IF PerBuffer \/ (sym.localized /\ ~(fwd /\ sym.valcell = c)) THEN sym.cell[c] ELSE sym.symval

CellOf(e) == IF e.kind = "LET_LOCAL" THEN e.where ELSE Default

(* The bindings of c on the stack of the running thread, from entry n on *)
Later(c, n) == {i \in DOMAIN specpdl[current_thread] : i >= n /\ CellOf(specpdl[current_thread][i]) = c}

(* The value that c had below entry n: it is kept by the first that shadows it. *)
Below(c, n) ==
  IF Later(c, n) = {} THEN Truth(c)
  ELSE specpdl[current_thread][CHOOSE i \in Later(c, n) : \A j \in Later(c, n) : i <= j].old_value

(* The default and the buffers' own values outside of any let *)
Outside ==
  [c \in Buffer \union {Default} |->
     IF c = Default \/ c \in sym.local THEN Below(c, 1) ELSE Nil]

(* What every let has bound, and to what: the running thread's have swapped  *)
(* places with what they shadow.                                             *)
Lets ==
  [t \in Thread |-> [i \in DOMAIN specpdl[t] |->
     LET e == specpdl[t][i] IN
     [cell  |-> CellOf(e),
      in    |-> IF e.kind = "LET_DEFAULT" THEN e.where ELSE Nil,
      value |-> IF t = current_thread THEN Below(CellOf(e), i + 1) ELSE e.old_value]]]

(* Exchanging the values at every switch gives each thread the bindings it  *)
(* made and nobody else's, and every let that ends leaves what it found.    *)
Promise == INSTANCE DynamicBinding WITH
  base <- Outside, frames <- Lets, auto <- sym.auto \/ PerBuffer

(* It does until a value that is let-bound is killed, C code assigns its    *)
(* variable while another buffer's value is in it, or a local value is      *)
(* copied from a default that is out of date.                               *)
ImplementsDynamicBinding == Promise!Init /\ [][broken' \/ Promise!Next]_(Promise!vars)
=============================================================================
