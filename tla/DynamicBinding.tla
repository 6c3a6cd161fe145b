---------------------------- MODULE DynamicBinding ----------------------------
(***************************************************************************)
(* What a dynamically bound variable promises: it has a default value and  *)
(* may have one of its own in any buffer, a let gives whichever of them is *)
(* in effect another value for as long as it lasts, and only for the       *)
(* thread that made it.  Bindings are kept apart from what they shadow     *)
(* ("deep binding"), so that threads do not have to do anything when one   *)
(* of them takes over from another.                                        *)
(***************************************************************************)
EXTENDS Integers, Sequences

CONSTANTS Thread, Buffer, Value, Default, Nil

VARIABLES
  base,      \* the default and the buffers' own values outside of any let, or Nil
  frames,    \* the lets of every thread: the value they bind, of what, and where
  buffer,    \* every thread's current buffer
  auto,      \* setting the variable makes it local
  live       \* the buffers that have not been killed

vars == <<base, frames, buffer, auto, live>>

Frame(cell, in, value) == [cell |-> cell, in |-> in, value |-> value]

CellIn(b) == IF base[b] = Nil THEN Default ELSE b
LetsOf(t, cell) == {i \in DOMAIN frames[t] : frames[t][i].cell = cell}
Innermost(t, cell) == CHOOSE i \in LetsOf(t, cell) : \A j \in LetsOf(t, cell) : j <= i

Lookup(t, cell) ==
  IF LetsOf(t, cell) = {} THEN base[cell] ELSE frames[t][Innermost(t, cell)].value

Assign(t, cell, v) ==
  IF LetsOf(t, cell) = {}
  THEN base' = [base EXCEPT ![cell] = v] /\ UNCHANGED frames
  ELSE frames' = [frames EXCEPT ![t][Innermost(t, cell)].value = v] /\ UNCHANGED base

(* The thread has bound the default while in its present buffer. *)
Shadowed(t) == \E i \in LetsOf(t, Default) : frames[t][i].in = buffer[t]

Init ==
  /\ \E v \in Value : base = [c \in Buffer \union {Default} |-> IF c = Default THEN v ELSE Nil]
  /\ frames = [t \in Thread |-> <<>>]
  /\ \E b \in Buffer : buffer = [t \in Thread |-> b]
  /\ auto \in BOOLEAN
  /\ live = Buffer

Let(t, v) ==
  /\ \E in \in {Nil, buffer[t]} :
       frames' = [frames EXCEPT ![t] = Append(@, Frame(CellIn(buffer[t]), in, v))]
  /\ UNCHANGED <<base, buffer, auto, live>>

Unbind(t) ==
  /\ frames[t] # <<>>
  /\ frames' = [frames EXCEPT ![t] = SubSeq(@, 1, Len(@) - 1)]
  /\ UNCHANGED <<base, buffer, auto, live>>

(* From now on the buffer has the value as its own. *)
Own(t, v) == base' = [base EXCEPT ![buffer[t]] = v] /\ UNCHANGED frames

Set(t, v) ==
  /\ IF base[buffer[t]] = Nil /\ auto /\ ~Shadowed(t) THEN Own(t, v)
     ELSE Assign(t, CellIn(buffer[t]), v)
  /\ UNCHANGED <<buffer, auto, live>>

SetDefault(t, v) == Assign(t, Default, v) /\ UNCHANGED <<buffer, auto, live>>
Overwrite(t, v)  == Assign(t, CellIn(buffer[t]), v) /\ UNCHANGED <<buffer, auto, live>>

MakeLocal(t) ==
  /\ base[buffer[t]] = Nil
  /\ Own(t, Lookup(t, Default))
  /\ UNCHANGED <<buffer, auto, live>>

MakeAutoLocal == auto' = TRUE /\ UNCHANGED <<base, frames, buffer, live>>

Unbound(b) == \A t \in Thread : LetsOf(t, b) = {}

Disown(b) ==
  /\ Unbound(b)
  /\ base' = [base EXCEPT ![b] = Nil]
  /\ UNCHANGED <<frames, buffer, auto>>

KillLocal(t)  == Disown(buffer[t]) /\ UNCHANGED live
KillBuffer(b) == Disown(b) /\ b \in live /\ live' = live \ {b}

SetBuffer(t, b) ==
  /\ b \in live
  /\ buffer' = [buffer EXCEPT ![t] = b]
  /\ UNCHANGED <<base, frames, auto, live>>

Next ==
  \/ \E t \in Thread, v \in Value : Let(t, v) \/ Set(t, v) \/ SetDefault(t, v) \/ Overwrite(t, v)
  \/ \E t \in Thread : Unbind(t) \/ MakeLocal(t) \/ KillLocal(t)
  \/ \E b \in Buffer : KillBuffer(b) \/ \E t \in Thread : SetBuffer(t, b)
  \/ MakeAutoLocal

Spec == Init /\ [][Next]_vars
=============================================================================
