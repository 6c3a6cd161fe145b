-------------------------- MODULE KbdBufferProofs ---------------------------
(***************************************************************************)
(* Theorems about KbdBuffer, for a ring of any size, any nesting of        *)
(* readers below a quarter of it, and any characters typed.                *)
(***************************************************************************)
EXTENDS KbdBuffer, SequenceTheorems, TLAPS

(* The numbers the hold depends on. *)
LEMMA Sizes ==
  /\ KBD_BUFFER_SIZE \in Nat /\ KBD_BUFFER_SIZE > 0
  /\ KBD_BUFFER_SIZE \div 4 \in Nat /\ KBD_BUFFER_SIZE \div 2 \in Nat
  /\ KBD_BUFFER_SIZE \div 4 <= KBD_BUFFER_SIZE \div 2
BY KbdBufferAssumption

(* Facts about the ring: pointers stay in it, and the number of events it    *)
(* holds moves by one when an event is stored or taken.                      *)
LEMMA NextInRing ==
  ASSUME NEW p \in Slot
  PROVE  next_kbd_event(p) \in Slot
BY KbdBufferAssumption DEF next_kbd_event, Slot

LEMMA NrStoredBounds ==
  ASSUME NEW f \in Slot, NEW s \in Slot
  PROVE  /\ NrStored(f, s) \in 0 .. KBD_BUFFER_SIZE - 1
         /\ NrStored(f, s) = 0 <=> f = s
BY KbdBufferAssumption DEF NrStored, Slot

LEMMA NrStoredPut ==
  ASSUME NEW f \in Slot, NEW s \in Slot, next_kbd_event(s) # f
  PROVE  NrStored(f, next_kbd_event(s)) = NrStored(f, s) + 1
BY KbdBufferAssumption DEF NrStored, next_kbd_event, Slot

LEMMA NrStoredTake ==
  ASSUME NEW f \in Slot, NEW s \in Slot, f # s
  PROVE  NrStored(next_kbd_event(f), s) = NrStored(f, s) - 1
BY KbdBufferAssumption DEF NrStored, next_kbd_event, Slot

-----------------------------------------------------------------------------
(* Type correctness *)

LEMMA TypeInit == Init => TypeOK
<1> SUFFICES ASSUME Init PROVE TypeOK
  OBVIOUS
<1>1. 0 \in Slot
  BY Sizes DEF Slot
<1>2. kbd_buffer \in [Slot -> 0 .. nstored]
  BY DEF Init, Note
<1>3. kbd_is_on_hold \in BOOLEAN /\ Vquit_flag \in BOOLEAN
  BY DEF Init
<1>. QED BY <1>1, <1>2, <1>3, KbdBufferAssumption DEF Init, TypeOK

(* Storing an event no greater than N keeps the ring's type.                 *)
LEMMA PutType ==
  ASSUME TypeOK, NEW n \in Nat, nstored <= n, NEW e \in 0 .. n, kbd_buffer_store_event(e)
  PROVE  /\ kbd_buffer' \in [Slot -> 0 .. n]
         /\ kbd_fetch_ptr' \in Slot /\ kbd_store_ptr' \in Slot
         /\ kbd_is_on_hold' \in BOOLEAN /\ Vquit_flag' \in BOOLEAN
<1>1. kbd_buffer' \in [Slot -> 0 .. n]
  <2>1. kbd_buffer \in [Slot -> 0 .. n]
    BY DEF TypeOK
  <2>. QED BY <2>1 DEF kbd_buffer_store_event
<1>2. kbd_fetch_ptr' \in Slot /\ kbd_store_ptr' \in Slot
  BY NextInRing DEF TypeOK, kbd_buffer_store_event
<1>3. kbd_is_on_hold' \in BOOLEAN
  BY DEF TypeOK, kbd_buffer_store_event
<1>4. Vquit_flag' \in BOOLEAN
  BY DEF TypeOK, kbd_buffer_store_event
<1>. QED BY <1>1, <1>2, <1>3, <1>4

(* So does taking one.                                                       *)
LEMMA TakeType ==
  ASSUME TypeOK, TakeEvent
  PROVE  /\ kbd_buffer' \in [Slot -> 0 .. nstored]
         /\ kbd_fetch_ptr' \in Slot /\ kbd_store_ptr' \in Slot
         /\ got' \in 0 .. nstored
         /\ gone' = gone
BY NextInRing DEF TypeOK, TakeEvent, Note

LEMMA TypeNext == TypeOK /\ [Next]_vars => TypeOK'
<1> SUFFICES ASSUME TypeOK, [Next]_vars PROVE TypeOK'
  OBVIOUS
<1>. USE KbdBufferAssumption, NextInRing DEF TypeOK, Note, queue_vars, tty_vars
<1>1. CASE Type
  BY <1>1 DEF Type
<1>2. CASE tty_read_avail_input
  <2>1. buffer_free \in Nat
    BY NrStoredBounds DEF buffer_free, kbd_buffer_nr_stored
  <2>. QED BY <1>2, <2>1 DEF tty_read_avail_input
<1>3. CASE StoreChar
  <2>1. nstored + 1 \in Nat /\ nstored + 1 <= nread
    BY <1>3 DEF StoreChar, Idle
  <2>2. CASE nstored + 1 \in Quit
    <3>1. /\ UNCHANGED <<queue_vars, typed, nread, mode, depth, got>>
          /\ Vquit_flag' = TRUE /\ nstored' = nread
          /\ gone' = gone \cup (nstored + 1 .. nread)
      BY <1>3, <2>2 DEF StoreChar
    <3>2. Vquit_flag' \in BOOLEAN
      BY <3>1
    <3>3. kbd_buffer' \in [Slot -> 0 .. nstored']
      BY <3>1, <2>1
    <3>. QED BY <2>1, <3>1, <3>2, <3>3
  <2>3. CASE nstored + 1 \notin Quit
    <3>1. /\ UNCHANGED <<typed, nread, mode, depth, got, gone>>
          /\ kbd_buffer_store_event(nstored + 1) /\ nstored' = nstored + 1
      BY <1>3, <2>3 DEF StoreChar
    <3>2. nstored + 1 \in 0 .. nstored + 1 /\ nstored <= nstored + 1
      OBVIOUS
    <3>. HIDE DEF TypeOK
    <3>3. /\ kbd_buffer' \in [Slot -> 0 .. nstored + 1]
          /\ kbd_fetch_ptr' \in Slot /\ kbd_store_ptr' \in Slot
          /\ kbd_is_on_hold' \in BOOLEAN /\ Vquit_flag' \in BOOLEAN
      BY <2>1, <3>1, <3>2, PutType
    <3>. QED BY <2>1, <3>1, <3>3 DEF TypeOK
  <2>. QED BY <2>2, <2>3
<1>4. CASE StoreNote
  <2>1. kbd_buffer_store_event(0) /\ UNCHANGED <<tty_vars, mode, depth, got, gone>>
    BY <1>4 DEF StoreNote
  <2>2. /\ kbd_buffer' \in [Slot -> 0 .. nstored]
        /\ kbd_fetch_ptr' \in Slot /\ kbd_store_ptr' \in Slot
        /\ kbd_is_on_hold' \in BOOLEAN /\ Vquit_flag' \in BOOLEAN
    BY <2>1, PutType
  <2>. QED BY <2>1, <2>2
<1>5. CASE kbd_buffer_get_event
  <2>1. kbd_is_on_hold' \in BOOLEAN
    BY <1>5 DEF kbd_buffer_get_event, Unhold
  <2>2. UNCHANGED <<Vquit_flag, tty_vars>>
    BY <1>5 DEF kbd_buffer_get_event
  <2>3. CASE TakeEvent /\ UNCHANGED <<mode, depth>>
    <3>. HIDE DEF TypeOK
    <3>1. /\ kbd_buffer' \in [Slot -> 0 .. nstored]
          /\ kbd_fetch_ptr' \in Slot /\ kbd_store_ptr' \in Slot
          /\ got' \in 0 .. nstored /\ gone' = gone
      BY <2>3, TakeType
    <3>. QED BY <2>1, <2>2, <2>3, <3>1 DEF TypeOK
  <2>4. CASE /\ Empty /\ depth < MaxDepth
             /\ mode' = "wait" /\ depth' = depth + 1
             /\ UNCHANGED <<kbd_buffer, kbd_fetch_ptr, kbd_store_ptr, got, gone>>
    BY <2>1, <2>2, <2>4
  <2>. QED BY <1>5, <2>3, <2>4 DEF kbd_buffer_get_event
<1>6. CASE WaitEnds
  <2>. HIDE DEF TypeOK
  <2>1. /\ kbd_buffer' \in [Slot -> 0 .. nstored]
        /\ kbd_fetch_ptr' \in Slot /\ kbd_store_ptr' \in Slot
        /\ got' \in 0 .. nstored /\ gone' = gone
    BY <1>6, TakeType DEF WaitEnds
  <2>. QED BY <1>6, <2>1 DEF TypeOK, WaitEnds, StopWaiting
<1>7. CASE quit_throw_to_read_char
  BY <1>7 DEF quit_throw_to_read_char, StopWaiting
<1>8. CASE TimesOut
  BY <1>8 DEF TimesOut, StopWaiting
<1>9. CASE RunLisp
  BY <1>9 DEF RunLisp
<1>10. CASE LispReturns
  BY <1>10 DEF LispReturns
<1>11. CASE unbind_to
  BY <1>11 DEF unbind_to
<1>12. CASE maybe_quit
  BY <1>12 DEF maybe_quit
<1>13. CASE Fdiscard_input
  BY <1>13 DEF Fdiscard_input, Forget, MayDiscard, Idle
<1>14. CASE stuff_buffered_input
  BY <1>14 DEF stuff_buffered_input, Forget, MayDiscard, Idle
<1>15. CASE UNCHANGED vars
  BY <1>15 DEF vars
<1>. QED BY <1>1, <1>2, <1>3, <1>4, <1>5, <1>6, <1>7, <1>8, <1>9, <1>10,
            <1>11, <1>12, <1>13, <1>14, <1>15 DEF Next

(* Every variable keeps its type, and no number overtakes another: a         *)
(* character is read, stored and taken in this order.                        *)
THEOREM TypeCorrect == Spec => []TypeOK
BY TypeInit, TypeNext, PTL DEF Spec

-----------------------------------------------------------------------------
(* The hold *)

(* While readers wait, a hold means that much is left to read.  A reader     *)
(* that has just looked, and did not lift the hold, leaves a quarter less    *)
(* one; every reader that stops waiting after it takes one more.             *)
HoldInv ==
  depth > 0 /\ kbd_is_on_hold =>
    kbd_buffer_nr_stored + (MaxDepth - depth) >= KBD_BUFFER_SIZE \div 4 - 1

LEMMA HoldInvImplies == TypeOK /\ HoldInv => HeldOnlyWithInput
<1> SUFFICES ASSUME TypeOK, HoldInv, mode = "wait", kbd_is_on_hold, Empty PROVE FALSE
  BY DEF HeldOnlyWithInput
<1>1. depth > 0 /\ depth \in Nat
  BY DEF TypeOK
<1>2. kbd_buffer_nr_stored = 0
  BY NrStoredBounds DEF TypeOK, Empty, kbd_buffer_nr_stored
<1>. QED BY <1>1, <1>2, Sizes, KbdBufferAssumption DEF HoldInv

(* Storing an event never leaves fewer, and a hold starts above a half.      *)
LEMMA PutHold ==
  ASSUME TypeOK, HoldInv, NEW e, kbd_buffer_store_event(e), UNCHANGED depth
  PROVE  HoldInv'
<1>1. kbd_buffer_nr_stored \in Nat /\ depth \in 0 .. MaxDepth /\ MaxDepth \in Nat
  BY NrStoredBounds, KbdBufferAssumption DEF TypeOK, kbd_buffer_nr_stored
<1>2. CASE next_kbd_event(kbd_store_ptr) = kbd_fetch_ptr
  BY <1>2 DEF HoldInv, kbd_buffer_store_event, kbd_buffer_nr_stored
<1>3. CASE next_kbd_event(kbd_store_ptr) # kbd_fetch_ptr
  <2>1. kbd_buffer_nr_stored' = kbd_buffer_nr_stored + 1
    BY <1>3, NrStoredPut DEF TypeOK, kbd_buffer_store_event, kbd_buffer_nr_stored
  <2>2. kbd_buffer_nr_stored' = NrStored(kbd_fetch_ptr, next_kbd_event(kbd_store_ptr))
    BY <1>3 DEF kbd_buffer_store_event, kbd_buffer_nr_stored
  <2>3. CASE kbd_buffer_nr_stored' > KBD_BUFFER_SIZE \div 2
    BY <1>1, <2>1, <2>3, Sizes DEF HoldInv
  <2>4. CASE ~(kbd_buffer_nr_stored' > KBD_BUFFER_SIZE \div 2)
    <3>1. kbd_is_on_hold' = kbd_is_on_hold
      BY <1>3, <2>2, <2>4 DEF kbd_buffer_store_event
    <3>. QED BY <1>1, <2>1, <3>1, Sizes DEF HoldInv
  <2>. QED BY <2>3, <2>4
<1>. QED BY <1>2, <1>3

LEMMA TakeOne ==
  ASSUME TypeOK, TakeEvent
  PROVE  kbd_buffer_nr_stored' = kbd_buffer_nr_stored - 1
BY NrStoredTake DEF TypeOK, TakeEvent, Empty, kbd_buffer_nr_stored

(* With fewer readers the bound of HoldInv is lower.                         *)
LEMMA Slack ==
  ASSUME NEW n \in Nat, NEW m \in Nat, NEW d \in Nat, NEW e \in Nat, NEW q \in Nat,
         n + (m - d) >= q - 1, e <= d
  PROVE  n + (m - e) >= q - 1
OBVIOUS

(* The invariant survives a step that touches neither ring nor hold and adds *)
(* no waiting reader.                                                        *)
LEMMA CalmHold ==
  ASSUME TypeOK, HoldInv, UNCHANGED queue_vars, depth' \in Nat, depth' <= depth
  PROVE  HoldInv'
<1>1. kbd_buffer_nr_stored \in Nat /\ depth \in 0 .. MaxDepth /\ MaxDepth \in Nat
  BY NrStoredBounds, KbdBufferAssumption DEF TypeOK, kbd_buffer_nr_stored
<1>2. kbd_buffer_nr_stored' = kbd_buffer_nr_stored /\ kbd_is_on_hold' = kbd_is_on_hold
  BY DEF queue_vars, kbd_buffer_nr_stored
<1>3. CASE kbd_is_on_hold /\ depth' > 0
  <2>. depth > 0
    BY <1>1, <1>3
  <2>1. kbd_buffer_nr_stored + (MaxDepth - depth) >= KBD_BUFFER_SIZE \div 4 - 1
    BY <1>3, Zenon DEF HoldInv
  <2>2. kbd_buffer_nr_stored' + (MaxDepth - depth') >= KBD_BUFFER_SIZE \div 4 - 1
    <3>1. depth \in Nat
      BY <1>1
    <3>2. kbd_buffer_nr_stored + (MaxDepth - depth') >= KBD_BUFFER_SIZE \div 4 - 1
      BY <1>1, <2>1, <3>1, Sizes, Slack
    <3>. QED BY <1>2, <3>2
  <2>. QED BY <2>2 DEF HoldInv
<1>. QED BY <1>2, <1>3 DEF HoldInv

LEMMA HoldNext ==
  ASSUME ~MayDiscardInWait
  PROVE  TypeOK /\ HoldInv /\ [Next]_vars => HoldInv'
<1> SUFFICES ASSUME TypeOK, HoldInv, [Next]_vars PROVE HoldInv'
  OBVIOUS
<1>. DEFINE Quarter == KBD_BUFFER_SIZE \div 4
<1>0. kbd_buffer_nr_stored \in Nat /\ depth \in 0 .. MaxDepth /\ MaxDepth \in Nat
  BY NrStoredBounds, KbdBufferAssumption DEF TypeOK, kbd_buffer_nr_stored
<1>1. CASE UNCHANGED <<queue_vars, depth>>
  <2>1. UNCHANGED queue_vars /\ depth' \in Nat /\ depth' <= depth
    BY <1>0, <1>1
  <2>. QED BY <2>1, CalmHold
<1>2. CASE StoreChar
  <2>1. CASE nstored + 1 \in Quit
    <3>1. UNCHANGED <<queue_vars, depth>>
      BY <1>2, <2>1 DEF StoreChar
    <3>. QED BY <1>1, <3>1
  <2>2. CASE nstored + 1 \notin Quit
    BY <1>2, <2>2, PutHold DEF StoreChar
  <2>. QED BY <2>1, <2>2
<1>3. CASE StoreNote
  BY <1>3, PutHold DEF StoreNote
<1>4. CASE kbd_buffer_get_event
  <2>1. CASE kbd_buffer_nr_stored < Quarter
    <3>1. kbd_is_on_hold' = FALSE
      BY <1>4, <2>1 DEF kbd_buffer_get_event, Unhold
    <3>. QED BY <3>1 DEF HoldInv
  <2>2. CASE ~(kbd_buffer_nr_stored < Quarter)
    <3>1. ~Empty
      BY <2>2, NrStoredBounds, KbdBufferAssumption, Sizes
      DEF TypeOK, Empty, kbd_buffer_nr_stored
    <3>2. TakeEvent /\ depth' = depth
      BY <1>4, <3>1 DEF kbd_buffer_get_event
    <3>3. kbd_buffer_nr_stored' = kbd_buffer_nr_stored - 1
      BY <3>2, TakeOne
    <3>. QED BY <1>0, <2>2, <3>2, <3>3, Sizes DEF HoldInv
  <2>. QED BY <2>1, <2>2
<1>5. CASE WaitEnds
  <2>1. /\ TakeEvent /\ depth' = depth - 1 /\ depth > 0
        /\ kbd_is_on_hold' = kbd_is_on_hold
    BY <1>5 DEF WaitEnds, StopWaiting, TypeOK
  <2>2. kbd_buffer_nr_stored' = kbd_buffer_nr_stored - 1
    BY <2>1, TakeOne
  <2>. QED BY <1>0, <2>1, <2>2, Sizes DEF HoldInv
<1>6. CASE quit_throw_to_read_char \/ TimesOut
  <2>1. UNCHANGED queue_vars /\ depth' = depth - 1 /\ depth > 0
    BY <1>6 DEF quit_throw_to_read_char, TimesOut, StopWaiting, TypeOK
  <2>2. depth' \in Nat /\ depth' <= depth
    BY <1>0, <2>1
  <2>. QED BY <2>1, <2>2, CalmHold
<1>7. CASE unbind_to
  <2>1. UNCHANGED queue_vars /\ depth' \in 0 .. MaxDepth /\ depth' < depth
    BY <1>7 DEF unbind_to
  <2>2. depth' \in Nat /\ depth' <= depth
    BY <1>0, <2>1
  <2>. QED BY <2>1, <2>2, CalmHold
<1>8. CASE Fdiscard_input \/ stuff_buffered_input
  <2>1. depth = 0 /\ depth' = depth
    BY <1>8 DEF Fdiscard_input, stuff_buffered_input, Forget, MayDiscard
  <2>. QED BY <2>1 DEF HoldInv
<1>9. CASE Type \/ tty_read_avail_input \/ RunLisp \/ LispReturns \/ maybe_quit
  <2>1. UNCHANGED <<queue_vars, depth>>
    BY <1>9 DEF Type, tty_read_avail_input, RunLisp, LispReturns, maybe_quit
  <2>. QED BY <1>1, <2>1
<1>10. CASE UNCHANGED vars
  BY <1>1, <1>10 DEF vars
<1>. QED BY <1>2, <1>3, <1>4, <1>5, <1>6, <1>7, <1>8, <1>9, <1>10 DEF Next

(* No reader waits for a terminal that is on hold with nothing left to read, *)
(* whatever is typed and however readers nest, as long as Lisp run by a      *)
(* waiting reader discards no input.                                         *)
THEOREM NoDeafReader ==
  ASSUME ~MayDiscardInWait
  PROVE  Spec => []HeldOnlyWithInput
<1>1. Init => TypeOK /\ HoldInv
  BY TypeInit DEF Init, HoldInv
<1>2. TypeOK /\ HoldInv /\ [Next]_vars => TypeOK' /\ HoldInv'
  BY TypeNext, HoldNext
<1>. QED BY <1>1, <1>2, HoldInvImplies, PTL DEF Spec

-----------------------------------------------------------------------------
(* The events of the ring *)

(* A sequence is known by its elements.                                      *)
LEMMA IsAppend ==
  ASSUME NEW S, NEW s \in Seq(S), NEW t \in Seq(S), NEW e \in S,
         Len(t) = Len(s) + 1, t[Len(s) + 1] = e, \A i \in 1 .. Len(s) : t[i] = s[i]
  PROVE  t = Append(s, e)
<1>1. Append(s, e) \in Seq(S) /\ Len(Append(s, e)) = Len(s) + 1
  OBVIOUS
<1>2. \A i \in 1 .. Len(t) : t[i] = Append(s, e)[i]
  OBVIOUS
<1>. QED BY <1>1, <1>2, SeqEqual

LEMMA IsTail ==
  ASSUME NEW S, NEW s \in Seq(S), NEW t \in Seq(S), s # <<>>,
         Len(t) = Len(s) - 1, \A i \in 1 .. Len(s) - 1 : t[i] = s[i + 1]
  PROVE  t = Tail(s)
<1>1. Tail(s) \in Seq(S) /\ Len(Tail(s)) = Len(s) - 1
  OBVIOUS
<1>2. \A i \in 1 .. Len(t) : t[i] = Tail(s)[i]
  OBVIOUS
<1>. QED BY <1>1, <1>2, SeqEqual

(* The slots of the events are slots of the ring other than the free one the *)
(* next event is stored in, which comes right after them.                    *)
LEMMA SlotOfStored ==
  ASSUME TypeOK, NEW i \in 1 .. kbd_buffer_nr_stored
  PROVE  SlotOf(i) \in Slot /\ SlotOf(i) # kbd_store_ptr
BY KbdBufferAssumption DEF TypeOK, SlotOf, Slot, kbd_buffer_nr_stored, NrStored

LEMMA SlotOfNext ==
  ASSUME TypeOK
  PROVE  SlotOf(kbd_buffer_nr_stored + 1) = kbd_store_ptr
BY KbdBufferAssumption DEF TypeOK, SlotOf, Slot, kbd_buffer_nr_stored, NrStored

(* Two events are never in one slot.                                         *)
LEMMA SlotOfInjective ==
  ASSUME TypeOK, NEW i \in 1 .. kbd_buffer_nr_stored, NEW j \in 1 .. kbd_buffer_nr_stored,
         SlotOf(i) = SlotOf(j)
  PROVE  i = j
BY KbdBufferAssumption DEF TypeOK, SlotOf, Slot, kbd_buffer_nr_stored, NrStored

LEMMA ContentsType ==
  ASSUME TypeOK
  PROVE  /\ kbd_buffer_nr_stored \in Nat
         /\ DOMAIN Contents = 1 .. kbd_buffer_nr_stored
         /\ \A i \in 1 .. kbd_buffer_nr_stored : Contents[i] \in 0 .. nstored
         /\ Contents \in Seq(0 .. nstored)
         /\ Len(Contents) = kbd_buffer_nr_stored
<1>1. kbd_buffer_nr_stored \in Nat
  BY NrStoredBounds DEF TypeOK, kbd_buffer_nr_stored
<1>2. \A i \in 1 .. kbd_buffer_nr_stored : kbd_buffer[SlotOf(i)] \in 0 .. nstored
  BY SlotOfStored DEF TypeOK
<1>. HIDE DEF kbd_buffer_nr_stored
<1>. QED BY <1>1, <1>2 DEF Contents

(* A ring with as many events in the same slots has the same contents.       *)
LEMMA SameContents ==
  ASSUME UNCHANGED <<kbd_buffer, kbd_fetch_ptr, kbd_store_ptr>>
  PROVE  Contents' = Contents /\ kbd_buffer_nr_stored' = kbd_buffer_nr_stored
BY DEF Contents, SlotOf, kbd_buffer_nr_stored

LEMMA NoRoom ==
  ASSUME TypeOK
  PROVE  /\ buffer_free \in Nat
         /\ buffer_free = 0 <=> next_kbd_event(kbd_store_ptr) = kbd_fetch_ptr
BY KbdBufferAssumption
   DEF TypeOK, buffer_free, Slot, kbd_buffer_nr_stored, NrStored, next_kbd_event

(* Storing an event while there is room puts it behind all the others.       *)
LEMMA PutContents ==
  ASSUME TypeOK, NEW e \in Nat, kbd_buffer_store_event(e),
         next_kbd_event(kbd_store_ptr) # kbd_fetch_ptr
  PROVE  /\ kbd_buffer_nr_stored' = kbd_buffer_nr_stored + 1
         /\ DOMAIN Contents' = 1 .. kbd_buffer_nr_stored + 1
         /\ \A i \in 1 .. kbd_buffer_nr_stored : Contents'[i] = Contents[i]
         /\ Contents'[kbd_buffer_nr_stored + 1] = e
         /\ Contents' = Append(Contents, e)
<1>1. kbd_buffer_nr_stored' = kbd_buffer_nr_stored + 1
  BY NrStoredPut DEF TypeOK, kbd_buffer_store_event, kbd_buffer_nr_stored
<1>2. /\ kbd_buffer' = [kbd_buffer EXCEPT ![kbd_store_ptr] = e]
      /\ kbd_fetch_ptr' = kbd_fetch_ptr
  BY DEF kbd_buffer_store_event
<1>3. \A i : SlotOf(i)' = SlotOf(i)
  BY <1>2 DEF SlotOf
<1>4. Contents' = [i \in 1 .. kbd_buffer_nr_stored + 1 |-> kbd_buffer'[SlotOf(i)]]
  BY <1>1, <1>3 DEF Contents
<1>5. kbd_buffer_nr_stored \in Nat
  BY ContentsType
<1>6. ASSUME NEW i \in 1 .. kbd_buffer_nr_stored
      PROVE  Contents'[i] = Contents[i]
  <2>1. kbd_buffer'[SlotOf(i)] = kbd_buffer[SlotOf(i)]
    BY <1>2, SlotOfStored DEF TypeOK
  <2>2. Contents[i] = kbd_buffer[SlotOf(i)]
    BY DEF Contents
  <2>. QED BY <1>4, <1>5, <2>1, <2>2
<1>7. Contents'[kbd_buffer_nr_stored + 1] = e
  <2>1. kbd_buffer'[kbd_store_ptr] = e
    BY <1>2 DEF TypeOK
  <2>. QED BY <1>4, <1>5, <2>1, SlotOfNext
<1>8. Contents' = Append(Contents, e)
  <2>1. Contents \in Seq(Nat) /\ Len(Contents) = kbd_buffer_nr_stored
    BY ContentsType DEF TypeOK
  <2>2. \A i \in 1 .. kbd_buffer_nr_stored + 1 : Contents'[i] \in Nat
    <3>1. \A i \in 1 .. kbd_buffer_nr_stored : Contents[i] \in Nat
      BY ContentsType DEF TypeOK
    <3>. QED BY <1>5, <1>6, <1>7, <3>1
  <2>3. Contents' \in Seq(Nat) /\ Len(Contents') = kbd_buffer_nr_stored + 1
    BY <1>4, <1>5, <2>2
  <2>. QED BY <1>6, <1>7, <2>1, <2>3, IsAppend
<1>. QED BY <1>1, <1>4, <1>6, <1>7, <1>8

(* Taking one removes the first.                                             *)
LEMMA TakeContents ==
  ASSUME TypeOK, TakeEvent
  PROVE  /\ kbd_buffer_nr_stored \in Nat /\ kbd_buffer_nr_stored > 0
         /\ kbd_buffer_nr_stored' = kbd_buffer_nr_stored - 1
         /\ Contents[1] = kbd_buffer[kbd_fetch_ptr]
         /\ DOMAIN Contents' = 1 .. kbd_buffer_nr_stored - 1
         /\ \A i \in 1 .. kbd_buffer_nr_stored - 1 : Contents'[i] = Contents[i + 1]
         /\ Contents # <<>> /\ Contents' = Tail(Contents)
<1>1. kbd_buffer_nr_stored' = kbd_buffer_nr_stored - 1
  BY TakeOne
<1>2. kbd_buffer_nr_stored \in Nat /\ kbd_buffer_nr_stored > 0
  BY NrStoredBounds DEF TypeOK, TakeEvent, Empty, kbd_buffer_nr_stored
<1>3. /\ kbd_buffer' = [kbd_buffer EXCEPT ![kbd_fetch_ptr] = Note]
      /\ kbd_fetch_ptr' = next_kbd_event(kbd_fetch_ptr)
  BY DEF TakeEvent
<1>4. SlotOf(1) = kbd_fetch_ptr
  BY KbdBufferAssumption DEF TypeOK, Slot, SlotOf
<1>5. Contents[1] = kbd_buffer[kbd_fetch_ptr]
  BY <1>2, <1>4 DEF Contents
<1>6. Contents' = [i \in 1 .. kbd_buffer_nr_stored - 1 |-> kbd_buffer'[SlotOf(i)']]
  BY <1>1 DEF Contents
<1>7. ASSUME NEW i \in 1 .. kbd_buffer_nr_stored - 1
      PROVE  Contents'[i] = Contents[i + 1]
  <2>1. i + 1 \in 1 .. kbd_buffer_nr_stored /\ i + 1 # 1
    BY <1>2
  <2>2. SlotOf(i)' = SlotOf(i + 1)
    BY <1>3, <2>1, KbdBufferAssumption
    DEF SlotOf, next_kbd_event, TypeOK, Slot, kbd_buffer_nr_stored, NrStored
  <2>3. SlotOf(i + 1) # kbd_fetch_ptr
    <3>1. 1 \in 1 .. kbd_buffer_nr_stored
      BY <1>2
    <3>. QED BY <1>4, <2>1, <3>1, SlotOfInjective
  <2>4. kbd_buffer'[SlotOf(i + 1)] = kbd_buffer[SlotOf(i + 1)]
    BY <1>3, <2>1, <2>3, SlotOfStored DEF TypeOK
  <2>. QED BY <1>6, <2>1, <2>2, <2>4 DEF Contents
<1>8. Contents # <<>> /\ Contents' = Tail(Contents)
  <2>1. Contents \in Seq(0 .. nstored) /\ Len(Contents) = kbd_buffer_nr_stored
    BY ContentsType
  <2>2. Contents # <<>>
    BY <1>2, <2>1
  <2>3. \A i \in 1 .. kbd_buffer_nr_stored - 1 : Contents'[i] \in 0 .. nstored
    BY <1>2, <1>7, ContentsType
  <2>4. Contents' \in Seq(0 .. nstored) /\ Len(Contents') = kbd_buffer_nr_stored - 1
    BY <1>2, <1>6, <2>3
  <2>. QED BY <1>7, <2>1, <2>2, <2>4, IsTail
<1>. QED BY <1>1, <1>2, <1>5, <1>6, <1>7, <1>8

LEMMA ForgetContents ==
  ASSUME TypeOK, Forget
  PROVE  /\ kbd_buffer_nr_stored' = 0
         /\ Contents' = <<>>
         /\ DOMAIN Contents' = {}
<1>1. kbd_fetch_ptr' = kbd_store_ptr /\ kbd_store_ptr' = kbd_store_ptr
  BY DEF Forget
<1>2. kbd_buffer_nr_stored' = 0
  BY <1>1 DEF TypeOK, Slot, kbd_buffer_nr_stored, NrStored
<1>. QED BY <1>2 DEF Contents

-----------------------------------------------------------------------------
(* No character is lost *)

(* NoKeyLost, in force also while the characters of one read are stored:     *)
(* what is left of the read fits into the ring (so that none of them finds   *)
(* it full), and nothing beyond the last character stored was thrown away.   *)
KeysInv ==
  /\ nread - nstored <= buffer_free
  /\ gone \subseteq 1 .. nstored
  /\ \A k \in Key :
       (\E i \in DOMAIN Contents : Contents[i] = k) <=> (got < k /\ k <= nstored /\ k \notin gone)
  /\ \A i, j \in DOMAIN Contents :
       i < j /\ Contents[j] # Note => Contents[i] < Contents[j]

LEMMA KeysInvImplies == TypeOK /\ KeysInv => NoKeyLost
<1> SUFFICES ASSUME TypeOK, KeysInv PROVE NoKeyLost
  OBVIOUS
<1>1. \A i \in DOMAIN Contents : Contents[i] \in 0 .. nstored
  BY ContentsType
<1>2. 0 .. nstored \ {Note} \subseteq Key /\ got + 1 .. nstored \subseteq Key
  BY KbdBufferAssumption DEF TypeOK, Note, Key
<1>3. {Contents[i] : i \in DOMAIN Contents} \ {Note} = (got + 1 .. nstored) \ gone
  <2>. DEFINE Keys == {Contents[i] : i \in DOMAIN Contents} \ {Note}
  <2>1. Keys \subseteq Key
    BY <1>1, <1>2
  <2>2. \A k \in Key : k \in Keys <=> \E i \in DOMAIN Contents : Contents[i] = k
    BY DEF Key, Note
  <2>3. \A k \in Key : k \in (got + 1 .. nstored) \ gone <=> got < k /\ k <= nstored /\ k \notin gone
    BY DEF Key, TypeOK
  <2>4. \A k \in Key : k \in Keys <=> k \in (got + 1 .. nstored) \ gone
    BY <2>2, <2>3 DEF KeysInv
  <2>. QED BY <1>2, <2>1, <2>4
<1>. QED BY <1>3 DEF KeysInv, NoKeyLost

LEMMA KeysInit == Init => KeysInv
<1> SUFFICES ASSUME Init PROVE KeysInv
  OBVIOUS
<1>1. kbd_buffer_nr_stored = 0
  BY DEF Init, kbd_buffer_nr_stored, NrStored
<1>2. DOMAIN Contents = {}
  BY <1>1 DEF Contents
<1>3. nread - nstored <= buffer_free
  BY <1>1, Sizes DEF Init, buffer_free
<1>4. \A k \in Key : ~(got < k /\ k <= nstored)
  BY DEF Init, Key
<1>. QED BY <1>2, <1>3, <1>4 DEF Init, KeysInv

(* A step that keeps the ring, what was stored and what became of it.        *)
LEMMA CalmKeys ==
  ASSUME KeysInv, UNCHANGED <<queue_vars, nstored, got, gone>>, nread' - nstored <= buffer_free
  PROVE  KeysInv'
<1>1. Contents' = Contents /\ buffer_free' = buffer_free
  BY SameContents DEF queue_vars, buffer_free
<1>. QED BY <1>1 DEF KeysInv

(* A character that follows the last one stored goes behind all others.      *)
LEMMA StoreKeys ==
  ASSUME TypeOK, KeysInv, StoreChar
  PROVE  KeysInv'
<1>. DEFINE c == nstored + 1
            n == kbd_buffer_nr_stored
<1>1. c \in Nat /\ c <= nread /\ c \in Key /\ n \in Nat /\ buffer_free \in Nat
  BY ContentsType, NoRoom, KbdBufferAssumption DEF TypeOK, StoreChar, Idle, Key
<1>2. CASE c \in Quit
  <2>1. /\ UNCHANGED queue_vars /\ nread' = nread /\ got' = got
        /\ nstored' = nread /\ gone' = gone \cup (c .. nread)
    BY <1>2 DEF StoreChar
  <2>2. Contents' = Contents /\ buffer_free' = buffer_free
    BY <2>1, SameContents DEF queue_vars, buffer_free
  <2>3. gone' \subseteq 1 .. nstored'
    BY <1>1, <2>1 DEF KeysInv, TypeOK
  <2>4. ASSUME NEW k \in Key
        PROVE  (k <= nstored' /\ k \notin gone') <=> (k <= nstored /\ k \notin gone)
    BY <1>1, <2>1 DEF Key, KeysInv, TypeOK
  <2>5. nread' - nstored' <= buffer_free'
    BY <1>1, <2>1, <2>2 DEF TypeOK
  <2>. QED BY <2>1, <2>2, <2>3, <2>4, <2>5 DEF KeysInv
<1>3. CASE c \notin Quit
  <2>1. /\ kbd_buffer_store_event(c) /\ nread' = nread /\ got' = got
        /\ nstored' = c /\ gone' = gone
    BY <1>3 DEF StoreChar
  <2>2. next_kbd_event(kbd_store_ptr) # kbd_fetch_ptr
    BY <1>1, NoRoom DEF KeysInv, TypeOK
  <2>3. /\ n' = n + 1
        /\ DOMAIN Contents' = 1 .. n + 1
        /\ \A i \in 1 .. n : Contents'[i] = Contents[i]
        /\ Contents'[n + 1] = c
    BY <1>1, <2>1, <2>2, PutContents
  <2>4. buffer_free' = buffer_free - 1
    BY <1>1, <2>3, KbdBufferAssumption DEF buffer_free
  <2>5. DOMAIN Contents = 1 .. n /\ \A i \in 1 .. n : Contents[i] \in 0 .. nstored
    BY ContentsType
  <2>. HIDE DEF n
  <2>6. nread' - nstored' <= buffer_free'
    BY <1>1, <2>1, <2>4 DEF KeysInv, TypeOK
  <2>7. gone' \subseteq 1 .. nstored'
    BY <1>1, <2>1 DEF KeysInv, TypeOK
  <2>8. ASSUME NEW k \in Key
        PROVE  (\E i \in DOMAIN Contents' : Contents'[i] = k)
                 <=> (got' < k /\ k <= nstored' /\ k \notin gone')
    <3>1. (\E i \in 1 .. n + 1 : Contents'[i] = k) <=> k = c \/ \E i \in 1 .. n : Contents[i] = k
      BY <1>1, <2>3
    <3>2. k = c => got < k /\ k \notin gone
      BY <1>1 DEF TypeOK, KeysInv
    <3>3. k <= c <=> k = c \/ k <= nstored
      BY <1>1 DEF Key, TypeOK
    <3>. QED BY <2>1, <2>3, <2>5, <3>1, <3>2, <3>3 DEF KeysInv
  <2>9. ASSUME NEW i \in DOMAIN Contents', NEW j \in DOMAIN Contents',
               i < j, Contents'[j] # Note
        PROVE  Contents'[i] < Contents'[j]
    <3>1. i \in 1 .. n
      BY <1>1, <2>3, <2>9
    <3>2. CASE j = n + 1
      <4>1. Contents'[i] \in 0 .. nstored
        BY <2>3, <2>5, <3>1
      <4>2. Contents'[j] = c
        BY <2>3, <3>2
      <4>. QED BY <1>1, <4>1, <4>2 DEF TypeOK
    <3>3. CASE j \in 1 .. n
      BY <2>3, <2>5, <2>9, <3>1, <3>3 DEF KeysInv
    <3>. QED BY <1>1, <2>3, <3>2, <3>3
  <2>. QED BY <2>6, <2>7, <2>8, <2>9 DEF KeysInv
<1>. QED BY <1>2, <1>3

(* An event of another source is no character, and may be lost.              *)
LEMMA NoteKeys ==
  ASSUME TypeOK, KeysInv, StoreNote
  PROVE  KeysInv'
<1>. DEFINE n == kbd_buffer_nr_stored
<1>1. /\ kbd_buffer_store_event(Note) /\ UNCHANGED <<tty_vars, got, gone>>
      /\ nstored = nread
  BY DEF StoreNote, Idle
<1>2. n \in Nat /\ DOMAIN Contents = 1 .. n /\ buffer_free \in Nat
  BY ContentsType, NoRoom
<1>3. CASE next_kbd_event(kbd_store_ptr) = kbd_fetch_ptr
  <2>1. UNCHANGED queue_vars
    BY <1>1, <1>3 DEF kbd_buffer_store_event, queue_vars
  <2>. QED BY <1>1, <1>2, <2>1, CalmKeys DEF tty_vars, TypeOK
<1>4. CASE next_kbd_event(kbd_store_ptr) # kbd_fetch_ptr
  <2>1. /\ n' = n + 1
        /\ DOMAIN Contents' = 1 .. n + 1
        /\ \A i \in 1 .. n : Contents'[i] = Contents[i]
        /\ Contents'[n + 1] = Note
    BY <1>1, <1>4, PutContents DEF Note
  <2>2. buffer_free' \in Nat
    BY <1>2, <1>4, <2>1, NoRoom, KbdBufferAssumption DEF buffer_free
  <2>. HIDE DEF n
  <2>3. nread' - nstored' <= buffer_free'
    BY <1>1, <2>2 DEF tty_vars, TypeOK
  <2>4. ASSUME NEW k \in Key
        PROVE  (\E i \in DOMAIN Contents' : Contents'[i] = k) <=> \E i \in DOMAIN Contents : Contents[i] = k
    BY <1>2, <2>1 DEF Key, Note
  <2>5. ASSUME NEW i \in DOMAIN Contents', NEW j \in DOMAIN Contents',
               i < j, Contents'[j] # Note
        PROVE  Contents'[i] < Contents'[j]
    <3>1. i \in 1 .. n /\ j \in 1 .. n
      BY <1>2, <2>1, <2>5
    <3>. QED BY <1>2, <2>1, <2>5, <3>1 DEF KeysInv
  <2>. QED BY <1>1, <2>3, <2>4, <2>5 DEF KeysInv, tty_vars
<1>. QED BY <1>3, <1>4

(* The first event is taken: if it is a character, it is the least one.      *)
LEMMA TakeKeys ==
  ASSUME TypeOK, KeysInv, TakeEvent, UNCHANGED tty_vars
  PROVE  KeysInv'
<1>. DEFINE n == kbd_buffer_nr_stored
            first == Contents[1]
<1>1. /\ n \in Nat /\ n > 0 /\ n' = n - 1
      /\ DOMAIN Contents = 1 .. n /\ DOMAIN Contents' = 1 .. n - 1
      /\ \A i \in 1 .. n - 1 : Contents'[i] = Contents[i + 1]
      /\ \A i \in 1 .. n : Contents[i] \in 0 .. nstored
  BY TakeContents, ContentsType
<1>2. got' = (IF first = Note THEN got ELSE first) /\ gone' = gone
  BY TakeContents DEF TakeEvent
<1>3. UNCHANGED <<nread, nstored>>
  BY DEF tty_vars
<1>4. buffer_free \in Nat /\ buffer_free' = buffer_free + 1
  BY <1>1, NoRoom, KbdBufferAssumption DEF buffer_free
<1>. HIDE DEF n
<1>5. nread' - nstored' <= buffer_free'
  BY <1>3, <1>4 DEF KeysInv, TypeOK
<1>6. ASSUME NEW i \in DOMAIN Contents', NEW j \in DOMAIN Contents',
             i < j, Contents'[j] # Note
      PROVE  Contents'[i] < Contents'[j]
  <2>1. i \in 1 .. n - 1 /\ j \in 1 .. n - 1
    BY <1>1
  <2>2. Contents'[i] = Contents[i + 1] /\ Contents'[j] = Contents[j + 1]
    BY <1>1, <2>1, Zenon
  <2>3. i + 1 \in 1 .. n /\ j + 1 \in 1 .. n /\ i + 1 < j + 1
    <3>1. n \in Nat /\ i < j
      BY <1>1, <1>6
    <3>. QED BY <2>1, <3>1
  <2>4. Contents[i + 1] < Contents[j + 1]
    BY <1>1, <1>6, <2>2, <2>3, Zenon DEF KeysInv
  <2>. QED BY <2>2, <2>4
<1>7. ASSUME NEW k \in Key
      PROVE  (\E i \in DOMAIN Contents' : Contents'[i] = k)
               <=> (\E i \in DOMAIN Contents : Contents[i] = k) /\ k # first
  <2>1. ASSUME NEW i \in 1 .. n - 1, Contents'[i] = k
        PROVE  (\E m \in 1 .. n : Contents[m] = k) /\ k # first
    <3>1. 1 \in 1 .. n /\ i + 1 \in 1 .. n /\ 1 < i + 1 /\ Contents[i + 1] = k
      BY <1>1, <2>1
    <3>2. first < k
      <4>1. Contents[i + 1] # Note
        BY <3>1 DEF Key, Note
      <4>2. Contents[1] < Contents[i + 1]
        BY <1>1, <3>1, <4>1, Zenon DEF KeysInv
      <4>. QED BY <3>1, <4>2
    <3>3. k # first
      BY <1>1, <3>1, <3>2 DEF Key
    <3>. QED BY <3>1, <3>3
  <2>2. ASSUME NEW m \in 1 .. n, Contents[m] = k, k # first
        PROVE  \E i \in 1 .. n - 1 : Contents'[i] = k
    <3>1. m - 1 \in 1 .. n - 1 /\ (m - 1) + 1 = m
      BY <1>1, <2>2
    <3>. QED BY <1>1, <2>2, <3>1
  <2>. QED BY <1>1, <2>1, <2>2
<1>8. ASSUME NEW k \in Key
      PROVE  got' < k /\ k <= nstored /\ k \notin gone
               <=> got < k /\ k <= nstored /\ k \notin gone /\ k # first
  <2>1. CASE first = Note
    BY <1>2, <2>1 DEF Key, Note
  <2>2. CASE first # Note
    <3>1. 1 \in 1 .. n /\ first \in Key
      BY <1>1, <2>2, KbdBufferAssumption DEF Note, Key, TypeOK
    <3>2. got < first
      BY <1>1, <3>1 DEF KeysInv
    <3>3. ASSUME got < k, k <= nstored, k \notin gone, k # first
          PROVE  first < k
      <4>1. PICK m \in 1 .. n : Contents[m] = k
        BY <1>1, <3>3 DEF KeysInv
      <4>2. 1 < m /\ Contents[m] # Note
        BY <1>1, <3>3, <4>1 DEF Key, Note
      <4>. QED BY <1>1, <3>1, <4>1, <4>2 DEF KeysInv
    <3>. QED BY <1>2, <2>2, <3>1, <3>2, <3>3 DEF Key, TypeOK
  <2>. QED BY <2>1, <2>2
<1>. QED BY <1>2, <1>3, <1>5, <1>6, <1>7, <1>8 DEF KeysInv

(* The ring is emptied, and every character not yet taken is thrown away.    *)
LEMMA ForgetKeys ==
  ASSUME TypeOK, KeysInv, Fdiscard_input \/ stuff_buffered_input
  PROVE  KeysInv'
<1>1. Forget
  BY DEF Fdiscard_input, stuff_buffered_input
<1>2. DOMAIN Contents' = {} /\ kbd_buffer_nr_stored' = 0
  BY <1>1, ForgetContents
<1>3. nread' = nstored' /\ nstored' \in Nat /\ nstored <= nstored'
  BY <1>1 DEF TypeOK, Forget, MayDiscard, Idle, Fdiscard_input, stuff_buffered_input
<1>4. nread' - nstored' <= buffer_free'
  <2>1. buffer_free' = KBD_BUFFER_SIZE - kbd_buffer_nr_stored' - 1
    BY DEF buffer_free
  <2>2. kbd_buffer_nr_stored' = 0
    BY <1>2
  <2>4. nread' - nstored' = 0
    <3>1. \A a, b \in Nat : a = b => a - b = 0
      OBVIOUS
    <3>. QED BY <1>3, <3>1, Zenon
  <2>3. KBD_BUFFER_SIZE - 0 - 1 >= 0
    BY Sizes
  <2>. QED BY <2>1, <2>2, <2>3, <2>4
<1>5. gone' = gone \cup (got + 1 .. nstored') /\ got' = got /\ got \in Nat
  BY <1>1 DEF Fdiscard_input, stuff_buffered_input, Forget, TypeOK
<1>6. gone' \subseteq 1 .. nstored'
  BY <1>3, <1>5 DEF KeysInv, TypeOK
<1>7. \A k \in Key : ~(got' < k /\ k <= nstored' /\ k \notin gone')
  BY <1>3, <1>5 DEF Key
<1>. QED BY <1>2, <1>4, <1>6, <1>7 DEF KeysInv

LEMMA KeysNext == TypeOK /\ KeysInv /\ [Next]_vars => KeysInv'
<1> SUFFICES ASSUME TypeOK, KeysInv, [Next]_vars PROVE KeysInv'
  OBVIOUS
<1>1. CASE UNCHANGED <<queue_vars, nread, nstored, got, gone>>
  BY <1>1, CalmKeys DEF KeysInv
<1>2. CASE tty_read_avail_input
  <2>1. /\ nstored = nread /\ UNCHANGED <<queue_vars, nstored, got, gone>>
        /\ nread' = IF typed - nread > buffer_free THEN nread + buffer_free ELSE typed
    BY <1>2 DEF tty_read_avail_input, Idle
  <2>2. nread' - nstored <= buffer_free
    BY <2>1, NoRoom DEF TypeOK
  <2>. QED BY <2>1, <2>2, CalmKeys
<1>3. CASE StoreChar
  BY <1>3, StoreKeys
<1>4. CASE StoreNote
  BY <1>4, NoteKeys
<1>5. CASE kbd_buffer_get_event
  <2>1. CASE TakeEvent
    BY <1>5, <2>1, TakeKeys DEF kbd_buffer_get_event
  <2>2. CASE ~TakeEvent
    <3>1. UNCHANGED <<kbd_buffer, kbd_fetch_ptr, kbd_store_ptr, nread, nstored, got, gone>>
      BY <1>5, <2>2 DEF kbd_buffer_get_event, tty_vars
    <3>2. Contents' = Contents /\ buffer_free' = buffer_free
      BY <3>1, SameContents DEF buffer_free
    <3>. QED BY <3>1, <3>2 DEF KeysInv
  <2>. QED BY <2>1, <2>2
<1>6. CASE WaitEnds
  BY <1>6, TakeKeys DEF WaitEnds
<1>7. CASE Fdiscard_input \/ stuff_buffered_input
  BY <1>7, ForgetKeys
<1>8. CASE \/ Type \/ quit_throw_to_read_char \/ TimesOut \/ RunLisp \/ LispReturns
           \/ unbind_to \/ maybe_quit
  <2>1. UNCHANGED <<queue_vars, nread, nstored, got, gone>>
    BY <1>8 DEF Type, quit_throw_to_read_char, TimesOut, RunLisp, LispReturns, unbind_to,
                maybe_quit, StopWaiting, tty_vars
  <2>. QED BY <1>1, <2>1
<1>9. CASE UNCHANGED vars
  BY <1>1, <1>9 DEF vars, tty_vars
<1>. QED BY <1>2, <1>3, <1>4, <1>5, <1>6, <1>7, <1>8, <1>9 DEF Next

(* Whatever is typed and stored in whatever order, at any ring size and any  *)
(* nesting of readers: the characters in the ring are those stored that Lisp *)
(* has not read and nobody threw away, in the order typed.                   *)
THEOREM CharactersKept == Spec => []NoKeyLost
<1>1. Init => TypeOK /\ KeysInv
  BY TypeInit, KeysInit
<1>2. TypeOK /\ KeysInv /\ [Next]_vars => TypeOK' /\ KeysInv'
  BY TypeNext, KeysNext
<1>. QED BY <1>1, <1>2, KeysInvImplies, PTL DEF Spec

-----------------------------------------------------------------------------
(* The ring implements the queue *)

LEMMA QueueInit == Init => IQ!Init
<1> SUFFICES ASSUME Init PROVE IQ!Init
  OBVIOUS
<1>1. kbd_buffer_nr_stored = 0
  BY DEF Init, kbd_buffer_nr_stored, NrStored
<1>2. Contents = <<>>
  BY <1>1 DEF Contents
<1>. QED BY <1>2 DEF Init, IQ!Init

LEMMA QueueStoreEvent ==
  ASSUME TypeOK, NEW e \in Key \cup {Note}, kbd_buffer_store_event(e), gone' = gone
  PROVE  IQ!Put(e) \/ UNCHANGED <<Contents, gone>>
<1>1. CASE next_kbd_event(kbd_store_ptr) = kbd_fetch_ptr
  BY <1>1, SameContents DEF kbd_buffer_store_event
<1>2. CASE next_kbd_event(kbd_store_ptr) # kbd_fetch_ptr
  <2>1. e \in Nat
    BY DEF Key, Note
  <2>2. Contents' = Append(Contents, e)
    BY <1>2, <2>1, PutContents
  <2>3. Len(Contents) < KBD_BUFFER_SIZE - 1
    BY <1>2, NoRoom, ContentsType, KbdBufferAssumption DEF buffer_free
  <2>. QED BY <2>2, <2>3 DEF IQ!Put
<1>. QED BY <1>1, <1>2

LEMMA QueueStoreChar ==
  ASSUME TypeOK, KeysInv, StoreChar
  PROVE  IQ!Next \/ UNCHANGED <<Contents, gone>>
<1>. DEFINE c == nstored + 1
<1>1. c \in Key /\ c .. nread \subseteq Key
  BY KbdBufferAssumption DEF TypeOK, StoreChar, Idle, Key
<1>2. CASE c \in Quit
  <2>1. UNCHANGED queue_vars /\ gone' = gone \cup (c .. nread)
    BY <1>2 DEF StoreChar
  <2>2. Contents' = Contents
    BY <2>1, SameContents DEF queue_vars
  <2>3. c .. nread \in SUBSET (Key \ {Contents[i] : i \in DOMAIN Contents})
    BY <1>1, ContentsType DEF TypeOK
  <2>. QED BY <2>1, <2>2, <2>3 DEF IQ!Drop, IQ!Next
<1>3. CASE c \notin Quit
  <2>1. kbd_buffer_store_event(c) /\ gone' = gone
    BY <1>3 DEF StoreChar
  <2>. QED BY <1>1, <2>1, QueueStoreEvent DEF IQ!Next, IQ!Event
<1>. QED BY <1>2, <1>3

LEMMA QueueForget ==
  ASSUME TypeOK, TypeOK', KeysInv, Fdiscard_input \/ stuff_buffered_input
  PROVE  IQ!Flush
<1>1. Contents' = <<>>
  BY ForgetContents DEF Fdiscard_input, stuff_buffered_input
<1>2. gone \subseteq gone' /\ got + 1 .. nstored \subseteq gone'
  BY DEF Fdiscard_input, stuff_buffered_input, TypeOK
<1>3. {Contents[i] : i \in DOMAIN Contents} \ {Note} \subseteq gone'
  <2>1. NoKeyLost /\ Idle
    BY KeysInvImplies DEF Fdiscard_input, stuff_buffered_input, Forget, MayDiscard
  <2>. QED BY <1>2, <2>1 DEF NoKeyLost
<1>4. gone' \subseteq Key
  BY KbdBufferAssumption DEF TypeOK, Key
<1>. QED BY <1>1, <1>2, <1>3, <1>4 DEF IQ!Flush

LEMMA QueueNext ==
  TypeOK /\ TypeOK' /\ KeysInv /\ [Next]_vars => [IQ!Next]_<<Contents, gone>>
<1> SUFFICES ASSUME TypeOK, TypeOK', KeysInv, [Next]_vars
             PROVE  IQ!Next \/ UNCHANGED <<Contents, gone>>
  OBVIOUS
<1>1. CASE UNCHANGED <<kbd_buffer, kbd_fetch_ptr, kbd_store_ptr, gone>>
  BY <1>1, SameContents
<1>2. CASE TakeEvent
  <2>1. Contents # <<>> /\ Contents' = Tail(Contents) /\ gone' = gone
    BY <1>2, TakeContents DEF TakeEvent
  <2>. QED BY <2>1 DEF IQ!Take, IQ!Next
<1>3. CASE StoreChar
  BY <1>3, QueueStoreChar
<1>4. CASE StoreNote
  <2>1. kbd_buffer_store_event(Note) /\ gone' = gone
    BY <1>4 DEF StoreNote
  <2>. QED BY <2>1, QueueStoreEvent DEF IQ!Next, IQ!Event
<1>5. CASE kbd_buffer_get_event
  BY <1>1, <1>2, <1>5 DEF kbd_buffer_get_event
<1>6. CASE WaitEnds
  BY <1>2, <1>6 DEF WaitEnds
<1>7. CASE Fdiscard_input \/ stuff_buffered_input
  BY <1>7, QueueForget DEF IQ!Next
<1>8. CASE \/ Type \/ tty_read_avail_input \/ quit_throw_to_read_char \/ TimesOut \/ RunLisp
           \/ LispReturns \/ unbind_to \/ maybe_quit
  <2>1. UNCHANGED <<queue_vars, gone>>
    BY <1>8 DEF Type, tty_read_avail_input, quit_throw_to_read_char, TimesOut, RunLisp,
                LispReturns, unbind_to, maybe_quit, StopWaiting
  <2>. QED BY <1>1, <2>1 DEF queue_vars
<1>9. CASE UNCHANGED vars
  BY <1>1, <1>9 DEF vars, queue_vars
<1>. QED BY <1>3, <1>4, <1>5, <1>6, <1>7, <1>8, <1>9 DEF Next

(* The ring is a bounded queue that holds one event less than it has slots:  *)
(* every step of the keyboard buffer is a step of InputQueue, or none.       *)
THEOREM RingIsQueue == Spec => IsInputQueue
<1>1. Init => TypeOK /\ KeysInv /\ IQ!Init
  BY TypeInit, KeysInit, QueueInit
<1>2. TypeOK /\ KeysInv /\ [Next]_vars => TypeOK' /\ KeysInv'
  BY TypeNext, KeysNext
<1>. QED BY <1>1, <1>2, QueueNext, PTL DEF Spec, IsInputQueue, IQ!Spec
=============================================================================
