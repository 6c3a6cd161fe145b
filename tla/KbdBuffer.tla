----------------------------- MODULE KbdBuffer ------------------------------
(***************************************************************************)
(* The keyboard buffer (keyboard.c): a ring of events between one terminal *)
(* and the readers of the command loop.  When it is more than half full    *)
(* the terminal is no longer read (on hold); a reader lifts the hold when  *)
(* less than a quarter is left.                                            *)
(*                                                                         *)
(* A reader that waits runs Lisp (timers, process filters), which may read *)
(* events itself: readers nest.  A step is what runs without being         *)
(* interrupted; the characters of one read of the terminal are stored one  *)
(* by one, while the user may type more but nothing else happens.          *)
(***************************************************************************)
EXTENDS Naturals, Sequences, FiniteSets

CONSTANTS
  KBD_BUFFER_SIZE,
  MaxTyped,           \* bound: characters typed, numbered from 1
  Quit,               \* the ones among them that are C-g
  MaxNotes,           \* bound: events of other sources in the buffer
  MaxDepth,           \* bound: readers that wait inside one another
  MayDiscardInWait    \* whether Lisp run by a waiting reader discards input

ASSUME KbdBufferAssumption ==
  /\ KBD_BUFFER_SIZE \in Nat
  /\ MaxTyped \in Nat /\ MaxNotes \in Nat /\ MaxDepth \in Nat
  /\ KBD_BUFFER_SIZE \div 4 > MaxDepth
  /\ Quit \subseteq 1 .. MaxTyped
  /\ MayDiscardInWait \in BOOLEAN

Slot == 0 .. KBD_BUFFER_SIZE - 1
Key  == 1 .. MaxTyped
Note == 0                   \* an event that is no character: focus, file change

VARIABLES
  kbd_buffer, kbd_fetch_ptr, kbd_store_ptr,
  kbd_is_on_hold,
  Vquit_flag,
  typed,        \* the last character typed
  nread,        \* the last one read from the terminal
  nstored,      \* the last one passed to kbd_buffer_store_event
  mode,         \* what the main thread does: "lisp", or "wait" for input
  depth,        \* number of readers that wait
  got, gone     \* the last character read by Lisp; the ones thrown away

queue_vars == <<kbd_buffer, kbd_fetch_ptr, kbd_store_ptr, kbd_is_on_hold>>
tty_vars   == <<typed, nread, nstored>>
vars == <<queue_vars, Vquit_flag, tty_vars, mode, depth, got, gone>>

TypeOK ==
  /\ kbd_buffer \in [Slot -> 0 .. nstored]
  /\ kbd_fetch_ptr \in Slot /\ kbd_store_ptr \in Slot
  /\ kbd_is_on_hold \in BOOLEAN /\ Vquit_flag \in BOOLEAN
  /\ typed \in 0 .. MaxTyped
  /\ nread \in 0 .. typed
  /\ nstored \in 0 .. nread
  /\ got \in 0 .. nstored
  /\ gone \subseteq 1 .. nread
  /\ mode \in {"lisp", "wait"}
  /\ depth \in 0 .. MaxDepth
  /\ mode = "wait" => depth > 0

Init ==
  /\ kbd_buffer = [s \in Slot |-> Note]
  /\ kbd_fetch_ptr = 0 /\ kbd_store_ptr = 0
  /\ kbd_is_on_hold = FALSE
  /\ Vquit_flag = FALSE
  /\ typed = 0 /\ nread = 0 /\ nstored = 0
  /\ mode = "lisp" /\ depth = 0
  /\ got = 0 /\ gone = {}

-----------------------------------------------------------------------------
(* The ring *)

(* Mutant: the pointer runs one slot past the end. *)
next_kbd_event_Late(p) == IF p = KBD_BUFFER_SIZE THEN 0 ELSE p + 1

next_kbd_event(p) == IF p = KBD_BUFFER_SIZE - 1 THEN 0 ELSE p + 1

NrStored(fetch, store) ==
  IF store < fetch THEN store + KBD_BUFFER_SIZE - fetch ELSE store - fetch

kbd_buffer_nr_stored == NrStored(kbd_fetch_ptr, kbd_store_ptr)

Empty == kbd_fetch_ptr = kbd_store_ptr

(* The events of the ring, the oldest first. *)
SlotOf(i) ==
  IF kbd_fetch_ptr + i > KBD_BUFFER_SIZE
  THEN kbd_fetch_ptr + i - 1 - KBD_BUFFER_SIZE
  ELSE kbd_fetch_ptr + i - 1

Contents == [i \in 1 .. kbd_buffer_nr_stored |-> kbd_buffer[SlotOf(i)]]

(* Mutant: the last slot is filled as well. *)
kbd_buffer_store_event_Full(e) ==
  /\ kbd_buffer' = [kbd_buffer EXCEPT ![kbd_store_ptr] = e]
  /\ kbd_store_ptr' = next_kbd_event(kbd_store_ptr)
  /\ kbd_is_on_hold' = IF kbd_buffer_nr_stored >= KBD_BUFFER_SIZE \div 2
                       THEN TRUE ELSE kbd_is_on_hold
  /\ Vquit_flag' \in {Vquit_flag, TRUE}
  /\ UNCHANGED kbd_fetch_ptr

(* E is stored, or lost if it would fill the last slot.  Inside              *)
(* while-no-input it also sets the quit flag.                                *)
kbd_buffer_store_event(e) ==
  LET next_slot == next_kbd_event(kbd_store_ptr) IN
  /\ \/ /\ next_slot # kbd_fetch_ptr
        /\ kbd_buffer' = [kbd_buffer EXCEPT ![kbd_store_ptr] = e]
        /\ kbd_store_ptr' = next_slot
        /\ kbd_is_on_hold' = IF NrStored(kbd_fetch_ptr, next_slot) > KBD_BUFFER_SIZE \div 2
                             THEN TRUE ELSE kbd_is_on_hold
     \/ /\ next_slot = kbd_fetch_ptr
        /\ UNCHANGED <<kbd_buffer, kbd_store_ptr, kbd_is_on_hold>>
  /\ Vquit_flag' \in {Vquit_flag, TRUE}
  /\ UNCHANGED kbd_fetch_ptr

(* Mutant: the slot that must stay free is counted too. *)
buffer_free_All == KBD_BUFFER_SIZE - kbd_buffer_nr_stored

buffer_free == KBD_BUFFER_SIZE - kbd_buffer_nr_stored - 1

-----------------------------------------------------------------------------
(* The terminal *)

(* No read of the terminal is under way. *)
Idle == nstored = nread

Type ==
  /\ typed < MaxTyped
  /\ typed' = typed + 1
  /\ UNCHANGED <<queue_vars, Vquit_flag, nread, nstored, mode, depth, got, gone>>

(* Called for SIGIO, by a waiting reader and by input-pending-p. *)
tty_read_avail_input ==
  /\ Idle
  /\ ~kbd_is_on_hold /\ buffer_free > 0
  /\ nread < typed
  /\ nread' = IF typed - nread > buffer_free THEN nread + buffer_free ELSE typed
  /\ UNCHANGED <<queue_vars, Vquit_flag, typed, nstored, mode, depth, got, gone>>

(* The next character read; what follows a C-g is not looked at. *)
StoreChar ==
  LET c == nstored + 1 IN
  /\ ~Idle
  /\ \/ /\ c \notin Quit
        /\ kbd_buffer_store_event(c)
        /\ nstored' = c
        /\ UNCHANGED gone
     \/ /\ c \in Quit                              \* handle_interrupt
        /\ Vquit_flag' = TRUE
        /\ nstored' = nread
        /\ gone' = gone \cup (c .. nread)
        /\ UNCHANGED queue_vars
  /\ UNCHANGED <<typed, nread, mode, depth, got>>

(* Another source has an event: a file change, a thread, a signal. *)
StoreNote ==
  /\ Idle
  /\ \/ Cardinality({i \in DOMAIN Contents : Contents[i] = Note}) < MaxNotes
     \/ buffer_free = 0
  /\ kbd_buffer_store_event(Note)
  /\ UNCHANGED <<tty_vars, mode, depth, got, gone>>

-----------------------------------------------------------------------------
(* The readers *)

(* Mutant: the hold is lifted only when nothing is left. *)
Unhold_WhenEmpty == kbd_is_on_hold' = IF Empty THEN FALSE ELSE kbd_is_on_hold

(* Mutant: the hold is never lifted. *)
Unhold_Never == UNCHANGED kbd_is_on_hold

Unhold ==
  kbd_is_on_hold' = IF kbd_buffer_nr_stored < KBD_BUFFER_SIZE \div 4
                    THEN FALSE ELSE kbd_is_on_hold

TakeEvent ==
  LET event == kbd_buffer[kbd_fetch_ptr] IN
  /\ ~Empty
  /\ kbd_buffer' = [kbd_buffer EXCEPT ![kbd_fetch_ptr] = Note]
  /\ kbd_fetch_ptr' = next_kbd_event(kbd_fetch_ptr)
  /\ got' = IF event = Note THEN got ELSE event
  /\ UNCHANGED <<kbd_store_ptr, gone>>

(* An event that is there is returned at once; else the reader waits. *)
kbd_buffer_get_event ==
  /\ Idle /\ mode = "lisp"
  /\ Unhold
  /\ \/ /\ TakeEvent
        /\ UNCHANGED <<mode, depth>>
     \/ /\ Empty /\ depth < MaxDepth
        /\ mode' = "wait" /\ depth' = depth + 1
        /\ UNCHANGED <<kbd_buffer, kbd_fetch_ptr, kbd_store_ptr, got, gone>>
  /\ UNCHANGED <<Vquit_flag, tty_vars>>

(* The innermost waiting reader returns. *)
StopWaiting ==
  /\ Idle /\ mode = "wait"
  /\ mode' = "lisp" /\ depth' = depth - 1

WaitEnds ==
  /\ StopWaiting
  /\ TakeEvent
  /\ UNCHANGED <<kbd_is_on_hold, Vquit_flag, tty_vars>>

(* C-g: read_char returns the quit character, whatever is in the ring, and   *)
(* clears the flag where quitting is inhibited, as it is in Lisp that a      *)
(* waiting reader runs.                                                      *)
quit_throw_to_read_char ==
  /\ StopWaiting
  /\ Vquit_flag
  /\ Vquit_flag' = (depth = 1)
  /\ UNCHANGED <<queue_vars, tty_vars, got, gone>>

TimesOut ==
  /\ StopWaiting
  /\ Empty /\ ~Vquit_flag
  /\ UNCHANGED <<queue_vars, Vquit_flag, tty_vars, got, gone>>

-----------------------------------------------------------------------------
(* Lisp *)

(* A waiting reader runs a timer or a process filter. *)
RunLisp ==
  /\ Idle /\ mode = "wait"
  /\ mode' = "lisp"
  /\ UNCHANGED <<queue_vars, Vquit_flag, tty_vars, depth, got, gone>>

LispReturns ==
  /\ Idle /\ mode = "lisp" /\ depth > 0
  /\ mode' = "wait"
  /\ UNCHANGED <<queue_vars, Vquit_flag, tty_vars, depth, got, gone>>

(* A throw ends readers that wait. *)
unbind_to ==
  /\ Idle /\ mode = "lisp"
  /\ \E d \in 0 .. MaxDepth : d < depth /\ depth' = d
  /\ UNCHANGED <<queue_vars, Vquit_flag, tty_vars, mode, got, gone>>

maybe_quit ==
  /\ Idle /\ mode = "lisp" /\ Vquit_flag
  /\ Vquit_flag' = FALSE
  /\ UNCHANGED <<queue_vars, tty_vars, mode, depth, got, gone>>

MayDiscard == Idle /\ mode = "lisp" /\ (depth = 0 \/ MayDiscardInWait)

(* The hold stays. *)
Forget ==
  /\ MayDiscard
  /\ kbd_fetch_ptr' = kbd_store_ptr
  /\ kbd_buffer' = [s \in Slot |-> Note]      \* what free slots hold is of no account
  /\ UNCHANGED <<kbd_store_ptr, kbd_is_on_hold, Vquit_flag, typed, mode, depth, got>>

(* Also what the terminal has received is thrown away. *)
Fdiscard_input ==
  /\ Forget
  /\ nread' = typed /\ nstored' = typed
  /\ gone' = gone \cup (got + 1 .. typed)

(* Suspending gives the characters that were not used to the shell. *)
stuff_buffered_input ==
  /\ Forget
  /\ gone' = gone \cup (got + 1 .. nstored)
  /\ UNCHANGED <<nread, nstored>>

-----------------------------------------------------------------------------
Next ==
  \/ Type
  \/ tty_read_avail_input
  \/ StoreChar
  \/ StoreNote
  \/ kbd_buffer_get_event
  \/ WaitEnds
  \/ quit_throw_to_read_char
  \/ TimesOut
  \/ RunLisp
  \/ LispReturns
  \/ unbind_to
  \/ maybe_quit
  \/ Fdiscard_input
  \/ stuff_buffered_input

Spec == Init /\ [][Next]_vars

(* The terminal is polled, its characters are stored, Lisp ends and goes     *)
(* back to reading, and a reader looks at the buffer before it runs more     *)
(* Lisp (hence SF: Lisp that keeps running does not keep it from looking).   *)
Fairness ==
  /\ SF_vars(tty_read_avail_input)
  /\ WF_vars(StoreChar)
  /\ SF_vars(kbd_buffer_get_event)
  /\ SF_vars(WaitEnds)
  /\ WF_vars(LispReturns)

FairSpec == Spec /\ Fairness

-----------------------------------------------------------------------------
(* Properties *)

(* The ring is a queue: events come out in the order they went in, and none  *)
(* is overwritten or read twice, across the wrap-around, a full buffer and   *)
(* nested readers.                                                           *)
IQ == INSTANCE InputQueue WITH queue <- Contents, Capacity <- KBD_BUFFER_SIZE - 1
IsInputQueue == IQ!Spec

(* Every character taken from the terminal is in the buffer, in the order    *)
(* typed, until Lisp reads it or it is thrown away on purpose: other events  *)
(* that fill the buffer may be lost, but never cost a character.             *)
NoKeyLost ==
  Idle =>
    /\ {Contents[i] : i \in DOMAIN Contents} \ {Note} = (got + 1 .. nstored) \ gone
    /\ \A i, j \in DOMAIN Contents :
         i < j /\ Contents[j] # Note => Contents[i] < Contents[j]

(* "Don't read keyboard input until we have processed kbd_buffer": a reader  *)
(* never waits for the terminal while it is on hold, when nothing is left to *)
(* process, since nobody would lift the hold.                                *)
HeldOnlyWithInput ==
  mode = "wait" /\ Idle /\ kbd_is_on_hold => ~Empty

(* When the user stops typing, all that was typed has been read by Lisp or   *)
(* thrown away on purpose in the end: no hold lasts for ever, and no order   *)
(* of reads, C-g, discards and nested readers leaves a character behind.     *)
(* The other sources must not fill a quarter of the buffer on their own.     *)
AllTaken == []<>(\A k \in 1 .. typed : k <= got \/ k \in gone)
=============================================================================
