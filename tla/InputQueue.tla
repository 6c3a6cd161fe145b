----------------------------- MODULE InputQueue -----------------------------
(***************************************************************************)
(* What the keyboard buffer promises to the command loop: a bounded queue  *)
(* of events, read in the order they were stored.  Nothing leaves it but   *)
(* by being read, or by being thrown away for good.                        *)
(***************************************************************************)
EXTENDS Naturals, Sequences

CONSTANTS Key, Note, Capacity

VARIABLES
  queue,     \* the events stored and not yet read
  gone       \* the keys thrown away, in the queue or before they got there

Event == Key \cup {Note}

Init ==
  /\ queue = <<>>
  /\ gone = {}

Put(e) ==
  /\ Len(queue) < Capacity
  /\ queue' = Append(queue, e)
  /\ UNCHANGED gone

Take ==
  /\ queue # <<>>
  /\ queue' = Tail(queue)
  /\ UNCHANGED gone

(* Keys that are not in the queue are thrown away. *)
Drop ==
  /\ \E keys \in SUBSET (Key \ {queue[i] : i \in DOMAIN queue}) : gone' = gone \cup keys
  /\ UNCHANGED queue

(* The queue is emptied, and all that was in it, if not more, is gone. *)
Flush ==
  /\ queue' = <<>>
  /\ {queue[i] : i \in DOMAIN queue} \ {Note} \subseteq gone'
  /\ gone \subseteq gone'
  /\ gone' \subseteq Key

Next ==
  \/ \E e \in Event : Put(e)
  \/ Take
  \/ Drop
  \/ Flush

Spec == Init /\ [][Next]_<<queue, gone>>
=============================================================================
