--------------------------- MODULE ProcessesProofs ---------------------------
(* What holds of Processes for any number of children, whatever they write and *)
(* however often they are stopped, and for Lisp that calls and throws as often *)
(* and as deep as it likes.                                                   *)
EXTENDS Processes, FiniteSetTheorems, SequenceTheorems, WellFoundedInduction, TLAPS

(* The part of TypeOK that says what is known of the children *)
Typed ==
  /\ kid \in [Proc -> Kid]
  /\ process \in [Proc -> Lisp_Process]
  /\ deleted_pid_list \subseteq Proc

IInv == Typed /\ NeverReapedTwice

(* A child that Emacs may still wait for *)
Unreaped(k) == k.state \notin {"none", "reaped"}

(* Both records of a child keep their type and what NeverReapedTwice reads.    *)
SameKid(k, new) == new \in Kid /\ (Unreaped(k) => Unreaped(new))
SameProcess(s, new) == new \in Lisp_Process /\ new.alive = s.alive

(* A step that leaves the children and the two records of them alone, whatever *)
(* else of struct Lisp_Process it changes, keeps the invariant.                *)
LEMMA RecordsUntouched ==
  ASSUME IInv,
         process' \in [Proc -> Lisp_Process], kid' \in [Proc -> Kid],
         \A p \in Proc : SameProcess(process[p], process'[p]),
         \A p \in Proc : SameKid(kid[p], kid'[p]),
         UNCHANGED deleted_pid_list
  PROVE  IInv'
BY DEF IInv, Typed, NeverReapedTwice, SameKid, SameProcess, Unreaped

(* It is enough to look at the one process that is changed, if it is one. *)
LEMMA OneProcess ==
  ASSUME IInv, NEW p, NEW s,
         p \in Proc => SameProcess(process[p], s),
         process' = [process EXCEPT ![p] = s],
         UNCHANGED <<kid, deleted_pid_list>>
  PROVE  IInv'
<1>1. process' \in [Proc -> Lisp_Process] /\ \A q \in Proc : SameProcess(process[q], process'[q])
  BY DEF IInv, Typed, SameProcess
<1>2. kid' \in [Proc -> Kid] /\ \A q \in Proc : SameKid(kid[q], kid'[q])
  BY DEF IInv, Typed, SameKid
<1> QED BY <1>1, <1>2, RecordsUntouched

LEMMA OneKid ==
  ASSUME IInv, NEW p, NEW k,
         p \in Proc => SameKid(kid[p], k),
         kid' = [kid EXCEPT ![p] = k],
         UNCHANGED <<process, deleted_pid_list>>
  PROVE  IInv'
<1>1. process' \in [Proc -> Lisp_Process] /\ \A q \in Proc : SameProcess(process[q], process'[q])
  BY DEF IInv, Typed, SameProcess
<1>2. kid' \in [Proc -> Kid] /\ \A q \in Proc : SameKid(kid[q], kid'[q])
  BY DEF IInv, Typed, SameKid
<1> QED BY <1>1, <1>2, RecordsUntouched

LEMMA NoChild ==
  ASSUME IInv, UNCHANGED <<kid, process, deleted_pid_list>>
  PROVE  IInv'
BY DEF IInv, Typed, NeverReapedTwice

(* What the functions on struct Lisp_Process leave alone *)
LEMMA ProcessFields ==
  ASSUME NEW s \in Lisp_Process
  PROVE  /\ SameProcess(s, [s EXCEPT !.ticked = FALSE])
         /\ SameProcess(s, [s EXCEPT !.watched = FALSE])
         /\ SameProcess(s, [s EXCEPT !.raw_status_new = Nil])
         /\ SameProcess(s, deactivate_process(s))
         /\ SameProcess(s, deactivate_process([s EXCEPT !.ticked = FALSE]))
         /\ SameProcess(s, Tick([s EXCEPT !.raw_status_new = Nil, !.status = "run"]))
         /\ SameProcess(s, deactivate_process(
                              Tick([s EXCEPT !.raw_status_new = Nil, !.status = "exit"])))
         /\ s.raw_status_new # Nil => SameProcess(s, update_status(s))
BY DEF SameProcess, Lisp_Process, Status, deactivate_process, Tick, update_status

LEMMA KidFields ==
  ASSUME NEW k \in Kid
  PROVE  /\ k.state = "run" /\ k.left > 0 =>
              SameKid(k, Writing(k))
         /\ k.state = "run" /\ k.stops > 0 =>
              SameKid(k, Stopped(k))
         /\ SameKid(k, Dead(k))
         /\ k.out > 0 => SameKid(k, Read(k))
         /\ SameKid(k, Continued(k))
<1>1. k.state = "run" /\ k.left > 0 => SameKid(k, Writing(k))
  <2>1. ASSUME NEW i \in Nat, NEW j \in Nat
        PROVE  SameKid(k, [k EXCEPT !.out = i, !.left = j])
    BY DEF SameKid, Unreaped, Kid
  <2>2. k.out + 1 \in Nat /\ (k.left > 0 => k.left - 1 \in Nat)
    BY DEF Kid
  <2> QED BY <2>1, <2>2 DEF Writing
<1>2. k.state = "run" /\ k.stops > 0 => SameKid(k, Stopped(k))
  <2>1. ASSUME NEW j \in Nat
        PROVE  k.state = "run" =>
                 SameKid(k, [k EXCEPT !.state = "stop", !.news = "stop", !.stops = j])
    BY DEF SameKid, Unreaped, Kid, Status
  <2>2. k.stops > 0 => k.stops - 1 \in Nat
    BY DEF Kid
  <2> QED BY <2>1, <2>2 DEF Stopped
<1>3. SameKid(k, Dead(k))
  BY DEF SameKid, Unreaped, Kid, Status, Dead
<1>4. k.out > 0 => SameKid(k, Read(k))
  BY DEF Read, SameKid, Unreaped, Kid
<1>5. SameKid(k, Continued(k))
  BY DEF Continued, SameKid, Unreaped, Kid, Status
<1> QED BY <1>1, <1>2, <1>3, <1>4, <1>5

LEMMA InitInv == Init => IInv
<1> SUFFICES ASSUME Init PROVE IInv
  OBVIOUS
<1>1. kid \in [Proc -> Kid]
  <2>1. ASSUME NEW p \in Proc PROVE MaxOutput[p] \in Nat /\ MaxStops[p] \in Nat
    BY ProcessesAssumption DEF ProcessesAssumption
  <2>2. ASSUME NEW i \in Nat, NEW j \in Nat
        PROVE  [state |-> "none", news |-> Nil, out |-> 0, left |-> i, stops |-> j] \in Kid
    BY DEF Kid
  <2> QED BY <2>1, <2>2 DEF Init
<1>2. process \in [Proc -> Lisp_Process]
  <2>1. [ticked |-> FALSE, status |-> "run", raw_status_new |-> Nil,
         alive |-> FALSE, open |-> FALSE, watched |-> FALSE] \in Lisp_Process
    BY DEF Lisp_Process, Status
  <2> QED BY <2>1 DEF Init
<1>3. deleted_pid_list = {} /\ \A p \in Proc : ~process[p].alive
  BY DEF Init
<1> QED BY <1>1, <1>2, <1>3 DEF IInv, Typed, NeverReapedTwice

LEMMA ChildInv == IInv /\ Child => IInv'
<1> SUFFICES ASSUME IInv, NEW p \in Proc, KidWrites(p) \/ KidStops(p) \/ KidExits(p)
             PROVE  IInv'
  BY DEF Child
<1>1. UNCHANGED <<process, deleted_pid_list>>
  BY DEF KidWrites, KidStops, KidExits
<1>2. kid[p] \in Kid
  BY DEF IInv, Typed
<1>3. CASE KidWrites(p)
  BY <1>1, <1>2, <1>3, KidFields, OneKid DEF KidWrites
<1>4. CASE KidStops(p)
  BY <1>1, <1>2, <1>4, KidFields, OneKid DEF KidStops
<1>5. CASE KidExits(p)
  BY <1>1, <1>2, <1>5, KidFields, OneKid DEF KidExits
<1> QED BY <1>3, <1>4, <1>5

(* The handler: a child it reaps leaves the record it was found on.            *)
LEMMA HandlerInv == IInv /\ handle_child_signal => IInv'
<1> SUFFICES ASSUME IInv, handle_child_signal PROVE IInv'
  OBVIOUS
<1> DEFINE gone == {p \in deleted_pid_list : kid[p].news = "exit"}
           changed == {p \in Listed : process[p].alive /\ kid[p].news # Nil}
           over == {p \in changed : kid[p].news = "exit"}
<1>1. kid' = [p \in Proc |->
                IF p \in gone \cup over THEN [kid[p] EXCEPT !.state = "reaped", !.news = Nil]
                ELSE IF p \in changed THEN [kid[p] EXCEPT !.news = Nil] ELSE kid[p]]
  BY DEF handle_child_signal
<1>2. deleted_pid_list' = deleted_pid_list \ gone
  BY DEF handle_child_signal
<1>3. process' = [p \in Proc |->
                    IF p \in changed THEN WithStatus(process[p], kid[p].news) ELSE process[p]]
  BY DEF handle_child_signal
<1>4. \A p \in Proc : p \in changed => process[p].alive /\ kid[p].news # Nil
  OBVIOUS
<1>5. \A p \in Proc : p \in over <=> p \in changed /\ kid[p].news = "exit"
  OBVIOUS
<1>6. \A p \in Proc : p \in gone <=> p \in deleted_pid_list /\ kid[p].news = "exit"
  OBVIOUS
<1> HIDE DEF gone, changed, over
<1>7. kid' \in [Proc -> Kid]
  <2>1. \A k \in Kid : /\ [k EXCEPT !.state = "reaped", !.news = Nil] \in Kid
                       /\ [k EXCEPT !.news = Nil] \in Kid
    BY DEF Kid
  <2> QED BY <1>1, <2>1 DEF IInv, Typed
<1>8. process' \in [Proc -> Lisp_Process]
  <2>1. \A s \in Lisp_Process, news \in Status : WithStatus(s, news) \in Lisp_Process
    BY DEF Lisp_Process, WithStatus
  <2>2. \A p \in Proc : kid[p].news # Nil => kid[p].news \in Status
    BY DEF IInv, Typed, Kid
  <2> QED BY <1>3, <1>4, <2>1, <2>2 DEF IInv, Typed
<1>9. deleted_pid_list' \subseteq Proc
  BY <1>2 DEF IInv, Typed
<1>10. ASSUME NEW p \in Proc, process'[p].alive \/ p \in deleted_pid_list'
       PROVE  /\ kid'[p].state \notin {"none", "reaped"}
              /\ ~(process'[p].alive /\ p \in deleted_pid_list')
  <2>1. process'[p].alive => process[p].alive /\ p \notin over
    <3>1. \A s \in Lisp_Process, news \in Status :
             WithStatus(s, news).alive = (s.alive /\ news # "exit")
      BY DEF Lisp_Process, WithStatus
    <3>2. process[p] \in Lisp_Process /\ kid[p].news \in Status \cup {Nil}
      BY DEF IInv, Typed, Kid
    <3> QED BY <1>3, <1>4, <1>5, <3>1, <3>2
  <2>2. p \in deleted_pid_list' => p \in deleted_pid_list /\ p \notin gone
    BY <1>2
  <2>3. /\ kid[p].state \notin {"none", "reaped"}
        /\ ~(process[p].alive /\ p \in deleted_pid_list)
    BY <1>10, <2>1, <2>2 DEF IInv, NeverReapedTwice
  <2>4. p \notin gone \cup over
    BY <1>10, <2>1, <2>2, <2>3, <1>4, <1>5, <1>6
  <2>5. kid'[p].state = kid[p].state
    BY <1>1, <2>4 DEF IInv, Typed, Kid
  <2> QED BY <2>1, <2>2, <2>3, <2>5
<1> QED BY <1>7, <1>8, <1>9, <1>10 DEF IInv, Typed, NeverReapedTwice

(* delete-process moves the child from one record to the other.                *)
LEMMA DeleteInv == ASSUME NEW p \in Proc, IInv, Fdelete_process(p) PROVE IInv'
<1>1. process[p] \in Lisp_Process /\ kid[p] \in Kid
  BY DEF IInv, Typed
<1>2. PICK s \in Lisp_Process : ~s.alive /\ process' = [process EXCEPT ![p] = s]
  <2>1. CASE process[p].open
    <3> DEFINE s == Tick([process[p] EXCEPT !.raw_status_new = Nil, !.alive = FALSE, !.status = "exit"])
    <3>1. s \in Lisp_Process /\ ~s.alive
      BY <1>1 DEF Tick, Lisp_Process, Status
    <3>2. process' = [process EXCEPT ![p] = s]
      BY <2>1 DEF Fdelete_process
    <3> QED BY <3>1, <3>2
  <2>2. CASE ~process[p].open
    <3> DEFINE s == deactivate_process([process[p] EXCEPT !.raw_status_new = Nil, !.alive = FALSE])
    <3>1. s \in Lisp_Process /\ ~s.alive
      BY <1>1 DEF deactivate_process, Lisp_Process
    <3>2. process' = [process EXCEPT ![p] = s]
      BY <2>2 DEF Fdelete_process
    <3> QED BY <3>1, <3>2
  <2> QED BY <2>1, <2>2
<1>3. kid' = kid \/ kid' = [kid EXCEPT ![p] = Dead(kid[p])]
  BY DEF Fdelete_process, record_kill_process
<1>4. SameKid(kid[p], Dead(kid[p]))
  BY <1>1, KidFields
<1>5. kid' \in [Proc -> Kid] /\ \A q \in Proc : Unreaped(kid[q]) => Unreaped(kid'[q])
  BY <1>3, <1>4 DEF IInv, Typed, SameKid
<1>6. deleted_pid_list' = IF process[p].alive THEN deleted_pid_list \cup {p} ELSE deleted_pid_list
  BY DEF Fdelete_process, record_kill_process
<1>7. process' \in [Proc -> Lisp_Process] /\ deleted_pid_list' \subseteq Proc
  BY <1>2, <1>6 DEF IInv, Typed
<1>8. \A q \in Proc : process'[q].alive => q # p /\ process'[q] = process[q]
  BY <1>2, <1>7 DEF IInv, Typed
<1>9. NeverReapedTwice'
  BY <1>5, <1>6, <1>8 DEF IInv, NeverReapedTwice, Unreaped
<1> QED BY <1>5, <1>7, <1>9 DEF IInv, Typed

(* A new child is on no record, since every child on record has been started.  *)
LEMMA MakeInv == ASSUME NEW p \in Proc, IInv, make_process(p) PROVE IInv'
<1> DEFINE k == [kid[p] EXCEPT !.state = "run"]
           s == [process[p] EXCEPT !.open = TRUE, !.watched = TRUE, !.alive = TRUE]
<1>1. kid' = [kid EXCEPT ![p] = k] /\ process' = [process EXCEPT ![p] = s]
  BY DEF make_process
<1>2. k \in Kid /\ Unreaped(k) /\ s \in Lisp_Process
  BY DEF IInv, Typed, Kid, Lisp_Process, Unreaped
<1>3. UNCHANGED deleted_pid_list /\ p \notin deleted_pid_list
  BY DEF make_process, IInv, NeverReapedTwice
<1> HIDE DEF k, s
<1>4. Typed'
  BY <1>1, <1>2, <1>3 DEF IInv, Typed
<1>5. \A q \in Proc : q # p => kid'[q] = kid[q] /\ process'[q] = process[q]
  BY <1>1 DEF IInv, Typed
<1>6. Unreaped(kid'[p])
  BY <1>1, <1>2 DEF IInv, Typed
<1>7. NeverReapedTwice'
  BY <1>3, <1>5, <1>6 DEF IInv, NeverReapedTwice, Unreaped
<1> QED BY <1>4, <1>7 DEF IInv

LEMMA LispInv == IInv /\ LispRuns => IInv'
<1> SUFFICES ASSUME IInv, LispRuns PROVE IInv'
  OBVIOUS
<1> \A p \in Proc : process[p] \in Lisp_Process
  BY DEF IInv, Typed
<1>1. ASSUME NEW p \in Proc, make_process(p) PROVE IInv'
  BY <1>1, MakeInv
<1>2. ASSUME NEW p \in Proc, Fdelete_process(p) PROVE IInv'
  BY <1>2, DeleteInv
<1>3. ASSUME NEW p \in Proc, Fcontinue_process(p) PROVE IInv'
  BY <1>3, ProcessFields, OneProcess DEF Fcontinue_process
<1>4. ASSUME NEW p \in Proc, Fprocess_status(p) PROVE IInv'
  BY <1>4, ProcessFields, OneProcess DEF Fprocess_status
<1>5. ASSUME NEW p \in Proc, SendFails(p) PROVE IInv'
  BY <1>5, ProcessFields, OneProcess DEF SendFails
<1>6. CASE StatusCleared
  BY <1>6, ProcessFields, OneProcess DEF StatusCleared
<1>7. CASE accept_process_output \/ LispReturns \/ \E i \in DOMAIN stack : LispThrows(i)
  <2>1. UNCHANGED <<kid, process, deleted_pid_list>>
    BY <1>7 DEF accept_process_output, LispReturns, LispThrows
  <2> QED BY <2>1, NoChild
<1> QED BY <1>1, <1>2, <1>3, <1>4, <1>5, <1>6, <1>7 DEF LispRuns

LEMMA WaitInv == IInv /\ Waits => IInv'
<1> SUFFICES ASSUME IInv, Waits PROVE IInv'
  OBVIOUS
<1>1. ASSUME NEW p \in Proc, ReadsProcess(p) PROVE IInv'
  <2>1. process[p] \in Lisp_Process /\ kid[p] \in Kid
    BY DEF IInv, Typed
  <2>2. CASE kid[p].out > 0
    <3> DEFINE k == Read(kid[p])
    <3>1. SameKid(kid[p], k)
      BY <2>1, <2>2, KidFields
    <3>2. kid' = [kid EXCEPT ![p] = k] /\ UNCHANGED <<process, deleted_pid_list>>
      BY <1>1, <2>2 DEF ReadsProcess
    <3> QED BY <3>1, <3>2, OneKid
  <2>3. CASE ~(kid[p].out > 0)
    BY <1>1, <2>1, <2>3, ProcessFields, OneProcess DEF ReadsProcess
  <2> QED BY <2>2, <2>3
<1>2. CASE Check \/ ReadsChildSignal \/ StopsWaiting
  <2>1. UNCHANGED <<kid, process, deleted_pid_list>>
    BY <1>2 DEF Check, ReadsChildSignal, StopsWaiting
  <2> QED BY <2>1, NoChild
<1> QED BY <1>1, <1>2 DEF Waits

LEMMA NotifyInv == IInv /\ Notifies => IInv'
<1> SUFFICES ASSUME IInv, Notifies PROVE IInv'
  OBVIOUS
<1> /\ \A p \in Proc : process[p] \in Lisp_Process
    /\ \A p \in Proc : kid[p] \in Kid
  BY DEF IInv, Typed
<1>1. CASE Visit
  BY <1>1, ProcessFields, OneProcess DEF Visit
<1>2. CASE ReadRemaining
  <2> DEFINE p == Top.at
  <2>1. CASE MayRead(p) /\ kid[p].out > 0
    <3> DEFINE k == Read(kid[p])
    <3>1. p \in Proc => SameKid(kid[p], k)
      BY <2>1, KidFields
    <3>2. kid' = [kid EXCEPT ![p] = k] /\ UNCHANGED <<process, deleted_pid_list>>
      BY <1>2, <2>1 DEF ReadRemaining
    <3> QED BY <3>1, <3>2, OneKid
  <2>2. CASE ~(MayRead(p) /\ kid[p].out > 0)
    BY <1>2, <2>2, NoChild DEF ReadRemaining
  <2> QED BY <2>1, <2>2
<1>3. CASE UpdateStatus
  <2> DEFINE p == Top.at
  <2>1. CASE process[p].raw_status_new # Nil
    BY <1>3, <2>1, ProcessFields, OneProcess DEF UpdateStatus
  <2>2. CASE process[p].raw_status_new = Nil
    BY <1>3, <2>2, NoChild DEF UpdateStatus
  <2> QED BY <2>1, <2>2
<1>4. CASE StatusUpdated
  BY <1>4, ProcessFields, OneProcess DEF StatusUpdated
<1>5. CASE Report
  <2> DEFINE p == Top.at
             s == [process[p] EXCEPT !.ticked = FALSE]
             r == IF process[p].status = "exit" THEN deactivate_process(s) ELSE s
  <2>1. process' = [process EXCEPT ![p] = r] /\ UNCHANGED <<kid, deleted_pid_list>>
    BY <1>5 DEF Report
  <2>2. p \in Proc => SameProcess(process[p], r)
    BY ProcessFields
  <2> QED BY <2>1, <2>2, OneProcess
<1>6. CASE NotifyReturns
  <2> DEFINE p == Top.for
  <2>1. CASE Top.then = "remove"
    BY <1>6, <2>1, ProcessFields, OneProcess DEF NotifyReturns
  <2>2. CASE Top.then = "continue"
    <3>1. CASE process[p].alive /\ kid[p].state = "stop"
      BY <1>6, <2>2, <3>1, KidFields, OneKid DEF NotifyReturns
    <3>2. CASE ~(process[p].alive /\ kid[p].state = "stop")
      BY <1>6, <2>2, <3>2, NoChild DEF NotifyReturns
    <3> QED BY <3>1, <3>2
  <2>3. CASE Top.then \notin {"remove", "continue"}
    BY <1>6, <2>3, NoChild DEF NotifyReturns
  <2> QED BY <2>1, <2>2, <2>3
<1> QED BY <1>1, <1>2, <1>3, <1>4, <1>5, <1>6 DEF Notifies

LEMMA InvariantHolds == Spec => []IInv
<1>1. IInv /\ [Next]_vars => IInv'
  <2> SUFFICES ASSUME IInv, [Next]_vars PROVE IInv'
    OBVIOUS
  <2>1. CASE Next
    BY <2>1, ChildInv, HandlerInv, LispInv, WaitInv, NotifyInv DEF Next
  <2>2. CASE UNCHANGED vars
    BY <2>2, NoChild DEF vars
  <2> QED BY <2>1, <2>2
<1> QED BY InitInv, <1>1, PTL DEF Spec

(* Emacs never kills or waits for a pid that is no longer its child's, and no   *)
(* child is on both records: process.c's "that have not been reaped", for any  *)
(* number of children and any depth of Lisp in filters and sentinels.          *)
THEOREM NoChildReapedTwice == Spec => []NeverReapedTwice
<1>1. IInv => NeverReapedTwice
  BY DEF IInv
<1> QED BY InvariantHolds, <1>1, PTL

-----------------------------------------------------------------------------
(* Induction over the natural numbers, for a property given as a set          *)

LEMMA LessWellFounded == IsWellFoundedOn({ss \in Nat \X Nat : ss[1] < ss[2]}, Nat)
BY NatLessThanWellFounded DEF OpToRel

LEMMA LeastNumber ==
  ASSUME NEW T, T \subseteq Nat, T # {}
  PROVE  \E x \in T : \A y \in T : x <= y
<1>. DEFINE Less == {ss \in Nat \X Nat : ss[1] < ss[2]}
<1>1. IsWellFoundedOn(Less, Nat)
  BY LessWellFounded
<1>2. \A x, y \in Nat : <<y, x>> \notin Less => x <= y
  OBVIOUS
<1>. HIDE DEF Less
<1>3. \E x \in T : \A y \in T : ~(<<y, x>> \in Less)
  BY <1>1, WFMin, Zenon
<1>. QED BY <1>2, <1>3

LEMMA SetInduction ==
  ASSUME NEW S, 0 \in S, \A n \in Nat : n \in S => n + 1 \in S
  PROVE  Nat \subseteq S
<1> SUFFICES ASSUME Nat \ S # {} PROVE FALSE
  OBVIOUS
<1>1. PICK x \in Nat \ S : \A y \in Nat \ S : x <= y
  BY LeastNumber
<1>2. x # 0 /\ x - 1 \in Nat /\ x = (x - 1) + 1
  BY <1>1
<1>. QED BY <1>1, <1>2

-----------------------------------------------------------------------------
(* The process list *)

(* S has all that is behind x, if cells hold c. *)
ClosedFrom(c, x, S) == c[x] \in S \cup {Nil} /\ \A q \in S : c[q] \in S \cup {Nil}

(* What is behind x: in every such set. *)
Reach(c, x) == {p \in Proc : \A S \in SUBSET Proc : ClosedFrom(c, x, S) => p \in S}

Cells == [Proc \cup {Nil} -> Proc \cup {Nil}]

LEMMA ReachType == \A c, x : Reach(c, x) \in SUBSET Proc
BY DEF Reach

LEMMA ReachClosed ==
  ASSUME NEW c \in Cells, NEW x \in Proc \cup {Nil}
  PROVE  ClosedFrom(c, x, Reach(c, x))
<1>1. c[x] \in Reach(c, x) \cup {Nil}
  BY DEF Reach, ClosedFrom, Cells
<1>2. ASSUME NEW q \in Reach(c, x), c[q] # Nil
      PROVE  c[q] \in Reach(c, x)
  BY <1>2 DEF Reach, ClosedFrom, Cells
<1>. QED BY <1>1, <1>2 DEF ClosedFrom

LEMMA ReachLeast ==
  ASSUME NEW c, NEW x, NEW S \in SUBSET Proc, ClosedFrom(c, x, S)
  PROVE  Reach(c, x) \subseteq S
BY DEF Reach

(* The function by which Listed is defined, up to n: cell by cell, n times *)
Further(A) == A \cup {cdr[q] : q \in A \ {Nil}}
IsUpto(g, n) == g = [i \in 0 .. n |-> IF i = 0 THEN {cdr[Nil]} ELSE Further(g[i - 1])]

LEMMA UptoValues ==
  ASSUME NEW n \in Nat, NEW g, IsUpto(g, n)
  PROVE  g[0] = {cdr[Nil]} /\ \A i \in 1 .. n : g[i] = Further(g[i - 1])
<1>. DEFINE f == [i \in 0 .. n |-> IF i = 0 THEN {cdr[Nil]} ELSE Further(g[i - 1])]
<1>1. 0 \in 0 .. n /\ \A i \in 1 .. n : i \in 0 .. n /\ i # 0
  OBVIOUS
<1>2. f[0] = {cdr[Nil]} /\ \A i \in 1 .. n : f[i] = Further(g[i - 1])
  BY <1>1
<1>3. g = f
  BY DEF IsUpto
<1>. HIDE DEF f
<1>. QED BY <1>2, <1>3

LEMMA UptoExists == \A n \in Nat : \E g : IsUpto(g, n)
<1>. DEFINE S == {n \in Nat : \E g : IsUpto(g, n)}
<1>1. 0 \in S
  <2>1. IsUpto([i \in 0 .. 0 |-> {cdr[Nil]}], 0)
    BY DEF IsUpto
  <2>. QED BY <2>1
<1>2. ASSUME NEW n \in Nat, n \in S
      PROVE  n + 1 \in S
  <2>1. PICK g : IsUpto(g, n)
    BY <1>2
  <2>. DEFINE f == [i \in 0 .. n + 1 |-> IF i <= n THEN g[i] ELSE Further(g[n])]
  <2>2. /\ f = [i \in 0 .. n + 1 |-> f[i]]
        /\ \A i \in 0 .. n : f[i] = g[i]
        /\ f[n + 1] = Further(g[n])
    OBVIOUS
  <2>. HIDE DEF f
  <2>3. g[0] = {cdr[Nil]} /\ \A i \in 1 .. n : g[i] = Further(g[i - 1])
    BY <2>1, UptoValues
  <2>4. \A i \in 0 .. n + 1 : f[i] = IF i = 0 THEN {cdr[Nil]} ELSE Further(f[i - 1])
    <3>. 0 \in 0 .. n /\ n \in 0 .. n
      OBVIOUS
    <3>1. f[0] = {cdr[Nil]}
      BY <2>2, <2>3
    <3>2. ASSUME NEW i \in 1 .. n
          PROVE  f[i] = Further(f[i - 1])
      <4>1. i \in 0 .. n /\ i - 1 \in 0 .. n
        OBVIOUS
      <4>. QED BY <2>2, <2>3, <4>1
    <3>3. f[n + 1] = Further(f[n])
      BY <2>2
    <3>. QED BY <3>1, <3>2, <3>3
  <2>5. IsUpto(f, n + 1)
    BY <2>2, <2>4 DEF IsUpto
  <2>. QED BY <2>5
<1>. HIDE DEF S
<1>3. Nat \subseteq S
  BY <1>1, <1>2, SetInduction
<1>. QED BY <1>3 DEF S

LEMMA ListedByUpto ==
  \E g : IsUpto(g, Cardinality(Proc)) /\ Listed = g[Cardinality(Proc)] \ {Nil}
<1>1. Cardinality(Proc) \in Nat
  BY ProcessesAssumption, FS_CardinalityType
<1>. DEFINE g == CHOOSE f : IsUpto(f, Cardinality(Proc))
<1>2. IsUpto(g, Cardinality(Proc))
  BY <1>1, UptoExists
<1>3. Listed = g[Cardinality(Proc)] \ {Nil}
  BY DEF Listed, IsUpto, Further
<1>. QED BY <1>2, <1>3

(* The list is what is behind its head: in as many rounds as there are       *)
(* processes, either each finds a new one, or all have been found.           *)
LEMMA ListedIsReach ==
  ASSUME cdr \in Cells
  PROVE  Listed = Reach(cdr, Nil)
<1>. DEFINE N == Cardinality(Proc)
            R == Reach(cdr, Nil)
            All == Proc \cup {Nil}
<1>1. /\ IsFiniteSet(Proc) /\ Nil \notin Proc /\ N \in Nat
      /\ IsFiniteSet(All) /\ Cardinality(All) = N + 1
  <2>1. IsFiniteSet(Proc) /\ Nil \notin Proc
    BY ProcessesAssumption
  <2>. QED BY <2>1, FS_CardinalityType, FS_AddElement
<1>2. PICK g : IsUpto(g, N) /\ Listed = g[N] \ {Nil}
  BY ListedByUpto
<1>. HIDE DEF N
<1>3. g[0] = {cdr[Nil]} /\ \A i \in 1 .. N : g[i] = Further(g[i - 1])
  BY <1>1, <1>2, UptoValues
<1>4. ClosedFrom(cdr, Nil, R) /\ R \subseteq Proc
  BY ReachClosed, ReachType
<1>. HIDE DEF R
<1>. DEFINE Whole(A) == \A q \in A \ {Nil} : cdr[q] \in A
            S == {i \in Nat : i <= N =>
                     /\ g[i] \subseteq R \cup {Nil} /\ cdr[Nil] \in g[i]
                     /\ Cardinality(g[i]) >= i + 1 \/ Whole(g[i])}
<1>5. 0 \in S
  <2>1. Cardinality(g[0]) = 1
    BY <1>3, FS_Singleton
  <2>. QED BY <1>3, <1>4, <2>1 DEF ClosedFrom
<1>6. ASSUME NEW i \in Nat, i \in S
      PROVE  i + 1 \in S
  <2> SUFFICES ASSUME i + 1 <= N PROVE i + 1 \in S
    OBVIOUS
  <2>1. /\ g[i] \subseteq R \cup {Nil} /\ cdr[Nil] \in g[i]
        /\ Cardinality(g[i]) >= i + 1 \/ Whole(g[i])
    BY <1>1, <1>6
  <2>2. g[i + 1] = Further(g[i])
    <3>1. i + 1 \in 1 .. N /\ (i + 1) - 1 = i
      BY <1>1
    <3>. QED BY <1>3, <3>1
  <2>3. g[i + 1] \subseteq R \cup {Nil} /\ g[i] \subseteq g[i + 1]
    BY <1>4, <2>1, <2>2 DEF Further, ClosedFrom
  <2>4. CASE Whole(g[i])
    <3>1. g[i + 1] = g[i]
      BY <2>2, <2>4 DEF Further
    <3>. QED BY <2>1, <2>4, <3>1
  <2>5. CASE ~Whole(g[i])
    <3>1. PICK q \in g[i] \ {Nil} : cdr[q] \notin g[i]
      BY <2>5
    <3>2. cdr[q] \in g[i + 1]
      BY <2>2, <3>1 DEF Further
    <3>3. IsFiniteSet(g[i + 1])
      BY <1>1, <1>4, <2>3, FS_Subset
    <3>4. Cardinality(g[i]) <= Cardinality(g[i + 1]) /\ Cardinality(g[i]) # Cardinality(g[i + 1])
      BY <2>3, <3>1, <3>2, <3>3, FS_Subset
    <3>5. Cardinality(g[i]) \in Nat /\ Cardinality(g[i + 1]) \in Nat
      BY <2>3, <3>3, FS_Subset, FS_CardinalityType
    <3>6. Cardinality(g[i + 1]) >= (i + 1) + 1
      <4>1. Cardinality(g[i]) >= i + 1
        BY <2>1, <2>5
      <4>. QED BY <3>4, <3>5, <4>1
    <3>. QED BY <2>1, <2>3, <3>6
  <2>. QED BY <2>4, <2>5
<1>7. N \in S
  <2>. HIDE DEF S
  <2>. QED BY <1>1, <1>5, <1>6, SetInduction
<1>8. g[N] \subseteq R \cup {Nil} /\ cdr[Nil] \in g[N] /\ Whole(g[N])
  <2>1. /\ g[N] \subseteq R \cup {Nil} /\ cdr[Nil] \in g[N]
        /\ Cardinality(g[N]) >= N + 1 \/ Whole(g[N])
    BY <1>1, <1>7
  <2>2. CASE Cardinality(g[N]) >= N + 1
    <3>1. g[N] \in SUBSET All
      BY <1>4, <2>1
    <3>2. IsFiniteSet(g[N]) /\ Cardinality(g[N]) <= N + 1 /\ Cardinality(g[N]) \in Nat
      BY <1>1, <3>1, FS_Subset, FS_CardinalityType
    <3>3. Cardinality(g[N]) = N + 1
      BY <1>1, <2>2, <3>2
    <3>4. g[N] = All
      BY <1>1, <3>1, <3>3, FS_Subset
    <3>. QED BY <2>1, <3>4 DEF Cells
  <2>. QED BY <2>1, <2>2
<1>9. Listed \subseteq R
  BY <1>2, <1>8
<1>10. R \subseteq Listed
  <2>1. ClosedFrom(cdr, Nil, Listed)
    BY <1>2, <1>8 DEF ClosedFrom
  <2>2. Listed \in SUBSET Proc
    BY <1>4, <1>9
  <2>. QED BY <2>1, <2>2, ReachLeast DEF R
<1>. QED BY <1>9, <1>10 DEF R

(* A new cell at the head hides none of the others. *)
LEMMA ReachMake ==
  ASSUME NEW c \in Cells, NEW p \in Proc, c[p] = Nil,
         NEW x \in Proc \cup {Nil},
         NEW d, d = [c EXCEPT ![p] = c[Nil], ![Nil] = p]
  PROVE  d \in Cells /\ p \in Reach(d, Nil) /\ Reach(c, x) \subseteq Reach(d, x)
<1>1. Nil \notin Proc
  BY ProcessesAssumption
<1>2. /\ d \in Cells /\ d[Nil] = p /\ d[p] = c[Nil]
      /\ \A q \in Proc : q # p => d[q] = c[q]
  BY <1>1 DEF Cells
<1>3. ClosedFrom(d, x, Reach(d, x)) /\ ClosedFrom(d, Nil, Reach(d, Nil)) /\ Reach(d, x) \in SUBSET Proc
  BY <1>2, ReachClosed, ReachType
<1>4. p \in Reach(d, Nil)
  BY <1>1, <1>2, <1>3 DEF ClosedFrom
<1>5. ClosedFrom(c, x, Reach(d, x))
  <2>1. c[x] \in Reach(d, x) \cup {Nil}
    <3>1. CASE x = Nil
      <4>1. d[p] \in Reach(d, x) \cup {Nil}
        BY <1>3, <1>4, <3>1 DEF ClosedFrom
      <4>. QED BY <1>2, <3>1, <4>1
    <3>2. CASE x # Nil
      BY <1>2, <1>3, <3>2 DEF ClosedFrom
    <3>. QED BY <3>1, <3>2
  <2>2. ASSUME NEW q \in Reach(d, x)
        PROVE  c[q] \in Reach(d, x) \cup {Nil}
    BY <1>2, <1>3 DEF ClosedFrom
  <2>. QED BY <2>1, <2>2 DEF ClosedFrom
<1>6. Reach(c, x) \subseteq Reach(d, x)
  BY <1>3, <1>5, ReachLeast
<1>. QED BY <1>2, <1>4, <1>6

(* Taking a cell out of the list hides none of the others, not even from     *)
(* where the walk along the list has been taken out before.                  *)
LEMMA ReachWithout ==
  ASSUME cdr \in Cells, NEW r \in Proc, NEW x \in Proc \cup {Nil},
         NEW d, d = Without(cdr, r)
  PROVE  /\ d \in Cells
         /\ Reach(cdr, x) \subseteq Reach(d, x) \cup {r}
         /\ Reach(d, Nil) \subseteq Reach(cdr, Nil)
<1>. DEFINE R == Reach(d, x)
<1>1. /\ d \in Cells
      /\ \A q \in Proc \cup {Nil} : d[q] = cdr[q] \/ (cdr[q] = r /\ d[q] = cdr[r])
      /\ \A q \in Proc \cup {Nil} : cdr[q] = r /\ d[q] # cdr[q] => d[q] = cdr[r]
  BY DEF Without, Cells
<1>2. ClosedFrom(d, x, R) /\ R \in SUBSET Proc
  BY <1>1, ReachClosed, ReachType
<1>3. Reach(cdr, x) \subseteq R \cup {r}
  <2>1. CASE \E q \in R \cup {x} : cdr[q] = r
    <3>. HIDE DEF R
    <3>1. cdr[r] \in R \cup {r, Nil}
      <4>1. PICK q \in R \cup {x} : cdr[q] = r
        BY <2>1
      <4>2. q \in Proc \cup {Nil} /\ d[q] \in R \cup {Nil}
        BY <1>2, <4>1 DEF ClosedFrom
      <4>3. CASE d[q] = cdr[r]
        BY <4>2, <4>3
      <4>4. CASE d[q] # cdr[r]
        <5>1. d[q] = r /\ r \in R
          BY <1>1, <4>1, <4>2, <4>4, ProcessesAssumption
        <5>2. d[r] \in R \cup {Nil}
          BY <1>2, <5>1 DEF ClosedFrom
        <5>. QED BY <1>1, <5>2
      <4>. QED BY <4>3, <4>4
    <3>2. ClosedFrom(cdr, x, R \cup {r})
      BY <1>1, <1>2, <3>1 DEF ClosedFrom
    <3>. QED BY <1>2, <3>2, ReachLeast
  <2>2. CASE ~\E q \in R \cup {x} : cdr[q] = r
    <3>1. ClosedFrom(cdr, x, R)
      BY <1>1, <1>2, <2>2 DEF ClosedFrom
    <3>. QED BY <1>2, <3>1, ReachLeast
  <2>. QED BY <2>1, <2>2
<1>4. Reach(d, Nil) \subseteq Reach(cdr, Nil)
  <2>1. ClosedFrom(cdr, Nil, Reach(cdr, Nil)) /\ Reach(cdr, Nil) \in SUBSET Proc
    BY ReachClosed, ReachType
  <2>2. ClosedFrom(d, Nil, Reach(cdr, Nil))
    BY <1>1, <2>1 DEF ClosedFrom, Cells
  <2>. QED BY <2>1, <2>2, ReachLeast
<1>. QED BY <1>1, <1>3, <1>4

-----------------------------------------------------------------------------
(* The activations *)

Activation ==
  [fn : {"lisp"}, pc : {"run"}, at : Proc \cup {Nil}]
  \cup [fn : {"lisp"}, pc : {"clear"}, at : Proc]
  \cup [fn : {"wait"}, pc : {"check", "select"}, at : {Nil}]
  \cup [fn : {"notify"}, pc : {"next"}, at : Proc \cup {Nil},
        for : Proc \cup {Nil}, then : {"remove", "continue", "nothing"}]
  \cup [fn : {"notify"}, pc : {"read", "update", "clear", "report"}, at : Proc,
        for : Proc \cup {Nil}, then : {"remove", "continue", "nothing"}]

(* Where an activation stands while another runs *)
Resting == {"run", "check", "read", "next"}

(* The first activation is Lisp's, and no activation is called from the      *)
(* statements where news of the handler may be overwritten, nor from select. *)
StackInv ==
  /\ stack \in Seq(Activation) /\ Len(stack) > 0
  /\ stack[1].fn = "lisp"
  /\ \A i \in 1 .. Len(stack) - 1 : stack[i].pc \in Resting

LEMMA LispMoves ==
  ASSUME NEW a \in Activation, a.fn = "lisp", NEW p \in Proc, NEW c
  PROVE  /\ [a EXCEPT !.pc = c, !.at = p] = [fn |-> "lisp", pc |-> c, at |-> p]
         /\ [a EXCEPT !.pc = c] = [fn |-> "lisp", pc |-> c, at |-> a.at]
<1>1. a = [fn |-> "lisp", pc |-> a.pc, at |-> a.at]
  BY DEF Activation
<1>. DEFINE b == [a EXCEPT !.pc = c]
<1>2. b = [fn |-> "lisp", pc |-> c, at |-> a.at]
  BY <1>1
<1>. HIDE DEF b
<1>3. [b EXCEPT !.at = p] = [fn |-> "lisp", pc |-> c, at |-> p]
  BY <1>2
<1>. QED BY <1>2, <1>3 DEF b

LEMMA WaitMoves ==
  ASSUME NEW a \in Activation, a.fn = "wait", NEW c \in {"check", "select"}
  PROVE  /\ [a EXCEPT !.pc = c] = [fn |-> "wait", pc |-> c, at |-> Nil]
         /\ [a EXCEPT !.pc = c] \in Activation
BY DEF Activation

LEMMA NotifyMoves ==
  ASSUME NEW a \in Activation, a.fn = "notify", NEW p, NEW c
  PROVE  /\ [a EXCEPT !.at = p, !.pc = c] =
              [fn |-> "notify", pc |-> c, at |-> p, for |-> a.for, then |-> a.then]
         /\ [a EXCEPT !.pc = c] =
              [fn |-> "notify", pc |-> c, at |-> a.at, for |-> a.for, then |-> a.then]
<1>1. a = [fn |-> "notify", pc |-> a.pc, at |-> a.at, for |-> a.for, then |-> a.then]
  BY DEF Activation
<1>. DEFINE b == [a EXCEPT !.at = p]
<1>2. b = [fn |-> "notify", pc |-> a.pc, at |-> p, for |-> a.for, then |-> a.then]
  BY <1>1
<1>. HIDE DEF b
<1>3. [b EXCEPT !.pc = c] =
        [fn |-> "notify", pc |-> c, at |-> p, for |-> a.for, then |-> a.then]
  BY <1>2
<1>4. [a EXCEPT !.pc = c] =
        [fn |-> "notify", pc |-> c, at |-> a.at, for |-> a.for, then |-> a.then]
  BY <1>1
<1>. QED BY <1>3, <1>4 DEF b

LEMMA ActivationFields ==
  ASSUME NEW a \in Activation
  PROVE  /\ a.fn \in {"lisp", "wait", "notify"}
         /\ a.at \in Proc \cup {Nil}
         /\ a.pc \in {"read", "update", "clear", "report"} => a.at \in Proc
         /\ a.fn = "lisp" => a.pc \in {"run", "clear"}
         /\ a.fn = "wait" => a.pc \in {"check", "select"}
         /\ a.fn = "notify" => /\ a.pc \in {"next", "read", "update", "clear", "report"}
                               /\ a.for \in Proc \cup {Nil}
                               /\ a.then \in {"remove", "continue", "nothing"}
BY DEF Activation

LEMMA NewActivations ==
  /\ Lisp \in Activation /\ Wait \in Activation
  /\ \A p \in Proc \cup {Nil}, then \in {"remove", "continue", "nothing"} :
       Notify(p, then) \in Activation
BY DEF Lisp, Wait, Notify, Activation

LEMMA TopIsActivation ==
  ASSUME StackInv
  PROVE  /\ Top \in Activation /\ Len(stack) \in Nat
         /\ \A i \in 1 .. Len(stack) : stack[i] \in Activation
         /\ DOMAIN stack = 1 .. Len(stack)
         /\ Top.fn # "lisp" => Len(stack) > 1
BY DEF StackInv, Top

LEMMA BelowIs ==
  ASSUME StackInv
  PROVE  /\ Below \in Seq(Activation) /\ Len(Below) = Len(stack) - 1
         /\ \A i \in 1 .. Len(stack) - 1 : Below[i] = stack[i]
<1>1. Len(stack) \in Nat /\ Len(stack) > 0 /\ \A i \in 1 .. Len(stack) - 1 : stack[i] \in Activation
  BY DEF StackInv
<1>. DEFINE n == Len(stack)
<1>. HIDE DEF n
<1>2. 1 \in Int /\ n - 1 \in Int /\ n \in Nat /\ n > 0 /\ (n - 1) - 1 + 1 = n - 1
  BY <1>1 DEF n
<1>3. \A i \in 1 .. n - 1 : 1 <= i /\ stack[i] \in Activation
  BY <1>1 DEF n
<1>4. /\ SubSeq(stack, 1, n - 1) \in Seq(Activation)
      /\ Len(SubSeq(stack, 1, n - 1)) = n - 1
      /\ \A i \in 1 .. n - 1 : SubSeq(stack, 1, n - 1)[i] = stack[i]
  BY <1>2, <1>3, SubSeqProperties
<1>. QED BY <1>4 DEF Below, n

(* The last activation becomes A. *)
LEMMA Replaced ==
  ASSUME StackInv, NEW a \in Activation, a.fn = Top.fn, stack' = Below \o <<a>>
  PROVE  /\ StackInv'
         /\ Len(stack') = Len(stack) /\ stack'[Len(stack)] = a /\ Top' = a
         /\ \A i \in 1 .. Len(stack) - 1 : stack'[i] = stack[i]
<1>. DEFINE n == Len(stack)
<1>1. n \in Nat /\ n > 0
  BY DEF StackInv
<1>2. /\ Below \in Seq(Activation) /\ Len(Below) = n - 1
      /\ \A i \in 1 .. n - 1 : Below[i] = stack[i]
  BY BelowIs
<1>3. <<a>> \in Seq(Activation) /\ Len(<<a>>) = 1 /\ <<a>>[1] = a
  OBVIOUS
<1>. HIDE DEF n
<1>4. /\ stack' \in Seq(Activation) /\ Len(stack') = n
      /\ \A i \in 1 .. n : stack'[i] = IF i <= n - 1 THEN Below[i] ELSE <<a>>[i - (n - 1)]
  BY <1>1, <1>2, <1>3, ConcatProperties
<1>5. \A i \in 1 .. n - 1 : stack'[i] = stack[i]
  BY <1>1, <1>2, <1>4
<1>6. stack'[n] = a
  <2>1. n \in 1 .. n /\ ~(n <= n - 1) /\ n - (n - 1) = 1
    BY <1>1
  <2>. QED BY <1>3, <1>4, <2>1
<1>7. stack'[1].fn = "lisp"
  <2>1. CASE n = 1
    BY <1>6, <2>1 DEF StackInv, Top, n
  <2>2. CASE n # 1
    BY <1>1, <1>5, <2>2 DEF StackInv
  <2>. QED BY <2>1, <2>2
<1>8. Top' = a
  BY <1>4, <1>6 DEF Top
<1>9. StackInv'
  BY <1>1, <1>4, <1>5, <1>7 DEF StackInv, n
<1>. QED BY <1>4, <1>5, <1>6, <1>8, <1>9 DEF n

(* The last activation becomes A, and calls B. *)
LEMMA Called ==
  ASSUME StackInv, NEW a \in Activation, a.fn = Top.fn, a.pc \in Resting,
         NEW b \in Activation, stack' = (Below \o <<a>>) \o <<b>>
  PROVE  /\ StackInv'
         /\ Len(stack') = Len(stack) + 1 /\ stack'[Len(stack)] = a
         /\ stack'[Len(stack) + 1] = b /\ Top' = b
         /\ \A i \in 1 .. Len(stack) - 1 : stack'[i] = stack[i]
<1>. DEFINE n == Len(stack)
            s == Below \o <<a>>
<1>1. n \in Nat /\ n > 0
  BY DEF StackInv
<1>2. /\ Below \in Seq(Activation) /\ Len(Below) = n - 1
      /\ \A i \in 1 .. n - 1 : Below[i] = stack[i]
  BY BelowIs
<1>3. /\ <<a>> \in Seq(Activation) /\ Len(<<a>>) = 1 /\ <<a>>[1] = a
      /\ <<b>> \in Seq(Activation) /\ Len(<<b>>) = 1 /\ <<b>>[1] = b
  OBVIOUS
<1>. HIDE DEF n
<1>4. /\ s \in Seq(Activation) /\ Len(s) = n
      /\ \A i \in 1 .. n : s[i] = IF i <= n - 1 THEN Below[i] ELSE <<a>>[i - (n - 1)]
  BY <1>1, <1>2, <1>3, ConcatProperties
<1>5. (\A i \in 1 .. n - 1 : s[i] = stack[i]) /\ s[n] = a
  <2>1. n \in 1 .. n /\ ~(n <= n - 1) /\ n - (n - 1) = 1
    BY <1>1
  <2>. QED BY <1>1, <1>2, <1>3, <1>4, <2>1
<1>. HIDE DEF s
<1>6. /\ stack' \in Seq(Activation) /\ Len(stack') = n + 1
      /\ \A i \in 1 .. n + 1 : stack'[i] = IF i <= n THEN s[i] ELSE <<b>>[i - n]
  <2>1. stack' = s \o <<b>>
    BY DEF s
  <2>2. s \in Seq(Activation) /\ Len(s) = n
    BY <1>4
  <2>3. /\ s \o <<b>> \in Seq(Activation)
        /\ Len(s \o <<b>>) = Len(s) + Len(<<b>>)
        /\ \A i \in 1 .. Len(s) + Len(<<b>>) :
             (s \o <<b>>)[i] = IF i <= Len(s) THEN s[i] ELSE <<b>>[i - Len(s)]
    BY <1>3, <2>2, ConcatProperties
  <2>. QED BY <1>1, <1>3, <2>1, <2>2, <2>3
<1>7. /\ \A i \in 1 .. n - 1 : stack'[i] = stack[i]
      /\ stack'[n] = a /\ stack'[n + 1] = b
  <2>1. n + 1 \in 1 .. n + 1 /\ ~(n + 1 <= n) /\ (n + 1) - n = 1 /\ n \in 1 .. n + 1 /\ n <= n
    BY <1>1
  <2>. QED BY <1>1, <1>3, <1>5, <1>6, <2>1
<1>8. stack'[1].fn = "lisp"
  <2>1. CASE n = 1
    BY <1>7, <2>1 DEF StackInv, Top, n
  <2>2. CASE n # 1
    BY <1>1, <1>7, <2>2 DEF StackInv
  <2>. QED BY <2>1, <2>2
<1>9. Top' = b
  BY <1>6, <1>7 DEF Top
<1>10. \A i \in 1 .. (n + 1) - 1 : stack'[i].pc \in Resting
  <2>1. TAKE i \in 1 .. (n + 1) - 1
  <2>2. CASE i = n
    BY <1>7, <2>2
  <2>3. CASE i # n
    <3>1. i \in 1 .. n - 1
      BY <1>1, <2>3
    <3>. QED BY <1>7, <3>1 DEF StackInv, n
  <2>. QED BY <2>2, <2>3
<1>11. StackInv'
  BY <1>1, <1>6, <1>8, <1>10 DEF StackInv
<1>. QED BY <1>6, <1>7, <1>9, <1>11 DEF n

(* The activations above the I-th are left. *)
LEMMA CutBack ==
  ASSUME StackInv, NEW i \in 1 .. Len(stack) - 1, stack' = SubSeq(stack, 1, i)
  PROVE  /\ StackInv'
         /\ Len(stack') = i /\ Top' = stack[i]
         /\ \A j \in 1 .. i : stack'[j] = stack[j]
         /\ Top'.pc \in Resting
<1>1. Len(stack) \in Nat /\ i \in Nat /\ \A j \in 1 .. i : stack[j] \in Activation
  BY DEF StackInv
<1>2. /\ stack' \in Seq(Activation) /\ Len(stack') = i
      /\ \A j \in 1 .. i : stack'[j] = stack[j]
  BY <1>1, SubSeqProperties
<1>3. StackInv'
  BY <1>1, <1>2 DEF StackInv
<1>4. Top' = stack[i]
  BY <1>1, <1>2 DEF Top
<1>. QED BY <1>2, <1>3, <1>4 DEF StackInv

LEMMA Returned ==
  ASSUME StackInv, Len(stack) > 1, stack' = Below
  PROVE  /\ StackInv'
         /\ Len(stack') = Len(stack) - 1 /\ Top' = stack[Len(stack) - 1]
         /\ \A j \in 1 .. Len(stack) - 1 : stack'[j] = stack[j]
         /\ Top'.pc \in Resting
<1>1. Len(stack) - 1 \in 1 .. Len(stack) - 1
  BY DEF StackInv
<1>. QED BY <1>1, CutBack DEF Below

(* Lisp calls F, and stays where it is. *)
LEMMA LispCalls ==
  ASSUME StackInv, Doing("lisp", "run"), NEW f \in Activation,
         stack' = Calls(f, "run") \/ stack' = Append(stack, f)
  PROVE  /\ StackInv'
         /\ Len(stack') = Len(stack) + 1 /\ stack'[Len(stack) + 1] = f /\ Top' = f
         /\ \A i \in 1 .. Len(stack) : stack'[i] = stack[i]
<1>. DEFINE a == [Top EXCEPT !.pc = "run"]
<1>1. Top \in Activation /\ Len(stack) \in Nat /\ Len(stack) > 0
  BY TopIsActivation DEF StackInv
<1>2. Top.fn = "lisp" /\ Top.pc = "run"
  BY DEF Doing
<1>3. a = Top
  BY <1>1, <1>2 DEF Activation
<1>. HIDE DEF a
<1>4. stack = Below \o <<Top>>
  <2>1. /\ Below \in Seq(Activation) /\ Len(Below) = Len(stack) - 1
        /\ \A i \in 1 .. Len(stack) - 1 : Below[i] = stack[i]
    BY BelowIs
  <2>2. <<Top>> \in Seq(Activation) /\ Len(<<Top>>) = 1 /\ <<Top>>[1] = Top
    BY <1>1
  <2>. DEFINE n == Len(stack)
              s == Below \o <<Top>>
  <2>3. n \in Nat /\ n > 0
    BY <1>1
  <2>. HIDE DEF n
  <2>4. /\ s \in Seq(Activation) /\ Len(s) = n
        /\ \A i \in 1 .. n : s[i] = IF i <= n - 1 THEN Below[i] ELSE <<Top>>[i - (n - 1)]
    BY <2>1, <2>2, <2>3, ConcatProperties DEF n
  <2>5. ASSUME NEW i \in 1 .. n
        PROVE  s[i] = stack[i]
    <3>1. CASE i <= n - 1
      <4>1. i \in 1 .. Len(stack) - 1
        BY <2>3, <3>1 DEF n
      <4>. HIDE DEF s
      <4>. QED BY <2>1, <2>4, <3>1, <4>1
    <3>2. CASE ~(i <= n - 1)
      <4>1. i = n /\ i - (n - 1) = 1
        BY <2>3, <3>2
      <4>2. s[i] = Top
        <5>. HIDE DEF s
        <5>. QED BY <2>2, <2>4, <3>2, <4>1
      <4>. QED BY <4>1, <4>2 DEF Top, n
    <3>. QED BY <3>1, <3>2
  <2>6. stack \in Seq(Activation) /\ Len(stack) = n
    BY DEF StackInv, n
  <2>. HIDE DEF s
  <2>7. s = stack
    BY <2>4, <2>5, <2>6, SeqEqual
  <2>. QED BY <2>7 DEF s
<1>5. stack' = (Below \o <<a>>) \o <<f>>
  <2>1. CASE stack' = Calls(f, "run")
    BY <2>1 DEF Calls, Goto, a
  <2>2. CASE stack' = Append(stack, f)
    <3>1. stack \in Seq(Activation)
      BY DEF StackInv
    <3>2. Append(stack, f) = stack \o <<f>>
      BY <3>1, AppendIsConcat
    <3>. QED BY <1>3, <1>4, <2>2, <3>2
  <2>. QED BY <2>1, <2>2
<1>6. /\ StackInv'
      /\ Len(stack') = Len(stack) + 1 /\ stack'[Len(stack)] = a
      /\ stack'[Len(stack) + 1] = f /\ Top' = f
      /\ \A i \in 1 .. Len(stack) - 1 : stack'[i] = stack[i]
  BY <1>1, <1>2, <1>3, <1>5, Called DEF Resting
<1>7. ASSUME NEW i \in 1 .. Len(stack)
      PROVE  stack'[i] = stack[i]
  <2>1. CASE i = Len(stack)
    BY <1>3, <1>6, <2>1 DEF Top
  <2>2. CASE i # Len(stack)
    <3>1. i \in 1 .. Len(stack) - 1
      BY <1>1, <2>2
    <3>. QED BY <1>6, <3>1
  <2>. QED BY <2>1, <2>2
<1>. QED BY <1>6, <1>7

(* A wait calls F, to look again for news when that returns. *)
LEMMA WaitCalls ==
  ASSUME StackInv, Top.fn = "wait", NEW f \in Activation, stack' = Calls(f, "check")
  PROVE  /\ StackInv'
         /\ Len(stack') = Len(stack) + 1 /\ stack'[Len(stack) + 1] = f /\ Top' = f
         /\ stack'[Len(stack)].fn = "wait"
         /\ \A i \in 1 .. Len(stack) - 1 : stack'[i] = stack[i]
<1>. DEFINE a == [Top EXCEPT !.pc = "check"]
<1>1. a = [fn |-> "wait", pc |-> "check", at |-> Nil] /\ a \in Activation
  BY TopIsActivation, WaitMoves
<1>2. a.fn = "wait" /\ a.pc = "check"
  BY <1>1
<1>3. stack' = (Below \o <<a>>) \o <<f>>
  BY DEF Calls, Goto
<1>. HIDE DEF a
<1>4. a.pc \in Resting
  BY <1>2 DEF Resting
<1>. QED BY <1>1, <1>2, <1>3, <1>4, Called

LEMMA WaitGoes ==
  ASSUME StackInv, Top.fn = "wait", NEW c \in {"check", "select"}, stack' = Goto(c)
  PROVE  /\ StackInv'
         /\ Len(stack') = Len(stack) /\ Top' = [fn |-> "wait", pc |-> c, at |-> Nil]
         /\ stack'[Len(stack)] = [fn |-> "wait", pc |-> c, at |-> Nil]
         /\ \A i \in 1 .. Len(stack) - 1 : stack'[i] = stack[i]
<1>. DEFINE a == [Top EXCEPT !.pc = c]
<1>1. a = [fn |-> "wait", pc |-> c, at |-> Nil] /\ a \in Activation
  BY TopIsActivation, WaitMoves
<1>2. a.fn = "wait"
  BY <1>1
<1>3. stack' = Below \o <<a>>
  BY DEF Goto
<1>. HIDE DEF a
<1>. QED BY <1>1, <1>2, <1>3, Replaced

(* The loop of status_notify where it has got to p, and is about to do c. *)
Loop(p, c) == [fn |-> "notify", pc |-> c, at |-> p, for |-> Top.for, then |-> Top.then]

LEMMA LoopIsActivation ==
  ASSUME StackInv, Top.fn = "notify"
  PROVE  /\ \A p \in Proc, c \in {"next", "read", "update", "clear", "report"} :
              Loop(p, c) \in Activation
         /\ \A p \in Proc \cup {Nil} : Loop(p, "next") \in Activation
<1>1. Top \in Activation
  BY TopIsActivation
<1>2. Top.for \in Proc \cup {Nil} /\ Top.then \in {"remove", "continue", "nothing"}
  BY <1>1, ActivationFields
<1>. QED BY <1>2 DEF Loop, Activation

(* Status_notify calls Lisp. *)
LEMMA LoopCalls ==
  ASSUME StackInv, Top.fn = "notify", Top.at \in Proc, NEW c \in {"next", "read"},
         stack' = Calls(Lisp, c)
  PROVE  /\ StackInv'
         /\ Len(stack') = Len(stack) + 1 /\ stack'[Len(stack) + 1] = Lisp /\ Top' = Lisp
         /\ stack'[Len(stack)] = Loop(Top.at, c)
         /\ \A i \in 1 .. Len(stack) - 1 : stack'[i] = stack[i]
<1>. DEFINE a == [Top EXCEPT !.pc = c]
<1>1. a = Loop(Top.at, c)
  BY TopIsActivation, NotifyMoves, Zenon DEF Loop
<1>2. a \in Activation /\ a.fn = "notify" /\ a.pc \in Resting
  <2>1. Loop(Top.at, c) \in Activation
    BY LoopIsActivation
  <2>. QED BY <1>1, <2>1 DEF Loop, Resting
<1>3. stack' = (Below \o <<a>>) \o <<Lisp>> /\ Lisp \in Activation
  BY NewActivations DEF Calls, Goto
<1>. HIDE DEF a
<1>. QED BY <1>1, <1>2, <1>3, Called

(* Status_notify goes on. *)
LEMMA LoopGoes ==
  ASSUME StackInv, Top.fn = "notify", NEW p \in Proc,
         NEW c \in {"next", "read", "update", "clear", "report"},
         \/ stack' = Goto(c) /\ p = Top.at
         \/ stack' = Below \o <<[Top EXCEPT !.at = p, !.pc = c]>>
  PROVE  /\ StackInv'
         /\ Len(stack') = Len(stack) /\ Top' = Loop(p, c) /\ stack'[Len(stack)] = Loop(p, c)
         /\ \A i \in 1 .. Len(stack) - 1 : stack'[i] = stack[i]
<1>. DEFINE a == Loop(p, c)
<1>1. /\ [Top EXCEPT !.at = p, !.pc = c] = a
      /\ p = Top.at => [Top EXCEPT !.pc = c] = a
  BY TopIsActivation, NotifyMoves, Zenon DEF Loop
<1>2. a \in Activation /\ a.fn = "notify"
  <2>1. Loop(p, c) \in Activation
    BY LoopIsActivation
  <2>. QED BY <2>1 DEF Loop
<1>. HIDE DEF a
<1>3. stack' = Below \o <<a>>
  <2>1. CASE stack' = Goto(c) /\ p = Top.at
    BY <1>1, <2>1 DEF Goto
  <2>2. CASE stack' = Below \o <<[Top EXCEPT !.at = p, !.pc = c]>>
    BY <1>1, <2>2
  <2>. QED BY <2>1, <2>2
<1>4. /\ StackInv'
      /\ Len(stack') = Len(stack) /\ stack'[Len(stack)] = a /\ Top' = a
      /\ \A i \in 1 .. Len(stack) - 1 : stack'[i] = stack[i]
  BY <1>2, <1>3, Replaced
<1>. QED BY <1>4 DEF a

(* process-status, which may leave off where it has converted the status *)
LEMMA LispGoes ==
  ASSUME StackInv, Top.fn = "lisp", NEW p \in Proc,
         NEW a, a = Lisp \/ a = [fn |-> "lisp", pc |-> "clear", at |-> p],
         \/ stack' = Below \o <<a>>
         \/ /\ stack' = Below \o <<[Top EXCEPT !.pc = "clear", !.at = p]>>
            /\ a = [fn |-> "lisp", pc |-> "clear", at |-> p]
  PROVE  /\ StackInv'
         /\ Len(stack') = Len(stack) /\ Top' = a /\ stack'[Len(stack)] = a
         /\ \A i \in 1 .. Len(stack) - 1 : stack'[i] = stack[i]
<1>1. [Top EXCEPT !.pc = "clear", !.at = p] = [fn |-> "lisp", pc |-> "clear", at |-> p]
  <2>1. Top \in Activation
    BY TopIsActivation
  <2>2. ASSUME NEW c
        PROVE  [Top EXCEPT !.pc = c, !.at = p] = [fn |-> "lisp", pc |-> c, at |-> p]
    BY <2>1, LispMoves, Zenon
  <2>. QED BY <2>2, Zenon
<1>2. a \in Activation /\ a.fn = "lisp"
  BY DEF Lisp, Activation
<1>3. stack' = Below \o <<a>>
  BY <1>1
<1>. QED BY <1>2, <1>3, Replaced

-----------------------------------------------------------------------------
(* Types *)

(* What TypeOK says of the rest *)
Rest ==
  /\ sigchld \in BOOLEAN /\ ticked \in BOOLEAN /\ child_signal \in BOOLEAN
  /\ cdr \in Cells
  /\ told \in [Proc -> Status] /\ excused \in [Proc -> 0..3]
  /\ calls \in 0..MaxCalls

TypeInv == IInv /\ Rest /\ StackInv

LEMMA StackUnchanged ==
  ASSUME StackInv, UNCHANGED stack
  PROVE  StackInv' /\ Top' = Top
BY DEF StackInv, Top

LEMMA RestUnchanged ==
  ASSUME Rest, UNCHANGED <<cdr, told, excused, calls>>,
         sigchld' \in BOOLEAN, ticked' \in BOOLEAN, child_signal' \in BOOLEAN
  PROVE  Rest'
BY DEF Rest

LEMMA ExcusedType ==
  ASSUME Rest, NEW p \in Proc, NEW degree \in 1..3
  PROVE  Excuse(p, degree) => excused' \in [Proc -> 0..3]
<1>1. \A x \in 0..3 : Worse(x, degree) \in 0..3
  BY DEF Worse
<1>. QED BY <1>1 DEF Rest, Excuse

LEMMA TroublesType ==
  ASSUME Rest
  PROVE  Troubles => calls' \in 0..MaxCalls
BY ProcessesAssumption DEF Rest, Troubles

LEMMA InitTypes == Init => TypeInv
<1> SUFFICES ASSUME Init PROVE TypeInv
  OBVIOUS
<1>1. Rest
  <2>1. MaxCalls \in 0 .. MaxCalls
    BY ProcessesAssumption
  <2>2. cdr \in Cells
    BY DEF Init, Cells
  <2>3. told \in [Proc -> Status] /\ excused \in [Proc -> 0..3]
    BY DEF Init, Status
  <2>. QED BY <2>1, <2>2, <2>3 DEF Init, Rest
<1>2. StackInv
  <2>1. Lisp \in Activation /\ Lisp.fn = "lisp" /\ Lisp.pc = "run"
    BY DEF Lisp, Activation
  <2>2. <<Lisp>> \in Seq(Activation) /\ Len(<<Lisp>>) = 1 /\ <<Lisp>>[1] = Lisp
    BY <2>1
  <2>. QED BY <2>1, <2>2 DEF Init, StackInv
<1>. QED BY <1>1, <1>2, InitInv DEF TypeInv

LEMMA ChildTypes == ASSUME TypeInv, Child PROVE Rest' /\ StackInv'
<1>1. /\ UNCHANGED <<cdr, told, excused, calls, stack, ticked, child_signal>>
      /\ sigchld' = sigchld \/ sigchld' = TRUE
  BY DEF Child, KidWrites, KidStops, KidExits
<1>. QED BY <1>1, RestUnchanged, StackUnchanged DEF TypeInv, Rest

(* What the handler finds, and does to each process *)
Gone == {p \in deleted_pid_list : kid[p].news = "exit"}
Changed == {p \in Listed : process[p].alive /\ kid[p].news # Nil}
Over == {p \in Changed : kid[p].news = "exit"}

Reaped(k) == [k EXCEPT !.state = "reaped", !.news = Nil]

LEMMA HandlerDoes ==
  ASSUME handle_child_signal
  PROVE  /\ sigchld /\ sigchld' = FALSE
         /\ kid' = [p \in Proc |->
                IF p \in Gone \cup Over THEN Reaped(kid[p])
                ELSE IF p \in Changed THEN [kid[p] EXCEPT !.news = Nil] ELSE kid[p]]
         /\ deleted_pid_list' = deleted_pid_list \ Gone
         /\ process' = [p \in Proc |->
                IF p \in Changed THEN WithStatus(process[p], kid[p].news) ELSE process[p]]
         /\ ticked' = (ticked \/ Changed # {})
         /\ IF Gone \cup Changed # {} THEN child_signal' = TRUE ELSE UNCHANGED child_signal
         /\ excused' = [p \in Proc |-> IF p \in Changed /\ BeingReported(p)
                                       THEN Worse(excused[p], Known) ELSE excused[p]]
         /\ UNCHANGED <<cdr, stack, told, calls>>
BY Zenon DEF handle_child_signal, child_signal_notify, Gone, Changed, Over, Reaped

LEMMA HandlerTypes == ASSUME TypeInv, handle_child_signal PROVE Rest' /\ StackInv'
<1>1. /\ sigchld' = FALSE /\ UNCHANGED <<cdr, told, calls, stack>>
      /\ child_signal' = TRUE \/ UNCHANGED child_signal
      /\ ticked' = (ticked \/ Changed # {})
  BY HandlerDoes, Zenon
<1>2. StackInv'
  BY <1>1, StackUnchanged DEF TypeInv
<1>3. ticked' \in BOOLEAN
  BY <1>1
<1>4. excused' \in [Proc -> 0..3]
  <2>1. \A x \in 0..3 : Worse(x, Known) \in 0..3
    BY DEF Worse, Known
  <2>. DEFINE Hit(p) == p \in Changed /\ BeingReported(p)
  <2>2. excused' = [p \in Proc |-> IF Hit(p) THEN Worse(excused[p], Known) ELSE excused[p]]
    BY HandlerDoes, Zenon
  <2>. HIDE DEF Hit
  <2>. QED BY <2>1, <2>2 DEF TypeInv, Rest
<1>. QED BY <1>1, <1>2, <1>3, <1>4 DEF TypeInv, Rest

LEMMA MakeTypes == ASSUME TypeInv, NEW p \in Proc, make_process(p) PROVE Rest' /\ StackInv'
<1>1. cdr' \in Cells
  BY DEF make_process, TypeInv, Rest, Cells
<1>2. UNCHANGED <<sigchld, ticked, child_signal, stack, told, excused, calls>>
  BY DEF make_process
<1>. QED BY <1>1, <1>2, StackUnchanged DEF TypeInv, Rest

LEMMA DeleteTypes == ASSUME TypeInv, NEW p \in Proc, Fdelete_process(p) PROVE Rest' /\ StackInv'
<1>1. cdr' \in Cells /\ ticked' \in BOOLEAN
  <2>1. Without(cdr, p) \in Cells
    BY DEF TypeInv, Rest, Cells, Without
  <2>. QED BY <2>1 DEF Fdelete_process, TypeInv, Rest
<1>2. StackInv'
  <2>1. CASE process[p].open
    <3>1. Notify(p, "remove") \in Activation
      BY NewActivations
    <3>2. Doing("lisp", "run") /\ stack' = Calls(Notify(p, "remove"), "run")
      BY <2>1 DEF Fdelete_process
    <3>. QED BY <3>1, <3>2, LispCalls DEF TypeInv
  <2>2. CASE ~process[p].open
    BY <2>2, StackUnchanged DEF TypeInv, Fdelete_process
  <2>. QED BY <2>1, <2>2
<1>3. sigchld' \in BOOLEAN /\ UNCHANGED <<child_signal, told>>
  BY DEF Fdelete_process, record_kill_process, TypeInv, Rest
<1>4. calls' \in 0..MaxCalls
  BY TroublesType DEF Fdelete_process, TypeInv
<1>5. excused' \in [Proc -> 0..3]
  BY ExcusedType DEF Fdelete_process, Told, TypeInv
<1>. QED BY <1>1, <1>2, <1>3, <1>4, <1>5 DEF TypeInv, Rest

LEMMA ContinueTypes ==
  ASSUME TypeInv, NEW p \in Proc, Fcontinue_process(p) PROVE Rest' /\ StackInv'
<1>1. StackInv'
  <2>1. Notify(p, "continue") \in Activation
    BY NewActivations
  <2>2. Doing("lisp", "run") /\ stack' = Calls(Notify(p, "continue"), "run")
    BY DEF Fcontinue_process
  <2>. QED BY <2>1, <2>2, LispCalls DEF TypeInv
<1>2. ticked' = FALSE /\ UNCHANGED <<sigchld, cdr, child_signal, told>>
  BY DEF Fcontinue_process
<1>3. calls' \in 0..MaxCalls
  BY TroublesType DEF Fcontinue_process, TypeInv
<1>4. excused' \in [Proc -> 0..3]
  <2>1. Excuse(p, Known) => excused' \in [Proc -> 0..3]
    BY ExcusedType DEF Known, TypeInv
  <2>. QED BY <2>1 DEF Fcontinue_process, TypeInv, Rest
<1>. QED BY <1>1, <1>2, <1>3, <1>4 DEF TypeInv, Rest

LEMMA StatusTypes ==
  ASSUME TypeInv, (\E p \in Proc : Fprocess_status(p)) \/ StatusCleared PROVE Rest' /\ StackInv'
<1>1. UNCHANGED <<sigchld, ticked, child_signal, cdr, told, excused, calls>>
  BY Zenon DEF Fprocess_status, StatusCleared
<1>2. ASSUME NEW p \in Proc, Fprocess_status(p) PROVE StackInv'
  <2>1. /\ Top.fn = "lisp"
        /\ stack' = Below \o <<[Top EXCEPT !.pc = "clear", !.at = p]>>
    BY <1>2, Zenon DEF Fprocess_status, Doing
  <2>. QED BY <2>1, LispGoes, Zenon DEF TypeInv
<1>3. CASE StatusCleared
  <2>1. Top.fn = "lisp" /\ Top.pc = "clear" /\ stack' = Below \o <<Lisp>>
    BY <1>3, Zenon DEF StatusCleared, Doing
  <2>2. Top.at \in Proc
    BY <2>1, TopIsActivation, ActivationFields DEF TypeInv
  <2>3. StackInv
    BY DEF TypeInv
  <2>4. StackInv'
    BY <2>1, <2>2, <2>3, LispGoes, Zenon
  <2>. QED BY <1>1, <2>4, RestUnchanged DEF TypeInv, Rest
<1>4. CASE \E p \in Proc : Fprocess_status(p)
  <2>1. StackInv'
    BY <1>2, <1>4
  <2>. QED BY <1>1, <2>1, RestUnchanged DEF TypeInv, Rest
<1>. QED BY <1>3, <1>4

LEMMA SendTypes == ASSUME TypeInv, NEW p \in Proc, SendFails(p) PROVE Rest' /\ StackInv'
<1>1. ticked' = TRUE /\ UNCHANGED <<sigchld, cdr, child_signal, told, stack>>
  BY DEF SendFails
<1>2. calls' \in 0..MaxCalls
  BY TroublesType DEF SendFails, TypeInv
<1>3. excused' \in [Proc -> 0..3]
  BY ExcusedType DEF SendFails, Recorded, TypeInv
<1>. QED BY <1>1, <1>2, <1>3, StackUnchanged DEF TypeInv, Rest

LEMMA ReturnTypes ==
  ASSUME TypeInv, accept_process_output \/ LispReturns \/ StopsWaiting PROVE Rest' /\ StackInv'
<1>1. UNCHANGED <<sigchld, ticked, child_signal, cdr, told, excused, calls>>
  BY DEF accept_process_output, LispReturns, StopsWaiting
<1>2. StackInv'
  <2>1. CASE accept_process_output
    BY <2>1, LispCalls, NewActivations DEF accept_process_output, TypeInv
  <2>2. CASE LispReturns
    BY <2>2, Returned DEF LispReturns, TypeInv
  <2>3. CASE StopsWaiting
    BY <2>3, Returned, TopIsActivation DEF StopsWaiting, TypeInv, Doing
  <2>. QED BY <2>1, <2>2, <2>3
<1>. QED BY <1>1, <1>2, RestUnchanged DEF TypeInv, Rest

LEMMA ThrowTypes ==
  ASSUME TypeInv, NEW i \in DOMAIN stack, LispThrows(i) PROVE Rest' /\ StackInv'
<1>1. StackInv'
  <2>1. i \in 1 .. Len(stack) - 1 /\ stack' = SubSeq(stack, 1, i)
    BY TopIsActivation DEF LispThrows, TypeInv
  <2>. QED BY <2>1, CutBack DEF TypeInv
<1>2. UNCHANGED <<sigchld, ticked, child_signal, cdr, told>>
  BY DEF LispThrows
<1>3. calls' \in 0..MaxCalls
  BY TroublesType DEF LispThrows, TypeInv
<1>4. excused' \in [Proc -> 0..3]
  <2>1. \A x \in 0..3 : Worse(x, Told) \in 0..3
    BY DEF Worse, Told
  <2>. DEFINE Hit(p) == Abandoned(i) # {} /\ (process[p].ticked \/ \E j \in Abandoned(i) :
                                  stack[j].at = p /\ stack[j].pc = "read")
  <2>2. excused' = [p \in Proc |-> IF Hit(p) THEN Worse(excused[p], Told) ELSE excused[p]]
    BY DEF LispThrows
  <2>. HIDE DEF Hit
  <2>. QED BY <2>1, <2>2 DEF TypeInv, Rest
<1>. QED BY <1>1, <1>2, <1>3, <1>4 DEF TypeInv, Rest

LEMMA WaitTypes ==
  ASSUME TypeInv, Check \/ (\E p \in Proc : ReadsProcess(p)) \/ ReadsChildSignal
  PROVE  Rest' /\ StackInv'
<1>1. /\ ticked' \in BOOLEAN /\ child_signal' \in BOOLEAN
      /\ UNCHANGED <<sigchld, cdr, told, excused, calls>>
  BY DEF Check, ReadsProcess, ReadsChildSignal, ChildSignalRead, TypeInv, Rest
<1>2. StackInv'
  <2>1. StackInv /\ Top.fn = "wait"
    BY DEF TypeInv, Check, ReadsProcess, ReadsChildSignal, Doing
  <2>2. Lisp \in Activation /\ Notify(Nil, "nothing") \in Activation
    BY NewActivations
  <2>3. \/ stack' = Calls(Notify(Nil, "nothing"), "check") \/ stack' = Calls(Lisp, "check")
        \/ stack' = Goto("select") \/ stack' = Goto("check")
    BY DEF Check, ReadsProcess, ReadsChildSignal
  <2>. QED BY <2>1, <2>2, <2>3, WaitCalls, WaitGoes
<1>. QED BY <1>1, <1>2, RestUnchanged DEF TypeInv, Rest

LEMMA LoopTypes ==
  ASSUME TypeInv, Visit \/ ReadRemaining \/ UpdateStatus \/ StatusUpdated PROVE Rest' /\ StackInv'
<1>1. UNCHANGED <<sigchld, ticked, child_signal, cdr, told, excused, calls>>
  BY DEF Visit, ReadRemaining, UpdateStatus, StatusUpdated
<1>2. StackInv /\ Top \in Activation /\ Top.fn = "notify"
  BY TopIsActivation DEF TypeInv, Visit, ReadRemaining, UpdateStatus, StatusUpdated, Doing
<1>3. CASE Visit
  <2>1. PICK p : /\ p = cdr[Top.at] /\ p # Nil
                 /\ stack' = Below \o <<[Top EXCEPT !.at = p,
                                !.pc = IF process[p].ticked THEN "read" ELSE "next"]>>
    BY <1>3, Zenon DEF Visit
  <2>2. p \in Proc
    BY <1>2, <2>1, ActivationFields DEF TypeInv, Rest, Cells
  <2>. DEFINE c == IF process[p].ticked THEN "read" ELSE "next"
  <2>3. c \in {"next", "read", "update", "clear", "report"}
    OBVIOUS
  <2>4. stack' = Below \o <<[Top EXCEPT !.at = p, !.pc = c]>>
    BY <2>1, Zenon
  <2>. HIDE DEF c
  <2>5. StackInv'
    BY <1>2, <2>2, <2>3, <2>4, LoopGoes, Zenon
  <2>. QED BY <1>1, <2>5, RestUnchanged DEF TypeInv, Rest
<1>4. CASE ReadRemaining \/ UpdateStatus \/ StatusUpdated
  <2>1. Top.at \in Proc
    <3>1. Top.pc \in {"read", "update", "clear", "report"}
      BY <1>4 DEF ReadRemaining, UpdateStatus, StatusUpdated, Doing
    <3>. QED BY <1>2, <3>1, ActivationFields
  <2>2. \/ stack' = Calls(Lisp, "read")
        \/ stack' = Goto("update") \/ stack' = Goto("clear") \/ stack' = Goto("report")
    BY <1>4 DEF ReadRemaining, UpdateStatus, StatusUpdated
  <2>3. \A c \in {"update", "clear", "report"} : stack' = Goto(c) => StackInv'
    BY <1>2, <2>1, LoopGoes, Zenon
  <2>4. stack' = Calls(Lisp, "read") => StackInv'
    BY <1>2, <2>1, LoopCalls, Zenon
  <2>5. StackInv'
    BY <2>2, <2>3, <2>4
  <2>. QED BY <1>1, <2>5, RestUnchanged DEF TypeInv, Rest
<1>. QED BY <1>3, <1>4

LEMMA ReportTypes == ASSUME TypeInv, Report PROVE Rest' /\ StackInv'
<1>1. Top \in Activation /\ Top.fn = "notify" /\ Top.pc = "report" /\ Top.at \in Proc
  BY TopIsActivation, ActivationFields DEF TypeInv, Report, Doing
<1>2. UNCHANGED <<sigchld, ticked, child_signal, excused, calls>>
  BY DEF Report
<1>3. cdr' \in Cells
  <2>1. Without(cdr, Top.at) \in Cells
    BY <1>1 DEF TypeInv, Rest, Cells, Without
  <2>. QED BY <2>1 DEF Report, TypeInv, Rest
<1>4. told' \in [Proc -> Status]
  <2>1. told' = [told EXCEPT ![Top.at] = process[Top.at].status]
    BY DEF Report
  <2>2. process[Top.at].status \in Status
    BY <1>1 DEF TypeInv, IInv, Typed, Lisp_Process
  <2>. QED BY <2>1, <2>2 DEF TypeInv, Rest
<1>5. StackInv'
  BY <1>1, LoopCalls DEF Report, TypeInv
<1>. QED BY <1>2, <1>3, <1>4, <1>5 DEF TypeInv, Rest

LEMMA NotifyReturnsTypes == ASSUME TypeInv, NotifyReturns PROVE Rest' /\ StackInv'
<1>1. Top \in Activation /\ Top.fn = "notify" /\ Len(stack) > 1
  BY TopIsActivation DEF TypeInv, NotifyReturns, Doing
<1>2. UNCHANGED <<ticked, child_signal, told, excused, calls>> /\ stack' = Below
  BY DEF NotifyReturns
<1>3. StackInv'
  BY <1>1, <1>2, Returned DEF TypeInv
<1>4. cdr' \in Cells /\ sigchld' \in BOOLEAN
  <2>1. Without(cdr, Top.for) \in Cells
    BY <1>1, ActivationFields DEF TypeInv, Rest, Cells, Without
  <2>. QED BY <2>1 DEF NotifyReturns, TypeInv, Rest
<1>. QED BY <1>2, <1>3, <1>4 DEF TypeInv, Rest

LEMMA TypesKept == TypeInv /\ [Next]_vars => TypeInv'
<1> SUFFICES ASSUME TypeInv, [Next]_vars PROVE TypeInv'
  OBVIOUS
<1>1. IInv'
  <2>1. CASE Next
    BY <2>1, ChildInv, HandlerInv, LispInv, WaitInv, NotifyInv DEF Next, TypeInv
  <2>2. CASE UNCHANGED vars
    BY <2>2, NoChild DEF vars, TypeInv
  <2>. QED BY <2>1, <2>2
<1>2. Rest' /\ StackInv'
  <2>1. CASE LispRuns
    BY <2>1, MakeTypes, DeleteTypes, ContinueTypes, StatusTypes, SendTypes, ReturnTypes, ThrowTypes
    DEF LispRuns
  <2>2. CASE Waits
    BY <2>2, WaitTypes, ReturnTypes DEF Waits
  <2>3. CASE Notifies
    BY <2>3, LoopTypes, ReportTypes, NotifyReturnsTypes DEF Notifies
  <2>4. CASE UNCHANGED vars
    BY <2>4, RestUnchanged, StackUnchanged DEF vars, TypeInv, Rest
  <2>. QED BY <2>1, <2>2, <2>3, <2>4, ChildTypes, HandlerTypes DEF Next
<1>. QED BY <1>1, <1>2 DEF TypeInv

(* Every variable has its type whatever the children, the handler and Lisp do, *)
(* and the first activation is always Lisp's: no throw, return or end of a     *)
(* wait takes it away.                                                         *)
THEOREM TypeCorrect == Spec => []TypeOK
<1>1. TypeInv => TypeOK
  <2> SUFFICES ASSUME TypeInv PROVE TypeOK
    OBVIOUS
  <2>1. stack # <<>>
    BY DEF TypeInv, StackInv
  <2>. QED BY <2>1 DEF TypeInv, TypeOK, Rest, StackInv, IInv, Typed, Cells
<1>. QED BY InitTypes, TypesKept, <1>1, PTL DEF Spec

-----------------------------------------------------------------------------
(* What is known of one process, whatever is running *)

(* Parameters of what follows: a process p, the child k, struct Lisp_Process s, *)
(* its cdr nx, the list D of pids deleted, the status t its sentinel was told,  *)
(* the degree e of its excuse, and the list L of processes.                    *)
View(p, k, s, nx, D, t, e) ==
  /\ k \in Kid /\ s \in Lisp_Process /\ nx \in Proc \cup {Nil} /\ t \in Status /\ e \in 0..3
  /\ s.alive \/ p \in D => k.state \notin {"none", "reaped"}
  /\ ~(s.alive /\ p \in D)

StatusOf(s) == IF s.raw_status_new # Nil THEN s.raw_status_new ELSE s.status

(* Nothing has happened to a process that has not been made. *)
Unborn(k, s, nx, t) ==
  k.state = "none" =>
    /\ k.out = 0 /\ nx = Nil /\ t = "run"
    /\ ~s.ticked /\ s.status = "run" /\ s.raw_status_new = Nil
    /\ ~s.alive /\ ~s.open /\ ~s.watched

(* A child is on record; a process that is alive is in the list, and nothing   *)
(* says that it has exited.                                                    *)
OnRecord(p, k, s, D, e, L) ==
  /\ k.state \in {"run", "stop", "dead"} => s.alive \/ p \in D
  /\ s.alive /\ e # Recorded => p \in L /\ s.status # "exit" /\ s.raw_status_new # "exit"
  /\ p \in D => e >= Told

(* That it has exited is known of a process that is not alive. *)
EndKnown(k, s, e) ==
  /\ ~s.alive => s.raw_status_new \in {Nil, "exit"}
  /\ ~s.alive /\ k.state # "none" /\ e < Known => StatusOf(s) = "exit"

(* The connection is closed after the exit has been told. *)
Closed(k, s, t, e) ==
  ~s.open /\ k.state # "none" =>
    /\ e < Recorded => ~s.alive
    /\ e < Known => s.status = "exit"
    /\ e = 0 => t = "exit"

(* What is said to have exited has been reaped; its output has been read when  *)
(* it is told.                                                                 *)
EndIsReal(k, s, t, e) ==
  /\ (s.status = "exit" \/ s.raw_status_new = "exit" \/ t = "exit") /\ e = 0 =>
       k.state = "reaped"
  /\ t = "exit" /\ e = 0 => k.out = 0

Sound(p, k, s, nx, D, t, e, L) ==
  /\ Unborn(k, s, nx, t) /\ OnRecord(p, k, s, D, e, L) /\ EndKnown(k, s, e)
  /\ Closed(k, s, t, e) /\ EndIsReal(k, s, t, e)

(* Status_notify called by delete-process for a process so described goes on    *)
(* to remove it.                                                               *)
Removing(k, s, e) ==
  ~s.alive /\ s.raw_status_new = Nil /\ k.state # "none" /\ e >= Told

(* Where the activation a, for the process so described, is about to report it. *)
Busy(a, k, s, e) ==
  /\ a.pc = "clear" => e >= Known \/ (s.raw_status_new # Nil /\ s.status = s.raw_status_new)
  /\ a.pc = "report" => e >= Known \/ s.raw_status_new = Nil
  /\ a.fn = "notify" /\ e = 0 /\ (s.status = "exit" \/ s.raw_status_new = "exit") => k.out = 0

(* The child's own steps *)
LEMMA SoundKid ==
  ASSUME NEW p, NEW k, NEW s, NEW nx, NEW D, NEW t, NEW e, NEW L,
         View(p, k, s, nx, D, t, e), Sound(p, k, s, nx, D, t, e, L)
  PROVE  /\ k.state = "run" => Sound(p, Writing(k), s, nx, D, t, e, L)
         /\ k.state = "run" => Sound(p, Stopped(k), s, nx, D, t, e, L)
         /\ k.state \in {"run", "stop"} => Sound(p, Dead(k), s, nx, D, t, e, L)
         /\ k.state = "stop" => Sound(p, Continued(k), s, nx, D, t, e, L)
         /\ k.out > 0 => Sound(p, Read(k), s, nx, D, t, e, L)
<1>1. k.state = "run" => Sound(p, Writing(k), s, nx, D, t, e, L)
  <2>1. /\ k.state = "run" => Writing(k).state = "run"
        /\ Writing(k).state = k.state
    BY DEF Writing, View, Kid
  <2>. QED BY <2>1 DEF View, Sound, Unborn, OnRecord, EndKnown, Closed, EndIsReal
<1>2. k.state = "run" => Sound(p, Stopped(k), s, nx, D, t, e, L)
  <2>1. Stopped(k).state = "stop" /\ Stopped(k).out = k.out
    BY DEF Stopped, View, Kid
  <2>. QED BY <2>1 DEF View, Sound, Unborn, OnRecord, EndKnown, Closed, EndIsReal
<1>3. k.state \in {"run", "stop"} => Sound(p, Dead(k), s, nx, D, t, e, L)
  <2>1. Dead(k).state = "dead" /\ Dead(k).out = k.out
    BY DEF Dead, View, Kid
  <2>. QED BY <2>1 DEF View, Sound, Unborn, OnRecord, EndKnown, Closed, EndIsReal
<1>4. k.state = "stop" => Sound(p, Continued(k), s, nx, D, t, e, L)
  <2>1. Continued(k).state = "run" /\ Continued(k).out = k.out
    BY DEF Continued, View, Kid
  <2>. QED BY <2>1 DEF View, Sound, Unborn, OnRecord, EndKnown, Closed, EndIsReal
<1>5. k.out > 0 => Sound(p, Read(k), s, nx, D, t, e, L)
  <2>1. Read(k).state = k.state /\ k.out \in Nat
    BY DEF Read, View, Kid
  <2>. QED BY <2>1 DEF View, Sound, Unborn, OnRecord, EndKnown, Closed, EndIsReal
<1>. QED BY <1>1, <1>2, <1>3, <1>4, <1>5

(* The handler: what it reaps has exited, what it only notes has not.           *)
LEMMA SoundReaped ==
  ASSUME NEW p, NEW k, NEW s, NEW nx, NEW D, NEW t, NEW e, NEW L,
         View(p, k, s, nx, D, t, e), Sound(p, k, s, nx, D, t, e, L),
         NEW k2, k2.state = "reaped", k2.out = k.out, NEW D2, p \notin D2,
         NEW e2 \in 0..3, e <= e2
  PROVE  /\ p \in D => Sound(p, k2, s, nx, D2, t, e2, L)
         /\ s.alive => Sound(p, k2, WithStatus(s, "exit"), nx, D2, t, e2, L)
<1>1. /\ WithStatus(s, "exit").raw_status_new = "exit" /\ ~WithStatus(s, "exit").alive
      /\ WithStatus(s, "exit").open = s.open /\ WithStatus(s, "exit").status = s.status
  BY DEF View, Lisp_Process, WithStatus
<1>2. "exit" # Nil
  BY ProcessesAssumption
<1>3. p \in D => Sound(p, k2, s, nx, D2, t, e2, L)
  BY DEF View, Sound, Unborn, OnRecord, EndKnown, Closed, EndIsReal, Told, Known, Recorded
<1>4. s.alive => Sound(p, k2, WithStatus(s, "exit"), nx, D2, t, e2, L)
  BY <1>1, <1>2
  DEF View, Sound, Unborn, OnRecord, EndKnown, Closed, EndIsReal, StatusOf, Told, Known, Recorded
<1>. QED BY <1>3, <1>4

LEMMA SoundNoted ==
  ASSUME NEW p, NEW k, NEW s, NEW nx, NEW D, NEW t, NEW e, NEW L,
         View(p, k, s, nx, D, t, e), Sound(p, k, s, nx, D, t, e, L),
         NEW k2, k2.state = k.state, k2.out = k.out, NEW news \in {"run", "stop"}, s.alive,
         NEW e2 \in 0..3, e <= e2
  PROVE  Sound(p, k2, WithStatus(s, news), nx, D, t, e2, L)
<1>1. /\ WithStatus(s, news).raw_status_new = news /\ WithStatus(s, news).alive
      /\ WithStatus(s, news).open = s.open /\ WithStatus(s, news).status = s.status
  BY DEF View, Lisp_Process, WithStatus
<1>. QED BY <1>1
  DEF View, Sound, Unborn, OnRecord, EndKnown, Closed, EndIsReal, StatusOf, Told, Known, Recorded

(* Whoever else is deleted, added to the list or taken out of it, and whatever *)
(* there is to excuse                                                          *)
LEMMA SoundOther ==
  ASSUME NEW p, NEW k, NEW s, NEW nx, NEW D, NEW t, NEW e, NEW L,
         View(p, k, s, nx, D, t, e), Sound(p, k, s, nx, D, t, e, L),
         NEW nx2, nx = Nil => nx2 = Nil, NEW D2, p \in D2 <=> p \in D,
         NEW L2, p \in L => p \in L2,
         NEW e2 \in 0..3, e <= e2
  PROVE  Sound(p, k, s, nx2, D2, t, e2, L2)
BY DEF View, Sound, Unborn, OnRecord, EndKnown, Closed, EndIsReal, StatusOf, Told, Known, Recorded

LEMMA SoundMade ==
  ASSUME NEW p, NEW k, NEW s, NEW nx, NEW D, NEW t, NEW e, NEW L,
         View(p, k, s, nx, D, t, e), Sound(p, k, s, nx, D, t, e, L),
         k.state = "none", NEW nx2, NEW L2, p \in L2
  PROVE  Sound(p, [k EXCEPT !.state = "run"],
               [s EXCEPT !.open = TRUE, !.watched = TRUE, !.alive = TRUE], nx2, D, t, e, L2)
<1>. DEFINE k2 == [k EXCEPT !.state = "run"]
            s2 == [s EXCEPT !.open = TRUE, !.watched = TRUE, !.alive = TRUE]
<1>1. k2.state = "run" /\ k2.out = k.out
  BY DEF View, Kid
<1>2. s2.open /\ s2.alive /\ s2.status = s.status /\ s2.raw_status_new = s.raw_status_new
  BY DEF View, Lisp_Process
<1>3. "exit" # Nil
  BY ProcessesAssumption
<1>. HIDE DEF k2, s2
<1>. QED BY <1>1, <1>2, <1>3
  DEF View, Sound, Unborn, OnRecord, EndKnown, Closed, EndIsReal, Told, Known, Recorded

(* Delete-process, of a process that is connected and of one that is not         *)
LEMMA SoundDeleted ==
  ASSUME NEW p, NEW k, NEW s, NEW nx, NEW D, NEW t, NEW e, NEW L,
         View(p, k, s, nx, D, t, e), Sound(p, k, s, nx, D, t, e, L),
         k.state # "none", NEW k2, k2.state # "none",
         k2.state \in {"run", "stop", "dead"} => k.state \in {"run", "stop", "dead"},
         k2.out = k.out,
         NEW D2, p \in D2 <=> s.alive \/ p \in D, NEW nx2, NEW L2,
         NEW e2 \in 0..3, e <= e2, e2 >= Told,
         NEW s2, s2.raw_status_new = Nil, ~s2.alive,
         s.open => s2.open /\ s2.status = "exit",
         ~s.open => ~s2.open /\ s2.status = s.status
  PROVE  Sound(p, k2, s2, nx2, D2, t, e2, L2) /\ Removing(k2, s2, e2)
<1>1. Sound(p, k2, s2, nx2, D2, t, e2, L2)
  BY DEF View, Sound, Unborn, OnRecord, EndKnown, Closed, EndIsReal, StatusOf, Told, Known, Recorded
<1>. QED BY <1>1 DEF Removing

LEMMA SoundContinued ==
  ASSUME NEW p, NEW k, NEW s, NEW nx, NEW D, NEW t, NEW e, NEW L,
         View(p, k, s, nx, D, t, e), Sound(p, k, s, nx, D, t, e, L), s.open,
         NEW e2 \in 0..3, e <= e2, ~s.alive => e2 >= Known
  PROVE  Sound(p, k, Tick([s EXCEPT !.raw_status_new = Nil, !.status = "run"]), nx, D, t, e2, L)
<1>. DEFINE s2 == Tick([s EXCEPT !.raw_status_new = Nil, !.status = "run"])
<1>1. s2.raw_status_new = Nil /\ s2.alive = s.alive /\ s2.open /\ s2.status = "run"
  BY DEF View, Lisp_Process, Tick
<1>2. "exit" # Nil
  BY ProcessesAssumption
<1>. HIDE DEF s2
<1>3. Sound(p, k, s2, nx, D, t, e2, L)
  BY <1>1, <1>2
  DEF View, Sound, Unborn, OnRecord, EndKnown, Closed, EndIsReal, StatusOf, Told, Known, Recorded
<1>. QED BY <1>3 DEF s2


(* The status is converted, which says nothing new, and then the news forgotten. *)
LEMMA SoundConverted ==
  ASSUME NEW p, NEW k, NEW s, NEW nx, NEW D, NEW t, NEW e, NEW L,
         View(p, k, s, nx, D, t, e), Sound(p, k, s, nx, D, t, e, L), s.raw_status_new # Nil,
         NEW s2, s2 = update_status(s)
  PROVE  /\ Sound(p, k, s2, nx, D, t, e, L)
         /\ s2.raw_status_new # Nil /\ s2.status = s2.raw_status_new
         /\ s2.raw_status_new = s.raw_status_new
<1>1. /\ s2.raw_status_new = s.raw_status_new /\ s2.alive = s.alive /\ s2.open = s.open
      /\ s2.status = s.raw_status_new
  BY DEF View, Lisp_Process, update_status
<1>2. Sound(p, k, s2, nx, D, t, e, L)
  BY <1>1
  DEF View, Sound, Unborn, OnRecord, EndKnown, Closed, EndIsReal, StatusOf, Told, Known, Recorded
<1>. QED BY <1>1, <1>2

LEMMA SoundCleared ==
  ASSUME NEW p, NEW k, NEW s, NEW nx, NEW D, NEW t, NEW e, NEW L,
         View(p, k, s, nx, D, t, e), Sound(p, k, s, nx, D, t, e, L),
         e >= Known \/ (s.raw_status_new # Nil /\ s.status = s.raw_status_new)
  PROVE  Sound(p, k, [s EXCEPT !.raw_status_new = Nil], nx, D, t, e, L)
<1>. DEFINE s2 == [s EXCEPT !.raw_status_new = Nil]
<1>1. s2.raw_status_new = Nil /\ s2.alive = s.alive /\ s2.open = s.open /\ s2.status = s.status
      /\ s2.ticked = s.ticked /\ s2.watched = s.watched
  BY DEF View, Lisp_Process
<1>2. "exit" # Nil
  BY ProcessesAssumption
<1>. HIDE DEF s2
<1>. QED BY <1>1, <1>2
  DEF View, Sound, Unborn, OnRecord, EndKnown, Closed, EndIsReal, StatusOf, Told, Known, Recorded

LEMMA SoundBroken ==
  ASSUME NEW p, NEW k, NEW s, NEW nx, NEW D, NEW t, NEW e, NEW L,
         View(p, k, s, nx, D, t, e), Sound(p, k, s, nx, D, t, e, L), s.open
  PROVE  Sound(p, k, deactivate_process(Tick([s EXCEPT !.raw_status_new = Nil, !.status = "exit"])),
               nx, D, t, Recorded, L)
<1>. DEFINE s2 == deactivate_process(Tick([s EXCEPT !.raw_status_new = Nil, !.status = "exit"]))
<1>1. s2.raw_status_new = Nil /\ s2.alive = s.alive
  BY DEF View, Lisp_Process, Tick, deactivate_process
<1>. HIDE DEF s2
<1>2. Sound(p, k, s2, nx, D, t, Recorded, L)
  BY <1>1
  DEF View, Sound, Unborn, OnRecord, EndKnown, Closed, EndIsReal, StatusOf, Told, Known, Recorded
<1>. QED BY <1>2 DEF s2


(* A tick is forgotten, or a descriptor no longer watched. *)
LEMMA SoundSeen ==
  ASSUME NEW p, NEW k, NEW s, NEW nx, NEW D, NEW t, NEW e, NEW L,
         View(p, k, s, nx, D, t, e), Sound(p, k, s, nx, D, t, e, L),
         NEW s2, s2 = [s EXCEPT !.ticked = FALSE] \/ s2 = [s EXCEPT !.watched = FALSE]
  PROVE  /\ Sound(p, k, s2, nx, D, t, e, L)
         /\ s2.raw_status_new = s.raw_status_new /\ s2.alive = s.alive
<1>1. s2.raw_status_new = s.raw_status_new /\ s2.alive = s.alive /\ s2.open = s.open
      /\ s2.status = s.status /\ (s2.ticked => s.ticked) /\ (s2.watched => s.watched)
  BY DEF View, Lisp_Process
<1>2. Sound(p, k, s2, nx, D, t, e, L)
  BY <1>1
  DEF View, Sound, Unborn, OnRecord, EndKnown, Closed, EndIsReal, StatusOf, Told, Known, Recorded
<1>. QED BY <1>1, <1>2

(* The sentinel is told, and the connection to what has exited closed.           *)
LEMMA SoundReported ==
  ASSUME NEW p, NEW k, NEW s, NEW nx, NEW D, NEW t, NEW e, NEW L,
         View(p, k, s, nx, D, t, e), Sound(p, k, s, nx, D, t, e, L),
         e = 0 /\ s.status = "exit" => k.out = 0,
         NEW nx2, nx = Nil => nx2 = Nil, NEW L2, NEW s2,
         \/ /\ s.status = "exit"
            /\ s2 = deactivate_process([s EXCEPT !.ticked = FALSE])
         \/ /\ s.status # "exit" /\ (p \in L => p \in L2)
            /\ s2 = [s EXCEPT !.ticked = FALSE]
  PROVE  Sound(p, k, s2, nx2, D, s.status, e, L2)
<1>1. /\ s2.raw_status_new = s.raw_status_new /\ s2.alive = s.alive /\ s2.status = s.status
      /\ s.status = "exit" => ~s2.open
      /\ s.status # "exit" => s2.open = s.open /\ s2.watched = s.watched
      /\ ~s2.ticked
  BY DEF View, Lisp_Process, deactivate_process
<1>. QED BY <1>1
  DEF View, Sound, Unborn, OnRecord, EndKnown, Closed, EndIsReal, StatusOf, Told, Known, Recorded

LEMMA SoundRemoved ==
  ASSUME NEW p, NEW k, NEW s, NEW nx, NEW D, NEW t, NEW e, NEW L,
         View(p, k, s, nx, D, t, e), Sound(p, k, s, nx, D, t, e, L),
         Removing(k, s, e), NEW nx2, NEW L2
  PROVE  Sound(p, k, deactivate_process(s), nx2, D, t, e, L2)
<1>. DEFINE s2 == deactivate_process(s)
<1>1. /\ s2.raw_status_new = s.raw_status_new /\ s2.alive = s.alive /\ s2.status = s.status
      /\ ~s2.open
  BY DEF View, Lisp_Process, deactivate_process
<1>. HIDE DEF s2
<1>2. Sound(p, k, s2, nx2, D, t, e, L2)
  BY <1>1
  DEF View, Sound, Unborn, OnRecord, EndKnown, Closed, EndIsReal, StatusOf, Removing,
      Told, Known, Recorded
<1>. QED BY <1>2 DEF s2


-----------------------------------------------------------------------------
(* The processes together *)

LEMMA ListedNow == cdr \in Cells => Listed = Reach(cdr, Nil)
BY ListedIsReach

LEMMA ListedNext == (cdr \in Cells => Listed = Reach(cdr, Nil))'
BY ListedNow, PTL

(* The list is the same until a cell changes. *)
LEMMA ListedSame ==
  ASSUME TypeInv, UNCHANGED cdr
  PROVE  Listed' = Listed
<1>1. cdr \in Cells /\ cdr' \in Cells
  BY DEF TypeInv, Rest
<1>2. Listed = Reach(cdr, Nil) /\ Listed' = Reach(cdr', Nil)
  BY <1>1, ListedNow, ListedNext
<1>. QED BY <1>2

LEMMA ListedMade ==
  ASSUME TypeInv, NEW p \in Proc, cdr[p] = Nil, cdr' = [cdr EXCEPT ![p] = cdr[Nil], ![Nil] = p]
  PROVE  p \in Listed' /\ Listed \subseteq Listed'
<1>1. cdr \in Cells
  BY DEF TypeInv, Rest
<1>2. cdr' \in Cells /\ p \in Reach(cdr', Nil) /\ Reach(cdr, Nil) \subseteq Reach(cdr', Nil)
  <2>. DEFINE d == [cdr EXCEPT ![p] = cdr[Nil], ![Nil] = p]
  <2>1. \A dd : dd = d => dd \in Cells /\ p \in Reach(dd, Nil) /\ Reach(cdr, Nil) \subseteq Reach(dd, Nil)
    BY <1>1, ReachMake, Zenon
  <2>2. cdr' = d
    OBVIOUS
  <2>. HIDE DEF d
  <2>. QED BY <2>1, <2>2, Zenon
<1>3. Listed = Reach(cdr, Nil) /\ Listed' = Reach(cdr', Nil)
  BY <1>1, <1>2, ListedNow, ListedNext
<1>. QED BY <1>2, <1>3

LEMMA ListedWithout ==
  ASSUME TypeInv, NEW p \in Proc, cdr' = Without(cdr, p)
  PROVE  /\ Listed \subseteq Listed' \cup {p} /\ Listed' \subseteq Listed
         /\ \A q \in Proc : cdr[q] = Nil => cdr'[q] = Nil
<1>1. cdr \in Cells
  BY DEF TypeInv, Rest
<1>2. /\ cdr' \in Cells /\ Reach(cdr, Nil) \subseteq Reach(cdr', Nil) \cup {p}
      /\ Reach(cdr', Nil) \subseteq Reach(cdr, Nil)
  BY <1>1, ReachWithout, Zenon
<1>3. Listed = Reach(cdr, Nil) /\ Listed' = Reach(cdr', Nil)
  BY <1>1, <1>2, ListedNow, ListedNext
<1>4. \A q \in Proc : cdr[q] = Nil => cdr'[q] = Nil
  <2>1. Nil # p
    BY ProcessesAssumption
  <2>. QED BY <1>1, <2>1 DEF Without, Cells
<1>. QED BY <1>2, <1>3, <1>4

LEMMA ViewHolds ==
  ASSUME TypeInv, NEW p \in Proc
  PROVE  View(p, kid[p], process[p], cdr[p], deleted_pid_list, told[p], excused[p])
<1>1. /\ kid[p] \in Kid /\ process[p] \in Lisp_Process /\ cdr[p] \in Proc \cup {Nil}
      /\ told[p] \in Status /\ excused[p] \in 0..3
  BY DEF TypeInv, IInv, Typed, Rest, Cells
<1>2. /\ process[p].alive \/ p \in deleted_pid_list => kid[p].state \notin {"none", "reaped"}
      /\ ~(process[p].alive /\ p \in deleted_pid_list)
  BY DEF TypeInv, IInv, NeverReapedTwice
<1>. QED BY <1>1, <1>2 DEF View

SoundNow(p) ==
  Sound(p, kid[p], process[p], cdr[p], deleted_pid_list, told[p], excused[p], Listed)
RemovingNow(p) == Removing(kid[p], process[p], excused[p])
RemovingThen(p) == Removing(kid'[p], process'[p], excused'[p])
BusyNow(a) == Busy(a, kid[a.at], process[a.at], excused[a.at])

ProcInv == \A p \in Proc : SoundNow(p)

(* The calls of delete-process under way, and what the last activation is at. *)
Removers ==
  \A i \in 1 .. Len(stack) : stack[i].fn = "notify" /\ stack[i].then = "remove" =>
    stack[i].for \in Proc /\ RemovingNow(stack[i].for)
BusyTop == Top.pc \in {"update", "clear", "report"} => BusyNow(Top)

NoteInv == TypeInv /\ ProcInv /\ Removers /\ BusyTop

(* Nothing about the process q has changed but its excuse, and what is behind it *)
(* in the list.                                                                *)
Apart(q) ==
  /\ kid'[q] = kid[q] /\ process'[q] = process[q] /\ told'[q] = told[q]
  /\ cdr[q] = Nil => cdr'[q] = Nil
  /\ q \in deleted_pid_list' <=> q \in deleted_pid_list
  /\ excused'[q] \in 0..3 /\ excused[q] <= excused'[q]
  /\ q \in Listed => q \in Listed'

Stands(q) == RemovingNow(q) => RemovingThen(q)

LEMMA OthersSound ==
  ASSUME NoteInv, NEW q \in Proc, Apart(q)
  PROVE  SoundNow(q)' /\ Stands(q)
<1>1. View(q, kid[q], process[q], cdr[q], deleted_pid_list, told[q], excused[q])
  BY ViewHolds DEF NoteInv
<1>2. Sound(q, kid[q], process[q], cdr[q], deleted_pid_list, told[q], excused[q], Listed)
  BY DEF NoteInv, ProcInv, SoundNow
<1>3. Sound(q, kid[q], process[q], cdr'[q], deleted_pid_list', told[q], excused'[q], Listed')
  BY <1>1, <1>2, SoundOther DEF Apart
<1>4. SoundNow(q)'
  BY <1>3 DEF SoundNow, Apart
<1>5. Stands(q)
  BY <1>1 DEF Stands, RemovingNow, RemovingThen, Removing, Apart, View, Told
<1>. QED BY <1>4, <1>5

(* The lists are left alone, and the others. *)
LEMMA OneSound ==
  ASSUME NoteInv, NEW p \in Proc,
         UNCHANGED <<cdr, deleted_pid_list, told>>,
         \A q \in Proc : q # p =>
           kid'[q] = kid[q] /\ process'[q] = process[q] /\ excused'[q] = excused[q],
         Sound(p, kid'[p], process'[p], cdr[p], deleted_pid_list, told[p], excused'[p], Listed),
         RemovingNow(p) => Removing(kid'[p], process'[p], excused'[p])
  PROVE  ProcInv' /\ \A q \in Proc : Stands(q)
<1>1. Listed' = Listed
  BY ListedSame DEF NoteInv
<1>2. \A q \in Proc : excused[q] \in 0..3
  BY DEF NoteInv, TypeInv, Rest
<1>3. ASSUME NEW q \in Proc, q # p
      PROVE  SoundNow(q)' /\ Stands(q)
  <2>1. Apart(q)
    BY <1>1, <1>2, <1>3 DEF Apart
  <2>. QED BY <2>1, OthersSound
<1>4. SoundNow(p)'
  BY <1>1 DEF SoundNow
<1>5. Stands(p)
  BY DEF Stands, RemovingThen
<1>. QED BY <1>3, <1>4, <1>5 DEF ProcInv

(* Only the activations change. *)
LEMMA NoneChanged ==
  ASSUME NoteInv, UNCHANGED <<kid, process, cdr, deleted_pid_list, told, excused>>
  PROVE  ProcInv' /\ \A q \in Proc : Stands(q)
<1>1. Listed' = Listed
  BY ListedSame DEF NoteInv
<1>2. \A q \in Proc : SoundNow(q)' = SoundNow(q)
  BY <1>1 DEF SoundNow
<1>. QED BY <1>2 DEF NoteInv, ProcInv, Stands, RemovingNow, RemovingThen

(* What is being removed stays so whatever is done to it. *)
LEMMA RemovingKid ==
  ASSUME NEW k \in Kid, NEW s, NEW e, Removing(k, s, e)
  PROVE  /\ Removing(Writing(k), s, e) /\ Removing(Read(k), s, e)
         /\ Removing(Stopped(k), s, e) /\ Removing(Dead(k), s, e) /\ Removing(Continued(k), s, e)
BY DEF Removing, Kid, Writing, Read, Stopped, Dead, Continued

(* The calls of delete-process under way after a step: N activations are as they *)
(* were, and the others are looked at one by one.                              *)
LEMMA RemoversKept ==
  ASSUME NoteInv, StackInv', \A q \in Proc : Stands(q),
         NEW n \in Nat, n <= Len(stack), \A i \in 1 .. n : stack'[i] = stack[i],
         \A i \in 1 .. Len(stack') : i > n =>
           LET a == stack'[i] IN
           a.fn = "notify" /\ a.then = "remove" => a.for \in Proc /\ RemovingThen(a.for)
  PROVE  Removers'
<1> SUFFICES ASSUME NEW i \in 1 .. Len(stack'), stack'[i].fn = "notify", stack'[i].then = "remove"
             PROVE  stack'[i].for \in Proc /\ RemovingThen(stack'[i].for)
  BY DEF Removers, RemovingNow, RemovingThen
<1>1. Len(stack) \in Nat /\ Len(stack') \in Nat
  BY DEF NoteInv, TypeInv, StackInv
<1>2. CASE i <= n
  <2>1. stack'[i] = stack[i] /\ i \in 1 .. Len(stack)
    BY <1>1, <1>2
  <2>2. stack[i].for \in Proc /\ RemovingNow(stack[i].for)
    BY <2>1 DEF NoteInv, Removers
  <2>. QED BY <2>1, <2>2 DEF Stands
<1>3. CASE i > n
  BY <1>3
<1>. QED BY <1>1, <1>2, <1>3

LEMMA RemoversStay ==
  ASSUME NoteInv, UNCHANGED stack, \A q \in Proc : Stands(q)
  PROVE  Removers'
<1>1. StackInv' /\ Len(stack) \in Nat
  BY StackUnchanged DEF NoteInv, TypeInv, StackInv
<1>2. /\ Len(stack) <= Len(stack) /\ \A i \in 1 .. Len(stack) : stack'[i] = stack[i]
      /\ \A i \in 1 .. Len(stack') : ~(i > Len(stack))
  BY <1>1
<1>. QED BY <1>1, <1>2, RemoversKept

LEMMA ChildNotes == ASSUME NoteInv, NEW p \in Proc, KidWrites(p) \/ KidStops(p) \/ KidExits(p)
                    PROVE  ProcInv' /\ Removers' /\ BusyTop'
<1>1. UNCHANGED <<process, cdr, deleted_pid_list, stack, told, excused>>
  BY DEF KidWrites, KidStops, KidExits
<1>2. PICK k : /\ kid' = [kid EXCEPT ![p] = k]
               /\ \/ k = Writing(kid[p]) /\ kid[p].state = "run"
                  \/ k = Stopped(kid[p]) /\ kid[p].state = "run"
                  \/ k = Dead(kid[p]) /\ kid[p].state \in {"run", "stop"}
  BY DEF KidWrites, KidStops, KidExits, Alive
<1>3. kid'[p] = k /\ \A q \in Proc : q # p => kid'[q] = kid[q]
  BY <1>2 DEF NoteInv, TypeInv, IInv, Typed
<1>4. View(p, kid[p], process[p], cdr[p], deleted_pid_list, told[p], excused[p])
  BY ViewHolds DEF NoteInv
<1>5. Sound(p, kid[p], process[p], cdr[p], deleted_pid_list, told[p], excused[p], Listed)
  BY DEF NoteInv, ProcInv, SoundNow
<1>6. Sound(p, k, process[p], cdr[p], deleted_pid_list, told[p], excused[p], Listed)
  BY <1>2, <1>4, <1>5, SoundKid
<1>7. RemovingNow(p) => Removing(k, process[p], excused[p])
  BY <1>2, <1>4, RemovingKid DEF RemovingNow, View
<1>8. ProcInv' /\ \A q \in Proc : Stands(q)
  BY <1>1, <1>3, <1>6, <1>7, OneSound
<1>9. BusyTop'
  <2>1. Top' = Top
    BY <1>1 DEF Top
  <2> SUFFICES ASSUME Top.pc \in {"update", "clear", "report"} PROVE BusyNow(Top)'
    BY <2>1 DEF BusyTop
  <2>2. BusyNow(Top) /\ Top.at \in Proc
    BY TopIsActivation, ActivationFields DEF NoteInv, BusyTop, TypeInv
  <2>3. CASE Top.at # p
    BY <1>1, <1>3, <2>1, <2>2, <2>3 DEF BusyNow, Busy
  <2>4. CASE Top.at = p
    <3>1. Busy(Top, kid[p], process[p], excused[p])
      BY <2>2, <2>4 DEF BusyNow
    <3>2. excused[p] = 0 /\ (process[p].status = "exit" \/ process[p].raw_status_new = "exit") =>
            kid[p].state = "reaped"
      BY <1>5 DEF Sound, EndIsReal
    <3>3. kid[p].state # "run" => k.out = kid[p].out
      BY <1>2, <1>4 DEF Stopped, Dead, View, Kid
    <3>4. Busy(Top, k, process[p], excused[p])
      BY <3>1, <3>2, <3>3 DEF Busy
    <3>. QED BY <1>1, <1>3, <2>1, <2>4, <3>4 DEF BusyNow
  <2>. QED BY <2>3, <2>4
<1>. QED BY <1>1, <1>8, <1>9, RemoversStay

(* The handler: whatever it notes of the process that is being reported is    *)
(* excused.                                                                   *)
LEMMA HandlerNotes == ASSUME NoteInv, handle_child_signal PROVE ProcInv' /\ Removers' /\ BusyTop'
<1>1. UNCHANGED <<cdr, stack, told>> /\ Listed' = Listed
  BY HandlerDoes, ListedSame, Zenon DEF NoteInv
<1>2. /\ \A p \in Proc : kid'[p] = IF p \in Gone \cup Over THEN Reaped(kid[p])
                                 ELSE IF p \in Changed THEN [kid[p] EXCEPT !.news = Nil] ELSE kid[p]
      /\ \A p \in Proc : process'[p] = IF p \in Changed THEN WithStatus(process[p], kid[p].news)
                                       ELSE process[p]
      /\ \A p \in Proc : excused'[p] = IF p \in Changed /\ BeingReported(p)
                                       THEN Worse(excused[p], Known) ELSE excused[p]
      /\ deleted_pid_list' = deleted_pid_list \ Gone
  BY HandlerDoes, Zenon
<1>3. \A p \in Proc : /\ p \in Gone <=> p \in deleted_pid_list /\ kid[p].news = "exit"
                      /\ p \in Changed => process[p].alive /\ kid[p].news # Nil
                      /\ p \in Over <=> p \in Changed /\ kid[p].news = "exit"
  BY DEF Gone, Changed, Over
<1>4. ASSUME NEW p \in Proc
      PROVE  SoundNow(p)' /\ Stands(p)
  <2>1. View(p, kid[p], process[p], cdr[p], deleted_pid_list, told[p], excused[p])
    BY ViewHolds DEF NoteInv
  <2>2. Sound(p, kid[p], process[p], cdr[p], deleted_pid_list, told[p], excused[p], Listed)
    BY DEF NoteInv, ProcInv, SoundNow
  <2>3. excused'[p] \in 0..3 /\ excused[p] <= excused'[p]
    <3>1. excused[p] \in 0..3
      BY <2>1 DEF View
    <3>. QED BY <1>2, <3>1 DEF Worse, Known
  <2>4. /\ \A k \in Kid : Reaped(k).state = "reaped" /\ Reaped(k).out = k.out
        /\ \A k \in Kid : [k EXCEPT !.news = Nil].state = k.state /\ [k EXCEPT !.news = Nil].out = k.out
    BY DEF Kid, Reaped
  <2>5. kid[p] \in Kid /\ kid[p].news \in Status \cup {Nil}
    BY <2>1 DEF View, Kid
  <2>6. /\ p \in Gone \cup Over => kid'[p].state = "reaped" /\ kid'[p].out = kid[p].out
        /\ p \notin Gone \cup Over => kid'[p].state = kid[p].state /\ kid'[p].out = kid[p].out
    BY <1>2, <2>4, <2>5, Zenon
  <2>7. CASE p \in Gone
    <3>1. p \in deleted_pid_list /\ p \notin deleted_pid_list' /\ p \notin Changed
      BY <1>2, <1>3, <2>1, <2>7 DEF View
    <3>2. kid'[p].state = "reaped" /\ kid'[p].out = kid[p].out
          /\ process'[p] = process[p] /\ excused'[p] = excused[p]
      BY <1>2, <2>6, <2>7, <3>1
    <3>3. Sound(p, kid'[p], process[p], cdr[p], deleted_pid_list', told[p], excused'[p], Listed)
      BY <2>1, <2>2, <2>3, <3>1, <3>2, SoundReaped
    <3>4. Stands(p)
      BY <3>2 DEF Stands, RemovingNow, RemovingThen, Removing
    <3>. QED BY <1>1, <3>2, <3>3, <3>4 DEF SoundNow
  <2>8. CASE p \in Over
    <3>1. process[p].alive /\ p \in Changed /\ kid[p].news = "exit"
      BY <1>3, <2>8
    <3>2. p \notin deleted_pid_list'
      BY <1>2, <2>1, <3>1 DEF View
    <3>3. /\ kid'[p].state = "reaped" /\ kid'[p].out = kid[p].out
          /\ process'[p] = WithStatus(process[p], "exit")
      BY <1>2, <2>6, <2>8, <3>1
    <3>4. Sound(p, kid'[p], process'[p], cdr[p], deleted_pid_list', told[p], excused'[p], Listed)
      BY <2>1, <2>2, <2>3, <3>1, <3>2, <3>3, SoundReaped
    <3>5. Stands(p)
      BY <3>1 DEF Stands, RemovingNow, Removing
    <3>. QED BY <1>1, <3>4, <3>5 DEF SoundNow
  <2>9. CASE p \in Changed /\ p \notin Over /\ p \notin Gone
    <3>1. process[p].alive /\ kid[p].news \in {"run", "stop"}
      BY <1>3, <2>5, <2>9 DEF Status
    <3>2. p \in deleted_pid_list' <=> p \in deleted_pid_list
      BY <1>2, <2>9
    <3>3. /\ kid'[p].state = kid[p].state /\ kid'[p].out = kid[p].out
          /\ process'[p] = WithStatus(process[p], kid[p].news)
      BY <1>2, <2>6, <2>9
    <3>4. Sound(p, kid'[p], process'[p], cdr[p], deleted_pid_list, told[p], excused'[p], Listed)
      BY <2>1, <2>2, <2>3, <3>1, <3>3, SoundNoted
    <3>5. Sound(p, kid'[p], process'[p], cdr[p], deleted_pid_list', told[p], excused'[p], Listed)
      BY <3>2, <3>4 DEF Sound, OnRecord
    <3>6. Stands(p)
      BY <3>1 DEF Stands, RemovingNow, Removing
    <3>. QED BY <1>1, <3>5, <3>6 DEF SoundNow
  <2>10. CASE p \notin Changed /\ p \notin Gone
    <3>1. Apart(p)
      BY <1>1, <1>2, <1>3, <2>3, <2>10 DEF Apart
    <3>. QED BY <3>1, OthersSound
  <2>. QED BY <2>7, <2>8, <2>9, <2>10
<1>5. BusyTop'
  <2>1. Top' = Top
    BY <1>1 DEF Top
  <2> SUFFICES ASSUME Top.pc \in {"update", "clear", "report"} PROVE BusyNow(Top)'
    BY <2>1 DEF BusyTop
  <2>2. BusyNow(Top) /\ Top.at \in Proc
    BY TopIsActivation, ActivationFields DEF NoteInv, BusyTop, TypeInv
  <2>. DEFINE p == Top.at
  <2>3. CASE p \in Changed
    <3>1. BeingReported(p)
      <4>1. Len(stack) \in DOMAIN stack
        BY TopIsActivation DEF NoteInv, TypeInv, StackInv
      <4>. QED BY <4>1 DEF BeingReported, Top
    <3>2. excused[p] \in 0..3
      BY <2>2 DEF NoteInv, TypeInv, Rest
    <3>3. excused'[p] >= Known /\ excused'[p] # 0
      BY <1>2, <2>2, <2>3, <3>1, <3>2 DEF Worse, Known
    <3>. QED BY <2>1, <3>3 DEF BusyNow, Busy
  <2>4. CASE p \notin Changed
    <3>1. process'[p] = process[p] /\ excused'[p] = excused[p]
      BY <1>2, <2>2, <2>4
    <3>2. kid'[p].out = kid[p].out
      <4>1. kid[p] \in Kid
        BY <2>2 DEF NoteInv, TypeInv, IInv, Typed
      <4>2. \A k \in Kid : Reaped(k).out = k.out
        BY DEF Kid, Reaped
      <4>. QED BY <1>2, <2>2, <2>4, <4>1, <4>2, Zenon
    <3>. QED BY <2>1, <2>2, <3>1, <3>2 DEF BusyNow, Busy
  <2>. QED BY <2>3, <2>4
<1>. QED BY <1>1, <1>4, <1>5, RemoversStay DEF ProcInv

LEMMA MakeNotes == ASSUME NoteInv, NEW p \in Proc, make_process(p)
                   PROVE  ProcInv' /\ Removers' /\ BusyTop'
<1>. DEFINE k == [kid[p] EXCEPT !.state = "run"]
            s == [process[p] EXCEPT !.open = TRUE, !.watched = TRUE, !.alive = TRUE]
<1>1. /\ kid' = [kid EXCEPT ![p] = k] /\ process' = [process EXCEPT ![p] = s]
      /\ kid[p].state = "none" /\ Top.pc = "run"
      /\ cdr' = [cdr EXCEPT ![p] = cdr[Nil], ![Nil] = p]
      /\ UNCHANGED <<deleted_pid_list, stack, told, excused>>
  BY Zenon DEF make_process, Doing
<1>2. View(p, kid[p], process[p], cdr[p], deleted_pid_list, told[p], excused[p])
  BY ViewHolds DEF NoteInv
<1>3. Sound(p, kid[p], process[p], cdr[p], deleted_pid_list, told[p], excused[p], Listed)
  BY DEF NoteInv, ProcInv, SoundNow
<1>4. cdr[p] = Nil
  BY <1>1, <1>3 DEF Sound, Unborn
<1>5. p \in Listed' /\ Listed \subseteq Listed'
  BY <1>1, <1>4, ListedMade, Zenon DEF NoteInv
<1>6. Sound(p, k, s, cdr'[p], deleted_pid_list, told[p], excused[p], Listed')
  BY <1>1, <1>2, <1>3, <1>5, SoundMade, Zenon
<1>. HIDE DEF k, s
<1>7. /\ kid'[p] = k /\ process'[p] = s
      /\ \A q \in Proc : q # p => kid'[q] = kid[q] /\ process'[q] = process[q]
  BY <1>1 DEF NoteInv, TypeInv, IInv, Typed
<1>8. \A q \in Proc : q # p => cdr'[q] = cdr[q]
  <2>1. Nil \notin Proc
    BY ProcessesAssumption
  <2>. QED BY <1>1, <2>1 DEF NoteInv, TypeInv, Rest, Cells
<1>9. ASSUME NEW q \in Proc
      PROVE  SoundNow(q)' /\ Stands(q)
  <2>. UNCHANGED <<deleted_pid_list, told, excused>> /\ kid[p].state = "none"
    BY <1>1, Zenon
  <2>1. CASE q = p
    <3>1. SoundNow(p)'
      BY <1>6, <1>7 DEF SoundNow
    <3>2. Stands(p)
      BY DEF Stands, RemovingNow, Removing
    <3>. QED BY <2>1, <3>1, <3>2
  <2>2. CASE q # p
    <3>1. excused[q] \in 0..3
      BY DEF NoteInv, TypeInv, Rest
    <3>2. Apart(q)
      BY <1>5, <1>7, <1>8, <2>2, <3>1 DEF Apart
    <3>. QED BY <3>2, OthersSound
  <2>. QED BY <2>1, <2>2
<1>10. BusyTop'
  BY <1>1 DEF BusyTop, Top
<1>. QED BY <1>1, <1>9, <1>10, RemoversStay DEF ProcInv

(* Delete-process: while it reports, what it goes on to remove is no longer   *)
(* alive, and is excused from being told.                                      *)
LEMMA DeleteNotes == ASSUME NoteInv, NEW p \in Proc, Fdelete_process(p)
                     PROVE  ProcInv' /\ Removers' /\ BusyTop'
<1>1. View(p, kid[p], process[p], cdr[p], deleted_pid_list, told[p], excused[p])
  BY ViewHolds DEF NoteInv
<1>2. Sound(p, kid[p], process[p], cdr[p], deleted_pid_list, told[p], excused[p], Listed)
  BY DEF NoteInv, ProcInv, SoundNow
<1>3. kid[p].state # "none" /\ UNCHANGED told /\ Doing("lisp", "run") /\ Excuse(p, Told)
  BY DEF Fdelete_process
<1>4. /\ \A q \in Proc : q # p => kid'[q] = kid[q] /\ (q \in deleted_pid_list' <=> q \in deleted_pid_list)
      /\ p \in deleted_pid_list' <=> process[p].alive \/ p \in deleted_pid_list
      /\ kid'[p] = kid[p] \/ (kid[p].state \in {"run", "stop"} /\ kid'[p] = Dead(kid[p]))
  BY DEF Fdelete_process, record_kill_process, Alive, NoteInv, TypeInv, IInv, Typed
<1>5. /\ kid'[p].out = kid[p].out /\ kid'[p].state # "none"
      /\ kid'[p].state \in {"run", "stop", "dead"} => kid[p].state \in {"run", "stop", "dead"}
  <2>1. Dead(kid[p]).state = "dead" /\ Dead(kid[p]).out = kid[p].out
    BY <1>1 DEF View, Kid, Dead
  <2>. QED BY <1>3, <1>4, <2>1
<1>6. /\ excused'[p] \in 0..3 /\ excused[p] <= excused'[p] /\ excused'[p] >= Told
      /\ \A q \in Proc : excused[q] \in 0..3 /\ (q # p => excused'[q] = excused[q])
  BY <1>3 DEF Excuse, Worse, Told, NoteInv, TypeInv, Rest
<1>7. PICK s : /\ process' = [process EXCEPT ![p] = s]
               /\ s.raw_status_new = Nil /\ ~s.alive
               /\ \/ /\ process[p].open /\ s.open /\ s.status = "exit"
                     /\ stack' = Calls(Notify(p, "remove"), "run") /\ UNCHANGED cdr
                  \/ /\ ~process[p].open /\ ~s.open /\ s.status = process[p].status
                     /\ cdr' = Without(cdr, p) /\ UNCHANGED stack
  <2>1. CASE process[p].open
    <3>. DEFINE s == Tick([process[p] EXCEPT !.raw_status_new = Nil, !.alive = FALSE, !.status = "exit"])
    <3>1. /\ process' = [process EXCEPT ![p] = s]
          /\ stack' = Calls(Notify(p, "remove"), "run") /\ UNCHANGED cdr
      BY <2>1, Zenon DEF Fdelete_process
    <3>2. s.raw_status_new = Nil /\ ~s.alive /\ s.open /\ s.status = "exit"
      BY <1>1, <2>1 DEF View, Lisp_Process, Tick
    <3>. HIDE DEF s
    <3>. QED BY <2>1, <3>1, <3>2
  <2>2. CASE ~process[p].open
    <3>. DEFINE s == deactivate_process([process[p] EXCEPT !.raw_status_new = Nil, !.alive = FALSE])
    <3>1. process' = [process EXCEPT ![p] = s] /\ cdr' = Without(cdr, p) /\ UNCHANGED stack
      BY <2>2, Zenon DEF Fdelete_process
    <3>2. s.raw_status_new = Nil /\ ~s.alive /\ ~s.open /\ s.status = process[p].status
      BY <1>1, <2>2 DEF View, Lisp_Process, deactivate_process
    <3>. HIDE DEF s
    <3>. QED BY <2>2, <3>1, <3>2
  <2>. QED BY <2>1, <2>2
<1>8. process'[p] = s /\ \A q \in Proc : q # p => process'[q] = process[q]
  <2>1. process' = [process EXCEPT ![p] = s]
    BY <1>7, Zenon
  <2>. QED BY <2>1 DEF NoteInv, TypeInv, IInv, Typed
<1>9. /\ Sound(p, kid'[p], s, cdr'[p], deleted_pid_list', told[p], excused'[p], Listed')
      /\ Removing(kid'[p], s, excused'[p])
  <2>1. /\ process[p].open => s.open /\ s.status = "exit"
        /\ ~process[p].open => ~s.open /\ s.status = process[p].status
    BY <1>7
  <2>2. kid[p].state # "none" /\ s.raw_status_new = Nil /\ ~s.alive
    BY <1>3, <1>7
  <2>3. p \in deleted_pid_list' <=> process[p].alive \/ p \in deleted_pid_list
    BY <1>4
  <2>4. excused'[p] \in 0..3 /\ excused[p] <= excused'[p] /\ excused'[p] >= Told
    BY <1>6
  <2>. DEFINE k2 == kid'[p]
              e2 == excused'[p]
              D2 == deleted_pid_list'
              nx2 == cdr'[p]
              L2 == Listed'
  <2>5. /\ k2.out = kid[p].out /\ k2.state # "none"
        /\ k2.state \in {"run", "stop", "dead"} => kid[p].state \in {"run", "stop", "dead"}
    BY <1>5
  <2>6. e2 \in 0..3 /\ excused[p] <= e2 /\ e2 >= Told
    BY <2>4
  <2>7. p \in D2 <=> process[p].alive \/ p \in deleted_pid_list
    BY <2>3
  <2>. HIDE DEF k2, e2, D2, nx2, L2
  <2>8. Sound(p, k2, s, nx2, D2, told[p], e2, L2) /\ Removing(k2, s, e2)
    BY <1>1, <1>2, <2>1, <2>2, <2>5, <2>6, <2>7, SoundDeleted
  <2>. QED BY <2>8 DEF k2, e2, D2, nx2, L2
<1>10. /\ Listed \subseteq Listed' \cup {p}
       /\ \A q \in Proc : cdr[q] = Nil => cdr'[q] = Nil
  <2>1. cdr' = Without(cdr, p) \/ UNCHANGED cdr
    BY <1>7, Zenon
  <2>. QED BY <2>1, ListedWithout, ListedSame DEF NoteInv
<1>11. ASSUME NEW q \in Proc
       PROVE  SoundNow(q)' /\ Stands(q)
  <2>1. CASE q = p
    <3>1. SoundNow(p)'
      BY <1>3, <1>8, <1>9 DEF SoundNow
    <3>2. Stands(p)
      BY <1>8, <1>9 DEF Stands, RemovingThen
    <3>. QED BY <2>1, <3>1, <3>2
  <2>2. CASE q # p
    <3>1. Apart(q)
      BY <1>3, <1>4, <1>6, <1>8, <1>10, <2>2 DEF Apart
    <3>. QED BY <3>1, OthersSound
  <2>. QED BY <2>1, <2>2
<1>12. CASE UNCHANGED stack
  <2>1. BusyTop'
    BY <1>3, <1>12 DEF BusyTop, Top, Doing
  <2>. QED BY <1>11, <1>12, <2>1, RemoversStay DEF ProcInv
<1>13. CASE stack' = Calls(Notify(p, "remove"), "run")
  <2>1. Notify(p, "remove") \in Activation
    BY NewActivations
  <2>2. /\ StackInv' /\ Len(stack') = Len(stack) + 1 /\ Top' = Notify(p, "remove")
        /\ stack'[Len(stack) + 1] = Notify(p, "remove")
        /\ \A i \in 1 .. Len(stack) : stack'[i] = stack[i]
    BY <1>3, <1>13, <2>1, LispCalls DEF NoteInv, TypeInv
  <2>3. BusyTop'
    BY <2>2 DEF BusyTop, Notify
  <2>4. Len(stack) \in Nat
    BY DEF NoteInv, TypeInv, StackInv
  <2>5. Notify(p, "remove").for = p /\ RemovingThen(p)
    BY <1>8, <1>9 DEF Notify, RemovingThen
  <2>6. ASSUME NEW i \in 1 .. Len(stack'), i > Len(stack)
        PROVE  stack'[i].for \in Proc /\ RemovingThen(stack'[i].for)
    <3>1. i = Len(stack) + 1
      BY <2>2, <2>4, <2>6
    <3>. QED BY <2>2, <2>5, <3>1
  <2>7. Len(stack) <= Len(stack)
    BY <2>4
  <2>8. Removers'
    BY <1>11, <2>2, <2>4, <2>6, <2>7, RemoversKept
  <2>. QED BY <1>11, <2>3, <2>8 DEF ProcInv
<1>. QED BY <1>7, <1>12, <1>13, Zenon

(* Those below go on. *)
LEMMA Resumed ==
  ASSUME NoteInv, \A q \in Proc : Stands(q), StackInv', Len(stack') <= Len(stack),
         \A i \in 1 .. Len(stack') : stack'[i] = stack[i], Top'.pc \in Resting
  PROVE  Removers' /\ BusyTop'
<1>1. Len(stack') \in Nat /\ \A i \in 1 .. Len(stack') : ~(i > Len(stack'))
  BY DEF StackInv
<1>2. Removers'
  BY <1>1, RemoversKept
<1>3. BusyTop'
  BY DEF BusyTop, Resting
<1>. QED BY <1>2, <1>3

(* The last activation goes on with what it was called for, and may call.     *)
SameCall(a) == a.fn = "notify" => Top.fn = "notify" /\ a.for = Top.for /\ a.then = Top.then

LEMMA WentOn ==
  ASSUME NoteInv, \A q \in Proc : Stands(q), StackInv',
         Len(stack') \in {Len(stack), Len(stack) + 1},
         \A i \in 1 .. Len(stack) - 1 : stack'[i] = stack[i],
         SameCall(stack'[Len(stack)]),
         Len(stack') = Len(stack) + 1 =>
           LET b == stack'[Len(stack) + 1] IN ~(b.fn = "notify" /\ b.then = "remove")
  PROVE  Removers'
<1>1. Len(stack) \in Nat /\ Len(stack) > 0
  BY DEF NoteInv, TypeInv, StackInv
<1>2. ASSUME NEW i \in 1 .. Len(stack'), i > Len(stack) - 1,
             stack'[i].fn = "notify", stack'[i].then = "remove"
      PROVE  stack'[i].for \in Proc /\ RemovingThen(stack'[i].for)
  <2>1. i = Len(stack) \/ (i = Len(stack) + 1 /\ Len(stack') = Len(stack) + 1)
    BY <1>1, <1>2
  <2>2. i = Len(stack)
    BY <1>2, <2>1
  <2>3. Top.fn = "notify" /\ Top.for = stack'[i].for /\ Top.then = "remove"
    BY <1>2, <2>2 DEF SameCall
  <2>4. Top.for \in Proc /\ RemovingNow(Top.for)
    <3>1. Len(stack) \in 1 .. Len(stack) /\ stack[Len(stack)] = Top
      BY <1>1 DEF Top
    <3>2. Removers
      BY DEF NoteInv
    <3>. QED BY <2>3, <3>1, <3>2 DEF Removers
  <2>. QED BY <2>3, <2>4 DEF Stands
<1>3. Len(stack) - 1 \in Nat /\ Len(stack) - 1 <= Len(stack)
  BY <1>1
<1>. QED BY <1>2, <1>3, RemoversKept

LEMMA NoneBusy == ASSUME Top'.pc \notin {"update", "clear", "report"} PROVE BusyTop'
BY DEF BusyTop

LEMMA ContinueNotes == ASSUME NoteInv, NEW p \in Proc, Fcontinue_process(p)
                       PROVE  ProcInv' /\ Removers' /\ BusyTop'
<1>. DEFINE s == Tick([process[p] EXCEPT !.raw_status_new = Nil, !.status = "run"])
<1>1. /\ Doing("lisp", "run") /\ process[p].open
      /\ process' = [process EXCEPT ![p] = s]
      /\ stack' = Calls(Notify(p, "continue"), "run")
      /\ IF ~process[p].alive THEN Excuse(p, Known) ELSE UNCHANGED excused
      /\ UNCHANGED <<kid, cdr, deleted_pid_list, told>>
  BY Zenon DEF Fcontinue_process
<1>2. View(p, kid[p], process[p], cdr[p], deleted_pid_list, told[p], excused[p])
  BY ViewHolds DEF NoteInv
<1>3. Sound(p, kid[p], process[p], cdr[p], deleted_pid_list, told[p], excused[p], Listed)
  BY DEF NoteInv, ProcInv, SoundNow
<1>4. /\ s.raw_status_new = Nil /\ s.alive = process[p].alive
  BY <1>2 DEF View, Lisp_Process, Tick
<1>. DEFINE e2 == excused'[p]
<1>5. /\ e2 \in 0..3 /\ excused[p] <= e2 /\ (~process[p].alive => e2 >= Known)
      /\ \A q \in Proc : q # p => excused'[q] = excused[q]
  <2>1. IF ~process[p].alive THEN Excuse(p, Known) ELSE UNCHANGED excused
    BY <1>1, Zenon
  <2>. QED BY <2>1 DEF Excuse, Worse, Known, NoteInv, TypeInv, Rest
<1>6. e2 \in 0..3 /\ excused[p] <= e2 /\ (~process[p].alive => e2 >= Known)
  BY <1>5
<1>. HIDE DEF e2
<1>7. Sound(p, kid[p], s, cdr[p], deleted_pid_list, told[p], e2, Listed)
  BY <1>1, <1>2, <1>3, <1>6, SoundContinued, Zenon
<1>. HIDE DEF s
<1>8. RemovingNow(p) => Removing(kid[p], s, e2)
  BY <1>2, <1>4, <1>6 DEF RemovingNow, Removing, View, Told
<1>9. process'[p] = s /\ \A q \in Proc : q # p => process'[q] = process[q]
  <2>1. process' = [process EXCEPT ![p] = s]
    BY <1>1
  <2>. QED BY <2>1 DEF NoteInv, TypeInv, IInv, Typed
<1>10. ProcInv' /\ \A q \in Proc : Stands(q)
  BY <1>1, <1>5, <1>7, <1>8, <1>9, OneSound DEF e2
<1>11. Notify(p, "continue") \in Activation
  BY NewActivations
<1>12. /\ StackInv' /\ Len(stack') = Len(stack) + 1 /\ Top' = Notify(p, "continue")
       /\ stack'[Len(stack) + 1] = Notify(p, "continue")
       /\ \A i \in 1 .. Len(stack) : stack'[i] = stack[i]
  BY <1>1, <1>11, LispCalls DEF NoteInv, TypeInv
<1>13. /\ \A i \in 1 .. Len(stack) - 1 : stack'[i] = stack[i]
       /\ stack'[Len(stack)] = Top /\ Top.fn = "lisp"
  <2>1. Len(stack) \in Nat /\ Len(stack) > 0
    BY DEF NoteInv, TypeInv, StackInv
  <2>. QED BY <1>1, <1>12, <2>1 DEF Top, Doing
<1>14. Notify(p, "continue").then = "continue" /\ Notify(p, "continue").pc = "next"
  BY DEF Notify
<1>15. SameCall(stack'[Len(stack)])
  BY <1>13 DEF SameCall
<1>16. Removers'
  BY <1>10, <1>12, <1>13, <1>14, <1>15, WentOn
<1>17. BusyTop'
  BY <1>12, <1>14, NoneBusy
<1>. QED BY <1>10, <1>16, <1>17

LEMMA StatusNotes == ASSUME NoteInv, NEW p \in Proc, Fprocess_status(p)
                     PROVE  ProcInv' /\ Removers' /\ BusyTop'
<1>. DEFINE s == update_status(process[p])
            a == [fn |-> "lisp", pc |-> "clear", at |-> p]
<1>1. /\ Top.fn = "lisp" /\ process[p].raw_status_new # Nil
      /\ process' = [process EXCEPT ![p] = s]
      /\ stack' = Below \o <<[Top EXCEPT !.pc = "clear", !.at = p]>>
      /\ UNCHANGED <<kid, cdr, deleted_pid_list, told, excused>>
  BY Zenon DEF Fprocess_status, Doing
<1>2. View(p, kid[p], process[p], cdr[p], deleted_pid_list, told[p], excused[p])
  BY ViewHolds DEF NoteInv
<1>3. Sound(p, kid[p], process[p], cdr[p], deleted_pid_list, told[p], excused[p], Listed)
  BY DEF NoteInv, ProcInv, SoundNow
<1>4. process[p].raw_status_new # Nil
  BY <1>1, Zenon
<1>5. /\ Sound(p, kid[p], s, cdr[p], deleted_pid_list, told[p], excused[p], Listed)
      /\ s.raw_status_new # Nil /\ s.status = s.raw_status_new
  BY <1>2, <1>3, <1>4, SoundConverted
<1>6. RemovingNow(p) => Removing(kid[p], s, excused[p])
  BY <1>4 DEF RemovingNow, Removing
<1>7. StackInv
  BY DEF NoteInv, TypeInv
<1>8. /\ StackInv' /\ Len(stack') = Len(stack) /\ Top' = a /\ stack'[Len(stack)] = a
      /\ \A i \in 1 .. Len(stack) - 1 : stack'[i] = stack[i]
  BY <1>1, <1>7, LispGoes, Zenon
<1>. HIDE DEF s
<1>9. process'[p] = s /\ \A q \in Proc : q # p => process'[q] = process[q]
  <2>1. process' = [process EXCEPT ![p] = s]
    BY <1>1, Zenon
  <2>. QED BY <2>1 DEF NoteInv, TypeInv, IInv, Typed
<1>10. UNCHANGED <<kid, cdr, deleted_pid_list, told, excused>>
  BY <1>1, Zenon
<1>11. ProcInv' /\ \A q \in Proc : Stands(q)
  BY <1>5, <1>6, <1>9, <1>10, OneSound
<1>12. SameCall(stack'[Len(stack)])
  BY <1>8 DEF SameCall
<1>13. Removers'
  <2>1. Len(stack) \in Nat
    BY DEF NoteInv, TypeInv, StackInv
  <2>. QED BY <1>8, <1>11, <1>12, <2>1, WentOn
<1>14. BusyTop'
  BY <1>5, <1>8, <1>9 DEF BusyTop, BusyNow, Busy
<1>. QED BY <1>11, <1>13, <1>14

LEMMA ClearedNotes == ASSUME NoteInv, StatusCleared \/ StatusUpdated
                      PROVE  ProcInv' /\ Removers' /\ BusyTop'
<1>. DEFINE p == Top.at
            s == [process[p] EXCEPT !.raw_status_new = Nil]
<1>1. /\ Top.pc = "clear" /\ Top.fn \in {"lisp", "notify"}
      /\ process' = [process EXCEPT ![p] = s]
      /\ StatusCleared => Top.fn = "lisp" /\ stack' = Below \o <<Lisp>>
      /\ StatusUpdated => Top.fn = "notify" /\ stack' = Goto("report")
      /\ UNCHANGED <<kid, cdr, deleted_pid_list, told, excused>>
  BY DEF StatusCleared, StatusUpdated, Doing
<1>2. p \in Proc /\ StackInv
  BY <1>1, TopIsActivation, ActivationFields DEF NoteInv, TypeInv
<1>3. View(p, kid[p], process[p], cdr[p], deleted_pid_list, told[p], excused[p])
  BY <1>2, ViewHolds DEF NoteInv
<1>4. Sound(p, kid[p], process[p], cdr[p], deleted_pid_list, told[p], excused[p], Listed)
  BY <1>2 DEF NoteInv, ProcInv, SoundNow
<1>5. Busy(Top, kid[p], process[p], excused[p])
  BY <1>1 DEF NoteInv, BusyTop, BusyNow
<1>6. Sound(p, kid[p], s, cdr[p], deleted_pid_list, told[p], excused[p], Listed)
  <2>1. excused[p] >= Known \/ (process[p].raw_status_new # Nil
                                /\ process[p].status = process[p].raw_status_new)
    BY <1>1, <1>5 DEF Busy
  <2>. QED BY <1>3, <1>4, <2>1, SoundCleared
<1>7. /\ s.raw_status_new = Nil /\ s.alive = process[p].alive /\ s.status = process[p].status
  BY <1>3 DEF View, Lisp_Process
<1>. HIDE DEF s, p
<1>8. RemovingNow(p) => Removing(kid[p], s, excused[p])
  BY <1>7 DEF RemovingNow, Removing
<1>9. process'[p] = s /\ \A q \in Proc : q # p => process'[q] = process[q]
  BY <1>1, <1>2 DEF NoteInv, TypeInv, IInv, Typed
<1>10. ProcInv' /\ \A q \in Proc : Stands(q)
  BY <1>1, <1>2, <1>6, <1>8, <1>9, OneSound
<1>11. Len(stack) \in Nat
  BY DEF NoteInv, TypeInv, StackInv
<1>12. CASE StatusCleared
  <2>1. /\ StackInv' /\ Len(stack') = Len(stack) /\ Top' = Lisp /\ stack'[Len(stack)] = Lisp
        /\ \A i \in 1 .. Len(stack) - 1 : stack'[i] = stack[i]
    BY <1>1, <1>2, <1>12, LispGoes, Zenon
  <2>2. SameCall(stack'[Len(stack)]) /\ Top'.pc = "run"
    BY <2>1 DEF SameCall, Lisp
  <2>3. Removers'
    BY <1>10, <1>11, <2>1, <2>2, WentOn
  <2>4. BusyTop'
    BY <2>2, NoneBusy
  <2>. QED BY <1>10, <2>3, <2>4
<1>13. CASE StatusUpdated
  <2>1. /\ StackInv' /\ Len(stack') = Len(stack) /\ Top' = Loop(p, "report")
        /\ stack'[Len(stack)] = Loop(p, "report")
        /\ \A i \in 1 .. Len(stack) - 1 : stack'[i] = stack[i]
    <3>1. Top.fn = "notify" /\ stack' = Goto("report") /\ p = Top.at
      BY <1>1, <1>13 DEF p
    <3>. QED BY <1>2, <3>1, LoopGoes, Zenon
  <2>2. SameCall(stack'[Len(stack)])
    BY <1>1, <1>13, <2>1 DEF SameCall, Loop
  <2>3. Removers'
    BY <1>10, <1>11, <2>1, <2>2, WentOn
  <2>4. Busy(Loop(p, "report"), kid[p], s, excused[p])
    BY <1>1, <1>5, <1>7, <1>13, ProcessesAssumption DEF Busy, Loop
  <2>5. BusyTop'
    <3>1. Loop(p, "report").at = p
      BY DEF Loop
    <3>. QED BY <1>1, <1>9, <2>1, <2>4, <3>1 DEF BusyTop, BusyNow
  <2>. QED BY <1>10, <2>3, <2>5
<1>. QED BY <1>12, <1>13

LEMMA SendNotes == ASSUME NoteInv, NEW p \in Proc, SendFails(p)
                   PROVE  ProcInv' /\ Removers' /\ BusyTop'
<1>. DEFINE s == deactivate_process(Tick([process[p] EXCEPT !.raw_status_new = Nil, !.status = "exit"]))
<1>1. /\ Top.pc = "run" /\ process[p].open /\ process' = [process EXCEPT ![p] = s]
      /\ Excuse(p, Recorded)
      /\ UNCHANGED <<kid, cdr, deleted_pid_list, told, stack>>
  BY Zenon DEF SendFails, Doing
<1>2. View(p, kid[p], process[p], cdr[p], deleted_pid_list, told[p], excused[p])
  BY ViewHolds DEF NoteInv
<1>3. Sound(p, kid[p], process[p], cdr[p], deleted_pid_list, told[p], excused[p], Listed)
  BY DEF NoteInv, ProcInv, SoundNow
<1>4. excused'[p] = Recorded /\ \A q \in Proc : q # p => excused'[q] = excused[q]
  <2>1. Excuse(p, Recorded)
    BY <1>1, Zenon
  <2>. QED BY <2>1 DEF Excuse, Worse, Recorded, NoteInv, TypeInv, Rest
<1>5. Sound(p, kid[p], s, cdr[p], deleted_pid_list, told[p], Recorded, Listed)
  BY <1>1, <1>2, <1>3, SoundBroken, Zenon
<1>6. s.raw_status_new = Nil /\ s.alive = process[p].alive
  BY <1>2 DEF View, Lisp_Process, Tick, deactivate_process
<1>. HIDE DEF s
<1>7. RemovingNow(p) => Removing(kid[p], s, Recorded)
  BY <1>6 DEF RemovingNow, Removing, Recorded, Told
<1>8. process'[p] = s /\ \A q \in Proc : q # p => process'[q] = process[q]
  <2>1. process' = [process EXCEPT ![p] = s]
    BY <1>1
  <2>. QED BY <2>1 DEF NoteInv, TypeInv, IInv, Typed
<1>9. ProcInv' /\ \A q \in Proc : Stands(q)
  BY <1>1, <1>4, <1>5, <1>7, <1>8, OneSound
<1>10. Removers' /\ BusyTop'
  BY <1>1, <1>9, RemoversStay DEF BusyTop, Top
<1>. QED BY <1>9, <1>10

(* Lisp and the wait call and return. *)
LEMMA ReturnNotes == ASSUME NoteInv, accept_process_output \/ LispReturns \/ StopsWaiting
                     PROVE  ProcInv' /\ Removers' /\ BusyTop'
<1>1. UNCHANGED <<kid, process, cdr, deleted_pid_list, told, excused>>
  BY DEF accept_process_output, LispReturns, StopsWaiting
<1>2. ProcInv' /\ \A q \in Proc : Stands(q)
  BY <1>1, NoneChanged
<1>3. StackInv /\ Len(stack) \in Nat /\ Len(stack) > 0
  BY DEF NoteInv, TypeInv, StackInv
<1>4. CASE accept_process_output
  <2>1. Doing("lisp", "run") /\ stack' = Append(stack, Wait) /\ Wait \in Activation
    BY <1>4, NewActivations DEF accept_process_output
  <2>2. /\ StackInv' /\ Len(stack') = Len(stack) + 1 /\ Top' = Wait
        /\ stack'[Len(stack) + 1] = Wait
        /\ \A i \in 1 .. Len(stack) : stack'[i] = stack[i]
    BY <1>3, <2>1, LispCalls
  <2>3. /\ \A i \in 1 .. Len(stack) - 1 : stack'[i] = stack[i]
        /\ SameCall(stack'[Len(stack)])
    BY <1>3, <2>1, <2>2 DEF SameCall, Doing, Top
  <2>4. Wait.fn = "wait" /\ Wait.pc = "check"
    BY DEF Wait
  <2>5. Removers' /\ BusyTop'
    BY <1>2, <2>2, <2>3, <2>4, WentOn, NoneBusy
  <2>. QED BY <1>2, <2>5
<1>5. CASE LispReturns \/ StopsWaiting
  <2>1. Len(stack) > 1 /\ stack' = Below
    BY <1>3, <1>5, TopIsActivation DEF LispReturns, StopsWaiting, Doing
  <2>2. /\ StackInv' /\ Len(stack') = Len(stack) - 1
        /\ \A j \in 1 .. Len(stack) - 1 : stack'[j] = stack[j]
        /\ Top'.pc \in Resting
    BY <1>3, <2>1, Returned
  <2>. QED BY <1>2, <1>3, <2>2, Resumed
<1>. QED BY <1>4, <1>5

LEMMA ThrowNotes == ASSUME NoteInv, NEW i \in DOMAIN stack, LispThrows(i)
                    PROVE  ProcInv' /\ Removers' /\ BusyTop'
<1>1. UNCHANGED <<kid, process, cdr, deleted_pid_list, told>>
  BY DEF LispThrows
<1>2. Listed' = Listed
  BY <1>1, ListedSame DEF NoteInv
<1>3. ASSUME NEW q \in Proc
      PROVE  SoundNow(q)' /\ Stands(q)
  <2>1. excused[q] \in 0..3
    BY DEF NoteInv, TypeInv, Rest
  <2>2. excused'[q] \in {excused[q], Worse(excused[q], Told)}
    BY DEF LispThrows
  <2>3. excused'[q] \in 0..3 /\ excused[q] <= excused'[q]
    BY <2>1, <2>2 DEF Worse, Told
  <2>. QED BY <1>1, <1>2, <2>3, OthersSound DEF Apart
<1>4. i \in 1 .. Len(stack) - 1 /\ stack' = SubSeq(stack, 1, i)
  BY TopIsActivation DEF LispThrows, NoteInv, TypeInv
<1>5. /\ StackInv' /\ Len(stack') = i /\ \A j \in 1 .. i : stack'[j] = stack[j]
      /\ Top'.pc \in Resting
  BY <1>4, CutBack DEF NoteInv, TypeInv
<1>6. Len(stack') <= Len(stack)
  BY <1>4, <1>5 DEF NoteInv, TypeInv, StackInv
<1>. QED BY <1>3, <1>5, <1>6, Resumed DEF ProcInv

LEMMA WaitNotes == ASSUME NoteInv, Check \/ ReadsChildSignal \/ \E p \in Proc : ReadsProcess(p)
                   PROVE  ProcInv' /\ Removers' /\ BusyTop'
<1>1. StackInv /\ Len(stack) \in Nat /\ Len(stack) > 0 /\ Top.fn = "wait"
  BY DEF NoteInv, TypeInv, StackInv, Check, ReadsChildSignal, ReadsProcess, Doing
<1>2. ProcInv' /\ \A q \in Proc : Stands(q)
  <2>1. CASE UNCHANGED <<kid, process, cdr, deleted_pid_list, told, excused>>
    BY <2>1, NoneChanged
  <2>2. ASSUME NEW p \in Proc, ReadsProcess(p)
        PROVE  ProcInv' /\ \A q \in Proc : Stands(q)
    <3>1. View(p, kid[p], process[p], cdr[p], deleted_pid_list, told[p], excused[p])
      BY ViewHolds DEF NoteInv
    <3>2. Sound(p, kid[p], process[p], cdr[p], deleted_pid_list, told[p], excused[p], Listed)
      BY DEF NoteInv, ProcInv, SoundNow
    <3>3. UNCHANGED <<cdr, deleted_pid_list, told, excused>>
      BY <2>2 DEF ReadsProcess
    <3>4. CASE kid[p].out > 0
      <4>1. kid' = [kid EXCEPT ![p] = Read(kid[p])] /\ UNCHANGED process
        BY <2>2, <3>4 DEF ReadsProcess
      <4>2. kid'[p] = Read(kid[p]) /\ \A q \in Proc : q # p => kid'[q] = kid[q]
        BY <4>1 DEF NoteInv, TypeInv, IInv, Typed
      <4>3. Sound(p, Read(kid[p]), process[p], cdr[p], deleted_pid_list, told[p], excused[p], Listed)
        BY <3>1, <3>2, <3>4, SoundKid
      <4>4. RemovingNow(p) => Removing(Read(kid[p]), process[p], excused[p])
        BY <3>1, RemovingKid DEF RemovingNow, View
      <4>. QED BY <3>3, <4>1, <4>2, <4>3, <4>4, OneSound
    <3>5. CASE ~(kid[p].out > 0)
      <4>. DEFINE s == [process[p] EXCEPT !.watched = FALSE]
      <4>1. process' = [process EXCEPT ![p] = s] /\ UNCHANGED kid
        BY <2>2, <3>5 DEF ReadsProcess
      <4>2. /\ Sound(p, kid[p], s, cdr[p], deleted_pid_list, told[p], excused[p], Listed)
            /\ s.raw_status_new = process[p].raw_status_new /\ s.alive = process[p].alive
        BY <3>1, <3>2, SoundSeen
      <4>. HIDE DEF s
      <4>3. process'[p] = s /\ \A q \in Proc : q # p => process'[q] = process[q]
        BY <4>1 DEF NoteInv, TypeInv, IInv, Typed
      <4>4. RemovingNow(p) => Removing(kid[p], s, excused[p])
        BY <4>2 DEF RemovingNow, Removing
      <4>. QED BY <3>3, <4>1, <4>2, <4>3, <4>4, OneSound
    <3>. QED BY <3>4, <3>5
  <2>3. (\E p \in Proc : ReadsProcess(p))
        \/ UNCHANGED <<kid, process, cdr, deleted_pid_list, told, excused>>
    BY DEF Check, ReadsChildSignal
  <2>. QED BY <2>1, <2>2, <2>3
<1>3. \/ stack' = Calls(Notify(Nil, "nothing"), "check") \/ stack' = Calls(Lisp, "check")
      \/ stack' = Goto("select") \/ stack' = Goto("check")
  BY DEF Check, ReadsProcess, ReadsChildSignal
<1>4. /\ Lisp \in Activation /\ Notify(Nil, "nothing") \in Activation
      /\ Lisp.fn = "lisp" /\ Lisp.pc = "run"
      /\ Notify(Nil, "nothing").then = "nothing" /\ Notify(Nil, "nothing").pc = "next"
  BY NewActivations DEF Lisp, Notify
<1>5. ASSUME NEW f \in {Lisp, Notify(Nil, "nothing")}, stack' = Calls(f, "check")
      PROVE  Removers' /\ BusyTop'
  <2>1. f \in Activation
    BY <1>4
  <2>2. /\ StackInv' /\ Len(stack') = Len(stack) + 1 /\ Top' = f
        /\ stack'[Len(stack) + 1] = f
        /\ stack'[Len(stack)].fn = "wait"
        /\ \A i \in 1 .. Len(stack) - 1 : stack'[i] = stack[i]
    BY <1>1, <1>5, <2>1, WaitCalls
  <2>3. SameCall(stack'[Len(stack)])
    BY <2>2 DEF SameCall
  <2>4. ~(f.fn = "notify" /\ f.then = "remove") /\ f.pc \in {"run", "next"}
    BY <1>4
  <2>. QED BY <1>2, <2>2, <2>3, <2>4, WentOn, NoneBusy
<1>6. ASSUME NEW c \in {"check", "select"}, stack' = Goto(c)
      PROVE  Removers' /\ BusyTop'
  <2>1. /\ StackInv' /\ Len(stack') = Len(stack) /\ Top' = [fn |-> "wait", pc |-> c, at |-> Nil]
        /\ stack'[Len(stack)] = [fn |-> "wait", pc |-> c, at |-> Nil]
        /\ \A i \in 1 .. Len(stack) - 1 : stack'[i] = stack[i]
    BY <1>1, <1>6, WaitGoes
  <2>2. SameCall(stack'[Len(stack)]) /\ Top'.pc = c
    BY <2>1 DEF SameCall
  <2>3. Len(stack') # Len(stack) + 1
    BY <1>1, <2>1
  <2>4. Removers'
    BY <1>2, <2>1, <2>2, <2>3, WentOn
  <2>5. BusyTop'
    BY <2>2, NoneBusy
  <2>. QED BY <2>4, <2>5
<1>. QED BY <1>2, <1>3, <1>5, <1>6

(* The loop of status_notify goes on to do C for p, or calls Lisp. *)
LEMMA LoopNotes ==
  ASSUME NoteInv, Top.fn = "notify", NEW p \in Proc, \A q \in Proc : Stands(q),
         NEW c \in {"next", "read", "update", "clear", "report"},
         \/ stack' = Goto(c) /\ p = Top.at
         \/ stack' = Below \o <<[Top EXCEPT !.at = p, !.pc = c]>>
         \/ stack' = Calls(Lisp, c) /\ p = Top.at /\ c \in {"next", "read"},
         c \in {"update", "clear", "report"} =>
           Busy(Loop(p, c), kid'[p], process'[p], excused'[p])
  PROVE  Removers' /\ BusyTop'
<1>1. StackInv /\ Len(stack) \in Nat /\ Len(stack) > 0
  BY DEF NoteInv, TypeInv, StackInv
<1>2. CASE stack' = Calls(Lisp, c) /\ p = Top.at /\ c \in {"next", "read"}
  <2>1. /\ StackInv' /\ Len(stack') = Len(stack) + 1 /\ stack'[Len(stack) + 1] = Lisp /\ Top' = Lisp
        /\ stack'[Len(stack)] = Loop(p, c)
        /\ \A i \in 1 .. Len(stack) - 1 : stack'[i] = stack[i]
    BY <1>1, <1>2, LoopCalls, Zenon
  <2>2. SameCall(stack'[Len(stack)]) /\ Lisp.fn = "lisp" /\ Lisp.pc = "run"
    BY <2>1 DEF SameCall, Loop, Lisp
  <2>3. Removers'
    BY <1>1, <2>1, <2>2, WentOn
  <2>4. BusyTop'
    BY <2>1, <2>2, NoneBusy
  <2>. QED BY <2>3, <2>4
<1>3. CASE \/ stack' = Goto(c) /\ p = Top.at
           \/ stack' = Below \o <<[Top EXCEPT !.at = p, !.pc = c]>>
  <2>1. /\ StackInv' /\ Len(stack') = Len(stack) /\ Top' = Loop(p, c)
        /\ stack'[Len(stack)] = Loop(p, c)
        /\ \A i \in 1 .. Len(stack) - 1 : stack'[i] = stack[i]
    BY <1>1, <1>3, LoopGoes, Zenon
  <2>2. SameCall(stack'[Len(stack)]) /\ Loop(p, c).at = p /\ Loop(p, c).pc = c
    BY <2>1 DEF SameCall, Loop
  <2>3. Len(stack') # Len(stack) + 1
    BY <1>1, <2>1
  <2>4. Removers'
    BY <1>1, <2>1, <2>2, <2>3, WentOn
  <2>5. BusyTop'
    <3>1. CASE c \in {"next", "read"}
      BY <2>1, <2>2, <3>1, NoneBusy
    <3>2. CASE c \in {"update", "clear", "report"}
      <4>1. Busy(Loop(p, c), kid'[p], process'[p], excused'[p])
        BY <3>2
      <4>. QED BY <2>1, <2>2, <4>1 DEF BusyTop, BusyNow
    <3>. QED BY <3>1, <3>2
  <2>. QED BY <2>4, <2>5
<1>. QED BY <1>2, <1>3, Zenon

LEMMA VisitNotes == ASSUME NoteInv, Visit PROVE ProcInv' /\ Removers' /\ BusyTop'
<1>1. PICK p : /\ p = cdr[Top.at] /\ p # Nil
               /\ process' = [process EXCEPT ![p] = [process[p] EXCEPT !.ticked = FALSE]]
               /\ stack' = Below \o <<[Top EXCEPT !.at = p,
                              !.pc = IF process[p].ticked THEN "read" ELSE "next"]>>
               /\ Top.fn = "notify" /\ UNCHANGED <<kid, cdr, deleted_pid_list, told, excused>>
  BY Zenon DEF Visit, Doing
<1>2. p \in Proc
  <2>1. Top.at \in Proc \cup {Nil}
    BY TopIsActivation, ActivationFields DEF NoteInv, TypeInv
  <2>2. p = cdr[Top.at] /\ p # Nil
    BY <1>1, Zenon
  <2>. QED BY <2>1, <2>2 DEF NoteInv, TypeInv, Rest, Cells
<1>. DEFINE s == [process[p] EXCEPT !.ticked = FALSE]
            c == IF process[p].ticked THEN "read" ELSE "next"
<1>3. View(p, kid[p], process[p], cdr[p], deleted_pid_list, told[p], excused[p])
  BY <1>2, ViewHolds DEF NoteInv
<1>4. Sound(p, kid[p], process[p], cdr[p], deleted_pid_list, told[p], excused[p], Listed)
  BY <1>2 DEF NoteInv, ProcInv, SoundNow
<1>5. /\ Sound(p, kid[p], s, cdr[p], deleted_pid_list, told[p], excused[p], Listed)
      /\ s.raw_status_new = process[p].raw_status_new /\ s.alive = process[p].alive
  BY <1>3, <1>4, SoundSeen
<1>6. process' = [process EXCEPT ![p] = s] /\ UNCHANGED <<kid, cdr, deleted_pid_list, told, excused>>
  BY <1>1, Zenon
<1>7. stack' = Below \o <<[Top EXCEPT !.at = p, !.pc = c]>> /\ Top.fn = "notify"
  BY <1>1, Zenon
<1>8. c \in {"next", "read"}
  OBVIOUS
<1>. HIDE DEF s, c
<1>9. process'[p] = s /\ \A q \in Proc : q # p => process'[q] = process[q]
  BY <1>2, <1>6 DEF NoteInv, TypeInv, IInv, Typed
<1>10. RemovingNow(p) => Removing(kid[p], s, excused[p])
  BY <1>5 DEF RemovingNow, Removing
<1>11. ProcInv' /\ \A q \in Proc : Stands(q)
  BY <1>2, <1>5, <1>6, <1>9, <1>10, OneSound
<1>12. c \in {"next", "read", "update", "clear", "report"} /\ c \notin {"update", "clear", "report"}
  BY <1>8
<1>13. Removers' /\ BusyTop'
  BY <1>2, <1>7, <1>11, <1>12, LoopNotes, Zenon
<1>. QED BY <1>11, <1>13

(* The output is read to the end before the status is looked at: what keeps    *)
(* status_notify from reading makes an excuse, or has been read before.         *)
LEMMA ReadNotes == ASSUME NoteInv, ReadRemaining PROVE ProcInv' /\ Removers' /\ BusyTop'
<1>. DEFINE p == Top.at
<1>1. /\ Top.fn = "notify" /\ Top.pc = "read" /\ p \in Proc
      /\ UNCHANGED <<process, cdr, deleted_pid_list, told, excused>>
  BY TopIsActivation, ActivationFields DEF NoteInv, TypeInv, ReadRemaining, Doing
<1>2. View(p, kid[p], process[p], cdr[p], deleted_pid_list, told[p], excused[p])
  BY <1>1, ViewHolds DEF NoteInv
<1>3. Sound(p, kid[p], process[p], cdr[p], deleted_pid_list, told[p], excused[p], Listed)
  BY <1>1 DEF NoteInv, ProcInv, SoundNow
<1>4. CASE MayRead(p) /\ kid[p].out > 0
  <2>1. kid' = [kid EXCEPT ![p] = Read(kid[p])] /\ stack' = Calls(Lisp, "read")
    BY <1>4 DEF ReadRemaining
  <2>2. kid'[p] = Read(kid[p]) /\ \A q \in Proc : q # p => kid'[q] = kid[q]
    BY <1>1, <2>1 DEF NoteInv, TypeInv, IInv, Typed
  <2>3. Sound(p, Read(kid[p]), process[p], cdr[p], deleted_pid_list, told[p], excused[p], Listed)
    BY <1>2, <1>3, <1>4, SoundKid
  <2>4. RemovingNow(p) => Removing(Read(kid[p]), process[p], excused[p])
    BY <1>2, RemovingKid DEF RemovingNow, View
  <2>5. ProcInv' /\ \A q \in Proc : Stands(q)
    BY <1>1, <2>1, <2>2, <2>3, <2>4, OneSound
  <2>6. /\ "read" \in {"next", "read", "update", "clear", "report"} /\ "read" \in {"next", "read"}
        /\ "read" \notin {"update", "clear", "report"}
    OBVIOUS
  <2>7. Removers' /\ BusyTop'
    BY <1>1, <2>1, <2>5, <2>6, LoopNotes, Zenon
  <2>. QED BY <2>5, <2>7
<1>5. CASE ~(MayRead(p) /\ kid[p].out > 0)
  <2>1. UNCHANGED kid /\ stack' = Goto("update")
    BY <1>5 DEF ReadRemaining
  <2>2. ProcInv' /\ \A q \in Proc : Stands(q)
    BY <1>1, <2>1, NoneChanged
  <2>3. Busy(Loop(p, "update"), kid[p], process[p], excused[p])
    <3>1. SUFFICES ASSUME excused[p] = 0 PROVE kid[p].out = 0
      BY DEF Busy, Loop
    <3>2. kid[p].out \in Nat
      BY <1>2 DEF View, Kid
    <3>3. CASE ~(kid[p].out > 0)
      BY <3>2, <3>3
    <3>4. CASE ~process[p].open
      <4>1. kid[p].state # "none" => told[p] = "exit"
        BY <1>3, <3>1, <3>4 DEF Sound, Closed
      <4>. QED BY <1>3, <3>1, <4>1 DEF Sound, Unborn, EndIsReal
    <3>5. CASE Top.then = "remove" /\ p = Top.for
      <4>1. Len(stack) \in 1 .. Len(stack) /\ stack[Len(stack)] = Top
        BY DEF NoteInv, TypeInv, StackInv, Top
      <4>2. Removers
        BY DEF NoteInv
      <4>3. RemovingNow(p)
        BY <1>1, <3>5, <4>1, <4>2 DEF Removers
      <4>. QED BY <3>1, <4>3 DEF RemovingNow, Removing, Told
    <3>. QED BY <1>5, <3>3, <3>4, <3>5 DEF MayRead
  <2>4. Busy(Loop(p, "update"), kid'[p], process'[p], excused'[p])
    BY <1>1, <2>1, <2>3
  <2>5. "update" \in {"next", "read", "update", "clear", "report"}
    OBVIOUS
  <2>6. Removers' /\ BusyTop'
    BY <1>1, <2>1, <2>2, <2>4, <2>5, LoopNotes, Zenon
  <2>. QED BY <2>2, <2>6
<1>. QED BY <1>4, <1>5

LEMMA UpdateNotes == ASSUME NoteInv, UpdateStatus PROVE ProcInv' /\ Removers' /\ BusyTop'
<1>. DEFINE p == Top.at
            s == update_status(process[p])
<1>1. /\ Top.fn = "notify" /\ Top.pc = "update" /\ p \in Proc
      /\ UNCHANGED <<kid, cdr, deleted_pid_list, told, excused>>
  BY TopIsActivation, ActivationFields DEF NoteInv, TypeInv, UpdateStatus, Doing
<1>2. View(p, kid[p], process[p], cdr[p], deleted_pid_list, told[p], excused[p])
  BY <1>1, ViewHolds DEF NoteInv
<1>3. Sound(p, kid[p], process[p], cdr[p], deleted_pid_list, told[p], excused[p], Listed)
  BY <1>1 DEF NoteInv, ProcInv, SoundNow
<1>4. Busy(Top, kid[p], process[p], excused[p])
  BY <1>1 DEF NoteInv, BusyTop, BusyNow
<1>5. CASE process[p].raw_status_new # Nil
  <2>1. process' = [process EXCEPT ![p] = s] /\ stack' = Goto("clear")
    BY <1>5 DEF UpdateStatus
  <2>2. /\ Sound(p, kid[p], s, cdr[p], deleted_pid_list, told[p], excused[p], Listed)
        /\ s.raw_status_new # Nil /\ s.status = s.raw_status_new
        /\ s.raw_status_new = process[p].raw_status_new
    BY <1>2, <1>3, <1>5, SoundConverted
  <2>. HIDE DEF s
  <2>3. process'[p] = s /\ \A q \in Proc : q # p => process'[q] = process[q]
    BY <1>1, <2>1 DEF NoteInv, TypeInv, IInv, Typed
  <2>4. RemovingNow(p) => Removing(kid[p], s, excused[p])
    BY <1>5 DEF RemovingNow, Removing
  <2>5. ProcInv' /\ \A q \in Proc : Stands(q)
    BY <1>1, <2>1, <2>2, <2>3, <2>4, OneSound
  <2>6. Busy(Loop(p, "clear"), kid'[p], process'[p], excused'[p])
    BY <1>1, <1>4, <2>2, <2>3 DEF Busy, Loop
  <2>7. "clear" \in {"next", "read", "update", "clear", "report"}
    OBVIOUS
  <2>8. Removers' /\ BusyTop'
    BY <1>1, <2>1, <2>5, <2>6, <2>7, LoopNotes, Zenon
  <2>. QED BY <2>5, <2>8
<1>6. CASE process[p].raw_status_new = Nil
  <2>1. UNCHANGED process /\ stack' = Goto("report")
    BY <1>6 DEF UpdateStatus
  <2>2. ProcInv' /\ \A q \in Proc : Stands(q)
    BY <1>1, <2>1, NoneChanged
  <2>3. Busy(Loop(p, "report"), kid'[p], process'[p], excused'[p])
    BY <1>1, <1>4, <1>6, <2>1 DEF Busy, Loop
  <2>4. "report" \in {"next", "read", "update", "clear", "report"}
    OBVIOUS
  <2>5. Removers' /\ BusyTop'
    BY <1>1, <2>1, <2>2, <2>3, <2>4, LoopNotes, Zenon
  <2>. QED BY <2>2, <2>5
<1>. QED BY <1>5, <1>6

LEMMA ReportNotes == ASSUME NoteInv, Report PROVE ProcInv' /\ Removers' /\ BusyTop'
<1>0. PICK p : p = Top.at
  OBVIOUS
<1>. DEFINE s0 == [process[p] EXCEPT !.ticked = FALSE]
            s == IF process[p].status = "exit" THEN deactivate_process(s0) ELSE s0
<1>1. /\ Top.fn = "notify" /\ Top.pc = "report" /\ p \in Proc
      /\ UNCHANGED <<kid, deleted_pid_list, excused>>
      /\ stack' = Calls(Lisp, "next")
  BY <1>0, TopIsActivation, ActivationFields DEF NoteInv, TypeInv, Report, Doing
<1>2. View(p, kid[p], process[p], cdr[p], deleted_pid_list, told[p], excused[p])
  BY <1>1, ViewHolds DEF NoteInv
<1>3. Sound(p, kid[p], process[p], cdr[p], deleted_pid_list, told[p], excused[p], Listed)
  BY <1>1 DEF NoteInv, ProcInv, SoundNow
<1>4. Busy(Top, kid[p], process[p], excused[p])
  BY <1>0, <1>1 DEF NoteInv, BusyTop, BusyNow
<1>5. /\ process' = [process EXCEPT ![p] = s] /\ told' = [told EXCEPT ![p] = process[p].status]
      /\ cdr' = IF process[p].status = "exit" THEN Without(cdr, p) ELSE cdr
  BY <1>0 DEF Report
<1>6. /\ Listed \subseteq Listed' \cup {p}
      /\ process[p].status # "exit" => Listed' = Listed
      /\ \A q \in Proc : cdr[q] = Nil => cdr'[q] = Nil
  <2>1. CASE process[p].status = "exit"
    BY <1>1, <1>5, <2>1, ListedWithout DEF NoteInv
  <2>2. CASE process[p].status # "exit"
    BY <1>5, <2>2, ListedSame DEF NoteInv
  <2>. QED BY <2>1, <2>2
<1>7. Sound(p, kid[p], s, cdr'[p], deleted_pid_list, process[p].status, excused[p], Listed')
  <2>1. excused[p] = 0 /\ process[p].status = "exit" => kid[p].out = 0
    BY <1>1, <1>4 DEF Busy
  <2>2. cdr[p] = Nil => cdr'[p] = Nil
    BY <1>1, <1>6
  <2>3. CASE process[p].status = "exit"
    <3>1. s = deactivate_process([process[p] EXCEPT !.ticked = FALSE])
      BY <2>3
    <3>. HIDE DEF s
    <3>. QED BY <1>2, <1>3, <2>1, <2>2, <2>3, <3>1, SoundReported
  <2>4. CASE process[p].status # "exit"
    <3>1. s = [process[p] EXCEPT !.ticked = FALSE] /\ (p \in Listed => p \in Listed')
      BY <1>6, <2>4
    <3>. HIDE DEF s
    <3>. QED BY <1>2, <1>3, <2>1, <2>2, <2>4, <3>1, SoundReported
  <2>. QED BY <2>3, <2>4
<1>8. s.raw_status_new = process[p].raw_status_new /\ s.alive = process[p].alive
  BY <1>2 DEF View, Lisp_Process, deactivate_process
<1>. HIDE DEF s
<1>9. /\ process'[p] = s /\ told'[p] = process[p].status
      /\ \A q \in Proc : q # p => process'[q] = process[q] /\ told'[q] = told[q]
  BY <1>1, <1>5 DEF NoteInv, TypeInv, IInv, Typed, Rest
<1>10. ASSUME NEW q \in Proc
       PROVE  SoundNow(q)' /\ Stands(q)
  <2>1. CASE q = p
    <3>1. SoundNow(p)'
      BY <1>1, <1>7, <1>9 DEF SoundNow
    <3>2. Stands(p)
      BY <1>1, <1>8, <1>9 DEF Stands, RemovingNow, RemovingThen, Removing
    <3>. QED BY <2>1, <3>1, <3>2
  <2>2. CASE q # p
    <3>1. excused[q] \in 0..3
      BY DEF NoteInv, TypeInv, Rest
    <3>2. Apart(q)
      BY <1>1, <1>6, <1>9, <2>2, <3>1 DEF Apart
    <3>. QED BY <3>2, OthersSound
  <2>. QED BY <2>1, <2>2
<1>11. /\ "next" \in {"next", "read", "update", "clear", "report"} /\ "next" \in {"next", "read"}
       /\ "next" \notin {"update", "clear", "report"} /\ p = Top.at
  BY <1>0
<1>12. \A q \in Proc : Stands(q)
  BY <1>10
<1>13. Removers' /\ BusyTop'
  BY <1>1, <1>11, <1>12, LoopNotes, Zenon
<1>. QED BY <1>10, <1>13 DEF ProcInv

LEMMA NotifyReturnsNotes == ASSUME NoteInv, NotifyReturns PROVE ProcInv' /\ Removers' /\ BusyTop'
<1>0. PICK p : p = Top.for
  OBVIOUS
<1>1. /\ Top.fn = "notify" /\ stack' = Below /\ Len(stack) > 1 /\ p \in Proc \cup {Nil}
      /\ StackInv /\ Len(stack) \in Nat
      /\ UNCHANGED <<deleted_pid_list, told, excused>>
  BY <1>0, TopIsActivation, ActivationFields DEF NoteInv, TypeInv, NotifyReturns, Doing, StackInv
<1>2. /\ StackInv' /\ Len(stack') = Len(stack) - 1
      /\ \A j \in 1 .. Len(stack) - 1 : stack'[j] = stack[j]
      /\ Top'.pc \in Resting
  BY <1>1, Returned
<1>3. Len(stack') <= Len(stack) /\ \A i \in 1 .. Len(stack') : stack'[i] = stack[i]
  BY <1>1, <1>2
<1>4. SUFFICES ProcInv' /\ \A q \in Proc : Stands(q)
  BY <1>2, <1>3, Resumed
<1>5. \A q \in Proc : excused[q] \in 0..3
  BY DEF NoteInv, TypeInv, Rest
<1>6. CASE Top.then = "remove"
  <2>1. p \in Proc /\ RemovingNow(p)
    <3>1. Len(stack) \in 1 .. Len(stack) /\ stack[Len(stack)] = Top
      BY <1>1 DEF Top
    <3>2. Removers
      BY DEF NoteInv
    <3>. QED BY <1>0, <1>1, <1>6, <3>1, <3>2 DEF Removers
  <2>2. /\ cdr' = Without(cdr, p) /\ process' = [process EXCEPT ![p] = deactivate_process(process[p])]
        /\ UNCHANGED kid
    BY <1>0, <1>6 DEF NotifyReturns
  <2>3. View(p, kid[p], process[p], cdr[p], deleted_pid_list, told[p], excused[p])
    BY <2>1, ViewHolds DEF NoteInv
  <2>4. Sound(p, kid[p], process[p], cdr[p], deleted_pid_list, told[p], excused[p], Listed)
    BY <2>1 DEF NoteInv, ProcInv, SoundNow
  <2>5. Sound(p, kid[p], deactivate_process(process[p]), cdr'[p], deleted_pid_list, told[p],
              excused[p], Listed')
    BY <2>1, <2>3, <2>4, SoundRemoved DEF RemovingNow
  <2>6. /\ deactivate_process(process[p]).raw_status_new = process[p].raw_status_new
        /\ deactivate_process(process[p]).alive = process[p].alive
    BY <2>3 DEF View, Lisp_Process, deactivate_process
  <2>7. /\ process'[p] = deactivate_process(process[p])
        /\ \A q \in Proc : q # p => process'[q] = process[q]
    BY <2>1, <2>2 DEF NoteInv, TypeInv, IInv, Typed
  <2>8. Listed \subseteq Listed' \cup {p} /\ \A q \in Proc : cdr[q] = Nil => cdr'[q] = Nil
    BY <2>1, <2>2, ListedWithout DEF NoteInv
  <2>9. ASSUME NEW q \in Proc
        PROVE  SoundNow(q)' /\ Stands(q)
    <3>1. CASE q = p
      <4>1. SoundNow(p)'
        BY <1>1, <2>2, <2>5, <2>7 DEF SoundNow
      <4>2. Stands(p)
        BY <1>1, <2>2, <2>6, <2>7 DEF Stands, RemovingNow, RemovingThen, Removing
      <4>. QED BY <3>1, <4>1, <4>2
    <3>2. CASE q # p
      <4>1. Apart(q)
        BY <1>1, <1>5, <2>2, <2>7, <2>8, <3>2 DEF Apart
      <4>. QED BY <4>1, OthersSound
    <3>. QED BY <3>1, <3>2
  <2>. QED BY <2>9 DEF ProcInv
<1>7. CASE Top.then # "remove"
  <2>1. UNCHANGED <<cdr, process>>
    BY <1>0, <1>7 DEF NotifyReturns
  <2>2. CASE UNCHANGED kid
    BY <1>1, <2>1, <2>2, NoneChanged
  <2>3. CASE kid' = [kid EXCEPT ![p] = Continued(kid[p])] /\ kid[p].state = "stop"
    <3>1. CASE p \in Proc
      <4>1. View(p, kid[p], process[p], cdr[p], deleted_pid_list, told[p], excused[p])
        BY <3>1, ViewHolds DEF NoteInv
      <4>2. Sound(p, kid[p], process[p], cdr[p], deleted_pid_list, told[p], excused[p], Listed)
        BY <3>1 DEF NoteInv, ProcInv, SoundNow
      <4>3. Sound(p, Continued(kid[p]), process[p], cdr[p], deleted_pid_list, told[p], excused[p],
                  Listed)
        BY <2>3, <4>1, <4>2, SoundKid
      <4>4. RemovingNow(p) => Removing(Continued(kid[p]), process[p], excused[p])
        BY <4>1, RemovingKid DEF RemovingNow, View
      <4>5. kid'[p] = Continued(kid[p]) /\ \A q \in Proc : q # p => kid'[q] = kid[q]
        BY <2>3, <3>1 DEF NoteInv, TypeInv, IInv, Typed
      <4>. QED BY <1>1, <2>1, <3>1, <4>3, <4>4, <4>5, OneSound
    <3>2. CASE p \notin Proc
      <4>1. UNCHANGED kid
        BY <2>3, <3>2 DEF NoteInv, TypeInv, IInv, Typed
      <4>. QED BY <1>1, <2>1, <4>1, NoneChanged
    <3>. QED BY <3>1, <3>2
  <2>4. UNCHANGED kid \/ (kid' = [kid EXCEPT ![p] = Continued(kid[p])] /\ kid[p].state = "stop")
    BY <1>0, <1>7 DEF NotifyReturns
  <2>. QED BY <2>2, <2>3, <2>4
<1>. QED BY <1>6, <1>7

LEMMA InitNotes == Init => NoteInv
<1> SUFFICES ASSUME Init PROVE NoteInv
  OBVIOUS
<1>1. TypeInv
  BY InitTypes
<1>2. Top = Lisp /\ Len(stack) = 1 /\ stack[1] = Lisp
  BY DEF Init, Top
<1>3. Removers /\ BusyTop
  BY <1>2 DEF Removers, BusyTop, Lisp
<1>4. ASSUME NEW p \in Proc
      PROVE  SoundNow(p)
  <2>1. /\ kid[p].state = "none" /\ kid[p].out = 0 /\ cdr[p] = Nil /\ told[p] = "run"
        /\ process[p].status = "run" /\ process[p].raw_status_new = Nil
        /\ ~process[p].ticked /\ ~process[p].alive /\ ~process[p].open /\ ~process[p].watched
        /\ deleted_pid_list = {}
    BY DEF Init
  <2>2. Nil # "exit"
    BY ProcessesAssumption
  <2>. QED BY <2>1, <2>2 DEF SoundNow, Sound, Unborn, OnRecord, EndKnown, Closed, EndIsReal
<1>. QED BY <1>1, <1>3, <1>4 DEF NoteInv, ProcInv

LEMMA NotesKept == NoteInv /\ [Next]_vars => NoteInv'
<1> SUFFICES ASSUME NoteInv, [Next]_vars PROVE ProcInv' /\ Removers' /\ BusyTop'
  BY TypesKept DEF NoteInv
<1>1. CASE Child
  BY <1>1, ChildNotes DEF Child
<1>2. CASE handle_child_signal
  BY <1>2, HandlerNotes
<1>3. CASE LispRuns
  BY <1>3, MakeNotes, DeleteNotes, ContinueNotes, StatusNotes, SendNotes, ClearedNotes,
     ReturnNotes, ThrowNotes
  DEF LispRuns
<1>4. CASE Waits
  BY <1>4, WaitNotes, ReturnNotes DEF Waits
<1>5. CASE Notifies
  BY <1>5, VisitNotes, ReadNotes, UpdateNotes, ClearedNotes, ReportNotes, NotifyReturnsNotes
  DEF Notifies
<1>6. CASE UNCHANGED vars
  <2>1. /\ UNCHANGED <<kid, process, cdr, deleted_pid_list, told, excused>>
        /\ UNCHANGED stack
    BY <1>6 DEF vars
  <2>2. ProcInv' /\ \A q \in Proc : Stands(q)
    BY <2>1, NoneChanged
  <2>3. BusyTop' <=> BusyTop
    BY <2>1 DEF BusyTop, BusyNow, Top
  <2>. QED BY <2>1, <2>2, <2>3, RemoversStay DEF NoteInv
<1>. QED BY <1>1, <1>2, <1>3, <1>4, <1>5, <1>6 DEF Next

LEMMA NotesHold == Spec => []NoteInv
BY InitNotes, NotesKept, PTL DEF Spec

(* Every child Emacs started and has not reaped is on one of the two records   *)
(* the handler looks at, unless the connection to it broke: deleting a process  *)
(* moves its pid from one record to the other in one step, and a process is     *)
(* only taken from the list when it is not alive.                               *)
THEOREM NoChildForgotten == Spec => []ChildrenRecordedUnlessBroken
<1>1. NoteInv => ChildrenRecordedUnlessBroken
  BY DEF NoteInv, ProcInv, SoundNow, Sound, OnRecord, ChildrenRecordedUnlessBroken, Recordless
<1>. QED BY NotesHold, <1>1, PTL

(* Of a reaped child process-status says that it has exited, wherever the       *)
(* handler interrupted the two statements of update_status.                     *)
THEOREM StatusBelieved == Spec => []StatusTruthful
<1>1. NoteInv => StatusTruthful
  <2> SUFFICES ASSUME NoteInv, NEW p \in Proc, kid[p].state = "reaped", excused[p] < Known
               PROVE  process_status(p) = "exit"
    BY DEF StatusTruthful
  <2>1. ~process[p].alive
    BY DEF NoteInv, TypeInv, IInv, NeverReapedTwice
  <2>2. EndKnown(kid[p], process[p], excused[p])
    BY DEF NoteInv, ProcInv, SoundNow, Sound
  <2>. QED BY <2>1, <2>2 DEF EndKnown, StatusOf, process_status
<1>. QED BY NotesHold, <1>1, PTL

(* The filter has had all the output of a process when its sentinel is told of  *)
(* the exit: status_notify reads to the end between the handler's closing of    *)
(* the descriptor to select and the report.                                     *)
THEOREM OutputFirst == Spec => []OutputReadBeforeExit
<1>1. NoteInv => OutputReadBeforeExit
  BY DEF NoteInv, ProcInv, SoundNow, Sound, EndIsReal, OutputReadBeforeExit
<1>. QED BY NotesHold, <1>1, PTL

-----------------------------------------------------------------------------
(* Nothing the handler noted is slept over *)

(* A loop of status_notify has the process p still to come to, or stands at it. *)
Ahead(st, c, p) == \E i \in 1 .. Len(st) : st[i].fn = "notify" /\ p \in Reach(c, st[i].at)
AtHand(st, p) ==
  \E i \in 1 .. Len(st) : st[i].fn = "notify" /\ st[i].at = p /\ st[i].pc # "next"

(* A change noted of a process in the list is still to be looked for, and the   *)
(* exit of a reaped one to be told.                                            *)
Heard(p) ==
  process[p].ticked /\ excused[p] = 0 /\ p \in Listed => ticked \/ Ahead(stack, cdr, p)
Due(p) ==
  kid[p].state = "reaped" /\ excused[p] = 0 /\ told[p] # "exit" =>
    (process[p].ticked /\ p \in Listed) \/ AtHand(stack, p)

(* What came between the check and select wakes select up. *)
Wakeful ==
  Doing("wait", "select") => ~ticked \/ child_signal \/ \E p \in Proc : Readable(p)

NewsInv == (\A p \in Proc : Heard(p) /\ Due(p)) /\ Wakeful

SleepInv == NoteInv /\ NewsInv

(* The loops that will come to p are there after the step. *)
Kept(p) ==
  /\ Ahead(stack, cdr, p) => Ahead(stack', cdr', p)
  /\ AtHand(stack, p) => AtHand(stack', p)

(* No loop ends or goes on to another process. *)
GoesOn ==
  \A i \in 1 .. Len(stack) : stack[i].fn = "notify" =>
    /\ i \in 1 .. Len(stack')
    /\ stack'[i].fn = "notify" /\ stack'[i].at = stack[i].at
    /\ stack[i].pc # "next" => stack'[i].pc # "next"

LEMMA LoopsKept ==
  ASSUME StackInv, GoesOn, NEW p,
         \A x \in Proc \cup {Nil} : p \in Reach(cdr, x) => p \in Reach(cdr', x)
  PROVE  Kept(p)
<1>1. \A i \in 1 .. Len(stack) : stack[i].at \in Proc \cup {Nil}
  BY TopIsActivation, ActivationFields
<1>2. ASSUME Ahead(stack, cdr, p)
      PROVE  Ahead(stack', cdr', p)
  <2>1. PICK i \in 1 .. Len(stack) : stack[i].fn = "notify" /\ p \in Reach(cdr, stack[i].at)
    BY <1>2 DEF Ahead
  <2>2. i \in 1 .. Len(stack') /\ stack'[i].fn = "notify" /\ stack'[i].at = stack[i].at
    BY <2>1 DEF GoesOn
  <2>3. p \in Reach(cdr', stack'[i].at)
    BY <1>1, <2>1, <2>2
  <2>. QED BY <2>2, <2>3 DEF Ahead
<1>3. ASSUME AtHand(stack, p)
      PROVE  AtHand(stack', p)
  BY <1>3 DEF AtHand, GoesOn
<1>. QED BY <1>2, <1>3 DEF Kept

LEMMA GoesOnAbove ==
  ASSUME StackInv, Len(stack') \in Nat, Len(stack) <= Len(stack'),
         \A i \in 1 .. Len(stack) : stack'[i] = stack[i]
  PROVE  GoesOn
<1>1. Len(stack) \in Nat
  BY DEF StackInv
<1>. QED BY <1>1 DEF GoesOn

LEMMA GoesOnBelow ==
  ASSUME StackInv, Top.fn # "notify", Len(stack') \in Nat, Len(stack) - 1 <= Len(stack'),
         \A i \in 1 .. Len(stack) - 1 : stack'[i] = stack[i]
  PROVE  GoesOn
<1>1. Len(stack) \in Nat
  BY DEF StackInv
<1> SUFFICES ASSUME NEW i \in 1 .. Len(stack), stack[i].fn = "notify"
             PROVE  i \in 1 .. Len(stack') /\ stack'[i] = stack[i]
  BY DEF GoesOn
<1>2. i # Len(stack)
  BY DEF Top
<1>3. i \in 1 .. Len(stack) - 1
  BY <1>1, <1>2
<1>. QED BY <1>1, <1>3

LEMMA GoesOnAt ==
  ASSUME StackInv, Top.fn = "notify", Len(stack') \in Nat, Len(stack) <= Len(stack'),
         \A i \in 1 .. Len(stack) - 1 : stack'[i] = stack[i],
         NEW p, p = Top.at, NEW c, c # "next", stack'[Len(stack)] = Loop(p, c)
  PROVE  GoesOn
<1>1. Len(stack) \in Nat
  BY DEF StackInv
<1>2. /\ stack'[Len(stack)].fn = "notify" /\ stack'[Len(stack)].at = Top.at
      /\ stack'[Len(stack)].pc # "next"
  BY DEF Loop
<1> SUFFICES ASSUME NEW i \in 1 .. Len(stack), stack[i].fn = "notify"
             PROVE  /\ i \in 1 .. Len(stack')
                    /\ stack'[i].fn = "notify" /\ stack'[i].at = stack[i].at
                    /\ stack[i].pc # "next" => stack'[i].pc # "next"
  BY DEF GoesOn
<1>3. CASE i = Len(stack)
  BY <1>1, <1>2, <1>3 DEF Top
<1>4. CASE i # Len(stack)
  <2>1. i \in 1 .. Len(stack) - 1
    BY <1>1, <1>4
  <2>. QED BY <1>1, <2>1
<1>. QED BY <1>3, <1>4

(* A process nothing is done to, or of which only more is expected to be done *)
LEMMA NewsOf ==
  ASSUME SleepInv, NEW p \in Proc,
         excused'[p] = 0 =>
           /\ excused[p] = 0
           /\ process[p].ticked => process'[p].ticked
           /\ process'[p].ticked => process[p].ticked \/ ticked' \/ Ahead(stack', cdr', p)
           /\ p \in Listed' <=> p \in Listed
           /\ ticked => ticked' \/ (p \in Listed => Ahead(stack', cdr', p))
           /\ told'[p] = told[p]
           /\ kid'[p].state = "reaped" => kid[p].state = "reaped"
           /\ Kept(p)
  PROVE  Heard(p)' /\ Due(p)'
BY Zenon DEF SleepInv, NewsInv, Heard, Due, Kept

LEMMA NewsStay ==
  ASSUME SleepInv, GoesOn, UNCHANGED <<cdr, told, excused>>, ticked => ticked',
         \A p \in Proc :
           /\ kid'[p].state = "reaped" => kid[p].state = "reaped"
           /\ process'[p].ticked = process[p].ticked
  PROVE  \A p \in Proc : Heard(p)' /\ Due(p)'
<1>1. Listed' = Listed
  BY ListedSame DEF SleepInv, NoteInv
<1>2. \A p \in Proc : Kept(p)
  BY LoopsKept DEF SleepInv, NoteInv, TypeInv
<1>. QED BY <1>1, <1>2, NewsOf

(* Only a wait sleeps. *)
LEMMA AwakeUnlessWaiting ==
  ASSUME Top'.fn # "wait" \/ Top'.pc # "select"
  PROVE  Wakeful'
BY DEF Wakeful, Doing

LEMMA ReapedFields ==
  ASSUME NEW k \in Kid
  PROVE  /\ Writing(k).state = k.state /\ Read(k).state = k.state
         /\ Stopped(k).state = "stop" /\ Continued(k).state = "run" /\ Dead(k).state = "dead"
         /\ Writing(k).out = k.out + 1 /\ Stopped(k).out = k.out /\ Dead(k).out = k.out
         /\ k.out \in Nat
BY DEF Kid, Writing, Read, Stopped, Continued, Dead

LEMMA ChildNews == ASSUME SleepInv, NEW p \in Proc, KidWrites(p) \/ KidStops(p) \/ KidExits(p)
                   PROVE  NewsInv'
<1>1. UNCHANGED <<process, cdr, deleted_pid_list, ticked, child_signal, stack, told, excused>>
  BY DEF KidWrites, KidStops, KidExits
<1>2. PICK k : /\ kid' = [kid EXCEPT ![p] = k]
               /\ k \in {Writing(kid[p]), Stopped(kid[p]), Dead(kid[p])}
  BY DEF KidWrites, KidStops, KidExits
<1>3. \A q \in Proc : kid[q] \in Kid
  BY DEF SleepInv, NoteInv, TypeInv, IInv, Typed
<1>4. /\ k.state = "reaped" => kid[p].state = "reaped"
      /\ k.out >= kid[p].out /\ k.out \in Nat /\ kid[p].out \in Nat
      /\ k.state \in {"run", "stop"} => kid[p].state \in {"run", "stop"}
  <2>1. KidWrites(p) \/ KidStops(p) \/ KidExits(p) => kid[p].state \in {"run", "stop"}
    BY DEF KidWrites, KidStops, KidExits, Alive
  <2>2. kid[p] \in Kid
    BY <1>3
  <2>. QED BY <1>2, <2>1, <2>2, ReapedFields
<1>5. kid'[p] = k /\ \A q \in Proc : q # p => kid'[q] = kid[q]
  BY <1>2 DEF SleepInv, NoteInv, TypeInv, IInv, Typed
<1>6. GoesOn
  BY <1>1, GoesOnAbove DEF SleepInv, NoteInv, TypeInv, StackInv
<1>7. \A q \in Proc : Heard(q)' /\ Due(q)'
  BY <1>1, <1>4, <1>5, <1>6, NewsStay
<1>8. ASSUME NEW q \in Proc, Readable(q)
      PROVE  Readable(q)'
  BY <1>1, <1>3, <1>4, <1>5, <1>8 DEF Readable, Alive
<1>9. Wakeful'
  BY <1>1, <1>8 DEF Wakeful, Doing, Top, SleepInv, NewsInv
<1>. QED BY <1>7, <1>9 DEF NewsInv

(* What the handler notes it makes the loop look for, and it wakes select up. *)
LEMMA HandlerNews == ASSUME SleepInv, handle_child_signal PROVE NewsInv'
<1>1. /\ UNCHANGED <<cdr, stack, told>>
      /\ ticked' = (ticked \/ Changed # {})
      /\ IF Gone \cup Changed # {} THEN child_signal' = TRUE ELSE UNCHANGED child_signal
  BY HandlerDoes, Zenon
<1>2. \A p \in Proc : kid'[p] = IF p \in Gone \cup Over THEN Reaped(kid[p])
                                ELSE IF p \in Changed THEN [kid[p] EXCEPT !.news = Nil] ELSE kid[p]
  BY HandlerDoes, Zenon
<1>3. \A p \in Proc : process'[p] =
        IF p \in Changed THEN WithStatus(process[p], kid[p].news) ELSE process[p]
  BY HandlerDoes, Zenon
<1>4. ASSUME NEW p \in Proc
      PROVE  excused[p] \in 0..3 /\ excused'[p] \in 0..3 /\ excused[p] <= excused'[p]
  <2>1. excused[p] \in 0..3
    BY DEF SleepInv, NoteInv, TypeInv, Rest
  <2>2. excused'[p] = excused[p] \/ excused'[p] = Worse(excused[p], Known)
    BY HandlerDoes, Zenon
  <2>. QED BY <2>1, <2>2 DEF Worse, Known
<1>5. Listed' = Listed
  BY <1>1, ListedSame DEF SleepInv, NoteInv
<1>6. GoesOn
  BY <1>1, GoesOnAbove DEF SleepInv, NoteInv, TypeInv, StackInv
<1>7. \A p \in Proc : Kept(p)
  BY <1>1, <1>6, LoopsKept DEF SleepInv, NoteInv, TypeInv
<1>8. ASSUME NEW p \in Proc
      PROVE  Heard(p)' /\ Due(p)'
  <2>1. kid[p] \in Kid /\ process[p] \in Lisp_Process
    BY DEF SleepInv, NoteInv, TypeInv, IInv, Typed
  <2>2. CASE p \in Changed
    <3>1. process'[p].ticked = TRUE
      <4>1. WithStatus(process[p], kid[p].news).ticked = TRUE
        BY <2>1 DEF WithStatus, Lisp_Process
      <4>. QED BY <1>3, <2>2, <4>1
    <3>2. ticked' /\ p \in Listed'
      BY <1>1, <1>5, <2>2 DEF Changed
    <3>. QED BY <3>1, <3>2 DEF Heard, Due
  <2>3. CASE p \notin Changed /\ p \in Gone
    <3>1. excused[p] >= Told
      <4>1. OnRecord(p, kid[p], process[p], deleted_pid_list, excused[p], Listed)
        BY DEF SleepInv, NoteInv, ProcInv, SoundNow, Sound
      <4>. QED BY <2>3, <4>1 DEF OnRecord, Gone
    <3>2. excused'[p] # 0
      BY <1>4, <3>1 DEF Told
    <3>. QED BY <3>2 DEF Heard, Due
  <2>4. CASE p \notin Changed /\ p \notin Gone
    <3>1. p \notin Over
      BY <2>4 DEF Over
    <3>2. kid'[p] = kid[p] /\ process'[p] = process[p]
      BY <1>2, <1>3, <2>4, <3>1
    <3>3. excused'[p] = 0 => excused[p] = 0
      BY <1>4
    <3>. QED BY <1>1, <1>5, <1>7, <3>2, <3>3, NewsOf
  <2>. QED BY <2>2, <2>3, <2>4
<1>9. Wakeful'
  <2>1. CASE Gone \cup Changed # {}
    BY <1>1, <2>1 DEF Wakeful
  <2>2. CASE Gone \cup Changed = {}
    <3>1. ASSUME NEW p \in Proc
          PROVE  kid'[p] = kid[p] /\ process'[p] = process[p]
      BY <1>2, <1>3, <2>2 DEF Over
    <3>2. \A p \in Proc : Readable(p)' <=> Readable(p)
      BY <3>1 DEF Readable, Alive
    <3>3. ticked' = ticked
      <4>1. Changed = {} /\ ticked \in BOOLEAN
        BY <2>2 DEF SleepInv, NoteInv, TypeInv, Rest
      <4>. QED BY <1>1, <4>1
    <3>. QED BY <1>1, <2>2, <3>2, <3>3 DEF Wakeful, Doing, Top, SleepInv, NewsInv
  <2>. QED BY <2>1, <2>2
<1>. QED BY <1>8, <1>9 DEF NewsInv

LEMMA ReachMakesOne ==
  ASSUME NEW c \in Cells, NEW p \in Proc, c[p] = Nil,
         NEW d, d = [c EXCEPT ![p] = c[Nil], ![Nil] = p]
  PROVE  Reach(d, Nil) \subseteq Reach(c, Nil) \cup {p}
<1>1. Nil \notin Proc
  BY ProcessesAssumption
<1>2. /\ d \in Cells /\ d[Nil] = p /\ d[p] = c[Nil]
      /\ \A q \in Proc : q # p => d[q] = c[q]
  BY <1>1 DEF Cells
<1>3. ClosedFrom(c, Nil, Reach(c, Nil)) /\ Reach(c, Nil) \in SUBSET Proc
  BY ReachClosed, ReachType
<1>4. ClosedFrom(d, Nil, Reach(c, Nil) \cup {p})
  BY <1>2, <1>3 DEF ClosedFrom
<1>. QED BY <1>3, <1>4, ReachLeast

LEMMA MadeReaches ==
  ASSUME TypeInv, NEW p \in Proc, cdr[p] = Nil, cdr' = [cdr EXCEPT ![p] = cdr[Nil], ![Nil] = p]
  PROVE  /\ Listed \subseteq Listed' /\ Listed' \subseteq Listed \cup {p}
         /\ \A x \in Proc \cup {Nil} : Reach(cdr, x) \subseteq Reach(cdr', x)
<1>1. cdr \in Cells
  BY DEF TypeInv, Rest
<1>2. /\ cdr' \in Cells /\ Reach(cdr', Nil) \subseteq Reach(cdr, Nil) \cup {p}
      /\ \A x \in Proc \cup {Nil} : Reach(cdr, x) \subseteq Reach(cdr', x)
  <2>. DEFINE d == [cdr EXCEPT ![p] = cdr[Nil], ![Nil] = p]
  <2>1. \A dd : dd = d => /\ dd \in Cells /\ Reach(dd, Nil) \subseteq Reach(cdr, Nil) \cup {p}
                          /\ \A x \in Proc \cup {Nil} : Reach(cdr, x) \subseteq Reach(dd, x)
    BY <1>1, ReachMake, ReachMakesOne, Zenon
  <2>2. cdr' = d
    OBVIOUS
  <2>. HIDE DEF d
  <2>. QED BY <2>1, <2>2, Zenon
<1>3. Listed = Reach(cdr, Nil) /\ Listed' = Reach(cdr', Nil)
  BY <1>1, <1>2, ListedNow, ListedNext
<1>. QED BY <1>2, <1>3, ListedMade

LEMMA WithoutReaches ==
  ASSUME TypeInv, NEW p \in Proc, cdr' = Without(cdr, p)
  PROVE  /\ Listed \subseteq Listed' \cup {p} /\ Listed' \subseteq Listed
         /\ \A x \in Proc \cup {Nil} : Reach(cdr, x) \subseteq Reach(cdr', x) \cup {p}
<1>1. cdr \in Cells
  BY DEF TypeInv, Rest
<1>2. \A x \in Proc \cup {Nil} : Reach(cdr, x) \subseteq Reach(cdr', x) \cup {p}
  BY <1>1, ReachWithout, Zenon
<1>. QED BY <1>2, ListedWithout

LEMMA MakeNews == ASSUME SleepInv, NEW p \in Proc, make_process(p) PROVE NewsInv'
<1>. DEFINE k == [kid[p] EXCEPT !.state = "run"]
            s == [process[p] EXCEPT !.open = TRUE, !.watched = TRUE, !.alive = TRUE]
<1>1. /\ kid[p].state = "none" /\ Top.fn = "lisp"
      /\ cdr' = [cdr EXCEPT ![p] = cdr[Nil], ![Nil] = p]
      /\ kid' = [kid EXCEPT ![p] = k] /\ process' = [process EXCEPT ![p] = s]
      /\ UNCHANGED <<ticked, child_signal, stack, told, excused>>
  BY Zenon DEF make_process, Doing
<1>2. kid[p] \in Kid /\ process[p] \in Lisp_Process
  BY DEF SleepInv, NoteInv, TypeInv, IInv, Typed
<1>3. k.state = "run"
  BY <1>2 DEF Kid
<1>4. s.ticked = process[p].ticked
  <2>. DEFINE s1 == [process[p] EXCEPT !.open = TRUE]
              s2 == [s1 EXCEPT !.watched = TRUE]
  <2>1. s1.ticked = process[p].ticked /\ s1 \in Lisp_Process
    BY <1>2 DEF Lisp_Process
  <2>. HIDE DEF s1
  <2>2. s2.ticked = s1.ticked /\ s2 \in Lisp_Process
    BY <2>1 DEF Lisp_Process
  <2>. HIDE DEF s2
  <2>3. [s2 EXCEPT !.alive = TRUE].ticked = s2.ticked
    BY <2>2 DEF Lisp_Process
  <2>. QED BY <2>1, <2>2, <2>3 DEF s1, s2
<1>. HIDE DEF k, s
<1>5. /\ kid'[p] = k /\ process'[p] = s
      /\ \A q \in Proc : q # p => kid'[q] = kid[q] /\ process'[q] = process[q]
  BY <1>1, Zenon DEF SleepInv, NoteInv, TypeInv, IInv, Typed
<1>6. cdr[p] = Nil /\ ~process[p].ticked
  <2>1. Unborn(kid[p], process[p], cdr[p], told[p])
    BY DEF SleepInv, NoteInv, ProcInv, SoundNow, Sound
  <2>. QED BY <1>1, <2>1 DEF Unborn
<1>7. /\ Listed \subseteq Listed' /\ Listed' \subseteq Listed \cup {p}
      /\ \A x \in Proc \cup {Nil} : Reach(cdr, x) \subseteq Reach(cdr', x)
  BY <1>1, <1>6, MadeReaches DEF SleepInv, NoteInv
<1>8. GoesOn
  BY <1>1, GoesOnAbove DEF SleepInv, NoteInv, TypeInv, StackInv
<1>9. ASSUME NEW q \in Proc
      PROVE  Heard(q)' /\ Due(q)'
  <2>1. CASE q = p
    <3>1. ~process'[q].ticked /\ kid'[q].state # "reaped"
      BY <1>3, <1>4, <1>5, <1>6, <2>1
    <3>. QED BY <3>1 DEF Heard, Due
  <2>2. CASE q # p
    <3>1. Kept(q)
      BY <1>7, <1>8, LoopsKept DEF SleepInv, NoteInv, TypeInv
    <3>. QED BY <1>1, <1>5, <1>7, <2>2, <3>1, NewsOf
  <2>. QED BY <2>1, <2>2
<1>10. Wakeful'
  <2>1. Top' = Top
    BY <1>1 DEF Top
  <2>. QED BY <1>1, <2>1, AwakeUnlessWaiting
<1>. QED BY <1>9, <1>10 DEF NewsInv

(* A loop that begins at the first cell has every process of the list ahead.    *)
LEMMA BeginsAhead ==
  ASSUME TypeInv, cdr' \in Cells, Len(stack') \in Nat, NEW i \in 1 .. Len(stack'),
         stack'[i].fn = "notify", stack'[i].at = Nil, NEW p \in Listed'
  PROVE  Ahead(stack', cdr', p)
BY ListedNext DEF Ahead

(* What was expected of the process deleted is not expected any more, and the   *)
(* loop delete-process begins comes to all that was news of the others.        *)
LEMMA DeleteNews == ASSUME SleepInv, NEW p \in Proc, Fdelete_process(p) PROVE NewsInv'
<1>1. /\ Doing("lisp", "run") /\ UNCHANGED <<child_signal, told>>
      /\ Excuse(p, Told) /\ record_kill_process(p)
  BY DEF Fdelete_process
<1>2. \A q \in Proc : q # p => kid'[q] = kid[q] /\ process'[q] = process[q] /\ excused'[q] = excused[q]
  <2>1. \A q \in Proc : q # p => kid'[q] = kid[q]
    BY <1>1 DEF record_kill_process, SleepInv, NoteInv, TypeInv, IInv, Typed
  <2>2. \A q \in Proc : q # p => excused'[q] = excused[q]
    BY <1>1 DEF Excuse, SleepInv, NoteInv, TypeInv, Rest
  <2>3. \E s : process' = [process EXCEPT ![p] = s]
    BY Zenon DEF Fdelete_process
  <2>4. \A q \in Proc : q # p => process'[q] = process[q]
    BY <2>3 DEF SleepInv, NoteInv, TypeInv, IInv, Typed
  <2>. QED BY <2>1, <2>2, <2>4
<1>3. excused'[p] # 0
  <2>1. excused' = [excused EXCEPT ![p] = Worse(excused[p], Told)] /\ excused[p] \in 0..3
    BY <1>1 DEF Excuse, SleepInv, NoteInv, TypeInv, Rest
  <2>2. Worse(excused[p], Told) # 0
    BY <2>1 DEF Worse, Told
  <2>. QED BY <2>1, <2>2 DEF SleepInv, NoteInv, TypeInv, Rest
<1>4. /\ StackInv /\ Len(stack) \in Nat /\ Top.fn = "lisp"
      /\ cdr \in Cells
  BY <1>1 DEF SleepInv, NoteInv, TypeInv, StackInv, Rest, Doing
<1>5. CASE process[p].open
  <2>1. ticked' = FALSE /\ stack' = Calls(Notify(p, "remove"), "run") /\ UNCHANGED cdr
    BY <1>5 DEF Fdelete_process
  <2>2. Notify(p, "remove") \in Activation
    BY NewActivations
  <2>3. /\ Len(stack') = Len(stack) + 1 /\ stack'[Len(stack) + 1] = Notify(p, "remove")
        /\ Top' = Notify(p, "remove")
        /\ \A i \in 1 .. Len(stack) : stack'[i] = stack[i]
    BY <1>1, <1>4, <2>1, <2>2, LispCalls
  <2>4. GoesOn
    BY <1>4, <2>3, GoesOnAbove
  <2>5. Listed' = Listed
    BY <2>1, ListedSame DEF SleepInv, NoteInv
  <2>6. \A q \in Listed' : Ahead(stack', cdr', q)
    <3>1. Notify(p, "remove").fn = "notify" /\ Notify(p, "remove").at = Nil
      BY DEF Notify
    <3>2. Len(stack') \in Nat /\ Len(stack) + 1 \in 1 .. Len(stack')
      BY <1>4, <2>3
    <3>. QED BY <1>4, <2>1, <2>3, <3>1, <3>2, BeginsAhead DEF SleepInv, NoteInv
  <2>7. ASSUME NEW q \in Proc
        PROVE  Heard(q)' /\ Due(q)'
    <3>1. Kept(q)
      BY <2>1, <2>4, LoopsKept DEF SleepInv, NoteInv, TypeInv
    <3>. QED BY <1>1, <1>2, <1>3, <2>5, <2>6, <3>1, NewsOf
  <2>8. Top'.fn # "wait"
    BY <2>3 DEF Notify
  <2>. QED BY <2>7, <2>8, AwakeUnlessWaiting DEF NewsInv
<1>6. CASE ~process[p].open
  <2>1. cdr' = Without(cdr, p) /\ UNCHANGED <<ticked, stack>>
    BY <1>6 DEF Fdelete_process
  <2>2. /\ Listed \subseteq Listed' \cup {p} /\ Listed' \subseteq Listed
        /\ \A x \in Proc \cup {Nil} : Reach(cdr, x) \subseteq Reach(cdr', x) \cup {p}
    BY <2>1, WithoutReaches DEF SleepInv, NoteInv
  <2>3. GoesOn
    BY <1>4, <2>1, GoesOnAbove
  <2>4. ASSUME NEW q \in Proc
        PROVE  Heard(q)' /\ Due(q)'
    <3>1. q # p => Kept(q)
      BY <1>4, <2>2, <2>3, LoopsKept
    <3>2. q # p => (q \in Listed' <=> q \in Listed)
      BY <2>2
    <3>. QED BY <1>1, <1>2, <1>3, <2>1, <3>1, <3>2, NewsOf
  <2>5. Top' = Top
    BY <2>1 DEF Top
  <2>6. Top'.fn # "wait"
    BY <1>4, <2>5
  <2>. QED BY <2>4, <2>6, AwakeUnlessWaiting DEF NewsInv
<1>. QED BY <1>5, <1>6

LEMMA ContinueNews == ASSUME SleepInv, NEW p \in Proc, Fcontinue_process(p) PROVE NewsInv'
<1>. DEFINE s == Tick([process[p] EXCEPT !.raw_status_new = Nil, !.status = "run"])
<1>1. /\ Doing("lisp", "run")
      /\ process' = [process EXCEPT ![p] = s]
      /\ stack' = Calls(Notify(p, "continue"), "run")
      /\ UNCHANGED <<kid, cdr, child_signal, told>>
  BY DEF Fcontinue_process
<1>. HIDE DEF s
<1>2. \A q \in Proc : q # p => process'[q] = process[q]
  BY <1>1 DEF SleepInv, NoteInv, TypeInv, IInv, Typed
<1>3. process'[p].ticked
  <2>1. s.ticked = TRUE
    <3>. DEFINE s1 == [process[p] EXCEPT !.raw_status_new = Nil]
    <3>1. process[p] \in Lisp_Process
      BY DEF SleepInv, NoteInv, TypeInv, IInv, Typed
    <3>2. s1 \in Lisp_Process
      BY <3>1 DEF Lisp_Process
    <3>. HIDE DEF s1
    <3>3. [s1 EXCEPT !.status = "run"] \in Lisp_Process
      BY <3>2 DEF Lisp_Process, Status
    <3>4. \A x \in Lisp_Process : Tick(x).ticked = TRUE
      BY DEF Tick, Lisp_Process
    <3>. QED BY <3>3, <3>4 DEF s, s1
  <2>. QED BY <1>1, <2>1 DEF SleepInv, NoteInv, TypeInv, IInv, Typed
<1>4. \A q \in Proc : excused'[q] = 0 => excused[q] = 0
  <2>1. \A x \in 0..3 : Worse(x, Known) # 0
    BY DEF Worse, Known
  <2>2. excused' = [excused EXCEPT ![p] = Worse(excused[p], Known)] \/ UNCHANGED excused
    BY DEF Fcontinue_process, Excuse
  <2>. QED BY <2>1, <2>2 DEF SleepInv, NoteInv, TypeInv, Rest
<1>5. StackInv /\ Len(stack) \in Nat /\ cdr \in Cells
  BY DEF SleepInv, NoteInv, TypeInv, StackInv, Rest
<1>6. /\ Len(stack') = Len(stack) + 1 /\ stack'[Len(stack) + 1] = Notify(p, "continue")
      /\ Top' = Notify(p, "continue")
      /\ \A i \in 1 .. Len(stack) : stack'[i] = stack[i]
  BY <1>1, <1>5, NewActivations, LispCalls
<1>7. GoesOn
  BY <1>5, <1>6, GoesOnAbove
<1>8. Listed' = Listed
  BY <1>1, ListedSame DEF SleepInv, NoteInv
<1>9. \A q \in Listed' : Ahead(stack', cdr', q)
  <2>1. Notify(p, "continue").fn = "notify" /\ Notify(p, "continue").at = Nil
    BY DEF Notify
  <2>2. Len(stack') \in Nat /\ Len(stack) + 1 \in 1 .. Len(stack')
    BY <1>5, <1>6
  <2>. QED BY <1>1, <1>5, <1>6, <2>1, <2>2, BeginsAhead DEF SleepInv, NoteInv
<1>10. ASSUME NEW q \in Proc
       PROVE  Heard(q)' /\ Due(q)'
  <2>1. Kept(q)
    BY <1>1, <1>5, <1>7, LoopsKept
  <2>2. process[q].ticked => process'[q].ticked
    BY <1>2, <1>3
  <2>3. AtHand(stack, q) => AtHand(stack', q)
    BY <2>1 DEF Kept
  <2>4. Due(q)
    BY DEF SleepInv, NewsInv
  <2>5. Heard(q)'
    BY <1>9 DEF Heard
  <2>6. Due(q)'
    BY <1>1, <1>4, <1>8, <2>2, <2>3, <2>4 DEF Due
  <2>. QED BY <2>5, <2>6
<1>11. Top'.fn # "wait"
  BY <1>6 DEF Notify
<1>. QED BY <1>10, <1>11, AwakeUnlessWaiting DEF NewsInv

LEMMA StatusNews == ASSUME SleepInv, NEW p \in Proc, Fprocess_status(p) PROVE NewsInv'
<1>. DEFINE a == [fn |-> "lisp", pc |-> "clear", at |-> p]
<1>1. /\ Top.fn = "lisp" /\ process' = [process EXCEPT ![p] = update_status(process[p])]
      /\ stack' = Below \o <<[Top EXCEPT !.pc = "clear", !.at = p]>>
      /\ UNCHANGED <<kid, cdr, ticked, told, excused>>
  BY Zenon DEF Fprocess_status, Doing
<1>2. StackInv /\ Len(stack) \in Nat
  BY DEF SleepInv, NoteInv, TypeInv, StackInv
<1>3. /\ Len(stack') = Len(stack) /\ Top' = a
      /\ \A i \in 1 .. Len(stack) - 1 : stack'[i] = stack[i]
  BY <1>1, <1>2, LispGoes, Zenon
<1>4. GoesOn
  BY <1>1, <1>2, <1>3, GoesOnBelow
<1>5. \A q \in Proc : process'[q].ticked = process[q].ticked
  <2>1. \A s \in Lisp_Process : update_status(s).ticked = s.ticked
    BY DEF update_status, Lisp_Process
  <2>. QED BY <1>1, <2>1 DEF SleepInv, NoteInv, TypeInv, IInv, Typed
<1>6. \A q \in Proc : Heard(q)' /\ Due(q)'
  BY <1>1, <1>4, <1>5, NewsStay
<1>7. Top'.fn # "wait"
  BY <1>3
<1>. QED BY <1>6, <1>7, AwakeUnlessWaiting DEF NewsInv

LEMMA ClearedNews == ASSUME SleepInv, StatusCleared \/ StatusUpdated PROVE NewsInv'
<1>1. /\ Top.pc = "clear" /\ Top.fn \in {"lisp", "notify"}
      /\ process' = [process EXCEPT ![Top.at] = [process[Top.at] EXCEPT !.raw_status_new = Nil]]
      /\ UNCHANGED <<kid, cdr, ticked, told, excused>>
  BY DEF StatusCleared, StatusUpdated, Doing
<1>2. StackInv /\ Len(stack) \in Nat
  BY DEF SleepInv, NoteInv, TypeInv, StackInv
<1>3. Top.at \in Proc
  BY <1>1, <1>2, TopIsActivation DEF Activation
<1>4. GoesOn /\ Top'.fn # "wait"
  <2>1. CASE StatusCleared
    <3>1. Top.fn = "lisp" /\ stack' = Below \o <<Lisp>>
      BY <2>1 DEF StatusCleared, Doing
    <3>2. /\ Len(stack') = Len(stack) /\ Top' = Lisp
          /\ \A i \in 1 .. Len(stack) - 1 : stack'[i] = stack[i]
      BY <1>2, <1>3, <3>1, LispGoes, Zenon
    <3>. QED BY <1>2, <3>1, <3>2, GoesOnBelow DEF Lisp
  <2>2. CASE StatusUpdated
    <3>1. Top.fn = "notify" /\ stack' = Goto("report")
      BY <2>2 DEF StatusUpdated, Doing
    <3>2. /\ Len(stack') = Len(stack) /\ Top' = Loop(Top.at, "report")
          /\ stack'[Len(stack)] = Loop(Top.at, "report")
          /\ \A i \in 1 .. Len(stack) - 1 : stack'[i] = stack[i]
      BY <1>2, <1>3, <3>1, LoopGoes, Zenon
    <3>3. GoesOn
      BY <1>2, <3>1, <3>2, GoesOnAt
    <3>. QED BY <3>2, <3>3 DEF Loop
  <2>. QED BY <2>1, <2>2
<1>5. \A q \in Proc : process'[q].ticked = process[q].ticked
  <2>1. \A s \in Lisp_Process : [s EXCEPT !.raw_status_new = Nil].ticked = s.ticked
    BY DEF Lisp_Process
  <2>. QED BY <1>1, <1>3, <2>1 DEF SleepInv, NoteInv, TypeInv, IInv, Typed
<1>6. \A q \in Proc : Heard(q)' /\ Due(q)'
  BY <1>1, <1>4, <1>5, NewsStay
<1>. QED BY <1>4, <1>6, AwakeUnlessWaiting DEF NewsInv

LEMMA SendNews == ASSUME SleepInv, NEW p \in Proc, SendFails(p) PROVE NewsInv'
<1>1. /\ Top.fn = "lisp" /\ ticked' = TRUE /\ Excuse(p, Recorded)
      /\ UNCHANGED <<kid, cdr, stack, told>>
  BY DEF SendFails, Doing
<1>2. \A q \in Proc : q # p => process'[q] = process[q] /\ excused'[q] = excused[q]
  <2>1. \E s : process' = [process EXCEPT ![p] = s]
    BY Zenon DEF SendFails
  <2>2. \A q \in Proc : q # p => process'[q] = process[q]
    BY <2>1 DEF SleepInv, NoteInv, TypeInv, IInv, Typed
  <2>3. \A q \in Proc : q # p => excused'[q] = excused[q]
    BY <1>1 DEF Excuse, SleepInv, NoteInv, TypeInv, Rest
  <2>. QED BY <2>2, <2>3
<1>3. excused'[p] # 0
  <2>1. \A x \in 0..3 : Worse(x, Recorded) # 0
    BY DEF Worse, Recorded
  <2>2. excused' = [excused EXCEPT ![p] = Worse(excused[p], Recorded)]
    BY <1>1 DEF Excuse
  <2>. QED BY <2>1, <2>2 DEF SleepInv, NoteInv, TypeInv, Rest
<1>4. StackInv /\ Len(stack) \in Nat /\ Listed' = Listed
  BY <1>1, ListedSame DEF SleepInv, NoteInv, TypeInv, StackInv
<1>5. GoesOn
  BY <1>1, <1>4, GoesOnAbove
<1>6. ASSUME NEW q \in Proc
      PROVE  Heard(q)' /\ Due(q)'
  <2>1. Kept(q)
    BY <1>1, <1>4, <1>5, LoopsKept
  <2>. QED BY <1>1, <1>2, <1>3, <1>4, <2>1, NewsOf
<1>7. Top' = Top
  BY <1>1 DEF Top
<1>. QED BY <1>1, <1>6, <1>7, AwakeUnlessWaiting DEF NewsInv

LEMMA ReturnNews == ASSUME SleepInv, accept_process_output \/ LispReturns \/ StopsWaiting
                    PROVE  NewsInv'
<1>1. UNCHANGED <<kid, process, cdr, ticked, told, excused>>
  BY DEF accept_process_output, LispReturns, StopsWaiting
<1>2. StackInv /\ Len(stack) \in Nat
  BY DEF SleepInv, NoteInv, TypeInv, StackInv
<1>3. GoesOn /\ (Top'.fn # "wait" \/ Top'.pc # "select")
  <2>1. CASE accept_process_output
    <3>1. Doing("lisp", "run") /\ stack' = Append(stack, Wait)
      BY <2>1 DEF accept_process_output
    <3>2. /\ Len(stack') = Len(stack) + 1 /\ Top' = Wait
          /\ \A i \in 1 .. Len(stack) : stack'[i] = stack[i]
      BY <1>2, <3>1, NewActivations, LispCalls
    <3>. QED BY <1>2, <3>2, GoesOnAbove DEF Wait
  <2>2. CASE LispReturns \/ StopsWaiting
    <3>1. Top.fn # "notify" /\ stack' = Below /\ Len(stack) > 1
      BY <1>2, <2>2, TopIsActivation DEF LispReturns, StopsWaiting, Doing
    <3>2. /\ Len(stack') = Len(stack) - 1
          /\ \A i \in 1 .. Len(stack) - 1 : stack'[i] = stack[i]
          /\ Top'.pc \in Resting
      BY <1>2, <3>1, Returned
    <3>. QED BY <1>2, <3>1, <3>2, GoesOnBelow DEF Resting
  <2>. QED BY <2>1, <2>2
<1>4. \A q \in Proc : Heard(q)' /\ Due(q)'
  BY <1>1, <1>3, NewsStay
<1>. QED BY <1>3, <1>4, AwakeUnlessWaiting DEF NewsInv

(* A throw past a loop gives up what the loop would have told.                  *)
LEMMA ThrowNews == ASSUME SleepInv, NEW i \in DOMAIN stack, LispThrows(i) PROVE NewsInv'
<1>1. UNCHANGED <<kid, process, cdr, ticked, told>> /\ Top.fn = "lisp" /\ stack[i].fn = "lisp"
  BY DEF LispThrows, Doing
<1>2. StackInv /\ Len(stack) \in Nat /\ Listed' = Listed
  BY <1>1, ListedSame DEF SleepInv, NoteInv, TypeInv, StackInv
<1>3. i \in 1 .. Len(stack) - 1 /\ stack' = SubSeq(stack, 1, i)
  BY <1>2, TopIsActivation DEF LispThrows
<1>4. /\ Len(stack') = i /\ \A j \in 1 .. i : stack'[j] = stack[j]
      /\ Top'.pc \in Resting
  BY <1>2, <1>3, CutBack
(* A loop is below the throw, or given up by it. *)
<1>5. ASSUME NEW j \in 1 .. Len(stack), stack[j].fn = "notify"
      PROVE  (j \in 1 .. Len(stack') /\ stack'[j] = stack[j]) \/ j \in Abandoned(i)
  <2>1. j # Len(stack) /\ j # i
    BY <1>1, <1>5 DEF Top
  <2>. QED BY <1>2, <1>3, <1>4, <1>5, <2>1 DEF Abandoned
<1>. DEFINE Lost(p) == Abandoned(i) # {} /\ (process[p].ticked \/ \E j \in Abandoned(i) :
                                               stack[j].at = p /\ stack[j].pc = "read")
<1>6. \A p \in Proc : excused'[p] = IF Lost(p) THEN Worse(excused[p], Told) ELSE excused[p]
  BY Zenon DEF LispThrows
<1>. HIDE DEF Lost
<1>7. ASSUME NEW p \in Proc, excused'[p] = 0
      PROVE  excused[p] = 0 /\ ~Lost(p)
  <2>1. \A x \in 0..3 : Worse(x, Told) # 0
    BY DEF Worse, Told
  <2>2. excused[p] \in 0..3
    BY DEF SleepInv, NoteInv, TypeInv, Rest
  <2>. QED BY <1>6, <1>7, <2>1, <2>2
<1>8. ASSUME NEW p \in Proc, excused'[p] = 0
      PROVE  Heard(p)' /\ Due(p)'
  <2>1. Heard(p) /\ Due(p) /\ excused[p] = 0 /\ ~Lost(p)
    BY <1>7, <1>8 DEF SleepInv, NewsInv
  <2>2. process[p].ticked /\ Ahead(stack, cdr, p) => Ahead(stack', cdr', p)
    <3> SUFFICES ASSUME process[p].ticked, NEW j \in 1 .. Len(stack),
                        stack[j].fn = "notify", p \in Reach(cdr, stack[j].at)
                 PROVE  Ahead(stack', cdr', p)
      BY DEF Ahead
    <3>1. j \notin Abandoned(i)
      BY <2>1 DEF Lost
    <3>. QED BY <1>1, <1>5, <3>1 DEF Ahead
  <2>3. AtHand(stack, p) => AtHand(stack', p)
    <3> SUFFICES ASSUME NEW j \in 1 .. Len(stack),
                        stack[j].fn = "notify", stack[j].at = p, stack[j].pc # "next"
                 PROVE  AtHand(stack', p)
      BY DEF AtHand
    <3>1. j \in Abandoned(i) => stack[j].pc = "read"
      <4> SUFFICES ASSUME j \in Abandoned(i) PROVE stack[j].pc = "read"
        OBVIOUS
      <4>1. j \in 1 .. Len(stack) - 1
        BY <1>2, <1>3 DEF Abandoned
      <4>2. stack[j].pc \in Resting /\ stack[j] \in Activation
        BY <1>2, <4>1, TopIsActivation DEF StackInv
      <4>. QED BY <4>2, ActivationFields DEF Resting
    <3>2. j \notin Abandoned(i)
      BY <2>1, <3>1 DEF Lost
    <3>. QED BY <1>5, <3>2 DEF AtHand
  <2>. QED BY <1>1, <1>2, <2>1, <2>2, <2>3 DEF Heard, Due
<1>9. \A p \in Proc : Heard(p)' /\ Due(p)'
  BY <1>8 DEF Heard, Due
<1>. QED BY <1>4, <1>9, AwakeUnlessWaiting DEF NewsInv, Resting

(* Before it sleeps the wait has found no news, or something to read.           *)
LEMMA CheckNews == ASSUME SleepInv, Check PROVE NewsInv'
<1>1. /\ Top.fn = "wait" /\ UNCHANGED <<kid, process, cdr, child_signal, told, excused>>
      /\ StackInv /\ Len(stack) \in Nat /\ cdr \in Cells
  BY DEF Check, Doing, SleepInv, NoteInv, TypeInv, StackInv, Rest
<1>2. Listed' = Listed
  BY <1>1, ListedSame DEF SleepInv, NoteInv
<1>3. CASE ticked /\ ~\E p \in Proc : Readable(p)
  <2>1. stack' = Calls(Notify(Nil, "nothing"), "check") /\ ticked' = FALSE
    BY <1>3 DEF Check
  <2>2. /\ Len(stack') = Len(stack) + 1
        /\ stack'[Len(stack) + 1] = Notify(Nil, "nothing") /\ Top' = Notify(Nil, "nothing")
        /\ \A i \in 1 .. Len(stack) - 1 : stack'[i] = stack[i]
    BY <1>1, <2>1, NewActivations, WaitCalls
  <2>3. GoesOn
    BY <1>1, <2>2, GoesOnBelow
  <2>4. \A q \in Listed' : Ahead(stack', cdr', q)
    <3>1. Notify(Nil, "nothing").fn = "notify" /\ Notify(Nil, "nothing").at = Nil
      BY DEF Notify
    <3>2. Len(stack') \in Nat /\ Len(stack) + 1 \in 1 .. Len(stack')
      BY <1>1, <2>2
    <3>. QED BY <1>1, <2>2, <3>1, <3>2, BeginsAhead DEF SleepInv, NoteInv
  <2>5. ASSUME NEW q \in Proc
        PROVE  Heard(q)' /\ Due(q)'
    <3>1. Kept(q)
      BY <1>1, <2>3, LoopsKept
    <3>. QED BY <1>1, <1>2, <2>4, <3>1, NewsOf
  <2>6. Top'.fn # "wait"
    BY <2>2 DEF Notify
  <2>. QED BY <2>5, <2>6, AwakeUnlessWaiting DEF NewsInv
<1>4. CASE ~(ticked /\ ~\E p \in Proc : Readable(p))
  <2>1. stack' = Goto("select") /\ UNCHANGED ticked
    BY <1>4 DEF Check
  <2>2. /\ Len(stack') = Len(stack)
        /\ \A i \in 1 .. Len(stack) - 1 : stack'[i] = stack[i]
    BY <1>1, <2>1, WaitGoes
  <2>3. GoesOn
    BY <1>1, <2>2, GoesOnBelow
  <2>4. \A q \in Proc : Heard(q)' /\ Due(q)'
    BY <1>1, <2>1, <2>3, NewsStay
  <2>5. Wakeful'
    <3>1. \A p \in Proc : Readable(p)' <=> Readable(p)
      BY <1>1 DEF Readable, Alive
    <3>. QED BY <1>4, <2>1, <3>1 DEF Wakeful
  <2>. QED BY <2>4, <2>5 DEF NewsInv
<1>. QED BY <1>3, <1>4

LEMMA ReadsNews == ASSUME SleepInv, ReadsChildSignal \/ \E p \in Proc : ReadsProcess(p)
                   PROVE  NewsInv'
<1>1. /\ Top.fn = "wait" /\ UNCHANGED <<cdr, ticked, told, excused>>
      /\ StackInv /\ Len(stack) \in Nat
  BY DEF ReadsChildSignal, ReadsProcess, Doing, SleepInv, NoteInv, TypeInv, StackInv
<1>2. stack' = Calls(Lisp, "check") \/ stack' = Goto("check")
  BY DEF ReadsChildSignal, ReadsProcess
<1>3. GoesOn /\ (Top'.fn # "wait" \/ Top'.pc # "select")
  <2>1. CASE stack' = Calls(Lisp, "check")
    <3>1. /\ Len(stack') = Len(stack) + 1 /\ Top' = Lisp
          /\ \A i \in 1 .. Len(stack) - 1 : stack'[i] = stack[i]
      BY <1>1, <2>1, NewActivations, WaitCalls
    <3>. QED BY <1>1, <3>1, GoesOnBelow DEF Lisp
  <2>2. CASE stack' = Goto("check")
    <3>1. /\ Len(stack') = Len(stack) /\ Top'.pc = "check"
          /\ \A i \in 1 .. Len(stack) - 1 : stack'[i] = stack[i]
      BY <1>1, <2>2, WaitGoes
    <3>. QED BY <1>1, <3>1, GoesOnBelow
  <2>. QED BY <1>2, <2>1, <2>2
<1>4. ASSUME NEW q \in Proc
      PROVE  /\ kid'[q].state = "reaped" => kid[q].state = "reaped"
             /\ process'[q].ticked = process[q].ticked
  <2>1. kid[q] \in Kid /\ process[q] \in Lisp_Process
    BY DEF SleepInv, NoteInv, TypeInv, IInv, Typed
  <2>2. kid'[q] = kid[q] \/ kid'[q] = Read(kid[q])
    BY DEF ReadsChildSignal, ReadsProcess, SleepInv, NoteInv, TypeInv, IInv, Typed
  <2>3. process'[q] = process[q] \/ process'[q] = [process[q] EXCEPT !.watched = FALSE]
    BY DEF ReadsChildSignal, ReadsProcess, SleepInv, NoteInv, TypeInv, IInv, Typed
  <2>4. [process[q] EXCEPT !.watched = FALSE].ticked = process[q].ticked
    BY <2>1 DEF Lisp_Process
  <2>. QED BY <2>1, <2>2, <2>3, <2>4, ReapedFields
<1>5. \A q \in Proc : Heard(q)' /\ Due(q)'
  BY <1>1, <1>3, <1>4, NewsStay
<1>. QED BY <1>3, <1>5, AwakeUnlessWaiting DEF NewsInv

LEMMA ReachNext ==
  ASSUME NEW c \in Cells, NEW x \in Proc \cup {Nil}
  PROVE  /\ c[x] = Nil => Reach(c, x) = {}
         /\ c[x] # Nil => Reach(c, x) \subseteq Reach(c, c[x]) \cup {c[x]}
<1>1. ASSUME c[x] = Nil
      PROVE  Reach(c, x) = {}
  <2>1. ClosedFrom(c, x, {})
    BY <1>1 DEF ClosedFrom
  <2>. QED BY <2>1, ReachLeast
<1>2. ASSUME c[x] # Nil
      PROVE  Reach(c, x) \subseteq Reach(c, c[x]) \cup {c[x]}
  <2>1. c[x] \in Proc
    BY <1>2 DEF Cells
  <2>2. ClosedFrom(c, c[x], Reach(c, c[x])) /\ Reach(c, c[x]) \in SUBSET Proc
    BY <2>1, ReachClosed, ReachType
  <2>3. ClosedFrom(c, x, Reach(c, c[x]) \cup {c[x]})
    BY <2>2 DEF ClosedFrom
  <2>. QED BY <2>1, <2>2, <2>3, ReachLeast
<1>. QED BY <1>1, <1>2

LEMMA VisitNews == ASSUME SleepInv, Visit PROVE NewsInv'
<1>1. PICK p : /\ p = cdr[Top.at] /\ p # Nil
               /\ process' = [process EXCEPT ![p] = [process[p] EXCEPT !.ticked = FALSE]]
               /\ stack' = Below \o <<[Top EXCEPT !.at = p,
                              !.pc = IF process[p].ticked THEN "read" ELSE "next"]>>
               /\ Top.fn = "notify" /\ Top.pc = "next"
               /\ UNCHANGED <<kid, cdr, ticked, told, excused>>
  BY Zenon DEF Visit, Doing
<1>2. StackInv /\ Len(stack) \in Nat /\ Len(stack) > 0 /\ cdr \in Cells /\ Top.at \in Proc \cup {Nil}
  BY TopIsActivation, ActivationFields DEF SleepInv, NoteInv, TypeInv, StackInv, Rest
<1>3. p \in Proc /\ Reach(cdr, Top.at) \subseteq Reach(cdr, p) \cup {p}
  <2>1. p = cdr[Top.at] /\ p # Nil
    BY <1>1, Zenon
  <2>. QED BY <1>2, <2>1, ReachNext DEF Cells
<1>. DEFINE c == IF process[p].ticked THEN "read" ELSE "next"
<1>4. stack' = Below \o <<[Top EXCEPT !.at = p, !.pc = c]>> /\ Top.fn = "notify" /\ Top.pc = "next"
  BY <1>1, Zenon
<1>5. /\ c \in {"next", "read", "update", "clear", "report"}
      /\ process[p].ticked => c # "next"
  OBVIOUS
<1>6. UNCHANGED <<kid, cdr, ticked, told, excused>>
  BY <1>1, Zenon
<1>7. process' = [process EXCEPT ![p] = [process[p] EXCEPT !.ticked = FALSE]]
  BY <1>1, Zenon
<1>. HIDE DEF c
<1>8. /\ Len(stack') = Len(stack) /\ Top' = Loop(p, c) /\ stack'[Len(stack)] = Loop(p, c)
      /\ \A i \in 1 .. Len(stack) - 1 : stack'[i] = stack[i]
  BY <1>2, <1>3, <1>4, <1>5, LoopGoes, Zenon
<1>9. Loop(p, c).fn = "notify" /\ Loop(p, c).at = p /\ Loop(p, c).pc = c
  BY DEF Loop
<1>10. \A i \in 1 .. Len(stack) : i # Len(stack) => stack'[i] = stack[i]
  BY <1>2, <1>8
<1>11. Len(stack) \in 1 .. Len(stack') /\ 1 .. Len(stack') = 1 .. Len(stack)
  BY <1>2, <1>8
<1>12. process'[p].ticked = FALSE /\ \A q \in Proc : q # p => process'[q] = process[q]
  <2>1. process \in [Proc -> Lisp_Process]
    BY DEF SleepInv, NoteInv, TypeInv, IInv, Typed
  <2>2. [process[p] EXCEPT !.ticked = FALSE].ticked = FALSE
    BY <1>3, <2>1 DEF Lisp_Process
  <2>. QED BY <1>3, <1>7, <2>1, <2>2
<1>13. ASSUME NEW q \in Proc, AtHand(stack, q)
       PROVE  AtHand(stack', q)
  <2>1. PICK i \in 1 .. Len(stack) : stack[i].fn = "notify" /\ stack[i].at = q /\ stack[i].pc # "next"
    BY <1>13 DEF AtHand
  <2>2. i # Len(stack)
    BY <1>4, <2>1 DEF Top
  <2>. QED BY <1>10, <1>11, <2>1, <2>2 DEF AtHand
<1>14. ASSUME NEW q \in Proc, q # p, Ahead(stack, cdr, q)
       PROVE  Ahead(stack', cdr', q)
  <2>1. PICK i \in 1 .. Len(stack) : stack[i].fn = "notify" /\ q \in Reach(cdr, stack[i].at)
    BY <1>14 DEF Ahead
  <2>2. CASE i # Len(stack)
    BY <1>6, <1>10, <1>11, <2>1, <2>2 DEF Ahead
  <2>3. CASE i = Len(stack)
    <3>1. q \in Reach(cdr, p)
      BY <1>3, <1>14, <2>1, <2>3 DEF Top
    <3>. QED BY <1>6, <1>8, <1>9, <1>11, <3>1 DEF Ahead
  <2>. QED BY <2>2, <2>3
<1>15. Listed' = Listed
  BY <1>6, ListedSame DEF SleepInv, NoteInv
<1>16. ASSUME NEW q \in Proc
       PROVE  Heard(q)' /\ Due(q)'
  <2>1. CASE q = p
    <3>1. process[p].ticked => AtHand(stack', p)
      BY <1>5, <1>8, <1>9, <1>11 DEF AtHand
    <3>2. Due(p)
      BY <1>3 DEF SleepInv, NewsInv
    <3>3. ~process'[q].ticked
      BY <1>12, <2>1
    <3>4. kid[p].state = "reaped" /\ excused[p] = 0 /\ told[p] # "exit" => AtHand(stack', p)
      BY <1>3, <1>13, <3>1, <3>2 DEF Due
    <3>5. Due(q)'
      BY <1>6, <2>1, <3>4 DEF Due
    <3>. QED BY <3>3, <3>5 DEF Heard
  <2>2. CASE q # p
    <3>1. Kept(q)
      BY <1>13, <1>14, <2>2 DEF Kept
    <3>. QED BY <1>6, <1>12, <1>15, <2>2, <3>1, NewsOf
  <2>. QED BY <2>1, <2>2
<1>17. Top'.fn # "wait"
  BY <1>8, <1>9
<1>. QED BY <1>16, <1>17, AwakeUnlessWaiting DEF NewsInv

LEMMA LoopNews == ASSUME SleepInv, ReadRemaining \/ UpdateStatus PROVE NewsInv'
<1>1. /\ Top.fn = "notify" /\ Top.pc \in {"read", "update"}
      /\ UNCHANGED <<cdr, ticked, told, excused>>
  BY DEF ReadRemaining, UpdateStatus, Doing
<1>2. StackInv /\ Len(stack) \in Nat /\ Top.at \in Proc
  BY <1>1, TopIsActivation, ActivationFields DEF SleepInv, NoteInv, TypeInv, StackInv
<1>3. \/ stack' = Calls(Lisp, "read")
      \/ stack' = Goto("update") \/ stack' = Goto("clear") \/ stack' = Goto("report")
  BY DEF ReadRemaining, UpdateStatus
<1>4. GoesOn /\ Top'.fn # "wait"
  <2>1. CASE stack' = Calls(Lisp, "read")
    <3>1. /\ Len(stack') = Len(stack) + 1 /\ Top' = Lisp
          /\ stack'[Len(stack)] = Loop(Top.at, "read")
          /\ \A i \in 1 .. Len(stack) - 1 : stack'[i] = stack[i]
      BY <1>1, <1>2, <2>1, LoopCalls, Zenon
    <3>2. GoesOn
      BY <1>1, <1>2, <3>1, GoesOnAt
    <3>. QED BY <3>1, <3>2 DEF Lisp
  <2>2. ASSUME NEW c \in {"update", "clear", "report"}, stack' = Goto(c)
        PROVE  GoesOn /\ Top'.fn # "wait"
    <3>1. c \in {"next", "read", "update", "clear", "report"} /\ c # "next"
      BY <2>2
    <3>2. /\ Len(stack') = Len(stack) /\ Top' = Loop(Top.at, c)
          /\ stack'[Len(stack)] = Loop(Top.at, c)
          /\ \A i \in 1 .. Len(stack) - 1 : stack'[i] = stack[i]
      BY <1>1, <1>2, <2>2, <3>1, LoopGoes, Zenon
    <3>3. GoesOn
      BY <1>1, <1>2, <3>1, <3>2, GoesOnAt
    <3>. QED BY <3>2, <3>3 DEF Loop
  <2>. QED BY <1>3, <2>1, <2>2
<1>5. ASSUME NEW q \in Proc
      PROVE  /\ kid'[q].state = "reaped" => kid[q].state = "reaped"
             /\ process'[q].ticked = process[q].ticked
  <2>1. kid[q] \in Kid /\ process[q] \in Lisp_Process
    BY DEF SleepInv, NoteInv, TypeInv, IInv, Typed
  <2>2. kid'[q] = kid[q] \/ kid'[q] = Read(kid[q])
    BY <1>2 DEF ReadRemaining, UpdateStatus, SleepInv, NoteInv, TypeInv, IInv, Typed
  <2>3. process'[q] = process[q] \/ process'[q] = update_status(process[q])
    BY <1>2 DEF ReadRemaining, UpdateStatus, SleepInv, NoteInv, TypeInv, IInv, Typed
  <2>4. update_status(process[q]).ticked = process[q].ticked
    BY <2>1 DEF Lisp_Process, update_status
  <2>. QED BY <2>1, <2>2, <2>3, <2>4, ReapedFields
<1>6. \A q \in Proc : Heard(q)' /\ Due(q)'
  BY <1>1, <1>4, <1>5, NewsStay
<1>. QED BY <1>4, <1>6, AwakeUnlessWaiting DEF NewsInv

(* The exit of the process the loop is at is told, and nobody behind it in the  *)
(* list is lost when it is taken out.                                          *)
LEMMA ReportNews == ASSUME SleepInv, Report PROVE NewsInv'
<1>0. PICK p : p = Top.at
  OBVIOUS
<1>. DEFINE s0 == [process[p] EXCEPT !.ticked = FALSE]
            s == IF process[p].status = "exit" THEN deactivate_process(s0) ELSE s0
<1>1. /\ Top.fn = "notify" /\ Top.pc = "report" /\ stack' = Calls(Lisp, "next")
      /\ process' = [process EXCEPT ![p] = s] /\ told' = [told EXCEPT ![p] = process[p].status]
      /\ cdr' = IF process[p].status = "exit" THEN Without(cdr, p) ELSE cdr
      /\ UNCHANGED <<kid, ticked, excused>>
  BY <1>0 DEF Report, Doing
<1>2. StackInv /\ Len(stack) \in Nat /\ Len(stack) > 0 /\ p \in Proc
  BY <1>0, <1>1, TopIsActivation, ActivationFields DEF SleepInv, NoteInv, TypeInv, StackInv
<1>3. process[p] \in Lisp_Process
  BY <1>2 DEF SleepInv, NoteInv, TypeInv, IInv, Typed
<1>4. s.ticked = FALSE
  <2>1. s0 \in Lisp_Process /\ s0.ticked = FALSE
    BY <1>3 DEF Lisp_Process
  <2>. HIDE DEF s0
  <2>2. deactivate_process(s0).ticked = FALSE
    BY <2>1 DEF deactivate_process, Lisp_Process
  <2>. QED BY <2>1, <2>2
<1>. HIDE DEF s
<1>5. /\ process'[p].ticked = FALSE /\ told'[p] = process[p].status
      /\ \A q \in Proc : q # p => process'[q] = process[q] /\ told'[q] = told[q]
  BY <1>1, <1>2, <1>4 DEF SleepInv, NoteInv, TypeInv, IInv, Typed, Rest
<1>6. /\ Listed \subseteq Listed' \cup {p} /\ Listed' \subseteq Listed
      /\ \A x \in Proc \cup {Nil} : Reach(cdr, x) \subseteq Reach(cdr', x) \cup {p}
  <2>1. CASE process[p].status = "exit"
    BY <1>1, <1>2, <2>1, WithoutReaches DEF SleepInv, NoteInv
  <2>2. CASE process[p].status # "exit"
    BY <1>1, <2>2, ListedSame DEF SleepInv, NoteInv
  <2>. QED BY <2>1, <2>2
<1>7. /\ Len(stack') = Len(stack) + 1 /\ Top' = Lisp
      /\ stack'[Len(stack)] = Loop(p, "next")
      /\ \A i \in 1 .. Len(stack) - 1 : stack'[i] = stack[i]
  BY <1>0, <1>1, <1>2, LoopCalls, Zenon
<1>8. Loop(p, "next").fn = "notify" /\ Loop(p, "next").at = p
  BY DEF Loop
<1>9. \A i \in 1 .. Len(stack) :
        /\ i \in 1 .. Len(stack')
        /\ i # Len(stack) => stack'[i] = stack[i]
  BY <1>2, <1>7
<1>10. \A i \in 1 .. Len(stack) : stack[i].at \in Proc \cup {Nil}
  BY <1>2, TopIsActivation, ActivationFields
<1>11. ASSUME NEW q \in Proc, q # p
       PROVE  Kept(q)
  <2>1. ASSUME NEW i \in 1 .. Len(stack), stack[i].fn = "notify"
        PROVE  stack'[i].fn = "notify" /\ stack'[i].at = stack[i].at
    <3>1. CASE i = Len(stack)
      BY <1>0, <1>7, <1>8, <3>1 DEF Top
    <3>. QED BY <1>9, <2>1, <3>1
  <2>2. Ahead(stack, cdr, q) => Ahead(stack', cdr', q)
    BY <1>6, <1>9, <1>10, <1>11, <2>1 DEF Ahead
  <2>3. \A i \in 1 .. Len(stack) : stack[i].at = q => i # Len(stack)
    BY <1>0, <1>11 DEF Top
  <2>4. AtHand(stack, q) => AtHand(stack', q)
    BY <1>9, <2>3 DEF AtHand
  <2>. QED BY <2>2, <2>4 DEF Kept
<1>12. kid[p].state = "reaped" /\ excused[p] = 0 => process[p].status = "exit"
  <2> SUFFICES ASSUME kid[p].state = "reaped", excused[p] = 0
               PROVE  process[p].status = "exit"
    OBVIOUS
  <2>1. ~process[p].alive
    BY <1>2 DEF SleepInv, NoteInv, TypeInv, IInv, NeverReapedTwice
  <2>2. EndKnown(kid[p], process[p], excused[p])
    BY <1>2 DEF SleepInv, NoteInv, ProcInv, SoundNow, Sound
  <2>3. Busy(Top, kid[p], process[p], excused[p])
    BY <1>0, <1>1 DEF SleepInv, NoteInv, BusyTop, BusyNow
  <2>4. process[p].raw_status_new = Nil
    BY <1>1, <2>3 DEF Busy, Known
  <2>. QED BY <2>1, <2>2, <2>4 DEF EndKnown, StatusOf, Known
<1>13. ASSUME NEW q \in Proc
       PROVE  Heard(q)' /\ Due(q)'
  <2>1. CASE q = p
    <3>1. ~process'[q].ticked
      BY <1>5, <2>1
    <3>2. kid'[q].state = "reaped" /\ excused'[q] = 0 => told'[q] = "exit"
      BY <1>1, <1>5, <1>12, <2>1
    <3>. QED BY <3>1, <3>2 DEF Heard, Due
  <2>2. CASE q # p
    <3>1. Kept(q) /\ (q \in Listed' <=> q \in Listed)
      BY <1>6, <1>11, <2>2
    <3>. QED BY <1>1, <1>5, <2>2, <3>1, NewsOf
  <2>. QED BY <2>1, <2>2
<1>14. Top'.fn # "wait"
  BY <1>7 DEF Lisp
<1>. QED BY <1>13, <1>14, AwakeUnlessWaiting DEF NewsInv

(* A loop ends with nobody ahead, and at nobody. *)
LEMMA NotifyReturnsNews == ASSUME SleepInv, NotifyReturns PROVE NewsInv'
<1>0. PICK p : p = Top.for
  OBVIOUS
<1>1. /\ Top.fn = "notify" /\ Top.pc = "next" /\ cdr[Top.at] = Nil /\ stack' = Below
      /\ UNCHANGED <<ticked, told, excused>>
  BY DEF NotifyReturns, Doing
<1>2. /\ StackInv /\ Len(stack) \in Nat /\ Len(stack) > 1 /\ cdr \in Cells
      /\ Top.at \in Proc \cup {Nil}
  BY <1>1, TopIsActivation, ActivationFields DEF SleepInv, NoteInv, TypeInv, StackInv, Rest
<1>3. /\ Len(stack') = Len(stack) - 1
      /\ \A i \in 1 .. Len(stack) - 1 : stack'[i] = stack[i]
      /\ Top'.pc \in Resting
  BY <1>1, <1>2, Returned
<1>4. Reach(cdr, Top.at) = {}
  BY <1>1, <1>2, ReachNext
<1>5. \A i \in 1 .. Len(stack) : i # Len(stack) => i \in 1 .. Len(stack') /\ stack'[i] = stack[i]
  BY <1>2, <1>3
<1>6. \A i \in 1 .. Len(stack) : stack[i].at \in Proc \cup {Nil}
  BY <1>2, TopIsActivation, ActivationFields
<1>7. ASSUME NEW q \in Proc,
             \A x \in Proc \cup {Nil} : q \in Reach(cdr, x) => q \in Reach(cdr', x)
      PROVE  Kept(q)
  <2>1. \A i \in 1 .. Len(stack) : q \in Reach(cdr, stack[i].at) => i # Len(stack)
    BY <1>4 DEF Top
  <2>2. Ahead(stack, cdr, q) => Ahead(stack', cdr', q)
    BY <1>5, <1>6, <1>7, <2>1 DEF Ahead
  <2>3. \A i \in 1 .. Len(stack) : stack[i].pc # "next" => i # Len(stack)
    BY <1>1 DEF Top
  <2>4. AtHand(stack, q) => AtHand(stack', q)
    BY <1>5, <2>3 DEF AtHand
  <2>. QED BY <2>2, <2>4 DEF Kept
<1>8. ASSUME NEW q \in Proc
      PROVE  Heard(q)' /\ Due(q)'
  <2>1. CASE Top.then = "remove"
    <3>1. p \in Proc /\ RemovingNow(p)
      <4>1. Len(stack) \in 1 .. Len(stack) /\ stack[Len(stack)] = Top
        BY <1>2 DEF Top
      <4>2. Removers
        BY DEF SleepInv, NoteInv
      <4>. QED BY <1>0, <1>1, <2>1, <4>1, <4>2 DEF Removers
    <3>2. /\ cdr' = Without(cdr, p)
          /\ process' = [process EXCEPT ![p] = deactivate_process(process[p])]
          /\ UNCHANGED kid
      BY <1>0, <2>1 DEF NotifyReturns
    <3>3. /\ Listed \subseteq Listed' \cup {p} /\ Listed' \subseteq Listed
          /\ \A x \in Proc \cup {Nil} : Reach(cdr, x) \subseteq Reach(cdr', x) \cup {p}
      BY <3>1, <3>2, WithoutReaches DEF SleepInv, NoteInv
    <3>4. CASE q = p
      <4>1. excused'[q] # 0
        BY <1>1, <3>1, <3>4 DEF RemovingNow, Removing, Told, SleepInv, NoteInv, TypeInv, Rest
      <4>. QED BY <4>1 DEF Heard, Due
    <3>5. CASE q # p
      <4>1. Kept(q) /\ (q \in Listed' <=> q \in Listed)
        BY <1>7, <3>3, <3>5
      <4>2. process'[q] = process[q]
        BY <3>2, <3>5 DEF SleepInv, NoteInv, TypeInv, IInv, Typed
      <4>. QED BY <1>1, <3>2, <4>1, <4>2, NewsOf
    <3>. QED BY <3>4, <3>5
  <2>2. CASE Top.then # "remove"
    <3>1. UNCHANGED <<cdr, process>>
      BY <2>2 DEF NotifyReturns
    <3>2. Listed' = Listed /\ Kept(q)
      BY <1>7, <3>1, ListedSame DEF SleepInv, NoteInv
    <3>3. kid'[q].state = "reaped" => kid[q].state = "reaped"
      <4>1. kid'[q] = kid[q] \/ kid'[q] = Continued(kid[q])
        BY <2>2 DEF NotifyReturns, SleepInv, NoteInv, TypeInv, IInv, Typed
      <4>2. kid[q] \in Kid
        BY DEF SleepInv, NoteInv, TypeInv, IInv, Typed
      <4>. QED BY <4>1, <4>2, ReapedFields
    <3>. QED BY <1>1, <3>1, <3>2, <3>3, NewsOf
  <2>. QED BY <2>1, <2>2
<1>. QED BY <1>3, <1>8, AwakeUnlessWaiting DEF NewsInv, Resting

LEMMA NewsKept == SleepInv /\ [Next]_vars => SleepInv'
<1> SUFFICES ASSUME SleepInv, [Next]_vars PROVE NewsInv'
  BY NotesKept DEF SleepInv
<1>1. CASE Child
  BY <1>1, ChildNews DEF Child
<1>2. CASE handle_child_signal
  BY <1>2, HandlerNews
<1>3. CASE LispRuns
  BY <1>3, MakeNews, DeleteNews, ContinueNews, StatusNews, SendNews, ClearedNews,
     ReturnNews, ThrowNews
  DEF LispRuns
<1>4. CASE Waits
  BY <1>4, CheckNews, ReadsNews, ReturnNews DEF Waits
<1>5. CASE Notifies
  BY <1>5, VisitNews, LoopNews, ClearedNews, ReportNews, NotifyReturnsNews DEF Notifies
<1>6. CASE UNCHANGED vars
  <2>1. UNCHANGED <<kid, process, cdr, ticked, child_signal, stack, told, excused>>
    BY <1>6 DEF vars
  <2>2. GoesOn
    BY <2>1, GoesOnAbove DEF SleepInv, NoteInv, TypeInv, StackInv
  <2>3. \A p \in Proc : Heard(p)' /\ Due(p)'
    BY <2>1, <2>2, NewsStay
  <2>4. \A p \in Proc : Readable(p)' <=> Readable(p)
    BY <2>1 DEF Readable, Alive
  <2>5. Wakeful'
    BY <2>1, <2>4 DEF Wakeful, Doing, Top, SleepInv, NewsInv
  <2>. QED BY <2>3, <2>5 DEF NewsInv
<1>. QED BY <1>1, <1>2, <1>3, <1>4, <1>5, <1>6 DEF Next

(* Emacs goes to sleep in select only when everything the handler noted has     *)
(* been looked at and every exit told: what a loop of status_notify has yet to  *)
(* come to stays within its reach when sentinels take cells out of the list,    *)
(* and what is noted after the check finds the child signal pipe written.       *)
THEOREM SleepIsInformed == Spec => []SleepsInformed
<1>1. Init => SleepInv
  <2> SUFFICES ASSUME Init PROVE NewsInv
    BY InitNotes DEF SleepInv
  <2>1. \A p \in Proc : kid[p].state = "none" /\ ~process[p].ticked
    BY DEF Init
  <2>2. ~ticked
    BY DEF Init
  <2>. QED BY <2>1, <2>2 DEF NewsInv, Heard, Due, Wakeful
<1>2. SleepInv => SleepsInformed
  <2> SUFFICES ASSUME SleepInv, Asleep
               PROVE  /\ \A p \in Listed : process[p].ticked => excused[p] >= Told
                      /\ \A p \in Proc : kid[p].state = "reaped" /\ excused[p] = 0 => told[p] = "exit"
    BY DEF SleepsInformed
  <2>1. DOMAIN stack = 1 .. Len(stack) /\ cdr \in Cells
    BY TopIsActivation DEF SleepInv, NoteInv, TypeInv, Rest
  <2>2. \A p : ~Ahead(stack, cdr, p) /\ ~AtHand(stack, p)
    BY <2>1 DEF Asleep, Ahead, AtHand
  <2>3. ~ticked
    BY DEF Asleep, SleepInv, NewsInv, Wakeful
  <2>4. \A p \in Proc : Heard(p) /\ Due(p) /\ excused[p] \in 0..3
    BY DEF SleepInv, NewsInv, NoteInv, TypeInv, Rest
  <2>5. Listed \subseteq Proc
    BY <2>1, ListedIsReach, ReachType
  <2>6. ASSUME NEW p \in Listed, process[p].ticked
        PROVE  excused[p] >= Told
    BY <2>2, <2>3, <2>4, <2>5, <2>6 DEF Heard, Told
  <2>7. ASSUME NEW p \in Proc, kid[p].state = "reaped", excused[p] = 0
        PROVE  told[p] = "exit"
    BY <2>2, <2>3, <2>4, <2>7 DEF Heard, Due
  <2>. QED BY <2>6, <2>7
<1>. QED BY <1>1, <1>2, NewsKept, PTL DEF Spec
=============================================================================
