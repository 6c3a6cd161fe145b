------------------------------ MODULE Processes ------------------------------
(***************************************************************************)
(* Asynchronous subprocesses (process.c): what the SIGCHLD handler notes   *)
(* at any moment, and how status_notify and wait_reading_process_output    *)
(* come to tell Lisp of it, while the filters and sentinels they call run  *)
(* Lisp that waits, deletes, continues and starts processes itself.        *)
(*                                                                         *)
(* The activations of these functions are the sequence "stack"; a step is  *)
(* what the last of them does between two places where the handler makes a *)
(* difference.  Ticks are kept as the answer to the only question asked of *)
(* them, whether two of them differ.                                       *)
(***************************************************************************)
EXTENDS Integers, Sequences, FiniteSets

CONSTANTS
  Proc, Nil,
  MaxOutput,   \* bound: pieces of output a process writes
  MaxStops,    \* bound: times it is stopped from outside
  MaxCalls,    \* bound: times Lisp deletes, continues, is cut off or throws
  MaxDepth     \* bound: Lisp called by C called by Lisp ...

ASSUME ProcessesAssumption ==
  /\ Nil \notin Proc \cup {"run", "stop", "exit"} /\ IsFiniteSet(Proc)
  /\ {MaxOutput, MaxStops} \subseteq [Proc -> Nat] /\ MaxCalls \in Nat /\ MaxDepth \in Nat \ {0}

VARIABLES
  kid,              \* the child itself: its state, the change nobody has waited for,
                    \* output in the pipe, output and stops to come
  sigchld,          \* SIGCHLD is pending
  process,               \* struct Lisp_Process of each
  cdr,              \* Vprocess_alist: cdr[Nil] is its first cell
  deleted_pid_list,
  ticked,           \* process_tick # update_tick
  child_signal,     \* there is something in the child signal pipe
  stack,
  told,             \* history: the status the sentinel was last called with
  excused,          \* history: how much less may be expected of a process
  calls             \* what is left of MaxCalls

vars ==
  <<kid, sigchld, process, cdr, deleted_pid_list, ticked, child_signal, stack, told, excused, calls>>

-------------------------------------------------------------------------------
(* Vprocess_alist.  A cell keeps its cdr when it is taken out of the list. *)

Listed ==
  LET upto[i \in 0..Cardinality(Proc)] ==
        IF i = 0 THEN {cdr[Nil]} ELSE upto[i - 1] \cup {cdr[q] : q \in upto[i - 1] \ {Nil}}
  IN upto[Cardinality(Proc)] \ {Nil}

(* Mutant: a removed cell no longer leads to the rest of the list. *)
Without_Unlinked(c, p) ==
  IF p \notin Listed THEN c
  ELSE [q \in DOMAIN c |-> IF q = p THEN Nil ELSE
          IF c[q] = p /\ q \in Listed \cup {Nil} THEN c[p] ELSE c[q]]

(* Fdelq in remove_process *)
Without(c, p) ==
  IF p \notin Listed THEN c
  ELSE [q \in DOMAIN c |-> IF c[q] = p /\ q \in Listed \cup {Nil} THEN c[p] ELSE c[q]]

-------------------------------------------------------------------------------
(* Activations *)

Top == stack[Len(stack)]
Below == SubSeq(stack, 1, Len(stack) - 1)

Lisp == [fn |-> "lisp", pc |-> "run", at |-> Nil]
Wait == [fn |-> "wait", pc |-> "check", at |-> Nil]
(* status_notify called for the process FOR, which its caller goes on to     *)
(* remove or to continue                                                     *)
Notify(for, then) ==
  [fn |-> "notify", pc |-> "next", at |-> Nil, for |-> for, then |-> then]

Doing(fn, pc) == Top.fn = fn /\ Top.pc = pc
Goto(pc) == Below \o <<[Top EXCEPT !.pc = pc]>>
Calls(f, back) == Goto(back) \o <<f>>

Depth == Cardinality({i \in DOMAIN stack : stack[i].fn = "lisp"})

CanCall == Depth < MaxDepth

Troubles == calls > 0 /\ calls' = calls - 1

(* How much less may be expected of a process: *)
Told == 1        \* its sentinel may not be told: Lisp deleted it, or a throw went past the loop
Known == 2       \* nor its status be known: the handler's news were overwritten
Recorded == 3    \* nor the child be on record: the connection to it broke

Worse(x, y) == IF x < y THEN y ELSE x
Excuse(p, degree) == excused' = [excused EXCEPT ![p] = Worse(@, degree)]

-------------------------------------------------------------------------------
(* The children *)

Alive(p) == kid[p].state \in {"run", "stop"}

Writing(k) == [k EXCEPT !.out = k.out + 1, !.left = k.left - 1]
Read(k) == [k EXCEPT !.out = k.out - 1]
Stopped(k) == [k EXCEPT !.state = "stop", !.news = "stop", !.stops = k.stops - 1]
Continued(k) == [k EXCEPT !.state = "run", !.news = "run"]
Dead(k) == [k EXCEPT !.state = "dead", !.news = "exit", !.left = 0, !.stops = 0]

KidWrites(p) ==
  /\ kid[p].state = "run"
  /\ kid[p].left > 0
  /\ kid' = [kid EXCEPT ![p] = Writing(@)]
  /\ UNCHANGED <<sigchld, process, cdr, deleted_pid_list, ticked, child_signal, stack, told, excused, calls>>

KidStops(p) ==
  /\ kid[p].state = "run"
  /\ kid[p].stops > 0
  /\ kid' = [kid EXCEPT ![p] = Stopped(@)]
  /\ sigchld' = TRUE
  /\ UNCHANGED <<process, cdr, deleted_pid_list, ticked, child_signal, stack, told, excused, calls>>

KidExits(p) ==
  /\ Alive(p)
  /\ kid' = [kid EXCEPT ![p] = Dead(@)]
  /\ sigchld' = TRUE
  /\ UNCHANGED <<process, cdr, deleted_pid_list, ticked, child_signal, stack, told, excused, calls>>

-------------------------------------------------------------------------------
(* The handler *)

(* Its status has been asked for, or its output read to the end, and it is    *)
(* about to be reported.                                                     *)
BeingReported(p) ==
  \E i \in DOMAIN stack : stack[i].at = p /\ stack[i].pc \in {"update", "clear", "report"}

(* Mutant: the pid of a terminated child is kept. *)
WithStatus_AliveStays(s, news) ==
  [s EXCEPT !.ticked = TRUE, !.raw_status_new = news,
            !.watched = s.watched /\ news # "exit"]

WithStatus(s, news) ==
  [s EXCEPT !.ticked = TRUE, !.raw_status_new = news,
            !.alive = s.alive /\ news # "exit", !.watched = s.watched /\ news # "exit"]

child_signal_notify == child_signal' = TRUE

(* The processes it finds changed: those it looks for in the list of pids it *)
(* only reaps, those in Vprocess_alist may also stop and continue.           *)
handle_child_signal ==
  LET gone == {p \in deleted_pid_list : kid[p].news = "exit"}
      changed == {p \in Listed : process[p].alive /\ kid[p].news # Nil}
      over == {p \in changed : kid[p].news = "exit"}
  IN /\ sigchld
     /\ sigchld' = FALSE
     /\ kid' = [p \in Proc |->
                  IF p \in gone \cup over THEN [kid[p] EXCEPT !.state = "reaped", !.news = Nil]
                  ELSE IF p \in changed THEN [kid[p] EXCEPT !.news = Nil] ELSE kid[p]]
     /\ deleted_pid_list' = deleted_pid_list \ gone
     /\ process' = [p \in Proc |->
                    IF p \in changed THEN WithStatus(process[p], kid[p].news) ELSE process[p]]
     /\ ticked' = (ticked \/ changed # {})
     /\ IF gone \cup changed # {} THEN child_signal_notify ELSE UNCHANGED child_signal
     /\ excused' = [p \in Proc |-> IF p \in changed /\ BeingReported(p)
                                   THEN Worse(excused[p], Known) ELSE excused[p]]
     /\ UNCHANGED <<cdr, stack, told, calls>>

-------------------------------------------------------------------------------
(* Helpers of the rest: what becomes of struct Lisp_Process *)

(* Mutant: the status word is dropped without being converted. *)
update_status_NotConverted(s) == s

(* Its first statement; raw_status_new = 0 is the next step of the caller. *)
update_status(s) == [s EXCEPT !.status = s.raw_status_new]

deactivate_process(s) == [s EXCEPT !.open = FALSE, !.watched = FALSE]

Tick(s) == [s EXCEPT !.ticked = TRUE]

-------------------------------------------------------------------------------
(* What Lisp may do *)

make_process(p) ==
  /\ Doing("lisp", "run")
  /\ kid[p].state = "none"
  /\ kid' = [kid EXCEPT ![p] = [@ EXCEPT !.state = "run"]]
  /\ process' = [process EXCEPT ![p] = [@ EXCEPT !.open = TRUE, !.watched = TRUE, !.alive = TRUE]]
  /\ cdr' = [cdr EXCEPT ![p] = cdr[Nil], ![Nil] = p]
  /\ UNCHANGED <<sigchld, deleted_pid_list, ticked, child_signal, stack, told, excused, calls>>

(* Mutant: the child is killed but not put on record. *)
record_kill_process_NotRecorded(p) ==
  /\ IF process[p].alive /\ Alive(p) THEN kid' = [kid EXCEPT ![p] = Dead(@)] /\ sigchld' = TRUE
     ELSE UNCHANGED <<kid, sigchld>>
  /\ UNCHANGED deleted_pid_list

(* With SIGCHLD blocked *)
record_kill_process(p) ==
  IF process[p].alive
  THEN /\ deleted_pid_list' = deleted_pid_list \cup {p}
       /\ IF Alive(p) THEN kid' = [kid EXCEPT ![p] = Dead(@)] /\ sigchld' = TRUE
          ELSE UNCHANGED <<kid, sigchld>>
  ELSE UNCHANGED <<deleted_pid_list, kid, sigchld>>

Fdelete_process(p) ==
  /\ Doing("lisp", "run")
  /\ Troubles
  /\ CanCall
  /\ kid[p].state # "none"
  /\ record_kill_process(p)
  /\ IF process[p].open
     THEN /\ process' = [process EXCEPT ![p] = Tick([@ EXCEPT !.raw_status_new = Nil,
                                                         !.alive = FALSE, !.status = "exit"])]
          /\ ticked' = FALSE
          /\ stack' = Calls(Notify(p, "remove"), "run")
          /\ UNCHANGED cdr
     ELSE /\ process' = [process EXCEPT ![p] = deactivate_process(
                                         [@ EXCEPT !.raw_status_new = Nil, !.alive = FALSE])]
          /\ cdr' = Without(cdr, p)
          /\ UNCHANGED <<ticked, stack>>
  /\ Excuse(p, Told)
  /\ UNCHANGED <<child_signal, told>>

Fcontinue_process(p) ==
  /\ Doing("lisp", "run")
  /\ Troubles
  /\ CanCall
  /\ process[p].open
  /\ process' = [process EXCEPT ![p] = Tick([@ EXCEPT !.raw_status_new = Nil, !.status = "run"])]
  /\ ticked' = FALSE
  /\ stack' = Calls(Notify(p, "continue"), "run")
  /\ IF ~process[p].alive THEN Excuse(p, Known) ELSE UNCHANGED excused
  /\ UNCHANGED <<kid, sigchld, cdr, deleted_pid_list, child_signal, told>>

(* Mutant: the status word is converted although none has been noted. *)
Fprocess_status_Unguarded(p) ==
  /\ Doing("lisp", "run")
  /\ process' = [process EXCEPT ![p] = update_status(@)]
  /\ stack' = Below \o <<[Top EXCEPT !.pc = "clear", !.at = p]>>
  /\ UNCHANGED <<kid, sigchld, cdr, deleted_pid_list, ticked, child_signal, told, excused, calls>>

Fprocess_status(p) ==
  /\ Doing("lisp", "run")
  /\ process[p].raw_status_new # Nil
  /\ process' = [process EXCEPT ![p] = update_status(@)]
  /\ stack' = Below \o <<[Top EXCEPT !.pc = "clear", !.at = p]>>
  /\ UNCHANGED <<kid, sigchld, cdr, deleted_pid_list, ticked, child_signal, told, excused, calls>>

StatusCleared ==
  /\ Doing("lisp", "clear")
  /\ LET p == Top.at IN
     /\ process' = [process EXCEPT ![p] = [@ EXCEPT !.raw_status_new = Nil]]
     /\ stack' = Below \o <<Lisp>>
  /\ UNCHANGED <<kid, sigchld, cdr, deleted_pid_list, ticked, child_signal, told, excused, calls>>

(* The child no longer reads what is written to it: EPIPE. *)
SendFails(p) ==
  /\ Doing("lisp", "run")
  /\ Troubles
  /\ process[p].open
  /\ process' = [process EXCEPT ![p] = deactivate_process(Tick([@ EXCEPT !.raw_status_new = Nil,
                                                                   !.status = "exit"]))]
  /\ ticked' = TRUE
  /\ Excuse(p, Recorded)
  /\ UNCHANGED <<kid, sigchld, cdr, deleted_pid_list, child_signal, stack, told>>

accept_process_output ==
  /\ Doing("lisp", "run")
  /\ CanCall
  /\ stack' = Append(stack, Wait)
  /\ UNCHANGED <<kid, sigchld, process, cdr, deleted_pid_list, ticked, child_signal, told, excused, calls>>

LispReturns ==
  /\ Doing("lisp", "run")
  /\ Len(stack) > 1
  /\ stack' = Below
  /\ UNCHANGED <<kid, sigchld, process, cdr, deleted_pid_list, ticked, child_signal, told, excused, calls>>

(* The loops of status_notify that end when Lisp is left for the activation I. *)
Abandoned(i) == {j \in (i + 1)..(Len(stack) - 1) : stack[j].fn = "notify"}

(* A throw: to Lisp further down, past whatever called the Lisp that throws. *)
LispThrows(i) ==
  /\ Doing("lisp", "run")
  /\ Troubles
  /\ i < Len(stack) /\ stack[i].fn = "lisp"
  /\ stack' = SubSeq(stack, 1, i)
  /\ excused' = [p \in Proc |->
       IF Abandoned(i) # {} /\ (process[p].ticked \/ \E j \in Abandoned(i) :
                                  stack[j].at = p /\ stack[j].pc = "read")
       THEN Worse(excused[p], Told) ELSE excused[p]]
  /\ UNCHANGED <<kid, sigchld, process, cdr, deleted_pid_list, ticked, child_signal, told>>

-------------------------------------------------------------------------------
(* wait_reading_process_output, for any process and without a time limit *)

Readable(p) == process[p].watched /\ (kid[p].out > 0 \/ ~Alive(p))

Check ==
  /\ Doing("wait", "check")
  /\ IF ticked /\ ~\E p \in Proc : Readable(p)
     THEN /\ stack' = Calls(Notify(Nil, "nothing"), "check")
          /\ ticked' = FALSE
     ELSE /\ stack' = Goto("select")
          /\ UNCHANGED ticked
  /\ UNCHANGED <<kid, sigchld, process, cdr, deleted_pid_list, child_signal, told, excused, calls>>

ChildSignalRead == child_signal' = FALSE

(* select has returned: the child signal pipe is read, and one process *)
ReadsProcess(p) ==
  /\ Doing("wait", "select")
  /\ Readable(p)
  /\ ChildSignalRead
  /\ IF kid[p].out > 0
     THEN /\ kid' = [kid EXCEPT ![p] = Read(@)]
          /\ stack' = Calls(Lisp, "check")
          /\ UNCHANGED process
     ELSE /\ process' = [process EXCEPT ![p] = [@ EXCEPT !.watched = FALSE]]
          /\ stack' = Goto("check")
          /\ UNCHANGED kid
  /\ UNCHANGED <<sigchld, cdr, deleted_pid_list, ticked, told, excused, calls>>

ReadsChildSignal ==
  /\ Doing("wait", "select")
  /\ child_signal
  /\ ~\E p \in Proc : Readable(p)
  /\ ChildSignalRead
  /\ stack' = Goto("check")
  /\ UNCHANGED <<kid, sigchld, process, cdr, deleted_pid_list, ticked, told, excused, calls>>

(* Keyboard input, or a time limit *)
StopsWaiting ==
  /\ Doing("wait", "select")
  /\ stack' = Below
  /\ UNCHANGED <<kid, sigchld, process, cdr, deleted_pid_list, ticked, child_signal, told, excused, calls>>

-------------------------------------------------------------------------------
(* status_notify.  Its first statement, update_tick = process_tick, is in    *)
(* the action that calls it.                                                 *)

Visit ==
  /\ Doing("notify", "next")
  /\ LET p == cdr[Top.at] IN
     /\ p # Nil
     /\ process' = [process EXCEPT ![p] = [@ EXCEPT !.ticked = FALSE]]
     /\ stack' = Below \o <<[Top EXCEPT !.at = p, !.pc = IF process[p].ticked THEN "read" ELSE "next"]>>
  /\ UNCHANGED <<kid, sigchld, cdr, deleted_pid_list, ticked, child_signal, told, excused, calls>>

(* Mutant: only a descriptor that select still watches is read. *)
MayRead_Watched(p) == process[p].watched /\ ~(Top.then = "remove" /\ p = Top.for)

MayRead(p) == process[p].open /\ ~(Top.then = "remove" /\ p = Top.for)

ReadRemaining ==
  /\ Doing("notify", "read")
  /\ LET p == Top.at IN
     IF MayRead(p) /\ kid[p].out > 0
     THEN /\ kid' = [kid EXCEPT ![p] = Read(@)]
          /\ stack' = Calls(Lisp, "read")
     ELSE /\ stack' = Goto("update")
          /\ UNCHANGED kid
  /\ UNCHANGED <<sigchld, process, cdr, deleted_pid_list, ticked, child_signal, told, excused, calls>>

(* update_status converts the status and then clears the flag. *)
UpdateStatus ==
  /\ Doing("notify", "update")
  /\ LET p == Top.at IN
     IF process[p].raw_status_new # Nil
     THEN /\ process' = [process EXCEPT ![p] = update_status(@)]
          /\ stack' = Goto("clear")
     ELSE /\ stack' = Goto("report")
          /\ UNCHANGED process
  /\ UNCHANGED <<kid, sigchld, cdr, deleted_pid_list, ticked, child_signal, told, excused, calls>>

StatusUpdated ==
  /\ Doing("notify", "clear")
  /\ process' = [process EXCEPT ![Top.at] = [@ EXCEPT !.raw_status_new = Nil]]
  /\ stack' = Goto("report")
  /\ UNCHANGED <<kid, sigchld, cdr, deleted_pid_list, ticked, child_signal, told, excused, calls>>

(* The message is made, a terminated process removed, and the sentinel called. *)
Report ==
  /\ Doing("notify", "report")
  /\ LET p == Top.at
         over == process[p].status = "exit"
         s == [process[p] EXCEPT !.ticked = FALSE]
     IN /\ process' = [process EXCEPT ![p] = IF over THEN deactivate_process(s) ELSE s]
        /\ cdr' = IF over THEN Without(cdr, p) ELSE cdr
        /\ told' = [told EXCEPT ![p] = process[p].status]
  /\ stack' = Calls(Lisp, "next")
  /\ UNCHANGED <<kid, sigchld, deleted_pid_list, ticked, child_signal, excused, calls>>

(* The end of the loop, and of the function that called status_notify *)
NotifyReturns ==
  /\ Doing("notify", "next")
  /\ cdr[Top.at] = Nil
  /\ stack' = Below
  /\ LET p == Top.for IN
     CASE Top.then = "remove" ->
            /\ cdr' = Without(cdr, p)
            /\ process' = [process EXCEPT ![p] = deactivate_process(@)]
            /\ UNCHANGED <<kid, sigchld>>
       [] Top.then = "continue" ->
            /\ IF process[p].alive /\ kid[p].state = "stop"
               THEN /\ kid' = [kid EXCEPT ![p] = Continued(@)]
                    /\ sigchld' = TRUE
               ELSE UNCHANGED <<kid, sigchld>>
            /\ UNCHANGED <<cdr, process>>
       [] OTHER -> UNCHANGED <<kid, sigchld, cdr, process>>
  /\ UNCHANGED <<deleted_pid_list, ticked, child_signal, told, excused, calls>>

-------------------------------------------------------------------------------
Init ==
  /\ kid = [p \in Proc |-> [state |-> "none", news |-> Nil, out |-> 0,
                            left |-> MaxOutput[p], stops |-> MaxStops[p]]]
  /\ sigchld = FALSE
  /\ process = [p \in Proc |-> [ticked |-> FALSE, status |-> "run", raw_status_new |-> Nil,
                                alive |-> FALSE, open |-> FALSE, watched |-> FALSE]]
  /\ cdr = [q \in Proc \cup {Nil} |-> Nil]
  /\ deleted_pid_list = {}
  /\ ticked = FALSE
  /\ child_signal = FALSE
  /\ stack = <<Lisp>>
  /\ told = [p \in Proc |-> "run"]
  /\ excused = [p \in Proc |-> 0]
  /\ calls = MaxCalls

Child == \E p \in Proc : KidWrites(p) \/ KidStops(p) \/ KidExits(p)

LispRuns ==
  \/ \E p \in Proc : \/ make_process(p) \/ Fdelete_process(p) \/ Fcontinue_process(p)
                     \/ Fprocess_status(p) \/ SendFails(p)
  \/ StatusCleared
  \/ accept_process_output
  \/ LispReturns
  \/ \E i \in DOMAIN stack : LispThrows(i)

Waits ==
  \/ Check
  \/ \E p \in Proc : ReadsProcess(p)
  \/ ReadsChildSignal
  \/ StopsWaiting

Notifies ==
  Visit \/ ReadRemaining \/ UpdateStatus \/ StatusUpdated \/ Report \/ NotifyReturns

Next == Child \/ handle_child_signal \/ LispRuns \/ Waits \/ Notifies

Spec == Init /\ [][Next]_vars

-------------------------------------------------------------------------------
(* Properties *)

Status == {"run", "stop", "exit"}

Kid == [state : {"none", "run", "stop", "dead", "reaped"}, news : Status \cup {Nil},
        out : Nat, left : Nat, stops : Nat]

Lisp_Process ==
  [ticked : BOOLEAN, status : Status, raw_status_new : Status \cup {Nil},
   alive : BOOLEAN, open : BOOLEAN, watched : BOOLEAN]

(* Every variable has its type: a status is one the child has had, never what  *)
(* update_status makes of no status at all (its assertion, process.c:587); and *)
(* the first activation is Lisp's.                                             *)
TypeOK ==
  /\ kid \in [Proc -> Kid]
  /\ process \in [Proc -> Lisp_Process]
  /\ {sigchld, ticked, child_signal} \subseteq BOOLEAN
  /\ cdr \in [Proc \cup {Nil} -> Proc \cup {Nil}]
  /\ deleted_pid_list \subseteq Proc
  /\ stack # <<>> /\ stack[1].fn = "lisp"
  /\ told \in [Proc -> Status] /\ excused \in [Proc -> 0..3]
  /\ calls \in 0..MaxCalls

(* A pid Emacs still may kill or wait for belongs to its child: the child has  *)
(* been started, it has not been reaped, and only one of the two records names *)
(* it (process.c:6939: waitpid only for children "that have not been reaped").  *)
NeverReapedTwice ==
  \A p \in Proc : process[p].alive \/ p \in deleted_pid_list =>
    /\ kid[p].state \notin {"none", "reaped"}
    /\ ~(process[p].alive /\ p \in deleted_pid_list)

Recordless(p) ==
  /\ kid[p].state \in {"run", "stop", "dead"}
  /\ ~(process[p].alive /\ p \in Listed)
  /\ p \notin deleted_pid_list

(* process.c:6926: every child is on record, so that it can be reaped.         *)
ChildrenRecorded == \A p \in Proc : ~Recordless(p)

(* It is, whatever Lisp deletes, throws past or starts in a sentinel, unless   *)
(* the connection to the child broke.                                          *)
ChildrenRecordedUnlessBroken == \A p \in Proc : Recordless(p) => excused[p] = Recorded

process_status(p) ==
  IF process[p].raw_status_new # Nil THEN process[p].raw_status_new ELSE process[p].status

(* What process-status says of a reaped child is that it has exited, wherever  *)
(* the handler came in between (unless it did in the few statements where what *)
(* it notes is overwritten, or Lisp "continued" the dead process).             *)
StatusTruthful ==
  \A p \in Proc : kid[p].state = "reaped" /\ excused[p] < Known => process_status(p) = "exit"

Asleep ==
  /\ Doing("wait", "select")
  /\ ~child_signal /\ ~sigchld
  /\ ~\E p \in Proc : Readable(p)
  /\ ~\E i \in DOMAIN stack : stack[i].fn = "notify"

(* Emacs goes to sleep only when every change the handler noted has been      *)
(* looked at, and every exit told to the sentinel: SIGCHLD between the check  *)
(* and select is not missed, nor a process behind one that a sentinel removed. *)
SleepsInformed ==
  Asleep =>
    /\ \A p \in Listed : process[p].ticked => excused[p] >= Told
    /\ \A p \in Proc : kid[p].state = "reaped" /\ excused[p] = 0 => told[p] = "exit"

(* The filter has had all the output when the sentinel is told of the exit,     *)
(* although the handler stops select from reporting any.                       *)
OutputReadBeforeExit ==
  \A p \in Proc : told[p] = "exit" /\ excused[p] = 0 => kid[p].out = 0
=============================================================================
