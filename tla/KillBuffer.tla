----------------------------- MODULE KillBuffer -----------------------------
(***************************************************************************)
(* kill-buffer (buffer.c) while other Lisp threads use the same buffers    *)
(* (thread.c).                                                             *)
(*                                                                         *)
(* kill-buffer calls Lisp four times: the query functions, the hook, the   *)
(* replacement in windows, and, after its last check, the code that        *)
(* unlocks the file and ends the processes of the buffer.  Lisp code may   *)
(* give up the global lock, so the other threads run there, and only       *)
(* there: one step is what one thread does between two such points.        *)
(***************************************************************************)

CONSTANTS
  Thread, Main,
  Buffer,
  Home,        \* a visible buffer that is not killed, as *scratch* is made again
  LateLisp,    \* buffers with a locked file or processes, for which Lisp runs after
               \* the last check
  LateYield,   \* whether it also lets other threads run
  Nil

ASSUME KillBufferAssumption ==
  /\ Main \in Thread
  /\ Home \in Buffer
  /\ LateLisp \subseteq Buffer
  /\ LateYield \in BOOLEAN
  /\ Nil \notin Buffer

VARIABLES
  live,           \* Vbuffer_alist
  m_current_buffer,
  buffer_disposition,
  pc,             \* where in kill-buffer the thread is, or "lisp"
  victim,         \* the buffer it kills
  saved,          \* the buffer its excursion returns to
  told            \* the buffer for which thread-buffer-killed is pending

vars == <<live, m_current_buffer, buffer_disposition, pc, victim, saved, told>>

Disposition == {"nil", "t", "silently"}
InKill == {"query", "hook", "windows", "processes"}

TypeOK ==
  /\ live \in SUBSET Buffer
  /\ m_current_buffer \in [Thread -> Buffer]
  /\ buffer_disposition \in [Thread -> Disposition]
  /\ pc \in [Thread -> InKill \cup {"new", "lisp", "dead"}]
  /\ victim \in [Thread -> Buffer \cup {Nil}]
  /\ saved \in [Thread -> Buffer]
  /\ told \in [Thread -> Buffer \cup {Nil}]

all_threads == {t \in Thread : pc[t] \notin {"new", "dead"}}

Init ==
  /\ live = Buffer
  /\ m_current_buffer = [t \in Thread |-> Home]
  /\ buffer_disposition = [t \in Thread |-> "nil"]
  /\ pc = [t \in Thread |-> IF t = Main THEN "lisp" ELSE "new"]
  /\ victim = [t \in Thread |-> Nil]
  /\ saved = [t \in Thread |-> Home]
  /\ told = [t \in Thread |-> Nil]

-----------------------------------------------------------------------------
(* Helpers *)

(* T may get the global lock: nobody keeps it in the late Lisp code. *)
MayRun(t) ==
  /\ t \in all_threads
  /\ LateYield \/ \A u \in Thread \ {t} : pc[u] # "processes"

(* T has the lock and no error was waiting for it there. *)
Runs(t) == MayRun(t) /\ told[t] = Nil

At(t, c) == Runs(t) /\ pc[t] = c

Goto(t, c) == pc' = [pc EXCEPT ![t] = c]

(* kill-buffer returns. *)
Finish(t) ==
  /\ Goto(t, "lisp")
  /\ victim' = [victim EXCEPT ![t] = Nil]
  /\ saved' = [saved EXCEPT ![t] = Home]

(* Mutant: the threads are not asked. *)
thread_check_current_buffer_Never(t, b) == FALSE

(* Another thread is in buffer B and will not have it killed. *)
thread_check_current_buffer(t, b) ==
  \E u \in all_threads \ {t} :
    m_current_buffer[u] = b /\ buffer_disposition[u] = "t"

(* Mutant: a thread that gets no error is not moved either. *)
Evicted_NotSilent(t, b) ==
  {u \in all_threads \ {t} :
     m_current_buffer[u] = b /\ buffer_disposition[u] # "silently"}

(* The threads thread_all_before_buffer_killed sends to another buffer. *)
Evicted(t, b) == {u \in all_threads \ {t} : m_current_buffer[u] = b}

(* The excursion ends: back to the saved buffer if it still lives. *)
unbind_to(t) ==
  IF saved[t] \in live
  THEN m_current_buffer' = [m_current_buffer EXCEPT ![t] = saved[t]]
  ELSE UNCHANGED m_current_buffer

-----------------------------------------------------------------------------
(* What Lisp does besides, in a thread or in a hook of its kill-buffer *)

(* Sentinels restore the current buffer, so the late Lisp code does not change it. *)
Fset_buffer(t, b) ==
  /\ Runs(t) /\ pc[t] # "processes"
  /\ b \in live
  /\ m_current_buffer' = [m_current_buffer EXCEPT ![t] = b]
  /\ UNCHANGED <<live, buffer_disposition, pc, victim, saved, told>>

(* Anybody may set anybody's, but the main thread's remains nil. *)
Fthread_set_buffer_disposition(t, u, d) ==
  /\ Runs(t)
  /\ u \in all_threads \ {Main}
  /\ buffer_disposition' = [buffer_disposition EXCEPT ![u] = d]
  /\ UNCHANGED <<live, m_current_buffer, pc, victim, saved, told>>

(* The new thread starts in the buffer of its maker. *)
Fmake_thread(t, u, d) ==
  /\ Runs(t)
  /\ pc[u] = "new"
  /\ Goto(u, "lisp")
  /\ m_current_buffer' = [m_current_buffer EXCEPT ![u] = m_current_buffer[t]]
  /\ buffer_disposition' = [buffer_disposition EXCEPT ![u] = d]
  /\ UNCHANGED <<live, victim, saved, told>>

(* A dead thread is off all_threads and its fields are never read again. *)
run_thread_ends(t) ==
  /\ t # Main /\ MayRun(t) /\ pc[t] = "lisp"
  /\ Goto(t, "dead")
  /\ m_current_buffer' = [m_current_buffer EXCEPT ![t] = Home]
  /\ buffer_disposition' = [buffer_disposition EXCEPT ![t] = "nil"]
  /\ told' = [told EXCEPT ![t] = Nil]
  /\ UNCHANGED <<live, victim, saved>>

-----------------------------------------------------------------------------
(* kill-buffer *)

(* Up to the query functions, which run in the buffer to be killed. *)
Fkill_buffer(t, b) ==
  /\ At(t, "lisp")
  /\ b \in live \ {Home}
  /\ ~thread_check_current_buffer(t, b)
  /\ Goto(t, "query")
  /\ victim' = [victim EXCEPT ![t] = b]
  /\ saved' = [saved EXCEPT ![t] = m_current_buffer[t]]
  /\ m_current_buffer' = [m_current_buffer EXCEPT ![t] = b]
  /\ UNCHANGED <<live, buffer_disposition, told>>

(* A query function said no, or the buffer has been killed meanwhile, or    *)
(* kill-buffer-hook is next.                                                *)
QueryReturns(t) ==
  /\ At(t, "query")
  /\ \/ unbind_to(t) /\ Finish(t)
     \/ victim[t] \in live /\ Goto(t, "hook") /\ UNCHANGED <<m_current_buffer, victim, saved>>
  /\ UNCHANGED <<live, buffer_disposition, told>>

(* The excursion ends and the windows get another buffer. *)
HookReturns(t) ==
  /\ At(t, "hook")
  /\ unbind_to(t)
  /\ IF victim[t] \in live
     THEN /\ Goto(t, "windows")
          /\ saved' = [saved EXCEPT ![t] = Home]
          /\ UNCHANGED victim
     ELSE Finish(t)
  /\ UNCHANGED <<live, buffer_disposition, told>>

(* Mutant: the other buffer is looked for only when an error is posted. *)
thread_all_before_buffer_killed_NoOther(t, b, here, other) ==
  /\ m_current_buffer' =
       [u \in Thread |-> IF u = t THEN here
                         ELSE IF u \notin Evicted(t, b) THEN m_current_buffer[u]
                         ELSE IF buffer_disposition[u] = "silently" THEN Nil
                         ELSE other]
  /\ told' = [u \in Thread |->
                IF u \in Evicted(t, b) /\ buffer_disposition[u] # "silently"
                THEN b ELSE told[u]]

(* The threads in B go to buffer OTHER; all but the silent are told. *)
thread_all_before_buffer_killed(t, b, here, other) ==
  /\ m_current_buffer' =
       [u \in Thread |-> IF u = t THEN here
                         ELSE IF u \in Evicted(t, b) THEN other
                         ELSE m_current_buffer[u]]
  /\ told' = [u \in Thread |->
                IF u \in Evicted(t, b) /\ buffer_disposition[u] # "silently"
                THEN b ELSE told[u]]

(* B leaves the list of buffers: at once, or after Lisp has run for its file *)
(* lock and its processes.  It stays, and with it whatever has been done to  *)
(* the threads, if kill-buffer gives up for the sake of the minibuffer or    *)
(* the user quits while the frames forget the buffer.                        *)
RemoveBuffer(t, b) ==
  \/ Finish(t) /\ UNCHANGED live
  \/ b \in LateLisp /\ Goto(t, "processes") /\ UNCHANGED <<live, victim, saved>>
  \/ b \notin LateLisp /\ Finish(t) /\ live' = live \ {b}

(* Lisp is done with the windows.  The thread itself leaves the buffer, the  *)
(* threads are checked once more and sent away.                              *)
WindowsReplaced(t) ==
  /\ At(t, "windows")
  /\ LET b == victim[t] IN
     \/ b \notin live /\ Finish(t) /\ UNCHANGED <<live, m_current_buffer, told>>
     \/ /\ b \in live
        /\ \E mine, other \in live \ {b} :
             LET here == IF m_current_buffer[t] = b THEN mine ELSE m_current_buffer[t] IN
             IF thread_check_current_buffer(t, b)
             THEN /\ m_current_buffer' = [m_current_buffer EXCEPT ![t] = here]
                  /\ Finish(t)
                  /\ UNCHANGED <<live, told>>
             ELSE /\ thread_all_before_buffer_killed(t, b, here, other)
                  /\ RemoveBuffer(t, b)
  /\ UNCHANGED buffer_disposition

(* The Lisp code after the last check is done. *)
ProcessesKilled(t) ==
  /\ At(t, "processes")
  /\ live' = live \ {victim[t]}
  /\ Finish(t)
  /\ UNCHANGED <<m_current_buffer, buffer_disposition, told>>

(* An error leaves kill-buffer: that of the Lisp code it called, or the one  *)
(* posted while another thread ran, raised as the global lock is taken back. *)
Fsignal(t) ==
  /\ MayRun(t)
  /\ told[t] # Nil \/ pc[t] \in InKill
  /\ IF pc[t] \in {"query", "hook"} THEN unbind_to(t) ELSE UNCHANGED m_current_buffer
  /\ Finish(t)
  /\ told' = [told EXCEPT ![t] = Nil]
  /\ UNCHANGED <<live, buffer_disposition>>

Next ==
  \E t \in Thread :
    \/ \E b \in Buffer : Fset_buffer(t, b) \/ Fkill_buffer(t, b)
    \/ \E u \in Thread, d \in Disposition :
         Fthread_set_buffer_disposition(t, u, d) \/ Fmake_thread(t, u, d)
    \/ run_thread_ends(t)
    \/ QueryReturns(t)
    \/ HookReturns(t)
    \/ WindowsReplaced(t)
    \/ ProcessesKilled(t)
    \/ Fsignal(t)

Spec == Init /\ [][Next]_vars

-----------------------------------------------------------------------------
(* Correctness *)

(* "If its buffer is killed, the thread is switched to another buffer"       *)
(* (make-thread): no thread is ever in a dead buffer.                        *)
CurrentBufferIsLive ==
  \A t \in all_threads : m_current_buffer[t] \in live

(* "If the value is t, that buffer can't be killed" (make-thread): the       *)
(* buffer of an attached thread survives whatever the others do, and no step *)
(* of another thread (one that moves it on in kill-buffer) takes the thread  *)
(* out of it.  Its own kill-buffer may do both.                              *)
AttachedBufferStays ==
  [][\A t \in all_threads :
       /\ buffer_disposition[t] = "t"
       /\ victim[t] # m_current_buffer[t]
       /\ m_current_buffer[t] \in live
       => /\ m_current_buffer[t] \in live'
          /\ \A u \in Thread \ {t} :
               pc'[u] # pc[u] => m_current_buffer'[t] = m_current_buffer[t]]_vars
=============================================================================
