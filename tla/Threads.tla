------------------------------- MODULE Threads -------------------------------
(***************************************************************************)
(* Lisp threads (thread.c, systhread.c).                                   *)
(*                                                                         *)
(* Lisp runs on one OS thread at a time: the one that holds `global_lock'. *)
(* A thread gives the lock up only inside a handful of C functions (yield, *)
(* select, the waits on a pthread condition variable), so one step of this *)
(* module is one stretch of code between two such points.  What makes the  *)
(* component hard is what must be put right when the lock changes hands:   *)
(* `current_thread', the let-bindings of the two threads, a signal posted  *)
(* by another thread, and the wake-ups nobody may lose.                    *)
(*                                                                         *)
(* Every condition variable belongs to one object (a mutex, a condition    *)
(* variable, or a thread, for `thread-join'), so it is named by it.        *)
(***************************************************************************)
EXTENDS Naturals

CONSTANTS
  Thread,     \* all thread objects, made or still to be made
  main,       \* the main thread
  Mutex,      \* Lisp mutexes
  CondVar,    \* Lisp condition variables
  mutexOf,    \* the mutex each condition variable was made with
  Nil,        \* NULL and Qnil
  MaxCount    \* bound on a mutex's lock count

ASSUME ThreadsAssumption ==
  /\ main \in Thread
  /\ mutexOf \in [CondVar -> Mutex]
  /\ MaxCount \in Nat \ {0}

Object == Mutex \cup CondVar \cup Thread
Errors == {"signaled", "thread-buffer-killed"}

ASSUME DistinctObjects ==
  /\ Thread \cap Mutex = {} /\ Thread \cap CondVar = {} /\ Mutex \cap CondVar = {}
  /\ Nil \notin Object \cup Errors

VARIABLES
  global_lock,      \* the thread that holds the pthread mutex, or Nil
  current_thread,   \* the C global of that name
  all_threads,      \* the linked list of thread states
  live,             \* threads with m_specpdl # NULL (thread_live_p)
  handlerlist,      \* threads that have pushed their top-level handler
  pc,               \* where each thread stands in thread.c
  error_symbol,     \* a signal posted to the thread and not yet raised
  wait_condvar,     \* the condition thread-signal must broadcast, or Nil
  event_object,     \* what thread--blocker reports
  sleep_on,         \* the condition the thread sleeps on in pthread_cond_wait
  not_holding_lock, \* threads inside thread_select
  saved_count,      \* condition-wait's local: lock count to restore
  join_error,       \* threads whose thread-join read an error to raise at its end
  owner, count,     \* lisp_mutex_t
  bound             \* threads whose let-bindings are swapped in

lockVars   == <<global_lock, current_thread, bound>>
threadVars == <<all_threads, live, handlerlist>>
waitVars   == <<wait_condvar, event_object, sleep_on>>
frameVars  == <<saved_count, join_error, not_holding_lock>>
mutexVars  == <<owner, count>>
vars == <<lockVars, threadVars, waitVars, frameVars, mutexVars, pc, error_symbol>>

(* "lisp": runs Lisp.  "raise": Fsignal has been called and the handler not *)
(* yet reached.  The others name the function that gave up the lock.        *)
Running  == {"lisp", "raise"}
Asleep   == {"mutex-lock", "condition-wait", "relock", "thread-join"}
Position == {"unborn", "start", "yield", "select", "dead"} \cup Running \cup Asleep

TypeOK ==
  /\ global_lock \in Thread \cup {Nil}
  /\ current_thread \in Thread \cup {Nil}
  /\ all_threads \in SUBSET Thread
  /\ live \in SUBSET Thread
  /\ handlerlist \in SUBSET Thread
  /\ pc \in [Thread -> Position]
  /\ error_symbol \in [Thread -> Errors \cup {Nil}]
  /\ wait_condvar \in [Thread -> Object \cup {Nil}]
  /\ event_object \in [Thread -> Object \cup {Nil}]
  /\ sleep_on \in [Thread -> Object \cup {Nil}]
  /\ not_holding_lock \in SUBSET Thread
  /\ saved_count \in [Thread -> 0..MaxCount]
  /\ join_error \in SUBSET Thread
  /\ owner \in [Mutex -> Thread \cup {Nil}]
  /\ count \in [Mutex -> 0..MaxCount]
  /\ bound \in SUBSET Thread

(* init_threads, in a process that has only its main thread. *)
Init ==
  /\ global_lock = main
  /\ current_thread = main
  /\ all_threads = {main}
  /\ live = {main}
  /\ handlerlist = {main}
  /\ pc = [t \in Thread |-> IF t = main THEN "lisp" ELSE "unborn"]
  /\ error_symbol = [t \in Thread |-> Nil]
  /\ wait_condvar = [t \in Thread |-> Nil]
  /\ event_object = [t \in Thread |-> Nil]
  /\ sleep_on = [t \in Thread |-> Nil]
  /\ not_holding_lock = {}
  /\ saved_count = [t \in Thread |-> 0]
  /\ join_error = {}
  /\ owner = [m \in Mutex |-> Nil]
  /\ count = [m \in Mutex |-> 0]
  /\ bound = {main}

-----------------------------------------------------------------------------
(* Taking and giving up the global lock *)

(* specpdl_unrewind swaps the values a thread's let-bindings saved with the *)
(* variables' current values, so a second swap undoes the first.            *)
specpdl_unrewind(S, t) == IF t \in S THEN S \ {t} ELSE S \cup {t}

(* Mutant: the bindings of the previous thread are left in place. *)
SwitchBindings_NoUnbind(t) ==
  IF current_thread = t THEN bound ELSE specpdl_unrewind(bound, t)

(* The bindings in effect once t has become the current thread. *)
SwitchBindings(t) ==
  IF current_thread = t THEN bound
  ELSE specpdl_unrewind(
         IF current_thread = Nil THEN bound
         ELSE specpdl_unrewind(bound, current_thread), t)

(* t, which has the lock, announces itself and goes on at `next', unless a  *)
(* signal is pending in `errors' and t has a handler to raise it to.        *)
post_acquire_global_lock(t, errors, next) ==
  /\ global_lock' = t
  /\ current_thread' = t
  /\ bound' = SwitchBindings(t)
  /\ IF errors[t] # Nil /\ t \in handlerlist
     THEN /\ pc' = [pc EXCEPT ![t] = "raise"]
          /\ error_symbol' = [errors EXCEPT ![t] = Nil]
     ELSE /\ pc' = [pc EXCEPT ![t] = next]
          /\ error_symbol' = errors

(* t blocks or leaves the C code that held the lock; it will go on at `at'. *)
release_global_lock(t, at) ==
  /\ global_lock' = Nil
  /\ pc' = [pc EXCEPT ![t] = at]
  /\ UNCHANGED <<current_thread, bound>>

(* Mutant: pthread_cond_signal in place of pthread_cond_broadcast. *)
sys_cond_broadcast_One(C) ==
  [t \in Thread |->
     IF sleep_on[t] \in C /\ t = CHOOSE u \in Thread : sleep_on[u] \in C
     THEN Nil ELSE sleep_on[t]]

(* Threads asleep after a broadcast of the conditions C. *)
sys_cond_broadcast(C) ==
  [t \in Thread |-> IF sleep_on[t] \in C THEN Nil ELSE sleep_on[t]]

(* Mutant: a wait that does not look at error_symbol. *)
Signaled_Ignored(t) == FALSE

(* The test of the waiting loops: a signal is pending, so do not sleep. *)
Signaled(t) == error_symbol[t] # Nil

(* t runs Lisp and may call any of the functions below. *)
RunsLisp(t) == global_lock = t /\ pc[t] = "lisp"

(* t, not asleep, gets the free lock. *)
sys_mutex_lock(t, at) ==
  /\ global_lock = Nil
  /\ pc[t] = at
  /\ sleep_on[t] = Nil

(* A Lisp error signalled by the running thread itself. *)
Fsignal(t) ==
  /\ pc' = [pc EXCEPT ![t] = "raise"]
  /\ UNCHANGED <<lockVars, threadVars, waitVars, frameVars, mutexVars, error_symbol>>

-----------------------------------------------------------------------------
(* Lisp mutexes *)

(* Mutant: the count is incremented on top of the count to restore. *)
TakeMutex_Extra(m, t, n) ==
  /\ owner' = [owner EXCEPT ![m] = t]
  /\ count' = [count EXCEPT ![m] = n + 1]

(* lisp_mutex_lock_for_thread with the mutex free. *)
TakeMutex(m, t, n) ==
  /\ owner' = [owner EXCEPT ![m] = t]
  /\ count' = [count EXCEPT ![m] = n]

FreeMutex(m) ==
  /\ owner' = [owner EXCEPT ![m] = Nil]
  /\ count' = [count EXCEPT ![m] = 0]

(* t goes to sleep on the condition of o in a wait that reports o as e. *)
sys_cond_wait(t, o, e, at) ==
  /\ wait_condvar' = [wait_condvar EXCEPT ![t] = o]
  /\ event_object' = [event_object EXCEPT ![t] = e]
  /\ sleep_on' = [sleep_on EXCEPT ![t] = o]
  /\ release_global_lock(t, at)

(* Mutant: wait_condvar still points to the condition after the wait. *)
EndWait_Dangling(t) ==
  /\ event_object' = [event_object EXCEPT ![t] = Nil]
  /\ UNCHANGED <<wait_condvar, sleep_on>>

(* The wait is over: nothing is left for thread-signal to broadcast. *)
EndWait(t) ==
  /\ wait_condvar' = [wait_condvar EXCEPT ![t] = Nil]
  /\ event_object' = [event_object EXCEPT ![t] = Nil]
  /\ UNCHANGED sleep_on

lisp_mutex_owned_p(t, m) == owner[m] = t

Fmutex_lock(t, m) ==
  /\ RunsLisp(t)
  /\ \/ /\ owner[m] = Nil
        /\ TakeMutex(m, t, 1)
        /\ UNCHANGED <<lockVars, waitVars, pc, error_symbol>>
     \/ /\ owner[m] = t
        /\ count[m] < MaxCount
        /\ count' = [count EXCEPT ![m] = @ + 1]
        /\ UNCHANGED <<owner, lockVars, waitVars, pc, error_symbol>>
     \/ /\ owner[m] \notin {Nil, t}
        /\ ~Signaled(t)
        /\ sys_cond_wait(t, m, m, "mutex-lock")
        /\ UNCHANGED <<mutexVars, error_symbol>>
     \/ /\ owner[m] \notin {Nil, t}
        /\ Signaled(t)
        /\ post_acquire_global_lock(t, error_symbol, "lisp")
        /\ UNCHANGED <<mutexVars, waitVars>>
  /\ UNCHANGED <<threadVars, frameVars>>

(* The loop of lisp_mutex_lock_for_thread as mutex-lock runs it, after a    *)
(* wake-up: sleep again, take the mutex, or leave without it to be signalled. *)
ResumeMutexLock(t) ==
  /\ sys_mutex_lock(t, "mutex-lock")
  /\ LET m == wait_condvar[t] IN
     \/ /\ owner[m] # Nil /\ ~Signaled(t)
        /\ sleep_on' = [sleep_on EXCEPT ![t] = m]
        /\ UNCHANGED <<lockVars, wait_condvar, event_object, mutexVars, pc, error_symbol>>
     \/ /\ Signaled(t)
        /\ EndWait(t)
        /\ post_acquire_global_lock(t, error_symbol, "lisp")
        /\ UNCHANGED mutexVars
     \/ /\ owner[m] = Nil /\ ~Signaled(t)
        /\ EndWait(t)
        /\ TakeMutex(m, t, 1)
        /\ post_acquire_global_lock(t, error_symbol, "lisp")
  /\ UNCHANGED <<threadVars, frameVars>>

Fmutex_unlock(t, m) ==
  /\ RunsLisp(t)
  /\ \/ /\ ~lisp_mutex_owned_p(t, m)
        /\ Fsignal(t)
     \/ /\ lisp_mutex_owned_p(t, m) /\ count[m] > 1
        /\ count' = [count EXCEPT ![m] = @ - 1]
        /\ UNCHANGED <<owner, lockVars, threadVars, waitVars, frameVars, pc, error_symbol>>
     \/ /\ lisp_mutex_owned_p(t, m) /\ count[m] = 1
        /\ FreeMutex(m)
        /\ sleep_on' = sys_cond_broadcast({m})
        /\ post_acquire_global_lock(t, error_symbol, "lisp")
        /\ UNCHANGED <<threadVars, frameVars, wait_condvar, event_object>>

-----------------------------------------------------------------------------
(* Condition variables *)

(* A signal pending when the wait begins skips the sleep; the mutex is then *)
(* free, so it is retaken at once and the signal raised.                    *)
Fcondition_wait(t, c) ==
  /\ RunsLisp(t)
  /\ LET m == mutexOf[c] IN
     \/ /\ ~lisp_mutex_owned_p(t, m)
        /\ Fsignal(t)
     \/ /\ lisp_mutex_owned_p(t, m) /\ ~Signaled(t)
        /\ saved_count' = [saved_count EXCEPT ![t] = count[m]]
        /\ FreeMutex(m)
        /\ wait_condvar' = [wait_condvar EXCEPT ![t] = c]
        /\ event_object' = [event_object EXCEPT ![t] = c]
        /\ sleep_on' = [sys_cond_broadcast({m}) EXCEPT ![t] = c]
        /\ release_global_lock(t, "condition-wait")
        /\ UNCHANGED <<threadVars, join_error, not_holding_lock, error_symbol>>
     \/ /\ lisp_mutex_owned_p(t, m) /\ Signaled(t)
        /\ sleep_on' = sys_cond_broadcast({m})
        /\ post_acquire_global_lock(t, error_symbol, "lisp")
        /\ UNCHANGED <<threadVars, frameVars, wait_condvar, event_object, mutexVars>>

(* Mutant: the mutex is locked again once, whatever its count was. *)
Relocked_Once(t, m) ==
  /\ owner[m] = Nil
  /\ TakeMutex(m, t, 1)
  /\ saved_count' = [saved_count EXCEPT ![t] = 0]
  /\ EndWait(t)
  /\ post_acquire_global_lock(t, error_symbol, "lisp")

(* t has the lock and m is free: condition-wait restores the saved count.   *)
Relocked(t, m) ==
  /\ owner[m] = Nil
  /\ TakeMutex(m, t, saved_count[t])
  /\ saved_count' = [saved_count EXCEPT ![t] = 0]
  /\ EndWait(t)
  /\ post_acquire_global_lock(t, error_symbol, "lisp")

(* After the sleep on the condition: lock the mutex again, asleep on the    *)
(* mutex's own condition while another thread owns it.                      *)
ResumeConditionWait(t) ==
  /\ sys_mutex_lock(t, "condition-wait")
  /\ LET m == mutexOf[wait_condvar[t]] IN
     \/ /\ Relocked(t, m)
     \/ /\ owner[m] # Nil
        /\ wait_condvar' = [wait_condvar EXCEPT ![t] = m]
        /\ event_object' = [event_object EXCEPT ![t] = Nil]
        /\ sleep_on' = [sleep_on EXCEPT ![t] = m]
        /\ pc' = [pc EXCEPT ![t] = "relock"]
        /\ UNCHANGED <<lockVars, mutexVars, saved_count, error_symbol>>
  /\ UNCHANGED <<threadVars, join_error, not_holding_lock>>

(* The same loop once asleep on the mutex: a signal does not end it. *)
ResumeRelock(t) ==
  /\ sys_mutex_lock(t, "relock")
  /\ LET m == wait_condvar[t] IN
     \/ /\ Relocked(t, m)
     \/ /\ owner[m] # Nil
        /\ sleep_on' = [sleep_on EXCEPT ![t] = m]
        /\ UNCHANGED <<lockVars, wait_condvar, event_object, mutexVars, saved_count,
                       pc, error_symbol>>
  /\ UNCHANGED <<threadVars, join_error, not_holding_lock>>

(* The mutex is released and retaken without giving up the global lock, so  *)
(* its own waiters are woken only to go back to sleep.  Without ALL, POSIX  *)
(* wakes one waiter of its choice.                                          *)
Fcondition_notify(t, c, all) ==
  /\ RunsLisp(t)
  /\ LET m == mutexOf[c]
         waiters == {u \in Thread : sleep_on[u] = c} IN
     \/ /\ ~lisp_mutex_owned_p(t, m)
        /\ Fsignal(t)
     \/ /\ lisp_mutex_owned_p(t, m)
        /\ \/ /\ all \/ waiters = {}
              /\ sleep_on' = sys_cond_broadcast({m, c})
           \/ /\ ~all
              /\ \E u \in waiters :
                   sleep_on' = [sys_cond_broadcast({m}) EXCEPT ![u] = Nil]
        /\ post_acquire_global_lock(t, error_symbol, "lisp")
        /\ UNCHANGED <<threadVars, frameVars, wait_condvar, event_object, mutexVars>>

-----------------------------------------------------------------------------
(* The life of a thread *)

(* A failure of sys_thread_create undoes the link and signals an error. *)
Fmake_thread(t, u) ==
  /\ RunsLisp(t)
  /\ pc[u] = "unborn"
  /\ \/ /\ pc' = [pc EXCEPT ![u] = "start"]
        /\ all_threads' = all_threads \cup {u}
        /\ live' = live \cup {u}
        /\ UNCHANGED <<lockVars, handlerlist, waitVars, frameVars, mutexVars, error_symbol>>
     \/ Fsignal(t)

(* run_thread up to the Lisp function.  The handler is pushed after the     *)
(* lock is taken, so a signal posted before this step stays pending.        *)
run_thread(t) ==
  /\ sys_mutex_lock(t, "start")
  /\ post_acquire_global_lock(t, error_symbol, "lisp")
  /\ handlerlist' = handlerlist \cup {t}
  /\ UNCHANGED <<all_threads, live, waitVars, frameVars, mutexVars>>

(* Mutant: the thread dies without broadcasting its condition. *)
ThreadExit_Silent(t) ==
  /\ global_lock = t /\ pc[t] \in Running /\ t # main
  /\ live' = live \ {t}
  /\ handlerlist' = handlerlist \ {t}
  /\ all_threads' = all_threads \ {t}
  /\ current_thread' = Nil
  /\ bound' = bound \ {t}
  /\ global_lock' = Nil
  /\ pc' = [pc EXCEPT ![t] = "dead"]
  /\ UNCHANGED <<waitVars, frameVars, mutexVars, error_symbol>>

(* The Lisp function returned, or an error reached the top-level handler.   *)
ThreadExit(t) ==
  /\ global_lock = t /\ pc[t] \in Running /\ t # main
  /\ live' = live \ {t}
  /\ handlerlist' = handlerlist \ {t}
  /\ all_threads' = all_threads \ {t}
  /\ current_thread' = Nil
  /\ bound' = bound \ {t}
  /\ sleep_on' = sys_cond_broadcast({t})
  /\ global_lock' = Nil
  /\ pc' = [pc EXCEPT ![t] = "dead"]
  /\ UNCHANGED <<wait_condvar, event_object, frameVars, mutexVars, error_symbol>>

(* A condition-case of the thread's own Lisp code handles the error. *)
CatchError(t) ==
  /\ global_lock = t /\ pc[t] = "raise"
  /\ pc' = [pc EXCEPT ![t] = "lisp"]
  /\ UNCHANGED <<lockVars, threadVars, waitVars, frameVars, mutexVars, error_symbol>>

Fthread_yield(t) ==
  /\ RunsLisp(t)
  /\ release_global_lock(t, "yield")
  /\ UNCHANGED <<threadVars, waitVars, frameVars, mutexVars, error_symbol>>

ResumeYield(t) ==
  /\ sys_mutex_lock(t, "yield")
  /\ post_acquire_global_lock(t, error_symbol, "lisp")
  /\ UNCHANGED <<threadVars, waitVars, frameVars, mutexVars>>

thread_select(t) ==
  /\ RunsLisp(t)
  /\ not_holding_lock' = not_holding_lock \cup {t}
  /\ release_global_lock(t, "select")
  /\ UNCHANGED <<threadVars, waitVars, saved_count, join_error, mutexVars, error_symbol>>

(* acquire_global_lock raises a pending signal by a longjmp, so the flag is *)
(* cleared only when it returns.                                            *)
ResumeSelect(t) ==
  /\ sys_mutex_lock(t, "select")
  /\ post_acquire_global_lock(t, error_symbol, "lisp")
  /\ not_holding_lock' =
       IF error_symbol[t] # Nil THEN not_holding_lock ELSE not_holding_lock \ {t}
  /\ UNCHANGED <<threadVars, waitVars, saved_count, join_error, mutexVars>>

(* A signal for the main thread becomes an input event and changes nothing  *)
(* here.  A signal for the caller itself is raised at once.                 *)
Fthread_signal(t, u) ==
  /\ RunsLisp(t)
  /\ pc[u] # "unborn"
  /\ \/ /\ u = t
        /\ Fsignal(t)
     \/ /\ u \notin {t, main}
        /\ wait_condvar[u] # Nil
        /\ sleep_on' = sys_cond_broadcast({wait_condvar[u]})
        /\ post_acquire_global_lock(t, [error_symbol EXCEPT ![u] = "signaled"], "lisp")
        /\ UNCHANGED <<threadVars, frameVars, mutexVars, wait_condvar, event_object>>
     \/ /\ u \notin {t, main}
        /\ wait_condvar[u] = Nil
        /\ error_symbol' = [error_symbol EXCEPT ![u] = "signaled"]
        /\ UNCHANGED <<lockVars, threadVars, waitVars, frameVars, mutexVars, pc>>

(* kill-buffer, called by t, kills the current buffer of every thread of S: *)
(* the signal is posted and nobody is woken.                                *)
thread_all_before_buffer_killed(t, S) ==
  /\ RunsLisp(t)
  /\ S # {} /\ S \subseteq all_threads \ {t}
  /\ error_symbol' =
       [u \in Thread |-> IF u \in S THEN "thread-buffer-killed" ELSE error_symbol[u]]
  /\ UNCHANGED <<lockVars, threadVars, waitVars, frameVars, mutexVars, pc>>

(* The error_symbol of the joined thread is read before the wait. *)
Fthread_join(t, u) ==
  /\ RunsLisp(t)
  /\ pc[u] # "unborn"
  /\ \/ /\ \/ u = t
           \/ u \notin live /\ error_symbol[u] # Nil
        /\ Fsignal(t)
     \/ /\ u # t /\ u \in live /\ ~Signaled(t)
        /\ join_error' = IF error_symbol[u] # Nil THEN join_error \cup {t} ELSE join_error
        /\ sys_cond_wait(t, u, u, "thread-join")
        /\ UNCHANGED <<threadVars, saved_count, not_holding_lock, mutexVars, error_symbol>>
     \/ /\ u # t /\ u \in live /\ Signaled(t)
        /\ post_acquire_global_lock(t, error_symbol, "lisp")
        /\ UNCHANGED <<threadVars, waitVars, frameVars, mutexVars>>

(* The loop of thread_join_callback, then the error read before it. *)
ResumeThreadJoin(t) ==
  /\ sys_mutex_lock(t, "thread-join")
  /\ \/ /\ wait_condvar[t] \in live /\ ~Signaled(t)
        /\ sleep_on' = [sleep_on EXCEPT ![t] = wait_condvar[t]]
        /\ UNCHANGED <<lockVars, wait_condvar, event_object, join_error, pc, error_symbol>>
     \/ /\ wait_condvar[t] \notin live \/ Signaled(t)
        /\ EndWait(t)
        /\ join_error' = join_error \ {t}
        /\ post_acquire_global_lock(t, error_symbol,
             IF t \in join_error THEN "raise" ELSE "lisp")
  /\ UNCHANGED <<threadVars, saved_count, not_holding_lock, mutexVars>>

(* pthread_cond_wait may return although nobody signalled the condition. *)
SpuriousWakeup(t) ==
  /\ sleep_on[t] # Nil
  /\ sleep_on' = [sleep_on EXCEPT ![t] = Nil]
  /\ UNCHANGED <<lockVars, threadVars, wait_condvar, event_object, frameVars, mutexVars,
                 pc, error_symbol>>

(* What t does when it gets the lock back. *)
Resume(t) ==
  \/ run_thread(t)
  \/ ResumeYield(t)
  \/ ResumeSelect(t)
  \/ ResumeMutexLock(t)
  \/ ResumeConditionWait(t)
  \/ ResumeRelock(t)
  \/ ResumeThreadJoin(t)

(* What the Lisp code of t may do while t has the lock. *)
Lisp(t) ==
  \/ \E m \in Mutex : Fmutex_lock(t, m) \/ Fmutex_unlock(t, m)
  \/ \E c \in CondVar : Fcondition_wait(t, c)
  \/ \E c \in CondVar, all \in BOOLEAN : Fcondition_notify(t, c, all)
  \/ \E u \in Thread : Fmake_thread(t, u) \/ Fthread_signal(t, u) \/ Fthread_join(t, u)
  \/ \E S \in SUBSET Thread : thread_all_before_buffer_killed(t, S)
  \/ Fthread_yield(t)
  \/ thread_select(t)
  \/ CatchError(t)
  \/ ThreadExit(t)

Next == \E t \in Thread : Resume(t) \/ Lisp(t) \/ SpuriousWakeup(t)

Spec == Init /\ [][Next]_vars

-----------------------------------------------------------------------------
(* Correctness *)

(* Whoever holds the global lock is the current thread, and the let-bindings *)
(* in effect are its own and nobody else's (post_acquire_global_lock; the    *)
(* assertion current_thread == self of flush_stack_call_func1).              *)
CurrentThreadRuns ==
  \A t \in Thread : global_lock = t => current_thread = t /\ bound = {t}

(* A mutex is unlocked by every path that empties its lock count and never   *)
(* left with an owner and no count, whatever signals interrupt the locking.  *)
MutexConsistent ==
  \A m \in Mutex : (owner[m] = Nil) <=> (count[m] = 0)

(* No lost wake-up: nobody sleeps for a mutex that is free or its own, or    *)
(* for the death of a thread that is already dead, since every unlock and    *)
(* every exit broadcasts before the lock is given up.                        *)
NoLostWakeup ==
  \A t \in Thread :
    /\ \A m \in Mutex : sleep_on[t] = m => owner[m] \notin {Nil, t}
    /\ \A u \in Thread : sleep_on[t] = u => u \in live

(* thread-signal "will interrupt a blocked call to mutex-lock,               *)
(* condition-wait, or thread-join": nobody sleeps on in one of them with     *)
(* such a signal pending.                                                    *)
SignalInterrupts ==
  \A t \in Thread :
    pc[t] \in {"mutex-lock", "condition-wait", "thread-join"} /\ sleep_on[t] # Nil
      => error_symbol[t] # "signaled"

(* thread-signal broadcasts wait_condvar: it is the condition the thread     *)
(* really sleeps on, and a thread that runs Lisp waits for nothing.          *)
WaitCondvarAccurate ==
  \A t \in Thread :
    /\ sleep_on[t] # Nil => wait_condvar[t] = sleep_on[t]
    /\ pc[t] \in Running => wait_condvar[t] = Nil /\ event_object[t] = Nil

(* A signal reaches whoever it is meant to wake: nobody sleeps on with one   *)
(* pending, and the condition it broadcasts is the one slept on.             *)
SignalFindsSleeper == SignalInterrupts /\ WaitCondvarAccurate

(* However condition-wait ends, by a notification, a spurious wake-up or a   *)
(* signal, the mutex is the caller's again, locked as often as before.       *)
ConditionWaitRelocks ==
  [][\A t \in Thread : \A c \in CondVar :
       /\ pc[t] \in {"condition-wait", "relock"} /\ pc'[t] \in Running
       /\ wait_condvar[t] \in {c, mutexOf[c]}
       => owner'[mutexOf[c]] = t /\ count'[mutexOf[c]] = saved_count[t] /\ count'[mutexOf[c]] > 0]_vars

(* A mutex changes hands only through its owner, or from nobody to a thread  *)
(* that then runs: no step of another thread takes it away.                  *)
OnlyOwnerUnlocks ==
  [][\A m \in Mutex :
       owner[m] # Nil /\ owner'[m] # owner[m] =>
         owner[m] = global_lock /\ owner'[m] = Nil]_vars

-----------------------------------------------------------------------------
(* Liveness *)

(* The OS wakes those that wait for the global lock, in some order that      *)
(* starves nobody.  Lisp code that gets to run again and again yields now    *)
(* and then, and an error it was signalled is handled or ends the thread.    *)
Fairness ==
  \A t \in Thread :
    /\ SF_vars(Resume(t))
    /\ SF_vars(Fthread_yield(t))
    /\ WF_vars(CatchError(t) \/ ThreadExit(t))

FairSpec == Spec /\ Fairness

(* A thread signalled by thread-signal while it is blocked in mutex-lock or  *)
(* thread-join leaves the call, whoever owns the mutex and however long the  *)
(* joined thread lives.                                                      *)
SignalEndsWait ==
  \A t \in Thread :
    error_symbol[t] = "signaled" /\ pc[t] \in {"mutex-lock", "thread-join"}
      ~> pc[t] \in {"raise", "dead"}

(* thread-join returns after the death of the thread it waits for. *)
JoinEnds ==
  \A t, u \in Thread :
    pc[t] = "thread-join" /\ wait_condvar[t] = u /\ pc[u] = "dead"
      ~> pc[t] # "thread-join"
=============================================================================
