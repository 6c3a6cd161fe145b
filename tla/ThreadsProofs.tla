---------------------------- MODULE ThreadsProofs ----------------------------
(***************************************************************************)
(* Proofs about Threads, for any number of threads, mutexes and condition  *)
(* variables.                                                              *)
(***************************************************************************)
EXTENDS Threads, TLAPS

(* Who runs: the holder of the lock, who is current and alone bound. *)
LockInv ==
  /\ \A t \in Thread : pc[t] \in Running <=> global_lock = t
  /\ global_lock # Nil => current_thread = global_lock
  /\ bound = IF current_thread = Nil THEN {} ELSE {current_thread}

(* Which threads are alive and which have a handler to signal to. *)
LifeInv ==
  \A t \in Thread :
    /\ t \in live <=> pc[t] \notin {"unborn", "dead"}
    /\ t \in handlerlist <=> pc[t] \notin {"unborn", "dead", "start"}

(* What a thread waits for, by where it stands. *)
WaitInv ==
  \A t \in Thread :
    /\ pc[t] \in {"mutex-lock", "relock"} => wait_condvar[t] \in Mutex
    /\ pc[t] = "condition-wait" => wait_condvar[t] \in CondVar
    /\ pc[t] = "thread-join" => wait_condvar[t] \in Thread
    /\ pc[t] \notin Asleep => wait_condvar[t] = Nil
    /\ event_object[t] = IF pc[t] = "relock" THEN Nil ELSE wait_condvar[t]
    /\ sleep_on[t] \in {Nil, wait_condvar[t]}

(* A thread that waits for a mutex does not own it and, inside             *)
(* condition-wait, remembers a count to restore.                           *)
MutexInv ==
  /\ MutexConsistent
  /\ \A t \in Thread :
       /\ pc[t] \in {"mutex-lock", "relock"} => owner[wait_condvar[t]] # t
       /\ pc[t] = "condition-wait" => owner[mutexOf[wait_condvar[t]]] # t
       /\ pc[t] \in {"condition-wait", "relock"} => saved_count[t] > 0

(* The inductive invariant. *)
IInv ==
  /\ TypeOK
  /\ LockInv
  /\ LifeInv
  /\ WaitInv
  /\ MutexInv
  /\ NoLostWakeup
  /\ SignalInterrupts

USE ThreadsAssumption, DistinctObjects DEF Object, Errors

-----------------------------------------------------------------------------
(* What the building blocks of the actions do *)

(* t has the lock and runs; `errors' stands for the signals that were       *)
(* pending when it got there.                                               *)
Acquired(t, errors) ==
  /\ global_lock' = t /\ current_thread' = t /\ bound' = {t}
  /\ pc' \in [Thread -> Position]
  /\ pc'[t] \in Running
  /\ \A u \in Thread \ {t} : pc'[u] = pc[u]
  /\ error_symbol' \in [Thread -> Errors \cup {Nil}]
  /\ \A u \in Thread \ {t} : error_symbol'[u] = errors[u]

(* post_acquire_global_lock swaps the bindings of the previous thread out   *)
(* and those of t in, whoever the previous thread was, and lets t run.      *)
LEMMA PostAcquire ==
  ASSUME IInv, NEW t \in Thread,
         NEW errors \in [Thread -> Errors \cup {Nil}], NEW next \in Running,
         post_acquire_global_lock(t, errors, next)
  PROVE  Acquired(t, errors)
  BY DEF post_acquire_global_lock, SwitchBindings, specpdl_unrewind, Acquired,
         IInv, TypeOK, LockInv, Position, Running

(* The two ways the functions below call it. *)
LEMMA PostAcquireLisp ==
  ASSUME IInv, NEW t \in Thread
  PROVE  /\ post_acquire_global_lock(t, error_symbol, "lisp") => Acquired(t, error_symbol)
         /\ post_acquire_global_lock(t, error_symbol, "raise") => Acquired(t, error_symbol)
  BY PostAcquire DEF IInv, TypeOK, Running

(* A broadcast wakes the threads asleep on one of the conditions C and      *)
(* nobody else.                                                             *)
LEMMA Broadcast ==
  ASSUME TypeOK, NEW C
  PROVE  /\ sys_cond_broadcast(C) \in [Thread -> Object \cup {Nil}]
         /\ \A t \in Thread :
              sys_cond_broadcast(C)[t] = IF sleep_on[t] \in C THEN Nil ELSE sleep_on[t]
  BY DEF sys_cond_broadcast, TypeOK

-----------------------------------------------------------------------------
(* The invariant holds initially and every action preserves it *)

(* The state init_threads leaves satisfies the invariant. *)
LEMMA InitIInv == Init => IInv
  BY DEF Init, IInv, TypeOK, LockInv, LifeInv, WaitInv, MutexInv, MutexConsistent,
         NoLostWakeup, SignalInterrupts, Position, Running, Asleep

(* Preservation: a new thread takes the lock for the first time. *)
LEMMA run_thread_IInv ==
  ASSUME IInv, NEW t \in Thread, run_thread(t)
  PROVE  IInv'
<1>. USE DEF IInv, TypeOK, run_thread, sys_mutex_lock, waitVars, frameVars, mutexVars
<1>1. TypeOK'  BY PostAcquireLisp DEF Position, Running, Asleep, LockInv, WaitInv,
         MutexInv, MutexConsistent, Acquired
<1>2. LockInv'  BY PostAcquireLisp DEF LockInv, Running, Acquired
<1>3. LifeInv'  BY PostAcquireLisp DEF LifeInv, LockInv, Running, Acquired
<1>4. WaitInv'  BY PostAcquireLisp DEF WaitInv, LockInv, Running, Asleep, Acquired
<1>5. MutexInv'  BY PostAcquireLisp DEF MutexInv, MutexConsistent, WaitInv, LockInv,
         Running, Asleep, Acquired
<1>6. NoLostWakeup'  BY PostAcquireLisp DEF NoLostWakeup, WaitInv, LifeInv, MutexInv,
         LockInv, Running, Asleep, Acquired
<1>7. SignalInterrupts'  BY PostAcquireLisp DEF SignalInterrupts, WaitInv, LockInv,
         Running, Asleep, Acquired
<1>. QED BY <1>1, <1>2, <1>3, <1>4, <1>5, <1>6, <1>7

(* Preservation: a thread comes back from thread-yield. *)
LEMMA ResumeYield_IInv ==
  ASSUME IInv, NEW t \in Thread, ResumeYield(t)
  PROVE  IInv'
<1>. USE DEF IInv, TypeOK, ResumeYield, sys_mutex_lock, threadVars, waitVars, frameVars,
             mutexVars
<1>1. TypeOK'  BY PostAcquireLisp DEF Position, Running, Asleep, LockInv, WaitInv,
         MutexInv, MutexConsistent, Acquired
<1>2. LockInv'  BY PostAcquireLisp DEF LockInv, Running, Acquired
<1>3. LifeInv'  BY PostAcquireLisp DEF LifeInv, LockInv, Running, Acquired
<1>4. WaitInv'  BY PostAcquireLisp DEF WaitInv, LockInv, Running, Asleep, Acquired
<1>5. MutexInv'  BY PostAcquireLisp DEF MutexInv, MutexConsistent, WaitInv, LockInv,
         Running, Asleep, Acquired
<1>6. NoLostWakeup'  BY PostAcquireLisp DEF NoLostWakeup, WaitInv, LifeInv, MutexInv,
         LockInv, Running, Asleep, Acquired
<1>7. SignalInterrupts'  BY PostAcquireLisp DEF SignalInterrupts, WaitInv, LockInv,
         Running, Asleep, Acquired
<1>. QED BY <1>1, <1>2, <1>3, <1>4, <1>5, <1>6, <1>7

(* Preservation: a thread comes back from thread_select. *)
LEMMA ResumeSelect_IInv ==
  ASSUME IInv, NEW t \in Thread, ResumeSelect(t)
  PROVE  IInv'
<1>. USE DEF IInv, TypeOK, ResumeSelect, sys_mutex_lock, threadVars, waitVars, mutexVars
<1>1. TypeOK'  BY PostAcquireLisp DEF Position, Running, Asleep, LockInv, WaitInv,
         MutexInv, MutexConsistent, Acquired
<1>2. LockInv'  BY PostAcquireLisp DEF LockInv, Running, Acquired
<1>3. LifeInv'  BY PostAcquireLisp DEF LifeInv, LockInv, Running, Acquired
<1>4. WaitInv'  BY PostAcquireLisp DEF WaitInv, LockInv, Running, Asleep, Acquired
<1>5. MutexInv'  BY PostAcquireLisp DEF MutexInv, MutexConsistent, WaitInv, LockInv,
         Running, Asleep, Acquired
<1>6. NoLostWakeup'  BY PostAcquireLisp DEF NoLostWakeup, WaitInv, LifeInv, MutexInv,
         LockInv, Running, Asleep, Acquired
<1>7. SignalInterrupts'  BY PostAcquireLisp DEF SignalInterrupts, WaitInv, LockInv,
         Running, Asleep, Acquired
<1>. QED BY <1>1, <1>2, <1>3, <1>4, <1>5, <1>6, <1>7

(* Preservation: one turn of the loop of mutex-lock. *)
LEMMA ResumeMutexLock_IInv ==
  ASSUME IInv, NEW t \in Thread, ResumeMutexLock(t)
  PROVE  IInv'
<1>. USE DEF IInv, TypeOK, ResumeMutexLock, sys_mutex_lock, EndWait, TakeMutex,
             Signaled, lockVars, threadVars, frameVars, mutexVars
<1>m. wait_condvar[t] \in Mutex  BY DEF WaitInv
<1>1. TypeOK'  BY <1>m, PostAcquireLisp DEF Position, Running, Asleep, Acquired
<1>2. LockInv'  BY PostAcquireLisp DEF LockInv, Running, Acquired
<1>3. LifeInv'  BY PostAcquireLisp DEF LifeInv, LockInv, Running, Acquired
<1>4. WaitInv'  BY PostAcquireLisp DEF WaitInv, LockInv, Running, Asleep, Acquired
<1>5. MutexInv'  BY PostAcquireLisp DEF MutexInv, MutexConsistent, WaitInv, LockInv,
         Running, Asleep, Acquired
<1>6. NoLostWakeup'  BY PostAcquireLisp DEF NoLostWakeup, WaitInv, LifeInv, MutexInv,
         LockInv, Running, Asleep, Acquired
<1>7. SignalInterrupts'  BY PostAcquireLisp DEF SignalInterrupts, WaitInv, LockInv,
         Running, Asleep, Acquired
<1>. QED BY <1>1, <1>2, <1>3, <1>4, <1>5, <1>6, <1>7

(* Preservation: condition-wait after its sleep. *)
LEMMA ResumeConditionWait_IInv ==
  ASSUME IInv, NEW t \in Thread, ResumeConditionWait(t)
  PROVE  IInv'
<1>. USE DEF IInv, TypeOK, ResumeConditionWait, Relocked, sys_mutex_lock, EndWait,
             TakeMutex, lockVars, threadVars, mutexVars
<1>m. mutexOf[wait_condvar[t]] \in Mutex  BY DEF WaitInv
<1>1. TypeOK'
  <2>1. CASE Relocked(t, mutexOf[wait_condvar[t]])
    BY <1>m, <2>1, PostAcquireLisp DEF Acquired
  <2>2. CASE ~Relocked(t, mutexOf[wait_condvar[t]])
    BY <1>m, <2>2 DEF Position, Asleep
  <2>. QED  BY <2>1, <2>2
<1>2. LockInv'  BY PostAcquireLisp DEF LockInv, Running, Acquired
<1>3. LifeInv'  BY PostAcquireLisp DEF LifeInv, LockInv, Running, Acquired
<1>4. WaitInv'  BY PostAcquireLisp DEF WaitInv, LockInv, Running, Asleep, Acquired
<1>5. MutexInv'  BY PostAcquireLisp DEF MutexInv, MutexConsistent, WaitInv, LockInv,
         Running, Asleep, Acquired
<1>6. NoLostWakeup'  BY PostAcquireLisp DEF NoLostWakeup, WaitInv, LifeInv, MutexInv,
         LockInv, Running, Asleep, Acquired
<1>7. SignalInterrupts'  BY PostAcquireLisp DEF SignalInterrupts, WaitInv, LockInv,
         Running, Asleep, Acquired
<1>. QED BY <1>1, <1>2, <1>3, <1>4, <1>5, <1>6, <1>7

(* Preservation: one turn of condition-wait's loop for its mutex. *)
LEMMA ResumeRelock_IInv ==
  ASSUME IInv, NEW t \in Thread, ResumeRelock(t)
  PROVE  IInv'
<1>. USE DEF IInv, TypeOK, ResumeRelock, Relocked, sys_mutex_lock, EndWait, TakeMutex,
             lockVars, threadVars, mutexVars
<1>m. wait_condvar[t] \in Mutex  BY DEF WaitInv
<1>1. TypeOK'
  <2>1. CASE Relocked(t, wait_condvar[t])
    BY <1>m, <2>1, PostAcquireLisp DEF Acquired
  <2>2. CASE ~Relocked(t, wait_condvar[t])
    BY <1>m, <2>2
  <2>. QED  BY <2>1, <2>2
<1>2. LockInv'  BY PostAcquireLisp DEF LockInv, Running, Acquired
<1>3. LifeInv'  BY PostAcquireLisp DEF LifeInv, LockInv, Running, Acquired
<1>4. WaitInv'  BY PostAcquireLisp DEF WaitInv, LockInv, Running, Asleep, Acquired
<1>5. MutexInv'  BY PostAcquireLisp DEF MutexInv, MutexConsistent, WaitInv, LockInv,
         Running, Asleep, Acquired
<1>6. NoLostWakeup'  BY PostAcquireLisp DEF NoLostWakeup, WaitInv, LifeInv, MutexInv,
         LockInv, Running, Asleep, Acquired
<1>7. SignalInterrupts'  BY PostAcquireLisp DEF SignalInterrupts, WaitInv, LockInv,
         Running, Asleep, Acquired
<1>. QED BY <1>1, <1>2, <1>3, <1>4, <1>5, <1>6, <1>7

(* Preservation: one turn of the loop of thread-join. *)
LEMMA ResumeThreadJoin_IInv ==
  ASSUME IInv, NEW t \in Thread, ResumeThreadJoin(t)
  PROVE  IInv'
<1>. USE DEF IInv, TypeOK, ResumeThreadJoin, sys_mutex_lock, EndWait, Signaled,
             lockVars, threadVars, mutexVars
<1>1. TypeOK'  BY PostAcquireLisp DEF Position, Running, Asleep, LockInv, WaitInv,
         MutexInv, MutexConsistent, Acquired
<1>2. LockInv'  BY PostAcquireLisp DEF LockInv, Running, Acquired
<1>3. LifeInv'  BY PostAcquireLisp DEF LifeInv, LockInv, Running, Acquired
<1>4. WaitInv'  BY PostAcquireLisp DEF WaitInv, LockInv, Running, Asleep, Acquired
<1>5. MutexInv'  BY PostAcquireLisp DEF MutexInv, MutexConsistent, WaitInv, LockInv,
         Running, Asleep, Acquired
<1>6. NoLostWakeup'  BY PostAcquireLisp DEF NoLostWakeup, WaitInv, LifeInv, MutexInv,
         LockInv, Running, Asleep, Acquired
<1>7. SignalInterrupts'  BY PostAcquireLisp DEF SignalInterrupts, WaitInv, LockInv,
         Running, Asleep, Acquired
<1>. QED BY <1>1, <1>2, <1>3, <1>4, <1>5, <1>6, <1>7

(* Preservation: mutex-lock. *)
LEMMA Fmutex_lock_IInv ==
  ASSUME IInv, NEW t \in Thread, NEW m \in Mutex, Fmutex_lock(t, m)
  PROVE  IInv'
<1>. USE DEF IInv, TypeOK, Fmutex_lock, RunsLisp, TakeMutex, Signaled, sys_cond_wait,
             release_global_lock, lockVars, threadVars, waitVars, frameVars, mutexVars
<1>1. TypeOK'  BY PostAcquireLisp DEF Position, Running, Asleep, LockInv, WaitInv,
         MutexInv, MutexConsistent, Acquired
<1>2. LockInv'  BY PostAcquireLisp DEF LockInv, Running, Acquired
<1>3. LifeInv'  BY PostAcquireLisp DEF LifeInv, LockInv, Running, Acquired
<1>4. WaitInv'  BY PostAcquireLisp DEF WaitInv, LockInv, Running, Asleep, Acquired
<1>5. MutexInv'  BY PostAcquireLisp DEF MutexInv, MutexConsistent, WaitInv, LockInv,
         Running, Asleep, Acquired
<1>6. NoLostWakeup'  BY PostAcquireLisp DEF NoLostWakeup, WaitInv, LifeInv, MutexInv,
         LockInv, Running, Asleep, Acquired
<1>7. SignalInterrupts'  BY PostAcquireLisp DEF SignalInterrupts, WaitInv, LockInv,
         Running, Asleep, Acquired
<1>. QED BY <1>1, <1>2, <1>3, <1>4, <1>5, <1>6, <1>7

(* Preservation: mutex-unlock. *)
LEMMA Fmutex_unlock_IInv ==
  ASSUME IInv, NEW t \in Thread, NEW m \in Mutex, Fmutex_unlock(t, m)
  PROVE  IInv'
<1>. USE DEF IInv, TypeOK, Fmutex_unlock, RunsLisp, FreeMutex, Fsignal,
             lisp_mutex_owned_p, lockVars, threadVars, waitVars, frameVars, mutexVars
<1>1. TypeOK'  BY PostAcquireLisp, Broadcast DEF Position, Running, Asleep, LockInv,
         WaitInv, MutexInv, MutexConsistent, Acquired
<1>2. LockInv'  BY PostAcquireLisp, Broadcast DEF LockInv, Running, Acquired
<1>3. LifeInv'  BY PostAcquireLisp, Broadcast DEF LifeInv, LockInv, Running, Acquired
<1>4. WaitInv'  BY PostAcquireLisp, Broadcast DEF WaitInv, LockInv, Running, Asleep,
         Acquired
<1>5. MutexInv'  BY PostAcquireLisp, Broadcast DEF MutexInv, MutexConsistent, WaitInv,
         LockInv, Running, Asleep, Acquired
<1>6. NoLostWakeup'  BY PostAcquireLisp, Broadcast DEF NoLostWakeup, WaitInv, LifeInv,
         MutexInv, LockInv, Running, Asleep, Acquired
<1>7. SignalInterrupts'  BY PostAcquireLisp, Broadcast DEF SignalInterrupts, WaitInv,
         LockInv, Running, Asleep, Acquired
<1>. QED BY <1>1, <1>2, <1>3, <1>4, <1>5, <1>6, <1>7

(* Preservation: condition-wait up to its sleep. *)
LEMMA Fcondition_wait_IInv ==
  ASSUME IInv, NEW t \in Thread, NEW c \in CondVar, Fcondition_wait(t, c)
  PROVE  IInv'
<1>. USE DEF IInv, TypeOK, Fcondition_wait, RunsLisp, FreeMutex, Fsignal,
             lisp_mutex_owned_p, Signaled, release_global_lock, lockVars, threadVars,
             waitVars, frameVars, mutexVars
<1>1. TypeOK'  BY PostAcquireLisp, Broadcast, SMTT(40) DEF Position, Running, Asleep,
         LockInv, MutexInv, MutexConsistent, Acquired
<1>2. LockInv'  BY PostAcquireLisp, Broadcast DEF LockInv, Running, Acquired
<1>3. LifeInv'  BY PostAcquireLisp, Broadcast DEF LifeInv, LockInv, Running, Acquired
<1>4. WaitInv'  BY PostAcquireLisp, Broadcast DEF WaitInv, LockInv, Running, Asleep,
         Acquired
<1>5. MutexInv'  BY PostAcquireLisp, Broadcast DEF MutexInv, MutexConsistent, WaitInv,
         LockInv, Running, Asleep, Acquired
<1>6. NoLostWakeup'  BY PostAcquireLisp, Broadcast DEF NoLostWakeup, WaitInv, LifeInv,
         MutexInv, LockInv, Running, Asleep, Acquired
<1>7. SignalInterrupts'  BY PostAcquireLisp, Broadcast DEF SignalInterrupts, WaitInv,
         LockInv, Running, Asleep, Acquired
<1>. QED BY <1>1, <1>2, <1>3, <1>4, <1>5, <1>6, <1>7

(* Preservation: condition-notify. *)
LEMMA Fcondition_notify_IInv ==
  ASSUME IInv, NEW t \in Thread, NEW c \in CondVar, NEW all \in BOOLEAN, Fcondition_notify(t, c, all)
  PROVE  IInv'
<1>. USE DEF IInv, TypeOK, Fcondition_notify, RunsLisp, Fsignal, lisp_mutex_owned_p,
             lockVars, threadVars, waitVars, frameVars, mutexVars
<1>1. TypeOK'  BY PostAcquireLisp, Broadcast DEF Position, Running, Asleep, LockInv,
         WaitInv, MutexInv, MutexConsistent, Acquired
<1>2. LockInv'  BY PostAcquireLisp, Broadcast DEF LockInv, Running, Acquired
<1>3. LifeInv'  BY PostAcquireLisp, Broadcast DEF LifeInv, LockInv, Running, Acquired
<1>4. WaitInv'  BY PostAcquireLisp, Broadcast DEF WaitInv, LockInv, Running, Asleep,
         Acquired
<1>5. MutexInv'  BY PostAcquireLisp, Broadcast DEF MutexInv, MutexConsistent, WaitInv,
         LockInv, Running, Asleep, Acquired
<1>6. NoLostWakeup'  BY PostAcquireLisp, Broadcast DEF NoLostWakeup, WaitInv, LifeInv,
         MutexInv, LockInv, Running, Asleep, Acquired
<1>7. SignalInterrupts'  BY PostAcquireLisp, Broadcast DEF SignalInterrupts, WaitInv,
         LockInv, Running, Asleep, Acquired
<1>. QED BY <1>1, <1>2, <1>3, <1>4, <1>5, <1>6, <1>7

(* Preservation: make-thread. *)
LEMMA Fmake_thread_IInv ==
  ASSUME IInv, NEW t \in Thread, NEW u \in Thread, Fmake_thread(t, u)
  PROVE  IInv'
<1>. USE DEF IInv, TypeOK, Fmake_thread, RunsLisp, Fsignal, lockVars, threadVars,
             waitVars, frameVars, mutexVars
<1>1. TypeOK'  BY DEF Position, Running, Asleep, LockInv, WaitInv, MutexInv,
         MutexConsistent
<1>2. LockInv'  BY DEF LockInv, Running
<1>3. LifeInv'  BY DEF LifeInv, LockInv, Running
<1>4. WaitInv'  BY DEF WaitInv, LockInv, Running, Asleep
<1>5. MutexInv'  BY DEF MutexInv, MutexConsistent, WaitInv, LockInv, Running, Asleep
<1>6. NoLostWakeup'  BY DEF NoLostWakeup, WaitInv, LifeInv, MutexInv, LockInv, Running,
         Asleep
<1>7. SignalInterrupts'  BY DEF SignalInterrupts, WaitInv, LockInv, Running, Asleep
<1>. QED BY <1>1, <1>2, <1>3, <1>4, <1>5, <1>6, <1>7

(* Preservation: the end of run_thread. *)
LEMMA ThreadExit_IInv ==
  ASSUME IInv, NEW t \in Thread, ThreadExit(t)
  PROVE  IInv'
<1>. USE DEF IInv, TypeOK, ThreadExit, frameVars, mutexVars
<1>1. TypeOK'  BY Broadcast DEF Position, Running, Asleep, LockInv, WaitInv, MutexInv,
         MutexConsistent
<1>2. LockInv'  BY Broadcast DEF LockInv, Running
<1>3. LifeInv'  BY Broadcast DEF LifeInv, LockInv, Running
<1>4. WaitInv'  BY Broadcast DEF WaitInv, LockInv, Running, Asleep
<1>5. MutexInv'  BY Broadcast DEF MutexInv, MutexConsistent, WaitInv, LockInv, Running,
         Asleep
<1>6. NoLostWakeup'  BY Broadcast DEF NoLostWakeup, WaitInv, LifeInv, MutexInv, LockInv,
         Running, Asleep
<1>7. SignalInterrupts'  BY Broadcast DEF SignalInterrupts, WaitInv, LockInv, Running,
         Asleep
<1>. QED BY <1>1, <1>2, <1>3, <1>4, <1>5, <1>6, <1>7

(* Preservation: a handler of the thread's own. *)
LEMMA CatchError_IInv ==
  ASSUME IInv, NEW t \in Thread, CatchError(t)
  PROVE  IInv'
<1>. USE DEF IInv, TypeOK, CatchError, lockVars, threadVars, waitVars, frameVars,
             mutexVars
<1>1. TypeOK'  BY DEF Position, Running, Asleep, LockInv, WaitInv, MutexInv,
         MutexConsistent
<1>2. LockInv'  BY DEF LockInv, Running
<1>3. LifeInv'  BY DEF LifeInv, LockInv, Running
<1>4. WaitInv'  BY DEF WaitInv, LockInv, Running, Asleep
<1>5. MutexInv'  BY DEF MutexInv, MutexConsistent, WaitInv, LockInv, Running, Asleep
<1>6. NoLostWakeup'  BY DEF NoLostWakeup, WaitInv, LifeInv, MutexInv, LockInv, Running,
         Asleep
<1>7. SignalInterrupts'  BY DEF SignalInterrupts, WaitInv, LockInv, Running, Asleep
<1>. QED BY <1>1, <1>2, <1>3, <1>4, <1>5, <1>6, <1>7

(* Preservation: thread-yield. *)
LEMMA Fthread_yield_IInv ==
  ASSUME IInv, NEW t \in Thread, Fthread_yield(t)
  PROVE  IInv'
<1>. USE DEF IInv, TypeOK, Fthread_yield, RunsLisp, release_global_lock, threadVars,
             waitVars, frameVars, mutexVars
<1>1. TypeOK'  BY DEF Position, Running, Asleep, LockInv, WaitInv, MutexInv,
         MutexConsistent
<1>2. LockInv'  BY DEF LockInv, Running
<1>3. LifeInv'  BY DEF LifeInv, LockInv, Running
<1>4. WaitInv'  BY DEF WaitInv, LockInv, Running, Asleep
<1>5. MutexInv'  BY DEF MutexInv, MutexConsistent, WaitInv, LockInv, Running, Asleep
<1>6. NoLostWakeup'  BY DEF NoLostWakeup, WaitInv, LifeInv, MutexInv, LockInv, Running,
         Asleep
<1>7. SignalInterrupts'  BY DEF SignalInterrupts, WaitInv, LockInv, Running, Asleep
<1>. QED BY <1>1, <1>2, <1>3, <1>4, <1>5, <1>6, <1>7

(* Preservation: thread_select gives up the lock. *)
LEMMA thread_select_IInv ==
  ASSUME IInv, NEW t \in Thread, thread_select(t)
  PROVE  IInv'
<1>. USE DEF IInv, TypeOK, thread_select, RunsLisp, release_global_lock, threadVars,
             waitVars, mutexVars
<1>1. TypeOK'  BY DEF Position, Running, Asleep, LockInv, WaitInv, MutexInv,
         MutexConsistent
<1>2. LockInv'  BY DEF LockInv, Running
<1>3. LifeInv'  BY DEF LifeInv, LockInv, Running
<1>4. WaitInv'  BY DEF WaitInv, LockInv, Running, Asleep
<1>5. MutexInv'  BY DEF MutexInv, MutexConsistent, WaitInv, LockInv, Running, Asleep
<1>6. NoLostWakeup'  BY DEF NoLostWakeup, WaitInv, LifeInv, MutexInv, LockInv, Running,
         Asleep
<1>7. SignalInterrupts'  BY DEF SignalInterrupts, WaitInv, LockInv, Running, Asleep
<1>. QED BY <1>1, <1>2, <1>3, <1>4, <1>5, <1>6, <1>7

(* Preservation: thread-signal. *)
LEMMA Fthread_signal_IInv ==
  ASSUME IInv, NEW t \in Thread, NEW u \in Thread, Fthread_signal(t, u)
  PROVE  IInv'
<1>. USE DEF IInv, TypeOK, Fthread_signal, RunsLisp, Fsignal, lockVars, threadVars,
             waitVars, frameVars, mutexVars
<1>a. post_acquire_global_lock(t, [error_symbol EXCEPT ![u] = "signaled"], "lisp")
        => Acquired(t, [error_symbol EXCEPT ![u] = "signaled"])
  BY PostAcquire DEF Running
<1>1. TypeOK'  BY <1>a, Broadcast DEF Position, Running, Asleep, LockInv, WaitInv,
         MutexInv, MutexConsistent, Acquired
<1>2. LockInv'  BY <1>a, Broadcast DEF LockInv, Running, Acquired
<1>3. LifeInv'  BY <1>a, Broadcast DEF LifeInv, LockInv, Running, Acquired
<1>4. WaitInv'  BY <1>a, Broadcast DEF WaitInv, LockInv, Running, Asleep, Acquired
<1>5. MutexInv'  BY <1>a, Broadcast DEF MutexInv, MutexConsistent, WaitInv, LockInv,
         Running, Asleep, Acquired
<1>6. NoLostWakeup'  BY <1>a, Broadcast DEF NoLostWakeup, WaitInv, LifeInv, MutexInv,
         LockInv, Running, Asleep, Acquired
<1>7. SignalInterrupts'  BY <1>a, Broadcast DEF SignalInterrupts, WaitInv, LockInv,
         Running, Asleep, Acquired
<1>. QED BY <1>1, <1>2, <1>3, <1>4, <1>5, <1>6, <1>7

(* Preservation: kill-buffer posts its signals. *)
LEMMA thread_all_before_buffer_killed_IInv ==
  ASSUME IInv, NEW t \in Thread, NEW S \in SUBSET Thread, thread_all_before_buffer_killed(t, S)
  PROVE  IInv'
<1>. USE DEF IInv, TypeOK, thread_all_before_buffer_killed, RunsLisp, lockVars,
             threadVars, waitVars, frameVars, mutexVars
<1>1. TypeOK'  BY DEF Position, Running, Asleep, LockInv, WaitInv, MutexInv,
         MutexConsistent
<1>2. LockInv'  BY DEF LockInv, Running
<1>3. LifeInv'  BY DEF LifeInv, LockInv, Running
<1>4. WaitInv'  BY DEF WaitInv, LockInv, Running, Asleep
<1>5. MutexInv'  BY DEF MutexInv, MutexConsistent, WaitInv, LockInv, Running, Asleep
<1>6. NoLostWakeup'  BY DEF NoLostWakeup, WaitInv, LifeInv, MutexInv, LockInv, Running,
         Asleep
<1>7. SignalInterrupts'  BY DEF SignalInterrupts, WaitInv, LockInv, Running, Asleep
<1>. QED BY <1>1, <1>2, <1>3, <1>4, <1>5, <1>6, <1>7

(* Preservation: thread-join up to its sleep. *)
LEMMA Fthread_join_IInv ==
  ASSUME IInv, NEW t \in Thread, NEW u \in Thread, Fthread_join(t, u)
  PROVE  IInv'
<1>. USE DEF IInv, TypeOK, Fthread_join, RunsLisp, Fsignal, Signaled, sys_cond_wait,
             release_global_lock, lockVars, threadVars, waitVars, frameVars, mutexVars
<1>1. TypeOK'  BY PostAcquireLisp DEF Position, Running, Asleep, LockInv, WaitInv,
         MutexInv, MutexConsistent, Acquired
<1>2. LockInv'  BY PostAcquireLisp DEF LockInv, Running, Acquired
<1>3. LifeInv'  BY PostAcquireLisp DEF LifeInv, LockInv, Running, Acquired
<1>4. WaitInv'  BY PostAcquireLisp DEF WaitInv, LockInv, Running, Asleep, Acquired
<1>5. MutexInv'  BY PostAcquireLisp DEF MutexInv, MutexConsistent, WaitInv, LockInv,
         Running, Asleep, Acquired
<1>6. NoLostWakeup'  BY PostAcquireLisp DEF NoLostWakeup, WaitInv, LifeInv, MutexInv,
         LockInv, Running, Asleep, Acquired
<1>7. SignalInterrupts'  BY PostAcquireLisp DEF SignalInterrupts, WaitInv, LockInv,
         Running, Asleep, Acquired
<1>. QED BY <1>1, <1>2, <1>3, <1>4, <1>5, <1>6, <1>7

(* Preservation: pthread_cond_wait returns early. *)
LEMMA SpuriousWakeup_IInv ==
  ASSUME IInv, NEW t \in Thread, SpuriousWakeup(t)
  PROVE  IInv'
<1>. USE DEF IInv, TypeOK, SpuriousWakeup, lockVars, threadVars, frameVars, mutexVars
<1>1. TypeOK'  BY DEF Position, Running, Asleep, LockInv, WaitInv, MutexInv,
         MutexConsistent
<1>2. LockInv'  BY DEF LockInv, Running
<1>3. LifeInv'  BY DEF LifeInv, LockInv, Running
<1>4. WaitInv'  BY DEF WaitInv, LockInv, Running, Asleep
<1>5. MutexInv'  BY DEF MutexInv, MutexConsistent, WaitInv, LockInv, Running, Asleep
<1>6. NoLostWakeup'  BY DEF NoLostWakeup, WaitInv, LifeInv, MutexInv, LockInv, Running,
         Asleep
<1>7. SignalInterrupts'  BY DEF SignalInterrupts, WaitInv, LockInv, Running, Asleep
<1>. QED BY <1>1, <1>2, <1>3, <1>4, <1>5, <1>6, <1>7

(* The invariant is inductive. *)
THEOREM InductiveStep == IInv /\ [Next]_vars => IInv'
<1>. SUFFICES ASSUME IInv, [Next]_vars PROVE IInv'
  OBVIOUS
<1>1. CASE UNCHANGED vars
  BY <1>1 DEF vars, lockVars, threadVars, waitVars, frameVars, mutexVars, IInv, TypeOK,
              LockInv, LifeInv, WaitInv, MutexInv, MutexConsistent, NoLostWakeup,
              SignalInterrupts
<1>2. ASSUME NEW t \in Thread, Resume(t) PROVE IInv'
  BY <1>2, run_thread_IInv, ResumeYield_IInv, ResumeSelect_IInv, ResumeMutexLock_IInv,
     ResumeConditionWait_IInv, ResumeRelock_IInv, ResumeThreadJoin_IInv DEF Resume
<1>3. ASSUME NEW t \in Thread, Lisp(t) PROVE IInv'
  BY <1>3, Fmutex_lock_IInv, Fmutex_unlock_IInv, Fcondition_wait_IInv,
     Fcondition_notify_IInv, Fmake_thread_IInv, Fthread_signal_IInv, Fthread_join_IInv,
     thread_all_before_buffer_killed_IInv, Fthread_yield_IInv, thread_select_IInv,
     CatchError_IInv, ThreadExit_IInv DEF Lisp
<1>. QED  BY <1>1, <1>2, <1>3, SpuriousWakeup_IInv DEF Next

-----------------------------------------------------------------------------
(* The results *)

(* The invariant holds in every state the threads can reach. *)
THEOREM InvariantHolds == Spec => []IInv
  BY InitIInv, InductiveStep, PTL DEF Spec

(* Every variable keeps its type. *)
THEOREM TypeCorrect == Spec => []TypeOK
<1>1. IInv => TypeOK  BY DEF IInv
<1>. QED  BY <1>1, InvariantHolds, PTL

(* The holder of the global lock is the current thread, and the bindings in  *)
(* effect are its own (post_acquire_global_lock).                            *)
THEOREM LockHolderIsCurrent == Spec => []CurrentThreadRuns
<1>1. IInv => CurrentThreadRuns  BY DEF IInv, LockInv, CurrentThreadRuns
<1>. QED  BY <1>1, InvariantHolds, PTL

(* A mutex has an owner exactly when its lock count is positive.             *)
THEOREM MutexesConsistent == Spec => []MutexConsistent
<1>1. IInv => MutexConsistent  BY DEF IInv, MutexInv
<1>. QED  BY <1>1, InvariantHolds, PTL

(* Nobody sleeps for what has already happened.                              *)
THEOREM NoWakeupIsLost == Spec => []NoLostWakeup
<1>1. IInv => NoLostWakeup  BY DEF IInv
<1>. QED  BY <1>1, InvariantHolds, PTL

(* Nobody sleeps through a signal of thread-signal, which broadcasts the      *)
(* condition that is slept on.                                               *)
THEOREM SignalsInterrupt == Spec => []SignalFindsSleeper
<1>1. IInv => SignalInterrupts  BY DEF IInv
<1>2. IInv => WaitCondvarAccurate
  BY DEF IInv, TypeOK, WaitInv, WaitCondvarAccurate, Running, Asleep
<1>3. IInv => SignalFindsSleeper  BY <1>1, <1>2 DEF SignalFindsSleeper
<1>. QED  BY <1>3, InvariantHolds, PTL

(* condition-wait ends only in ResumeConditionWait and ResumeRelock, where   *)
(* it takes the mutex with the count it had saved.                           *)
THEOREM WaitRelocksMutex == Spec => ConditionWaitRelocks
<1>. USE DEF lockVars, threadVars, waitVars, frameVars, mutexVars
<1>1. ASSUME IInv, NEW t \in Thread, NEW c \in CondVar,
             pc[t] \in {"condition-wait", "relock"}, pc'[t] \in Running,
             wait_condvar[t] \in {c, mutexOf[c]}, Next
      PROVE  owner'[mutexOf[c]] = t /\ count'[mutexOf[c]] = saved_count[t]
             /\ count'[mutexOf[c]] > 0
  <2>. USE <1>1 DEF IInv, TypeOK
  <2>1. global_lock # t  BY DEF LockInv, Running
  <2>2. ASSUME NEW u \in Thread, Lisp(u) PROVE pc'[t] = pc[t]
    <3>1. u # t  BY <2>1, <2>2 DEF Lisp, RunsLisp, Fmutex_lock, Fmutex_unlock, Fcondition_wait,
            Fcondition_notify, Fmake_thread, Fthread_signal, Fthread_join, Fthread_yield,
            thread_all_before_buffer_killed, thread_select, CatchError, ThreadExit
    <3>2. ASSUME NEW m \in Mutex, Fmutex_lock(u, m) \/ Fmutex_unlock(u, m)
          PROVE  pc'[t] = pc[t]
      BY <3>1, <3>2 DEF Fmutex_lock, Fmutex_unlock, sys_cond_wait, Fsignal,
           post_acquire_global_lock, release_global_lock
    <3>3. ASSUME NEW d \in CondVar, Fcondition_wait(u, d) PROVE pc'[t] = pc[t]
      BY <3>1, <3>3 DEF Fcondition_wait, Fsignal, post_acquire_global_lock, release_global_lock
    <3>4. ASSUME NEW d \in CondVar, NEW all \in BOOLEAN, Fcondition_notify(u, d, all)
          PROVE  pc'[t] = pc[t]
      BY <3>1, <3>4 DEF Fcondition_notify, Fsignal, post_acquire_global_lock
    <3>5. ASSUME NEW v \in Thread,
                 Fmake_thread(u, v) \/ Fthread_signal(u, v) \/ Fthread_join(u, v)
          PROVE  pc'[t] = pc[t]
      BY <3>1, <3>5 DEF Fmake_thread, Fthread_signal, Fthread_join, sys_cond_wait, Fsignal,
           post_acquire_global_lock, release_global_lock
    <3>6. ASSUME NEW S \in SUBSET Thread, thread_all_before_buffer_killed(u, S)
          PROVE  pc'[t] = pc[t]
      BY <3>6 DEF thread_all_before_buffer_killed
    <3>7. CASE Fthread_yield(u) \/ thread_select(u) \/ CatchError(u) \/ ThreadExit(u)
      BY <3>1, <3>7 DEF Fthread_yield, thread_select, CatchError, ThreadExit, release_global_lock
    <3>. QED  BY <2>2, <3>2, <3>3, <3>4, <3>5, <3>6, <3>7 DEF Lisp
  <2>3. ASSUME NEW u \in Thread, SpuriousWakeup(u) PROVE pc'[t] = pc[t]
    BY <2>3 DEF SpuriousWakeup
  <2>4. ASSUME NEW u \in Thread \ {t}, Resume(u) PROVE pc'[t] = pc[t]
    BY <2>4 DEF Resume, run_thread, ResumeYield, ResumeSelect, ResumeMutexLock,
         ResumeConditionWait, ResumeRelock, Relocked, ResumeThreadJoin,
         post_acquire_global_lock
  <2>5. ResumeConditionWait(t) \/ ResumeRelock(t)
    <3>1. Resume(t)  BY <2>2, <2>3, <2>4 DEF Next, Running
    <3>. QED  BY <3>1 DEF Resume, run_thread, ResumeYield, ResumeSelect, ResumeMutexLock,
           ResumeThreadJoin, sys_mutex_lock
  <2>. QED
    BY <2>5 DEF ResumeConditionWait, ResumeRelock, Relocked, TakeMutex, sys_mutex_lock,
         WaitInv, MutexInv, Running
<1>2. IInv /\ [Next]_vars => [\A t \in Thread : \A c \in CondVar :
       /\ pc[t] \in {"condition-wait", "relock"} /\ pc'[t] \in Running
       /\ wait_condvar[t] \in {c, mutexOf[c]}
       => owner'[mutexOf[c]] = t /\ count'[mutexOf[c]] = saved_count[t]
          /\ count'[mutexOf[c]] > 0]_vars
  BY <1>1
<1>. QED  BY <1>2, InvariantHolds, PTL DEF Spec, ConditionWaitRelocks

(* A mutex leaves its owner only in mutex-unlock and condition-wait, called  *)
(* by the owner itself.                                                      *)
THEOREM MutexLeavesByOwner == Spec => OnlyOwnerUnlocks
<1>. USE DEF lockVars, threadVars, waitVars, frameVars, mutexVars
<1>1. ASSUME IInv, NEW m \in Mutex, owner[m] # Nil, owner'[m] # owner[m], Next
      PROVE  owner[m] = global_lock /\ owner'[m] = Nil
  <2>. USE <1>1 DEF IInv, TypeOK, TakeMutex, FreeMutex, lisp_mutex_owned_p, RunsLisp, Fsignal
  <2>1. ASSUME NEW t \in Thread, Resume(t) PROVE FALSE
    BY <2>1 DEF Resume, run_thread, ResumeYield, ResumeSelect, ResumeMutexLock,
         ResumeConditionWait, ResumeRelock, Relocked, ResumeThreadJoin
  <2>2. ASSUME NEW t \in Thread, SpuriousWakeup(t) PROVE FALSE
    BY <2>2 DEF SpuriousWakeup
  <2>3. ASSUME NEW t \in Thread, NEW n \in Mutex, Fmutex_lock(t, n) PROVE FALSE
    BY <2>3 DEF Fmutex_lock
  <2>4. ASSUME NEW t \in Thread, NEW n \in Mutex, Fmutex_unlock(t, n)
        PROVE  owner[m] = global_lock /\ owner'[m] = Nil
    BY <2>4 DEF Fmutex_unlock
  <2>5. ASSUME NEW t \in Thread, NEW c \in CondVar, Fcondition_wait(t, c)
        PROVE  owner[m] = global_lock /\ owner'[m] = Nil
    BY <2>5 DEF Fcondition_wait
  <2>6. ASSUME NEW t \in Thread, NEW c \in CondVar, NEW all \in BOOLEAN,
               Fcondition_notify(t, c, all)
        PROVE  FALSE
    BY <2>6 DEF Fcondition_notify
  <2>7. ASSUME NEW t \in Thread, NEW u \in Thread,
               Fmake_thread(t, u) \/ Fthread_signal(t, u) \/ Fthread_join(t, u)
        PROVE  FALSE
    BY <2>7 DEF Fmake_thread, Fthread_signal, Fthread_join
  <2>8. ASSUME NEW t \in Thread, NEW S \in SUBSET Thread,
               thread_all_before_buffer_killed(t, S)
        PROVE  FALSE
    BY <2>8 DEF thread_all_before_buffer_killed
  <2>9. ASSUME NEW t \in Thread,
               Fthread_yield(t) \/ thread_select(t) \/ CatchError(t) \/ ThreadExit(t)
        PROVE  FALSE
    BY <2>9 DEF Fthread_yield, thread_select, CatchError, ThreadExit
  <2>. QED  BY <2>1, <2>2, <2>3, <2>4, <2>5, <2>6, <2>7, <2>8, <2>9 DEF Next, Lisp
<1>2. IInv /\ [Next]_vars => [\A m \in Mutex :
       owner[m] # Nil /\ owner'[m] # owner[m] =>
         owner[m] = global_lock /\ owner'[m] = Nil]_vars
  BY <1>1
<1>. QED  BY <1>2, InvariantHolds, PTL DEF Spec, OnlyOwnerUnlocks
=============================================================================
