-------------------------- MODULE KillBufferProofs --------------------------
(***************************************************************************)
(* Theorems about kill-buffer with any number of threads and buffers.      *)
(***************************************************************************)
EXTENDS KillBuffer, TLAPS

(* Every thread is in a live buffer; nobody kills Home; and a buffer that   *)
(* is past the last check has no thread in it any more.  The last holds     *)
(* only while the late Lisp code lets no other thread run.                  *)
IInv ==
  /\ TypeOK
  /\ Home \in live
  /\ CurrentBufferIsLive
  /\ \A t \in Thread : pc[t] \in InKill => victim[t] \in Buffer \ {Home}
  /\ \A t \in Thread : pc[t] = "processes" =>
       \A u \in all_threads : m_current_buffer[u] # victim[t]

(* Every variable keeps its type. *)
THEOREM TypeCorrect == Spec => []TypeOK
<1>1. Init => TypeOK
  BY KillBufferAssumption DEF Init, TypeOK, Disposition, InKill
<1>2. TypeOK /\ [Next]_vars => TypeOK'
  <2> SUFFICES ASSUME TypeOK, [Next]_vars PROVE TypeOK'
    OBVIOUS
  <2> USE DEF TypeOK, Disposition, InKill
  <2>1. CASE UNCHANGED vars
    BY <2>1 DEF vars
  <2>2. ASSUME NEW t \in Thread, NEW b \in Buffer, Fset_buffer(t, b) PROVE TypeOK'
    BY <2>2 DEF Fset_buffer
  <2>3. ASSUME NEW t \in Thread, NEW b \in Buffer, Fkill_buffer(t, b) PROVE TypeOK'
    BY <2>3 DEF Fkill_buffer, Goto
  <2>4. ASSUME NEW t \in Thread, NEW u \in Thread, NEW d \in Disposition,
               Fthread_set_buffer_disposition(t, u, d)
        PROVE TypeOK'
    BY <2>4 DEF Fthread_set_buffer_disposition
  <2>5. ASSUME NEW t \in Thread, NEW u \in Thread, NEW d \in Disposition,
               Fmake_thread(t, u, d)
        PROVE TypeOK'
    BY <2>5 DEF Fmake_thread, Goto
  <2>6. ASSUME NEW t \in Thread, run_thread_ends(t) PROVE TypeOK'
    BY <2>6, KillBufferAssumption DEF run_thread_ends, Goto
  <2>7. ASSUME NEW t \in Thread, QueryReturns(t) PROVE TypeOK'
    BY <2>7, KillBufferAssumption DEF QueryReturns, Finish, Goto, unbind_to
  <2>8. ASSUME NEW t \in Thread, HookReturns(t) PROVE TypeOK'
    BY <2>8, KillBufferAssumption DEF HookReturns, Finish, Goto, unbind_to
  <2>9. ASSUME NEW t \in Thread, WindowsReplaced(t) PROVE TypeOK'
    <3>1. victim[t] \in live => victim[t] \in Buffer
      OBVIOUS
    <3>2. m_current_buffer' \in [Thread -> Buffer]
      BY <2>9, <3>1 DEF WindowsReplaced, Finish, thread_all_before_buffer_killed
    <3>3. told' \in [Thread -> Buffer \cup {Nil}]
      BY <2>9, <3>1 DEF WindowsReplaced, thread_all_before_buffer_killed
    <3>4. /\ live' \in SUBSET Buffer
          /\ pc' \in [Thread -> InKill \cup {"new", "lisp", "dead"}]
          /\ victim' \in [Thread -> Buffer \cup {Nil}]
          /\ saved' \in [Thread -> Buffer]
      BY <2>9, <3>1, KillBufferAssumption DEF WindowsReplaced, RemoveBuffer, Finish, Goto
    <3>5. buffer_disposition' = buffer_disposition
      BY <2>9 DEF WindowsReplaced
    <3> QED BY <3>2, <3>3, <3>4, <3>5
  <2>10. ASSUME NEW t \in Thread, ProcessesKilled(t) PROVE TypeOK'
    BY <2>10, KillBufferAssumption DEF ProcessesKilled, Finish, Goto
  <2>11. ASSUME NEW t \in Thread, Fsignal(t) PROVE TypeOK'
    BY <2>11, KillBufferAssumption DEF Fsignal, Finish, Goto, unbind_to
  <2> QED
    BY <2>1, <2>2, <2>3, <2>4, <2>5, <2>6, <2>7, <2>8, <2>9, <2>10, <2>11 DEF Next
<1> QED BY <1>1, <1>2, PTL DEF Spec

(* What one finished check gives: after WindowsReplaced the thread has left  *)
(* the buffer and so has every other, or the kill has been given up.         *)
LEMMA WindowsStep ==
  ASSUME TypeOK, IInv, NEW t \in Thread, WindowsReplaced(t)
  PROVE  /\ all_threads' = all_threads
         /\ \A u \in Thread : u # t => pc'[u] = pc[u] /\ victim'[u] = victim[u]
         /\ \A u \in all_threads : m_current_buffer'[u] \in live'
         /\ Home \in live'
         /\ pc'[t] = "processes" =>
              /\ victim'[t] = victim[t]
              /\ \A u \in all_threads : m_current_buffer'[u] # victim[t]
         /\ pc'[t] \in {"lisp", "processes"}
<1> DEFINE b == victim[t]
<1> USE DEF TypeOK, InKill
<1>1. /\ pc[t] = "windows" /\ t \in all_threads
      /\ b \in Buffer \ {Home}
  BY DEF WindowsReplaced, At, Runs, MayRun, IInv
<1>2. CASE b \notin live
  <2>1. Finish(t) /\ UNCHANGED <<live, m_current_buffer, told>>
    BY <1>2 DEF WindowsReplaced
  <2> QED BY <1>1, <2>1 DEF Finish, Goto, all_threads, IInv, CurrentBufferIsLive
<1>3. CASE b \in live
  <2>1. PICK mine \in live \ {b}, other \in live \ {b} :
          LET here == IF m_current_buffer[t] = b THEN mine ELSE m_current_buffer[t] IN
          IF thread_check_current_buffer(t, b)
          THEN /\ m_current_buffer' = [m_current_buffer EXCEPT ![t] = here]
               /\ Finish(t)
               /\ UNCHANGED <<live, told>>
          ELSE /\ thread_all_before_buffer_killed(t, b, here, other)
               /\ RemoveBuffer(t, b)
    BY <1>3 DEF WindowsReplaced
  <2> DEFINE here == IF m_current_buffer[t] = b THEN mine ELSE m_current_buffer[t]
  <2>2. here \in live \ {b}
    BY <1>1, <2>1 DEF IInv, CurrentBufferIsLive
  <2>3. CASE thread_check_current_buffer(t, b)
    <3>1. /\ m_current_buffer' = [m_current_buffer EXCEPT ![t] = here]
          /\ Finish(t)
          /\ UNCHANGED <<live, told>>
      BY <2>1, <2>3
    <3> QED BY <1>1, <2>2, <3>1 DEF Finish, Goto, all_threads, IInv, CurrentBufferIsLive
  <2>4. CASE ~thread_check_current_buffer(t, b)
    <3>1. thread_all_before_buffer_killed(t, b, here, other) /\ RemoveBuffer(t, b)
      BY <2>1, <2>4
    <3>2. \A u \in all_threads : m_current_buffer'[u] \in live \ {b}
      BY <2>1, <2>2, <3>1 DEF thread_all_before_buffer_killed, Evicted, all_threads, IInv,
                              CurrentBufferIsLive
    <3>3. /\ live' = live \/ live' = live \ {b}
          /\ \/ pc' = [pc EXCEPT ![t] = "processes"] /\ victim' = victim
             \/ pc' = [pc EXCEPT ![t] = "lisp"] /\ victim' = [victim EXCEPT ![t] = Nil]
      BY <3>1 DEF RemoveBuffer, Finish, Goto
    <3> QED BY <1>1, <3>2, <3>3 DEF all_threads, IInv
  <2> QED BY <2>3, <2>4
<1> QED BY <1>2, <1>3

(* The invariant is inductive if the late Lisp code keeps the lock. *)
LEMMA InductiveStep ==
  ASSUME ~LateYield, TypeOK', IInv, [Next]_vars
  PROVE  IInv'
<1> USE DEF TypeOK, InKill
<1>1. CASE UNCHANGED vars
  BY <1>1 DEF vars, IInv, CurrentBufferIsLive, all_threads
<1>2. ASSUME NEW t \in Thread, NEW b \in Buffer, Fset_buffer(t, b) PROVE IInv'
  BY <1>2 DEF Fset_buffer, Runs, MayRun, IInv, CurrentBufferIsLive, all_threads
<1>3. ASSUME NEW t \in Thread, NEW b \in Buffer, Fkill_buffer(t, b) PROVE IInv'
  BY <1>3 DEF Fkill_buffer, At, Runs, MayRun, Goto, IInv, CurrentBufferIsLive, all_threads
<1>4. ASSUME NEW t \in Thread, NEW u \in Thread, NEW d \in Disposition,
             Fthread_set_buffer_disposition(t, u, d)
      PROVE IInv'
  BY <1>4 DEF Fthread_set_buffer_disposition, IInv, CurrentBufferIsLive, all_threads
<1>5. ASSUME NEW t \in Thread, NEW u \in Thread, NEW d \in Disposition, Fmake_thread(t, u, d)
      PROVE IInv'
  BY <1>5 DEF Fmake_thread, Runs, MayRun, Goto, IInv, CurrentBufferIsLive, all_threads
<1>6. ASSUME NEW t \in Thread, run_thread_ends(t) PROVE IInv'
  BY <1>6 DEF run_thread_ends, MayRun, Goto, IInv, CurrentBufferIsLive, all_threads
<1>7. ASSUME NEW t \in Thread, QueryReturns(t) PROVE IInv'
  BY <1>7 DEF QueryReturns, At, Runs, MayRun, Finish, Goto, unbind_to, IInv,
              CurrentBufferIsLive, all_threads
<1>8. ASSUME NEW t \in Thread, HookReturns(t) PROVE IInv'
  BY <1>8 DEF HookReturns, At, Runs, MayRun, Finish, Goto, unbind_to, IInv,
              CurrentBufferIsLive, all_threads
<1>9. ASSUME NEW t \in Thread, WindowsReplaced(t) PROVE IInv'
  <2>1. \A u \in Thread : u # t => pc[u] # "processes"
    BY <1>9 DEF WindowsReplaced, At, Runs, MayRun
  <2>2. t \in all_threads /\ pc[t] = "windows"
    BY <1>9 DEF WindowsReplaced, At, Runs, MayRun
  <2> QED BY <1>9, <2>1, <2>2, WindowsStep DEF IInv, CurrentBufferIsLive
<1>10. ASSUME NEW t \in Thread, ProcessesKilled(t) PROVE IInv'
  BY <1>10 DEF ProcessesKilled, At, Runs, MayRun, Finish, Goto, IInv, CurrentBufferIsLive,
               all_threads
<1>11. ASSUME NEW t \in Thread, Fsignal(t) PROVE IInv'
  BY <1>11 DEF Fsignal, MayRun, Finish, Goto, unbind_to, IInv, CurrentBufferIsLive, all_threads
<1> QED
  BY <1>1, <1>2, <1>3, <1>4, <1>5, <1>6, <1>7, <1>8, <1>9, <1>10, <1>11 DEF Next

LEMMA InvariantHolds == ASSUME ~LateYield PROVE Spec => []IInv
<1>1. Init => IInv
  BY KillBufferAssumption
  DEF Init, IInv, TypeOK, Disposition, InKill, CurrentBufferIsLive, all_threads
<1>2. TypeOK' /\ IInv /\ [Next]_vars => IInv'
  BY InductiveStep
<1> QED BY <1>1, <1>2, TypeCorrect, PTL DEF Spec

(* While the late Lisp code keeps the lock, no thread is in a dead buffer. *)
THEOREM NoThreadInDeadBuffer == ASSUME ~LateYield PROVE Spec => []CurrentBufferIsLive
<1>1. IInv => CurrentBufferIsLive
  BY DEF IInv
<1> QED BY <1>1, InvariantHolds, PTL

(* A step by which an attached thread's buffer would die does not exist:    *)
(* either the last check found the thread, or nobody is in the buffer.      *)
LEMMA AttachedStep ==
  ASSUME ~LateYield, IInv, [Next]_vars,
         NEW u \in all_threads,
         buffer_disposition[u] = "t",
         victim[u] # m_current_buffer[u],
         m_current_buffer[u] \in live
  PROVE  m_current_buffer[u] \in live'
<1> USE DEF TypeOK
<1>1. CASE live' = live
  BY <1>1
<1>2. ASSUME NEW t \in Thread, WindowsReplaced(t) PROVE m_current_buffer[u] \in live'
  <2>1. live' = live \/ (~thread_check_current_buffer(t, victim[t]) /\ live' = live \ {victim[t]})
    BY <1>2 DEF WindowsReplaced, RemoveBuffer
  <2>2. CASE ~thread_check_current_buffer(t, victim[t]) /\ live' = live \ {victim[t]}
    <3>1. m_current_buffer[u] # victim[t]
      BY <2>2 DEF thread_check_current_buffer
    <3> QED BY <2>2, <3>1
  <2> QED BY <2>1, <2>2
<1>3. ASSUME NEW t \in Thread, ProcessesKilled(t) PROVE m_current_buffer[u] \in live'
  BY <1>3 DEF ProcessesKilled, At, Runs, MayRun, IInv
<1>4. \/ live' = live
      \/ \E t \in Thread : WindowsReplaced(t) \/ ProcessesKilled(t)
  BY DEF Next, vars, Fset_buffer, Fkill_buffer, Fthread_set_buffer_disposition, Fmake_thread,
         run_thread_ends, QueryReturns, HookReturns, Fsignal
<1> QED BY <1>1, <1>2, <1>3, <1>4

(* Nor does a step of another thread W move an attached thread.              *)
LEMMA AttachedNotMoved ==
  ASSUME TypeOK, [Next]_vars,
         NEW u \in all_threads,
         buffer_disposition[u] = "t",
         NEW w \in Thread \ {u}, pc'[w] # pc[w]
  PROVE  m_current_buffer'[u] = m_current_buffer[u]
<1> USE DEF TypeOK
<1>1. u \in Thread /\ pc[u] # "new"
  BY DEF all_threads
<1>2. CASE UNCHANGED vars
  BY <1>2 DEF vars
<1>3. ASSUME NEW t \in Thread, NEW b \in Buffer, Fset_buffer(t, b) \/ Fkill_buffer(t, b)
      PROVE m_current_buffer'[u] = m_current_buffer[u]
  BY <1>1, <1>3 DEF Fset_buffer, Fkill_buffer, Goto
<1>4. ASSUME NEW t \in Thread, NEW v \in Thread, NEW d \in Disposition,
             Fthread_set_buffer_disposition(t, v, d) \/ Fmake_thread(t, v, d)
      PROVE m_current_buffer'[u] = m_current_buffer[u]
  BY <1>1, <1>4 DEF Fthread_set_buffer_disposition, Fmake_thread
<1>5. ASSUME NEW t \in Thread,
             run_thread_ends(t) \/ QueryReturns(t) \/ HookReturns(t) \/ Fsignal(t)
      PROVE m_current_buffer'[u] = m_current_buffer[u]
  BY <1>1, <1>5 DEF run_thread_ends, QueryReturns, HookReturns, Fsignal, Finish, Goto, unbind_to
<1>6. ASSUME NEW t \in Thread, WindowsReplaced(t)
      PROVE m_current_buffer'[u] = m_current_buffer[u]
  <2>1. t = w
    BY <1>6 DEF WindowsReplaced, RemoveBuffer, Finish, Goto
  <2>2. CASE m_current_buffer' = m_current_buffer
    BY <2>2
  <2>3. CASE m_current_buffer' # m_current_buffer
    <3>1. PICK here \in Buffer, other \in Buffer :
            \/ m_current_buffer' = [m_current_buffer EXCEPT ![t] = here]
            \/ /\ ~thread_check_current_buffer(t, victim[t])
               /\ thread_all_before_buffer_killed(t, victim[t], here, other)
      <4>1. PICK mine \in live \ {victim[t]}, other \in live \ {victim[t]} :
              LET here == IF m_current_buffer[t] = victim[t] THEN mine
                          ELSE m_current_buffer[t] IN
              IF thread_check_current_buffer(t, victim[t])
              THEN m_current_buffer' = [m_current_buffer EXCEPT ![t] = here]
              ELSE thread_all_before_buffer_killed(t, victim[t], here, other)
        BY <1>6, <2>3 DEF WindowsReplaced
      <4> DEFINE here == IF m_current_buffer[t] = victim[t] THEN mine
                         ELSE m_current_buffer[t]
      <4>2. here \in Buffer /\ other \in Buffer
        BY <4>1
      <4> QED BY <4>1, <4>2
    <3> QED BY <1>1, <2>1, <3>1 DEF thread_check_current_buffer,
                                    thread_all_before_buffer_killed, Evicted
  <2> QED BY <2>2, <2>3
<1>7. ASSUME NEW t \in Thread, ProcessesKilled(t)
      PROVE m_current_buffer'[u] = m_current_buffer[u]
  BY <1>7 DEF ProcessesKilled
<1> QED BY <1>2, <1>3, <1>4, <1>5, <1>6, <1>7 DEF Next

(* While the late Lisp code keeps the lock, no thread kills the buffer of   *)
(* another one whose buffer disposition is t, or takes it out of it.        *)
THEOREM AttachedThreadKeepsBuffer == ASSUME ~LateYield PROVE Spec => AttachedBufferStays
<1>1. IInv /\ [Next]_vars =>
        [\A t \in all_threads :
           /\ buffer_disposition[t] = "t"
           /\ victim[t] # m_current_buffer[t]
           /\ m_current_buffer[t] \in live
           => /\ m_current_buffer[t] \in live'
              /\ \A u \in Thread \ {t} :
                   pc'[u] # pc[u] => m_current_buffer'[t] = m_current_buffer[t]]_vars
  BY AttachedStep, AttachedNotMoved DEF IInv
<1> QED BY <1>1, InvariantHolds, PTL DEF Spec, AttachedBufferStays
=============================================================================
