--------------------------- MODULE FileLockProofs ---------------------------
(***************************************************************************)
(* Proofs about FileLock, for any number of processes on any hosts.        *)
(***************************************************************************)
EXTENDS FileLock, TLAPS

(* Only processes that ran at the start ever run, and none comes back: one   *)
(* that does not run holds nothing, and who is found dead stays dead.        *)
DeadInv ==
  /\ alive \subseteq Running
  /\ \A p \in Proc : p \notin alive => pc[p] = "dead" /\ belief[p] = "none"
  /\ \A p \in Proc :
       /\ pc[p] = "kill" => data[p] \in Proc
       /\ pc[p] = "zap" => data[p] \in Proc \ alive

(* A process that holds the lock, or is about to remove it as its own, is    *)
(* the one the link names.                                                   *)
KeptInv ==
  ~forced /\ ~raced =>
    \A p \in Proc :
      /\ belief[p] = "held" \/ pc[p] = "unlink" => lockfile = p
      /\ pc[p] # "force-symlink"

IInv == TypeOK /\ DeadInv /\ KeptInv

USE FileLockAssumption
USE DEF At, Goto, CallLockOwner, Quit, Locked, Unlocked, Return, SupersessionVerdict,
        LockVerdict, UnlockVerdict

(* The initial state satisfies the invariant. *)
LEMMA InitIInv == Init => IInv
<1>. SUFFICES ASSUME Init PROVE IInv
  OBVIOUS
<1>. USE DEF Init
<1>1. TypeOK  BY DEF TypeOK, Pc, Caller, Op, Belief
<1>2. DeadInv /\ KeptInv  BY DEF DeadInv, KeptInv
<1>. QED  BY <1>1, <1>2 DEF IInv

(* Every step keeps the types, and the dead dead. *)
LEMMA StepTypeOK ==
  ASSUME TypeOK, DeadInv, [Next]_vars
  PROVE  TypeOK' /\ DeadInv'
<1>. USE DEF TypeOK, DeadInv, Pc, Caller, Op, Belief
<1>1. ASSUME NEW p \in Proc, read_lock_data(p), UNCHANGED <<forced, raced>>
      PROVE  TypeOK' /\ DeadInv'
  BY <1>1 DEF read_lock_data
<1>2. ASSUME NEW p \in Proc, kill(p), UNCHANGED <<forced, raced>>
      PROVE  TypeOK' /\ DeadInv'
  BY <1>2 DEF kill, OwnerLives
<1>3. ASSUME NEW p \in Proc, zap(p) PROVE TypeOK' /\ DeadInv'
  <2>1. raced' \in BOOLEAN /\ lockfile' \in Proc \cup {Nil, Invalid}
    <3>1. lockfile' \in Proc \cup {Nil, Invalid}  BY <1>3 DEF zap
    <3>2. (raced' = IF lockfile \in {Nil, data[p]} THEN raced ELSE TRUE) \/ UNCHANGED raced
      BY <1>3 DEF zap
    <3>. QED  BY <3>1, <3>2
  <2>2. CASE Return(p, "free")
    BY <1>3, <2>1, <2>2 DEF zap
  <2>3. CASE Return(p, "error")
    BY <1>3, <2>1, <2>3 DEF zap
  <2>. QED  BY <1>3, <2>2, <2>3 DEF zap
<1>4. ASSUME NEW p \in Proc, lock_if_free(p), UNCHANGED <<forced, raced>>
      PROVE  TypeOK' /\ DeadInv'
  BY <1>4 DEF lock_if_free
<1>5. ASSUME NEW p \in Proc, ask_user_about_lock(p), UNCHANGED <<forced, raced>>
      PROVE  TypeOK' /\ DeadInv'
  BY <1>5 DEF ask_user_about_lock
<1>6. ASSUME NEW p \in Proc, create_lock_file(p), UNCHANGED <<caller, data, raced>>
      PROVE  TypeOK' /\ DeadInv'
  <2>1. CASE At(p, "force")
    BY <1>6, <2>1 DEF create_lock_file
  <2>2. CASE At(p, "force-unlink")
    BY <1>6, <2>2 DEF create_lock_file
  <2>3. CASE At(p, "force-symlink")
    BY <1>6, <2>3 DEF create_lock_file
  <2>. QED  BY <1>6, <2>1, <2>2, <2>3 DEF create_lock_file
<1>7. ASSUME NEW p \in Proc, unlink(p), UNCHANGED <<forced, raced>>
      PROVE  TypeOK' /\ DeadInv'
  BY <1>7 DEF unlink
<1>8. ASSUME NEW p \in Proc, signal_before_change(p), UNCHANGED <<forced, raced>>
      PROVE  TypeOK' /\ DeadInv'
  BY <1>8 DEF signal_before_change
<1>9. ASSUME NEW p \in Proc, Command(p) PROVE TypeOK' /\ DeadInv'
  BY <1>9 DEF Command, prepare_to_modify_buffer, write_region, restore_buffer_modified_p,
       Ffile_locked_p, unlock_all_files, Crash, lock_file
<1>10. CASE UNCHANGED vars
  BY <1>10 DEF vars
<1>. QED
  BY <1>1, <1>2, <1>3, <1>4, <1>5, <1>6, <1>7, <1>8, <1>9, <1>10 DEF Next, Continue

(* Every step keeps the lock with its holder. *)
LEMMA StepKeptInv ==
  ASSUME IInv, [Next]_vars
  PROVE  KeptInv'
<1>. USE DEF IInv, TypeOK, DeadInv, KeptInv
<1>1. ASSUME NEW p \in Proc, read_lock_data(p), UNCHANGED <<forced, raced>>
      PROVE  KeptInv'
  BY <1>1 DEF read_lock_data
<1>2. ASSUME NEW p \in Proc, kill(p), UNCHANGED <<forced, raced>> PROVE KeptInv'
  BY <1>2 DEF kill, OwnerLives
<1>3. ASSUME NEW p \in Proc, zap(p) PROVE KeptInv'
  <2>1. ASSUME lockfile' = Nil, Return(p, "free"), UNCHANGED forced,
               raced' = IF lockfile \in {Nil, data[p]} THEN raced ELSE TRUE
        PROVE  KeptInv'
    BY <1>3, <2>1 DEF zap
  <2>2. ASSUME UNCHANGED <<lockfile, forced, raced>>, Return(p, "error")
        PROVE  KeptInv'
    BY <1>3, <2>2 DEF zap
  <2>. QED  BY <1>3, <2>1, <2>2 DEF zap
<1>4. ASSUME NEW p \in Proc, lock_if_free(p), UNCHANGED <<forced, raced>> PROVE KeptInv'
  BY <1>4 DEF lock_if_free
<1>5. ASSUME NEW p \in Proc, ask_user_about_lock(p), UNCHANGED <<forced, raced>>
      PROVE  KeptInv'
  BY <1>5 DEF ask_user_about_lock
<1>6. ASSUME NEW p \in Proc, create_lock_file(p), UNCHANGED <<caller, data, raced>>
      PROVE  KeptInv'
  BY <1>6 DEF create_lock_file
<1>7. ASSUME NEW p \in Proc, unlink(p), UNCHANGED <<forced, raced>> PROVE KeptInv'
  BY <1>7 DEF unlink
<1>8. ASSUME NEW p \in Proc, signal_before_change(p), UNCHANGED <<forced, raced>>
      PROVE  KeptInv'
  BY <1>8 DEF signal_before_change
<1>9. ASSUME NEW p \in Proc, Command(p) PROVE KeptInv'
  BY <1>9 DEF Command, prepare_to_modify_buffer, write_region, restore_buffer_modified_p,
       Ffile_locked_p, unlock_all_files, Crash, lock_file
<1>10. CASE UNCHANGED vars
  BY <1>10 DEF vars
<1>. QED
  BY <1>1, <1>2, <1>3, <1>4, <1>5, <1>6, <1>7, <1>8, <1>9, <1>10 DEF Next, Continue

(* Every variable keeps its type; only an owner that could be parsed is judged. *)
THEOREM TypeCorrect == Spec => []TypeOK
<1>1. Init => TypeOK /\ DeadInv  BY InitIInv DEF IInv
<1>2. TypeOK /\ DeadInv /\ [Next]_vars => TypeOK' /\ DeadInv'  BY StepTypeOK
<1>. QED  BY <1>1, <1>2, PTL DEF Spec

(* Whatever was left behind and whoever crashes, a process that was told it *)
(* has the lock has it, unless a user took a lock by force or a link was    *)
(* removed that is not the one judged obsolete.                             *)
THEOREM HolderKeepsLock == Spec => []LockKeptUnlessRaced
<1>1. IInv /\ [Next]_vars => IInv'
  BY StepTypeOK, StepKeptInv DEF IInv
<1>2. IInv => LockKeptUnlessRaced  BY DEF IInv, KeptInv, LockKeptUnlessRaced
<1>. QED  BY <1>1, <1>2, InitIInv, PTL DEF Spec
=============================================================================
