------------------------------ MODULE FileLock ------------------------------
(***************************************************************************)
(* The lock on one visited file (filelock.c), as several Emacs processes   *)
(* use it through the functions that edit, save, revert and exit.          *)
(*                                                                         *)
(* The lock is a symbolic link next to the file that names its owner.      *)
(* Creating it is atomic; everything else is a sequence of system calls    *)
(* with other processes running in between: readlink to see whose it is,   *)
(* kill to see whether that process lives, unlink to remove it.  One step  *)
(* is one such call together with the local code that follows it.          *)
(***************************************************************************)

CONSTANTS
  Proc,        \* Emacs processes; no process id is used twice
  hostOf,      \* the host each runs on
  Running,     \* those that run at the start: they run this program
  Booted,      \* those whose locks hold a boot time, written by other builds of Emacs
  Leftover,    \* what the lock file may hold at the start
  MayForce,    \* whether a user may answer that the lock be taken away
  MayEnd,      \* whether processes exit and crash
  MayFail,     \* whether symlink and unlink may fail, as in a read-only directory
  Nil

Invalid == "invalid"   \* contents that do not parse

ASSUME FileLockAssumption ==
  /\ DOMAIN hostOf = Proc
  /\ Running \subseteq Proc
  /\ Booted \subseteq Proc \ Running
  /\ Leftover \subseteq (Proc \ Running) \cup {Nil, Invalid}
  /\ {MayForce, MayEnd, MayFail} \subseteq BOOLEAN
  /\ Nil \notin Proc /\ Invalid \notin Proc /\ Nil # Invalid

VARIABLES
  lockfile,    \* the owner the link names, Invalid, or Nil if there is none
  alive,       \* processes that run
  pc,          \* the next system call of each
  caller,      \* inside current_lock_owner: the function that called it
  op,          \* what the process is doing with the file
  data,        \* inside current_lock_owner: the owner read, if it is to be judged
  modified,    \* processes whose buffer has SAVE_MODIFF < MODIFF
  belief,      \* how the process's last attempt to lock the file ended
  forced,      \* history: a user has had a lock taken away
  raced        \* history: a link was removed as obsolete that is not the one judged

vars == <<lockfile, alive, pc, caller, op, data, modified, belief, forced, raced>>

Pc == {"idle", "symlink", "readlink", "kill", "zap", "ask", "force", "force-unlink",
       "force-symlink", "change", "write", "unlink", "dead"}
Caller == {"none", "lock_file", "lock_if_free", "unlock_file", "file-locked-p"}
Op == {"none", "edit", "save", "fail", "discard", "exit"}
Belief == {"none", "held", "waived"}

TypeOK ==
  /\ lockfile \in Proc \cup {Nil, Invalid}
  /\ alive \in SUBSET Proc
  /\ pc \in [Proc -> Pc]
  /\ caller \in [Proc -> Caller]
  /\ op \in [Proc -> Op]
  /\ data \in [Proc -> Proc \cup {Nil}]
  /\ modified \in SUBSET Proc
  /\ belief \in [Proc -> Belief]
  /\ forced \in BOOLEAN
  /\ raced \in BOOLEAN

(* Every process that runs visits the file and has not changed it. *)
Init ==
  /\ lockfile \in Leftover
  /\ alive = Running
  /\ pc = [p \in Proc |-> IF p \in Running THEN "idle" ELSE "dead"]
  /\ caller = [p \in Proc |-> "none"]
  /\ op = [p \in Proc |-> "none"]
  /\ data = [p \in Proc |-> Nil]
  /\ modified = {}
  /\ belief = [p \in Proc |-> "none"]
  /\ forced = FALSE
  /\ raced = FALSE

-----------------------------------------------------------------------------
(* How the functions hand over to each other *)

At(p, c) == p \in alive /\ pc[p] = c

Goto(p, c) ==
  /\ pc' = [pc EXCEPT ![p] = c]
  /\ UNCHANGED <<alive, op, modified, belief>>

(* who calls current_lock_owner, which begins with read_lock_data. *)
CallLockOwner(p, who, o) ==
  /\ pc' = [pc EXCEPT ![p] = "readlink"]
  /\ caller' = [caller EXCEPT ![p] = who]
  /\ op' = [op EXCEPT ![p] = o]

(* The command ends and leaves the buffer as it was. *)
Quit(p) ==
  /\ pc' = [pc EXCEPT ![p] = "idle"]
  /\ op' = [op EXCEPT ![p] = "none"]
  /\ UNCHANGED <<alive, modified, belief>>

(* lock_file returns, with the lock or without, and its caller goes on. *)
Locked(p, how) ==
  /\ belief' = [belief EXCEPT ![p] = how]
  /\ pc' = [pc EXCEPT ![p] = IF op[p] = "edit" THEN "change" ELSE "write"]
  /\ UNCHANGED <<alive, op, modified>>

(* unlock_file returns.  A buffer that was saved or whose changes were given *)
(* up counts as unmodified, after a write error it does not.                 *)
Unlocked(p) ==
  /\ belief' = [belief EXCEPT ![p] = "none"]
  /\ op' = [op EXCEPT ![p] = "none"]
  /\ modified' = IF op[p] = "fail" THEN modified ELSE modified \ {p}
  /\ alive' = IF op[p] = "exit" THEN alive \ {p} ELSE alive
  /\ pc' = [pc EXCEPT ![p] = IF op[p] = "exit" THEN "dead" ELSE "idle"]

(* The file has changed on disk since it was visited: unless the lock is     *)
(* one's own the user is asked, and may end the command.                     *)
SupersessionVerdict(p, verdict) ==
  \/ Goto(p, "symlink")
  \/ verdict # "mine" /\ Quit(p)

LockVerdict(p, verdict) ==
  \/ verdict = "free" /\ Goto(p, "symlink")
  \/ verdict = "mine" /\ Locked(p, "held")
  \/ verdict = "another" /\ Goto(p, "ask")
  \/ verdict = "error" /\ Locked(p, "waived")

(* Mutant: unlock_file removes a lock whoever owns it. *)
UnlockVerdict_Any(p, verdict) ==
  IF verdict \in {"mine", "another"} THEN Goto(p, "unlink") ELSE Unlocked(p)

UnlockVerdict(p, verdict) ==
  IF verdict = "mine" THEN Goto(p, "unlink") ELSE Unlocked(p)

(* What its caller makes of the value current_lock_owner returns. *)
Return(p, verdict) ==
  /\ \/ caller[p] = "lock_file" /\ SupersessionVerdict(p, verdict)
     \/ caller[p] = "lock_if_free" /\ LockVerdict(p, verdict)
     \/ caller[p] = "unlock_file" /\ UnlockVerdict(p, verdict)
     \/ caller[p] = "file-locked-p" /\ Quit(p)
  /\ caller' = [caller EXCEPT ![p] = "none"]
  /\ data' = [data EXCEPT ![p] = Nil]

-----------------------------------------------------------------------------
(* current_lock_owner *)

(* Mutant: contents that do not parse are taken for an owner all the same. *)
read_lock_data_Unparsed(p) ==
  /\ At(p, "readlink")
  /\ \/ lockfile = Nil /\ Return(p, "free")
     \/ lockfile = p /\ Return(p, "mine")
     \/ lockfile \in Proc \ {p} /\ hostOf[lockfile] # hostOf[p] /\ Return(p, "another")
     \/ /\ \/ lockfile = Invalid
           \/ lockfile \in Proc \ {p} /\ hostOf[lockfile] = hostOf[p]
        /\ Goto(p, "kill")
        /\ data' = [data EXCEPT ![p] = lockfile]
        /\ UNCHANGED caller
  /\ UNCHANGED lockfile

(* The link is read; what can be told from its contents is told at once.    *)
read_lock_data(p) ==
  /\ At(p, "readlink")
  /\ \/ lockfile = Nil /\ Return(p, "free")
     \/ lockfile = Invalid /\ Return(p, "error")
     \/ lockfile = p /\ Return(p, "mine")
     \/ lockfile \in Proc \ {p} /\ hostOf[lockfile] # hostOf[p] /\ Return(p, "another")
     \/ lockfile \in Proc \ {p} /\ hostOf[lockfile] = hostOf[p]
        /\ Goto(p, "kill")
        /\ data' = [data EXCEPT ![p] = lockfile]
        /\ UNCHANGED caller
  /\ UNCHANGED lockfile

(* Mutant: a lock without a boot time is taken for one of an earlier boot. *)
OwnerLives_BootNeeded(p) == data[p] \in alive /\ data[p] \in Booted

(* Mutant: any process found with the id of the owner passes for the owner. *)
OwnerLives_Always(p) == TRUE

(* The owner answers to kill, and the lock has no boot time: get_boot_sec is *)
(* 0 in this program, which is never the boot time of a lock that has one.   *)
OwnerLives(p) == data[p] \in alive /\ data[p] \notin Booted

kill(p) ==
  /\ At(p, "kill")
  /\ \/ OwnerLives(p) /\ Return(p, "another")
     \/ ~OwnerLives(p) /\ Goto(p, "zap") /\ UNCHANGED <<caller, data>>
  /\ UNCHANGED lockfile

(* "Try to zap the lockfile": whatever link has the name now is removed. *)
zap(p) ==
  /\ At(p, "zap")
  /\ \/ /\ lockfile' = Nil /\ Return(p, "free")
        /\ raced' = IF lockfile \in {Nil, data[p]} THEN raced ELSE TRUE
     \/ MayFail /\ lockfile # Nil /\ UNCHANGED <<lockfile, raced>> /\ Return(p, "error")
  /\ UNCHANGED forced

-----------------------------------------------------------------------------
(* lock_file and unlock_file *)

(* One turn of the loop of lock_if_free. *)
lock_if_free(p) ==
  /\ At(p, "symlink")
  /\ \/ lockfile = Nil /\ lockfile' = p /\ Locked(p, "held") /\ UNCHANGED caller
     \/ /\ lockfile # Nil
        /\ CallLockOwner(p, "lock_if_free", op[p])
        /\ UNCHANGED <<lockfile, alive, modified, belief>>
     \/ MayFail /\ Locked(p, "waived") /\ UNCHANGED <<lockfile, caller>>
  /\ UNCHANGED data

(* The user takes the lock away, goes on without it, or ends the command. *)
ask_user_about_lock(p) ==
  /\ At(p, "ask")
  /\ \/ MayForce /\ Goto(p, "force")
     \/ Locked(p, "waived")
     \/ Quit(p)
  /\ UNCHANGED <<lockfile, caller, data>>

(* create_lock_file with FORCE: symlink, and if the name exists unlink and  *)
(* symlink again.  lock_file ignores a failure.                             *)
create_lock_file(p) ==
  \/ /\ At(p, "force")
     /\ \/ lockfile = Nil /\ lockfile' = p /\ Locked(p, "held")
        \/ lockfile # Nil /\ UNCHANGED lockfile /\ Goto(p, "force-unlink")
        \/ MayFail /\ UNCHANGED lockfile /\ Locked(p, "waived")
     /\ UNCHANGED forced
  \/ /\ At(p, "force-unlink")
     /\ \/ lockfile' = Nil
        \/ MayFail /\ UNCHANGED lockfile
     /\ forced' = TRUE
     /\ Goto(p, "force-symlink")
  \/ /\ At(p, "force-symlink")
     /\ \/ lockfile = Nil /\ lockfile' = p /\ Locked(p, "held")
        \/ (lockfile # Nil \/ MayFail) /\ UNCHANGED lockfile /\ Locked(p, "waived")
     /\ UNCHANGED forced

(* unlock_file found the lock to be its own. *)
unlink(p) ==
  /\ At(p, "unlink")
  /\ \/ lockfile' = Nil
     \/ MayFail /\ lockfile # Nil /\ UNCHANGED lockfile
  /\ Unlocked(p)
  /\ UNCHANGED <<caller, data>>

-----------------------------------------------------------------------------
(* The commands that use them *)

(* lock_file: with the file unchanged on disk there is nothing to ask. *)
lock_file(p, o) ==
  \/ CallLockOwner(p, "lock_file", o)
  \/ /\ pc' = [pc EXCEPT ![p] = "symlink"]
     /\ op' = [op EXCEPT ![p] = o]
     /\ UNCHANGED caller

(* The first change to an unmodified buffer locks the file it visits. *)
prepare_to_modify_buffer(p) ==
  /\ At(p, "idle") /\ p \notin modified
  /\ lock_file(p, "edit")
  /\ UNCHANGED <<lockfile, alive, data, modified, belief>>

(* The change is made, unless a function of before-change-functions signals *)
(* an error after the file has been locked.                                 *)
signal_before_change(p) ==
  /\ At(p, "change")
  /\ \/ modified' = modified \cup {p}
     \/ UNCHANGED modified
  /\ pc' = [pc EXCEPT ![p] = "idle"]
  /\ op' = [op EXCEPT ![p] = "none"]
  /\ UNCHANGED <<lockfile, alive, caller, data, belief>>

(* write-region locks the file for the time of the write and unlocks it in  *)
(* every case: "save" visits the file and succeeds, "fail" stands for a     *)
(* write error and for a write without VISIT.                               *)
write_region(p) ==
  \/ /\ At(p, "idle")
     /\ lock_file(p, "save")
     /\ UNCHANGED <<lockfile, alive, data, modified, belief>>
  \/ /\ At(p, "write")
     /\ \E o \in {"save", "fail"} : CallLockOwner(p, "unlock_file", o)
     /\ UNCHANGED <<lockfile, alive, data, modified, belief>>

(* A modified buffer is reverted, killed or declared unmodified. *)
restore_buffer_modified_p(p) ==
  /\ At(p, "idle") /\ p \in modified
  /\ CallLockOwner(p, "unlock_file", "discard")
  /\ UNCHANGED <<lockfile, alive, data, modified, belief>>

Ffile_locked_p(p) ==
  /\ At(p, "idle")
  /\ CallLockOwner(p, "file-locked-p", "none")
  /\ UNCHANGED <<lockfile, alive, data, modified, belief>>

(* kill-emacs: only the files of modified buffers are unlocked. *)
unlock_all_files(p) ==
  /\ MayEnd /\ At(p, "idle")
  /\ \/ /\ p \in modified
        /\ CallLockOwner(p, "unlock_file", "exit")
        /\ UNCHANGED <<alive, belief>>
     \/ /\ p \notin modified
        /\ alive' = alive \ {p}
        /\ pc' = [pc EXCEPT ![p] = "dead"]
        /\ belief' = [belief EXCEPT ![p] = "none"]
        /\ UNCHANGED <<caller, op>>
  /\ UNCHANGED <<lockfile, data, modified>>

(* The process is killed between any two steps. *)
Crash(p) ==
  /\ MayEnd /\ p \in alive
  /\ alive' = alive \ {p}
  /\ pc' = [pc EXCEPT ![p] = "dead"]
  /\ belief' = [belief EXCEPT ![p] = "none"]
  /\ modified' = modified \ {p}
  /\ caller' = [caller EXCEPT ![p] = "none"]
  /\ op' = [op EXCEPT ![p] = "none"]
  /\ data' = [data EXCEPT ![p] = Nil]
  /\ UNCHANGED lockfile

(* The steps of a command under way. *)
Continue(p) ==
  \/ zap(p)
  \/ create_lock_file(p) /\ UNCHANGED <<caller, data, raced>>
  \/ /\ UNCHANGED <<forced, raced>>
     /\ \/ read_lock_data(p)
        \/ kill(p)
        \/ lock_if_free(p)
        \/ ask_user_about_lock(p)
        \/ unlink(p)
        \/ signal_before_change(p)

Command(p) ==
  /\ UNCHANGED <<forced, raced>>
  /\ \/ prepare_to_modify_buffer(p)
     \/ write_region(p)
     \/ restore_buffer_modified_p(p)
     \/ Ffile_locked_p(p)
     \/ unlock_all_files(p)
     \/ Crash(p)

Next == \E p \in Proc : Continue(p) \/ Command(p)

Spec == Init /\ [][Next]_vars

-----------------------------------------------------------------------------
(* Correctness *)

(* A process that was told it has the lock has it, although others come,     *)
(* crash, leave locks behind and fail: nobody else locks the file, zaps the  *)
(* lock of a process that lives, or unlocks it in its place.  The two ways   *)
(* to lose it are a user who takes it by force and the race that the three   *)
(* calls readlink, kill and unlink leave open (see NoRaceUnforced).          *)
LockKeptUnlessRaced ==
  ~forced /\ ~raced => \A p \in Proc : belief[p] = "held" => lockfile = p

(* "Race conditions can occur with either: Forced locks on MS-Windows        *)
(* systems; non-forced locks on non-MS-Windows systems that support neither  *)
(* hard nor symbolic links" (filelock.c:105-110).  With symbolic links it    *)
(* should hold and does not: of two processes that find the lock of a dead   *)
(* one, the slower removes the lock the faster has just made.                *)
NoRaceUnforced ==
  ~forced => \A p \in Proc : belief[p] = "held" => lockfile = p

-----------------------------------------------------------------------------
(* Liveness *)

(* System calls return: a process that has begun a command goes on with it. *)
Fairness == \A p \in Running : WF_vars(Continue(p))

FairSpec == Spec /\ Fairness

(* The lock names a process of p's host that has died. *)
Stale(p) == lockfile \in Proc \ alive /\ hostOf[lockfile] = hostOf[p]

(* The lock of a process that died is removed as soon as another process    *)
(* of the same host tries to lock the file, unless that one dies as well or *)
(* goes on without the lock because a system call failed.                   *)
StaleLockRemoved ==
  \A p \in Running :
    At(p, "symlink") /\ Stale(p) ~> ~Stale(p) \/ p \notin alive \/ belief[p] = "waived"
=============================================================================
