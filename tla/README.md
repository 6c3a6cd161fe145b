# Verification of the umacs core

umacs is GNU Emacs cut down to its C core (`src/src/*.c`, built by
`src/CMakeLists.txt` for macOS with threads, kqueue, the portable dumper and
dynamic modules).  This directory models the parts of that core whose
correctness depends on order: who runs when, who owns what, what is left
behind when a step is interrupted, and what a cached or postponed correction
is worth when it is used.  The modules are TLA+, model-checked with TLC
on small instances; the theorems are checked by TLAPS for every instance.

Nine subsystems are modelled: **Lisp threads**, the **file lock**,
**kill-buffer among threads**, the **keyboard buffer**, the **text of a buffer**
(gap, markers, undo, newline cache), its **overlays**, **subprocesses**,
**dynamic binding** and **hash tables**.

Contents: [1 The system](#1-the-system) · [2 The modules](#2-the-modules) ·
[3 The runs](#3-the-runs) · [4 What is proved](#4-what-is-proved) ·
[5 Disagreements found](#5-disagreements-found) · [6 What is not modelled](#6-what-is-not-modelled) ·
[7 Plan](#7-plan)

## 1 The system

Lisp is the user of the C core: any Lisp program may call any primitive at any
time it runs, and it runs at the places where C calls it (hooks, filters,
sentinels, timers, predicates).  The models therefore let Lisp choose freely
among the primitives of the component, and make explicit where C gives control
away half way through an operation.

| Component | Source | State | Operations | Hard part | Correct when |
|---|---|---|---|---|---|
| Lisp threads | thread.c, systhread.c | `global_lock`, `current_thread`, each thread's let-bindings, pending signal, wait; mutexes | make-thread, mutex-lock/-unlock, condition-wait/-notify, thread-signal, thread-join, thread-yield, select, exit | every interleaving at the points that give up the lock; an error raised while the lock is taken back | the holder of the lock is current and alone bound; no wake-up is lost; condition-wait relocks |
| File lock | filelock.c, called by insdel.c, fileio.c, buffer.c, emacs.c | the link on disk; who believes to own it | lock-file, unlock-file, file-locked-p, save, revert, exit | several processes, every system call a step; dead owners | who was told it has the lock has it; only dead owners' locks are removed |
| Buffers and threads | buffer.c, thread.c | live buffers, current buffer and disposition of each thread | kill-buffer, set-buffer, make-thread | kill-buffer runs Lisp four times | nobody is in a dead buffer; attached buffers stay |
| Keyboard buffer | keyboard.c, process.c | ring of events, two pointers, the hold | store, read the terminal, get, discard, suspend | the full ring; readers inside readers; the hold | a queue; no character lost; no hold for ever |
| Gap buffer and markers | insdel.c, marker.c, casefiddle.c | text on two sides of a gap, point, markers, modiff, what redisplay may skip | insert, delete, replace, change case, move the gap | every position is kept twice, in characters and bytes; hooks in the middle; a quit while the gap moves | a string with positions |
| Undo | undo.c | the undo list | record_insert, record_delete, undo-boundary, primitive-undo | insertions merged into a record left by something else | undoing restores text and markers |
| Region cache | region-cache.c, search.c | boundaries, unchanged head and tail | know, invalidate, query | corrected only when next used | never claims what was edited |
| Overlays | itree.c, buffer.c | red-black tree with postponed shifts | make, move, delete, edits, queries, iteration | rotations and removals on nodes that are out of date | a set of intervals |
| Subprocesses | process.c | status, ticks, descriptors, `deleted_pid_list` | SIGCHLD, status_notify, make-, delete-, continue-process, waiting | signal against loop; Lisp inside the loop | each change is reported once, after the output; each child reaped once |
| Dynamic binding | eval.c, data.c, buffer.c, thread.c | one place per variable, specpdl of each thread, the loaded buffer-local value | let, set, default values, local values, switch of threads | values exchanged at each switch; values loaded late | bindings belong to a thread and end as they began |
| SIGINT | keyboard.c, thread.c | `Vquit_flag`, `not_holding_lock`, signal mask | handle_interrupt, maybe_reacquire_global_lock | a handler that becomes the current thread | one thread runs |
| Timers | atimer.c | sorted list, stopped list, alarm | start, cancel, stop/run others, run | callbacks change the lists | a ripe timer runs; a cancelled one does not |
| Hash tables | fns.c | chains, free list, `mutable` | gethash, puthash, remhash, clrhash, maphash, sweep | Lisp comparison inside the walk | a dictionary |
| Sorting | sort.c | run stack | merge_at, found_new_run, galloping | Lisp predicate that throws | a stable sort |
| Everything else | see section 6 | | | | |

How they interact: all Lisp of all threads runs under `global_lock`
(`Threads`); a switch of threads exchanges their let-bindings and the current
buffer (`Specpdl`); `kill-buffer` runs Lisp under that lock and so gives other threads
a turn (`KillBuffer`, which treats a stretch without a turn as one step and
relies on what `Threads` shows); editing commands call the file lock
(`FileLock`) and hooks before they touch the text (`GapBuffer`), and adjust markers, undo
list, caches and overlays (`BufferOverlays`) as they do; the command loop takes events
from the keyboard buffer (`KbdBuffer`), whose waiting readers run timers, other
threads and, through `wait_reading_process_output`, filters and sentinels (`Processes`).

## 2 The modules

| Module | Role |
|---|---|
| `Threads` | the component; one action per primitive and one per return of the global lock |
| `FileLock` | the component; one action per system call, plus the commands that lock |
| `KillBuffer` | composes buffer.c and thread.c: kill-buffer cut at the places where it calls Lisp |
| `InputQueue` | abstract specification: a bounded queue of events |
| `KbdBuffer` | the ring and its readers; implements `InputQueue` |
| `TextBuffer` | abstract specification: a string, point and markers |
| `UndoList`, `RegionCache` | undo.c and region-cache.c as operators on their data |
| `GapBuffer` | composes them with insdel.c and the newline scan; implements `TextBuffer` |
| `Overlays` | abstract specification: a set of intervals |
| `Itree` | itree.c as operators on a tree |
| `BufferOverlays` | the overlays of a buffer on that tree; implements `Overlays` |
| `Processes` | the component; a stack of activations against SIGCHLD |
| `DynamicBinding` | abstract specification: every thread has its own stack of bindings |
| `Specpdl` | data.c and eval.c: one place per value and exchanges; implements `DynamicBinding` |
| `Dictionary` | abstract specification: keys, values, operations at once |
| `HashTable` | fns.c: chains, free list, the guard while the test runs; implements `Dictionary` |
| `MC...` | the instances for TLC |
| `ThreadsProofs`, `FileLockProofs`, `KillBufferProofs`, `KbdBufferProofs`, `ProcessesProofs`, `GapBufferProofs`, `SpecpdlProofs` | theorems about the module named |
| `InvalidationProofs` | theorems about what redisplay skips and what the newline cache knows, over `GapBufferProofs` |

Definitions are named after the C functions they stand for.  A definition with
a suffix after an underscore and the comment "Mutant" is a broken variant that
shows what the property it is paired with would catch; nothing uses it.

### Threads

A step is a stretch of C and Lisp code between two places where the thread may
lose the lock.  `pc[t]` names the function that gave it up; `"lisp"` is running,
`"raise"` is running with an error on its way to a handler.
`post_acquire_global_lock` is shared by every action that has (or takes) the
lock, as in the code: it makes the thread current, swaps let-bindings, and
raises a pending signal if the thread has a handler yet.  Let-bindings are a set
`bound` of the threads whose bindings are swapped in; `specpdl_unrewind` toggles
membership, because swapping twice restores (what the swap does to values is in
`Specpdl`).  Taking the lock for a moment and
releasing and taking it without anybody else able to tell (`mutex-unlock`,
`condition-notify`) is one step.  A condition variable is named by its owner
object, since a mutex, a condition and a thread have one each.

Abstracted: names, buffers of threads (in `KillBuffer` and `Specpdl`),
marking for the collector, the main thread's signal event.  `thread_select`'s
waiting is a thread outside the lock; how it wakes belongs to process.c.
`MaxCount` bounds the nesting of one mutex.

### FileLock

The link's contents are the process it names (or unreadable text).  Each of
`readlink`, `kill`, `unlink` and `symlink` is a step of its own with everything
local that follows it up to the next call; other processes run in between.
`caller` remembers which function called `current_lock_owner`, `op` the command.
`Running` are the processes that are up in the beginning; the others only own
locks left behind.
A lock left behind may name a process of another host or a dead one of the same host, may not parse, or may
be missing.  `Booted` are the processes whose locks hold a boot time: none that runs this program, as
`get_boot_sec` always returns 0 here, but other Emacs versions write one.
`MayForce`, `MayEnd` and `MayFail` switch stealing, exits and crashes, and failing
system calls on or off.  `belief` records what `lock_file` last told the process.  `forced` and `raced` are history: a user
has had a lock taken away; `zap` has removed a link that was not the one judged.

Abstracted: user names, the nonce and rename used where links cannot be made,
empty lock files, `create-lockfiles` = nil, file-name handlers, reuse of process
ids; a process of another build that runs at the same time.  A missing supersession check (file unchanged on disk) is the second way
into `lock_file`.

### KillBuffer

kill-buffer is `Fkill_buffer` (up to the query functions), `QueryReturns`,
`HookReturns`, `WindowsReplaced` and `ProcessesKilled`; between them other threads
and other calls of kill-buffer run.  Once the threads are told, kill-buffer may still return without removing the
buffer (`RemoveBuffer`): it gives up for the sake of the minibuffer, and a quit while the frames forget it ends
it.  `unbind_to` returns to the buffer saved by
the excursion, if it lives.  `LateLisp` are the buffers with a locked file or a
process, for which Lisp code runs between the last
check of the threads and the removal of the buffer (unlocking its file, the
sentinels of its processes); `LateYield` says whether that code may let another thread run.

Abstracted: a kill-buffer that a hook of the same thread calls inside another
one, indirect buffers, when the minibuffer tests give up (they may at any time), which windows show the buffer,
and re-creation of `*scratch*` (`Home` is the buffer that is always there).  A
new thread gets its first signal when it first runs, as any other does.

### KbdBuffer and InputQueue

`kbd_fetch_ptr` and `kbd_store_ptr` are indices into the ring.  The terminal delivers
characters numbered in the order typed; `Note` stands for every event that is no
character (file changes, signals to the main thread, focus).  One read of the
terminal is `tty_read_avail_input`, which takes as many characters as there is
room for, followed by one `StoreChar` per character; nothing else but more typing
happens meanwhile.  A reader that finds nothing waits; while it waits, Lisp runs
and may read itself, so `depth` counts readers that wait.  `Unhold` is in
`kbd_buffer_get_event` only where the code has it: at the entry, not in the loop.
`got` and `gone` are history: the last character Lisp has read, and those thrown
away by `C-g`, `discard-input` and suspending.  What free slots contain is
normalised to `Note` (the code clears the event it takes and never looks at a
free slot).  `MayDiscardInWait` says whether Lisp run by a waiting reader may
discard the input.

The refinement `IsInputQueue` maps the slots between the pointers, unrolled
across the end of the array, to the abstract queue: every store is a `Put` or
nothing, every take a `Take`, and discarding empties it.

Abstracted: one keyboard and one frame (so no switch-frame event that stays in
the buffer when read), `Vunread_command_events`, mouse motion, multibyte
events delivered in parts, the emergency escape on a second `C-g`, the stop
character, keyboard macros.  In `while-no-input` any event may set the quit flag,
so `kbd_buffer_store_event` may set it at will.

### GapBuffer, UndoList, RegionCache and TextBuffer

`buf` is `struct buffer` with its text; every C function is an operator from one
`buf` to the next, made of the operators of the functions it calls in their
order, and an action is one editing primitive as Lisp calls it.  A position is the
pair of its character and byte number, and both are changed by the code's own
arithmetic, never recomputed where the code does not; `PositionsAgree` says they
stay in step.  The undo list holds the records of undo.c; `primitive_undo` is that
of `src/bin/lisp/simple.el`, the other half of what undo.c writes.  A region cache is its sequence of boundaries, each a
position and a value (their positions relative to the cache's own gap are
left out), and `invalidate_region_cache` only lowers two numbers, as in the code.

A deletion under a before-change hook is two steps, `prepare_to_modify_buffer` (the hook has
run and inserted something) and `del_range_1`; Lisp runs in between, but what it could do is
already the choice of the first.  A quit while the gap moves leaves it on the way.
`hooked`, `ahead` and `shown` are history, for properties that hold under a stated condition.

A behaviour looks at one thing (`Setups`: markers, undo, cache or display), because the
product of all four is the same four questions asked of many more states.

Abstracted: the room in the gap, `make_gap` and memory errors; narrowing; text
properties and intervals; the cache of recent character positions; a gap that a quit leaves
inside a character; the gap tail of a decoder; `truncate_undo_list`; the
backward scan through the cache; `modiff_incr` only for the lengths that occur.

### Itree, BufferOverlays and Overlays

A tree is its root and the fields of every node.  `otick` is kept as `clean`, whether the node's
tick is the tree's, the only question asked of it.  Left and right are picked by
name, so that a case and its mirror image are one definition; where the code
differs between them (the order of the two limits in `itree_rotate_right`), so does the
definition.  Iterators return the tree as well as the nodes, because going through
a tree brings nodes up to date.  The actions are the Lisp primitives and what insdel.c
calls on each edit; `Promise` maps each node to its interval with all waiting shifts
added, and every insertion, deletion, move and edit must do to the intervals what
`Overlays` says, every query nothing.

Abstracted: a node that is in no tree is `Loose`; moving an overlay to another buffer (a deletion
and an insertion); the region told to redisplay, properties other than evaporation, sorting, hooks;
`size`; the clipping at `PTRDIFF_MAX`; several trees over one text (indirect buffers).

### Processes

Only the initial thread.  `stack` holds the activations of Lisp, of
`wait_reading_process_output` and of `status_notify`, as deep as filters and
sentinels nest them; a step is what the last one does between two places
where SIGCHLD makes a difference, and the handler may run between any two steps.  `update_status`
is two steps, since the handler may come between the conversion of the status word
and the flag that says it is new.  A tick is kept as whether it differs from the
one it is compared with.  `Vprocess_alist` is a linked list, and a removed cell keeps its
cdr: that is what lets a loop go on that stands on it.
A child has a state, a change nobody has waited for (`news`, as waitpid
reports it), output in its pipe, and what it may still do.

`excused` is history: a process that Lisp deleted, or whose loop a throw cut short, need not
be told (`Told`); one whose news were overwritten need not have a true status (`Known`); one
whose connection broke need not be on record (`Recorded`).  `MaxOutput`, `MaxStops`, `MaxCalls` and `MaxDepth` are bounds.

Abstracted: network, serial and pipe connections, call-process, waiting for one process or for
a time, filter t, how much is read at once, several Lisp threads; the two places where
`wait_reading_process_output` calls `status_notify` (process.c:5089–5118 and 5383) are one action `Check`.

### Specpdl and DynamicBinding

One variable of one of three kinds (plain, forwarded to a C variable, in a slot of every buffer), which
may become local in any buffer.  `sym` has the fields of the symbol and of its
`Lisp_Buffer_Local_Value`; `where` and `valcell` say which buffer's value is loaded, and
`found` is whether `valcell` is not the default.  `Orphan` is the cell of a killed buffer
that is still loaded.  `SwitchThread` is what `post_acquire_global_lock` does: entry by entry the
values in effect and the values shadowed change places, first out, then in.

`DynamicBinding` knows no such exchange: every thread has its own frames over shared base values, and a switch
of threads is no step at all.  The mapping finds the base value below the lowest entry
that shadows it.  `broken` is history: the code gives the promise up when a value that is let-bound is
killed (its entry is then skipped), when C assigns its variable while another buffer's value is in it,
and when make-local-variable copies a default that is out of date.  `ImplementsDynamicBinding` holds until then.

Abstracted: unwind forms except as Lisp that runs between two entries, catch and throw themselves (they
are as many `Unbind`), `backtrace-eval`, watchers, aliases, keyboard-local and permanent-local variables.

### HashTable and Dictionary

One table.  `h` has the vectors of `struct Lisp_Hash_Table`; `calls[t]` are the operations thread `t`
is in the middle of, each in the user's hash function, in the user's test at an entry of the walk, or in the function
of maphash.  A step goes from one call of such a function to the next or to the end of the operation; in
between everything may happen: operations on the table by the function itself or by another thread, a throw through
any number of them (`Throws`), a collection (`sweep_weak_table`, if nobody inhibits it).  puthash, remhash and clrhash
ask for `mutable`; gethash does not.  `guard` says that an operation made the table immutable and will make
it mutable again; `exposed` is history: the table was mutable during the comparison.  Which entries a weak table loses is
left open, as is what memory that was never written holds.  With the test `equal` no Lisp runs and each operation is a step;
such a table may also come out of the dump (`hash_table_thaw`), full.

`Dictionary` has an entry per class of keys that are the same.  The mapping reads it off the entries in use.
A lookup that was exposed promises nothing; all others, and all changes, take place in their last step.
User tests are taken to be equivalences, with hash functions that agree with them, as define-hash-table-test asks.

Abstracted: the values of hash codes (`knuth_hash` is any function into the index; the instances keep the low bits),
copying, `eq` tables, the marking half of the sweep.  `min_size` is 6 in the code.  `MaxCalls` is a bound.

## 3 The runs

Every property of a passing run has a mutant in PROJECT.json: a plausible bug
in one definition that makes TLC find the property violated.

| Run | Instance | Shows |
|---|---|---|
| `threads` | 3 threads, 1 mutex, 1 condition, nesting 2 | `TypeOK`, `CurrentThreadRuns`, `NoLostWakeup`, `SignalFindsSleeper`, `ConditionWaitRelocks` |
| `threads_live` | 2 threads, 1 mutex, 1 condition | `SignalEndsWait`, `JoinEnds` |
| `filelock` | 2 processes on a host; locks left by a dead third on it and by a fourth elsewhere; exits, crashes, force, failing calls | `TypeOK`, `LockKeptUnlessRaced`, `StaleLockRemoved` |
| `killbuffer` | 2 threads, 3 buffers, one with late Lisp that keeps the lock | `TypeOK`, `CurrentBufferIsLive`, `AttachedBufferStays` |
| `kbd` | ring of 8, 8 characters, one `C-g`, 1 note, depth 1 | `TypeOK`, `NoKeyLost`, `HeldOnlyWithInput`, `IsInputQueue`, `AllTaken` |
| `text` | texts of 1 or 2 characters of 1 and 3 bytes, 2 markers, up to 3 edits | `PositionsAgree`, `UndoRestores`, `CacheSoundUnlessHooked`, `UnchangedIsUnchangedUnlessAhead`, `ImplementsText` |
| `text_cache` | the same | violates `KnownHasNoNewline` |
| `overlays` | 3 overlays with all properties in a text of up to 2 characters; 6 plain ones in one of up to 1 | `check_tree`, `IterationFindsRange`, `AnswersAsDocumentedUnlessEqualEnds`, `ImplementsOverlays` |
| `processes` | 2 children, one that writes and is stopped; 2 deletions, continuations, cuts or throws; Lisp 3 deep | `TypeOK`, `NeverReapedTwice`, `ChildrenRecordedUnlessBroken`, `StatusTruthful`, `SleepsInformed`, `OutputReadBeforeExit` |
| `bindings` | 2 threads, 2 buffers, 2 values, each kind of variable, 2 bindings | `TypeOK`, `ImplementsDynamicBinding` |
| `hashtable` | 2 threads, 2 operations, 3 keys of which 2 are the same, same or different hashes, tables of 0 to 2 entries that grow to 4 | `TypeOK`, `MapMissesNothing`, `ImplementsDictionary` |
| `hashtable_walk` | the same, with a user test, not weak | violates `WalksOnChain` |

**Why the bounds are enough.**  Three threads are the least with an owner, a
waiter and one that signals or wakes; the third also separates waking one waiter
from waking all.  One mutex and one condition made with it give every
interaction of condition-wait, since a thread waits for one object at a time;
nesting 2 tells a restored count from a count of one.  Liveness needs a
signaller and a signalled thread only.  For the file lock, two processes that compete
for a file with a lock left behind give every pair of owner and newcomer, on one host and on two, and the
race of two that both find a dead owner.  For kill-buffer, two buffers killed at once besides
`Home` (so that the place a thread is sent to may itself be dying) with two threads.
The ring has eight slots, the least multiple of four
in which a quarter (2) exceeds the nesting of waiting readers (1) as it does in
the code (1024 against any nesting that fits the stack), so all the thresholds
are distinct; eight characters and a note fill it, wrap it around and overflow
it.

A text of two characters, one of them of three bytes, and one edit on it give
every order of two markers, point, the gap and both ends of the edit, in characters and in bytes, and
`DeletionUndone` looks one deletion further; two edits
with boundaries, saves and moves of point between them give each pair of adjacent records in the undo
list; up to three edits give one before, between and after two uses of the cache, and two between two redisplays.
Six nodes are needed for removal: with five, a rotation case of `itree_remove_fix` that is
left out goes unnoticed, with six every case of it fires; three overlays of different kinds are
enough for the rules at the edges, since they concern one overlay at a time.  Two children are
the least for a loop that stands on one while the other is removed, and three activations
of Lisp a sentinel within a filter within Lisp.  Two bindings on all stacks together are one
each for two threads or two nested in one, local and default in either order.
Two operations on a hash table are one inside the other or one in each thread; two classes of keys make a chain with a
middle and an end, in one bucket before the table grows and in one or two afterwards.

`Permutations` symmetry is used only in runs of invariants and action
properties without liveness.  In `overlays` a view takes its place: two trees of the same shape with the same
fields are one state, whichever plain overlays their nodes are.

**Deadlock** is checked except in the file-lock runs, in which every process may have
exited, and in those of the text, where edits stop at their bound.

**Fairness.**  `Threads`: strong fairness of `Resume(t)` (a thread that waits for
the global lock gets it in the end: the OS mutex starves nobody) and of
`Fthread_yield` (Lisp that runs again and again yields now and then: a thread that
never does keeps all others out, by design of the global lock); an error is handled or ends
the thread.  `FileLock`: a system call returns and the command goes on, for a process that
lives.  `KbdBuffer`: the terminal is polled (strong, as a hold comes and goes); the
characters of one read are stored; Lisp a waiting reader runs ends; a reader
looks at the ring before it runs more Lisp (strong, as Lisp keeps interrupting
it: `wait_reading_process_output` returns when input is there, and the loop of
`kbd_buffer_get_event` tests the pointers on every turn).  `AllTaken` further needs that
other sources alone do not keep a quarter of the ring full: with two notes in a
ring of eight, a program that suspends and stores notes for ever can keep the hold.
The other specifications state no fairness; that no change of a process is forgotten
is a safety property, `SleepsInformed`, about the moments in which Emacs sleeps.

What the properties say, in short:

* `CurrentThreadRuns`: the holder of the lock is `current_thread` and exactly its
  let-bindings are in effect, across exits, signals and idle moments.
* `NoLostWakeup`, `SignalFindsSleeper`: nobody sleeps for what is already free or
  dead, or with a signal pending; the condition thread-signal broadcasts is the one slept on.
* `ConditionWaitRelocks`: condition-wait ends with the mutex relocked as deep as before, whatever ended it.
* `LockKeptUnlessRaced`: who was told it has the lock has it, whoever crashes, fails or left a lock, until a user steals one
  or a link is zapped that is not the one judged (the race of section 5).  `StaleLockRemoved`: the lock of a dead process goes.
* `CurrentBufferIsLive`, `AttachedBufferStays`: the promises of make-thread's doc string.
* `NoKeyLost`: all characters taken from the terminal are in the ring in order until
  read or thrown away on purpose.  `HeldOnlyWithInput`: no reader waits for a
  terminal that nobody reads.  `AllTaken`: everything typed ends up read or thrown away.
* `PositionsAgree`: the character and the byte half of every position name the same place.
* `UndoRestores`: undoing the whole list gives the first text back, undoing the last deletion also every marker.
* `CacheSoundUnlessHooked`: what the newline cache knows has no newline in it, however many edits it
  has yet to hear of.  `UnchangedIsUnchangedUnlessAhead`: what redisplay skips is as it was shown.
* `check_tree`, `IterationFindsRange`, `AnswersAsDocumentedUnlessEqualEnds`: the assertions of itree.c, that a search by
  limits that are out of date misses nothing, and the doc strings of overlays-in, overlays-at, next- and previous-overlay-change;
  of overlays-in with equal ends what the code does is stated, which is not what the doc string says (section 5).
* `SleepsInformed`, `OutputReadBeforeExit`, `StatusTruthful`: Emacs does not go to sleep on a change that was noted and not
  told; the filter has all the output before the sentinel hears of the exit; process-status does not call the dead alive.
* `NeverReapedTwice`, `ChildrenRecordedUnlessBroken`: a pid that may be killed or waited for is that of
  a child not yet reaped, and every such child is on one record.
* `MapMissesNothing`: maphash passes on every entry that stays from its beginning to its end, whatever is done to the table
  meanwhile.
* `IsInputQueue`, `ImplementsText`, `ImplementsOverlays`, `ImplementsDynamicBinding`, `ImplementsDictionary`: each step of the
  detailed specification is one of the abstract one or none.

## 4 What is proved

All theorems hold for every value of the constants that satisfies the module's
named assumptions; further conditions are in the `ASSUME` of the theorem.

**ThreadsProofs** (`ThreadsAssumption`, `DistinctObjects`): any number of threads, mutexes and
conditions.  `IInv` adds to the properties themselves: `LockInv` (a thread is
at `"lisp"` or `"raise"` exactly when it holds the lock; the bound set follows `current_thread`
even when nobody holds the lock), `LifeInv` (who is live and has a handler, by
position), `WaitInv` (what `wait_condvar`, `event_object` and `sleep_on` hold at each
position) and `MutexInv` (a thread that waits for a mutex does not own it; one in
condition-wait has a count to restore).  They are needed because the actions
after a sleep read fields set before it.  `PostAcquire` states once what taking the lock
does; each action has a lemma.  From `InvariantHolds` follow `TypeCorrect`, `LockHolderIsCurrent`,
`MutexesConsistent` (an owner exactly when the count is positive), `NoWakeupIsLost`, `SignalsInterrupt`, and the
action properties `WaitRelocksMutex` and `MutexLeavesByOwner`.

**FileLockProofs** (`FileLockAssumption`): `TypeCorrect`; `HolderKeepsLock`, without further condition: any locks left
behind, crashes, exits and failing calls.  `DeadInv`: no process comes back, and the owner judged by one that is about to zap
is dead.  `KeptInv`: while nobody stole and no zap hit another link than the one judged, a process that holds the lock or is
about to remove it as its own is the one the link names, and nobody is in the middle of stealing.  A zap that did not race
removed the link of a dead process, which by `DeadInv` is not a holder's.

**KillBufferProofs** (`KillBufferAssumption`): `TypeCorrect`; `NoThreadInDeadBuffer` and
`AttachedThreadKeepsBuffer` if late Lisp does not yield, by the invariant that no
thread is in a buffer that is past its last check.

**KbdBufferProofs** (`KbdBufferAssumption`, in particular a quarter of the ring
larger than the nesting of readers): `TypeCorrect`, that is, no pointer leaves the ring, for any ring size,
from lemmas on the ring's arithmetic; `NoDeafReader`, if Lisp run by a waiting
reader discards no input.  Its invariant `HoldInv` counts: while readers wait on a held
terminal, at least a quarter less one event was left when the innermost of them
looked, and each reader that stopped waiting since has taken at most one more.
`CharactersKept` and `RingIsQueue` rest on `KeysInv`: the characters in the ring, in its order, are those between the last
one Lisp has taken and the last one stored, without those thrown away.  A store is then `Append` and a take `Tail` on the ring
unrolled across the end of the array, and each action is one of `InputQueue` or none.

**ProcessesProofs** (`ProcessesAssumption`): any number of children, output, stops, and depth of Lisp.  Four invariants,
each over the one before:

* `IInv` gives `NoChildReapedTwice`; `OneKid` and `OneProcess` say once what an update of one child or one
  `struct Lisp_Process` leaves of it, and the handler, the only action that changes several
  children at once, is proved child by child.
* `TypeInv` adds the shape of the stack (`StackInv`: what each activation may stand at and that the lowest is Lisp's), and gives
  `TypeCorrect`.
* `NoteInv` adds what is known of one process (`Sound`: not yet made, on which record, what its end is known from, whether its
  descriptor is closed, that an end believed is real), that only a process that is over is being taken from the list (`Removers`), and
  what the activation on top has read and not yet used (`BusyTop`).  It gives `NoChildForgotten`, `StatusBelieved` and `OutputFirst`.
* `SleepInv` adds `Heard` (a change that was noted is ahead of some loop of `status_notify` or the ticks differ), `Due`
  and `Wakeful` (before a sleep nothing noted is unseen, or the child signal pipe is written).  It gives `SleepIsInformed`.
  `Reach`, the cells that can be reached along the `cdr` fields of a list that changes under the loop, is a least closed set;
  that it is what the recursive function of the model computes is proved by induction on its argument.

**GapBufferProofs** (`GapBufferAssumption`: any characters of any widths, any texts, any finite set of markers):
`PositionsAlwaysAgree`, `GapImplementsText`, the refinement, and `UndoAlwaysRestores`.  The invariant `IInv` says of the buffer (`Good`) that it has
its shape and that the gap, the end, point and all markers are a `Place`: a character position in the text with the byte position
there; and of a postponed deletion that what it will delete is in the text.  The proof goes through one lemma per editing function:
`Insert1Both`, `InsertFromGap1`, `DelRange2`, `ReplaceRange`, `ReplaceRange2` and `CasifyRegion` say that the
text becomes a `Splice` of the old one and where it puts each place (`InsertedAt`, `DeletedFrom`, `ReplacedBy`, `Recased`).
The invariant and the step of `TextBuffer` both follow from that.  Bytes are a recursive function over the characters;
that splicing adds and removes them is proved by induction, as is the loop of `casify_region`, whose replacements may change the length
of the text as it goes.

`UndoAlwaysRestores` needs more, since what `UndoRestores` says of the present text does not by itself say what the next record does
to it.  `CharsUndone` is what one record does to the characters, and `Undoes(c, list, d)` that a list takes the text `c` to `d` record by
record; the invariant `UndoInv` adds to `IInv` that the list does so from the text as it is to the one it began with, wherever a list is kept
(`ListRestores`), and with it that no recorded insertion ends before its beginning (`Ranged`).  A primitive then has two independent halves: what
it puts on the list (`Insert1Recorded`, `DelRangeRecorded`, `ReplaceRecorded`, `CasifyRecorded`, over lemmas that say everything else
keeps the list), and that undoing just this takes its `Splice` back
(`InsertUndone`, `DeletionPutBack`).  A merged insertion is the case that could go wrong: the record on top is replaced by a longer one, and `InsertionTakenOut` shows that this
takes out the new text with the old, because the record ended where the new text went in.  For a deletion undone at once, `AdjustmentsAre`
says which markers have an adjustment recorded, `AdjustmentsUsed` that primitive-undo applies those of the markers that are still where the deletion
left them and no other, and `MarkerPutBack` that each marker, of either insertion type, then is where it was.

**InvalidationProofs** (the same assumption): `UnchangedIsAsShown` and `CacheTellsTheTruth`.

For the first: the two numbers redisplay goes by are lowered in two places,
where the gap moves and where text is put in or given up, and neither is enough without the other.  The invariant `ToldOK`
says: the head is as shown and does not reach past the gap (`Capped`), the tail is as shown as far back as the gap (`Seen`; what
it claims before the gap need not be true and is never used, as redisplay takes the lesser of the tail and the gap), and
a buffer whose counter is that of the last display is what was shown (`Fresh`).  `Capped` is what an insertion at the gap needs,
since it lowers only the tail; a change of case and a quit of the gap motion may break it, which is the exception
in the property (section 5).

For the second, an operation of region-cache.c is described by what it does to the value at each position, that of the last boundary
at or before it (`Rules`, `ValueAt`), whatever it does to the array: `Gone`, `Added` and `ValueSet` for one boundary on either side of
the gap, `SetsRegion` for `set_cache_region`, which sets the region and nothing else, `Collapsed` for two boundaries that a
deletion brought together, and `Revalidated`: `revalidate_region_cache` leaves sorted boundaries for the text as it is and makes
nothing known that was not known before (`PutRight`).  The invariant `CInv` adds to `IInv` that the cache is right for the
text as it is (`Current`) or some edits old, with a head and a tail that are still there and do not overlap (`Stale`); that what
it `Says` of them has no newline in it (`Sound`), unless hooked; and that a deletion waiting for its hook lies in the text.
Every edit is a `Splice` by the lemmas of `GapBufferProofs`, and tells the cache of just that place (`Narrower`): so `SpliceSound` is
the step for all of them.  The deletion after a hook tells the cache of another place.  The numbers still fit the shorter text,
which keeps the boundaries in order (`HookedKept`), but what the cache says need not be so: that is where the exception of the
property is used, and nowhere else.

**SpecpdlProofs** (`SpecpdlAssumption`): any threads, buffers, values and depth of bindings, each kind of variable: `TypeCorrect`,
and `BindsPerThread`, the refinement of `DynamicBinding`.  `IInv` adds to `TypeOK`, in `Well`, that a buffer's own cell is
loaded for nobody else, that every slot of a buffer without a value of its own has the default in it, and that the default keeps a
value while another cell is loaded; and of the bindings, while the promise has not been given up, that what each has
bound is still there (`Intact`).  TLC checked it on the instance of the run.  The proof has two halves that meet in `View`:

* The symbol: `Values` are the values of the default and of the buffers' own, wherever they are kept, and each operation is shown to
  change none (`Same`: lookups, loading, making localized), one (`Put`), or to add or remove one (`PutNew`, `Removed`).
* The stack: `BelowIn` is what a cell had below an entry.  `BelowPushed` says that pushing an entry and setting what it binds
  leaves all of it alone, and popping is the same read backwards; `TakesOut` and `PutsBack` that exchanging a whole
  stack from the top leaves the base values in the cells and in each entry what it had bound, and from the bottom the reverse.  Both are
  inductions on the turns of `specpdl_unrewind`, written as a recursive function of their number.

So `SwitchThread` is a step without effect on `DynamicBinding`, and each other action one step of it or none.  The exception
`broken` is used in the proof at just its three places: `Intact` after a kill, `AssignedInC`, and the value `MakeLocalIInv` copies.

Induction over data is done with `LeastNumber` and `SetInduction`, lemmas stated for a set instead of a predicate, which the provers
can instantiate: that is enough for recursive functions.

Only model-checked:

* the liveness properties (`SignalEndsWait`, `JoinEnds`, `StaleLockRemoved`,
  `AllTaken`), which need fairness and ENABLED, out of the prover's reach;
* the overlays: `Itree` is written with RECURSIVE operators, as itree.c is recursive on nodes it changes;
* so far, the properties of hash tables.

## 5 Disagreements found

Each is a run that TLC shows violated; PROJECT.json quotes the text it contradicts.

1. `text_cache`: `del_range_1` keeps the place to delete in a marker while before-change hooks run, but the
   caches are told of the place as it was before them (insdel.c:2026); after a hook that inserted text before it the newline
   cache goes on knowing text that has a newline in it, against region-cache.h:81.
2. `hashtable_walk`: a lookup whose test is called while another thread's operation guards the table relies on that
   guard (fns.c:4250) and loses it when that operation ends first; the table is then changed in the middle of the lookup's walk,
   which goes on along the free list or another chain and may hand the mark of an unused entry to the test, against fns.c:4243–4245.

Seen while modelling, without a run of their own:

* Two processes find the lock of a dead third; the slower one removes
  the lock that the faster has just made (filelock.c:472), a race the comment at filelock.c:105–110 rules out: TLC refutes `NoRaceUnforced` of
  `FileLock` in ten steps with the constants of `MCFileLock.cfg`.
* When another thread takes over, `set_buffer_internal_2` is given the new thread's
  buffer as the old one too (thread.c:118), so a C variable that is local only in the buffer of the
  thread that ran keeps that value; the end of a let of a buffer's own value from another buffer does the same
  (data.c:1631–1634).  data.c:2152–2154 names the opposite an invariant: `ForwardedHoldsCurrent` of `Specpdl` fails.
* A signal raised as `thread_select` takes the lock back skips the statement that clears
  `not_holding_lock` (thread.c:565), so a thread that runs and holds the lock
  carries the flag that thread.h:209 explains otherwise.
* `thread--blocker` returns nil while condition-wait relocks its mutex (thread.c:405);
  thread-join raises the error the thread had before the wait, not the one it ends with (thread.c:1006).
* Since `get_boot_sec` returns 0, a lock with a boot time, as the
  documented format has it, is taken for one of an earlier boot and removed even if its owner runs (filelock.c:463).
* An error in before-change-functions leaves the file of an unmodified buffer
  locked (insdel.c:2003), and later unlock-buffer skips it; after a failed
  write, or one that does not visit, a modified buffer has no lock (fileio.c:5399).
* Lisp runs after kill-buffer's last check of the threads (buffer.c:1830 on): if it yields, a thread may enter the dying
  buffer and is left in a dead one; with `LateYield = TRUE` `CurrentBufferIsLive` and `AttachedBufferStays`
  fail.  If it quits, if the user quits while the frames forget the buffer (buffer.c:1839–1841), or if kill-buffer gives up
  for the sake of the minibuffer (buffer.c:1822–1825), threads were told thread-buffer-killed of a
  buffer that survives, although the comment at buffer.c:1827 says "Now there is no question".
* discard-input empties the ring and keeps the hold (keyboard.c:12158); done
  by an erring process filter under a waiting reader, the reader waits for a terminal nobody reads: with
  `MayDiscardInWait = TRUE` `HeldOnlyWithInput` fails.
* After a gap motion that was quit, or a change of case, the number of unchanged characters at the head
  may reach past the gap, and the next insertion lowers only the tail (insdel.c:852), so redisplay may take changed text for
  unchanged: `UnchangedIsUnchanged` fails without its condition.
* Subprocesses: a child whose connection breaks (EPIPE, process.c:6375–6381) is on no record any
  more and stays a zombie, against the comment at process.c:6926–6934 (`ChildrenRecorded` fails without its condition);
  continue-process on a dead process not yet reported sets its status to `run` for good (process.c:6607–6612); SIGCHLD
  between `pset_status` and the clearing of the flag (process.c:585–590), or before the second assignment of `update_tick`
  (process.c:7304), loses the change; a throw from a filter or sentinel leaves the processes further on unreported; a
  filter that deletes its process gets the sentinel called twice.
* Overlays: `overlay-lists` leaves out an empty overlay at the end of the buffer, although its doc string says all
  (buffer.c:3623); `overlays-in` with equal ends returns overlays around the position although the doc string asks
  for a character between (buffer.c:3542–3548); `itree_rotate_right` updates the limits in the order the comment of its mirror image warns of,
  which does no harm (`LimitsExact` holds).
* Bindings: kill-buffer means to get rid of local values "for certain" (buffer.c:1894–1898), but the
  killed buffer's value stays loaded in the symbol (buffer.c:989–995); make-local-variable may copy a default that is out of
  date, against its doc string; a switch of threads inside `backtrace-eval` would exchange
  entries that are exchanged already (eval.c:3778).

## 6 What is not modelled

* The evaluator, byte code, reader, printer, arithmetic, regular expressions, coding systems, redisplay, windows
  and frames, fonts: sequential computations over data; their
  behaviour is the data, which a model would have to copy.  Text properties are a second tree algorithm and may be
  modelled on bounded inputs.
* The garbage collector: reachability from machine stacks and registers is not in the C source.
* The dumper, start-up, terminal set-up, file I/O, network: sequences of system calls without
  concurrent state of their own.  What file I/O does to locks is in `FileLock`, what
  kqueue does to the ring in `KbdBuffer`.
* Dynamic modules and native code: foreign code behind a per-call contract.
* Emacs Lisp under `src/bin/lisp`: the user of the core (except `primitive-undo`).
* Of the modelled components, what is listed under "Abstracted" in section 2.

The modelled parts are the smaller part of the source by lines: most of it is the sequential computation
named above (redisplay and coding systems alone are a sixth of it).

PROJECT.json lists every part with its sources and its status, and under "hazards" the places
in this code where such bugs would bite, those of the components still to come included.

## 7 Plan

In this order, each with its instance, mutants and proofs:

1. *Proofs for `HashTable`*: its type invariant first, then one guard at a time and none missing from an operation that changes the table.
2. *Threads with SIGINT*: the handler that makes the main thread current before it has
   the lock, as an extension of `Threads`; property: one thread runs Lisp.
3. *`Atimers`*: two lists, callbacks; property: a cancelled timer does not run again, sorted list; the case of
   the callback that cancels its own timer.
4. Composition: `KillBuffer` over the scheduler of `Threads`, `FileLock` called from `GapBuffer`'s modification
   step, and overlays shifted by the edits of `GapBuffer`.
