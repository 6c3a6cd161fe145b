------------------------------ MODULE HashTable ------------------------------
(***************************************************************************)
(* A Lisp hash table (fns.c): entries in a vector, chained from the index  *)
(* by the hash of their keys, the unused ones chained from next_free.  The *)
(* test may be the user's: then hashing and comparing run Lisp in the      *)
(* middle of an operation, which may call any operation on the same table, *)
(* give other threads a turn, or throw.  The field mutable guards against  *)
(* changes meanwhile; gethash does not ask for it.                         *)
(*                                                                         *)
(* calls[t] are the operations that thread t is in the middle of, the last *)
(* one running the user's function.  A step goes from one such function    *)
(* to the next, or to the end of the operation.                            *)
(***************************************************************************)
EXTENDS Integers, Sequences, FiniteSets, SequencesExt

CONSTANTS
  Thread, Key, Value, Nil,
  Class,              \* the keys that the test takes for the same have the same class
  Hashes,             \* the hash functions that occur; keys that are the same have the same hash
  knuth_hash(_, _),   \* place of a hash in an index of so many bits
  min_size,           \* size of the first allocation, 6 in the code
  Unused,             \* HASH_UNUSED_ENTRY_KEY
  Uninitialized,      \* what an entry that was never used has for its hash
  Tests,              \* the kinds of test: "equal", or "user" for one in Lisp
  Sizes,              \* the sizes tables are made with
  Weaknesses,         \* whether the collector may remove entries
  MaxCalls            \* bound: operations in progress at once

Classes == {Class[k] : k \in Key}

ASSUME HashTableAssumption ==
  /\ \A f \in Hashes, c \in Classes : \A bits \in 0..30 : knuth_hash(f[c], bits) \in 0..(2^bits - 1)
  /\ min_size \in Nat \ {0} /\ Sizes \subseteq Nat /\ MaxCalls \in Nat
  /\ Tests \subseteq {"equal", "user"} /\ Weaknesses \subseteq BOOLEAN
  /\ Unused \notin Key /\ Nil \notin Value
  /\ \A f \in Hashes, c \in Classes : Uninitialized # f[c]

VARIABLES
  test, hashfn, weak,   \* what the table was made with
  h,          \* the vectors and fields of struct Lisp_Hash_Table
  mutable,
  calls,
  answer      \* history: the entry that the last step looked up or passed to maphash's
              \* function, if any

vars == <<test, hashfn, weak, h, mutable, calls, answer>>

HashOf(k) == hashfn[Class[k]]

-------------------------------------------------------------------------------
(* The vectors *)

(* The least number of bits that counts further than size *)
index_bits(size) == CHOOSE b \in 0..size : 2^b > size /\ (b = 0 \/ 2^(b - 1) <= size)
Buckets(size) == 0..(2^index_bits(size) - 1)
Bucket(t, hash) == knuth_hash(hash, index_bits(t.size))

Entries(t) == 0..(t.size - 1)
Used(t) == {i \in Entries(t) : t.key[i] # Unused}
Held(t) == {Class[t.key[i]] : i \in Used(t)}

(* The free list of the entries from "first" on *)
Chained(first, size) == [i \in first..(size - 1) |-> IF i < size - 1 THEN i + 1 ELSE -1]

make_hash_table(size) ==
  [size |-> size, count |-> 0, next_free |-> IF size = 0 THEN -1 ELSE 0,
   index |-> [b \in Buckets(size) |-> -1],
   next  |-> Chained(0, size),
   key   |-> [i \in 0..(size - 1) |-> Unused],
   value |-> [i \in 0..(size - 1) |-> Nil],
   hash  |-> [i \in 0..(size - 1) |-> Uninitialized]]

Linked(t, i) ==
  LET b == Bucket(t, t.hash[i])
  IN [t EXCEPT !.next[i] = t.index[b], !.index[b] = i]

(* Rebuild the chains of the entries 0..n-1, in this order. *)
Rehashed(t, n) == FoldLeft(Linked, t, [i \in 1..n |-> i - 1])

(* hash_table_thaw: the table has the entries of a vector, and no more. *)
hash_table_thaw(keys, value) ==
  LET n == Len(keys)
      at(f(_)) == [i \in 0..(n - 1) |-> f(keys[i + 1])]
  IN Rehashed([make_hash_table(n) EXCEPT !.count = n, !.next_free = -1, !.key = at(LAMBDA k : k),
                 !.value = at(LAMBDA k : value[k]), !.hash = at(HashOf)], n)

Grown(size) ==
  IF size = 0 THEN min_size
  ELSE LET base == IF size < min_size THEN min_size ELSE size
       IN IF base <= 64 THEN base * 4 ELSE base * 2

(* The entries stay where they are; the new ones are free. *)
Resized(t) ==
  LET size == Grown(t.size)
      new  == make_hash_table(size)
      kept(f, g) == [i \in DOMAIN g |-> IF i \in DOMAIN f THEN f[i] ELSE g[i]]
  IN Rehashed([new EXCEPT !.count = t.count, !.next_free = t.size, !.key = kept(t.key, @),
                 !.value = kept(t.value, @), !.hash = kept(t.hash, @)], t.size)

maybe_resize_hash_table(t) == IF t.next_free < 0 THEN Resized(t) ELSE t

hash_put(t, k, v) ==
  LET r == maybe_resize_hash_table(t)
      i == r.next_free
  IN Linked([r EXCEPT !.count = @ + 1, !.next_free = r.next[i],
               !.key[i] = k, !.value[i] = v, !.hash[i] = HashOf(k)], i)

(* Take entry i, which follows prev, out of the chain of bucket b, and put it *)
(* on the free list.                                                         *)
Freed(t, b, prev, i) ==
  LET out == IF prev < 0 THEN [t EXCEPT !.index[b] = t.next[i]]
             ELSE [t EXCEPT !.next[prev] = t.next[i]]
  IN [out EXCEPT !.next[i] = t.next_free, !.next_free = i, !.count = @ - 1,
                 !.key[i] = Unused, !.value[i] = Nil]

hash_clear(t) ==
  IF t.count = 0 THEN t
  ELSE [make_hash_table(t.size) EXCEPT !.hash = t.hash]

(* The entries from "first" on, and None at the end of the chain *)
Path(t, first) ==
  LET upto[n \in 0..t.size] ==
        IF n = 0 THEN <<first>>
        ELSE LET path == upto[n - 1]
             IN IF Last(path) = -1 THEN path ELSE Append(path, t.next[Last(path)])
  IN upto[t.size]

Chain(t, b) == Front(Path(t, t.index[b]))

-------------------------------------------------------------------------------
(* Walking along a chain *)

None == -1
Place(prev, i) == [prev |-> prev, i |-> i]

(* The walk looks closer at entry i: it holds the key itself, or its hash is  *)
(* that of the key and the test is the user's or finds them the same.  luck  *)
(* says whether memory that was never written happens to be the hash.        *)
Compares(k, i, luck) ==
  \/ h.key[i] = k
  \/ /\ h.hash[i] = HashOf(k) \/ (luck /\ h.hash[i] = Uninitialized)
     /\ test = "user" \/ (h.key[i] \in Key /\ Class[h.key[i]] = Class[k])

(* The first such place from p on, or the end of the chain *)
Onward(k, p, luck) ==
  LET to[q \in [prev : None..h.size, i : None..h.size]] ==
        IF q.i = None \/ Compares(k, q.i, luck) THEN q ELSE to[Place(q.i, h.next[q.i])]
  IN to[p]

Start(k) == Place(None, h.index[Bucket(h, HashOf(k))])

-------------------------------------------------------------------------------
(* Operations in progress *)

Top(t) == Last(calls[t])
Pending == {<<t, n>> \in Thread \X (1..MaxCalls) : n <= Len(calls[t])}

(* at: "hash" and "compare" run the user's functions, "map" that of maphash;  *)
(* guard: the operation has made the table immutable; exposed (history): the *)
(* table was mutable while the comparison ran; left (history): the classes   *)
(* present since maphash began whose entry it has not passed on.             *)
Call(op, k, v) ==
  [op |-> op, key |-> k, value |-> v, at |-> "hash", place |-> Place(None, None),
   guard |-> FALSE, exposed |-> FALSE, left |-> {}]

(* Go on with the operations cs, the table r and its mutability m. *)
Becomes(cs, r, m) ==
  /\ calls' = [t \in Thread |-> [n \in DOMAIN cs[t] |->
       [cs[t][n] EXCEPT !.left = @ \intersect Held(r),
                        !.exposed = @ \/ (m /\ cs[t][n].at = "compare")]]]
  /\ h' = r
  /\ mutable' = m
  /\ UNCHANGED <<test, hashfn, weak>>

(* The operations of t when the last one has ended, or stands where f says *)
Ended(t) == [calls EXCEPT ![t] = Front(@)]
Standing(t, f) == [calls EXCEPT ![t] = Front(@) \o <<f>>]

(* Mutant: a call under the guard of another lifts it. *)
Restored_Always(f) == TRUE

(* Mutability once the function that the last operation called has returned *)
Restored(f) == mutable \/ f.guard

(* hash_table_user_defined_call, made by f when the mutability is m *)
UserCall(cs, t, f, m) ==
  /\ Becomes([cs EXCEPT ![t] = @ \o <<[f EXCEPT !.guard = m]>>], h, FALSE)
  /\ answer' = Nil

(* Mutant: the entry is counted before the table is resized. *)
OutOfMemory_Counted == [h EXCEPT !.count = @ + 1]

OutOfMemory == h

(* The end of f, which has found its key at p, or not at all.  Resizing may  *)
(* fail for want of memory, before anything is changed.                      *)
Results(f, p) ==
  CASE f.op = "gethash" -> {h}
    [] f.op = "puthash" /\ p.i # None -> {[h EXCEPT !.value[p.i] = f.value]}
    [] f.op = "puthash" /\ p.i = None -> {hash_put(h, f.key, f.value)} \union
                                         (IF h.next_free < 0 THEN {OutOfMemory} ELSE {})
    [] f.op = "remhash" -> {IF p.i = None THEN h
                            ELSE Freed(h, Bucket(h, HashOf(f.key)), p.prev, p.i)}

Looked(p) == IF p.i = None THEN Nil ELSE [key |-> h.key[p.i], value |-> h.value[p.i]]

Finish(cs, f, p, m) ==
  /\ \E r \in Results(f, p) : Becomes(cs, r, m)
  /\ answer' = IF f.op = "gethash" /\ ~f.exposed THEN Looked(p) ELSE Nil

(* Go on from p with f, which is not in cs any more. *)
Walk(cs, t, f, p, m) ==
  \E luck \in BOOLEAN :
    LET q == Onward(f.key, p, luck) IN
    IF test = "user" /\ q.i # None /\ h.key[q.i] # f.key
    THEN UserCall(cs, t, [f EXCEPT !.at = "compare", !.place = q], m)
    ELSE Finish(cs, f, q, m)

-------------------------------------------------------------------------------
(* Steps *)

Init ==
  /\ test \in Tests
  /\ hashfn \in Hashes
  /\ weak \in Weaknesses
  /\ \/ \E size \in Sizes : h = make_hash_table(size)
     \/ /\ test = "equal"
        /\ \E n \in Sizes : \E keys \in [1..n -> Key], value \in [Key -> Value] :
             /\ \A i, j \in 1..n : Class[keys[i]] = Class[keys[j]] => i = j
             /\ h = hash_table_thaw(keys, value)
  /\ mutable = TRUE
  /\ calls = [t \in Thread |-> <<>>]
  /\ answer = Nil

Room == Cardinality(Pending) < MaxCalls

(* gethash, puthash and remhash: the last two want the table mutable. *)
Begin(t, op, k, v) ==
  /\ Room
  /\ op \in {"puthash", "remhash"} => mutable
  /\ IF test = "user" THEN UserCall(calls, t, Call(op, k, v), mutable)
     ELSE Walk(calls, t, Call(op, k, v), Start(k), mutable)

(* The user's hash function returns. *)
Hashed(t) ==
  /\ calls[t] # <<>> /\ Top(t).at = "hash"
  /\ Walk(Ended(t), t, Top(t), Start(Top(t).key), Restored(Top(t)))

(* The user's test returns.  It tells the keys apart by their class, and may *)
(* say anything of the mark of an unused entry.                              *)
Compared(t) ==
  LET f == Top(t)
      found == h.key[f.place.i]
  IN /\ calls[t] # <<>> /\ f.at = "compare"
     /\ \E same \in IF found \in Key THEN {Class[found] = Class[f.key]} ELSE BOOLEAN :
          IF same THEN Finish(Ended(t), f, f.place, Restored(f))
          ELSE Walk(Ended(t), t, f, Place(f.place.i, h.next[f.place.i]), Restored(f))

(* Mutant: the loop of maphash ends at the number of entries. *)
Ahead_Counted(i) == {j \in Used(h) : j > i /\ j < h.count}

(* The entries in use after entry i *)
Ahead(i) == {j \in Used(h) : j > i}

Visits(cs, t, f, i) ==
  /\ Becomes([cs EXCEPT ![t] = @ \o <<[f EXCEPT !.at = "map", !.place = Place(None, i),
                                        !.left = @ \ {Class[h.key[i]]}]>>], h, mutable)
  /\ answer' = [key |-> h.key[i], value |-> h.value[i]]

Nearest(S) == CHOOSE i \in S : \A j \in S : i <= j

maphash(t) ==
  /\ Room
  /\ Ahead(-1) # {}
  /\ Visits(calls, t, [Call("maphash", Nil, Nil) EXCEPT !.left = Held(h)], Nearest(Ahead(-1)))

MapsOn(t) ==
  /\ calls[t] # <<>> /\ Top(t).at = "map"
  /\ Ahead(Top(t).place.i) # {}
  /\ Visits(Ended(t), t, Top(t), Nearest(Ahead(Top(t).place.i)))

MapEnds(t) ==
  /\ calls[t] # <<>> /\ Top(t).at = "map"
  /\ Ahead(Top(t).place.i) = {}
  /\ Becomes(Ended(t), h, mutable)
  /\ answer' = Nil

clrhash ==
  /\ mutable
  /\ Becomes(calls, hash_clear(h), mutable)
  /\ answer' = Nil

(* A throw, or an error, leaves all but the first n operations of t. *)
Throws(t, n) ==
  /\ n < Len(calls[t])
  /\ Becomes([calls EXCEPT ![t] = SubSeq(@, 1, n)], h,
             mutable \/ \E m \in (n + 1)..Len(calls[t]) : calls[t][m].guard)
  /\ answer' = Nil

(* sweep_weak_table: the entries of S go, chain by chain.  Garbage is not     *)
(* collected while a comparison guards the table.                            *)
Swept(S) ==
  LET visit(b, acc, i) == IF i \in S THEN [acc EXCEPT !.t = Freed(acc.t, b, acc.prev, i)]
                          ELSE [acc EXCEPT !.prev = i]
      chain(t, b) == FoldLeft(LAMBDA acc, i : visit(b, acc, i), [t |-> t, prev |-> None], Chain(t, b)).t
  IN FoldLeft(chain, h, [n \in 1..Cardinality(Buckets(h.size)) |-> n - 1])

sweep_weak_table ==
  /\ weak /\ mutable
  /\ \E S \in SUBSET Used(h) : Becomes(calls, Swept(S), mutable)
  /\ answer' = Nil

Next ==
  \/ \E t \in Thread, k \in Key :
       Begin(t, "gethash", k, Nil) \/ Begin(t, "remhash", k, Nil)
       \/ \E v \in Value : Begin(t, "puthash", k, v)
  \/ \E t \in Thread :
       \/ Hashed(t) \/ Compared(t) \/ maphash(t) \/ MapsOn(t) \/ MapEnds(t)
       \/ \E n \in 0..(MaxCalls - 1) : Throws(t, n)
  \/ clrhash
  \/ sweep_weak_table

Spec == Init /\ [][Next]_vars

-------------------------------------------------------------------------------
(* Properties *)

(* The table is whole whenever Lisp runs: each entry in use is on the chain  *)
(* of its hash and on no other, all others are on the free list, no two have *)
(* the same key, and the count is right.  It is immutable just while one     *)
(* operation guards it.                                                      *)
TypeOK ==
  /\ \A b \in Buckets(h.size) :
       /\ Last(Path(h, h.index[b])) = None
       /\ ToSet(Chain(h, b)) = {i \in Used(h) : Bucket(h, HashOf(h.key[i])) = b}
  /\ \A i \in Used(h) : h.hash[i] = HashOf(h.key[i]) /\ h.value[i] \in Value
  /\ Last(Path(h, h.next_free)) = None
  /\ ToSet(Front(Path(h, h.next_free))) = Entries(h) \ Used(h)
  /\ h.count = Cardinality(Used(h)) /\ h.count = Cardinality(Held(h))
  /\ Cardinality({c \in Pending : calls[c[1]][c[2]].guard}) = IF mutable THEN 0 ELSE 1

(* A comparison is about an entry of the chain of the key, and the entry     *)
(* remembered as the one before it is: what happened meanwhile has not       *)
(* touched the chain.                                                        *)
OnChain(f) ==
  LET chain == Chain(h, Bucket(h, HashOf(f.key)))
  IN \E n \in DOMAIN chain :
       f.place = Place(IF n = 1 THEN None ELSE chain[n - 1], chain[n])

WalksOnChain == \A c \in Pending : LET f == calls[c[1]][c[2]] IN f.at = "compare" => OnChain(f)

(* maphash passes on every entry that is in the table from its beginning to  *)
(* its end, whatever its function, the other threads and the collector do to *)
(* the table meanwhile: DOHASH_SAFE asks for the size anew at each entry,    *)
(* and entries do not move.                                                  *)
MapMissesNothing == [][\A t \in Thread : MapEnds(t) => Top(t).left = {}]_vars

(* Operations are those of a dictionary that happen at once, although their  *)
(* tests run Lisp in the middle; of a lookup whose table was mutable during  *)
(* a comparison nothing is said.                                             *)
Promise == INSTANCE Dictionary WITH
  dict <- [c \in Classes |->
             IF c \notin Held(h) THEN Nil
             ELSE LET i == CHOOSE i \in Used(h) : Class[h.key[i]] = c
                  IN [key |-> h.key[i], value |-> h.value[i]]]

ImplementsDictionary == Promise!Spec
=============================================================================
