------------------------------ MODULE Dictionary ------------------------------
(***************************************************************************)
(* What a hash table promises: a dictionary in which keys that its test    *)
(* takes for the same are one, and whose operations happen at once.        *)
(***************************************************************************)
CONSTANTS Key, Value, Nil,
  Class       \* the keys that are the same have the same class

VARIABLES
  dict,       \* the entry of each class: the key it was made with and its value
  answer      \* the entry that was just looked up, or passed to maphash's function, if any

vars == <<dict, answer>>

Classes == {Class[k] : k \in Key}
Entry(k, v) == [key |-> k, value |-> v]
Present == {c \in Classes : dict[c] # Nil}

(* A new table is empty; one from the dump has what was dumped. *)
Init ==
  /\ \E cs \in SUBSET Classes :
       dict \in [Classes -> {Nil} \union [key : Key, value : Value]] /\ Present = cs
  /\ \A c \in Present : Class[dict[c].key] = c
  /\ answer = Nil

Get(k) == answer' = dict[Class[k]] /\ UNCHANGED dict

Visit == \E c \in Present : answer' = dict[c] /\ UNCHANGED dict

Rest == answer' = Nil /\ UNCHANGED dict

(* The first key stays. *)
Put(k, v) ==
  /\ dict' = [dict EXCEPT ![Class[k]] = Entry(IF @ = Nil THEN k ELSE @.key, v)]
  /\ answer' = Nil

Forget(cs) ==
  /\ dict' = [c \in Classes |-> IF c \in cs THEN Nil ELSE dict[c]]
  /\ answer' = Nil

(* All of them at once: clrhash, and what the collector takes from a weak table *)
Next ==
  \/ Visit \/ Rest
  \/ \E k \in Key : Get(k) \/ Forget({Class[k]}) \/ \E v \in Value : Put(k, v)
  \/ \E cs \in SUBSET Classes : Forget(cs)

Spec == Init /\ [][Next]_vars
=============================================================================
