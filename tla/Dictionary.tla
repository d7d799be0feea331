----------------------------- MODULE Dictionary -----------------------------
(***************************************************************************)
(* What a store of named values promises its clients, without a word about *)
(* how it is kept in a file.  An operation gives one key a value, or none. *)
(* It takes effect in one step, somewhere between its beginning and its    *)
(* end, or not at all, and it changes no other key.  The server may stop   *)
(* at any time, which ends the operations and leaves the store as it is.   *)
(* Only a fault from which the store does not recover ends the promise.    *)
(***************************************************************************)
CONSTANTS Client, Key, Value, None

VARIABLES
    store,          \* the value of each key, or None
    pending,        \* the operation of each client
    sound           \* no such fault so far

vars == <<store, pending, sound>>

Resting == [key |-> None, value |-> None, done |-> TRUE]

Init ==
    /\ store \in [Key -> Value \cup {None}]
    /\ pending = [c \in Client |-> Resting]
    /\ sound = TRUE

Begin(c) ==
    /\ pending[c] = Resting
    /\ \E k \in Key, v \in Value \cup {None} :
        pending' = [pending EXCEPT ![c] = [key |-> k, value |-> v, done |-> FALSE]]
    /\ UNCHANGED store

Apply(c) ==
    /\ ~pending[c].done
    /\ store' = [store EXCEPT ![pending[c].key] = pending[c].value]
    /\ \/ pending' = [pending EXCEPT ![c].done = TRUE]
       \/ pending' = [pending EXCEPT ![c] = Resting]

(* The end of an operation; one that has had no effect has failed.         *)
Finish(c) == pending' = [pending EXCEPT ![c] = Resting] /\ UNCHANGED store

Stop == pending' = [c \in Client |-> Resting] /\ UNCHANGED store

Fault == sound' = FALSE

Next ==
    \/ /\ sound /\ UNCHANGED sound
       /\ Stop \/ \E c \in Client : Begin(c) \/ Apply(c) \/ Finish(c)
    \/ Fault

Spec == Init /\ [][Next]_vars
=============================================================================
