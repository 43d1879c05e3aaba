----------------------------- MODULE TokenStore -----------------------------
(***************************************************************************)
(* The contract of XltTokenStore: keys that hold a value until a moment,   *)
(* or for good, each method a single step with an answer.  An entry is     *)
(* there up to its moment and not after it; nothing else removes it.       *)
(***************************************************************************)
EXTENDS Naturals

CONSTANTS
  Keys, Values,
  Seconds,     \* the finite ttls callers pass
  MaxTime,     \* bound on the clock
  Keep,        \* the ttl update that keeps the deadline
  Null         \* no entry; as a ttl, persistent; as a deadline, never

VARIABLES entry, now, answer   \* answer: what the last call returned

vars == <<entry, now, answer>>

Ttls == Seconds \cup {Null}

Until(ttl) == IF ttl = Null THEN Null ELSE now + ttl

(* What is left of an entry at moment n. *)
Left(e, n) == IF e # Null /\ e.end # Null /\ e.end <= n THEN Null ELSE e

Put(k, v, end) ==
  entry' = [entry EXCEPT ![k] = Left([value |-> v, end |-> end], now)]

Remove(k)  == entry' = [entry EXCEPT ![k] = Null]
Return(op, x)  == answer' = [of |-> op, got |-> x] /\ now' = now
Holds(k, v) == entry[k] # Null /\ entry[k].value = v

-----------------------------------------------------------------------------
Get(k)         == UNCHANGED entry /\ Return("get", [found |-> entry[k]])
Set(k, v, ttl) == Put(k, v, Until(ttl)) /\ Return("set", Null)
Delete(k)      == Remove(k) /\ Return("delete", Null)

GetAndDelete(k) == Remove(k) /\ Return("getAndDelete", [found |-> entry[k]])

SetIfAbsent(k, v, ttl) ==
  \/ entry[k] = Null /\ Put(k, v, Until(ttl)) /\ Return("setIfAbsent", [done |-> TRUE])
  \/ entry[k] # Null /\ UNCHANGED entry /\ Return("setIfAbsent", [done |-> FALSE])

CompareAndSet(k, x, v, ttl) ==
  \/ /\ Holds(k, x)
     /\ Put(k, v, IF ttl = Keep THEN entry[k].end ELSE Until(ttl))
     /\ Return("compareAndSet", [done |-> TRUE])
  \/ ~Holds(k, x) /\ UNCHANGED entry /\ Return("compareAndSet", [done |-> FALSE])

CompareAndDelete(k, x) ==
  \/ Holds(k, x) /\ Remove(k) /\ Return("compareAndDelete", [done |-> TRUE])
  \/ ~Holds(k, x) /\ UNCHANGED entry /\ Return("compareAndDelete", [done |-> FALSE])

Touch(k, ttl) ==
  \/ entry[k] # Null /\ Put(k, entry[k].value, Until(ttl)) /\ Return("touch", [done |-> TRUE])
  \/ entry[k] = Null /\ UNCHANGED entry /\ Return("touch", [done |-> FALSE])

(* One page with every key that has the prefix, S. *)
Scan(S) == UNCHANGED entry /\ Return("scan", [keys |-> {k \in S : entry[k] # Null}])

Tick ==
  /\ now < MaxTime
  /\ now' = now + 1
  /\ entry' = [k \in Keys |-> Left(entry[k], now + 1)]
  /\ UNCHANGED answer

Init ==
  /\ entry = [k \in Keys |-> Null]
  /\ now = 0
  /\ answer = Null

Next ==
  \/ \E k \in Keys :
       \/ Get(k) \/ Delete(k) \/ GetAndDelete(k)
       \/ \E ttl \in Ttls :
            Touch(k, ttl) \/ \E v \in Values : Set(k, v, ttl) \/ SetIfAbsent(k, v, ttl)
       \/ \E x \in Values :
            \/ CompareAndDelete(k, x)
            \/ \E v \in Values, ttl \in Ttls \cup {Keep} : CompareAndSet(k, x, v, ttl)
  \/ \E S \in SUBSET Keys : Scan(S)
  \/ Tick

Spec == Init /\ [][Next]_vars
=============================================================================
