----------------------------- MODULE MemoryStore ----------------------------
(***************************************************************************)
(* MemoryStore: a Map of entries, each with a deadline and a timer that is *)
(* to delete it.  A method has no await, so it is one step; timers fire    *)
(* between methods, at their moment or any time later, and delete whatever *)
(* the key holds then.  setTimeout cannot wait for longer than MaxDelay,   *)
(* and an entry with a longer ttl has no timer.                            *)
(*                                                                         *)
(* Two timers of one key due at the same moment are one here.              *)
(***************************************************************************)
EXTENDS Naturals

CONSTANTS
  Keys, Values, Seconds,
  MaxDelay,    \* MAX_TIMER_DELAY_MS
  MaxTime,     \* bound on the clock
  Keep, Null

Timer == [key: Keys, at: Nat]
MemoryEntry == [value: Values, end: Nat \cup {Null}, timer: Timer \cup {Null}]

ASSUME StoreAssumption ==
  /\ Seconds \subseteq Nat /\ MaxDelay \in Nat /\ MaxTime \in Nat
  /\ Keep \notin Seconds \cup {Null}
  /\ Null \notin Nat \cup Timer \cup MemoryEntry \cup [value: Values, end: Nat \cup {Null}]

VARIABLES map, timers, now, answer

vars == <<map, timers, now, answer>>

Ttls == Seconds \cup {Null}

Until(ttl) == IF ttl = Null THEN Null ELSE now + ttl

Due(k) == map[k] # Null /\ map[k].end # Null /\ map[k].end <= now

(* peek's result; peek also drops the entry that is due. *)
Present(k) == map[k] # Null /\ ~Due(k)
Seen(k) == IF Present(k) THEN [value |-> map[k].value, end |-> map[k].end] ELSE Null

(* The timers left after clearTimer. *)
ClearTimer(k) == IF map[k] = Null THEN timers ELSE timers \ {map[k].timer}

(* Mutant: a delay that is too long is passed to setTimeout, which then     *)
(* fires at once.                                                           *)
ScheduleExpireAnyDelay(k, ttl) ==
  IF ttl = Null THEN {}
  ELSE {[key |-> k, at |-> IF ttl > MaxDelay THEN now ELSE now + ttl]}

(* scheduleExpire: the new timer, if any. *)
ScheduleExpire(k, ttl) ==
  IF ttl = Null \/ ttl > MaxDelay THEN {} ELSE {[key |-> k, at |-> now + ttl]}

Write(k, v, ttl) ==
  LET new == ScheduleExpire(k, ttl) IN
  /\ timers' = ClearTimer(k) \cup new
  /\ map' = [map EXCEPT ![k] =
               [value |-> v, end |-> Until(ttl),
                timer |-> IF new = {} THEN Null ELSE CHOOSE tm \in new : TRUE]]

Drop(k) ==
  /\ timers' = ClearTimer(k)
  /\ map' = [map EXCEPT ![k] = Null]

(* Mutant: peek clears the timer before it looks at the deadline. *)
PeekClearsFirst(k) ==
  /\ timers' = ClearTimer(k)
  /\ map' = IF Due(k) THEN [map EXCEPT ![k] = Null] ELSE map

(* peek, by a method that goes on to leave the entry alone. *)
Peek(k) ==
  \/ ~Due(k) /\ UNCHANGED <<map, timers>>
  \/ Due(k) /\ Drop(k)

Return(op, x)   == answer' = [of |-> op, got |-> x] /\ now' = now
Holds(k, v) == Present(k) /\ map[k].value = v

-----------------------------------------------------------------------------
Get(k)         == Peek(k) /\ Return("get", [found |-> Seen(k)])
Set(k, v, ttl) == Write(k, v, ttl) /\ Return("set", Null)
Delete(k)      == Drop(k) /\ Return("delete", Null)

GetAndDelete(k) == Drop(k) /\ Return("getAndDelete", [found |-> Seen(k)])

SetIfAbsent(k, v, ttl) ==
  \/ ~Present(k) /\ Write(k, v, ttl) /\ Return("setIfAbsent", [done |-> TRUE])
  \/ Present(k) /\ Peek(k) /\ Return("setIfAbsent", [done |-> FALSE])

CompareAndSet(k, x, v, ttl) ==
  \/ Holds(k, x) /\ ttl # Keep /\ Write(k, v, ttl) /\ Return("compareAndSet", [done |-> TRUE])
  \/ /\ Holds(k, x) /\ ttl = Keep
     /\ map' = [map EXCEPT ![k].value = v]
     /\ UNCHANGED timers
     /\ Return("compareAndSet", [done |-> TRUE])
  \/ ~Holds(k, x) /\ Peek(k) /\ Return("compareAndSet", [done |-> FALSE])

CompareAndDelete(k, x) ==
  \/ Holds(k, x) /\ Drop(k) /\ Return("compareAndDelete", [done |-> TRUE])
  \/ ~Holds(k, x) /\ Peek(k) /\ Return("compareAndDelete", [done |-> FALSE])

Touch(k, ttl) ==
  \/ Present(k) /\ Write(k, map[k].value, ttl) /\ Return("touch", [done |-> TRUE])
  \/ ~Present(k) /\ Peek(k) /\ Return("touch", [done |-> FALSE])

(* One page with every key that has the prefix, S. *)
Scan(S) ==
  LET gone == {k \in S : Due(k)} IN
  /\ map' = [k \in Keys |-> IF k \in gone THEN Null ELSE map[k]]
  /\ timers' = timers \ {map[k].timer : k \in gone}
  /\ Return("scan", [keys |-> {k \in S : Present(k)}])

(* The callback of setTimeout. *)
Fire(tm) ==
  /\ tm.at <= now
  /\ timers' = timers \ {tm}
  /\ map' = [map EXCEPT ![tm.key] = Null]
  /\ UNCHANGED <<now, answer>>

Tick ==
  /\ now < MaxTime
  /\ now' = now + 1
  /\ UNCHANGED <<map, timers, answer>>

-----------------------------------------------------------------------------
Init ==
  /\ map = [k \in Keys |-> Null]
  /\ timers = {}
  /\ now = 0
  /\ answer = Null

Next ==
  \/ \E k \in Keys :
       \/ Get(k) \/ Delete(k) \/ GetAndDelete(k)
       \/ \E ttl \in Ttls :
            Touch(k, ttl) \/ \E v \in Values : Set(k, v, ttl) \/ SetIfAbsent(k, v, ttl)
       \/ \E x \in Values :
            \/ CompareAndDelete(k, x)
            \/ \E v \in Values, ttl \in Ttls \cup {Keep} : CompareAndSet(k, x, v, ttl)
  \/ \E S \in SUBSET Keys : Scan(S)
  \/ \E tm \in timers : Fire(tm)
  \/ Tick

Spec == Init /\ [][Next]_vars

-----------------------------------------------------------------------------
TypeOK ==
  /\ map \in [Keys -> MemoryEntry \cup {Null}]
  /\ timers \subseteq Timer
  /\ now \in Nat

(* A pending timer is the timer of the entry its key holds, and due when    *)
(* that entry is: clearTimer misses none, so none fires on a later entry.   *)
TimersMatchEntries ==
  \A tm \in timers :
    /\ map[tm.key] # Null
    /\ map[tm.key].timer = tm /\ map[tm.key].end = tm.at

(* The other way round: an entry that was given a timer still has it, so    *)
(* that entries nobody asks for are freed.                                  *)
EntriesKeepTimers == \A k \in Keys : map[k] # Null => {map[k].timer} \ {Null} \subseteq timers

(* Timers, late timers, replaced entries and dropped ones come to the store *)
(* contract: an entry is there exactly until its deadline, and every answer *)
(* is the contract's.                                                       *)
Contract == INSTANCE TokenStore WITH entry <- [k \in Keys |-> Seen(k)]
ImplementsTokenStore == Contract!Spec
=============================================================================
