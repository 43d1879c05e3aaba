------------------------- MODULE MemoryStore_proofs -------------------------
(***************************************************************************)
(* MemoryStore implements TokenStore, for any keys, values, ttls and limit *)
(* of timers.  The invariant is that a pending timer is the timer of the   *)
(* entry its key holds and is due when that entry is: a timer that fires   *)
(* then deletes an entry that nobody can read any more.                    *)
(***************************************************************************)
EXTENDS MemoryStore, TLAPS

IInv == TypeOK /\ TimersMatchEntries

LEMMA UntilType ==
  ASSUME now \in Nat, NEW ttl \in Ttls
  PROVE  Until(ttl) \in Nat \cup {Null}
BY StoreAssumption DEF Until, Ttls

(* write leaves one timer of its key, that of the new entry. *)
LEMMA WriteKeeps ==
  ASSUME IInv, NEW k \in Keys, NEW v \in Values, NEW ttl \in Ttls,
         Write(k, v, ttl), now' = now
  PROVE  IInv'
<1> DEFINE new == ScheduleExpire(k, ttl)
           e == [value |-> v, end |-> Until(ttl),
                 timer |-> IF new = {} THEN Null ELSE CHOOSE tm \in new : TRUE]
<1> USE DEF IInv
<1>1. now \in Nat BY DEF TypeOK
<1>2. timers' = ClearTimer(k) \cup new /\ map' = [map EXCEPT ![k] = e]
  BY DEF Write
<1>3. CASE new = {}
  <2>1. e.timer = Null /\ e.value = v /\ e.end = Until(ttl) BY <1>3
  <2>2. e \in MemoryEntry BY <1>3, <1>1, UntilType DEF MemoryEntry
  <2>3. timers' = ClearTimer(k) BY <1>2, <1>3
  <2>4. TypeOK' BY <1>2, <2>2, <2>3 DEF TypeOK, ClearTimer
  <2>5. ASSUME NEW tm \in timers' PROVE tm.key # k /\ tm \in timers
    BY <2>3, <2>5 DEF ClearTimer, TimersMatchEntries, TypeOK, Timer
  <2>6. TimersMatchEntries' BY <1>2, <2>5 DEF TimersMatchEntries, TypeOK, Timer
  <2> QED BY <2>4, <2>6
<1>4. CASE new # {}
  <2> DEFINE n == [key |-> k, at |-> now + ttl]
  <2>1. new = {n} /\ ttl # Null BY <1>4 DEF ScheduleExpire
  <2>2. ttl \in Nat BY <2>1, StoreAssumption DEF Ttls
  <2>3. e = [value |-> v, end |-> now + ttl, timer |-> n]
    BY <2>1 DEF Until
  <2>4. n \in Timer /\ now + ttl \in Nat BY <1>1, <2>2 DEF Timer
  <2>5. e \in MemoryEntry BY <2>3, <2>4 DEF MemoryEntry
  <2>6. TypeOK' BY <1>2, <2>1, <2>4, <2>5 DEF TypeOK, ClearTimer
  <2>7. ASSUME NEW tm \in timers' PROVE tm = n \/ (tm.key # k /\ tm \in timers)
    BY <1>2, <2>1, <2>7 DEF ClearTimer, TimersMatchEntries, TypeOK, Timer
  <2>8. e # Null BY <2>5, StoreAssumption
  <2>9. TimersMatchEntries'
    <3> SUFFICES ASSUME NEW tm \in timers'
                 PROVE  map'[tm.key] # Null /\ map'[tm.key].timer = tm
                          /\ map'[tm.key].end = tm.at
      BY DEF TimersMatchEntries
    <3>1. CASE tm = n BY <3>1, <1>2, <2>3, <2>8 DEF TypeOK
    <3>2. CASE tm.key # k /\ tm \in timers
      BY <3>2, <1>2 DEF TimersMatchEntries, TypeOK, Timer
    <3> QED BY <2>7, <3>1, <3>2
  <2> QED BY <2>6, <2>9
<1> QED BY <1>3, <1>4

LEMMA DropKeeps ==
  ASSUME IInv, NEW k \in Keys, Drop(k), now' = now
  PROVE  IInv'
<1> USE DEF IInv
<1>1. TypeOK' BY DEF TypeOK, Drop, ClearTimer
<1>2. ASSUME NEW tm \in timers' PROVE tm.key # k /\ tm \in timers
  BY <1>2 DEF Drop, ClearTimer, TimersMatchEntries, TypeOK, Timer
<1>3. TimersMatchEntries'
  BY <1>2 DEF Drop, TimersMatchEntries, TypeOK, Timer
<1> QED BY <1>1, <1>3

LEMMA PeekKeeps ==
  ASSUME IInv, NEW k \in Keys, Peek(k), now' = now
  PROVE  IInv'
<1>1. CASE Drop(k) BY <1>1, DropKeeps
<1>2. CASE UNCHANGED <<map, timers>>
  BY <1>2 DEF IInv, TypeOK, TimersMatchEntries
<1> QED BY <1>1, <1>2 DEF Peek

(* compareAndSet with keep changes the value in place. *)
LEMMA KeepKeeps ==
  ASSUME IInv, NEW k \in Keys, NEW v \in Values, map[k] # Null,
         map' = [map EXCEPT ![k].value = v], UNCHANGED <<timers, now>>
  PROVE  IInv' /\ map'[k] = [value |-> v, end |-> map[k].end, timer |-> map[k].timer]
<1> USE DEF IInv
<1>1. map[k] \in MemoryEntry BY DEF TypeOK
<1>2. map'[k] = [value |-> v, end |-> map[k].end, timer |-> map[k].timer]
  BY <1>1 DEF TypeOK, MemoryEntry
<1>3. map'[k] \in MemoryEntry BY <1>1, <1>2 DEF MemoryEntry
<1>4. TypeOK' BY <1>3 DEF TypeOK
<1>5. map'[k] # Null BY <1>3, StoreAssumption
<1>6. TimersMatchEntries'
  <2> SUFFICES ASSUME NEW tm \in timers
               PROVE  map'[tm.key] # Null /\ map'[tm.key].timer = tm
                        /\ map'[tm.key].end = tm.at
    BY DEF TimersMatchEntries
  <2>1. CASE tm.key = k BY <2>1, <1>2, <1>5 DEF TimersMatchEntries
  <2>2. CASE tm.key # k BY <2>2 DEF TimersMatchEntries, TypeOK, Timer
  <2> QED BY <2>1, <2>2
<1> QED BY <1>2, <1>4, <1>6

LEMMA ScanKeeps ==
  ASSUME IInv, NEW S \in SUBSET Keys, Scan(S)
  PROVE  IInv'
<1> DEFINE gone == {k \in S : Due(k)}
<1> USE DEF IInv
<1>1. /\ map' = [k \in Keys |-> IF k \in gone THEN Null ELSE map[k]]
      /\ timers' = timers \ {map[k].timer : k \in gone}
      /\ now' = now
  BY DEF Scan, Return
<1>2. TypeOK' BY <1>1 DEF TypeOK
<1>3. ASSUME NEW tm \in timers' PROVE tm \in timers /\ tm.key \in Keys \ gone
  BY <1>1, <1>3 DEF TimersMatchEntries, TypeOK, Timer
<1>4. TimersMatchEntries' BY <1>1, <1>3 DEF TimersMatchEntries
<1> QED BY <1>2, <1>4

LEMMA FireKeeps ==
  ASSUME IInv, NEW tm \in timers, Fire(tm)
  PROVE  IInv'
<1> USE DEF IInv
<1>1. TypeOK' BY DEF Fire, TypeOK
<1>2. ASSUME NEW other \in timers' PROVE other \in timers /\ other.key # tm.key
  BY <1>2 DEF Fire, TimersMatchEntries
<1>3. TimersMatchEntries' BY <1>2 DEF Fire, TimersMatchEntries, TypeOK, Timer
<1> QED BY <1>1, <1>3

-----------------------------------------------------------------------------
(* What the four ways to change the map are to the contract.                *)

Seens == [k \in Keys |-> Seen(k)]

LEMMA SeenIsLeft ==
  ASSUME TypeOK, NEW k \in Keys
  PROVE  /\ Present(k) <=> Seen(k) # Null
         /\ Present(k) => Seen(k).value = map[k].value /\ Seen(k).end = map[k].end
BY StoreAssumption DEF TypeOK, Seen, Present, MemoryEntry

LEMMA WriteIsPut ==
  ASSUME TypeOK, NEW k \in Keys, NEW v \in Values, NEW ttl \in Ttls,
         Write(k, v, ttl), now' = now
  PROVE  Contract!Put(k, v, Until(ttl))
<1> DEFINE new == ScheduleExpire(k, ttl)
           e == [value |-> v, end |-> Until(ttl),
                 timer |-> IF new = {} THEN Null ELSE CHOOSE tm \in new : TRUE]
           plain == [value |-> v, end |-> Until(ttl)]
<1>1. map' = [map EXCEPT ![k] = e] BY DEF Write
<1>2. Until(ttl) \in Nat \cup {Null} BY UntilType DEF TypeOK
<1>3. plain # Null BY <1>2, StoreAssumption
<1>4. e \in MemoryEntry
  <2>1. CASE new = {} BY <2>1, <1>2 DEF MemoryEntry
  <2>2. CASE new # {}
    <3>1. new = {[key |-> k, at |-> now + ttl]} /\ ttl \in Nat
      BY <2>2, StoreAssumption DEF ScheduleExpire, Ttls
    <3>2. [key |-> k, at |-> now + ttl] \in Timer BY <3>1 DEF TypeOK, Timer
    <3>3. e.timer \in Timer BY <3>1, <3>2
    <3> QED BY <3>1, <3>2, <1>2 DEF MemoryEntry
  <2> QED BY <2>1, <2>2
<1>5. e # Null BY <1>4, StoreAssumption
<1>6. Seen(k)' = Contract!Left(plain, now)
  <2>1. map'[k] = e BY <1>1 DEF TypeOK
  <2>2. e.value = v /\ e.end = Until(ttl) OBVIOUS
  <2> QED BY <2>1, <2>2, <1>3, <1>5 DEF Seen, Present, Due, Contract!Left
<1>7. ASSUME NEW o \in Keys \ {k} PROVE Seen(o)' = Seen(o)
  BY <1>1 DEF Seen, Present, Due, TypeOK
<1> QED BY <1>6, <1>7 DEF Contract!Put

LEMMA DropIsRemove ==
  ASSUME TypeOK, NEW k \in Keys, Drop(k), now' = now
  PROVE  Contract!Remove(k)
<1>1. Seen(k)' = Null BY DEF Drop, TypeOK, Seen, Present
<1>2. ASSUME NEW o \in Keys \ {k} PROVE Seen(o)' = Seen(o)
  BY DEF Drop, Seen, Present, Due, TypeOK
<1> QED BY <1>1, <1>2 DEF Contract!Remove

LEMMA PeekChangesNothing ==
  ASSUME TypeOK, NEW k \in Keys, Peek(k), now' = now
  PROVE  Seens' = Seens
<1>1. CASE UNCHANGED <<map, timers>>
  BY <1>1 DEF Seens, Seen, Present, Due
<1>2. CASE Due(k) /\ Drop(k)
  <2>1. Seen(k) = Null BY <1>2 DEF Seen, Present
  <2>2. Seens' = [Seens EXCEPT ![k] = Null]
    BY <1>2, DropIsRemove DEF Contract!Remove, Seens
  <2> QED BY <2>1, <2>2 DEF Seens
<1> QED BY <1>1, <1>2 DEF Peek

LEMMA HoldsIsHolds ==
  ASSUME TypeOK, NEW k \in Keys, NEW v
  PROVE  Holds(k, v) <=> Contract!Holds(k, v)
BY SeenIsLeft DEF Holds, Contract!Holds

LEMMA KeepIsPut ==
  ASSUME IInv, NEW k \in Keys, NEW v \in Values, Present(k),
         map' = [map EXCEPT ![k].value = v], UNCHANGED <<timers, now>>
  PROVE  Contract!Put(k, v, Seen(k).end)
<1> DEFINE plain == [value |-> v, end |-> map[k].end]
<1>1. map[k] # Null /\ map[k] \in MemoryEntry BY DEF Present, IInv, TypeOK
<1>2. map'[k] = [value |-> v, end |-> map[k].end, timer |-> map[k].timer] /\ TypeOK'
  BY <1>1, KeepKeeps DEF IInv
<1>3. map'[k].value = v /\ map'[k].end = map[k].end BY <1>2
<1>4. map'[k] # Null
  <2>1. map'[k] \in MemoryEntry BY <1>1, <1>2 DEF MemoryEntry
  <2> QED BY <2>1, StoreAssumption
<1>5. Seen(k).end = map[k].end BY SeenIsLeft DEF IInv
<1>6. Seen(k)' = plain BY <1>1, <1>3, <1>4 DEF Seen, Present, Due
<1>7. Contract!Left(plain, now) = plain
  BY <1>1 DEF Present, Due, Contract!Left
<1>8. ASSUME NEW o \in Keys \ {k} PROVE Seen(o)' = Seen(o)
  BY DEF Seen, Present, Due, IInv, TypeOK
<1> QED BY <1>5, <1>6, <1>7, <1>8 DEF Contract!Put

-----------------------------------------------------------------------------
(* One lemma per method: it keeps the invariant, and is the contract's.     *)

LEMMA GetStep ==
  ASSUME IInv, NEW k \in Keys, Get(k)
  PROVE  IInv' /\ Contract!Get(k)
<1>1. Peek(k) /\ now' = now /\ answer' = [of |-> "get", got |-> [found |-> Seen(k)]]
  BY DEF Get, Return
<1>2. Seens' = Seens BY <1>1, PeekChangesNothing DEF IInv
<1> QED BY <1>1, <1>2, PeekKeeps DEF Contract!Get, Contract!Return, Seens

LEMMA SetStep ==
  ASSUME IInv, NEW k \in Keys, NEW v \in Values, NEW ttl \in Ttls, Set(k, v, ttl)
  PROVE  IInv' /\ Contract!Set(k, v, ttl)
<1>1. Write(k, v, ttl) /\ now' = now /\ answer' = [of |-> "set", got |-> Null] BY DEF Set, Return
<1>2. IInv' BY <1>1, WriteKeeps
<1>3. Contract!Put(k, v, Until(ttl)) BY <1>1, WriteIsPut DEF IInv
<1> QED BY <1>1, <1>2, <1>3 DEF Contract!Set, Contract!Return, Until, Contract!Until

LEMMA DeleteStep ==
  ASSUME IInv, NEW k \in Keys, Delete(k)
  PROVE  IInv' /\ Contract!Delete(k)
BY DropKeeps, DropIsRemove DEF Delete, Return, Contract!Delete, Contract!Return, IInv

LEMMA GetAndDeleteStep ==
  ASSUME IInv, NEW k \in Keys, GetAndDelete(k)
  PROVE  IInv' /\ Contract!GetAndDelete(k)
BY DropKeeps, DropIsRemove DEF GetAndDelete, Return, Contract!GetAndDelete, Contract!Return, IInv

LEMMA SetIfAbsentStep ==
  ASSUME IInv, NEW k \in Keys, NEW v \in Values, NEW ttl \in Ttls, SetIfAbsent(k, v, ttl)
  PROVE  IInv' /\ Contract!SetIfAbsent(k, v, ttl)
<1> USE DEF IInv
<1>1. CASE ~Present(k) /\ Write(k, v, ttl) /\ Return("setIfAbsent", [done |-> TRUE])
  <2>1. Seen(k) = Null BY <1>1, SeenIsLeft
  <2>2. IInv' /\ Contract!Put(k, v, Until(ttl))
    BY <1>1, WriteKeeps, WriteIsPut DEF Return
  <2> QED BY <1>1, <2>1, <2>2
          DEF Return, Contract!SetIfAbsent, Contract!Return, Until, Contract!Until
<1>2. CASE Present(k) /\ Peek(k) /\ Return("setIfAbsent", [done |-> FALSE])
  <2>1. Seen(k) # Null BY <1>2, SeenIsLeft
  <2>2. IInv' /\ Seens' = Seens BY <1>2, PeekKeeps, PeekChangesNothing DEF Return
  <2> QED BY <1>2, <2>1, <2>2 DEF Return, Contract!SetIfAbsent, Contract!Return, Seens
<1> QED BY <1>1, <1>2 DEF SetIfAbsent

LEMMA CompareAndSetStep ==
  ASSUME IInv, NEW k \in Keys, NEW x \in Values, NEW v \in Values,
         NEW ttl \in Ttls \cup {Keep}, CompareAndSet(k, x, v, ttl)
  PROVE  IInv' /\ Contract!CompareAndSet(k, x, v, ttl)
<1> USE DEF IInv
<1>1. CASE Holds(k, x) /\ ttl # Keep /\ Write(k, v, ttl) /\ Return("compareAndSet", [done |-> TRUE])
  <2>1. Contract!Holds(k, x) BY <1>1, HoldsIsHolds
  <2>2. IInv' /\ Contract!Put(k, v, Until(ttl))
    BY <1>1, WriteKeeps, WriteIsPut DEF Return
  <2> QED BY <1>1, <2>1, <2>2
          DEF Return, Contract!CompareAndSet, Contract!Return, Until, Contract!Until
<1>2. CASE /\ Holds(k, x) /\ ttl = Keep
           /\ map' = [map EXCEPT ![k].value = v]
           /\ UNCHANGED timers
           /\ Return("compareAndSet", [done |-> TRUE])
  <2>1. Contract!Holds(k, x) /\ Present(k) /\ map[k] # Null
    BY <1>2, HoldsIsHolds DEF Holds, Present
  <2>2. IInv' BY <1>2, <2>1, KeepKeeps DEF Return
  <2>3. Contract!Put(k, v, Seen(k).end) BY <1>2, <2>1, KeepIsPut DEF Return
  <2> QED BY <1>2, <2>1, <2>2, <2>3 DEF Return, Contract!CompareAndSet, Contract!Return
<1>3. CASE ~Holds(k, x) /\ Peek(k) /\ Return("compareAndSet", [done |-> FALSE])
  <2>1. ~Contract!Holds(k, x) BY <1>3, HoldsIsHolds
  <2>2. IInv' /\ Seens' = Seens BY <1>3, PeekKeeps, PeekChangesNothing DEF Return
  <2> QED BY <1>3, <2>1, <2>2 DEF Return, Contract!CompareAndSet, Contract!Return, Seens
<1> QED BY <1>1, <1>2, <1>3 DEF CompareAndSet

LEMMA CompareAndDeleteStep ==
  ASSUME IInv, NEW k \in Keys, NEW x \in Values, CompareAndDelete(k, x)
  PROVE  IInv' /\ Contract!CompareAndDelete(k, x)
<1> USE DEF IInv
<1>1. CASE Holds(k, x) /\ Drop(k) /\ Return("compareAndDelete", [done |-> TRUE])
  <2>1. Contract!Holds(k, x) BY <1>1, HoldsIsHolds
  <2> QED BY <1>1, <2>1, DropKeeps, DropIsRemove
          DEF Return, Contract!CompareAndDelete, Contract!Return
<1>2. CASE ~Holds(k, x) /\ Peek(k) /\ Return("compareAndDelete", [done |-> FALSE])
  <2>1. ~Contract!Holds(k, x) BY <1>2, HoldsIsHolds
  <2>2. IInv' /\ Seens' = Seens BY <1>2, PeekKeeps, PeekChangesNothing DEF Return
  <2> QED BY <1>2, <2>1, <2>2 DEF Return, Contract!CompareAndDelete, Contract!Return, Seens
<1> QED BY <1>1, <1>2 DEF CompareAndDelete

LEMMA TouchStep ==
  ASSUME IInv, NEW k \in Keys, NEW ttl \in Ttls, Touch(k, ttl)
  PROVE  IInv' /\ Contract!Touch(k, ttl)
<1> USE DEF IInv
<1>1. CASE Present(k) /\ Write(k, map[k].value, ttl) /\ Return("touch", [done |-> TRUE])
  <2>1. Seen(k) # Null /\ Seen(k).value = map[k].value BY <1>1, SeenIsLeft
  <2>2. map[k].value \in Values BY <1>1 DEF Present, TypeOK, MemoryEntry
  <2>3. IInv' /\ Contract!Put(k, Seen(k).value, Until(ttl))
    BY <1>1, <2>1, <2>2, WriteKeeps, WriteIsPut DEF Return
  <2> QED BY <1>1, <2>1, <2>3
          DEF Return, Contract!Touch, Contract!Return, Until, Contract!Until
<1>2. CASE ~Present(k) /\ Peek(k) /\ Return("touch", [done |-> FALSE])
  <2>1. Seen(k) = Null BY <1>2, SeenIsLeft
  <2>2. IInv' /\ Seens' = Seens BY <1>2, PeekKeeps, PeekChangesNothing DEF Return
  <2> QED BY <1>2, <2>1, <2>2 DEF Return, Contract!Touch, Contract!Return, Seens
<1> QED BY <1>1, <1>2 DEF Touch

LEMMA ScanStep ==
  ASSUME IInv, NEW S \in SUBSET Keys, Scan(S)
  PROVE  IInv' /\ Contract!Scan(S)
<1> USE DEF IInv
<1>1. {k \in S : Present(k)} = {k \in S : Seen(k) # Null} BY SeenIsLeft
<1>2. ASSUME NEW k \in Keys PROVE Seen(k)' = Seen(k)
  BY DEF Scan, Return, TypeOK, Seen, Present, Due
<1>3. Seens' = Seens BY <1>2 DEF Seens
<1> QED BY <1>1, <1>3, ScanKeeps DEF Scan, Return, Contract!Scan, Contract!Return, Seens

(* The timer's entry is due, so nobody could read it. *)
LEMMA FireStep ==
  ASSUME IInv, NEW tm \in timers, Fire(tm)
  PROVE  IInv' /\ Seens' = Seens /\ answer' = answer
<1> USE DEF IInv
<1>1. tm.key \in Keys /\ tm.at \in Nat BY DEF TypeOK, Timer
<1>2. Due(tm.key) BY <1>1, StoreAssumption DEF Fire, TimersMatchEntries, Due, TypeOK
<1>3. ASSUME NEW k \in Keys PROVE Seen(k)' = Seen(k)
  BY <1>1, <1>2 DEF Fire, TypeOK, Seen, Present, Due
<1> QED BY <1>3, FireKeeps DEF Fire, Seens

LEMMA TickStep ==
  ASSUME IInv, Tick
  PROVE  IInv' /\ Contract!Tick
<1> USE DEF IInv
<1>1. IInv' BY DEF Tick, TypeOK, TimersMatchEntries
<1>2. ASSUME NEW k \in Keys PROVE Seen(k)' = Contract!Left(Seen(k), now + 1)
  <2>1. map[k] # Null => map[k].end \in Nat \cup {Null} BY DEF TypeOK, MemoryEntry
  <2>2. CASE map[k] = Null
    BY <2>2 DEF Tick, Seen, Present, Due, Contract!Left
  <2>3. CASE map[k] # Null /\ map[k].end = Null
    BY <2>3, SeenIsLeft DEF Tick, Seen, Present, Due, Contract!Left
  <2>4. CASE map[k] # Null /\ map[k].end \in Nat
    BY <2>4, SeenIsLeft, StoreAssumption DEF Tick, Seen, Present, Due, Contract!Left, TypeOK
  <2> QED BY <2>1, <2>2, <2>3, <2>4
<1> QED BY <1>1, <1>2 DEF Tick, Contract!Tick

-----------------------------------------------------------------------------
LEMMA InitStep == Init => IInv /\ Contract!Init
BY DEF Init, IInv, TypeOK, TimersMatchEntries, Contract!Init, Seen, Present

LEMMA NextStep ==
  ASSUME IInv, [Next]_vars
  PROVE  IInv' /\ [Contract!Next]_(Contract!vars)
<1>1. CASE UNCHANGED vars
  <2>1. IInv' BY <1>1 DEF vars, IInv, TypeOK, TimersMatchEntries
  <2>2. UNCHANGED Contract!vars
    BY <1>1 DEF vars, Contract!vars, Seen, Present, Due
  <2> QED BY <2>1, <2>2
<1>2. ASSUME NEW k \in Keys, Get(k) \/ Delete(k) \/ GetAndDelete(k)
      PROVE  IInv' /\ Contract!Next
  BY <1>2, GetStep, DeleteStep, GetAndDeleteStep DEF Contract!Next
<1>3. ASSUME NEW k \in Keys, NEW ttl \in Ttls, Touch(k, ttl)
      PROVE  IInv' /\ Contract!Next
  BY <1>3, TouchStep DEF Contract!Next, Ttls, Contract!Ttls
<1>4. ASSUME NEW k \in Keys, NEW ttl \in Ttls, NEW v \in Values,
             Set(k, v, ttl) \/ SetIfAbsent(k, v, ttl)
      PROVE  IInv' /\ Contract!Next
  BY <1>4, SetStep, SetIfAbsentStep DEF Contract!Next, Ttls, Contract!Ttls
<1>5. ASSUME NEW k \in Keys, NEW x \in Values, CompareAndDelete(k, x)
      PROVE  IInv' /\ Contract!Next
  BY <1>5, CompareAndDeleteStep DEF Contract!Next
<1>6. ASSUME NEW k \in Keys, NEW x \in Values, NEW v \in Values,
             NEW ttl \in Ttls \cup {Keep}, CompareAndSet(k, x, v, ttl)
      PROVE  IInv' /\ Contract!Next
  BY <1>6, CompareAndSetStep DEF Contract!Next, Ttls, Contract!Ttls
<1>7. ASSUME NEW S \in SUBSET Keys, Scan(S)
      PROVE  IInv' /\ Contract!Next
  BY <1>7, ScanStep DEF Contract!Next
<1>8. ASSUME NEW tm \in timers, Fire(tm)
      PROVE  IInv' /\ UNCHANGED Contract!vars
  BY <1>8, FireStep DEF Fire, Seens, Contract!vars
<1>9. CASE Tick BY <1>9, TickStep DEF Contract!Next
<1> QED BY <1>1, <1>2, <1>3, <1>4, <1>5, <1>6, <1>7, <1>8, <1>9 DEF Next

(* No timer is ever pending that is not the timer of the entry its key      *)
(* holds: clearTimer reaches every timer that a write, a delete or a lazy   *)
(* expiry makes pointless.                                                  *)
THEOREM TimersMatch == Spec => []TimersMatchEntries
<1>1. IInv /\ [Next]_vars => IInv' BY NextStep
<1>2. IInv => TimersMatchEntries BY DEF IInv
<1> QED BY InitStep, <1>1, <1>2, PTL DEF Spec

(* MemoryStore implements the contract of XltTokenStore: timers that fire   *)
(* late, are replaced or are never set cannot be told from entries that     *)
(* simply end at their deadline.                                            *)
THEOREM StoreImplemented == Spec => ImplementsTokenStore
<1>1. IInv /\ [Next]_vars => IInv' /\ [Contract!Next]_(Contract!vars) BY NextStep
<1> QED BY InitStep, <1>1, PTL DEF Spec, ImplementsTokenStore, Contract!Spec

-----------------------------------------------------------------------------
(* The other way round.  A timer is its own key's, so that clearing one     *)
(* key's timer takes no other entry's.                                      *)
Owned ==
  \A k \in Keys : map[k] # Null /\ map[k].timer # Null =>
    map[k].timer \in timers /\ map[k].timer.key = k

LEMMA WriteOwns ==
  ASSUME TypeOK, Owned, NEW k \in Keys, NEW v, NEW ttl, Write(k, v, ttl)
  PROVE  Owned'
<1> DEFINE new == ScheduleExpire(k, ttl)
           t == IF new = {} THEN Null ELSE CHOOSE tm \in new : TRUE
           e == [value |-> v, end |-> Until(ttl), timer |-> t]
           n == [key |-> k, at |-> now + ttl]
<1>1. timers' = ClearTimer(k) \cup new /\ map' = [map EXCEPT ![k] = e] BY DEF Write
<1>2. t # Null => t \in new /\ t = n
  BY DEF ScheduleExpire
<1>3. e.timer = t OBVIOUS
<1>4. n.key = k OBVIOUS
<1> HIDE DEF e, t, new, n
<1>5. map'[k] = e /\ \A j \in Keys : j # k => map'[j] = map[j] BY <1>1 DEF TypeOK
<1>6. map[k] # Null /\ map[k].timer # Null => map[k].timer.key = k BY DEF Owned
<1>7. ASSUME NEW j \in Keys, j # k, map[j] # Null, map[j].timer # Null
      PROVE  map[j].timer \in timers' /\ map[j].timer.key = j
  BY <1>1, <1>6, <1>7 DEF Owned, ClearTimer
<1>8. ASSUME NEW j \in Keys, map'[j] # Null, map'[j].timer # Null
      PROVE  map'[j].timer \in timers' /\ map'[j].timer.key = j
  <2>1. CASE j = k BY <1>1, <1>2, <1>3, <1>4, <1>5, <1>8, <2>1
  <2>2. CASE j # k BY <1>5, <1>7, <1>8, <2>2
  <2> QED BY <2>1, <2>2
<1> QED BY <1>8 DEF Owned

LEMMA DropOwns == ASSUME TypeOK, Owned, NEW k \in Keys, Drop(k) PROVE Owned'
<1>1. timers' = ClearTimer(k) /\ map' = [map EXCEPT ![k] = Null] BY DEF Drop
<1>2. map'[k] = Null /\ \A j \in Keys : j # k => map'[j] = map[j] BY <1>1 DEF TypeOK
<1>3. map[k] # Null /\ map[k].timer # Null => map[k].timer.key = k BY DEF Owned
<1>4. ASSUME NEW j \in Keys, map'[j] # Null, map'[j].timer # Null
      PROVE  map'[j].timer \in timers' /\ map'[j].timer.key = j
  BY <1>1, <1>2, <1>3, <1>4 DEF Owned, ClearTimer
<1> QED BY <1>4 DEF Owned

LEMMA PeekOwns == ASSUME TypeOK, Owned, NEW k \in Keys, Peek(k) PROVE Owned'
<1>1. CASE Drop(k) BY <1>1, DropOwns
<1>2. CASE UNCHANGED <<map, timers>> BY <1>2 DEF Owned
<1> QED BY <1>1, <1>2 DEF Peek

LEMMA KeepOwns ==
  ASSUME IInv, Owned, NEW k \in Keys, NEW v \in Values, map[k] # Null,
         map' = [map EXCEPT ![k].value = v], UNCHANGED <<timers, now>>
  PROVE  Owned'
<1>1. map'[k] = [value |-> v, end |-> map[k].end, timer |-> map[k].timer] BY KeepKeeps
<1>2. map'[k].timer = map[k].timer BY <1>1
<1>3. \A j \in Keys : j # k => map'[j] = map[j] BY DEF IInv, TypeOK
<1> QED BY <1>2, <1>3 DEF Owned

LEMMA ScanOwns == ASSUME TypeOK, Owned, NEW S \in SUBSET Keys, Scan(S) PROVE Owned'
<1> DEFINE gone == {k \in S : Due(k)}
<1>1. /\ map' = [k \in Keys |-> IF k \in gone THEN Null ELSE map[k]]
      /\ timers' = timers \ {map[k].timer : k \in gone}
  BY DEF Scan
<1>2. \A k \in gone : k \in Keys /\ map[k] # Null BY DEF Due
<1> HIDE DEF gone
<1>3. ASSUME NEW j \in Keys, map'[j] # Null, map'[j].timer # Null
      PROVE  map'[j].timer \in timers' /\ map'[j].timer.key = j
  <2>1. map'[j] = map[j] /\ j \notin gone BY <1>1, <1>3
  <2>2. map[j].timer \in timers /\ map[j].timer.key = j BY <1>3, <2>1 DEF Owned
  <2>3. \A k \in gone : map[k].timer # map[j].timer BY <1>2, <1>3, <2>1, <2>2 DEF Owned
  <2> QED BY <1>1, <2>1, <2>2, <2>3
<1> QED BY <1>3 DEF Owned

LEMMA FireOwns == ASSUME IInv, Owned, NEW tm \in timers, Fire(tm) PROVE Owned'
<1>1. tm.key \in Keys BY DEF IInv, TypeOK, Timer
<1>2. map'[tm.key] = Null /\ \A j \in Keys : j # tm.key => map'[j] = map[j]
  BY <1>1 DEF Fire, IInv, TypeOK
<1> QED BY <1>2 DEF Fire, Owned

LEMMA NextOwns == ASSUME IInv, Owned, [Next]_vars PROVE Owned'
<1> USE DEF IInv
<1>1. CASE UNCHANGED vars BY <1>1 DEF vars, Owned
<1>2. ASSUME NEW k \in Keys, Get(k) \/ Delete(k) \/ GetAndDelete(k) PROVE Owned'
  BY <1>2, PeekOwns, DropOwns DEF Get, Delete, GetAndDelete
<1>3. ASSUME NEW k \in Keys, NEW ttl \in Ttls, Touch(k, ttl) PROVE Owned'
  BY <1>3, WriteOwns, PeekOwns DEF Touch
<1>4. ASSUME NEW k \in Keys, NEW ttl \in Ttls, NEW v \in Values,
             Set(k, v, ttl) \/ SetIfAbsent(k, v, ttl)
      PROVE  Owned'
  BY <1>4, WriteOwns, PeekOwns DEF Set, SetIfAbsent
<1>5. ASSUME NEW k \in Keys, NEW x \in Values, CompareAndDelete(k, x) PROVE Owned'
  BY <1>5, DropOwns, PeekOwns DEF CompareAndDelete
<1>6. ASSUME NEW k \in Keys, NEW x \in Values, NEW v \in Values,
             NEW ttl \in Ttls \cup {Keep}, CompareAndSet(k, x, v, ttl)
      PROVE  Owned'
  <2>1. CASE Write(k, v, ttl) BY <2>1, WriteOwns
  <2>2. CASE Peek(k) BY <2>2, PeekOwns
  <2>3. CASE Holds(k, x) /\ map' = [map EXCEPT ![k].value = v] /\ UNCHANGED <<timers, now>>
    BY <2>3, KeepOwns DEF Holds, Present
  <2> QED BY <1>6, <2>1, <2>2, <2>3 DEF CompareAndSet, Return
<1>7. ASSUME NEW S \in SUBSET Keys, Scan(S) PROVE Owned' BY <1>7, ScanOwns
<1>8. ASSUME NEW tm \in timers, Fire(tm) PROVE Owned' BY <1>8, FireOwns
<1>9. CASE Tick BY <1>9 DEF Tick, Owned
<1> QED BY <1>1, <1>2, <1>3, <1>4, <1>5, <1>6, <1>7, <1>8, <1>9 DEF Next

(* The map's entries and the timers have their types. *)
THEOREM StoreTypes == Spec => []TypeOK
<1>1. IInv /\ [Next]_vars => IInv' BY NextStep
<1>2. IInv => TypeOK BY DEF IInv
<1> QED BY InitStep, <1>1, <1>2, PTL DEF Spec

(* No entry that was given a timer loses it while it stays: what nobody     *)
(* reads is freed when it ends.                                             *)
THEOREM TimersStay == Spec => []EntriesKeepTimers
<1>1. Init => IInv /\ Owned BY InitStep DEF Init, Owned
<1>2. IInv /\ Owned /\ [Next]_vars => IInv' /\ Owned' BY NextStep, NextOwns
<1>3. Owned => EntriesKeepTimers BY DEF Owned, EntriesKeepTimers
<1> QED BY <1>1, <1>2, <1>3, PTL DEF Spec
=============================================================================
