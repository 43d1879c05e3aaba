-------------------------- MODULE RedisStore_proofs --------------------------
(***************************************************************************)
(* Theorems about RedisStore for every set of clients, keys and values,    *)
(* any number of masters and buckets, and any interleaving of commands.    *)
(***************************************************************************)
EXTENDS RedisStore, TLAPS

(* No entry is kept past its moment. *)
InTime == \A k \in Keys : db[k] # Null => db[k].end = Null \/ db[k].end > now

IInv == TypeOK /\ InTime

Scanning == [ever: SUBSET Keys, always: SUBSET Keys, still: BOOLEAN]

LEMMA RecordsAreNotNull ==
  \A v \in Values, end \in Nat \cup {Null} :
    /\ [value |-> v, end |-> end] # Null
    /\ [value |-> v, end |-> end] \in Entry
  BY RedisAssumption DEF Entry

LEMMA Cursors ==
  ASSUME NEW to \in 0 .. Buckets - 1
  PROVE  /\ CursorAfter(to) \in 0 .. Buckets - 1
         /\ to + 1 < Buckets => CursorAfter(to) = to + 1
         /\ to + 1 = Buckets => CursorAfter(to) = 0
  BY RedisAssumption DEF CursorAfter

LEMMA InitIInv == Init => IInv
<1> SUFFICES ASSUME Init PROVE IInv
  OBVIOUS
<1>1. Idle \in [pc: {"idle", "ttl", "scan"}, key: Keys \cup {Null},
                got: Values \cup {Null}, at: 0 .. MaxMasters - 1,
                cursor: 0 .. Buckets - 1, found: SUBSET Keys]
  BY RedisAssumption DEF Idle
<1>2. TypeOK
  <2>1. \/ cluster = FALSE /\ masters = 1
        \/ cluster = TRUE /\ masters \in 1 .. MaxMasters
    BY DEF Init
  <2>2. 1 \in 1 .. MaxMasters
    BY RedisAssumption
  <2>3. masters \in 1 .. MaxMasters /\ cluster \in BOOLEAN
    BY <2>1, <2>2, Zenon
  <2> QED BY <1>1, <2>3 DEF Init, TypeOK
<1> QED BY <1>2 DEF Init, IInv, InTime

(* A command changes one entry, to none or to one that is still in time. *)
LEMMA CommandSteps ==
  ASSUME IInv, Command
  PROVE  /\ UNCHANGED <<now, cluster, masters, home, req>> /\ result' = Null
         /\ \/ db' = db
            \/ \E k \in Keys : db' = [db EXCEPT ![k] = Null]
            \/ \E k \in Keys, v \in Values, end \in Nat \cup {Null} :
                 (end = Null \/ end > now) /\ SET(k, v, end)
<1> USE DEF IInv
<1> DEFINE Sets == \E k \in Keys, v \in Values, end \in Nat \cup {Null} :
                     (end = Null \/ end > now) /\ SET(k, v, end)
           Drops == \E k \in Keys : db' = [db EXCEPT ![k] = Null]
           Still1 == UNCHANGED <<now, cluster, masters, home, req>> /\ result' = Null
<1>0. /\ now \in Nat /\ \A ttl \in Ttls : ttl = 0 \/ ttl = Null \/ (ttl \in Nat /\ ttl > 0)
      /\ \A k \in Keys : db[k] # Null => db[k].value \in Values /\ db[k].end \in Nat \cup {Null}
      /\ \A k \in Keys : db[k] # Null => db[k].end = Null \/ db[k].end > now
  <2>1. \A ttl \in Ttls : ttl = 0 \/ ttl = Null \/ (ttl \in Nat /\ ttl > 0)
    <3>1. \A n \in Nat : n = 0 \/ n > 0
      OBVIOUS
    <3>2. Seconds \subseteq Nat
      BY RedisAssumption
    <3> QED BY <3>1, <3>2 DEF Ttls
  <2>2. now \in Nat /\ \A k \in Keys : db[k] # Null => db[k] \in Entry
    BY DEF TypeOK
  <2> QED BY <2>1, <2>2 DEF Entry, InTime
<1>1. \A ttl \in Ttls : ttl # 0 => Until(ttl) \in Nat \cup {Null} /\ (Until(ttl) = Null \/ Until(ttl) > now)
  BY <1>0 DEF Until
<1>2. \A ttl \in Ttls \cup {Keep} : MutationArguments(ttl) = "finite" => ttl \in Ttls /\ ttl # Null
  BY DEF MutationArguments
<1>3. ASSUME NEW k \in Keys, Delete(k) \/ GetAndDelete(k) PROVE Still1 /\ Drops
  BY <1>3 DEF Delete, GetAndDelete, GetAndDeleteScript, DEL, Return
<1>4. ASSUME NEW k \in Keys, NEW ttl \in Ttls, Touch(k, ttl) PROVE Still1 /\ (Sets \/ Drops \/ db' = db)
  BY <1>0, <1>2, <1>4 DEF Touch, TouchScript, Return, SET, DEL
<1>5. ASSUME NEW k \in Keys, NEW ttl \in Ttls, NEW v \in Values, Set(k, v, ttl)
      PROVE  Still1 /\ (Sets \/ Drops)
  BY <1>1, <1>5 DEF Set, Return, DEL
<1>6. ASSUME NEW k \in Keys, NEW ttl \in Ttls, NEW v \in Values, SetIfAbsent(k, v, ttl)
      PROVE  Still1 /\ (Sets \/ db' = db)
  BY <1>1, <1>6 DEF SetIfAbsent, Return
<1>7. ASSUME NEW k \in Keys, NEW x \in Values, CompareAndDelete(k, x) PROVE Still1 /\ (Drops \/ db' = db)
  BY <1>7 DEF CompareAndDelete, CompareAndMutate, Return, DEL
<1>8. ASSUME NEW k \in Keys, NEW x \in Values, NEW v \in Values, NEW ttl \in Ttls \cup {Keep},
             CompareAndSet(k, x, v, ttl)
      PROVE  Still1 /\ (Sets \/ db' = db)
  <2>1. CASE db' = db
    BY <1>8, <2>1 DEF CompareAndSet, CompareAndMutate, Return
  <2>2. CASE Holds(k, x) /\ SET(k, v, db[k].end)
    BY <1>0, <1>8, <2>2 DEF CompareAndSet, CompareAndMutate, Return, Holds
  <2>3. CASE SET(k, v, Null)
    BY <1>8, <2>3 DEF CompareAndSet, CompareAndMutate, Return
  <2>4. CASE MutationArguments(ttl) = "finite" /\ ttl # 0 /\ SET(k, v, now + ttl)
    BY <1>0, <1>2, <1>8, <2>4 DEF CompareAndSet, CompareAndMutate, Return
  <2>5. MutationArguments(ttl) # "delete"
    BY DEF MutationArguments
  <2> QED BY <1>8, <2>1, <2>2, <2>3, <2>4, <2>5 DEF CompareAndSet, CompareAndMutate
<1> QED
  BY <1>3, <1>4, <1>5, <1>6, <1>7, <1>8 DEF Command
-----------------------------------------------------------------------------
(* What the steps that are not commands change. *)
LEMMA ReadSteps ==
  ASSUME NEW c \in Clients,
         \/ \E k \in Keys : GetValue(c, k)
         \/ GetTtl(c) \/ StartScan(c) \/ ScanPage(c) \/ ScanClusterPage(c)
  PROVE  UNCHANGED <<db, now, cluster, masters, home, answer>>
<1> USE DEF Become, Finish, Still
<1>1. ASSUME NEW k \in Keys, GetValue(c, k) PROVE Still
  BY <1>1 DEF GetValue
<1>2. CASE GetTtl(c)
  BY <1>2 DEF GetTtl
<1>3. CASE StartScan(c)
  BY <1>3 DEF StartScan
<1>4. CASE ScanPage(c)
  BY <1>4 DEF ScanPage
<1>5. CASE ScanClusterPage(c)
  BY <1>5 DEF ScanClusterPage, AfterPage
<1> QED BY <1>1, <1>2, <1>3, <1>4, <1>5

Requests == [pc: {"idle", "ttl", "scan"}, key: Keys \cup {Null},
             got: Values \cup {Null}, at: 0 .. MaxMasters - 1,
             cursor: 0 .. Buckets - 1, found: SUBSET Keys]

(* A page: where a scan goes on, or what it returns. *)
Moves(c, q, to) ==
  LET found == Page(q, to).found IN
  \/ /\ to + 1 < Buckets
     /\ req' = [req EXCEPT ![c] = [q EXCEPT !.found = found, !.cursor = to + 1]]
     /\ result' = Null
  \/ /\ to + 1 = Buckets /\ cluster /\ q.at + 1 < masters
     /\ req' = [req EXCEPT ![c] = [q EXCEPT !.found = found, !.at = q.at + 1, !.cursor = 0]]
     /\ result' = Null
  \/ /\ to + 1 = Buckets /\ (cluster => q.at + 1 >= masters)
     /\ req' = [req EXCEPT ![c] = Idle]
     /\ result' = [keys |-> found]

LEMMA PageSteps ==
  ASSUME TypeOK, NEW c \in Clients, ScanPage(c) \/ ScanClusterPage(c)
  PROVE  /\ req[c].pc = "scan" /\ Still
         /\ \E to \in req[c].cursor .. Buckets - 1 : Moves(c, req[c], to)
<1> SUFFICES ASSUME NEW q, q = req[c]
             PROVE  q.pc = "scan" /\ Still /\ \E to \in q.cursor .. Buckets - 1 : Moves(c, q, to)
  OBVIOUS
<1>0. q \in Requests /\ q.cursor \in Nat /\ q.at \in Nat /\ masters \in Nat
  <2>1. q \in Requests
    BY DEF TypeOK, Requests
  <2> QED BY <2>1, RedisAssumption DEF TypeOK, Requests
<1>1. ASSUME NEW to \in q.cursor .. Buckets - 1
      PROVE  /\ to \in 0 .. Buckets - 1 /\ (to + 1 < Buckets \/ to + 1 = Buckets)
             /\ (to + 1 < Buckets => CursorAfter(to) = to + 1 /\ CursorAfter(to) # 0)
             /\ (to + 1 = Buckets => CursorAfter(to) = 0)
  <2>1. to \in 0 .. Buckets - 1 /\ (to + 1 < Buckets \/ to + 1 = Buckets) /\ to + 1 # 0
    BY <1>0, RedisAssumption
  <2> QED BY <2>1, Cursors
<1>2. CASE ScanPage(c)
  <2>1. q.pc = "scan" /\ ~cluster
    BY <1>2 DEF ScanPage
  <2>2. PICK to \in q.cursor .. Buckets - 1 :
       \/ CursorAfter(to) # 0 /\ Become(c, [Page(q, to) EXCEPT !.cursor = CursorAfter(to)])
       \/ CursorAfter(to) = 0 /\ Finish(c, [keys |-> Page(q, to).found])
    BY <1>2 DEF ScanPage
  <2>3. \A n : [Page(q, to) EXCEPT !.cursor = n] = [q EXCEPT !.found = Page(q, to).found, !.cursor = n]
    BY <1>0 DEF Page, Requests
  <2>4. Still
    BY <2>2 DEF Become, Finish
  <2>5. Moves(c, q, to)
    BY <1>1, <2>1, <2>2, <2>3 DEF Moves, Become, Finish
  <2> QED BY <2>1, <2>4, <2>5
<1>3. CASE ScanClusterPage(c)
  <2>1. q.pc = "scan" /\ cluster
    BY <1>3 DEF ScanClusterPage
  <2>2. PICK to \in q.cursor .. Buckets - 1 : AfterPage(c, Page(q, to), CursorAfter(to))
    BY <1>3 DEF ScanClusterPage
  <2>3. /\ Page(q, to).at = q.at
        /\ \A n : [Page(q, to) EXCEPT !.cursor = n] = [q EXCEPT !.found = Page(q, to).found, !.cursor = n]
        /\ \A n : [Page(q, to) EXCEPT !.at = n, !.cursor = 0]
                    = [q EXCEPT !.found = Page(q, to).found, !.at = n, !.cursor = 0]
    BY <1>0 DEF Page, Requests
  <2>4. Still
    BY <2>2 DEF AfterPage, Become, Finish
  <2>5. ~(q.at + 1 < masters) => q.at + 1 >= masters
    BY <1>0
  <2>6. Moves(c, q, to)
    BY <1>1, <2>1, <2>2, <2>3, <2>5 DEF Moves, AfterPage, Become, Finish
  <2> QED BY <2>1, <2>4, <2>6
<1> QED BY <1>2, <1>3
LEMMA PageInKeys ==
  ASSUME NEW q \in Requests, NEW to
  PROVE  Page(q, to).found \in SUBSET Keys
  BY DEF Page, Requests, Present

LEMMA RequestsStay ==
  ASSUME TypeOK, NEW c \in Clients,
         \/ \E k \in Keys : GetValue(c, k)
         \/ GetTtl(c) \/ StartScan(c) \/ ScanPage(c) \/ ScanClusterPage(c)
  PROVE  req' \in [Clients -> Requests] /\ \A x \in Clients : x # c => req'[x] = req[x]
<1>0. req \in [Clients -> Requests] /\ Idle \in Requests
  <2>1. Idle \in Requests
    BY RedisAssumption DEF Idle, Requests
  <2> QED BY <2>1 DEF TypeOK, Requests
<1>1. ASSUME NEW q \in Requests, req' = [req EXCEPT ![c] = q]
      PROVE  req' \in [Clients -> Requests] /\ \A x \in Clients : x # c => req'[x] = req[x]
  BY <1>0, <1>1
<1>2. ASSUME NEW k \in Keys, GetValue(c, k)
      PROVE  \E q \in Requests : req' = [req EXCEPT ![c] = q]
  <2>1. db[k].value \in Values
    BY <1>2 DEF GetValue, TypeOK, Entry
  <2>2. [Idle EXCEPT !.pc = "ttl", !.key = k, !.got = db[k].value] \in Requests
    BY <1>0, <2>1 DEF Requests
  <2> QED BY <1>2, <2>2 DEF GetValue, Become
<1>3. ASSUME GetTtl(c) PROVE \E q \in Requests : req' = [req EXCEPT ![c] = q]
  BY <1>0, <1>3 DEF GetTtl, Finish
<1>4. ASSUME StartScan(c) PROVE \E q \in Requests : req' = [req EXCEPT ![c] = q]
  <2>1. [Idle EXCEPT !.pc = "scan"] \in Requests
    BY <1>0 DEF Requests
  <2> QED BY <1>4, <2>1 DEF StartScan, Become
<1>5. ASSUME ScanPage(c) \/ ScanClusterPage(c) PROVE \E q \in Requests : req' = [req EXCEPT ![c] = q]
  <2>1. PICK to \in req[c].cursor .. Buckets - 1 : Moves(c, req[c], to)
    BY <1>5, PageSteps
  <2> SUFFICES ASSUME NEW q \in Requests, q = req[c], NEW f \in SUBSET Keys, f = Page(q, to).found
               PROVE  \E n \in Requests : req' = [req EXCEPT ![c] = n]
    BY <1>0, PageInKeys
  <2>2. q.at \in Nat /\ q.cursor \in Nat /\ to \in Nat /\ masters \in Nat /\ masters <= MaxMasters
        /\ to <= Buckets - 1
    <3>1. q.at \in Nat /\ q.cursor \in Nat /\ masters \in Nat /\ masters <= MaxMasters
      BY RedisAssumption DEF Requests, TypeOK
    <3> QED BY <3>1, RedisAssumption
  <2>3. CASE to + 1 < Buckets /\ req' = [req EXCEPT ![c] = [q EXCEPT !.found = f, !.cursor = to + 1]]
    <3>1. to + 1 \in 0 .. Buckets - 1
      BY <2>2, <2>3, RedisAssumption
    <3>2. [q EXCEPT !.found = f, !.cursor = to + 1] \in Requests
      BY <3>1 DEF Requests
    <3> QED BY <2>3, <3>2
  <2>4. CASE q.at + 1 < masters /\ req' = [req EXCEPT ![c] = [q EXCEPT !.found = f, !.at = q.at + 1, !.cursor = 0]]
    <3>1. q.at + 1 \in 0 .. MaxMasters - 1 /\ 0 \in 0 .. Buckets - 1
      BY <2>2, <2>4, RedisAssumption
    <3>2. [q EXCEPT !.found = f, !.at = q.at + 1, !.cursor = 0] \in Requests
      BY <3>1 DEF Requests
    <3> QED BY <2>4, <3>2
  <2>5. CASE req' = [req EXCEPT ![c] = Idle]
    BY <1>0, <2>5
  <2> QED BY <2>1, <2>3, <2>4, <2>5 DEF Moves
<1> QED BY <1>1, <1>2, <1>3, <1>4, <1>5

LEMMA LoseMasterTypes ==
  ASSUME TypeOK, LoseMaster
  PROVE  masters' \in 1 .. MaxMasters /\ home' \in Homes(masters')
<1>1. /\ masters \in Nat /\ masters > 1 /\ masters' = masters - 1
      /\ masters' \in Nat /\ masters' >= 1 /\ masters <= MaxMasters
  BY RedisAssumption DEF TypeOK, LoseMaster
<1>2. masters' \in 1 .. MaxMasters
  BY <1>1, RedisAssumption
<1>3. ASSUME NEW k \in Keys
      PROVE  home'[k] \in [master: 0 .. masters' - 1, bucket: 0 .. Buckets - 1]
  <2>1. home[k] \in [master: 0 .. masters - 1, bucket: 0 .. Buckets - 1]
    BY DEF TypeOK, Homes
  <2>2. home'[k] = IF home[k].master = masters - 1 THEN [home[k] EXCEPT !.master = 0] ELSE home[k]
    BY DEF LoseMaster
  <2>3. 0 \in 0 .. masters' - 1
    BY <1>1
  <2>4. home[k].master # masters - 1 => home[k].master \in 0 .. masters' - 1
    BY <1>1, <2>1
  <2> QED BY <2>1, <2>2, <2>3, <2>4
<1> QED BY <1>2, <1>3 DEF LoseMaster, Homes

LEMMA NextIInv == IInv /\ [Next]_vars => IInv'
<1> SUFFICES ASSUME IInv, [Next]_vars PROVE IInv'
  OBVIOUS
<1> USE DEF IInv
<1>0. req \in [Clients -> Requests] /\ now \in Nat
  BY DEF TypeOK, Requests
<1>1. CASE Command
  <2>1. UNCHANGED <<now, cluster, masters, home, req>>
    BY <1>1, CommandSteps
  <2>2. \/ db' = db
        \/ \E k \in Keys : db' = [db EXCEPT ![k] = Null]
        \/ \E k \in Keys, v \in Values, end \in Nat \cup {Null} :
             (end = Null \/ end > now) /\ SET(k, v, end)
    BY <1>1, CommandSteps
  <2>3. db' \in [Keys -> Entry \cup {Null}]
    BY <2>2, RecordsAreNotNull DEF TypeOK, SET
  <2>4. ASSUME NEW k \in Keys, db'[k] # Null PROVE db'[k].end = Null \/ db'[k].end > now
    BY <2>2, <2>4 DEF TypeOK, SET, InTime
  <2> QED BY <2>1, <2>3, <2>4 DEF TypeOK, InTime
<1>2. ASSUME NEW c \in Clients,
             \/ \E k \in Keys : GetValue(c, k)
             \/ GetTtl(c) \/ StartScan(c) \/ ScanPage(c) \/ ScanClusterPage(c)
      PROVE  IInv'
  <2>1. UNCHANGED <<db, now, cluster, masters, home, answer>>
    BY <1>2, ReadSteps
  <2>2. req' \in [Clients -> Requests]
    BY <1>2, RequestsStay
  <2> QED BY <2>1, <2>2 DEF TypeOK, InTime, Requests
<1>3. CASE LoseMaster
  <2>1. UNCHANGED <<db, now, cluster, req>>
    BY <1>3 DEF LoseMaster
  <2> QED BY <1>3, <2>1, LoseMasterTypes DEF TypeOK, InTime
<1>4. CASE Tick
  <2>1. /\ now' = now + 1 /\ UNCHANGED <<cluster, masters, home, req>>
        /\ db' = [k \in Keys |-> IF db[k] # Null /\ db[k].end = now + 1 THEN Null ELSE db[k]]
    BY <1>4 DEF Tick
  <2>2. TypeOK'
    BY <2>1 DEF TypeOK
  <2>3. ASSUME NEW k \in Keys, db'[k] # Null PROVE db'[k].end = Null \/ db'[k].end > now'
    <3>1. db'[k] = db[k] /\ db[k] # Null /\ db[k].end # now + 1 /\ db[k] \in Entry
      BY <2>1, <2>3 DEF TypeOK
    <3>2. db[k].end = Null \/ (db[k].end \in Nat /\ db[k].end > now)
      BY <3>1 DEF InTime, Entry
    <3> QED BY <1>0, <2>1, <3>1, <3>2
  <2> QED BY <2>2, <2>3 DEF InTime
<1>5. CASE UNCHANGED vars
  BY <1>5 DEF vars, TypeOK, InTime
<1> QED BY <1>1, <1>2, <1>3, <1>4, <1>5 DEF Next
-----------------------------------------------------------------------------
(* Each command is the contract's method.  A write whose deadline has not   *)
(* come leaves what the contract leaves of it.                              *)
LEMMA SetIsPut ==
  ASSUME TypeOK, NEW k \in Keys, NEW v \in Values, NEW end \in Nat \cup {Null},
         end = Null \/ end > now, SET(k, v, end)
  PROVE  TS!Put(k, v, end)
<1>1. ~(end # Null /\ end <= now)
  BY RedisAssumption DEF TypeOK
<1> QED BY <1>1 DEF SET, TS!Put, TS!Left

LEMMA NowIsGone ==
  ASSUME TypeOK, NEW k \in Keys, NEW v \in Values, DEL(k)
  PROVE  TS!Put(k, v, now + 0)
<1>1. now + 0 # Null /\ now + 0 <= now /\ [value |-> v, end |-> now + 0] # Null
  BY RedisAssumption, RecordsAreNotNull DEF TypeOK
<1> QED BY <1>1 DEF DEL, TS!Put, TS!Left

LEMMA Deadlines ==
  ASSUME TypeOK, NEW ttl \in Ttls
  PROVE  /\ ttl # 0 => Until(ttl) \in Nat \cup {Null} /\ (Until(ttl) = Null \/ Until(ttl) > now)
         /\ Until(ttl) = TS!Until(ttl) /\ ttl # Keep
         /\ Until(0) = now + 0
<1>1. now \in Nat /\ Seconds \subseteq Nat /\ Keep \notin Seconds \cup {Null} /\ Null # 0
  BY RedisAssumption DEF TypeOK
<1>2. ASSUME ttl \in Nat, ttl # 0 PROVE now + ttl \in Nat /\ now + ttl > now
  BY <1>1, <1>2
<1> QED BY <1>1, <1>2 DEF Ttls, Until, TS!Until

LEMMA SetRefines ==
  ASSUME IInv, NEW k \in Keys, NEW v \in Values, NEW ttl \in Ttls
  PROVE  /\ Set(k, v, ttl) => TS!Set(k, v, ttl)
         /\ SetIfAbsent(k, v, ttl) => TS!SetIfAbsent(k, v, ttl)
<1>1. CASE ttl = 0
  <2>1. ASSUME Set(k, v, ttl) PROVE TS!Set(k, v, ttl)
    <3>1. DEL(k) /\ Return("set", Null)
      BY <1>1, <2>1 DEF Set
    <3>2. TS!Put(k, v, now + 0)
      BY <3>1, NowIsGone DEF IInv
    <3>3. TS!Until(ttl) = now + 0
      BY <1>1, Deadlines DEF IInv
    <3> QED BY <3>1, <3>2, <3>3 DEF TS!Set, Return, TS!Return
  <2> QED BY <1>1, <2>1 DEF SetIfAbsent
<1>2. CASE ttl # 0
  <2>1. SET(k, v, Until(ttl)) => TS!Put(k, v, TS!Until(ttl))
    BY <1>2, SetIsPut, Deadlines DEF IInv
  <2> QED BY <1>2, <2>1 DEF Set, SetIfAbsent, TS!Set, TS!SetIfAbsent, Return, TS!Return
<1> QED BY <1>1, <1>2

LEMMA TouchRefines ==
  ASSUME IInv, NEW k \in Keys, NEW ttl \in Ttls, Touch(k, ttl)
  PROVE  TS!Touch(k, ttl)
<1> SUFFICES ASSUME db[k] # Null, NEW v, v = db[k].value PROVE TS!Touch(k, ttl)
  BY DEF Touch, TouchScript, Return, TS!Touch, TS!Return
<1>1. v \in Values
  BY DEF IInv, TypeOK, Entry
<1>2. Return("touch", [done |-> TRUE])
  BY DEF Touch, TouchScript
<1>3. TS!Put(k, v, TS!Until(ttl))
  <2>1. CASE DEL(k) /\ ttl = 0
    <3>1. TS!Put(k, v, now + 0)
      BY <1>1, <2>1, NowIsGone DEF IInv
    <3> QED BY <2>1, <3>1, Deadlines DEF IInv
  <2>2. CASE SET(k, v, Until(ttl)) /\ ttl # 0
    BY <1>1, <2>2, SetIsPut, Deadlines DEF IInv
  <2>3. MutationArguments(ttl) = "persistent" => ttl = Null /\ ttl # 0
    BY RedisAssumption DEF MutationArguments
  <2>4. MutationArguments(ttl) = "finite" => ttl # Null
    BY DEF MutationArguments
  <2>5. \/ MutationArguments(ttl) = "persistent" /\ SET(k, v, Null)
        \/ MutationArguments(ttl) = "finite" /\ ttl = 0 /\ DEL(k)
        \/ MutationArguments(ttl) = "finite" /\ ttl # 0 /\ SET(k, v, now + ttl)
    BY DEF Touch, TouchScript
  <2> QED BY <2>1, <2>2, <2>3, <2>4, <2>5 DEF Until
<1> QED BY <1>2, <1>3 DEF TS!Touch, Return, TS!Return

LEMMA CompareRefines ==
  ASSUME IInv, NEW k \in Keys, NEW x \in Values
  PROVE  /\ CompareAndDelete(k, x) => TS!CompareAndDelete(k, x)
         /\ \A v \in Values, ttl \in Ttls \cup {Keep} :
              CompareAndSet(k, x, v, ttl) => TS!CompareAndSet(k, x, v, ttl)
<1>0. TS!Holds(k, x) <=> Holds(k, x)
  BY DEF Holds, TS!Holds
<1>1. ASSUME CompareAndDelete(k, x) PROVE TS!CompareAndDelete(k, x)
  BY <1>0, <1>1 DEF CompareAndDelete, CompareAndMutate, TS!CompareAndDelete, Return, TS!Return,
                    DEL, TS!Remove
<1>2. ASSUME NEW v \in Values, NEW ttl \in Ttls \cup {Keep}, CompareAndSet(k, x, v, ttl)
      PROVE  TS!CompareAndSet(k, x, v, ttl)
  <2>1. CASE ~Holds(k, x)
    BY <1>0, <1>2, <2>1 DEF CompareAndSet, CompareAndMutate, TS!CompareAndSet, Return, TS!Return
  <2>2. CASE Holds(k, x)
    <3>1. Return("compareAndSet", [done |-> TRUE])
      BY <1>2, <2>2 DEF CompareAndSet, CompareAndMutate
    <3>2. \/ MutationArguments(ttl) = "keep" /\ SET(k, v, db[k].end)
          \/ MutationArguments(ttl) = "persistent" /\ SET(k, v, Null)
          \/ MutationArguments(ttl) = "finite" /\ ttl # 0 /\ SET(k, v, now + ttl)
      BY <1>2, <2>2 DEF CompareAndSet, CompareAndMutate, MutationArguments
    <3>3. TS!Put(k, v, IF ttl = Keep THEN db[k].end ELSE TS!Until(ttl))
      <4>1. CASE ttl = Keep
        <5>1. SET(k, v, db[k].end)
          BY <3>2, <4>1 DEF MutationArguments
        <5>2. db[k].end \in Nat \cup {Null} /\ (db[k].end = Null \/ db[k].end > now)
          BY <2>2 DEF Holds, IInv, TypeOK, Entry, InTime
        <5> QED BY <4>1, <5>1, <5>2, SetIsPut DEF IInv
      <4>2. CASE ttl # Keep
        <5>1. ttl \in Ttls /\ ttl # 0 /\ SET(k, v, Until(ttl))
          BY <3>2, <4>2, RedisAssumption DEF MutationArguments, Until
        <5> QED BY <4>2, <5>1, SetIsPut, Deadlines DEF IInv
      <4> QED BY <4>1, <4>2
    <3> QED BY <1>0, <2>2, <3>1, <3>3 DEF TS!CompareAndSet, Return, TS!Return
  <2> QED BY <2>1, <2>2
<1> QED BY <1>1, <1>2

LEMMA CommandRefines ==
  ASSUME IInv, Command
  PROVE  TS!Next
<1> USE DEF TS!Ttls, Ttls
<1>1. ASSUME NEW k \in Keys, Delete(k) PROVE TS!Delete(k)
  BY <1>1 DEF Delete, DEL, Return, TS!Delete, TS!Remove, TS!Return
<1>2. ASSUME NEW k \in Keys, GetAndDelete(k) PROVE TS!GetAndDelete(k)
  BY <1>2 DEF GetAndDelete, GetAndDeleteScript, DEL, Return, TS!GetAndDelete, TS!Remove, TS!Return
<1>3. ASSUME NEW k \in Keys, NEW ttl \in Ttls, Touch(k, ttl) PROVE TS!Next
  <2>1. TS!Touch(k, ttl)
    BY <1>3, TouchRefines
  <2> QED BY <2>1 DEF TS!Next
<1>4. ASSUME NEW k \in Keys, NEW ttl \in Ttls, NEW v \in Values, Set(k, v, ttl) \/ SetIfAbsent(k, v, ttl)
      PROVE  TS!Next
  <2>1. TS!Set(k, v, ttl) \/ TS!SetIfAbsent(k, v, ttl)
    BY <1>4, SetRefines
  <2> QED BY <2>1 DEF TS!Next
<1>5. ASSUME NEW k \in Keys, NEW x \in Values, CompareAndDelete(k, x) PROVE TS!Next
  <2>1. TS!CompareAndDelete(k, x)
    BY <1>5, CompareRefines
  <2> QED BY <2>1 DEF TS!Next
<1>6. ASSUME NEW k \in Keys, NEW x \in Values, NEW v \in Values, NEW ttl \in Ttls \cup {Keep},
             CompareAndSet(k, x, v, ttl)
      PROVE  TS!Next
  <2>1. TS!CompareAndSet(k, x, v, ttl)
    BY <1>6, CompareRefines
  <2> QED BY <2>1 DEF TS!Next
<1>7. ASSUME NEW k \in Keys, Delete(k) \/ GetAndDelete(k) PROVE TS!Next
  <2>1. TS!Delete(k) \/ TS!GetAndDelete(k)
    BY <1>1, <1>2, <1>7
  <2> QED BY <2>1 DEF TS!Next
<1> QED BY <1>3, <1>4, <1>5, <1>6, <1>7 DEF Command

LEMMA TickRefines ==
  ASSUME IInv, Tick
  PROVE  TS!Tick
<1>1. ASSUME NEW k \in Keys
      PROVE  (db[k] # Null /\ db[k].end = now + 1) <=>
             (db[k] # Null /\ db[k].end # Null /\ db[k].end <= now + 1)
  <2>1. now \in Nat /\ now + 1 # Null
    BY RedisAssumption DEF IInv, TypeOK
  <2>2. CASE db[k] # Null /\ db[k].end # Null
    <3>1. db[k].end \in Nat /\ db[k].end > now
      BY <2>2 DEF IInv, TypeOK, Entry, InTime
    <3> QED BY <2>1, <2>2, <3>1
  <2> QED BY <2>1, <2>2
<1>2. db' = [k \in Keys |-> TS!Left(db[k], now + 1)]
  BY <1>1 DEF Tick, TS!Left
<1> QED BY <1>2 DEF Tick, TS!Tick

(* The Redis stores implement the store contract: every method but get and  *)
(* scan does in one command or script what the contract says and answers    *)
(* what it says, or rejects and changes nothing.                            *)
THEOREM RedisStoreImplemented == Spec => ImplementsTokenStore
<1>1. Init => TS!Init
  BY DEF Init, TS!Init
<1>2. IInv /\ [Next]_vars => [TS!Next]_(TS!vars)
  <2> SUFFICES ASSUME IInv, [Next]_vars PROVE TS!Next \/ UNCHANGED TS!vars
    OBVIOUS
  <2>1. CASE Command
    BY <2>1, CommandRefines
  <2>2. CASE \E c \in Clients :
               \/ \E k \in Keys : GetValue(c, k)
               \/ GetTtl(c) \/ StartScan(c) \/ ScanPage(c) \/ ScanClusterPage(c)
    BY <2>2, ReadSteps DEF TS!vars
  <2>3. CASE LoseMaster
    BY <2>3 DEF LoseMaster, TS!vars
  <2>4. CASE Tick
    <3>1. TS!Tick
      BY <2>4, TickRefines
    <3> QED BY <3>1 DEF TS!Next
  <2>5. CASE UNCHANGED vars
    BY <2>5 DEF vars, TS!vars
  <2> QED BY <2>1, <2>2, <2>3, <2>4, <2>5 DEF Next
<1> QED BY <1>1, <1>2, InitIInv, NextIInv, PTL DEF Spec, ImplementsTokenStore, TS!Spec
-----------------------------------------------------------------------------
(* get's answer is the value it read with the deadline the key has at its   *)
(* second command: whoever is told that a value stays for good, the key is  *)
(* there by then and has no deadline.                                       *)
THEOREM GetTellsTheDeadline == Spec => GetTellsDeadline
<1>1. IInv /\ [Next]_vars =>
        [\A c \in Clients :
           req[c].pc = "ttl" /\ req'[c].pc = "idle" /\ result'.value # Null /\ result'.end = Null =>
             db[req[c].key] # Null /\ db[req[c].key].end = Null]_vars
  <2> SUFFICES ASSUME IInv, [Next]_vars, NEW c \in Clients,
                      req[c].pc = "ttl", req'[c].pc = "idle",
                      result'.value # Null, result'.end = Null
               PROVE  db[req[c].key] # Null /\ db[req[c].key].end = Null
    OBVIOUS
  <2>1. req' # req
    OBVIOUS
  <2>2. ~Command /\ ~LoseMaster /\ ~Tick /\ ~UNCHANGED vars
    BY <2>1, CommandSteps DEF LoseMaster, Tick, vars
  <2>3. PICK x \in Clients : \/ \E k \in Keys : GetValue(x, k)
                             \/ GetTtl(x) \/ StartScan(x) \/ ScanPage(x) \/ ScanClusterPage(x)
    BY <2>2 DEF Next
  <2>4. x = c
    BY <2>3, RequestsStay DEF IInv
  <2>5. GetTtl(c)
    BY <2>3, <2>4 DEF GetValue, StartScan, ScanPage, ScanClusterPage
  <2> QED BY <2>5 DEF GetTtl, Finish
<1> QED BY <1>1, InitIInv, NextIInv, PTL DEF Spec, GetTellsDeadline

-----------------------------------------------------------------------------
(* The keys a scan has left behind: of an earlier master, or of an earlier  *)
(* bucket of the master it is at.                                           *)
Behind(h, q) == h.master < q.at \/ (h.master = q.at /\ h.bucket < q.cursor)

(* What a scan knows: it found nothing that was not there, and while the    *)
(* masters stay it has found whatever stayed and is behind it.              *)
ScanHolds(q, s) ==
  /\ q.found \subseteq s.ever
  /\ Present(db) \subseteq s.ever /\ s.always \subseteq Present(db)
  /\ ~cluster => q.at = 0
  /\ s.still =>
       /\ q.at < masters
       /\ \A k \in s.always : Behind(home[k], q) => k \in q.found

ScanInv ==
  /\ IInv
  /\ ~cluster => masters = 1
  /\ seen \in [Clients -> Scanning]
  /\ \A c \in Clients : req[c].pc = "scan" => ScanHolds(req[c], seen[c])

LEMMA InitScanInv == Init => ScanInv
<1> SUFFICES ASSUME Init PROVE ScanInv
  OBVIOUS
<1>1. seen \in [Clients -> Scanning]
  BY DEF Init, Nothing, Scanning
<1>2. \A c \in Clients : req[c].pc # "scan"
  BY DEF Init, Idle
<1>3. ~cluster => masters = 1
  BY DEF Init
<1> QED BY <1>1, <1>2, <1>3, InitIInv DEF ScanInv

(* Where a page reaches, every key behind the scan is found. *)
LEMMA PageFinds ==
  ASSUME ScanInv, NEW c \in Clients, NEW q, q = req[c], q.pc = "scan",
         NEW to \in q.cursor .. Buckets - 1, NEW f, f = Page(q, to).found
  PROVE  /\ f \subseteq seen[c].ever /\ f \in SUBSET Keys
         /\ seen[c].still =>
              \A k \in seen[c].always :
                \/ home[k].master < q.at
                \/ home[k].master = q.at /\ home[k].bucket < to + 1
                => k \in f
<1>0. /\ q \in Requests /\ ScanHolds(q, seen[c]) /\ TypeOK
      /\ q.cursor \in Nat /\ q.at \in Nat /\ to \in Nat
  <2>1. q \in Requests /\ ScanHolds(q, seen[c]) /\ TypeOK
    BY DEF ScanInv, IInv, TypeOK, Requests
  <2>2. q.cursor \in Nat /\ q.at \in Nat
    BY <2>1, RedisAssumption DEF Requests
  <2> QED BY <2>1, <2>2, RedisAssumption
<1>1. f = q.found \cup {k \in Present(db) : /\ home[k].master = Client(q)
                                            /\ home[k].bucket \in q.cursor .. to}
  BY <1>0 DEF Page, Requests
<1>2. f \subseteq seen[c].ever
  BY <1>0, <1>1 DEF ScanHolds
<1>3. f \in SUBSET Keys
  BY <1>0, PageInKeys
<1>4. ASSUME seen[c].still, NEW k \in seen[c].always,
             \/ home[k].master < q.at
             \/ home[k].master = q.at /\ home[k].bucket < to + 1
      PROVE  k \in f
  <2>1. q.at < masters /\ Client(q) = q.at /\ k \in Present(db) /\ k \in Keys
    BY <1>0, <1>4 DEF ScanHolds, Client, Present
  <2>2. home[k].bucket \in Nat
    <3>1. home[k].bucket \in 0 .. Buckets - 1
      BY <1>0, <2>1 DEF TypeOK, Homes
    <3> QED BY <3>1, RedisAssumption
  <2>3. CASE Behind(home[k], q)
    BY <1>0, <1>1, <1>4, <2>3 DEF ScanHolds
  <2>4. CASE ~Behind(home[k], q)
    <3>1. home[k].master = q.at /\ home[k].bucket \in q.cursor .. to
      BY <1>0, <1>4, <2>2, <2>4 DEF Behind
    <3> QED BY <1>1, <2>1, <3>1
  <2> QED BY <2>3, <2>4
<1> QED BY <1>2, <1>3, <1>4
(* What a scan knows survives any step that leaves the scan where it is. *)
LEMMA OthersKeepScan ==
  ASSUME ScanInv, NEW c \in Clients, req[c].pc = "scan", req'[c] = req[c], Watch,
         \/ UNCHANGED <<cluster, masters, home>>
         \/ masters' # masters /\ cluster' = cluster /\ cluster
  PROVE  ScanHolds(req[c], seen[c])'
<1>0. /\ ScanHolds(req[c], seen[c]) /\ TypeOK
      /\ seen'[c] = [ever   |-> seen[c].ever \cup Present(db'),
                     always |-> seen[c].always \cap Present(db'),
                     still  |-> seen[c].still /\ masters' = masters]
  BY DEF ScanInv, IInv, Watch
<1> SUFFICES ASSUME NEW q, q = req[c], NEW s, s = seen[c], NEW t, t = seen'[c]
             PROVE  ScanHolds(q, t)'
  OBVIOUS
<1>1. /\ t.ever = s.ever \cup Present(db') /\ t.always = s.always \cap Present(db')
      /\ t.still = (s.still /\ masters' = masters)
  BY <1>0
<1>2. q.found \subseteq t.ever /\ Present(db') \subseteq t.ever /\ t.always \subseteq Present(db')
  BY <1>0, <1>1 DEF ScanHolds
<1>3. ~cluster' => q.at = 0
  BY <1>0 DEF ScanHolds
<1>4. ASSUME t.still PROVE q.at < masters' /\ \A k \in t.always : Behind(home'[k], q) => k \in q.found
  <2>1. s.still /\ masters' = masters
    BY <1>1, <1>4
  <2>2. home' = home
    BY <2>1
  <2> QED BY <1>0, <1>1, <2>1, <2>2 DEF ScanHolds
<1>5. (q.found \subseteq t.ever /\ Present(db) \subseteq t.ever /\ t.always \subseteq Present(db))'
  BY <1>2 DEF Present
<1> QED BY <1>3, <1>4, <1>5 DEF ScanHolds

LEMMA PageKeepsScan ==
  ASSUME ScanInv, NEW c \in Clients, ScanPage(c) \/ ScanClusterPage(c), Watch,
         NEW n, n = req'[c], NEW t, t = seen'[c], n.pc = "scan"
  PROVE  ScanHolds(n, t)'
<1>0. /\ TypeOK /\ req[c].pc = "scan" /\ ScanHolds(req[c], seen[c])
      /\ UNCHANGED <<db, now, cluster, masters, home, answer>>
  BY PageSteps, ReadSteps DEF ScanInv, IInv
<1>1. seen'[c] = [ever   |-> seen[c].ever \cup Present(db'),
                  always |-> seen[c].always \cap Present(db'),
                  still  |-> seen[c].still /\ masters' = masters]
  BY <1>0 DEF Watch
<1> SUFFICES ASSUME NEW q \in Requests, q = req[c], NEW s, s = seen[c] PROVE ScanHolds(n, t)'
  BY <1>0 DEF TypeOK, Requests
<1>2. t.ever = s.ever /\ t.always = s.always /\ t.still = s.still /\ Present(db') = Present(db)
  <2>1. Present(db') = Present(db) /\ masters' = masters
    BY <1>0
  <2>2. s.ever \cup Present(db) = s.ever /\ s.always \cap Present(db) = s.always
    BY <1>0 DEF ScanHolds
  <2>3. s \in Scanning
    BY DEF ScanInv
  <2>4. (s.still /\ TRUE) = s.still
    BY <2>3 DEF Scanning
  <2> QED BY <1>1, <2>1, <2>2, <2>4
<1>3. PICK to \in q.cursor .. Buckets - 1 : Moves(c, q, to)
  BY PageSteps DEF ScanInv, IInv
<1> SUFFICES ASSUME NEW f, f = Page(q, to).found PROVE ScanHolds(n, t)'
  OBVIOUS
<1>4. /\ f \subseteq s.ever
      /\ s.still => \A k \in s.always :
           \/ home[k].master < q.at
           \/ home[k].master = q.at /\ home[k].bucket < to + 1
           => k \in f
  BY <1>0, PageFinds
<1>5. q.at \in Nat /\ q.cursor \in Nat /\ to \in Nat /\ masters \in Nat
      /\ \A k \in Keys : home[k].master \in Nat /\ home[k].bucket \in Nat /\ home[k].bucket < Buckets
  <2>1. \A k \in Keys : home[k].master \in 0 .. masters - 1 /\ home[k].bucket \in 0 .. Buckets - 1
    BY <1>0 DEF TypeOK, Homes
  <2>2. q.at \in Nat /\ q.cursor \in Nat /\ masters \in Nat
    BY <1>0, RedisAssumption DEF Requests, TypeOK
  <2> QED BY <2>1, <2>2, RedisAssumption
<1>6. req \in [Clients -> Requests]
  BY <1>0 DEF TypeOK, Requests
<1>7. s.always \subseteq Keys
  BY <1>0 DEF ScanHolds, Present
<1>8. CASE to + 1 < Buckets /\ req' = [req EXCEPT ![c] = [q EXCEPT !.found = f, !.cursor = to + 1]]
  <2>1. n = [q EXCEPT !.found = f, !.cursor = to + 1]
    BY <1>6, <1>8
  <2>2. n.found = f /\ n.at = q.at /\ n.cursor = to + 1
    BY <2>1 DEF Requests
  <2>3. \A k \in s.always : Behind(home[k], n) =>
          home[k].master < q.at \/ (home[k].master = q.at /\ home[k].bucket < to + 1)
    BY <2>2 DEF Behind
  <2> QED BY <1>0, <1>2, <1>4, <2>2, <2>3 DEF ScanHolds, Behind, Present
<1>9. CASE /\ to + 1 = Buckets /\ cluster /\ q.at + 1 < masters
           /\ req' = [req EXCEPT ![c] = [q EXCEPT !.found = f, !.at = q.at + 1, !.cursor = 0]]
  <2>1. n = [q EXCEPT !.found = f, !.at = q.at + 1, !.cursor = 0]
    BY <1>6, <1>9
  <2>2. n.found = f /\ n.at = q.at + 1 /\ n.cursor = 0
    BY <2>1 DEF Requests
  <2>3. \A k \in s.always : Behind(home[k], n) =>
          home[k].master < q.at \/ (home[k].master = q.at /\ home[k].bucket < to + 1)
    BY <1>5, <1>7, <1>9, <2>2 DEF Behind
  <2> QED BY <1>0, <1>2, <1>4, <1>9, <2>2, <2>3 DEF ScanHolds, Behind, Present
<1>10. CASE req' = [req EXCEPT ![c] = Idle]
  BY <1>6, <1>10 DEF Idle
<1> QED BY <1>3, <1>8, <1>9, <1>10 DEF Moves

(* Its first page is still to come: nothing is behind it. *)
LEMMA StartKeepsScan ==
  ASSUME ScanInv, NEW c \in Clients, StartScan(c), Watch,
         NEW n, n = req'[c], NEW t, t = seen'[c]
  PROVE  ScanHolds(n, t)'
<1>0. /\ TypeOK /\ req[c].pc = "idle"
      /\ UNCHANGED <<db, now, cluster, masters, home, answer>>
      /\ req' = [req EXCEPT ![c] = [Idle EXCEPT !.pc = "scan"]]
  BY ReadSteps DEF ScanInv, IInv, StartScan, Become
<1>1. req'[c] = [Idle EXCEPT !.pc = "scan"]
  BY <1>0 DEF TypeOK
<1>2. req'[c].pc = "scan" /\ req'[c].at = 0 /\ req'[c].cursor = 0 /\ req'[c].found = {}
  BY <1>1 DEF Idle
<1>3. seen'[c] = [Nothing EXCEPT !.ever = Present(db), !.always = Present(db)]
  BY <1>0, <1>2 DEF Watch
<1>4. seen'[c].ever = Present(db) /\ seen'[c].always = Present(db)
  BY <1>3 DEF Nothing
<1>5. masters > 0 /\ \A k \in Keys : /\ ~(home[k].master < 0)
                                     /\ ~(home[k].bucket < 0)
  <2>1. masters \in Nat /\ masters > 0
    BY <1>0, RedisAssumption DEF TypeOK
  <2>2. \A k \in Keys : home[k].master \in 0 .. masters - 1 /\ home[k].bucket \in 0 .. Buckets - 1
    BY <1>0 DEF TypeOK, Homes
  <2> QED BY <2>1, <2>2, RedisAssumption
<1>6. \A k \in Present(db) : ~Behind(home[k], req'[c])
  BY <1>2, <1>5 DEF Behind, Present
<1>7. Present(db)' = Present(db) /\ home' = home /\ masters' = masters
  BY <1>0 DEF Present
<1>8. \A k \in t.always : ~Behind(home'[k], n)
  BY <1>4, <1>6, <1>7
<1> QED BY <1>2, <1>4, <1>5, <1>7, <1>8 DEF ScanHolds
LEMMA WatchTypes ==
  ASSUME seen \in [Clients -> Scanning], Watch
  PROVE  seen' \in [Clients -> Scanning]
<1>1. ASSUME NEW c \in Clients
      PROVE  LET P == Present(db)
                 Q == Present(db')
             IN  /\ Nothing \in Scanning
                 /\ [Nothing EXCEPT !.ever = P, !.always = P] \in Scanning
                 /\ [ever   |-> seen[c].ever \cup Q, always |-> seen[c].always \cap Q,
                     still  |-> seen[c].still /\ masters' = masters] \in Scanning
  <2>1. Present(db) \subseteq Keys /\ Present(db') \subseteq Keys
    BY DEF Present
  <2>2. seen[c].ever \subseteq Keys /\ seen[c].always \subseteq Keys
    BY DEF Scanning
  <2>3. (seen[c].still /\ masters' = masters) \in BOOLEAN
    OBVIOUS
  <2> QED BY <2>1, <2>2, <2>3 DEF Nothing, Scanning
<1> QED BY <1>1 DEF Watch

LEMMA NextScanInv == ScanInv /\ [Next]_vars => ScanInv'
<1> SUFFICES ASSUME ScanInv, [Next]_vars PROVE ScanInv'
  OBVIOUS
<1>0. IInv /\ IInv' /\ TypeOK
  BY NextIInv DEF ScanInv, IInv
<1>1. CASE UNCHANGED vars
  <2>1. \A c \in Clients : (req[c].pc = "scan" => ScanHolds(req[c], seen[c]))'
    BY <1>1 DEF vars, ScanInv, ScanHolds, Behind, Present
  <2> QED BY <1>0, <1>1, <2>1 DEF vars, ScanInv
<1>2. CASE Next
  <2>1. Watch /\ seen' \in [Clients -> Scanning]
    BY <1>2, WatchTypes DEF Next, ScanInv
  <2>2. ASSUME NEW c \in Clients, req'[c] = req[c], req[c].pc = "scan",
               \/ UNCHANGED <<cluster, masters, home>>
               \/ masters' # masters /\ cluster' = cluster /\ cluster
        PROVE  ScanHolds(req[c], seen[c])'
    BY <2>1, <2>2, OthersKeepScan
  <2>3. CASE Command \/ Tick
    <3>1. UNCHANGED <<cluster, masters, home, req>>
      BY <2>3, <1>0, CommandSteps DEF Tick
    <3>2. ASSUME NEW c \in Clients, (req[c].pc)' = "scan" PROVE ScanHolds(req[c], seen[c])'
      BY <2>2, <3>1, <3>2
    <3> QED BY <1>0, <2>1, <3>1, <3>2 DEF ScanInv
  <2>4. CASE LoseMaster
    <3>1. /\ UNCHANGED <<cluster, req>> /\ masters > 1 /\ masters' = masters - 1 /\ masters \in Nat
      BY <2>4, <1>0, RedisAssumption DEF LoseMaster, TypeOK
    <3>2. cluster /\ masters' # masters
      BY <3>1 DEF ScanInv
    <3>3. ASSUME NEW c \in Clients, (req[c].pc)' = "scan" PROVE ScanHolds(req[c], seen[c])'
      BY <2>2, <3>1, <3>2, <3>3
    <3> QED BY <1>0, <2>1, <3>1, <3>2, <3>3 DEF ScanInv
  <2>5. ASSUME NEW x \in Clients,
               \/ \E k \in Keys : GetValue(x, k)
               \/ GetTtl(x) \/ StartScan(x) \/ ScanPage(x) \/ ScanClusterPage(x)
        PROVE  ScanInv'
    <3>1. UNCHANGED <<db, now, cluster, masters, home, answer>>
      BY <2>5, ReadSteps
    <3>2. \A c \in Clients : c # x => req'[c] = req[c]
      BY <1>0, <2>5, RequestsStay
    <3>3. ASSUME NEW c \in Clients, (req[c].pc)' = "scan", c # x PROVE ScanHolds(req[c], seen[c])'
      BY <2>2, <3>1, <3>2, <3>3
    <3>4. ASSUME (req[x].pc)' = "scan", NEW n, n = req'[x], NEW t, t = seen'[x]
          PROVE  ScanHolds(n, t)'
      <4>1. (\E k \in Keys : GetValue(x, k)) => req'[x].pc = "ttl"
        BY <1>0 DEF TypeOK, GetValue, Become, Idle
      <4>2. GetTtl(x) => req'[x].pc = "idle"
        BY <1>0 DEF TypeOK, GetTtl, Finish, Idle
      <4>3. StartScan(x) \/ ScanPage(x) \/ ScanClusterPage(x)
        BY <2>5, <3>4, <4>1, <4>2
      <4> QED BY <2>1, <3>4, <4>3, StartKeepsScan, PageKeepsScan
    <3>5. ((req[x].pc)' = "scan") => ScanHolds(req[x], seen[x])'
      BY <3>4
    <3>6. \A c \in Clients : (req[c].pc)' = "scan" => ScanHolds(req[c], seen[c])'
      BY <3>3, <3>5
    <3> QED BY <1>0, <2>1, <3>1, <3>6 DEF ScanInv
  <2> QED BY <1>2, <2>3, <2>4, <2>5 DEF Next
<1> QED BY <1>1, <1>2

(* A scan goes on or returns with a page of its own client, and no other.   *)
LEMMA OnlyPages ==
  ASSUME ScanInv, [Next]_vars, NEW c \in Clients, req[c].pc = "scan", req'[c] # req[c]
  PROVE  ScanPage(c) \/ ScanClusterPage(c)
<1>1. ~Command /\ ~LoseMaster /\ ~Tick /\ ~UNCHANGED vars
  BY CommandSteps DEF ScanInv, LoseMaster, Tick, vars
<1>2. PICK x \in Clients : \/ \E k \in Keys : GetValue(x, k)
                           \/ GetTtl(x) \/ StartScan(x) \/ ScanPage(x) \/ ScanClusterPage(x)
  BY <1>1 DEF Next
<1>3. x = c
  BY <1>2, RequestsStay DEF ScanInv, IInv
<1> QED BY <1>2, <1>3 DEF GetValue, GetTtl, StartScan

LEMMA FindsAllStep ==
  ASSUME ScanInv, [Next]_vars, NEW c \in Clients, req[c].pc = "scan", req'[c].pc = "idle"
  PROVE  /\ result'.keys \subseteq seen[c].ever
         /\ seen[c].still => seen[c].always \subseteq result'.keys
<1>1. ScanPage(c) \/ ScanClusterPage(c)
  BY OnlyPages
<1> SUFFICES ASSUME NEW q \in Requests, q = req[c], NEW s, s = seen[c]
             PROVE  result'.keys \subseteq s.ever /\ (s.still => s.always \subseteq result'.keys)
  BY DEF ScanInv, IInv, TypeOK, Requests
<1>2. PICK to \in q.cursor .. Buckets - 1 : Moves(c, q, to)
  BY <1>1, PageSteps DEF ScanInv, IInv
<1> SUFFICES ASSUME NEW f, f = Page(q, to).found
             PROVE  result'.keys \subseteq s.ever /\ (s.still => s.always \subseteq result'.keys)
  OBVIOUS
<1>3. to + 1 = Buckets /\ (cluster => q.at + 1 >= masters) /\ result' = [keys |-> f]
  <2>1. req \in [Clients -> Requests]
    BY DEF ScanInv, IInv, TypeOK, Requests
  <2>2. /\ [q EXCEPT !.found = f, !.cursor = to + 1].pc = "scan"
        /\ [q EXCEPT !.found = f, !.at = q.at + 1, !.cursor = 0].pc = "scan"
    BY DEF Requests
  <2>3. ASSUME NEW n, req' = [req EXCEPT ![c] = n] PROVE n.pc = "idle"
    BY <2>1, <2>3
  <2>4. /\ req' # [req EXCEPT ![c] = [q EXCEPT !.found = f, !.cursor = to + 1]]
        /\ req' # [req EXCEPT ![c] = [q EXCEPT !.found = f, !.at = q.at + 1, !.cursor = 0]]
    <3> DEFINE n == [q EXCEPT !.found = f, !.cursor = to + 1]
               m == [q EXCEPT !.found = f, !.at = q.at + 1, !.cursor = 0]
    <3>1. n.pc = "scan" /\ m.pc = "scan"
      BY <2>2
    <3>2. req' # [req EXCEPT ![c] = n] /\ req' # [req EXCEPT ![c] = m]
      <4> HIDE DEF n, m
      <4> QED BY <2>3, <3>1
    <3> QED BY <3>2
  <2> QED BY <1>2, <2>4 DEF Moves
<1>4. /\ f \subseteq s.ever
      /\ s.still => \A k \in s.always :
           \/ home[k].master < q.at
           \/ home[k].master = q.at /\ home[k].bucket < to + 1
           => k \in f
  BY PageFinds
<1>5. ASSUME s.still, NEW k \in s.always
      PROVE  home[k].master < q.at \/ (home[k].master = q.at /\ home[k].bucket < to + 1)
  <2>1. k \in Keys /\ ScanHolds(q, s)
    BY <1>5 DEF ScanInv, ScanHolds, Present
  <2>2. home[k].master \in 0 .. masters - 1 /\ home[k].bucket \in 0 .. Buckets - 1
    BY <2>1 DEF ScanInv, IInv, TypeOK, Homes
  <2>3. q.at + 1 >= masters
    BY <1>3, <2>1 DEF ScanInv, ScanHolds
  <2>4. masters \in Nat /\ q.at \in Nat /\ home[k].master \in Nat /\ home[k].bucket \in Nat
        /\ home[k].master < masters /\ home[k].bucket < Buckets
    BY <2>2, RedisAssumption DEF ScanInv, IInv, TypeOK, Requests
  <2> QED BY <1>3, <2>3, <2>4
<1> QED BY <1>3, <1>4, <1>5

(* The place of a page, counted over all masters. *)
LEMMA LaterPlace ==
  ASSUME NEW at \in Nat, NEW cursor \in Nat, NEW to \in Nat, cursor <= to, to < Buckets
  PROVE  /\ at * Buckets + (to + 1) > at * Buckets + cursor
         /\ (at + 1) * Buckets + 0 > at * Buckets + cursor
<1>1. Buckets \in Nat /\ at * Buckets \in Nat
  BY RedisAssumption
<1>2. (at + 1) * Buckets = at * Buckets + Buckets
  BY <1>1
<1>3. \A n \in Nat : n + (to + 1) > n + cursor /\ n + Buckets + 0 > n + cursor
  BY <1>1
<1> QED BY <1>1, <1>2, <1>3

LEMMA MovesOnStep ==
  ASSUME ScanInv, [Next]_vars, NEW c \in Clients,
         req[c].pc = "scan", req'[c].pc = "scan", req'[c] # req[c]
  PROVE  req'[c].at * Buckets + req'[c].cursor > req[c].at * Buckets + req[c].cursor
<1>1. ScanPage(c) \/ ScanClusterPage(c)
  BY OnlyPages
<1> SUFFICES ASSUME NEW q \in Requests, q = req[c], NEW n, n = req'[c]
             PROVE  n.at * Buckets + n.cursor > q.at * Buckets + q.cursor
  BY DEF ScanInv, IInv, TypeOK, Requests
<1>2. PICK to \in q.cursor .. Buckets - 1 : Moves(c, q, to)
  BY <1>1, PageSteps DEF ScanInv, IInv
<1> SUFFICES ASSUME NEW f, f = Page(q, to).found
             PROVE  n.at * Buckets + n.cursor > q.at * Buckets + q.cursor
  OBVIOUS
<1>3. q.at \in Nat /\ q.cursor \in Nat /\ to \in Nat /\ q.cursor <= to /\ to < Buckets
  <2>1. q.at \in Nat /\ q.cursor \in Nat
    BY RedisAssumption DEF Requests
  <2> QED BY <2>1, RedisAssumption
<1>4. \/ n.at = q.at /\ n.cursor = to + 1
      \/ n.at = q.at + 1 /\ n.cursor = 0
  <2>1. req \in [Clients -> Requests]
    BY DEF ScanInv, IInv, TypeOK, Requests
  <2>2. ASSUME NEW m, req' = [req EXCEPT ![c] = m] PROVE n = m
    BY <2>1, <2>2
  <2>3. Idle.pc = "idle" /\ n.pc = "scan"
    BY DEF Idle
  <2>4. /\ [q EXCEPT !.found = f, !.cursor = to + 1].at = q.at
        /\ [q EXCEPT !.found = f, !.cursor = to + 1].cursor = to + 1
        /\ [q EXCEPT !.found = f, !.at = q.at + 1, !.cursor = 0].at = q.at + 1
        /\ [q EXCEPT !.found = f, !.at = q.at + 1, !.cursor = 0].cursor = 0
    BY DEF Requests
  <2> QED BY <1>2, <2>2, <2>3, <2>4 DEF Moves
<1> QED BY <1>3, <1>4, LaterPlace

(* scanStoreKeys returns every key that was there throughout, as long as no *)
(* master left under it, and none that was not there; every page moves it   *)
(* on, to a later bucket or a later master, so that it ends.                *)
THEOREM ScanCompletes == Spec => ScanIsComplete
<1>1. ScanInv => TypeOK
  BY DEF ScanInv, IInv
<1>2. ScanInv /\ [Next]_vars =>
        [\A c \in Clients :
           req[c].pc = "scan" /\ req'[c].pc = "idle" =>
             /\ result'.keys \subseteq seen[c].ever
             /\ seen[c].still => seen[c].always \subseteq result'.keys]_vars
  BY FindsAllStep
<1>3. ScanInv /\ [Next]_vars =>
        [\A c \in Clients :
           req[c].pc = "scan" /\ req'[c].pc = "scan" /\ req'[c] # req[c] =>
             req'[c].at * Buckets + req'[c].cursor > req[c].at * Buckets + req[c].cursor]_vars
  BY MovesOnStep
<1> QED
  BY <1>1, <1>2, <1>3, InitScanInv, NextScanInv, PTL
     DEF Spec, ScanIsComplete, ScanFindsAll, ScanMovesOn
=============================================================================
