----------------------------- MODULE RedisStore -----------------------------
(***************************************************************************)
(* RedisStore and IORedisStore.  The server (external) runs one command or *)
(* script at a time and drops a key at its deadline.  Most methods send    *)
(* one command, whose answer is computed there: they are one step.  get    *)
(* sends two, GET and TTL, and scanStoreKeys sends one SCAN per page; what *)
(* other clients do falls in between.                                      *)
(*                                                                         *)
(* A master keeps its keys in buckets; a SCAN visits at least one bucket   *)
(* and answers with the cursor of the next, 0 when there is none.  The     *)
(* masters of a cluster may become fewer while a scan is under way.        *)
(***************************************************************************)
EXTENDS Naturals

CONSTANTS
  Clients, Keys, Values, Seconds,
  Buckets,     \* the buckets of a master are 0 .. Buckets - 1
  MaxMasters,  \* of a cluster, at start
  MaxTime,     \* bound on the clock
  Keep, Null

ASSUME RedisAssumption ==
  /\ Seconds \subseteq Nat /\ MaxTime \in Nat
  /\ Buckets \in Nat \ {0} /\ MaxMasters \in Nat \ {0}
  /\ Keep \notin Seconds \cup {Null}
  /\ Null \notin Nat \cup Keys \cup Values \cup [value: Values, end: Nat \cup {Null}]

VARIABLES
  db,        \* the server's entries
  now,
  cluster,   \* does the client have nodes()?
  masters,   \* how many masters it lists
  home,      \* the master and the bucket of each key
  req,       \* the get or the scan each client is in
  answer,    \* what the last of the other methods returned
  result,    \* what a get or scan returns in this step
  seen       \* history: which keys were there during each scan

vars == <<db, now, cluster, masters, home, req, answer, result, seen>>

Entry == [value: Values, end: Nat \cup {Null}]
Homes(n) == [Keys -> [master: 0 .. n - 1, bucket: 0 .. Buckets - 1]]

Ttls == Seconds \cup {Null}
Until(ttl) == IF ttl = Null THEN Null ELSE now + ttl
Holds(k, v) == db[k] # Null /\ db[k].value = v
Present(d) == {k \in Keys : d[k] # Null}

-----------------------------------------------------------------------------
(* The commands.  SET and EXPIRE with EX 0: SET rejects, EXPIRE deletes.    *)
SET(k, v, end) == db' = [db EXCEPT ![k] = [value |-> v, end |-> end]]
DEL(k)         == db' = [db EXCEPT ![k] = Null]

Return(op, x) ==
  answer' = [of |-> op, got |-> x] /\ result' = Null /\ UNCHANGED <<now, cluster, masters, home, req>>

Set(k, v, ttl) ==
  \/ ttl = 0 /\ DEL(k) /\ Return("set", Null)
  \/ ttl # 0 /\ SET(k, v, Until(ttl)) /\ Return("set", Null)

Delete(k) == DEL(k) /\ Return("delete", Null)

GetAndDeleteScript(k) == DEL(k) /\ Return("getAndDelete", [found |-> db[k]])

(* Value and deadline come from the one script. *)
GetAndDelete(k) == GetAndDeleteScript(k)

(* Mutant: SET without NX, and its OK looked at by nobody. *)
SetIfAbsentAnyhow(k, v, ttl) ==
  ttl # 0 /\ SET(k, v, Until(ttl)) /\ Return("setIfAbsent", [done |-> db[k] = Null])

SetIfAbsent(k, v, ttl) ==
  \/ db[k] # Null /\ ttl # 0 /\ UNCHANGED db /\ Return("setIfAbsent", [done |-> FALSE])
  \/ db[k] = Null /\ ttl # 0 /\ SET(k, v, Until(ttl)) /\ Return("setIfAbsent", [done |-> TRUE])

(* What a script is told to do with the deadline *)
MutationArguments(ttl) ==
  IF ttl = Keep THEN "keep" ELSE IF ttl = Null THEN "persistent" ELSE "finite"

(* COMPARE_AND_MUTATE_SCRIPT: EX 0 makes it reject. *)
CompareAndMutate(op, k, x, v, mode, ttl) ==
  \/ ~Holds(k, x) /\ UNCHANGED db /\ Return(op, [done |-> FALSE])
  \/ /\ Holds(k, x) /\ Return(op, [done |-> TRUE])
     /\ \/ mode = "delete" /\ DEL(k)
        \/ mode = "keep" /\ SET(k, v, db[k].end)
        \/ mode = "persistent" /\ SET(k, v, Null)
        \/ mode = "finite" /\ ttl # 0 /\ SET(k, v, now + ttl)

CompareAndSet(k, x, v, ttl) == CompareAndMutate("compareAndSet", k, x, v, MutationArguments(ttl), ttl)

CompareAndDelete(k, x) == CompareAndMutate("compareAndDelete", k, x, Null, "delete", 0)

(* TOUCH_SCRIPT: EXPIRE with 0 deletes. *)
TouchScript(k, mode, ttl) ==
  \/ db[k] = Null /\ UNCHANGED db /\ Return("touch", [done |-> FALSE])
  \/ /\ db[k] # Null /\ Return("touch", [done |-> TRUE])
     /\ \/ mode = "persistent" /\ SET(k, db[k].value, Null)
        \/ mode = "finite" /\ ttl = 0 /\ DEL(k)
        \/ mode = "finite" /\ ttl # 0 /\ SET(k, db[k].value, now + ttl)

Touch(k, ttl) == TouchScript(k, MutationArguments(ttl), ttl)

-----------------------------------------------------------------------------
Idle == [pc |-> "idle", key |-> Null, got |-> Null,
         at |-> 0, cursor |-> 0, found |-> {}]

Still == UNCHANGED <<db, now, cluster, masters, home, answer>>

Become(c, q) == req' = [req EXCEPT ![c] = q] /\ result' = Null /\ Still
Finish(c, x) == req' = [req EXCEPT ![c] = Idle] /\ result' = x /\ Still

(* get: the value, and null at once when there is none. *)
GetValue(c, k) ==
  /\ req[c].pc = "idle" /\ db[k] # Null
  /\ Become(c, [Idle EXCEPT !.pc = "ttl", !.key = k, !.got = db[k].value])

(* Mutant: TTL's -2, no such key, is taken for -1, no deadline. *)
GetTtlAnyNegative(c) ==
  LET q == req[c] IN
  /\ q.pc = "ttl"
  /\ Finish(c, [value |-> q.got, end |-> IF db[q.key] = Null THEN Null ELSE db[q.key].end])

(* get: the deadline of whatever the key holds by now. *)
GetTtl(c) ==
  LET q == req[c] IN
  /\ q.pc = "ttl"
  /\ \/ db[q.key] = Null /\ Finish(c, [value |-> Null, end |-> Null])
     \/ db[q.key] # Null /\ Finish(c, [value |-> q.got, end |-> db[q.key].end])

-----------------------------------------------------------------------------
StartScan(c) == req[c].pc = "idle" /\ Become(c, [Idle EXCEPT !.pc = "scan"])

(* parseClusterCursor and clients[clientIndex] ?? clients[0] *)
Client(q) == IF q.at < masters THEN q.at ELSE 0

(* Mutant: the scan ends with the first master. *)
AfterPageFirst(c, q, next) ==
  \/ next # 0 /\ Become(c, [q EXCEPT !.cursor = next])
  \/ next = 0 /\ Finish(c, [keys |-> q.found])

(* The cursor scan returns; with null, scanStoreKeys returns. *)
AfterPage(c, q, next) ==
  LET more == q.at + 1 < masters IN
  \/ next # 0 /\ Become(c, [q EXCEPT !.cursor = next])
  \/ next = 0 /\ more /\ Become(c, [q EXCEPT !.at = q.at + 1, !.cursor = 0])
  \/ next = 0 /\ ~more /\ Finish(c, [keys |-> q.found])

(* A page of a SCAN, up to a bucket; then the next is to be asked for. *)
Page(q, to) ==
  [q EXCEPT !.found = @ \cup {k \in Present(db) : /\ home[k].master = Client(q)
                                                 /\ home[k].bucket \in q.cursor .. to}]
CursorAfter(to) == (to + 1) % Buckets

(* RedisStore's scan: the server's cursor is the store's. *)
ScanPage(c) ==
  /\ req[c].pc = "scan" /\ ~cluster
  /\ \E to \in req[c].cursor .. Buckets - 1 :
       \/ CursorAfter(to) # 0 /\ Become(c, [Page(req[c], to) EXCEPT !.cursor = CursorAfter(to)])
       \/ CursorAfter(to) = 0 /\ Finish(c, [keys |-> Page(req[c], to).found])

(* IORedisStore's scan: one master after the other. *)
ScanClusterPage(c) ==
  /\ req[c].pc = "scan" /\ cluster
  /\ \E to \in req[c].cursor .. Buckets - 1 : AfterPage(c, Page(req[c], to), CursorAfter(to))

-----------------------------------------------------------------------------
(* A master leaves, and its keys move to the first one. *)
LoseMaster ==
  /\ masters > 1
  /\ masters' = masters - 1
  /\ home' = [k \in Keys |-> IF home[k].master = masters - 1
                             THEN [home[k] EXCEPT !.master = 0] ELSE home[k]]
  /\ result' = Null
  /\ UNCHANGED <<db, now, cluster, req, answer>>

Tick ==
  /\ now < MaxTime
  /\ now' = now + 1
  /\ db' = [k \in Keys |-> IF db[k] # Null /\ db[k].end = now' THEN Null ELSE db[k]]
  /\ result' = Null
  /\ UNCHANGED <<cluster, masters, home, req, answer>>

(* What the keys of each scan were so far. *)
Nothing == [ever |-> {}, always |-> {}, still |-> TRUE]

Watch ==
  seen' = [c \in Clients |->
    CASE req'[c].pc # "scan" -> Nothing
      [] req'[c].pc = "scan" /\ req[c].pc # "scan" ->
           [Nothing EXCEPT !.ever = Present(db), !.always = Present(db)]
      [] OTHER ->
           [ever   |-> seen[c].ever \cup Present(db'),
            always |-> seen[c].always \cap Present(db'),
            still  |-> seen[c].still /\ masters' = masters]]

Init ==
  /\ db = [k \in Keys |-> Null] /\ now = 0
  /\ \/ cluster = FALSE /\ masters = 1
     \/ cluster = TRUE /\ masters \in 1 .. MaxMasters
  /\ home \in Homes(masters)
  /\ \A j, k \in Keys : home[j] = home[k] => j = k  \* one bucket, one key: they come together
  /\ req = [c \in Clients |-> Idle]
  /\ answer = Null /\ result = Null
  /\ seen = [c \in Clients |-> Nothing]

Command ==
  \E k \in Keys :
    \/ Delete(k) \/ GetAndDelete(k)
    \/ \E ttl \in Ttls :
         \/ Touch(k, ttl)
         \/ \E v \in Values : Set(k, v, ttl) \/ SetIfAbsent(k, v, ttl)
    \/ \E x \in Values :
         \/ CompareAndDelete(k, x)
         \/ \E v \in Values, ttl \in Ttls \cup {Keep} : CompareAndSet(k, x, v, ttl)

Next ==
  /\ \/ Command
     \/ \E c \in Clients :
          \/ \E k \in Keys : GetValue(c, k)
          \/ GetTtl(c) \/ StartScan(c) \/ ScanPage(c) \/ ScanClusterPage(c)
     \/ LoseMaster
     \/ Tick
  /\ Watch

Spec == Init /\ [][Next]_vars

-----------------------------------------------------------------------------
TypeOK ==
  /\ db \in [Keys -> Entry \cup {Null}]
  /\ now \in Nat /\ cluster \in BOOLEAN /\ masters \in 1 .. MaxMasters
  /\ home \in Homes(masters)
  /\ req \in [Clients -> [pc: {"idle", "ttl", "scan"}, key: Keys \cup {Null},
                          got: Values \cup {Null}, at: 0 .. MaxMasters - 1,
                          cursor: 0 .. Buckets - 1, found: SUBSET Keys]]

(* Every method but get and scan does in one step what the store contract   *)
(* says and answers what it says, or rejects and changes nothing.           *)
TS == INSTANCE TokenStore WITH entry <- db

ImplementsTokenStore == TS!Spec

(* get's two commands may meet two entries of the key, or none at the       *)
(* second: a caller is never told that a value stays for good when the key  *)
(* is gone by then or has a deadline.                                       *)
GetTellsDeadline ==
  [][\A c \in Clients :
       req[c].pc = "ttl" /\ req'[c].pc = "idle" /\ result'.value # Null /\ result'.end = Null =>
         db[req[c].key] # Null /\ db[req[c].key].end = Null]_vars

(* While the masters stay the same, a scan finds every key that is there    *)
(* throughout, and it never finds one that was not there.                   *)
ScanFindsAll ==
  [][\A c \in Clients :
       req[c].pc = "scan" /\ req'[c].pc = "idle" =>
         /\ result'.keys \subseteq seen[c].ever
         /\ seen[c].still => seen[c].always \subseteq result'.keys]_vars

(* Every page moves the scan on, to a later bucket or a later master, even  *)
(* when masters leave under it: the loop in scanStoreKeys ends.             *)
ScanMovesOn ==
  [][\A c \in Clients :
       req[c].pc = "scan" /\ req'[c].pc = "scan" /\ req'[c] # req[c] =>
         req'[c].at * Buckets + req'[c].cursor > req[c].at * Buckets + req[c].cursor]_vars

(* scanStoreKeys comes to an end and has then found what there was; it asks *)
(* for no master and no bucket that are not there, whatever cursor it was   *)
(* given and however masters leave.                                         *)
ScanIsComplete == []TypeOK /\ ScanFindsAll /\ ScanMovesOn
=============================================================================
