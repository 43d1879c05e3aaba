---------------------------- MODULE SessionData ----------------------------
(***************************************************************************)
(* What StpLogic keeps in the store beside the sessions: an account's data *)
(* (XltSession objects over one entry), temporary tokens, offline records, *)
(* and the paged reading of the device list.  The four share nothing, so a *)
(* behaviour exercises one of them, its part; an await is a step.          *)
(***************************************************************************)
EXTENDS Naturals, Sequences, FiniteSets

CONSTANTS
  Objects,    \* XltSession instances of one account, each used by one request
  Fields, Values,
  Tokens,     \* temporary tokens
  LoginTokens,  \* tokens of logins, that get ended
  Readers,    \* concurrent uses of one temporary token
  MaxDevice,  \* devices are 1 .. MaxDevice, in the order of their names
  MaxTime,    \* bound on the clock of the paged reading
  MaxWrites,  \* bound on the changes begun in one behaviour
  Null

ASSUME SessionDataAssumption ==
  /\ MaxDevice \in Nat \ {0} /\ MaxTime \in Nat /\ MaxWrites \in Nat
  /\ Null \notin Values /\ Null \notin [Fields -> Values \cup {Null}]
  /\ Null \notin {"KICK_OUT", "BE_REPLACED", "LOGOUT"}

VARIABLES
  part,     \* "session", "temp", "offline" or "query"
  writes,   \* changes begun
  hist,     \* session: the stored documents so far, the last is in the store
  cache,    \* session: the data field of each object
  call,     \* session: the call each object is in
  own,      \* session, history: where in hist each object's last change is
  temp,     \* temp: the entry of each token
  use,      \* temp: what each reader of a token was told
  strategy, \* offline: "opaque", or "jwt"
  ended,    \* offline, history: the reasons for which tokens were ended, and under which key
  pending,  \* offline: records sent to the store and not yet there
  record,   \* offline: the record under each key
  failed,   \* offline, history: the keys of writes that the store rejected
  list,     \* query: the device list
  clock,    \* query: the time
  walk      \* query: the reading under way

sessionVars == <<hist, cache, call, own>>
tempVars    == <<temp, use>>
offlineVars == <<strategy, ended, pending, record, failed>>
queryVars   == <<list, clock, walk>>
vars == <<part, writes, sessionVars, tempVars, offlineVars, queryVars>>

Change == writes < MaxWrites /\ writes' = writes + 1

-----------------------------------------------------------------------------
(* XltSession.  A document gives each field a value or none; Null is no     *)
(* entry at all.                                                            *)
Documents == [Fields -> Values \cup {Null}]
Empty     == [f \in Fields |-> Null]
Doc       == hist[Len(hist)]
Data(raw) == IF raw = Null THEN Empty ELSE raw

Idle == [pc |-> "idle", field |-> Null, value |-> Null, raw |-> Null]

Store(d) == hist' = Append(hist, d)
Goto(o, pc) == call' = [call EXCEPT ![o].pc = pc]

SessionPart(o, pc) ==
  part = "session" /\ call[o].pc = pc /\ UNCHANGED <<part, tempVars, offlineVars, queryVars>>

(* get, has, keys: answered from the object's data when it has some. *)
StartGet(o) ==
  /\ SessionPart(o, "idle") /\ cache[o] = Null
  /\ Goto(o, "load") /\ UNCHANGED <<writes, hist, cache, own>>

Load(o) ==
  /\ SessionPart(o, "load")
  /\ cache' = [cache EXCEPT ![o] = Data(Doc)]
  /\ Goto(o, "idle") /\ UNCHANGED <<writes, hist, own>>

(* set, and remove for the value Null *)
StartMutate(o, f, v) ==
  /\ SessionPart(o, "idle") /\ Change
  /\ call' = [call EXCEPT ![o] = [Idle EXCEPT !.pc = "read", !.field = f, !.value = v]]
  /\ UNCHANGED <<hist, cache, own>>

MutateRead(o) ==
  /\ SessionPart(o, "read")
  /\ call' = [call EXCEPT ![o].pc = "write", ![o].raw = Doc]
  /\ UNCHANGED <<writes, hist, cache, own>>

Written(o) == [Data(call[o].raw) EXCEPT ![call[o].field] = call[o].value]

Wrote(o) ==
  /\ Store(Written(o))
  /\ cache' = [cache EXCEPT ![o] = Written(o)]
  /\ own' = [own EXCEPT ![o] = Len(hist) + 1]
  /\ call' = [call EXCEPT ![o] = Idle] /\ UNCHANGED writes

(* Mutant: a plain set. *)
MutateWriteBlind(o) == SessionPart(o, "write") /\ Wrote(o)

(* Mutant: the same raw is tried again. *)
MutateWriteAgain(o) ==
  \/ SessionPart(o, "write") /\ Doc = call[o].raw /\ Wrote(o)
  \/ SessionPart(o, "write") /\ Doc # call[o].raw /\ UNCHANGED <<writes, sessionVars>>

(* setIfAbsent or compareAndSet, else once more round the loop *)
MutateWrite(o) ==
  \/ SessionPart(o, "write") /\ Doc = call[o].raw /\ Wrote(o)
  \/ /\ SessionPart(o, "write") /\ Doc # call[o].raw
     /\ Goto(o, "read") /\ UNCHANGED <<writes, hist, cache, own>>

(* Mutant: the object keeps its data. *)
StartClearCached(o) ==
  /\ SessionPart(o, "idle") /\ Change
  /\ Goto(o, "clear") /\ UNCHANGED <<hist, cache, own>>

StartClear(o) ==
  /\ SessionPart(o, "idle") /\ Change
  /\ cache' = [cache EXCEPT ![o] = Null]
  /\ Goto(o, "clear") /\ UNCHANGED <<hist, own>>

Clear(o) ==
  /\ SessionPart(o, "clear")
  /\ Store(Null) /\ own' = [own EXCEPT ![o] = Len(hist) + 1]
  /\ Goto(o, "idle") /\ UNCHANGED <<writes, cache>>

(* The last logout or kickout of the account deletes the entry; it expires. *)
DataGone ==
  /\ part = "session" /\ Change /\ Doc # Null /\ Store(Null)
  /\ UNCHANGED <<part, cache, call, own, tempVars, offlineVars, queryVars>>

SessionStep(o) == Load(o) \/ MutateRead(o) \/ MutateWrite(o) \/ Clear(o)
SessionNext ==
  \/ DataGone
  \/ \E o \in Objects :
       \/ SessionStep(o) \/ StartGet(o) \/ StartClear(o)
       \/ \E f \in Fields, v \in Values \cup {Null} : StartMutate(o, f, v)

-----------------------------------------------------------------------------
(* Temporary tokens, each created at most once.  An entry's deadline may    *)
(* pass before the store drops it, and consumeTempToken looks at it again.  *)
TempPart == part = "temp" /\ UNCHANGED <<part, sessionVars, offlineVars, queryVars>>

Held(t) == temp[t].at \in {"live", "due"}
Become(t, at) == temp' = [temp EXCEPT ![t].at = at]
Told(r, t) == use' = [use EXCEPT ![r] = [token |-> t, value |-> temp[t].value, at |-> temp[t].at]]

CreateTempToken(t, v) ==
  /\ TempPart /\ temp[t].at = "none" /\ Change
  /\ temp' = [temp EXCEPT ![t] = [at |-> "live", value |-> v]] /\ UNCHANGED use

TempDue(t) ==
  TempPart /\ temp[t].at = "live" /\ Become(t, "due") /\ UNCHANGED <<writes, use>>

TempExpires(t) ==
  TempPart /\ temp[t].at = "due" /\ Become(t, "gone") /\ UNCHANGED <<writes, use>>

DeleteTempToken(t) ==
  TempPart /\ Held(t) /\ Become(t, "gone") /\ UNCHANGED <<writes, use>>

(* Mutant: get, and nothing is deleted. *)
ConsumeTempTokenParse(r, t) ==
  TempPart /\ use[r] = Null /\ Held(t) /\ Told(r, t) /\ UNCHANGED <<writes, temp>>

ConsumeTempToken(r, t) ==
  /\ TempPart /\ use[r] = Null /\ Held(t) /\ Become(t, "gone")
  /\ \/ temp[t].at = "live" /\ Told(r, t)
     \/ temp[t].at = "due" /\ UNCHANGED use
  /\ UNCHANGED writes

TempNext ==
  \E t \in Tokens :
    \/ TempDue(t) \/ TempExpires(t) \/ DeleteTempToken(t)
    \/ \E v \in Values : CreateTempToken(t, v)
    \/ \E r \in Readers : ConsumeTempToken(r, t)

-----------------------------------------------------------------------------
(* Offline records, with offlineRecordEnabled; their own expiry is left out. *)
(* writeOfflineRecord is not awaited: the call that ends a token returns    *)
(* while its record is on its way, and nobody hears that it was rejected.   *)
(* A record lies under what the call had in hand: the token, or the value   *)
(* of the session key, which is the jti of a JWT.  Calls overlap, and a JWT *)
(* can be ended again: a token is ended at most once for each reason and    *)
(* key.                                                                     *)
OfflinePart ==
  part = "offline" /\ UNCHANGED <<part, writes, sessionVars, tempVars, queryVars, strategy>>

Reasons    == {"KICK_OUT", "BE_REPLACED", "LOGOUT"}
RecordKeys == {"token", "jti"} \X LoginTokens
Record(key, why) == [key |-> key, reason |-> why]

FullToken(t) == <<"token", t>>
SessionValue(t) == IF strategy = "jwt" THEN <<"jti", t>> ELSE FullToken(t)

(* The end of a call that ends a token: writeOfflineRecord *)
EndRecorded(key, why) ==
  /\ OfflinePart /\ Record(key, why) \notin ended
  /\ ended' = ended \cup {Record(key, why)}
  /\ pending' = pending \cup {Record(key, why)}
  /\ UNCHANGED <<record, failed>>

(* kickout, kickoutByDevice and logoutByDevice take the token from the      *)
(* device list, or the session's value when the list has lost the device.   *)
EndByDevice(t, why) ==
  /\ why \in {"KICK_OUT", "LOGOUT"}
  /\ EndRecorded(FullToken(t), why) \/ EndRecorded(SessionValue(t), why)

(* kickoutByToken, and logout of a JWT.  logout of an opaque token,         *)
(* logoutByLoginId, refreshToken and a login that leaves a single device    *)
(* record nothing.                                                          *)
EndByToken(t, why) ==
  /\ why = "KICK_OUT" \/ (why = "LOGOUT" /\ strategy = "jwt")
  /\ EndRecorded(FullToken(t), why)

(* _replacedToken: login takes the place of the token of the same device.   *)
ReplacedToken(t) == EndRecorded(SessionValue(t), "BE_REPLACED")

RecordArrives(r) ==
  /\ OfflinePart /\ pending' = pending \ {r}
  /\ record' = [record EXCEPT ![r.key] = r.reason] /\ UNCHANGED <<ended, failed>>

RecordRejected(r) ==
  /\ OfflinePart /\ pending' = pending \ {r}
  /\ failed' = failed \cup {r.key} /\ UNCHANGED <<ended, record>>

(* getOfflineRecords, asked with a token *)
OfflineRecord(t) == record[FullToken(t)]

OfflineNext ==
  \/ \E t \in LoginTokens :
       ReplacedToken(t) \/ \E why \in Reasons : EndByDevice(t, why) \/ EndByToken(t, why)
  \/ \E r \in pending : RecordArrives(r) \/ RecordRejected(r)

-----------------------------------------------------------------------------
(* getSessionList, one page at a time while logins and logouts go on.       *)
Devices == 1 .. MaxDevice
QueryPart == part = "query" /\ UNCHANGED <<part, sessionVars, tempVars, offlineVars>>

Others(l, d) ==   \* filter, as a function over the prefixes: SelectSeq cannot be reasoned about
  LET kept[i \in 0 .. Len(l)] ==
        IF i = 0 THEN <<>>
        ELSE IF l[i].device # d THEN Append(kept[i - 1], l[i]) ELSE kept[i - 1]
  IN kept[Len(l)]
Listed == {list[i] : i \in 1 .. Len(list)}

(* comparing two sessions by the sort key *)
Before(a, b, w) ==
  LET x == IF w.by = "device" THEN a.device ELSE a.time
      y == IF w.by = "device" THEN b.device ELSE b.time
  IN  IF w.order = "asc" THEN x < y ELSE y < x

(* Array.prototype.sort is stable: equal keys stay in the list's order. *)
Sorted(l, w) ==
  LET rank == [i \in 1 .. Len(l) |->
                 1 + Cardinality({j \in 1 .. Len(l) :
                        Before(l[j], l[i], w) \/ (~Before(l[i], l[j], w) /\ j < i)})]
  IN  [n \in 1 .. Len(l) |-> l[CHOOSE i \in 1 .. Len(l) : rank[i] = n]]

Slice(l, from, to) == {l[i] : i \in {n \in 1 .. Len(l) : from <= n /\ n <= to}}

(* Mutant: the slice begins one too late. *)
PageItemsLate(w) == Slice(Sorted(list, w), w.page * w.size + 2, (w.page + 1) * w.size)

PageItems(w) == Slice(Sorted(list, w), w.page * w.size + 1, (w.page + 1) * w.size)

NoWalk == [on |-> FALSE, by |-> "time", order |-> "desc", size |-> 1, page |-> 0,
           stay |-> {}, got |-> {}, shifted |-> FALSE]

(* What a change of the list does to a walk: it forgets the sessions that   *)
(* end, and whether one may have moved to a page that was read already.     *)
Seen(gone, shifts) ==
  walk' = [walk EXCEPT !.stay = @ \ gone, !.shifted = @ \/ (walk.on /\ shifts)]

(* login: a device that is listed moves to the end of the list *)
QueryLogin(d) ==
  LET old == {x \in Listed : x.device = d} IN
  /\ QueryPart /\ Change
  /\ list' = Append(Others(list, d), [device |-> d, time |-> clock])
  /\ Seen(old, \E x \in old : walk.by = "time" /\ (walk.order = "asc" \/ x.time = clock))
  /\ UNCHANGED clock

QueryLogout(d) ==
  LET old == {x \in Listed : x.device = d} IN
  /\ QueryPart /\ old # {}
  /\ list' = Others(list, d) /\ Seen(old, TRUE) /\ UNCHANGED <<writes, clock>>

QueryTick ==
  QueryPart /\ clock < MaxTime /\ clock' = clock + 1 /\ UNCHANGED <<writes, list, walk>>

StartWalk(by, order, size) ==
  /\ QueryPart /\ ~walk.on /\ walk.page = 0
  /\ walk' = [NoWalk EXCEPT !.on = TRUE, !.by = by, !.order = order, !.size = size,
                            !.stay = Listed]
  /\ UNCHANGED <<writes, list, clock>>

(* The reader stops at a page past the total. *)
ReadPage ==
  /\ QueryPart /\ walk.on
  /\ walk' = [walk EXCEPT !.got = @ \cup PageItems(walk), !.page = @ + 1,
                          !.on = (walk.page + 1) * walk.size < Len(list)]
  /\ UNCHANGED <<writes, list, clock>>

QueryNext ==
  \/ QueryTick \/ ReadPage
  \/ \E d \in Devices : QueryLogin(d) \/ QueryLogout(d)
  \/ \E by \in {"time", "device"}, order \in {"asc", "desc"}, size \in 1 .. 2 :
       StartWalk(by, order, size)

-----------------------------------------------------------------------------
Init ==
  /\ part \in {"session", "temp", "offline", "query"} /\ writes = 0
  /\ hist = <<Null>> /\ cache = [o \in Objects |-> Null]
  /\ call = [o \in Objects |-> Idle] /\ own = [o \in Objects |-> 1]
  /\ temp = [t \in Tokens |-> [at |-> "none", value |-> Null]]
  /\ use = [r \in Readers |-> Null]
  /\ strategy \in {"opaque", "jwt"} /\ (part # "offline" => strategy = "opaque")
  /\ ended = {} /\ pending = {} /\ record = [k \in RecordKeys |-> Null] /\ failed = {}
  /\ list = <<>> /\ clock = 0 /\ walk = NoWalk

Next == SessionNext \/ TempNext \/ OfflineNext \/ QueryNext

(* The store answers every call, if only with a rejection, and the process  *)
(* sends what it began.                                                     *)
Fairness ==
  /\ \A o \in Objects : WF_vars(SessionStep(o))
  /\ WF_vars(\E r \in pending : RecordArrives(r) \/ RecordRejected(r))

Spec == Init /\ [][Next]_vars /\ Fairness

-----------------------------------------------------------------------------
(* Every variable has its shape; a walk reads no more pages than there are. *)
TypeOK ==
  /\ writes \in 0 .. MaxWrites
  /\ \A i \in 1 .. Len(hist) : hist[i] \in Documents \cup {Null}
  /\ cache \in [Objects -> Documents \cup {Null}]
  /\ \A o \in Objects : own[o] \in 1 .. Len(hist) /\ call[o].pc \in
       {"idle", "load", "read", "write", "clear"}
  /\ \A t \in Tokens : temp[t].at \in {"none", "live", "due", "gone"}
  /\ pending \subseteq ended
  /\ \A k \in RecordKeys : record[k] # Null => Record(k, record[k]) \in ended
  /\ \A i, j \in 1 .. Len(list) : list[i].device = list[j].device => i = j
  /\ walk.page \in 0 .. MaxDevice

(* XltSession.mutate: two requests that set different fields of one account *)
(* at the same time both keep their write, whatever lies between reading    *)
(* the document and writing it back.                                        *)
NoLostUpdate ==
  [][\A o \in Objects, f \in Fields :
       (call[o].pc = "write" /\ call'[o].pc = "idle" /\ f # call[o].field)
         => Data(hist'[Len(hist')])[f] = Data(Doc)[f]]_vars

(* XltSession caches what it read.  A request that has changed the data     *)
(* through its object never reads from it a document from before its own    *)
(* last change, although others change and delete the entry meanwhile.      *)
ReadsOwnWrites ==
  \A o \in Objects :
    cache[o] # Null => \E i \in own[o] .. Len(hist) : Data(hist[i]) = cache[o]

(* The retry loop of mutate ends: with finitely many writers every call on  *)
(* an XltSession returns.                                                   *)
CallsReturn == \A o \in Objects : call[o].pc # "idle" ~> call[o].pc = "idle"

(* consumeTempToken: of any number of readers one gets the value of a       *)
(* one-time token, and none once its deadline has passed or it was consumed.*)
ConsumedOnce ==
  /\ \A r, q \in Readers :
       use[r] # Null /\ use[q] # Null /\ r # q => use[r].token # use[q].token
  /\ \A r \in Readers : use[r] # Null => use[r].at = "live" /\ ~Held(use[r].token)

(* getOfflineRecords: of a token whose ending was recorded under the token  *)
(* itself (every recorded ending of an opaque token, and those of a JWT     *)
(* whose caller had the token or found it in the device list) it tells in   *)
(* the end a reason for which the token was ended, though nobody waits for  *)
(* the write and calls overlap; unless the store rejected a write, which    *)
(* nobody repeats.                                                          *)
EndingIsRecorded ==
  \A t \in LoginTokens :
    (\E e \in ended : e.key = FullToken(t)) ~>
      \/ \E e \in ended : e.key = FullToken(t) /\ e.reason = OfflineRecord(t)
      \/ FullToken(t) \in failed

(* Reading the session list page by page, in any order the API offers, goes *)
(* past no session that is there all along: logins in between at most show  *)
(* a session twice.  A logout in between, or the login of a listed device   *)
(* in ascending order or within a millisecond, moves sessions up a page.    *)
NobodySkipped == ~walk.on /\ walk.page > 0 /\ ~walk.shifted => walk.stay \subseteq walk.got

(* Calls on an XltSession return, and what the calls that end a token send  *)
(* off without waiting for it can be asked for in the end.                  *)
CallsComplete == CallsReturn /\ EndingIsRecorded

(* The parts keep their shape, and reading by pages passes nobody over.     *)
SessionDataInv == TypeOK /\ NobodySkipped
=============================================================================
