------------------------- MODULE SessionData_proofs -------------------------
(***************************************************************************)
(* Theorems about SessionData for any number of XltSession objects,        *)
(* fields, temporary tokens, readers and devices, and histories of any     *)
(* length.                                                                 *)
(***************************************************************************)
EXTENDS SessionData, SequenceTheorems, FiniteSetTheorems, TLAPS

Stored == Documents \cup {Null}

CallRecord ==
  [pc: {"idle", "load", "read", "write", "clear"}, field: Fields \cup {Null},
   value: Values \cup {Null}, raw: Stored]

(* The session part.  clear() forgets the object's data before it awaits.   *)
SessionInv ==
  /\ hist \in Seq(Stored) /\ Len(hist) >= 1
  /\ cache \in [Objects -> Stored]
  /\ call \in [Objects -> CallRecord]
  /\ own \in [Objects -> Nat]
  /\ \A o \in Objects :
       /\ own[o] \in 1 .. Len(hist)
       /\ call[o].pc \in {"read", "write"} => call[o].field \in Fields
       /\ call[o].pc = "clear" => cache[o] = Null
  /\ ReadsOwnWrites

(* The temporary tokens: what has been told is gone from the store.         *)
TempInv ==
  /\ temp \in [Tokens -> [at: {"none", "live", "due", "gone"}, value: Values \cup {Null}]]
  /\ use \in [Readers -> [token: Tokens, value: Values \cup {Null}, at: {"live"}] \cup {Null}]
  /\ \A r \in Readers : use[r] # Null => temp[use[r].token].at = "gone"
  /\ ConsumedOnce

-----------------------------------------------------------------------------
LEMMA DataIsDocument == ASSUME NEW raw \in Stored PROVE Data(raw) \in Documents
BY DEF Data, Stored, Documents, Empty

LEMMA DocIsStored == ASSUME SessionInv PROVE Doc \in Stored
BY DEF SessionInv, Doc

LEMMA WrittenIsDocument ==
  ASSUME SessionInv, NEW o \in Objects, call[o].pc = "write"
  PROVE  /\ Written(o) \in Documents
         /\ Data(Written(o)) = Written(o)
         /\ \A f \in Fields \ {call[o].field} : Written(o)[f] = Data(call[o].raw)[f]
<1>1. call[o] \in CallRecord /\ call[o].field \in Fields BY DEF SessionInv
<1>2. Data(call[o].raw) \in Documents BY <1>1, DataIsDocument DEF CallRecord
<1>3. Written(o) \in Documents BY <1>1, <1>2 DEF Written, Documents, CallRecord
<1>4. Null \notin Documents BY SessionDataAssumption DEF Documents
<1> QED BY <1>1, <1>2, <1>3, <1>4 DEF Written, Data, Documents

(* A step that stores one more document moves no object's reading back.     *)
LEMMA StoreKeepsReads ==
  ASSUME SessionInv, NEW d \in Stored, Store(d)
  PROVE  /\ hist' \in Seq(Stored) /\ Len(hist') = Len(hist) + 1
         /\ hist'[Len(hist')] = d
         /\ \A i \in 1 .. Len(hist) : hist'[i] = hist[i]
BY DEF SessionInv, Store

LEMMA SessionSteps ==
  ASSUME SessionInv, SessionNext
  PROVE  SessionInv'
<1> USE DEF SessionPart, Goto
<1>0. /\ hist \in Seq(Stored) /\ Len(hist) \in Nat /\ Len(hist) >= 1
      /\ cache \in [Objects -> Stored] /\ call \in [Objects -> CallRecord]
      /\ own \in [Objects -> Nat]
      /\ Null \in Stored
  BY DEF SessionInv, Stored
<1>1. CASE DataGone
  <2>1. Store(Null) /\ UNCHANGED <<cache, call, own>> BY <1>1 DEF DataGone
  <2> QED BY <2>1, <1>0, StoreKeepsReads DEF SessionInv, ReadsOwnWrites
<1>2. ASSUME NEW o \in Objects, StartGet(o) PROVE SessionInv'
  <2>1. call' \in [Objects -> CallRecord] /\ UNCHANGED <<hist, cache, own>>
    BY <1>0, <1>2 DEF StartGet, CallRecord
  <2>2. call' = [call EXCEPT ![o].pc = "load"] BY <1>2 DEF StartGet
  <2> QED BY <1>0, <2>1, <2>2 DEF SessionInv, ReadsOwnWrites
<1>3. ASSUME NEW o \in Objects, Load(o) PROVE SessionInv'
  <2>1. Data(Doc) \in Stored BY DocIsStored, DataIsDocument DEF Stored
  <2>2. cache' \in [Objects -> Stored] /\ call' \in [Objects -> CallRecord]
        /\ UNCHANGED <<hist, own>>
    BY <2>1, <1>0, <1>3 DEF Load, CallRecord
  <2>3. ReadsOwnWrites'
    BY <1>0, <1>3, <2>2 DEF Load, ReadsOwnWrites, SessionInv, Doc
  <2> QED BY <1>0, <1>3, <2>2, <2>3 DEF Load, SessionInv, CallRecord
<1>4. ASSUME NEW o \in Objects, NEW f \in Fields, NEW v \in Values \cup {Null},
             StartMutate(o, f, v)
      PROVE  SessionInv'
  BY <1>0, <1>4 DEF StartMutate, SessionInv, ReadsOwnWrites, CallRecord, Idle
<1>5. ASSUME NEW o \in Objects, MutateRead(o) PROVE SessionInv'
  <2>1. call' \in [Objects -> CallRecord]
    BY <1>0, <1>5, DocIsStored DEF MutateRead, CallRecord
  <2> QED BY <1>0, <1>5, <2>1 DEF MutateRead, SessionInv, ReadsOwnWrites, CallRecord
<1>6. ASSUME NEW o \in Objects, MutateWrite(o) PROVE SessionInv'
  <2>1. CASE Wrote(o) /\ call[o].pc = "write"
    <3>1. Written(o) \in Stored /\ Data(Written(o)) = Written(o) /\ Store(Written(o))
      BY <2>1, WrittenIsDocument DEF Wrote, Stored
    <3>2. /\ hist' \in Seq(Stored) /\ Len(hist') = Len(hist) + 1
          /\ hist'[Len(hist')] = Written(o)
          /\ \A i \in 1 .. Len(hist) : hist'[i] = hist[i]
      BY <3>1, StoreKeepsReads
    <3>3. /\ cache' = [cache EXCEPT ![o] = Written(o)]
          /\ own' = [own EXCEPT ![o] = Len(hist) + 1]
          /\ call' = [call EXCEPT ![o] = Idle]
      BY <2>1 DEF Wrote
    <3>4. ASSUME NEW x \in Objects, cache'[x] # Null
          PROVE  \E i \in own'[x] .. Len(hist') : Data(hist'[i]) = cache'[x]
      <4>1. CASE x = o
        <5>1. own'[x] = Len(hist') /\ cache'[x] = Written(o) BY <1>0, <3>2, <3>3, <4>1
        <5> QED BY <1>0, <3>1, <3>2, <5>1
      <4>2. CASE x # o
        <5>1. own'[x] = own[x] /\ cache'[x] = cache[x] /\ own[x] \in Nat
          BY <1>0, <3>3, <4>2
        <5>2. PICK i \in own[x] .. Len(hist) : Data(hist[i]) = cache[x]
          BY <3>4, <5>1 DEF SessionInv, ReadsOwnWrites
        <5>3. i \in 1 .. Len(hist) BY <5>1, <5>2, <1>0 DEF SessionInv
        <5>4. Data(hist'[i]) = cache'[x] BY <3>2, <5>1, <5>2, <5>3 DEF Data
        <5> QED BY <1>0, <3>2, <5>1, <5>2, <5>4
      <4> QED BY <4>1, <4>2
    <3>5. ReadsOwnWrites' BY <3>4 DEF ReadsOwnWrites, Data
    <3> QED BY <1>0, <3>1, <3>2, <3>3, <3>5 DEF SessionInv, CallRecord, Idle
  <2>2. CASE Goto(o, "read") /\ call[o].pc = "write" /\ UNCHANGED <<hist, cache, own>>
    BY <1>0, <2>2 DEF SessionInv, ReadsOwnWrites, CallRecord
  <2> QED BY <1>6, <2>1, <2>2 DEF MutateWrite
<1>7. ASSUME NEW o \in Objects, StartClear(o) PROVE SessionInv'
  BY <1>0, <1>7 DEF StartClear, SessionInv, ReadsOwnWrites, CallRecord
<1>8. ASSUME NEW o \in Objects, Clear(o) PROVE SessionInv'
  <2>1. Store(Null) /\ cache' = cache /\ cache[o] = Null
        /\ own' = [own EXCEPT ![o] = Len(hist) + 1]
        /\ call' = [call EXCEPT ![o].pc = "idle"]
    BY <1>8 DEF Clear, SessionInv
  <2>2. /\ hist' \in Seq(Stored) /\ Len(hist') = Len(hist) + 1
        /\ \A i \in 1 .. Len(hist) : hist'[i] = hist[i]
    BY <2>1, <1>0, StoreKeepsReads
  <2>3. ASSUME NEW x \in Objects, cache'[x] # Null
        PROVE  \E i \in own'[x] .. Len(hist') : Data(hist'[i]) = cache'[x]
    <3>1. own'[x] = own[x] /\ cache'[x] = cache[x] /\ own[x] \in Nat
      BY <1>0, <2>1, <2>3
    <3>2. PICK i \in own[x] .. Len(hist) : Data(hist[i]) = cache[x]
      BY <2>3, <3>1 DEF SessionInv, ReadsOwnWrites
    <3>3. i \in 1 .. Len(hist) BY <3>1, <3>2, <1>0 DEF SessionInv
    <3>4. Data(hist'[i]) = cache'[x] BY <2>2, <3>1, <3>2, <3>3 DEF Data
    <3> QED BY <1>0, <2>2, <3>1, <3>2, <3>4
  <2>4. ReadsOwnWrites' BY <2>3 DEF ReadsOwnWrites, Data
  <2>5. call' \in [Objects -> CallRecord] BY <1>0, <2>1 DEF CallRecord
  <2>6. \A x \in Objects : x # o => call'[x] = call[x] /\ own'[x] = own[x]
    BY <1>0, <2>1
  <2>7. call'[o].pc = "idle" /\ own'[o] = Len(hist') BY <1>0, <2>1, <2>2 DEF CallRecord
  <2>8. \A x \in Objects :
          /\ own'[x] \in 1 .. Len(hist')
          /\ call'[x].pc \in {"read", "write"} => call'[x].field \in Fields
          /\ call'[x].pc = "clear" => cache'[x] = Null
    BY <1>0, <2>1, <2>2, <2>6, <2>7 DEF SessionInv
  <2> QED BY <1>0, <2>1, <2>2, <2>4, <2>5, <2>8 DEF SessionInv
<1> QED BY <1>1, <1>2, <1>3, <1>4, <1>5, <1>6, <1>7, <1>8 DEF SessionNext, SessionStep
-----------------------------------------------------------------------------
(* The other parts leave the session part alone, and it leaves them.        *)
LEMMA NextSessionInv == ASSUME SessionInv, [Next]_vars PROVE SessionInv'
<1>1. CASE SessionNext BY <1>1, SessionSteps
<1>2. CASE UNCHANGED sessionVars
  BY <1>2 DEF sessionVars, SessionInv, ReadsOwnWrites, Data
<1>3. TempNext \/ OfflineNext \/ QueryNext => UNCHANGED sessionVars
  BY DEF TempNext, TempPart, TempDue, TempExpires, DeleteTempToken, CreateTempToken,
         ConsumeTempToken, OfflineNext, OfflinePart, EndRecorded, EndByDevice, EndByToken,
         ReplacedToken, RecordArrives, RecordRejected, QueryNext, QueryPart, QueryTick, ReadPage,
         QueryLogin, QueryLogout, StartWalk
<1> QED BY <1>1, <1>2, <1>3 DEF Next, vars

LEMMA InitSessionInv == Init => SessionInv
BY DEF Init, SessionInv, ReadsOwnWrites, Stored, CallRecord, Idle

LEMMA TempSteps == ASSUME TempInv, TempNext PROVE TempInv'
<1> USE DEF TempPart, Become, Held
<1>0. /\ temp \in [Tokens -> [at: {"none", "live", "due", "gone"}, value: Values \cup {Null}]]
      /\ use \in [Readers -> [token: Tokens, value: Values \cup {Null}, at: {"live"}] \cup {Null}]
  BY DEF TempInv
<1>1. ASSUME NEW t \in Tokens,
             TempDue(t) \/ TempExpires(t) \/ DeleteTempToken(t)
               \/ \E v \in Values : CreateTempToken(t, v)
      PROVE  TempInv'
  <2>1. use' = use /\ temp[t].at # "gone"
    BY <1>1 DEF TempDue, TempExpires, DeleteTempToken, CreateTempToken
  <2>2. temp' \in [Tokens -> [at: {"none", "live", "due", "gone"}, value: Values \cup {Null}]]
    BY <1>0, <1>1 DEF TempDue, TempExpires, DeleteTempToken, CreateTempToken
  <2>3. \A u \in Tokens : temp[u].at = "gone" => temp'[u].at = "gone"
    BY <1>0, <1>1, <2>1 DEF TempDue, TempExpires, DeleteTempToken, CreateTempToken
  <2>4. \A r \in Readers : use[r] # Null => use[r].token \in Tokens BY <1>0
  <2> QED BY <2>1, <2>2, <2>3, <2>4 DEF TempInv, ConsumedOnce
<1>2. ASSUME NEW r \in Readers, NEW t \in Tokens, ConsumeTempToken(r, t)
      PROVE  TempInv'
  <2>1. temp' = [temp EXCEPT ![t].at = "gone"] /\ temp[t].at # "gone"
    BY <1>2 DEF ConsumeTempToken
  <2>2. temp' \in [Tokens -> [at: {"none", "live", "due", "gone"}, value: Values \cup {Null}]]
        /\ temp'[t].at = "gone"
        /\ \A u \in Tokens : temp[u].at = "gone" => temp'[u].at = "gone"
    BY <1>0, <2>1
  <2>3. \A q \in Readers : use[q] # Null => use[q].token \in Tokens \ {t}
    BY <1>0, <2>1 DEF TempInv
  <2>4. CASE use' = use
    BY <2>2, <2>3, <2>4 DEF TempInv, ConsumedOnce
  <2>5. CASE temp[t].at = "live" /\ Told(r, t)
    <3>1. use' = [use EXCEPT ![r] = [token |-> t, value |-> temp[t].value, at |-> "live"]]
      BY <2>5 DEF Told
    <3>2. use' \in [Readers -> [token: Tokens, value: Values \cup {Null}, at: {"live"}] \cup {Null}]
      BY <1>0, <3>1
    <3>3. \A q \in Readers : use'[q] # Null =>
            /\ use'[q].token = IF q = r THEN t ELSE use[q].token
            /\ use'[q].at = "live"
            /\ q # r => use[q] # Null
      BY <1>0, <3>1
    <3>4. \A q \in Readers : use'[q] # Null => temp'[use'[q].token].at = "gone"
      BY <2>2, <2>3, <3>3 DEF TempInv
    <3>5. ConsumedOnce'
      BY <2>3, <3>3, <3>4 DEF TempInv, ConsumedOnce
    <3> QED BY <2>2, <3>2, <3>4, <3>5 DEF TempInv
  <2> QED BY <1>2, <2>4, <2>5 DEF ConsumeTempToken
<1> QED BY <1>1, <1>2 DEF TempNext

LEMMA NextTempInv == ASSUME TempInv, [Next]_vars PROVE TempInv'
<1>1. CASE TempNext BY <1>1, TempSteps
<1>2. CASE UNCHANGED tempVars BY <1>2 DEF tempVars, TempInv, ConsumedOnce, Held
<1>3. SessionNext => UNCHANGED tempVars
  BY DEF SessionNext, SessionPart, SessionStep, DataGone, StartGet, Load, StartMutate,
         MutateRead, MutateWrite, StartClear, Clear
<1>4. OfflineNext \/ QueryNext => UNCHANGED tempVars
  BY DEF OfflineNext, OfflinePart, EndRecorded, EndByDevice, EndByToken,
         ReplacedToken, RecordArrives, RecordRejected, QueryNext, QueryPart, QueryTick, ReadPage, QueryLogin,
         QueryLogout, StartWalk
<1> QED BY <1>1, <1>2, <1>3, <1>4 DEF Next, vars

LEMMA InitTempInv == Init => TempInv
BY DEF Init, TempInv, ConsumedOnce

-----------------------------------------------------------------------------
(* XltSession: a request never reads through its object a document older    *)
(* than its own last change, whatever other requests write, clear or let    *)
(* expire meanwhile.                                                        *)
THEOREM OwnWritesAreRead == Spec => []ReadsOwnWrites
<1>1. SessionInv => ReadsOwnWrites BY DEF SessionInv
<1>2. SessionInv /\ [Next]_vars => SessionInv' BY NextSessionInv
<1> QED BY <1>1, <1>2, InitSessionInv, PTL DEF Spec

(* XltSession.mutate: of requests that change different fields of one       *)
(* account, however many there are, none undoes the change of another.      *)
THEOREM UpdatesAreKept == Spec => NoLostUpdate
<1>1. ASSUME SessionInv, [Next]_vars, NEW o \in Objects, NEW f \in Fields,
             call[o].pc = "write" /\ call'[o].pc = "idle" /\ f # call[o].field
      PROVE  Data(hist'[Len(hist')])[f] = Data(Doc)[f]
  <2>1. SessionInv' BY <1>1, NextSessionInv
  <2>2. call \in [Objects -> CallRecord] BY <1>1 DEF SessionInv
  <2>3. call' # call BY <1>1
  <2>4. SessionNext
    BY <1>1, <2>3 DEF Next, vars, sessionVars, TempNext, TempPart, TempDue, TempExpires,
       DeleteTempToken, CreateTempToken, ConsumeTempToken, OfflineNext, OfflinePart,
       EndRecorded, EndByDevice, EndByToken, ReplacedToken, RecordArrives, RecordRejected,
       QueryNext, QueryPart,
       QueryTick, ReadPage, QueryLogin, QueryLogout, StartWalk
  <2>5. ASSUME NEW x \in Objects,
               \/ StartGet(x) \/ Load(x) \/ MutateRead(x) \/ StartClear(x) \/ Clear(x)
               \/ \E g \in Fields, v \in Values \cup {Null} : StartMutate(x, g, v)
        PROVE  FALSE
    <3>1. \E n : call' = [call EXCEPT ![x] = n]
      BY <2>5 DEF StartGet, Load, MutateRead, StartClear, Clear, StartMutate, Goto
    <3>2. call[x].pc # "write"
      BY <2>5 DEF StartGet, Load, MutateRead, StartClear, Clear, StartMutate, SessionPart
    <3> QED BY <1>1, <2>2, <3>1, <3>2
  <2>6. Doc = call[o].raw /\ Wrote(o)
    <3>1. PICK x \in Objects : MutateWrite(x)
      BY <2>3, <2>4, <2>5 DEF SessionNext, SessionStep, DataGone
    <3>2. \E n : call' = [call EXCEPT ![x] = n]
      BY <3>1 DEF MutateWrite, Wrote, Goto
    <3>3. x = o BY <1>1, <2>2, <3>2
    <3>4. ~Goto(o, "read") BY <1>1, <2>2 DEF Goto, CallRecord
    <3> QED BY <3>1, <3>3, <3>4 DEF MutateWrite
  <2>7. Store(Written(o)) /\ Written(o) \in Stored /\ Data(Written(o)) = Written(o)
        /\ Written(o)[f] = Data(Doc)[f]
    BY <1>1, <2>6, WrittenIsDocument DEF Wrote, Stored
  <2>8. hist'[Len(hist')] = Written(o) BY <1>1, <2>7, StoreKeepsReads
  <2> QED BY <2>7, <2>8 DEF Data
<1>2. SessionInv /\ [Next]_vars => SessionInv' BY NextSessionInv
<1>3. SessionInv /\ [Next]_vars =>
        [\A o \in Objects, f \in Fields :
           (call[o].pc = "write" /\ call'[o].pc = "idle" /\ f # call[o].field)
             => Data(hist'[Len(hist')])[f] = Data(Doc)[f]]_vars
  BY <1>1
<1> QED BY <1>2, <1>3, InitSessionInv, PTL DEF Spec, NoLostUpdate

(* consumeTempToken: a one-time token is told to one reader at most, before *)
(* its deadline, and is gone then.                                          *)
THEOREM TokensAreConsumedOnce == Spec => []ConsumedOnce
<1>1. TempInv => ConsumedOnce BY DEF TempInv
<1>2. TempInv /\ [Next]_vars => TempInv' BY NextTempInv
<1> QED BY <1>1, <1>2, InitTempInv, PTL DEF Spec

-----------------------------------------------------------------------------
(* The paged reading of the list.                                           *)

Entries == [device: Devices, time: Nat]

(* No device is listed twice. *)
Apart(l) == \A i, j \in 1 .. Len(l) : l[i].device = l[j].device => i = j

(* The places of the entries that the sort puts before the one at i. *)
Ahead(l, w, i) ==
  {j \in 1 .. Len(l) : Before(l[j], l[i], w) \/ (~Before(l[i], l[j], w) /\ j < i)}

(* A walk whose page the reader has reached, as long as nothing has shifted:*)
(* who is there all along has been read or comes on a later page.           *)
ListInv ==
  /\ list \in Seq(Entries) /\ clock \in Nat /\ Apart(list)
  /\ \A i \in 1 .. Len(list) : list[i].time <= clock

WalkInv ==
  /\ walk \in [on : BOOLEAN, by : {"time", "device"}, order : {"asc", "desc"}, size : 1 .. 2,
               page : Nat, stay : SUBSET Entries, got : SUBSET Entries, shifted : BOOLEAN]
  /\ walk.stay \subseteq Listed
  /\ walk.page <= MaxDevice /\ (walk.on => walk.page < MaxDevice)
  /\ walk.on /\ ~walk.shifted =>
       \A i \in 1 .. Len(list) :
         list[i] \in walk.stay =>
           list[i] \in walk.got \/ walk.page * walk.size <= Cardinality(Ahead(list, walk, i))
  /\ NobodySkipped

LEMMA LeastCounterexample ==
  ASSUME NEW T, T \subseteq Nat, T # {}
  PROVE  \E x \in T : \A y \in T : ~(y < x)
<1>1. \E x \in T : \A y \in T : ~(<<y, x>> \in OpToRel(<, Nat)) BY NatLessThanWellFounded, WFMin
<1> QED BY <1>1 DEF OpToRel

LEMMA EntryIs ==
  ASSUME NEW l \in Seq(Entries), NEW i \in 1 .. Len(l)
  PROVE  l[i].device \in 1 .. MaxDevice /\ l[i].device \in Nat /\ l[i].time \in Nat
<1>1. l[i] \in Entries OBVIOUS
<1>2. MaxDevice \in Nat BY SessionDataAssumption
<1> QED BY <1>1, <1>2 DEF Entries, Devices

(* The list without the entry at k; without any if k lies past its end.     *)
Step(k, n) == IF n < k THEN n ELSE n + 1
Without(l, k, i) == [n \in 1 .. (IF i < k THEN i ELSE i - 1) |-> l[Step(k, n)]]

LEMMA WithoutIs ==
  ASSUME NEW l \in Seq(Entries), NEW k \in 1 .. Len(l) + 1, NEW i \in 0 .. Len(l)
  PROVE  /\ Without(l, k, i) \in Seq(Entries)
         /\ Len(Without(l, k, i)) = IF i < k THEN i ELSE i - 1
         /\ \A n \in 1 .. (IF i < k THEN i ELSE i - 1) :
              Step(k, n) \in 1 .. i /\ Without(l, k, i)[n] = l[Step(k, n)]
<1> DEFINE m == IF i < k THEN i ELSE i - 1
           s == Without(l, k, i)
<1>1. m \in Nat OBVIOUS
<1>2. \A n \in 1 .. m : Step(k, n) \in 1 .. i BY DEF Step
<1>3. \A n \in 1 .. m : l[Step(k, n)] \in Entries BY <1>2
<1>4. s \in [1 .. m -> Entries] BY <1>3 DEF Without
<1>5. \A n \in 1 .. m : s[n] = l[Step(k, n)] BY DEF Without
<1> HIDE DEF s, m
<1>6. s \in Seq(Entries) BY <1>1, <1>4, SeqDef
<1>7. Len(s) = m BY <1>1, <1>4, <1>6, LenProperties
<1> QED BY <1>2, <1>5, <1>6, <1>7 DEF s, m

LEMMA WithoutStep ==
  ASSUME NEW l \in Seq(Entries), NEW k \in 1 .. Len(l) + 1, NEW i \in 1 .. Len(l)
  PROVE  Without(l, k, i) = IF i = k THEN Without(l, k, i - 1)
                            ELSE Append(Without(l, k, i - 1), l[i])
<1> DEFINE s == Without(l, k, i - 1)
           m == IF i - 1 < k THEN i - 1 ELSE (i - 1) - 1
           t == Without(l, k, i)
           u == Append(s, l[i])
<1>1. i - 1 \in 0 .. Len(l) /\ i \in 0 .. Len(l) OBVIOUS
<1>2. CASE i = k BY <1>2 DEF Without
<1>3. CASE i # k
  <2>1. /\ s \in Seq(Entries) /\ Len(s) = m
        /\ \A n \in 1 .. m : s[n] = l[Step(k, n)]
    BY <1>1, WithoutIs
  <2>2. /\ t \in Seq(Entries) /\ Len(t) = m + 1
        /\ \A n \in 1 .. m + 1 : t[n] = l[Step(k, n)]
    <3> DEFINE q == IF i < k THEN i ELSE i - 1
    <3>1. m + 1 = q BY <1>3
    <3>2. t \in Seq(Entries) /\ Len(t) = q /\ \A n \in 1 .. q : t[n] = l[Step(k, n)]
      BY <1>1, WithoutIs
    <3> HIDE DEF q, m, t
    <3> QED BY <3>1, <3>2
  <2>3. Step(k, m + 1) = i /\ m \in Nat BY <1>3 DEF Step
  <2>4. l[i] \in Entries OBVIOUS
  <2> HIDE DEF s, t, m
  <2>5. /\ u \in Seq(Entries) /\ Len(u) = m + 1 /\ u[m + 1] = l[i]
        /\ \A n \in 1 .. m : u[n] = s[n]
    BY <2>1, <2>3, <2>4, AppendProperties
  <2> HIDE DEF u
  <2>6. ASSUME NEW n \in 1 .. Len(u) PROVE u[n] = t[n]
    <3>1. CASE n = m + 1 BY <2>2, <2>3, <2>5, <3>1
    <3>2. CASE n # m + 1
      <4>1. n \in 1 .. m BY <2>3, <2>5, <3>2
      <4> QED BY <2>1, <2>2, <2>3, <2>5, <4>1
    <3> QED BY <3>1, <3>2
  <2>7. u = t BY <2>2, <2>5, <2>6, SeqEqual
  <2> QED BY <1>3, <2>7 DEF u, s, t
<1> QED BY <1>2, <1>3

(* What filter gives: the list without the device's entry.                  *)
LEMMA OthersIs ==
  ASSUME NEW l \in Seq(Entries), NEW d, NEW k \in 1 .. Len(l) + 1,
         \A j \in 1 .. Len(l) : l[j].device = d <=> j = k
  PROVE  Others(l, d) = Without(l, k, Len(l))
<1> DEFINE I == 0 .. Len(l)
           g == [i \in I |-> Without(l, k, i)]
           kept[i \in I] == IF i = 0 THEN <<>>
                            ELSE IF l[i].device # d THEN Append(kept[i - 1], l[i]) ELSE kept[i - 1]
<1>1. Len(l) \in Nat OBVIOUS
<1>2. g = [i \in I |-> IF i = 0 THEN <<>>
             ELSE IF l[i].device # d THEN Append(g[i - 1], l[i]) ELSE g[i - 1]]
  <2>1. ASSUME NEW i \in I
        PROVE  g[i] = IF i = 0 THEN <<>>
                      ELSE IF l[i].device # d THEN Append(g[i - 1], l[i]) ELSE g[i - 1]
    <3>1. CASE i = 0
      <4>1. 0 < k /\ 0 \in I OBVIOUS
      <4>2. Without(l, k, 0) \in Seq(Entries) /\ Len(Without(l, k, 0)) = 0 BY <4>1, WithoutIs
      <4> QED BY <3>1, <4>2, EmptySeq
    <3>2. CASE i # 0
      <4>1. i \in 1 .. Len(l) /\ i - 1 \in I BY <1>1, <3>2
      <4>2. g[i] = Without(l, k, i) /\ g[i - 1] = Without(l, k, i - 1) BY <4>1
      <4> QED BY <3>2, <4>1, <4>2, WithoutStep
    <3> QED BY <3>1, <3>2
  <2> QED BY <2>1
<1>3. kept = [i \in I |-> IF i = 0 THEN <<>>
             ELSE IF l[i].device # d THEN Append(kept[i - 1], l[i]) ELSE kept[i - 1]]
  <2> HIDE DEF g
  <2> QED BY <1>2 DEF kept
<1> HIDE DEF kept, g
<1>4. \A i \in I : kept[i] = g[i]
  <2> DEFINE T == {i \in I : kept[i] # g[i]}
  <2> SUFFICES ASSUME T # {} PROVE FALSE
    OBVIOUS
  <2>1. T \subseteq Nat OBVIOUS
  <2>2. PICK x \in T : \A y \in T : ~(y < x) BY <2>1, LeastCounterexample
  <2>3. x # 0 => kept[x - 1] = g[x - 1]
    <3> SUFFICES ASSUME x # 0 PROVE x - 1 \in I /\ x - 1 < x
      BY <2>2
    <3> QED BY <1>1
  <2>4. kept[x] = IF x = 0 THEN <<>>
             ELSE IF l[x].device # d THEN Append(kept[x - 1], l[x]) ELSE kept[x - 1]
    BY <1>3
  <2>5. g[x] = IF x = 0 THEN <<>>
             ELSE IF l[x].device # d THEN Append(g[x - 1], l[x]) ELSE g[x - 1]
    BY <1>2
  <2> QED BY <2>3, <2>4, <2>5
<1>5. Others(l, d) = kept[Len(l)] BY DEF Others, kept
<1>6. kept[Len(l)] = Without(l, k, Len(l)) BY <1>1, <1>4 DEF g
<1> QED BY <1>5, <1>6

(* The positions of a page.                                                 *)
LEMMA AheadIs ==
  ASSUME NEW l \in Seq(Entries), NEW w, NEW i \in 1 .. Len(l)
  PROVE  /\ Ahead(l, w, i) \subseteq (1 .. Len(l)) \ {i}
         /\ IsFiniteSet(Ahead(l, w, i))
         /\ Cardinality(Ahead(l, w, i)) \in Nat
         /\ Cardinality(Ahead(l, w, i)) <= Len(l) - 1
<1>1. Len(l) \in Nat /\ l[i] \in Entries OBVIOUS
<1>2. Ahead(l, w, i) \subseteq (1 .. Len(l)) \ {i}
  BY <1>1 DEF Ahead, Before, Entries, Devices
<1>3. IsFiniteSet(1 .. Len(l)) /\ Cardinality(1 .. Len(l)) = Len(l) BY <1>1, FS_Interval
<1>4. IsFiniteSet((1 .. Len(l)) \ {i}) /\ Cardinality((1 .. Len(l)) \ {i}) = Len(l) - 1
  BY <1>3, FS_RemoveElement
<1>5. IsFiniteSet(Ahead(l, w, i)) /\ Cardinality(Ahead(l, w, i)) <= Len(l) - 1
  BY <1>2, <1>4, FS_Subset
<1>6. Cardinality(Ahead(l, w, i)) \in Nat BY <1>5, FS_CardinalityType
<1> QED BY <1>2, <1>5, <1>6

(* No two entries have the same rank: the one that comes first is ahead of  *)
(* the other, with all that is ahead of itself.                             *)
LEMMA RanksDiffer ==
  ASSUME NEW l \in Seq(Entries), NEW w, NEW i \in 1 .. Len(l), NEW j \in 1 .. Len(l), i # j
  PROVE  Cardinality(Ahead(l, w, i)) # Cardinality(Ahead(l, w, j))
<1>1. ASSUME NEW a \in 1 .. Len(l), NEW b \in 1 .. Len(l), a \in Ahead(l, w, b)
      PROVE  Cardinality(Ahead(l, w, a)) # Cardinality(Ahead(l, w, b))
  <2>1. ASSUME NEW c \in Ahead(l, w, a) PROVE c \in Ahead(l, w, b)
    <3>1. c \in 1 .. Len(l) /\ l[a] \in Entries /\ l[b] \in Entries /\ l[c] \in Entries
      BY DEF Ahead
    <3>2. PICK K \in [1 .. Len(l) -> Nat] :
            \A x, y \in 1 .. Len(l) :
              Before(l[x], l[y], w) <=> IF w.order = "asc" THEN K[x] < K[y] ELSE K[y] < K[x]
      <4> DEFINE K == [x \in 1 .. Len(l) |-> IF w.by = "device" THEN l[x].device ELSE l[x].time]
      <4>2. \A x \in 1 .. Len(l) : l[x].device \in Nat /\ l[x].time \in Nat BY EntryIs
      <4>3. K \in [1 .. Len(l) -> Nat] BY <4>2
      <4> QED BY <4>3 DEF Before
    <3>3. K[a] \in Nat /\ K[b] \in Nat /\ K[c] \in Nat BY <3>1, <3>2
    <3> QED BY <1>1, <2>1, <3>1, <3>2, <3>3 DEF Ahead
  <2>2. a \notin Ahead(l, w, a) BY AheadIs
  <2>3. Ahead(l, w, a) \in SUBSET Ahead(l, w, b) /\ Ahead(l, w, a) # Ahead(l, w, b)
    BY <1>1, <2>1, <2>2
  <2> QED BY <2>3, AheadIs, FS_Subset
<1>2. i \in Ahead(l, w, j) \/ j \in Ahead(l, w, i)
  <2>1. l[i] \in Entries /\ l[j] \in Entries OBVIOUS
  <2> QED BY <2>1 DEF Ahead, Before, Entries, Devices
<1> QED BY <1>1, <1>2

(* Every rank is taken. *)
LEMMA RanksTaken ==
  ASSUME NEW l \in Seq(Entries), NEW w, NEW r \in 1 .. Len(l)
  PROVE  \E i \in 1 .. Len(l) : 1 + Cardinality(Ahead(l, w, i)) = r
<1> DEFINE n == Len(l)
           f == [i \in 1 .. n |-> 1 + Cardinality(Ahead(l, w, i))]
<1>1. n \in Nat /\ IsFiniteSet(1 .. n) BY FS_Interval
<1>2. \A i \in 1 .. n : Cardinality(Ahead(l, w, i)) \in Nat /\ Cardinality(Ahead(l, w, i)) <= n - 1
  BY AheadIs
<1>3. f \in [1 .. n -> 1 .. n] BY <1>1, <1>2
<1>4. \A i, j \in 1 .. n : f[i] = f[j] => i = j
  <2> SUFFICES ASSUME NEW i \in 1 .. n, NEW j \in 1 .. n, f[i] = f[j], i # j PROVE FALSE
    OBVIOUS
  <2>1. Cardinality(Ahead(l, w, i)) # Cardinality(Ahead(l, w, j)) BY RanksDiffer
  <2> QED BY <1>2, <2>1
<1>5. \A i \in 1 .. n : f[i] = 1 + Cardinality(Ahead(l, w, i)) OBVIOUS
<1> HIDE DEF f
<1>6. f \in Injection(1 .. n, 1 .. n) BY <1>3, <1>4 DEF Injection, IsInjective
<1>7. f \in Surjection(1 .. n, 1 .. n) BY <1>1, <1>6, FS_Injection
<1> QED BY <1>5, <1>7 DEF Surjection

(* An entry is on the page that its rank says. *)
LEMMA PageHas ==
  ASSUME list \in Seq(Entries), NEW w, NEW i \in 1 .. Len(list),
         NEW from \in Nat, NEW to \in Nat,
         from <= Cardinality(Ahead(list, w, i)), Cardinality(Ahead(list, w, i)) < to
  PROVE  list[i] \in Slice(Sorted(list, w), from + 1, to)
<1> DEFINE n == Len(list)
           rank == [x \in 1 .. n |-> 1 + Cardinality(Ahead(list, w, x))]
           s == [k \in 1 .. n |-> list[CHOOSE x \in 1 .. n : rank[x] = k]]
           k0 == rank[i]
<1>1. n \in Nat OBVIOUS
<1>2. Sorted(list, w) = s BY DEF Sorted, Ahead
<1>3. \A x \in 1 .. n : Cardinality(Ahead(list, w, x)) \in Nat /\ Cardinality(Ahead(list, w, x)) <= n - 1
  BY AheadIs
<1>4. k0 \in 1 .. n /\ k0 = 1 + Cardinality(Ahead(list, w, i)) BY <1>1, <1>3
<1>5. \A x \in 1 .. n : rank[x] = k0 => x = i
  <2> SUFFICES ASSUME NEW x \in 1 .. n, rank[x] = k0, x # i PROVE FALSE
    OBVIOUS
  <2>1. Cardinality(Ahead(list, w, x)) # Cardinality(Ahead(list, w, i)) BY RanksDiffer
  <2> QED BY <1>3, <2>1
<1> HIDE DEF rank
<1>6. (CHOOSE x \in 1 .. n : rank[x] = k0) = i BY <1>5
<1>7. s[k0] = list[i] BY <1>4, <1>6
<1>8. Len(s) = n
  <2> DEFINE V == {s[k] : k \in 1 .. n}
  <2>1. s \in [1 .. n -> V] OBVIOUS
  <2> HIDE DEF s, V
  <2>2. s \in Seq(V) BY <1>1, <2>1, SeqDef
  <2> QED BY <1>1, <2>1, <2>2, LenProperties
<1> HIDE DEF s
<1>9. from + 1 <= k0 /\ k0 <= to BY <1>3, <1>4
<1> HIDE DEF k0
<1>10. list[i] \in Slice(s, from + 1, to) BY <1>4, <1>7, <1>8, <1>9 DEF Slice
<1> QED BY <1>2, <1>10 DEF s

(* A page holds entries of the list. *)
LEMMA PageListed ==
  ASSUME list \in Seq(Entries), NEW w, NEW from \in Nat, NEW to
  PROVE  Slice(Sorted(list, w), from + 1, to) \subseteq Listed
<1> DEFINE n == Len(list)
           rank == [x \in 1 .. n |-> 1 + Cardinality(Ahead(list, w, x))]
           s == [k \in 1 .. n |-> list[CHOOSE x \in 1 .. n : rank[x] = k]]
<1>1. n \in Nat OBVIOUS
<1>2. Sorted(list, w) = s BY DEF Sorted, Ahead
<1>3. \A k \in 1 .. n : \E x \in 1 .. n : rank[x] = k BY RanksTaken
<1> HIDE DEF rank
<1>4. \A k \in 1 .. n : s[k] \in Listed BY <1>3 DEF Listed
<1>5. s \in [1 .. n -> Listed] BY <1>4
<1> HIDE DEF s
<1>6. s \in Seq(Listed) BY <1>1, <1>5, SeqDef
<1>7. \A i \in 1 .. Len(s) : s[i] \in Listed BY <1>6
<1>8. Slice(s, from + 1, to) \subseteq Listed BY <1>7 DEF Slice
<1> QED BY <1>2, <1>8 DEF s

(* No more devices are listed than there are. *)
LEMMA ListFits == ASSUME ListInv PROVE Len(list) <= MaxDevice
<1> DEFINE n == Len(list)
           f == [i \in 1 .. n |-> list[i].device]
<1>1. n \in Nat /\ MaxDevice \in Nat BY SessionDataAssumption DEF ListInv
<1>2. f \in [1 .. n -> 1 .. MaxDevice] BY EntryIs DEF ListInv
<1>3. \A i, j \in 1 .. n : f[i] = f[j] => i = j BY DEF ListInv, Apart
<1> HIDE DEF f
<1>4. f \in Injection(1 .. n, 1 .. MaxDevice) BY <1>2, <1>3 DEF Injection, IsInjective
<1> HIDE DEF n
<1>5. IsFiniteSet(1 .. MaxDevice) /\ Cardinality(1 .. MaxDevice) = MaxDevice
      /\ Cardinality(1 .. n) = n
  <2>1. \A b \in Nat : IsFiniteSet(1 .. b) /\ Cardinality(1 .. b) = IF 1 > b THEN 0 ELSE b - 1 + 1
    BY FS_Interval
  <2>2. \A b \in Nat : (IF 1 > b THEN 0 ELSE b - 1 + 1) = b OBVIOUS
  <2> QED BY <1>1, <2>1, <2>2
<1>6. Cardinality(1 .. n) <= Cardinality(1 .. MaxDevice) BY <1>4, <1>5, FS_Injection
<1> QED BY <1>5, <1>6 DEF n

LEMMA PlaceOf ==
  ASSUME ListInv, NEW d
  PROVE  \E k \in 1 .. Len(list) + 1 : \A j \in 1 .. Len(list) : list[j].device = d <=> j = k
<1>1. Len(list) \in Nat BY DEF ListInv
<1>2. CASE \E k \in 1 .. Len(list) : list[k].device = d
  <2>1. PICK k \in 1 .. Len(list) : list[k].device = d BY <1>2
  <2>2. \A j \in 1 .. Len(list) : list[j].device = d <=> j = k BY <2>1 DEF ListInv, Apart
  <2> QED BY <1>1, <2>1, <2>2
<1>3. CASE \A k \in 1 .. Len(list) : list[k].device # d
  <2>1. Len(list) + 1 \in 1 .. Len(list) + 1 BY <1>1
  <2>2. \A j \in 1 .. Len(list) : j # Len(list) + 1 BY <1>1
  <2> QED BY <1>3, <2>1, <2>2
<1> QED BY <1>2, <1>3

(* Where an entry comes to stand when the one at k is taken out. *)
Back(k, j) == IF j < k THEN j ELSE j - 1

LEMMA OthersKeep ==
  ASSUME ListInv, NEW d, NEW k \in 1 .. Len(list) + 1,
         \A j \in 1 .. Len(list) : list[j].device = d <=> j = k,
         NEW o, o = Others(list, d)
  PROVE  /\ o \in Seq(Entries) /\ Len(o) <= Len(list)
         /\ \A n \in 1 .. Len(o) :
              /\ Step(k, n) \in 1 .. Len(list) /\ Step(k, n) # k /\ o[n] = list[Step(k, n)]
              /\ Back(k, Step(k, n)) = n
         /\ \A j \in 1 .. Len(list) : j # k =>
              Back(k, j) \in 1 .. Len(o) /\ Step(k, Back(k, j)) = j /\ o[Back(k, j)] = list[j]
<1> DEFINE n == Len(list)
           m == IF n < k THEN n ELSE n - 1
<1>1. list \in Seq(Entries) /\ n \in Nat /\ n \in 0 .. n BY DEF ListInv
<1>2. o = Without(list, k, n) BY <1>1, OthersIs
<1>3. /\ o \in Seq(Entries) /\ Len(o) = m
      /\ \A x \in 1 .. m : Step(k, x) \in 1 .. n /\ o[x] = list[Step(k, x)]
  <2>1. /\ Without(list, k, n) \in Seq(Entries) /\ Len(Without(list, k, n)) = m
        /\ \A x \in 1 .. m : Step(k, x) \in 1 .. n /\ Without(list, k, n)[x] = list[Step(k, x)]
    BY <1>1, WithoutIs
  <2> QED BY <1>2, <2>1
<1>4. m \in Nat /\ m <= n BY <1>1
<1>5. ASSUME NEW x \in 1 .. m PROVE Step(k, x) # k /\ Back(k, Step(k, x)) = x
  BY <1>4 DEF Step, Back
<1>6. ASSUME NEW j \in 1 .. n, j # k PROVE Back(k, j) \in 1 .. m /\ Step(k, Back(k, j)) = j
  BY <1>1, <1>6 DEF Step, Back
<1> HIDE DEF m
<1> QED BY <1>3, <1>4, <1>5, <1>6

Walks ==
  [on : BOOLEAN, by : {"time", "device"}, order : {"asc", "desc"}, size : 1 .. 2,
   page : Nat, stay : SUBSET Entries, got : SUBSET Entries, shifted : BOOLEAN]

(* What a login or logout does to a walk. *)
LEMMA SeenIs ==
  ASSUME WalkInv, NEW gone, NEW shifts \in BOOLEAN, Seen(gone, shifts)
  PROVE  /\ walk' \in Walks
         /\ walk'.stay = walk.stay \ gone
         /\ walk'.shifted = (walk.shifted \/ (walk.on /\ shifts))
         /\ walk'.on = walk.on /\ walk'.by = walk.by /\ walk'.order = walk.order
         /\ walk'.size = walk.size /\ walk'.page = walk.page /\ walk'.got = walk.got
<1>1. walk \in Walks BY DEF WalkInv, Walks
<1>2. walk' = [walk EXCEPT !.stay = @ \ gone, !.shifted = @ \/ (walk.on /\ shifts)] BY DEF Seen
<1>3. (walk.shifted \/ (walk.on /\ shifts)) \in BOOLEAN OBVIOUS
<1> HIDE DEF WalkInv
<1> QED BY <1>1, <1>2, <1>3 DEF Walks

LEMMA LogoutKeeps ==
  ASSUME ListInv, WalkInv, NEW d \in Devices, QueryLogout(d)
  PROVE  ListInv' /\ WalkInv'
<1> DEFINE old == {x \in Listed : x.device = d}
           o == Others(list, d)
<1>1. PICK k \in 1 .. Len(list) + 1 : \A j \in 1 .. Len(list) : list[j].device = d <=> j = k
  BY PlaceOf
<1>2. list' = o /\ clock' = clock /\ Seen(old, TRUE) BY DEF QueryLogout
<1> HIDE DEF o
<1>3. /\ o \in Seq(Entries) /\ Len(o) <= Len(list)
      /\ \A n \in 1 .. Len(o) :
           /\ Step(k, n) \in 1 .. Len(list) /\ Step(k, n) # k /\ o[n] = list[Step(k, n)]
           /\ Back(k, Step(k, n)) = n
      /\ \A j \in 1 .. Len(list) : j # k =>
           Back(k, j) \in 1 .. Len(o) /\ Step(k, Back(k, j)) = j /\ o[Back(k, j)] = list[j]
  BY <1>1, OthersKeep DEF o
<1>4. ListInv'
  <2>1. ASSUME NEW i \in 1 .. Len(o), NEW j \in 1 .. Len(o), o[i].device = o[j].device PROVE i = j
    <3>1. /\ list[Step(k, i)].device = list[Step(k, j)].device
          /\ Step(k, i) \in 1 .. Len(list) /\ Step(k, j) \in 1 .. Len(list)
      BY <1>3, <2>1
    <3>2. Step(k, i) = Step(k, j) BY <3>1 DEF ListInv, Apart
    <3> QED BY <1>3, <3>2
  <2>2. \A i \in 1 .. Len(o) : o[i].time <= clock BY <1>3 DEF ListInv
  <2> QED BY <1>2, <1>3, <2>1, <2>2 DEF ListInv, Apart
<1>5. /\ walk' \in Walks
      /\ walk'.stay = walk.stay \ old
      /\ walk'.shifted = (walk.shifted \/ walk.on)
      /\ walk'.on = walk.on /\ walk'.page = walk.page /\ walk'.got = walk.got
  BY <1>2, SeenIs
<1>6. walk'.stay \subseteq Listed'
  <2>1. ASSUME NEW x \in walk'.stay PROVE x \in Listed'
    <3>1. x \in Listed /\ x.device # d BY <1>5 DEF WalkInv
    <3>2. PICK j \in 1 .. Len(list) : x = list[j] BY <3>1 DEF Listed
    <3>3. j # k BY <1>1, <3>1, <3>2
    <3>4. Back(k, j) \in 1 .. Len(o) /\ o[Back(k, j)] = x BY <1>3, <3>2, <3>3
    <3> QED BY <1>2, <3>4 DEF Listed
  <2> QED BY <2>1
<1>7. NobodySkipped' BY <1>5 DEF NobodySkipped, WalkInv
<1> QED BY <1>4, <1>5, <1>6, <1>7 DEF WalkInv, Walks

(* A login puts nobody on an earlier page unless it says so: what stood     *)
(* ahead of an entry does so still, the device's new entry for its old one. *)
LEMMA LoginKeeps ==
  ASSUME ListInv, WalkInv, NEW d \in Devices, QueryLogin(d)
  PROVE  ListInv' /\ WalkInv'
<1> DEFINE old == {x \in Listed : x.device = d}
           o == Others(list, d)
           new == [device |-> d, time |-> clock]
           m == Len(o)
           shifts == \E x \in old : walk.by = "time" /\ (walk.order = "asc" \/ x.time = clock)
<1>1. PICK k \in 1 .. Len(list) + 1 : \A j \in 1 .. Len(list) : list[j].device = d <=> j = k
  BY PlaceOf
<1>2. list' = Append(o, new) /\ clock' = clock /\ Seen(old, shifts) BY DEF QueryLogin
<1>3. /\ o \in Seq(Entries) /\ Len(o) <= Len(list)
      /\ \A n \in 1 .. Len(o) :
           /\ Step(k, n) \in 1 .. Len(list) /\ Step(k, n) # k /\ o[n] = list[Step(k, n)]
           /\ Back(k, Step(k, n)) = n
      /\ \A j \in 1 .. Len(list) : j # k =>
           Back(k, j) \in 1 .. Len(o) /\ Step(k, Back(k, j)) = j /\ o[Back(k, j)] = list[j]
  BY <1>1, OthersKeep
<1> HIDE DEF o
<1>4. new \in Entries /\ clock \in Nat /\ m \in Nat BY <1>3 DEF ListInv, Entries
<1>5. /\ list' \in Seq(Entries) /\ Len(list') = m + 1 /\ list'[m + 1] = new
      /\ \A n \in 1 .. m : list'[n] = o[n]
  BY <1>2, <1>3, <1>4, AppendProperties
<1>6. \A n \in 1 .. m : list'[n] = list[Step(k, n)] /\ list'[n].device # d
  BY <1>1, <1>3, <1>5
<1>7. ListInv'
  <2>1. ASSUME NEW i \in 1 .. m + 1, NEW j \in 1 .. m + 1, list'[i].device = list'[j].device
        PROVE  i = j
    <3>1. i = m + 1 <=> j = m + 1 BY <1>4, <1>5, <1>6, <2>1
    <3>2. CASE i # m + 1
      <4>1. i \in 1 .. m /\ j \in 1 .. m BY <1>4, <3>1, <3>2
      <4>2. /\ list[Step(k, i)].device = list[Step(k, j)].device
            /\ Step(k, i) \in 1 .. Len(list) /\ Step(k, j) \in 1 .. Len(list)
        BY <1>3, <1>6, <2>1, <4>1
      <4>3. Step(k, i) = Step(k, j) BY <4>2 DEF ListInv, Apart
      <4> QED BY <1>3, <4>1, <4>3
    <3> QED BY <3>1, <3>2
  <2>2. ASSUME NEW i \in 1 .. m + 1 PROVE list'[i].time <= clock
    <3>1. CASE i = m + 1 BY <1>4, <1>5, <3>1
    <3>2. CASE i # m + 1
      <4>1. i \in 1 .. m BY <1>4, <3>2
      <4> QED BY <1>3, <1>6, <4>1 DEF ListInv
    <3> QED BY <3>1, <3>2
  <2> QED BY <1>2, <1>4, <1>5, <2>1, <2>2 DEF ListInv, Apart
<1>8. shifts \in BOOLEAN OBVIOUS
<1> HIDE DEF shifts
<1>9. /\ walk' \in Walks
      /\ walk'.stay = walk.stay \ old
      /\ walk'.shifted = (walk.shifted \/ (walk.on /\ shifts))
      /\ walk'.on = walk.on /\ walk'.by = walk.by /\ walk'.order = walk.order
      /\ walk'.size = walk.size /\ walk'.page = walk.page /\ walk'.got = walk.got
  BY <1>2, <1>8, SeenIs
<1>10. walk'.stay \subseteq Listed'
  <2>1. ASSUME NEW x \in walk'.stay PROVE x \in Listed'
    <3>1. x \in Listed /\ x.device # d BY <1>9 DEF WalkInv
    <3>2. PICK j \in 1 .. Len(list) : x = list[j] BY <3>1 DEF Listed
    <3>3. j # k BY <1>1, <3>1, <3>2
    <3>4. Back(k, j) \in 1 .. m /\ o[Back(k, j)] = x BY <1>3, <3>2, <3>3
    <3>5. Back(k, j) \in 1 .. Len(list') /\ list'[Back(k, j)] = x BY <1>4, <1>5, <3>4
    <3> QED BY <3>5 DEF Listed
  <2> QED BY <2>1
<1>11. NobodySkipped'
  BY <1>9 DEF NobodySkipped, WalkInv
<1>12. ASSUME walk'.on, ~walk'.shifted, NEW i \in 1 .. Len(list'), list'[i] \in walk'.stay
       PROVE  list'[i] \in walk'.got \/ walk'.page * walk'.size <= Cardinality(Ahead(list', walk', i))
  <2>1. i \in 1 .. m
    <3>1. list'[i].device # d BY <1>9, <1>12, <1>10, <1>5 DEF WalkInv, Listed
    <3> QED BY <1>4, <1>5, <3>1
  <2> DEFINE p == Step(k, i)
             A == Ahead(list, walk, p)
             B == Ahead(list', walk', i)
             f == [j \in A |-> IF j = k THEN m + 1 ELSE Back(k, j)]
  <2>2. p \in 1 .. Len(list) /\ p # k /\ list'[i] = list[p] /\ Back(k, p) = i /\ list[p] \in walk.stay
    BY <1>3, <1>6, <1>9, <1>12, <2>1
  <2>3. list[p] \in walk.got \/ walk.page * walk.size <= Cardinality(A)
    BY <1>9, <1>12, <2>2 DEF WalkInv
  <2> HIDE DEF p
  <2>4. ASSUME NEW j \in A, j # k
        PROVE  Back(k, j) \in B /\ Back(k, j) \in 1 .. m /\ Step(k, Back(k, j)) = j
    <3>1. j \in 1 .. Len(list) BY DEF Ahead
    <3>2. Back(k, j) \in 1 .. m /\ Step(k, Back(k, j)) = j /\ list'[Back(k, j)] = list[j]
      BY <1>3, <1>5, <2>4, <3>1
    <3>3. j < p => Back(k, j) < i BY <1>3, <2>2, <2>4, <3>1 DEF Back
    <3> QED BY <1>4, <1>5, <1>9, <2>2, <3>1, <3>2, <3>3 DEF Ahead, Before
  <2>5. ASSUME k \in A PROVE m + 1 \in B
    <3>1. k \in 1 .. Len(list) /\ list[k] \in old BY <1>1, <2>5 DEF Ahead, Listed
    <3>2. walk.by = "time" => walk.order = "desc" /\ list[k].time # clock
      <4>1. ~shifts BY <1>9, <1>12
      <4>2. walk.order \in {"asc", "desc"} BY DEF WalkInv
      <4> QED BY <3>1, <4>1, <4>2 DEF shifts
    <3>3. /\ list[k].device = d /\ list[k].time <= clock /\ list[k].time \in Nat
          /\ list[p].device # d /\ list[p].device \in Nat /\ list[p].time \in Nat
          /\ d \in Nat
      BY <1>1, <2>2, <3>1, EntryIs DEF ListInv, Devices
    <3>4. Before(new, list[p], walk)
      <4>1. CASE walk.by = "time" BY <1>4, <2>5, <3>2, <3>3, <4>1 DEF Ahead, Before
      <4>2. CASE walk.by # "time" BY <1>4, <2>5, <3>3, <4>2 DEF Ahead, Before, WalkInv
      <4> QED BY <4>1, <4>2
    <3> QED BY <1>4, <1>5, <1>9, <2>2, <3>4 DEF Ahead, Before
  <2>6. f \in [A -> B] BY <2>4, <2>5
  <2>7. \A x, y \in A : f[x] = f[y] => x = y BY <1>4, <2>4
  <2> HIDE DEF f, A, B
  <2>8. f \in Injection(A, B) BY <2>6, <2>7 DEF Injection, IsInjective
  <2>9. IsFiniteSet(B) /\ Cardinality(B) \in Nat BY <1>7, <1>12, AheadIs DEF B, ListInv
  <2>10. Cardinality(A) \in Nat BY <2>2, AheadIs DEF A, ListInv
  <2>11. Cardinality(A) <= Cardinality(B) BY <2>8, <2>9, FS_Injection
  <2> DEFINE q == walk.page * walk.size
  <2>12. q \in Nat BY DEF WalkInv
  <2>13. list[p] \in walk.got \/ q <= Cardinality(A) BY <2>3
  <2> HIDE DEF q
  <2>14. list[p] \in walk.got \/ q <= Cardinality(B) BY <2>9, <2>10, <2>11, <2>12, <2>13
  <2> QED BY <1>9, <2>2, <2>14 DEF B, q
<1> QED BY <1>7, <1>9, <1>10, <1>11, <1>12 DEF WalkInv, Walks

LEMMA StartKeeps ==
  ASSUME ListInv, WalkInv, NEW by \in {"time", "device"}, NEW order \in {"asc", "desc"},
         NEW size \in 1 .. 2, StartWalk(by, order, size)
  PROVE  ListInv' /\ WalkInv'
<1>1. UNCHANGED <<list, clock>> BY DEF StartWalk
<1>2. ListInv' BY <1>1 DEF ListInv, Apart
<1>3. /\ walk'.on /\ walk'.by = by /\ walk'.order = order /\ walk'.size = size /\ walk'.page = 0
      /\ walk'.stay = Listed /\ walk'.got = {} /\ ~walk'.shifted /\ walk' \in Walks
  <2>1. Listed \subseteq Entries BY DEF Listed, ListInv
  <2> QED BY <2>1 DEF StartWalk, NoWalk, Walks
<1>4. \A i \in 1 .. Len(list') : walk'.page * walk'.size <= Cardinality(Ahead(list', walk', i))
  <2>1. \A i \in 1 .. Len(list') : Cardinality(Ahead(list', walk', i)) \in Nat
    BY <1>2, AheadIs DEF ListInv
  <2>2. walk'.page * walk'.size = 0 BY <1>3
  <2> QED BY <2>1, <2>2
<1>5. walk'.page <= MaxDevice /\ walk'.page < MaxDevice BY <1>3, SessionDataAssumption
<1>6. walk'.stay \subseteq Listed' BY <1>1, <1>3 DEF Listed
<1>7. NobodySkipped' BY <1>3 DEF NobodySkipped
<1> QED BY <1>2, <1>3, <1>4, <1>5, <1>6, <1>7 DEF WalkInv, Walks

(* The next page has every entry whose rank is on it; what is left comes    *)
(* later, and nothing is left past the end of the list.                     *)
LEMMA ReadKeeps ==
  ASSUME ListInv, WalkInv, ReadPage
  PROVE  ListInv' /\ WalkInv'
<1> DEFINE a == walk.page * walk.size
           b == (walk.page + 1) * walk.size
           n == Len(list)
           c == [i \in 1 .. n |-> Cardinality(Ahead(list, walk, i))]
<1>1. UNCHANGED <<list, clock>> BY DEF ReadPage
<1>2. ListInv' BY <1>1 DEF ListInv, Apart
<1>3. a \in Nat /\ b \in Nat /\ b = a + walk.size /\ walk.page + 1 <= b
  <2>1. walk.page \in Nat /\ (walk.size = 1 \/ walk.size = 2) BY DEF WalkInv
  <2> QED BY <2>1
<1>4. \A i \in 1 .. n : Cardinality(Ahead(list, walk, i)) \in Nat /\ Cardinality(Ahead(list, walk, i)) <= n - 1
  BY AheadIs DEF ListInv
<1>5. n \in Nat /\ n <= MaxDevice /\ list \in Seq(Entries) /\ Listed \subseteq Entries
  BY ListFits DEF ListInv, Listed
<1>6. PageItems(walk) = Slice(Sorted(list, walk), a + 1, b) BY DEF PageItems
<1> HIDE DEF a, b
<1>7. PageItems(walk) \subseteq Listed BY <1>3, <1>5, <1>6, PageListed
<1>8. ASSUME NEW i \in 1 .. n, a <= Cardinality(Ahead(list, walk, i)), Cardinality(Ahead(list, walk, i)) < b
      PROVE  list[i] \in PageItems(walk)
  BY <1>3, <1>5, <1>6, <1>8, PageHas
<1>9. /\ walk'.on <=> b < n
      /\ walk'.got = walk.got \cup PageItems(walk) /\ walk'.page = walk.page + 1
      /\ walk'.stay = walk.stay /\ walk'.shifted = walk.shifted /\ walk'.by = walk.by
      /\ walk'.order = walk.order /\ walk'.size = walk.size /\ walk.on
      /\ walk' \in Walks
  <2>1. walk \in Walks BY DEF WalkInv, Walks
  <2>2. walk' = [walk EXCEPT !.got = @ \cup PageItems(walk), !.page = @ + 1, !.on = b < n] /\ walk.on
    BY DEF ReadPage, b
  <2>3. PageItems(walk) \subseteq Entries BY <1>5, <1>7
  <2> DEFINE q == b < n
  <2>4. q \in BOOLEAN /\ walk' = [walk EXCEPT !.got = @ \cup PageItems(walk), !.page = @ + 1, !.on = q]
    BY <2>2
  <2> HIDE DEF q
  <2>5. /\ walk'.on = q /\ walk'.got = walk.got \cup PageItems(walk) /\ walk'.page = walk.page + 1
        /\ walk'.stay = walk.stay /\ walk'.shifted = walk.shifted /\ walk'.by = walk.by
        /\ walk'.order = walk.order /\ walk'.size = walk.size /\ walk' \in Walks
    <3> DEFINE g == walk.got \cup PageItems(walk)
               x == walk.page + 1
    <3>1. g \in SUBSET Entries /\ x \in Nat BY <2>1, <2>3 DEF Walks
    <3>2. walk' = [walk EXCEPT !.got = g, !.page = x, !.on = q] BY <2>4
    <3> HIDE DEF g, x
    <3>3. /\ walk'.on = q /\ walk'.got = g /\ walk'.page = x
          /\ walk'.stay = walk.stay /\ walk'.shifted = walk.shifted /\ walk'.by = walk.by
          /\ walk'.order = walk.order /\ walk'.size = walk.size
      BY <2>1, <3>2 DEF Walks
    <3>4. walk' \in Walks BY <2>1, <2>4, <3>1, <3>2 DEF Walks
    <3> QED BY <3>3, <3>4 DEF g, x
  <2> QED BY <2>2, <2>5 DEF q
<1>10. walk'.page <= MaxDevice /\ (walk'.on => walk'.page < MaxDevice)
  <2>1. walk.page < MaxDevice /\ walk.page \in Nat /\ MaxDevice \in Nat
    BY <1>9, SessionDataAssumption DEF WalkInv
  <2> QED BY <1>3, <1>5, <1>9, <2>1
<1>11. walk'.page * walk'.size = b BY <1>9 DEF b
<1>12. \A i \in 1 .. n : Ahead(list', walk', i) = Ahead(list, walk, i) BY <1>1, <1>9 DEF Ahead, Before
<1>13. ASSUME ~walk.shifted, NEW i \in 1 .. n, list[i] \in walk.stay
       PROVE  list[i] \in walk'.got \/ b <= Cardinality(Ahead(list, walk, i))
  <2>1. list[i] \in walk.got \/ a <= Cardinality(Ahead(list, walk, i)) BY <1>9, <1>13 DEF WalkInv, a
  <2> QED BY <1>3, <1>4, <1>8, <1>9, <2>1
<1>14. NobodySkipped'
  <2> SUFFICES ASSUME ~walk'.on, ~walk'.shifted, NEW x \in walk'.stay PROVE x \in walk'.got
    BY DEF NobodySkipped
  <2>1. PICK i \in 1 .. n : x = list[i] BY <1>9 DEF WalkInv, Listed
  <2>2. ~(b < n) BY <1>9
  <2> QED BY <1>3, <1>4, <1>5, <1>9, <1>13, <2>1, <2>2
<1>15. walk'.stay \subseteq Listed' BY <1>1, <1>9 DEF WalkInv, Listed
<1>16. walk'.on /\ ~walk'.shifted =>
        \A i \in 1 .. Len(list') :
          list'[i] \in walk'.stay =>
            list'[i] \in walk'.got \/ walk'.page * walk'.size <= Cardinality(Ahead(list', walk', i))
  BY <1>1, <1>9, <1>11, <1>12, <1>13
<1> QED BY <1>2, <1>9, <1>10, <1>14, <1>15, <1>16 DEF WalkInv, Walks

LEMMA NextQueryInv == ASSUME ListInv, WalkInv, [Next]_vars PROVE ListInv' /\ WalkInv'
<1>1. CASE UNCHANGED queryVars
  BY <1>1 DEF queryVars, ListInv, WalkInv, Apart, Ahead, Listed, NobodySkipped
<1>2. CASE QueryTick
  <2>1. clock' = clock + 1 /\ UNCHANGED <<list, walk>> BY <1>2 DEF QueryTick
  <2>2. ListInv' BY <2>1, EntryIs DEF ListInv, Apart
  <2>3. WalkInv' BY <2>1 DEF WalkInv, Ahead, Listed, NobodySkipped
  <2> QED BY <2>2, <2>3
<1>3. QueryNext => ListInv' /\ WalkInv' BY <1>2, LogoutKeeps, LoginKeeps, StartKeeps, ReadKeeps DEF QueryNext
<1>4. SessionNext => UNCHANGED queryVars
  BY DEF SessionNext, SessionPart, SessionStep, DataGone, StartGet, Load, StartMutate,
         MutateRead, MutateWrite, StartClear, Clear
<1>5. OfflineNext \/ TempNext => UNCHANGED queryVars
  BY DEF OfflineNext, OfflinePart, EndRecorded, EndByDevice, EndByToken,
         ReplacedToken, RecordArrives, RecordRejected,
         TempNext, TempPart, TempDue, TempExpires, DeleteTempToken, CreateTempToken, ConsumeTempToken
<1> QED BY <1>1, <1>3, <1>4, <1>5 DEF Next, vars

-----------------------------------------------------------------------------
(* What is left of the shapes: the bound on the changes, and that a record, *)
(* on its way or there, has a reason for which its token was ended.         *)
SmallInv ==
  /\ writes \in 0 .. MaxWrites
  /\ ended \subseteq [key: RecordKeys, reason: Reasons] /\ pending \subseteq ended
  /\ record \in [RecordKeys -> Reasons \cup {Null}]
  /\ \A k \in RecordKeys : record[k] # Null => Record(k, record[k]) \in ended

LEMMA NextSmallInv == ASSUME SmallInv, [Next]_vars PROVE SmallInv'
<1> USE SessionDataAssumption
<1>1. writes' \in 0 .. MaxWrites
  <2>1. writes' = writes \/ Change
    BY DEF Next, vars, SessionNext, SessionPart, SessionStep, DataGone, StartGet, Load, StartMutate,
         MutateRead, MutateWrite, Wrote, StartClear, Clear, TempNext, TempPart, TempDue, TempExpires,
         DeleteTempToken, CreateTempToken, ConsumeTempToken, OfflineNext, OfflinePart, EndRecorded,
         EndByDevice, EndByToken, ReplacedToken, RecordArrives, RecordRejected, QueryNext, QueryPart, QueryTick, ReadPage,
         QueryLogin, QueryLogout, StartWalk
  <2> QED BY <2>1 DEF SmallInv, Change
<1>2. CASE UNCHANGED offlineVars BY <1>1, <1>2 DEF offlineVars, SmallInv
<1>3. CASE OfflineNext
  <2>1. ASSUME NEW k \in RecordKeys, NEW why \in Reasons, EndRecorded(k, why) PROVE SmallInv'
    <3>1. Record(k, why) \in [key: RecordKeys, reason: Reasons] BY DEF Record
    <3> QED BY <1>1, <2>1, <3>1 DEF EndRecorded, SmallInv
  <2>2. ASSUME NEW t \in LoginTokens,
               ReplacedToken(t) \/ \E why \in Reasons : EndByDevice(t, why) \/ EndByToken(t, why)
        PROVE  SmallInv'
    <3>1. \A u \in LoginTokens : FullToken(u) \in RecordKeys /\ SessionValue(u) \in RecordKeys
      BY DEF FullToken, SessionValue, RecordKeys
    <3>2. "BE_REPLACED" \in Reasons BY DEF Reasons
    <3> QED BY <2>1, <2>2, <3>1, <3>2 DEF ReplacedToken, EndByDevice, EndByToken
  <2>3. ASSUME NEW r \in pending, RecordArrives(r) PROVE SmallInv'
    <3>1. r \in ended /\ r.key \in RecordKeys /\ r.reason \in Reasons /\ r = Record(r.key, r.reason)
      BY DEF SmallInv, Record
    <3>2. /\ ended' = ended /\ pending' = pending \ {r}
          /\ record' = [record EXCEPT ![r.key] = r.reason]
      BY <2>3 DEF RecordArrives
    <3>3. record' \in [RecordKeys -> Reasons \cup {Null}] BY <3>1, <3>2 DEF SmallInv
    <3>4. ASSUME NEW k \in RecordKeys, record'[k] # Null PROVE Record(k, record'[k]) \in ended
      <4>1. CASE k = r.key BY <3>1, <3>2, <4>1 DEF SmallInv
      <4>2. CASE k # r.key BY <3>2, <3>4, <4>2 DEF SmallInv
      <4> QED BY <4>1, <4>2
    <3>5. ended' \subseteq [key: RecordKeys, reason: Reasons] /\ pending' \subseteq ended'
      BY <3>2 DEF SmallInv
    <3>6. \A k \in RecordKeys : record'[k] # Null => Record(k, record'[k]) \in ended'
      BY <3>2, <3>4
    <3> QED BY <1>1, <3>3, <3>5, <3>6 DEF SmallInv, Record
  <2>4. ASSUME NEW r \in pending, RecordRejected(r) PROVE SmallInv'
    BY <1>1, <2>4 DEF RecordRejected, SmallInv
  <2> QED BY <1>3, <2>2, <2>3, <2>4 DEF OfflineNext
<1>4. SessionNext \/ TempNext \/ QueryNext => UNCHANGED offlineVars
  BY DEF SessionNext, SessionPart, SessionStep, DataGone, StartGet, Load, StartMutate,
         MutateRead, MutateWrite, StartClear, Clear, TempNext, TempPart, TempDue, TempExpires,
         DeleteTempToken, CreateTempToken, ConsumeTempToken, QueryNext, QueryPart, QueryTick, ReadPage,
         QueryLogin, QueryLogout, StartWalk
<1> QED BY <1>2, <1>3, <1>4 DEF Next, vars

(* Whoever reads the session list page by page, in any of its orders, finds *)
(* every session that is there all along, for any number of devices and any *)
(* logins meanwhile, and logouts as long as the model knows of none that    *)
(* moved a session up; and the parts keep their shapes.                     *)
THEOREM PagesSkipNobody == Spec => []SessionDataInv
<1>1. Init => ListInv /\ WalkInv /\ SmallInv
  <2> SUFFICES ASSUME Init PROVE ListInv /\ WalkInv /\ SmallInv
    OBVIOUS
  <2>1. list \in Seq(Entries) /\ Len(list) = 0 /\ list = <<>> BY DEF Init
  <2>2. ListInv BY <2>1 DEF Init, ListInv, Apart
  <2>3. walk \in Walks /\ ~walk.on /\ walk.page = 0 /\ walk.stay = {} BY DEF Init, NoWalk, Walks
  <2>4. WalkInv BY <2>3, SessionDataAssumption DEF WalkInv, Walks, NobodySkipped
  <2>5. SmallInv BY SessionDataAssumption DEF Init, SmallInv, Reasons
  <2> QED BY <2>2, <2>4, <2>5
<1>2. SessionInv /\ TempInv /\ ListInv /\ WalkInv /\ SmallInv => SessionDataInv
  <2> SUFFICES ASSUME SessionInv, TempInv, ListInv, WalkInv, SmallInv PROVE SessionDataInv
    OBVIOUS
  <2>1. \A i \in 1 .. Len(hist) : hist[i] \in Stored BY DEF SessionInv
  <2>2. \A o \in Objects : call[o].pc \in {"idle", "load", "read", "write", "clear"}
    BY DEF SessionInv, CallRecord
  <2>3. \A t \in Tokens : temp[t].at \in {"none", "live", "due", "gone"} BY DEF TempInv
  <2>4. walk.page \in 0 .. MaxDevice BY SessionDataAssumption DEF WalkInv
  <2>5. TypeOK
    BY <2>1, <2>2, <2>3, <2>4 DEF TypeOK, SessionInv, Stored, SmallInv, ListInv, Apart
  <2> QED BY <2>5 DEF SessionDataInv, WalkInv
<1>3. SessionInv /\ TempInv /\ ListInv /\ WalkInv /\ SmallInv /\ [Next]_vars
      => SessionInv' /\ TempInv' /\ ListInv' /\ WalkInv' /\ SmallInv'
  BY NextSessionInv, NextTempInv, NextQueryInv, NextSmallInv
<1> QED BY <1>1, <1>2, <1>3, InitSessionInv, InitTempInv, PTL DEF Spec
=============================================================================
