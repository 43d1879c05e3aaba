-------------------------- MODULE SessionTtl_proofs --------------------------
(***************************************************************************)
(* Theorems about SessionTtl for every set of devices, tokens, requests    *)
(* and timeouts, in every login mode, with or without activeTimeout.       *)
(***************************************************************************)
EXTENDS SessionTtl, TLAPS

(* The tokens the keys of a device name. *)
Named(d) == {Listed[d], Get(session[d])} \ {Null}

(* No token is named by two devices, and none that login did not create. *)
OwnTokens ==
  \A d \in Devices :
    Named(d) \subseteq made /\ \A e \in Devices : e # d => Named(d) \cap Named(e) = {}

(* No time of use lies ahead, and none that is stored or about to be stored *)
(* lies after the last use there was.                                       *)
TimesOfUse ==
  /\ \A t \in Tokens :
       /\ used[t] <= now
       /\ Has(active[t]) => active[t].value <= used[t]
  /\ \A r \in Reqs :
       /\ check[r].pc # "idle" => check[r].token \in Tokens
       /\ check[r].pc \in {"readKeep", "casKeep"} =>
            check[r].at \in 0..MaxTime /\ check[r].at <= used[check[r].token]

IInv == TtlInv /\ OwnTokens /\ TimesOfUse

-----------------------------------------------------------------------------
(* The values the store holds. *)
Stored == {Valid} \cup Markers \cup Tokens \cup Nat \cup Index

(* No entry is Null, whatever its value is changed to. *)
LEMMA Entries ==
  ASSUME NEW S \in SUBSET Stored, NEW e \in [value: S, end: Nat]
  PROVE  /\ Has(e) /\ Get(e) = e.value /\ e \in Entry(S)
         /\ \A v \in Stored : LET f == [e EXCEPT !.value = v] IN
              Has(f) /\ f.value = v /\ f.end = e.end /\ f \in [value: {v}, end: Nat]
         /\ \A n \in Nat : LET f == [e EXCEPT !.end = n] IN
              Has(f) /\ f.value = e.value /\ f.end = n /\ f \in [value: S, end: Nat]
<1>1. Null \notin [value: Stored, end: Nat]
  BY TtlAssumption DEF Stored, Index
<1> QED BY <1>1 DEF Has, Get, Entry

LEMMA Puts ==
  ASSUME NEW v \in Stored, NEW ttl \in Nat, now \in Nat
  PROVE  /\ Has(Put(v, ttl)) /\ Put(v, ttl).value = v /\ Put(v, ttl).end = now + ttl
         /\ \A S : v \in S => Put(v, ttl) \in [value: S, end: Nat]
<1>1. Null \notin [value: Stored, end: Nat]
  BY TtlAssumption DEF Stored, Index
<1> QED BY <1>1 DEF Has, Put

(* What TypeOK says of the entries there are. *)
LEMMA Present ==
  ASSUME TypeOK
  PROVE  /\ \A t \in Tokens : Has(tokenKey[t]) => tokenKey[t] \in [value: {Valid} \cup Markers, end: Nat]
         /\ \A d \in Devices : Has(session[d]) => session[d] \in [value: Tokens, end: Nat]
         /\ \A d \in Devices : Get(session[d]) # Null <=> Has(session[d])
         /\ Has(list) => list \in [value: Index, end: Nat]
         /\ \A t \in Tokens : Has(active[t]) => active[t] \in [value: 0..MaxTime, end: Nat]
         /\ \A t \in Tokens : Live(t) => Has(tokenKey[t])
         /\ Listed \in Index
         /\ now \in Nat
  BY TtlAssumption DEF TypeOK, Entry, Has, Get, Live, Listed, Index, Empty

LEMMA StoredKinds ==
  /\ {Valid} \cup Markers \in SUBSET Stored /\ Tokens \in SUBSET Stored
  /\ Index \in SUBSET Stored /\ 0..MaxTime \in SUBSET Stored /\ Nat \in SUBSET Stored
  /\ Timeouts \in SUBSET Nat
  BY TtlAssumption DEF Stored

LEMMA InitIInv == Init => IInv
<1> SUFFICES ASSUME Init PROVE IInv
  OBVIOUS
<1>1. TypeOK
  BY TtlAssumption DEF Init, TypeOK, Entry, Idling
<1>2. Listed = Empty /\ \A d \in Devices : Get(session[d]) = Null
  BY DEF Init, Listed, Has, Get
<1>3. ListedKeysExpireTogether
  BY <1>2 DEF ListedKeysExpireTogether, Empty
<1>4. OwnTokens
  BY <1>2 DEF OwnTokens, Named, Empty
<1>5. TimesOfUse
  BY DEF Init, TimesOfUse, Idling, Has
<1> QED BY <1>1, <1>3, <1>4, <1>5 DEF IInv, TtlInv

-----------------------------------------------------------------------------
(* What a login writes on leaves the other devices what they have, or takes *)
(* it away.                                                                 *)
Carried(d, keyed, sessions, listed) ==
  /\ keyed \in [Tokens -> Entry({Valid} \cup Markers)]
  /\ sessions \in [Devices -> Entry(Tokens)]
  /\ listed \in Index
  /\ \A e \in Devices : listed[e] \in {Listed[e], Null} /\ sessions[e] \in {session[e], Null}
  /\ \A e \in Devices : e # d /\ listed[e] # Null =>
       sessions[e] = session[e] /\ keyed[listed[e]] = tokenKey[listed[e]]

LEMMA WriteHolds ==
  ASSUME IInv,
         NEW t \in Tokens, NEW d \in Devices, NEW ttl \in Timeouts,
         t \notin made \/ t \in Named(d),
         NEW keyed, NEW sessions, NEW listed, Carried(d, keyed, sessions, listed),
         Write(t, d, ttl, keyed, sessions, listed)
  PROVE  IInv'
<1> USE DEF IInv, TtlInv, Carried
<1>0. TypeOK /\ now \in Nat /\ ttl \in Nat /\ Valid \in Stored /\ t \in Stored /\ t # Null
  BY Present, StoredKinds, TtlAssumption DEF Stored
<1>1. /\ tokenKey' = [keyed EXCEPT ![t] = Put(Valid, ttl)]
      /\ session' = [sessions EXCEPT ![d] = Put(t, ttl)]
      /\ list' = Put([listed EXCEPT ![d] = t], ttl)
      /\ active' = IF ActiveTimeout > 0 THEN [active EXCEPT ![t] = Put(now, ttl)] ELSE active
      /\ made' = made \cup {t} /\ used' = [used EXCEPT ![t] = now]
      /\ UNCHANGED <<mode, now, check>>
  BY DEF Write
<1>2. /\ Put(Valid, ttl) \in [value: {Valid} \cup Markers, end: Nat] /\ Has(Put(Valid, ttl))
      /\ Put(t, ttl) \in [value: Tokens, end: Nat] /\ Has(Put(t, ttl))
      /\ Put(now, ttl) \in [value: 0..MaxTime, end: Nat] /\ Has(Put(now, ttl))
      /\ Put(Valid, ttl).value = Valid /\ Put(Valid, ttl).end = now + ttl
      /\ Put(t, ttl).value = t /\ Put(t, ttl).end = now + ttl
      /\ Put(now, ttl).value = now /\ Put(now, ttl).end = now + ttl
  <2>1. now \in 0..MaxTime /\ now \in Stored
    BY <1>0 DEF TypeOK, Stored
  <2> QED BY <1>0, <2>1, Puts
<1>3. [listed EXCEPT ![d] = t] \in Index
  BY DEF Index
<1>4. /\ list' \in [value: Index, end: Nat] /\ Has(list)'
      /\ list'.value = [listed EXCEPT ![d] = t]
  <2>1. [listed EXCEPT ![d] = t] \in Stored
    BY <1>3, StoredKinds
  <2>2. [listed EXCEPT ![d] = t] \in Index
    BY <1>3
  <2> HIDE DEF Index
  <2> QED BY <1>0, <1>1, <2>1, <2>2, Puts DEF Has
<1>5. Listed' = [listed EXCEPT ![d] = t]
  BY <1>4 DEF Listed
<1>6. TypeOK'
  <2>1. (tokenKey \in [Tokens -> Entry({Valid} \cup Markers)])'
    BY <1>1, <1>2 DEF Entry
  <2>2. (session \in [Devices -> Entry(Tokens)])'
    BY <1>1, <1>2 DEF Entry
  <2>3. (list \in Entry(Index))'
    BY <1>4 DEF Entry
  <2>4. (active \in [Tokens -> Entry(0..MaxTime)])'
    BY <1>0, <1>1, <1>2 DEF Entry, TypeOK
  <2>5. made' \subseteq Tokens /\ used' \in [Tokens -> 0..MaxTime]
    BY <1>0, <1>1 DEF TypeOK
  <2> QED BY <1>0, <1>1, <2>1, <2>2, <2>3, <2>4, <2>5 DEF TypeOK
<1>7. Get(session[d])' = t /\ Live(t)'
      /\ (tokenKey[t].end)' = (session[d].end)' /\ (Has(session[d]))'
      /\ (ActiveTimeout > 0 => Has(active[t])' /\ (active[t].end)' = (session[d].end)')
  BY <1>0, <1>1, <1>2 DEF Get, Live, Has, TypeOK
<1>8. ASSUME NEW e \in Devices, e # d
      PROVE  /\ Listed'[e] \in {Listed[e], Null} /\ session'[e] \in {session[e], Null}
             /\ Named(e)' \subseteq Named(e) /\ t \notin Named(e)
  <2>1. Listed'[e] = listed[e] /\ session'[e] = sessions[e]
    BY <1>1, <1>5, <1>8 DEF Index
  <2>2. Get(session[e])' \in {Get(session[e]), Null}
    BY <2>1 DEF Get, Has
  <2>3. t \notin Named(e)
    BY <1>8 DEF OwnTokens
  <2> QED BY <2>1, <2>2, <2>3 DEF Named
<1>9. Named(d)' = {t}
  <2>1. Listed'[d] = t
    BY <1>5 DEF Index
  <2> QED BY <1>0, <1>7, <2>1 DEF Named
<1>10. ListedKeysExpireTogether'
  <2> SUFFICES ASSUME NEW e \in Devices, NEW u, u = Listed'[e], u # Null,
                      Has(session[e])' \/ Has(tokenKey'[u])
               PROVE  /\ Get(session[e])' = u
                      /\ Get(tokenKey'[u]) = Valid /\ tokenKey'[u].end = (session[e].end)'
                      /\ ActiveTimeout > 0 => Has(active'[u]) /\ active'[u].end = (session[e].end)'
    BY DEF ListedKeysExpireTogether, Live, Has
  <2>1. CASE e = d
    <3>1. u = t
      BY <1>5, <2>1 DEF Index
    <3> QED BY <1>7, <2>1, <3>1 DEF Live
  <2>2. CASE e # d
    <3>1. listed[e] = u /\ Listed[e] = u /\ u \in Tokens
      BY <1>5, <2>2, <1>8 DEF Index
    <3>2. u # t
      BY <1>8, <2>2, <3>1 DEF Named
    <3>3. /\ session'[e] = session[e] /\ tokenKey'[u] = tokenKey[u]
          /\ active'[u] = active[u]
      BY <1>0, <1>1, <2>2, <3>1, <3>2 DEF TypeOK
    <3> QED BY <3>1, <3>3 DEF ListedKeysExpireTogether, Live, Has, Get
  <2> QED BY <2>1, <2>2
<1>11. OwnTokens'
  <2> SUFFICES ASSUME NEW e \in Devices
               PROVE  /\ Named(e)' \subseteq made'
                      /\ \A f \in Devices : f # e => Named(e)' \cap Named(f)' = {}
    BY DEF OwnTokens
  <2>1. Named(e)' \subseteq made'
    BY <1>1, <1>8, <1>9 DEF OwnTokens
  <2>2. ASSUME NEW f \in Devices, f # e
        PROVE  Named(e)' \cap Named(f)' = {}
    BY <1>8, <1>9, <2>2 DEF OwnTokens
  <2> QED BY <2>1, <2>2
<1>12. TimesOfUse'
  <2>1. \A u \in Tokens : used'[u] = IF u = t THEN now ELSE used[u]
    BY <1>0, <1>1 DEF TypeOK
  <2>2. now' = now /\ check' = check /\ used \in [Tokens -> 0..MaxTime] /\ MaxTime \in Nat
    BY <1>0, <1>1, TtlAssumption DEF TypeOK
  <2>3. \A u \in Tokens : used[u] \in Nat /\ used'[u] \in Nat /\ used[u] <= used'[u] /\ used'[u] <= now
    BY <1>0, <2>1, <2>2 DEF TimesOfUse
  <2>4. ASSUME NEW u \in Tokens, Has(active'[u])
        PROVE  active'[u].value <= used'[u]
    <3>1. CASE active'[u] = active[u]
      <4>1. Has(active[u]) /\ active[u] \in [value: 0..MaxTime, end: Nat]
        BY <1>0, <2>4, <3>1, Present
      <4>2. active[u].value <= used[u] /\ active[u].value \in Nat
        BY <4>1 DEF TimesOfUse
      <4>3. used[u] \in Nat /\ used'[u] \in Nat /\ used[u] <= used'[u]
        BY <2>3
      <4> QED BY <3>1, <4>2, <4>3
    <3>2. CASE u = t /\ active'[u] = Put(now, ttl)
      BY <1>0, <1>2, <2>1, <3>2
    <3> QED BY <1>0, <1>1, <3>1, <3>2 DEF TypeOK
  <2>5. ASSUME NEW r \in Reqs, NEW c, c = check[r]
        PROVE  /\ c.pc # "idle" => c.token \in Tokens
               /\ c.pc \in {"readKeep", "casKeep"} => c.at \in 0..MaxTime /\ c.at <= used'[c.token]
    <3>1. /\ c.pc # "idle" => c.token \in Tokens
          /\ c.pc \in {"readKeep", "casKeep"} => c.at \in 0..MaxTime /\ c.at <= used[c.token]
      BY <2>5 DEF TimesOfUse
    <3>2. c.at \in 0..MaxTime => c.at \in Nat
      OBVIOUS
    <3> QED BY <2>3, <3>1, <3>2
  <2> QED BY <2>2, <2>3, <2>4, <2>5 DEF TimesOfUse, Has
<1> QED BY <1>6, <1>10, <1>11, <1>12

(* A marker takes the place of the account in the keys of some tokens. *)
LEMMA MarkingTypes ==
  ASSUME TypeOK, NEW m \in Markers
  PROVE  /\ \A t \in Tokens : Has(tokenKey[t]) =>
              Marked(t, m) \in [Tokens -> Entry({Valid} \cup Markers)]
         /\ \A gone \in SUBSET Tokens : (\A t \in gone : Has(tokenKey[t])) =>
              [t \in Tokens |-> IF t \in gone THEN [tokenKey[t] EXCEPT !.value = m]
                                ELSE tokenKey[t]] \in [Tokens -> Entry({Valid} \cup Markers)]
<1>1. \A t \in Tokens : Has(tokenKey[t]) =>
        [tokenKey[t] EXCEPT !.value = m] \in Entry({Valid} \cup Markers)
  BY Present DEF Entry
<1>2. tokenKey \in [Tokens -> Entry({Valid} \cup Markers)]
  BY DEF TypeOK
<1> QED BY <1>1, <1>2 DEF Marked

LEMMA LoginHolds ==
  ASSUME IInv, NEW d \in Devices, NEW ttl \in Timeouts, Login(d, ttl)
  PROVE  IInv'
<1> USE DEF IInv, TtlInv
<1>0. /\ TypeOK /\ Listed \in Index /\ session \in [Devices -> Entry(Tokens)]
      /\ tokenKey \in [Tokens -> Entry({Valid} \cup Markers)]
      /\ Empty \in Index /\ made \subseteq Tokens
  BY Present DEF TypeOK, Empty, Index
<1>a. Carried(d, tokenKey, session, Listed)
  BY <1>0 DEF Carried
<1>1. CASE LoginSingle(d, ttl)
  <2> DEFINE gone     == {Listed[e] : e \in Devices} \ {Null}
             keyed    == [u \in Tokens |-> IF u \in gone THEN [tokenKey[u] EXCEPT !.value = KICK_OUT]
                                           ELSE tokenKey[u]]
             sessions == [e \in Devices |-> IF Listed[e] # Null THEN Null ELSE session[e]]
  <2>1. PICK t \in Tokens \ made : Write(t, d, ttl, keyed, sessions, Empty)
    BY <1>1 DEF LoginSingle
  <2>2. gone \in SUBSET Tokens /\ \A u \in gone : Has(tokenKey[u])
    BY <1>0, <1>1 DEF LoginSingle, Index
  <2>3. keyed \in [Tokens -> Entry({Valid} \cup Markers)]
    BY <1>0, <2>2, MarkingTypes DEF Markers
  <2>4. sessions \in [Devices -> Entry(Tokens)]
    BY <1>0 DEF Entry
  <2>5. \A e \in Devices : Empty[e] = Null /\ sessions[e] \in {session[e], Null}
    BY DEF Empty
  <2>6. Carried(d, keyed, sessions, Empty)
    <3> HIDE DEF keyed, sessions
    <3> QED BY <1>0, <2>3, <2>4, <2>5 DEF Carried
  <2> HIDE DEF keyed, sessions
  <2> QED BY <2>1, <2>6, WriteHolds
<1>2. CASE LoginReplace(d, ttl)
  <2> DEFINE old   == Get(session[d])
             keyed == Marked(old, BE_REPLACED)
  <2>1. PICK t \in Tokens \ made : Write(t, d, ttl, keyed, session, Listed)
    BY <1>2 DEF LoginReplace
  <2>2. old # Null /\ old \in Tokens /\ Has(tokenKey[old])
    BY <1>0, <1>2, Present DEF LoginReplace, Get
  <2>3. keyed \in [Tokens -> Entry({Valid} \cup Markers)]
    BY <1>0, <2>2, MarkingTypes DEF Markers
  <2>4. ASSUME NEW e \in Devices, e # d, Listed[e] # Null
        PROVE  keyed[Listed[e]] = tokenKey[Listed[e]]
    <3>1. Listed[e] \in Tokens /\ Listed[e] \in Named(e) /\ old \in Named(d)
      BY <1>0, <2>2, <2>4 DEF Index, Named
    <3>2. Listed[e] # old
      BY <2>4, <3>1 DEF OwnTokens
    <3> QED BY <1>0, <3>1, <3>2 DEF Marked
  <2>5. Carried(d, keyed, session, Listed)
    <3> HIDE DEF keyed
    <3> QED BY <1>0, <2>3, <2>4 DEF Carried
  <2> HIDE DEF keyed
  <2> QED BY <2>1, <2>5, WriteHolds
<1>3. CASE LoginShare(d, ttl)
  <2>1. PICK t \in Tokens : Write(t, d, ttl, tokenKey, session, Listed)
                            /\ (t \notin made \/ t = Get(session[d]))
    BY <1>0, <1>3, Present DEF LoginShare, Get
  <2>2. t \notin made \/ t \in Named(d)
    BY <2>1, TtlAssumption DEF Named
  <2> QED BY <1>0, <1>a, <2>1, <2>2, WriteHolds
<1>4. CASE LoginNew(d, ttl)
  <2>1. PICK t \in Tokens \ made : Write(t, d, ttl, tokenKey, session, Listed)
    BY <1>4 DEF LoginNew
  <2> QED BY <1>a, <2>1, WriteHolds
<1> QED BY <1>1, <1>2, <1>3, <1>4 DEF Login

-----------------------------------------------------------------------------
(* The operations that end sessions name no more tokens than before. *)
LEMMA FewerNamed ==
  ASSUME TypeOK, OwnTokens, made' = made,
         \A d \in Devices : Listed'[d] \in {Listed[d], Null} /\ session'[d] \in {session[d], Null}
  PROVE  OwnTokens'
<1>1. \A d \in Devices : Named(d)' \subseteq Named(d)
  <2> TAKE d \in Devices
  <2>1. Get(session[d])' \in {Get(session[d]), Null}
    BY DEF Get, Has
  <2> QED BY <2>1 DEF Named
<1> QED BY <1>1 DEF OwnTokens

(* and leave what agreed as it was, if they change nothing of what remains. *)
LEMMA RestAgrees ==
  ASSUME ListedKeysExpireTogether,
         \A d \in Devices : Listed'[d] # Null =>
           /\ Listed'[d] = Listed[d] /\ session'[d] = session[d]
           /\ tokenKey'[Listed[d]] = tokenKey[Listed[d]]
           /\ active'[Listed[d]] = active[Listed[d]]
  PROVE  ListedKeysExpireTogether'
<1> SUFFICES ASSUME NEW e \in Devices, NEW u, u = Listed'[e], u # Null,
                    Has(session'[e]) \/ Has(tokenKey'[u])
             PROVE  /\ Get(session'[e]) = u
                    /\ Get(tokenKey'[u]) = Valid /\ tokenKey'[u].end = session'[e].end
                    /\ ActiveTimeout > 0 => Has(active'[u]) /\ active'[u].end = session'[e].end
  BY DEF ListedKeysExpireTogether, Live, Has, Get
<1>1. /\ u = Listed[e] /\ session'[e] = session[e] /\ tokenKey'[u] = tokenKey[u]
      /\ active'[u] = active[u]
  OBVIOUS
<1> QED BY <1>1 DEF ListedKeysExpireTogether, Live, Has, Get

(* A key that is dropped, or whose end is moved, tells no later use, and    *)
(* time runs forward.                                                       *)
LEMMA StaysInTime ==
  ASSUME TypeOK, TimesOfUse, check' = check, used' = used, now' \in {now, now + 1},
         \A t \in Tokens : \/ active'[t] \in {active[t], Null}
                           \/ Has(active[t]) /\ active'[t].value = active[t].value
  PROVE  TimesOfUse'
<1>1. now \in Nat /\ used \in [Tokens -> 0..MaxTime]
  BY TtlAssumption DEF TypeOK
<1>2. \A t \in Tokens : used'[t] <= now'
  BY <1>1 DEF TimesOfUse
<1>3. \A t \in Tokens : Has(active[t])' => active'[t].value <= used'[t]
  BY DEF TimesOfUse, Has
<1> QED BY <1>2, <1>3 DEF TimesOfUse, Has

LEMMA WithoutTypes ==
  ASSUME TypeOK, NEW D, list' = Without(list, D)
  PROVE  /\ list' \in Entry(Index)
         /\ Listed' \in Index
         /\ \A d \in Devices : Listed'[d] \in {Listed[d], Null} /\ (d \in D => Listed'[d] = Null)
<1> DEFINE left == [d \in Devices |-> IF d \in D THEN Null ELSE list.value[d]]
<1>1. CASE list' = Null
  BY <1>1 DEF Entry, Listed, Has, Empty, Index
<1>2. CASE list' # Null
  <2>1. Has(list) /\ list' = [list EXCEPT !.value = left]
    BY <1>2 DEF Without, Has
  <2>2. list \in [value: Index, end: Nat] /\ Listed = list.value
    BY <2>1, Present DEF Listed
  <2>3. left \in Index
    BY <2>2 DEF Index
  <2>4. list' \in [value: Index, end: Nat] /\ list'.value = left
    BY <2>1, <2>2, <2>3
  <2>5. Listed' = left
    BY <1>2, <2>4 DEF Listed, Has
  <2> QED BY <2>2, <2>3, <2>4, <2>5 DEF Entry
<1> QED BY <1>1, <1>2
LEMMA LogoutHolds ==
  ASSUME IInv, NEW t \in Tokens, Logout(t)
  PROVE  IInv'
<1> USE DEF IInv, TtlInv
<1> DEFINE found == {d \in Devices : Listed[d] = t /\ Live(t)}
<1>0. /\ TypeOK /\ Has(tokenKey[t])
      /\ tokenKey' = [tokenKey EXCEPT ![t] = Null] /\ active' = [active EXCEPT ![t] = Null]
      /\ session' = [d \in Devices |-> IF d \in found THEN Null ELSE session[d]]
      /\ list' = IF found = {} THEN list ELSE Without(list, found)
      /\ UNCHANGED <<mode, now, made, used, check>>
  BY DEF Logout
<1>1. /\ list' \in Entry(Index) /\ Listed' \in Index
      /\ \A d \in Devices : Listed'[d] \in {Listed[d], Null} /\ (d \in found => Listed'[d] = Null)
  <2> HIDE DEF found
  <2>1. CASE found = {}
    BY <1>0, <2>1, Present DEF TypeOK, Listed, Has
  <2>2. CASE found # {}
    BY <1>0, <2>2, WithoutTypes
  <2> QED BY <1>0, <2>1, <2>2
<1>2. TypeOK'
  BY <1>0, <1>1 DEF TypeOK, Entry
<1>3. OwnTokens'
  BY <1>0, <1>1, FewerNamed
<1>4. ListedKeysExpireTogether'
  <2>1. ASSUME NEW d \in Devices, Listed'[d] # Null
        PROVE  /\ Listed'[d] = Listed[d] /\ session'[d] = session[d]
               /\ tokenKey'[Listed[d]] = tokenKey[Listed[d]]
               /\ active'[Listed[d]] = active[Listed[d]]
    <3>1. Listed'[d] = Listed[d] /\ d \notin found
      BY <1>1, <2>1
    <3>2. Listed[d] # t
      BY <1>0, <2>1, <3>1 DEF ListedKeysExpireTogether
    <3> QED BY <1>0, <3>1, <3>2 DEF TypeOK
  <2> QED BY <2>1, RestAgrees
<1>5. TimesOfUse'
  <2>1. \A u \in Tokens : active'[u] \in {active[u], Null}
    BY <1>0 DEF TypeOK
  <2> HIDE DEF found
  <2> QED BY <1>0, <2>1, StaysInTime
<1> QED BY <1>2, <1>3, <1>4, <1>5

LEMMA KickoutHolds ==
  ASSUME IInv, NEW d \in Devices, Kickout(d)
  PROVE  IInv'
<1> USE DEF IInv, TtlInv
<1> DEFINE t == Get(session[d])
<1>0. /\ TypeOK /\ t # Null /\ t \in Tokens /\ Has(tokenKey[t])
      /\ tokenKey' = Marked(t, KICK_OUT) /\ session' = [session EXCEPT ![d] = Null]
      /\ list' = Without(list, {d})
      /\ UNCHANGED <<mode, now, active, made, used, check>>
  BY Present DEF Kickout, Get
<1>1. /\ list' \in Entry(Index) /\ Listed' \in Index
      /\ \A e \in Devices : Listed'[e] \in {Listed[e], Null} /\ (e = d => Listed'[e] = Null)
  BY <1>0, WithoutTypes
<1>2. TypeOK'
  <2>1. tokenKey' \in [Tokens -> Entry({Valid} \cup Markers)]
    BY <1>0, MarkingTypes DEF Markers
  <2> QED BY <1>0, <1>1, <2>1 DEF TypeOK, Entry
<1>3. OwnTokens'
  BY <1>0, <1>1, FewerNamed DEF TypeOK
<1>4. ListedKeysExpireTogether'
  <2>1. ASSUME NEW e \in Devices, Listed'[e] # Null
        PROVE  /\ Listed'[e] = Listed[e] /\ session'[e] = session[e]
               /\ tokenKey'[Listed[e]] = tokenKey[Listed[e]]
               /\ active'[Listed[e]] = active[Listed[e]]
    <3>1. Listed'[e] = Listed[e] /\ e # d
      BY <1>1, <2>1
    <3>2. Listed[e] # t
      BY <1>0, <2>1, <3>1 DEF OwnTokens, Named
    <3> QED BY <1>0, <3>1, <3>2 DEF TypeOK, Marked
  <2> QED BY <2>1, RestAgrees
<1>5. TimesOfUse'
  BY <1>0, StaysInTime DEF TypeOK
<1> QED BY <1>2, <1>3, <1>4, <1>5

LEMMA ForceLogoutHolds ==
  ASSUME IInv, ForceLogout
  PROVE  IInv'
<1> USE DEF IInv, TtlInv
<1> DEFINE hit  == {d \in Devices : Listed[d] # Null /\ Has(session[d])}
           gone == {session[d].value : d \in hit}
           keyed == [t \in Tokens |-> IF t \in gone THEN [tokenKey[t] EXCEPT !.value = KICK_OUT]
                                      ELSE tokenKey[t]]
<1>0. /\ TypeOK /\ \A t \in gone : Has(tokenKey[t])
      /\ tokenKey' = keyed
      /\ session' = [d \in Devices |-> IF d \in hit THEN Null ELSE session[d]]
      /\ list' = Without(list, hit)
      /\ UNCHANGED <<mode, now, active, made, used, check>>
  BY DEF ForceLogout
<1>1. /\ list' \in Entry(Index) /\ Listed' \in Index
      /\ \A e \in Devices : Listed'[e] \in {Listed[e], Null} /\ (e \in hit => Listed'[e] = Null)
  <2> HIDE DEF hit
  <2> QED BY <1>0, WithoutTypes
<1>2. TypeOK'
  <2>0. gone \in SUBSET Tokens
    BY <1>0, Present
  <2>1. keyed \in [Tokens -> Entry({Valid} \cup Markers)]
    <3> HIDE DEF gone
    <3> QED BY <1>0, <2>0, MarkingTypes DEF Markers
  <2> QED BY <1>0, <1>1, <2>1 DEF TypeOK, Entry
<1>3. OwnTokens'
  BY <1>0, <1>1, FewerNamed
<1>4. ListedKeysExpireTogether'
  <2>1. ASSUME NEW e \in Devices, Listed'[e] # Null
        PROVE  /\ Listed'[e] = Listed[e] /\ session'[e] = session[e]
               /\ tokenKey'[Listed[e]] = tokenKey[Listed[e]]
               /\ active'[Listed[e]] = active[Listed[e]]
    <3>1. Listed'[e] = Listed[e] /\ e \notin hit /\ Listed[e] \in Tokens
      BY <1>0, <1>1, <2>1, Present DEF Index
    <3>2. Listed[e] \notin gone
      <4> SUFFICES ASSUME NEW d \in hit, session[d].value = Listed[e] PROVE FALSE
        OBVIOUS
      <4>1. d # e /\ Listed[e] \in Named(d) /\ Listed[e] \in Named(e)
        BY <3>1, TtlAssumption DEF Named, Get
      <4> QED BY <4>1 DEF OwnTokens
    <3>3. keyed[Listed[e]] = tokenKey[Listed[e]]
      BY <3>1, <3>2
    <3> HIDE DEF keyed
    <3> QED BY <1>0, <3>1, <3>3 DEF TypeOK
  <2> QED BY <2>1, RestAgrees
<1>5. TimesOfUse'
  BY <1>0, StaysInTime DEF TypeOK
<1> QED BY <1>2, <1>3, <1>4, <1>5

(* A renewal moves all the deadlines of a token the list names, or none. *)
LEMMA RenewHolds ==
  ASSUME IInv, NEW t \in Tokens, NEW ttl \in Timeouts, RenewTimeout(t, ttl)
  PROVE  IInv'
<1> USE DEF IInv, TtlInv
<1> DEFINE found  == {d \in Devices : Listed[d] = t /\ Live(t)}
           goesOn == \A d \in found : Has(session[d])
<1>0. /\ TypeOK /\ Has(tokenKey[t]) /\ now + ttl \in Nat
      /\ tokenKey' = [tokenKey EXCEPT ![t] = Touched(@, ttl)]
      /\ session' = [d \in Devices |-> IF d \in found /\ goesOn THEN Touched(session[d], ttl)
                                       ELSE session[d]]
      /\ active' = IF found # {} /\ goesOn /\ ActiveTimeout > 0 /\ Has(active[t])
                   THEN [active EXCEPT ![t] = Touched(@, ttl)] ELSE active
      /\ UNCHANGED <<mode, now, list, made, used, check>>
  BY Present, TtlAssumption DEF RenewTimeout
<1>1. Listed' = Listed
  BY <1>0 DEF Listed, Has
<1>2. /\ \A k \in Tokens : Has(tokenKey[k]) =>
           /\ Has(Touched(tokenKey[k], ttl)) /\ Touched(tokenKey[k], ttl).end = now + ttl
           /\ Touched(tokenKey[k], ttl).value = tokenKey[k].value
           /\ Touched(tokenKey[k], ttl) \in Entry({Valid} \cup Markers)
      /\ \A d \in Devices : Has(session[d]) =>
           /\ Has(Touched(session[d], ttl)) /\ Touched(session[d], ttl).end = now + ttl
           /\ Touched(session[d], ttl).value = session[d].value
           /\ Touched(session[d], ttl) \in Entry(Tokens)
      /\ \A k \in Tokens : Has(active[k]) =>
           /\ Has(Touched(active[k], ttl)) /\ Touched(active[k], ttl).end = now + ttl
           /\ Touched(active[k], ttl).value = active[k].value
           /\ Touched(active[k], ttl) \in Entry(0..MaxTime)
  <2>1. ASSUME NEW S \in SUBSET Stored, NEW e \in [value: S, end: Nat]
        PROVE  /\ Has(Touched(e, ttl)) /\ Touched(e, ttl).end = now + ttl
               /\ Touched(e, ttl).value = e.value /\ Touched(e, ttl) \in Entry(S)
    <3>1. \A n \in Nat : LET f == [e EXCEPT !.end = n] IN
              Has(f) /\ f.value = e.value /\ f.end = n /\ f \in [value: S, end: Nat]
      BY Entries
    <3> QED BY <1>0, <3>1 DEF Touched, Entry
  <2> QED BY <1>0, <2>1, Present, StoredKinds
<1>3. TypeOK'
  <2>1. tokenKey' \in [Tokens -> Entry({Valid} \cup Markers)]
    BY <1>0, <1>2 DEF TypeOK
  <2>2. session' \in [Devices -> Entry(Tokens)]
    BY <1>0, <1>2 DEF TypeOK
  <2>3. active' \in [Tokens -> Entry(0..MaxTime)]
    <3> HIDE DEF found, goesOn
    <3> QED BY <1>0, <1>2 DEF TypeOK
  <2> QED BY <1>0, <2>1, <2>2, <2>3 DEF TypeOK
<1>4. \A d \in Devices : Get(session[d])' = Get(session[d]) /\ (Has(session[d])' <=> Has(session[d]))
  BY <1>0, <1>2 DEF Get, Has
<1>5. OwnTokens'
  BY <1>0, <1>1, <1>4 DEF OwnTokens, Named
<1>6. ListedKeysExpireTogether'
  <2> SUFFICES ASSUME NEW e \in Devices, NEW u, u = Listed[e], u # Null,
                      Has(session'[e]) \/ Has(tokenKey'[u])
               PROVE  /\ Get(session'[e]) = u
                      /\ Get(tokenKey'[u]) = Valid /\ tokenKey'[u].end = session'[e].end
                      /\ ActiveTimeout > 0 => Has(active'[u]) /\ active'[u].end = session'[e].end
    BY <1>1 DEF ListedKeysExpireTogether, Live, Has, Get
  <2>0. u \in Tokens
    BY Present DEF Index
  <2>1. CASE u = t
    <3>1. /\ Get(session[e]) = t /\ Live(t) /\ Has(session[e])
          /\ ActiveTimeout > 0 => Has(active[t])
      BY <1>0, <2>1, Present DEF ListedKeysExpireTogether
    <3>2. e \in found /\ goesOn
      <4>1. \A d \in found : d = e
        BY <2>1, <2>0, TtlAssumption DEF OwnTokens, Named
      <4> QED BY <2>1, <3>1, <4>1
    <3>3. session'[e] = Touched(session[e], ttl) /\ tokenKey'[t] = Touched(tokenKey[t], ttl)
          /\ (ActiveTimeout > 0 => active'[t] = Touched(active[t], ttl))
      BY <1>0, <3>1, <3>2 DEF TypeOK
    <3> QED BY <1>0, <1>2, <2>1, <3>1, <3>3 DEF Get, Live
  <2>2. CASE u # t
    <3>1. e \notin found
      BY <2>2
    <3>2. session'[e] = session[e] /\ tokenKey'[u] = tokenKey[u] /\ active'[u] = active[u]
      <4>1. session'[e] = session[e]
        BY <1>0, <3>1
      <4> HIDE DEF found, goesOn
      <4> QED BY <1>0, <2>0, <2>2, <4>1 DEF TypeOK
    <3> QED BY <3>2 DEF ListedKeysExpireTogether, Live, Has, Get
  <2> QED BY <2>1, <2>2
<1>7. TimesOfUse'
  <2>1. \A k \in Tokens : \/ active'[k] \in {active[k], Null}
                          \/ Has(active[k]) /\ active'[k].value = active[k].value
    <3> HIDE DEF found, goesOn
    <3> QED BY <1>0, <1>2 DEF TypeOK
  <2> QED BY <1>0, <2>1, StaysInTime
<1> QED BY <1>3, <1>5, <1>6, <1>7
-----------------------------------------------------------------------------
(* A check moves on its own, and tells a use only of its own token. *)
LEMMA CheckTypes ==
  ASSUME TypeOK, TimesOfUse, NEW r \in Reqs,
         \/ \E t \in Tokens : CheckReadToken(r, t)
         \/ CheckReadActive(r) \/ CheckReadKeep(r) \/ CheckCasKeep(r)
  PROVE  /\ check' \in [Reqs -> [pc: {"idle", "readActive", "readKeep", "casKeep"},
                                 token: Tokens \cup {Null}, at: (0..MaxTime) \cup {Null},
                                 seen: (0..MaxTime) \cup {Null}]]
         /\ used' \in [Tokens -> 0..MaxTime]
         /\ used' = used \/ (check[r].token \in Tokens /\ used' = [used EXCEPT ![check[r].token] = now])
<1> DEFINE Checks == [pc: {"idle", "readActive", "readKeep", "casKeep"},
                      token: Tokens \cup {Null}, at: (0..MaxTime) \cup {Null},
                      seen: (0..MaxTime) \cup {Null}]
           Uses == used' = used \/ (check[r].token \in Tokens /\ used' = [used EXCEPT ![check[r].token] = now])
<1>0. check \in [Reqs -> Checks] /\ Idling \in Checks /\ now \in 0..MaxTime
      /\ used \in [Tokens -> 0..MaxTime]
  BY DEF TypeOK, Idling
<1>1. ASSUME NEW t \in Tokens, CheckReadToken(r, t) PROVE check' \in [Reqs -> Checks] /\ Uses
  BY <1>0, <1>1 DEF CheckReadToken, Proceed
<1>2. CASE CheckReadActive(r)
  <2>1. check[r].token \in Tokens
    BY <1>2 DEF CheckReadActive, TimesOfUse
  <2>2. CASE Refuse(r)
    BY <1>0, <2>2 DEF Refuse, Proceed
  <2>3. CASE Proceed(r, [check[r] EXCEPT !.pc = "readKeep", !.at = now])
             /\ used' = [used EXCEPT ![check[r].token] = now]
    BY <1>0, <2>1, <2>3 DEF Proceed
  <2> QED BY <1>2, <2>2, <2>3 DEF CheckReadActive
<1>3. CASE CheckReadKeep(r)
  <2>1. check[r].token \in Tokens
    BY <1>3 DEF CheckReadKeep, TimesOfUse
  <2>2. Has(active[check[r].token]) => active[check[r].token].value \in 0..MaxTime
    BY <2>1, Present
  <2> QED BY <1>0, <1>3, <2>2 DEF CheckReadKeep, Proceed
<1>4. CASE CheckCasKeep(r)
  BY <1>0, <1>4 DEF CheckCasKeep, Keep, Proceed
<1>5. check' \in [Reqs -> Checks] /\ Uses
  BY <1>1, <1>2, <1>3, <1>4
<1> QED BY <1>0, <1>5

LEMMA CheckReadsHold ==
  ASSUME IInv, NEW r \in Reqs,
         \/ \E t \in Tokens : CheckReadToken(r, t)
         \/ CheckReadActive(r) \/ CheckReadKeep(r)
  PROVE  IInv'
<1> USE DEF IInv, TtlInv
<1>0. UNCHANGED keys /\ UNCHANGED <<mode, now, made>>
  BY DEF CheckReadToken, CheckReadActive, CheckReadKeep, Refuse, Proceed
<1>1. TypeOK'
  BY <1>0, CheckTypes DEF TypeOK, keys
<1>2. ListedKeysExpireTogether'
  BY <1>0 DEF keys, ListedKeysExpireTogether, Listed, Has, Get, Live
<1>3. OwnTokens'
  BY <1>0 DEF keys, OwnTokens, Named, Listed, Has, Get
<1>4. TimesOfUse'
  <2>0. /\ active' = active /\ now' = now /\ now \in Nat /\ MaxTime \in Nat /\ now \in 0..MaxTime
        /\ used \in [Tokens -> 0..MaxTime] /\ used' \in [Tokens -> 0..MaxTime]
    <3>1. used' \in [Tokens -> 0..MaxTime]
      BY CheckTypes
    <3> QED BY <1>0, <3>1, TtlAssumption DEF keys, TypeOK
  <2>1. \A t \in Tokens : used[t] <= used'[t] /\ used'[t] <= now
    <3>1. used' = used \/ \E u \in Tokens : used' = [used EXCEPT ![u] = now]
      BY CheckTypes
    <3> QED BY <2>0, <3>1 DEF TimesOfUse
  <2>2. \A x \in Reqs : x # r => check'[x] = check[x]
    BY DEF CheckReadToken, CheckReadActive, CheckReadKeep, Refuse, Proceed, TypeOK
  <2>3. /\ check'[r].pc # "idle" => check'[r].token \in Tokens
        /\ check'[r].pc \in {"readKeep", "casKeep"} =>
             check'[r].at \in 0..MaxTime /\ check'[r].at <= used'[check'[r].token]
    <3>0. check[r].pc # "idle" => check[r].token \in Tokens
      BY DEF TimesOfUse
    <3>1. ASSUME NEW t \in Tokens, CheckReadToken(r, t)
          PROVE  check'[r].pc = "readActive" /\ check'[r].token = t
      <4>1. check'[r] = [Idling EXCEPT !.pc = "readActive", !.token = t]
        BY <3>1 DEF CheckReadToken, Proceed, TypeOK
      <4> QED BY <4>1 DEF Idling
    <3>2. CASE CheckReadActive(r)
      <4>1. CASE Refuse(r)
        BY <4>1 DEF Refuse, Proceed, TypeOK, Idling
      <4>2. CASE /\ Proceed(r, [check[r] EXCEPT !.pc = "readKeep", !.at = now])
                 /\ used' = [used EXCEPT ![check[r].token] = now]
        <5>1. check[r].token \in Tokens
          BY <3>0, <3>2 DEF CheckReadActive
        <5>2. check'[r].token = check[r].token /\ check'[r].at = now
          BY <4>2 DEF Proceed, TypeOK
        <5> QED BY <2>0, <4>2, <5>1, <5>2
      <4> QED BY <3>2, <4>1, <4>2 DEF CheckReadActive
    <3>3. CASE CheckReadKeep(r)
      <4>1. used' = used
        BY <3>3 DEF CheckReadKeep
      <4>2. \/ check'[r] = Idling
            \/ check'[r].token = check[r].token /\ check'[r].at = check[r].at /\ check[r].pc = "readKeep"
        BY <3>3 DEF CheckReadKeep, Proceed, TypeOK
      <4> QED BY <4>1, <4>2 DEF TimesOfUse, Idling
    <3> QED BY <3>1, <3>2, <3>3
  <2>4. ASSUME NEW x \in Reqs, NEW c, c = check'[x]
        PROVE  /\ c.pc # "idle" => c.token \in Tokens
               /\ c.pc \in {"readKeep", "casKeep"} => c.at \in 0..MaxTime /\ c.at <= used'[c.token]
    <3>1. CASE x = r
      BY <2>3, <2>4, <3>1
    <3>2. CASE x # r
      <4>1. /\ c.pc # "idle" => c.token \in Tokens
            /\ c.pc \in {"readKeep", "casKeep"} => c.at \in 0..MaxTime /\ c.at <= used[c.token]
        BY <2>2, <2>4, <3>2 DEF TimesOfUse
      <4> QED BY <2>0, <2>1, <4>1
    <3> QED BY <3>1, <3>2
  <2>5. ASSUME NEW t \in Tokens, Has(active[t])
        PROVE  active[t].value <= used'[t]
    <3>1. active[t] \in [value: 0..MaxTime, end: Nat] /\ active[t].value <= used[t]
      BY <2>5, Present DEF TimesOfUse
    <3>2. active[t].value \in Nat
      BY <3>1
    <3> QED BY <2>0, <2>1, <3>1, <3>2
  <2> QED BY <2>0, <2>1, <2>4, <2>5 DEF TimesOfUse, Has
<1> QED BY <1>1, <1>2, <1>3, <1>4

(* The write of a check keeps the end of the key it writes over. *)
LEMMA CheckCasHolds ==
  ASSUME IInv, NEW r \in Reqs, CheckCasKeep(r)
  PROVE  IInv'
<1> USE DEF IInv, TtlInv
<1> SUFFICES ASSUME NEW t, t = check[r].token, NEW n, n = check[r].at PROVE IInv'
  OBVIOUS
<1>0. /\ t \in Tokens /\ TypeOK /\ n \in 0..MaxTime /\ n <= used[t]
      /\ active' = IF Has(active[t]) /\ active[t].value = check[r].seen
                   THEN [active EXCEPT ![t].value = n] ELSE active
      /\ check' = [check EXCEPT ![r] = Idling]
      /\ UNCHANGED <<mode, now, made, used, tokenKey, session, list>>
  BY DEF CheckCasKeep, Keep, Proceed, TimesOfUse, TypeOK
<1>1. Has(active[t]) => LET e == [active[t] EXCEPT !.value = n] IN
        /\ Has(e) /\ e.value = n /\ e.end = active[t].end /\ e \in Entry(0..MaxTime)
  <2> SUFFICES ASSUME Has(active[t]) PROVE LET e == [active[t] EXCEPT !.value = n] IN
        /\ Has(e) /\ e.value = n /\ e.end = active[t].end /\ e \in Entry(0..MaxTime)
    OBVIOUS
  <2>1. active[t] \in [value: 0..MaxTime, end: Nat] /\ n \in Stored
    BY <1>0, Present DEF Stored
  <2>2. LET e == [active[t] EXCEPT !.value = n] IN
          Has(e) /\ e.value = n /\ e.end = active[t].end
    BY <2>1, Entries, StoredKinds
  <2> QED BY <1>0, <2>1, <2>2 DEF Entry
<1>2. \A u \in Tokens : /\ \/ active'[u] = active[u]
                           \/ u = t /\ Has(active[u]) /\ active'[u].value = n
                        /\ Has(active[u]) => Has(active'[u]) /\ active'[u].end = active[u].end
                        /\ active'[u] \in Entry(0..MaxTime)
  BY <1>0, <1>1 DEF TypeOK
<1>3. TypeOK'
  <2>1. active' \in [Tokens -> Entry(0..MaxTime)]
    BY <1>0, <1>2 DEF TypeOK
  <2> QED BY <1>0, <2>1, CheckTypes DEF TypeOK
<1>4. Listed' = Listed /\ session' = session /\ tokenKey' = tokenKey
  BY <1>0 DEF Listed, Has
<1>5. ListedKeysExpireTogether'
  <2> SUFFICES ASSUME NEW e \in Devices, NEW u, u = Listed[e], u # Null,
                      Has(session[e]) \/ Has(tokenKey[u])
               PROVE  /\ Get(session[e]) = u
                      /\ Live(u) /\ tokenKey[u].end = session[e].end
                      /\ ActiveTimeout > 0 => Has(active'[u]) /\ active'[u].end = session[e].end
    BY <1>4 DEF ListedKeysExpireTogether, Live, Has, Get
  <2>1. u \in Tokens
    BY Present DEF Index
  <2> QED BY <1>2, <2>1 DEF ListedKeysExpireTogether
<1>6. OwnTokens'
  BY <1>0, <1>4 DEF OwnTokens, Named, Get, Has
<1>7. TimesOfUse'
  <2>0. now' = now /\ used' = used
    BY <1>0
  <2>1. check'[r].pc = "idle" /\ \A x \in Reqs : x # r => check'[x] = check[x]
    BY <1>0 DEF TypeOK, Idling
  <2>2. ASSUME NEW x \in Reqs, NEW c, c = check'[x]
        PROVE  /\ c.pc # "idle" => c.token \in Tokens
               /\ c.pc \in {"readKeep", "casKeep"} => c.at \in 0..MaxTime /\ c.at <= used[c.token]
    BY <2>1, <2>2 DEF TimesOfUse
  <2>3. ASSUME NEW u \in Tokens, Has(active'[u])
        PROVE  active'[u].value <= used[u]
    BY <1>0, <1>2, <2>3 DEF TimesOfUse, Has
  <2> QED BY <2>0, <2>2, <2>3 DEF TimesOfUse, Has
<1> QED BY <1>3, <1>5, <1>6, <1>7

(* What expires together is dropped together. *)
LEMMA TickHolds ==
  ASSUME IInv, Tick
  PROVE  IInv'
<1> USE DEF IInv, TtlInv
<1>0. /\ TypeOK /\ now \in Nat /\ now < MaxTime /\ now' = now + 1
      /\ tokenKey' = [t \in Tokens |-> Kept(tokenKey[t])]
      /\ session' = [d \in Devices |-> Kept(session[d])]
      /\ list' = Kept(list)
      /\ active' = [t \in Tokens |-> Kept(active[t])]
      /\ UNCHANGED <<mode, made, used, check>>
  BY Present DEF Tick
<1>1. TypeOK'
  <2>1. \A S : \A e \in Entry(S) : Kept(e) \in Entry(S)
    BY DEF Entry, Kept
  <2>2. tokenKey' \in [Tokens -> Entry({Valid} \cup Markers)]
    BY <1>0, <2>1 DEF TypeOK
  <2>3. session' \in [Devices -> Entry(Tokens)]
    BY <1>0, <2>1 DEF TypeOK
  <2>4. list' \in Entry(Index)
    BY <1>0, <2>1 DEF TypeOK
  <2>5. active' \in [Tokens -> Entry(0..MaxTime)]
    BY <1>0, <2>1 DEF TypeOK
  <2>6. now' \in 0..MaxTime
    BY <1>0, TtlAssumption
  <2> QED BY <1>0, <2>2, <2>3, <2>4, <2>5, <2>6 DEF TypeOK
<1>2. \A d \in Devices : Listed'[d] \in {Listed[d], Null} /\ session'[d] \in {session[d], Null}
  <2>1. Listed' = Listed \/ Listed' = Empty
    BY <1>0 DEF Listed, Kept, Has
  <2> QED BY <1>0, <2>1 DEF Empty, Kept
<1>3. OwnTokens'
  BY <1>0, <1>2, FewerNamed
<1>4. ListedKeysExpireTogether'
  <2> SUFFICES ASSUME NEW e \in Devices, NEW u, u = Listed'[e], u # Null,
                      Has(session'[e]) \/ Has(tokenKey'[u])
               PROVE  /\ Get(session'[e]) = u
                      /\ Get(tokenKey'[u]) = Valid /\ tokenKey'[u].end = session'[e].end
                      /\ ActiveTimeout > 0 => Has(active'[u]) /\ active'[u].end = session'[e].end
    BY DEF ListedKeysExpireTogether, Live, Has, Get
  <2>1. u = Listed[e] /\ u \in Tokens
    BY <1>2, Present DEF Index
  <2>2. /\ session'[e] = Kept(session[e]) /\ tokenKey'[u] = Kept(tokenKey[u])
        /\ active'[u] = Kept(active[u])
    BY <1>0, <2>1
  <2>3. Has(session[e]) \/ Has(tokenKey[u])
    BY <2>2 DEF Kept, Has
  <2>4. /\ Get(session[e]) = u /\ Has(session[e]) /\ Has(tokenKey[u])
        /\ Get(tokenKey[u]) = Valid /\ tokenKey[u].end = session[e].end
        /\ ActiveTimeout > 0 => Has(active[u]) /\ active[u].end = session[e].end
    BY <2>1, <2>3, Present DEF ListedKeysExpireTogether, Live, Has, Get
  <2>5. now + 1 < session[e].end
    BY <2>2, <2>4 DEF Kept, Has
  <2> QED BY <2>2, <2>4, <2>5 DEF Kept, Has, Get
<1>5. TimesOfUse'
  <2>1. \A t \in Tokens : active'[t] \in {active[t], Null}
    BY <1>0 DEF Kept
  <2> QED BY <1>0, <2>1, StaysInTime
<1> QED BY <1>1, <1>3, <1>4, <1>5
LEMMA NextIInv == IInv /\ [Next]_vars => IInv'
<1> SUFFICES ASSUME IInv, [Next]_vars PROVE IInv'
  OBVIOUS
<1>1. ASSUME NEW d \in Devices, Kickout(d) PROVE IInv'
  BY <1>1, KickoutHolds
<1>2. ASSUME NEW d \in Devices, NEW ttl \in Timeouts, Login(d, ttl) PROVE IInv'
  BY <1>2, LoginHolds
<1>3. CASE ForceLogout
  BY <1>3, ForceLogoutHolds
<1>4. ASSUME NEW t \in Tokens, Logout(t) PROVE IInv'
  BY <1>4, LogoutHolds
<1>5. ASSUME NEW t \in Tokens, NEW ttl \in Timeouts, RenewTimeout(t, ttl) PROVE IInv'
  BY <1>5, RenewHolds
<1>6. ASSUME NEW r \in Reqs,
             \/ \E t \in Tokens : CheckReadToken(r, t)
             \/ CheckReadActive(r) \/ CheckReadKeep(r)
      PROVE  IInv'
  BY <1>6, CheckReadsHold
<1>7. ASSUME NEW r \in Reqs, CheckCasKeep(r) PROVE IInv'
  BY <1>7, CheckCasHolds
<1>8. CASE Tick
  BY <1>8, TickHolds
<1>9. CASE UNCHANGED vars
  <2>1. /\ UNCHANGED <<mode, now, made, used, check, tokenKey, session, list, active>>
    BY <1>9 DEF vars, keys
  <2>2. TypeOK'
    BY <2>1 DEF IInv, TtlInv, TypeOK
  <2>3. ListedKeysExpireTogether'
    BY <2>1 DEF IInv, TtlInv, ListedKeysExpireTogether, Listed, Has, Get, Live
  <2>4. OwnTokens'
    BY <2>1 DEF IInv, OwnTokens, Named, Listed, Has, Get
  <2>5. TimesOfUse'
    BY <2>1 DEF IInv, TimesOfUse, Has
  <2> QED BY <2>2, <2>3, <2>4, <2>5 DEF IInv, TtlInv
<1> QED BY <1>1, <1>2, <1>3, <1>4, <1>5, <1>6, <1>7, <1>8, <1>9 DEF Next

-----------------------------------------------------------------------------
(* While the device list names a token, its keys live and expire together,  *)
(* whatever timeouts logins and renewals are given, in which order, and     *)
(* however many devices and tokens there are.                               *)
THEOREM KeysExpireTogether == Spec => []TtlInv
<1>1. IInv => TtlInv
  BY DEF IInv
<1> QED BY <1>1, InitIInv, NextIInv, PTL DEF Spec

LEMMA IdleStep ==
  ASSUME IInv, [Next]_vars, NEW t \in made, Lapsed(t)
  PROVE  used'[t] = used[t] \/ \E d \in Devices, ttl \in Timeouts : LoginShare(d, ttl)
<1> USE DEF IInv, TtlInv
<1>0. /\ TypeOK /\ t \in Tokens /\ now \in Nat /\ ActiveTimeout \in Nat
      /\ used \in [Tokens -> 0..MaxTime]
  BY Present, TtlAssumption DEF TypeOK
<1>1. ASSUME NEW d \in Devices, NEW ttl \in Timeouts, NEW u \in Tokens \ made, NEW k, NEW s, NEW l,
             Write(u, d, ttl, k, s, l)
      PROVE  used'[t] = used[t]
  BY <1>0, <1>1 DEF Write
<1>2. ASSUME NEW d \in Devices, NEW ttl \in Timeouts,
             LoginSingle(d, ttl) \/ LoginReplace(d, ttl) \/ LoginNew(d, ttl)
      PROVE  used'[t] = used[t]
  BY <1>1, <1>2 DEF LoginSingle, LoginReplace, LoginNew
<1>3. ASSUME NEW r \in Reqs, CheckReadActive(r)
      PROVE  used'[t] = used[t]
  <2>1. CASE Refuse(r)
    BY <2>1 DEF Refuse
  <2>2. CASE /\ Has(active[check[r].token]) /\ ~IsIdle(check[r].token)
             /\ used' = [used EXCEPT ![check[r].token] = now]
    <3> DEFINE u == check[r].token
    <3>1. u \in Tokens
      BY <1>3 DEF CheckReadActive, TimesOfUse
    <3>2. active[u] \in [value: 0..MaxTime, end: Nat] /\ active[u].value <= used[u]
      BY <2>2, <3>1, Present DEF TimesOfUse
    <3>3. active[u].value \in Nat /\ used[u] \in Nat
      BY <1>0, <3>1, <3>2
    <3>4. ~Lapsed(u)
      <4>1. ~(now - active[u].value > ActiveTimeout)
        BY <2>2 DEF IsIdle
      <4> QED BY <1>0, <3>2, <3>3, <4>1 DEF Lapsed
    <3> QED BY <1>0, <2>2, <3>4
  <2> QED BY <1>3, <2>1, <2>2 DEF CheckReadActive
<1>4. ASSUME NEW r \in Reqs,
             \/ \E u \in Tokens : CheckReadToken(r, u)
             \/ CheckReadKeep(r) \/ CheckCasKeep(r)
      PROVE  used' = used
  BY <1>4 DEF CheckReadToken, CheckReadKeep, CheckCasKeep, Keep
<1>5. ASSUME \/ ForceLogout \/ Tick \/ UNCHANGED vars
             \/ \E d \in Devices : Kickout(d)
             \/ \E u \in Tokens : Logout(u) \/ \E ttl \in Timeouts : RenewTimeout(u, ttl)
      PROVE  used' = used
  BY <1>5 DEF ForceLogout, Tick, Kickout, Logout, RenewTimeout, vars
<1> QED
  BY <1>2, <1>3, <1>4, <1>5 DEF Next, Login

(* A token no request has used for longer than activeTimeout is not let     *)
(* through again, however long a request waits between the comparison and   *)
(* its write, however many requests write over each other's times, and      *)
(* whatever renewals follow, until a sharing login issues it anew.          *)
THEOREM IdleStaysIdle == Spec => IdleIsFinal
<1>1. IInv /\ [Next]_vars =>
        [\A t \in made : Lapsed(t) =>
           used'[t] = used[t] \/ \E d \in Devices, ttl \in Timeouts : LoginShare(d, ttl)]_vars
  BY IdleStep
<1> QED BY <1>1, InitIInv, NextIInv, PTL DEF Spec, IdleIsFinal
=============================================================================
