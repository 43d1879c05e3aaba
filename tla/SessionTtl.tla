----------------------------- MODULE SessionTtl -----------------------------
(***************************************************************************)
(* The keys StpLogic keeps for one account, with their expiry: each write  *)
(* sets a deadline of its own, renewTimeout moves some of the deadlines,   *)
(* and with activeTimeout every request checks and moves the lastActive    *)
(* key of its token.  Opaque tokens.                                       *)
(*                                                                         *)
(* StpLogic shows how operations interleave; here login, logout, kickout   *)
(* and renewTimeout are single steps, and only the check of a request is   *)
(* taken one store call at a time.  Time passes between any two steps.     *)
(***************************************************************************)
EXTENDS Naturals, FiniteSets

CONSTANTS
  Devices, Tokens, Reqs,
  Timeouts,        \* the timeouts passed to login and renewTimeout, in seconds
  ActiveTimeout,   \* config.activeTimeout, 0 when it is off
  Modes,           \* the login modes the instance may be configured with
  MaxTime,         \* bound on the clock
  Valid, KICK_OUT, BE_REPLACED, Null

Markers == {KICK_OUT, BE_REPLACED}

ASSUME TtlAssumption ==
  /\ Timeouts \subseteq Nat \ {0}
  /\ ActiveTimeout \in Nat /\ MaxTime \in Nat
  /\ Modes \subseteq {"single", "replace", "share", "several"}
  /\ Valid \notin Markers /\ Null \notin Markers \cup {Valid} \cup Tokens
  /\ LET Stored == {Valid} \cup Markers \cup Tokens \cup Nat \cup [Devices -> Tokens \cup {Null}]
     IN  Null \notin [value: Stored, end: Nat]

VARIABLES
  mode,      \* the login mode, fixed at start
  now,       \* the clock
  tokenKey,  \* login:token:<token>: Valid stands for the account
  session,   \* login:session:<loginId>:<device>
  list,      \* login:session-list:<loginId>
  active,    \* login:lastActive:<token>
  made,      \* history: the tokens login has created
  used,      \* history: when a token was last issued, or found active by a request
  check      \* the request checks in flight

keys == <<tokenKey, session, list, active>>
vars == <<mode, now, keys, made, used, check>>

Index == [Devices -> Tokens \cup {Null}]
Empty == [d \in Devices |-> Null]

(* A store entry: a value until a moment. *)
Entry(S) == [value: S, end: Nat] \cup {Null}
Put(v, ttl) == [value |-> v, end |-> now + ttl]
Has(e) == e # Null
Kept(e) == IF Has(e) /\ now + 1 < e.end THEN e ELSE Null
Get(e) == IF Has(e) THEN e.value ELSE Null

Listed  == IF Has(list) THEN list.value ELSE Empty
Live(t) == Get(tokenKey[t]) = Valid

(* replaceStoreValueKeepingTtl on the token key. *)
Marked(t, m) == [tokenKey EXCEPT ![t].value = m]

Idling == [pc |-> "idle", token |-> Null, at |-> Null, seen |-> Null]

-----------------------------------------------------------------------------
(* login's writes, after it has dealt with what it replaces. *)
Write(t, d, ttl, keyed, sessions, listed) ==
  /\ tokenKey' = [keyed EXCEPT ![t] = Put(Valid, ttl)]
  /\ session' = [sessions EXCEPT ![d] = Put(t, ttl)]
  /\ list' = Put([listed EXCEPT ![d] = t], ttl)
  /\ active' = IF ActiveTimeout > 0 THEN [active EXCEPT ![t] = Put(now, ttl)] ELSE active
  /\ made' = made \cup {t} /\ used' = [used EXCEPT ![t] = now]
  /\ UNCHANGED <<mode, now, check>>

(* A login that has to mark a token whose key is gone rejects, having       *)
(* changed nothing: in the single mode at most one device is listed.        *)
LoginSingle(d, ttl) ==
  LET gone == {Listed[e] : e \in Devices} \ {Null} IN
  /\ mode = "single"
  /\ \A t \in gone : Has(tokenKey[t])
  /\ \E t \in Tokens \ made :
       Write(t, d, ttl,
             [u \in Tokens |-> IF u \in gone THEN [tokenKey[u] EXCEPT !.value = KICK_OUT]
                               ELSE tokenKey[u]],
             [e \in Devices |-> IF Listed[e] # Null THEN Null ELSE session[e]],
             Empty)

LoginReplace(d, ttl) ==
  LET old == Get(session[d]) IN
  /\ mode = "replace" /\ old # Null /\ Has(tokenKey[old])
  /\ \E t \in Tokens \ made : Write(t, d, ttl, Marked(old, BE_REPLACED), session, Listed)

LoginShare(d, ttl) ==
  LET old == Get(session[d]) IN
  /\ mode = "share" /\ old # Null
  /\ \/ Live(old) /\ Write(old, d, ttl, tokenKey, session, Listed)
     \/ ~Live(old) /\ \E t \in Tokens \ made : Write(t, d, ttl, tokenKey, session, Listed)

LoginNew(d, ttl) ==
  /\ mode = "several" \/ (mode \in {"replace", "share"} /\ ~Has(session[d]))
  /\ \E t \in Tokens \ made : Write(t, d, ttl, tokenKey, session, Listed)

Login(d, ttl) ==
  LoginSingle(d, ttl) \/ LoginReplace(d, ttl) \/ LoginShare(d, ttl) \/ LoginNew(d, ttl)

(* _removeFromSessionList: what is left keeps its deadline. *)
Without(l, D) ==
  LET left == [d \in Devices |-> IF d \in D THEN Null ELSE l.value[d]] IN
  IF ~Has(l) \/ left = Empty THEN Null ELSE [l EXCEPT !.value = left]

(* logout finds the device through the list, and leaves the session key     *)
(* alone when the list does not name the token; a marker it takes for an    *)
(* account, which has no list.                                              *)
Logout(t) ==
  LET found == {d \in Devices : Listed[d] = t /\ Live(t)} IN
  /\ Has(tokenKey[t])
  /\ tokenKey' = [tokenKey EXCEPT ![t] = Null]
  /\ active' = [active EXCEPT ![t] = Null]
  /\ session' = [d \in Devices |-> IF d \in found THEN Null ELSE session[d]]
  /\ list' = IF found = {} THEN list ELSE Without(list, found)
  /\ UNCHANGED <<mode, now, made, used, check>>

Kickout(d) ==
  LET t == Get(session[d]) IN
  /\ t # Null /\ Has(tokenKey[t])
  /\ tokenKey' = Marked(t, KICK_OUT)
  /\ session' = [session EXCEPT ![d] = Null]
  /\ list' = Without(list, {d})
  /\ UNCHANGED <<mode, now, active, made, used, check>>

(* kickoutByDevice for each listed device; one without a session is left as *)
(* it is, and stays listed.                                                 *)
ForceLogout ==
  LET hit  == {d \in Devices : Listed[d] # Null /\ Has(session[d])}
      gone == {session[d].value : d \in hit}
  IN  /\ hit # {}
      /\ \A t \in gone : Has(tokenKey[t])
      /\ tokenKey' = [t \in Tokens |-> IF t \in gone THEN [tokenKey[t] EXCEPT !.value = KICK_OUT]
                                       ELSE tokenKey[t]]
      /\ session' = [d \in Devices |-> IF d \in hit THEN Null ELSE session[d]]
      /\ list' = Without(list, hit)
      /\ UNCHANGED <<mode, now, active, made, used, check>>

Touched(e, ttl) == [e EXCEPT !.end = now + ttl]

(* Mutant: the session key keeps its deadline. *)
RenewTimeoutNoSession(t, ttl) ==
  /\ Has(tokenKey[t])
  /\ tokenKey' = [tokenKey EXCEPT ![t] = Touched(@, ttl)]
  /\ active' = IF ActiveTimeout > 0 /\ Has(active[t])
               THEN [active EXCEPT ![t] = Touched(@, ttl)] ELSE active
  /\ UNCHANGED <<mode, now, session, list, made, used, check>>

(* renewTimeout touches the token key, and rejects at the first key after   *)
(* it that is missing; the list is not touched.                             *)
RenewTimeout(t, ttl) ==
  LET found == {d \in Devices : Listed[d] = t /\ Live(t)}
      goesOn == \A d \in found : Has(session[d])
  IN  /\ Has(tokenKey[t])
      /\ tokenKey' = [tokenKey EXCEPT ![t] = Touched(@, ttl)]
      /\ session' = [d \in Devices |-> IF d \in found /\ goesOn THEN Touched(session[d], ttl)
                                       ELSE session[d]]
      /\ active' = IF found # {} /\ goesOn /\ ActiveTimeout > 0 /\ Has(active[t])
                   THEN [active EXCEPT ![t] = Touched(@, ttl)] ELSE active
      /\ UNCHANGED <<mode, now, list, made, used, check>>

-----------------------------------------------------------------------------
(* _resolveLoginId with activeTimeout: read the token, read lastActive and  *)
(* compare, then replaceStoreValueKeepingTtl, which reads and compares.     *)
(* The time to be written is taken right after the comparison.              *)
Proceed(r, c) == check' = [check EXCEPT ![r] = c] /\ UNCHANGED <<mode, now, made>>

CheckReadToken(r, t) ==
  /\ ActiveTimeout > 0
  /\ check[r].pc = "idle" /\ Live(t)
  /\ Proceed(r, [Idling EXCEPT !.pc = "readActive", !.token = t])
  /\ UNCHANGED <<keys, used>>

IsIdle(t) == now - active[t].value > ActiveTimeout

Refuse(r) == Proceed(r, Idling) /\ UNCHANGED used

CheckReadActive(r) ==
  LET t == check[r].token IN
  /\ check[r].pc = "readActive"
  /\ \/ (Has(active[t]) => IsIdle(t)) /\ Refuse(r)
     \/ /\ Has(active[t]) /\ ~IsIdle(t)
        /\ Proceed(r, [check[r] EXCEPT !.pc = "readKeep", !.at = now])
        /\ used' = [used EXCEPT ![t] = now]
  /\ UNCHANGED keys

CheckReadKeep(r) ==
  LET t == check[r].token IN
  /\ check[r].pc = "readKeep"
  /\ Proceed(r, IF ~Has(active[t]) THEN Idling
                ELSE [check[r] EXCEPT !.pc = "casKeep", !.seen = active[t].value])
  /\ UNCHANGED <<keys, used>>

Keep(r, time) ==
  LET t == check[r].token IN
  /\ check[r].pc = "casKeep"
  /\ active' = IF Has(active[t]) /\ active[t].value = check[r].seen
               THEN [active EXCEPT ![t].value = time] ELSE active
  /\ Proceed(r, Idling)
  /\ UNCHANGED <<tokenKey, session, list, used>>

(* Mutant: the time is taken when it is written. *)
CheckCasKeepNow(r) == Keep(r, now)

CheckCasKeep(r) == Keep(r, check[r].at)

(* Entries whose moment has come are gone, as the store's peek or its timer *)
(* drops them.                                                              *)
Tick ==
  /\ now < MaxTime
  /\ now' = now + 1
  /\ tokenKey' = [t \in Tokens |-> Kept(tokenKey[t])]
  /\ session' = [d \in Devices |-> Kept(session[d])]
  /\ list' = Kept(list)
  /\ active' = [t \in Tokens |-> Kept(active[t])]
  /\ UNCHANGED <<mode, made, used, check>>

-----------------------------------------------------------------------------
Init ==
  /\ mode \in Modes
  /\ now = 0
  /\ tokenKey = [t \in Tokens |-> Null]
  /\ session = [d \in Devices |-> Null]
  /\ list = Null
  /\ active = [t \in Tokens |-> Null]
  /\ made = {} /\ used = [t \in Tokens |-> 0]
  /\ check = [r \in Reqs |-> Idling]

Next ==
  \/ \E d \in Devices : Kickout(d) \/ \E ttl \in Timeouts : Login(d, ttl)
  \/ ForceLogout
  \/ \E t \in Tokens : Logout(t) \/ \E ttl \in Timeouts : RenewTimeout(t, ttl)
  \/ \E r \in Reqs :
       \/ \E t \in Tokens : CheckReadToken(r, t)
       \/ CheckReadActive(r) \/ CheckReadKeep(r) \/ CheckCasKeep(r)
  \/ Tick

Spec == Init /\ [][Next]_vars

-----------------------------------------------------------------------------
TypeOK ==
  /\ mode \in Modes
  /\ now \in 0..MaxTime
  /\ tokenKey \in [Tokens -> Entry({Valid} \cup Markers)]
  /\ session \in [Devices -> Entry(Tokens)]
  /\ list \in Entry(Index)
  /\ active \in [Tokens -> Entry(0..MaxTime)]
  /\ made \subseteq Tokens /\ used \in [Tokens -> 0..MaxTime]
  /\ check \in [Reqs -> [pc: {"idle", "readActive", "readKeep", "casKeep"}, token: Tokens \cup {Null},
                         at: (0..MaxTime) \cup {Null}, seen: (0..MaxTime) \cup {Null}]]

(* As long as the device list names a token, the token's own keys live and  *)
(* expire together, whatever timeouts logins and renewals were given: no    *)
(* session key outlives its token (so the next kickout or login of the      *)
(* device finds the key it marks), and no accepted token is frozen for want *)
(* of its lastActive key.                                                   *)
ListedKeysExpireTogether ==
  \A d \in Devices :
    LET t == Listed[d] IN
    t # Null /\ (Has(session[d]) \/ Has(tokenKey[t])) =>
      /\ Get(session[d]) = t
      /\ Live(t) /\ tokenKey[t].end = session[d].end
      /\ ActiveTimeout > 0 => Has(active[t]) /\ active[t].end = session[d].end

(* No request has been found active with the token for activeTimeout.       *)
Lapsed(t) == now - used[t] > ActiveTimeout

(* _resolveLoginId: a token that no request has used for longer than        *)
(* activeTimeout is not let through again, whatever renewals follow, unless *)
(* a sharing login issues it anew; and this although requests overlap, wait *)
(* on the store for any time, and write their times over each other's.      *)
(* Of a token that is in use nothing is said: a write that comes late may   *)
(* put its time back, or accept again what has just been refused.           *)
IdleIsFinal ==
  [][\A t \in made : Lapsed(t) =>
       used'[t] = used[t] \/ \E d \in Devices, ttl \in Timeouts : LoginShare(d, ttl)]_vars

(* What holds of the keys at every moment, deadlines included. *)
TtlInv == TypeOK /\ ListedKeysExpireTogether
=============================================================================
