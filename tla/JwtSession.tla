----------------------------- MODULE JwtSession -----------------------------
(***************************************************************************)
(* StpLogic with the JWT strategy, for one account.  A token carries its   *)
(* own expiry and no store entry says that it is good: it is accepted      *)
(* while its signature and exp verify and no blacklist entry names its     *)
(* jti.  Blacklist entries have a ttl of their own, config.timeout, or the *)
(* new token's timeout when a refresh writes them.  The session key and    *)
(* the device list are what operations find tokens by.                     *)
(*                                                                         *)
(* One action per store call, except that the list's compare-and-set loops *)
(* are one step (StpLogic has them call by call).  A request takes less    *)
(* than a tick.  activeTimeout is off (SessionTtl has it on).              *)
(***************************************************************************)
EXTENDS Naturals, FiniteSets

CONSTANTS
  Devices, Tokens, Reqs,
  DefaultDevice,   \* the device renewTimeout takes for a token not listed
  Timeout,         \* config.timeout
  RefreshTimeouts, \* those refreshes end up with: the argument, or lifecycle.expiration.ttl
  Timeouts,        \* the timeouts passed to login; one beyond MaxTime is -1
  RenewTimeouts,   \* the timeouts passed to renewTimeout
  Ops, Modes,
  Overlap,         \* which operations may be in flight together
  MaxTime,         \* bound on the clock
  MaxAborts,       \* bound on the operations that stop half-way
  Revoked,         \* the family status
  Null

(* With the reason left out, kickout, kickoutByDevice and logoutByDevice    *)
(* make the same store calls, and logout and kickoutByToken do.             *)
DeviceOps  == {"endDevice"}
TokenOps   == {"endToken", "refreshToken", "renewTimeout"}
AccountOps == {"logoutByLoginId", "forceLogout"}
AllOps     == {"login"} \cup DeviceOps \cup TokenOps \cup AccountOps

ASSUME JwtAssumption ==
  /\ DefaultDevice \in Devices
  /\ Timeout \in Nat \ {0} /\ RefreshTimeouts \subseteq Nat \ {0}
  /\ MaxTime \in Nat /\ MaxAborts \in Nat
  /\ Timeouts \subseteq Nat \ {0} /\ RenewTimeouts \subseteq Nat \ {0}
  /\ Ops \subseteq AllOps /\ Modes \subseteq {"single", "replace", "share", "several"}
  /\ Overlap \in {"any", "devices", "refreshes"}
  /\ Null \notin Devices \cup Tokens \cup AllOps \cup Nat \cup {Revoked}
  /\ Null \notin [value: Tokens \cup [Devices -> Tokens \cup {Null}], end: Nat]

VARIABLES
  mode,      \* the login mode, fixed at start
  now, aborts,
  exp,       \* the exp claim of each token signed so far
  session,   \* login:session: the jti of the device's token
  list,      \* login:session-list: the token of each listed device
  black,     \* jwt-blacklist:<jti>: when the entry ends; its reason is left out
  family,    \* the family state of each token: a generation, or Revoked
  req,       \* the operation in flight in each slot
  place,     \* history: the device a token was signed for
  life,      \* history: the timeout it was signed with
  handed,    \* history: the tokens clients hold
  revoked,   \* history: the tokens some operation has blacklisted
  forked,    \* history: devices where two refreshes retired the same token
  unwritten  \* history: some loop went on without the blacklist entry

store == <<session, list, black, family>>
past  == <<place, life, handed, revoked, forked, unwritten>>
vars  == <<mode, now, aborts, exp, store, req, past>>

Index == [Devices -> Tokens \cup {Null}]
Empty == [d \in Devices |-> Null]

Entry(S)    == [value: S, end: Nat] \cup {Null}
Put(v, ttl) == [value |-> v, end |-> now + ttl]
Get(e)      == IF e = Null THEN Null ELSE e.value
Left(e)     == IF e # Null /\ e.end <= now + 1 THEN Null ELSE e
Listed      == IF list = Null THEN Empty ELSE list.value

Signed   == {t \in Tokens : exp[t] # Null}
Verified(t) == exp[t] # Null /\ now < exp[t]

(* _resolveLoginIdJwt *)
Accepts(t) == Verified(t) /\ black[t] = Null

-----------------------------------------------------------------------------
PCs == {"idle", "readSession", "readAll", "readInfo", "readBlack", "sign",
        "readFamily", "casFamily", "replayRead", "replayCas", "writeFamily",
        "setBlack", "dropSession", "removeList", "dropList", "writeSession",
        "addList", "touch"}

Request ==
  [op: AllOps \cup {Null}, pc: PCs,
   home: Devices \cup {Null},             \* the device of a login
   at: Devices \cup {Null},               \* the device worked on now
   token: Tokens \cup {Null},             \* the token, or jti, in hand
   next: Tokens \cup {Null},              \* the token to be handed out
   seen: Nat \cup {Revoked, Null},      \* the family state a CAS expects
   ttl: Nat,
   todo: Index]

Idle == [op |-> Null, pc |-> "idle", home |-> Null, at |-> Null, token |-> Null,
         next |-> Null, seen |-> Null, ttl |-> 0, todo |-> Empty]

Running(r) == req[r].pc # "idle"

Scope(q) ==
  IF q.op \in AccountOps \/ (q.op = "login" /\ mode = "single") THEN Devices
  ELSE IF q.op \in TokenOps THEN {place[q.token]} ELSE {q.at}

MayStart(q) ==
  \A r \in Reqs : Running(r) =>
    \/ Overlap = "any"
    \/ Scope(req[r]) \cap Scope(q) = {} /\ Overlap = "devices"
    \/ req[r].op = "refreshToken" /\ q.op = "refreshToken" /\ Overlap = "refreshes"

Become(r, q) == req' = [req EXCEPT ![r] = q]
Go(r, q)     == Become(r, q) /\ UNCHANGED <<mode, now, aborts, exp, store, past>>

Start(r, q) == ~Running(r) /\ q.op \in Ops /\ MayStart(q) /\ Go(r, q)

StartLogin(r, d, ttl) ==
  Start(r, [Idle EXCEPT !.op = "login", !.pc = "readSession", !.home = d, !.at = d, !.ttl = ttl])

StartDeviceOp(r, op, d) == Start(r, [Idle EXCEPT !.op = op, !.pc = "readSession", !.at = d])
StartAccountOp(r, op)   == Start(r, [Idle EXCEPT !.op = op, !.pc = "readAll"])

(* logout, kickoutByToken, refreshToken and renewTimeout return when the    *)
(* token does not verify.                                                   *)
StartTokenOp(r, op, t, ttl) ==
  /\ Verified(t) /\ t \in handed
  /\ Start(r, [Idle EXCEPT !.op = op, !.token = t, !.ttl = ttl,
                           !.pc = IF op = "endToken" THEN "setBlack"
                                  ELSE "readBlack"])

-----------------------------------------------------------------------------
(* What the loops over the device list do next.  logoutByLoginId passes     *)
(* over a device whose token has expired, a single-mode login only over its *)
(* blacklist entry.                                                         *)
Visit(q, d) ==
  LET v == [q EXCEPT !.at = d, !.token = q.todo[d], !.todo = [q.todo EXCEPT ![d] = Null]] IN
  IF q.op = "forceLogout" THEN [v EXCEPT !.pc = "readSession", !.token = Null]
  ELSE [v EXCEPT !.pc = IF Verified(q.todo[d]) THEN "setBlack" ELSE "dropSession"]

(* One call of Visit per remaining device, in any order; a login then goes  *)
(* back to its own.                                                         *)
NextDevice(q) ==
  LET skips == {d \in Devices : q.op = "logoutByLoginId" /\ q.todo[d] # Null
                                /\ ~Verified(q.todo[d])}
      left  == {d \in Devices \ skips : q.todo[d] # Null}
  IN  IF left # {} THEN {Visit(q, d) : d \in left}
      ELSE IF q.op = "forceLogout" THEN {Idle}
      ELSE {[q EXCEPT !.pc = "dropList", !.at = q.home, !.token = Null, !.todo = Empty]}

(* login: which branch, from the session value it read. *)
LoginBranch(q, s) ==
  IF mode = "single" THEN [q EXCEPT !.pc = "readAll"]
  ELSE IF s # Null /\ mode = "replace" THEN [q EXCEPT !.pc = "setBlack", !.token = s]
  ELSE IF s # Null /\ mode = "share" THEN [q EXCEPT !.pc = "readInfo"]
  ELSE [q EXCEPT !.pc = "sign"]

ReadSession(r) ==
  LET q == req[r]
      s == Get(session[q.at])
  IN  /\ q.pc = "readSession"
      /\ \/ q.op = "login" /\ Go(r, LoginBranch(q, s))
         \/ q.op # "login" /\ s # Null /\ Go(r, [q EXCEPT !.pc = "setBlack", !.token = s])
         \/ q.op \in DeviceOps /\ s = Null /\ Go(r, Idle)
         \/ q.op = "forceLogout" /\ s = Null /\ \E n \in NextDevice(q) : Go(r, n)

ReadAll(r) ==
  LET q == req[r] IN
  /\ q.pc = "readAll"
  /\ \/ list = Null /\ Go(r, IF q.op = "login" THEN [q EXCEPT !.pc = "sign"] ELSE Idle)
     \/ list # Null /\ \E n \in NextDevice([q EXCEPT !.todo = Listed]) : Go(r, n)

(* getDeviceList, then list.find: by device in a sharing login, by token in *)
(* the others.                                                              *)
ReadInfo(r) ==
  LET q == req[r]
      mine  == {d \in Devices : Listed[d] = q.token}
      reusable == Listed[q.at]
  IN  /\ q.pc = "readInfo"
      /\ \/ /\ q.op = "login"
            /\ Go(r, IF reusable # Null /\ Verified(reusable)
                     THEN [q EXCEPT !.pc = "readBlack", !.token = reusable]
                     ELSE [q EXCEPT !.pc = "sign"])
         \/ /\ q.op = "renewTimeout"
            /\ \/ mine = {} /\ Go(r, [q EXCEPT !.pc = "touch", !.at = DefaultDevice])
               \/ \E d \in mine : Go(r, [q EXCEPT !.pc = "touch", !.at = d])
         \/ /\ q.op = "endToken"
            /\ \/ mine = {} /\ Go(r, Idle)
               \/ \E d \in mine : Go(r, [q EXCEPT !.pc = "dropSession", !.at = d])

(* Mutant: a sharing login does not ask for the blacklist. *)
ReadBlackNotShared(r) ==
  LET q == req[r]
      listed == black[q.token] # Null
  IN  /\ q.pc = "readBlack"
      /\ \/ q.op = "login" /\ ~Verified(q.token) /\ Go(r, Idle)
         \/ q.op = "login" /\ Verified(q.token)
            /\ Go(r, [q EXCEPT !.pc = "writeSession", !.next = q.token])
         \/ q.op # "login" /\ listed /\ Go(r, Idle)
         \/ q.op = "refreshToken" /\ ~listed /\ Go(r, [q EXCEPT !.pc = "readFamily"])
         \/ q.op = "renewTimeout" /\ ~listed /\ Go(r, [q EXCEPT !.pc = "readInfo"])

(* A sharing login reuses the token unless it is blacklisted, and rejects   *)
(* when the token has expired since it was looked at.                       *)
ReadBlack(r) ==
  LET q == req[r]
      listed == black[q.token] # Null
  IN  /\ q.pc = "readBlack"
      /\ \/ q.op = "login" /\ listed /\ Go(r, [q EXCEPT !.pc = "sign", !.token = Null])
         \/ q.op = "login" /\ ~listed /\ ~Verified(q.token) /\ Go(r, Idle)
         \/ q.op = "login" /\ ~listed /\ Verified(q.token)
            /\ Go(r, [q EXCEPT !.pc = "writeSession", !.next = q.token])
         \/ q.op # "login" /\ listed /\ Go(r, Idle)
         \/ q.op = "refreshToken" /\ ~listed /\ Go(r, [q EXCEPT !.pc = "readFamily"])
         \/ q.op = "renewTimeout" /\ ~listed /\ Go(r, [q EXCEPT !.pc = "readInfo"])

-----------------------------------------------------------------------------
(* createToken and its verification, up to the next store call. *)
Sign(t, d, ttl) ==
  /\ exp[t] = Null
  /\ exp' = [exp EXCEPT ![t] = now + ttl]
  /\ place' = [place EXCEPT ![t] = d]
  /\ life' = [life EXCEPT ![t] = ttl]

LoginSigns(r) ==
  LET q == req[r] IN
  /\ q.pc = "sign"
  /\ \E t \in Tokens :
       /\ Sign(t, q.at, q.ttl)
       /\ Become(r, [q EXCEPT !.pc = "writeSession", !.next = t])
  /\ UNCHANGED <<mode, now, aborts, store, handed, revoked, forked, unwritten>>

ReadFamily(r) ==
  LET q == req[r]
      f == family[q.token]
  IN  /\ q.pc = "readFamily"
      /\ \/ f \in {Null, Revoked} /\ Go(r, Idle)
         \/ /\ f \notin {Null, Revoked}
            /\ \E t \in Tokens, ttl \in RefreshTimeouts :
                 /\ Sign(t, place[q.token], ttl)
                 /\ Become(r, [q EXCEPT !.pc = "casFamily", !.next = t, !.seen = f,
                                        !.at = place[q.token], !.ttl = ttl])
            /\ UNCHANGED <<mode, now, aborts, store, handed, revoked, forked, unwritten>>

CasFamily(r) ==
  LET q == req[r] IN
  /\ q.pc = "casFamily"
  /\ \/ /\ family[q.token] = q.seen
        /\ family' = [family EXCEPT ![q.token] = q.seen + 1]
        /\ Become(r, [q EXCEPT !.pc = "writeFamily", !.seen = q.seen + 1])
        /\ UNCHANGED <<mode, now, aborts, exp, session, list, black, past>>
     \/ /\ family[q.token] # q.seen
        /\ Go(r, [q EXCEPT !.pc = "replayRead"])

(* revokeFamilyAfterReplay *)
ReplayRead(r) ==
  LET q == req[r] IN
  /\ q.pc = "replayRead"
  /\ Go(r, [q EXCEPT !.pc = "replayCas", !.seen = family[q.token]])

ReplayCas(r) ==
  LET q == req[r] IN
  /\ q.pc = "replayCas"
  /\ family' = IF family[q.token] = q.seen
               THEN [family EXCEPT ![q.token] = Revoked] ELSE family
  /\ Become(r, Idle)
  /\ UNCHANGED <<mode, now, aborts, exp, session, list, black, past>>

(* The next token's state: by refreshToken before it retires the old token, *)
(* by createTokenFamily at the end of a login, which then returns.          *)
WriteFamily(r) ==
  LET q == req[r] IN
  /\ q.pc = "writeFamily"
  /\ \/ /\ q.op = "refreshToken"
        /\ family' = [family EXCEPT ![q.next] = q.seen]
        /\ Become(r, [q EXCEPT !.pc = "setBlack"])
        /\ UNCHANGED handed
     \/ /\ q.op = "login"
        /\ family' = [family EXCEPT ![q.next] = 0]
        /\ handed' = handed \cup {q.next}
        /\ Become(r, Idle)
  /\ UNCHANGED <<mode, now, aborts, exp, session, list, black, place, life, revoked, forked, unwritten>>

AfterBlack(q) ==
  CASE q.op = "endToken" -> "readInfo"
    [] q.op = "refreshToken" -> "writeSession"
    [] OTHER -> "dropSession"

(* A refresh that finds its token blacklisted by now retires it a second    *)
(* time, without looking.                                                   *)
Forks(q) ==
  forked \cup (IF q.op = "refreshToken" /\ black[q.token] # Null THEN {q.at} ELSE {})

(* Mutant: the entry lives as long as the new token is to live. *)
SetBlackOfLogin(r) ==
  LET q == req[r] IN
  /\ q.pc = "setBlack"
  /\ black' = [black EXCEPT ![q.token] =
                 now + (IF q.op \in {"refreshToken", "login"} THEN q.ttl ELSE Timeout)]
  /\ revoked' = revoked \cup {q.token}
  /\ forked' = Forks(q)
  /\ Become(r, [q EXCEPT !.pc = AfterBlack(q)])
  /\ UNCHANGED <<mode, now, aborts, exp, session, list, family, place, life, handed, unwritten>>

SetBlack(r) ==
  LET q == req[r] IN
  /\ q.pc = "setBlack"
  /\ black' = [black EXCEPT ![q.token] =
                 now + (IF q.op = "refreshToken" THEN q.ttl ELSE Timeout)]
  /\ revoked' = revoked \cup {q.token}
  /\ forked' = Forks(q)
  /\ Become(r, [q EXCEPT !.pc = AfterBlack(q)])
  /\ UNCHANGED <<mode, now, aborts, exp, session, list, family, place, life, handed, unwritten>>

DropSession(r) ==
  LET q == req[r] IN
  /\ q.pc = "dropSession"
  /\ session' = [session EXCEPT ![q.at] = Null]
  /\ \/ /\ q.op = "login" /\ mode = "replace"
        /\ Become(r, [q EXCEPT !.pc = "sign", !.token = Null])
     \/ /\ q.op = "logoutByLoginId" \/ (q.op = "login" /\ mode = "single")
        /\ \E n \in NextDevice(q) : Become(r, n)
     \/ /\ q.op \notin {"login", "logoutByLoginId"}
        /\ Become(r, [q EXCEPT !.pc = "removeList"])
  /\ UNCHANGED <<mode, now, aborts, exp, list, black, family, past>>

(* _removeFromSessionList *)
Without(d) ==
  LET left == [Listed EXCEPT ![d] = Null] IN
  IF list = Null \/ left = Empty THEN Null ELSE [list EXCEPT !.value = left]

RemoveList(r) ==
  LET q == req[r] IN
  /\ q.pc = "removeList"
  /\ list' = Without(q.at)
  /\ IF q.op = "forceLogout" THEN \E n \in NextDevice(q) : Become(r, n) ELSE Become(r, Idle)
  /\ UNCHANGED <<mode, now, aborts, exp, session, black, family, past>>

DropList(r) ==
  LET q == req[r] IN
  /\ q.pc = "dropList"
  /\ list' = Null
  /\ Become(r, IF q.op = "login" THEN [q EXCEPT !.pc = "sign"] ELSE Idle)
  /\ UNCHANGED <<mode, now, aborts, exp, session, black, family, past>>

(* Mutant: the session key takes the token in hand, not the new one. *)
WriteSessionOld(r) ==
  LET q == req[r] IN
  /\ q.pc = "writeSession"
  /\ session' = [session EXCEPT ![q.at] = Put(q.token, q.ttl)]
  /\ Become(r, [q EXCEPT !.pc = "addList"])
  /\ UNCHANGED <<mode, now, aborts, exp, list, black, family, past>>

WriteSession(r) ==
  LET q == req[r] IN
  /\ q.pc = "writeSession"
  /\ session' = [session EXCEPT ![q.at] = Put(q.next, q.ttl)]
  /\ Become(r, [q EXCEPT !.pc = "addList"])
  /\ UNCHANGED <<mode, now, aborts, exp, list, black, family, past>>

AddList(r) ==
  LET q == req[r] IN
  /\ q.pc = "addList"
  /\ list' = Put([Listed EXCEPT ![q.at] = q.next], q.ttl)
  /\ \/ /\ q.op = "login"
        /\ Become(r, [q EXCEPT !.pc = "writeFamily"])
        /\ UNCHANGED handed
     \/ /\ q.op = "refreshToken"
        /\ Become(r, Idle)
        /\ handed' = handed \cup {q.next}
  /\ UNCHANGED <<mode, now, aborts, exp, session, black, family, place, life, revoked, forked, unwritten>>

(* touchStoreValue; a missing key makes renewTimeout return null. *)
Touch(r) ==
  LET q == req[r] IN
  /\ q.pc = "touch"
  /\ session' = IF session[q.at] = Null THEN session
                ELSE [session EXCEPT ![q.at].end = now + q.ttl]
  /\ Become(r, Idle)
  /\ UNCHANGED <<mode, now, aborts, exp, list, black, family, past>>

(* The write of a blacklist entry rejects.  The try block around it in the  *)
(* loops of logoutByLoginId and of a single-mode login is meant for tokens  *)
(* that do not verify: the loop goes on.                                    *)
SetBlackFails(r) ==
  LET q == req[r]
  IN  /\ q.pc = "setBlack" /\ aborts < MaxAborts
      /\ aborts' = aborts + 1
      /\ \/ q.op = "logoutByLoginId" /\ \E n \in NextDevice(q) : Become(r, n)
         \/ q.op = "login" /\ mode = "single" /\ Become(r, [q EXCEPT !.pc = "dropSession"])
      /\ unwritten' = TRUE
      /\ UNCHANGED <<mode, now, exp, store, place, life, handed, revoked, forked>>

(* Another store call rejects, or the process stops. *)
Abort(r) ==
  /\ Running(r) /\ aborts < MaxAborts
  /\ aborts' = aborts + 1
  /\ Become(r, Idle)
  /\ UNCHANGED <<mode, now, exp, store, past>>

(* Nothing reads the family state or the history of a token that has        *)
(* expired, so both are dropped here.                                       *)
Tick ==
  /\ now < MaxTime /\ \A r \in Reqs : ~Running(r)
  /\ now' = now + 1
  /\ session' = [d \in Devices |-> Left(session[d])]
  /\ list' = Left(list)
  /\ black' = [t \in Tokens |-> IF black[t] = now + 1 THEN Null ELSE black[t]]
  /\ LET left == {t \in Tokens : exp[t] # Null /\ exp[t] > now + 1}
         Keep(f) == [t \in Tokens |-> IF t \in left THEN f[t] ELSE Null]
     IN  /\ place' = Keep(place) /\ life' = Keep(life)
         /\ family' = Keep(family)
         /\ handed' = handed \cap left /\ revoked' = revoked \cap left
         /\ forked' = IF mode = "single" /\ left # {} THEN forked
                      ELSE forked \cap {place[t] : t \in left}
  /\ UNCHANGED <<mode, aborts, exp, req, unwritten>>

-----------------------------------------------------------------------------
Init ==
  /\ mode \in Modes /\ now = 0 /\ aborts = 0
  /\ exp = [t \in Tokens |-> Null]
  /\ session = [d \in Devices |-> Null]
  /\ list = Null
  /\ black = [t \in Tokens |-> Null]
  /\ family = [t \in Tokens |-> Null]
  /\ req = [r \in Reqs |-> Idle]
  /\ place = [t \in Tokens |-> Null]
  /\ life = [t \in Tokens |-> Null]
  /\ handed = {} /\ revoked = {} /\ forked = {} /\ unwritten = FALSE

Step(r) ==
  \/ ReadSession(r) \/ ReadAll(r) \/ ReadInfo(r) \/ ReadBlack(r) \/ LoginSigns(r)
  \/ ReadFamily(r) \/ CasFamily(r) \/ ReplayRead(r) \/ ReplayCas(r) \/ WriteFamily(r)
  \/ SetBlack(r) \/ SetBlackFails(r) \/ DropSession(r) \/ RemoveList(r) \/ DropList(r)
  \/ WriteSession(r) \/ AddList(r) \/ Touch(r) \/ Abort(r)

Next ==
  \/ \E r \in Reqs :
       \/ \E d \in Devices, ttl \in Timeouts : StartLogin(r, d, ttl)
       \/ \E d \in Devices, op \in DeviceOps : StartDeviceOp(r, op, d)
       \/ \E op \in AccountOps : StartAccountOp(r, op)
       \/ \E t \in Tokens, op \in TokenOps \ {"renewTimeout"} : StartTokenOp(r, op, t, 0)
       \/ \E t \in Tokens, ttl \in RenewTimeouts : StartTokenOp(r, "renewTimeout", t, ttl)
       \/ Step(r)
  \/ Tick

Spec == Init /\ [][Next]_vars

-----------------------------------------------------------------------------
TypeOK ==
  /\ mode \in Modes /\ now \in Nat /\ aborts \in Nat
  /\ exp \in [Tokens -> Nat \cup {Null}]
  /\ session \in [Devices -> Entry(Tokens)]
  /\ list \in Entry(Index)
  /\ black \in [Tokens -> Nat \cup {Null}]
  /\ family \in [Tokens -> Nat \cup {Revoked, Null}]
  /\ req \in [Reqs -> Request]
  /\ place \in [Tokens -> Devices \cup {Null}]
  /\ life \in [Tokens -> Nat \cup {Null}]
  /\ handed \subseteq Tokens /\ revoked \subseteq Tokens
  /\ forked \subseteq Devices \cup {Null} /\ unwritten \in BOOLEAN

(* A token whose own timeout is no longer than the ttl of any blacklist     *)
(* entry: a token whose login passed a timeout beyond config.timeout, and   *)
(* one retired by a refresh with a shorter timeout than its own, outlive    *)
(* their blacklist entry and are accepted again.                            *)
Covered(t) == life[t] # Null /\ \A ttl \in RefreshTimeouts \cup {Timeout} : life[t] <= ttl

(* Whoever revoked the token and however often, whatever races and failures *)
(* followed, a covered token is never accepted again: no later blacklist    *)
(* entry for it ends before its exp.                                        *)
RevokedStaysOut == \A t \in revoked : Covered(t) => ~Accepts(t)

(* isConcurrent = false: clients hold at most one accepted token for a      *)
(* device, at every moment, across refreshes, renewals, expiry, and         *)
(* operations that stop half-way.  The exception is a device on which two   *)
(* overlapping refreshes took the same token, until everything signed there *)
(* has expired.                                                             *)
OneTokenPerDevice ==
  mode = "replace" =>
    \A t, u \in handed :
      t # u /\ place[t] = place[u] /\ place[t] \notin forked /\ Covered(t) /\ Covered(u)
        => ~(Accepts(t) /\ Accepts(u))

(* deviceConcurrent = false: at most one in the whole account, or until all *)
(* its tokens have expired if a token was taken so on any device.           *)
OneTokenPerAccount ==
  mode = "single" /\ ~unwritten /\ forked = {} =>
    \A t, u \in handed : t # u /\ Covered(t) /\ Covered(u) => ~(Accepts(t) /\ Accepts(u))

(* A login hands out a token that is accepted, unless its time ran out on   *)
(* the way: in particular sharing never hands out a token that an operation *)
(* which stopped half-way had already blacklisted.                          *)
LoginHandsOutAccepted ==
  [][\A r \in Reqs :
       req[r].op = "login" /\ req[r].next \in handed' /\ req'[r].pc = "idle"
         /\ req[r].pc = "writeFamily"
       => Accepts(req[r].next) \/ ~Verified(req[r].next)]_vars

(* The modes that kick out leave one accepted token, on each device or in   *)
(* the whole account.                                                       *)
KickingLeavesOne == OneTokenPerDevice /\ OneTokenPerAccount
=============================================================================
