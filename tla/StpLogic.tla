------------------------------ MODULE StpLogic ------------------------------
(***************************************************************************)
(* The session engine of xlt-token (StpLogic) with an opaque token         *)
(* strategy over a shared store.  Every operation of StpLogic is a         *)
(* sequence of awaited store calls; other operations, of this process or   *)
(* of another one on the same store, may run between two of them.  A       *)
(* request below is one such operation in flight, and each action below is *)
(* the code from one await to the next, with exactly one store call.       *)
(*                                                                         *)
(* Left out here: expiry (timeout = -1), the JWT branches, token families, *)
(* lastActive keys, offline records, audit events.                         *)
(***************************************************************************)
EXTENDS Naturals, FiniteSets

CONSTANTS
  LoginIds, Devices, Tokens,
  Reqs,            \* slots for operations in flight; a slot is reused
  Ops,             \* the operations clients call in this instance
  Configs,         \* the configurations the instance may be started with
  Overlap,         \* which operations on one account may be in flight together
  MayAbort,        \* whether an operation may be cut short by a failure
  KICK_OUT, BE_REPLACED, Null

Markers == {KICK_OUT, BE_REPLACED}

DeviceOps  == {"kickout", "kickoutByDevice", "logoutByDevice"}
TokenOps   == {"logout", "kickoutByToken"}
AccountOps == {"logoutByLoginId", "forceLogout"}
AllOps     == {"login"} \cup DeviceOps \cup TokenOps \cup AccountOps

ASSUME ValuesAssumption ==
  /\ Null \notin LoginIds \cup Devices \cup Tokens \cup Markers \cup AllOps
  /\ Markers \cap LoginIds = {}
  /\ Null \notin LoginIds \X Devices

ASSUME InstanceAssumption ==
  /\ Configs \subseteq [deviceConcurrent: BOOLEAN, isConcurrent: BOOLEAN, isShare: BOOLEAN]
  /\ Ops \subseteq AllOps
  /\ Overlap \in {"any", "devices", "none"}
  /\ MayAbort \in BOOLEAN

VARIABLES
  config,    \* the XltTokenConfig of the instance, fixed at start
  tokenKey,  \* login:token:<token>: the account, a marker, or no entry
  session,   \* login:session:<loginId>:<device>: the device's token
  list,      \* login:session-list:<loginId>: the token of each listed device
  data,      \* login:session-data:<loginId>: whether the entry exists
  req,       \* the operation in flight in each slot
  owner,     \* history: the account and device a token was created for
  handed     \* history: the tokens login() has returned to a client

store == <<tokenKey, session, list, data>>
vars  == <<config, tokenKey, session, list, data, req, owner, handed>>

-----------------------------------------------------------------------------
(* Requests *)

PCs == {"idle", "failed", "readSession", "readMapped", "readAll", "readToken",
        "readMark", "casMark", "dropToken", "findDevice", "dropSession",
        "dropList", "readRemove", "casRemove", "countList", "dropData",
        "writeToken", "writeSession", "readAdd", "casAdd"}

Index == [Devices -> Tokens \cup {Null}]   \* a value of the list key
Empty == [d \in Devices |-> Null]          \* ... when the key is absent

Request ==
  [op: AllOps \cup {Null}, pc: PCs,
   login: LoginIds \cup {Null},            \* the account worked on
   device: Devices \cup {Null},            \* the device argument
   at: Devices \cup {Null},                \* the device worked on now
   token: Tokens \cup {Null},              \* the token in hand
   seen: LoginIds \cup Markers \cup {Null},\* tokenKey value read before a CAS
   old: Index,                             \* list value read before a CAS
   todo: Index]                            \* devices a loop has still to visit

Idle ==
  [op |-> Null, pc |-> "idle", login |-> Null, device |-> Null, at |-> Null,
   token |-> Null, seen |-> Null, old |-> Empty, todo |-> Empty]

Failed == [Idle EXCEPT !.pc = "failed"]    \* the promise was rejected

Running(r) == req[r].pc \notin {"idle", "failed"}

Fresh == {t \in Tokens : owner[t] = Null}

Live(t) == tokenKey[t] \in LoginIds

Shares(c) == c.deviceConcurrent /\ c.isConcurrent /\ c.isShare
Multi(c)  == c.deviceConcurrent /\ c.isConcurrent /\ ~c.isShare

(* The account and the devices an operation works on. *)
Account(q) == IF q.op \in TokenOps THEN owner[q.token][1] ELSE q.login

Scope(q) ==
  IF q.op \in AccountOps \/ (q.op = "login" /\ ~config.deviceConcurrent) THEN Devices
  ELSE IF q.op \in TokenOps THEN {owner[q.token][2]} ELSE {q.device}

(* Overlap is the instance's assumption on its callers: nothing ("any"), no *)
(* two operations at once on one device ("devices") or account ("none").    *)
MayStart(q) ==
  \A r \in Reqs :
    Running(r) /\ Account(req[r]) = Account(q) =>
      \/ Overlap = "any"
      \/ Overlap = "devices" /\ Scope(req[r]) \cap Scope(q) = {}

Untouched(l, d) ==
  \A r \in Reqs : Running(r) => ~(Account(req[r]) = l /\ d \in Scope(req[r]))

(* Bound: a login starts only when a token is left for it to create. *)
TokenLeft ==
  Cardinality(Fresh) >
    Cardinality({r \in Reqs : req[r].op = "login"
                              /\ req[r].pc \notin {"writeSession", "readAdd", "casAdd"}})

Become(r, q) == req' = [req EXCEPT ![r] = q]

Start(r, q) ==
  /\ ~Running(r)
  /\ q.op \in Ops
  /\ MayStart(q)
  /\ Become(r, q)
  /\ UNCHANGED <<config, store, owner, handed>>

StartLogin(r, l, d) ==
  /\ TokenLeft
  /\ Start(r, [Idle EXCEPT !.op = "login", !.pc = "readSession",
                           !.login = l, !.device = d, !.at = d])

StartDeviceOp(r, op, l, d) ==
  Start(r, [Idle EXCEPT !.op = op, !.pc = "readSession",
                        !.login = l, !.device = d, !.at = d])

StartTokenOp(r, op, t) ==
  /\ t \notin Fresh
  /\ Start(r, [Idle EXCEPT !.op = op, !.pc = "readToken", !.token = t])

StartAccountOp(r, op, l) ==
  Start(r, [Idle EXCEPT !.op = op, !.pc = "readAll", !.login = l])

-----------------------------------------------------------------------------
(* The for-loops over a device list: the requests that may come next.  The  *)
(* order of the list is not kept, so any remaining device may be the next.  *)
LoopBody(q) ==
  CASE q.op = "login" -> "readMark"
    [] q.op = "logoutByLoginId" -> "dropToken"
    [] OTHER -> "readSession"

NextDevice(q) ==
  LET left == {d \in Devices : q.todo[d] # Null}
  IN  IF left # {}
      THEN {[q EXCEPT !.pc = LoopBody(q), !.at = d,
                      !.todo = [q.todo EXCEPT ![d] = Null],
                      !.token = IF q.op = "forceLogout" THEN Null ELSE q.todo[d]]
              : d \in left}
      ELSE IF q.op = "forceLogout" THEN {Idle}
      ELSE {[q EXCEPT !.pc = "dropList", !.at = Null, !.token = Null]}

(* Mutant: no login marks or kicks what it replaces. *)
LoginBranchNoKick(q, s) ==
  IF s # Null /\ config.isShare THEN [q EXCEPT !.pc = "readMapped", !.token = s]
  ELSE [q EXCEPT !.pc = "writeToken"]

(* Mutant: every login reuses the device's token, mapped or not. *)
LoginBranchReuses(q, s) ==
  [q EXCEPT !.pc = "writeToken", !.token = s]

(* login()'s choice of branch from the session value it read. *)
LoginBranch(q, s) ==
  IF ~config.deviceConcurrent THEN [q EXCEPT !.pc = "readAll"]
  ELSE IF s # Null /\ ~config.isConcurrent THEN [q EXCEPT !.pc = "readMark", !.token = s]
  ELSE IF s # Null /\ config.isShare THEN [q EXCEPT !.pc = "readMapped", !.token = s]
  ELSE [q EXCEPT !.pc = "writeToken"]

ReadSession(r) ==
  LET q == req[r]
      s == session[q.login][q.at]
  IN  /\ q.pc = "readSession"
      /\ \/ q.op = "login" /\ Become(r, LoginBranch(q, s))
         \/ q.op \in DeviceOps /\ s = Null /\ Become(r, Idle)
         \/ q.op = "forceLogout" /\ s = Null /\ \E n \in NextDevice(q) : Become(r, n)
         \/ /\ q.op # "login" /\ s # Null
            /\ Become(r, [q EXCEPT !.token = s,
                                   !.pc = IF q.op = "logoutByDevice" THEN "dropToken"
                                          ELSE "readMark"])
      /\ UNCHANGED <<config, store, owner, handed>>

(* Sharing: the device's token is reused only while it maps to the account. *)
ReadMapped(r) ==
  LET q == req[r] IN
  /\ q.pc = "readMapped"
  /\ Become(r, [q EXCEPT !.pc = "writeToken",
                         !.token = IF tokenKey[q.token] = q.login THEN q.token ELSE Null])
  /\ UNCHANGED <<config, store, owner, handed>>

(* Mutant: only one of the listed devices is visited. *)
ReadAllFirst(r) ==
  LET q == req[r] IN
  /\ q.pc = "readAll"
  /\ IF list[q.login] = Empty
     THEN Become(r, IF q.op = "login" THEN [q EXCEPT !.pc = "writeToken"] ELSE Idle)
     ELSE \E d \in Devices :
            /\ list[q.login][d] # Null
            /\ \E n \in NextDevice([q EXCEPT !.todo = [Empty EXCEPT ![d] = list[q.login][d]]]) :
                 Become(r, n)
  /\ UNCHANGED <<config, store, owner, handed>>

ReadAll(r) ==
  LET q == req[r] IN
  /\ q.pc = "readAll"
  /\ \/ /\ list[q.login] = Empty
        /\ Become(r, IF q.op = "login" THEN [q EXCEPT !.pc = "writeToken"] ELSE Idle)
     \/ /\ list[q.login] # Empty
        /\ \E n \in NextDevice([q EXCEPT !.todo = list[q.login]]) : Become(r, n)
  /\ UNCHANGED <<config, store, owner, handed>>

(* logout() takes whatever the entry holds for a loginId, a marker too;     *)
(* kickoutByToken() returns on a marker.                                    *)
ReadToken(r) ==
  LET q == req[r]
      v == tokenKey[q.token]
  IN  /\ q.pc = "readToken"
      /\ \/ v = Null /\ Become(r, Idle)
         \/ v \in Markers /\ q.op = "kickoutByToken" /\ Become(r, Idle)
         \/ v \in Markers /\ q.op = "logout" /\ Become(r, [q EXCEPT !.pc = "dropToken"])
         \/ /\ v \in LoginIds
            /\ Become(r, [q EXCEPT !.login = v,
                                   !.pc = IF q.op = "logout" THEN "dropToken"
                                          ELSE "readMark"])
      /\ UNCHANGED <<config, store, owner, handed>>

(* replaceStoreValueKeepingTtl: a get, which rejects when the key is gone,  *)
(* then a compare-and-set whose result nobody looks at.                     *)
ReadMark(r) ==
  LET q == req[r]
      v == tokenKey[q.token]
  IN  /\ q.pc = "readMark"
      /\ Become(r, IF v = Null THEN Failed ELSE [q EXCEPT !.pc = "casMark", !.seen = v])
      /\ UNCHANGED <<config, store, owner, handed>>

Marker(q) == IF q.op = "login" /\ config.deviceConcurrent THEN BE_REPLACED ELSE KICK_OUT

CasMark(r) ==
  LET q == req[r] IN
  /\ q.pc = "casMark"
  /\ tokenKey' = IF tokenKey[q.token] = q.seen
                 THEN [tokenKey EXCEPT ![q.token] = Marker(q)] ELSE tokenKey
  /\ Become(r, [q EXCEPT !.seen = Null,
                         !.pc = IF q.op = "kickoutByToken" THEN "findDevice"
                                ELSE "dropSession"])
  /\ UNCHANGED <<config, session, list, data, owner, handed>>

(* Mutant: logoutByDevice forgets the session key. *)
DropTokenOnly(r) ==
  LET q == req[r] IN
  /\ q.pc = "dropToken"
  /\ tokenKey' = [tokenKey EXCEPT ![q.token] = Null]
  /\ IF q.login = Null THEN Become(r, Idle)
     ELSE Become(r, [q EXCEPT !.pc = CASE q.op = "logout" -> "findDevice"
                                       [] q.op = "logoutByDevice" -> "readRemove"
                                       [] OTHER -> "dropSession"])
  /\ UNCHANGED <<config, session, list, data, owner, handed>>

(* A logout of a marked token ends here: its later calls address the keys   *)
(* of an account that does not exist.                                       *)
DropToken(r) ==
  LET q == req[r] IN
  /\ q.pc = "dropToken"
  /\ tokenKey' = [tokenKey EXCEPT ![q.token] = Null]
  /\ \/ q.login = Null /\ Become(r, Idle)
     \/ q.login # Null /\ Become(r, [q EXCEPT !.pc = IF q.op = "logout" THEN "findDevice"
                                                     ELSE "dropSession"])
  /\ UNCHANGED <<config, session, list, data, owner, handed>>

(* list.find((d) => d.token === token) *)
FindDevice(r) ==
  LET q == req[r]
      found == {d \in Devices : list[q.login][d] = q.token}
  IN  /\ q.pc = "findDevice"
      /\ \/ \E d \in found : Become(r, [q EXCEPT !.pc = "dropSession", !.at = d])
         \/ /\ found = {}
            /\ Become(r, IF q.op = "logout" THEN [q EXCEPT !.pc = "countList"] ELSE Idle)
      /\ UNCHANGED <<config, store, owner, handed>>

DropSession(r) ==
  LET q == req[r] IN
  /\ q.pc = "dropSession"
  /\ session' = [session EXCEPT ![q.login][q.at] = Null]
  /\ \/ /\ q.op = "login" /\ config.deviceConcurrent
        /\ Become(r, [q EXCEPT !.pc = "writeToken", !.token = Null])
     \/ /\ q.op = "logoutByLoginId" \/ (q.op = "login" /\ ~config.deviceConcurrent)
        /\ \E n \in NextDevice(q) : Become(r, n)
     \/ /\ q.op \notin {"login", "logoutByLoginId"}
        /\ Become(r, [q EXCEPT !.pc = "readRemove"])
  /\ UNCHANGED <<config, tokenKey, list, data, owner, handed>>

DropList(r) ==
  LET q == req[r] IN
  /\ q.pc = "dropList"
  /\ list' = [list EXCEPT ![q.login] = Empty]
  /\ Become(r, [q EXCEPT !.pc = IF q.op = "login" THEN "writeToken" ELSE "dropData"])
  /\ UNCHANGED <<config, tokenKey, session, data, owner, handed>>

(* What follows _removeFromSessionList in each operation. *)
AfterRemove(q) ==
  IF q.op = "forceLogout" THEN NextDevice([q EXCEPT !.old = Empty])
  ELSE IF q.op \in {"logout", "kickout"} THEN {[q EXCEPT !.pc = "countList", !.old = Empty]}
  ELSE {Idle}

(* _removeFromSessionList: read, drop the device's entry, compare-and-set   *)
(* or compare-and-delete, and read again when the list has changed.         *)
ReadRemove(r) ==
  LET q == req[r] IN
  /\ q.pc = "readRemove"
  /\ \/ list[q.login] = Empty /\ \E n \in AfterRemove(q) : Become(r, n)
     \/ /\ list[q.login] # Empty
        /\ Become(r, [q EXCEPT !.pc = "casRemove", !.old = list[q.login]])
  /\ UNCHANGED <<config, store, owner, handed>>

(* Mutant: a plain set instead of a compare-and-set. *)
CasRemoveBlind(r) ==
  LET q == req[r] IN
  /\ q.pc = "casRemove"
  /\ list' = [list EXCEPT ![q.login] = [q.old EXCEPT ![q.at] = Null]]
  /\ \E n \in AfterRemove(q) : Become(r, n)
  /\ UNCHANGED <<config, tokenKey, session, data, owner, handed>>

(* Mutant: the retry does not read the list again. *)
CasRemoveStale(r) ==
  LET q == req[r] IN
  /\ q.pc = "casRemove"
  /\ IF list[q.login] = q.old
     THEN /\ list' = [list EXCEPT ![q.login] = [q.old EXCEPT ![q.at] = Null]]
          /\ \E n \in AfterRemove(q) : Become(r, n)
     ELSE UNCHANGED <<list, req>>
  /\ UNCHANGED <<config, tokenKey, session, data, owner, handed>>

CasRemove(r) ==
  LET q == req[r] IN
  /\ q.pc = "casRemove"
  /\ \/ /\ list[q.login] = q.old
        /\ list' = [list EXCEPT ![q.login] = [q.old EXCEPT ![q.at] = Null]]
        /\ \E n \in AfterRemove(q) : Become(r, n)
     \/ /\ list[q.login] # q.old
        /\ Become(r, [q EXCEPT !.pc = "readRemove", !.old = Empty])
        /\ UNCHANGED list
  /\ UNCHANGED <<config, tokenKey, session, data, owner, handed>>

CountList(r) ==
  LET q == req[r] IN
  /\ q.pc = "countList"
  /\ Become(r, IF list[q.login] = Empty THEN [q EXCEPT !.pc = "dropData"] ELSE Idle)
  /\ UNCHANGED <<config, store, owner, handed>>

DropData(r) ==
  LET q == req[r] IN
  /\ q.pc = "dropData"
  /\ data' = [data EXCEPT ![q.login] = FALSE]
  /\ Become(r, Idle)
  /\ UNCHANGED <<config, tokenKey, session, list, owner, handed>>

(* createToken and the first write: the strategy makes a token nobody has   *)
(* had before, unless the request reuses the one in hand.                   *)
WriteToken(r) ==
  LET q == req[r] IN
  /\ q.pc = "writeToken"
  /\ \E t \in IF q.token = Null THEN Fresh ELSE {q.token} :
       /\ tokenKey' = [tokenKey EXCEPT ![t] = q.login]
       /\ owner' = IF q.token = Null THEN [owner EXCEPT ![t] = <<q.login, q.device>>]
                   ELSE owner
       /\ Become(r, [q EXCEPT !.pc = "writeSession", !.token = t])
  /\ UNCHANGED <<config, session, list, data, handed>>

(* Mutant: the session key of every device. *)
WriteSessionEverywhere(r) ==
  LET q == req[r] IN
  /\ q.pc = "writeSession"
  /\ session' = [session EXCEPT ![q.login] = [d \in Devices |-> q.token]]
  /\ Become(r, [q EXCEPT !.pc = "readAdd"])
  /\ UNCHANGED <<config, tokenKey, list, data, owner, handed>>

WriteSession(r) ==
  LET q == req[r] IN
  /\ q.pc = "writeSession"
  /\ session' = [session EXCEPT ![q.login][q.device] = q.token]
  /\ Become(r, [q EXCEPT !.pc = "readAdd"])
  /\ UNCHANGED <<config, tokenKey, list, data, owner, handed>>

(* _addToSessionList: the same loop with setIfAbsent or compare-and-set.    *)
ReadAdd(r) ==
  LET q == req[r] IN
  /\ q.pc = "readAdd"
  /\ Become(r, [q EXCEPT !.pc = "casAdd", !.old = list[q.login]])
  /\ UNCHANGED <<config, store, owner, handed>>

(* Mutant: a plain set instead of a compare-and-set. *)
CasAddBlind(r) ==
  LET q == req[r] IN
  /\ q.pc = "casAdd"
  /\ list' = [list EXCEPT ![q.login] = [q.old EXCEPT ![q.device] = q.token]]
  /\ handed' = handed \cup {q.token}
  /\ Become(r, Idle)
  /\ UNCHANGED <<config, tokenKey, session, data, owner>>

CasAdd(r) ==
  LET q == req[r] IN
  /\ q.pc = "casAdd"
  /\ \/ /\ list[q.login] = q.old
        /\ list' = [list EXCEPT ![q.login] = [q.old EXCEPT ![q.device] = q.token]]
        /\ handed' = handed \cup {q.token}
        /\ Become(r, Idle)
     \/ /\ list[q.login] # q.old
        /\ Become(r, [q EXCEPT !.pc = "readAdd", !.old = Empty])
        /\ UNCHANGED <<list, handed>>
  /\ UNCHANGED <<config, tokenKey, session, data, owner>>

(* The process dies, or the store rejects the call: the rest is not run.    *)
Abort(r) ==
  /\ MayAbort /\ Running(r)
  /\ Become(r, Failed)
  /\ UNCHANGED <<config, store, owner, handed>>

(* The application writes session data for an account that is logged in.    *)
SetData(l) ==
  /\ list[l] # Empty /\ ~data[l]
  /\ Overlap = "none" => \A d \in Devices : Untouched(l, d)
  /\ data' = [data EXCEPT ![l] = TRUE]
  /\ UNCHANGED <<config, tokenKey, session, list, req, owner, handed>>

-----------------------------------------------------------------------------
Init ==
  /\ config \in Configs
  /\ tokenKey = [t \in Tokens |-> Null]
  /\ session = [l \in LoginIds |-> Empty]
  /\ list = [l \in LoginIds |-> Empty]
  /\ data = [l \in LoginIds |-> FALSE]
  /\ req = [r \in Reqs |-> Idle]
  /\ owner = [t \in Tokens |-> Null]
  /\ handed = {}

StartAny(r) ==
  \/ \E l \in LoginIds, d \in Devices :
       \/ StartLogin(r, l, d)
       \/ \E op \in DeviceOps : StartDeviceOp(r, op, l, d)
  \/ \E op \in TokenOps, t \in Tokens : StartTokenOp(r, op, t)
  \/ \E op \in AccountOps, l \in LoginIds : StartAccountOp(r, op, l)

Step(r) ==
  \/ ReadSession(r) \/ ReadMapped(r) \/ ReadAll(r) \/ ReadToken(r)
  \/ ReadMark(r) \/ CasMark(r) \/ DropToken(r) \/ FindDevice(r)
  \/ DropSession(r) \/ DropList(r) \/ ReadRemove(r) \/ CasRemove(r)
  \/ CountList(r) \/ DropData(r)
  \/ WriteToken(r) \/ WriteSession(r) \/ ReadAdd(r) \/ CasAdd(r)

Next ==
  \/ \E r \in Reqs : StartAny(r) \/ Step(r) \/ Abort(r)
  \/ \E l \in LoginIds : SetData(l)

Spec == Init /\ [][Next]_vars

(* Every awaited store call is answered, so a started request goes on.      *)
FairSpec == Spec /\ \A r \in Reqs : WF_vars(Step(r))

-----------------------------------------------------------------------------
TypeOK ==
  /\ config \in Configs
  /\ tokenKey \in [Tokens -> LoginIds \cup Markers \cup {Null}]
  /\ session \in [LoginIds -> Index]
  /\ list \in [LoginIds -> Index]
  /\ data \in [LoginIds -> BOOLEAN]
  /\ req \in [Reqs -> Request]
  /\ owner \in [Tokens -> (LoginIds \X Devices) \cup {Null}]
  /\ handed \subseteq Tokens

(* No key of one account or device ever leads to a token created for       *)
(* another: a client is never resolved to, and an operation on one account *)
(* or device never reaches, somebody else's session, whatever overlaps and *)
(* wherever operations are cut short (StpLogic.login, logout, kickout...). *)
Ownership ==
  /\ \A t \in Tokens : Live(t) => owner[t] # Null /\ tokenKey[t] = owner[t][1]
  /\ \A l \in LoginIds, d \in Devices :
       /\ session[l][d] # Null => owner[session[l][d]] = <<l, d>>
       /\ list[l][d] # Null => owner[list[l][d]] = <<l, d>>

(* A token that was created and has been revoked (logged out, kicked,       *)
(* replaced) is never accepted again.  A sharing login re-writes a token it *)
(* found valid some awaits earlier, and is excepted (README).               *)
RevocationIsFinal ==
  [][\A t \in Tokens :
       ~Shares(config) /\ owner[t] # Null /\ ~Live(t) => ~Live(t)']_vars

(* Every token a client holds and that is still accepted can be found by    *)
(* the operations that revoke by account or device: both the session key    *)
(* and the list lead to it.  Concurrent multi-token logins are excepted.    *)
EveryLiveTokenIsListed ==
  ~Multi(config) =>
    \A t \in handed : Live(t) =>
      LET l == owner[t][1]
          d == owner[t][2]
      IN  session[l][d] = t /\ list[l][d] = t

LiveOn(l, D) == {t \in handed : Live(t) /\ owner[t][1] = l /\ owner[t][2] \in D}

(* Mutual kick: with isConcurrent = false one device of an account never    *)
(* has two accepted tokens in clients' hands.                               *)
OneTokenPerDevice ==
  config.deviceConcurrent /\ ~config.isConcurrent =>
    \A l \in LoginIds, d \in Devices : Cardinality(LiveOn(l, {d})) <= 1

(* Single session: with deviceConcurrent = false an account never has two.  *)
OneTokenPerAccount ==
  ~config.deviceConcurrent => \A l \in LoginIds : Cardinality(LiveOn(l, Devices)) <= 1

Returns(r) == Running(r) /\ req'[r] = Idle

Targets(q) ==
  IF q.op \in TokenOps THEN {q.token} ELSE LiveOn(Account(q), Scope(q))

(* When a kickout, logout or forced logout returns, none of the tokens it   *)
(* was to revoke is accepted any more: the token it was given, or every     *)
(* token clients hold on the devices it addresses.                          *)
RevokedOnReturn ==
  [][\A r \in Reqs :
       Returns(r) /\ req[r].op # "login" /\ ~Multi(config) =>
         \A t \in Targets(req[r]) : ~Live(t)']_vars

(* The session key and the list are two indexes of the same facts, kept by  *)
(* separate writes: whenever no operation works on a device they agree, and *)
(* what they name is accepted.  Operations on other devices of the account  *)
(* may be in the middle of their compare-and-set loops.                     *)
IndexesAgree ==
  \A l \in LoginIds, d \in Devices :
    Untouched(l, d) =>
      /\ session[l][d] = list[l][d]
      /\ session[l][d] # Null => Live(session[l][d])

(* No operation rejects with "key not found": replaceStoreValueKeepingTtl   *)
(* always finds the token it marks.                                         *)
NeverThrows == \A r \in Reqs : req[r].pc # "failed"

(* Every operation that starts ends: the compare-and-set loops on the list  *)
(* come to an end although other operations change the list under them.     *)
(* Sharing is excepted: it rewrites entries with only their time changed,   *)
(* which the list here does not show.                                       *)
EveryRequestEnds == ~Shares(config) => \A r \in Reqs : Running(r) ~> ~Running(r)

(* Without sharing, the store-level engine, under any overlap of operations *)
(* and any failure, implements the token registry: a token stands for the   *)
(* account its entry names, and is revoked once it has been created and the *)
(* entry is gone or marked.                                                 *)
holder ==
  [t \in Tokens |->
     IF owner[t] = Null THEN Null ELSE IF Live(t) THEN tokenKey[t] ELSE KICK_OUT]

Registry == INSTANCE TokenRegistry WITH Unused <- Null, Revoked <- KICK_OUT

ImplementsRegistry == Registry!Spec

(* The modes that kick out leave one accepted token: isConcurrent = false   *)
(* one on each device, deviceConcurrent = false one in the whole account.   *)
KickingLeavesOne == OneTokenPerDevice /\ OneTokenPerAccount
=============================================================================
