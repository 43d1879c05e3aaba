--------------------------- MODULE TokenLifecycle ---------------------------
(***************************************************************************)
(* Refresh tokens (config.lifecycle.refresh.enabled) on top of StpLogic:   *)
(* login creates a family state for its token, refreshToken advances that  *)
(* state by compare-and-set and rotates the token, revoke ends a family.   *)
(* Calls of refreshToken and revoke run beside the operations of StpLogic  *)
(* on the same store, one store call at a time.                            *)
(*                                                                         *)
(* A state entry may expire at any time (its ttl is lifecycle.refresh.ttl, *)
(* or one second once it is revoked); refreshExpiresAt is the same moment. *)
(* The generation keys, which nothing reads, and audit events are left out.*)
(***************************************************************************)
EXTENDS StpLogic

CONSTANTS
  Calls,      \* slots for refreshToken and revoke calls in flight
  MayExpire   \* whether family states expire

ASSUME CallsAssumption == MayExpire \in BOOLEAN /\ Null \notin Tokens \X Nat

VARIABLES
  state,   \* lifecycle:{<token>}:state: the family state kept for a token
  born,    \* per login slot: the token whose family login() has yet to write
  call,    \* the refreshToken or revoke call in flight in each slot
  from     \* history: the token and generation a token was refreshed from

lifecycle == <<state, born, call, from>>
allVars   == <<vars, lifecycle>>

-----------------------------------------------------------------------------
(* TokenFamilyState; account and device are the owner of the family's token. *)
FamilyState ==
  [familyId: Tokens, generation: Nat, status: {"active", "revoked"}]

ASSUME StateAssumption == Null \notin FamilyState

CallPCs == {"idle", "readToken", "readState", "advance", "writeState", "writeToken",
            "writeSession", "readMark", "casMark", "add", "replayRead",
            "replayCas", "casRevoked"}

Call ==
  [op: {"refresh", "revoke", Null}, pc: CallPCs, token: Tokens \cup {Null},
   raw: FamilyState \cup {Null},            \* the state value read before a CAS
   next: Tokens \cup {Null},                \* the token a refresh has made
   seen: LoginIds \cup Markers \cup {Null}] \* tokenKey value read before a CAS

NoCall ==
  [op |-> Null, pc |-> "idle", token |-> Null, raw |-> Null, next |-> Null, seen |-> Null]

Calling(c) == call[c].pc # "idle"
Active(t)  == state[t] # Null /\ state[t].status = "active"

(* The account and device a call works on. *)
Place(c) == owner[call[c].token]

Quiet(l, d) ==
  /\ Untouched(l, d)
  /\ \A r \in Reqs : born[r] # Null => owner[born[r]] # <<l, d>>
  /\ \A c \in Calls : Calling(c) => Place(c) # <<l, d>>

(* Tokens nobody has made yet: a refresh makes its token before it writes it. *)
Unmade == {t \in Fresh : from[t] = Null}

(* Bound: a login or refresh starts only when a token is left for it to make. *)
TokenLeftForCall ==
  Cardinality(Unmade) >
    Cardinality({r \in Reqs : req[r].op = "login"
                              /\ req[r].pc \notin {"writeSession", "readAdd", "casAdd"}})
    + Cardinality({c \in Calls : call[c].op = "refresh"
                                 /\ call[c].pc \in {"readToken", "readState", "advance"}})

Proceed(c, n) == call' = [call EXCEPT ![c] = n]

-----------------------------------------------------------------------------
(* The operations of StpLogic.  login() returns only after createTokenFamily,*)
(* so its slot stays taken until the family is written.                      *)
EngineStart(r) ==
  /\ born[r] = Null
  /\ StartAny(r)
  /\ req'[r].op = "login" => TokenLeftForCall
  /\ \/ Overlap = "any"
     \/ LET q == req'[r] IN
        /\ \A c \in Calls :
             Calling(c) => ~(Place(c)[1] = Account(q)
                             /\ (Overlap = "none" \/ Place(c)[2] \in Scope(q)))
        /\ \A s \in Reqs :
             born[s] # Null => ~(owner[born[s]][1] = Account(q)
                                 /\ (Overlap = "none" \/ owner[born[s]][2] \in Scope(q)))
  /\ UNCHANGED lifecycle

EngineStep(r) ==
  /\ Step(r) \/ Abort(r)
  /\ \A t \in Tokens : owner'[t] # owner[t] => t \in Unmade
  /\ born' = IF req[r].pc = "casAdd" /\ req'[r] = Idle
             THEN [born EXCEPT ![r] = req[r].token] ELSE born
  /\ UNCHANGED <<state, call, from>>

CreateTokenFamily(r) ==
  /\ born[r] # Null
  /\ state' = [state EXCEPT ![born[r]] =
                 [familyId |-> born[r], generation |-> 0, status |-> "active"]]
  /\ born' = [born EXCEPT ![r] = Null]
  /\ UNCHANGED <<vars, call, from>>

-----------------------------------------------------------------------------
(* Clients refresh and revoke the tokens they have been given. *)
StartCall(c, n) ==
  /\ ~Calling(c)
  /\ n.token \in handed
  /\ \A r \in Reqs : born[r] = n.token => Shares(config)
  /\ Overlap # "any" => LET o == owner[n.token] IN
       IF Overlap = "devices" THEN Quiet(o[1], o[2]) ELSE \A d \in Devices : Quiet(o[1], d)
  /\ Proceed(c, n)
  /\ UNCHANGED <<vars, state, born, from>>

StartRefresh(c, t) ==
  /\ TokenLeftForCall
  /\ StartCall(c, [NoCall EXCEPT !.op = "refresh", !.pc = "readToken", !.token = t])

StartRevoke(c, t) ==
  StartCall(c, [NoCall EXCEPT !.op = "revoke", !.pc = "readState", !.token = t])

RefreshReadToken(c) ==
  LET q == call[c] IN
  /\ q.pc = "readToken"
  /\ Proceed(c, IF Live(q.token) THEN [q EXCEPT !.pc = "readState"] ELSE NoCall)
  /\ UNCHANGED <<vars, state, born, from>>

ReadState(c) ==
  LET q == call[c] IN
  /\ q.pc = "readState"
  /\ Proceed(c, IF Active(q.token)
                THEN [q EXCEPT !.raw = state[q.token],
                               !.pc = IF q.op = "refresh" THEN "advance" ELSE "casRevoked"]
                ELSE NoCall)
  /\ UNCHANGED <<vars, state, born, from>>

(* Mutant: a generation that is not counted up. *)
NextStateSame(raw) == raw

NextState(raw) == [raw EXCEPT !.generation = @ + 1]

(* Mutant: a plain set instead of a compare-and-set. *)
RefreshAdvanceBlind(c) ==
  LET q == call[c] IN
  /\ q.pc = "advance"
  /\ state' = [state EXCEPT ![q.token] = NextState(q.raw)]
  /\ \E t \in Unmade :
       /\ Proceed(c, [q EXCEPT !.pc = "writeState", !.next = t])
       /\ from' = [from EXCEPT ![t] = <<q.token, q.raw.generation>>]
  /\ UNCHANGED <<vars, born>>

RefreshAdvance(c) ==
  LET q == call[c] IN
  /\ q.pc = "advance"
  /\ \/ /\ state[q.token] = q.raw
        /\ state' = [state EXCEPT ![q.token] = NextState(q.raw)]
        /\ \E t \in Unmade :
             /\ Proceed(c, [q EXCEPT !.pc = "writeState", !.next = t])
             /\ from' = [from EXCEPT ![t] = <<q.token, q.raw.generation>>]
     \/ /\ state[q.token] # q.raw
        /\ Proceed(c, [q EXCEPT !.pc = "replayRead", !.raw = Null])
        /\ UNCHANGED <<state, from>>
  /\ UNCHANGED <<vars, born>>

RefreshWriteState(c) ==
  LET q == call[c] IN
  /\ q.pc = "writeState"
  /\ state' = [state EXCEPT ![q.next] = NextState(q.raw)]
  /\ Proceed(c, [q EXCEPT !.pc = "writeToken", !.raw = Null])
  /\ UNCHANGED <<vars, born, from>>

(* Mutant: the old token is written again instead of the new one. *)
RefreshWriteTokenOld(c) ==
  LET q == call[c] IN
  /\ q.pc = "writeToken"
  /\ tokenKey' = [tokenKey EXCEPT ![q.token] = owner[q.token][1]]
  /\ owner' = [owner EXCEPT ![q.next] = owner[q.token]]
  /\ Proceed(c, [q EXCEPT !.pc = "writeSession"])
  /\ UNCHANGED <<config, session, list, data, req, handed, state, born, from>>

RefreshWriteToken(c) ==
  LET q == call[c] IN
  /\ q.pc = "writeToken"
  /\ tokenKey' = [tokenKey EXCEPT ![q.next] = owner[q.token][1]]
  /\ owner' = [owner EXCEPT ![q.next] = owner[q.token]]
  /\ Proceed(c, [q EXCEPT !.pc = "writeSession"])
  /\ UNCHANGED <<config, session, list, data, req, handed, state, born, from>>

RefreshWriteSession(c) ==
  LET q == call[c] IN
  /\ q.pc = "writeSession"
  /\ session' = [session EXCEPT ![Place(c)[1]][Place(c)[2]] = q.next]
  /\ Proceed(c, [q EXCEPT !.pc = "readMark"])
  /\ UNCHANGED <<config, tokenKey, list, data, req, owner, handed, state, born, from>>

RefreshReadMark(c) ==
  LET q == call[c]
      v == tokenKey[q.token]
  IN  /\ q.pc = "readMark"
      /\ Proceed(c, IF v = Null THEN NoCall ELSE [q EXCEPT !.pc = "casMark", !.seen = v])
      /\ UNCHANGED <<vars, state, born, from>>

(* Mutant: the old token is left as it is. *)
RefreshCasMarkNothing(c) ==
  LET q == call[c] IN
  /\ q.pc = "casMark"
  /\ Proceed(c, [q EXCEPT !.pc = "add", !.seen = Null])
  /\ UNCHANGED <<vars, state, born, from>>

RefreshCasMark(c) ==
  LET q == call[c] IN
  /\ q.pc = "casMark"
  /\ tokenKey' = IF tokenKey[q.token] = q.seen
                 THEN [tokenKey EXCEPT ![q.token] = KICK_OUT] ELSE tokenKey
  /\ Proceed(c, [q EXCEPT !.pc = "add", !.seen = Null])
  /\ UNCHANGED <<config, session, list, data, req, owner, handed, state, born, from>>

(* Mutant: the device list keeps the old token. *)
RefreshAddNothing(c) ==
  LET q == call[c] IN
  /\ q.pc = "add"
  /\ handed' = handed \cup {q.next}
  /\ Proceed(c, NoCall)
  /\ UNCHANGED <<config, tokenKey, session, list, data, req, owner, state, born, from>>

(* _addToSessionList: its loop changes the device's entry in one step of the *)
(* store (see ReadAdd and CasAdd of StpLogic), and is one step here.         *)
RefreshAdd(c) ==
  LET q == call[c] IN
  /\ q.pc = "add"
  /\ list' = [list EXCEPT ![Place(c)[1]][Place(c)[2]] = q.next]
  /\ handed' = handed \cup {q.next}
  /\ Proceed(c, NoCall)
  /\ UNCHANGED <<config, tokenKey, session, data, req, owner, state, born, from>>

(* revokeFamilyAfterReplay, and then TOKEN_REPLAYED is returned. *)
ReplayRead(c) ==
  LET q == call[c] IN
  /\ q.pc = "replayRead"
  /\ Proceed(c, IF state[q.token] = Null THEN NoCall
                ELSE [q EXCEPT !.pc = "replayCas", !.raw = state[q.token]])
  /\ UNCHANGED <<vars, state, born, from>>

(* The compare-and-set that ends revoke and revokeFamilyAfterReplay. *)
CasRevoked(c) ==
  LET q == call[c] IN
  /\ q.pc \in {"casRevoked", "replayCas"}
  /\ state' = IF state[q.token] = q.raw
              THEN [state EXCEPT ![q.token].status = "revoked"] ELSE state
  /\ Proceed(c, NoCall)
  /\ UNCHANGED <<vars, born, from>>

CallAborts(c) ==
  /\ MayAbort /\ Calling(c)
  /\ Proceed(c, NoCall)
  /\ UNCHANGED <<vars, state, born, from>>

StateExpires(t) ==
  /\ MayExpire /\ state[t] # Null
  /\ state' = [state EXCEPT ![t] = Null]
  /\ UNCHANGED <<vars, born, call, from>>

-----------------------------------------------------------------------------
LifecycleInit ==
  /\ Init
  /\ state = [t \in Tokens |-> Null]
  /\ born = [r \in Reqs |-> Null]
  /\ call = [c \in Calls |-> NoCall]
  /\ from = [t \in Tokens |-> Null]

CallStep(c) ==
  \/ RefreshReadToken(c) \/ ReadState(c) \/ RefreshAdvance(c)
  \/ RefreshWriteState(c) \/ RefreshWriteToken(c) \/ RefreshWriteSession(c)
  \/ RefreshReadMark(c) \/ RefreshCasMark(c) \/ RefreshAdd(c)
  \/ ReplayRead(c) \/ CasRevoked(c)

LifecycleNext ==
  \/ \E r \in Reqs : EngineStart(r) \/ EngineStep(r) \/ CreateTokenFamily(r)
  \/ \E c \in Calls :
       \/ \E t \in Tokens : StartRefresh(c, t) \/ StartRevoke(c, t)
       \/ CallStep(c) \/ CallAborts(c)
  \/ \E t \in Tokens : StateExpires(t)

LifecycleSpec == LifecycleInit /\ [][LifecycleNext]_allVars

-----------------------------------------------------------------------------
LifecycleTypeOK ==
  /\ TypeOK
  /\ state \in [Tokens -> FamilyState \cup {Null}]
  /\ born \in [Reqs -> Tokens \cup {Null}]
  /\ call \in [Calls -> Call]
  /\ from \in [Tokens -> (Tokens \X Nat) \cup {Null}]

RefreshSucceeds(c) == call[c].pc = "add" /\ call'[c] = NoCall /\ call[c].next \in handed'

(* A refresh that succeeds has retired the token it was called with: the    *)
(* result of the compare-and-set that marks it is not looked at, but when   *)
(* it fails some other operation has marked or removed the token.           *)
OldTokenRetired ==
  [][\A c \in Calls :
       RefreshSucceeds(c) /\ ~Shares(config) => ~Live(call[c].token)]_allVars

(* The compare-and-set on the state decides between refreshes that have     *)
(* seen the same state: one generation of a token has one successor.        *)
RotationExclusive ==
  ~Shares(config) =>
    \A t, u \in Tokens : t # u /\ from[t] # Null => from[t] # from[u]

(* A family state that is revoked or has expired never becomes active       *)
(* again, whatever refreshes were under way when it was revoked.            *)
FamilyEndIsFinal ==
  [][\A t \in handed :
       ~Shares(config) /\ ~Active(t) /\ (\A r \in Reqs : born[r] # t) => ~Active(t)']_allVars

(* StpLogic's indexes agree with refreshes running on other devices: what   *)
(* refreshToken leaves behind is found by kickout and logout.               *)
RotatedIndexesAgree ==
  \A l \in LoginIds, d \in Devices :
    Quiet(l, d) =>
      /\ session[l][d] = list[l][d]
      /\ session[l][d] # Null => Live(session[l][d])

(* A token is refreshed successfully at most once, however many refreshes   *)
(* of it are in flight (refreshToken, one winner for concurrent refreshes). *)
RefreshedOnce ==
  \A t, u \in handed :
    t # u /\ from[t] # Null /\ from[u] # Null => from[t][1] # from[u][1]
=============================================================================
