----------------------------- MODULE AuditTrail -----------------------------
(***************************************************************************)
(* What the audit events say of the tokens, and the calls that end many    *)
(* devices or accounts at once.  A call of the engine is one step here     *)
(* (StpLogic and JwtSession have its awaits); a batch is one step per      *)
(* device or account, with other calls in between.  Tokens do not expire,  *)
(* but a device list may, before the sessions it lists: every login gives  *)
(* the whole list the timeout of that login.                               *)
(***************************************************************************)
EXTENDS FiniteSets, Values

CONSTANTS
  Layouts,     \* the accounts and devices in use: sets of pairs of them
  MaxToken     \* bound on the tokens, which are 1 .. MaxToken

VARIABLES
  slots,       \* the accounts and devices of this behaviour
  kind, mode,  \* "uuid" or "jwt"; the login mode
  session,     \* login:session, of an account and device
  listed,      \* login:session-list, the token of each listed device
  status,      \* of a token: none, live, a marker, or gone
  owner,       \* history: the account and device it was made for
  trail,       \* what the audit events have said of each fingerprint
  batch,       \* the batch under way
  lost,        \* history: a list expired before a session it listed
  rejected     \* history: a call has thrown

trailVars == <<slots, kind, mode, session, listed, status, owner, trail, batch, lost, rejected>>

Tokens    == 1 .. MaxToken
Owners  == {s[1] : s \in slots}

Markers == {"KICK_OUT", "BE_REPLACED"}

ASSUME TrailAssumption ==
  /\ MaxToken \in Nat /\ Null \notin Tokens \cup {"token", "jti"} \X Tokens
  /\ \A layout \in Layouts :
       IsFiniteSet(layout) /\ Null \notin layout /\ \A s \in layout : s[1] \notin Markers \cup {Null}

-----------------------------------------------------------------------------
(* Events.  A fingerprint is of a token or, of a JWT, only of its jti.      *)
Event(type, loginId) ==
  [type |-> type, loginId |-> loginId, device |-> Null, token |-> Null, prev |-> Null, next |-> Null]

FingerprintToken(t) == <<"token", t>>

(* Mutant: of what the session key holds. *)
AuditTokenRaw(s) == IF kind = "jwt" THEN <<"jti", session[s]>> ELSE FingerprintToken(session[s])

(* info?.token ?? sessionValue, and _resolveAuditToken *)
AuditToken(s) ==
  IF listed[s] # Null THEN FingerprintToken(listed[s])
  ELSE IF kind = "jwt" THEN <<"jti", session[s]>> ELSE FingerprintToken(session[s])

EndEvent(type, s, fingerprint) == [Event(type, s[1]) EXCEPT !.device = s[2], !.token = fingerprint]

Prints(e) == {e.token, e.prev, e.next} \ {Null}

SaysEnded(e, f) == (e.type \in {"token.logged_out", "token.kicked_out"} /\ e.token = f) \/ e.prev = f

(* What a reader of the log knows of a fingerprint: whether the first event *)
(* about it told of an end, and what the last one says.                     *)
EmitAuditEvents(events) ==
  LET About(f)   == {i \in DOMAIN events : f \in Prints(events[i])}
      Opening(f) == events[CHOOSE i \in About(f) : \A j \in About(f) : i <= j]
      Closing(f) == events[CHOOSE i \in About(f) : \A j \in About(f) : i >= j]
  IN
  trail' = [f \in DOMAIN trail \cup UNION {Prints(events[i]) : i \in DOMAIN events} |->
              IF About(f) = {} THEN trail[f]
              ELSE [begun |-> IF f \in DOMAIN trail THEN trail[f].begun ELSE ~SaysEnded(Opening(f), f),
                    ended |-> SaysEnded(Closing(f), f), loginId |-> Closing(f).loginId]]

-----------------------------------------------------------------------------
GetLoginIdByToken(t) == IF status[t] = "live" THEN owner[t][1] ELSE Null

(* Devices ended and their tokens' new status *)
EndDevices(ended, tokens, how) ==
  /\ session' = [s \in slots |-> IF s \in ended THEN Null ELSE session[s]]
  /\ listed' = [s \in slots |-> IF s \in ended THEN Null ELSE listed[s]]
  /\ status' = [t \in Tokens |-> IF t \in tokens THEN how ELSE status[t]]
  /\ UNCHANGED <<slots, kind, mode, owner, lost>>

(* replaceStoreValueKeepingTtl throws when the entry is not there. *)
Unmarkable(t) == kind = "uuid" /\ status[t] = "gone"

Rejects == rejected' = TRUE /\ UNCHANGED <<slots, kind, mode, session, listed, status, owner, trail, lost>>

(* kickout, kickoutByDevice *)
KickoutByDevice(s) ==
  LET t == session[s] IN
  /\ t # Null
  /\ \/ Unmarkable(t) /\ Rejects
     \/ /\ ~Unmarkable(t) /\ EndDevices({s}, {t}, "KICK_OUT")
        /\ EmitAuditEvents(<<EndEvent("token.kicked_out", s, AuditToken(s))>>) /\ UNCHANGED rejected

LogoutByDevice(s) ==
  /\ session[s] # Null /\ EndDevices({s}, {session[s]}, "gone")
  /\ EmitAuditEvents(<<EndEvent("token.logged_out", s, AuditToken(s))>>) /\ UNCHANGED rejected

ListedAt(a) == {s \in slots : s[1] = a /\ listed[s] # Null}

LogoutByLoginId(a) ==
  LET gone == ListedAt(a) IN
  /\ gone # {} /\ EndDevices(gone, {listed[s] : s \in gone}, "gone")
  /\ \E order \in [1 .. Cardinality(gone) -> gone] :
       /\ \A s \in gone : \E i \in DOMAIN order : order[i] = s
       /\ EmitAuditEvents([i \in DOMAIN order |->
            EndEvent("token.logged_out", order[i], FingerprintToken(listed[order[i]]))])
  /\ UNCHANGED rejected

Holding(t) == {s \in slots : listed[s] = t}

(* logout.  An opaque token's entry is read as a loginId, whatever it holds.*)
LogoutByToken(t) ==
  LET loginId == IF kind = "uuid" /\ status[t] \in Markers THEN status[t] ELSE owner[t][1] IN
  /\ status[t] # "none" /\ (kind = "uuid" => status[t] # "gone")
  /\ EndDevices(IF loginId \in Markers THEN {} ELSE Holding(t), {t}, "gone")
  /\ EmitAuditEvents(<<[Event("token.logged_out", loginId) EXCEPT !.token = FingerprintToken(t)]>>)
  /\ UNCHANGED <<batch, rejected>>

KickoutByToken(t) ==
  /\ status[t] # "none" /\ (kind = "uuid" => status[t] = "live")
  /\ EndDevices(Holding(t), {t}, "KICK_OUT")
  /\ EmitAuditEvents(<<[Event("token.kicked_out", owner[t][1]) EXCEPT !.token = FingerprintToken(t)]>>)
  /\ UNCHANGED <<batch, rejected>>

-----------------------------------------------------------------------------
Unused == {t \in Tokens : status[t] = "none"}
NextToken == CHOOSE t \in Unused : \A u \in Unused : t <= u

(* A batch no longer answers for a device that got another token. *)
Excused(s) == batch' = [batch EXCEPT !.ends = {t \in @ : owner[t] # s}]

(* The new token takes the place of what the device, or the account, had.   *)
Takes(s, t, cleared, ended, marker) ==
  /\ session' = [x \in slots |-> IF x = s THEN t ELSE IF x \in cleared THEN Null ELSE session[x]]
  /\ listed' = [x \in slots |-> IF x = s THEN t ELSE IF x \in cleared THEN Null ELSE listed[x]]
  /\ status' = [u \in Tokens |-> IF u = t THEN "live" ELSE IF u \in ended THEN marker ELSE status[u]]
  /\ owner' = [owner EXCEPT ![t] = s]
  /\ UNCHANGED <<slots, kind, mode, lost, rejected>>

LoggedIn(s, t) == EndEvent("token.logged_in", s, FingerprintToken(t))

Replaced(s, t) ==
  [Event("token.replaced", s[1]) EXCEPT !.device = s[2], !.prev = AuditToken(s), !.next = FingerprintToken(t)]

(* A sharing login looks at the device's listed JWT, or its opaque token. *)
Reusable(s) ==
  LET t == IF kind = "jwt" THEN listed[s] ELSE session[s] IN
  IF session[s] # Null /\ t # Null /\ status[t] = "live" THEN t ELSE Null

Login(s) ==
  LET old == session[s]
      all == ListedAt(s[1])
  IN
  \/ /\ mode = "single" /\ Unused # {}
     /\ Takes(s, NextToken, all, {listed[x] : x \in all}, "KICK_OUT")
     /\ EmitAuditEvents(<<LoggedIn(s, NextToken)>>) /\ Excused(s)
  \/ /\ mode = "replace" /\ old # Null /\ Unmarkable(old) /\ Rejects /\ UNCHANGED batch
  \/ /\ mode = "replace" /\ old # Null /\ ~Unmarkable(old) /\ Unused # {}
     /\ Takes(s, NextToken, {}, {old}, "BE_REPLACED")
     /\ EmitAuditEvents(<<LoggedIn(s, NextToken), Replaced(s, NextToken)>>) /\ Excused(s)
  \/ /\ mode = "share" /\ Reusable(s) # Null
     /\ Takes(s, Reusable(s), {}, {}, "live")
     /\ EmitAuditEvents(<<LoggedIn(s, Reusable(s))>>) /\ Excused(s)
  \/ /\ mode = "several" \/ (mode = "replace" /\ old = Null) \/ (mode = "share" /\ Reusable(s) = Null)
     /\ Unused # {} /\ Takes(s, NextToken, {}, {}, "live")
     /\ EmitAuditEvents(<<LoggedIn(s, NextToken)>>) /\ Excused(s)

RefreshToken(t) ==
  LET s == owner[t] IN
  /\ status[t] = "live" /\ Unused # {}
  /\ Takes(s, NextToken, {}, {t}, "KICK_OUT")
  /\ EmitAuditEvents(<<[Event("token.refreshed", s[1]) EXCEPT
       !.device = s[2], !.prev = FingerprintToken(t), !.next = FingerprintToken(NextToken)]>>)
  /\ Excused(s)

(* A list ends with the timeout of the login that wrote it last; sessions   *)
(* with a longer one are still there.  Bound: once in a behaviour, and with *)
(* no batch under way or begun later.                                       *)
ListExpires(s) ==
  /\ batch.op = "none" /\ ~lost /\ lost' = TRUE /\ listed[s] # Null
  /\ listed' = [x \in slots |-> IF x[1] = s[1] THEN Null ELSE listed[x]]
  /\ session' = [session EXCEPT ![s] = Null]
  /\ status' = [status EXCEPT ![listed[s]] = "gone"]
  /\ UNCHANGED <<slots, kind, mode, owner, trail, batch, rejected>>

-----------------------------------------------------------------------------
(* Batches.  ends holds the tokens the batch is to end: those on the named  *)
(* devices, or listed for the named accounts, when it began.                *)
NoBatch == [op |-> "none", accounts |-> {}, todo |-> {}, checked |-> Null, ends |-> {}]

StartDevices(op, named) ==
  /\ batch.op = "none" /\ ~lost
  /\ batch' = [NoBatch EXCEPT !.op = op, !.todo = named,
                              !.ends = {session[s] : s \in named} \ {Null}]
  /\ UNCHANGED <<slots, kind, mode, session, listed, status, owner, trail, lost, rejected>>

StartAccounts(op) ==
  /\ batch.op = "none" /\ ~lost
  /\ batch' = [NoBatch EXCEPT !.op = op, !.accounts = Owners,
                              !.ends = {listed[s] : s \in slots} \ {Null}]
  /\ UNCHANGED <<slots, kind, mode, session, listed, status, owner, trail, lost, rejected>>

TrailEngine == <<slots, kind, mode, session, listed, status, owner, trail, lost, rejected>>

(* kickoutByLoginIds: the list is read, and again by forceLogout. *)
NextAccount(a) ==
  /\ batch.todo = {} /\ batch.checked = Null /\ a \in batch.accounts
  /\ \/ /\ batch.op = "kickoutByLoginIds"
        /\ batch' = [batch EXCEPT !.accounts = @ \ {a},
                                  !.checked = IF ListedAt(a) = {} THEN Null ELSE a]
        /\ UNCHANGED TrailEngine
     \/ /\ batch.op = "logoutByLoginIds" /\ batch' = [batch EXCEPT !.accounts = @ \ {a}]
        /\ LogoutByLoginId(a) \/ (ListedAt(a) = {} /\ UNCHANGED TrailEngine)

ForceLogout ==
  /\ batch.checked # Null
  /\ batch' = [batch EXCEPT !.checked = Null, !.todo = ListedAt(batch.checked)]
  /\ UNCHANGED TrailEngine

NextDevice(s) ==
  /\ s \in batch.todo
  /\ batch' = IF session[s] # Null /\ batch.op # "logoutByDevices" /\ Unmarkable(session[s])
              THEN NoBatch ELSE [batch EXCEPT !.todo = @ \ {s}]
  /\ \/ session[s] = Null /\ UNCHANGED TrailEngine
     \/ batch.op = "logoutByDevices" /\ LogoutByDevice(s)
     \/ batch.op # "logoutByDevices" /\ KickoutByDevice(s)

Finished == batch.op # "none" /\ batch.todo = {} /\ batch.accounts = {} /\ batch.checked = Null

Return == Finished /\ batch' = NoBatch /\ UNCHANGED TrailEngine

-----------------------------------------------------------------------------
TrailStart ==
  /\ slots \in Layouts
  /\ kind \in {"uuid", "jwt"} /\ mode \in {"single", "replace", "share", "several"}
  /\ session = [s \in slots |-> Null] /\ listed = [s \in slots |-> Null]
  /\ status = [t \in Tokens |-> "none"] /\ owner = [t \in Tokens |-> Null]
  /\ trail = [f \in {} |-> Null] /\ batch = NoBatch /\ lost = FALSE /\ rejected = FALSE

TrailNext ==
  \/ \E s \in slots :
       \/ Login(s) \/ ListExpires(s) \/ NextDevice(s)
       \/ (KickoutByDevice(s) \/ LogoutByDevice(s)) /\ UNCHANGED batch
  \/ \E t \in Tokens : LogoutByToken(t) \/ KickoutByToken(t) \/ RefreshToken(t)
  \/ \E a \in Owners :
       \/ LogoutByLoginId(a) /\ UNCHANGED batch
       \/ NextAccount(a)
       \/ \E op \in {"kickoutByDevices", "logoutByDevices"} : StartDevices(op, {s \in slots : s[1] = a})
  \/ \E op \in {"kickoutByLoginIds", "logoutByLoginIds"} : StartAccounts(op)
  \/ ForceLogout \/ Return

TrailSpec == TrailStart /\ [][TrailNext]_trailVars

-----------------------------------------------------------------------------
(* Every variable has its shape; what a device's session key or the list    *)
(* holds was made for that device, and a listed token has its entry.        *)
TrailTypeOK ==
  /\ \A s \in slots : \A t \in {session[s], listed[s]} \ {Null} : owner[t] = s
  /\ \A t \in Tokens : status[t] \in {"none", "live", "gone"} \cup Markers
  /\ \A t \in Tokens : status[t] = "none" <=> owner[t] = Null
  /\ \A s \in slots : listed[s] # Null => status[listed[s]] # "gone"
  /\ batch.ends \subseteq Tokens /\ batch.todo \subseteq slots

(* emitAuditEvent, in both token kinds: the fingerprint in an event that a  *)
(* token ended is one that an earlier event started with, so that a reader  *)
(* of the log can join them, though the session key of a JWT holds only its *)
(* jti.  When a list has expired before its sessions, there is nothing to   *)
(* find the whole JWT by.                                                   *)
TrailJoins == ~lost => \A f \in DOMAIN trail : trail[f].begun

(* The last event about a token tells whether getLoginIdByToken finds it,   *)
(* whichever of the calls ended it and whatever came before.  A login of a  *)
(* single-device account ends the others without an event.                  *)
TrailTellsState ==
  ~lost /\ mode # "single" =>
    \A t \in Tokens : status[t] # "none" =>
      LET f == FingerprintToken(t) IN
      f \in DOMAIN trail /\ (GetLoginIdByToken(t) = Null <=> trail[f].ended)

(* An event names the account its tokens were made for; a logout with an    *)
(* opaque token that was kicked out or replaced before reads the marker as  *)
(* the account.                                                             *)
TrailNamesOwner ==
  \A t \in Tokens : FingerprintToken(t) \in DOMAIN trail =>
    LET known == trail[FingerprintToken(t)] IN
    known.loginId = owner[t][1] \/ (kind = "uuid" /\ status[t] = "gone" /\ known.loginId \in Markers)

(* Called one after another, login, kickout and the rest never throw, by    *)
(* whatever calls the sessions came and went.  Behind a list that has       *)
(* expired early, a logout leaves a session key whose token is gone.        *)
CallsDontThrow == rejected => lost

(* When a batch returns, no token it was to end is accepted, whatever was   *)
(* called between its steps; a device that got another token meanwhile is   *)
(* left out.                                                                *)
BatchEnds == Finished /\ ~lost => \A t \in batch.ends : GetLoginIdByToken(t) = Null

(* The trail tells what became of every token, and what was to end has.     *)
TrailInv ==
  /\ TrailTypeOK /\ CallsDontThrow /\ BatchEnds
  /\ TrailJoins /\ TrailTellsState /\ TrailNamesOwner
=============================================================================
