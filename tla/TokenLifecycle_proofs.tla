----------------------- MODULE TokenLifecycle_proofs -----------------------
(***************************************************************************)
(* Theorems about TokenLifecycle for any tokens, operations and calls in   *)
(* flight, under any overlap and any failure, family states that expire    *)
(* included; and about the engine's indexes and promises with refreshes    *)
(* beside its operations, where those in flight work on different devices  *)
(* and none is cut short.  The engine's invariants and their lemmas are    *)
(* StpLogic_proofs'.                                                       *)
(***************************************************************************)
EXTENDS TokenLifecycle, StpLogic_proofs

LoginPCs == {"writeSession", "readAdd", "casAdd"}   \* a login that has its token
Making   == {"writeState", "writeToken"}            \* a refresh that has made its token
Made     == {"writeSession", "readMark", "casMark", "add"}   \* ... and written it

(* What a call in flight holds at each of its awaits. *)
CallShape(q, own, hd, fr) ==
  /\ q.pc # "idle" => q.token \in hd
  /\ q.pc \in {"advance", "writeState", "replayCas", "casRevoked"} => q.raw \in FamilyState
  /\ q.pc = "advance" => q.raw.status = "active"
  /\ q.pc \in Making => q.next \in Tokens /\ own[q.next] = Null /\ fr[q.next] # Null
  /\ q.pc \in Made => q.next \in Tokens /\ own[q.next] = own[q.token] /\ fr[q.next] # Null
  /\ q.pc = "casMark" => q.seen # Null

(* In every configuration. *)
CallsInv ==
  /\ IInv
  /\ state \in [Tokens -> FamilyState \cup {Null}]
  /\ born \in [Reqs -> Tokens \cup {Null}]
  /\ call \in [Calls -> Call]
  /\ from \in [Tokens -> (Tokens \X Nat) \cup {Null}]
  /\ \A c \in Calls : CallShape(call[c], owner, handed, from)
  /\ \A c, e \in Calls :
       call[c].pc \in Making \cup Made /\ call[e].pc \in Making \cup Made /\ c # e
         => call[c].next # call[e].next
  /\ \A t \in handed : owner[t] # Null
  /\ \A t \in Tokens : from[t] # Null => from[t][1] \in handed

(* Where logins do not share, a token is in one pair of hands until the     *)
(* client has it: the login's or the refresh's that makes it.               *)
OneHand ==
  /\ \A r \in Reqs : req[r].pc \in LoginPCs =>
       req[r].token \in Tokens \ handed /\ from[req[r].token] = Null
  /\ \A r, x \in Reqs :
       req[r].pc \in LoginPCs /\ req[x].pc \in LoginPCs /\ r # x => req[r].token # req[x].token
  /\ \A c \in Calls : call[c].pc \in Making \cup Made => call[c].next \notin handed
  /\ \A r \in Reqs : born[r] # Null =>
       /\ \A t \in Tokens : from[t] # Null => from[t][1] # born[r]
       /\ \A c \in Calls : Calling(c) => call[c].token # born[r]

(* The generations a token was refreshed from lie behind its state.         *)
Behind ==
  \A t \in Tokens : from[t] # Null =>
    /\ state[from[t][1]] # Null => from[t][2] < state[from[t][1]].generation
    /\ \A u \in Tokens : t # u => from[t] # from[u]

(* A refresh that is about to mark the old token has seen what it holds.    *)
Marking ==
  \A c \in Calls :
    /\ call[c].pc = "casMark" /\ Live(call[c].token) => call[c].seen = tokenKey[call[c].token]
    /\ call[c].pc = "add" => ~Live(call[c].token)

LInv == CallsInv /\ (~Shares(config) => OneHand /\ Behind /\ Marking)

-----------------------------------------------------------------------------
LEMMA NoCallIsCall == NoCall \in Call /\ NoCall.pc = "idle"
BY DEF NoCall, Call, CallPCs

LEMMA NextStateIsState ==
  ASSUME NEW raw \in FamilyState
  PROVE  NextState(raw) \in FamilyState /\ NextState(raw).generation = raw.generation + 1
         /\ NextState(raw).status = raw.status
<1>1. PICK k \in Nat : k = raw.generation + 1 BY DEF FamilyState
<1>2. NextState(raw) = [raw EXCEPT !.generation = k] BY <1>1 DEF NextState
<1> QED BY <1>1, <1>2 DEF FamilyState

(* A token keeps its owner and its origin; what a call holds stays true.    *)
LEMMA ShapeKeeps ==
  ASSUME NEW q \in Call, NEW own, NEW own2, NEW hd, NEW hd2, NEW fr, NEW fr2,
         CallShape(q, own, hd, fr), hd \subseteq hd2, hd \subseteq Tokens,
         \A t \in Tokens : fr[t] # Null => fr2[t] = fr[t],
         \A t \in Tokens : own[t] # Null => own2[t] = own[t],
         \A t \in hd : own[t] # Null,
         q.pc \in Making => own2[q.next] = own[q.next]
  PROVE  CallShape(q, own2, hd2, fr2)
<1>1. q.pc \in Made => q.token \in hd BY DEF CallShape, Made
<1>2. q.pc \in Made => own2[q.token] = own[q.token] /\ own[q.token] # Null BY <1>1
<1>3. q.pc \in Made => own2[q.next] = own[q.next] BY <1>2 DEF CallShape
<1> QED BY <1>2, <1>3 DEF CallShape

-----------------------------------------------------------------------------
(* What a step of the engine does to the tokens logins hold: where logins   *)
(* do not share, one gets its token by writing a fresh one, keeps it, and   *)
(* gives it to the client.                                                  *)
Effect(r, n) ==
  \/ /\ n.pc \notin LoginPCs /\ owner' = owner
     /\ \/ handed' = handed
        \/ req[r].pc = "casAdd" /\ n = Idle /\ handed' = handed \cup {req[r].token}
  \/ /\ n.pc \in LoginPCs /\ req[r].pc \in LoginPCs /\ n.token = req[r].token
     /\ UNCHANGED <<owner, handed>>
  \/ /\ n.pc = "writeSession" /\ n.token \in Fresh /\ handed' = handed
     /\ \E v \in LoginIds \X Devices : owner' = [owner EXCEPT ![n.token] = v]

LEMMA EngineEffect ==
  ASSUME IInv, ~Shares(config), NEW r \in Reqs, StartAny(r) \/ Step(r) \/ Abort(r)
  PROVE  \E n : Become(r, n) /\ Effect(r, n)
<1> DEFINE q == req[r]
           Goal == \E n : Become(r, n) /\ Effect(r, n)
<1>1. q \in Request /\ Shape(q) /\ Holds(q, owner, config) BY DEF IInv, TypeOK
<1>2. ASSUME NEW n, Become(r, n), n.pc \notin LoginPCs, UNCHANGED <<owner, handed>>
      PROVE  Goal
  BY <1>2 DEF Effect
<1>3. Idle.pc \notin LoginPCs /\ Failed.pc \notin LoginPCs BY DEF Idle, Failed, LoginPCs
<1>4. LoginPCs \subseteq ByLogin BY DEF LoginPCs, ByLogin
<1>5. CASE StartAny(r)
  <2>1. PICK n : Become(r, n) /\ n.pc \in {"readSession", "readToken", "readAll"}
    <3>1. CASE \E l \in LoginIds, d \in Devices : StartLogin(r, l, d)
      <4>1. PICK l \in LoginIds, d \in Devices :
              Become(r, [Idle EXCEPT !.op = "login", !.pc = "readSession",
                               !.login = l, !.device = d, !.at = d])
        BY <3>1 DEF StartLogin, Start
      <4>2. [Idle EXCEPT !.op = "login", !.pc = "readSession",
                               !.login = l, !.device = d, !.at = d].pc = "readSession" BY DEF Idle
      <4> QED BY <4>1, <4>2
    <3>2. CASE \E l \in LoginIds, d \in Devices, op \in DeviceOps : StartDeviceOp(r, op, l, d)
      <4>1. PICK l \in LoginIds, d \in Devices, op \in DeviceOps :
              Become(r, [Idle EXCEPT !.op = op, !.pc = "readSession",
                               !.login = l, !.device = d, !.at = d])
        BY <3>2 DEF StartDeviceOp, Start
      <4>2. [Idle EXCEPT !.op = op, !.pc = "readSession",
                               !.login = l, !.device = d, !.at = d].pc = "readSession" BY DEF Idle
      <4> QED BY <4>1, <4>2
    <3>3. CASE \E op \in TokenOps, t \in Tokens : StartTokenOp(r, op, t)
      <4>1. PICK op \in TokenOps, t \in Tokens :
              Become(r, [Idle EXCEPT !.op = op, !.pc = "readToken", !.token = t])
        BY <3>3 DEF StartTokenOp, Start
      <4>2. [Idle EXCEPT !.op = op, !.pc = "readToken", !.token = t].pc = "readToken" BY DEF Idle
      <4> QED BY <4>1, <4>2
    <3>4. CASE \E op \in AccountOps, l \in LoginIds : StartAccountOp(r, op, l)
      <4>1. PICK op \in AccountOps, l \in LoginIds :
              Become(r, [Idle EXCEPT !.op = op, !.pc = "readAll", !.login = l])
        BY <3>4 DEF StartAccountOp, Start
      <4>2. [Idle EXCEPT !.op = op, !.pc = "readAll", !.login = l].pc = "readAll" BY DEF Idle
      <4> QED BY <4>1, <4>2
    <3> QED BY <1>5, <3>1, <3>2, <3>3, <3>4 DEF StartAny
  <2>2. UNCHANGED <<owner, handed>>
    BY <1>5 DEF StartAny, StartLogin, StartDeviceOp, StartTokenOp, StartAccountOp, Start
  <2> QED BY <1>2, <2>1, <2>2 DEF LoginPCs
<1>6. CASE Abort(r) BY <1>2, <1>3, <1>6 DEF Abort
<1>7. CASE ReadSession(r)
  <2>1. PICK n : Become(r, n) /\
          \/ q.op = "login" /\ n = LoginBranch(q, session[q.login][q.at])
          \/ n = Idle
          \/ q.op = "forceLogout" /\ n \in NextDevice(q)
          \/ n = [q EXCEPT !.token = session[q.login][q.at],
                           !.pc = IF q.op = "logoutByDevice" THEN "dropToken" ELSE "readMark"]
    BY <1>7 DEF ReadSession
  <2>2. n.pc \notin LoginPCs
    <3>1. CASE n = LoginBranch(q, session[q.login][q.at])
      BY <1>1, <3>1 DEF LoginBranch, Request, LoginPCs
    <3>2. CASE n = Idle BY <1>3, <3>2
    <3>3. CASE q.op = "forceLogout" /\ n \in NextDevice(q)
      <4>1. q.login \in LoginIds BY <1>1, <1>7 DEF ReadSession, Shape
      <4> QED BY <1>1, <1>4, <3>3, <4>1, NextDeviceShape
    <3>4. CASE n = [q EXCEPT !.token = session[q.login][q.at],
                             !.pc = IF q.op = "logoutByDevice" THEN "dropToken" ELSE "readMark"]
      BY <1>1, <3>4 DEF Request, LoginPCs
    <3> QED BY <2>1, <3>1, <3>2, <3>3, <3>4
  <2> QED BY <1>2, <1>7, <2>1, <2>2 DEF ReadSession
<1>8. CASE ReadMapped(r) \/ ReadToken(r) \/ ReadMark(r) \/ CasMark(r) \/ DropToken(r)
           \/ FindDevice(r) \/ CountList(r) \/ DropData(r) \/ DropList(r)
  <2>1. UNCHANGED <<owner, handed>>
    BY <1>8 DEF ReadMapped, ReadToken, ReadMark, CasMark, DropToken, FindDevice, CountList,
                DropData, DropList
  <2>2. PICK n : Become(r, n) /\
          \/ n = Idle \/ n = Failed
          \/ n.pc \in {"writeToken", "dropToken", "readMark", "casMark", "findDevice",
                       "dropSession", "countList", "dropData"}
    <3> DEFINE Out(n) ==
          \/ n = Idle \/ n = Failed
          \/ n.pc \in {"writeToken", "dropToken", "readMark", "casMark", "findDevice",
                       "dropSession", "countList", "dropData"}
    <3>1. CASE ReadMapped(r)
      <4> DEFINE n == [q EXCEPT !.pc = "writeToken",
                         !.token = IF tokenKey[q.token] = q.login THEN q.token ELSE Null]
      <4>1. n.pc = "writeToken" BY <1>1 DEF Request
      <4> QED BY <3>1, <4>1 DEF ReadMapped
    <3>2. CASE ReadToken(r)
      <4>1. PICK n : Become(r, n) /\
              \/ n = Idle \/ n = [q EXCEPT !.pc = "dropToken"]
              \/ n = [q EXCEPT !.login = tokenKey[q.token],
                               !.pc = IF q.op = "logout" THEN "dropToken" ELSE "readMark"]
        BY <3>2 DEF ReadToken
      <4>2. Out(n) BY <1>1, <4>1 DEF Request
      <4> QED BY <4>1, <4>2
    <3>3. CASE ReadMark(r)
      <4> DEFINE n == [q EXCEPT !.pc = "casMark", !.seen = tokenKey[q.token]]
      <4>1. n.pc = "casMark" BY <1>1 DEF Request
      <4>2. Become(r, Failed) \/ Become(r, n) BY <3>3 DEF ReadMark
      <4> QED BY <4>1, <4>2
    <3>4. CASE CasMark(r)
      <4> DEFINE n == [q EXCEPT !.seen = Null, !.pc = IF q.op = "kickoutByToken"
                                                      THEN "findDevice" ELSE "dropSession"]
      <4>1. n.pc \in {"findDevice", "dropSession"} BY <1>1 DEF Request
      <4>2. Become(r, n) BY <3>4 DEF CasMark
      <4> HIDE DEF n
      <4> QED BY <4>1, <4>2
    <3>5. CASE DropToken(r) BY <1>1, <3>5 DEF DropToken, Request
    <3>6. CASE FindDevice(r)
      <4>1. PICK n : Become(r, n) /\
              \/ n = Idle \/ n = [q EXCEPT !.pc = "countList"]
              \/ \E d \in Devices : n = [q EXCEPT !.pc = "dropSession", !.at = d]
        BY <3>6 DEF FindDevice
      <4>2. Out(n) BY <1>1, <4>1 DEF Request
      <4> QED BY <4>1, <4>2
    <3>7. CASE CountList(r) \/ DropData(r) BY <1>1, <3>7 DEF CountList, DropData, Request
    <3>8. CASE DropList(r) BY <1>1, <3>8 DEF DropList, Request
    <3> QED BY <1>8, <3>1, <3>2, <3>3, <3>4, <3>5, <3>6, <3>7, <3>8
  <2>3. n.pc \notin LoginPCs BY <1>3, <2>2 DEF LoginPCs
  <2> QED BY <1>2, <2>1, <2>2, <2>3
<1>9. CASE ReadAll(r)
  <2>1. q.login \in LoginIds /\ q.op \in {"login", "logoutByLoginId", "forceLogout"}
        /\ list[q.login] \in Index
    BY <1>1, <1>9 DEF ReadAll, Shape, IInv, TypeOK
  <2>2. CASE Become(r, IF q.op = "login" THEN [q EXCEPT !.pc = "writeToken"] ELSE Idle)
    <3> DEFINE n == IF q.op = "login" THEN [q EXCEPT !.pc = "writeToken"] ELSE Idle
    <3>1. n.pc \notin LoginPCs BY <1>1, <1>3 DEF Request, LoginPCs
    <3> QED BY <1>2, <1>9, <2>2, <3>1 DEF ReadAll
  <2>3. ASSUME NEW n \in NextDevice([q EXCEPT !.todo = list[q.login]]), Become(r, n)
        PROVE  Goal
    <3> DEFINE m == [q EXCEPT !.todo = list[q.login]]
    <3>1. m \in Request /\ m.op = q.op /\ m.login = q.login /\ m.device = q.device
      BY <1>1, <2>1 DEF Request
    <3>2. n \in NextDevice(m) /\ (m.op = "login" => m.device \in Devices)
      BY <1>1, <2>1, <2>3, <3>1 DEF Shape, TokenOps
    <3> HIDE DEF m
    <3>3. n.pc \notin LoginPCs BY <1>4, <2>1, <3>1, <3>2, NextDeviceShape
    <3> QED BY <1>2, <1>9, <2>3, <3>3 DEF ReadAll
  <2> QED BY <1>9, <2>2, <2>3 DEF ReadAll
<1>10. CASE DropSession(r)
  <2>1. q.login \in LoginIds /\ (q.op = "login" => q.device \in Devices)
    BY <1>1, <1>10 DEF DropSession, Shape
  <2>2. PICK n : Become(r, n) /\
          \/ n = [q EXCEPT !.pc = "writeToken", !.token = Null]
          \/ q.op \in {"logoutByLoginId", "login"} /\ n \in NextDevice(q)
          \/ n = [q EXCEPT !.pc = "readRemove"]
    BY <1>10 DEF DropSession
  <2>3. n.pc \notin LoginPCs
    <3>1. CASE n \in NextDevice(q) /\ q.op \in {"logoutByLoginId", "login"}
      BY <1>1, <1>4, <2>1, <3>1, NextDeviceShape
    <3> QED BY <1>1, <2>2, <3>1 DEF Request, LoginPCs
  <2> QED BY <1>2, <1>10, <2>2, <2>3 DEF DropSession
<1>11. CASE ReadRemove(r) \/ CasRemove(r)
  <2>1. q.login \in LoginIds BY <1>1, <1>11 DEF ReadRemove, CasRemove, Shape
  <2>2. PICK n : Become(r, n) /\
          \/ n \in AfterRemove(q)
          \/ n = [q EXCEPT !.pc = "casRemove", !.old = list[q.login]]
          \/ n = [q EXCEPT !.pc = "readRemove", !.old = Empty]
    BY <1>11 DEF ReadRemove, CasRemove
  <2>3. n.pc \notin LoginPCs
    <3>1. CASE n \in AfterRemove(q) BY <1>1, <1>4, <2>1, <3>1, AfterRemoveShape
    <3> QED BY <1>1, <2>2, <3>1 DEF Request, LoginPCs
  <2> QED BY <1>2, <1>11, <2>2, <2>3 DEF ReadRemove, CasRemove
<1>12. CASE WriteToken(r)
  <2>1. q.pc = "writeToken" /\ q.token = Null BY <1>1, <1>12 DEF WriteToken, Holds
  <2>2. q.login \in LoginIds /\ q.device \in Devices BY <1>1, <2>1 DEF Shape, ByLogin
  <2>3. PICK t \in Fresh : owner' = [owner EXCEPT ![t] = <<q.login, q.device>>]
                           /\ Become(r, [q EXCEPT !.pc = "writeSession", !.token = t])
    BY <1>12, <2>1 DEF WriteToken
  <2> DEFINE n == [q EXCEPT !.pc = "writeSession", !.token = t]
  <2>4. n.pc = "writeSession" /\ n.token = t BY <1>1 DEF Request
  <2>5. <<q.login, q.device>> \in LoginIds \X Devices BY <2>2
  <2>6. owner' = [owner EXCEPT ![n.token] = <<q.login, q.device>>] BY <2>3, <2>4
  <2>7. Effect(r, n) BY <1>12, <2>3, <2>4, <2>5, <2>6 DEF Effect, WriteToken
  <2> QED BY <2>3, <2>7
<1>13. CASE WriteSession(r) \/ ReadAdd(r)
  <2>1. PICK n : Become(r, n) /\
          \/ n = [q EXCEPT !.pc = "readAdd"]
          \/ n = [q EXCEPT !.pc = "casAdd", !.old = list[q.login]]
    BY <1>13 DEF WriteSession, ReadAdd
  <2>2. n.pc \in LoginPCs /\ n.token = q.token BY <1>1, <2>1 DEF Request, LoginPCs
  <2> QED BY <1>13, <2>1, <2>2 DEF Effect, WriteSession, ReadAdd, LoginPCs
<1>14. CASE CasAdd(r)
  <2>1. CASE Become(r, Idle) /\ handed' = handed \cup {q.token}
    BY <1>3, <1>14, <2>1 DEF Effect, CasAdd
  <2>2. CASE Become(r, [q EXCEPT !.pc = "readAdd", !.old = Empty]) /\ handed' = handed
    <3> DEFINE n == [q EXCEPT !.pc = "readAdd", !.old = Empty]
    <3>1. n.pc \in LoginPCs /\ n.token = q.token BY <1>1 DEF Request, LoginPCs
    <3> QED BY <1>14, <2>2, <3>1 DEF Effect, CasAdd, LoginPCs
  <2> QED BY <1>14, <2>1, <2>2 DEF CasAdd
<1> QED BY <1>5, <1>6, <1>7, <1>8, <1>9, <1>10, <1>11, <1>12, <1>13, <1>14 DEF Step

-----------------------------------------------------------------------------
(* Two engine facts TokenKeySteps and EngineEffect leave open, and that     *)
(* hold in the sharing configurations too: owners stay, handed only grows.  *)
LEMMA EngineGrows ==
  ASSUME IInv, NEW r \in Reqs, StartAny(r) \/ Step(r) \/ Abort(r)
  PROVE  /\ IInv' /\ [Next]_vars /\ config' = config
         /\ \A t \in Tokens : owner[t] # Null => owner'[t] = owner[t]
         /\ \/ handed' = handed
            \/ req[r].pc = "casAdd" /\ handed' = handed \cup {req[r].token}
<1>1. Next BY DEF Next
<1>2. IInv' /\ config' = config BY <1>1, NextIInv, ConfigFixed
<1>3. owner \in [Tokens -> (LoginIds \X Devices) \cup {Null}] BY DEF IInv, TypeOK
<1>4. \A t \in Tokens : owner[t] # Null => owner'[t] = owner[t]
  BY <1>1, <1>3, TokenKeySteps
<1>5. CASE StartAny(r)
  BY <1>1, <1>2, <1>4, <1>5
     DEF StartAny, StartLogin, StartDeviceOp, StartTokenOp, StartAccountOp, Start
<1>6. CASE Abort(r) BY <1>1, <1>2, <1>4, <1>6 DEF Abort
<1>7. CASE Step(r)
  <2>1. handed' = handed \/ (req[r].pc = "casAdd" /\ handed' = handed \cup {req[r].token})
    BY <1>7 DEF Step, ReadSession, ReadMapped, ReadAll, ReadToken, ReadMark, FindDevice,
                ReadRemove, CountList, ReadAdd, DropSession, DropList, CasRemove, DropData,
                WriteSession, CasAdd, CasMark, DropToken, WriteToken
  <2> QED BY <1>1, <1>2, <1>4, <2>1
<1> QED BY <1>5, <1>6, <1>7

(* A login that has its token holds one that has an owner. *)
LEMMA LoginToken ==
  ASSUME IInv, NEW r \in Reqs, req[r].pc \in LoginPCs
  PROVE  req[r].token \in Tokens /\ owner[req[r].token] # Null
<1>1. req[r] \in Request /\ Shape(req[r]) /\ Holds(req[r], owner, config)
  BY DEF IInv, TypeOK
<1>2. req[r].token \in Tokens /\ req[r].login \in LoginIds /\ req[r].device \in Devices
  BY <1>1 DEF LoginPCs, Shape, ByLogin
<1>3. owner[req[r].token] = <<req[r].login, req[r].device>>
  BY <1>1, <1>2, ValuesAssumption DEF LoginPCs, Holds, ByLogin
<1> QED BY <1>2, <1>3, ValuesAssumption

(* A step of the engine leaves the calls in flight what they hold.          *)
LEMMA CallsUndisturbed ==
  ASSUME CallsInv, IInv', call' = call, from' = from, handed \subseteq handed',
         state' \in [Tokens -> FamilyState \cup {Null}],
         born' \in [Reqs -> Tokens \cup {Null}],
         \A t \in Tokens : owner[t] # Null => owner'[t] = owner[t],
         \A t \in Tokens : owner'[t] # owner[t] => t \in Unmade,
         \A t \in handed' : owner'[t] # Null
  PROVE  CallsInv'
<1>1. \A c \in Calls : call[c].pc \in Making => owner'[call[c].next] = owner[call[c].next]
  BY DEF CallsInv, CallShape, Making, Unmade
<1>2. handed \subseteq Tokens BY DEF CallsInv, IInv, TypeOK
<1>3. ASSUME NEW c \in Calls PROVE CallShape(call[c], owner', handed', from')
  <2>1. call[c] \in Call /\ CallShape(call[c], owner, handed, from) BY DEF CallsInv
  <2> QED BY <1>1, <1>2, <2>1, ShapeKeeps DEF CallsInv
<1> QED BY <1>3 DEF CallsInv

(* ... and a refresh about to mark the old token knows what it will find.   *)
LEMMA MarkingUndisturbed ==
  ASSUME CallsInv, Marking, ~Shares(config), [Next]_vars, call' = call
  PROVE  Marking'
<1>1. tokenKey \in [Tokens -> LoginIds \cup Markers \cup {Null}] BY DEF CallsInv, IInv, TypeOK
<1>2. ASSUME NEW t \in handed, tokenKey'[t] # tokenKey[t] PROVE tokenKey'[t] \notin LoginIds
  <2>1. t \in Tokens /\ owner[t] # Null BY DEF CallsInv, IInv, TypeOK
  <2> QED BY <1>1, <1>2, <2>1, TokenKeySteps, ValuesAssumption DEF CallsInv
<1>3. ASSUME NEW c \in Calls, Calling(c) PROVE call[c].token \in handed
  BY <1>3 DEF CallsInv, CallShape, Calling
<1> QED BY <1>2, <1>3 DEF Marking, Live, Calling

LEMMA EngineStepKeeps ==
  ASSUME LInv, NEW r \in Reqs, EngineStart(r) \/ EngineStep(r)
  PROVE  LInv'
<1> DEFINE q == req[r]
<1>1. /\ StartAny(r) \/ Step(r) \/ Abort(r)
      /\ state' = state /\ call' = call /\ from' = from
      /\ \/ born' = born
         \/ q.pc = "casAdd" /\ req'[r] = Idle /\ born' = [born EXCEPT ![r] = q.token]
  BY DEF EngineStart, EngineStep, lifecycle
<1>2. CallsInv /\ IInv BY DEF LInv, CallsInv
<1>3. /\ IInv' /\ [Next]_vars /\ config' = config
      /\ \A t \in Tokens : owner[t] # Null => owner'[t] = owner[t]
      /\ \/ handed' = handed
         \/ q.pc = "casAdd" /\ handed' = handed \cup {q.token}
  BY <1>1, <1>2, EngineGrows
<1>4. \A t \in Tokens : owner'[t] # owner[t] => t \in Unmade
  BY DEF EngineStart, EngineStep, StartAny, StartLogin, StartDeviceOp, StartTokenOp,
         StartAccountOp, Start
<1>5. q.pc \in LoginPCs => q.token \in Tokens /\ owner[q.token] # Null
  BY <1>2, LoginToken
<1>6. CallsInv'
  <2>1. born' \in [Reqs -> Tokens \cup {Null}] BY <1>1, <1>2, <1>5 DEF CallsInv, LoginPCs
  <2>2. state' \in [Tokens -> FamilyState \cup {Null}] BY <1>1, <1>2 DEF CallsInv
  <2>3. \A t \in handed' : owner'[t] # Null
    <3>1. \A t \in handed : t \in Tokens /\ owner[t] # Null
      BY <1>2 DEF CallsInv, IInv, TypeOK
    <3> QED BY <1>3, <1>5, <3>1 DEF LoginPCs
  <2>4. handed \subseteq handed' BY <1>3
  <2> HIDE DEF q
  <2> QED BY <1>1, <1>2, <1>3, <1>4, <2>1, <2>2, <2>3, <2>4, CallsUndisturbed
<1>7. ASSUME ~Shares(config) PROVE OneHand' /\ Behind' /\ Marking'
  <2>1. OneHand /\ Behind /\ Marking BY <1>7 DEF LInv
  <2>2. Marking' BY <1>1, <1>2, <1>3, <1>7, <2>1, MarkingUndisturbed
  <2>3. Behind' BY <1>1, <2>1 DEF Behind
  <2>4. PICK n : Become(r, n) /\ Effect(r, n) BY <1>1, <1>2, <1>7, EngineEffect
  <2>5. \A x \in Reqs : x # r => req'[x] = req[x]
    BY <1>2, <2>4 DEF Become, IInv, TypeOK
  <2>6. req'[r] = n BY <1>2, <2>4 DEF Become, IInv, TypeOK
  <2>7. ASSUME n.pc \in LoginPCs
        PROVE  /\ n.token \in Tokens \ handed' /\ from[n.token] = Null
               /\ \A x \in Reqs : x # r /\ req[x].pc \in LoginPCs => req[x].token # n.token
    <3>1. CASE q.pc \in LoginPCs /\ n.token = q.token /\ UNCHANGED <<owner, handed>>
      BY <2>1, <3>1 DEF OneHand
    <3>2. ASSUME n.token \in Fresh, handed' = handed,
                 NEW v \in LoginIds \X Devices, owner' = [owner EXCEPT ![n.token] = v]
          PROVE  /\ n.token \in Tokens \ handed' /\ from[n.token] = Null
                 /\ \A x \in Reqs : x # r /\ req[x].pc \in LoginPCs => req[x].token # n.token
      <4>1. n.token \in Tokens /\ owner[n.token] = Null BY <3>2 DEF Fresh
      <4>2. owner'[n.token] = v /\ v # Null
        BY <1>2, <3>2, <4>1, ValuesAssumption DEF IInv, TypeOK
      <4>3. n.token \in Unmade BY <1>4, <4>1, <4>2
      <4>4. n.token \notin handed BY <1>2, <4>1 DEF CallsInv
      <4> QED BY <1>2, <3>2, <4>1, <4>3, <4>4, LoginToken DEF Unmade
    <3> QED BY <2>4, <2>7, <3>1, <3>2 DEF Effect
  <2>8. \/ handed' = handed
        \/ q.pc = "casAdd" /\ n = Idle /\ handed' = handed \cup {q.token}
    BY <2>4 DEF Effect
  <2>9. Idle.pc \notin LoginPCs BY DEF Idle, LoginPCs
  <2>10. ASSUME NEW x \in Reqs, req'[x].pc \in LoginPCs
         PROVE  req'[x].token \in Tokens \ handed' /\ from'[req'[x].token] = Null
    <3>1. CASE x = r BY <1>1, <2>6, <2>7, <2>10, <3>1
    <3>2. CASE x # r
      <4>1. req'[x] = req[x] /\ req[x].pc \in LoginPCs BY <2>5, <2>10, <3>2
      <4>2. req[x].token \in Tokens \ handed /\ from[req[x].token] = Null BY <2>1, <4>1 DEF OneHand
      <4>3. q.pc = "casAdd" => req[x].token # q.token
        BY <2>1, <3>2, <4>1 DEF OneHand, LoginPCs
      <4> QED BY <1>1, <2>8, <4>1, <4>2, <4>3
    <3> QED BY <3>1, <3>2
  <2>11. ASSUME NEW x \in Reqs, NEW y \in Reqs, x # y,
                req'[x].pc \in LoginPCs, req'[y].pc \in LoginPCs
         PROVE  req'[x].token # req'[y].token
    <3>1. CASE x = r BY <2>5, <2>6, <2>7, <2>11, <3>1
    <3>2. CASE y = r BY <2>5, <2>6, <2>7, <2>11, <3>2
    <3>3. CASE x # r /\ y # r BY <2>1, <2>5, <2>11, <3>3 DEF OneHand
    <3> QED BY <3>1, <3>2, <3>3
  <2>12. q.pc = "casAdd" => q.token \notin handed /\ from[q.token] = Null
    BY <2>1 DEF OneHand, LoginPCs
  <2>13. ASSUME NEW c \in Calls, call[c].pc \in Making \cup Made PROVE call[c].next \notin handed'
    <3>1. call[c].next \notin handed BY <2>1, <2>13 DEF OneHand
    <3>2. from[call[c].next] # Null BY <1>2, <2>13 DEF CallsInv, CallShape
    <3> QED BY <2>8, <2>12, <3>1, <3>2
  <2>14. ASSUME NEW x \in Reqs, born'[x] # Null
         PROVE  /\ \A t \in Tokens : from[t] # Null => from[t][1] # born'[x]
                /\ \A c \in Calls : Calling(c) => call[c].token # born'[x]
    <3>1. CASE born'[x] = born[x] BY <2>1, <2>14, <3>1 DEF OneHand
    <3>2. CASE q.pc = "casAdd" /\ born'[x] = q.token
      BY <1>2, <2>12, <3>2 DEF CallsInv, CallShape, Calling
    <3> QED BY <1>1, <1>2, <3>1, <3>2 DEF CallsInv
  <2>15. OneHand'
    BY <1>1, <2>10, <2>11, <2>13, <2>14 DEF OneHand, Calling
  <2> QED BY <2>2, <2>3, <2>15
<1> QED BY <1>3, <1>6, <1>7 DEF LInv
-----------------------------------------------------------------------------
(* Steps that leave the engine's variables alone keep its invariant. *)
LEMMA EngineUnchanged == ASSUME IInv, UNCHANGED vars PROVE IInv' /\ [Next]_vars
BY NextIInv

LEMMA InitLInv == LifecycleInit => LInv
<1> SUFFICES ASSUME LifecycleInit PROVE LInv
  OBVIOUS
<1>1. IInv BY InitIInv DEF LifecycleInit
<1>2. /\ state = [t \in Tokens |-> Null] /\ born = [r \in Reqs |-> Null]
      /\ call = [c \in Calls |-> NoCall] /\ from = [t \in Tokens |-> Null]
      /\ handed = {} /\ req = [r \in Reqs |-> Idle]
  BY DEF LifecycleInit, Init
<1>3. Idle.pc \notin LoginPCs BY DEF Idle, LoginPCs
<1>4. CallShape(NoCall, owner, handed, from) /\ NoCall.pc \notin Making \cup Made
  BY NoCallIsCall DEF CallShape, Making, Made
<1>5. CallsInv BY <1>1, <1>2, <1>4, NoCallIsCall DEF CallsInv
<1>6. OneHand BY <1>2, <1>3, <1>4 DEF OneHand
<1>7. Behind /\ Marking BY <1>2, NoCallIsCall DEF Behind, Marking
<1> QED BY <1>5, <1>6, <1>7 DEF LInv

LEMMA CreateTokenFamilyKeeps == ASSUME LInv, NEW r \in Reqs, CreateTokenFamily(r) PROVE LInv'
<1> DEFINE v == [familyId |-> born[r], generation |-> 0, status |-> "active"]
<1>1. CallsInv /\ IInv BY DEF LInv, CallsInv
<1>2. /\ born[r] \in Tokens /\ state' = [state EXCEPT ![born[r]] = v]
      /\ born' = [born EXCEPT ![r] = Null] /\ UNCHANGED <<vars, call, from>>
  BY <1>1 DEF CreateTokenFamily, CallsInv
<1>3. v \in FamilyState BY <1>2 DEF FamilyState
<1>4. IInv' /\ [Next]_vars BY <1>1, <1>2, EngineUnchanged
<1>5. CallsInv'
  <2> HIDE DEF v
  <2>1. UNCHANGED <<owner, handed>> BY <1>2 DEF vars
  <2>2. state' \in [Tokens -> FamilyState \cup {Null}] /\ born' \in [Reqs -> Tokens \cup {Null}]
    BY <1>1, <1>2, <1>3 DEF CallsInv
  <2>3. \A t \in handed' : owner'[t] # Null BY <1>1, <2>1 DEF CallsInv
  <2> QED BY <1>1, <1>2, <1>4, <2>1, <2>2, <2>3, CallsUndisturbed
<1>6. ASSUME ~Shares(config) PROVE OneHand' /\ Behind' /\ Marking'
  <2>1. OneHand /\ Behind /\ Marking BY <1>6 DEF LInv
  <2>2. Marking' BY <1>1, <1>2, <1>4, <1>6, <2>1, MarkingUndisturbed
  <2>3. \A x \in Reqs : born'[x] # Null => born'[x] = born[x] BY <1>1, <1>2 DEF CallsInv
  <2>4. OneHand' BY <1>2, <2>1, <2>3 DEF OneHand, vars, Calling
  <2>5. \A t \in Tokens : t # born[r] => state'[t] = state[t] BY <1>1, <1>2 DEF CallsInv
  <2>6. \A t \in Tokens : from[t] # Null => from[t][1] \in Tokens /\ from[t][1] # born[r]
    BY <1>1, <1>2, <2>1, ValuesAssumption DEF CallsInv, OneHand
  <2>7. Behind' BY <1>2, <2>1, <2>5, <2>6 DEF Behind
  <2> QED BY <2>2, <2>4, <2>7
<1>7. config' = config BY <1>2 DEF vars
<1> QED BY <1>5, <1>6, <1>7 DEF LInv

LEMMA StateExpiresKeeps == ASSUME LInv, NEW t \in Tokens, StateExpires(t) PROVE LInv'
<1>1. CallsInv /\ IInv BY DEF LInv, CallsInv
<1>2. state' = [state EXCEPT ![t] = Null] /\ UNCHANGED <<vars, born, call, from>>
  BY DEF StateExpires
<1>3. IInv' /\ [Next]_vars BY <1>1, <1>2, EngineUnchanged
<1>4. UNCHANGED <<config, owner, handed>> BY <1>2 DEF vars
<1>5. CallsInv'
  <2>1. state' \in [Tokens -> FamilyState \cup {Null}] /\ born' \in [Reqs -> Tokens \cup {Null}]
    BY <1>1, <1>2 DEF CallsInv
  <2>2. \A u \in handed' : owner'[u] # Null BY <1>1, <1>4 DEF CallsInv
  <2> QED BY <1>1, <1>2, <1>3, <1>4, <2>1, <2>2, CallsUndisturbed
<1>6. ASSUME ~Shares(config) PROVE OneHand' /\ Behind' /\ Marking'
  <2>1. OneHand /\ Behind /\ Marking BY <1>6 DEF LInv
  <2>2. Marking' BY <1>1, <1>2, <1>3, <1>6, <2>1, MarkingUndisturbed
  <2>3. OneHand' BY <1>2, <2>1 DEF OneHand, vars, Calling
  <2>4. \A u \in Tokens : state'[u] # Null => state'[u] = state[u] BY <1>1, <1>2 DEF CallsInv
  <2>5. \A u \in Tokens : from[u] # Null => from[u][1] \in Tokens
    BY <1>1 DEF CallsInv
  <2>6. Behind' BY <1>2, <2>1, <2>4, <2>5 DEF Behind
  <2> QED BY <2>2, <2>3, <2>6
<1> QED BY <1>4, <1>5, <1>6 DEF LInv

-----------------------------------------------------------------------------
(* What a step of call c has to show of the call it leaves behind.          *)
LEMMA CallStepCalls ==
  ASSUME CallsInv, NEW c \in Calls, NEW n \in Call, Proceed(c, n), IInv', born' = born,
         state' \in [Tokens -> FamilyState \cup {Null}],
         from' \in [Tokens -> (Tokens \X Nat) \cup {Null}],
         handed \subseteq handed',
         \A t \in Tokens : from[t] # Null => from'[t] = from[t],
         \A t \in Tokens : owner[t] # Null => owner'[t] = owner[t],
         CallShape(n, owner', handed', from'),
         n.pc \in Making \cup Made =>
           \A e \in Calls : e # c /\ call[e].pc \in Making \cup Made => call[e].next # n.next,
         \A e \in Calls : e # c /\ call[e].pc \in Making =>
           owner'[call[e].next] = owner[call[e].next],
         \A t \in handed' : owner'[t] # Null,
         \A t \in Tokens : from'[t] # Null => from'[t][1] \in handed'
  PROVE  CallsInv'
<1>1. call' \in [Calls -> Call] /\ call'[c] = n /\ \A e \in Calls : e # c => call'[e] = call[e]
  BY DEF CallsInv, Proceed
<1>2. ASSUME NEW e \in Calls PROVE CallShape(call'[e], owner', handed', from')
  <2>1. CASE e = c BY <1>1, <2>1
  <2>2. CASE e # c
    <3>1. call[e] \in Call /\ CallShape(call[e], owner, handed, from) /\ handed \subseteq Tokens
      BY DEF CallsInv, IInv, TypeOK
    <3>2. CallShape(call[e], owner', handed', from')
      BY <2>2, <3>1, ShapeKeeps DEF CallsInv
    <3> QED BY <1>1, <2>2, <3>2
  <2> QED BY <2>1, <2>2
<1>3. ASSUME NEW e \in Calls, NEW f \in Calls, e # f,
             call'[e].pc \in Making \cup Made, call'[f].pc \in Making \cup Made
      PROVE  call'[e].next # call'[f].next
  <2>1. CASE e = c BY <1>1, <1>3, <2>1
  <2>2. CASE f = c BY <1>1, <1>3, <2>2
  <2>3. CASE e # c /\ f # c BY <1>1, <1>3, <2>3 DEF CallsInv
  <2> QED BY <2>1, <2>2, <2>3
<1>4. born' \in [Reqs -> Tokens \cup {Null}] BY DEF CallsInv
<1> QED BY <1>1, <1>2, <1>3, <1>4 DEF CallsInv

(* A call that only reads the store, or only changes a family state: it     *)
(* keeps the token it works on and the one it has made.                     *)
Onward(q, n) ==
  /\ n.pc # "idle" => n.token = q.token /\ q.pc # "idle"
  /\ n.pc \in Making \cup Made => q.pc \in Making \cup Made /\ n.next = q.next

LEMMA StateStep ==
  ASSUME CallsInv, NEW c \in Calls, NEW n \in Call, Proceed(c, n), Onward(call[c], n),
         CallShape(n, owner, handed, from), UNCHANGED <<vars, born, from>>,
         state' \in [Tokens -> FamilyState \cup {Null}]
  PROVE  /\ CallsInv' /\ config' = config
         /\ OneHand => OneHand'
         /\ n.pc \notin {"casMark", "add"} /\ Marking => Marking'
<1>1. UNCHANGED <<config, tokenKey, owner, handed, req>> BY DEF vars
<1>2. IInv' BY EngineUnchanged DEF CallsInv
<1>3. call[c] \in Call BY DEF CallsInv
<1>4. from' \in [Tokens -> (Tokens \X Nat) \cup {Null}] BY DEF CallsInv
<1>5. \A t \in handed' : owner'[t] # Null BY <1>1 DEF CallsInv
<1>6. \A t \in Tokens : from'[t] # Null => from'[t][1] \in handed' BY <1>1 DEF CallsInv
<1>7. n.pc \in Making \cup Made =>
        \A e \in Calls : e # c /\ call[e].pc \in Making \cup Made => call[e].next # n.next
  BY DEF CallsInv, Onward
<1>8. CallShape(n, owner', handed', from') BY <1>1
<1>9. CallsInv'
  BY <1>1, <1>2, <1>4, <1>5, <1>6, <1>7, <1>8, CallStepCalls
<1>10. call'[c] = n /\ \A e \in Calls : e # c => call'[e] = call[e] BY DEF CallsInv, Proceed
<1>11. ASSUME OneHand PROVE OneHand'
  <2>1. \A e \in Calls : call'[e].pc \in Making \cup Made => call'[e].next \notin handed
    BY <1>10, <1>11 DEF OneHand, Onward
  <2>2. \A r \in Reqs, e \in Calls :
          born[r] # Null /\ call'[e].pc # "idle" => call'[e].token # born[r]
    BY <1>10, <1>11 DEF OneHand, Onward, Calling
  <2> QED BY <1>1, <1>11, <2>1, <2>2 DEF OneHand, Calling
<1>12. ASSUME n.pc \notin {"casMark", "add"}, Marking PROVE Marking'
  BY <1>1, <1>10, <1>12 DEF Marking, Live
<1> QED BY <1>1, <1>9, <1>11, <1>12
-----------------------------------------------------------------------------
(* The start of a call. *)
LEMMA StartCallKeeps ==
  ASSUME LInv, NEW c \in Calls, NEW n \in Call, StartCall(c, n),
         n.pc \in {"readToken", "readState"}
  PROVE  LInv'
<1>1. CallsInv /\ IInv BY DEF LInv, CallsInv
<1>2. /\ n.token \in handed /\ Proceed(c, n) /\ UNCHANGED <<vars, state, born, from>>
      /\ \A r \in Reqs : born[r] = n.token => Shares(config)
  BY DEF StartCall
<1>3. UNCHANGED <<config, tokenKey, owner, handed, req>> BY <1>2 DEF vars
<1>4. IInv' BY <1>1, <1>2, EngineUnchanged
<1>5. CallShape(n, owner', handed', from') /\ n.pc \notin Making \cup Made
      /\ n.pc \notin {"casMark", "add"}
  BY <1>2, <1>3 DEF CallShape, Making, Made
<1>6. CallsInv'
  <2>1. from' \in [Tokens -> (Tokens \X Nat) \cup {Null}] BY <1>1, <1>2 DEF CallsInv
  <2>2. state' \in [Tokens -> FamilyState \cup {Null}] BY <1>1, <1>2 DEF CallsInv
  <2>3. \A t \in handed' : owner'[t] # Null BY <1>1, <1>3 DEF CallsInv
  <2>4. \A t \in Tokens : from'[t] # Null => from'[t][1] \in handed'
    BY <1>1, <1>2, <1>3 DEF CallsInv
  <2> QED BY <1>1, <1>2, <1>3, <1>4, <1>5, <2>1, <2>2, <2>3, <2>4, CallStepCalls
<1>7. call'[c] = n /\ \A e \in Calls : e # c => call'[e] = call[e]
  BY <1>1, <1>2 DEF CallsInv, Proceed
<1>8. ASSUME ~Shares(config) PROVE OneHand' /\ Behind' /\ Marking'
  <2>1. OneHand /\ Behind /\ Marking BY <1>8 DEF LInv
  <2>2. \A e \in Calls : call'[e].pc \in Making \cup Made => call'[e].next \notin handed
    BY <1>5, <1>7, <2>1 DEF OneHand
  <2>3. \A r \in Reqs, e \in Calls :
          born[r] # Null /\ call'[e].pc # "idle" => call'[e].token # born[r]
    BY <1>2, <1>7, <1>8, <2>1 DEF OneHand, Calling
  <2>4. OneHand' BY <1>2, <1>3, <2>1, <2>2, <2>3 DEF OneHand, Calling
  <2>5. Marking' BY <1>3, <1>5, <1>7, <2>1 DEF Marking, Live
  <2>6. Behind' BY <1>2, <2>1 DEF Behind
  <2> QED BY <2>4, <2>5, <2>6
<1> QED BY <1>3, <1>6, <1>8 DEF LInv

LEMMA StartsKeep ==
  ASSUME LInv, NEW c \in Calls, NEW t \in Tokens, StartRefresh(c, t) \/ StartRevoke(c, t)
  PROVE  LInv'
<1>1. CASE StartRefresh(c, t)
  <2> DEFINE n == [NoCall EXCEPT !.op = "refresh", !.pc = "readToken", !.token = t]
  <2>1. n \in Call /\ n.pc = "readToken" BY DEF NoCall, Call, CallPCs
  <2>2. StartCall(c, n) BY <1>1 DEF StartRefresh
  <2> HIDE DEF n
  <2> QED BY <2>1, <2>2, StartCallKeeps
<1>2. CASE StartRevoke(c, t)
  <2> DEFINE n == [NoCall EXCEPT !.op = "revoke", !.pc = "readState", !.token = t]
  <2>1. n \in Call /\ n.pc = "readState" BY DEF NoCall, Call, CallPCs
  <2>2. StartCall(c, n) BY <1>2 DEF StartRevoke
  <2> HIDE DEF n
  <2> QED BY <2>1, <2>2, StartCallKeeps
<1> QED BY <1>1, <1>2

-----------------------------------------------------------------------------
(* The steps of a call that only read. *)
LEMMA ReadingCallKeeps ==
  ASSUME LInv, NEW c \in Calls,
         RefreshReadToken(c) \/ ReadState(c) \/ ReplayRead(c) \/ CallAborts(c)
  PROVE  LInv'
<1> DEFINE q == call[c]
<1>1. CallsInv /\ IInv /\ q \in Call /\ CallShape(q, owner, handed, from)
  BY DEF LInv, CallsInv
<1>2. UNCHANGED <<vars, state, born, from>> /\ q.pc # "idle"
  BY DEF RefreshReadToken, ReadState, ReplayRead, CallAborts, Calling
<1>3. PICK n \in Call : /\ Proceed(c, n) /\ Onward(q, n) /\ CallShape(n, owner, handed, from)
                        /\ n.pc \notin {"casMark", "add"}
  <2> DEFINE Out(n) == /\ n \in Call /\ Proceed(c, n) /\ Onward(q, n)
                       /\ CallShape(n, owner, handed, from) /\ n.pc \notin {"casMark", "add"}
  <2>1. CASE Proceed(c, NoCall)
    <3>1. Out(NoCall) BY <2>1, NoCallIsCall DEF Onward, CallShape, Making, Made
    <3> QED BY <3>1
  <2>2. CASE q.pc = "readToken" /\ Proceed(c, [q EXCEPT !.pc = "readState"])
    <3> DEFINE n == [q EXCEPT !.pc = "readState"]
    <3>1. n \in Call /\ n.pc = "readState" /\ n.token = q.token BY <1>1 DEF Call, CallPCs
    <3>2. Proceed(c, n) BY <2>2
    <3> HIDE DEF n
    <3>3. Out(n) BY <1>1, <2>2, <3>1, <3>2 DEF Onward, CallShape, Making, Made
    <3> QED BY <3>3
  <2>3. ASSUME NEW n, Proceed(c, n), q.pc = "readState", Active(q.token),
               n = [q EXCEPT !.raw = state[q.token],
                             !.pc = IF q.op = "refresh" THEN "advance" ELSE "casRevoked"]
        PROVE  \E m : Out(m)
    <3>1. q.token \in Tokens BY <1>1, <2>3 DEF CallShape, IInv, TypeOK
    <3>2. state[q.token] \in FamilyState /\ state[q.token].status = "active"
      BY <1>1, <2>3, <3>1 DEF CallsInv, Active
    <3>3. n \in Call /\ n.pc \in {"advance", "casRevoked"} /\ n.token = q.token
          /\ n.raw = state[q.token]
      BY <1>1, <2>3, <3>2 DEF Call, CallPCs
    <3>4. Out(n) BY <1>1, <2>3, <3>2, <3>3 DEF Onward, CallShape, Making, Made
    <3> QED BY <3>4
  <2>4. ASSUME NEW n, Proceed(c, n), q.pc = "replayRead", state[q.token] # Null,
               n = [q EXCEPT !.pc = "replayCas", !.raw = state[q.token]]
        PROVE  \E m : Out(m)
    <3>1. q.token \in Tokens BY <1>1, <2>4 DEF CallShape, IInv, TypeOK
    <3>2. state[q.token] \in FamilyState BY <1>1, <2>4, <3>1 DEF CallsInv
    <3>3. n \in Call /\ n.pc = "replayCas" /\ n.token = q.token /\ n.raw = state[q.token]
      BY <1>1, <2>4, <3>2 DEF Call, CallPCs
    <3>4. Out(n) BY <1>1, <2>4, <3>2, <3>3 DEF Onward, CallShape, Making, Made
    <3> QED BY <3>4
  <2>5. \E m : Out(m)
    <3>1. CASE RefreshReadToken(c)
      <4>1. Proceed(c, NoCall) \/ (q.pc = "readToken" /\ Proceed(c, [q EXCEPT !.pc = "readState"]))
        BY <3>1 DEF RefreshReadToken
      <4> QED BY <2>1, <2>2, <4>1
    <3>2. CASE ReadState(c)
      <4> DEFINE n == [q EXCEPT !.raw = state[q.token],
                             !.pc = IF q.op = "refresh" THEN "advance" ELSE "casRevoked"]
      <4>1. Proceed(c, NoCall) \/ (q.pc = "readState" /\ Active(q.token) /\ Proceed(c, n))
        BY <3>2 DEF ReadState
      <4> QED BY <2>1, <2>3, <4>1
    <3>3. CASE ReplayRead(c)
      <4> DEFINE n == [q EXCEPT !.pc = "replayCas", !.raw = state[q.token]]
      <4>1. Proceed(c, NoCall) \/ (q.pc = "replayRead" /\ state[q.token] # Null /\ Proceed(c, n))
        BY <3>3 DEF ReplayRead
      <4> QED BY <2>1, <2>4, <4>1
    <3>4. CASE CallAborts(c) BY <2>1, <3>4 DEF CallAborts
    <3> QED BY <3>1, <3>2, <3>3, <3>4
  <2> QED BY <2>5
<1>4. state' \in [Tokens -> FamilyState \cup {Null}] BY <1>1, <1>2 DEF CallsInv
<1> HIDE DEF q
<1>5. /\ CallsInv' /\ config' = config /\ (OneHand => OneHand') /\ (Marking => Marking')
  BY <1>1, <1>2, <1>3, <1>4, StateStep DEF q
<1>6. Behind => Behind' BY <1>2 DEF Behind
<1> QED BY <1>5, <1>6 DEF LInv

LEMMA RefreshReadMarkKeeps == ASSUME LInv, NEW c \in Calls, RefreshReadMark(c) PROVE LInv'
<1> DEFINE q == call[c]
           v == tokenKey[q.token]
<1>1. CallsInv /\ IInv /\ q \in Call /\ CallShape(q, owner, handed, from)
  BY DEF LInv, CallsInv
<1>2. UNCHANGED <<vars, state, born, from>> /\ q.pc = "readMark" BY DEF RefreshReadMark
<1>3. UNCHANGED <<config, tokenKey, owner, handed, req>> BY <1>2 DEF vars
<1>4. q.token \in Tokens /\ v \in LoginIds \cup Markers \cup {Null}
  BY <1>1, <1>2 DEF CallShape, IInv, TypeOK
<1>5. PICK n \in Call : /\ Proceed(c, n) /\ Onward(q, n) /\ CallShape(n, owner, handed, from)
                        /\ n.pc # "add" /\ (n.pc = "casMark" => n.seen = tokenKey[n.token])
  <2>1. CASE Proceed(c, NoCall)
    BY <1>2, <2>1, NoCallIsCall DEF Onward, CallShape, Making, Made
  <2>2. ASSUME v # Null, NEW n, n = [q EXCEPT !.pc = "casMark", !.seen = v], Proceed(c, n)
        PROVE  /\ n \in Call /\ Proceed(c, n) /\ Onward(q, n) /\ CallShape(n, owner, handed, from)
               /\ n.pc # "add" /\ (n.pc = "casMark" => n.seen = tokenKey[n.token])
    <3>1. n \in Call /\ n.pc = "casMark" /\ n.token = q.token /\ n.seen = v /\ n.next = q.next
      BY <1>1, <1>4, <2>2 DEF Call, CallPCs
    <3> QED BY <1>1, <1>2, <2>2, <3>1 DEF Onward, CallShape, Making, Made
  <2>3. Proceed(c, NoCall) \/ (v # Null /\ Proceed(c, [q EXCEPT !.pc = "casMark", !.seen = v]))
    BY DEF RefreshReadMark
  <2> QED BY <2>1, <2>2, <2>3
<1>6. state' \in [Tokens -> FamilyState \cup {Null}] BY <1>1, <1>2 DEF CallsInv
<1>7. call'[c] = n /\ \A e \in Calls : e # c => call'[e] = call[e]
  BY <1>1, <1>5 DEF CallsInv, Proceed
<1>8. Marking => Marking' BY <1>3, <1>5, <1>7 DEF Marking, Live
<1>9. Behind => Behind' BY <1>2 DEF Behind
<1> HIDE DEF q
<1>10. CallsInv' /\ (OneHand => OneHand')
  BY <1>1, <1>2, <1>5, <1>6, StateStep DEF q
<1> QED BY <1>3, <1>8, <1>9, <1>10 DEF LInv
-----------------------------------------------------------------------------
(* The steps of a call that change a family state. *)
LEMMA RefreshAdvanceKeeps == ASSUME LInv, NEW c \in Calls, RefreshAdvance(c) PROVE LInv'
<1> DEFINE q == call[c]
<1>1. CallsInv /\ IInv /\ q \in Call /\ CallShape(q, owner, handed, from)
  BY DEF LInv, CallsInv
<1>2. /\ UNCHANGED <<vars, born>> /\ q.pc = "advance" /\ q.raw \in FamilyState
      /\ q.token \in handed
  BY <1>1 DEF RefreshAdvance, CallShape
<1>3. UNCHANGED <<config, tokenKey, owner, handed, req>> BY <1>2 DEF vars
<1>4. CASE state[q.token] # q.raw
  <2> DEFINE n == [q EXCEPT !.pc = "replayRead", !.raw = Null]
  <2>1. Proceed(c, n) /\ UNCHANGED <<state, from>> BY <1>4 DEF RefreshAdvance
  <2>2. n \in Call /\ n.pc = "replayRead" /\ n.token = q.token BY <1>1 DEF Call, CallPCs
  <2> HIDE DEF n
  <2>3. Onward(q, n) /\ CallShape(n, owner, handed, from)
    BY <1>2, <2>2 DEF Onward, CallShape, Making, Made
  <2>4. state' \in [Tokens -> FamilyState \cup {Null}] BY <1>1, <2>1 DEF CallsInv
  <2> HIDE DEF q
  <2>5. CallsInv' /\ (OneHand => OneHand') /\ (Marking => Marking')
    BY <1>1, <1>2, <2>1, <2>2, <2>3, <2>4, StateStep DEF q
  <2>6. Behind => Behind' BY <2>1 DEF Behind
  <2> QED BY <1>3, <2>5, <2>6 DEF LInv
<1>5. CASE state[q.token] = q.raw
  <2>1. PICK t \in Unmade :
          /\ Proceed(c, [q EXCEPT !.pc = "writeState", !.next = t])
          /\ from' = [from EXCEPT ![t] = <<q.token, q.raw.generation>>]
    BY <1>5 DEF RefreshAdvance
  <2>2. state' = [state EXCEPT ![q.token] = NextState(q.raw)] BY <1>5 DEF RefreshAdvance
  <2> DEFINE n == [q EXCEPT !.pc = "writeState", !.next = t]
             o == <<q.token, q.raw.generation>>
  <2>3. t \in Tokens /\ owner[t] = Null /\ from[t] = Null /\ t \notin handed
    BY <1>1, <2>1 DEF Unmade, Fresh, CallsInv
  <2>4. n \in Call /\ n.pc = "writeState" /\ n.token = q.token /\ n.next = t /\ n.raw = q.raw
    BY <1>1, <2>3 DEF Call, CallPCs
  <2>5. q.token \in Tokens /\ o \in Tokens \X Nat /\ o # Null
    BY <1>1, <1>2, CallsAssumption DEF IInv, TypeOK, FamilyState
  <2>6. Proceed(c, n) BY <2>1
  <2>7. from' = [from EXCEPT ![t] = o] BY <2>1
  <2> HIDE DEF n
  <2>8. /\ from' \in [Tokens -> (Tokens \X Nat) \cup {Null}] /\ from'[t] = o
        /\ \A u \in Tokens : u # t => from'[u] = from[u]
    BY <1>1, <2>3, <2>5, <2>7 DEF CallsInv
  <2>9. /\ NextState(q.raw) \in FamilyState /\ NextState(q.raw).generation = q.raw.generation + 1
    BY <1>2, NextStateIsState
  <2>10. state' \in [Tokens -> FamilyState \cup {Null}] /\ state'[q.token] = NextState(q.raw)
         /\ \A u \in Tokens : u # q.token => state'[u] = state[u]
    BY <1>1, <2>2, <2>5, <2>9 DEF CallsInv
  <2>11. IInv' BY <1>1, <1>2, EngineUnchanged
  <2>12. CallShape(n, owner', handed', from')
    BY <1>2, <1>3, <2>3, <2>4, <2>5, <2>8 DEF CallShape, Making, Made
  <2>13. ASSUME NEW e \in Calls, call[e].pc \in Making \cup Made PROVE call[e].next # t
    BY <1>1, <2>3, <2>13 DEF CallsInv, CallShape
  <2>14. \A u \in Tokens : from'[u] # Null => from'[u][1] \in handed'
    BY <1>1, <1>2, <1>3, <2>8 DEF CallsInv
  <2>15. \A u \in handed' : owner'[u] # Null BY <1>1, <1>3 DEF CallsInv
  <2>16. \A u \in Tokens : from[u] # Null => from'[u] = from[u] BY <2>3, <2>8
  <2>17. CallsInv'
    <3> HIDE DEF q, o
    <3> QED BY <1>1, <1>2, <1>3, <2>4, <2>6, <2>8, <2>10, <2>11, <2>12, <2>13, <2>14, <2>15,
               <2>16, CallStepCalls
  <2>18. call'[c] = n /\ \A e \in Calls : e # c => call'[e] = call[e]
    BY <1>1, <2>6 DEF CallsInv, Proceed
  <2>19. ASSUME ~Shares(config) PROVE OneHand' /\ Behind' /\ Marking'
    <3>1. OneHand /\ Behind /\ Marking BY <2>19 DEF LInv
    <3>2. ASSUME NEW r \in Reqs, req[r].pc \in LoginPCs
          PROVE  req[r].token \in Tokens \ handed' /\ from'[req[r].token] = Null
      <4>1. req[r].token \in Tokens \ handed /\ from[req[r].token] = Null
        BY <3>1, <3>2 DEF OneHand
      <4>2. req[r].token # t BY <1>1, <2>3, <3>2, LoginToken
      <4> QED BY <1>3, <2>8, <4>1, <4>2
    <3>3. \A e \in Calls : call'[e].pc \in Making \cup Made => call'[e].next \notin handed'
      BY <1>3, <2>3, <2>4, <2>18, <3>1 DEF OneHand
    <3>4. ASSUME NEW r \in Reqs, born[r] # Null
          PROVE  /\ \A u \in Tokens : from'[u] # Null => from'[u][1] # born[r]
                 /\ \A e \in Calls : call'[e].pc # "idle" => call'[e].token # born[r]
      BY <1>2, <2>4, <2>8, <2>18, <3>1, <3>4 DEF OneHand, Calling
    <3>5. OneHand' BY <1>2, <1>3, <3>1, <3>2, <3>3, <3>4 DEF OneHand, Calling
    <3>6. Marking' BY <1>3, <2>4, <2>18, <3>1 DEF Marking, Live
    <3>7. q.raw.generation \in Nat /\ q.raw # Null BY <1>2, StateAssumption DEF FamilyState
    <3>8. ASSUME NEW u \in Tokens, from'[u] # Null, state'[from'[u][1]] # Null
          PROVE  from'[u][2] < state'[from'[u][1]].generation
      <4>1. CASE u = t BY <2>8, <2>9, <2>10, <3>7, <4>1
      <4>2. CASE u # t
        <5>1. from'[u] = from[u] /\ from[u] \in Tokens \X Nat BY <1>1, <2>8, <3>8, <4>2 DEF CallsInv
        <5>2. state[from[u][1]] # Null => from[u][2] < state[from[u][1]].generation
          BY <3>1, <3>8, <5>1 DEF Behind
        <5> QED BY <1>5, <2>9, <2>10, <3>7, <3>8, <5>1, <5>2
      <4> QED BY <4>1, <4>2
    <3>9. ASSUME NEW u \in Tokens, u # t PROVE from[u] # o
      <4>1. from[u] = o => o[2] < q.raw.generation
        BY <1>5, <2>5, <3>1, <3>7 DEF Behind
      <4> QED BY <3>7, <4>1
    <3>10. ASSUME NEW u \in Tokens, NEW w \in Tokens, u # w, from'[u] # Null
           PROVE  from'[u] # from'[w]
      BY <2>8, <3>1, <3>9, <3>10 DEF Behind
    <3>11. Behind' BY <3>8, <3>10 DEF Behind
    <3> QED BY <3>5, <3>6, <3>11
  <2> QED BY <1>3, <2>17, <2>19 DEF LInv
<1> QED BY <1>4, <1>5

LEMMA RefreshWriteStateKeeps == ASSUME LInv, NEW c \in Calls, RefreshWriteState(c) PROVE LInv'
<1> DEFINE q == call[c]
           n == [q EXCEPT !.pc = "writeToken", !.raw = Null]
<1>1. CallsInv /\ IInv /\ q \in Call /\ CallShape(q, owner, handed, from)
  BY DEF LInv, CallsInv
<1>2. /\ UNCHANGED <<vars, born, from>> /\ q.pc = "writeState" /\ Proceed(c, n)
      /\ state' = [state EXCEPT ![q.next] = NextState(q.raw)]
  BY DEF RefreshWriteState
<1>3. q.raw \in FamilyState /\ q.next \in Tokens /\ q.token \in handed
  BY <1>1, <1>2 DEF CallShape, Making
<1>4. n \in Call /\ n.pc = "writeToken" /\ n.token = q.token /\ n.next = q.next
  BY <1>1 DEF Call, CallPCs
<1>5. state' \in [Tokens -> FamilyState \cup {Null}]
      /\ \A t \in Tokens : t # q.next => state'[t] = state[t]
  BY <1>1, <1>2, <1>3, NextStateIsState DEF CallsInv
<1> HIDE DEF n
<1>6. Onward(q, n) /\ CallShape(n, owner, handed, from) /\ n.pc \notin {"casMark", "add"}
  BY <1>1, <1>2, <1>3, <1>4 DEF Onward, CallShape, Making, Made
<1>7. OneHand => q.next \notin handed BY <1>2 DEF OneHand, Making
<1>8. \A t \in Tokens : from[t] # Null => from[t][1] \in handed /\ from[t][1] \in Tokens
  BY <1>1 DEF CallsInv
<1>9. OneHand /\ Behind => Behind' BY <1>2, <1>5, <1>7, <1>8 DEF Behind
<1> HIDE DEF q
<1>10. CallsInv' /\ config' = config /\ (OneHand => OneHand') /\ (Marking => Marking')
  BY <1>1, <1>2, <1>4, <1>5, <1>6, StateStep DEF q
<1> QED BY <1>9, <1>10 DEF LInv

LEMMA CasRevokedKeeps == ASSUME LInv, NEW c \in Calls, CasRevoked(c) PROVE LInv'
<1> DEFINE q == call[c]
<1>1. CallsInv /\ IInv /\ q \in Call /\ CallShape(q, owner, handed, from)
  BY DEF LInv, CallsInv
<1>2. /\ UNCHANGED <<vars, born, from>> /\ q.pc \in {"casRevoked", "replayCas"}
      /\ Proceed(c, NoCall)
      /\ \/ state' = state
         \/ state[q.token] = q.raw /\ state' = [state EXCEPT ![q.token].status = "revoked"]
  BY DEF CasRevoked
<1>3. q.raw \in FamilyState /\ q.token \in handed /\ q.token \in Tokens
  BY <1>1, <1>2 DEF CallShape, IInv, TypeOK
<1>4. PICK v \in FamilyState :
        /\ v.generation = q.raw.generation
        /\ state' = state \/ (state[q.token] = q.raw /\ state' = [state EXCEPT ![q.token] = v])
  <2> DEFINE v == [q.raw EXCEPT !.status = "revoked"]
  <2>1. v \in FamilyState /\ v.generation = q.raw.generation BY <1>3 DEF FamilyState
  <2>2. state[q.token] = q.raw =>
          [state EXCEPT ![q.token].status = "revoked"] = [state EXCEPT ![q.token] = v]
    BY <1>1, <1>3 DEF CallsInv
  <2> QED BY <1>2, <2>1, <2>2
<1>5. state' \in [Tokens -> FamilyState \cup {Null}] BY <1>1, <1>3, <1>4 DEF CallsInv
<1>6. Onward(q, NoCall) /\ CallShape(NoCall, owner, handed, from) /\ NoCall.pc \notin {"casMark", "add"}
  BY NoCallIsCall DEF Onward, CallShape, Making, Made
<1>7. \A t \in Tokens : from[t] # Null => from[t][1] \in Tokens BY <1>1 DEF CallsInv
<1>8. Behind => Behind'
  <2>1. CASE state' = state BY <1>2, <2>1 DEF Behind
  <2>2. CASE state[q.token] = q.raw /\ state' = [state EXCEPT ![q.token] = v]
    <3>1. \A t \in Tokens : state'[t] = IF t = q.token THEN v ELSE state[t]
      BY <1>1, <1>3, <2>2 DEF CallsInv
    <3>2. CASE q.raw # Null BY <1>2, <1>4, <1>7, <2>2, <3>1, <3>2 DEF Behind
    <3>3. q.raw # Null BY <1>3, StateAssumption
    <3> QED BY <3>2, <3>3
  <2> QED BY <1>4, <2>1, <2>2
<1> HIDE DEF q
<1>9. CallsInv' /\ config' = config /\ (OneHand => OneHand') /\ (Marking => Marking')
  BY <1>1, <1>2, <1>5, <1>6, NoCallIsCall, StateStep DEF q
<1> QED BY <1>8, <1>9 DEF LInv
-----------------------------------------------------------------------------
(* The steps of a call that write the engine's keys.  The requests in       *)
(* flight see a token's owner once it has one, and no other.                *)
LEMMA RequestsUndisturbed ==
  ASSUME IInv, UNCHANGED <<config, req>>, TypeOK', Ownership',
         \A t \in Tokens : owner[t] # Null => owner'[t] = owner[t]
  PROVE  IInv'
<1>1. ASSUME NEW x \in Reqs PROVE Shape(req[x]) /\ Holds(req[x], owner', config)
  <2>1. req[x] \in Request /\ Shape(req[x]) /\ Holds(req[x], owner, config)
    BY DEF IInv, TypeOK
  <2>2. ASSUME req[x].pc \in ByLogin, req[x].token # Null
        PROVE  owner'[req[x].token] = <<req[x].login, req[x].device>>
    <3>1. req[x].login \in LoginIds /\ req[x].device \in Devices /\ req[x].token \in Tokens
      BY <2>1, <2>2 DEF Shape, ByLogin, Request
    <3>2. owner[req[x].token] = <<req[x].login, req[x].device>> BY <2>1, <2>2 DEF Holds
    <3>3. <<req[x].login, req[x].device>> # Null
      <4>1. <<req[x].login, req[x].device>> \in LoginIds \X Devices BY <3>1
      <4> QED BY <4>1, ValuesAssumption
    <3>4. owner[req[x].token] # Null BY <3>2, <3>3
    <3> QED BY <3>1, <3>2, <3>4
  <2> QED BY <2>1, <2>2 DEF Holds
<1> QED BY <1>1 DEF IInv

(* The call goes on with the tokens it has, and no token changes hands.     *)
LEMMA EngineKeyStep ==
  ASSUME CallsInv, NEW c \in Calls, NEW n \in Call, Proceed(c, n), IInv',
         n.token = call[c].token, n.next = call[c].next, call[c].pc \in Making \cup Made,
         UNCHANGED <<config, req, handed, state, born, from>>,
         \A t \in Tokens : t # call[c].next => owner'[t] = owner[t],
         owner[call[c].next] # Null => owner'[call[c].next] = owner[call[c].next],
         CallShape(n, owner', handed, from)
  PROVE  CallsInv' /\ (OneHand => OneHand') /\ (Behind => Behind')
<1> DEFINE q == call[c]
<1>1. q \in Call /\ CallShape(q, owner, handed, from) BY DEF CallsInv
<1>2. q.pc # "idle" BY DEF Making, Made
<1>3. \A t \in Tokens : owner[t] # Null => owner'[t] = owner[t] OBVIOUS
<1>4. \A e \in Calls : e # c /\ call[e].pc \in Making \cup Made => call[e].next # n.next
  BY DEF CallsInv
<1>5. \A e \in Calls : e # c /\ call[e].pc \in Making =>
        owner'[call[e].next] = owner[call[e].next]
  BY <1>4 DEF CallsInv, CallShape
<1>6. \A t \in handed' : owner'[t] # Null BY <1>3 DEF CallsInv, IInv, TypeOK
<1>7. \A t \in Tokens : from'[t] # Null => from'[t][1] \in handed' BY DEF CallsInv
<1>8. from' \in [Tokens -> (Tokens \X Nat) \cup {Null}]
      /\ state' \in [Tokens -> FamilyState \cup {Null}]
  BY DEF CallsInv
<1>9. CallsInv'
  <2> HIDE DEF q
  <2>1. CallShape(n, owner', handed', from') OBVIOUS
  <2>2. handed \subseteq handed' OBVIOUS
  <2>3. \A t \in Tokens : from[t] # Null => from'[t] = from[t] OBVIOUS
  <2> QED BY <1>3, <1>4, <1>5, <1>6, <1>7, <1>8, <2>1, <2>2, <2>3, CallStepCalls
<1>10. call'[c] = n /\ \A e \in Calls : e # c => call'[e] = call[e] BY DEF CallsInv, Proceed
<1>11. ASSUME OneHand PROVE OneHand'
  <2>1. \A e \in Calls : call'[e].pc \in Making \cup Made => call'[e].next \notin handed
    BY <1>10, <1>11 DEF OneHand
  <2>2. \A r \in Reqs, e \in Calls :
          born[r] # Null /\ call'[e].pc # "idle" => call'[e].token # born[r]
    BY <1>2, <1>10, <1>11 DEF OneHand, Calling
  <2> QED BY <1>11, <2>1, <2>2 DEF OneHand, Calling
<1>12. Behind => Behind' BY DEF Behind
<1> QED BY <1>9, <1>11, <1>12

LEMMA RefreshWriteTokenKeeps == ASSUME LInv, NEW c \in Calls, RefreshWriteToken(c) PROVE LInv'
<1> DEFINE q == call[c]
           n == [q EXCEPT !.pc = "writeSession"]
<1>1. CallsInv /\ IInv /\ q \in Call /\ CallShape(q, owner, handed, from)
  BY DEF LInv, CallsInv
<1>2. /\ q.pc = "writeToken" /\ Proceed(c, n)
      /\ tokenKey' = [tokenKey EXCEPT ![q.next] = owner[q.token][1]]
      /\ owner' = [owner EXCEPT ![q.next] = owner[q.token]]
      /\ UNCHANGED <<config, session, list, data, req, handed, state, born, from>>
  BY DEF RefreshWriteToken
<1>3. /\ q.next \in Tokens /\ owner[q.next] = Null /\ from[q.next] # Null
      /\ q.token \in handed /\ q.token \in Tokens /\ owner[q.token] # Null
  BY <1>1, <1>2 DEF CallShape, Making, CallsInv, IInv, TypeOK
<1>4. owner[q.token] \in LoginIds \X Devices BY <1>1, <1>3 DEF IInv, TypeOK
<1>5. n \in Call /\ n.pc = "writeSession" /\ n.token = q.token /\ n.next = q.next
  BY <1>1 DEF Call, CallPCs
<1>6. /\ owner' \in [Tokens -> (LoginIds \X Devices) \cup {Null}]
      /\ owner'[q.next] = owner[q.token]
      /\ \A t \in Tokens : t # q.next => owner'[t] = owner[t]
      /\ tokenKey' \in [Tokens -> LoginIds \cup Markers \cup {Null}]
      /\ tokenKey'[q.next] = owner[q.token][1]
      /\ \A t \in Tokens : t # q.next => tokenKey'[t] = tokenKey[t]
  BY <1>1, <1>2, <1>3, <1>4 DEF IInv, TypeOK
<1>7. IInv'
  <2>1. TypeOK' BY <1>1, <1>2, <1>6 DEF IInv, TypeOK
  <2>2. \A t \in Tokens : Live(t)' => owner'[t] # Null /\ tokenKey'[t] = owner'[t][1]
    BY <1>1, <1>3, <1>6 DEF IInv, Ownership, Live
  <2>3. \A l \in LoginIds, d \in Devices :
          /\ session'[l][d] # Null => owner'[session'[l][d]] = <<l, d>>
          /\ list'[l][d] # Null => owner'[list'[l][d]] = <<l, d>>
    <3> SUFFICES ASSUME NEW l \in LoginIds, NEW d \in Devices
                 PROVE  /\ session[l][d] # Null => owner'[session[l][d]] = <<l, d>>
                        /\ list[l][d] # Null => owner'[list[l][d]] = <<l, d>>
      BY <1>2
    <3>1. session[l][d] \in Tokens \cup {Null} /\ list[l][d] \in Tokens \cup {Null}
      BY <1>1 DEF IInv, TypeOK, Index
    <3>2. <<l, d>> # Null
      <4>1. <<l, d>> \in LoginIds \X Devices OBVIOUS
      <4> QED BY <4>1, ValuesAssumption
    <3>3. /\ session[l][d] # Null => owner[session[l][d]] = <<l, d>>
          /\ list[l][d] # Null => owner[list[l][d]] = <<l, d>>
      BY <1>1 DEF IInv, Ownership
    <3>4. /\ session[l][d] # Null => session[l][d] \in Tokens /\ session[l][d] # q.next
          /\ list[l][d] # Null => list[l][d] \in Tokens /\ list[l][d] # q.next
      BY <1>3, <3>1, <3>2, <3>3
    <3> QED BY <1>6, <3>3, <3>4
  <2>4. Ownership' BY <2>2, <2>3 DEF Ownership
  <2>5. \A t \in Tokens : owner[t] # Null => owner'[t] = owner[t] BY <1>3, <1>6
  <2> QED BY <1>1, <1>2, <2>1, <2>4, <2>5, RequestsUndisturbed
<1> HIDE DEF n
<1>8. CallShape(n, owner', handed, from)
  <2>1. q.token # q.next BY <1>3
  <2> QED BY <1>1, <1>2, <1>3, <1>5, <1>6, <2>1 DEF CallShape, Making, Made
<1>9. CallsInv' /\ (OneHand => OneHand') /\ (Behind => Behind')
  <2>1. q.pc \in Making BY <1>2 DEF Making
  <2> QED BY <1>1, <1>2, <1>3, <1>5, <1>6, <1>7, <1>8, <2>1, EngineKeyStep
<1>10. ASSUME OneHand, Marking PROVE Marking'
  <2>1. q.next \notin handed BY <1>2, <1>10 DEF OneHand, Making
  <2>2. call'[c] = n /\ \A e \in Calls : e # c => call'[e] = call[e]
    BY <1>1, <1>2 DEF CallsInv, Proceed
  <2>3. ASSUME NEW e \in Calls, call[e].pc # "idle" PROVE tokenKey'[call[e].token] = tokenKey[call[e].token]
    BY <1>1, <1>6, <2>1, <2>3 DEF CallsInv, CallShape, IInv, TypeOK
  <2> QED BY <1>5, <1>10, <2>2, <2>3 DEF Marking, Live
<1> QED BY <1>2, <1>9, <1>10 DEF LInv

LEMMA RefreshWriteSessionKeeps ==
  ASSUME LInv, NEW c \in Calls, RefreshWriteSession(c) PROVE LInv'
<1> DEFINE q == call[c]
           n == [q EXCEPT !.pc = "readMark"]
           o == owner[q.token]
<1>1. CallsInv /\ IInv /\ q \in Call /\ CallShape(q, owner, handed, from)
  BY DEF LInv, CallsInv
<1>2. /\ q.pc = "writeSession" /\ Proceed(c, n)
      /\ session' = [session EXCEPT ![o[1]][o[2]] = q.next]
      /\ UNCHANGED <<config, tokenKey, list, data, req, owner, handed, state, born, from>>
  BY DEF RefreshWriteSession, Place
<1>3. q.next \in Tokens /\ owner[q.next] = o /\ q.token \in handed /\ o \in LoginIds \X Devices
  BY <1>1, <1>2 DEF CallShape, Made, CallsInv, IInv, TypeOK
<1>4. n \in Call /\ n.pc = "readMark" /\ n.token = q.token /\ n.next = q.next
  BY <1>1 DEF Call, CallPCs
<1>5. IInv'
  <2> DEFINE l == o[1]
             d == o[2]
  <2>1. /\ o = <<l, d>> /\ l \in LoginIds /\ d \in Devices
        /\ session' = [session EXCEPT ![l][d] = q.next]
    BY <1>2, <1>3
  <2> HIDE DEF l, d, o
  <2>2. session' \in [LoginIds -> Index] BY <1>1, <1>3, <2>1 DEF IInv, TypeOK, Index
  <2>3. TypeOK' BY <1>1, <1>2, <2>2 DEF IInv, TypeOK
  <2>4. \A m \in LoginIds, e \in Devices :
          session'[m][e] = IF m = l /\ e = d THEN q.next ELSE session[m][e]
    BY <1>1, <2>1 DEF IInv, TypeOK, Index
  <2>5. \A m \in LoginIds, e \in Devices :
          session'[m][e] # Null => owner'[session'[m][e]] = <<m, e>>
    <3> SUFFICES ASSUME NEW m \in LoginIds, NEW e \in Devices, session'[m][e] # Null
                 PROVE  owner[session'[m][e]] = <<m, e>>
      BY <1>2
    <3>1. CASE m = l /\ e = d BY <1>3, <2>1, <2>4, <3>1
    <3>2. CASE ~(m = l /\ e = d) BY <1>1, <2>4, <3>2 DEF IInv, Ownership
    <3> QED BY <3>1, <3>2
  <2>6. Ownership'
    <3> HIDE DEF q
    <3> QED BY <1>1, <1>2, <2>5 DEF IInv, Ownership, Live
  <2> QED BY <1>1, <1>2, <2>3, <2>6, RequestsUndisturbed
<1> HIDE DEF n
<1>6. CallShape(n, owner', handed, from)
  BY <1>1, <1>2, <1>3, <1>4 DEF CallShape, Making, Made
<1>7. CallsInv' /\ (OneHand => OneHand') /\ (Behind => Behind')
  <2>1. q.pc \in Made BY <1>2 DEF Made
  <2> QED BY <1>1, <1>2, <1>4, <1>5, <1>6, <2>1, EngineKeyStep
<1>8. ASSUME Marking PROVE Marking'
  <2>1. call'[c] = n /\ \A e \in Calls : e # c => call'[e] = call[e]
    BY <1>1, <1>2 DEF CallsInv, Proceed
  <2> QED BY <1>2, <1>4, <1>8, <2>1 DEF Marking, Live
<1> QED BY <1>2, <1>7, <1>8 DEF LInv

LEMMA RefreshCasMarkKeeps == ASSUME LInv, NEW c \in Calls, RefreshCasMark(c) PROVE LInv'
<1> DEFINE q == call[c]
           n == [q EXCEPT !.pc = "add", !.seen = Null]
<1>1. CallsInv /\ IInv /\ q \in Call /\ CallShape(q, owner, handed, from)
  BY DEF LInv, CallsInv
<1>2. /\ q.pc = "casMark" /\ Proceed(c, n)
      /\ \/ tokenKey[q.token] = q.seen /\ tokenKey' = [tokenKey EXCEPT ![q.token] = KICK_OUT]
         \/ tokenKey[q.token] # q.seen /\ tokenKey' = tokenKey
      /\ UNCHANGED <<config, session, list, data, req, owner, handed, state, born, from>>
  BY DEF RefreshCasMark
<1>3. q.next \in Tokens /\ q.token \in Tokens
  BY <1>1, <1>2 DEF CallShape, Made, IInv, TypeOK
<1>4. n \in Call /\ n.pc = "add" /\ n.token = q.token /\ n.next = q.next
  BY <1>1 DEF Call, CallPCs
<1>5. KICK_OUT \in Markers /\ KICK_OUT \notin LoginIds BY ValuesAssumption DEF Markers
<1>6. /\ tokenKey' \in [Tokens -> LoginIds \cup Markers \cup {Null}]
      /\ \A t \in Tokens : tokenKey'[t] = tokenKey[t] \/ tokenKey'[t] \notin LoginIds
      /\ tokenKey[q.token] = q.seen => tokenKey'[q.token] \notin LoginIds
      /\ tokenKey[q.token] # q.seen => tokenKey' = tokenKey
  <2>1. tokenKey \in [Tokens -> LoginIds \cup Markers \cup {Null}] BY <1>1 DEF IInv, TypeOK
  <2> HIDE DEF q, n
  <2>2. CASE tokenKey[q.token] = q.seen /\ tokenKey' = [tokenKey EXCEPT ![q.token] = KICK_OUT]
    BY <1>3, <1>5, <2>1, <2>2
  <2>3. CASE tokenKey[q.token] # q.seen /\ tokenKey' = tokenKey BY <2>1, <2>3
  <2> QED BY <1>2, <2>2, <2>3
<1>7. IInv'
  <2>1. TypeOK' BY <1>1, <1>2, <1>6 DEF IInv, TypeOK
  <2>2. Ownership' BY <1>1, <1>2, <1>6 DEF IInv, Ownership, Live
  <2> QED BY <1>1, <1>2, <2>1, <2>2, RequestsUndisturbed
<1> HIDE DEF n
<1>8. CallShape(n, owner', handed, from)
  BY <1>1, <1>2, <1>3, <1>4 DEF CallShape, Making, Made
<1>9. CallsInv' /\ (OneHand => OneHand') /\ (Behind => Behind')
  <2>1. q.pc \in Made BY <1>2 DEF Made
  <2> QED BY <1>1, <1>2, <1>4, <1>7, <1>8, <2>1, EngineKeyStep
<1>10. ASSUME Marking PROVE Marking'
  <2>1. call'[c] = n /\ \A e \in Calls : e # c => call'[e] = call[e]
    BY <1>1, <1>2 DEF CallsInv, Proceed
  <2>2. tokenKey'[q.token] \notin LoginIds BY <1>2, <1>6, <1>10 DEF Marking, Live
  <2>3. \A e \in Calls : call[e].pc # "idle" => call[e].token \in Tokens
    BY <1>1 DEF CallsInv, CallShape, IInv, TypeOK
  <2>4. ASSUME NEW e \in Calls, e # c
        PROVE  /\ call'[e].pc = "casMark" /\ tokenKey'[call'[e].token] \in LoginIds =>
                    call'[e].seen = tokenKey'[call'[e].token]
               /\ call'[e].pc = "add" => tokenKey'[call'[e].token] \notin LoginIds
    <3>1. call'[e] = call[e] /\ (call[e].pc # "idle" =>
            \/ tokenKey'[call[e].token] = tokenKey[call[e].token]
            \/ tokenKey'[call[e].token] \notin LoginIds)
      BY <1>6, <2>1, <2>3, <2>4
    <3> QED BY <1>10, <3>1 DEF Marking, Live
  <2>5. call'[c].pc = "add" /\ call'[c].token = q.token BY <1>4, <2>1
  <2> QED BY <2>2, <2>4, <2>5 DEF Marking, Live
<1> QED BY <1>2, <1>9, <1>10 DEF LInv

LEMMA RefreshAddKeeps == ASSUME LInv, NEW c \in Calls, RefreshAdd(c) PROVE LInv'
<1> DEFINE q == call[c]
           o == owner[q.token]
<1>1. CallsInv /\ IInv /\ q \in Call /\ CallShape(q, owner, handed, from)
  BY DEF LInv, CallsInv
<1>2. /\ q.pc = "add" /\ Proceed(c, NoCall) /\ handed' = handed \cup {q.next}
      /\ list' = [list EXCEPT ![o[1]][o[2]] = q.next]
      /\ UNCHANGED <<config, tokenKey, session, data, req, owner, state, born, from>>
  BY DEF RefreshAdd, Place
<1>3. /\ q.next \in Tokens /\ owner[q.next] = o /\ o # Null /\ o \in LoginIds \X Devices
      /\ from[q.next] # Null
  BY <1>1, <1>2 DEF CallShape, Made, CallsInv, IInv, TypeOK
<1>4. IInv'
  <2> DEFINE l == o[1]
             d == o[2]
  <2>1. /\ o = <<l, d>> /\ l \in LoginIds /\ d \in Devices
        /\ list' = [list EXCEPT ![l][d] = q.next]
    BY <1>2, <1>3
  <2> HIDE DEF l, d, o
  <2>2. list' \in [LoginIds -> Index] BY <1>1, <1>3, <2>1 DEF IInv, TypeOK, Index
  <2>3. TypeOK' BY <1>1, <1>2, <1>3, <2>2 DEF IInv, TypeOK
  <2>4. \A m \in LoginIds, e \in Devices :
          list'[m][e] = IF m = l /\ e = d THEN q.next ELSE list[m][e]
    BY <1>1, <2>1 DEF IInv, TypeOK, Index
  <2>5. \A m \in LoginIds, e \in Devices :
          list'[m][e] # Null => owner'[list'[m][e]] = <<m, e>>
    <3> SUFFICES ASSUME NEW m \in LoginIds, NEW e \in Devices, list'[m][e] # Null
                 PROVE  owner[list'[m][e]] = <<m, e>>
      BY <1>2
    <3>1. CASE m = l /\ e = d BY <1>3, <2>1, <2>4, <3>1
    <3>2. CASE ~(m = l /\ e = d) BY <1>1, <2>4, <3>2 DEF IInv, Ownership
    <3> QED BY <3>1, <3>2
  <2>6. Ownership'
    <3> HIDE DEF q
    <3> QED BY <1>1, <1>2, <2>5 DEF IInv, Ownership, Live
  <2> QED BY <1>1, <1>2, <2>3, <2>6, RequestsUndisturbed
<1>5. CallsInv'
  <2>1. CallShape(NoCall, owner', handed', from') /\ NoCall.pc \notin Making \cup Made
    BY NoCallIsCall DEF CallShape, Making, Made
  <2>2. \A t \in handed' : owner'[t] # Null BY <1>1, <1>2, <1>3 DEF CallsInv
  <2>3. \A t \in Tokens : from'[t] # Null => from'[t][1] \in handed' BY <1>1, <1>2 DEF CallsInv
  <2>4. from' \in [Tokens -> (Tokens \X Nat) \cup {Null}]
        /\ state' \in [Tokens -> FamilyState \cup {Null}]
    BY <1>1, <1>2 DEF CallsInv
  <2> HIDE DEF q, o
  <2> QED BY <1>1, <1>2, <1>4, <2>1, <2>2, <2>3, <2>4, NoCallIsCall, CallStepCalls
<1>6. call'[c] = NoCall /\ \A e \in Calls : e # c => call'[e] = call[e]
  BY <1>1, <1>2 DEF CallsInv, Proceed
<1>7. ASSUME OneHand PROVE OneHand'
  <2>1. \A r \in Reqs : req[r].pc \in LoginPCs => req[r].token # q.next
    BY <1>3, <1>7 DEF OneHand
  <2>2. NoCall.pc \notin Making \cup Made /\ NoCall.pc = "idle"
    BY NoCallIsCall DEF Making, Made
  <2>3. ASSUME NEW e \in Calls, call'[e].pc \in Making \cup Made PROVE call'[e].next \notin handed'
    <3>1. e # c /\ call'[e] = call[e] BY <1>6, <2>2, <2>3
    <3>2. q.pc \in Made BY <1>2 DEF Made
    <3>3. call[e].next # q.next BY <1>1, <2>3, <3>1, <3>2 DEF CallsInv
    <3> QED BY <1>2, <1>7, <2>3, <3>1, <3>3 DEF OneHand
  <2>4. \A r \in Reqs, e \in Calls :
          born[r] # Null /\ call'[e].pc # "idle" => call'[e].token # born[r]
    BY <1>6, <1>7, <2>2 DEF OneHand, Calling
  <2> QED BY <1>2, <1>7, <2>1, <2>3, <2>4 DEF OneHand, Calling
<1>8. Behind => Behind' BY <1>2 DEF Behind
<1>9. Marking => Marking' BY <1>2, <1>6, NoCallIsCall DEF Marking, Live
<1> QED BY <1>2, <1>5, <1>7, <1>8, <1>9 DEF LInv
-----------------------------------------------------------------------------
LEMMA NextLInv == LInv /\ [LifecycleNext]_allVars => LInv'
<1> SUFFICES ASSUME LInv, [LifecycleNext]_allVars PROVE LInv'
  OBVIOUS
<1>1. ASSUME NEW r \in Reqs, EngineStart(r) \/ EngineStep(r) PROVE LInv'
  BY <1>1, EngineStepKeeps
<1>2. ASSUME NEW r \in Reqs, CreateTokenFamily(r) PROVE LInv'
  BY <1>2, CreateTokenFamilyKeeps
<1>3. ASSUME NEW c \in Calls, NEW t \in Tokens, StartRefresh(c, t) \/ StartRevoke(c, t)
      PROVE  LInv'
  BY <1>3, StartsKeep
<1>4. ASSUME NEW c \in Calls, CallStep(c) \/ CallAborts(c) PROVE LInv'
  BY <1>4, ReadingCallKeeps, RefreshAdvanceKeeps, RefreshWriteStateKeeps,
     RefreshWriteTokenKeeps, RefreshWriteSessionKeeps, RefreshReadMarkKeeps,
     RefreshCasMarkKeeps, RefreshAddKeeps, CasRevokedKeeps DEF CallStep
<1>5. ASSUME NEW t \in Tokens, StateExpires(t) PROVE LInv'
  BY <1>5, StateExpiresKeeps
<1>6. CASE UNCHANGED allVars
  <2>1. UNCHANGED <<vars, state, born, call, from>> BY <1>6 DEF allVars, lifecycle
  <2>2. UNCHANGED <<config, tokenKey, owner, handed, req>> BY <2>1 DEF vars
  <2>3. CallsInv /\ IInv BY DEF LInv, CallsInv
  <2>4. IInv' BY <2>1, <2>3, EngineUnchanged
  <2>5. CallsInv' BY <2>1, <2>2, <2>3, <2>4 DEF CallsInv
  <2>6. (OneHand => OneHand') /\ (Behind => Behind') /\ (Marking => Marking')
    BY <2>1, <2>2 DEF OneHand, Behind, Marking, Live, Calling
  <2> QED BY <2>2, <2>5, <2>6 DEF LInv
<1> QED BY <1>1, <1>2, <1>3, <1>4, <1>5, <1>6 DEF LifecycleNext

(* Requests, calls and family states are what their types say: a refresh    *)
(* carries the state and the token it has made through its awaits.          *)
THEOREM LifecycleTypes == LifecycleSpec => []LifecycleTypeOK
<1>1. LInv => LifecycleTypeOK BY DEF LInv, CallsInv, IInv, LifecycleTypeOK
<1> QED BY <1>1, InitLInv, NextLInv, PTL DEF LifecycleSpec

(* One generation of a token has one successor, whatever refreshes, logins  *)
(* and revocations run at once and wherever they are cut short.             *)
THEOREM RotationIsExclusive == LifecycleSpec => []RotationExclusive
<1>1. LInv => RotationExclusive BY DEF LInv, Behind, RotationExclusive
<1> QED BY <1>1, InitLInv, NextLInv, PTL DEF LifecycleSpec

(* A refresh that hands out a new token has left the old one without an     *)
(* account, although it does not look at the result of its compare-and-set. *)
THEOREM RefreshRetiresOldToken == LifecycleSpec => OldTokenRetired
<1>1. LInv /\ [LifecycleNext]_allVars =>
        [\A c \in Calls :
           RefreshSucceeds(c) /\ ~Shares(config) => ~Live(call[c].token)]_allVars
  BY DEF LInv, Marking, RefreshSucceeds
<1> QED BY <1>1, InitLInv, NextLInv, PTL DEF LifecycleSpec, OldTokenRetired

(* What a family loses when it is revoked or expires, no refresh under way  *)
(* gives back: each writes by compare-and-set or for a token nobody has.    *)
THEOREM FamilyEnds == LifecycleSpec => FamilyEndIsFinal
<1>1. LInv /\ [LifecycleNext]_allVars =>
        [\A t \in handed :
           ~Shares(config) /\ ~Active(t) /\ (\A r \in Reqs : born[r] # t) => ~Active(t)']_allVars
  <2> SUFFICES ASSUME LInv, LifecycleNext, NEW t \in handed, ~Shares(config), ~Active(t),
                      \A r \in Reqs : born[r] # t
               PROVE  ~Active(t)'
    OBVIOUS
  <2>1. CallsInv /\ OneHand /\ t \in Tokens BY DEF LInv, CallsInv, IInv, TypeOK
  <2>2. state \in [Tokens -> FamilyState \cup {Null}] BY <2>1 DEF CallsInv
  <2>3. CASE state' = state BY <2>3 DEF Active
  <2>4. ASSUME NEW r \in Reqs, CreateTokenFamily(r) PROVE ~Active(t)'
    <3>1. state'[t] = state[t] BY <2>2, <2>4 DEF CreateTokenFamily
    <3> QED BY <3>1 DEF Active
  <2>5. ASSUME NEW u \in Tokens, StateExpires(u) PROVE ~Active(t)'
    BY <2>1, <2>2, <2>5 DEF StateExpires, Active
  <2>6. ASSUME NEW c \in Calls, RefreshAdvance(c), state' # state PROVE ~Active(t)'
    <3>1. /\ call[c].raw = state[call[c].token] /\ call[c].raw \in FamilyState
          /\ call[c].raw.status = "active"
      BY <2>1, <2>6 DEF RefreshAdvance, CallsInv, CallShape
    <3>2. call[c].token # t BY <3>1, StateAssumption DEF Active
    <3>3. state'[t] = state[t] BY <2>1, <2>2, <2>6, <3>2 DEF RefreshAdvance
    <3> QED BY <3>3 DEF Active
  <2>7. ASSUME NEW c \in Calls, RefreshWriteState(c) PROVE ~Active(t)'
    <3>1. call[c].next # t BY <2>1, <2>7 DEF OneHand, RefreshWriteState, Making
    <3>2. state'[t] = state[t] BY <2>1, <2>2, <2>7, <3>1 DEF RefreshWriteState
    <3> QED BY <3>2 DEF Active
  <2>8. ASSUME NEW c \in Calls, CasRevoked(c), state' # state PROVE ~Active(t)'
    <3>1. state' = [state EXCEPT ![call[c].token].status = "revoked"]
          /\ state[call[c].token] = call[c].raw /\ call[c].raw \in FamilyState
      BY <2>1, <2>8 DEF CasRevoked, CallsInv, CallShape
    <3>2. call[c].token # t => state'[t] = state[t] BY <2>1, <2>2, <3>1
    <3>3. call[c].token = t => state'[t].status = "revoked"
      BY <2>1, <2>2, <3>1 DEF FamilyState
    <3> QED BY <3>2, <3>3 DEF Active
  <2>9. ASSUME NEW r \in Reqs, EngineStart(r) \/ EngineStep(r) PROVE state' = state
    BY <2>9 DEF EngineStart, EngineStep, lifecycle
  <2>10. ASSUME NEW c \in Calls, NEW u \in Tokens, StartRefresh(c, u) \/ StartRevoke(c, u)
         PROVE  state' = state
    BY <2>10 DEF StartRefresh, StartRevoke, StartCall
  <2>11. ASSUME NEW c \in Calls, CallStep(c) \/ CallAborts(c)
         PROVE  state' = state \/ RefreshAdvance(c) \/ RefreshWriteState(c) \/ CasRevoked(c)
    BY <2>11 DEF CallStep, CallAborts, RefreshReadToken, ReadState, RefreshWriteToken,
                 RefreshWriteSession, RefreshReadMark, RefreshCasMark, RefreshAdd, ReplayRead
  <2> QED BY <2>3, <2>4, <2>5, <2>6, <2>7, <2>8, <2>9, <2>10, <2>11 DEF LifecycleNext
<1> QED BY <1>1, InitLInv, NextLInv, PTL DEF LifecycleSpec, FamilyEndIsFinal
(* With refreshes beside the engine's operations the store still implements *)
(* the registry: the token a refresh writes is one nobody had, and the mark *)
(* on the old one is a revocation.                                          *)
THEOREM LifecycleImplementsRegistry ==
  ASSUME \A c \in Configs : ~Shares(c)
  PROVE  LifecycleSpec => ImplementsRegistry
<1>1. LifecycleInit => Registry!Init
  BY ValuesAssumption DEF LifecycleInit, Init, Registry!Init, holder
<1>2. LInv /\ [LifecycleNext]_allVars => [Registry!Next]_holder
  <2> SUFFICES ASSUME LInv, [LifecycleNext]_allVars PROVE [Registry!Next]_holder
    OBVIOUS
  <2>1. CallsInv /\ IInv /\ ~Shares(config) BY DEF LInv, CallsInv, IInv, TypeOK
  <2>2. CASE UNCHANGED <<tokenKey, owner>>
    BY <2>1, <2>2, RegistryStep DEF KeyChange
  <2>3. ASSUME NEW r \in Reqs, EngineStart(r) \/ EngineStep(r) PROVE [Registry!Next]_holder
    <3>1. StartAny(r) \/ Step(r) \/ Abort(r) BY <2>3 DEF EngineStart, EngineStep
    <3>2. [Next]_vars BY <2>1, <3>1, EngineGrows
    <3>3. KeyChange BY <2>1, <3>2, TokenKeySteps DEF KeyChange
    <3> QED BY <2>1, <3>3, RegistryStep
  <2>4. ASSUME NEW c \in Calls, RefreshWriteToken(c) PROVE [Registry!Next]_holder
    <3> DEFINE q == call[c]
               o == owner[q.token]
    <3>1. /\ q.next \in Tokens /\ owner[q.next] = Null /\ o \in LoginIds \X Devices
          /\ tokenKey' = [tokenKey EXCEPT ![q.next] = o[1]]
          /\ owner' = [owner EXCEPT ![q.next] = o]
      BY <2>1, <2>4 DEF RefreshWriteToken, CallsInv, CallShape, Making, IInv, TypeOK
    <3> HIDE DEF q, o
    <3>2. PICK l \in LoginIds, d \in Devices : o = <<l, d>> BY <3>1
    <3>3. owner' = [owner EXCEPT ![q.next] = <<l, d>>] /\ o[1] = l BY <3>1, <3>2
    <3>4. tokenKey' = [tokenKey EXCEPT ![q.next] = l] BY <3>1, <3>3
    <3>5. ASSUME NEW t \in Tokens, owner[t] = Null, tokenKey' = [tokenKey EXCEPT ![t] = l],
                 owner' = [owner EXCEPT ![t] = <<l, d>>]
          PROVE  KeyChange
      BY <3>5 DEF KeyChange
    <3>6. KeyChange BY <3>1, <3>3, <3>4, <3>5
    <3> QED BY <2>1, <3>6, RegistryStep
  <2>5. ASSUME NEW c \in Calls, RefreshCasMark(c) PROVE [Registry!Next]_holder
    <3> DEFINE q == call[c]
    <3>1. /\ q.token \in Tokens /\ owner' = owner
          /\ tokenKey' = [tokenKey EXCEPT ![q.token] = KICK_OUT] \/ tokenKey' = tokenKey
      BY <2>1, <2>5 DEF RefreshCasMark, CallsInv, CallShape, IInv, TypeOK
    <3>2. KeyChange BY <3>1 DEF KeyChange, Markers
    <3> QED BY <2>1, <3>2, RegistryStep
  <2>6. ASSUME NEW c \in Calls, CallStep(c) \/ CallAborts(c)
        PROVE  UNCHANGED <<tokenKey, owner>> \/ RefreshWriteToken(c) \/ RefreshCasMark(c)
    BY <2>6 DEF CallStep, CallAborts, RefreshReadToken, ReadState, RefreshAdvance,
                RefreshWriteState, RefreshWriteSession, RefreshReadMark, RefreshAdd, ReplayRead,
                CasRevoked, vars
  <2>7. ASSUME NEW r \in Reqs, CreateTokenFamily(r) PROVE UNCHANGED <<tokenKey, owner>>
    BY <2>7 DEF CreateTokenFamily, vars
  <2>8. ASSUME NEW c \in Calls, NEW t \in Tokens, StartRefresh(c, t) \/ StartRevoke(c, t)
        PROVE  UNCHANGED <<tokenKey, owner>>
    BY <2>8 DEF StartRefresh, StartRevoke, StartCall, vars
  <2>9. ASSUME NEW t \in Tokens, StateExpires(t) PROVE UNCHANGED <<tokenKey, owner>>
    BY <2>9 DEF StateExpires, vars
  <2>10. CASE UNCHANGED allVars BY <2>2, <2>10 DEF allVars, vars
  <2> QED BY <2>2, <2>3, <2>4, <2>5, <2>6, <2>7, <2>8, <2>9, <2>10 DEF LifecycleNext
<1> QED BY <1>1, <1>2, InitLInv, NextLInv, PTL DEF LifecycleSpec, ImplementsRegistry, Registry!Spec

-----------------------------------------------------------------------------
(* A refresh that has found its token accepted, and the awaits at which the *)
(* session key names the new token and the device list still the old one.   *)
Turning(q) ==
  \/ q.op = "refresh" /\ q.pc = "readState"
  \/ q.pc \in {"advance"} \cup Making \cup Made
Swapping == {"readMark", "casMark", "add"}

Lone(l, t) == \A u \in handed : Live(u) /\ owner[u][1] = l => u = t

(* What a call in flight knows when nobody else works in its place. *)
CallKnows(q) ==
  /\ \A l \in LoginIds, d \in Devices : owner[q.token] = <<l, d>> =>
       /\ IF q.pc \in Swapping THEN session[l][d] = q.next ELSE Rest(l, d)
       /\ Turning(q) /\ ~Multi(config) => Sole(l, d, q.token)
       /\ Turning(q) /\ ~config.deviceConcurrent => Lone(l, q.token)
  /\ Turning(q) => (Live(q.token) <=> q.pc # "add")
  /\ q.pc \in Making \cup Made => q.next \notin handed
  /\ q.pc \in Made => Live(q.next)
  /\ q.pc = "casMark" => q.seen = tokenKey[q.token]

(* Calls have places of their own; where one token is left on the whole     *)
(* account, only one call of the account finds it accepted.                 *)
CallsApart ==
  /\ \A c \in Calls, r \in Reqs : Calling(c) /\ Running(r) => Place(c) \notin Places(r)
  /\ \A c, e \in Calls : c # e /\ Calling(c) /\ Calling(e) => Place(c) # Place(e)
  /\ ~config.deviceConcurrent =>
       \A c, e \in Calls : c # e /\ Turning(call[c]) /\ Turning(call[e]) =>
         Place(c)[1] # Place(e)[1]

Free(l, d) == Untouched(l, d) /\ \A c \in Calls : Calling(c) => Place(c) # <<l, d>>

RInv ==
  /\ LInv /\ DInv /\ CallsApart
  /\ \A c \in Calls, q \in Call : q = call[c] /\ q.pc # "idle" => CallKnows(q)
  /\ \A l \in LoginIds, d \in Devices : Free(l, d) => Rest(l, d)

-----------------------------------------------------------------------------
LEMMA CallPlace ==
  ASSUME CallsInv, NEW c \in Calls, Calling(c)
  PROVE  LET q == call[c] IN
         /\ q \in Call /\ q.pc # "idle" /\ CallShape(q, owner, handed, from)
         /\ q.token \in handed /\ q.token \in Tokens /\ owner[q.token] # Null
         /\ Place(c) = owner[q.token]
         /\ \E l \in LoginIds, d \in Devices : Place(c) = <<l, d>>
<1> DEFINE q == call[c]
<1>1. q \in Call /\ q.pc # "idle" /\ CallShape(q, owner, handed, from)
  BY DEF CallsInv, Calling
<1>2. q.token \in handed /\ q.token \in Tokens /\ owner[q.token] # Null
  BY <1>1 DEF CallsInv, CallShape, IInv, TypeOK
<1>3. owner[q.token] \in LoginIds \X Devices
  BY <1>2 DEF CallsInv, IInv, TypeOK
<1>4. \E l \in LoginIds, d \in Devices : owner[q.token] = <<l, d>>
  BY <1>3
<1> QED
  BY <1>1, <1>2, <1>4 DEF Place

(* What a call knows stays true when others work elsewhere. *)
LEMMA KeepCall ==
  ASSUME AInv, NEW q \in Call, q.pc # "idle", CallShape(q, owner, handed, from),
         q.token \in Tokens, NEW l \in LoginIds, NEW d \in Devices, owner[q.token] = <<l, d>>,
         NEW P, Elsewhere(P), <<l, d>> \notin P, CallKnows(q),
         q.pc \in Making => owner'[q.next] = Null,
         Turning(q) /\ ~config.deviceConcurrent => \A u \in handed' :
           Live(u)' /\ owner'[u][1] = l => u \in handed /\ Live(u) /\ owner[u][1] = l
  PROVE  CallKnows(q)'
<1>1. config' = config /\ handed' \subseteq Tokens /\ \A t \in handed' : owner'[t] # Null
  BY DEF Elsewhere
<1>2. /\ owner'[q.token] = <<l, d>> /\ tokenKey'[q.token] = tokenKey[q.token]
      /\ Live(q.token)' = Live(q.token)
  BY ValuesAssumption DEF Elsewhere, Live
<1>3. \A m \in LoginIds, e \in Devices : <<m, e>> = <<l, d>> => m = l /\ e = d
  OBVIOUS
<1>4. session'[l][d] = session[l][d] /\ (Rest(l, d) => Rest(l, d)')
  BY <1>1, KeepListed, KeepAgree DEF Rest, Multi
<1>5. \A t : Sole(l, d, t) => Sole(l, d, t)'
  BY <1>1, FrameAt DEF Sole, Live
<1>6. ASSUME Turning(q), ~config.deviceConcurrent, NEW t, Lone(l, t) PROVE Lone(l, t)'
  BY <1>6 DEF Lone
<1>7. q.pc \in Made => /\ q.next \in Tokens /\ owner[q.next] = <<l, d>>
                       /\ tokenKey'[q.next] = tokenKey[q.next]
                       /\ (q.next \in handed' <=> q.next \in handed)
  BY ValuesAssumption DEF CallShape, Elsewhere
<1>8. q.pc \in Making \cup Made => q.next \notin handed'
  BY <1>1, <1>7 DEF CallKnows
<1>9. q.pc \in Made => Live(q.next)'
  BY <1>7 DEF CallKnows, Live
<1>10. \A m \in LoginIds, e \in Devices : owner'[q.token] = <<m, e>> =>
         /\ IF q.pc \in Swapping THEN session'[m][e] = q.next ELSE Rest(m, e)'
         /\ Turning(q) /\ ~Multi(config) => Sole(m, e, q.token)'
         /\ Turning(q) /\ ~config.deviceConcurrent => Lone(m, q.token)'
  BY <1>2, <1>3, <1>4, <1>5, <1>6 DEF CallKnows
<1> QED
  BY <1>1, <1>2, <1>8, <1>9, <1>10 DEF CallKnows, Turning, Multi

(* A step of the engine, with the calls in flight elsewhere. *)
LEMMA EngineMoves ==
  ASSUME RInv, Overlap # "any", NEW r \in Reqs, EngineStart(r) \/ EngineStep(r)
  PROVE  /\ Moves(r)
         /\ \A c \in Calls : Calling(c) => /\ Place(c) \notin Places(r)
                                           /\ Running(r)' => Place(c) \notin Places(r)'
<1>1. LInv /\ CallsInv /\ DInv /\ AInv /\ IInv
  BY DEF RInv, DInv, AInv, LInv
<1>2. [Next]_vars
  BY DEF EngineStart, EngineStep, Next
<1>3. ASSUME NEW c \in Calls, Calling(c) PROVE Place(c) \notin Places(r)
  <2>1. CASE Running(r)
    BY <1>3, <2>1 DEF RInv, CallsApart
  <2>2. CASE ~Running(r)
    BY <1>1, <1>3, <2>2, CallPlace, NoPlace
  <2> QED
    BY <2>1, <2>2
<1>4. CASE EngineStart(r)
  <2>1. PICK n : Start(r, n) /\ Begun(n)
    BY <1>4, StartBegins DEF EngineStart
  <2>2. req'[r] = n /\ ~Running(r) /\ UNCHANGED <<config, owner>>
    BY <1>1, <2>1 DEF Start, Become, IInv, TypeOK
  <2>3. Account(n) \in LoginIds /\ Scope(n) \subseteq Devices
    BY <1>1, <2>1, BegunPlace
  <2>4. \A d \in Scope(n) : Untouched(Account(n), d)
    BY <2>1 DEF Start, MayStart, Untouched
  <2>5. \A c \in Calls : Calling(c) =>
          ~(Place(c)[1] = Account(n) /\ Place(c)[2] \in Scope(n))
    BY <1>4, <2>2 DEF EngineStart
  <2>6. \A d \in Scope(n) : Free(Account(n), d)
    BY <2>4, <2>5 DEF Free
  <2>7. Moves(r)
    <3>1. \A d \in Scope(n) : Rest(Account(n), d)
      BY <2>3, <2>6 DEF RInv
    <3> QED
      BY <1>1, <1>2, <2>1, <3>1, StartMoves
  <2>8. Places(r)' = {Account(n)} \X Scope(n)
    BY <2>2 DEF Places, Account, Scope
  <2> QED
    BY <1>3, <2>5, <2>7, <2>8
<1>5. CASE EngineStep(r)
  <2>1. Moves(r) /\ Running(r)
    <3>1. Moves(r)
      BY <1>1, <1>2, <1>5, StepMoves DEF EngineStep
    <3>2. CASE Step(r)
      BY <1>1, <3>2, StepWorks, <3>1
    <3>3. CASE Abort(r)
      BY <3>1, <3>3 DEF Abort
    <3> QED
      BY <1>5, <3>1, <3>2, <3>3 DEF EngineStep
  <2> QED
    BY <1>3, <2>1 DEF Moves
<1> QED
  BY <1>4, <1>5

LEMMA EngineRInv ==
  ASSUME RInv, Overlap # "any", NEW r \in Reqs, EngineStart(r) \/ EngineStep(r)
  PROVE  RInv'
<1>1. LInv /\ CallsInv /\ DInv /\ AInv /\ IInv /\ [Next]_vars /\ LInv'
  BY EngineStepKeeps DEF RInv, DInv, AInv, LInv, EngineStart, EngineStep, Next
<1>2. /\ DInv' /\ Frame(r) /\ Elsewhere(Places(r)) /\ call' = call /\ config' = config
      /\ \A c \in Calls : Calling(c) => /\ Place(c) \notin Places(r)
                                        /\ Running(r)' => Place(c) \notin Places(r)'
      /\ \A l \in LoginIds, d \in Devices :
           (Untouched(l, d) => Rest(l, d)) /\ Untouched(l, d)' => Rest(l, d)'
  BY EngineMoves DEF Moves, Frame, Elsewhere, EngineStart, EngineStep, lifecycle
<1>3. \A c \in Calls : /\ Calling(c)' = Calling(c)
                       /\ Calling(c) => Place(c)' = Place(c)
  BY <1>1, <1>2, CallPlace DEF Calling, Place, Elsewhere
<1>4. ASSUME NEW x \in Reqs, x # r, Running(x)'
      PROVE  Running(x) /\ Places(x)' = Places(x)
  <2>1. req'[x] = req[x] /\ Running(x)
    BY <1>2, <1>4 DEF Frame, Running
  <2> QED
    BY <1>1, <1>2, <2>1, PlaceKept DEF Elsewhere
<1>5. CallsApart'
  <2>1. ASSUME NEW c \in Calls, Calling(c), NEW x \in Reqs, Running(x)'
        PROVE  Place(c)' \notin Places(x)'
    <3>1. CASE x = r
      BY <1>2, <1>3, <2>1, <3>1
    <3>2. CASE x # r
      BY <1>3, <1>4, <2>1, <3>2 DEF RInv, CallsApart
    <3> QED
      BY <3>1, <3>2
  <2>2. \A c \in Calls : Turning(call[c]) => Calling(c)
    BY DEF Turning, Making, Made, Calling
  <2> QED
    BY <1>2, <1>3, <2>1, <2>2 DEF RInv, CallsApart
<1>6. ASSUME NEW c \in Calls, Calling(c), NEW q \in Call, q = call[c]
      PROVE  CallKnows(q)'
  <2>1. PICK l \in LoginIds, d \in Devices : Place(c) = <<l, d>>
    BY <1>1, <1>6, CallPlace
  <2>2. /\ q.pc # "idle" /\ CallShape(q, owner, handed, from)
        /\ q.token \in Tokens /\ owner[q.token] = <<l, d>> /\ <<l, d>> \notin Places(r)
        /\ CallKnows(q)
    BY <1>1, <1>2, <1>6, <2>1, CallPlace DEF RInv
  <2>3. q.pc \in Making => owner'[q.next] = Null
    <3>1. q.pc \in Making => q.next \in Tokens /\ owner[q.next] = Null /\ from[q.next] # Null
      BY <2>2 DEF CallShape
    <3>2. \A t \in Tokens : owner'[t] # owner[t] => from[t] = Null
      BY DEF EngineStart, EngineStep, StartAny, StartLogin, StartDeviceOp, StartTokenOp,
             StartAccountOp, Start, Unmade
    <3> QED
      BY <3>1, <3>2
  <2>4. ASSUME ~config.deviceConcurrent, NEW u \in handed', Live(u)', owner'[u][1] = l
        PROVE  u \in handed /\ Live(u) /\ owner[u][1] = l
    <3>1. u \in handed
      <4>1. CASE handed' = handed
        BY <2>4, <4>1
      <4>2. CASE req[r].pc = "casAdd" /\ handed' = handed \cup {req[r].token} /\ u \notin handed
        <5>1. /\ u = req[r].token /\ Running(r)
              /\ Account(req[r]) = req[r].login /\ Scope(req[r]) = Devices
              /\ owner[u] = <<req[r].login, req[r].device>>
              /\ u \in Tokens /\ owner[u] # Null
          <6>1. u = req[r].token /\ u \in Tokens /\ owner[u] # Null /\ u # Null
            BY <1>1, <2>4, <4>2, LoginToken, ValuesAssumption DEF LoginPCs
          <6> QED
            BY <1>1, <2>4, <4>2, <6>1, LoginPlace
        <5>2. owner'[u] = owner[u]
          BY <1>2, <5>1 DEF Elsewhere
        <5>3. req[r].login = l
          BY <2>4, <5>1, <5>2
        <5>4. <<l, d>> \in Places(r)
          BY <5>1, <5>3 DEF Places
        <5> QED
          BY <2>2, <5>4
      <4> QED
        BY <1>1, <2>4, <4>1, <4>2, EngineGrows DEF EngineStart, EngineStep
    <3>2. u \in Tokens /\ owner[u] # Null /\ owner'[u] = owner[u]
      BY <1>1, <1>2, <3>1 DEF AInv, IInv, TypeOK, Elsewhere
    <3>3. Live(u)
      <4>1. CASE UNCHANGED <<tokenKey, owner>>
        BY <2>4, <4>1 DEF Live
      <4>2. ASSUME NEW t \in Tokens, NEW v \in Markers \cup {Null},
                   tokenKey' = [tokenKey EXCEPT ![t] = v]
            PROVE  Live(u)
        BY <1>1, <2>4, <3>2, <4>2, ValuesAssumption DEF Live, IInv, TypeOK
      <4>3. ASSUME NEW t \in Tokens, NEW m \in LoginIds, owner[t] = Null,
                   tokenKey' = [tokenKey EXCEPT ![t] = m]
            PROVE  Live(u)
        BY <1>1, <2>4, <3>2, <4>3 DEF Live, IInv, TypeOK
      <4> QED
        BY <1>1, <2>4, <4>1, <4>2, <4>3, TokenKeySteps DEF Shares
    <3> QED
      BY <2>4, <3>1, <3>2, <3>3
  <2> QED
    BY <1>1, <1>2, <2>2, <2>3, <2>4, KeepCall
<1>7. \A c \in Calls, q \in Call : q = call'[c] /\ q.pc # "idle" => CallKnows(q)'
  BY <1>2, <1>6 DEF Calling
<1>8. ASSUME NEW l \in LoginIds, NEW d \in Devices, Free(l, d)' PROVE Rest(l, d)'
  <2>1. Untouched(l, d)' /\ \A c \in Calls : Calling(c) => Place(c) # <<l, d>>
    BY <1>3, <1>8 DEF Free
  <2>2. Untouched(l, d) => Rest(l, d)
    BY <2>1 DEF Free, RInv
  <2> QED
    BY <1>2, <2>1, <2>2
<1> QED
  BY <1>1, <1>2, <1>5, <1>7, <1>8 DEF RInv

-----------------------------------------------------------------------------
(* A step of a call, which writes to its own place at most. *)
CallsOwn(c, n) ==
  /\ Proceed(c, n) /\ req' = req
  /\ IF Calling(c) THEN Elsewhere({Place(c)}) ELSE Elsewhere({})
  /\ ~Multi(config) => OneOfAccount'
  /\ n.pc # "idle" => CallKnows(n)'
  /\ n.pc # "idle" /\ Calling(c) => n.token = call[c].token
  /\ n.pc # "idle" /\ ~Calling(c) =>
       /\ n.token \in handed /\ ~Turning(n)
       /\ \A l \in LoginIds, d \in Devices : owner[n.token] = <<l, d>> => Free(l, d)
  /\ n.pc = "idle" /\ Calling(c) =>
       \A l \in LoginIds, d \in Devices : Place(c) = <<l, d>> => Rest(l, d)'

(* What it leaves of the other calls. *)
SparesOthers(c, n) ==
  \A e \in Calls : e # c /\ Calling(e) =>
    /\ call[e].pc \in Making => owner'[call[e].next] = Null
    /\ Turning(call[e]) /\ ~config.deviceConcurrent =>
         /\ \A u \in handed' : Live(u)' /\ owner'[u][1] = Place(e)[1] =>
              u \in handed /\ Live(u) /\ owner[u][1] = Place(e)[1]
         /\ Turning(n) => Place(e)[1] # Place(c)[1]

LEMMA CallRInv ==
  ASSUME RInv, LInv', NEW c \in Calls, NEW n \in Call, CallsOwn(c, n), SparesOthers(c, n)
  PROVE  RInv'
<1> DEFINE P == IF Calling(c) THEN {Place(c)} ELSE {}
<1>1. LInv /\ CallsInv /\ DInv /\ AInv /\ IInv /\ IInv'
  BY DEF RInv, DInv, AInv, LInv, CallsInv
<1>2. /\ Elsewhere(P) /\ config' = config /\ req' = req
      /\ call'[c] = n /\ \A e \in Calls : e # c => call'[e] = call[e]
  BY <1>1 DEF CallsOwn, Proceed, CallsInv, Elsewhere
<1>3. \A x \in Reqs : Running(x) => P \cap Places(x) = {}
  BY DEF RInv, CallsApart
<1>4. /\ DInv'
      /\ \A x \in Reqs : Running(x) => Places(x)' = Places(x)
      /\ \A l \in LoginIds, d \in Devices : Untouched(l, d)' <=> Untouched(l, d)
      /\ \A l \in LoginIds, d \in Devices :
           <<l, d>> \notin P /\ Rest(l, d) => Rest(l, d)'
  <2> HIDE DEF P
  <2> QED
    BY <1>1, <1>2, <1>3, ApartStep DEF CallsOwn
<1>5. \A e \in Calls : e # c => Calling(e)' = Calling(e)
                               /\ (Calling(e) => Place(e)' = Place(e))
  BY <1>1, <1>2, CallPlace DEF Calling, Place, Elsewhere
<1>6. n.pc # "idle" =>
        /\ Place(c)' = owner[n.token]
        /\ \E l \in LoginIds, d \in Devices : owner[n.token] = <<l, d>>
        /\ Calling(c) => Place(c)' = Place(c)
        /\ ~Calling(c) => \A l \in LoginIds, d \in Devices :
                            owner[n.token] = <<l, d>> => Free(l, d)
  <2>1. CASE n.pc # "idle" /\ Calling(c)
    <3>1. /\ n.token = call[c].token /\ n.token \in Tokens /\ owner[n.token] # Null
          /\ Place(c) = owner[n.token]
          /\ \E l \in LoginIds, d \in Devices : Place(c) = <<l, d>>
      BY <1>1, <2>1, CallPlace DEF CallsOwn
    <3>2. owner'[n.token] = owner[n.token]
      BY <1>2, <3>1 DEF Elsewhere
    <3>3. Place(c)' = owner[n.token]
      BY <1>2, <3>2 DEF Place
    <3> QED
      BY <2>1, <3>1, <3>3
  <2>2. CASE n.pc # "idle" /\ ~Calling(c)
    <3>1. n.token \in handed /\ n.token \in Tokens /\ owner[n.token] # Null
      BY <1>1, <2>2 DEF CallsOwn, CallsInv, IInv, TypeOK
    <3>2. owner[n.token] \in LoginIds \X Devices
      BY <1>1, <3>1 DEF IInv, TypeOK
    <3>3. \E l \in LoginIds, d \in Devices : owner[n.token] = <<l, d>>
      BY <3>2
    <3> QED
      BY <1>2, <2>2, <3>1, <3>3 DEF CallsOwn, Place, Elsewhere
  <2> QED
    BY <2>1, <2>2
<1>7. Calling(c)' <=> n.pc # "idle"
  BY <1>2 DEF Calling
<1>8. CallsApart'
  <2>1. ASSUME NEW e \in Calls, Calling(e)', NEW x \in Reqs, Running(x)'
        PROVE  Place(e)' \notin Places(x)'
    <3>1. Running(x) /\ Places(x)' = Places(x)
      BY <1>2, <1>4, <2>1 DEF Running
    <3>2. CASE e # c
      BY <1>5, <2>1, <3>1, <3>2 DEF RInv, CallsApart
    <3>3. CASE e = c /\ Calling(c)
      BY <1>6, <1>7, <2>1, <3>1, <3>3 DEF RInv, CallsApart
    <3>4. CASE e = c /\ ~Calling(c)
      <4>1. PICK l \in LoginIds, d \in Devices : Place(c)' = <<l, d>> /\ Free(l, d)
        BY <1>6, <1>7, <2>1, <3>4
      <4> QED
        BY <3>1, <3>4, <4>1, UntouchedPlace DEF Free
    <3> QED
      BY <3>2, <3>3, <3>4
  <2>2. ASSUME NEW e \in Calls, e # c, Calling(e)', Calling(c)'
        PROVE  Place(e)' # Place(c)'
    <3>1. CASE Calling(c)
      BY <1>5, <1>6, <1>7, <2>2, <3>1 DEF RInv, CallsApart
    <3>2. CASE ~Calling(c)
      BY <1>5, <1>6, <1>7, <2>2, <3>2 DEF Free
    <3> QED
      BY <3>1, <3>2
  <2>3. ASSUME NEW e \in Calls, NEW f \in Calls, e # f, Calling(e)', Calling(f)'
        PROVE  Place(e)' # Place(f)'
    BY <1>5, <2>2, <2>3 DEF RInv, CallsApart
  <2>4. \A e \in Calls : /\ Turning(call[e]) => Calling(e)
                         /\ Turning(call[e])' => Calling(e)'
    BY DEF Turning, Making, Made, Calling
  <2>5. ASSUME NEW e \in Calls, e # c, ~config.deviceConcurrent,
               Turning(call[e])', Turning(call[c])'
        PROVE  Place(e)'[1] # Place(c)'[1]
    <3>1. Turning(call[e]) /\ Turning(n) /\ Calling(e) /\ n.pc # "idle" /\ Calling(c)
      BY <1>2, <1>5, <1>7, <2>4, <2>5 DEF Turning, CallsOwn
    <3> QED
      BY <1>5, <1>6, <2>5, <3>1 DEF SparesOthers
  <2>6. ASSUME NEW e \in Calls, NEW f \in Calls, e # f, ~config.deviceConcurrent,
               Turning(call[e])', Turning(call[f])'
        PROVE  Place(e)'[1] # Place(f)'[1]
    <3>1. CASE e # c /\ f # c
      <4>1. Turning(call[e]) /\ Turning(call[f])
        BY <1>2, <2>6, <3>1 DEF Turning
      <4> QED
        BY <1>5, <2>4, <2>6, <3>1, <4>1 DEF RInv, CallsApart
    <3> QED
      BY <2>5, <2>6, <3>1
  <2> QED
    BY <1>2, <2>1, <2>3, <2>6 DEF CallsApart
<1>9. ASSUME NEW e \in Calls, NEW q \in Call, q = call'[e], q.pc # "idle"
      PROVE  CallKnows(q)'
  <2>1. CASE e = c
    BY <1>2, <1>9, <2>1 DEF CallsOwn
  <2>2. CASE e # c
    <3>1. Calling(e) /\ q = call[e] /\ CallKnows(q)
      BY <1>2, <1>9, <2>2 DEF Calling, RInv
    <3>2. PICK l \in LoginIds, d \in Devices : Place(e) = <<l, d>>
      BY <1>1, <3>1, CallPlace
    <3>3. /\ CallShape(q, owner, handed, from) /\ q.token \in Tokens
          /\ owner[q.token] = <<l, d>> /\ <<l, d>> \notin P
      BY <1>1, <2>2, <3>1, <3>2, CallPlace DEF RInv, CallsApart
    <3>4. /\ q.pc \in Making => owner'[q.next] = Null
          /\ Turning(q) /\ ~config.deviceConcurrent => \A u \in handed' :
               Live(u)' /\ owner'[u][1] = l => u \in handed /\ Live(u) /\ owner[u][1] = l
      BY <2>2, <3>1, <3>2 DEF SparesOthers
    <3> HIDE DEF P
    <3> QED
      BY <1>1, <1>2, <1>9, <3>1, <3>3, <3>4, KeepCall
  <2> QED
    BY <2>1, <2>2
<1>10. ASSUME NEW l \in LoginIds, NEW d \in Devices, Free(l, d)' PROVE Rest(l, d)'
  <2>1. Untouched(l, d) /\ \A e \in Calls : e # c /\ Calling(e) => Place(e) # <<l, d>>
    BY <1>4, <1>5, <1>10 DEF Free
  <2>2. CASE Calling(c) /\ Place(c) = <<l, d>>
    <3>1. n.pc = "idle"
      BY <1>6, <1>7, <1>10, <2>2 DEF Free
    <3> QED
      BY <2>2, <3>1 DEF CallsOwn
  <2>3. CASE ~(Calling(c) /\ Place(c) = <<l, d>>)
    <3>1. Free(l, d) /\ <<l, d>> \notin P
      BY <2>1, <2>3 DEF Free
    <3> QED
      BY <1>4, <3>1 DEF RInv
  <2> QED
    BY <2>2, <2>3
<1> QED
  BY <1>4, <1>8, <1>9, <1>10 DEF RInv

-----------------------------------------------------------------------------
(* The steps of a call that write to none of the engine's keys. *)
LEMMA CallReadsRInv ==
  ASSUME RInv, LInv', UNCHANGED vars, NEW c \in Calls, NEW n \in Call, Proceed(c, n),
         n.pc # "idle" => CallKnows(n),
         n.pc # "idle" /\ Calling(c) => n.token = call[c].token,
         n.pc # "idle" /\ ~Calling(c) =>
           /\ n.token \in handed /\ ~Turning(n)
           /\ \A l \in LoginIds, d \in Devices : owner[n.token] = <<l, d>> => Free(l, d),
         n.pc = "idle" => call[c].pc \notin Swapping,
         Turning(n) /\ ~Turning(call[c]) => Calling(c) /\ Live(call[c].token)
  PROVE  RInv'
<1>1. LInv /\ CallsInv /\ DInv /\ AInv /\ IInv
  BY DEF RInv, DInv, AInv, LInv
<1>2. UNCHANGED <<config, tokenKey, session, list, req, owner, handed>>
  BY DEF vars
<1>3. \A P : Elsewhere(P)
  BY <1>1, <1>2 DEF Elsewhere, AInv, IInv, TypeOK
<1>4. /\ \A l, d : Rest(l, d)' = Rest(l, d)
      /\ OneOfAccount' = OneOfAccount /\ \A u : Live(u)' = Live(u)
  BY <1>2 DEF Rest, Listed, Agree, OneOfAccount, Live, Multi
<1>5. ~Multi(config) => OneOfAccount
  BY <1>1 DEF DInv, BInv
<1>6. CallKnows(n) => CallKnows(n)'
  <2>1. \A l, d, t : Sole(l, d, t)' = Sole(l, d, t) /\ Lone(l, t)' = Lone(l, t)
    BY <1>2 DEF Sole, Lone, Live
  <2> QED
    BY <1>2, <1>4, <2>1 DEF CallKnows, Turning, Multi
<1>7. ASSUME Calling(c), n.pc = "idle", NEW l \in LoginIds, NEW d \in Devices,
             Place(c) = <<l, d>>
      PROVE  Rest(l, d)
  <2>1. CallKnows(call[c])
    BY <1>1, <1>7, CallPlace DEF RInv
  <2> QED
    BY <1>7, <2>1 DEF CallKnows, Place
<1>8. CallsOwn(c, n)
  BY <1>2, <1>3, <1>4, <1>5, <1>6, <1>7 DEF CallsOwn
<1>9. ASSUME NEW e \in Calls, e # c, Calling(e), Turning(call[e]), ~config.deviceConcurrent,
             Turning(n)
      PROVE  Place(e)[1] # Place(c)[1]
  <2>1. CASE Turning(call[c])
    BY <1>9, <2>1 DEF RInv, CallsApart
  <2>2. CASE ~Turning(call[c])
    <3>1. Calling(c) /\ Live(call[c].token)
      BY <1>9, <2>2
    <3>2. PICK l \in LoginIds, d \in Devices : Place(e) = <<l, d>>
      BY <1>1, <1>9, CallPlace
    <3>3. Lone(l, call[e].token)
      <4>1. CallKnows(call[e])
        BY <1>1, <1>9, CallPlace DEF RInv
      <4> QED
        BY <1>9, <3>2, <4>1 DEF CallKnows, Place
    <3>4. call[c].token \in handed /\ Place(c) = owner[call[c].token] /\ Place(c) # Place(e)
      BY <1>1, <1>9, <3>1, CallPlace DEF RInv, CallsApart
    <3>5. ASSUME Place(c)[1] = l PROVE FALSE
      <4>1. call[c].token = call[e].token
        BY <3>1, <3>3, <3>4, <3>5 DEF Lone
      <4> QED
        BY <3>4, <4>1 DEF Place
    <3> QED
      BY <3>2, <3>5
  <2> QED
    BY <2>1, <2>2
<1>10. SparesOthers(c, n)
  <2>1. ASSUME NEW e \in Calls, Calling(e), call[e].pc \in Making
        PROVE  owner'[call[e].next] = Null
    BY <1>1, <1>2, <2>1, CallPlace DEF CallShape
  <2> QED
    BY <1>2, <1>4, <1>9, <2>1 DEF SparesOthers
<1> QED
  BY <1>8, <1>10, CallRInv

LEMMA StartsRInv ==
  ASSUME RInv, Overlap # "any", NEW c \in Calls, NEW t \in Tokens,
         StartRefresh(c, t) \/ StartRevoke(c, t)
  PROVE  RInv'
<1>1. LInv /\ CallsInv /\ IInv /\ LInv'
  BY StartsKeep DEF RInv, LInv, CallsInv
<1>2. PICK n \in Call : StartCall(c, n) /\ n.token = t /\ ~Turning(n)
                        /\ n.pc \in {"readToken", "readState"}
  <2> DEFINE f == [NoCall EXCEPT !.op = "refresh", !.pc = "readToken", !.token = t]
             v == [NoCall EXCEPT !.op = "revoke", !.pc = "readState", !.token = t]
  <2>1. /\ f \in Call /\ f.token = t /\ f.pc = "readToken" /\ f.op = "refresh"
        /\ v \in Call /\ v.token = t /\ v.pc = "readState" /\ v.op = "revoke"
    BY DEF NoCall, Call, CallPCs
  <2>2. ~Turning(f) /\ ~Turning(v)
    BY <2>1 DEF Turning, Making, Made
  <2>3. StartCall(c, f) \/ StartCall(c, v)
    BY DEF StartRefresh, StartRevoke
  <2> HIDE DEF f, v
  <2> QED
    BY <2>1, <2>2, <2>3
<1>3. /\ UNCHANGED vars /\ Proceed(c, n) /\ ~Calling(c) /\ t \in handed
      /\ n.pc \notin {"idle", "casMark"} \cup Swapping \cup Making \cup Made
  BY <1>2 DEF StartCall, Swapping, Making, Made
<1>4. ASSUME NEW l \in LoginIds, NEW d \in Devices, owner[t] = <<l, d>>
      PROVE  Free(l, d)
  BY <1>2, <1>4 DEF StartCall, Quiet, Free
<1>5. CallKnows(n)
  BY <1>2, <1>3, <1>4 DEF CallKnows, RInv
<1>6. call[c].pc \notin Swapping
  BY <1>3 DEF Calling, Swapping
<1> QED
  BY <1>1, <1>2, <1>3, <1>4, <1>5, <1>6, CallReadsRInv

LEMMA ReadingRInv ==
  ASSUME RInv, NEW c \in Calls,
         \/ RefreshReadToken(c) \/ ReadState(c) \/ RefreshAdvance(c) \/ RefreshWriteState(c)
         \/ RefreshReadMark(c) \/ ReplayRead(c) \/ CasRevoked(c)
  PROVE  RInv'
<1> SUFFICES ASSUME NEW q, q = call[c] PROVE RInv'
  OBVIOUS
<1>1. UNCHANGED vars /\ q.pc # "idle"
  BY DEF RefreshReadToken, ReadState, RefreshAdvance, RefreshWriteState, RefreshReadMark,
         ReplayRead, CasRevoked
<1>2. LInv /\ CallsInv /\ DInv /\ IInv /\ LInv'
  BY ReadingCallKeeps, RefreshAdvanceKeeps, RefreshWriteStateKeeps, RefreshReadMarkKeeps,
     CasRevokedKeeps DEF RInv, LInv, CallsInv
<1>3. /\ Calling(c) /\ q \in Call /\ CallShape(q, owner, handed, from) /\ CallKnows(q)
      /\ q.token \in handed /\ q.token \in Tokens /\ owner[q.token] # Null
      /\ \E l \in LoginIds, d \in Devices : owner[q.token] = <<l, d>>
  BY <1>1, <1>2, CallPlace DEF RInv, Calling
<1>4. ASSUME Proceed(c, NoCall), q.pc \notin Swapping PROVE RInv'
  <2>1. NoCall.pc = "idle" /\ NoCall \in Call /\ ~Turning(NoCall)
    BY NoCallIsCall DEF Turning, Making, Made
  <2> QED
    BY <1>1, <1>2, <1>4, <2>1, CallReadsRInv
<1>5. ASSUME NEW n \in Call, Proceed(c, n), n.token = q.token, q.pc \notin Swapping,
             n.pc \notin {"idle"} \cup Swapping \cup Made, Turning(n) => Turning(q),
             n.pc \in Making => n.next \notin handed
      PROVE  RInv'
  <2>1. /\ Turning(n) /\ ~Multi(config) =>
             \A l \in LoginIds, d \in Devices : owner[n.token] = <<l, d>> => Sole(l, d, n.token)
        /\ Turning(n) /\ ~config.deviceConcurrent =>
             \A l \in LoginIds, d \in Devices : owner[n.token] = <<l, d>> => Lone(l, n.token)
        /\ Turning(n) => Live(n.token)
        /\ \A l \in LoginIds, d \in Devices : owner[n.token] = <<l, d>> => Rest(l, d)
    BY <1>3, <1>5 DEF CallKnows, Swapping
  <2>2. CallKnows(n)
    BY <1>5, <2>1 DEF CallKnows, Swapping
  <2> QED
    BY <1>1, <1>2, <1>3, <1>5, <2>2, CallReadsRInv
<1>6. CASE RefreshReadToken(c)
  <2>1. q.pc = "readToken" /\ q.pc \notin Swapping
    BY <1>6 DEF RefreshReadToken, Swapping
  <2>2. CASE Live(q.token) /\ Proceed(c, [q EXCEPT !.pc = "readState"])
    <3> DEFINE n == [q EXCEPT !.pc = "readState"]
    <3>1. n \in Call /\ n.pc = "readState" /\ n.token = q.token
      BY <1>3 DEF Call, CallPCs
    <3> HIDE DEF n
    <3>2. PICK l \in LoginIds, d \in Devices : owner[q.token] = <<l, d>>
      BY <1>3
    <3>3. Rest(l, d)
      BY <1>3, <2>1, <3>2 DEF CallKnows
    <3>4. ASSUME ~Multi(config) PROVE Sole(l, d, q.token)
      BY <1>3, <2>2, <3>2, <3>3, <3>4 DEF Rest, Listed, Sole
    <3>5. ASSUME ~config.deviceConcurrent PROVE Lone(l, q.token)
      <4>1. OneOfAccount
        BY <1>2, <3>5 DEF DInv, BInv, Multi
      <4> QED
        BY <1>3, <2>2, <3>2, <3>5, <4>1 DEF OneOfAccount, Lone
    <3>6. \A m \in LoginIds, e \in Devices : owner[n.token] = <<m, e>> => m = l /\ e = d
      BY <3>1, <3>2
    <3>7. n.pc \notin {"idle", "casMark", "add"} \cup Swapping \cup Making \cup Made
      BY <3>1 DEF Swapping, Making, Made
    <3>8. CallKnows(n)
      BY <2>2, <3>1, <3>3, <3>4, <3>5, <3>6, <3>7 DEF CallKnows
    <3> QED
      BY <1>1, <1>2, <1>3, <2>2, <3>1, <3>7, <3>8, CallReadsRInv DEF n
  <2> QED
    BY <1>4, <1>6, <2>1, <2>2 DEF RefreshReadToken
<1>7. CASE ReadState(c)
  <2> DEFINE p == IF q.op = "refresh" THEN "advance" ELSE "casRevoked"
             n == [q EXCEPT !.raw = state[q.token], !.pc = p]
  <2>1. q.pc = "readState" /\ q.pc \notin Swapping
    BY <1>7 DEF ReadState, Swapping
  <2>2. CASE Active(q.token) /\ Proceed(c, n)
    <3>1. state[q.token] \in FamilyState
      BY <1>2, <1>3, <2>2 DEF CallsInv, Active
    <3>2. p \in {"advance", "casRevoked"} /\ (p = "advance" <=> q.op = "refresh")
      OBVIOUS
    <3> HIDE DEF p
    <3>3. n \in Call /\ n.pc = p /\ n.token = q.token
      BY <1>3, <3>1, <3>2 DEF Call, CallPCs
    <3> HIDE DEF n
    <3>4. n.pc \notin {"idle"} \cup Swapping \cup Making \cup Made
      BY <3>2, <3>3 DEF Swapping, Making, Made
    <3>5. Turning(n) => Turning(q)
      BY <2>1, <3>2, <3>3, <3>4 DEF Turning
    <3> QED
      BY <1>5, <2>1, <2>2, <3>3, <3>4, <3>5
  <2> QED
    BY <1>4, <1>7, <2>1, <2>2 DEF ReadState
<1>8. CASE RefreshAdvance(c)
  <2>1. q.pc = "advance" /\ q.pc \notin Swapping /\ Turning(q)
    BY <1>8 DEF RefreshAdvance, Swapping, Turning
  <2>2. ASSUME NEW t \in Unmade, Proceed(c, [q EXCEPT !.pc = "writeState", !.next = t])
        PROVE  RInv'
    <3> DEFINE n == [q EXCEPT !.pc = "writeState", !.next = t]
    <3>1. t \in Tokens /\ owner[t] = Null
      BY DEF Unmade, Fresh
    <3>2. n \in Call /\ n.pc = "writeState" /\ n.token = q.token /\ n.next = t
      BY <1>3, <3>1 DEF Call, CallPCs
    <3> HIDE DEF n
    <3>3. n.next \notin handed
      BY <1>2, <3>1, <3>2 DEF CallsInv
    <3>4. n.pc \notin {"idle"} \cup Swapping \cup Made
      BY <3>2 DEF Swapping, Made
    <3> QED
      BY <1>5, <2>1, <2>2, <3>2, <3>3, <3>4 DEF n
  <2>3. CASE Proceed(c, [q EXCEPT !.pc = "replayRead", !.raw = Null])
    <3> DEFINE n == [q EXCEPT !.pc = "replayRead", !.raw = Null]
    <3>1. n \in Call /\ n.pc = "replayRead" /\ n.token = q.token
      BY <1>3 DEF Call, CallPCs
    <3> HIDE DEF n
    <3>2. n.pc \notin {"idle"} \cup Swapping \cup Making \cup Made
      BY <3>1 DEF Swapping, Making, Made
    <3> QED
      BY <1>5, <2>1, <2>3, <3>1, <3>2 DEF n
  <2> QED
    BY <1>8, <2>2, <2>3 DEF RefreshAdvance
<1>9. CASE RefreshWriteState(c)
  <2> DEFINE n == [q EXCEPT !.pc = "writeToken", !.raw = Null]
  <2>1. q.pc = "writeState" /\ q.pc \notin Swapping /\ Turning(q) /\ Proceed(c, n)
    BY <1>9 DEF RefreshWriteState, Swapping, Turning, Making
  <2>2. n \in Call /\ n.pc = "writeToken" /\ n.token = q.token /\ n.next = q.next
    BY <1>3 DEF Call, CallPCs
  <2> HIDE DEF n
  <2>3. n.pc \notin {"idle"} \cup Swapping \cup Made
    BY <2>2 DEF Swapping, Made
  <2>4. q.next \notin handed
    BY <1>3, <2>1 DEF CallKnows, Making
  <2> QED
    BY <1>5, <2>1, <2>2, <2>3, <2>4
<1>10. CASE RefreshReadMark(c)
  <2> DEFINE v == tokenKey[q.token]
             n == [q EXCEPT !.pc = "casMark", !.seen = v]
  <2>1. q.pc = "readMark" /\ q.pc \in Swapping /\ q.pc \in Made /\ Turning(q)
    BY <1>10 DEF RefreshReadMark, Swapping, Turning, Made
  <2>2. Live(q.token) /\ v \in LoginIds /\ v # Null
    BY <1>3, <2>1, ValuesAssumption DEF CallKnows, Live
  <2>3. Proceed(c, n)
    BY <1>10, <2>2 DEF RefreshReadMark
  <2>4. /\ n \in Call /\ n.pc = "casMark" /\ n.token = q.token /\ n.next = q.next
        /\ n.seen = v
    BY <1>3, <2>2 DEF Call, CallPCs
  <2> HIDE DEF n
  <2>5. CallKnows(n)
    BY <1>3, <2>1, <2>2, <2>4 DEF CallKnows, Swapping, Turning, Made
  <2> QED
    BY <1>1, <1>2, <1>3, <2>1, <2>3, <2>4, <2>5, CallReadsRInv
<1>11. CASE ReplayRead(c)
  <2> DEFINE n == [q EXCEPT !.pc = "replayCas", !.raw = state[q.token]]
  <2>1. q.pc = "replayRead" /\ q.pc \notin Swapping
    BY <1>11 DEF ReplayRead, Swapping
  <2>2. CASE state[q.token] # Null /\ Proceed(c, n)
    <3>1. state[q.token] \in FamilyState
      BY <1>2, <1>3, <2>2 DEF CallsInv
    <3>2. n \in Call /\ n.pc = "replayCas" /\ n.token = q.token
      BY <1>3, <3>1 DEF Call, CallPCs
    <3> HIDE DEF n
    <3>3. n.pc \notin {"idle"} \cup Swapping \cup Making \cup Made
      BY <3>2 DEF Swapping, Making, Made
    <3>4. ~Turning(n)
      BY <3>2, <3>3 DEF Turning
    <3> QED
      BY <1>5, <2>1, <2>2, <3>2, <3>3, <3>4
  <2> QED
    BY <1>4, <1>11, <2>1, <2>2 DEF ReplayRead
<1>12. CASE CasRevoked(c)
  BY <1>4, <1>12 DEF CasRevoked, Swapping
<1> QED
  BY <1>6, <1>7, <1>8, <1>9, <1>10, <1>11, <1>12

-----------------------------------------------------------------------------
(* The steps of a refresh that write the tokens and the indexes. *)
LEMMA RefreshAt ==
  ASSUME RInv, NEW c \in Calls, call[c].pc \in {"writeToken", "writeSession", "casMark", "add"}
  PROVE  LET q == call[c] IN
         /\ LInv /\ CallsInv /\ DInv /\ AInv /\ IInv /\ Calling(c) /\ q \in Call
         /\ Turning(q) /\ CallKnows(q) /\ q.token \in handed /\ q.token \in Tokens
         /\ owner[q.token] # Null /\ q.next \in Tokens /\ q.next \notin handed
         /\ q.pc = "writeToken" => owner[q.next] = Null
         /\ q.pc \in Made => owner[q.next] = owner[q.token] /\ Live(q.next)
         /\ \E l \in LoginIds, d \in Devices : owner[q.token] = <<l, d>> /\ Place(c) = <<l, d>>
<1> DEFINE q == call[c]
<1>1. LInv /\ CallsInv /\ DInv /\ AInv /\ IInv /\ Calling(c)
  BY DEF RInv, DInv, AInv, LInv, Calling
<1>2. q \in Call /\ CallShape(q, owner, handed, from) /\ q.token \in handed
      /\ q.token \in Tokens /\ owner[q.token] # Null /\ Place(c) = owner[q.token]
      /\ \E l \in LoginIds, d \in Devices : Place(c) = <<l, d>>
  BY <1>1, CallPlace
<1>3. CallKnows(q)
  BY <1>1, <1>2 DEF RInv, Calling
<1>4. Turning(q) /\ q.pc \in Making \cup Made
  BY DEF Turning, Making, Made
<1> QED
  BY <1>1, <1>2, <1>3, <1>4 DEF CallKnows, CallShape, Making

(* What is left of the others when the tokens that become accepted are of   *)
(* the refresh's own account.                                               *)
LEMMA RefreshSpares ==
  ASSUME RInv, NEW c \in Calls, Turning(call[c]), NEW n, NEW t \in Tokens,
         \A u \in Tokens : u # t => owner'[u] = owner[u],
         \A u \in handed' : Live(u)' => (u \in handed /\ Live(u)) \/ u = t,
         owner'[t] = Place(c), handed' \subseteq Tokens,
         \A e \in Calls : e # c /\ call[e].pc \in Making => call[e].next # t
  PROVE  SparesOthers(c, n)
<1>1. CallsInv
  BY DEF RInv, LInv
<1>2. ASSUME NEW e \in Calls, e # c, Calling(e), call[e].pc \in Making
      PROVE  owner'[call[e].next] = Null
  BY <1>1, <1>2, CallPlace DEF CallShape
<1>3. ASSUME NEW e \in Calls, e # c, Calling(e), Turning(call[e]), ~config.deviceConcurrent
      PROVE  /\ Place(e)[1] # Place(c)[1]
             /\ \A u \in handed' : Live(u)' /\ owner'[u][1] = Place(e)[1] =>
                  u \in handed /\ Live(u) /\ owner[u][1] = Place(e)[1]
  <2>1. Place(e)[1] # Place(c)[1]
    BY <1>3 DEF RInv, CallsApart
  <2>2. ASSUME NEW u \in handed', Live(u)', owner'[u][1] = Place(e)[1]
        PROVE  u \in handed /\ Live(u) /\ owner[u][1] = Place(e)[1]
    <3>1. u # t
      BY <2>1, <2>2
    <3> QED
      BY <2>2, <3>1
  <2> QED
    BY <2>1, <2>2
<1> QED
  BY <1>2, <1>3 DEF SparesOthers

LEMMA RefreshWriteTokenRInv ==
  ASSUME RInv, NEW c \in Calls, RefreshWriteToken(c) PROVE RInv'
<1> SUFFICES ASSUME NEW q, q = call[c], NEW n, n = [q EXCEPT !.pc = "writeSession"]
             PROVE  RInv'
  OBVIOUS
<1>1. q.pc = "writeToken" /\ Proceed(c, n)
      /\ tokenKey' = [tokenKey EXCEPT ![q.next] = owner[q.token][1]]
      /\ owner' = [owner EXCEPT ![q.next] = owner[q.token]]
      /\ UNCHANGED <<config, session, list, req, handed>>
  BY DEF RefreshWriteToken
<1>2. /\ LInv /\ CallsInv /\ DInv /\ AInv /\ IInv /\ Calling(c) /\ q \in Call
      /\ Turning(q) /\ CallKnows(q) /\ q.token \in handed /\ q.token \in Tokens
      /\ owner[q.token] # Null /\ q.next \in Tokens /\ q.next \notin handed
      /\ owner[q.next] = Null
  BY <1>1, RefreshAt
<1>3. PICK l \in LoginIds, d \in Devices : owner[q.token] = <<l, d>> /\ Place(c) = <<l, d>>
  BY <1>1, RefreshAt
<1>4. n \in Call /\ n.pc = "writeSession" /\ n.token = q.token /\ n.next = q.next
  BY <1>2 DEF Call, CallPCs
<1>5. LInv'
  BY <1>2, RefreshWriteTokenKeeps
<1>6. /\ tokenKey'[q.next] = l /\ owner'[q.next] = <<l, d>>
      /\ \A u \in Tokens : u # q.next => tokenKey'[u] = tokenKey[u] /\ owner'[u] = owner[u]
  BY <1>1, <1>2, <1>3 DEF IInv, TypeOK
<1>7. \A u \in handed : u \in Tokens /\ u # q.next /\ owner'[u] = owner[u]
                        /\ (Live(u)' <=> Live(u))
  BY <1>2, <1>6 DEF IInv, TypeOK, Live
<1>8. Elsewhere({Place(c)})
  BY <1>1, <1>2, <1>3, <1>6, <1>7 DEF Elsewhere, AInv
<1>9. ~Multi(config) => OneOfAccount'
  BY <1>1, <1>2, <1>7 DEF DInv, BInv, OneOfAccount
<1>10. Rest(l, d)'
  <2>1. Rest(l, d) /\ owner'[q.token] = <<l, d>>
    BY <1>1, <1>2, <1>3, <1>7 DEF CallKnows, Swapping
  <2>2. Listed(l, d) => Listed(l, d)'
    BY <1>1, <1>7 DEF Listed
  <2>3. Agree(l, d) => Agree(l, d)'
    <3>1. session[l][d] \in Tokens \cup {Null}
      BY <1>2 DEF IInv, TypeOK, Index
    <3> QED
      BY <1>1, <1>6, <3>1 DEF Agree, Live
  <2> QED
    BY <1>1, <2>1, <2>2, <2>3 DEF Rest, Multi
<1>11. CallKnows(n)'
  <2>1. owner'[n.token] = <<l, d>> /\ Live(n.token)'
    BY <1>1, <1>2, <1>3, <1>4, <1>7 DEF CallKnows
  <2>2. ~Multi(config) => Sole(l, d, n.token)'
    BY <1>1, <1>2, <1>3, <1>4, <1>7 DEF CallKnows, Sole
  <2>3. ~config.deviceConcurrent => Lone(l, n.token)'
    BY <1>1, <1>2, <1>3, <1>4, <1>7 DEF CallKnows, Lone
  <2>4. Live(n.next)' /\ n.next \notin handed'
    BY <1>1, <1>2, <1>4, <1>6 DEF Live
  <2>5. \A m \in LoginIds, e \in Devices : owner'[n.token] = <<m, e>> => m = l /\ e = d
    BY <2>1
  <2> QED
    BY <1>1, <1>4, <1>10, <2>1, <2>2, <2>3, <2>4, <2>5 DEF CallKnows, Swapping, Multi
<1>12. CallsOwn(c, n)
  BY <1>1, <1>2, <1>4, <1>8, <1>9, <1>11 DEF CallsOwn
<1>13. SparesOthers(c, n)
  <2>1. \A e \in Calls : e # c /\ call[e].pc \in Making => call[e].next # q.next
    BY <1>1, <1>2 DEF CallsInv, Making
  <2> QED
    BY <1>1, <1>2, <1>3, <1>6, <1>7, <2>1, RefreshSpares
<1> QED
  BY <1>4, <1>5, <1>12, <1>13, CallRInv

LEMMA RefreshWriteSessionRInv ==
  ASSUME RInv, NEW c \in Calls, RefreshWriteSession(c) PROVE RInv'
<1> SUFFICES ASSUME NEW q, q = call[c], NEW n, n = [q EXCEPT !.pc = "readMark"]
             PROVE  RInv'
  OBVIOUS
<1>1. q.pc = "writeSession" /\ Proceed(c, n)
      /\ session' = [session EXCEPT ![Place(c)[1]][Place(c)[2]] = q.next]
      /\ UNCHANGED <<config, tokenKey, list, req, owner, handed>>
  BY DEF RefreshWriteSession
<1>2. /\ LInv /\ CallsInv /\ DInv /\ AInv /\ IInv /\ Calling(c) /\ q \in Call
      /\ Turning(q) /\ CallKnows(q) /\ q.token \in Tokens /\ q.next \in Tokens
      /\ owner[q.next] = owner[q.token]
  BY <1>1, RefreshAt DEF Made
<1>3. PICK l \in LoginIds, d \in Devices : owner[q.token] = <<l, d>> /\ Place(c) = <<l, d>>
  BY <1>1, RefreshAt
<1>4. n \in Call /\ n.pc = "readMark" /\ n.token = q.token /\ n.next = q.next
  BY <1>2 DEF Call, CallPCs
<1>5. LInv'
  BY <1>2, RefreshWriteSessionKeeps
<1>6. \A m \in LoginIds, e \in Devices :
        session'[m][e] = IF <<m, e>> = <<l, d>> THEN q.next ELSE session[m][e]
  <2>1. session' = [session EXCEPT ![l][d] = q.next]
    BY <1>1, <1>3
  <2> QED
    BY <1>2, <2>1 DEF IInv, TypeOK, Index
<1>7. Elsewhere({Place(c)})
  BY <1>1, <1>2, <1>3, <1>6 DEF Elsewhere, AInv, IInv, TypeOK
<1>8. \A u : Live(u)' = Live(u)
  BY <1>1 DEF Live
<1>9. ~Multi(config) => OneOfAccount'
  BY <1>1, <1>2, <1>8 DEF DInv, BInv, OneOfAccount
<1>10. CallKnows(n)'
  <2>1. \A m, e, t : Sole(m, e, t)' = Sole(m, e, t) /\ Lone(m, t)' = Lone(m, t)
    BY <1>1, <1>8 DEF Sole, Lone
  <2>2. n.pc \in Swapping /\ n.pc \in Made /\ n.pc # "add" /\ n.pc # "casMark" /\ Turning(n)
    BY <1>4 DEF Swapping, Made, Turning
  <2>3. Live(q.token) /\ Live(q.next) /\ q.next \notin handed
    BY <1>1, <1>2 DEF CallKnows, Made
  <2>4. \A m \in LoginIds, e \in Devices : owner[q.token] = <<m, e>> =>
          /\ session'[m][e] = q.next
          /\ ~Multi(config) => Sole(m, e, q.token)
          /\ ~config.deviceConcurrent => Lone(m, q.token)
    BY <1>2, <1>3, <1>6 DEF CallKnows
  <2> QED
    BY <1>1, <1>4, <1>8, <2>1, <2>2, <2>3, <2>4 DEF CallKnows, Multi
<1>11. CallsOwn(c, n)
  BY <1>1, <1>2, <1>4, <1>7, <1>9, <1>10 DEF CallsOwn
<1>12. SparesOthers(c, n)
  <2>1. \A e \in Calls : e # c /\ call[e].pc \in Making => call[e].next # q.next
    BY <1>1, <1>2 DEF CallsInv, Making, Made
  <2>2. owner'[q.next] = Place(c) /\ handed' \subseteq Tokens
    BY <1>1, <1>2, <1>3 DEF IInv, TypeOK
  <2> QED
    BY <1>1, <1>2, <1>8, <2>1, <2>2, RefreshSpares
<1> QED
  BY <1>4, <1>5, <1>11, <1>12, CallRInv

LEMMA RefreshCasMarkRInv ==
  ASSUME RInv, NEW c \in Calls, RefreshCasMark(c) PROVE RInv'
<1> SUFFICES ASSUME NEW q, q = call[c], NEW n, n = [q EXCEPT !.pc = "add", !.seen = Null]
             PROVE  RInv'
  OBVIOUS
<1>1. q.pc = "casMark" /\ Proceed(c, n)
      /\ tokenKey' = (IF tokenKey[q.token] = q.seen
                      THEN [tokenKey EXCEPT ![q.token] = KICK_OUT] ELSE tokenKey)
      /\ UNCHANGED <<config, session, list, req, owner, handed>>
  BY DEF RefreshCasMark
<1>2. /\ LInv /\ CallsInv /\ DInv /\ AInv /\ IInv /\ Calling(c) /\ q \in Call
      /\ Turning(q) /\ CallKnows(q) /\ q.token \in handed /\ q.token \in Tokens
      /\ q.next \in Tokens /\ q.next \notin handed
      /\ owner[q.next] = owner[q.token] /\ Live(q.next)
  BY <1>1, RefreshAt DEF Made
<1>3. PICK l \in LoginIds, d \in Devices : owner[q.token] = <<l, d>> /\ Place(c) = <<l, d>>
  BY <1>1, RefreshAt
<1>4. n \in Call /\ n.pc = "add" /\ n.token = q.token /\ n.next = q.next
  BY <1>2 DEF Call, CallPCs
<1>5. LInv'
  BY <1>2, RefreshCasMarkKeeps
<1>6. /\ ~Live(q.token)'
      /\ \A u \in Tokens : u # q.token => tokenKey'[u] = tokenKey[u]
  <2>1. tokenKey' = [tokenKey EXCEPT ![q.token] = KICK_OUT]
    BY <1>1, <1>2 DEF CallKnows
  <2>2. KICK_OUT \notin LoginIds
    BY ValuesAssumption DEF Markers
  <2> QED
    BY <1>2, <2>1, <2>2 DEF IInv, TypeOK, Live
<1>7. \A u \in Tokens : Live(u)' => Live(u)
  BY <1>6 DEF Live
<1>8. Elsewhere({Place(c)})
  BY <1>1, <1>2, <1>3, <1>6 DEF Elsewhere, AInv, IInv, TypeOK
<1>9. handed \subseteq Tokens
  BY <1>2 DEF IInv, TypeOK
<1>10. ~Multi(config) => OneOfAccount'
  BY <1>1, <1>2, <1>7, <1>9 DEF DInv, BInv, OneOfAccount
<1>11. CallKnows(n)'
  <2>1. \A m, e, t : (Sole(m, e, t) => Sole(m, e, t)') /\ (Lone(m, t) => Lone(m, t)')
    BY <1>1, <1>7, <1>9 DEF Sole, Lone
  <2>2. n.pc \in Swapping /\ n.pc \in Made /\ n.pc # "casMark" /\ Turning(n)
    BY <1>4 DEF Swapping, Made, Turning
  <2>3. Live(q.next)'
    BY <1>2, <1>6 DEF Live
  <2>4. \A m \in LoginIds, e \in Devices : owner[q.token] = <<m, e>> =>
          /\ session[m][e] = q.next
          /\ ~Multi(config) => Sole(m, e, q.token)
          /\ ~config.deviceConcurrent => Lone(m, q.token)
    BY <1>1, <1>2 DEF CallKnows, Swapping
  <2> QED
    BY <1>1, <1>2, <1>4, <1>6, <2>1, <2>2, <2>3, <2>4 DEF CallKnows, Multi
<1>12. CallsOwn(c, n)
  BY <1>1, <1>2, <1>4, <1>8, <1>10, <1>11 DEF CallsOwn
<1>13. SparesOthers(c, n)
  <2>1. \A e \in Calls : e # c /\ call[e].pc \in Making => call[e].next # q.next
    BY <1>1, <1>2 DEF CallsInv, Making, Made
  <2>2. owner'[q.next] = Place(c) /\ handed' \subseteq Tokens
    BY <1>1, <1>2, <1>3, <1>9
  <2> QED
    BY <1>1, <1>2, <1>7, <1>9, <2>1, <2>2, RefreshSpares
<1> QED
  BY <1>4, <1>5, <1>12, <1>13, CallRInv

LEMMA RefreshAddRInv ==
  ASSUME RInv, NEW c \in Calls, RefreshAdd(c) PROVE RInv'
<1> SUFFICES ASSUME NEW q, q = call[c] PROVE RInv'
  OBVIOUS
<1>1. q.pc = "add" /\ Proceed(c, NoCall)
      /\ list' = [list EXCEPT ![Place(c)[1]][Place(c)[2]] = q.next]
      /\ handed' = handed \cup {q.next}
      /\ UNCHANGED <<config, tokenKey, session, req, owner>>
  BY DEF RefreshAdd
<1>2. /\ LInv /\ CallsInv /\ DInv /\ AInv /\ IInv /\ Calling(c) /\ q \in Call
      /\ Turning(q) /\ CallKnows(q) /\ q.token \in handed /\ q.token \in Tokens
      /\ q.next \in Tokens /\ q.next \notin handed
      /\ owner[q.next] = owner[q.token] /\ Live(q.next) /\ ~Live(q.token)
  BY <1>1, RefreshAt DEF Made, CallKnows
<1>3. PICK l \in LoginIds, d \in Devices : owner[q.token] = <<l, d>> /\ Place(c) = <<l, d>>
  BY <1>1, RefreshAt
<1>4. LInv'
  BY <1>2, RefreshAddKeeps
<1>5. \A m \in LoginIds, e \in Devices :
        list'[m][e] = IF <<m, e>> = <<l, d>> THEN q.next ELSE list[m][e]
  <2>1. list' = [list EXCEPT ![l][d] = q.next]
    BY <1>1, <1>3
  <2> QED
    BY <1>2, <2>1 DEF IInv, TypeOK, Index
<1>6. Elsewhere({Place(c)})
  BY <1>1, <1>2, <1>3, <1>5, ValuesAssumption DEF Elsewhere, AInv, IInv, TypeOK
<1>7. \A u : Live(u)' = Live(u)
  BY <1>1 DEF Live
<1>8. ~Multi(config) => OneOfAccount'
  <2>1. ASSUME ~config.deviceConcurrent, NEW u \in handed, Live(u), owner[u][1] = l
        PROVE  FALSE
    BY <1>2, <1>3, <2>1 DEF CallKnows, Lone
  <2>2. owner[q.next][1] = l
    BY <1>2, <1>3
  <2> QED
    BY <1>1, <1>2, <1>7, <2>1, <2>2 DEF DInv, BInv, OneOfAccount
<1>9. Rest(l, d)'
  <2>1. session[l][d] = q.next
    BY <1>1, <1>2, <1>3 DEF CallKnows, Swapping
  <2>2. session'[l][d] = q.next /\ list'[l][d] = q.next /\ Live(q.next)'
    BY <1>1, <1>2, <1>3, <1>5, <1>7, <2>1
  <2>3. ASSUME ~Multi(config), NEW u \in handed', owner'[u] = <<l, d>>, Live(u)'
        PROVE  u = q.next
    <3>1. ASSUME u \in handed PROVE FALSE
      <4>1. Sole(l, d, q.token)
        BY <1>2, <1>3, <2>3 DEF CallKnows
      <4> QED
        BY <1>1, <1>2, <1>7, <2>3, <3>1, <4>1 DEF Sole
    <3> QED
      BY <1>1, <2>3, <3>1
  <2> QED
    BY <1>1, <2>2, <2>3 DEF Rest, Listed, Agree, Multi
<1>10. CallsOwn(c, NoCall)
  <2>1. \A m \in LoginIds, e \in Devices : Place(c) = <<m, e>> => m = l /\ e = d
    BY <1>3
  <2> QED
    BY <1>1, <1>2, <1>6, <1>8, <1>9, <2>1, NoCallIsCall DEF CallsOwn
<1>11. SparesOthers(c, NoCall)
  <2>1. \A e \in Calls : e # c /\ call[e].pc \in Making => call[e].next # q.next
    BY <1>1, <1>2 DEF CallsInv, Making, Made
  <2>2. owner'[q.next] = Place(c) /\ handed' \subseteq Tokens
    BY <1>1, <1>2, <1>3 DEF IInv, TypeOK
  <2> QED
    BY <1>1, <1>2, <1>7, <2>1, <2>2, RefreshSpares
<1> QED
  BY <1>4, <1>10, <1>11, NoCallIsCall, CallRInv

-----------------------------------------------------------------------------
(* Steps of the families' states alone. *)
LEMMA StatesRInv ==
  ASSUME RInv, LInv', UNCHANGED <<vars, call>>
  PROVE  RInv'
<1>1. LInv /\ DInv /\ IInv' /\ CallsInv
  BY DEF RInv, LInv, CallsInv
<1>2. UNCHANGED <<config, tokenKey, session, list, req, owner, handed, call>>
  BY DEF vars
<1>3. DInv' /\ \A l \in LoginIds, d \in Devices :
        (Untouched(l, d)' <=> Untouched(l, d)) /\ (Rest(l, d) => Rest(l, d)')
  BY <1>1, <1>2, UntouchingStep
<1>4. \A r \in Reqs : Running(r)' = Running(r) /\ Places(r)' = Places(r)
  BY <1>2 DEF Running, Places, Account, Scope
<1>5. \A c \in Calls : Calling(c)' = Calling(c) /\ Place(c)' = Place(c)
                       /\ Turning(call[c])' = Turning(call[c])
  BY <1>2 DEF Calling, Place, Turning
<1>6. CallsApart'
  BY <1>2, <1>4, <1>5 DEF RInv, CallsApart
<1>7. ASSUME NEW q, CallKnows(q) PROVE CallKnows(q)'
  <2>1. \A l, d, t : /\ Sole(l, d, t)' = Sole(l, d, t) /\ Lone(l, t)' = Lone(l, t)
                     /\ Rest(l, d)' = Rest(l, d) /\ Live(t)' = Live(t)
    BY <1>2 DEF Sole, Lone, Rest, Listed, Agree, Live, Multi
  <2> QED
    BY <1>2, <1>7, <2>1 DEF CallKnows, Turning, Multi
<1>8. \A c \in Calls, q \in Call : q = call'[c] /\ q.pc # "idle" => CallKnows(q)'
  BY <1>2, <1>7 DEF RInv
<1>9. \A l \in LoginIds, d \in Devices : Free(l, d)' => Rest(l, d)'
  BY <1>3, <1>5 DEF RInv, Free
<1> QED
  BY <1>3, <1>6, <1>8, <1>9 DEF RInv

LEMMA InitRInv == LifecycleInit => RInv
<1> SUFFICES ASSUME LifecycleInit PROVE RInv
  OBVIOUS
<1>1. LInv /\ EInv
  BY InitLInv, InitEInv DEF LifecycleInit
<1>2. \A c \in Calls : call[c].pc = "idle"
  BY NoCallIsCall DEF LifecycleInit
<1>3. CallsApart
  BY <1>2 DEF CallsApart, Calling, Turning, Making, Made
<1> QED
  BY <1>1, <1>2, <1>3 DEF RInv, EInv, Free

LEMMA NextRInv ==
  ASSUME RInv, Overlap # "any", MayAbort = FALSE, [LifecycleNext]_allVars
  PROVE  RInv'
<1>1. LInv'
  BY NextLInv DEF RInv
<1>2. ASSUME NEW r \in Reqs, EngineStart(r) \/ EngineStep(r) PROVE RInv'
  BY <1>2, EngineRInv
<1>3. ASSUME NEW c \in Calls, NEW t \in Tokens, StartRefresh(c, t) \/ StartRevoke(c, t)
      PROVE  RInv'
  BY <1>3, StartsRInv
<1>4. ASSUME NEW c \in Calls, CallStep(c) PROVE RInv'
  BY <1>4, ReadingRInv, RefreshWriteTokenRInv, RefreshWriteSessionRInv, RefreshCasMarkRInv,
     RefreshAddRInv DEF CallStep
<1>5. ASSUME NEW c \in Calls, CallAborts(c) PROVE RInv'
  BY <1>5 DEF CallAborts
<1>6. CASE UNCHANGED <<vars, call>>
  BY <1>1, <1>6, StatesRInv
<1>7. ASSUME NEW r \in Reqs, CreateTokenFamily(r) PROVE UNCHANGED <<vars, call>>
  BY <1>7 DEF CreateTokenFamily
<1>8. ASSUME NEW t \in Tokens, StateExpires(t) PROVE UNCHANGED <<vars, call>>
  BY <1>8 DEF StateExpires
<1>9. UNCHANGED allVars => UNCHANGED <<vars, call>>
  BY DEF allVars, lifecycle
<1> QED
  BY <1>2, <1>3, <1>4, <1>5, <1>6, <1>7, <1>8, <1>9 DEF LifecycleNext

-----------------------------------------------------------------------------
(* What the invariant says of what clients hold. *)
LEMMA RInvSays ==
  ASSUME RInv, MayAbort = FALSE
  PROVE  RotatedIndexesAgree /\ KickingLeavesOne /\ NeverThrows
<1>1. LInv /\ CallsInv /\ DInv /\ AInv /\ IInv /\ CInv
  BY DEF RInv, DInv, AInv, LInv
<1>2. RotatedIndexesAgree
  BY DEF RInv, RotatedIndexesAgree, Quiet, Free, Rest, Agree
<1>3. NeverThrows
  BY <1>1 DEF CInv, NeverThrows
<1>4. Multi(config) => KickingLeavesOne
  BY DEF KickingLeavesOne, OneTokenPerDevice, OneTokenPerAccount, Multi
<1>5. ASSUME ~Multi(config) PROVE KickingLeavesOne
  <2>1. BInv
    BY <1>1, <1>5 DEF DInv
  <2>2. ASSUME NEW l \in LoginIds, NEW d \in Devices
        PROVE  Listed(l, d) \/ \E t \in Tokens : Sole(l, d, t)
    <3>1. CASE ~Untouched(l, d)
      BY <2>1, <3>1, UntouchedPlace DEF BInv, Held
    <3>2. CASE Free(l, d)
      BY <1>5, <3>2 DEF RInv, Rest
    <3>3. ASSUME NEW c \in Calls, Calling(c), Place(c) = <<l, d>>
          PROVE  Listed(l, d) \/ \E t \in Tokens : Sole(l, d, t)
      <4>1. /\ call[c] \in Call /\ call[c].token \in Tokens
            /\ owner[call[c].token] = <<l, d>> /\ CallKnows(call[c])
        BY <1>1, <3>3, CallPlace DEF RInv
      <4>2. call[c].pc \in Swapping => Turning(call[c])
        BY DEF Swapping, Turning, Made
      <4> QED
        BY <1>5, <4>1, <4>2 DEF CallKnows, Rest
    <3> QED
      BY <3>1, <3>2, <3>3 DEF Free
  <2>3. OneOfDevice
    <3> SUFFICES ASSUME NEW t \in handed, NEW u \in handed, Live(t), Live(u),
                        owner[t] = owner[u]
                 PROVE  t = u
      BY DEF OneOfDevice
    <3>1. owner[t] \in LoginIds \X Devices
      BY <1>1 DEF AInv, IInv, TypeOK
    <3>2. PICK l \in LoginIds, d \in Devices : owner[t] = <<l, d>>
      BY <3>1
    <3> QED
      BY <2>2, <3>2 DEF Listed, Sole
  <2> QED
    BY <1>1, <2>1, <2>3, OneEach DEF BInv
<1> QED
  BY <1>2, <1>3, <1>4, <1>5

(* Where operations, refreshes and revocations that are in flight at once   *)
(* work on different devices and none is cut short: the session key and the *)
(* device list agree on every device nobody works on, and what they name is *)
(* accepted, so what a refresh leaves behind a kickout or logout finds.     *)
THEOREM RefreshedIndexesAgree ==
  ASSUME Overlap # "any", MayAbort = FALSE
  PROVE  LifecycleSpec => []RotatedIndexesAgree
<1>1. RInv => RotatedIndexesAgree
  BY RInvSays
<1>2. RInv /\ [LifecycleNext]_allVars => RInv'
  BY NextRInv
<1> QED
  BY <1>1, <1>2, InitRInv, PTL DEF LifecycleSpec

(* There, refreshes do not add accepted tokens: the modes that kick out     *)
(* leave one on each device, or one in the whole account, although a        *)
(* refresh writes its new token before it marks the old one.  A refresh cut *)
(* short between the two leaves the old token accepted and off the session  *)
(* key, where the next login's kick does not find it: hence MayAbort.       *)
THEOREM RefreshingLeavesOneToken ==
  ASSUME Overlap # "any", MayAbort = FALSE
  PROVE  LifecycleSpec => []KickingLeavesOne
<1>1. RInv => KickingLeavesOne
  BY RInvSays
<1>2. RInv /\ [LifecycleNext]_allVars => RInv'
  BY NextRInv
<1> QED
  BY <1>1, <1>2, InitRInv, PTL DEF LifecycleSpec

(* There, no engine operation is rejected: a refresh never takes away the   *)
(* token key an operation of another device is about to mark.               *)
THEOREM RefreshingNeverThrows ==
  ASSUME Overlap # "any", MayAbort = FALSE
  PROVE  LifecycleSpec => []NeverThrows
<1>1. RInv => NeverThrows
  BY RInvSays
<1>2. RInv /\ [LifecycleNext]_allVars => RInv'
  BY NextRInv
<1> QED
  BY <1>1, <1>2, InitRInv, PTL DEF LifecycleSpec

(* There, a kickout, logout or forced logout that returns has revoked what  *)
(* it was to revoke, the tokens that refreshes handed out included.         *)
THEOREM RefreshedRevokedWhenReturned ==
  ASSUME Overlap # "any", MayAbort = FALSE
  PROVE  LifecycleSpec => RevokedOnReturn
<1>1. RInv /\ [LifecycleNext]_allVars => RInv'
  BY NextRInv
<1>2. RInv /\ [LifecycleNext]_allVars =>
        [\A r \in Reqs : Returns(r) /\ req[r].op # "login" /\ ~Multi(config) =>
           \A t \in Targets(req[r]) : ~Live(t)']_vars
  <2> SUFFICES ASSUME RInv, [LifecycleNext]_allVars, NEW r \in Reqs, Returns(r),
                      req[r].op # "login", ~Multi(config), NEW t \in Targets(req[r])
               PROVE  ~Live(t)'
    OBVIOUS
  <2>1. DInv /\ AInv /\ req'[r] # req[r]
    BY DEF RInv, DInv, Returns, Running, Idle
  <2>2. ASSUME NEW x \in Reqs, EngineStart(x) \/ EngineStep(x) PROVE ~Live(t)'
    <3>1. Next
      BY <2>2 DEF EngineStart, EngineStep, Next
    <3> QED
      BY <2>1, <3>1, ReturnsRevoked
  <2>3. \E x \in Reqs : EngineStart(x) \/ EngineStep(x)
    <3>1. ASSUME NEW c \in Calls, CallStep(c) PROVE req' = req
      BY <3>1 DEF CallStep, RefreshReadToken, ReadState, RefreshAdvance, RefreshWriteState,
                  RefreshWriteToken, RefreshWriteSession, RefreshReadMark, RefreshCasMark,
                  RefreshAdd, ReplayRead, CasRevoked, vars
    <3>2. ASSUME NEW c \in Calls, CallAborts(c) PROVE req' = req
      BY <3>2 DEF CallAborts, vars
    <3>3. ASSUME NEW c \in Calls, NEW u \in Tokens, StartRefresh(c, u) \/ StartRevoke(c, u)
          PROVE  req' = req
      BY <3>3 DEF StartRefresh, StartRevoke, StartCall, vars
    <3>4. ASSUME NEW x \in Reqs, CreateTokenFamily(x) PROVE req' = req
      BY <3>4 DEF CreateTokenFamily, vars
    <3>5. ASSUME NEW u \in Tokens, StateExpires(u) PROVE req' = req
      BY <3>5 DEF StateExpires, vars
    <3>6. UNCHANGED allVars => req' = req
      BY DEF allVars, vars
    <3> QED
      BY <2>1, <3>1, <3>2, <3>3, <3>4, <3>5, <3>6 DEF LifecycleNext
  <2> QED
    BY <2>2, <2>3
<1> QED
  BY <1>1, <1>2, InitRInv, PTL DEF LifecycleSpec, RevokedOnReturn
=============================================================================
