--------------------------- MODULE StpLogic_proofs ---------------------------
(***************************************************************************)
(* Theorems about StpLogic for every set of accounts, devices, tokens and  *)
(* requests.  The first part holds under any overlap of operations and any *)
(* failure; the second is about operations that overlap only where they    *)
(* work on different devices, accounts or tokens.                          *)
(***************************************************************************)
EXTENDS StpLogic, FiniteSetTheorems, TLAPS

ByLogin == {"readMapped", "writeToken", "writeSession", "readAdd", "casAdd"}

(* What an operation in flight holds at each of its awaits. *)
Shape(q) ==
  /\ q.op \notin TokenOps \cup {Null} => q.login \in LoginIds
  /\ q.op = "login" => q.device \in Devices
  /\ q.pc \notin {"idle", "failed", "readToken", "dropToken"} => q.login \in LoginIds
  /\ q.pc = "readSession" => q.at \in Devices /\ (q.op = "login" => q.at = q.device)
  /\ q.pc \in {"readToken", "readMark", "casMark", "readMapped",
               "writeSession", "readAdd", "casAdd"} => q.token \in Tokens
  /\ q.pc \in ByLogin => q.op = "login"
  /\ q.op = "login" /\ q.pc \in {"readSession", "readAll", "dropList"} => q.token = Null
  /\ q.pc = "readAll" => q.op \in {"login", "logoutByLoginId", "forceLogout"}

(* The token a login is about to write belongs to the login's own account   *)
(* and device; and only a sharing login writes a token that already exists. *)
Holds(q, own, c) ==
  /\ q.pc \in ByLogin /\ q.token # Null => own[q.token] = <<q.login, q.device>>
  /\ q.pc \in {"readMapped", "writeToken"} /\ q.token # Null => Shares(c)

IInv ==
  /\ TypeOK
  /\ Ownership
  /\ \A r \in Reqs : Shape(req[r]) /\ Holds(req[r], owner, config)

-----------------------------------------------------------------------------
(* The next request of a loop over the device list is a well-formed one. *)
LEMMA NextDeviceShape ==
  ASSUME NEW q \in Request, q.login \in LoginIds,
         q.op \in {"login", "logoutByLoginId", "forceLogout"},
         q.op = "login" => q.device \in Devices,
         NEW n \in NextDevice(q)
  PROVE  n \in Request /\ Shape(n) /\ n.pc \notin ByLogin
<1>0. Idle \in Request
  BY DEF Idle, PCs, Empty, Request, Index
<1>1. CASE n = Idle
  <2>1. n.op = Null /\ n.pc = "idle"
    BY <1>1 DEF Idle
  <2>2. Null # "login"
    BY ValuesAssumption DEF AllOps
  <2>3. Shape(n) /\ n.pc \notin ByLogin
    BY <2>1, <2>2 DEF Shape, ByLogin
  <2> QED
    BY <1>0, <1>1, <2>3
<1>2. CASE n # Idle /\ \E d \in Devices : q.todo[d] # Null
  <2>1. PICK d \in Devices :
          /\ q.todo[d] # Null
          /\ n = [q EXCEPT !.pc = LoopBody(q), !.at = d,
                           !.todo = [q.todo EXCEPT ![d] = Null],
                           !.token = IF q.op = "forceLogout" THEN Null ELSE q.todo[d]]
    BY <1>2 DEF NextDevice
  <2>2. LoopBody(q) \in {"readMark", "dropToken", "readSession"}
        /\ (q.op = "login" => LoopBody(q) = "readMark")
        /\ (q.op = "logoutByLoginId" => LoopBody(q) = "dropToken")
        /\ (q.op = "forceLogout" => LoopBody(q) = "readSession")
    BY DEF LoopBody
  <2>3. q.todo[d] \in Tokens /\ [q.todo EXCEPT ![d] = Null] \in Index
    BY <2>1 DEF Request, Index
  <2>4. n.op = q.op /\ n.login = q.login /\ n.device = q.device /\ n.at = d
        /\ n.token = (IF q.op = "forceLogout" THEN Null ELSE q.todo[d])
        /\ n.pc = LoopBody(q)
    BY <2>1 DEF Request
  <2>5. n \in Request
    <3>1. LoopBody(q) \in PCs
      BY <2>2 DEF PCs
    <3>2. (IF q.op = "forceLogout" THEN Null ELSE q.todo[d]) \in Tokens \cup {Null}
      BY <2>3
    <3> QED
      BY <2>1, <2>3, <3>1, <3>2 DEF Request
  <2>6. Shape(n) /\ n.pc \notin ByLogin
    <3>1. CASE q.op = "login"
      BY <3>1, <2>2, <2>3, <2>4 DEF Shape, ByLogin
    <3>2. CASE q.op = "logoutByLoginId"
      BY <3>2, <2>2, <2>3, <2>4 DEF Shape, ByLogin
    <3>3. CASE q.op = "forceLogout"
      BY <3>3, <2>2, <2>3, <2>4 DEF Shape, ByLogin
    <3> QED
      BY <3>1, <3>2, <3>3
  <2> QED
    BY <2>5, <2>6
<1>3. CASE n # Idle /\ ~ \E d \in Devices : q.todo[d] # Null
  <2>1. n = [q EXCEPT !.pc = "dropList", !.at = Null, !.token = Null]
    BY <1>2, <1>3 DEF NextDevice
  <2> QED
    BY <2>1 DEF Shape, ByLogin, TokenOps, PCs, Request, Index
<1> QED
  BY <1>1, <1>2, <1>3

(* One request changes; tokens keep their owners: the other requests keep   *)
(* their shape and what they hold.                                          *)
LEMMA OthersKeep ==
  ASSUME IInv, NEW r \in Reqs, NEW n \in Request, Become(r, n), config' = config,
         \A t \in Tokens : owner[t] # Null => owner'[t] = owner[t],
         Shape(n), Holds(n, owner', config)
  PROVE  /\ req' \in [Reqs -> Request]
         /\ \A x \in Reqs : Shape(req'[x]) /\ Holds(req'[x], owner', config')
<1>1. req \in [Reqs -> Request] /\ req' = [req EXCEPT ![r] = n]
  BY DEF IInv, TypeOK, Become
<1>2. req' \in [Reqs -> Request]
  BY <1>1
<1>3. ASSUME NEW x \in Reqs, x # r
      PROVE  Shape(req[x]) /\ Holds(req[x], owner', config)
  <2>1. req[x] \in Request /\ Shape(req[x]) /\ Holds(req[x], owner, config)
    BY <1>1 DEF IInv
  <2>2. ASSUME req[x].pc \in ByLogin, req[x].token # Null
        PROVE  owner'[req[x].token] = <<req[x].login, req[x].device>>
    <3>1. req[x].login \in LoginIds /\ req[x].device \in Devices
      BY <2>1, <2>2 DEF Shape, ByLogin
    <3>2. req[x].token \in Tokens
      BY <2>1, <2>2 DEF Request
    <3>3. owner[req[x].token] = <<req[x].login, req[x].device>>
      BY <2>1, <2>2 DEF Holds
    <3> QED
      BY <3>1, <3>2, <3>3, ValuesAssumption
  <2> QED
    BY <2>1, <2>2 DEF Holds
<1>4. ASSUME NEW x \in Reqs PROVE Shape(req'[x]) /\ Holds(req'[x], owner', config')
  <2>1. CASE x = r
    BY <1>1, <2>1
  <2>2. CASE x # r
    BY <1>1, <1>3, <2>2
  <2> QED
    BY <2>1, <2>2
<1> QED
  BY <1>2, <1>4

(* A step that only reads the store. *)
LEMMA ReadingStep ==
  ASSUME IInv, NEW r \in Reqs, NEW n \in Request, Become(r, n),
         UNCHANGED <<config, store, owner, handed>>, Shape(n), Holds(n, owner, config)
  PROVE  IInv'
<1>1. /\ req' \in [Reqs -> Request]
      /\ \A x \in Reqs : Shape(req'[x]) /\ Holds(req'[x], owner', config')
  BY OthersKeep
<1>2. TypeOK' /\ Ownership'
  BY <1>1 DEF IInv, TypeOK, Ownership, Live, store
<1> QED
  BY <1>1, <1>2 DEF IInv

-----------------------------------------------------------------------------
(* The start of an operation. *)
LEMMA IdleRequest ==
  /\ Idle \in Request /\ Shape(Idle) /\ Holds(Idle, owner, config)
  /\ Failed \in Request /\ Shape(Failed) /\ Holds(Failed, owner, config)
<1>1. Idle \in Request /\ Failed \in Request
  BY DEF Idle, Failed, PCs, Empty, Request, Index
<1>2. Idle.op = Null /\ Idle.pc = "idle" /\ Failed.op = Null /\ Failed.pc = "failed"
  BY DEF Idle, Failed
<1>3. Null # "login"
  BY ValuesAssumption DEF AllOps
<1> QED
  BY <1>1, <1>2, <1>3 DEF Shape, Holds, ByLogin

LEMMA StartStep == ASSUME IInv, NEW r \in Reqs, StartAny(r) PROVE IInv'
<1>1. ASSUME NEW l \in LoginIds, NEW d \in Devices, StartLogin(r, l, d) PROVE IInv'
  <2> DEFINE n == [Idle EXCEPT !.op = "login", !.pc = "readSession",
                               !.login = l, !.device = d, !.at = d]
  <2>1. n \in Request
    BY IdleRequest DEF Request, PCs, AllOps
  <2>2. n.op = "login" /\ n.pc = "readSession" /\ n.login = l /\ n.device = d /\ n.at = d
      /\ n.token = Null
    BY DEF Idle
  <2>3. Shape(n) /\ Holds(n, owner, config)
    BY <2>2 DEF Shape, Holds, ByLogin
  <2>4. Become(r, n) /\ UNCHANGED <<config, store, owner, handed>>
    BY <1>1 DEF StartLogin, Start
  <2> QED
    BY <2>1, <2>3, <2>4, ReadingStep
<1>2. ASSUME NEW l \in LoginIds, NEW d \in Devices, NEW op \in DeviceOps,
             StartDeviceOp(r, op, l, d)
      PROVE  IInv'
  <2> DEFINE n == [Idle EXCEPT !.op = op, !.pc = "readSession",
                               !.login = l, !.device = d, !.at = d]
  <2>1. n \in Request
    BY IdleRequest DEF Request, PCs, AllOps
  <2>2. n.op = op /\ n.pc = "readSession" /\ n.login = l /\ n.device = d /\ n.at = d
    BY DEF Idle
  <2>3. Shape(n) /\ Holds(n, owner, config)
    BY <2>2 DEF Shape, Holds, ByLogin, DeviceOps
  <2>4. Become(r, n) /\ UNCHANGED <<config, store, owner, handed>>
    BY <1>2 DEF StartDeviceOp, Start
  <2> QED
    BY <2>1, <2>3, <2>4, ReadingStep
<1>3. ASSUME NEW op \in TokenOps, NEW t \in Tokens, StartTokenOp(r, op, t) PROVE IInv'
  <2> DEFINE n == [Idle EXCEPT !.op = op, !.pc = "readToken", !.token = t]
  <2>1. n \in Request
    BY IdleRequest DEF Request, PCs, AllOps
  <2>2. n.op = op /\ n.pc = "readToken" /\ n.token = t
    BY DEF Idle
  <2>3. Shape(n) /\ Holds(n, owner, config)
    BY <2>2 DEF Shape, Holds, ByLogin, TokenOps
  <2>4. Become(r, n) /\ UNCHANGED <<config, store, owner, handed>>
    BY <1>3 DEF StartTokenOp, Start
  <2> QED
    BY <2>1, <2>3, <2>4, ReadingStep
<1>4. ASSUME NEW op \in AccountOps, NEW l \in LoginIds, StartAccountOp(r, op, l) PROVE IInv'
  <2> DEFINE n == [Idle EXCEPT !.op = op, !.pc = "readAll", !.login = l]
  <2>1. n \in Request
    BY IdleRequest DEF Request, PCs, AllOps
  <2>2. n.op = op /\ n.pc = "readAll" /\ n.login = l
    BY DEF Idle
  <2>3. Shape(n) /\ Holds(n, owner, config)
    BY <2>2 DEF Shape, Holds, ByLogin, AccountOps
  <2>4. Become(r, n) /\ UNCHANGED <<config, store, owner, handed>>
    BY <1>4 DEF StartAccountOp, Start
  <2> QED
    BY <2>1, <2>3, <2>4, ReadingStep
<1> QED
  BY <1>1, <1>2, <1>3, <1>4 DEF StartAny

-----------------------------------------------------------------------------
(* The steps that read the store. *)
LEMMA ReadSessionStep == ASSUME IInv, NEW r \in Reqs, ReadSession(r) PROVE IInv'
<1> DEFINE q == req[r]
           s == session[q.login][q.at]
<1>1. q \in Request /\ Shape(q) /\ Holds(q, owner, config) /\ q.pc = "readSession"
  BY DEF IInv, TypeOK, ReadSession
<1>2. q.login \in LoginIds /\ q.at \in Devices /\ (q.op = "login" => q.at = q.device)
  BY <1>1 DEF Shape
<1>3. s \in Tokens \cup {Null} /\ (s # Null => owner[s] = <<q.login, q.at>>)
  BY <1>2 DEF IInv, TypeOK, Ownership, Index
<1>4. UNCHANGED <<config, store, owner, handed>>
  BY DEF ReadSession
<1>5. CASE q.op = "login" /\ Become(r, LoginBranch(q, s))
  <2> DEFINE n == LoginBranch(q, s)
  <2>0. q.token = Null
    BY <1>1, <1>5 DEF Shape
  <2>1. CASE n = [q EXCEPT !.pc = "readAll"]
    <3>1. n \in Request
      BY <1>1, <2>1 DEF Request, PCs
    <3>2. n.pc = "readAll" /\ n.op = q.op /\ n.login = q.login /\ n.token = q.token
          /\ n.device = q.device
      BY <1>1, <2>1 DEF Request
    <3>3. Shape(n) /\ Holds(n, owner, config)
      BY <1>1, <1>2, <1>5, <2>0, <3>2 DEF Shape, Holds, ByLogin
    <3> QED
      BY <1>4, <1>5, <3>1, <3>3, ReadingStep
  <2>2. CASE s # Null /\ n = [q EXCEPT !.pc = "readMark", !.token = s]
    <3>1. n \in Request
      BY <1>1, <1>3, <2>2 DEF Request, PCs
    <3>2. n.pc = "readMark" /\ n.op = q.op /\ n.login = q.login /\ n.token = s
          /\ n.device = q.device
      BY <1>1, <2>2 DEF Request
    <3>3. Shape(n) /\ Holds(n, owner, config)
      BY <1>1, <1>2, <1>3, <2>2, <3>2 DEF Shape, Holds, ByLogin
    <3> QED
      BY <1>4, <1>5, <3>1, <3>3, ReadingStep
  <2>3. CASE s # Null /\ Shares(config) /\ n = [q EXCEPT !.pc = "readMapped", !.token = s]
    <3>1. n \in Request
      BY <1>1, <1>3, <2>3 DEF Request, PCs
    <3>2. n.pc = "readMapped" /\ n.op = q.op /\ n.login = q.login /\ n.token = s
          /\ n.device = q.device
      BY <1>1, <2>3 DEF Request
    <3>3. owner[s] = <<q.login, q.device>>
      BY <1>2, <1>3, <1>5, <2>3
    <3>4. Shape(n)
      BY <1>1, <1>2, <1>3, <1>5, <2>3, <3>2 DEF Shape, ByLogin
    <3>5. Holds(n, owner, config)
      BY <2>3, <3>2, <3>3 DEF Holds
    <3> QED
      BY <1>4, <1>5, <3>1, <3>4, <3>5, ReadingStep
  <2>4. CASE n = [q EXCEPT !.pc = "writeToken"]
    <3>1. n \in Request
      BY <1>1, <2>4 DEF Request, PCs
    <3>2. n.pc = "writeToken" /\ n.op = q.op /\ n.login = q.login /\ n.token = q.token
          /\ n.device = q.device
      BY <1>1, <2>4 DEF Request
    <3>3. Shape(n) /\ Holds(n, owner, config)
      BY <1>1, <1>2, <1>5, <2>0, <3>2 DEF Shape, Holds, ByLogin
    <3> QED
      BY <1>4, <1>5, <3>1, <3>3, ReadingStep
  <2> QED
    BY <2>1, <2>2, <2>3, <2>4 DEF LoginBranch, Shares
<1>6. CASE q.op \in DeviceOps /\ s = Null /\ Become(r, Idle)
  BY <1>4, <1>6, IdleRequest, ReadingStep
<1>7. ASSUME q.op = "forceLogout", NEW n \in NextDevice(q), Become(r, n) PROVE IInv'
  <2>1. n \in Request /\ Shape(n) /\ n.pc \notin ByLogin
    BY <1>1, <1>2, <1>7, NextDeviceShape
  <2>2. Holds(n, owner, config)
    BY <2>1 DEF Holds, ByLogin
  <2> QED
    BY <1>4, <1>7, <2>1, <2>2, ReadingStep
<1>8. ASSUME q.op # "login", s # Null,
             Become(r, [q EXCEPT !.token = s,
                                 !.pc = IF q.op = "logoutByDevice" THEN "dropToken"
                                        ELSE "readMark"])
      PROVE  IInv'
  <2> DEFINE p == IF q.op = "logoutByDevice" THEN "dropToken" ELSE "readMark"
             n == [q EXCEPT !.token = s, !.pc = p]
  <2>1. p \in {"dropToken", "readMark"} /\ p \in PCs
    BY DEF PCs
  <2>2. s \in Tokens \cup {Null}
    BY <1>3
  <2>3. n \in Request /\ n.pc = p /\ n.op = q.op /\ n.login = q.login /\ n.token = s
    <3> HIDE DEF p, q, s
    <3> QED
      BY <1>1, <2>1, <2>2 DEF Request
  <2>4. Shape(n) /\ Holds(n, owner, config)
    BY <1>1, <1>2, <1>3, <1>8, <2>1, <2>3 DEF Shape, Holds, ByLogin
  <2> QED
    BY <1>4, <1>8, <2>3, <2>4, ReadingStep
<1> QED
  BY <1>5, <1>6, <1>7, <1>8 DEF ReadSession

LEMMA ReadMappedStep == ASSUME IInv, NEW r \in Reqs, ReadMapped(r) PROVE IInv'
<1> DEFINE q == req[r]
           t == IF tokenKey[q.token] = q.login THEN q.token ELSE Null
           n == [q EXCEPT !.pc = "writeToken", !.token = t]
<1>1. q \in Request /\ Shape(q) /\ Holds(q, owner, config) /\ q.pc = "readMapped"
  BY DEF IInv, TypeOK, ReadMapped
<1>2. n \in Request
  <2>1. q.token \in Tokens
    BY <1>1 DEF Shape
  <2>2. t \in Tokens \cup {Null}
    BY <2>1
  <2> HIDE DEF t, q
  <2> QED
    BY <1>1, <2>2 DEF Request, PCs
<1>3. n.pc = "writeToken" /\ n.op = q.op /\ n.login = q.login /\ n.device = q.device
      /\ n.token = t
  BY <1>1 DEF Request
<1>4. Shape(n)
  BY <1>1, <1>3 DEF Shape, ByLogin
<1>5. Holds(n, owner, config)
  BY <1>1, <1>3 DEF Holds, ByLogin
<1>6. Become(r, n) /\ UNCHANGED <<config, store, owner, handed>>
  BY DEF ReadMapped
<1> QED
  BY <1>2, <1>4, <1>5, <1>6, ReadingStep

LEMMA ReadAllStep == ASSUME IInv, NEW r \in Reqs, ReadAll(r) PROVE IInv'
<1> DEFINE q == req[r]
<1>1. q \in Request /\ Shape(q) /\ Holds(q, owner, config) /\ q.pc = "readAll"
  BY DEF IInv, TypeOK, ReadAll
<1>2. q.login \in LoginIds /\ (q.op = "login" => q.token = Null /\ q.device \in Devices)
  BY <1>1 DEF Shape
<1>3. UNCHANGED <<config, store, owner, handed>>
  BY DEF ReadAll
<1>4. CASE Become(r, Idle)
  BY <1>3, <1>4, IdleRequest, ReadingStep
<1>5. CASE q.op = "login" /\ Become(r, [q EXCEPT !.pc = "writeToken"])
  <2> DEFINE n == [q EXCEPT !.pc = "writeToken"]
  <2>1. n \in Request
    BY <1>1 DEF Request, PCs
  <2>2. n.pc = "writeToken" /\ n.op = q.op /\ n.login = q.login /\ n.device = q.device
        /\ n.token = q.token
    BY <1>1 DEF Request
  <2>3. Shape(n) /\ Holds(n, owner, config)
    BY <1>1, <1>2, <1>5, <2>2 DEF Shape, Holds, ByLogin
  <2> QED
    BY <1>3, <1>5, <2>1, <2>3, ReadingStep
<1>6. ASSUME q.op \in {"login", "logoutByLoginId", "forceLogout"},
             NEW n \in NextDevice([q EXCEPT !.todo = list[q.login]]), Become(r, n)
      PROVE  IInv'
  <2> DEFINE m == [q EXCEPT !.todo = list[q.login]]
  <2>1. m \in Request /\ m.op = q.op /\ m.login = q.login /\ m.device = q.device
    BY <1>1, <1>2 DEF IInv, TypeOK, Request
  <2>2. n \in Request /\ Shape(n) /\ n.pc \notin ByLogin
    BY <1>2, <1>6, <2>1, NextDeviceShape
  <2>3. Holds(n, owner, config)
    BY <2>2 DEF Holds, ByLogin
  <2> QED
    BY <1>3, <1>6, <2>2, <2>3, ReadingStep
<1> QED
  <2>1. q.op \in {"login", "logoutByLoginId", "forceLogout"}
    BY <1>1 DEF Shape
  <2>2. \/ Become(r, Idle)
        \/ q.op = "login" /\ Become(r, [q EXCEPT !.pc = "writeToken"])
        \/ \E n \in NextDevice([q EXCEPT !.todo = list[q.login]]) : Become(r, n)
    BY DEF ReadAll
  <2> HIDE DEF q
  <2> QED
    BY <1>4, <1>5, <1>6, <2>1, <2>2

LEMMA ReadTokenStep == ASSUME IInv, NEW r \in Reqs, ReadToken(r) PROVE IInv'
<1> DEFINE q == req[r]
           v == tokenKey[q.token]
<1>1. q \in Request /\ Shape(q) /\ Holds(q, owner, config) /\ q.pc = "readToken"
  BY DEF IInv, TypeOK, ReadToken
<1>2. q.token \in Tokens
  BY <1>1 DEF Shape
<1>3. UNCHANGED <<config, store, owner, handed>>
  BY DEF ReadToken
<1>4. CASE Become(r, Idle)
  BY <1>3, <1>4, IdleRequest, ReadingStep
<1>5. CASE Become(r, [q EXCEPT !.pc = "dropToken"])
  <2> DEFINE n == [q EXCEPT !.pc = "dropToken"]
  <2>1. n \in Request
    BY <1>1 DEF Request, PCs
  <2>2. n.pc = "dropToken" /\ n.op = q.op /\ n.login = q.login /\ n.device = q.device
    BY <1>1 DEF Request
  <2>3. Shape(n) /\ Holds(n, owner, config)
    BY <1>1, <2>2 DEF Shape, Holds, ByLogin
  <2> QED
    BY <1>3, <1>5, <2>1, <2>3, ReadingStep
<1>6. ASSUME v \in LoginIds,
             Become(r, [q EXCEPT !.login = v,
                                 !.pc = IF q.op = "logout" THEN "dropToken"
                                        ELSE "readMark"])
      PROVE  IInv'
  <2> DEFINE p == IF q.op = "logout" THEN "dropToken" ELSE "readMark"
             n == [q EXCEPT !.login = v, !.pc = p]
  <2>1. p \in {"dropToken", "readMark"} /\ p \in PCs
    BY DEF PCs
  <2>2. n \in Request
    BY <1>1, <1>6, <2>1 DEF Request
  <2>3. n.pc = p /\ n.op = q.op /\ n.login = v /\ n.device = q.device /\ n.token = q.token
    BY <1>1 DEF Request
  <2>4. Shape(n) /\ Holds(n, owner, config)
    BY <1>1, <1>2, <1>6, <2>1, <2>3 DEF Shape, Holds, ByLogin
  <2> QED
    BY <1>3, <1>6, <2>2, <2>4, ReadingStep
<1> QED
  <2>1. \/ Become(r, Idle)
        \/ Become(r, [q EXCEPT !.pc = "dropToken"])
        \/ /\ v \in LoginIds
           /\ Become(r, [q EXCEPT !.login = v,
                                  !.pc = IF q.op = "logout" THEN "dropToken"
                                         ELSE "readMark"])
    BY DEF ReadToken
  <2> HIDE DEF q, v
  <2> QED
    BY <1>4, <1>5, <1>6, <2>1

LEMMA ReadMarkStep == ASSUME IInv, NEW r \in Reqs, ReadMark(r) PROVE IInv'
<1> DEFINE q == req[r]
           v == tokenKey[q.token]
           n == [q EXCEPT !.pc = "casMark", !.seen = v]
<1>1. q \in Request /\ Shape(q) /\ Holds(q, owner, config) /\ q.pc = "readMark"
  BY DEF IInv, TypeOK, ReadMark
<1>2. v \in LoginIds \cup Markers \cup {Null}
  BY <1>1 DEF IInv, TypeOK, Shape
<1>3. UNCHANGED <<config, store, owner, handed>> /\ (Become(r, Failed) \/ Become(r, n))
  BY DEF ReadMark
<1>4. CASE Become(r, Failed)
  BY <1>3, <1>4, IdleRequest, ReadingStep
<1>5. CASE Become(r, n)
  <2>1. n \in Request
    BY <1>1, <1>2 DEF Request, PCs
  <2>2. n.pc = "casMark" /\ n.op = q.op /\ n.login = q.login /\ n.device = q.device
        /\ n.token = q.token
    BY <1>1 DEF Request
  <2>3. Shape(n) /\ Holds(n, owner, config)
    BY <1>1, <2>2 DEF Shape, Holds, ByLogin
  <2> QED
    BY <1>3, <1>5, <2>1, <2>3, ReadingStep
<1> QED
  BY <1>3, <1>4, <1>5

LEMMA FindDeviceStep == ASSUME IInv, NEW r \in Reqs, FindDevice(r) PROVE IInv'
<1> DEFINE q == req[r]
<1>1. q \in Request /\ Shape(q) /\ Holds(q, owner, config) /\ q.pc = "findDevice"
  BY DEF IInv, TypeOK, FindDevice
<1>2. UNCHANGED <<config, store, owner, handed>>
  BY DEF FindDevice
<1>3. ASSUME NEW d \in Devices, Become(r, [q EXCEPT !.pc = "dropSession", !.at = d])
      PROVE  IInv'
  <2> DEFINE n == [q EXCEPT !.pc = "dropSession", !.at = d]
  <2>1. n \in Request
    BY <1>1 DEF Request, PCs
  <2>2. n.pc = "dropSession" /\ n.op = q.op /\ n.login = q.login /\ n.device = q.device
    BY <1>1 DEF Request
  <2>3. Shape(n) /\ Holds(n, owner, config)
    BY <1>1, <2>2 DEF Shape, Holds, ByLogin
  <2> QED
    BY <1>2, <1>3, <2>1, <2>3, ReadingStep
<1>4. CASE Become(r, [q EXCEPT !.pc = "countList"])
  <2> DEFINE n == [q EXCEPT !.pc = "countList"]
  <2>1. n \in Request
    BY <1>1 DEF Request, PCs
  <2>2. n.pc = "countList" /\ n.op = q.op /\ n.login = q.login /\ n.device = q.device
    BY <1>1 DEF Request
  <2>3. Shape(n) /\ Holds(n, owner, config)
    BY <1>1, <2>2 DEF Shape, Holds, ByLogin
  <2> QED
    BY <1>2, <1>4, <2>1, <2>3, ReadingStep
<1>5. CASE Become(r, Idle)
  BY <1>2, <1>5, IdleRequest, ReadingStep
<1> QED
  BY <1>3, <1>4, <1>5 DEF FindDevice

(* What follows a removal from the list. *)
LEMMA AfterRemoveShape ==
  ASSUME NEW q \in Request, Shape(q), q.login \in LoginIds, NEW n \in AfterRemove(q)
  PROVE  n \in Request /\ Shape(n) /\ n.pc \notin ByLogin
<1>1. CASE q.op = "forceLogout"
  <2> DEFINE m == [q EXCEPT !.old = Empty]
  <2>1. m \in Request /\ m.op = q.op /\ m.login = q.login /\ m.device = q.device
    BY DEF Request, Empty, Index
  <2>2. n \in NextDevice(m)
    BY <1>1 DEF AfterRemove
  <2> QED
    BY <1>1, <2>1, <2>2, NextDeviceShape
<1>2. CASE q.op # "forceLogout" /\ n = [q EXCEPT !.pc = "countList", !.old = Empty]
  <2>1. n \in Request
    BY <1>2 DEF Request, PCs, Empty, Index
  <2>2. n.pc = "countList" /\ n.op = q.op /\ n.login = q.login /\ n.device = q.device
    BY <1>2 DEF Request
  <2> QED
    BY <2>1, <2>2 DEF Shape, ByLogin
<1>3. CASE q.op # "forceLogout" /\ n = Idle
  <2>1. Idle.pc = "idle"
    BY DEF Idle
  <2> QED
    BY <1>3, <2>1, IdleRequest DEF ByLogin
<1> QED
  BY <1>1, <1>2, <1>3 DEF AfterRemove

LEMMA ReadRemoveStep == ASSUME IInv, NEW r \in Reqs, ReadRemove(r) PROVE IInv'
<1> DEFINE q == req[r]
<1>1. q \in Request /\ Shape(q) /\ Holds(q, owner, config) /\ q.pc = "readRemove"
  BY DEF IInv, TypeOK, ReadRemove
<1>2. UNCHANGED <<config, store, owner, handed>>
  BY DEF ReadRemove
<1>3. q.login \in LoginIds
  BY <1>1 DEF Shape
<1>4. ASSUME NEW n \in AfterRemove(q), Become(r, n) PROVE IInv'
  <2>1. n \in Request /\ Shape(n) /\ n.pc \notin ByLogin
    BY <1>1, <1>3, <1>4, AfterRemoveShape
  <2>2. Holds(n, owner, config)
    BY <2>1 DEF Holds, ByLogin
  <2> QED
    BY <1>2, <1>4, <2>1, <2>2, ReadingStep
<1>5. CASE Become(r, [q EXCEPT !.pc = "casRemove", !.old = list[q.login]])
  <2> DEFINE n == [q EXCEPT !.pc = "casRemove", !.old = list[q.login]]
  <2>1. n \in Request
    BY <1>1, <1>3 DEF IInv, TypeOK, Request, PCs
  <2>2. n.pc = "casRemove" /\ n.op = q.op /\ n.login = q.login /\ n.device = q.device
    BY <1>1 DEF Request
  <2>3. Shape(n) /\ Holds(n, owner, config)
    BY <1>1, <2>2 DEF Shape, Holds, ByLogin
  <2> QED
    BY <1>2, <1>5, <2>1, <2>3, ReadingStep
<1> QED
  BY <1>4, <1>5 DEF ReadRemove

LEMMA CountListStep == ASSUME IInv, NEW r \in Reqs, CountList(r) PROVE IInv'
<1> DEFINE q == req[r]
           n == [q EXCEPT !.pc = "dropData"]
<1>1. q \in Request /\ Shape(q) /\ Holds(q, owner, config) /\ q.pc = "countList"
  BY DEF IInv, TypeOK, CountList
<1>2. UNCHANGED <<config, store, owner, handed>> /\ (Become(r, n) \/ Become(r, Idle))
  BY DEF CountList
<1>3. CASE Become(r, n)
  <2>1. n \in Request
    BY <1>1 DEF Request, PCs
  <2>2. n.pc = "dropData" /\ n.op = q.op /\ n.login = q.login /\ n.device = q.device
    BY <1>1 DEF Request
  <2>3. Shape(n) /\ Holds(n, owner, config)
    BY <1>1, <2>2 DEF Shape, Holds, ByLogin
  <2> QED
    BY <1>2, <1>3, <2>1, <2>3, ReadingStep
<1>4. CASE Become(r, Idle)
  BY <1>2, <1>4, IdleRequest, ReadingStep
<1> QED
  BY <1>2, <1>3, <1>4

LEMMA ReadAddStep == ASSUME IInv, NEW r \in Reqs, ReadAdd(r) PROVE IInv'
<1> DEFINE q == req[r]
           n == [q EXCEPT !.pc = "casAdd", !.old = list[q.login]]
<1>1. q \in Request /\ Shape(q) /\ Holds(q, owner, config) /\ q.pc = "readAdd"
  BY DEF IInv, TypeOK, ReadAdd
<1>2. UNCHANGED <<config, store, owner, handed>> /\ Become(r, n)
  BY DEF ReadAdd
<1>3. q.login \in LoginIds
  BY <1>1 DEF Shape
<1>4. n \in Request
  BY <1>1, <1>3 DEF IInv, TypeOK, Request, PCs
<1>5. n.pc = "casAdd" /\ n.op = q.op /\ n.login = q.login /\ n.device = q.device
      /\ n.token = q.token
  BY <1>1 DEF Request
<1>6. Shape(n) /\ Holds(n, owner, config)
  BY <1>1, <1>5 DEF Shape, Holds, ByLogin
<1> QED
  BY <1>2, <1>4, <1>6, ReadingStep

-----------------------------------------------------------------------------
(* The steps that write the store.  A request that goes on to n without     *)
(* anything created, with the written keys still typed and owned.           *)
LEMMA WritingStep ==
  ASSUME IInv, NEW r \in Reqs, NEW n \in Request, Become(r, n),
         Shape(n), Holds(n, owner, config),
         UNCHANGED <<config, owner>>,
         tokenKey' \in [Tokens -> LoginIds \cup Markers \cup {Null}],
         session' \in [LoginIds -> Index],
         list' \in [LoginIds -> Index],
         data' \in [LoginIds -> BOOLEAN],
         handed' \subseteq Tokens,
         Ownership'
  PROVE  IInv'
<1>1. /\ req' \in [Reqs -> Request]
      /\ \A x \in Reqs : Shape(req'[x]) /\ Holds(req'[x], owner', config')
  BY OthersKeep
<1>2. TypeOK'
  BY <1>1 DEF IInv, TypeOK
<1> QED
  BY <1>1, <1>2 DEF IInv

LEMMA CasMarkStep == ASSUME IInv, NEW r \in Reqs, CasMark(r) PROVE IInv'
<1> DEFINE q == req[r]
           p == IF q.op = "kickoutByToken" THEN "findDevice" ELSE "dropSession"
           n == [q EXCEPT !.seen = Null, !.pc = p]
<1>1. q \in Request /\ Shape(q) /\ Holds(q, owner, config) /\ q.pc = "casMark"
  BY DEF IInv, TypeOK, CasMark
<1>2. p \in {"findDevice", "dropSession"} /\ p \in PCs
  BY DEF PCs
<1>3. n \in Request
  BY <1>1, <1>2 DEF Request
<1>4. n.pc = p /\ n.op = q.op /\ n.login = q.login /\ n.device = q.device
  BY <1>1 DEF Request
<1>5. Shape(n) /\ Holds(n, owner, config)
  BY <1>1, <1>2, <1>4 DEF Shape, Holds, ByLogin
<1>6. Become(r, n) /\ UNCHANGED <<config, session, list, data, owner, handed>>
  BY DEF CasMark
<1>7. Marker(q) \in Markers
  BY DEF Marker, Markers
<1>8. tokenKey' = tokenKey \/ tokenKey' = [tokenKey EXCEPT ![q.token] = Marker(q)]
  BY DEF CasMark
<1>9. tokenKey' \in [Tokens -> LoginIds \cup Markers \cup {Null}]
  BY <1>7, <1>8 DEF IInv, TypeOK
<1>10. \A t \in Tokens : tokenKey'[t] \in LoginIds => tokenKey'[t] = tokenKey[t]
  BY <1>7, <1>8, ValuesAssumption DEF IInv, TypeOK
<1>11. Ownership'
  BY <1>6, <1>10 DEF IInv, Ownership, Live
<1> QED
  BY <1>3, <1>5, <1>6, <1>9, <1>11, WritingStep DEF IInv, TypeOK

LEMMA DropTokenStep == ASSUME IInv, NEW r \in Reqs, DropToken(r) PROVE IInv'
<1> DEFINE q == req[r]
           p == IF q.op = "logout" THEN "findDevice" ELSE "dropSession"
           n == [q EXCEPT !.pc = p]
<1>1. q \in Request /\ Shape(q) /\ Holds(q, owner, config) /\ q.pc = "dropToken"
  BY DEF IInv, TypeOK, DropToken
<1>2. p \in {"findDevice", "dropSession"} /\ p \in PCs
  BY DEF PCs
<1>3. n \in Request
  BY <1>1, <1>2 DEF Request
<1>4. n.pc = p /\ n.op = q.op /\ n.login = q.login /\ n.device = q.device
  BY <1>1 DEF Request
<1>5. ASSUME q.login # Null PROVE Shape(n) /\ Holds(n, owner, config)
  <2>1. q.login \in LoginIds
    BY <1>1, <1>5 DEF Request
  <2> QED
    BY <1>1, <1>2, <1>4, <2>1 DEF Shape, Holds, ByLogin
<1>6. /\ (Become(r, Idle) \/ (q.login # Null /\ Become(r, n)))
      /\ UNCHANGED <<config, session, list, data, owner, handed>>
      /\ tokenKey' = [tokenKey EXCEPT ![q.token] = Null]
  BY DEF DropToken
<1>7. tokenKey' \in [Tokens -> LoginIds \cup Markers \cup {Null}]
  BY <1>6 DEF IInv, TypeOK
<1>8. \A t \in Tokens : tokenKey'[t] \in LoginIds => tokenKey'[t] = tokenKey[t]
  BY <1>6, ValuesAssumption DEF IInv, TypeOK
<1>9. Ownership'
  BY <1>6, <1>8 DEF IInv, Ownership, Live
<1>10. PICK m \in {Idle, n} : Become(r, m) /\ (m = n => q.login # Null \/ n = Idle)
  BY <1>6
<1>11. m \in Request /\ Shape(m) /\ Holds(m, owner, config)
  BY <1>3, <1>5, <1>10, IdleRequest
<1> QED
  BY <1>6, <1>7, <1>9, <1>10, <1>11, WritingStep DEF IInv, TypeOK

LEMMA DropSessionStep == ASSUME IInv, NEW r \in Reqs, DropSession(r) PROVE IInv'
<1> DEFINE q == req[r]
<1>1. q \in Request /\ Shape(q) /\ Holds(q, owner, config) /\ q.pc = "dropSession"
  BY DEF IInv, TypeOK, DropSession
<1>2. /\ UNCHANGED <<config, tokenKey, list, data, owner, handed>>
      /\ session' = [session EXCEPT ![q.login][q.at] = Null]
  BY DEF DropSession
<1>3. q.login \in LoginIds /\ (q.op = "login" => q.device \in Devices)
  BY <1>1 DEF Shape
<1>4. session' \in [LoginIds -> Index]
  BY <1>2, <1>3 DEF IInv, TypeOK, Index
<1>5. \A l \in LoginIds, d \in Devices :
        session'[l][d] # Null => session'[l][d] = session[l][d]
  BY <1>2, <1>3 DEF IInv, TypeOK, Index
<1>6. Ownership'
  BY <1>2, <1>5 DEF IInv, Ownership, Live
<1>7. ASSUME NEW n \in Request, Become(r, n), Shape(n), Holds(n, owner, config)
      PROVE  IInv'
  BY <1>2, <1>4, <1>6, <1>7, WritingStep DEF IInv, TypeOK
<1>8. CASE q.op = "login" /\ Become(r, [q EXCEPT !.pc = "writeToken", !.token = Null])
  <2> DEFINE n == [q EXCEPT !.pc = "writeToken", !.token = Null]
  <2>1. n \in Request
    BY <1>1 DEF Request, PCs
  <2>2. n.pc = "writeToken" /\ n.op = q.op /\ n.login = q.login /\ n.device = q.device
        /\ n.token = Null
    BY <1>1 DEF Request
  <2>3. Shape(n) /\ Holds(n, owner, config)
    BY <1>1, <1>3, <1>8, <2>2 DEF Shape, Holds, ByLogin
  <2> QED
    BY <1>7, <1>8, <2>1, <2>3
<1>9. ASSUME q.op \in {"login", "logoutByLoginId"}, NEW n \in NextDevice(q), Become(r, n)
      PROVE  IInv'
  <2>1. n \in Request /\ Shape(n) /\ n.pc \notin ByLogin
    BY <1>1, <1>3, <1>9, NextDeviceShape
  <2>2. Holds(n, owner, config)
    BY <2>1 DEF Holds, ByLogin
  <2> QED
    BY <1>7, <1>9, <2>1, <2>2
<1>10. CASE Become(r, [q EXCEPT !.pc = "readRemove"])
  <2> DEFINE n == [q EXCEPT !.pc = "readRemove"]
  <2>1. n \in Request
    BY <1>1 DEF Request, PCs
  <2>2. n.pc = "readRemove" /\ n.op = q.op /\ n.login = q.login /\ n.device = q.device
    BY <1>1 DEF Request
  <2>3. Shape(n) /\ Holds(n, owner, config)
    BY <1>1, <1>3, <2>2 DEF Shape, Holds, ByLogin
  <2> QED
    BY <1>7, <1>10, <2>1, <2>3
<1> QED
  <2>1. \/ q.op = "login" /\ Become(r, [q EXCEPT !.pc = "writeToken", !.token = Null])
        \/ q.op \in {"login", "logoutByLoginId"} /\ \E n \in NextDevice(q) : Become(r, n)
        \/ Become(r, [q EXCEPT !.pc = "readRemove"])
    BY DEF DropSession
  <2> HIDE DEF q
  <2> QED
    BY <1>8, <1>9, <1>10, <2>1

(* Ownership speaks of each key by itself. *)
LEMMA OwnershipOfListWrite ==
  ASSUME IInv, UNCHANGED <<tokenKey, session, owner>>,
         \A l \in LoginIds, d \in Devices :
           list'[l][d] # Null => owner[list'[l][d]] = <<l, d>>
  PROVE  Ownership'
<1>1. \A t \in Tokens : Live(t)' => owner'[t] # Null /\ tokenKey'[t] = owner'[t][1]
  BY DEF IInv, Ownership, Live
<1>2. \A l \in LoginIds, d \in Devices :
        session'[l][d] # Null => owner'[session'[l][d]] = <<l, d>>
  BY DEF IInv, Ownership
<1> QED
  BY <1>1, <1>2 DEF Ownership

LEMMA DropListStep == ASSUME IInv, NEW r \in Reqs, DropList(r) PROVE IInv'
<1> DEFINE q == req[r]
           p == IF q.op = "login" THEN "writeToken" ELSE "dropData"
           n == [q EXCEPT !.pc = p]
<1>1. q \in Request /\ Shape(q) /\ Holds(q, owner, config) /\ q.pc = "dropList"
  BY DEF IInv, TypeOK, DropList
<1>2. p \in PCs /\ (q.op = "login" => p = "writeToken") /\ (q.op # "login" => p = "dropData")
  BY DEF PCs
<1>3. n \in Request
  BY <1>1, <1>2 DEF Request
<1>4. n.pc = p /\ n.op = q.op /\ n.login = q.login /\ n.device = q.device
      /\ n.token = q.token
  BY <1>1 DEF Request
<1>5. Shape(n) /\ Holds(n, owner, config)
  BY <1>1, <1>2, <1>4 DEF Shape, Holds, ByLogin
<1>6. /\ Become(r, n) /\ UNCHANGED <<config, tokenKey, session, data, owner, handed>>
      /\ list' = [list EXCEPT ![q.login] = Empty]
  BY DEF DropList
<1>7. list' \in [LoginIds -> Index]
  BY <1>6 DEF IInv, TypeOK, Index, Empty
<1>8. \A l \in LoginIds, d \in Devices : list'[l][d] # Null => list'[l][d] = list[l][d]
  BY <1>6 DEF IInv, TypeOK, Index, Empty
<1>9. Ownership'
  <2>1. \A l \in LoginIds, d \in Devices : list[l][d] # Null => owner[list[l][d]] = <<l, d>>
    BY DEF IInv, Ownership
  <2> QED
    BY <1>6, <1>8, <2>1, OwnershipOfListWrite
<1> QED
  BY <1>3, <1>5, <1>6, <1>7, <1>9, WritingStep DEF IInv, TypeOK

LEMMA CasRemoveStep == ASSUME IInv, NEW r \in Reqs, CasRemove(r) PROVE IInv'
<1> DEFINE q == req[r]
<1>1. q \in Request /\ Shape(q) /\ Holds(q, owner, config) /\ q.pc = "casRemove"
  BY DEF IInv, TypeOK, CasRemove
<1>2. UNCHANGED <<config, tokenKey, session, data, owner, handed>>
  BY DEF CasRemove
<1>3. q.login \in LoginIds
  BY <1>1 DEF Shape
<1>4. ASSUME list[q.login] = q.old,
             list' = [list EXCEPT ![q.login] = [q.old EXCEPT ![q.at] = Null]],
             NEW n \in AfterRemove(q), Become(r, n)
      PROVE  IInv'
  <2>1. n \in Request /\ Shape(n) /\ n.pc \notin ByLogin
    BY <1>1, <1>3, <1>4, AfterRemoveShape
  <2>2. Holds(n, owner, config)
    BY <2>1 DEF Holds, ByLogin
  <2>3. list' \in [LoginIds -> Index]
    BY <1>3, <1>4 DEF IInv, TypeOK, Index
  <2>4. \A l \in LoginIds, d \in Devices : list'[l][d] # Null => list'[l][d] = list[l][d]
    BY <1>3, <1>4 DEF IInv, TypeOK, Index
  <2>5. Ownership'
    <3>1. \A l \in LoginIds, d \in Devices : list[l][d] # Null => owner[list[l][d]] = <<l, d>>
      BY DEF IInv, Ownership
    <3> QED
      BY <1>2, <2>4, <3>1, OwnershipOfListWrite
  <2> QED
    BY <1>2, <1>4, <2>1, <2>2, <2>3, <2>5, WritingStep DEF IInv, TypeOK
<1>5. ASSUME Become(r, [q EXCEPT !.pc = "readRemove", !.old = Empty]), UNCHANGED list
      PROVE  IInv'
  <2> DEFINE n == [q EXCEPT !.pc = "readRemove", !.old = Empty]
  <2>1. n \in Request
    BY <1>1 DEF Request, PCs, Empty, Index
  <2>2. n.pc = "readRemove" /\ n.op = q.op /\ n.login = q.login /\ n.device = q.device
    BY <1>1 DEF Request
  <2>3. Shape(n) /\ Holds(n, owner, config)
    BY <1>1, <1>3, <2>2 DEF Shape, Holds, ByLogin
  <2> QED
    BY <1>2, <1>5, <2>1, <2>3, ReadingStep DEF store
<1> QED
  BY <1>4, <1>5 DEF CasRemove

LEMMA DropDataStep == ASSUME IInv, NEW r \in Reqs, DropData(r) PROVE IInv'
<1>1. /\ Become(r, Idle) /\ UNCHANGED <<config, tokenKey, session, list, owner, handed>>
      /\ data' = [data EXCEPT ![req[r].login] = FALSE]
  BY DEF DropData
<1>2. data' \in [LoginIds -> BOOLEAN]
  BY <1>1 DEF IInv, TypeOK
<1>3. Ownership'
  BY <1>1 DEF IInv, Ownership, Live
<1> QED
  BY <1>1, <1>2, <1>3, IdleRequest, WritingStep DEF IInv, TypeOK

LEMMA WriteSessionStep == ASSUME IInv, NEW r \in Reqs, WriteSession(r) PROVE IInv'
<1> DEFINE q == req[r]
           n == [q EXCEPT !.pc = "readAdd"]
<1>1. q \in Request /\ Shape(q) /\ Holds(q, owner, config) /\ q.pc = "writeSession"
  BY DEF IInv, TypeOK, WriteSession
<1>2. q.login \in LoginIds /\ q.device \in Devices /\ q.token \in Tokens
  BY <1>1 DEF Shape, ByLogin
<1>3. owner[q.token] = <<q.login, q.device>>
  BY <1>1, <1>2, ValuesAssumption DEF Holds, ByLogin
<1>4. /\ Become(r, n) /\ UNCHANGED <<config, tokenKey, list, data, owner, handed>>
      /\ session' = [session EXCEPT ![q.login] = [session[q.login] EXCEPT ![q.device] = q.token]]
  BY DEF WriteSession
<1>5. session' \in [LoginIds -> Index]
  BY <1>2, <1>4 DEF IInv, TypeOK, Index
<1>6. \A l \in LoginIds, d \in Devices :
        session'[l][d] = IF l = q.login /\ d = q.device THEN q.token ELSE session[l][d]
  BY <1>2, <1>4 DEF IInv, TypeOK, Index
<1>7. Ownership'
  <2>1. \A t \in Tokens : Live(t)' => owner'[t] # Null /\ tokenKey'[t] = owner'[t][1]
    BY <1>4 DEF IInv, Ownership, Live
  <2>2. ASSUME NEW l \in LoginIds, NEW d \in Devices, session'[l][d] # Null
        PROVE  owner'[session'[l][d]] = <<l, d>>
    <3>1. CASE l = q.login /\ d = q.device
      BY <1>3, <1>4, <1>6, <3>1
    <3>2. CASE ~(l = q.login /\ d = q.device)
      BY <1>4, <1>6, <2>2, <3>2 DEF IInv, Ownership
    <3> QED
      BY <3>1, <3>2
  <2>3. ASSUME NEW l \in LoginIds, NEW d \in Devices, list'[l][d] # Null
        PROVE  owner'[list'[l][d]] = <<l, d>>
    BY <1>4, <2>3 DEF IInv, Ownership
  <2> QED
    BY <2>1, <2>2, <2>3 DEF Ownership
<1>8. n \in Request
  <2> HIDE DEF q
  <2> QED
    BY <1>1 DEF Request, PCs
<1>9. n.pc = "readAdd" /\ n.op = q.op /\ n.login = q.login /\ n.device = q.device
      /\ n.token = q.token
  BY <1>1 DEF Request
<1>10. Shape(n) /\ Holds(n, owner, config)
  BY <1>1, <1>9 DEF Shape, Holds, ByLogin
<1> QED
  BY <1>4, <1>5, <1>7, <1>8, <1>10, WritingStep DEF IInv, TypeOK

LEMMA CasAddStep == ASSUME IInv, NEW r \in Reqs, CasAdd(r) PROVE IInv'
<1> DEFINE q == req[r]
<1>1. q \in Request /\ Shape(q) /\ Holds(q, owner, config) /\ q.pc = "casAdd"
  BY DEF IInv, TypeOK, CasAdd
<1>2. q.login \in LoginIds /\ q.device \in Devices /\ q.token \in Tokens
  BY <1>1 DEF Shape, ByLogin
<1>3. owner[q.token] = <<q.login, q.device>>
  BY <1>1, <1>2, ValuesAssumption DEF Holds, ByLogin
<1>4. UNCHANGED <<config, tokenKey, session, data, owner>>
  BY DEF CasAdd
<1>5. ASSUME list[q.login] = q.old,
             list' = [list EXCEPT ![q.login] = [q.old EXCEPT ![q.device] = q.token]],
             handed' = handed \cup {q.token}, Become(r, Idle)
      PROVE  IInv'
  <2>1. list' \in [LoginIds -> Index] /\ handed' \subseteq Tokens
    BY <1>2, <1>5 DEF IInv, TypeOK, Index
  <2>2. \A l \in LoginIds, d \in Devices :
          list'[l][d] = IF l = q.login /\ d = q.device THEN q.token ELSE list[l][d]
    BY <1>2, <1>5 DEF IInv, TypeOK, Index
  <2>3. Ownership'
    <3>1. \A l \in LoginIds, d \in Devices : list[l][d] # Null => owner[list[l][d]] = <<l, d>>
      BY DEF IInv, Ownership
    <3> QED
      BY <1>3, <1>4, <2>2, <3>1, OwnershipOfListWrite
  <2> QED
    BY <1>4, <1>5, <2>1, <2>3, IdleRequest, WritingStep DEF IInv, TypeOK
<1>6. ASSUME Become(r, [q EXCEPT !.pc = "readAdd", !.old = Empty]), UNCHANGED <<list, handed>>
      PROVE  IInv'
  <2> DEFINE n == [q EXCEPT !.pc = "readAdd", !.old = Empty]
  <2>1. n \in Request
    BY <1>1 DEF Request, PCs, Empty, Index
  <2>2. n.pc = "readAdd" /\ n.op = q.op /\ n.login = q.login /\ n.device = q.device
        /\ n.token = q.token
    BY <1>1 DEF Request
  <2>3. Shape(n) /\ Holds(n, owner, config)
    BY <1>1, <2>2 DEF Shape, Holds, ByLogin
  <2> QED
    BY <1>4, <1>6, <2>1, <2>3, ReadingStep DEF store
<1> QED
  BY <1>5, <1>6 DEF CasAdd

(* The one step that creates a token. *)
LEMMA WriteTokenStep == ASSUME IInv, NEW r \in Reqs, WriteToken(r) PROVE IInv'
<1> DEFINE q == req[r]
<1>1. q \in Request /\ Shape(q) /\ Holds(q, owner, config) /\ q.pc = "writeToken"
  BY DEF IInv, TypeOK, WriteToken
<1>2. q.login \in LoginIds /\ q.device \in Devices /\ q.op = "login"
  BY <1>1 DEF Shape, ByLogin
<1>3. PICK t \in IF q.token = Null THEN Fresh ELSE {q.token} :
        /\ tokenKey' = [tokenKey EXCEPT ![t] = q.login]
        /\ owner' = IF q.token = Null THEN [owner EXCEPT ![t] = <<q.login, q.device>>]
                    ELSE owner
        /\ Become(r, [q EXCEPT !.pc = "writeSession", !.token = t])
  BY DEF WriteToken
<1> DEFINE n == [q EXCEPT !.pc = "writeSession", !.token = t]
<1>4. UNCHANGED <<config, session, list, data, handed>>
  BY DEF WriteToken
<1>5. /\ t \in Tokens /\ owner'[t] = <<q.login, q.device>>
      /\ owner' \in [Tokens -> (LoginIds \X Devices) \cup {Null}]
      /\ \A u \in Tokens : owner[u] # Null => owner'[u] = owner[u]
  <2>1. owner \in [Tokens -> (LoginIds \X Devices) \cup {Null}]
    BY DEF IInv, TypeOK
  <2>2. CASE q.token = Null
    BY <1>2, <1>3, <2>1, <2>2 DEF Fresh
  <2>3. CASE q.token # Null
    <3>1. t = q.token /\ t \in Tokens /\ owner' = owner
      BY <1>1, <1>3, <2>3 DEF Request
    <3> QED
      BY <1>1, <2>1, <2>3, <3>1 DEF Holds, ByLogin
  <2> QED
    BY <2>2, <2>3
<1>6. n \in Request
  BY <1>1, <1>5 DEF Request, PCs
<1>7. n.pc = "writeSession" /\ n.op = q.op /\ n.login = q.login /\ n.device = q.device
      /\ n.token = t
  BY <1>1 DEF Request
<1>8. Shape(n)
  BY <1>1, <1>2, <1>5, <1>7 DEF Shape, ByLogin
<1>9. Holds(n, owner', config)
  BY <1>5, <1>7 DEF Holds
<1>10. /\ req' \in [Reqs -> Request]
       /\ \A x \in Reqs : Shape(req'[x]) /\ Holds(req'[x], owner', config')
  BY <1>3, <1>4, <1>5, <1>6, <1>8, <1>9, OthersKeep
<1>11. TypeOK'
  BY <1>2, <1>3, <1>4, <1>5, <1>10 DEF IInv, TypeOK
<1>12. Ownership'
  <2>1. ASSUME NEW u \in Tokens, tokenKey'[u] \in LoginIds
        PROVE  owner'[u] # Null /\ tokenKey'[u] = owner'[u][1]
    <3>1. CASE u = t
      BY <1>2, <1>3, <1>5, <3>1, ValuesAssumption DEF IInv, TypeOK
    <3>2. CASE u # t
      <4>1. tokenKey'[u] = tokenKey[u]
        BY <1>3, <3>2 DEF IInv, TypeOK
      <4>2. owner[u] # Null /\ tokenKey[u] = owner[u][1]
        BY <2>1, <4>1 DEF IInv, Ownership, Live
      <4> QED
        BY <1>5, <4>1, <4>2
    <3> QED
      BY <3>1, <3>2
  <2>2. ASSUME NEW l \in LoginIds, NEW d \in Devices
        PROVE  /\ session'[l][d] # Null => owner'[session'[l][d]] = <<l, d>>
               /\ list'[l][d] # Null => owner'[list'[l][d]] = <<l, d>>
    <3>1. session[l][d] \in Tokens \cup {Null} /\ list[l][d] \in Tokens \cup {Null}
      BY DEF IInv, TypeOK, Index
    <3>2. <<l, d>> # Null
      BY ValuesAssumption
    <3> QED
      BY <1>4, <1>5, <3>1, <3>2 DEF IInv, Ownership
  <2> QED
    BY <2>1, <2>2 DEF Ownership, Live
<1> QED
  BY <1>10, <1>11, <1>12 DEF IInv

-----------------------------------------------------------------------------
LEMMA InitIInv == Init => IInv
<1> SUFFICES ASSUME Init PROVE IInv
  OBVIOUS
<1>1. TypeOK
  BY IdleRequest DEF Init, TypeOK, Index, Empty
<1>2. Ownership
  BY ValuesAssumption DEF Init, Ownership, Live, Empty
<1>3. \A r \in Reqs : Shape(req[r]) /\ Holds(req[r], owner, config)
  BY IdleRequest DEF Init
<1> QED
  BY <1>1, <1>2, <1>3 DEF IInv

LEMMA NextIInv == IInv /\ [Next]_vars => IInv'
<1> SUFFICES ASSUME IInv, [Next]_vars PROVE IInv'
  OBVIOUS
<1>1. ASSUME NEW r \in Reqs, StartAny(r) PROVE IInv'
  BY <1>1, StartStep
<1>2. ASSUME NEW r \in Reqs, Step(r) PROVE IInv'
  BY <1>2, ReadSessionStep, ReadMappedStep, ReadAllStep, ReadTokenStep, ReadMarkStep,
     CasMarkStep, DropTokenStep, FindDeviceStep, DropSessionStep, DropListStep,
     ReadRemoveStep, CasRemoveStep, CountListStep, DropDataStep, WriteTokenStep,
     WriteSessionStep, ReadAddStep, CasAddStep DEF Step
<1>3. ASSUME NEW r \in Reqs, Abort(r) PROVE IInv'
  BY <1>3, IdleRequest, ReadingStep DEF Abort
<1>4. ASSUME NEW l \in LoginIds, SetData(l) PROVE IInv'
  <2>1. TypeOK'
    BY <1>4 DEF SetData, IInv, TypeOK
  <2>2. Ownership'
    BY <1>4 DEF SetData, IInv, Ownership, Live
  <2> QED
    BY <1>4, <2>1, <2>2 DEF SetData, IInv
<1>5. CASE UNCHANGED vars
  <2>1. TypeOK'
    BY <1>5 DEF vars, IInv, TypeOK
  <2>2. Ownership'
    BY <1>5 DEF vars, IInv, Ownership, Live
  <2> QED
    BY <1>5, <2>1, <2>2 DEF vars, IInv
<1> QED
  BY <1>1, <1>2, <1>3, <1>4, <1>5 DEF Next

-----------------------------------------------------------------------------
(* What a step can do to the entry of a token: nothing, clear or mark it,   *)
(* or write it for a login, which has created the token or shares it.       *)
LEMMA TokenKeySteps ==
  ASSUME IInv, [Next]_vars
  PROVE  \/ UNCHANGED <<tokenKey, owner>>
         \/ \E t \in Tokens, v \in Markers \cup {Null} :
              tokenKey' = [tokenKey EXCEPT ![t] = v] /\ owner' = owner
         \/ \E t \in Tokens, l \in LoginIds, d \in Devices :
              /\ tokenKey' = [tokenKey EXCEPT ![t] = l]
              /\ \/ owner[t] = Null /\ owner' = [owner EXCEPT ![t] = <<l, d>>]
                 \/ Shares(config) /\ owner' = owner
<1> DEFINE Goal ==
       \/ UNCHANGED <<tokenKey, owner>>
       \/ \E t \in Tokens, v \in Markers \cup {Null} :
            tokenKey' = [tokenKey EXCEPT ![t] = v] /\ owner' = owner
       \/ \E t \in Tokens, l \in LoginIds, d \in Devices :
            /\ tokenKey' = [tokenKey EXCEPT ![t] = l]
            /\ \/ owner[t] = Null /\ owner' = [owner EXCEPT ![t] = <<l, d>>]
               \/ Shares(config) /\ owner' = owner
<1>1. ASSUME NEW r \in Reqs, CasMark(r) PROVE Goal
  <2>1. req[r].token \in Tokens
    BY <1>1 DEF IInv, Shape, CasMark
  <2>2. Marker(req[r]) \in Markers
    BY DEF Marker, Markers
  <2> QED
    BY <1>1, <2>1, <2>2 DEF CasMark
<1>2. ASSUME NEW r \in Reqs, DropToken(r) PROVE Goal
  <2>1. tokenKey' = [tokenKey EXCEPT ![req[r].token] = Null] /\ owner' = owner
    BY <1>2 DEF DropToken
  <2>2. CASE req[r].token \in Tokens
    BY <2>1, <2>2
  <2>3. CASE req[r].token \notin Tokens
    BY <2>1, <2>3 DEF IInv, TypeOK
  <2> QED
    BY <2>2, <2>3
<1>3. ASSUME NEW r \in Reqs, WriteToken(r) PROVE Goal
  <2> DEFINE q == req[r]
  <2>1. q \in Request /\ Shape(q) /\ Holds(q, owner, config) /\ q.pc = "writeToken"
    BY <1>3 DEF IInv, TypeOK, WriteToken
  <2>2. q.login \in LoginIds /\ q.device \in Devices
    BY <2>1 DEF Shape, ByLogin
  <2>3. PICK t \in IF q.token = Null THEN Fresh ELSE {q.token} :
          /\ tokenKey' = [tokenKey EXCEPT ![t] = q.login]
          /\ owner' = IF q.token = Null THEN [owner EXCEPT ![t] = <<q.login, q.device>>]
                      ELSE owner
    BY <1>3 DEF WriteToken
  <2>4. CASE q.token = Null
    <3>1. t \in Tokens /\ owner[t] = Null
      BY <2>3, <2>4 DEF Fresh
    <3>2. owner' = [owner EXCEPT ![t] = <<q.login, q.device>>]
      BY <2>3, <2>4
    <3> QED
      BY <2>2, <2>3, <3>1, <3>2
  <2>5. CASE q.token # Null
    <3>1. t \in Tokens /\ owner' = owner /\ Shares(config)
      BY <2>1, <2>3, <2>5 DEF Request, Holds
    <3> QED
      BY <2>2, <2>3, <3>1
  <2> QED
    BY <2>4, <2>5
<1>4. ASSUME NEW r \in Reqs, StartAny(r) PROVE Goal
  BY <1>4 DEF StartAny, StartLogin, StartDeviceOp, StartTokenOp, StartAccountOp, Start, store
<1>5. ASSUME NEW r \in Reqs, Step(r) PROVE Goal
  <2>1. CASE ReadSession(r) \/ ReadMapped(r) \/ ReadAll(r) \/ ReadToken(r) \/ ReadMark(r)
             \/ FindDevice(r) \/ ReadRemove(r) \/ CountList(r) \/ ReadAdd(r)
    BY <2>1 DEF ReadSession, ReadMapped, ReadAll, ReadToken, ReadMark, FindDevice,
                ReadRemove, CountList, ReadAdd, store
  <2>2. CASE DropSession(r) \/ DropList(r) \/ CasRemove(r) \/ DropData(r)
             \/ WriteSession(r) \/ CasAdd(r)
    BY <2>2 DEF DropSession, DropList, CasRemove, DropData, WriteSession, CasAdd
  <2> QED
    BY <1>1, <1>2, <1>3, <1>5, <2>1, <2>2 DEF Step
<1>6. ASSUME NEW r \in Reqs, Abort(r) PROVE Goal
  BY <1>6 DEF Abort, store
<1>7. ASSUME NEW l \in LoginIds, SetData(l) PROVE Goal
  BY <1>7 DEF SetData
<1>8. CASE UNCHANGED vars
  BY <1>8 DEF vars
<1> QED
  BY <1>4, <1>5, <1>6, <1>7, <1>8 DEF Next

LEMMA ConfigFixed == [Next]_vars => config' = config
<1> SUFFICES ASSUME [Next]_vars PROVE config' = config
  OBVIOUS
<1>1. ASSUME NEW r \in Reqs, StartAny(r) PROVE config' = config
  BY <1>1 DEF StartAny, StartLogin, StartDeviceOp, StartTokenOp, StartAccountOp, Start
<1>2. ASSUME NEW r \in Reqs, Step(r) PROVE config' = config
  BY <1>2 DEF Step, ReadSession, ReadMapped, ReadAll, ReadToken, ReadMark, FindDevice,
     ReadRemove, CountList, ReadAdd, DropSession, DropList, CasRemove, DropData,
     WriteSession, CasAdd, CasMark, DropToken, WriteToken
<1>3. ASSUME NEW r \in Reqs, Abort(r) PROVE config' = config
  BY <1>3 DEF Abort
<1> QED
  BY <1>1, <1>2, <1>3 DEF Next, SetData, vars

-----------------------------------------------------------------------------
(* TypeOK and Ownership for every instance: whatever requests overlap and   *)
(* wherever they are cut short, no key leads to another account's token.    *)
THEOREM OwnershipHolds == Spec => [](TypeOK /\ Ownership)
<1>1. IInv => TypeOK /\ Ownership
  BY DEF IInv
<1> QED
  BY <1>1, InitIInv, NextIInv, PTL DEF Spec

(* Without sharing, a revoked token never comes back: every step of every   *)
(* instance, under any overlap of operations and any failure.               *)
THEOREM RevocationFinal == Spec => RevocationIsFinal
<1>1. IInv /\ [Next]_vars =>
        [\A t \in Tokens : ~Shares(config) /\ owner[t] # Null /\ ~Live(t) => ~Live(t)']_vars
  <2> SUFFICES ASSUME IInv, [Next]_vars, NEW t \in Tokens,
                      ~Shares(config), owner[t] # Null, ~Live(t)
               PROVE  ~Live(t)'
    OBVIOUS
  <2>1. tokenKey \in [Tokens -> LoginIds \cup Markers \cup {Null}]
    BY DEF IInv, TypeOK
  <2> QED
    BY <2>1, TokenKeySteps, ValuesAssumption DEF Live
<1> QED
  BY <1>1, InitIInv, NextIInv, PTL DEF Spec, RevocationIsFinal

(* What a change of a token's entry is to the registry: an issue, a revoke, *)
(* or nothing.                                                              *)
KeyChange ==
  \/ UNCHANGED <<tokenKey, owner>>
  \/ \E t \in Tokens, v \in Markers \cup {Null} :
       tokenKey' = [tokenKey EXCEPT ![t] = v] /\ owner' = owner
  \/ \E t \in Tokens, l \in LoginIds, d \in Devices :
       /\ tokenKey' = [tokenKey EXCEPT ![t] = l]
       /\ owner[t] = Null /\ owner' = [owner EXCEPT ![t] = <<l, d>>]

LEMMA RegistryStep == ASSUME IInv, KeyChange PROVE [Registry!Next]_holder
<1>1. /\ tokenKey \in [Tokens -> LoginIds \cup Markers \cup {Null}]
      /\ owner \in [Tokens -> (LoginIds \X Devices) \cup {Null}]
      /\ \A t \in Tokens : tokenKey[t] \in LoginIds => owner[t] # Null
  BY DEF IInv, TypeOK, Ownership, Live
<1>2. Null \notin LoginIds /\ Markers \cap LoginIds = {} /\ KICK_OUT \in Markers
      /\ Null \notin Markers
  BY ValuesAssumption DEF Markers
<1>3. CASE UNCHANGED <<tokenKey, owner>>
  BY <1>3 DEF holder, Live
<1>4. ASSUME NEW t \in Tokens, NEW v \in Markers \cup {Null},
             tokenKey' = [tokenKey EXCEPT ![t] = v], owner' = owner
      PROVE  [Registry!Next]_holder
  <2>1. CASE tokenKey[t] \in LoginIds
    <3>1. owner[t] # Null /\ holder[t] = tokenKey[t]
      BY <1>1, <2>1 DEF holder, Live
    <3>2. holder' = [holder EXCEPT ![t] = KICK_OUT]
      BY <1>1, <1>2, <1>4, <3>1 DEF holder, Live
    <3> QED
      BY <2>1, <3>1, <3>2 DEF Registry!Next, Registry!Revoke
  <2>2. CASE tokenKey[t] \notin LoginIds
    <3>1. holder' = holder
      BY <1>1, <1>2, <1>4, <2>2 DEF holder, Live
    <3> QED
      BY <3>1
  <2> QED
    BY <2>1, <2>2
<1>5. ASSUME NEW t \in Tokens, NEW l \in LoginIds, NEW d \in Devices,
             tokenKey' = [tokenKey EXCEPT ![t] = l], owner[t] = Null,
             owner' = [owner EXCEPT ![t] = <<l, d>>]
      PROVE  [Registry!Next]_holder
  <2>1. holder[t] = Null
    BY <1>5 DEF holder
  <2>2. <<l, d>> # Null
    BY ValuesAssumption
  <2>3. holder' = [holder EXCEPT ![t] = l]
    BY <1>1, <1>5, <2>2 DEF holder, Live
  <2> QED
    BY <2>1, <2>3 DEF Registry!Next, Registry!Issue
<1> QED
  BY <1>1, <1>3, <1>4, <1>5 DEF KeyChange

(* Without sharing, the store-level engine implements the token registry,   *)
(* under any overlap of operations and any failure.                         *)
THEOREM RegistryImplemented ==
  ASSUME \A c \in Configs : ~Shares(c)
  PROVE  Spec => ImplementsRegistry
<1>1. Init => Registry!Init
  BY ValuesAssumption DEF Init, Registry!Init, holder
<1>2. IInv /\ [Next]_vars => [Registry!Next]_holder
  <2> SUFFICES ASSUME IInv, [Next]_vars PROVE [Registry!Next]_holder
    OBVIOUS
  <2>1. ~Shares(config) BY DEF IInv, TypeOK
  <2>2. KeyChange BY <2>1, TokenKeySteps DEF KeyChange
  <2> QED BY <2>2, RegistryStep
<1> QED
  BY <1>1, <1>2, InitIInv, NextIInv, PTL DEF Spec, ImplementsRegistry, Registry!Spec

-----------------------------------------------------------------------------
(* The places operations work on.  From here on no two operations in flight *)
(* work on one device of one account (Overlap # "any"): what each of them   *)
(* knows of its own devices then stays true whatever the others do.         *)

(* The devices of accounts an operation works on.  The callers the runs     *)
(* assume never have two operations on one of them at once.                 *)
Places(r) == {Account(req[r])} \X Scope(req[r])

Disjoint ==
  \A r, x \in Reqs : r # x /\ Running(r) /\ Running(x) => Places(r) \cap Places(x) = {}

(* The operations that visit every device of the account. *)
Reaches(q) == q.op \in AccountOps \/ (q.op = "login" /\ ~config.deviceConcurrent)

Revoking == {"readMark", "casMark", "dropToken"}
Clearing == {"dropSession", "readRemove", "casRemove"}
Ending   == {"countList", "dropData"}
Writing  == {"writeToken", "writeSession", "readAdd", "casAdd"}

(* Which awaits each operation passes. *)
Path(q) ==
  /\ q.op # Null
  /\ q.op \in TokenOps =>
       q.pc \in {"readToken", "findDevice"} \cup Revoking \cup Clearing \cup Ending
  /\ q.op = "logout" => q.pc \notin {"readMark", "casMark"}
  /\ q.op = "kickoutByToken" => q.pc # "dropToken"
  /\ q.op \in DeviceOps => q.pc \in {"readSession"} \cup Revoking \cup Clearing \cup Ending
  /\ q.op = "login" =>
       q.pc \in {"readSession", "readMark", "casMark", "dropSession"} \cup Writing
                  \cup IF config.deviceConcurrent THEN {"readMapped"}
                       ELSE {"readAll", "dropList"}
  /\ q.op = "forceLogout" =>
       q.pc \in {"readAll", "readSession", "readMark", "casMark"} \cup Clearing
  /\ q.op = "logoutByLoginId" =>
       q.pc \in {"readAll", "dropToken", "dropSession", "dropList", "dropData"}

(* The token, the device and the values in hand are of the operation's own  *)
(* place, and as it last read them.                                         *)
Hand(q) ==
  /\ IF q.pc \in {"idle", "failed"} THEN q \in {Idle, Failed} ELSE Path(q)
  /\ q.op \in TokenOps =>
       /\ q.token \in Tokens /\ owner[q.token] # Null
       /\ q.login \in {Null, owner[q.token][1]}
       /\ q.pc \in Clearing => owner[q.token] = <<q.login, q.at>>
  /\ q.op \in DeviceOps => q.device \in Devices /\ q.at = q.device
  /\ q.op = "login" /\ config.deviceConcurrent => q.at = q.device
  /\ q.op \notin TokenOps /\ q.pc \in Revoking \cup {"readMapped"} =>
       q.token \in Tokens /\ owner[q.token] # Null /\ owner[q.token] = <<q.login, q.at>>
  /\ q.op \notin TokenOps /\ q.pc \in Revoking \cup Clearing \cup {"readMapped"} =>
       q.at \in Devices
  /\ \A d \in Devices : q.todo[d] # Null =>
       /\ Reaches(q) /\ q.todo[d] = list[q.login][d] /\ d # q.at
       /\ q.pc \in Revoking \cup Clearing \/ (q.op = "forceLogout" /\ q.pc = "readSession")
  /\ q.pc = "casMark" => tokenKey[q.token] = q.seen
  /\ q.pc = "dropToken" /\ q.login = Null => ~Live(q.token)
  /\ q.pc = "writeToken" /\ q.token # Null => tokenKey[q.token] = q.login
  /\ q.pc \in {"readAdd", "casAdd"} => session[q.login][q.device] = q.token

AInv ==
  /\ IInv
  /\ Disjoint
  /\ \A t \in handed : owner[t] # Null
  /\ \A r \in Reqs : Hand(req[r])

(* What a step at some places leaves alone: everything of all the others.   *)
Elsewhere(P) ==
  /\ config' = config
  /\ \A t \in Tokens : owner[t] # Null => owner'[t] = owner[t]
  /\ \A t \in Tokens : owner[t] = Null /\ owner'[t] # Null => owner'[t] \in P
  /\ \A t \in Tokens : owner[t] # Null /\ owner[t] \notin P =>
       tokenKey'[t] = tokenKey[t] /\ (t \in handed' <=> t \in handed)
  /\ handed' \subseteq Tokens /\ \A t \in handed' : owner'[t] # Null
  /\ \A l \in LoginIds, d \in Devices : <<l, d>> \notin P =>
       session'[l][d] = session[l][d] /\ list'[l][d] = list[l][d]

(* A step of one operation: the other operations and their places stay.     *)
Frame(r) == Elsewhere(Places(r)) /\ \A x \in Reqs : x # r => req'[x] = req[x]

(* An operation is of one kind only. *)
LEMMA Kinds ==
  /\ \A op \in TokenOps : op \notin DeviceOps \cup AccountOps \cup {"login", Null}
  /\ \A op \in DeviceOps : op \notin TokenOps \cup AccountOps \cup {"login", Null}
  /\ \A op \in AccountOps : op \notin TokenOps \cup DeviceOps \cup {"login", Null}
  /\ "login" \notin TokenOps \cup DeviceOps \cup AccountOps \cup {Null}
BY ValuesAssumption DEF TokenOps, DeviceOps, AccountOps, AllOps

LEMMA HandOfIdle ==
  ASSUME NEW q, q \in {Idle, Failed}
  PROVE  Hand(q) /\ Hand(q)' /\ q \in Request /\ q.op = Null
<1>1. /\ q.op = Null /\ q.pc \in {"idle", "failed"} /\ q.todo = Empty /\ q \in Request
      /\ Null \notin TokenOps \cup DeviceOps \cup AccountOps \cup {"login"}
  BY ValuesAssumption, IdleRequest DEF Idle, Failed, AllOps
<1> QED
  BY <1>1 DEF Hand, Empty, Revoking, Clearing

LEMMA FrameOfReading ==
  ASSUME AInv, NEW r \in Reqs, NEW n, Become(r, n),
         UNCHANGED <<config, store, owner, handed>>
  PROVE  Frame(r) /\ req'[r] = n
BY DEF Frame, Elsewhere, AInv, IInv, TypeOK, Become, store

(* The place of an operation stays the same as long as it runs. *)
LEMMA PlaceKept ==
  ASSUME AInv, NEW r \in Reqs, Running(r), config' = config,
         \A t \in Tokens : owner[t] # Null => owner'[t] = owner[t],
         req'[r].op = req[r].op, req'[r].device = req[r].device,
         req[r].op \in TokenOps => req'[r].token = req[r].token,
         req[r].op \notin TokenOps => req'[r].login = req[r].login
  PROVE  /\ Account(req[r])' = Account(req[r])
         /\ Scope(req[r])' = Scope(req[r])
         /\ Places(r)' = Places(r)
<1>1. req[r].op \in TokenOps => req[r].token \in Tokens /\ owner[req[r].token] # Null
  BY DEF AInv, Hand
<1>2. Account(req[r])' = Account(req[r])
  BY <1>1 DEF Account
<1>3. Scope(req[r])' = Scope(req[r])
  BY <1>1 DEF Scope
<1> QED
  BY <1>2, <1>3 DEF Places

(* The place of each kind of operation. *)
LEMMA PlaceOf ==
  ASSUME AInv, NEW x \in Reqs, Running(x)
  PROVE  LET q == req[x] IN
         /\ q.op \in {"login"} \cup DeviceOps \cup TokenOps \cup AccountOps
         /\ Account(q) \in LoginIds /\ Scope(q) \subseteq Devices
         /\ q.op \notin TokenOps => Account(q) = q.login
         /\ q.op \in TokenOps =>
              /\ owner[q.token] = <<Account(q), owner[q.token][2]>>
              /\ owner[q.token] \in Places(x)
              /\ Scope(q) = {owner[q.token][2]}
              /\ q.login \in {Null, Account(q)}
         /\ q.op \in DeviceOps => Scope(q) = {q.device} /\ q.at = q.device
         /\ q.op = "login" => q.device \in Scope(q)
         /\ q.op = "login" /\ config.deviceConcurrent =>
              Scope(q) = {q.device} /\ q.at = q.device
         /\ Reaches(q) => Scope(q) = Devices
         /\ q.pc \in Clearing => q.login = Account(q) /\ q.at \in Scope(q)
         /\ q.op \notin TokenOps /\ q.pc \in Revoking \cup {"readMapped"} => q.at \in Scope(q)
         /\ q.pc \in Writing \cup {"readMapped"} => q.op = "login"
<1> DEFINE q == req[x]
<1>1. q \in Request /\ Shape(q) /\ Hand(req[x]) /\ Path(q) /\ q.pc \notin {"idle", "failed"}
  BY DEF AInv, IInv, TypeOK, Running, Hand
<1>2. q.op \in {"login"} \cup DeviceOps \cup TokenOps \cup AccountOps
  BY <1>1 DEF Request, AllOps, Path
<1>3. q.pc \in Writing \cup {"readMapped"} => q.op = "login"
  BY <1>1 DEF Shape, Writing, ByLogin
<1>4. CASE q.op \in TokenOps
  <2>1. q.token \in Tokens /\ owner[q.token] # Null /\ q.login \in {Null, owner[q.token][1]}
    BY <1>1, <1>4 DEF Hand
  <2>2. owner[q.token] \in LoginIds \X Devices
    BY <2>1 DEF AInv, IInv, TypeOK
  <2>3. Account(q) = owner[q.token][1] /\ Scope(q) = {owner[q.token][2]}
    BY <1>4 DEF Account, Scope, TokenOps, AccountOps
  <2>4. q.op \notin DeviceOps /\ q.op # "login" /\ ~Reaches(q)
    BY <1>4 DEF TokenOps, DeviceOps, Reaches, AccountOps
  <2>5. q.pc \in Clearing => q.login = Account(q) /\ q.at \in Scope(q)
    BY <1>1, <1>4, <2>3 DEF Hand
  <2>6. owner[q.token] \in Places(x)
    BY <2>2, <2>3 DEF Places
  <2> QED
    BY <1>2, <1>3, <1>4, <2>1, <2>2, <2>3, <2>4, <2>5, <2>6
<1>5. CASE q.op \notin TokenOps
  <2>1. Account(q) = q.login /\ q.login \in LoginIds
    BY <1>1, <1>5 DEF Account, Shape, Path
  <2>2. q.op = "login" => q.device \in Devices
    BY <1>1 DEF Shape
  <2>3. CASE q.op \in DeviceOps
    <3>1. Scope(q) = {q.device} /\ q.at = q.device /\ q.device \in Devices
      BY <1>1, <2>3 DEF Scope, TokenOps, AccountOps, DeviceOps, Hand
    <3>2. q.op # "login" /\ ~Reaches(q)
      BY <2>3 DEF DeviceOps, Reaches, AccountOps
    <3> QED
      BY <1>2, <1>3, <1>5, <2>1, <2>3, <3>1, <3>2
  <2>4. CASE q.op = "login" /\ config.deviceConcurrent
    <3>1. Scope(q) = {q.device} /\ q.at = q.device
      BY <1>1, <2>4 DEF Scope, TokenOps, AccountOps, Hand
    <3>2. q.op \notin DeviceOps /\ ~Reaches(q)
      BY <2>4 DEF DeviceOps, Reaches, AccountOps
    <3> QED
      BY <1>2, <1>3, <1>5, <2>1, <2>2, <2>4, <3>1, <3>2
  <2>5. CASE Reaches(q)
    <3>1. Scope(q) = Devices /\ q.op \notin DeviceOps
          /\ ~(q.op = "login" /\ config.deviceConcurrent)
      BY <2>5 DEF Scope, Reaches, DeviceOps, AccountOps
    <3>2. q.pc \in Revoking \cup Clearing \cup {"readMapped"} => q.at \in Devices
      BY <1>1, <1>5 DEF Hand
    <3> QED
      BY <1>2, <1>3, <1>5, <2>1, <2>2, <3>1, <3>2
  <2> QED
    BY <1>2, <1>5, <2>3, <2>4, <2>5 DEF Reaches
<1> QED
  BY <1>4, <1>5

(* A step at other places leaves what is known of this one. *)
LEMMA FrameAt ==
  ASSUME NEW P, Elsewhere(P), NEW l \in LoginIds, NEW d \in Devices,
         <<l, d>> \notin P, NEW u \in Tokens, owner'[u] = <<l, d>>
  PROVE  owner[u] = <<l, d>> /\ tokenKey'[u] = tokenKey[u] /\ (u \in handed' <=> u \in handed)
<1>1. owner'[u] # Null
  BY ValuesAssumption
<1> QED
  BY <1>1 DEF Frame, Elsewhere

LEMMA KeepHand ==
  ASSUME AInv, NEW x \in Reqs, req'[x] = req[x], NEW P, Elsewhere(P),
         P \cap Places(x) = {}
  PROVE  /\ Hand(req[x])'
         /\ Running(x) => /\ Account(req[x])' = Account(req[x])
                          /\ Scope(req[x])' = Scope(req[x])
                          /\ Places(x)' = Places(x)
<1> DEFINE q == req[x]
<1>1. q \in Request /\ Shape(q) /\ Holds(q, owner, config) /\ Hand(req[x])
      /\ req'[x] = q /\ config' = config
  BY DEF AInv, IInv, TypeOK, Frame, Elsewhere
<1>2. CASE ~Running(x)
  <2>1. q \in {Idle, Failed}
    BY <1>1, <1>2 DEF Hand, Running
  <2> QED
    BY <1>1, <1>2, <2>1, HandOfIdle
<1>3. CASE Running(x)
  <2>1. /\ Account(req[x])' = Account(req[x])
        /\ Scope(req[x])' = Scope(req[x])
        /\ Places(x)' = Places(x)
    BY <1>1, <1>3, PlaceKept DEF Frame, Elsewhere
  <2>2. q.op \in TokenOps => owner'[q.token] = owner[q.token]
                             /\ tokenKey'[q.token] = tokenKey[q.token]
    <3>1. q.op \in TokenOps => owner[q.token] \in Places(x)
      BY <1>3, PlaceOf
    <3> QED
      BY <1>1, <1>3, <3>1 DEF Hand, Frame, Elsewhere
  <2>3. q.pc \in Revoking \cup {"readMapped"} /\ q.op \notin TokenOps =>
          owner'[q.token] = owner[q.token] /\ tokenKey'[q.token] = tokenKey[q.token]
    <3>1. q.pc \in Revoking \cup {"readMapped"} /\ q.op \notin TokenOps =>
            owner[q.token] \in Places(x)
      <4>1. ASSUME q.pc \in Revoking \cup {"readMapped"}, q.op \notin TokenOps
            PROVE  owner[q.token] = <<q.login, q.at>> /\ <<q.login, q.at>> \in Places(x)
        <5>1. Account(q) = q.login /\ q.at \in Scope(q)
          BY <1>3, <4>1, PlaceOf
        <5> QED
          BY <1>1, <4>1, <5>1 DEF Hand, Places
      <4> QED
        BY <4>1
    <3> QED
      BY <1>1, <1>3, <3>1 DEF Hand, Frame, Elsewhere
  <2>4. ASSUME NEW d \in Devices, q.todo[d] # Null
        PROVE  /\ Reaches(q) /\ q.todo[d] = list'[q.login][d] /\ d # q.at
               /\ q.pc \in Revoking \cup Clearing
                  \/ (q.op = "forceLogout" /\ q.pc = "readSession")
    <3>1. /\ Reaches(q) /\ q.todo[d] = list[q.login][d] /\ d # q.at
          /\ q.pc \in Revoking \cup Clearing \/ (q.op = "forceLogout" /\ q.pc = "readSession")
      BY <1>1, <1>3, <2>4 DEF Hand
    <3>2. q.login \in LoginIds /\ <<q.login, d>> \in Places(x)
      BY <1>1, <1>3, <3>1, PlaceOf DEF Places, Reaches, AccountOps, TokenOps
    <3> QED
      BY <3>1, <3>2 DEF Frame, Elsewhere
  <2>5. Reaches(q)' = Reaches(q) /\ Running(x)' /\ Path(q)' = Path(q)
    BY <1>1, <1>3 DEF Reaches, Running, Path
  <2>6. (q.pc = "casMark" => tokenKey[q.token] = q.seen)'
    BY <1>1, <2>2, <2>3 DEF Hand, Revoking
  <2>7. (q.pc = "dropToken" /\ q.login = Null => ~Live(q.token))'
    BY <1>1, <2>2, <2>3 DEF Hand, Revoking, Live
  <2>8. q.op = "login" => <<q.login, q.device>> \notin P /\ q.device \in Devices
                          /\ q.login \in LoginIds
    BY <1>3, PlaceOf DEF Places, TokenOps
  <2>9. (q.pc = "writeToken" /\ q.token # Null => tokenKey[q.token] = q.login)'
    <3>1. ASSUME q.pc = "writeToken", q.token # Null
          PROVE  tokenKey'[q.token] = tokenKey[q.token]
      <4>1. q.token \in Tokens /\ owner[q.token] = <<q.login, q.device>>
        BY <1>1, <3>1 DEF Holds, ByLogin, Request
      <4>2. q.op = "login"
        BY <1>1, <3>1 DEF Shape, ByLogin
      <4>3. owner[q.token] # Null /\ owner[q.token] \notin P
        BY <2>8, <4>1, <4>2, ValuesAssumption
      <4> QED
        BY <4>1, <4>3 DEF Frame, Elsewhere
    <3> QED
      BY <1>1, <3>1 DEF Hand
  <2>10. (q.pc \in {"readAdd", "casAdd"} => session[q.login][q.device] = q.token)'
    <3>1. q.pc \in {"readAdd", "casAdd"} => q.op = "login"
      BY <1>1 DEF Shape, ByLogin
    <3> QED
      BY <1>1, <2>8, <3>1 DEF Frame, Elsewhere, Hand
  <2>11. Hand(req[x])'
    BY <1>1, <1>3, <2>2, <2>3, <2>4, <2>5, <2>6, <2>7, <2>9, <2>10 DEF Hand
  <2> QED
    BY <2>1, <2>11
<1> QED
  BY <1>2, <1>3

-----------------------------------------------------------------------------
(* What clients hold, and what the operation in flight knows of it. *)
Sole(l, d, t) == \A u \in handed : owner[u] = <<l, d>> /\ Live(u) => u = t

Clear(l, d) == \A u \in handed : owner[u] = <<l, d>> => ~Live(u)

Listed(l, d) ==
  \A t \in handed : owner[t] = <<l, d>> /\ Live(t) =>
    session[l][d] = t /\ list[l][d] = t

OneOfAccount ==
  ~config.deviceConcurrent =>
    \A t, u \in handed : Live(t) /\ Live(u) /\ owner[t][1] = owner[u][1] => t = u

(* The devices an operation has cleared of accepted tokens. *)
Cleared(q, d) ==
  \/ q.pc \in Clearing /\ d = q.at
  \/ q.op \in DeviceOps /\ q.pc \in Ending
  \/ Reaches(q) /\ \/ q.pc \in {"dropList", "dropData"} \cup Writing
                   \/ /\ \/ q.pc \in Revoking \cup Clearing
                         \/ q.op = "forceLogout" /\ q.pc = "readSession"
                      /\ q.todo[d] = Null /\ d # q.at

Knows(q) ==
  /\ \A d \in Scope(q) : Cleared(q, d) => Clear(Account(q), d)
  /\ q.op \notin TokenOps /\ q.pc \in Revoking \cup {"readMapped"} =>
       Sole(q.login, q.at, q.token)
  /\ q.pc \in Writing => Sole(q.login, q.device, q.token)
  /\ q.op \in TokenOps /\ q.pc \in {"findDevice"} \cup Clearing \cup Ending => ~Live(q.token)

(* What is known in the place of an operation in flight. *)
Held(r) ==
  /\ Knows(req[r])
  /\ \A l \in LoginIds, d \in Devices : <<l, d>> \in Places(r) => Listed(l, d)

BInv ==
  /\ OneOfAccount
  /\ \A r \in Reqs : Running(r) => Held(r)

(* What the two indexes say, and what the operation in flight knows of it. *)
Agree(l, d) ==
  /\ session[l][d] = list[l][d]
  /\ session[l][d] # Null => Live(session[l][d])

(* The devices of its place an operation has not touched or is done with. *)
Settled(q, d) ==
  \/ q.pc \in {"readSession", "readAll", "readToken"} \cup Ending
  \/ q.op \in TokenOps /\ q.pc \in Revoking
  \/ /\ Reaches(q) /\ q.pc \in Revoking \cup Clearing /\ d # q.at
     /\ q.op = "forceLogout" \/ q.todo[d] # Null
  \/ Reaches(q) /\ q.pc \in Writing /\ d # q.device

(* The devices whose session key it has deleted, but not yet the list's. *)
Emptied(q, d) ==
  \/ q.pc \in {"readRemove", "casRemove"} /\ d = q.at
  \/ /\ Reaches(q) /\ q.op # "forceLogout" /\ q.pc \in Revoking \cup Clearing
     /\ d # q.at /\ q.todo[d] = Null
  \/ q.pc = "dropList"

Leaves(q) ==
  /\ \A d \in Scope(q) : /\ Settled(q, d) => Agree(Account(q), d)
                         /\ Emptied(q, d) => session[Account(q)][d] = Null
  /\ q.op \notin TokenOps /\ q.pc \in Revoking \cup {"readMapped"} =>
       session[q.login][q.at] = q.token /\ list[q.login][q.at] = q.token
  /\ q.pc \in {"readMark", "casMark", "readMapped", "writeSession", "readAdd", "casAdd"}
     \/ (q.op \notin TokenOps /\ q.pc = "dropToken") =>
       Live(q.token)
  /\ q.op \in TokenOps /\ q.pc = "findDevice" => \A d \in Scope(q) :
       /\ session[q.login][d] = list[q.login][d]
       /\ session[q.login][d] \notin {Null, q.token} => Live(session[q.login][d])

CInv ==
  \A r \in Reqs : /\ req[r].pc # "failed"
                  /\ Running(r) => Leaves(req[r])

(* What is known where operations are in flight ...                         *)
DInv == /\ AInv
        /\ Multi(config) \/ BInv
        /\ MayAbort \/ CInv

(* ... and where none is.                                                   *)
Rest(l, d) ==
  /\ ~Multi(config) => Listed(l, d)
  /\ ~MayAbort => Agree(l, d)

EInv ==
  /\ DInv
  /\ \A l \in LoginIds, d \in Devices : Untouched(l, d) => Rest(l, d)

-----------------------------------------------------------------------------
LEMMA KeepKnows ==
  ASSUME AInv, NEW x \in Reqs, req'[x] = req[x], NEW P, Elsewhere(P), Running(x),
         P \cap Places(x) = {}, Knows(req[x])
  PROVE  Knows(req[x])'
<1> DEFINE q == req[x]
<1>1. Hand(req[x]) /\ req'[x] = q /\ config' = config
  BY DEF AInv, Frame, Elsewhere
<1>2. /\ Account(q) \in LoginIds /\ Scope(q) \subseteq Devices
      /\ Account(q)' = Account(q) /\ Scope(q)' = Scope(q)
  BY PlaceOf, KeepHand
<1>3. ASSUME NEW d \in Scope(q)
      PROVE  /\ <<Account(q), d>> \notin P
             /\ \A u \in handed' : owner'[u] = <<Account(q), d>> =>
                  u \in handed /\ owner[u] = <<Account(q), d>> /\ tokenKey'[u] = tokenKey[u]
  <2>1. <<Account(q), d>> \notin P
    BY DEF Places
  <2> QED
    BY <1>2, <2>1, FrameAt DEF Frame, Elsewhere
<1>4. (\A d \in Scope(q) : Cleared(q, d) => Clear(Account(q), d))'
  <2>1. \A d \in Scope(q) : Cleared(q, d)' = Cleared(q, d)
    BY <1>1 DEF Cleared, Reaches
  <2> QED
    BY <1>1, <1>2, <1>3, <2>1 DEF Knows, Clear, Live
<1>5. (q.op \notin TokenOps /\ q.pc \in Revoking \cup {"readMapped"} =>
         Sole(q.login, q.at, q.token))'
  <2>1. q.op \notin TokenOps /\ q.pc \in Revoking \cup {"readMapped"} =>
          q.login = Account(q) /\ q.at \in Scope(q)
    BY PlaceOf
  <2>2. ASSUME q.op \notin TokenOps, q.pc \in Revoking \cup {"readMapped"}
        PROVE  Sole(q.login, q.at, q.token)'
    <3>1. \A u \in handed : owner[u] = <<q.login, q.at>> /\ Live(u) => u = q.token
      BY <2>2 DEF Knows, Sole
    <3>2. \A u \in handed' : owner'[u] = <<q.login, q.at>> =>
            u \in handed /\ owner[u] = <<q.login, q.at>> /\ tokenKey'[u] = tokenKey[u]
      BY <1>3, <2>1, <2>2
    <3> QED
      BY <1>1, <3>1, <3>2 DEF Sole, Live
  <2> QED
    BY <1>1, <2>2
<1>6. (q.pc \in Writing => Sole(q.login, q.device, q.token))'
  <2>1. q.pc \in Writing => q.login = Account(q) /\ q.device \in Scope(q)
    BY PlaceOf DEF TokenOps
  <2>2. ASSUME q.pc \in Writing
        PROVE  Sole(q.login, q.device, q.token)'
    <3>1. \A u \in handed : owner[u] = <<q.login, q.device>> /\ Live(u) => u = q.token
      BY <2>2 DEF Knows, Sole
    <3>2. \A u \in handed' : owner'[u] = <<q.login, q.device>> =>
            u \in handed /\ owner[u] = <<q.login, q.device>> /\ tokenKey'[u] = tokenKey[u]
      BY <1>3, <2>1, <2>2
    <3> QED
      BY <1>1, <3>1, <3>2 DEF Sole, Live
  <2> QED
    BY <1>1, <2>2
<1>7. (q.op \in TokenOps /\ q.pc \in {"findDevice"} \cup Clearing \cup Ending => ~Live(q.token))'
  <2>1. q.op \in TokenOps => q.token \in Tokens /\ owner[q.token] # Null
    BY <1>1 DEF Hand
  <2>2. q.op \in TokenOps => owner[q.token] \notin P
    BY PlaceOf
  <2> QED
    BY <1>1, <2>1, <2>2 DEF Knows, Live, Frame, Elsewhere
<1> QED
  BY <1>4, <1>5, <1>6, <1>7 DEF Knows

(* What the indexes name at a place is a token created for that place, and  *)
(* a step elsewhere leaves its entry.                                       *)
LEMMA KeepAgree ==
  ASSUME AInv, NEW P, Elsewhere(P), NEW l \in LoginIds, NEW d \in Devices,
         <<l, d>> \notin P
  PROVE  /\ session'[l][d] = session[l][d] /\ list'[l][d] = list[l][d]
         /\ session[l][d] # Null => tokenKey'[session[l][d]] = tokenKey[session[l][d]]
         /\ Agree(l, d) => Agree(l, d)'
<1>1. session'[l][d] = session[l][d] /\ list'[l][d] = list[l][d]
  BY DEF Frame, Elsewhere
<1>2. session[l][d] # Null => tokenKey'[session[l][d]] = tokenKey[session[l][d]]
  <2>1. session[l][d] # Null => session[l][d] \in Tokens /\ owner[session[l][d]] = <<l, d>>
    BY DEF AInv, IInv, TypeOK, Index, Ownership
  <2> QED
    BY <2>1, ValuesAssumption DEF Frame, Elsewhere
<1> QED
  BY <1>1, <1>2 DEF Agree, Live

LEMMA KeepLeaves ==
  ASSUME AInv, NEW x \in Reqs, req'[x] = req[x], NEW P, Elsewhere(P), Running(x),
         P \cap Places(x) = {}, Leaves(req[x])
  PROVE  Leaves(req[x])'
<1> DEFINE q == req[x]
<1>1. q \in Request /\ Shape(q) /\ Holds(q, owner, config) /\ Hand(req[x]) /\ req'[x] = q
      /\ config' = config
  BY DEF AInv, IInv, TypeOK, Frame, Elsewhere
<1>2. /\ Account(q) \in LoginIds /\ Scope(q) \subseteq Devices
      /\ Account(q)' = Account(q) /\ Scope(q)' = Scope(q)
  BY PlaceOf, KeepHand
<1>3. ASSUME NEW d \in Scope(q)
      PROVE  /\ session'[Account(q)][d] = session[Account(q)][d]
             /\ list'[Account(q)][d] = list[Account(q)][d]
             /\ session[Account(q)][d] # Null =>
                  tokenKey'[session[Account(q)][d]] = tokenKey[session[Account(q)][d]]
  <2>1. <<Account(q), d>> \notin P
    BY DEF Places
  <2> QED
    BY <1>2, <2>1, KeepAgree
<1>4. (\A d \in Scope(q) : /\ Settled(q, d) => Agree(Account(q), d)
                           /\ Emptied(q, d) => session[Account(q)][d] = Null)'
  <2>1. \A d \in Scope(q) : Settled(q, d)' = Settled(q, d) /\ Emptied(q, d)' = Emptied(q, d)
    BY <1>1 DEF Settled, Emptied, Reaches
  <2> QED
    BY <1>1, <1>2, <1>3, <2>1 DEF Leaves, Agree, Live
<1>5. (q.op \notin TokenOps /\ q.pc \in Revoking \cup {"readMapped"} =>
         session[q.login][q.at] = q.token /\ list[q.login][q.at] = q.token)'
  <2>1. q.op \notin TokenOps /\ q.pc \in Revoking \cup {"readMapped"} =>
          q.login = Account(q) /\ q.at \in Scope(q)
    BY PlaceOf
  <2> QED
    BY <1>1, <1>3, <2>1 DEF Leaves
<1>6. (q.pc \in {"readMark", "casMark", "readMapped", "writeSession", "readAdd", "casAdd"}
         \/ (q.op \notin TokenOps /\ q.pc = "dropToken") =>
       Live(q.token))'
  <2>1. ASSUME q.pc \in {"readMark", "casMark", "readMapped", "writeSession", "readAdd", "casAdd"}
               \/ (q.op \notin TokenOps /\ q.pc = "dropToken")
        PROVE  tokenKey'[q.token] = tokenKey[q.token]
    <3>1. CASE q.op \in TokenOps
      <4>1. q.token \in Tokens /\ owner[q.token] # Null
        BY <1>1, <3>1 DEF Hand
      <4>2. owner[q.token] \notin P
        BY <3>1, PlaceOf
      <4> QED
        BY <4>1, <4>2 DEF Frame, Elsewhere
    <3>2. CASE q.op \notin TokenOps /\ q.pc \in Revoking \cup {"readMapped"}
      <4>1. q.token \in Tokens /\ owner[q.token] # Null /\ owner[q.token] = <<q.login, q.at>>
        BY <1>1, <3>2 DEF Hand
      <4>2. q.login = Account(q) /\ q.at \in Scope(q)
        BY <3>2, PlaceOf
      <4>3. <<q.login, q.at>> \notin P
        BY <4>2 DEF Places
      <4> QED
        BY <4>1, <4>3 DEF Frame, Elsewhere
    <3>3. CASE q.pc \in {"writeSession", "readAdd", "casAdd"}
      <4>1. q.token \in Tokens /\ owner[q.token] = <<q.login, q.device>>
        BY <1>1, <3>3, ValuesAssumption DEF Holds, ByLogin, Shape
      <4>2. q.login = Account(q) /\ q.device \in Scope(q)
        BY <3>3, PlaceOf DEF Writing, TokenOps
      <4>3. <<q.login, q.device>> # Null
        BY <1>2, <4>2, ValuesAssumption
      <4>4. <<q.login, q.device>> \notin P
        BY <4>2 DEF Places
      <4> QED
        BY <4>1, <4>3, <4>4 DEF Frame, Elsewhere
    <3> QED
      BY <2>1, <3>1, <3>2, <3>3 DEF Revoking
  <2> QED
    BY <1>1, <2>1 DEF Leaves, Live
<1>7. (q.op \in TokenOps /\ q.pc = "findDevice" => \A d \in Scope(q) :
         /\ session[q.login][d] = list[q.login][d]
         /\ session[q.login][d] \notin {Null, q.token} => Live(session[q.login][d]))'
  <2>1. q.op \in TokenOps /\ q.pc = "findDevice" => q.login = Account(q)
    BY <1>1, <1>2, PlaceOf, ValuesAssumption DEF Shape
  <2> QED
    BY <1>1, <1>2, <1>3, <2>1 DEF Leaves, Live
<1> QED
  BY <1>4, <1>5, <1>6, <1>7 DEF Leaves

-----------------------------------------------------------------------------
(* What is to be shown of each step of an operation. *)
Works(r) ==
  /\ Frame(r) /\ Hand(req[r])'
  /\ Running(r) /\ Running(r)' => Places(r)' = Places(r)
  /\ ~Multi(config) =>
       /\ OneOfAccount'
       /\ \A l \in LoginIds, d \in Devices : <<l, d>> \in Places(r) => Listed(l, d)'
       /\ Running(r)' => Knows(req[r])'
  /\ ~MayAbort =>
       /\ req'[r].pc # "failed"
       /\ Running(r)' => Leaves(req[r])'
       /\ ~Running(r)' =>
            \A l \in LoginIds, d \in Devices : <<l, d>> \in Places(r) => Agree(l, d)'

LEMMA KeepListed ==
  ASSUME AInv, NEW P, Elsewhere(P), NEW l \in LoginIds, NEW d \in Devices,
         <<l, d>> \notin P, Listed(l, d)
  PROVE  Listed(l, d)'
<1>1. \A u \in handed' : owner'[u] = <<l, d>> =>
        u \in handed /\ owner[u] = <<l, d>> /\ tokenKey'[u] = tokenKey[u]
  BY FrameAt DEF Frame, Elsewhere
<1>2. session'[l][d] = session[l][d] /\ list'[l][d] = list[l][d]
  BY DEF Frame, Elsewhere
<1> QED
  BY <1>1, <1>2 DEF Listed, Live

LEMMA UntouchedPlace ==
  ASSUME NEW l, NEW d
  PROVE  Untouched(l, d) <=> \A x \in Reqs : Running(x) => <<l, d>> \notin Places(x)
BY DEF Untouched, Places

LEMMA WorksKeeps ==
  ASSUME DInv, [Next]_vars, NEW r \in Reqs, Works(r),
         \A x \in Reqs : x # r /\ Running(x) =>
           /\ Places(r) \cap Places(x) = {}
           /\ Running(r)' => Places(r)' \cap Places(x) = {},
         ~Running(r) /\ ~Multi(config) =>
           \A l \in LoginIds, d \in Devices : <<l, d>> \in Places(r)' => Listed(l, d)'
  PROVE  DInv'
<1>0. AInv /\ Frame(r) /\ Elsewhere(Places(r)) /\ config' = config /\ MayAbort' = MayAbort
      /\ \A x \in Reqs : x # r => req'[x] = req[x] /\ Running(x)' = Running(x)
  BY DEF DInv, Works, Frame, Elsewhere, Running
<1>1. ASSUME NEW x \in Reqs, x # r, Running(x)
      PROVE  /\ Hand(req[x])' /\ Places(x)' = Places(x) /\ Places(r) \cap Places(x) = {}
             /\ (Knows(req[x]) => Knows(req[x])') /\ (Leaves(req[x]) => Leaves(req[x])')
  BY <1>0, <1>1, KeepHand, KeepKnows, KeepLeaves
<1>2. ASSUME NEW x \in Reqs, x # r, ~Running(x)
      PROVE  Hand(req[x])'
  <2>1. req[x] \in {Idle, Failed} /\ req'[x] = req[x]
    BY <1>0, <1>2 DEF AInv, Hand, Running
  <2> QED
    BY <2>1, HandOfIdle
<1>3. AInv'
  <2>1. IInv'
    BY <1>0, NextIInv DEF AInv
  <2>2. Disjoint'
    <3> SUFFICES ASSUME NEW x \in Reqs, NEW y \in Reqs, x # y, Running(x)', Running(y)'
                 PROVE  Places(x)' \cap Places(y)' = {}
      BY DEF Disjoint
    <3>1. CASE x # r /\ y # r
      BY <1>0, <1>1, <3>1 DEF AInv, Disjoint
    <3>2. CASE x = r
      BY <1>0, <1>1, <3>2 DEF Works
    <3>3. CASE y = r
      BY <1>0, <1>1, <3>3 DEF Works
    <3> QED
      BY <3>1, <3>2, <3>3
  <2>3. \A x \in Reqs : Hand(req[x])'
    BY <1>1, <1>2 DEF Works
  <2> QED
    BY <2>1, <2>2, <2>3, <1>0 DEF AInv, Frame, Elsewhere
<1>4. ASSUME ~Multi(config) PROVE BInv'
  <2>1. BInv
    BY <1>4 DEF DInv
  <2>2. ASSUME NEW x \in Reqs, Running(x)', NEW l \in LoginIds, NEW d \in Devices,
               <<l, d>> \in Places(x)'
        PROVE  Listed(l, d)'
    <3>1. CASE x # r
      <4>1. Running(x) /\ <<l, d>> \in Places(x) /\ <<l, d>> \notin Places(r)
        BY <1>0, <1>1, <2>2, <3>1
      <4> QED
        BY <1>0, <2>1, <4>1, KeepListed DEF BInv, Held
    <3>2. CASE x = r /\ Running(r)
      BY <1>4, <2>2, <3>2 DEF Works
    <3>3. CASE x = r /\ ~Running(r)
      BY <1>4, <2>2, <3>3
    <3> QED
      BY <3>1, <3>2, <3>3
  <2>3. ASSUME NEW x \in Reqs, Running(x)' PROVE Knows(req[x])'
    BY <1>0, <1>1, <1>4, <2>1, <2>3 DEF BInv, Held, Works
  <2> QED
    BY <1>4, <2>2, <2>3 DEF BInv, Held, Works
<1>5. ASSUME ~MayAbort PROVE CInv'
  <2>1. CInv
    BY <1>5 DEF DInv
  <2>2. ASSUME NEW x \in Reqs
        PROVE  req'[x].pc # "failed" /\ (Running(x)' => Leaves(req[x])')
    BY <1>0, <1>1, <1>5, <2>1, <2>2 DEF CInv, Works
  <2> QED
    BY <2>2 DEF CInv
<1> QED
  BY <1>0, <1>3, <1>4, <1>5 DEF DInv, Multi

(* An operation in no place yet. *)
LEMMA NoPlace ==
  ASSUME AInv, NEW r \in Reqs, ~Running(r)
  PROVE  \A l \in LoginIds, d \in Devices : <<l, d>> \notin Places(r)
<1>1. req[r] \in {Idle, Failed}
  BY DEF AInv, Hand, Running
<1>2. Null \notin TokenOps
  BY ValuesAssumption DEF AllOps
<1>3. Account(req[r]) = Null
  BY <1>1, <1>2 DEF Idle, Failed, Account
<1> QED
  BY <1>3, ValuesAssumption DEF Places

LEMMA WorksRest ==
  ASSUME DInv, NEW r \in Reqs, Works(r),
         \A x \in Reqs : x # r /\ Running(x) => Places(r) \cap Places(x) = {},
         NEW l \in LoginIds, NEW d \in Devices,
         Untouched(l, d) => Rest(l, d), Untouched(l, d)'
  PROVE  Rest(l, d)'
<1>0. AInv /\ Elsewhere(Places(r)) /\ config' = config /\ MayAbort' = MayAbort
      /\ \A x \in Reqs : x # r => req'[x] = req[x] /\ Running(x)' = Running(x)
  BY DEF DInv, Works, Frame, Elsewhere, Running
<1>1. \A x \in Reqs : Running(x)' => <<l, d>> \notin Places(x)'
  BY DEF Untouched, Places
<1>2. CASE <<l, d>> \in Places(r)
  <2>1. Running(r)
    BY <1>0, <1>2, NoPlace
  <2>2. ~Running(r)'
    BY <1>1, <1>2, <2>1 DEF Works
  <2> QED
    BY <1>0, <1>2, <2>2 DEF Works, Rest, Multi
<1>3. CASE <<l, d>> \notin Places(r)
  <2>1. ASSUME NEW x \in Reqs, Running(x) PROVE <<l, d>> \notin Places(x)
    <3>1. CASE x = r
      BY <1>3, <3>1
    <3>2. CASE x # r
      <4>1. Places(x)' = Places(x)
        BY <1>0, <2>1, <3>2, KeepHand
      <4> QED
        BY <1>0, <1>1, <2>1, <3>2, <4>1
    <3> QED
      BY <3>1, <3>2
  <2>2. Rest(l, d)
    BY <2>1, UntouchedPlace
  <2> QED
    BY <1>0, <1>3, <2>2, KeepAgree, KeepListed DEF Rest, Multi
<1> QED
  BY <1>2, <1>3

-----------------------------------------------------------------------------
(* The request an operation starts as. *)
Begun(n) ==
  /\ n \in Request /\ n.todo = Empty
  /\ \/ n.op \in TokenOps /\ n.pc = "readToken" /\ n.login = Null
        /\ n.token \in Tokens /\ owner[n.token] # Null
     \/ n.op \in {"login"} \cup DeviceOps /\ n.pc = "readSession"
        /\ n.login \in LoginIds /\ n.device \in Devices /\ n.at = n.device
     \/ n.op \in AccountOps /\ n.pc = "readAll" /\ n.login \in LoginIds

LEMMA BegunPlace ==
  ASSUME AInv, NEW n, Begun(n)
  PROVE  Account(n) \in LoginIds /\ Scope(n) \subseteq Devices
<1>1. CASE n.op \in TokenOps
  <2>1. owner[n.token] \in LoginIds \X Devices
    BY <1>1 DEF Begun, AInv, IInv, TypeOK, TokenOps, DeviceOps, AccountOps
  <2> QED
    BY <1>1, <2>1 DEF Account, Scope, TokenOps, AccountOps
<1>2. CASE n.op \in {"login"} \cup DeviceOps
  BY <1>2 DEF Begun, Account, Scope, TokenOps, DeviceOps, AccountOps
<1>3. CASE n.op \in AccountOps
  BY <1>3 DEF Begun, Account, Scope, TokenOps, DeviceOps, AccountOps
<1> QED
  BY <1>1, <1>2, <1>3 DEF Begun

(* An operation that starts finds its place at rest. *)
LEMMA StartKeeps ==
  ASSUME DInv, [Next]_vars, Overlap # "any", NEW r \in Reqs, NEW n, Start(r, n), Begun(n),
         \A d \in Scope(n) : Rest(Account(n), d)
  PROVE  /\ DInv' /\ Works(r)
         /\ \A x \in Reqs : x # r /\ Running(x) => Places(r) \cap Places(x) = {}
<1>1. AInv /\ ~Running(r) /\ MayStart(n) /\ Become(r, n)
      /\ UNCHANGED <<config, store, owner, handed>>
  BY DEF DInv, Start
<1>2. Frame(r) /\ req'[r] = n
  BY <1>1, FrameOfReading
<1>3. /\ n.op # Null /\ n \in Request /\ n.todo = Empty
      /\ \/ n.op \in TokenOps /\ n.pc = "readToken" /\ n.login = Null
            /\ n.token \in Tokens /\ owner[n.token] # Null
         \/ n.op \in {"login"} \cup DeviceOps /\ n.pc = "readSession"
            /\ n.login \in LoginIds /\ n.device \in Devices /\ n.at = n.device
         \/ n.op \in AccountOps /\ n.pc = "readAll" /\ n.login \in LoginIds
  BY ValuesAssumption DEF Begun, TokenOps, DeviceOps, AccountOps, AllOps
<1>4. Account(n) \in LoginIds /\ Scope(n) \subseteq Devices
  BY <1>1, BegunPlace
<1>5. Account(req[r])' = Account(n) /\ Scope(req[r])' = Scope(n)
      /\ Places(r)' = {Account(n)} \X Scope(n)
  BY <1>1, <1>2, <1>3 DEF Account, Scope, Places
<1>6. ASSUME NEW x \in Reqs, x # r, Running(x)
      PROVE  /\ Places(r) \cap Places(x) = {}
             /\ Places(r)' \cap Places(x) = {}
  <2>1. Account(req[x]) \in LoginIds
    BY <1>1, <1>6, PlaceOf
  <2>2. Account(req[r]) = Null
    <3>1. req[r] \in {Idle, Failed}
      BY <1>1 DEF AInv, Hand, Running
    <3>2. Null \notin TokenOps
      BY ValuesAssumption DEF AllOps
    <3> QED
      BY <3>1, <3>2 DEF Idle, Failed, Account
  <2>3. Account(req[x]) = Account(n) => Scope(req[x]) \cap Scope(n) = {}
    BY <1>1, <1>6 DEF MayStart
  <2> QED
    BY <1>5, <2>1, <2>2, <2>3, ValuesAssumption DEF Places
<1>7. \A l \in LoginIds, d \in Devices : <<l, d>> \notin Places(r)
  BY <1>1, NoPlace
<1>8. Running(r)' /\ n.pc \notin {"casMark", "dropToken", "writeToken", "readAdd", "casAdd",
                                  "readMapped", "readMark", "failed"}
      /\ n.pc \notin Clearing \cup Writing \cup Ending
  BY <1>2, <1>3 DEF Running, Clearing, Writing, Ending
<1>9. Path(n)'
  BY <1>1, <1>3 DEF Path, TokenOps, DeviceOps, AccountOps
<1>10. Hand(req[r])'
  BY <1>1, <1>2, <1>3, <1>8, <1>9 DEF Hand, Revoking, Empty, TokenOps, DeviceOps, AccountOps
<1>11. ASSUME ~Multi(config) PROVE OneOfAccount' /\ Knows(req[r])'
  <2>1. OneOfAccount
    BY <1>11 DEF DInv, BInv
  <2>2. OneOfAccount'
    BY <1>1, <2>1 DEF OneOfAccount, Live, store
  <2>3. \A d \in Devices : ~Cleared(n, d)'
    BY <1>3, <1>8 DEF Cleared, Revoking, Clearing, Writing, Ending, AccountOps, TokenOps, DeviceOps
  <2> QED
    BY <1>2, <1>3, <1>4, <1>5, <1>8, <2>2, <2>3 DEF Knows, Revoking, TokenOps
<1>12. ASSUME ~MayAbort PROVE Leaves(req[r])'
  <2>1. \A d \in Scope(n) : Agree(Account(n), d)
    BY <1>12 DEF Rest
  <2>2. \A d \in Scope(n) : Agree(Account(n), d)'
    BY <1>1, <2>1 DEF Agree, Live, store, Account
  <2>3. \A d \in Devices : ~Emptied(n, d)'
    BY <1>3, <1>8 DEF Emptied, Revoking, Clearing
  <2> QED
    BY <1>2, <1>3, <1>4, <1>5, <1>8, <2>2, <2>3 DEF Leaves, Revoking, Agree
<1>13. Works(r)
  BY <1>1, <1>2, <1>7, <1>8, <1>10, <1>11, <1>12 DEF Works
<1>14. ASSUME ~Multi(config), NEW l \in LoginIds, NEW d \in Devices, <<l, d>> \in Places(r)'
       PROVE  Listed(l, d)'
  <2>1. Listed(l, d)
    BY <1>5, <1>14 DEF Rest
  <2> QED
    BY <1>1, <2>1 DEF Listed, Live, store
<1> QED
  BY <1>6, <1>13, <1>14, WorksKeeps

-----------------------------------------------------------------------------
(* A step that only reads the store and goes on. *)
LEMMA ReadingWorks ==
  ASSUME DInv, NEW r \in Reqs, Running(r), NEW n \in Request, Become(r, n),
         UNCHANGED <<config, store, owner, handed>>,
         n.op = req[r].op, n.device = req[r].device,
         req[r].op \in TokenOps => n.token = req[r].token,
         req[r].op \notin TokenOps => n.login = req[r].login,
         n.pc \notin {"idle", "failed"},
         Hand(n), ~Multi(config) => Knows(n), ~MayAbort => Leaves(n)
  PROVE  Works(r)
<1>1. AInv /\ Frame(r) /\ req'[r] = n
  BY FrameOfReading DEF DInv
<1>2. Places(r)' = Places(r)
  BY <1>1, PlaceKept DEF Frame, Elsewhere
<1>3. UNCHANGED <<config, tokenKey, session, list, owner, handed>>
  BY DEF store
<1>4. Hand(req[r])'
  BY <1>1, <1>3 DEF Hand, Path, Reaches, Live
<1>5. Reaches(n)' = Reaches(n) /\ Account(n)' = Account(n) /\ Scope(n)' = Scope(n)
  BY <1>3 DEF Reaches, Account, Scope
<1>6. Knows(n) => Knows(req[r])'
  BY <1>1, <1>3, <1>5 DEF Knows, Cleared, Clear, Sole, Live
<1>7. Leaves(n) => Leaves(req[r])'
  BY <1>1, <1>3, <1>5 DEF Leaves, Settled, Emptied, Agree, Live
<1>8. ASSUME ~Multi(config)
      PROVE  /\ OneOfAccount'
             /\ \A l \in LoginIds, d \in Devices : <<l, d>> \in Places(r) => Listed(l, d)'
  <2>1. BInv
    BY <1>8 DEF DInv
  <2> QED
    BY <1>3, <2>1 DEF BInv, Held, OneOfAccount, Listed, Live
<1>9. Running(r)' /\ req'[r].pc # "failed"
  BY <1>1 DEF Running
<1> QED
  BY <1>1, <1>2, <1>4, <1>6, <1>7, <1>8, <1>9 DEF Works

(* A step that only reads the store and ends the operation. *)
LEMMA ReadingEnds ==
  ASSUME DInv, NEW r \in Reqs, Running(r), NEW n \in {Idle, Failed}, Become(r, n),
         UNCHANGED <<config, store, owner, handed>>,
         ~MayAbort => /\ n = Idle
                      /\ \A d \in Scope(req[r]) : Agree(Account(req[r]), d)
  PROVE  Works(r)
<1>1. AInv /\ Frame(r) /\ req'[r] = n
  BY FrameOfReading DEF DInv
<1>2. UNCHANGED <<config, tokenKey, session, list, owner, handed>>
  BY DEF store
<1>3. Hand(req[r])' /\ ~Running(r)' /\ (n = Idle => n.pc # "failed")
  BY <1>1, HandOfIdle DEF Running, Idle, Failed
<1>4. ASSUME ~Multi(config)
      PROVE  /\ OneOfAccount'
             /\ \A l \in LoginIds, d \in Devices : <<l, d>> \in Places(r) => Listed(l, d)'
  <2>1. BInv
    BY <1>4 DEF DInv
  <2> QED
    BY <1>2, <2>1 DEF BInv, Held, OneOfAccount, Listed, Live
<1>5. ASSUME ~MayAbort, NEW l \in LoginIds, NEW d \in Devices, <<l, d>> \in Places(r)
      PROVE  Agree(l, d)'
  BY <1>2, <1>5 DEF Places, Agree, Live
<1> QED
  BY <1>1, <1>3, <1>4, <1>5 DEF Works

-----------------------------------------------------------------------------
(* A loop over the device list between two devices: the ones visited are    *)
(* cleared, the others as the list names them.                              *)
Visiting(p) ==
  /\ IInv
  /\ p \in Request /\ p.login \in LoginIds /\ Reaches(p)
  /\ p.op = "login" => p.device \in Devices
  /\ \A d \in Devices : p.todo[d] # Null => p.todo[d] = list[p.login][d]
  /\ ~Multi(config) => \A d \in Devices :
       /\ Listed(p.login, d)
       /\ p.todo[d] = Null => Clear(p.login, d)
  /\ ~MayAbort => \A d \in Devices :
       IF p.op = "forceLogout" \/ p.todo[d] # Null THEN Agree(p.login, d)
       ELSE session[p.login][d] = Null

Visits(p, n) ==
  /\ n \in Request /\ n.pc \notin {"idle", "failed"}
  /\ n.op = p.op /\ n.login = p.login /\ n.device = p.device
  /\ Hand(n)
  /\ ~Multi(config) => Knows(n)
  /\ ~MayAbort => Leaves(n)

EveryVisit ==
  \A p : Visiting(p) => \A n \in NextDevice(p) :
    \/ Visits(p, n)
    \/ n = Idle /\ p.op = "forceLogout"

LEMMA NextDeviceVisits == EveryVisit
<1> SUFFICES ASSUME NEW p, Visiting(p), NEW n \in NextDevice(p),
                    ~(n = Idle /\ p.op = "forceLogout")
             PROVE  Visits(p, n)
  BY DEF EveryVisit
<1>0. /\ p \in Request /\ p.login \in LoginIds /\ Reaches(p)
      /\ p.op \in {"login", "logoutByLoginId", "forceLogout"}
      /\ p.op = "login" => p.device \in Devices /\ ~config.deviceConcurrent
      /\ p.op \notin TokenOps \cup DeviceOps
  BY DEF Visiting, Reaches, AccountOps, TokenOps, DeviceOps
<1>1. ASSUME NEW a \in Devices, p.todo[a] # Null,
             n = [p EXCEPT !.pc = LoopBody(p), !.at = a,
                           !.todo = [p.todo EXCEPT ![a] = Null],
                           !.token = IF p.op = "forceLogout" THEN Null ELSE p.todo[a]]
      PROVE  Visits(p, n)
  <2>1. n \in Request
    BY <1>0, NextDeviceShape
  <2>2. /\ n.op = p.op /\ n.login = p.login /\ n.device = p.device /\ n.at = a
        /\ n.token = (IF p.op = "forceLogout" THEN Null ELSE p.todo[a])
        /\ n.pc = LoopBody(p)
        /\ n.todo = [p.todo EXCEPT ![a] = Null]
    BY <1>0, <1>1 DEF Request
  <2>3. /\ p.op = "login" => n.pc = "readMark"
        /\ p.op = "logoutByLoginId" => n.pc = "dropToken"
        /\ p.op = "forceLogout" => n.pc = "readSession"
    BY <2>2 DEF LoopBody
  <2>4. /\ n.pc \in {"readMark", "dropToken", "readSession"}
        /\ n.pc \notin Clearing \cup Writing \cup Ending
        /\ n.pc # "readSession" => n.pc \in Revoking
    BY <1>0, <2>3 DEF Clearing, Writing, Ending, Revoking
  <2>5. /\ p.todo[a] = list[p.login][a] /\ p.todo[a] \in Tokens
        /\ owner[p.todo[a]] = <<p.login, a>> /\ owner[p.todo[a]] # Null
    <3>1. p.todo[a] = list[p.login][a]
      BY <1>1 DEF Visiting
    <3>2. list[p.login][a] \in Tokens \cup {Null}
      BY <1>0 DEF Visiting, IInv, TypeOK, Index
    <3>3. owner[list[p.login][a]] = <<p.login, a>>
      BY <1>0, <1>1, <3>1 DEF Visiting, IInv, Ownership
    <3> QED
      BY <1>0, <1>1, <3>1, <3>2, <3>3, ValuesAssumption
  <2>6. n.todo[a] = Null /\ \A d \in Devices : d # a => n.todo[d] = p.todo[d]
    BY <1>0, <2>2 DEF Request, Index
  <2>7. Reaches(n) /\ Path(n) /\ Scope(n) = Devices /\ Account(n) = p.login
    <3>1. Reaches(n)
      BY <1>0, <2>2 DEF Reaches
    <3>2. Path(n)
      BY <1>0, <2>2, <2>3, ValuesAssumption DEF Path, AllOps, AccountOps, TokenOps, DeviceOps, Revoking
    <3> QED
      BY <1>0, <2>2, <3>1, <3>2 DEF Reaches, Scope, Account
  <2>8. Hand(n)
    <3>1. \A d \in Devices : n.todo[d] # Null =>
            /\ Reaches(n) /\ n.todo[d] = list[n.login][d] /\ d # n.at
            /\ n.pc \in Revoking \cup Clearing
                 \/ (n.op = "forceLogout" /\ n.pc = "readSession")
      BY <1>0, <2>2, <2>3, <2>4, <2>6, <2>7 DEF Visiting
    <3>2. n.pc \in Revoking => p.op # "forceLogout"
      BY <2>3 DEF Revoking
    <3>3. n.pc \notin {"casMark", "idle", "failed", "readMapped", "writeToken", "readAdd", "casAdd"}
          /\ n.login # Null
      BY <1>0, <2>2, <2>4, ValuesAssumption
    <3> QED
      BY <1>0, <2>2, <2>4, <2>5, <2>7, <3>1, <3>2, <3>3 DEF Hand
  <2>9. ASSUME ~Multi(config) PROVE Knows(n)
    <3>1. \A d \in Devices : Cleared(n, d) => Clear(p.login, d)
      BY <1>0, <2>2, <2>4, <2>6, <2>9 DEF Visiting, Cleared
    <3>2. Sole(p.login, a, p.todo[a])
      BY <2>5, <2>9 DEF Visiting, Listed, Sole
    <3> QED
      BY <1>0, <2>2, <2>3, <2>4, <2>7, <3>1, <3>2 DEF Knows, Revoking
  <2>10. ASSUME ~MayAbort PROVE Leaves(n)
    <3>1. \A d \in Devices : /\ Settled(n, d) => Agree(p.login, d)
                             /\ Emptied(n, d) => session[p.login][d] = Null
      BY <1>0, <2>2, <2>3, <2>4, <2>6, <2>10 DEF Visiting, Settled, Emptied
    <3>2. Agree(p.login, a)
      BY <1>1, <2>10 DEF Visiting
    <3>3. session[p.login][a] = p.todo[a] /\ list[p.login][a] = p.todo[a] /\ Live(p.todo[a])
      BY <1>1, <2>5, <3>2 DEF Agree
    <3> QED
      BY <1>0, <2>2, <2>3, <2>4, <2>7, <3>1, <3>3 DEF Leaves, Revoking
  <2> QED
    BY <2>1, <2>2, <2>4, <2>8, <2>9, <2>10 DEF Visits
<1>2. ASSUME \A d \in Devices : p.todo[d] = Null,
             n = [p EXCEPT !.pc = "dropList", !.at = Null, !.token = Null],
             p.op # "forceLogout"
      PROVE  Visits(p, n)
  <2>1. n \in Request
    BY <1>0, <1>2 DEF Request, PCs
  <2>2. /\ n.op = p.op /\ n.login = p.login /\ n.device = p.device
        /\ n.pc = "dropList" /\ n.todo = p.todo
    BY <1>0, <1>2 DEF Request
  <2>3. Reaches(n) /\ Path(n) /\ Scope(n) = Devices /\ Account(n) = p.login
    <3>1. Reaches(n)
      BY <1>0, <2>2 DEF Reaches
    <3>2. Path(n)
      BY <1>0, <1>2, <2>2, ValuesAssumption DEF Path, AllOps, AccountOps, TokenOps, DeviceOps
    <3> QED
      BY <1>0, <2>2, <3>1, <3>2 DEF Reaches, Scope, Account
  <2>4. Hand(n)
    BY <1>0, <1>2, <2>2, <2>3 DEF Hand, Revoking, Clearing
  <2>5. ~Multi(config) => Knows(n)
    BY <1>0, <1>2, <2>2, <2>3 DEF Visiting, Knows, Revoking, Writing
  <2>6. ~MayAbort => Leaves(n)
    BY <1>0, <1>2, <2>2, <2>3 DEF Visiting, Leaves, Settled, Revoking, Clearing, Writing, Ending
  <2> QED
    BY <2>1, <2>2, <2>4, <2>5, <2>6 DEF Visits
<1> QED
  BY <1>1, <1>2 DEF NextDevice

(* The same of the store as a step leaves it. *)
LEMMA NextDeviceVisitsAfter == EveryVisit'
BY NextDeviceVisits, PTL

-----------------------------------------------------------------------------
(* What is known of a running operation before its next step. *)
LEMMA Before ==
  ASSUME DInv, NEW r \in Reqs, Running(r)
  PROVE  LET q == req[r] IN
         /\ AInv /\ IInv /\ q \in Request /\ Shape(q) /\ Holds(q, owner, config)
         /\ Hand(q) /\ Path(q) /\ q.pc \notin {"idle", "failed"}
         /\ ~Multi(config) => Knows(q) /\ Held(r) /\ OneOfAccount
         /\ ~Multi(config) => \A d \in Scope(q) : Listed(Account(q), d)
         /\ ~MayAbort => Leaves(q)
<1>1. Account(req[r]) \in LoginIds /\ Scope(req[r]) \subseteq Devices
  BY PlaceOf DEF DInv
<1>2. ~Multi(config) => Held(r) /\ OneOfAccount
  BY DEF DInv, BInv
<1>3. ~Multi(config) => \A d \in Scope(req[r]) : Listed(Account(req[r]), d)
  BY <1>1, <1>2 DEF Held, Places
<1> QED
  BY <1>2, <1>3 DEF DInv, AInv, Held, CInv, IInv, TypeOK, Hand, Running

LEMMA ReadMappedWorks ==
  ASSUME DInv, NEW r \in Reqs, ReadMapped(r) PROVE Works(r)
<1> DEFINE q == req[r]
           t == IF tokenKey[q.token] = q.login THEN q.token ELSE Null
           n == [q EXCEPT !.pc = "writeToken", !.token = t]
<1>1. q.pc = "readMapped" /\ Running(r) /\ Become(r, n)
      /\ UNCHANGED <<config, store, owner, handed>>
  BY DEF ReadMapped, Running
<1>2. /\ AInv /\ IInv /\ q \in Request /\ Shape(q) /\ Hand(q) /\ Path(q)
      /\ ~Multi(config) => Knows(q) /\ Held(r) /\ OneOfAccount
      /\ ~MayAbort => Leaves(q) 
  BY <1>1, Before
<1>3. q.op = "login" /\ q.token \in Tokens /\ q.login \in LoginIds /\ config.deviceConcurrent
      /\ q.at = q.device /\ ~Reaches(q)
      /\ q.op \notin TokenOps \cup DeviceOps
  BY <1>1, <1>2 DEF Shape, ByLogin, Path, Hand, Reaches, AccountOps, TokenOps, DeviceOps,
                    Revoking, Writing
<1>4. /\ n \in Request /\ n.pc = "writeToken" /\ n.op = q.op /\ n.login = q.login
      /\ n.device = q.device /\ n.token = t /\ n.at = q.at /\ n.todo = q.todo
  <2>1. t \in Tokens \cup {Null}
    BY <1>3
  <2> HIDE DEF t, q
  <2> QED
    BY <1>2, <2>1 DEF Request, PCs
<1>5. ~Reaches(n)
  BY <1>3, <1>4 DEF Reaches
<1>6. Hand(n)
  BY <1>1, <1>2, <1>3, <1>4, <1>5 DEF Hand, Path, Revoking, Clearing, Writing
<1>7. ASSUME ~Multi(config) PROVE Knows(n)
  <2>1. Sole(q.login, q.at, q.token)
    BY <1>1, <1>2, <1>3, <1>7 DEF Knows
  <2>2. \A u \in handed : owner[u] = <<q.login, q.at>> /\ Live(u) => tokenKey[u] = q.login
    BY <1>2, <1>3 DEF IInv, TypeOK, Ownership
  <2>3. Sole(q.login, q.device, t)
    BY <1>3, <2>1, <2>2 DEF Sole
  <2> QED
    BY <1>1, <1>3, <1>4, <1>5, <2>3 DEF Knows, Cleared, Revoking, Clearing, Ending
<1>8. ~MayAbort => Leaves(n)
  BY <1>3, <1>4, <1>5 DEF Leaves, Settled, Emptied, Revoking, Clearing, Ending
<1> QED
  BY <1>1, <1>3, <1>4, <1>6, <1>7, <1>8, ReadingWorks

LEMMA ReadMarkWorks ==
  ASSUME DInv, NEW r \in Reqs, ReadMark(r) PROVE Works(r)
<1> DEFINE q == req[r]
           v == tokenKey[q.token]
           n == [q EXCEPT !.pc = "casMark", !.seen = v]
<1>1. q.pc = "readMark" /\ Running(r) /\ UNCHANGED <<config, store, owner, handed>>
  BY DEF ReadMark, Running
<1>2. /\ AInv /\ IInv /\ q \in Request /\ Shape(q) /\ Hand(q) /\ Path(q)
      /\ ~Multi(config) => Knows(q)
      /\ ~MayAbort => Leaves(q)
  BY <1>1, Before
<1>3. CASE v = Null /\ Become(r, Failed)
  <2>1. MayAbort
    BY <1>1, <1>2, <1>3, ValuesAssumption DEF Leaves, Live
  <2> QED
    BY <1>1, <1>3, <2>1, ReadingEnds
<1>4. CASE v # Null /\ Become(r, n)
  <2>1. v \in LoginIds \cup Markers /\ q.token \in Tokens /\ q.login \in LoginIds
    BY <1>1, <1>2, <1>4 DEF Shape, IInv, TypeOK
  <2>2. n \in Request
    <3> HIDE DEF v, q
    <3> QED
      BY <1>2, <2>1 DEF Request, PCs
  <2>3. /\ n.pc = "casMark" /\ n.op = q.op /\ n.login = q.login /\ n.device = q.device
        /\ n.token = q.token /\ n.at = q.at /\ n.todo = q.todo /\ n.seen = v
    BY <1>2 DEF Request
  <2>4. Reaches(n) = Reaches(q) /\ Account(n) = Account(q) /\ Scope(n) = Scope(q)
    BY <2>3 DEF Reaches, Account, Scope
  <2>5. Hand(n)
    <3>1. Path(n)
      BY <1>1, <1>2, <2>3 DEF Path, Revoking, Clearing, Writing, Ending
    <3> QED
      BY <1>1, <1>2, <2>3, <2>4, <3>1 DEF Hand, Revoking, Clearing
  <2>6. ~Multi(config) => Knows(n)
    BY <1>1, <1>2, <2>3, <2>4 DEF Knows, Cleared, Revoking, Clearing, Writing, Ending
  <2>7. ~MayAbort => Leaves(n)
    BY <1>1, <1>2, <2>3, <2>4 DEF Leaves, Settled, Emptied, Revoking, Clearing, Writing, Ending
  <2> QED
    BY <1>1, <1>4, <2>2, <2>3, <2>5, <2>6, <2>7, ReadingWorks
<1> QED
  BY <1>3, <1>4 DEF ReadMark

(* A token an operation was given and whose entry names an account. *)
LEMMA ReadTokenWorks ==
  ASSUME DInv, NEW r \in Reqs, ReadToken(r) PROVE Works(r)
<1> DEFINE q == req[r]
           v == tokenKey[q.token]
<1>1. q.pc = "readToken" /\ Running(r) /\ UNCHANGED <<config, store, owner, handed>>
  BY DEF ReadToken, Running
<1>2. /\ AInv /\ IInv /\ q \in Request /\ Shape(q) /\ Hand(q) /\ Path(q)
      /\ ~Multi(config) => Knows(q)
      /\ ~MayAbort => Leaves(q)
  BY <1>1, Before
<1>3. q.op \in TokenOps /\ q.op \notin DeviceOps /\ ~Reaches(q) /\ q.op # "login"
      /\ q.token \in Tokens /\ owner[q.token] # Null
  BY <1>1, <1>2 DEF Path, Hand, Request, AllOps, AccountOps, TokenOps, DeviceOps, Reaches,
                    Revoking, Clearing, Writing, Ending
<1>4. ~MayAbort => \A d \in Scope(q) : Agree(Account(q), d)
  BY <1>1, <1>2 DEF Leaves, Settled
<1>5. CASE Become(r, Idle)
  BY <1>1, <1>4, <1>5, ReadingEnds
<1>6. CASE v \in Markers /\ q.op = "logout" /\ Become(r, [q EXCEPT !.pc = "dropToken"])
  <2> DEFINE n == [q EXCEPT !.pc = "dropToken"]
  <2>1. n \in Request
    BY <1>2 DEF Request, PCs
  <2>2. /\ n.pc = "dropToken" /\ n.op = q.op /\ n.login = q.login /\ n.device = q.device
        /\ n.token = q.token /\ n.at = q.at /\ n.todo = q.todo
    BY <1>2 DEF Request
  <2>3. ~Reaches(n) /\ Account(n) = Account(q) /\ Scope(n) = Scope(q)
    BY <1>3, <2>2 DEF Reaches, Account, Scope
  <2>4. ~Live(q.token)
    BY <1>6, ValuesAssumption DEF Live
  <2>5. Hand(n)
    <3>1. Path(n)
      BY <1>2, <1>6, <2>2, ValuesAssumption DEF Path, Revoking, TokenOps, DeviceOps, AllOps
    <3> QED
      BY <1>1, <1>2, <1>3, <2>2, <2>3, <2>4, <3>1 DEF Hand, Revoking, Clearing
  <2>6. Knows(n)
    BY <1>3, <2>2, <2>3 DEF Knows, Cleared, Revoking, Clearing, Writing, Ending
  <2>7. ~MayAbort => Leaves(n)
    BY <1>3, <1>4, <2>2, <2>3 DEF Leaves, Settled, Emptied, Revoking, Clearing, Writing, Ending
  <2> QED
    BY <1>1, <1>3, <1>6, <2>1, <2>2, <2>5, <2>6, <2>7, ReadingWorks
<1>7. ASSUME v \in LoginIds,
             Become(r, [q EXCEPT !.login = v,
                                 !.pc = IF q.op = "logout" THEN "dropToken" ELSE "readMark"])
      PROVE  Works(r)
  <2> DEFINE p == IF q.op = "logout" THEN "dropToken" ELSE "readMark"
             n == [q EXCEPT !.login = v, !.pc = p]
  <2>1. p \in {"dropToken", "readMark"} /\ p \in PCs
        /\ (q.op = "logout" => p = "dropToken") /\ (q.op # "logout" => p = "readMark")
    BY DEF PCs
  <2>2. n \in Request
    <3> HIDE DEF p, q, v
    <3> QED
      BY <1>2, <1>7, <2>1 DEF Request
  <2>3. /\ n.pc = p /\ n.op = q.op /\ n.login = v /\ n.device = q.device
        /\ n.token = q.token /\ n.at = q.at /\ n.todo = q.todo
    <3> HIDE DEF p, v
    <3> QED
      BY <1>2 DEF Request
  <2>4. ~Reaches(n) /\ Account(n) = Account(q) /\ Scope(n) = Scope(q)
    BY <1>3, <2>3 DEF Reaches, Account, Scope
  <2>5. Live(q.token) /\ v = owner[q.token][1] /\ v # Null
    BY <1>2, <1>3, <1>7, ValuesAssumption DEF Live, IInv, Ownership
  <2> HIDE DEF p
  <2>6. Hand(n)
    <3>1. Path(n)
      BY <1>2, <1>3, <2>1, <2>3, ValuesAssumption DEF Path, Revoking, TokenOps, DeviceOps, AllOps
    <3> QED
      BY <1>1, <1>2, <1>3, <2>1, <2>3, <2>4, <2>5, <3>1 DEF Hand, Revoking, Clearing
  <2>7. Knows(n)
    BY <1>3, <2>1, <2>3, <2>4 DEF Knows, Cleared, Revoking, Clearing, Writing, Ending
  <2>8. ~MayAbort => Leaves(n)
    BY <1>3, <1>4, <2>1, <2>3, <2>4, <2>5
       DEF Leaves, Settled, Emptied, Revoking, Clearing, Writing, Ending
  <2> QED
    BY <1>1, <1>3, <1>7, <2>1, <2>2, <2>3, <2>6, <2>7, <2>8, ReadingWorks DEF p
<1> QED
  BY <1>5, <1>6, <1>7 DEF ReadToken

LEMMA FindDeviceWorks ==
  ASSUME DInv, NEW r \in Reqs, FindDevice(r) PROVE Works(r)
<1> DEFINE q == req[r]
           found == {d \in Devices : list[q.login][d] = q.token}
<1>1. q.pc = "findDevice" /\ Running(r) /\ UNCHANGED <<config, store, owner, handed>>
  BY DEF FindDevice, Running
<1>2. /\ AInv /\ IInv /\ q \in Request /\ Shape(q) /\ Hand(q) /\ Path(q)
      /\ ~Multi(config) => Knows(q) /\ Held(r) /\ OneOfAccount
      /\ ~Multi(config) => \A d \in Scope(q) : Listed(Account(q), d)
      /\ ~MayAbort => Leaves(q)
  BY <1>1, Before
<1>3. q.op \in TokenOps /\ q.op \notin DeviceOps /\ ~Reaches(q) /\ q.op # "login"
      /\ q.token \in Tokens /\ owner[q.token] # Null /\ q.login \in LoginIds
  BY <1>1, <1>2 DEF Path, Hand, Shape, Request, AllOps, AccountOps, TokenOps, DeviceOps,
                    Reaches, Revoking, Clearing, Writing, Ending
<1>4. /\ owner[q.token] = <<q.login, owner[q.token][2]>> /\ Account(q) = q.login
      /\ Scope(q) = {owner[q.token][2]} /\ owner[q.token][2] \in Devices
  BY <1>1, <1>2, <1>3, PlaceOf, ValuesAssumption
<1>5. ASSUME NEW d \in found, Become(r, [q EXCEPT !.pc = "dropSession", !.at = d])
      PROVE  Works(r)
  <2> DEFINE n == [q EXCEPT !.pc = "dropSession", !.at = d]
  <2>1. n \in Request
    BY <1>2 DEF Request, PCs
  <2>2. /\ n.pc = "dropSession" /\ n.op = q.op /\ n.login = q.login /\ n.device = q.device
        /\ n.token = q.token /\ n.at = d /\ n.todo = q.todo
    BY <1>2 DEF Request
  <2>3. ~Reaches(n) /\ Account(n) = Account(q) /\ Scope(n) = Scope(q)
    BY <1>3, <2>2 DEF Reaches, Account, Scope
  <2>4. owner[q.token] = <<q.login, d>> /\ list[q.login][d] = q.token
    BY <1>2, <1>3, ValuesAssumption DEF IInv, Ownership
  <2>5. Hand(n)
    <3>1. Path(n)
      BY <1>2, <1>3, <2>2 DEF Path, Clearing
    <3> QED
      BY <1>1, <1>2, <1>3, <1>4, <2>2, <2>3, <2>4, <3>1 DEF Hand, Revoking, Clearing
  <2>6. ASSUME ~Multi(config) PROVE Knows(n)
    <3>1. Clear(q.login, d)
      <4>1. \A u \in handed : owner[u] = <<q.login, d>> /\ Live(u) => u = q.token
        BY <1>2, <1>4, <2>4, <2>6 DEF Listed
      <4>2. ~Live(q.token)
        BY <1>1, <1>2, <1>3, <2>6 DEF Knows
      <4> QED
        BY <4>1, <4>2 DEF Clear
    <3> QED
      BY <1>1, <1>2, <1>3, <1>4, <2>2, <2>3, <2>6, <3>1
         DEF Knows, Cleared, Revoking, Clearing, Writing, Ending
  <2>7. ~MayAbort => Leaves(n)
    BY <1>3, <2>2, <2>3 DEF Leaves, Settled, Emptied, Revoking, Clearing, Writing, Ending
  <2> QED
    BY <1>1, <1>3, <1>5, <2>1, <2>2, <2>5, <2>6, <2>7, ReadingWorks
<1>6. ASSUME found = {}, ~MayAbort, NEW d \in Scope(q)
      PROVE  Agree(Account(q), d)
  <2>1. /\ session[q.login][d] = list[q.login][d]
        /\ session[q.login][d] \notin {Null, q.token} => Live(session[q.login][d])
    BY <1>1, <1>2, <1>3, <1>6 DEF Leaves
  <2>2. list[q.login][d] # q.token
    BY <1>4, <1>6
  <2> QED
    BY <1>4, <2>1, <2>2 DEF Agree
<1>7. CASE found = {} /\ q.op # "logout" /\ Become(r, Idle)
  BY <1>1, <1>6, <1>7, ReadingEnds
<1>8. CASE found = {} /\ q.op = "logout" /\ Become(r, [q EXCEPT !.pc = "countList"])
  <2> DEFINE n == [q EXCEPT !.pc = "countList"]
  <2>1. n \in Request
    BY <1>2 DEF Request, PCs
  <2>2. /\ n.pc = "countList" /\ n.op = q.op /\ n.login = q.login /\ n.device = q.device
        /\ n.token = q.token /\ n.at = q.at /\ n.todo = q.todo
    BY <1>2 DEF Request
  <2>3. ~Reaches(n) /\ Account(n) = Account(q) /\ Scope(n) = Scope(q)
    BY <1>3, <2>2 DEF Reaches, Account, Scope
  <2>4. Hand(n)
    <3>1. Path(n)
      BY <1>2, <1>3, <2>2, Kinds DEF Path, Ending, AccountOps
    <3> QED
      BY <1>1, <1>2, <1>3, <1>4, <2>2, <2>3, <3>1 DEF Hand, Revoking, Clearing
  <2>5. ~Multi(config) => Knows(n)
    BY <1>1, <1>2, <1>3, <2>2, <2>3 DEF Knows, Cleared, Revoking, Clearing, Writing, Ending
  <2>6. ~MayAbort => Leaves(n)
    BY <1>3, <1>6, <1>8, <2>2, <2>3 DEF Leaves, Settled, Emptied, Revoking, Clearing, Writing, Ending
  <2> QED
    BY <1>1, <1>3, <1>8, <2>1, <2>2, <2>4, <2>5, <2>6, ReadingWorks
<1> QED
  BY <1>5, <1>7, <1>8 DEF FindDevice

LEMMA CountListWorks ==
  ASSUME DInv, NEW r \in Reqs, CountList(r) PROVE Works(r)
<1> DEFINE q == req[r]
           n == [q EXCEPT !.pc = "dropData"]
<1>1. q.pc = "countList" /\ Running(r) /\ UNCHANGED <<config, store, owner, handed>>
      /\ (Become(r, n) \/ Become(r, Idle))
  BY DEF CountList, Running
<1>2. /\ AInv /\ IInv /\ q \in Request /\ Shape(q) /\ Hand(q) /\ Path(q)
      /\ ~Multi(config) => Knows(q)
      /\ ~MayAbort => Leaves(q)
  BY <1>1, Before
<1>3. ~MayAbort => \A d \in Scope(q) : Agree(Account(q), d)
  BY <1>1, <1>2 DEF Leaves, Settled, Ending
<1>4. CASE Become(r, n)
  <2>1. n \in Request
    BY <1>2 DEF Request, PCs
  <2>2. /\ n.pc = "dropData" /\ n.op = q.op /\ n.login = q.login /\ n.device = q.device
        /\ n.token = q.token /\ n.at = q.at /\ n.todo = q.todo
    BY <1>2 DEF Request
  <2>3. q.op \in TokenOps \cup DeviceOps /\ ~Reaches(q)
    BY <1>1, <1>2 DEF Path, Request, AllOps, AccountOps, TokenOps, DeviceOps, Reaches,
                      Revoking, Clearing, Writing, Ending
  <2>4. ~Reaches(n) /\ Account(n) = Account(q) /\ Scope(n) = Scope(q)
    BY <2>2, <2>3 DEF Reaches, Account, Scope
  <2>5. Hand(n)
    <3>1. Path(n)
      <4>1. q.op \notin AccountOps \cup {"login", Null}
        BY <2>3, Kinds
      <4> QED
        BY <1>2, <2>2, <2>3, <4>1 DEF Path, Ending, AccountOps
    <3> QED
      BY <1>1, <1>2, <2>2, <2>4, <3>1 DEF Hand, Revoking, Clearing
  <2>6. ~Multi(config) => Knows(n)
    BY <1>1, <1>2, <2>2, <2>3, <2>4 DEF Knows, Cleared, Revoking, Clearing, Writing, Ending
  <2>7. ~MayAbort => Leaves(n)
    BY <1>3, <2>2, <2>4 DEF Leaves, Settled, Emptied, Revoking, Clearing, Writing, Ending
  <2> QED
    BY <1>1, <1>4, <2>1, <2>2, <2>5, <2>6, <2>7, ReadingWorks
<1>5. CASE Become(r, Idle)
  BY <1>1, <1>3, <1>5, ReadingEnds
<1> QED
  BY <1>1, <1>4, <1>5

LEMMA ReadAddWorks ==
  ASSUME DInv, NEW r \in Reqs, ReadAdd(r) PROVE Works(r)
<1> DEFINE q == req[r]
           n == [q EXCEPT !.pc = "casAdd", !.old = list[q.login]]
<1>1. q.pc = "readAdd" /\ Running(r) /\ Become(r, n)
      /\ UNCHANGED <<config, store, owner, handed>>
  BY DEF ReadAdd, Running
<1>2. /\ AInv /\ IInv /\ q \in Request /\ Shape(q) /\ Hand(q) /\ Path(q)
      /\ ~Multi(config) => Knows(q)
      /\ ~MayAbort => Leaves(q)
  BY <1>1, Before
<1>3. q.op = "login" /\ q.op \notin TokenOps \cup DeviceOps \cup AccountOps
      /\ q.login \in LoginIds
  BY <1>1, <1>2, Kinds DEF Shape, ByLogin
<1>4. n \in Request
  <2>1. list[q.login] \in Index
    BY <1>2, <1>3 DEF IInv, TypeOK
  <2> QED
    BY <1>2, <2>1 DEF Request, PCs
<1>5. /\ n.pc = "casAdd" /\ n.op = q.op /\ n.login = q.login /\ n.device = q.device
      /\ n.token = q.token /\ n.at = q.at /\ n.todo = q.todo
  BY <1>2 DEF Request
<1>6. Reaches(n) = Reaches(q) /\ Account(n) = Account(q) /\ Scope(n) = Scope(q)
  BY <1>5 DEF Reaches, Account, Scope
<1>7. Hand(n)
  <2>1. Path(n)
    BY <1>2, <1>3, <1>5 DEF Path, AccountOps, Writing
  <2> QED
    BY <1>1, <1>2, <1>3, <1>5, <1>6, <2>1 DEF Hand, Revoking, Clearing
<1>8. ~Multi(config) => Knows(n)
  BY <1>1, <1>2, <1>3, <1>5, <1>6 DEF Knows, Cleared, Revoking, Clearing, Writing, Ending
<1>9. ~MayAbort => Leaves(n)
  BY <1>1, <1>2, <1>3, <1>5, <1>6 DEF Leaves, Settled, Emptied, Revoking, Clearing, Writing, Ending
<1> QED
  BY <1>1, <1>4, <1>5, <1>7, <1>8, <1>9, ReadingWorks

LEMMA ReadSessionWorks ==
  ASSUME DInv, NEW r \in Reqs, ReadSession(r) PROVE Works(r)
<1> DEFINE q == req[r]
           s == session[q.login][q.at]
<1>1. q.pc = "readSession" /\ Running(r) /\ UNCHANGED <<config, store, owner, handed>>
  BY DEF ReadSession, Running
<1>2. /\ AInv /\ IInv /\ q \in Request /\ Shape(q) /\ Hand(q) /\ Path(q)
      /\ ~Multi(config) => Knows(q) /\ Held(r) /\ OneOfAccount
      /\ ~Multi(config) => \A d \in Scope(q) : Listed(Account(q), d)
      /\ ~MayAbort => Leaves(q)
  BY <1>1, Before
<1>3. /\ q.op \in DeviceOps \cup {"login", "forceLogout"} /\ q.op \notin TokenOps
      /\ q.login \in LoginIds /\ q.at \in Devices
      /\ q.op = "login" => q.token = Null /\ q.at = q.device
  <2>1. q.op \notin TokenOps /\ q.op # "logoutByLoginId"
    BY <1>1, <1>2 DEF Path, Revoking, Clearing, Ending
  <2> QED
    BY <1>1, <1>2, <2>1 DEF Path, Shape, Request, AllOps, AccountOps
<1>4. Account(q) = q.login /\ q.at \in Scope(q)
  <2>1. q.op \in DeviceOps => q.device = q.at /\ q.op \notin AccountOps \cup {"login"}
    BY <1>2, Kinds DEF Hand
  <2> QED
    BY <1>3, <2>1 DEF Account, Scope, AccountOps
<1>5. s \in Tokens \cup {Null} /\ (s # Null => owner[s] = <<q.login, q.at>> /\ owner[s] # Null)
  <2>1. session[q.login] \in Index
    BY <1>2, <1>3 DEF IInv, TypeOK
  <2>2. s # Null => owner[s] = <<q.login, q.at>>
    BY <1>2, <1>3 DEF IInv, Ownership
  <2>3. <<q.login, q.at>> # Null
    BY <1>3, ValuesAssumption
  <2> QED
    BY <1>3, <2>1, <2>2, <2>3 DEF Index
<1>6. ~MayAbort => \A d \in Scope(q) : Agree(q.login, d)
  BY <1>1, <1>2, <1>4 DEF Leaves, Settled
<1>7. ~MayAbort /\ s # Null =>
        session[q.login][q.at] = s /\ list[q.login][q.at] = s /\ Live(s)
  BY <1>4, <1>6 DEF Agree
<1>8. ~Multi(config) => Sole(q.login, q.at, s)
  BY <1>2, <1>4 DEF Listed, Sole
<1>9. \A d \in Devices : q.todo[d] # Null => q.op = "forceLogout"
  BY <1>1, <1>2 DEF Hand, Revoking, Clearing
<1>10. ASSUME NEW n \in Request, Become(r, n), q.op = "login",
              n.op = q.op, n.login = q.login, n.device = q.device, n.at = q.at,
              n.todo = q.todo,
              \/ n.pc = "readAll" /\ n.token = Null /\ ~config.deviceConcurrent
              \/ /\ n.pc \in {"readMark", "readMapped"} /\ n.token = s /\ s # Null
                 /\ config.deviceConcurrent
              \/ n.pc = "writeToken" /\ n.token = Null /\ config.deviceConcurrent
                 /\ (~Multi(config) => s = Null)
       PROVE  Works(r)
  <2>1. Reaches(n) = Reaches(q) /\ Account(n) = q.login /\ Scope(n) = Scope(q)
        /\ (Reaches(n) <=> ~config.deviceConcurrent)
    BY <1>4, <1>10, Kinds DEF Reaches, Account, Scope
  <2>2. Hand(n)
    <3>1. Path(n)
      BY <1>10, Kinds DEF Path, AccountOps, Writing
    <3> QED
      BY <1>3, <1>5, <1>9, <1>10, <3>1, Kinds DEF Hand, Revoking, Clearing
  <2>3. ASSUME ~Multi(config) PROVE Knows(n)
    <3>1. \A d : ~Cleared(n, d)
      BY <1>10, <2>1, Kinds DEF Cleared, Revoking, Clearing, Writing, Ending
    <3> QED
      BY <1>3, <1>8, <1>10, <2>1, <2>3, <3>1, Kinds DEF Knows, Revoking, Writing
  <2>4. ASSUME ~MayAbort PROVE Leaves(n)
    <3>1. \A d : ~Emptied(n, d)
      BY <1>10, <2>1, Kinds DEF Emptied, Revoking, Clearing
    <3> QED
      BY <1>3, <1>6, <1>7, <1>10, <2>1, <2>4, <3>1, Kinds DEF Leaves, Revoking
  <2> QED
    BY <1>1, <1>3, <1>10, <2>2, <2>3, <2>4, ReadingWorks
<1>11. CASE q.op = "login" /\ Become(r, LoginBranch(q, s))
  <2> DEFINE n == LoginBranch(q, s)
  <2>1. /\ n \in Request /\ n.op = q.op /\ n.login = q.login /\ n.device = q.device
        /\ n.at = q.at /\ n.todo = q.todo
        /\ \/ n.pc = "readAll" /\ n.token = q.token /\ ~config.deviceConcurrent
           \/ /\ n.pc \in {"readMark", "readMapped"} /\ n.token = s /\ s # Null
              /\ config.deviceConcurrent
           \/ n.pc = "writeToken" /\ n.token = q.token /\ config.deviceConcurrent
              /\ (s = Null \/ (config.isConcurrent /\ ~config.isShare))
    <3> HIDE DEF q, s
    <3> QED
      BY <1>2, <1>5 DEF LoginBranch, Request, PCs
  <2> HIDE DEF n
  <2> QED
    BY <1>3, <1>10, <1>11, <2>1 DEF Multi, n
<1>12. CASE q.op \in DeviceOps /\ s = Null /\ Become(r, Idle)
  BY <1>1, <1>4, <1>6, <1>12, ReadingEnds
<1>13. ASSUME q.op = "forceLogout", s = Null, NEW n \in NextDevice(q), Become(r, n)
       PROVE  Works(r)
  <2>1. Reaches(q) /\ Scope(q) = Devices
    BY <1>13 DEF Reaches, Scope, AccountOps
  <2>2. ASSUME ~Multi(config), NEW d \in Devices
        PROVE  Listed(q.login, d) /\ (q.todo[d] = Null => Clear(q.login, d))
    <3>1. Listed(q.login, d)
      BY <1>2, <1>4, <2>1, <2>2
    <3>2. CASE d = q.at
      BY <1>2, <1>8, <1>13, <2>2, <3>1, <3>2, ValuesAssumption
         DEF Sole, Clear, IInv, TypeOK
    <3>3. CASE d # q.at
      BY <1>1, <1>2, <1>4, <1>13, <2>1, <2>2, <3>1, <3>3 DEF Knows, Cleared
    <3> QED
      BY <3>2, <3>3, <3>1
  <2>3. Visiting(q)
    BY <1>2, <1>3, <1>6, <1>13, <2>1, <2>2 DEF Visiting, Hand
  <2>4. Visits(q, n) \/ n = Idle
    BY <1>13, <2>3, NextDeviceVisits DEF EveryVisit
  <2>5. CASE Visits(q, n)
    BY <1>1, <1>3, <1>13, <2>5, ReadingWorks DEF Visits
  <2>6. CASE n = Idle
    BY <1>1, <1>4, <1>6, <1>13, <2>6, ReadingEnds
  <2> QED
    BY <2>4, <2>5, <2>6
<1>14. ASSUME q.op # "login", s # Null,
              Become(r, [q EXCEPT !.token = s,
                                  !.pc = IF q.op = "logoutByDevice" THEN "dropToken"
                                         ELSE "readMark"])
       PROVE  Works(r)
  <2> DEFINE p == IF q.op = "logoutByDevice" THEN "dropToken" ELSE "readMark"
             n == [q EXCEPT !.token = s, !.pc = p]
  <2>1. p \in {"dropToken", "readMark"} /\ p \in PCs /\ p \in Revoking
        /\ (q.op = "forceLogout" => p = "readMark")
    BY DEF PCs, Revoking
  <2>2. /\ n \in Request /\ n.pc = p /\ n.op = q.op /\ n.login = q.login
        /\ n.device = q.device /\ n.token = s /\ n.at = q.at /\ n.todo = q.todo
    <3> HIDE DEF p, q, s
    <3> QED
      BY <1>2, <1>5, <2>1 DEF Request
  <2> HIDE DEF p
  <2>3. Reaches(n) = Reaches(q) /\ Account(n) = q.login /\ Scope(n) = Scope(q)
        /\ (Reaches(n) <=> q.op = "forceLogout")
    BY <1>3, <1>4, <1>14, <2>2, Kinds DEF Reaches, Account, Scope, AccountOps
  <2>4. Hand(n)
    <3>1. Path(n)
      BY <1>3, <1>14, <2>1, <2>2, Kinds DEF Path, AccountOps, TokenOps
    <3> QED
      BY <1>2, <1>3, <1>5, <1>9, <1>14, <2>1, <2>2, <2>3, <3>1, ValuesAssumption DEF Hand
  <2>5. ASSUME ~Multi(config) PROVE Knows(n)
    <3>1. \A d : Cleared(n, d) => Cleared(q, d)
      BY <1>1, <2>1, <2>2, <2>3 DEF Cleared, Revoking, Clearing, Writing, Ending
    <3> QED
      BY <1>2, <1>3, <1>4, <1>8, <2>1, <2>2, <2>3, <2>5, <3>1
         DEF Knows, Revoking, Writing
  <2>6. ASSUME ~MayAbort PROVE Leaves(n)
    <3>1. \A d : ~Emptied(n, d)
      BY <2>1, <2>2, <2>3 DEF Emptied
    <3> QED
      BY <1>3, <1>6, <1>7, <1>14, <2>1, <2>2, <2>3, <2>6, <3>1 DEF Leaves
  <2> QED
    BY <1>1, <1>3, <1>14, <2>1, <2>2, <2>4, <2>5, <2>6, ReadingWorks DEF p
<1> QED
  BY <1>11, <1>12, <1>13, <1>14 DEF ReadSession

LEMMA ReadAllWorks ==
  ASSUME DInv, NEW r \in Reqs, ReadAll(r) PROVE Works(r)
<1> DEFINE q == req[r]
           p == [q EXCEPT !.todo = list[q.login]]
<1>1. q.pc = "readAll" /\ Running(r) /\ UNCHANGED <<config, store, owner, handed>>
  BY DEF ReadAll, Running
<1>2. /\ AInv /\ IInv /\ q \in Request /\ Shape(q) /\ Hand(q) /\ Path(q)
      /\ ~Multi(config) => Knows(q) /\ Held(r) /\ OneOfAccount
      /\ ~Multi(config) => \A d \in Scope(q) : Listed(Account(q), d)
      /\ ~MayAbort => Leaves(q)
  BY <1>1, Before
<1>3. /\ q.op \in AccountOps \cup {"login"} /\ Reaches(q)
      /\ q.op \notin TokenOps \cup DeviceOps /\ q.login \in LoginIds
      /\ q.op = "login" => q.token = Null /\ q.device \in Devices /\ ~config.deviceConcurrent
  <2>1. q.op \in AccountOps \cup {"login"}
    BY <1>1, <1>2 DEF Shape, AccountOps
  <2>2. q.op = "login" => ~config.deviceConcurrent
    BY <1>1, <1>2 DEF Path, Writing
  <2> QED
    BY <1>1, <1>2, <2>1, <2>2, Kinds DEF Shape, Reaches
<1>4. Account(q) = q.login /\ Scope(q) = Devices
  BY <1>3 DEF Account, Scope, Reaches
<1>5. ~MayAbort => \A d \in Devices : Agree(q.login, d)
  BY <1>1, <1>2, <1>4 DEF Leaves, Settled
<1>6. ~Multi(config) => \A d \in Devices :
        /\ Listed(q.login, d)
        /\ list[q.login][d] = Null => Clear(q.login, d)
  <2>1. \A u \in handed : u # Null
    BY <1>2, ValuesAssumption DEF IInv, TypeOK
  <2> QED
    BY <1>2, <1>4, <2>1 DEF Listed, Clear
<1>7. \A d \in Devices : q.todo[d] = Null
  BY <1>1, <1>2 DEF Hand, Revoking, Clearing
<1>8. CASE list[q.login] = Empty /\ q.op # "login" /\ Become(r, Idle)
  BY <1>1, <1>4, <1>5, <1>8, ReadingEnds
<1>9. CASE list[q.login] = Empty /\ q.op = "login" /\ Become(r, [q EXCEPT !.pc = "writeToken"])
  <2> DEFINE n == [q EXCEPT !.pc = "writeToken"]
  <2>1. /\ n \in Request /\ n.pc = "writeToken" /\ n.op = q.op /\ n.login = q.login
        /\ n.device = q.device /\ n.token = Null /\ n.at = q.at /\ n.todo = q.todo
    BY <1>2, <1>3, <1>9 DEF Request, PCs
  <2>2. Reaches(n) /\ Account(n) = q.login /\ Scope(n) = Devices
    BY <1>3, <1>4, <2>1 DEF Reaches, Account, Scope
  <2>3. \A d \in Devices : list[q.login][d] = Null
    BY <1>9 DEF Empty
  <2>4. Hand(n)
    <3>1. Path(n)
      BY <1>9, <2>1, Kinds DEF Path, AccountOps, Writing
    <3> QED
      BY <1>3, <1>7, <1>9, <2>1, <2>2, <3>1 DEF Hand, Revoking, Clearing
  <2>5. ASSUME ~Multi(config) PROVE Knows(n)
    <3>1. \A d \in Devices : Clear(q.login, d)
      BY <1>6, <2>3, <2>5
    <3> QED
      BY <1>3, <1>9, <2>1, <2>2, <3>1 DEF Knows, Clear, Sole, Revoking, Writing
  <2>6. ASSUME ~MayAbort PROVE Leaves(n)
    <3>1. \A d : ~Emptied(n, d)
      BY <2>1 DEF Emptied, Revoking, Clearing
    <3> QED
      BY <1>3, <1>5, <1>9, <2>1, <2>2, <2>6, <3>1 DEF Leaves, Revoking
  <2> QED
    BY <1>1, <1>3, <1>9, <2>1, <2>4, <2>5, <2>6, ReadingWorks
<1>10. ASSUME NEW n \in NextDevice(p), Become(r, n)
       PROVE  Works(r)
  <2>1. /\ p \in Request /\ p.op = q.op /\ p.login = q.login /\ p.device = q.device
        /\ p.todo = list[q.login]
    <3>1. list[q.login] \in Index
      BY <1>2, <1>3 DEF IInv, TypeOK
    <3> QED
      BY <1>2, <3>1 DEF Request
  <2> HIDE DEF p
  <2>2. Reaches(p)
    BY <1>3, <2>1 DEF Reaches
  <2>3. ~MayAbort => \A d \in Devices :
          list[q.login][d] = Null => session[q.login][d] = Null
    BY <1>5 DEF Agree
  <2>4. Visiting(p)
    BY <1>2, <1>3, <1>5, <1>6, <2>1, <2>2, <2>3 DEF Visiting
  <2>5. Visits(p, n) \/ (n = Idle /\ p.op = "forceLogout")
    BY <1>10, <2>4, NextDeviceVisits DEF EveryVisit
  <2>6. CASE Visits(p, n)
    BY <1>1, <1>3, <1>10, <2>1, <2>6, ReadingWorks DEF Visits
  <2>7. CASE n = Idle
    BY <1>1, <1>4, <1>5, <1>10, <2>7, ReadingEnds
  <2> QED
    BY <2>5, <2>6, <2>7
<1> QED
  BY <1>8, <1>9, <1>10 DEF ReadAll

-----------------------------------------------------------------------------
(* The removal from the list: when it is over, the list names no token of   *)
(* the device, and the operation goes on as its kind does.                  *)
Removed(q) ==
  /\ IInv
  /\ q \in Request /\ q.pc \in {"readRemove", "casRemove"} /\ Shape(q) /\ Hand(q)
  /\ list[q.login][q.at] = Null
  /\ ~Multi(config) => Knows(q) /\ \A d \in Scope(q) : Listed(Account(q), d)
  /\ ~MayAbort => Leaves(q)

EveryRemoval ==
  \A q : Removed(q) => \A n \in AfterRemove(q) :
    \/ Visits(q, n) /\ (q.op \in TokenOps => n.token = q.token)
    \/ n = Idle /\ (~MayAbort => \A d \in Scope(q) : Agree(Account(q), d))

LEMMA RemovalGoesOn == EveryRemoval
<1> SUFFICES ASSUME NEW q, Removed(q), NEW n \in AfterRemove(q)
             PROVE  \/ Visits(q, n) /\ (q.op \in TokenOps => n.token = q.token)
                    \/ n = Idle /\ (~MayAbort => \A d \in Scope(q) : Agree(Account(q), d))
  BY DEF EveryRemoval
<1>1. /\ IInv /\ q \in Request /\ q.pc \in {"readRemove", "casRemove"} /\ Shape(q) /\ Hand(q)
      /\ Path(q) /\ list[q.login][q.at] = Null /\ q.login \in LoginIds
      /\ q.pc \in Clearing /\ q.pc \notin Revoking \cup Writing \cup Ending
  BY DEF Removed, Hand, Shape, Clearing, Revoking, Writing, Ending
<1>2. /\ q.op \in TokenOps \cup DeviceOps \cup {"forceLogout"}
      /\ q.op # "login" /\ q.op \notin {"logoutByLoginId"}
  BY <1>1 DEF Path, Request, AllOps, AccountOps, Writing
<1>3. /\ q.op \in TokenOps =>
           owner[q.token] = <<q.login, q.at>> /\ owner[q.token] # Null /\ q.token \in Tokens
      /\ q.op \in DeviceOps => q.device = q.at
  BY <1>1 DEF Hand
<1>4. q.at \in Devices
  <2>1. q.op \in TokenOps => owner[q.token] \in LoginIds \X Devices
    BY <1>1, <1>3 DEF IInv, TypeOK
  <2> QED
    BY <1>1, <1>3, <2>1 DEF Hand
<1>5. /\ Account(q) = q.login
      /\ q.op # "forceLogout" => Scope(q) = {q.at} /\ ~Reaches(q)
      /\ q.op = "forceLogout" => Scope(q) = Devices /\ Reaches(q) /\ q.op \notin TokenOps
  <2>1. CASE q.op \in TokenOps
    BY <1>3, <2>1, Kinds DEF Account, Scope, Reaches, AccountOps
  <2>2. CASE q.op \in DeviceOps
    BY <1>3, <2>2, Kinds DEF Account, Scope, Reaches, AccountOps
  <2>3. CASE q.op = "forceLogout"
    BY <2>3, Kinds DEF Account, Scope, Reaches, AccountOps
  <2> QED
    BY <1>2, <2>1, <2>2, <2>3
<1>6. ~MayAbort => Agree(q.login, q.at)
  BY <1>1, <1>4, <1>5, ValuesAssumption DEF Removed, Leaves, Emptied, Agree
<1>7. ~Multi(config) => Clear(q.login, q.at)
  BY <1>1, <1>4, <1>5 DEF Removed, Knows, Cleared
<1>8. CASE q.op = "forceLogout"
  <2> DEFINE p == [q EXCEPT !.old = Empty]
  <2>1. /\ p \in Request /\ p.op = q.op /\ p.login = q.login /\ p.device = q.device
        /\ p.todo = q.todo
    <3>1. Empty \in Index
      BY DEF Empty, Index
    <3> QED
      BY <1>1, <3>1 DEF Request
  <2>2. n \in NextDevice(p)
    BY <1>8 DEF AfterRemove
  <2> HIDE DEF p
  <2>3. ASSUME ~Multi(config), NEW d \in Devices
        PROVE  Listed(q.login, d) /\ (q.todo[d] = Null => Clear(q.login, d))
    BY <1>1, <1>5, <1>7, <1>8, <2>3 DEF Removed, Knows, Cleared
  <2>4. ASSUME ~MayAbort, NEW d \in Devices PROVE Agree(q.login, d)
    BY <1>1, <1>5, <1>6, <1>8, <2>4 DEF Removed, Leaves, Settled
  <2>5. Visiting(p)
    <3>1. Reaches(p)
      BY <1>5, <1>8, <2>1 DEF Reaches
    <3>2. \A d \in Devices : p.todo[d] # Null => p.todo[d] = list[p.login][d]
      BY <1>1, <2>1 DEF Hand
    <3> QED
      BY <1>1, <1>2, <1>8, <2>1, <2>3, <2>4, <3>1, <3>2 DEF Visiting
  <2>6. Visits(p, n) \/ n = Idle
    BY <2>2, <2>5, NextDeviceVisits DEF EveryVisit
  <2>7. Visits(p, n) => Visits(q, n)
    BY <2>1 DEF Visits
  <2> QED
    BY <1>5, <1>8, <2>4, <2>6, <2>7
<1>9. CASE q.op \in {"logout", "kickout"} /\ n = [q EXCEPT !.pc = "countList", !.old = Empty]
  <2>1. /\ n \in Request /\ n.pc = "countList" /\ n.op = q.op /\ n.login = q.login
        /\ n.device = q.device /\ n.token = q.token /\ n.at = q.at /\ n.todo = q.todo
    <3>1. Empty \in Index
      BY DEF Empty, Index
    <3>2. n \in Request
      <4>1. q \in Request /\ "countList" \in PCs
        BY <1>1 DEF PCs
      <4>2. [q EXCEPT !.pc = "countList", !.old = Empty] \in Request
        BY <3>1, <4>1 DEF Request
      <4> QED
        BY <1>9, <4>2
    <3>3. /\ n.pc = "countList" /\ n.op = q.op /\ n.login = q.login
          /\ n.device = q.device /\ n.token = q.token /\ n.at = q.at /\ n.todo = q.todo
      BY <1>1, <1>9 DEF Request
    <3> QED
      BY <3>2, <3>3
  <2>2. ~Reaches(q) /\ Scope(q) = {q.at} /\ q.op \in TokenOps \cup DeviceOps
        /\ q.op \notin AccountOps
    BY <1>2, <1>5, <1>9, Kinds
  <2>3. ~Reaches(n) /\ Account(n) = q.login /\ Scope(n) = {q.at}
    BY <1>5, <2>1, <2>2 DEF Reaches, Account, Scope
  <2>4. Hand(n)
    <3>1. Path(n)
      BY <1>1, <1>2, <2>1, <2>2, Kinds DEF Path, AccountOps, Ending
    <3> QED
      BY <1>1, <2>1, <2>2, <2>3, <3>1, Kinds DEF Hand, Revoking, Clearing
  <2>5. ASSUME ~Multi(config) PROVE Knows(n)
    <3>1. q.op \in TokenOps => ~Live(q.token)
      BY <1>1, <2>5 DEF Removed, Knows
    <3> QED
      BY <1>7, <2>1, <2>3, <2>5, <3>1 DEF Knows, Revoking, Writing
  <2>6. ASSUME ~MayAbort PROVE Leaves(n)
    BY <1>6, <2>1, <2>3, <2>6 DEF Leaves, Emptied, Revoking, Clearing
  <2> QED
    BY <2>1, <2>4, <2>5, <2>6 DEF Visits
<1>10. CASE q.op \notin {"forceLogout", "logout", "kickout"} /\ n = Idle
  BY <1>2, <1>5, <1>6, <1>10
<1> QED
  BY <1>8, <1>9, <1>10 DEF AfterRemove

LEMMA RemovalGoesOnAfter == EveryRemoval'
BY RemovalGoesOn, PTL

LEMMA ReadRemoveWorks ==
  ASSUME DInv, NEW r \in Reqs, ReadRemove(r) PROVE Works(r)
<1> DEFINE q == req[r]
<1>1. q.pc = "readRemove" /\ Running(r) /\ UNCHANGED <<config, store, owner, handed>>
  BY DEF ReadRemove, Running
<1>2. /\ AInv /\ IInv /\ q \in Request /\ Shape(q) /\ Hand(q) /\ Path(q)
      /\ ~Multi(config) => Knows(q) /\ Held(r) /\ OneOfAccount
      /\ ~Multi(config) => \A d \in Scope(q) : Listed(Account(q), d)
      /\ ~MayAbort => Leaves(q)
  BY <1>1, Before
<1>3. q.login \in LoginIds /\ q.at \in Devices
  <2>1. Scope(q) \subseteq Devices /\ q.at \in Scope(q)
    BY <1>1, <1>2, PlaceOf DEF Clearing
  <2> QED
    BY <1>1, <1>2, <2>1 DEF Shape
<1>4. ASSUME list[q.login] = Empty, NEW n \in AfterRemove(q), Become(r, n)
      PROVE  Works(r)
  <2>1. list[q.login][q.at] = Null
    BY <1>3, <1>4 DEF Empty
  <2>2. Removed(q)
    BY <1>1, <1>2, <1>3, <2>1 DEF Removed
  <2>3. \/ Visits(q, n) /\ (q.op \in TokenOps => n.token = q.token)
        \/ n = Idle /\ (~MayAbort => \A d \in Scope(q) : Agree(Account(q), d))
    BY <1>4, <2>2, RemovalGoesOn DEF EveryRemoval
  <2>4. CASE Visits(q, n) /\ (q.op \in TokenOps => n.token = q.token)
    BY <1>1, <1>4, <2>4, ReadingWorks DEF Visits
  <2>5. CASE n = Idle /\ (~MayAbort => \A d \in Scope(q) : Agree(Account(q), d))
    BY <1>1, <1>4, <2>5, ReadingEnds
  <2> QED
    BY <2>3, <2>4, <2>5
<1>5. CASE Become(r, [q EXCEPT !.pc = "casRemove", !.old = list[q.login]])
  <2> DEFINE n == [q EXCEPT !.pc = "casRemove", !.old = list[q.login]]
  <2>1. /\ n \in Request /\ n.pc = "casRemove" /\ n.op = q.op /\ n.login = q.login
        /\ n.device = q.device /\ n.token = q.token /\ n.at = q.at /\ n.todo = q.todo
    <3>1. list[q.login] \in Index
      BY <1>2, <1>3 DEF IInv, TypeOK
    <3> QED
      BY <1>2, <3>1 DEF Request, PCs
  <2>2. Reaches(n) = Reaches(q) /\ Account(n) = Account(q) /\ Scope(n) = Scope(q)
    BY <2>1 DEF Reaches, Account, Scope
  <2>3. Hand(n)
    <3>1. Path(n)
      BY <1>1, <1>2, <2>1 DEF Path, Clearing, Revoking, Writing, Ending
    <3> QED
      BY <1>1, <1>2, <2>1, <2>2, <3>1 DEF Hand, Revoking, Clearing
  <2>4. ~Multi(config) => Knows(n)
    BY <1>1, <1>2, <2>1, <2>2 DEF Knows, Cleared, Revoking, Clearing, Writing, Ending
  <2>5. ~MayAbort => Leaves(n)
    BY <1>1, <1>2, <2>1, <2>2 DEF Leaves, Settled, Emptied, Revoking, Clearing, Writing, Ending
  <2> QED
    BY <1>1, <1>5, <2>1, <2>3, <2>4, <2>5, ReadingWorks
<1> QED
  BY <1>4, <1>5 DEF ReadRemove

-----------------------------------------------------------------------------
(* A step that writes to the store and goes on. *)
LEMMA WritingWorks ==
  ASSUME DInv, NEW r \in Reqs, Running(r), NEW n, Become(r, n), Frame(r),
         n.op = req[r].op, n.device = req[r].device,
         req[r].op \in TokenOps => n.token = req[r].token,
         req[r].op \notin TokenOps => n.login = req[r].login,
         n.pc \notin {"idle", "failed"},
         Hand(n)',
         ~Multi(config) =>
           /\ OneOfAccount'
           /\ \A l \in LoginIds, d \in Devices : <<l, d>> \in Places(r) => Listed(l, d)'
           /\ Knows(n)',
         ~MayAbort => Leaves(n)'
  PROVE  Works(r)
<1>1. AInv /\ req'[r] = n
  BY DEF DInv, AInv, IInv, TypeOK, Become
<1>2. Places(r)' = Places(r)
  BY <1>1, PlaceKept DEF Frame, Elsewhere
<1>3. Hand(req[r])' /\ (Knows(n)' => Knows(req[r])') /\ (Leaves(n)' => Leaves(req[r])')
  BY <1>1
<1>4. Running(r)' /\ req'[r].pc # "failed"
  BY <1>1 DEF Running
<1> QED
  BY <1>1, <1>2, <1>3, <1>4 DEF Works

(* The token in hand at a mark or a delete was created for the place. *)
LEMMA TokenOfPlace ==
  ASSUME AInv, NEW r \in Reqs, Running(r), req[r].pc \in Revoking
  PROVE  /\ req[r].token \in Tokens /\ owner[req[r].token] # Null
         /\ owner[req[r].token] \in Places(r)
         /\ req[r].op \notin TokenOps =>
              /\ owner[req[r].token] = <<req[r].login, req[r].at>>
              /\ req[r].login = Account(req[r]) /\ req[r].at \in Scope(req[r])
<1>1. Hand(req[r])
  BY DEF AInv
<1>2. CASE req[r].op \in TokenOps
  BY <1>1, <1>2, PlaceOf DEF Hand
<1>3. CASE req[r].op \notin TokenOps
  <2>1. req[r].login = Account(req[r]) /\ req[r].at \in Scope(req[r])
    BY <1>3, PlaceOf
  <2>2. /\ req[r].token \in Tokens /\ owner[req[r].token] # Null
        /\ owner[req[r].token] = <<req[r].login, req[r].at>>
    BY <1>1, <1>3 DEF Hand
  <2> QED
    BY <1>3, <2>1, <2>2 DEF Places
<1> QED
  BY <1>2, <1>3

(* What a token that is no longer accepted changes of what clients hold. *)
LEMMA Retired ==
  ASSUME IInv, NEW t \in Tokens, NEW v, v \notin LoginIds,
         tokenKey' = [tokenKey EXCEPT ![t] = v],
         UNCHANGED <<config, session, list, owner, handed>>
  PROVE  /\ \A u \in Tokens : Live(u)' <=> Live(u) /\ u # t
         /\ OneOfAccount => OneOfAccount'
         /\ \A l, d : Listed(l, d) => Listed(l, d)'
         /\ \A l, d : Clear(l, d) => Clear(l, d)'
         /\ \A l, d : Sole(l, d, t) => Clear(l, d)'
<1>1. handed \subseteq Tokens /\ tokenKey \in [Tokens -> LoginIds \cup Markers \cup {Null}]
  BY DEF IInv, TypeOK
<1>2. \A u \in Tokens : Live(u)' <=> Live(u) /\ u # t
  BY <1>1 DEF Live
<1>3. \A u \in handed : Live(u)' <=> Live(u) /\ u # t
  BY <1>1, <1>2
<1>4. OneOfAccount => OneOfAccount'
  BY <1>3 DEF OneOfAccount
<1>5. \A l, d : Listed(l, d) => Listed(l, d)'
  BY <1>3 DEF Listed
<1>6. \A l, d : Clear(l, d) => Clear(l, d)'
  BY <1>3 DEF Clear
<1>7. \A l, d : Sole(l, d, t) => Clear(l, d)'
  BY <1>3 DEF Sole, Clear
<1> QED
  BY <1>2, <1>4, <1>5, <1>6, <1>7

(* The token in hand is marked or deleted, and the operation goes on. *)
LEMMA RetireWorks ==
  ASSUME DInv, NEW r \in Reqs, req[r].pc \in {"casMark", "dropToken"},
         NEW v, v \notin LoginIds,
         tokenKey' = [tokenKey EXCEPT ![req[r].token] = v],
         UNCHANGED <<config, session, list, owner, handed>>,
         req[r].login # Null,
         NEW n \in Request, Become(r, n),
         n.op = req[r].op, n.login = req[r].login, n.device = req[r].device,
         n.token = req[r].token, n.at = req[r].at, n.todo = req[r].todo,
         n.pc = IF req[r].op \in TokenOps THEN "findDevice" ELSE "dropSession"
  PROVE  Works(r)
<1> SUFFICES ASSUME NEW q, q = req[r], NEW a, a = Account(q), NEW D, D = Scope(q)
             PROVE  Works(r)
  OBVIOUS
<1>1. Running(r) /\ q.pc \in Revoking
  BY DEF Running, Revoking
<1>2. /\ AInv /\ IInv /\ q \in Request /\ Shape(q) /\ Hand(q) /\ Path(q)
      /\ ~Multi(config) => Knows(q) /\ Held(r) /\ OneOfAccount
      /\ ~MayAbort => Leaves(q)
  BY <1>1, Before
<1>3. /\ q.token \in Tokens /\ owner[q.token] # Null /\ owner[q.token] \in Places(r)
      /\ q.op \notin TokenOps =>
           /\ owner[q.token] = <<q.login, q.at>>
           /\ q.login = Account(q) /\ q.at \in Scope(q)
  BY <1>1, <1>2, TokenOfPlace
<1>4. a \in LoginIds /\ D \subseteq Devices
  BY <1>1, <1>2, PlaceOf
<1>5. /\ \A u \in Tokens : Live(u)' <=> Live(u) /\ u # q.token
      /\ OneOfAccount => OneOfAccount'
      /\ \A l, d : Listed(l, d) => Listed(l, d)'
      /\ \A l, d : Clear(l, d) => Clear(l, d)'
      /\ \A l, d : Sole(l, d, q.token) => Clear(l, d)'
  BY <1>2, <1>3, Retired
<1>6. Frame(r)
  <2>1. \A t \in Tokens : owner[t] \notin Places(r) => tokenKey'[t] = tokenKey[t]
    BY <1>2, <1>3 DEF IInv, TypeOK
  <2>2. handed \subseteq Tokens /\ \A t \in handed : owner[t] # Null
    BY <1>2 DEF AInv, IInv, TypeOK
  <2>3. \A x \in Reqs : x # r => req'[x] = req[x]
    BY <1>2 DEF IInv, TypeOK, Become
  <2> QED
    BY <2>1, <2>2, <2>3 DEF Frame, Elsewhere
<1>7. n.pc \in {"findDevice", "dropSession"} /\ n.pc \notin Revoking \cup Writing \cup Ending
      /\ (q.op \notin TokenOps => n.pc = "dropSession" /\ n.pc \in Clearing)
      /\ (q.op \in TokenOps => n.pc = "findDevice" /\ n.pc \notin Clearing)
  BY DEF Revoking, Writing, Ending, Clearing
<1>8. Reaches(n)' = Reaches(q) /\ Account(n)' = a /\ Scope(n)' = D
  BY DEF Reaches, Account, Scope
<1>9. Hand(n)'
  <2>1. Path(n)'
    <3>1. Path(n)
      BY <1>1, <1>2, <1>7, Kinds DEF Path, AccountOps, TokenOps, Clearing, Revoking, Writing
    <3> QED
      BY <3>1 DEF Path
  <2>2. \A d \in Devices : q.todo[d] # Null =>
          Reaches(q) /\ q.todo[d] = list[q.login][d] /\ d # q.at /\ q.op \notin TokenOps
    BY <1>2, Kinds DEF Hand, Reaches
  <2>3. n.pc \notin {"idle", "failed", "readMapped", "casMark", "dropToken", "writeToken",
                     "readAdd", "casAdd"}
    BY <1>7
  <2>4. q.op \notin TokenOps => q.at \in Devices
    BY <1>2, <1>1 DEF Hand
  <2> QED
    BY <1>2, <1>7, <1>8, <2>1, <2>2, <2>3, <2>4 DEF Hand
<1>10. ASSUME ~Multi(config)
       PROVE  /\ OneOfAccount'
              /\ \A l \in LoginIds, d \in Devices : <<l, d>> \in Places(r) => Listed(l, d)'
              /\ Knows(n)'
  <2>1. Held(r) /\ OneOfAccount /\ Knows(q)
    BY <1>2, <1>10
  <2>2. ASSUME NEW d \in D, Cleared(n, d)' PROVE Clear(a, d)'
    <3>1. CASE d = q.at /\ q.op \notin TokenOps
      BY <1>1, <1>3, <1>5, <2>1, <3>1 DEF Knows
    <3>2. CASE ~(d = q.at /\ q.op \notin TokenOps)
      <4>1. Cleared(q, d)
        BY <1>1, <1>7, <1>8, <2>2, <3>2, Kinds DEF Cleared, Reaches
      <4> QED
        BY <1>5, <2>1, <4>1 DEF Knows
    <3> QED
      BY <3>1, <3>2
  <2>3. q.op \in TokenOps => ~Live(q.token)'
    BY <1>3, <1>5
  <2>4. Knows(n)'
    BY <1>7, <1>8, <2>2, <2>3 DEF Knows
  <2> QED
    BY <1>5, <2>1, <2>4 DEF Held
<1>11. ASSUME ~MayAbort PROVE Leaves(n)'
  <2>1. Leaves(q)
    BY <1>2, <1>11
  <2>2. ASSUME NEW d \in Devices, session[a][d] \notin {Null, q.token},
               Agree(a, d)
        PROVE  Agree(a, d)'
    <3>1. session[a][d] \in Tokens
      BY <1>2, <1>4, <2>2 DEF IInv, TypeOK, Index
    <3> QED
      BY <1>5, <2>2, <3>1 DEF Agree
  <2>3. ASSUME NEW d \in D, Settled(n, d)' PROVE Agree(a, d)'
    <3>1. Reaches(q) /\ d # q.at /\ (q.op = "forceLogout" \/ q.todo[d] # Null)
          /\ q.op \notin TokenOps
      BY <1>7, <1>8, <2>3, Kinds DEF Settled, Reaches
    <3>2. Agree(a, d)
      BY <1>1, <2>1, <3>1 DEF Leaves, Settled
    <3>3. session[a][d] # q.token
      <4>1. session[a][d] # Null => owner[session[a][d]] = <<a, d>>
        BY <1>2, <1>4, <2>3 DEF IInv, Ownership
      <4> QED
        BY <1>2, <1>3, <3>1, <4>1, ValuesAssumption DEF IInv, TypeOK
    <3> QED
      BY <1>4, <2>2, <3>2, <3>3, <2>3 DEF Agree
  <2>4. ASSUME NEW d \in D, Emptied(n, d)' PROVE session[a][d] = Null
    <3>1. Emptied(q, d)
      BY <1>1, <1>7, <1>8, <2>4 DEF Emptied
    <3> QED
      BY <2>1, <3>1 DEF Leaves
  <2>5. ASSUME q.op \in TokenOps, NEW d \in D
        PROVE  /\ session[q.login][d] = list[q.login][d]
               /\ session[q.login][d] \notin {Null, q.token} => Live(session[q.login][d])'
    <3>1. q.login = a
      BY <1>1, <1>2, <2>5, PlaceOf
    <3>2. Agree(a, d)
      BY <1>1, <2>1, <2>5 DEF Leaves, Settled
    <3> QED
      BY <1>4, <2>2, <2>5, <3>1, <3>2 DEF Agree
  <2> QED
    BY <1>7, <1>8, <2>3, <2>4, <2>5 DEF Leaves
<1> QED
  BY <1>1, <1>6, <1>7, <1>9, <1>10, <1>11, WritingWorks

LEMMA CasMarkWorks ==
  ASSUME DInv, NEW r \in Reqs, CasMark(r) PROVE Works(r)
<1> DEFINE q == req[r]
           p == IF q.op = "kickoutByToken" THEN "findDevice" ELSE "dropSession"
           n == [q EXCEPT !.seen = Null, !.pc = p]
<1>1. q.pc = "casMark" /\ Running(r) /\ Become(r, n)
      /\ tokenKey' = (IF tokenKey[q.token] = q.seen
                      THEN [tokenKey EXCEPT ![q.token] = Marker(q)] ELSE tokenKey)
      /\ UNCHANGED <<config, session, list, data, owner, handed>>
  BY DEF CasMark, Running
<1>2. /\ q \in Request /\ Shape(q) /\ Hand(q) /\ Path(q)
  BY <1>1, Before
<1>3. tokenKey' = [tokenKey EXCEPT ![q.token] = Marker(q)]
  BY <1>1, <1>2 DEF Hand
<1>4. Marker(q) \notin LoginIds /\ q.login # Null
  BY <1>1, <1>2, ValuesAssumption DEF Marker, Markers, Shape
<1>5. p \in {"findDevice", "dropSession"} /\ p \in PCs
      /\ p = IF q.op \in TokenOps THEN "findDevice" ELSE "dropSession"
  BY <1>1, <1>2 DEF PCs, Path, TokenOps
<1>6. /\ n \in Request /\ n.pc = p /\ n.op = q.op /\ n.login = q.login
      /\ n.device = q.device /\ n.token = q.token /\ n.at = q.at /\ n.todo = q.todo
  <2> HIDE DEF p, q
  <2> QED
    BY <1>2, <1>5 DEF Request
<1> HIDE DEF p, n
<1> QED
  BY <1>1, <1>3, <1>4, <1>5, <1>6, RetireWorks

(* A logout of a token that was marked already ends with its delete. *)
LEMMA DropTokenWorks ==
  ASSUME DInv, NEW r \in Reqs, DropToken(r) PROVE Works(r)
<1> DEFINE q == req[r]
           p == IF q.op = "logout" THEN "findDevice" ELSE "dropSession"
           n == [q EXCEPT !.pc = p]
<1>1. q.pc = "dropToken" /\ Running(r) /\ q.pc \in Revoking
      /\ tokenKey' = [tokenKey EXCEPT ![q.token] = Null]
      /\ UNCHANGED <<config, session, list, data, owner, handed>>
  BY DEF DropToken, Running, Revoking
<1>2. /\ AInv /\ IInv /\ q \in Request /\ Shape(q) /\ Hand(q) /\ Path(q)
      /\ ~Multi(config) => Knows(q) /\ Held(r) /\ OneOfAccount
      /\ ~MayAbort => Leaves(q)
  BY <1>1, Before
<1>3. CASE q.login # Null /\ Become(r, n)
  <2>1. p \in {"findDevice", "dropSession"} /\ p \in PCs
        /\ p = IF q.op \in TokenOps THEN "findDevice" ELSE "dropSession"
    BY <1>1, <1>2 DEF PCs, Path, TokenOps
  <2>2. /\ n \in Request /\ n.pc = p /\ n.op = q.op /\ n.login = q.login
        /\ n.device = q.device /\ n.token = q.token /\ n.at = q.at /\ n.todo = q.todo
    <3> HIDE DEF p, q
    <3> QED
      BY <1>2, <2>1 DEF Request
  <2>3. Null \notin LoginIds
    BY ValuesAssumption
  <2> HIDE DEF p, n
  <2> QED
    BY <1>1, <1>3, <2>1, <2>2, <2>3, RetireWorks
<1>4. CASE q.login = Null /\ Become(r, Idle)
  <2>1. q.op \in TokenOps /\ ~Live(q.token)
    BY <1>1, <1>2, <1>4, ValuesAssumption DEF Hand, Shape, Path
  <2>2. q.token \in Tokens /\ owner[q.token] \in Places(r)
    BY <1>1, <1>2, TokenOfPlace
  <2>3. /\ \A u \in Tokens : Live(u)' <=> Live(u)
        /\ OneOfAccount => OneOfAccount'
        /\ \A l, d : Listed(l, d) => Listed(l, d)'
    <3>1. Null \notin LoginIds
      BY ValuesAssumption
    <3>2. /\ \A u \in Tokens : Live(u)' <=> Live(u) /\ u # q.token
          /\ OneOfAccount => OneOfAccount'
          /\ \A l, d : Listed(l, d) => Listed(l, d)'
      BY <1>1, <1>2, <2>2, <3>1, Retired
    <3> QED
      BY <2>1, <3>2
  <2>4. Frame(r) /\ req'[r] = Idle
    <3>1. \A t \in Tokens : owner[t] \notin Places(r) => tokenKey'[t] = tokenKey[t]
      BY <1>1, <1>2, <2>2 DEF IInv, TypeOK
    <3>2. handed \subseteq Tokens /\ \A t \in handed : owner[t] # Null
      BY <1>2 DEF AInv, IInv, TypeOK
    <3>3. \A x \in Reqs : x # r => req'[x] = req[x]
      BY <1>2, <1>4 DEF IInv, TypeOK, Become
    <3>4. req'[r] = Idle
      BY <1>2, <1>4 DEF IInv, TypeOK, Become
    <3> QED
      BY <1>1, <3>1, <3>2, <3>3, <3>4 DEF Frame, Elsewhere
  <2>5. Hand(req[r])' /\ ~Running(r)' /\ req'[r].pc # "failed"
    BY <2>4, HandOfIdle DEF Running, Idle
  <2>6. ASSUME ~MayAbort, NEW l \in LoginIds, NEW d \in Devices, <<l, d>> \in Places(r)
        PROVE  Agree(l, d)'
    <3>1. Agree(l, d)
      BY <1>1, <1>2, <2>1, <2>6 DEF Leaves, Settled, Places
    <3>2. session[l][d] \in Tokens \cup {Null}
      BY <1>2 DEF IInv, TypeOK, Index
    <3> QED
      BY <1>1, <2>3, <3>1, <3>2 DEF Agree
  <2> QED
    BY <1>1, <1>2, <2>3, <2>4, <2>5, <2>6 DEF Works, Held
<1> QED
  BY <1>3, <1>4 DEF DropToken

LEMMA DropDataWorks ==
  ASSUME DInv, NEW r \in Reqs, DropData(r) PROVE Works(r)
<1>1. req[r].pc = "dropData" /\ Running(r) /\ Become(r, Idle)
      /\ UNCHANGED <<config, tokenKey, session, list, owner, handed>>
  BY DEF DropData, Running
<1>2. /\ AInv
      /\ ~Multi(config) => Held(r) /\ OneOfAccount
      /\ ~MayAbort => Leaves(req[r])
  BY <1>1, Before
<1>3. Frame(r) /\ req'[r] = Idle
  BY <1>1, <1>2 DEF Frame, Elsewhere, AInv, IInv, TypeOK, Become
<1>4. Hand(req[r])' /\ ~Running(r)' /\ req'[r].pc # "failed"
  BY <1>3, HandOfIdle DEF Running, Idle
<1>5. ASSUME ~Multi(config)
      PROVE  /\ OneOfAccount'
             /\ \A l \in LoginIds, d \in Devices : <<l, d>> \in Places(r) => Listed(l, d)'
  <2>1. Held(r) /\ OneOfAccount
    BY <1>2, <1>5
  <2> QED
    BY <1>1, <2>1 DEF Held, OneOfAccount, Listed, Live
<1>6. ASSUME ~MayAbort, NEW l \in LoginIds, NEW d \in Devices, <<l, d>> \in Places(r)
      PROVE  Agree(l, d)'
  <2>1. Agree(l, d)
    BY <1>1, <1>2, <1>6 DEF Leaves, Settled, Ending, Places
  <2> QED
    BY <1>1, <2>1 DEF Agree, Live
<1> QED
  BY <1>1, <1>3, <1>4, <1>5, <1>6 DEF Works

LEMMA DropSessionWorks ==
  ASSUME DInv, NEW r \in Reqs, DropSession(r) PROVE Works(r)
<1> SUFFICES ASSUME NEW q, q = req[r], NEW a, a = Account(q), NEW D, D = Scope(q)
             PROVE  Works(r)
  OBVIOUS
<1>1. q.pc = "dropSession" /\ Running(r) /\ q.pc \in Clearing
      /\ q.pc \notin Revoking \cup Writing \cup Ending
      /\ session' = [session EXCEPT ![q.login] = [session[q.login] EXCEPT ![q.at] = Null]]
      /\ UNCHANGED <<config, tokenKey, list, data, owner, handed>>
  BY DEF DropSession, Running, Clearing, Revoking, Writing, Ending
<1>2. /\ AInv /\ IInv /\ q \in Request /\ Shape(q) /\ Hand(q) /\ Path(q)
      /\ ~Multi(config) => Knows(q) /\ Held(r) /\ OneOfAccount
      /\ ~MayAbort => Leaves(q)
  BY <1>1, Before
<1>3. /\ a = q.login /\ q.at \in D /\ D \subseteq Devices /\ a \in LoginIds
      /\ Reaches(q) => D = Devices
  BY <1>1, <1>2, PlaceOf
<1>4. /\ session'[a][q.at] = Null
      /\ \A l \in LoginIds, d \in Devices :
           l # a \/ d # q.at => session'[l][d] = session[l][d]
  BY <1>1, <1>2, <1>3 DEF IInv, TypeOK, Index
<1>5. Reaches(q)' = Reaches(q) /\ Account(q)' = a /\ Scope(q)' = D
      /\ \A u : Live(u)' <=> Live(u)
  BY <1>1 DEF Reaches, Account, Scope, Live
<1>6. ASSUME NEW n, Become(r, n)
      PROVE  Frame(r)
  <2>1. \A x \in Reqs : x # r => req'[x] = req[x]
    BY <1>2, <1>6 DEF IInv, TypeOK, Become
  <2>2. handed \subseteq Tokens /\ \A t \in handed : owner[t] # Null
    BY <1>2 DEF AInv, IInv, TypeOK
  <2>3. \A l \in LoginIds, d \in Devices : <<l, d>> \notin Places(r) =>
          session'[l][d] = session[l][d]
    BY <1>3, <1>4 DEF Places
  <2> QED
    BY <1>1, <2>1, <2>2, <2>3 DEF Frame, Elsewhere
<1>7. ASSUME ~Multi(config)
      PROVE  /\ OneOfAccount'
             /\ \A l \in LoginIds, d \in Devices : <<l, d>> \in Places(r) => Listed(l, d)'
             /\ Clear(a, q.at)
  <2>1. Held(r) /\ OneOfAccount /\ Clear(a, q.at)
    BY <1>1, <1>2, <1>3, <1>7 DEF Knows, Cleared
  <2>2. OneOfAccount'
    BY <1>1, <2>1 DEF Held, OneOfAccount, Live
  <2>3. ASSUME NEW l \in LoginIds, NEW d \in Devices, <<l, d>> \in Places(r)
        PROVE  Listed(l, d)'
    <3>1. CASE l = a /\ d = q.at
      BY <1>1, <1>5, <2>1, <3>1 DEF Listed, Clear
    <3>2. CASE l # a \/ d # q.at
      BY <1>1, <1>4, <1>5, <2>1, <2>3, <3>2 DEF Held, Listed
    <3> QED
      BY <3>1, <3>2
  <2> QED
    BY <2>1, <2>2, <2>3
<1>8. ASSUME NEW l \in LoginIds, NEW d \in Devices, l # a \/ d # q.at, Agree(l, d)
      PROVE  Agree(l, d)'
  BY <1>1, <1>4, <1>5, <1>8 DEF Agree, Live
<1>9. CASE q.op = "login" /\ config.deviceConcurrent
           /\ Become(r, [q EXCEPT !.pc = "writeToken", !.token = Null])
  <2> SUFFICES ASSUME NEW n, n = [q EXCEPT !.pc = "writeToken", !.token = Null]
               PROVE  Works(r)
    OBVIOUS
  <2>1. /\ n.pc = "writeToken" /\ n.op = q.op /\ n.login = q.login
        /\ n.device = q.device /\ n.token = Null /\ n.at = q.at /\ n.todo = q.todo
    BY <1>2 DEF Request
  <2>2. ~Reaches(n)' /\ Account(n)' = a /\ Scope(n)' = D /\ D = {q.device} /\ q.at = q.device
        /\ ~Reaches(q) /\ q.op \notin TokenOps \cup DeviceOps
    <3>1. q.op \notin TokenOps \cup DeviceOps \cup AccountOps
      BY <1>9, Kinds
    <3>2. ~Reaches(q)
      BY <1>9, <3>1 DEF Reaches
    <3>3. D = {q.device} /\ q.at = q.device
      BY <1>1, <1>2, <1>9, PlaceOf
    <3> QED
      BY <1>1, <1>3, <1>5, <1>9, <2>1, <3>1, <3>2, <3>3 DEF Reaches, Account, Scope
  <2>3. Hand(n)'
    <3>1. Path(n)'
      BY <1>1, <1>9, <2>1, Kinds DEF Path, AccountOps, Writing
    <3>2. \A d \in Devices : n.todo[d] = Null
      BY <1>2, <2>1, <2>2 DEF Hand
    <3> QED
      BY <2>1, <2>2, <3>1, <3>2 DEF Hand, Revoking, Clearing
  <2>4. ASSUME ~Multi(config) PROVE Knows(n)'
    <3>1. Sole(a, q.device, Null)'
      BY <1>1, <1>5, <1>7, <2>2, <2>4 DEF Clear, Sole
    <3> QED
      BY <1>3, <2>1, <2>2, <3>1 DEF Knows, Cleared, Revoking, Clearing, Ending
  <2>5. Leaves(n)'
    BY <2>1, <2>2 DEF Leaves, Settled, Emptied, Revoking, Clearing, Ending
  <2> QED
    BY <1>1, <1>6, <1>7, <1>9, <2>1, <2>2, <2>3, <2>4, <2>5, WritingWorks
<1>10. ASSUME q.op = "logoutByLoginId" \/ (q.op = "login" /\ ~config.deviceConcurrent),
              NEW n \in NextDevice(q), Become(r, n)
       PROVE  Works(r)
  <2>1. Reaches(q) /\ D = Devices /\ q.op \notin TokenOps
    BY <1>3, <1>10, Kinds DEF Reaches, AccountOps
  <2>2. IInv'
    BY <1>2, DropSessionStep
  <2>3. ASSUME ~Multi(config), NEW d \in Devices, q.todo[d] = Null PROVE Clear(a, d)'
    <3>1. Clear(a, d)
      <4>1. CASE d = q.at
        BY <1>7, <2>3, <4>1
      <4>2. CASE d # q.at
        BY <1>1, <1>2, <2>1, <2>3, <4>2 DEF Knows, Cleared
      <4> QED
        BY <4>1, <4>2
    <3> QED
      BY <1>1, <1>5, <3>1 DEF Clear
  <2>4. \A d \in Devices : q.todo[d] # Null => q.todo[d] = list[a][d] /\ d # q.at
    BY <1>2, <1>3 DEF Hand
  <2>5. ASSUME ~MayAbort, NEW d \in Devices
        PROVE  IF q.todo[d] # Null THEN Agree(a, d)' ELSE session'[a][d] = Null
    <3>1. CASE q.todo[d] # Null
      <4>1. Settled(q, d)
        BY <1>1, <2>1, <2>4, <3>1 DEF Settled
      <4>2. Agree(a, d)
        BY <1>2, <2>1, <2>5, <4>1 DEF Leaves
      <4> QED
        BY <1>3, <1>8, <2>4, <3>1, <4>2
    <3>2. CASE q.todo[d] = Null
      <4>1. CASE d = q.at
        BY <1>4, <3>2, <4>1
      <4>2. CASE d # q.at
        <5>1. Emptied(q, d)
          BY <1>1, <1>10, <2>1, <3>2, <4>2 DEF Emptied
        <5> QED
          BY <1>2, <1>3, <1>4, <2>1, <2>5, <3>2, <4>2, <5>1 DEF Leaves
      <4> QED
        BY <4>1, <4>2
    <3> QED
      BY <3>1, <3>2
  <2>6. Visiting(q)'
    <3>1. ~Multi(config) => \A d \in Devices : Listed(a, d)'
      BY <1>3, <1>7, <2>1 DEF Places
    <3> QED
      BY <1>1, <1>2, <1>3, <1>5, <1>10, <2>1, <2>2, <2>3, <2>4, <2>5, <3>1
         DEF Visiting, Shape, Multi
  <2>7. n \in NextDevice(q)'
    BY <1>10 DEF NextDevice
  <2>8. Visits(q, n)'
    BY <1>10, <2>6, <2>7, NextDeviceVisitsAfter DEF EveryVisit
  <2>9. /\ n.pc \notin {"idle", "failed"} /\ n.op = q.op /\ n.login = q.login
        /\ n.device = q.device /\ Hand(n)'
        /\ ~Multi(config) => Knows(n)'
        /\ ~MayAbort => Leaves(n)'
    BY <1>1, <2>8 DEF Visits, Multi
  <2> QED
    BY <1>1, <1>6, <1>7, <1>10, <2>1, <2>9, WritingWorks
<1>11. CASE q.op \notin {"login", "logoutByLoginId"}
            /\ Become(r, [q EXCEPT !.pc = "readRemove"])
  <2> SUFFICES ASSUME NEW n, n = [q EXCEPT !.pc = "readRemove"]
               PROVE  Works(r)
    OBVIOUS
  <2>1. /\ n.pc = "readRemove" /\ n.op = q.op /\ n.login = q.login
        /\ n.device = q.device /\ n.token = q.token /\ n.at = q.at /\ n.todo = q.todo
        /\ n.pc \in Clearing /\ n.pc \notin Revoking \cup Writing \cup Ending
    BY <1>2 DEF Request, Clearing, Revoking, Writing, Ending
  <2>2. Reaches(n)' = Reaches(q) /\ Account(n)' = a /\ Scope(n)' = D
    BY <1>1, <2>1 DEF Reaches, Account, Scope
  <2>3. Hand(n)'
    <3>1. Path(n)'
      BY <1>1, <1>2, <1>11, <2>1 DEF Path, Clearing
    <3> QED
      BY <1>1, <1>2, <2>1, <2>2, <3>1 DEF Hand
  <2>4. ASSUME ~Multi(config) PROVE Knows(n)'
    <3>1. ASSUME NEW d \in D, Cleared(n, d)' PROVE Clear(a, d)'
      <4>1. Cleared(q, d)
        BY <1>1, <2>1, <2>2, <3>1 DEF Cleared
      <4> QED
        BY <1>1, <1>2, <1>5, <2>4, <4>1 DEF Knows, Clear
    <3> QED
      BY <1>1, <1>2, <1>5, <2>1, <2>2, <2>4, <3>1 DEF Knows
  <2>5. ASSUME ~MayAbort PROVE Leaves(n)'
    <3>1. ASSUME NEW d \in D, Settled(n, d)' PROVE Agree(a, d)'
      <4>1. Settled(q, d) /\ d # q.at
        BY <1>1, <2>1, <2>2, <3>1, Kinds DEF Settled, Reaches
      <4> QED
        BY <1>2, <1>3, <1>8, <2>5, <4>1 DEF Leaves
    <3>2. ASSUME NEW d \in D, Emptied(n, d)' PROVE session'[a][d] = Null
      <4>1. CASE d = q.at
        BY <1>4, <4>1
      <4>2. CASE d # q.at
        <5>1. Emptied(q, d)
          BY <1>1, <2>1, <2>2, <3>2, <4>2 DEF Emptied
        <5> QED
          BY <1>2, <1>3, <1>4, <2>5, <4>2, <5>1 DEF Leaves
      <4> QED
        BY <4>1, <4>2
    <3> QED
      BY <2>1, <2>2, <3>1, <3>2 DEF Leaves
  <2> QED
    BY <1>1, <1>6, <1>7, <1>11, <2>1, <2>3, <2>4, <2>5, WritingWorks
<1> QED
  BY <1>9, <1>10, <1>11 DEF DropSession

(* The loops that delete the list end with every device cleared. *)
LEMMA DropListWorks ==
  ASSUME DInv, NEW r \in Reqs, DropList(r) PROVE Works(r)
<1> SUFFICES ASSUME NEW q, q = req[r], NEW n,
                    n = [q EXCEPT !.pc = IF q.op = "login" THEN "writeToken" ELSE "dropData"]
             PROVE  Works(r)
  OBVIOUS
<1>1. q.pc = "dropList" /\ Running(r) /\ Become(r, n)
      /\ q.pc \notin Revoking \cup Writing \cup Ending \cup Clearing
      /\ list' = [list EXCEPT ![q.login] = Empty]
      /\ UNCHANGED <<config, tokenKey, session, data, owner, handed>>
  BY DEF DropList, Running, Clearing, Revoking, Writing, Ending
<1>2. /\ AInv /\ IInv /\ q \in Request /\ Shape(q) /\ Hand(q) /\ Path(q)
      /\ ~Multi(config) => Knows(q) /\ Held(r) /\ OneOfAccount
      /\ ~MayAbort => Leaves(q)
  BY <1>1, Before
<1>3. /\ q.op \in {"login", "logoutByLoginId"} /\ Reaches(q) /\ q.op \notin TokenOps \cup DeviceOps
      /\ q.login \in LoginIds /\ Account(q) = q.login /\ Scope(q) = Devices
      /\ q.op = "login" => q.token = Null /\ q.device \in Devices /\ ~config.deviceConcurrent
  <2>1. q.op \in {"login", "logoutByLoginId"}
    BY <1>1, <1>2 DEF Path, Request, AllOps, AccountOps, Ending, Revoking, Clearing
  <2>2. q.op = "login" => ~config.deviceConcurrent
    BY <1>1, <1>2 DEF Path
  <2>3. Reaches(q) /\ q.op \notin TokenOps \cup DeviceOps
    BY <2>1, <2>2, Kinds DEF Reaches, AccountOps
  <2> QED
    BY <1>1, <1>2, <2>1, <2>2, <2>3 DEF Shape, Account, Scope, Reaches
<1>4. /\ \A d \in Devices : list'[q.login][d] = Null
      /\ \A l \in LoginIds, d \in Devices : l # q.login => list'[l][d] = list[l][d]
  BY <1>1, <1>2, <1>3 DEF IInv, TypeOK, Empty
<1>5. /\ n.op = q.op /\ n.login = q.login /\ n.device = q.device
      /\ n.token = q.token /\ n.at = q.at /\ n.todo = q.todo
      /\ n.pc = IF q.op = "login" THEN "writeToken" ELSE "dropData"
  BY <1>2 DEF Request
<1>6. /\ n.pc \notin Revoking \cup Clearing \cup {"idle", "failed"}
      /\ q.op = "login" => n.pc \in Writing
      /\ q.op # "login" => n.pc = "dropData"
  BY <1>5 DEF Revoking, Clearing, Writing
<1>7. Reaches(n)' /\ Account(n)' = q.login /\ Scope(n)' = Devices /\ Reaches(q)'
  BY <1>1, <1>3, <1>5 DEF Reaches, Account, Scope
<1>8. \A u : Live(u)' <=> Live(u)
  BY <1>1 DEF Live
<1>9. Frame(r)
  <2>1. \A x \in Reqs : x # r => req'[x] = req[x]
    BY <1>1, <1>2 DEF IInv, TypeOK, Become
  <2>2. handed \subseteq Tokens /\ \A t \in handed : owner[t] # Null
    BY <1>2 DEF AInv, IInv, TypeOK
  <2>3. \A l \in LoginIds, d \in Devices : <<l, d>> \notin Places(r) => list'[l][d] = list[l][d]
    BY <1>3, <1>4 DEF Places
  <2> QED
    BY <1>1, <2>1, <2>2, <2>3 DEF Frame, Elsewhere
<1>10. Hand(n)'
  <2>1. Path(n)'
    BY <1>3, <1>5, <1>1, Kinds DEF Path, AccountOps, Writing, TokenOps
  <2>2. \A d \in Devices : n.todo[d] = Null
    BY <1>1, <1>2, <1>5 DEF Hand, Revoking, Clearing
  <2> QED
    BY <1>3, <1>5, <1>6, <1>7, <2>1, <2>2, <1>1 DEF Hand, Revoking, Clearing
<1>11. ASSUME ~Multi(config)
       PROVE  /\ OneOfAccount'
              /\ \A l \in LoginIds, d \in Devices : <<l, d>> \in Places(r) => Listed(l, d)'
              /\ Knows(n)'
  <2>1. Held(r) /\ OneOfAccount /\ Knows(q)
    BY <1>2, <1>11
  <2>2. \A d \in Devices : Clear(q.login, d)'
    <3>1. \A d \in Devices : Clear(q.login, d)
      BY <1>1, <1>3, <2>1 DEF Knows, Cleared
    <3> QED
      BY <1>1, <1>8, <3>1 DEF Clear
  <2>3. OneOfAccount'
    BY <1>1, <2>1 DEF Held, OneOfAccount, Live
  <2>4. ASSUME NEW l \in LoginIds, NEW d \in Devices, <<l, d>> \in Places(r)
        PROVE  Listed(l, d)'
    <3>1. CASE l = q.login
      BY <2>2, <3>1 DEF Listed, Clear
    <3>2. CASE l # q.login
      BY <1>1, <1>4, <1>8, <2>1, <2>4, <3>2 DEF Held, Listed
    <3> QED
      BY <3>1, <3>2
  <2>5. Knows(n)'
    <3>1. q.op = "login" => Sole(q.login, q.device, q.token)'
      BY <1>3, <2>2 DEF Sole, Clear
    <3>2. q.op # "login" => n.pc \notin Writing
      BY <1>6 DEF Writing
    <3> QED
      BY <1>3, <1>5, <1>6, <1>7, <2>2, <3>1, <3>2 DEF Knows
  <2> QED
    BY <2>3, <2>4, <2>5
<1>12. ASSUME ~MayAbort PROVE Leaves(n)'
  <2>1. \A d \in Devices : session[q.login][d] = Null
    BY <1>1, <1>2, <1>3, <1>12 DEF Leaves, Emptied
  <2>2. \A d \in Devices : Agree(q.login, d)'
    BY <1>1, <1>4, <2>1 DEF Agree
  <2>3. \A d \in Devices : session'[q.login][d] = Null
    BY <1>1, <2>1
  <2> QED
    BY <1>3, <1>5, <1>6, <1>7, <2>2, <2>3 DEF Leaves, Revoking
<1> QED
  BY <1>1, <1>3, <1>5, <1>6, <1>9, <1>10, <1>11, <1>12, WritingWorks

LEMMA CasRemoveWorks ==
  ASSUME DInv, NEW r \in Reqs, CasRemove(r) PROVE Works(r)
<1> SUFFICES ASSUME NEW q, q = req[r], NEW a, a = Account(q), NEW D, D = Scope(q)
             PROVE  Works(r)
  OBVIOUS
<1>1. q.pc = "casRemove" /\ Running(r) /\ q.pc \in Clearing
      /\ UNCHANGED <<config, tokenKey, session, data, owner, handed>>
  BY DEF CasRemove, Running, Clearing
<1>2. /\ AInv /\ IInv /\ q \in Request /\ Shape(q) /\ Hand(q) /\ Path(q)
      /\ ~Multi(config) => Knows(q) /\ Held(r) /\ OneOfAccount
      /\ ~MayAbort => Leaves(q)
  BY <1>1, Before
<1>3. /\ a = q.login /\ q.at \in D /\ D \subseteq Devices /\ a \in LoginIds
  BY <1>1, <1>2, PlaceOf
<1>4. CASE list[q.login] # q.old /\ list' = list
           /\ Become(r, [q EXCEPT !.pc = "readRemove", !.old = Empty])
  <2> DEFINE n == [q EXCEPT !.pc = "readRemove", !.old = Empty]
  <2>1. /\ n \in Request /\ n.pc = "readRemove" /\ n.op = q.op /\ n.login = q.login
        /\ n.device = q.device /\ n.token = q.token /\ n.at = q.at /\ n.todo = q.todo
    <3>1. Empty \in Index
      BY DEF Empty, Index
    <3> QED
      BY <1>2, <3>1 DEF Request, PCs
  <2>2. Reaches(n) = Reaches(q) /\ Account(n) = a /\ Scope(n) = D
    BY <2>1 DEF Reaches, Account, Scope
  <2>3. Hand(n)
    <3>1. Path(n)
      BY <1>1, <1>2, <2>1 DEF Path, Clearing, Revoking, Writing, Ending
    <3> QED
      BY <1>1, <1>2, <2>1, <2>2, <3>1 DEF Hand, Revoking, Clearing
  <2>4. ~Multi(config) => Knows(n)
    BY <1>1, <1>2, <2>1, <2>2 DEF Knows, Cleared, Revoking, Clearing, Writing, Ending
  <2>5. ~MayAbort => Leaves(n)
    BY <1>1, <1>2, <2>1, <2>2 DEF Leaves, Settled, Emptied, Revoking, Clearing, Writing, Ending
  <2>6. UNCHANGED <<config, store, owner, handed>>
    BY <1>1, <1>4 DEF store
  <2> QED
    BY <1>1, <1>4, <2>1, <2>3, <2>4, <2>5, <2>6, ReadingWorks
<1>5. ASSUME list[q.login] = q.old,
             list' = [list EXCEPT ![q.login] = [q.old EXCEPT ![q.at] = Null]],
             NEW n \in AfterRemove(q), Become(r, n)
      PROVE  Works(r)
  <2>1. /\ list'[a][q.at] = Null
        /\ \A l \in LoginIds, d \in Devices :
             l # a \/ d # q.at => list'[l][d] = list[l][d]
    BY <1>2, <1>3, <1>5 DEF IInv, TypeOK, Index
  <2>2. Reaches(q)' = Reaches(q) /\ Account(q)' = a /\ Scope(q)' = D
        /\ \A u : Live(u)' <=> Live(u)
    BY <1>1 DEF Reaches, Account, Scope, Live
  <2>3. Frame(r) /\ req'[r] = n
    <3>1. \A x \in Reqs : x # r => req'[x] = req[x]
      BY <1>2, <1>5 DEF IInv, TypeOK, Become
    <3>2. handed \subseteq Tokens /\ \A t \in handed : owner[t] # Null
      BY <1>2 DEF AInv, IInv, TypeOK
    <3>3. \A l \in LoginIds, d \in Devices : <<l, d>> \notin Places(r) =>
            list'[l][d] = list[l][d]
      BY <1>3, <2>1 DEF Places
    <3>4. req'[r] = n
      BY <1>2, <1>5 DEF IInv, TypeOK, Become
    <3> QED
      BY <1>1, <3>1, <3>2, <3>3, <3>4 DEF Frame, Elsewhere
  <2>4. ASSUME ~Multi(config)
        PROVE  /\ OneOfAccount'
               /\ \A l \in LoginIds, d \in Devices : <<l, d>> \in Places(r) => Listed(l, d)'
               /\ Knows(q)'
    <3>1. Held(r) /\ OneOfAccount /\ Knows(q) /\ Clear(a, q.at)
      BY <1>1, <1>2, <1>3, <2>4 DEF Knows, Cleared
    <3>2. OneOfAccount'
      BY <1>1, <3>1 DEF Held, OneOfAccount, Live
    <3>3. ASSUME NEW l \in LoginIds, NEW d \in Devices, <<l, d>> \in Places(r)
          PROVE  Listed(l, d)'
      <4>1. CASE l = a /\ d = q.at
        BY <1>1, <2>2, <3>1, <4>1 DEF Listed, Clear
      <4>2. CASE l # a \/ d # q.at
        BY <1>1, <2>1, <2>2, <3>1, <3>3, <4>2 DEF Held, Listed
      <4> QED
        BY <4>1, <4>2
    <3>4. Knows(q)'
      BY <1>1, <2>2, <3>1 DEF Knows, Cleared, Clear, Sole
    <3> QED
      BY <3>2, <3>3, <3>4
  <2>5. ASSUME ~MayAbort PROVE Leaves(q)'
    <3>1. Leaves(q)
      BY <1>2, <2>5
    <3>2. ASSUME NEW d \in D, Settled(q, d)' PROVE Agree(a, d)'
      <4>1. Settled(q, d) /\ d # q.at
        BY <1>1, <2>2, <3>2, Kinds DEF Settled, Reaches, Revoking, Clearing, Writing, Ending
      <4>2. Agree(a, d)
        BY <3>1, <4>1 DEF Leaves
      <4>3. list'[a][d] = list[a][d]
        BY <1>3, <2>1, <4>1
      <4> QED
        BY <1>1, <2>2, <4>2, <4>3 DEF Agree
    <3>3. ASSUME NEW d \in D, Emptied(q, d)' PROVE session'[a][d] = Null
      <4>1. Emptied(q, d)
        BY <1>1, <2>2, <3>3 DEF Emptied
      <4> QED
        BY <1>1, <3>1, <4>1 DEF Leaves
    <3> QED
      BY <1>1, <2>2, <3>2, <3>3 DEF Leaves, Revoking
  <2>6. Hand(q)'
    <3>1. Path(q)'
      BY <1>1, <1>2 DEF Path
    <3>2. \A d \in Devices : q.todo[d] # Null =>
            /\ Reaches(q) /\ q.todo[d] = list'[q.login][d] /\ d # q.at
            /\ q.pc \in Revoking \cup Clearing
      BY <1>1, <1>2, <1>3, <2>1 DEF Hand
    <3> QED
      BY <1>1, <1>2, <2>2, <3>1, <3>2 DEF Hand
  <2>7. Removed(q)'
    <3>1. IInv'
      BY <1>2, CasRemoveStep
    <3>2. ~Multi(config) => \A d \in D : Listed(a, d)'
      BY <1>3, <2>4 DEF Places
    <3> QED
      BY <1>1, <1>2, <1>3, <2>1, <2>2, <2>4, <2>5, <2>6, <3>1, <3>2 DEF Removed, Multi, Shape
  <2>8. n \in AfterRemove(q)'
    BY <1>5 DEF AfterRemove, NextDevice
  <2>9. \/ Visits(q, n)' /\ (q.op \in TokenOps => n.token = q.token)
        \/ n = Idle /\ (~MayAbort => \A d \in D : Agree(a, d)')
    BY <2>2, <2>7, <2>8, RemovalGoesOnAfter DEF EveryRemoval
  <2>10. CASE Visits(q, n)' /\ (q.op \in TokenOps => n.token = q.token)
    <3>1. /\ n.pc \notin {"idle", "failed"} /\ n.op = q.op /\ n.login = q.login
          /\ n.device = q.device /\ Hand(n)'
          /\ ~Multi(config) => Knows(n)'
          /\ ~MayAbort => Leaves(n)'
      BY <1>1, <2>10 DEF Visits, Multi
    <3> QED
      BY <1>1, <1>5, <2>3, <2>4, <2>10, <3>1, WritingWorks
  <2>11. CASE n = Idle /\ (~MayAbort => \A d \in D : Agree(a, d)')
    <3>1. Hand(req[r])' /\ ~Running(r)' /\ req'[r].pc # "failed"
      BY <2>3, <2>11, HandOfIdle DEF Running, Idle
    <3> QED
      BY <1>1, <2>3, <2>4, <2>11, <3>1 DEF Works, Places
  <2> QED
    BY <2>9, <2>10, <2>11
<1> QED
  BY <1>4, <1>5 DEF CasRemove

-----------------------------------------------------------------------------
(* The writes of a login. *)
LEMMA LoginPlace ==
  ASSUME DInv, NEW r \in Reqs, req[r].pc \in {"writeToken", "writeSession", "casAdd"}
  PROVE  LET q == req[r] IN
         /\ Running(r) /\ q.pc \in Writing /\ q.pc \notin Revoking \cup Clearing \cup Ending
         /\ q.op = "login" /\ q.op \notin TokenOps \cup DeviceOps \cup AccountOps
         /\ q.login \in LoginIds /\ q.device \in Devices
         /\ Account(q) = q.login /\ q.device \in Scope(q) /\ Scope(q) \subseteq Devices
         /\ <<q.login, q.device>> \in Places(r) /\ <<q.login, q.device>> # Null
         /\ q.token # Null => owner[q.token] = <<q.login, q.device>>
         /\ Reaches(q) <=> ~config.deviceConcurrent
         /\ Reaches(q) => Scope(q) = Devices
         /\ ~Reaches(q) => Scope(q) = {q.device} /\ q.at = q.device
         /\ \A d \in Devices : q.todo[d] = Null
<1> DEFINE q == req[r]
<1>1. Running(r) /\ q.pc \in Writing /\ q.pc \notin Revoking \cup Clearing \cup Ending
  BY DEF Running, Writing, Revoking, Clearing, Ending
<1>2. AInv /\ q \in Request /\ Shape(q) /\ Holds(q, owner, config) /\ Hand(q) /\ Path(q)
  BY <1>1, Before
<1>3. q.op = "login" /\ q.op \notin TokenOps \cup DeviceOps \cup AccountOps
      /\ q.login \in LoginIds /\ q.device \in Devices
  BY <1>1, <1>2, Kinds DEF Shape, ByLogin
<1>4. /\ Account(q) = q.login /\ q.device \in Scope(q) /\ Scope(q) \subseteq Devices
      /\ config.deviceConcurrent => Scope(q) = {q.device} /\ q.at = q.device
      /\ Reaches(q) => Scope(q) = Devices
  BY <1>1, <1>2, <1>3, PlaceOf
<1>5. <<q.login, q.device>> \in Places(r) /\ <<q.login, q.device>> # Null
  BY <1>3, <1>4, ValuesAssumption DEF Places
<1>6. q.token # Null => owner[q.token] = <<q.login, q.device>>
  BY <1>2 DEF Holds, ByLogin
<1>7. Reaches(q) <=> ~config.deviceConcurrent
  BY <1>3 DEF Reaches
<1>8. \A d \in Devices : q.todo[d] = Null
  BY <1>1, <1>2, <1>3 DEF Hand
<1> QED
  BY <1>1, <1>3, <1>4, <1>5, <1>6, <1>7, <1>8

LEMMA WriteTokenWorks ==
  ASSUME DInv, NEW r \in Reqs, WriteToken(r) PROVE Works(r)
<1> SUFFICES ASSUME NEW q, q = req[r], NEW a, a = q.login, NEW D, D = Scope(q)
             PROVE  Works(r)
  OBVIOUS
<1>1. q.pc = "writeToken" /\ UNCHANGED <<config, session, list, data, handed>>
  BY DEF WriteToken
<1>2. /\ Running(r) /\ q.pc \in Writing /\ q.op = "login"
      /\ q.op \notin TokenOps \cup DeviceOps \cup AccountOps
      /\ a \in LoginIds /\ q.device \in Devices
      /\ Account(q) = a /\ q.device \in D /\ D \subseteq Devices
      /\ <<a, q.device>> \in Places(r) /\ <<a, q.device>> # Null
      /\ q.token # Null => owner[q.token] = <<a, q.device>>
      /\ Reaches(q) <=> ~config.deviceConcurrent
      /\ Reaches(q) => D = Devices
      /\ ~Reaches(q) => D = {q.device} /\ q.at = q.device
      /\ \A d \in Devices : q.todo[d] = Null
  BY <1>1, LoginPlace
<1>3. /\ AInv /\ IInv /\ q \in Request /\ Shape(q) /\ Hand(q) /\ Path(q)
      /\ ~Multi(config) => Knows(q) /\ Held(r) /\ OneOfAccount
      /\ ~MayAbort => Leaves(q)
  BY <1>2, Before
<1>4. PICK t \in IF q.token = Null THEN Fresh ELSE {q.token} :
        /\ tokenKey' = [tokenKey EXCEPT ![t] = q.login]
        /\ owner' = IF q.token = Null THEN [owner EXCEPT ![t] = <<q.login, q.device>>] ELSE owner
        /\ Become(r, [q EXCEPT !.pc = "writeSession", !.token = t])
  BY DEF WriteToken
<1>5. t \in Tokens /\ tokenKey \in [Tokens -> LoginIds \cup Markers \cup {Null}]
      /\ owner \in [Tokens -> (LoginIds \X Devices) \cup {Null}]
  BY <1>3, <1>4 DEF Fresh, IInv, TypeOK, Request
<1>6. /\ tokenKey'[t] = a /\ owner'[t] = <<a, q.device>>
      /\ \A u \in Tokens : u # t => tokenKey'[u] = tokenKey[u] /\ owner'[u] = owner[u]
      /\ \A u \in Tokens : owner[u] # Null =>
           tokenKey'[u] = tokenKey[u] /\ owner'[u] = owner[u]
  <2>1. CASE q.token = Null
    BY <1>2, <1>4, <1>5, <2>1 DEF Fresh
  <2>2. CASE q.token # Null
    <3>1. t = q.token /\ owner' = owner /\ tokenKey[t] = a /\ owner[t] = <<a, q.device>>
      BY <1>1, <1>2, <1>3, <1>4, <2>2 DEF Hand
    <3> QED
      BY <1>4, <1>5, <3>1
  <2> QED
    BY <2>1, <2>2
<1> SUFFICES ASSUME NEW n, n = [q EXCEPT !.pc = "writeSession", !.token = t]
             PROVE  Works(r)
  OBVIOUS
<1>7. /\ n.pc = "writeSession" /\ n.op = q.op /\ n.login = q.login
      /\ n.device = q.device /\ n.token = t /\ n.at = q.at /\ n.todo = q.todo
      /\ n.pc \in Writing /\ n.pc \notin Revoking \cup Clearing \cup Ending
  BY <1>3 DEF Request, Writing, Revoking, Clearing, Ending
<1>8. Reaches(n)' = Reaches(q) /\ Account(n)' = a /\ Scope(n)' = D
  BY <1>1, <1>2, <1>7 DEF Reaches, Account, Scope
<1>9. handed \subseteq Tokens /\ \A u \in handed : owner[u] # Null
  BY <1>3 DEF AInv, IInv, TypeOK
<1>10. Frame(r)
  <2>1. \A x \in Reqs : x # r => req'[x] = req[x]
    BY <1>3, <1>4 DEF IInv, TypeOK, Become
  <2> QED
    BY <1>1, <1>2, <1>6, <1>9, <2>1 DEF Frame, Elsewhere
<1>11. Hand(n)'
  <2>1. Path(n)'
    BY <1>2, <1>7, Kinds DEF Path, AccountOps, TokenOps
  <2> QED
    BY <1>2, <1>7, <1>8, <2>1, <1>1, <1>3 DEF Hand
<1>12. \A u \in handed : owner'[u] = owner[u] /\ (Live(u)' <=> Live(u))
  BY <1>6, <1>9 DEF Live
<1>13. ASSUME ~Multi(config)
       PROVE  /\ OneOfAccount'
              /\ \A l \in LoginIds, d \in Devices : <<l, d>> \in Places(r) => Listed(l, d)'
              /\ Knows(n)'
  <2>1. Held(r) /\ OneOfAccount /\ Knows(q)
    BY <1>3, <1>13
  <2>2. OneOfAccount'
    BY <1>1, <1>12, <2>1 DEF Held, OneOfAccount
  <2>3. \A l \in LoginIds, d \in Devices : <<l, d>> \in Places(r) => Listed(l, d)'
    BY <1>1, <1>12, <2>1 DEF Held, Listed
  <2>4. Sole(a, q.device, q.token)
    BY <1>2, <2>1 DEF Knows
  <2>5. Sole(a, q.device, t)'
    <3>1. q.token # Null => t = q.token
      BY <1>4
    <3>2. Null \notin handed
      BY <1>9, ValuesAssumption
    <3> QED
      BY <1>1, <1>12, <2>4, <3>1, <3>2 DEF Sole
  <2>6. ASSUME NEW d \in D, Cleared(n, d)' PROVE Clear(a, d)'
    <3>1. Cleared(q, d)
      BY <1>2, <1>7, <1>8, <2>6, Kinds DEF Cleared
    <3>2. Clear(a, d)
      BY <1>2, <2>1, <3>1 DEF Knows
    <3> QED
      BY <1>1, <1>12, <3>2 DEF Clear
  <2> QED
    BY <1>2, <1>7, <1>8, <2>2, <2>3, <2>5, <2>6 DEF Knows
<1>14. ASSUME ~MayAbort PROVE Leaves(n)'
  <2>1. Leaves(q)
    BY <1>3, <1>14
  <2>2. ASSUME NEW d \in D, Settled(n, d)' PROVE Agree(a, d)'
    <3>1. Settled(q, d)
      BY <1>2, <1>7, <1>8, <2>2, Kinds DEF Settled
    <3>2. Agree(a, d)
      BY <1>2, <2>1, <3>1 DEF Leaves
    <3>3. session[a][d] # Null => session[a][d] \in Tokens /\ owner[session[a][d]] # Null
      <4>1. session[a][d] \in Tokens \cup {Null}
        BY <1>2, <1>3, <2>2 DEF IInv, TypeOK, Index
      <4>2. session[a][d] # Null => owner[session[a][d]] = <<a, d>>
        BY <1>2, <1>3, <2>2 DEF IInv, Ownership
      <4>3. <<a, d>> # Null
        BY <1>2, <2>2, ValuesAssumption
      <4> QED
        BY <4>1, <4>2, <4>3
    <3> QED
      BY <1>1, <1>6, <3>2, <3>3 DEF Agree, Live
  <2>3. \A d : ~Emptied(n, d)'
    BY <1>7 DEF Emptied, Revoking, Clearing
  <2>4. Live(t)'
    BY <1>2, <1>6 DEF Live
  <2> QED
    BY <1>2, <1>7, <1>8, <2>2, <2>3, <2>4 DEF Leaves
<1> QED
  BY <1>2, <1>4, <1>7, <1>10, <1>11, <1>13, <1>14, WritingWorks

LEMMA WriteSessionWorks ==
  ASSUME DInv, NEW r \in Reqs, WriteSession(r) PROVE Works(r)
<1> SUFFICES ASSUME NEW q, q = req[r], NEW a, a = q.login, NEW D, D = Scope(q),
                    NEW n, n = [q EXCEPT !.pc = "readAdd"]
             PROVE  Works(r)
  OBVIOUS
<1>1. q.pc = "writeSession" /\ UNCHANGED <<config, tokenKey, list, data, owner, handed>>
      /\ Become(r, n)
      /\ session' = [session EXCEPT ![q.login] = [session[q.login] EXCEPT ![q.device] = q.token]]
  BY DEF WriteSession
<1>2. /\ Running(r) /\ q.pc \in Writing /\ q.op = "login"
      /\ q.op \notin TokenOps \cup DeviceOps \cup AccountOps
      /\ a \in LoginIds /\ q.device \in Devices
      /\ Account(q) = a /\ q.device \in D /\ D \subseteq Devices
      /\ <<a, q.device>> \in Places(r)
      /\ Reaches(q) => D = Devices
      /\ ~Reaches(q) => D = {q.device} /\ q.at = q.device
      /\ \A d \in Devices : q.todo[d] = Null
  BY <1>1, LoginPlace
<1>3. /\ AInv /\ IInv /\ q \in Request /\ Shape(q) /\ Hand(q) /\ Path(q)
      /\ ~Multi(config) => Knows(q) /\ Held(r) /\ OneOfAccount
      /\ ~MayAbort => Leaves(q)
  BY <1>2, Before
<1>4. /\ session'[a][q.device] = q.token
      /\ \A l \in LoginIds, d \in Devices :
           l # a \/ d # q.device => session'[l][d] = session[l][d]
  BY <1>1, <1>2, <1>3 DEF IInv, TypeOK, Index
<1>5. /\ n.pc = "readAdd" /\ n.op = q.op /\ n.login = q.login
      /\ n.device = q.device /\ n.token = q.token /\ n.at = q.at /\ n.todo = q.todo
      /\ n.pc \in Writing /\ n.pc \notin Revoking \cup Clearing \cup Ending
  BY <1>3 DEF Request, Writing, Revoking, Clearing, Ending
<1>6. Reaches(n)' = Reaches(q) /\ Account(n)' = a /\ Scope(n)' = D
      /\ \A u : Live(u)' <=> Live(u)
  BY <1>1, <1>2, <1>5 DEF Reaches, Account, Scope, Live
<1>7. Frame(r)
  <2>1. \A x \in Reqs : x # r => req'[x] = req[x]
    BY <1>1, <1>3 DEF IInv, TypeOK, Become
  <2>2. handed \subseteq Tokens /\ \A u \in handed : owner[u] # Null
    BY <1>3 DEF AInv, IInv, TypeOK
  <2>3. \A l \in LoginIds, d \in Devices : <<l, d>> \notin Places(r) =>
          session'[l][d] = session[l][d]
    BY <1>2, <1>4
  <2> QED
    BY <1>1, <2>1, <2>2, <2>3 DEF Frame, Elsewhere
<1>8. Hand(n)'
  <2>1. Path(n)'
    BY <1>2, <1>5, Kinds DEF Path, AccountOps, TokenOps
  <2> QED
    BY <1>2, <1>3, <1>4, <1>5, <1>6, <2>1, <1>1 DEF Hand
<1>9. ASSUME ~Multi(config)
      PROVE  /\ OneOfAccount'
             /\ \A l \in LoginIds, d \in Devices : <<l, d>> \in Places(r) => Listed(l, d)'
             /\ Knows(n)'
  <2>1. Held(r) /\ OneOfAccount /\ Knows(q) /\ Sole(a, q.device, q.token)
    BY <1>2, <1>3, <1>9 DEF Knows
  <2>2. OneOfAccount'
    BY <1>1, <2>1 DEF Held, OneOfAccount, Live
  <2>3. ASSUME NEW l \in LoginIds, NEW d \in Devices, <<l, d>> \in Places(r)
        PROVE  Listed(l, d)'
    <3>1. CASE l = a /\ d = q.device
      BY <1>1, <1>2, <1>4, <1>6, <2>1, <3>1 DEF Held, Listed, Sole
    <3>2. CASE l # a \/ d # q.device
      BY <1>1, <1>4, <1>6, <2>1, <2>3, <3>2 DEF Held, Listed
    <3> QED
      BY <3>1, <3>2
  <2>4. ASSUME NEW d \in D, Cleared(n, d)' PROVE Clear(a, d)'
    <3>1. Cleared(q, d)
      BY <1>2, <1>5, <1>6, <2>4, Kinds DEF Cleared
    <3> QED
      BY <1>1, <1>2, <1>6, <2>1, <3>1 DEF Knows, Clear
  <2>5. Sole(a, q.device, q.token)'
    BY <1>1, <1>6, <2>1 DEF Sole
  <2> QED
    BY <1>2, <1>5, <1>6, <2>2, <2>3, <2>4, <2>5 DEF Knows
<1>10. ASSUME ~MayAbort PROVE Leaves(n)'
  <2>1. Leaves(q)
    BY <1>3, <1>10
  <2>2. ASSUME NEW d \in D, Settled(n, d)' PROVE Agree(a, d)'
    <3>1. Settled(q, d) /\ d # q.device
      BY <1>2, <1>5, <1>6, <2>2, Kinds DEF Settled, Reaches, Writing, Ending
    <3>2. Agree(a, d)
      BY <1>2, <2>1, <3>1 DEF Leaves
    <3>3. session'[a][d] = session[a][d]
      BY <1>2, <1>4, <3>1
    <3> QED
      BY <1>1, <1>6, <3>2, <3>3 DEF Agree
  <2>3. \A d : ~Emptied(n, d)'
    BY <1>5 DEF Emptied, Revoking, Clearing
  <2>4. Live(q.token)'
    BY <1>1, <1>6, <2>1 DEF Leaves
  <2> QED
    BY <1>2, <1>5, <1>6, <2>2, <2>3, <2>4 DEF Leaves
<1> QED
  BY <1>1, <1>2, <1>5, <1>7, <1>8, <1>9, <1>10, WritingWorks

LEMMA CasAddWorks ==
  ASSUME DInv, NEW r \in Reqs, CasAdd(r) PROVE Works(r)
<1> SUFFICES ASSUME NEW q, q = req[r], NEW a, a = q.login, NEW D, D = Scope(q)
             PROVE  Works(r)
  OBVIOUS
<1>1. q.pc = "casAdd" /\ UNCHANGED <<config, tokenKey, session, data, owner>>
  BY DEF CasAdd
<1>2. /\ Running(r) /\ q.pc \in Writing /\ q.op = "login"
      /\ q.op \notin TokenOps \cup DeviceOps \cup AccountOps
      /\ a \in LoginIds /\ q.device \in Devices
      /\ Account(q) = a /\ q.device \in D /\ D \subseteq Devices
      /\ <<a, q.device>> \in Places(r) /\ <<a, q.device>> # Null
      /\ q.token # Null => owner[q.token] = <<a, q.device>>
      /\ Reaches(q) <=> ~config.deviceConcurrent
      /\ Reaches(q) => D = Devices
      /\ ~Reaches(q) => D = {q.device} /\ q.at = q.device
  BY <1>1, LoginPlace
<1>3. /\ AInv /\ IInv /\ q \in Request /\ Shape(q) /\ Hand(q) /\ Path(q)
      /\ ~Multi(config) => Knows(q) /\ Held(r) /\ OneOfAccount
      /\ ~MayAbort => Leaves(q)
  BY <1>2, Before
<1>4. CASE list[q.login] # q.old /\ UNCHANGED <<list, handed>>
           /\ Become(r, [q EXCEPT !.pc = "readAdd", !.old = Empty])
  <2> DEFINE n == [q EXCEPT !.pc = "readAdd", !.old = Empty]
  <2>1. /\ n \in Request /\ n.pc = "readAdd" /\ n.op = q.op /\ n.login = q.login
        /\ n.device = q.device /\ n.token = q.token /\ n.at = q.at /\ n.todo = q.todo
    <3>1. Empty \in Index
      BY DEF Empty, Index
    <3> QED
      BY <1>3, <3>1 DEF Request, PCs
  <2>2. Reaches(n) = Reaches(q) /\ Account(n) = a /\ Scope(n) = D
    BY <1>2, <2>1 DEF Reaches, Account, Scope
  <2>3. Hand(n)
    <3>1. Path(n)
      BY <1>2, <2>1, Kinds DEF Path, AccountOps, TokenOps, Writing
    <3> QED
      BY <1>1, <1>2, <1>3, <2>1, <2>2, <3>1 DEF Hand, Revoking, Clearing
  <2>4. ~Multi(config) => Knows(n)
    BY <1>1, <1>2, <1>3, <2>1, <2>2 DEF Knows, Cleared, Revoking, Clearing, Writing, Ending
  <2>5. ~MayAbort => Leaves(n)
    BY <1>1, <1>2, <1>3, <2>1, <2>2 DEF Leaves, Settled, Emptied, Revoking, Clearing, Writing, Ending
  <2>6. UNCHANGED <<config, store, owner, handed>>
    BY <1>1, <1>4 DEF store
  <2> QED
    BY <1>2, <1>4, <2>1, <2>3, <2>4, <2>5, <2>6, ReadingWorks
<1>5. CASE /\ list[q.login] = q.old
           /\ list' = [list EXCEPT ![q.login] = [q.old EXCEPT ![q.device] = q.token]]
           /\ handed' = handed \cup {q.token}
           /\ Become(r, Idle)
  <2>1. /\ list'[a][q.device] = q.token
        /\ \A l \in LoginIds, d \in Devices :
             l # a \/ d # q.device => list'[l][d] = list[l][d]
    BY <1>2, <1>3, <1>5 DEF IInv, TypeOK, Index
  <2>2. \A u : Live(u)' <=> Live(u)
    BY <1>1 DEF Live
  <2>3. q.token \in Tokens /\ owner[q.token] = <<a, q.device>>
    BY <1>1, <1>2, <1>3, ValuesAssumption DEF Shape
  <2>4. Frame(r) /\ req'[r] = Idle
    <3>1. \A x \in Reqs : x # r => req'[x] = req[x]
      BY <1>3, <1>5 DEF IInv, TypeOK, Become
    <3>2. handed' \subseteq Tokens /\ \A t \in handed' : owner[t] # Null
      BY <1>2, <1>3, <1>5, <2>3 DEF AInv, IInv, TypeOK
    <3>3. \A l \in LoginIds, d \in Devices : <<l, d>> \notin Places(r) =>
            list'[l][d] = list[l][d]
      BY <1>2, <2>1
    <3>4. req'[r] = Idle
      BY <1>3, <1>5 DEF IInv, TypeOK, Become
    <3>5. \A t \in Tokens : owner[t] \notin Places(r) => (t \in handed' <=> t \in handed)
      BY <1>2, <1>5, <2>3
    <3> QED
      BY <1>1, <3>1, <3>2, <3>3, <3>4, <3>5 DEF Frame, Elsewhere
  <2>5. Hand(req[r])' /\ ~Running(r)' /\ req'[r].pc # "failed"
    BY <2>4, HandOfIdle DEF Running, Idle
  <2>6. ASSUME ~Multi(config)
        PROVE  OneOfAccount' /\ \A l \in LoginIds, d \in Devices : <<l, d>> \in Places(r) => Listed(l, d)'
    <3>1. Held(r) /\ OneOfAccount /\ Knows(q) /\ Sole(a, q.device, q.token)
      BY <1>2, <1>3, <2>6 DEF Knows
    <3>2. ASSUME NEW l \in LoginIds, NEW d \in Devices, <<l, d>> \in Places(r)
          PROVE  Listed(l, d)'
      <4>1. CASE l = a /\ d = q.device
        <5>1. session[a][q.device] = q.token
          BY <1>1, <1>3 DEF Hand
        <5> QED
          BY <1>1, <1>5, <2>1, <2>2, <3>1, <4>1, <5>1 DEF Listed, Sole
      <4>2. CASE l # a \/ d # q.device
        <5>1. Listed(l, d)
          BY <3>1, <3>2 DEF Held
        <5>2. \A u \in handed' : owner[u] = <<l, d>> => u \in handed
          BY <1>5, <2>3, <4>2
        <5> QED
          BY <1>1, <2>1, <2>2, <4>2, <5>1, <5>2 DEF Listed
      <4> QED
        BY <4>1, <4>2
    <3>3. ASSUME ~config.deviceConcurrent PROVE OneOfAccount'
      <4>1. ASSUME NEW u \in handed, Live(u), owner[u][1] = a PROVE u = q.token
        <5>1. u \in Tokens /\ owner[u] # Null
          BY <1>3, <4>1 DEF AInv, IInv, TypeOK
        <5>2. owner[u] \in LoginIds \X Devices
          BY <1>3, <5>1 DEF IInv, TypeOK
        <5>3. owner[u] = <<a, owner[u][2]>> /\ owner[u][2] \in Devices
          BY <4>1, <5>2
        <5>4. Clear(a, owner[u][2])
          BY <1>2, <3>1, <3>3, <5>3 DEF Knows, Cleared
        <5> QED
          BY <4>1, <5>3, <5>4 DEF Clear
      <4>2. OneOfAccount
        BY <3>1 DEF Held
      <4>3. owner[q.token][1] = a
        BY <2>3
      <4> QED
        BY <1>1, <1>5, <2>2, <3>3, <4>1, <4>2, <4>3 DEF OneOfAccount
    <3> QED
      BY <1>1, <3>2, <3>3 DEF OneOfAccount
  <2>7. ASSUME ~MayAbort, NEW l \in LoginIds, NEW d \in Devices, <<l, d>> \in Places(r)
        PROVE  Agree(l, d)'
    <3>1. l = a /\ d \in D
      BY <1>2, <2>7 DEF Places
    <3>2. Leaves(q)
      BY <1>3, <2>7
    <3>3. CASE d = q.device
      <4>1. session[a][d] = q.token /\ Live(q.token)
        BY <1>1, <1>3, <3>2, <3>3 DEF Hand, Leaves
      <4> QED
        BY <1>1, <2>1, <2>2, <3>1, <3>3, <4>1 DEF Agree
    <3>4. CASE d # q.device
      <4>1. Settled(q, d)
        BY <1>2, <3>1, <3>4 DEF Settled
      <4>2. Agree(a, d)
        BY <1>2, <3>1, <3>2, <4>1 DEF Leaves
      <4> QED
        BY <1>1, <2>1, <2>2, <3>1, <3>4, <4>2 DEF Agree
    <3> QED
      BY <3>3, <3>4
  <2> QED
    BY <1>2, <2>4, <2>5, <2>6, <2>7 DEF Works
<1> QED
  BY <1>4, <1>5 DEF CasAdd

-----------------------------------------------------------------------------
LEMMA StepWorks == ASSUME DInv, NEW r \in Reqs, Step(r) PROVE Works(r) /\ Running(r)
<1>1. Works(r)
  BY ReadSessionWorks, ReadMappedWorks, ReadAllWorks, ReadTokenWorks, ReadMarkWorks,
     CasMarkWorks, DropTokenWorks, FindDeviceWorks, DropSessionWorks, DropListWorks,
     ReadRemoveWorks, CasRemoveWorks, CountListWorks, DropDataWorks, WriteTokenWorks,
     WriteSessionWorks, ReadAddWorks, CasAddWorks DEF Step
<1>2. Running(r)
  BY DEF Step, Running, ReadSession, ReadMapped, ReadAll, ReadToken, ReadMark, CasMark,
         DropToken, FindDevice, DropSession, DropList, ReadRemove, CasRemove, CountList,
         DropData, WriteToken, WriteSession, ReadAdd, CasAdd
<1> QED
  BY <1>1, <1>2

LEMMA InitEInv == Init => EInv
<1> SUFFICES ASSUME Init PROVE EInv
  OBVIOUS
<1>1. IInv
  BY InitIInv
<1>2. \A r \in Reqs : req[r] = Idle /\ ~Running(r) /\ req[r].pc # "failed" /\ Hand(req[r])
  BY HandOfIdle DEF Init, Running, Idle
<1>3. handed = {} /\ \A l \in LoginIds, d \in Devices : session[l][d] = Null /\ list[l][d] = Null
  BY DEF Init, Empty
<1>4. AInv
  BY <1>1, <1>2, <1>3 DEF AInv, Disjoint
<1>5. BInv
  BY <1>2, <1>3 DEF BInv, OneOfAccount
<1>6. CInv
  BY <1>2 DEF CInv
<1>7. \A l \in LoginIds, d \in Devices : Rest(l, d)
  BY <1>3 DEF Rest, Listed, Agree
<1> QED
  BY <1>4, <1>5, <1>6, <1>7 DEF DInv, EInv

LEMMA StartBegins ==
  ASSUME NEW r \in Reqs, StartAny(r)
  PROVE  \E n : Start(r, n) /\ Begun(n)
<1>0. Empty \in Index /\ Idle \in Request
  BY IdleRequest DEF Empty, Index
<1>1. ASSUME NEW op \in {"login"} \cup DeviceOps, NEW l \in LoginIds, NEW d \in Devices,
             Start(r, [Idle EXCEPT !.op = op, !.pc = "readSession",
                                   !.login = l, !.device = d, !.at = d])
      PROVE  \E n : Start(r, n) /\ Begun(n)
  <2> DEFINE n == [Idle EXCEPT !.op = op, !.pc = "readSession",
                               !.login = l, !.device = d, !.at = d]
  <2>1. /\ n \in Request
    BY <1>0 DEF Request, PCs, AllOps
  <2>2. n.op = op /\ n.pc = "readSession" /\ n.login = l /\ n.device = d /\ n.at = d
        /\ n.todo = Empty
    BY DEF Idle
  <2> HIDE DEF n
  <2>3. Begun(n)
    BY <2>1, <2>2 DEF Begun
  <2> QED
    BY <1>1, <2>3 DEF n
<1>2. ASSUME NEW op \in TokenOps, NEW t \in Tokens, t \notin Fresh,
             Start(r, [Idle EXCEPT !.op = op, !.pc = "readToken", !.token = t])
      PROVE  \E n : Start(r, n) /\ Begun(n)
  <2> DEFINE n == [Idle EXCEPT !.op = op, !.pc = "readToken", !.token = t]
  <2>1. /\ n \in Request
    BY <1>0 DEF Request, PCs, AllOps
  <2>2. n.op = op /\ n.pc = "readToken" /\ n.login = Null /\ n.token = t
        /\ n.todo = Empty
    BY DEF Idle
  <2>3. owner[t] # Null
    BY <1>2 DEF Fresh
  <2> HIDE DEF n
  <2>4. Begun(n)
    BY <2>1, <2>2, <2>3 DEF Begun
  <2> QED
    BY <1>2, <2>4 DEF n
<1>3. ASSUME NEW op \in AccountOps, NEW l \in LoginIds,
             Start(r, [Idle EXCEPT !.op = op, !.pc = "readAll", !.login = l])
      PROVE  \E n : Start(r, n) /\ Begun(n)
  <2> DEFINE n == [Idle EXCEPT !.op = op, !.pc = "readAll", !.login = l]
  <2>1. /\ n \in Request
    BY <1>0 DEF Request, PCs, AllOps
  <2>2. n.op = op /\ n.pc = "readAll" /\ n.login = l /\ n.todo = Empty
    BY DEF Idle
  <2> HIDE DEF n
  <2>3. Begun(n)
    BY <2>1, <2>2 DEF Begun
  <2> QED
    BY <1>3, <2>3 DEF n
<1> QED
  BY <1>1, <1>2, <1>3 DEF StartAny, StartLogin, StartDeviceOp, StartTokenOp, StartAccountOp

LEMMA DisjointPlaces ==
  ASSUME AInv, NEW r \in Reqs, Running(r), Works(r), NEW x \in Reqs, x # r, Running(x)
  PROVE  /\ Places(r) \cap Places(x) = {}
         /\ Running(r)' => Places(r)' \cap Places(x) = {}
BY DEF AInv, Disjoint, Works

(* A step of an operation, from the first to the last.                      *)
Moves(r) ==
  /\ DInv' /\ Frame(r)
  /\ Running(r) /\ Running(r)' => Places(r)' = Places(r)
  /\ \A l \in LoginIds, d \in Devices :
       (Untouched(l, d) => Rest(l, d)) /\ Untouched(l, d)' => Rest(l, d)'

LEMMA StartMoves ==
  ASSUME DInv, [Next]_vars, Overlap # "any", NEW r \in Reqs, NEW n, Start(r, n), Begun(n),
         \A d \in Scope(n) : Rest(Account(n), d)
  PROVE  Moves(r)
<1>1. /\ DInv' /\ Works(r)
      /\ \A x \in Reqs : x # r /\ Running(x) => Places(r) \cap Places(x) = {}
  BY StartKeeps DEF Begun
<1> QED
  BY <1>1, WorksRest DEF Moves, Works

LEMMA StepMoves ==
  ASSUME DInv, [Next]_vars, NEW r \in Reqs, Step(r) \/ Abort(r)
  PROVE  Moves(r)
<1>1. Works(r) /\ Running(r)
  <2>1. CASE Step(r)
    BY <2>1, StepWorks
  <2>2. CASE Abort(r)
    <3>1. MayAbort /\ Running(r) /\ Become(r, Failed)
          /\ UNCHANGED <<config, store, owner, handed>>
      BY <2>2 DEF Abort
    <3> QED
      BY <3>1, ReadingEnds
  <2> QED
    BY <2>1, <2>2
<1>2. \A x \in Reqs : x # r /\ Running(x) =>
        /\ Places(r) \cap Places(x) = {}
        /\ Running(r)' => Places(r)' \cap Places(x) = {}
  BY <1>1, DisjointPlaces DEF DInv
<1>3. DInv'
  BY <1>1, <1>2, WorksKeeps
<1> QED
  BY <1>1, <1>2, <1>3, WorksRest DEF Moves, Works

(* A step made outside the places of the operations in flight. *)
LEMMA ApartStep ==
  ASSUME DInv, IInv', req' = req, NEW P, Elsewhere(P),
         \A x \in Reqs : Running(x) => P \cap Places(x) = {},
         ~Multi(config) => OneOfAccount'
  PROVE  /\ DInv'
         /\ \A x \in Reqs : Running(x) => Places(x)' = Places(x)
         /\ \A l \in LoginIds, d \in Devices : Untouched(l, d)' <=> Untouched(l, d)
         /\ \A l \in LoginIds, d \in Devices :
              <<l, d>> \notin P /\ Rest(l, d) => Rest(l, d)'
<1>1. AInv /\ config' = config
  BY DEF DInv, Elsewhere
<1>2. \A x \in Reqs : req'[x] = req[x] /\ Running(x)' = Running(x)
  BY DEF Running
<1>3. \A x \in Reqs : P \cap Places(x) = {} \/ ~Running(x)
  OBVIOUS
<1>4. ASSUME NEW x \in Reqs, Running(x)
      PROVE  /\ Hand(req[x])' /\ Places(x)' = Places(x)
             /\ Knows(req[x]) => Knows(req[x])'
             /\ Leaves(req[x]) => Leaves(req[x])'
  BY <1>1, <1>2, <1>4, KeepHand, KeepKnows, KeepLeaves
<1>5. \A x \in Reqs : Hand(req[x])'
  <2>1. ASSUME NEW x \in Reqs, ~Running(x) PROVE Hand(req[x])'
    <3>1. req[x] \in {Idle, Failed}
      BY <1>1, <2>1 DEF AInv, Hand, Running
    <3> QED
      BY <1>2, <3>1, HandOfIdle
  <2> QED
    BY <1>4, <2>1
<1>6. AInv'
  <2>1. Disjoint'
    BY <1>1, <1>2, <1>4 DEF AInv, Disjoint
  <2>2. \A t \in handed' : owner'[t] # Null
    BY DEF Elsewhere
  <2> QED
    BY <1>5, <2>1, <2>2 DEF AInv
<1>7. \A l \in LoginIds, d \in Devices : <<l, d>> \notin P =>
        (Listed(l, d) => Listed(l, d)') /\ (Agree(l, d) => Agree(l, d)')
  BY <1>1, KeepListed, KeepAgree
<1>8. ASSUME ~Multi(config) PROVE BInv'
  <2>1. BInv
    BY <1>8 DEF DInv
  <2>2. ASSUME NEW x \in Reqs, Running(x) PROVE Held(x)'
    <3>1. Knows(req[x])'
      BY <1>4, <2>1, <2>2 DEF BInv, Held
    <3>2. \A l \in LoginIds, d \in Devices : <<l, d>> \in Places(x) => Listed(l, d)'
      BY <1>7, <2>1, <2>2 DEF BInv, Held
    <3> QED
      BY <1>4, <2>2, <3>1, <3>2 DEF Held
  <2> QED
    BY <1>2, <1>8, <2>2 DEF BInv
<1>9. CInv => CInv'
  BY <1>2, <1>4 DEF CInv
<1>10. \A l \in LoginIds, d \in Devices : Untouched(l, d)' <=> Untouched(l, d)
  <2>1. \A l \in LoginIds, d \in Devices :
          /\ Untouched(l, d) <=> (\A x \in Reqs : Running(x) => <<l, d>> \notin Places(x))
          /\ Untouched(l, d)' <=> (\A x \in Reqs : Running(x)' => <<l, d>> \notin Places(x)')
    BY DEF Untouched, Places
  <2> QED
    BY <1>2, <1>4, <2>1
<1> QED
  BY <1>1, <1>4, <1>6, <1>7, <1>8, <1>9, <1>10 DEF DInv, Rest, Multi

(* A step that writes none of what the indexes and the tokens are. *)
LEMMA UntouchingStep ==
  ASSUME DInv, IInv', UNCHANGED <<config, tokenKey, session, list, req, owner, handed>>
  PROVE  /\ DInv'
         /\ \A l \in LoginIds, d \in Devices :
              (Untouched(l, d)' <=> Untouched(l, d)) /\ (Rest(l, d) => Rest(l, d)')
<1>1. \A r \in Reqs : Running(r)' = Running(r) /\ Places(r)' = Places(r)
                      /\ (Hand(req[r]) => Hand(req[r])')
                      /\ (Knows(req[r]) => Knows(req[r])')
                      /\ (Leaves(req[r]) => Leaves(req[r])')
  <2> SUFFICES ASSUME NEW r \in Reqs
               PROVE  /\ Running(r)' = Running(r) /\ Places(r)' = Places(r)
                      /\ (Hand(req[r]) => Hand(req[r])')
                      /\ (Knows(req[r]) => Knows(req[r])')
                      /\ (Leaves(req[r]) => Leaves(req[r])')
    OBVIOUS
  <2>1. Running(r)' = Running(r) /\ Account(req[r])' = Account(req[r])
        /\ Scope(req[r])' = Scope(req[r]) /\ Reaches(req[r])' = Reaches(req[r])
        /\ Path(req[r])' = Path(req[r])
    BY DEF Running, Account, Scope, Reaches, Path
  <2>2. \A l, d, t : /\ Clear(l, d)' = Clear(l, d) /\ Sole(l, d, t)' = Sole(l, d, t)
                     /\ Agree(l, d)' = Agree(l, d) /\ Live(t)' = Live(t)
    BY DEF Clear, Sole, Agree, Live
  <2>3. \A d : /\ Cleared(req[r], d)' = Cleared(req[r], d)
               /\ Settled(req[r], d)' = Settled(req[r], d)
               /\ Emptied(req[r], d)' = Emptied(req[r], d)
    BY <2>1 DEF Cleared, Settled, Emptied
  <2>4. Places(r)' = Places(r)
    BY <2>1 DEF Places
  <2>5. Hand(req[r]) => Hand(req[r])'
    BY <2>1, <2>2 DEF Hand
  <2>6. Knows(req[r]) => Knows(req[r])'
    BY <2>1, <2>2, <2>3 DEF Knows
  <2>7. Leaves(req[r]) => Leaves(req[r])'
    BY <2>1, <2>2, <2>3 DEF Leaves
  <2> QED
    BY <2>1, <2>4, <2>5, <2>6, <2>7
<1>2. AInv'
  BY <1>1 DEF DInv, AInv, Disjoint
<1>3. \A l, d : Listed(l, d)' = Listed(l, d) /\ Agree(l, d)' = Agree(l, d)
               /\ Untouched(l, d)' = Untouched(l, d)
  BY DEF Listed, Agree, Live, Untouched, Running, Account, Scope
<1>4. BInv => BInv'
  BY <1>1, <1>3 DEF BInv, Held, OneOfAccount, Live
<1>5. CInv => CInv'
  BY <1>1 DEF CInv
<1> QED
  BY <1>2, <1>3, <1>4, <1>5 DEF DInv, Rest, Multi

(* What one step leaves of everything an operation knows. *)
LEMMA NextEInv == ASSUME EInv, Overlap # "any", [Next]_vars PROVE EInv'
<1>0. DInv /\ IInv'
  BY NextIInv DEF EInv, DInv, AInv
<1>1. CASE \E r \in Reqs : StartAny(r)
  <2>0. PICK r \in Reqs : \E n : Start(r, n) /\ Begun(n)
    BY <1>1, StartBegins
  <2>1. PICK n : Start(r, n) /\ Begun(n)
    BY <2>0
  <2>2. \A d \in Scope(n) : Rest(Account(n), d)
    <3>1. Account(n) \in LoginIds /\ Scope(n) \subseteq Devices
      BY <1>0, <2>1, BegunPlace DEF DInv
    <3>2. \A x \in Reqs : Running(x) =>
            ~(Account(req[x]) = Account(n) /\ Scope(req[x]) \cap Scope(n) # {})
      BY <2>1 DEF Start, MayStart
    <3>3. \A d \in Scope(n) : Untouched(Account(n), d)
      BY <3>2 DEF Untouched
    <3> QED
      BY <3>1, <3>3 DEF EInv
  <2> QED
    BY <1>0, <2>1, <2>2, StartMoves DEF EInv, Moves
<1>2. CASE \E r \in Reqs : Step(r) \/ Abort(r)
  BY <1>0, <1>2, StepMoves DEF EInv, Moves
<1>3. CASE UNCHANGED <<config, tokenKey, session, list, req, owner, handed>>
  BY <1>0, <1>3, UntouchingStep DEF EInv
<1> QED
  BY <1>1, <1>2, <1>3 DEF Next, SetData, vars, store

-----------------------------------------------------------------------------
(* An operation that revokes ends only when there is nothing left to revoke *)
(* in its place, and the token it was given is not accepted.                *)
Done(q) ==
  IF q.op \in TokenOps THEN ~Live(q.token)
  ELSE \A d \in Scope(q) : Clear(Account(q), d)

LEMMA LoopEnds ==
  ASSUME NEW p \in Request, Idle \in NextDevice(p)
  PROVE  p.op = "forceLogout" /\ \A d \in Devices : p.todo[d] = Null
<1>1. Idle.pc = "idle"
  BY DEF Idle
<1>2. LoopBody(p) # "idle"
  BY DEF LoopBody
<1>3. ASSUME NEW a \in Devices,
             Idle = [p EXCEPT !.pc = LoopBody(p), !.at = a,
                              !.todo = [p.todo EXCEPT ![a] = Null],
                              !.token = IF p.op = "forceLogout" THEN Null ELSE p.todo[a]]
      PROVE  FALSE
  <2>1. Idle.pc = LoopBody(p)
    BY <1>3 DEF Request
  <2> QED
    BY <1>1, <1>2, <2>1
<1>4. ASSUME Idle = [p EXCEPT !.pc = "dropList", !.at = Null, !.token = Null]
      PROVE  FALSE
  <2>1. Idle.pc = "dropList"
    BY <1>4 DEF Request
  <2> QED
    BY <1>1, <2>1
<1> QED
  BY <1>3, <1>4 DEF NextDevice

(* Which steps end an operation that revokes. *)
LEMMA EndingSteps ==
  ASSUME DInv, NEW r \in Reqs, Step(r), req'[r] = Idle, req[r].op # "login"
  PROVE  \/ ReadSession(r) \/ ReadAll(r) \/ ReadToken(r) \/ DropToken(r) \/ FindDevice(r)
         \/ ReadRemove(r) \/ CasRemove(r) \/ CountList(r) \/ DropData(r)
<1> SUFFICES ASSUME NEW q, q = req[r] PROVE
         \/ ReadSession(r) \/ ReadAll(r) \/ ReadToken(r) \/ DropToken(r) \/ FindDevice(r)
         \/ ReadRemove(r) \/ CasRemove(r) \/ CountList(r) \/ DropData(r)
  OBVIOUS
<1>1. q \in Request /\ Shape(q) /\ req' [r] = Idle /\ Idle.pc = "idle"
      /\ \A n : Become(r, n) => n = Idle
  BY DEF DInv, AInv, IInv, TypeOK, Become, Idle
<1>2. ~ReadMapped(r) /\ ~WriteToken(r) /\ ~WriteSession(r) /\ ~ReadAdd(r) /\ ~CasAdd(r)
  BY <1>1 DEF Shape, ByLogin, ReadMapped, WriteToken, WriteSession, ReadAdd, CasAdd
<1>3. ~ReadMark(r)
  <2>1. Failed.pc = "failed"
    BY DEF Failed, Idle
  <2>2. [q EXCEPT !.pc = "casMark", !.seen = tokenKey[q.token]].pc = "casMark"
    BY <1>1 DEF Request
  <2> QED
    BY <1>1, <2>1, <2>2 DEF ReadMark
<1>4. ~CasMark(r)
  <2>1. ASSUME NEW p PROVE [q EXCEPT !.seen = Null, !.pc = p].pc = p
    BY <1>1 DEF Request
  <2> QED
    BY <1>1, <2>1 DEF CasMark
<1>5. ~DropSession(r)
  <2>1. [q EXCEPT !.pc = "readRemove"].pc = "readRemove"
        /\ [q EXCEPT !.pc = "writeToken", !.token = Null].pc = "writeToken"
    BY <1>1 DEF Request
  <2>2. q.op = "logoutByLoginId" => Idle \notin NextDevice(q)
    BY <1>1, LoopEnds
  <2> QED
    BY <1>1, <2>1, <2>2 DEF DropSession
<1>6. ~DropList(r)
  <2>1. ASSUME NEW p PROVE [q EXCEPT !.pc = p].pc = p
    BY <1>1 DEF Request
  <2> QED
    BY <1>1, <2>1 DEF DropList
<1> QED
  BY <1>2, <1>3, <1>4, <1>5, <1>6 DEF Step

LEMMA EndsDone ==
  ASSUME DInv, ~Multi(config), NEW r \in Reqs, Step(r), req'[r] = Idle, req[r].op # "login",
         NEW q, q = req[r]
  PROVE  \/ Done(q) /\ tokenKey' = tokenKey
         \/ q.op \in TokenOps /\ ~Live(q.token)'
<1>1. Running(r)
  BY StepWorks
<1>2. /\ AInv /\ IInv /\ q \in Request /\ Shape(q) /\ Hand(q) /\ Path(q) /\ Knows(q)
      /\ \A d \in Scope(q) : Listed(Account(q), d)
  BY <1>1, Before
<1>3. /\ Account(q) \in LoginIds /\ Scope(q) \subseteq Devices
      /\ q.op \notin TokenOps => Account(q) = q.login
      /\ q.op \in DeviceOps => Scope(q) = {q.at}
      /\ q.op \in DeviceOps \cup TokenOps \cup AccountOps
      /\ q.pc \in Clearing => q.login = Account(q) /\ q.at \in Scope(q)
      /\ q.op \in DeviceOps \cup TokenOps => q.op # "forceLogout"
      /\ Reaches(q) <=> q.op \in AccountOps
      /\ q.op \in AccountOps => q.op \notin TokenOps
  BY <1>1, <1>2, PlaceOf, Kinds DEF AccountOps, Reaches
<1>4. \A n : Become(r, n) => n = Idle
  BY <1>2 DEF IInv, TypeOK, Become
<1>5. Null \notin handed
  BY <1>2, ValuesAssumption DEF IInv, TypeOK
<1>6. ASSUME NEW d \in Scope(q),
             session[Account(q)][d] = Null \/ list[Account(q)][d] = Null
      PROVE  Clear(Account(q), d)
  BY <1>2, <1>5, <1>6 DEF Listed, Clear
<1>7. CASE ReadSession(r)
  <2>1. q.pc = "readSession" /\ q.login \in LoginIds /\ q.at \in Devices /\ tokenKey' = tokenKey
    BY <1>2, <1>7 DEF ReadSession, Shape, store
  <2>2. q.op \notin TokenOps /\ session[q.login][q.at] = Null
        /\ (q.op \in DeviceOps \/ (q.op = "forceLogout" /\ \A d \in Devices : q.todo[d] = Null))
    <3>1. q.op \notin TokenOps
      BY <1>2, <2>1 DEF Path, Revoking, Clearing, Ending
    <3>2. CASE session[q.login][q.at] = Null
      BY <1>2, <1>4, <1>7, <3>1, <3>2, LoopEnds DEF ReadSession
    <3>3. CASE session[q.login][q.at] # Null
      <4>1. \A s, p : [q EXCEPT !.token = s, !.pc = p].pc = p
        BY <1>2 DEF Request
      <4>2. Idle.pc = "idle"
        BY DEF Idle
      <4> QED
        BY <1>4, <1>7, <3>3, <4>1, <4>2 DEF ReadSession
    <3> QED
      BY <3>1, <3>2, <3>3
  <2>3. Clear(q.login, q.at)
    <3>1. q.op \notin DeviceOps => Scope(q) = Devices
      BY <2>2 DEF Scope, Reaches, AccountOps
    <3> QED
      BY <1>3, <1>6, <2>1, <2>2, <3>1
  <2>4. \A d \in Scope(q) : Clear(Account(q), d)
    <3>1. CASE q.op \in DeviceOps
      BY <1>3, <2>2, <2>3, <3>1
    <3>2. CASE q.op = "forceLogout"
      BY <1>2, <1>3, <2>1, <2>2, <2>3, <3>2 DEF Knows, Cleared, AccountOps
    <3> QED
      BY <2>2, <3>1, <3>2
  <2> QED
    BY <2>1, <2>2, <2>4 DEF Done
<1>8. CASE ReadAll(r)
  <2>1. q.pc = "readAll" /\ tokenKey' = tokenKey /\ q.op \in AccountOps /\ q.login \in LoginIds
    BY <1>2, <1>8 DEF ReadAll, Shape, store, AccountOps
  <2>2. \A d \in Devices : list[q.login][d] = Null
    <3>1. CASE list[q.login] = Empty
      BY <3>1 DEF Empty
    <3>2. CASE list[q.login] # Empty
      <4>1. list[q.login] \in Index
        BY <1>2, <2>1 DEF IInv, TypeOK
      <4>2. /\ [q EXCEPT !.todo = list[q.login]] \in Request
            /\ [q EXCEPT !.todo = list[q.login]].todo = list[q.login]
        BY <1>2, <4>1 DEF Request
      <4>3. Idle \in NextDevice([q EXCEPT !.todo = list[q.login]])
        BY <1>4, <1>8, <3>2 DEF ReadAll
      <4> QED
        BY <4>2, <4>3, LoopEnds
    <3> QED
      BY <3>1, <3>2
  <2> QED
    BY <1>3, <1>6, <2>1, <2>2 DEF Done
<1>9. CASE ReadToken(r)
  <2>1. q.pc = "readToken" /\ tokenKey' = tokenKey /\ q.op \in TokenOps
    BY <1>2, <1>3, <1>9, Kinds DEF ReadToken, store, Path, Revoking, Clearing, Ending, AccountOps
  <2>2. \A v, p : /\ [q EXCEPT !.pc = p].pc = p
                  /\ [q EXCEPT !.login = v, !.pc = p].pc = p
    BY <1>2 DEF Request
  <2>3. Idle.pc = "idle" /\ Null \notin LoginIds /\ Markers \cap LoginIds = {}
    BY ValuesAssumption DEF Idle
  <2>4. tokenKey[q.token] \notin LoginIds
    <3>1. ASSUME tokenKey[q.token] \in LoginIds
          PROVE  FALSE
      <4>1. Become(r, [q EXCEPT !.login = tokenKey[q.token],
                                !.pc = IF q.op = "logout" THEN "dropToken" ELSE "readMark"])
        BY <1>9, <2>3, <3>1 DEF ReadToken
      <4>2. ASSUME NEW p, Become(r, [q EXCEPT !.login = tokenKey[q.token], !.pc = p])
            PROVE  p = "idle"
        <5>1. [q EXCEPT !.login = tokenKey[q.token], !.pc = p] = Idle
          BY <1>4, <4>2
        <5>2. [q EXCEPT !.login = tokenKey[q.token], !.pc = p].pc = p
          BY <1>2 DEF Request
        <5> QED
          BY <2>3, <5>1, <5>2
      <4> QED
        BY <4>1, <4>2
    <3> QED
      BY <3>1
  <2> QED
    BY <2>1, <2>4 DEF Done, Live
<1>10. CASE DropToken(r)
  <2>1. q.pc = "dropToken" /\ tokenKey' = [tokenKey EXCEPT ![q.token] = Null] /\ q.login = Null
    <3>1. \A p : [q EXCEPT !.pc = p].pc = p
      BY <1>2 DEF Request
    <3>2. Idle.pc = "idle"
      BY DEF Idle
    <3> QED
      BY <1>4, <1>10, <3>1, <3>2 DEF DropToken
  <2>2. q.op \in TokenOps /\ q.token \in Tokens
    BY <1>2, <1>3, <2>1, ValuesAssumption DEF Shape, Hand
  <2>3. tokenKey'[q.token] = Null /\ Null \notin LoginIds
    BY <1>2, <2>1, <2>2, ValuesAssumption DEF IInv, TypeOK
  <2> QED
    BY <2>2, <2>3 DEF Live
<1>11. CASE FindDevice(r)
  <2>1. q.pc = "findDevice" /\ tokenKey' = tokenKey
    BY <1>11 DEF FindDevice, store
  <2>2. q.op \in TokenOps
    BY <1>2, <1>3, <2>1 DEF Path, Revoking, Clearing, Ending, AccountOps
  <2> QED
    BY <1>2, <2>1, <2>2 DEF Knows, Done
<1>12. ASSUME q.pc \in {"readRemove", "casRemove"}, Idle \in AfterRemove(q), tokenKey' = tokenKey
       PROVE  Done(q) /\ tokenKey' = tokenKey
  <2>1. CASE q.op \in TokenOps
    BY <1>2, <1>12, <2>1 DEF Knows, Done, Clearing
  <2>2. CASE q.op \in DeviceOps
    BY <1>2, <1>3, <1>12, <2>2, Kinds DEF Knows, Cleared, Done, Clearing
  <2>3. CASE q.op = "forceLogout"
    <3>1. Empty \in Index
      BY DEF Empty, Index
    <3>2. [q EXCEPT !.old = Empty] \in Request /\ [q EXCEPT !.old = Empty].todo = q.todo
      BY <1>2, <3>1 DEF Request
    <3>3. \A d \in Devices : q.todo[d] = Null
      BY <1>12, <2>3, <3>2, LoopEnds DEF AfterRemove
    <3> QED
      BY <1>2, <1>3, <1>12, <2>3, <3>3 DEF Knows, Cleared, Done, Clearing, AccountOps
  <2>4. q.op # "logoutByLoginId"
    BY <1>2, <1>12 DEF Path
  <2> QED
    BY <1>3, <2>1, <2>2, <2>3, <2>4 DEF AccountOps
<1>13. CASE ReadRemove(r)
  <2>1. q.pc \in {"readRemove", "casRemove"} /\ tokenKey' = tokenKey
    BY <1>13 DEF ReadRemove, store
  <2>2. Idle \in AfterRemove(q)
    <3>1. \A l : [q EXCEPT !.pc = "casRemove", !.old = l].pc = "casRemove"
      BY <1>2 DEF Request
    <3>2. Idle.pc = "idle"
      BY DEF Idle
    <3> QED
      BY <1>4, <1>13, <3>1, <3>2 DEF ReadRemove
  <2> QED
    BY <1>12, <2>1, <2>2
<1>14. CASE CasRemove(r)
  <2>1. q.pc \in {"readRemove", "casRemove"} /\ tokenKey' = tokenKey
    BY <1>14 DEF CasRemove
  <2>2. Idle \in AfterRemove(q)
    <3>1. [q EXCEPT !.pc = "readRemove", !.old = Empty].pc = "readRemove"
      BY <1>2 DEF Request
    <3>2. Idle.pc = "idle"
      BY DEF Idle
    <3> QED
      BY <1>4, <1>14, <3>1, <3>2 DEF CasRemove
  <2> QED
    BY <1>12, <2>1, <2>2
<1>15. CASE CountList(r) \/ DropData(r)
  <2>1. q.pc \in Ending /\ tokenKey' = tokenKey /\ (q.pc = "dropData" \/ q.pc = "countList")
        /\ (q.pc = "dropData" <=> DropData(r))
    BY <1>15 DEF CountList, DropData, store, Ending
  <2>2. CASE q.op \in TokenOps
    BY <1>2, <2>1, <2>2 DEF Knows, Done
  <2>3. CASE q.op \in DeviceOps
    BY <1>2, <1>3, <2>1, <2>3, Kinds DEF Knows, Cleared, Done
  <2>4. CASE q.op \in AccountOps
    <3>1. q.pc = "dropData"
      BY <1>2, <2>1, <2>4 DEF Path, AccountOps, Clearing
    <3> QED
      BY <1>2, <1>3, <2>1, <2>4, <3>1 DEF Knows, Cleared, Done
  <2> QED
    BY <1>3, <2>1, <2>2, <2>3, <2>4
<1> QED
  BY <1>7, <1>8, <1>9, <1>10, <1>11, <1>13, <1>14, <1>15, EndingSteps

(* Only an operation's own steps change it. *)
LEMMA OwnStep ==
  ASSUME DInv, Next, NEW r \in Reqs, Returns(r)
  PROVE  Step(r)
<1>1. req \in [Reqs -> Request] /\ Running(r) /\ req'[r] = Idle /\ req'[r] # req[r]
  BY DEF DInv, AInv, IInv, TypeOK, Returns, Running, Idle
<1>2. Failed.pc = "failed" /\ Idle.pc = "idle"
  BY DEF Failed, Idle
<1>3. ASSUME NEW x \in Reqs, x # r, NEW n, Become(x, n) PROVE FALSE
  BY <1>1, <1>3 DEF Become
<1>4. ~Abort(r)
  BY <1>1, <1>2 DEF Abort, Become
<1>5. ~StartAny(r)
  BY <1>1 DEF StartAny, StartLogin, StartDeviceOp, StartTokenOp, StartAccountOp, Start
<1>6. ASSUME NEW x \in Reqs, x # r PROVE ~StartAny(x) /\ ~Abort(x) /\ ~Step(x)
  <2>1. ~StartAny(x)
    BY <1>3, <1>6 DEF StartAny, StartLogin, StartDeviceOp, StartTokenOp, StartAccountOp, Start
  <2>2. ~Abort(x)
    BY <1>3, <1>6 DEF Abort
  <2>3. ~Step(x)
    <3>1. Step(x) => Frame(x)
      BY <1>6, StepWorks DEF Works
    <3> QED
      BY <1>1, <1>6, <3>1 DEF Frame, Elsewhere
  <2> QED
    BY <2>1, <2>2, <2>3
<1>7. \A l \in LoginIds : ~SetData(l)
  BY <1>1 DEF SetData
<1> QED
  BY <1>4, <1>5, <1>6, <1>7 DEF Next

LEMMA ReturnsRevoked ==
  ASSUME DInv, Next, NEW r \in Reqs, Returns(r), req[r].op # "login", ~Multi(config),
         NEW t \in Targets(req[r])
  PROVE  ~Live(t)'
<1>1. Step(r) /\ req'[r] = Idle /\ AInv /\ Running(r)
  BY OwnStep DEF Returns, DInv
<1> SUFFICES ASSUME NEW q, q = req[r] PROVE ~Live(t)'
  OBVIOUS
<1>2. \/ Done(q) /\ tokenKey' = tokenKey
      \/ q.op \in TokenOps /\ ~Live(q.token)'
  BY <1>1, EndsDone
<1>3. CASE req[r].op \in TokenOps
  <2>1. t = req[r].token
    BY <1>3 DEF Targets
  <2> QED
    BY <1>2, <1>3, <2>1 DEF Done, Live
<1>4. CASE req[r].op \notin TokenOps
  <2>1. t \in handed /\ Live(t) /\ owner[t][1] = Account(req[r]) /\ owner[t][2] \in Scope(req[r])
    BY <1>4 DEF Targets, LiveOn
  <2>2. owner[t] \in LoginIds \X Devices
    BY <1>1, <2>1 DEF AInv, IInv, TypeOK
  <2>3. owner[t] = <<Account(req[r]), owner[t][2]>>
    BY <2>1, <2>2
  <2>4. Clear(Account(req[r]), owner[t][2])
    BY <1>2, <1>4, <2>1 DEF Done
  <2> QED
    BY <2>1, <2>3, <2>4 DEF Clear
<1> QED
  BY <1>3, <1>4

-----------------------------------------------------------------------------
(* What the invariant says of what clients hold. *)
OneOfDevice ==
  \A t, u \in handed : Live(t) /\ Live(u) /\ owner[t] = owner[u] => t = u

LEMMA OneEach ==
  ASSUME AInv, OneOfAccount, OneOfDevice
  PROVE  KickingLeavesOne
<1>1. handed \subseteq Tokens /\ \A t \in handed : owner[t] # Null
  BY DEF AInv, IInv, TypeOK
<1>2. ASSUME NEW t \in handed
      PROVE  owner[t] = <<owner[t][1], owner[t][2]>>
  <2>1. owner[t] \in LoginIds \X Devices
    BY <1>1, <1>2 DEF AInv, IInv, TypeOK
  <2> QED
    BY <2>1
<1>3. ASSUME NEW S, S \subseteq Tokens, \A t, u \in S : t = u
      PROVE  Cardinality(S) <= 1
  <2>1. CASE S = {}
    BY <2>1, FS_EmptySet
  <2>2. CASE S # {}
    <3>1. PICK t : S = {t}
      BY <1>3, <2>2
    <3>2. Cardinality(S) = 1
      BY <3>1, FS_Singleton
    <3> QED
      BY <3>2
  <2> QED
    BY <2>1, <2>2
<1>4. OneTokenPerDevice
  <2> SUFFICES ASSUME NEW l \in LoginIds, NEW d \in Devices
               PROVE  Cardinality(LiveOn(l, {d})) <= 1
    BY DEF OneTokenPerDevice
  <2>1. \A t \in LiveOn(l, {d}) : t \in handed /\ Live(t) /\ owner[t] = <<l, d>>
    BY <1>2 DEF LiveOn
  <2>2. \A t, u \in LiveOn(l, {d}) : t = u
    BY <2>1 DEF OneOfDevice
  <2> QED
    BY <1>1, <1>3, <2>2 DEF LiveOn
<1>5. OneTokenPerAccount
  <2> SUFFICES ASSUME ~config.deviceConcurrent, NEW l \in LoginIds
               PROVE  Cardinality(LiveOn(l, Devices)) <= 1
    BY DEF OneTokenPerAccount
  <2>1. \A t, u \in LiveOn(l, Devices) : t = u
    BY DEF LiveOn, OneOfAccount
  <2> QED
    BY <1>1, <1>3, <2>1 DEF LiveOn
<1> QED
  BY <1>4, <1>5 DEF KickingLeavesOne

LEMMA EInvSays ==
  ASSUME EInv
  PROVE  /\ EveryLiveTokenIsListed /\ KickingLeavesOne
         /\ ~MayAbort => IndexesAgree /\ NeverThrows
<1>1. Multi(config) => EveryLiveTokenIsListed /\ KickingLeavesOne
  BY DEF EveryLiveTokenIsListed, KickingLeavesOne, OneTokenPerDevice, OneTokenPerAccount, Multi
<1>2. ASSUME ~Multi(config) PROVE EveryLiveTokenIsListed /\ KickingLeavesOne
  <2>1. AInv /\ BInv
    BY <1>2 DEF EInv, DInv
  <2>2. ASSUME NEW l \in LoginIds, NEW d \in Devices PROVE Listed(l, d)
    BY <1>2, <2>1, UntouchedPlace DEF EInv, Rest, BInv, Held
  <2>3. ASSUME NEW t \in handed
        PROVE  /\ owner[t][1] \in LoginIds /\ owner[t][2] \in Devices
               /\ owner[t] = <<owner[t][1], owner[t][2]>>
    <3>1. owner[t] \in LoginIds \X Devices
      BY <2>1, <2>3 DEF AInv, IInv, TypeOK
    <3> QED
      BY <3>1
  <2>4. EveryLiveTokenIsListed
    BY <2>2, <2>3 DEF EveryLiveTokenIsListed, Listed
  <2>5. OneOfDevice
    BY <2>2, <2>3 DEF OneOfDevice, Listed
  <2> QED
    BY <2>1, <2>4, <2>5, OneEach DEF BInv
<1>3. ~MayAbort => IndexesAgree /\ NeverThrows
  BY DEF EInv, DInv, CInv, Rest, IndexesAgree, NeverThrows, Agree, Untouched
<1> QED
  BY <1>1, <1>2, <1>3

(* Where no two operations work on one device at once, whatever fails:      *)
(* every accepted token a client holds is reached by both indexes, so that  *)
(* a kickout or a forced logout finds it.                                   *)
THEOREM LiveTokensListed ==
  ASSUME Overlap # "any"
  PROVE  Spec => []EveryLiveTokenIsListed
<1>1. EInv => EveryLiveTokenIsListed
  BY EInvSays
<1>2. EInv /\ [Next]_vars => EInv'
  BY NextEInv
<1> QED
  BY <1>1, <1>2, InitEInv, PTL DEF Spec

(* There, the modes that kick out leave one accepted token: one on each     *)
(* device, or one in the whole account, whatever fails.                     *)
THEOREM KickingLeavesOneToken ==
  ASSUME Overlap # "any"
  PROVE  Spec => []KickingLeavesOne
<1>1. EInv => KickingLeavesOne
  BY EInvSays
<1>2. EInv /\ [Next]_vars => EInv'
  BY NextEInv
<1> QED
  BY <1>1, <1>2, InitEInv, PTL DEF Spec

(* There, a kickout, logout or forced logout that returns has revoked what  *)
(* it was to revoke, whatever fails elsewhere.                              *)
THEOREM RevokedWhenReturned ==
  ASSUME Overlap # "any"
  PROVE  Spec => RevokedOnReturn
<1>1. EInv /\ [Next]_vars => EInv'
  BY NextEInv
<1>2. EInv => DInv
  BY DEF EInv
<1>3. DInv /\ [Next]_vars =>
        [\A r \in Reqs : Returns(r) /\ req[r].op # "login" /\ ~Multi(config) =>
           \A t \in Targets(req[r]) : ~Live(t)']_vars
  BY ReturnsRevoked
<1> QED
  BY <1>1, <1>2, <1>3, InitEInv, PTL DEF Spec, RevokedOnReturn

(* When besides no operation is cut short, the two indexes agree on every   *)
(* device nobody works on, and what they name is accepted.                  *)
THEOREM IndexesAgreeWhenQuiet ==
  ASSUME Overlap # "any", MayAbort = FALSE
  PROVE  Spec => []IndexesAgree
<1>1. EInv => IndexesAgree
  BY EInvSays
<1>2. EInv /\ [Next]_vars => EInv'
  BY NextEInv
<1> QED
  BY <1>1, <1>2, InitEInv, PTL DEF Spec

(* And no operation is rejected: the token a kickout marks is always there. *)
THEOREM NothingThrows ==
  ASSUME Overlap # "any", MayAbort = FALSE
  PROVE  Spec => []NeverThrows
<1>1. EInv => NeverThrows
  BY EInvSays
<1>2. EInv /\ [Next]_vars => EInv'
  BY NextEInv
<1> QED
  BY <1>1, <1>2, InitEInv, PTL DEF Spec
=============================================================================
