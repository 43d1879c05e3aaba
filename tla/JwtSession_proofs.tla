------------------------- MODULE JwtSession_proofs -------------------------
(***************************************************************************)
(* Theorems about JwtSession for any devices, tokens and operations in     *)
(* flight, in every login mode, whatever fails.  With any overlap: what is *)
(* revoked stays out, however its blacklist entries come and go.  Where    *)
(* operations in flight together are on different devices, or refreshes:   *)
(* a login hands out a token that is accepted; and, where blacklist        *)
(* entries and keys outlast tokens, the modes that kick out leave clients  *)
(* one accepted token.                                                     *)
(***************************************************************************)
EXTENDS JwtSession, TLAPS

(* A request of which all tokens are tokens of S. *)
RequestOf(S) ==
  [op: AllOps \cup {Null}, pc: PCs, home: Devices \cup {Null}, at: Devices \cup {Null},
   token: S \cup {Null}, next: S \cup {Null},
   seen: Nat \cup {Revoked, Null}, ttl: Nat, todo: [Devices -> S \cup {Null}]]

IndexOf(S) == [Devices -> S \cup {Null}]

Looping == {"login", "logoutByLoginId", "forceLogout"}

(* What a request holds at each of its awaits. *)
Shape(q) ==
  /\ q.op = "login" => q.at \in Devices /\ q.home \in Devices
  /\ q.pc = "readSession" => q.at \in Devices /\ q.op # "refreshToken"
  /\ q.pc = "readAll" => q.op \in Looping
  /\ q.pc \in {"readBlack", "readFamily", "casFamily", "replayRead", "setBlack"} => q.token # Null
  /\ q.pc \in {"casFamily", "writeFamily", "writeSession", "addList"} => q.next # Null
  /\ q.pc = "casFamily" => q.seen \in Nat
  /\ q.pc = "writeFamily" /\ q.op = "refreshToken" => q.token # Null
  /\ q.pc \in {"casFamily", "writeFamily", "setBlack"} /\ q.op = "refreshToken"
       => q.ttl \in RefreshTimeouts /\ q.next # Null
  /\ q.pc \in {"readInfo", "dropSession", "removeList", "dropList"}
       => q.op # "refreshToken"
  /\ q.pc = "readFamily" => q.op = "refreshToken"

(* TypeOK, and every token that a key, a request or a client holds has been *)
(* signed.                                                                  *)
KnownOK ==
  /\ mode \in Modes /\ now \in Nat /\ aborts \in Nat
  /\ exp \in [Tokens -> Nat \cup {Null}]
  /\ session \in [Devices -> Entry(Signed)]
  /\ list \in Entry(IndexOf(Signed))
  /\ black \in [Tokens -> Nat \cup {Null}]
  /\ family \in [Tokens -> Nat \cup {Revoked, Null}]
  /\ place \in [Tokens -> Devices \cup {Null}]
  /\ life \in [Tokens -> Nat \cup {Null}]
  /\ handed \subseteq Signed /\ revoked \subseteq Signed
  /\ forked \subseteq Devices \cup {Null} /\ unwritten \in BOOLEAN

RequestsOK ==
  /\ req \in [Reqs -> RequestOf(Signed)]
  /\ \A r \in Reqs : Shape(req[r])

(* A token ends no later than its timeout from now; and the blacklist entry *)
(* of a revoked one no earlier than the token.                              *)
Deadlines ==
  \A t \in Tokens :
    /\ exp[t] # Null /\ life[t] # Null => exp[t] <= now + life[t]
    /\ t \in revoked /\ Covered(t) /\ now < exp[t] => black[t] # Null /\ exp[t] <= black[t]

IInv == KnownOK /\ RequestsOK /\ Deadlines

-----------------------------------------------------------------------------
LEMMA SignedAreTokens == KnownOK => Signed \subseteq Tokens /\ Null \notin Signed
BY JwtAssumption DEF Signed

LEMMA InvariantType == IInv => TypeOK
<1> SUFFICES ASSUME IInv PROVE TypeOK OBVIOUS
<1>1. Signed \subseteq Tokens BY SignedAreTokens DEF IInv
<1>2. session \in [Devices -> Entry(Tokens)] /\ list \in Entry(Index)
  BY <1>1 DEF IInv, KnownOK, Entry, Index, IndexOf
<1>3. req \in [Reqs -> Request]
  BY <1>1 DEF IInv, RequestsOK, RequestOf, Request, Index
<1> QED BY <1>1, <1>2, <1>3 DEF IInv, KnownOK, TypeOK

(* Nothing is lost when more tokens are signed. *)
LEMMA MoreSigned ==
  ASSUME NEW S, NEW T, S \subseteq T
  PROVE  /\ RequestOf(S) \subseteq RequestOf(T)
         /\ Entry(S) \subseteq Entry(T)
         /\ Entry(IndexOf(S)) \subseteq Entry(IndexOf(T))
<1>1. IndexOf(S) \subseteq IndexOf(T) BY DEF IndexOf
<1>2. [Devices -> S \cup {Null}] \subseteq [Devices -> T \cup {Null}] OBVIOUS
<1> QED BY <1>1, <1>2 DEF RequestOf, Entry

LEMMA IdleIsRequest == ASSUME NEW S PROVE Idle \in RequestOf(S) /\ Shape(Idle)
<1>1. Null # "login" /\ Null # "refreshToken" BY JwtAssumption DEF AllOps, TokenOps
<1> QED BY <1>1 DEF Idle, RequestOf, Shape, PCs, Empty

(* One request goes on; tokens may have been signed. *)
LEMMA RequestsGoOn ==
  ASSUME IInv, NEW r \in Reqs, NEW n, Become(r, n), Signed \subseteq Signed',
         n \in RequestOf(Signed'), Shape(n)
  PROVE  RequestsOK'
<1>1. req \in [Reqs -> RequestOf(Signed')]
  <2>1. RequestOf(Signed) \subseteq RequestOf(Signed') BY MoreSigned
  <2> QED BY <2>1 DEF IInv, RequestsOK
<1>2. req' = [req EXCEPT ![r] = n] BY DEF Become
<1>3. req' \in [Reqs -> RequestOf(Signed')] BY <1>1, <1>2
<1>4. ASSUME NEW x \in Reqs PROVE Shape(req'[x])
  <2>1. Shape(req[x]) BY DEF IInv, RequestsOK
  <2> QED BY <1>1, <1>2, <2>1
<1> QED BY <1>3, <1>4 DEF RequestsOK

LEMMA ReadingStep ==
  ASSUME IInv, NEW r \in Reqs, NEW n, Go(r, n), n \in RequestOf(Signed), Shape(n)
  PROVE  IInv'
<1>1. UNCHANGED <<mode, now, aborts, exp, session, list, black, family, place, life,
                  handed, revoked, forked, unwritten>> /\ Become(r, n)
  BY DEF Go, store, past
<1>2. Signed' = Signed BY <1>1 DEF Signed
<1>3. RequestsOK' BY <1>1, <1>2, RequestsGoOn
<1>4. KnownOK' BY <1>1, <1>2 DEF IInv, KnownOK, Entry
<1>5. Deadlines' BY <1>1 DEF IInv, Deadlines, Covered
<1> QED BY <1>3, <1>4, <1>5 DEF IInv

LEMMA ListedIsIndex == ASSUME KnownOK PROVE Listed \in IndexOf(Signed)
BY DEF KnownOK, Entry, Listed, Empty, IndexOf

(* The next request of a loop over the device list. *)
LEMMA NextDeviceShape ==
  ASSUME KnownOK, NEW q \in RequestOf(Signed), q.op \in Looping,
         q.op = "login" => q.at \in Devices /\ q.home \in Devices, NEW n \in NextDevice(q)
  PROVE  n \in RequestOf(Signed) /\ Shape(n)
<1>1. CASE n = Idle BY <1>1, IdleIsRequest
<1>2. ASSUME NEW d \in Devices, q.todo[d] # Null, n = Visit(q, d)
      PROVE  n \in RequestOf(Signed) /\ Shape(n)
  <2>1. q.todo[d] \in Signed /\ [q.todo EXCEPT ![d] = Null] \in [Devices -> Signed \cup {Null}]
    BY <1>2 DEF RequestOf
  <2> DEFINE m == [q EXCEPT !.at = d, !.token = q.todo[d],
                            !.todo = [q.todo EXCEPT ![d] = Null]]
  <2>2. m \in RequestOf(Signed) /\ m.op = q.op /\ m.at = d /\ m.token = q.todo[d]
        /\ m.home = q.home
    BY <2>1 DEF RequestOf
  <2>3. CASE q.op = "forceLogout"
    <3>1. n = [m EXCEPT !.pc = "readSession", !.token = Null] BY <1>2, <2>3 DEF Visit
    <3>2. n \in RequestOf(Signed) /\ n.op = "forceLogout" /\ n.pc = "readSession" /\ n.at = d
      BY <2>2, <2>3, <3>1 DEF RequestOf, PCs
    <3> HIDE DEF m
    <3> QED BY <3>2 DEF Shape
  <2>4. CASE q.op # "forceLogout"
    <3>1. PICK p \in {"setBlack", "dropSession"} : n = [m EXCEPT !.pc = p]
      BY <1>2, <2>4 DEF Visit
    <3> HIDE DEF m
    <3>2. /\ n \in RequestOf(Signed) /\ n.op = q.op /\ n.at = d
          /\ n.token = q.todo[d] /\ n.pc = p /\ n.home = q.home
      BY <2>2, <3>1 DEF RequestOf, PCs
    <3> QED BY <1>2, <2>4, <3>1, <3>2 DEF Shape, Looping
  <2> QED BY <2>3, <2>4
<1>3. CASE n = [q EXCEPT !.pc = "dropList", !.at = q.home, !.token = Null, !.todo = Empty]
  <2>1. n \in RequestOf(Signed) BY <1>3 DEF RequestOf, PCs, Empty
  <2>2. n.pc = "dropList" /\ n.op = q.op /\ n.at = q.home /\ n.home = q.home BY <1>3 DEF RequestOf
  <2> QED BY <2>1, <2>2 DEF Shape, Looping
<1> QED BY <1>1, <1>2, <1>3 DEF NextDevice
-----------------------------------------------------------------------------
(* The reads. *)
LEMMA StartStep ==
  ASSUME IInv, NEW r \in Reqs,
         \/ \E d \in Devices, ttl \in Timeouts : StartLogin(r, d, ttl)
         \/ \E d \in Devices, op \in DeviceOps : StartDeviceOp(r, op, d)
         \/ \E op \in AccountOps : StartAccountOp(r, op)
         \/ \E t \in Tokens, op \in TokenOps \ {"renewTimeout"} : StartTokenOp(r, op, t, 0)
         \/ \E t \in Tokens, ttl \in RenewTimeouts : StartTokenOp(r, "renewTimeout", t, ttl)
  PROVE  IInv'
<1> USE DEF RequestOf, PCs, Idle, Empty
<1>1. ASSUME NEW d \in Devices, NEW ttl \in Timeouts, StartLogin(r, d, ttl) PROVE IInv'
  <2> DEFINE n == [Idle EXCEPT !.op = "login", !.pc = "readSession", !.home = d, !.at = d, !.ttl = ttl]
  <2>1. Go(r, n) BY <1>1 DEF StartLogin, Start
  <2>2. n \in RequestOf(Signed) /\ Shape(n)
    BY JwtAssumption DEF AllOps, Shape
  <2> QED BY <2>1, <2>2, ReadingStep
<1>2. ASSUME NEW d \in Devices, NEW op \in DeviceOps, StartDeviceOp(r, op, d) PROVE IInv'
  <2> DEFINE n == [Idle EXCEPT !.op = op, !.pc = "readSession", !.at = d]
  <2>1. Go(r, n) BY <1>2 DEF StartDeviceOp, Start
  <2>2. n \in RequestOf(Signed) /\ Shape(n)
    BY <1>2 DEF AllOps, DeviceOps, Shape
  <2> QED BY <2>1, <2>2, ReadingStep
<1>3. ASSUME NEW op \in AccountOps, StartAccountOp(r, op) PROVE IInv'
  <2> DEFINE n == [Idle EXCEPT !.op = op, !.pc = "readAll"]
  <2>1. Go(r, n) BY <1>3 DEF StartAccountOp, Start
  <2>2. n \in RequestOf(Signed) /\ Shape(n)
    BY <1>3 DEF AllOps, AccountOps, Looping, Shape
  <2> QED BY <2>1, <2>2, ReadingStep
<1>4. ASSUME NEW t \in Tokens, NEW op \in TokenOps, NEW ttl \in Nat,
             StartTokenOp(r, op, t, ttl)
      PROVE  IInv'
  <2> DEFINE n == [Idle EXCEPT !.op = op, !.token = t, !.ttl = ttl,
                               !.pc = IF op = "endToken" THEN "setBlack" ELSE "readBlack"]
  <2>1. Go(r, n) /\ t \in Signed
    BY <1>4 DEF StartTokenOp, Start, IInv, KnownOK, Accepts, Verified, Signed
  <2>2. n \in RequestOf(Signed) /\ Shape(n)
    BY <1>4, <2>1, JwtAssumption DEF AllOps, TokenOps, Shape
  <2> QED BY <2>1, <2>2, ReadingStep
<1>5. 0 \in Nat /\ RenewTimeouts \subseteq Nat /\ "renewTimeout" \in TokenOps
  BY JwtAssumption DEF TokenOps
<1> QED BY <1>1, <1>2, <1>3, <1>4, <1>5

LEMMA SessionValue ==
  ASSUME KnownOK, NEW d \in Devices PROVE Get(session[d]) \in Signed \cup {Null}
BY DEF KnownOK, Entry, Get

LEMMA ReadSessionStep == ASSUME IInv, NEW r \in Reqs, ReadSession(r) PROVE IInv'
<1> DEFINE q == req[r]
           s == Get(session[q.at])
<1>1. q \in RequestOf(Signed) /\ Shape(q) /\ q.pc = "readSession" /\ KnownOK
  BY DEF IInv, RequestsOK, ReadSession
<1>2. q.at \in Devices /\ q.op # "refreshToken" BY <1>1 DEF Shape
<1>3. s \in Signed \cup {Null} BY <1>1, <1>2, SessionValue
<1>4. CASE q.op = "login" /\ Go(r, LoginBranch(q, s))
  <2>1. LoginBranch(q, s) \in RequestOf(Signed)
    BY <1>1, <1>3 DEF LoginBranch, RequestOf, PCs
  <2>2. Shape(LoginBranch(q, s))
    BY <1>1, <1>2, <1>3, <1>4 DEF LoginBranch, RequestOf, Shape, Looping
  <2> QED BY <1>4, <2>1, <2>2, ReadingStep
<1>5. CASE s # Null /\ Go(r, [q EXCEPT !.pc = "setBlack", !.token = s])
  <2> DEFINE n == [q EXCEPT !.pc = "setBlack", !.token = s]
  <2>1. n \in RequestOf(Signed) /\ Shape(n)
    BY <1>1, <1>2, <1>3, <1>5 DEF RequestOf, PCs, Shape
  <2> QED BY <1>5, <2>1, ReadingStep
<1>6. CASE Go(r, Idle) BY <1>6, IdleIsRequest, ReadingStep
<1>7. ASSUME q.op = "forceLogout", NEW n \in NextDevice(q), Go(r, n) PROVE IInv'
  <2>1. n \in RequestOf(Signed) /\ Shape(n)
    BY <1>1, <1>7, NextDeviceShape DEF Looping
  <2> QED BY <1>7, <2>1, ReadingStep
<1> QED BY <1>4, <1>5, <1>6, <1>7 DEF ReadSession

LEMMA ReadAllStep == ASSUME IInv, NEW r \in Reqs, ReadAll(r) PROVE IInv'
<1> DEFINE q == req[r]
<1>1. q \in RequestOf(Signed) /\ Shape(q) /\ q.pc = "readAll" /\ KnownOK
  BY DEF IInv, RequestsOK, ReadAll
<1>2. CASE Go(r, [q EXCEPT !.pc = "sign"])
  <2>1. [q EXCEPT !.pc = "sign"] \in RequestOf(Signed) /\ Shape([q EXCEPT !.pc = "sign"])
    BY <1>1 DEF RequestOf, PCs, Shape
  <2> QED BY <1>2, <2>1, ReadingStep
<1>3. CASE Go(r, Idle) BY <1>3, IdleIsRequest, ReadingStep
<1>4. ASSUME NEW n \in NextDevice([q EXCEPT !.todo = Listed]), Go(r, n) PROVE IInv'
  <2> DEFINE m == [q EXCEPT !.todo = Listed]
  <2>1. m \in RequestOf(Signed) /\ m.op = q.op /\ m.at = q.at /\ m.home = q.home
    BY <1>1, ListedIsIndex DEF RequestOf, IndexOf
  <2>2. m.op \in Looping /\ (m.op = "login" => m.at \in Devices /\ m.home \in Devices)
    BY <1>1, <2>1 DEF Shape
  <2>3. n \in NextDevice(m) BY <1>4
  <2> HIDE DEF m
  <2>4. n \in RequestOf(Signed) /\ Shape(n) BY <1>1, <2>1, <2>2, <2>3, NextDeviceShape
  <2> QED BY <1>4, <2>4, ReadingStep
<1> QED BY <1>2, <1>3, <1>4 DEF ReadAll

LEMMA ReadInfoStep == ASSUME IInv, NEW r \in Reqs, ReadInfo(r) PROVE IInv'
<1> DEFINE q == req[r]
<1>1. q \in RequestOf(Signed) /\ Shape(q) /\ q.pc = "readInfo" /\ KnownOK
  BY DEF IInv, RequestsOK, ReadInfo
<1>2. CASE Go(r, Idle) BY <1>2, IdleIsRequest, ReadingStep
<1>3. CASE Go(r, [q EXCEPT !.pc = "sign"])
  <2>1. [q EXCEPT !.pc = "sign"] \in RequestOf(Signed) /\ Shape([q EXCEPT !.pc = "sign"])
    BY <1>1 DEF RequestOf, PCs, Shape
  <2> QED BY <1>3, <2>1, ReadingStep
<1>4. CASE /\ q.op = "login" /\ Listed[q.at] # Null
           /\ Go(r, [q EXCEPT !.pc = "readBlack", !.token = Listed[q.at]])
  <2> DEFINE n == [q EXCEPT !.pc = "readBlack", !.token = Listed[q.at]]
  <2>1. Listed[q.at] \in Signed
    BY <1>1, <1>4, ListedIsIndex DEF IndexOf, Shape
  <2>2. n \in RequestOf(Signed) /\ Shape(n)
    BY <1>1, <1>4, <2>1 DEF RequestOf, PCs, Shape
  <2> QED BY <1>4, <2>2, ReadingStep
<1>5. ASSUME NEW d \in Devices, NEW p \in {"touch", "dropSession"},
             Go(r, [q EXCEPT !.pc = p, !.at = d])
      PROVE  IInv'
  <2> DEFINE n == [q EXCEPT !.pc = p, !.at = d]
  <2>1. n \in RequestOf(Signed) /\ Shape(n)
    BY <1>1, <1>5 DEF RequestOf, PCs, Shape
  <2> QED BY <1>5, <2>1, ReadingStep
<1> QED BY <1>2, <1>3, <1>4, <1>5, JwtAssumption DEF ReadInfo

LEMMA ReadBlackStep == ASSUME IInv, NEW r \in Reqs, ReadBlack(r) PROVE IInv'
<1> DEFINE q == req[r]
<1>1. q \in RequestOf(Signed) /\ Shape(q) /\ q.pc = "readBlack" /\ KnownOK
  BY DEF IInv, RequestsOK, ReadBlack
<1>2. CASE Go(r, Idle) BY <1>2, IdleIsRequest, ReadingStep
<1>3. CASE Go(r, [q EXCEPT !.pc = "sign", !.token = Null])
  <2> DEFINE n == [q EXCEPT !.pc = "sign", !.token = Null]
  <2>1. n \in RequestOf(Signed) /\ Shape(n) BY <1>1 DEF RequestOf, PCs, Shape
  <2> QED BY <1>3, <2>1, ReadingStep
<1>4. CASE Go(r, [q EXCEPT !.pc = "writeSession", !.next = q.token])
  <2> DEFINE n == [q EXCEPT !.pc = "writeSession", !.next = q.token]
  <2>1. n \in RequestOf(Signed) /\ Shape(n) BY <1>1 DEF RequestOf, PCs, Shape
  <2> QED BY <1>4, <2>1, ReadingStep
<1>5. CASE q.op = "refreshToken" /\ Go(r, [q EXCEPT !.pc = "readFamily"])
  <2> DEFINE n == [q EXCEPT !.pc = "readFamily"]
  <2>1. n \in RequestOf(Signed) /\ Shape(n) BY <1>1, <1>5 DEF RequestOf, PCs, Shape
  <2> QED BY <1>5, <2>1, ReadingStep
<1>6. CASE q.op = "renewTimeout" /\ Go(r, [q EXCEPT !.pc = "readInfo"])
  <2> DEFINE n == [q EXCEPT !.pc = "readInfo"]
  <2>1. n \in RequestOf(Signed) /\ Shape(n) BY <1>1, <1>6 DEF RequestOf, PCs, Shape
  <2> QED BY <1>6, <2>1, ReadingStep
<1> QED BY <1>2, <1>3, <1>4, <1>5, <1>6 DEF ReadBlack

LEMMA ReplayReadStep == ASSUME IInv, NEW r \in Reqs, ReplayRead(r) PROVE IInv'
<1> DEFINE q == req[r]
           n == [q EXCEPT !.pc = "replayCas", !.seen = family[q.token]]
<1>1. q \in RequestOf(Signed) /\ Shape(q) /\ q.pc = "replayRead" /\ Go(r, n)
  BY DEF IInv, RequestsOK, ReplayRead
<1>2. q.token \in Tokens BY <1>1, SignedAreTokens DEF IInv, RequestOf, Shape
<1>3. family[q.token] \in Nat \cup {Revoked, Null} BY <1>2 DEF IInv, KnownOK
<1>4. n \in RequestOf(Signed) /\ Shape(n) BY <1>1, <1>3 DEF RequestOf, PCs, Shape
<1> QED BY <1>1, <1>4, ReadingStep

-----------------------------------------------------------------------------
(* A token is signed, by a login or a refresh.                              *)
LEMMA SigningStep ==
  ASSUME IInv, NEW r \in Reqs, NEW t \in Tokens, NEW d \in Devices \cup {Null},
         NEW ttl \in Nat, Sign(t, d, ttl),
         NEW n, Become(r, n), n \in RequestOf(Signed \cup {t}), Shape(n),
         UNCHANGED <<mode, now, aborts, store, handed, revoked, forked, unwritten>>
  PROVE  IInv'
<1>1. /\ exp[t] = Null /\ exp' = [exp EXCEPT ![t] = now + ttl]
      /\ place' = [place EXCEPT ![t] = d] /\ life' = [life EXCEPT ![t] = ttl]
  BY DEF Sign
<1>2. UNCHANGED <<mode, now, aborts, session, list, black, family, handed, revoked, forked, unwritten>>
  BY DEF store
<1>3. now + ttl \in Nat /\ Null \notin Nat BY JwtAssumption DEF IInv, KnownOK
<1>4. Signed' = Signed \cup {t} BY <1>1, <1>3 DEF IInv, KnownOK, Signed
<1>5. RequestsOK' BY <1>4, RequestsGoOn
<1>6. KnownOK'
  <2>1. session' \in [Devices -> Entry(Signed')] /\ list' \in Entry(IndexOf(Signed'))
    BY <1>2, <1>4, MoreSigned DEF IInv, KnownOK
  <2>2. /\ exp' \in [Tokens -> Nat \cup {Null}] /\ place' \in [Tokens -> Devices \cup {Null}]
        /\ life' \in [Tokens -> Nat \cup {Null}] 
    BY <1>1, <1>3 DEF IInv, KnownOK
  <2> QED BY <1>2, <1>4, <2>1, <2>2 DEF IInv, KnownOK
<1>7. Deadlines'
  <2>1. t \notin revoked BY <1>1 DEF IInv, KnownOK, Signed
  <2>2. exp'[t] = now + ttl /\ life'[t] = ttl BY <1>1 DEF IInv, KnownOK
  <2>3. \A u \in Tokens : u # t => exp'[u] = exp[u] /\ life'[u] = life[u]
    BY <1>1 DEF IInv, KnownOK
  <2> QED BY <1>2, <2>1, <2>2, <2>3 DEF IInv, KnownOK, Deadlines, Covered
<1> QED BY <1>5, <1>6, <1>7 DEF IInv

LEMMA LoginSignsStep == ASSUME IInv, NEW r \in Reqs, LoginSigns(r) PROVE IInv'
<1> DEFINE q == req[r]
<1>1. q \in RequestOf(Signed) /\ Shape(q) /\ q.pc = "sign"
  BY DEF IInv, RequestsOK, LoginSigns
<1>2. PICK t \in Tokens : Sign(t, q.at, q.ttl)
                          /\ Become(r, [q EXCEPT !.pc = "writeSession", !.next = t])
  BY DEF LoginSigns
<1> DEFINE n == [q EXCEPT !.pc = "writeSession", !.next = t]
<1>3. q \in RequestOf(Signed \cup {t}) /\ t # Null
  BY <1>1, MoreSigned, JwtAssumption
<1>4. n \in RequestOf(Signed \cup {t}) /\ Shape(n) BY <1>1, <1>3 DEF RequestOf, PCs, Shape
<1>5. q.at \in Devices \cup {Null} /\ q.ttl \in Nat BY <1>1 DEF RequestOf
<1> HIDE DEF n
<1>6. Become(r, n) BY <1>2 DEF n
<1> QED BY <1>2, <1>4, <1>5, <1>6, SigningStep DEF LoginSigns

LEMMA ReadFamilyStep == ASSUME IInv, NEW r \in Reqs, ReadFamily(r) PROVE IInv'
<1> DEFINE q == req[r]
           f == family[q.token]
<1>1. q \in RequestOf(Signed) /\ Shape(q) /\ q.pc = "readFamily" /\ KnownOK
  BY DEF IInv, RequestsOK, ReadFamily
<1>2. q.token \in Tokens BY <1>1, SignedAreTokens DEF RequestOf, Shape
<1>3. f \in Nat \cup {Revoked, Null} /\ place[q.token] \in Devices \cup {Null}
  BY <1>1, <1>2 DEF KnownOK
<1>4. CASE Go(r, Idle) BY <1>4, IdleIsRequest, ReadingStep
<1>5. ASSUME f \notin {Null, Revoked}, NEW t \in Tokens, NEW ttl \in RefreshTimeouts,
             Sign(t, place[q.token], ttl),
             Become(r, [q EXCEPT !.pc = "casFamily", !.next = t, !.seen = f,
                                 !.at = place[q.token], !.ttl = ttl]),
             UNCHANGED <<mode, now, aborts, store, handed, revoked, forked, unwritten>>
      PROVE  IInv'
  <2> DEFINE n == [q EXCEPT !.pc = "casFamily", !.next = t, !.seen = f,
                            !.at = place[q.token], !.ttl = ttl]
  <2>1. q \in RequestOf(Signed \cup {t}) /\ t # Null /\ ttl \in Nat
        /\ q.op = "refreshToken"
    BY <1>1, MoreSigned, JwtAssumption DEF Shape
  <2>2. n \in RequestOf(Signed \cup {t}) BY <1>3, <1>5, <2>1 DEF RequestOf, PCs
  <2>3. n.op = "refreshToken" /\ n.pc = "casFamily" /\ n.token = q.token /\ n.next = t
        /\ n.seen = f /\ n.ttl = ttl
    BY <2>1 DEF RequestOf
  <2> HIDE DEF n
  <2>4. Shape(n) BY <1>1, <1>3, <1>5, <2>1, <2>3 DEF Shape
  <2>5. Become(r, n) BY <1>5 DEF n
  <2> HIDE DEF q
  <2> QED BY <1>2, <1>3, <1>5, <2>1, <2>2, <2>4, <2>5, SigningStep
<1> QED BY <1>4, <1>5 DEF ReadFamily

-----------------------------------------------------------------------------
(* The writes.  Most change one key and neither exp nor what the deadlines  *)
(* speak of.                                                                *)
LEMMA WritingStep ==
  ASSUME IInv, NEW r \in Reqs, NEW n, Become(r, n), n \in RequestOf(Signed), Shape(n),
         UNCHANGED <<mode, now, exp, black, place, life, revoked, forked>>, aborts' \in Nat,
         session' \in [Devices -> Entry(Signed)], list' \in Entry(IndexOf(Signed)),
         family' \in [Tokens -> Nat \cup {Revoked, Null}],
         handed' \subseteq Signed, unwritten' \in BOOLEAN
  PROVE  IInv'
<1>1. Signed' = Signed BY DEF Signed
<1>2. RequestsOK' BY <1>1, RequestsGoOn
<1>3. KnownOK' BY <1>1 DEF IInv, KnownOK
<1>4. Deadlines' BY DEF IInv, Deadlines, Covered
<1> QED BY <1>2, <1>3, <1>4 DEF IInv

LEMMA FamilySteps ==
  ASSUME IInv, NEW r \in Reqs, CasFamily(r) \/ ReplayCas(r) \/ WriteFamily(r)
  PROVE  IInv'
<1> DEFINE q == req[r]
<1>1. q \in RequestOf(Signed) /\ Shape(q) BY DEF IInv, RequestsOK
<1>2. /\ session \in [Devices -> Entry(Signed)] /\ list \in Entry(IndexOf(Signed))
      /\ family \in [Tokens -> Nat \cup {Revoked, Null}] /\ handed \subseteq Signed
      /\ unwritten \in BOOLEAN /\ aborts \in Nat
  BY DEF IInv, KnownOK
<1>3. CASE CasFamily(r)
  <2>1. q.pc = "casFamily" /\ q.seen \in Nat /\ q.next # Null /\ q.token # Null
    BY <1>1, <1>3 DEF CasFamily, Shape
  <2>2. CASE Go(r, [q EXCEPT !.pc = "replayRead"])
    <3>1. [q EXCEPT !.pc = "replayRead"] \in RequestOf(Signed)
          /\ Shape([q EXCEPT !.pc = "replayRead"])
      BY <1>1, <2>1 DEF RequestOf, PCs, Shape
    <3> QED BY <2>2, <3>1, ReadingStep
  <2>3. CASE family' = [family EXCEPT ![q.token] = q.seen + 1]
             /\ Become(r, [q EXCEPT !.pc = "writeFamily", !.seen = q.seen + 1])
             /\ UNCHANGED <<mode, now, aborts, exp, session, list, black, past>>
    <3>1. PICK k \in Nat : k = q.seen + 1 BY <2>1
    <3> DEFINE n == [q EXCEPT !.pc = "writeFamily", !.seen = k]
    <3>2. Become(r, n) /\ family' = [family EXCEPT ![q.token] = k] BY <2>3, <3>1
    <3>3. n \in RequestOf(Signed) /\ Shape(n) BY <1>1, <2>1 DEF RequestOf, PCs, Shape
    <3>4. family' \in [Tokens -> Nat \cup {Revoked, Null}] BY <1>2, <3>2
    <3> QED BY <1>2, <2>3, <3>2, <3>3, <3>4, WritingStep DEF past
  <2> QED BY <1>3, <2>2, <2>3 DEF CasFamily
<1>4. CASE ReplayCas(r)
  <2>1. family' \in [Tokens -> Nat \cup {Revoked, Null}] BY <1>2, <1>4 DEF ReplayCas
  <2> QED BY <1>2, <1>4, <2>1, IdleIsRequest, WritingStep DEF ReplayCas, past
<1>5. CASE WriteFamily(r)
  <2>1. q.pc = "writeFamily" /\ q.next \in Signed /\ q.seen \in Nat \cup {Revoked, Null}
    BY <1>1, <1>5 DEF WriteFamily, Shape, RequestOf
  <2>2. family' \in [Tokens -> Nat \cup {Revoked, Null}] BY <1>2, <1>5, <2>1 DEF WriteFamily
  <2>3. CASE q.op = "refreshToken" /\ Become(r, [q EXCEPT !.pc = "setBlack"]) /\ handed' = handed
    <3> DEFINE n == [q EXCEPT !.pc = "setBlack"]
    <3>1. n \in RequestOf(Signed) /\ Shape(n) BY <1>1, <2>1, <2>3 DEF RequestOf, PCs, Shape
    <3> QED BY <1>2, <1>5, <2>2, <2>3, <3>1, WritingStep DEF WriteFamily
  <2>4. CASE Become(r, Idle) /\ handed' = handed \cup {q.next}
    BY <1>2, <1>5, <2>1, <2>2, <2>4, IdleIsRequest, WritingStep DEF WriteFamily
  <2> QED BY <1>5, <2>3, <2>4 DEF WriteFamily
<1> QED BY <1>3, <1>4, <1>5
LEMMA SetBlackStep == ASSUME IInv, NEW r \in Reqs, SetBlack(r) PROVE IInv'
<1> DEFINE q == req[r]
           ttl == IF q.op = "refreshToken" THEN q.ttl ELSE Timeout
           n == [q EXCEPT !.pc = AfterBlack(q)]
<1>1. q \in RequestOf(Signed) /\ Shape(q) /\ q.pc = "setBlack" /\ KnownOK
  BY DEF IInv, RequestsOK, SetBlack
<1>2. q.token \in Signed /\ q.token \in Tokens
  BY <1>1, SignedAreTokens DEF Shape, RequestOf
<1>3. ttl \in RefreshTimeouts \cup {Timeout} BY <1>1 DEF Shape
<1>4. /\ black' = [black EXCEPT ![q.token] = now + ttl]
      /\ revoked' = revoked \cup {q.token}
      /\ Become(r, n)
      /\ forked' = Forks(q)
      /\ UNCHANGED <<mode, now, aborts, exp, session, list, family, place, life,
                     handed, unwritten>>
  BY DEF SetBlack
<1>5. now + ttl \in Nat /\ now + ttl # Null BY <1>1, <1>3, JwtAssumption DEF KnownOK
<1>6. Signed' = Signed BY <1>4 DEF Signed
<1>7. n \in RequestOf(Signed) /\ Shape(n)
  <2>1. PICK p \in {"readInfo", "writeSession", "dropSession"} :
          /\ n = [q EXCEPT !.pc = p]
          /\ q.op = "refreshToken" <=> p = "writeSession"
    BY DEF AfterBlack
  <2>2. n \in RequestOf(Signed) /\ n.pc = p /\ n.op = q.op /\ n.at = q.at /\ n.next = q.next
    BY <1>1, <2>1 DEF RequestOf, PCs
  <2> HIDE DEF n
  <2>3. Shape(n) BY <1>1, <2>1, <2>2 DEF Shape
  <2> QED BY <2>2, <2>3
<1>8. RequestsOK'
  <2> HIDE DEF n, q
  <2> QED BY <1>4, <1>6, <1>7, RequestsGoOn
<1>9. KnownOK'
  <2>1. forked' \subseteq Devices \cup {Null} BY <1>1, <1>4 DEF Forks, KnownOK, RequestOf
  <2> HIDE DEF n, q, ttl
  <2> QED BY <1>1, <1>2, <1>4, <1>5, <1>6, <2>1 DEF KnownOK
<1>10. ASSUME NEW t \in Tokens
       PROVE  /\ exp'[t] # Null /\ life'[t] # Null => exp'[t] <= now' + life'[t]
              /\ t \in revoked' /\ Covered(t)' /\ now' < exp'[t]
                   => black'[t] # Null /\ exp'[t] <= black'[t]
  <2>1. CASE t = q.token
    <3>1. black'[t] = now + ttl BY <1>1, <1>2, <1>4, <2>1 DEF KnownOK
    <3>2. exp[t] \in Nat BY <1>1, <1>2, <2>1 DEF Signed, KnownOK
    <3>3. life[t] \in Nat \cup {Null} BY <1>1 DEF KnownOK
    <3>4. now \in Nat /\ Timeout \in Nat /\ RefreshTimeouts \subseteq Nat
      BY <1>1, JwtAssumption DEF KnownOK
    <3>5. exp[t] # Null BY <1>2, <2>1 DEF Signed
    <3>6. life[t] # Null => exp[t] <= now + life[t] BY <3>5 DEF IInv, Deadlines
    <3> HIDE DEF n, q, ttl
    <3>7. Covered(t)' => life[t] # Null /\ life[t] <= ttl BY <1>3, <1>4 DEF Covered
    <3>8. ttl \in Nat BY <1>3, <3>4
    <3>9. exp'[t] = exp[t] /\ life'[t] = life[t] /\ now' = now BY <1>4
    <3>10. Covered(t)' => black'[t] # Null /\ exp'[t] <= black'[t]
      BY <1>5, <3>1, <3>2, <3>3, <3>4, <3>6, <3>7, <3>8, <3>9
    <3> QED BY <3>5, <3>6, <3>9, <3>10
  <2>2. CASE t # q.token
    <3>1. black'[t] = black[t] /\ (t \in revoked' <=> t \in revoked)
      BY <1>1, <1>4, <2>2 DEF KnownOK
    <3> HIDE DEF n, q, ttl
    <3> QED BY <1>4, <3>1 DEF IInv, Deadlines, Covered
  <2> QED BY <2>1, <2>2
<1>11. Deadlines' BY <1>10 DEF Deadlines, Covered
<1> QED BY <1>8, <1>9, <1>11 DEF IInv

LEMMA DropSessionStep == ASSUME IInv, NEW r \in Reqs, DropSession(r) PROVE IInv'
<1> DEFINE q == req[r]
<1>1. q \in RequestOf(Signed) /\ Shape(q) /\ q.pc = "dropSession" /\ KnownOK
  BY DEF IInv, RequestsOK, DropSession
<1>2. session' \in [Devices -> Entry(Signed)]
  BY <1>1 DEF DropSession, KnownOK, Entry
<1>3. ASSUME NEW n, Become(r, n), n \in RequestOf(Signed), Shape(n) PROVE IInv'
  BY <1>1, <1>2, <1>3, WritingStep DEF DropSession, KnownOK, past
<1>4. CASE Become(r, [q EXCEPT !.pc = "sign", !.token = Null])
  <2>1. [q EXCEPT !.pc = "sign", !.token = Null] \in RequestOf(Signed)
        /\ Shape([q EXCEPT !.pc = "sign", !.token = Null])
    BY <1>1 DEF RequestOf, PCs, Shape
  <2> QED BY <1>3, <1>4, <2>1
<1>5. ASSUME q.op \in {"logoutByLoginId", "login"}, NEW n \in NextDevice(q), Become(r, n)
      PROVE  IInv'
  <2>1. n \in RequestOf(Signed) /\ Shape(n)
    BY <1>1, <1>5, NextDeviceShape DEF Shape, Looping
  <2> QED BY <1>3, <1>5, <2>1
<1>6. CASE Become(r, [q EXCEPT !.pc = "removeList"])
  <2>1. [q EXCEPT !.pc = "removeList"] \in RequestOf(Signed)
        /\ Shape([q EXCEPT !.pc = "removeList"])
    BY <1>1 DEF RequestOf, PCs, Shape
  <2> QED BY <1>3, <1>6, <2>1
<1> QED BY <1>4, <1>5, <1>6 DEF DropSession

LEMMA ListSteps ==
  ASSUME IInv, NEW r \in Reqs, RemoveList(r) \/ DropList(r) \/ AddList(r)
  PROVE  IInv'
<1> DEFINE q == req[r]
<1>1. q \in RequestOf(Signed) /\ Shape(q) /\ KnownOK /\ Listed \in IndexOf(Signed)
  BY ListedIsIndex DEF IInv, RequestsOK
<1>2. CASE RemoveList(r)
  <2>1. [Listed EXCEPT ![q.at] = Null] \in IndexOf(Signed) BY <1>1 DEF IndexOf
  <2>2. list' \in Entry(IndexOf(Signed))
    BY <1>1, <1>2, <2>1 DEF RemoveList, Without, Entry, KnownOK
  <2>3. CASE Become(r, Idle)
    BY <1>1, <1>2, <2>2, <2>3, IdleIsRequest, WritingStep DEF RemoveList, KnownOK, past
  <2>4. ASSUME q.op = "forceLogout", NEW n \in NextDevice(q), Become(r, n) PROVE IInv'
    <3>1. n \in RequestOf(Signed) /\ Shape(n)
      BY <1>1, <2>4, NextDeviceShape DEF Looping
    <3> QED BY <1>1, <1>2, <2>2, <2>4, <3>1, WritingStep DEF RemoveList, KnownOK, past
  <2> QED BY <1>2, <2>3, <2>4 DEF RemoveList
<1>3. CASE DropList(r)
  <2>1. list' \in Entry(IndexOf(Signed)) BY <1>3 DEF DropList, Entry
  <2>2. [q EXCEPT !.pc = "sign"] \in RequestOf(Signed) /\ Shape([q EXCEPT !.pc = "sign"])
    BY <1>1, <1>3 DEF DropList, RequestOf, PCs, Shape
  <2>3. \E n \in RequestOf(Signed) : Become(r, n) /\ Shape(n)
    BY <1>3, <2>2, IdleIsRequest DEF DropList
  <2> QED BY <1>1, <1>3, <2>1, <2>3, WritingStep DEF DropList, KnownOK, past
<1>4. CASE AddList(r)
  <2>1. q.next \in Signed /\ q.ttl \in Nat /\ q.pc = "addList"
    BY <1>1, <1>4 DEF AddList, Shape, RequestOf
  <2>2. [Listed EXCEPT ![q.at] = q.next] \in IndexOf(Signed) BY <1>1, <2>1 DEF IndexOf
  <2>3. now + q.ttl \in Nat BY <1>1, <2>1 DEF KnownOK
  <2>4. list' \in Entry(IndexOf(Signed)) BY <1>4, <2>2, <2>3 DEF AddList, Put, Entry
  <2>5. CASE q.op = "login" /\ Become(r, [q EXCEPT !.pc = "writeFamily"]) /\ handed' = handed
    <3> DEFINE n == [q EXCEPT !.pc = "writeFamily"]
    <3>1. n \in RequestOf(Signed) /\ Shape(n) BY <1>1, <2>1, <2>5 DEF RequestOf, PCs, Shape
    <3> QED BY <1>1, <1>4, <2>4, <2>5, <3>1, WritingStep DEF AddList, KnownOK
  <2>6. CASE Become(r, Idle) /\ handed' = handed \cup {q.next}
    <3>1. handed' \subseteq Signed BY <1>1, <2>1, <2>6 DEF KnownOK
    <3> QED BY <1>1, <1>4, <2>4, <2>6, <3>1, IdleIsRequest, WritingStep DEF AddList, KnownOK
  <2> QED BY <1>4, <2>5, <2>6 DEF AddList
<1> QED BY <1>2, <1>3, <1>4

LEMMA SessionSteps ==
  ASSUME IInv, NEW r \in Reqs, WriteSession(r) \/ Touch(r) PROVE IInv'
<1> DEFINE q == req[r]
<1>1. q \in RequestOf(Signed) /\ Shape(q) /\ KnownOK /\ q.ttl \in Nat
  BY DEF IInv, RequestsOK, RequestOf
<1>2. now + q.ttl \in Nat BY <1>1 DEF KnownOK
<1>3. CASE WriteSession(r)
  <2>1. q.next \in Signed /\ q.pc = "writeSession"
    BY <1>1, <1>3 DEF WriteSession, Shape, RequestOf
  <2>2. Put(q.next, q.ttl) \in Entry(Signed) BY <1>2, <2>1 DEF Put, Entry
  <2>3. session' \in [Devices -> Entry(Signed)] BY <1>1, <1>3, <2>2 DEF WriteSession, KnownOK
  <2> DEFINE n == [q EXCEPT !.pc = "addList"]
  <2>4. n \in RequestOf(Signed) /\ Shape(n) BY <1>1, <2>1 DEF RequestOf, PCs, Shape
  <2> QED BY <1>1, <1>3, <2>3, <2>4, WritingStep DEF WriteSession, KnownOK, past
<1>4. CASE Touch(r)
  <2>1. session' \in [Devices -> Entry(Signed)]
    <3>1. CASE session' = session BY <1>1, <3>1 DEF KnownOK
    <3>2. PICK e : e = now + q.ttl OBVIOUS
    <3>3. CASE session' = [session EXCEPT ![q.at].end = e] /\ session[q.at] # Null
      <4>1. CASE q.at \in Devices
        <5>1. session[q.at] \in [value: Signed, end: Nat] BY <1>1, <3>3, <4>1 DEF KnownOK, Entry
        <5>2. [session[q.at] EXCEPT !.end = e] \in Entry(Signed)
          BY <1>2, <3>2, <5>1 DEF Entry
        <5> QED BY <1>1, <3>3, <5>2 DEF KnownOK
      <4>2. CASE q.at \notin Devices BY <1>1, <3>3, <4>2 DEF KnownOK
      <4> QED BY <4>1, <4>2
    <3> QED BY <1>4, <3>1, <3>2, <3>3 DEF Touch
  <2> QED BY <1>1, <1>4, <2>1, IdleIsRequest, WritingStep DEF Touch, KnownOK, past
<1> QED BY <1>3, <1>4

LEMMA FailingSteps ==
  ASSUME IInv, NEW r \in Reqs, SetBlackFails(r) \/ Abort(r) PROVE IInv'
<1> DEFINE q == req[r]
<1>1. q \in RequestOf(Signed) /\ Shape(q) /\ KnownOK BY DEF IInv, RequestsOK
<1>2. aborts' \in Nat BY <1>1 DEF SetBlackFails, Abort, KnownOK
<1>3. ASSUME NEW n, Become(r, n), n \in RequestOf(Signed), Shape(n) PROVE IInv'
  BY <1>1, <1>2, <1>3, WritingStep DEF SetBlackFails, Abort, KnownOK, store, past
<1>4. CASE Abort(r) BY <1>3, <1>4, IdleIsRequest DEF Abort
<1>5. ASSUME q.op = "logoutByLoginId", NEW n \in NextDevice(q), Become(r, n) PROVE IInv'
  <2>1. n \in RequestOf(Signed) /\ Shape(n) BY <1>1, <1>5, NextDeviceShape DEF Looping
  <2> QED BY <1>3, <1>5, <2>1
<1>6. CASE q.op = "login" /\ Become(r, [q EXCEPT !.pc = "dropSession"])
  <2>1. [q EXCEPT !.pc = "dropSession"] \in RequestOf(Signed)
        /\ Shape([q EXCEPT !.pc = "dropSession"])
    BY <1>1, <1>6 DEF RequestOf, PCs, Shape
  <2> QED BY <1>3, <1>6, <2>1
<1> QED BY <1>4, <1>5, <1>6 DEF SetBlackFails

-----------------------------------------------------------------------------
(* Time passes.  A blacklist entry that ends now is of a token that ends    *)
(* now at the latest.                                                       *)
LEMMA TickStep == ASSUME IInv, Tick PROVE IInv'
<1>1. KnownOK /\ now \in Nat /\ now' = now + 1 BY DEF IInv, KnownOK, Tick
<1>2. Signed' = Signed BY DEF Tick, Signed
<1>3. RequestsOK' BY <1>2 DEF IInv, RequestsOK, Tick
<1>4. ASSUME NEW S, NEW e \in Entry(S) PROVE Left(e) \in Entry(S)
  BY DEF Left, Entry
<1>5. KnownOK'
  <2>1. session' \in [Devices -> Entry(Signed)] /\ list' \in Entry(IndexOf(Signed))
    BY <1>1, <1>4 DEF Tick, KnownOK
  <2>2. black' \in [Tokens -> Nat \cup {Null}]
    BY <1>1 DEF Tick, KnownOK
  <2>3. /\ family' \in [Tokens -> Nat \cup {Revoked, Null}]
        /\ place' \in [Tokens -> Devices \cup {Null}]
        /\ life' \in [Tokens -> Nat \cup {Null}]
        /\ handed' \subseteq Signed /\ revoked' \subseteq Signed
    BY <1>1 DEF Tick, KnownOK
  <2> QED BY <1>1, <1>2, <2>1, <2>2, <2>3 DEF Tick, KnownOK
<1>6. ASSUME NEW t \in Tokens
      PROVE  /\ exp'[t] # Null /\ life'[t] # Null => exp'[t] <= now' + life'[t]
             /\ t \in revoked' /\ Covered(t)' /\ now' < exp'[t]
                  => black'[t] # Null /\ exp'[t] <= black'[t]
  <2>1. exp[t] \in Nat \cup {Null} /\ life[t] \in Nat \cup {Null} /\ black[t] \in Nat \cup {Null}
    BY <1>1 DEF KnownOK
  <2>2. exp' = exp /\ life'[t] \in {life[t], Null} /\ (t \in revoked' => t \in revoked)
        /\ (t \in revoked' => exp[t] # Null)
        /\ black'[t] = (IF black[t] = now + 1 THEN Null ELSE black[t])
    BY DEF Tick
  <2>3. exp[t] # Null /\ life[t] # Null => exp[t] <= now + life[t] BY DEF IInv, Deadlines
  <2>4. exp'[t] # Null /\ life'[t] # Null => exp'[t] <= now' + life'[t]
    BY <1>1, <2>1, <2>2, <2>3
  <2>5. Covered(t)' => Covered(t) /\ life'[t] = life[t]
    BY <2>1, <2>2 DEF Covered
  <2>6. t \in revoked /\ Covered(t) /\ now < exp[t] => black[t] # Null /\ exp[t] <= black[t]
    BY DEF IInv, Deadlines
  <2>7. ASSUME t \in revoked', Covered(t)', now' < exp'[t]
        PROVE  black'[t] # Null /\ exp'[t] <= black'[t]
    BY <1>1, <2>1, <2>2, <2>5, <2>6, <2>7
  <2> QED BY <2>4, <2>7
<1>7. Deadlines' BY <1>6 DEF Deadlines, Covered
<1> QED BY <1>3, <1>5, <1>7 DEF IInv

LEMMA InitIInv == Init => IInv
<1> SUFFICES ASSUME Init PROVE IInv OBVIOUS
<1>1. KnownOK BY DEF Init, KnownOK, Signed, Entry
<1>2. RequestsOK BY IdleIsRequest DEF Init, RequestsOK
<1>3. Deadlines BY DEF Init, Deadlines
<1> QED BY <1>1, <1>2, <1>3 DEF IInv

LEMMA NextIInv == IInv /\ [Next]_vars => IInv'
<1> SUFFICES ASSUME IInv, [Next]_vars PROVE IInv' OBVIOUS
<1>1. ASSUME NEW r \in Reqs, Step(r) PROVE IInv'
  BY <1>1, ReadSessionStep, ReadAllStep, ReadInfoStep, ReadBlackStep, LoginSignsStep,
     ReadFamilyStep, FamilySteps, ReplayReadStep, SetBlackStep, DropSessionStep, ListSteps,
     SessionSteps, FailingSteps DEF Step
<1>2. CASE UNCHANGED vars
  <2>1. Signed' = Signed BY <1>2 DEF vars, Signed
  <2> QED BY <1>2, <2>1 DEF vars, store, past, IInv, KnownOK, RequestsOK, Deadlines, Covered
<1> QED BY <1>1, <1>2, StartStep, TickStep DEF Next

-----------------------------------------------------------------------------
(* Every variable keeps its type.                                           *)
THEOREM JwtTypes == Spec => []TypeOK
<1> QED BY InvariantType, InitIInv, NextIInv, PTL DEF Spec

(* Revocation in JWT mode, where it is a blacklist entry with an end of its *)
(* own: whoever revoked a token and however often, the entry outlasts the   *)
(* token, so that it is never accepted again.                               *)
THEOREM RevocationHolds == Spec => []RevokedStaysOut
<1>1. IInv => RevokedStaysOut
  BY DEF IInv, Deadlines, RevokedStaysOut, Accepts, Verified, KnownOK, Signed
<1> QED BY <1>1, InitIInv, NextIInv, PTL DEF Spec

-----------------------------------------------------------------------------
(* Where tokens are: a key or a request of a device holds tokens signed for *)
(* that device, and what is blacklisted has been signed.                    *)
Renewing == {"casFamily", "writeFamily", "setBlack", "writeSession", "addList"}

HandsOut == {"writeSession", "addList", "writeFamily"}

(* The operations that go over all devices of the list. *)
Loops(q) == q.op \in AccountOps \/ (q.op = "login" /\ mode = "single")

Way(q) ==
  /\ q.pc = "idle" => q = Idle
  /\ \A d \in Devices : q.todo[d] # Null => Loops(q) /\ place[q.todo[d]] \in {d, Null}
  /\ q.op = "login" =>
       /\ q.ttl \in Timeouts
       /\ q.at = q.home \/ (mode = "single" /\ q.pc \in {"setBlack", "dropSession"})
       /\ q.pc \in {"readAll", "dropList"} => mode = "single"
       /\ q.pc \in {"readInfo", "readBlack"} => mode = "share"
       /\ q.pc \in HandsOut => q.next # Null /\ place[q.next] = q.at
  /\ q.op = "renewTimeout" => q.ttl \in RenewTimeouts
  /\ q.op \in TokenOps => q.token # Null /\ q.token \in handed /\ Verified(q.token)
  /\ q.op \notin TokenOps /\ q.pc \in {"setBlack", "readBlack"} => place[q.token] \in {q.at, Null}
  /\ q.op = "endToken" /\ q.pc \in {"dropSession", "removeList"} => q.at = place[q.token]
  /\ q.op = "refreshToken" /\ q.pc \in Renewing
       => q.next # Null /\ q.at = place[q.token] /\ place[q.next] = q.at
  /\ q.pc \in {"sign", "readAll"} => q.op \in Looping
  /\ q.pc = "sign" => q.op = "login"
  /\ q.pc \in {"casFamily", "replayRead", "replayCas"} => q.op = "refreshToken"
  /\ q.pc \in HandsOut => q.op \in {"login", "refreshToken"}
  /\ q.pc \in {"dropSession", "removeList"} => q.at \in Devices
  /\ q.pc = "setBlack" => q.op \in {"endToken", "refreshToken"} \/ q.at \in Devices
  /\ q.pc = "dropList" => Loops(q)
  /\ q.pc = "touch" => q.op = "renewTimeout"
  /\ q.pc = "readSession" => q.op \notin TokenOps

TokensSited ==
  \A t \in Tokens :
    /\ Verified(t) => place[t] \in Devices
    /\ black[t] # Null => exp[t] # Null

KeysSited ==
  \A d \in Devices :
    /\ session[d] # Null => place[session[d].value] \in {d, Null}
    /\ Listed[d] # Null => place[Listed[d]] \in {d, Null}

Sited == TokensSited /\ KeysSited /\ \A r \in Reqs : Way(req[r])

(* The callers' side: two operations at once are on different devices, or   *)
(* refreshes.                                                               *)
Apart(q, p) ==
  Scope(q) \cap Scope(p) = {} \/ (q.op = "refreshToken" /\ p.op = "refreshToken")

Separate ==
  \A x, y \in Reqs : x # y /\ Running(x) /\ Running(y) => Apart(req[x], req[y])

(* What a login is about to hand out is not blacklisted. *)
FreshOf(q) == q.op = "login" /\ q.pc \in HandsOut => black[q.next] = Null

Fresh == \A r \in Reqs : FreshOf(req[r])

LInv == IInv /\ Sited /\ Separate /\ Fresh

(* The request goes on with the same operation on the same devices, or ends. *)
GoesOn(r, n) ==
  n = Idle \/ (Running(r) /\ n.op = req[r].op /\ Scope(n)' = Scope(req[r]))

Continues(r) == \E n : Become(r, n) /\ GoesOn(r, n)

LEMMA IdleWay == Way(Idle)
<1>1. Null \notin AllOps BY JwtAssumption
<1>2. Idle.op = Null /\ Idle.pc = "idle" /\ \A d \in Devices : Idle.todo[d] = Null
  BY DEF Idle, Empty
<1> QED BY <1>1, <1>2 DEF Way, AllOps, TokenOps, HandsOut, Renewing

LEMMA WayStays ==
  ASSUME IInv, NEW p \in RequestOf(Signed), Way(p), Shape(p), mode' = mode, now' = now,
         \A u \in Signed : place'[u] = place[u] /\ exp'[u] = exp[u], handed \subseteq handed'
  PROVE  Way(p)'
<1>1. \A d \in Devices : p.todo[d] \in Signed \cup {Null} BY DEF RequestOf
<1>2. p.token \in Signed \cup {Null} /\ p.next \in Signed \cup {Null} BY DEF RequestOf
<1>3. Loops(p)' <=> Loops(p) BY DEF Loops
<1>4. p.token # Null => (Verified(p.token)' <=> Verified(p.token)) BY <1>2 DEF Verified
<1>5. \A d \in Devices : p.todo[d] # Null => place'[p.todo[d]] = place[p.todo[d]] BY <1>1
<1>6. (p.token # Null => place'[p.token] = place[p.token])
      /\ (p.next # Null => place'[p.next] = place[p.next])
  BY <1>2
<1>7. p.op \notin TokenOps /\ p.pc \in {"setBlack", "readBlack"} => place'[p.token] = place[p.token]
  BY <1>6 DEF Shape
<1> QED BY <1>3, <1>4, <1>5, <1>6, <1>7 DEF Way, TokenOps

LEMMA SitedStep ==
  ASSUME IInv, Sited, NEW r \in Reqs, NEW n, Become(r, n), mode' = mode, now' = now,
         \A u \in Signed : place'[u] = place[u] /\ exp'[u] = exp[u], handed \subseteq handed',
         Way(n)', TokensSited', KeysSited'
  PROVE  Sited'
<1>0. req \in [Reqs -> RequestOf(Signed)] /\ req' = [req EXCEPT ![r] = n]
  BY DEF IInv, RequestsOK, Become
<1>1. ASSUME NEW x \in Reqs, NEW m, m = req'[x] PROVE Way(m)'
  <2>1. CASE x = r BY <1>0, <1>1, <2>1
  <2>2. CASE x # r
    <3>1. m = req[x] BY <1>0, <1>1, <2>2
    <3>2. m \in RequestOf(Signed) /\ Way(m) /\ Shape(m)
      BY <1>0, <3>1 DEF Sited, IInv, RequestsOK
    <3> QED BY <3>2, WayStays
  <2> QED BY <2>1, <2>2
<1>2. (\A x \in Reqs : Way(req[x]))'
  <2> SUFFICES ASSUME NEW x \in Reqs PROVE (Way(req[x]))' OBVIOUS
  <2>1. PICK m : m = req'[x] OBVIOUS
  <2>2. Way(m)' BY <1>1, <2>1
  <2> QED BY <2>1, <2>2 DEF Way
<1> QED BY <1>2 DEF Sited

LEMMA ReadSited ==
  ASSUME IInv, Sited, NEW r \in Reqs, NEW n, Go(r, n), Way(n)
  PROVE  Sited'
<1>1. Become(r, n) /\ UNCHANGED <<mode, now, exp, place, handed, session, list, black>>
  BY DEF Go, store, past
<1>2. Way(n)' BY <1>1 DEF Way, Loops, Verified
<1>3. TokensSited' /\ KeysSited' BY <1>1 DEF Sited, TokensSited, KeysSited, Verified, Listed
<1> QED BY <1>1, <1>2, <1>3, SitedStep

LEMMA ScopeStays ==
  ASSUME NEW q, NEW n, n.op = q.op, mode' = mode,
         q.op \in TokenOps => n.token = q.token /\ place'[q.token] = place[q.token],
         q.op \notin TokenOps /\ ~Loops(q) => n.at = q.at
  PROVE  Scope(n)' = Scope(q)
BY DEF Scope, Loops

LEMMA NotIdle == \A r \in Reqs : req[r].pc # "idle" => Running(r)
BY DEF Running

(* A read after which the request goes on. *)
LEMMA ReadGoesOn ==
  ASSUME IInv, Sited, NEW r \in Reqs, NEW n, Go(r, n), Way(n), req[r].pc # "idle",
         n.op = req[r].op, req[r].op \in TokenOps => n.token = req[r].token,
         req[r].op \notin TokenOps /\ ~Loops(req[r]) => n.at = req[r].at
  PROVE  Sited' /\ Continues(r)
<1>1. Become(r, n) /\ UNCHANGED <<mode, place>> BY DEF Go, store, past
<1>2. Scope(n)' = Scope(req[r]) BY <1>1, ScopeStays
<1> QED BY <1>1, <1>2, ReadSited, NotIdle DEF GoesOn, Continues

LEMMA ReadEnds ==
  ASSUME IInv, Sited, NEW r \in Reqs, Go(r, Idle) PROVE Sited' /\ Continues(r)
<1>1. Become(r, Idle) BY DEF Go
<1> QED BY <1>1, IdleWay, ReadSited DEF GoesOn, Continues

(* A loop goes on to another device, or ends. *)
LEMMA NextDeviceWay ==
  ASSUME IInv, NEW q \in RequestOf(Signed), Way(q), Loops(q), q.op = "login" => q.home \in Devices,
         NEW n \in NextDevice(q)
  PROVE  Way(n) /\ (n = Idle \/ n.op = q.op)
<1>0. Loops(q) /\ q.op \notin TokenOps /\ q.op # "renewTimeout" /\ q.op # "endToken"
      /\ q.op # "refreshToken"
  BY DEF Loops, TokenOps, AccountOps
<1>1. CASE n = Idle BY <1>1, IdleWay
<1>2. ASSUME NEW d \in Devices, q.todo[d] # Null, n = Visit(q, d)
      PROVE  Way(n) /\ n.op = q.op
  <2> DEFINE rest == [q.todo EXCEPT ![d] = Null]
  <2>1. \A e \in Devices : rest[e] # Null => place[rest[e]] \in {e, Null}
    BY <1>2 DEF Way, RequestOf
  <2>2. PICK p \in {"setBlack", "dropSession", "readSession"} :
          /\ n.pc = p /\ n.op = q.op /\ n.at = d /\ n.todo = rest /\ n.ttl = q.ttl
          /\ q.op = "forceLogout" <=> p = "readSession"
          /\ p = "setBlack" => n.token = q.todo[d]
          /\ n.home = q.home
    <3> HIDE DEF rest
    <3>1. n = [[q EXCEPT !.at = d, !.token = q.todo[d], !.todo = rest] EXCEPT
                 !.pc = IF q.op = "forceLogout" THEN "readSession"
                        ELSE IF Verified(q.todo[d]) THEN "setBlack" ELSE "dropSession",
                 !.token = IF q.op = "forceLogout" THEN Null ELSE q.todo[d]]
      BY <1>2 DEF Visit, rest, RequestOf
    <3> QED BY <3>1 DEF RequestOf
  <2>3. place[q.todo[d]] \in {d, Null} BY <1>2 DEF Way
  <2>4. q.op = "login" => mode = "single" BY DEF Loops, AccountOps
  <2>5. Loops(n) BY <2>2 DEF Loops
  <2> HIDE DEF rest
  <2> QED BY <1>0, <2>1, <2>2, <2>3, <2>4, <2>5 DEF Way, HandsOut, Renewing
<1>3. CASE n = [q EXCEPT !.pc = "dropList", !.at = q.home, !.token = Null, !.todo = Empty]
  <2>1. /\ n.pc = "dropList" /\ n.op = q.op /\ n.at = q.home /\ n.home = q.home
        /\ n.ttl = q.ttl /\ \A d \in Devices : n.todo[d] = Null
    BY <1>3 DEF RequestOf, Empty
  <2>2. Loops(n) BY <2>1 DEF Loops
  <2>3. q.op = "login" => mode = "single" BY DEF Loops, AccountOps
  <2> QED BY <1>0, <2>1, <2>2, <2>3 DEF Way, HandsOut, Renewing
<1> QED BY <1>1, <1>2, <1>3 DEF NextDevice

LEMMA LoopGoesOn ==
  ASSUME IInv, Sited, NEW r \in Reqs, NEW q \in RequestOf(Signed), Way(q), Loops(q),
         q.op = req[r].op, q.op = "login" => q.home \in Devices, req[r].pc # "idle",
         NEW n \in NextDevice(q), Go(r, n)
  PROVE  Sited' /\ Continues(r)
<1>1. Way(n) /\ (n = Idle \/ n.op = q.op) BY NextDeviceWay
<1>2. CASE n = Idle BY <1>2, ReadEnds
<1>3. CASE n.op = q.op
  <2>1. Loops(req[r]) /\ req[r].op \notin TokenOps BY DEF Loops, AccountOps, TokenOps
  <2> QED BY <1>1, <1>3, <2>1, ReadGoesOn
<1> QED BY <1>1, <1>2, <1>3

LEMMA ReadSessionSited ==
  ASSUME IInv, Sited, NEW r \in Reqs, ReadSession(r) PROVE Sited' /\ Continues(r)
<1> DEFINE q == req[r]
           s == Get(session[q.at])
<1>1. q \in RequestOf(Signed) /\ Shape(q) /\ Way(q) /\ q.pc = "readSession"
  BY DEF IInv, RequestsOK, Sited, ReadSession
<1>2. q.at \in Devices /\ (q.op = "login" => q.home \in Devices) BY <1>1 DEF Shape
<1>3. s # Null => place[s] \in {q.at, Null}
  BY <1>2 DEF Sited, KeysSited, Get
<1>4. CASE q.op = "login" /\ Go(r, LoginBranch(q, s))
  <2>1. PICK n : n = LoginBranch(q, s) OBVIOUS
  <2>2. /\ n.op = "login" /\ n.at = q.at /\ n.home = q.home /\ n.todo = q.todo /\ n.ttl = q.ttl
        /\ n.pc \in {"readAll", "setBlack", "readInfo", "sign"}
        /\ n.pc = "readAll" => mode = "single"
        /\ n.pc = "readInfo" => mode = "share"
        /\ n.pc = "setBlack" => n.token = s /\ s # Null
    BY <1>1, <1>4, <2>1 DEF LoginBranch, RequestOf
  <2>3. Way(n) BY <1>1, <1>2, <1>3, <1>4, <2>2 DEF Way, HandsOut, Looping, TokenOps, Loops
  <2>4. q.op \notin TokenOps BY <1>4 DEF TokenOps
  <2> QED BY <1>1, <1>4, <2>1, <2>2, <2>3, <2>4, ReadGoesOn
<1>5. CASE q.op # "login" /\ s # Null /\ Go(r, [q EXCEPT !.pc = "setBlack", !.token = s])
  <2>1. PICK n : n = [q EXCEPT !.pc = "setBlack", !.token = s] OBVIOUS
  <2>2. /\ n.op = q.op /\ n.at = q.at /\ n.todo = q.todo /\ n.ttl = q.ttl
        /\ n.pc = "setBlack" /\ n.token = s
    BY <1>1, <2>1 DEF RequestOf
  <2>3. q.op \notin TokenOps BY <1>1, <1>2 DEF Way, Shape, TokenOps
  <2>4. Way(n) BY <1>1, <1>2, <1>3, <1>5, <2>2, <2>3 DEF Way, HandsOut, TokenOps, Loops
  <2> QED BY <1>1, <1>5, <2>1, <2>2, <2>3, <2>4, ReadGoesOn
<1>6. CASE Go(r, Idle) BY <1>6, ReadEnds
<1>7. ASSUME q.op = "forceLogout", NEW n \in NextDevice(q), Go(r, n)
      PROVE  Sited' /\ Continues(r)
  <2>1. Loops(q) BY <1>7 DEF Loops, AccountOps
  <2> QED BY <1>1, <1>2, <1>7, <2>1, LoopGoesOn
<1> QED BY <1>4, <1>5, <1>6, <1>7 DEF ReadSession

LEMMA ReadAllSited ==
  ASSUME IInv, Sited, NEW r \in Reqs, ReadAll(r) PROVE Sited' /\ Continues(r)
<1> DEFINE q == req[r]
<1>1. q \in RequestOf(Signed) /\ Shape(q) /\ Way(q) /\ q.pc = "readAll"
  BY DEF IInv, RequestsOK, Sited, ReadAll
<1>2. CASE q.op = "login" /\ Go(r, [q EXCEPT !.pc = "sign"])
  <2>1. PICK n : n = [q EXCEPT !.pc = "sign"] OBVIOUS
  <2>2. /\ n.op = q.op /\ n.at = q.at /\ n.todo = q.todo /\ n.ttl = q.ttl /\ n.home = q.home
        /\ n.pc = "sign" /\ n.token = q.token
    BY <1>1, <2>1 DEF RequestOf
  <2>3. Way(n) BY <1>1, <1>2, <2>2 DEF Way, HandsOut, TokenOps, Loops, Looping
  <2> QED BY <1>1, <1>2, <2>1, <2>2, <2>3, ReadGoesOn
<1>3. CASE Go(r, Idle) BY <1>3, ReadEnds
<1>4. ASSUME NEW n \in NextDevice([q EXCEPT !.todo = Listed]), Go(r, n)
      PROVE  Sited' /\ Continues(r)
  <2>1. PICK m : m = [q EXCEPT !.todo = Listed] OBVIOUS
  <2>2. /\ m \in RequestOf(Signed) /\ m.op = q.op /\ m.at = q.at /\ m.home = q.home
        /\ m.todo = Listed /\ m.ttl = q.ttl /\ m.pc = q.pc /\ m.token = q.token
    BY <1>1, <2>1, ListedIsIndex DEF RequestOf, IndexOf, IInv
  <2>3. Loops(q) BY <1>1 DEF Way, Loops, Looping, AccountOps
  <2>4. Way(m)
    BY <1>1, <2>2, <2>3 DEF Way, HandsOut, Renewing, TokenOps, Loops, Sited, KeysSited
  <2>5. q.op = "login" => q.home \in Devices BY <1>1 DEF Shape
  <2>6. Loops(m) BY <2>2, <2>3 DEF Loops
  <2> QED BY <1>1, <1>4, <2>1, <2>2, <2>4, <2>5, <2>6, LoopGoesOn
<1> QED BY <1>2, <1>3, <1>4 DEF ReadAll

LEMMA ReadInfoSited ==
  ASSUME IInv, Sited, NEW r \in Reqs, ReadInfo(r) PROVE Sited' /\ Continues(r)
<1> DEFINE q == req[r]
<1>1. q \in RequestOf(Signed) /\ Shape(q) /\ Way(q) /\ q.pc = "readInfo" /\ KnownOK
  BY DEF IInv, RequestsOK, Sited, ReadInfo
<1>2. CASE Go(r, Idle) BY <1>2, ReadEnds
<1>3. CASE q.op = "login" /\ Go(r, [q EXCEPT !.pc = "sign"])
  <2>1. PICK n : n = [q EXCEPT !.pc = "sign"] OBVIOUS
  <2>2. /\ n.op = q.op /\ n.at = q.at /\ n.todo = q.todo /\ n.ttl = q.ttl /\ n.home = q.home
        /\ n.pc = "sign" /\ n.token = q.token
    BY <1>1, <2>1 DEF RequestOf
  <2>3. Way(n) BY <1>1, <1>3, <2>2 DEF Way, HandsOut, TokenOps, Loops, Looping
  <2> QED BY <1>1, <1>3, <2>1, <2>2, <2>3, ReadGoesOn
<1>4. CASE /\ q.op = "login" /\ Listed[q.at] # Null
           /\ Go(r, [q EXCEPT !.pc = "readBlack", !.token = Listed[q.at]])
  <2>1. PICK n : n = [q EXCEPT !.pc = "readBlack", !.token = Listed[q.at]] OBVIOUS
  <2>2. /\ n.op = q.op /\ n.at = q.at /\ n.todo = q.todo /\ n.ttl = q.ttl /\ n.home = q.home
        /\ n.pc = "readBlack" /\ n.token = Listed[q.at]
    BY <1>1, <2>1 DEF RequestOf
  <2>3. place[n.token] \in {n.at, Null} BY <1>1, <1>4, <2>2 DEF Shape, Sited, KeysSited
  <2>4. Way(n) BY <1>1, <1>4, <2>2, <2>3 DEF Way, HandsOut, TokenOps, Loops, Looping
  <2> QED BY <1>1, <1>4, <2>1, <2>2, <2>4, ReadGoesOn DEF TokenOps
<1>5. ASSUME q.op = "renewTimeout", NEW d \in Devices, Go(r, [q EXCEPT !.pc = "touch", !.at = d])
      PROVE  Sited' /\ Continues(r)
  <2>1. PICK n : n = [q EXCEPT !.pc = "touch", !.at = d] OBVIOUS
  <2>2. /\ n.op = q.op /\ n.at = d /\ n.todo = q.todo /\ n.ttl = q.ttl /\ n.home = q.home
        /\ n.pc = "touch" /\ n.token = q.token
    BY <1>1, <2>1 DEF RequestOf
  <2>3. Way(n) BY <1>1, <1>5, <2>2 DEF Way, HandsOut, TokenOps, Loops
  <2> QED BY <1>1, <1>5, <2>1, <2>2, <2>3, ReadGoesOn DEF TokenOps
<1>6. ASSUME q.op = "endToken", NEW d \in Devices, Listed[d] = q.token,
             Go(r, [q EXCEPT !.pc = "dropSession", !.at = d])
      PROVE  Sited' /\ Continues(r)
  <2>1. PICK n : n = [q EXCEPT !.pc = "dropSession", !.at = d] OBVIOUS
  <2>2. /\ n.op = q.op /\ n.at = d /\ n.todo = q.todo /\ n.ttl = q.ttl /\ n.home = q.home
        /\ n.pc = "dropSession" /\ n.token = q.token
    BY <1>1, <2>1 DEF RequestOf
  <2>3. q.token \in Tokens /\ Verified(q.token) /\ q.token # Null
    BY <1>1, <1>6, SignedAreTokens DEF Way, TokenOps, RequestOf
  <2>4. place[q.token] \in Devices /\ Null \notin Devices
    BY <2>3, JwtAssumption DEF Sited, TokensSited
  <2>5. place[q.token] = d BY <1>6, <2>3, <2>4 DEF Sited, KeysSited
  <2>6. Way(n) BY <1>1, <1>6, <2>2, <2>5 DEF Way, HandsOut, TokenOps, Loops
  <2> QED BY <1>1, <1>6, <2>1, <2>2, <2>6, ReadGoesOn DEF TokenOps
<1>7. DefaultDevice \in Devices BY JwtAssumption
<1> QED BY <1>2, <1>3, <1>4, <1>5, <1>6, <1>7 DEF ReadInfo

LEMMA ReadBlackSited ==
  ASSUME IInv, Sited, NEW r \in Reqs, ReadBlack(r) PROVE Sited' /\ Continues(r)
<1> DEFINE q == req[r]
<1>1. q \in RequestOf(Signed) /\ Shape(q) /\ Way(q) /\ q.pc = "readBlack" /\ q.token # Null
  BY DEF IInv, RequestsOK, Sited, ReadBlack, Shape
<1>2. CASE Go(r, Idle) BY <1>2, ReadEnds
<1>3. CASE q.op = "login" /\ Go(r, [q EXCEPT !.pc = "sign", !.token = Null])
  <2>1. PICK n : n = [q EXCEPT !.pc = "sign", !.token = Null] OBVIOUS
  <2>2. /\ n.op = q.op /\ n.at = q.at /\ n.todo = q.todo /\ n.ttl = q.ttl /\ n.home = q.home
        /\ n.pc = "sign"
    BY <1>1, <2>1 DEF RequestOf
  <2>3. Way(n) BY <1>1, <1>3, <2>2 DEF Way, HandsOut, TokenOps, Loops, Looping
  <2> QED BY <1>1, <1>3, <2>1, <2>2, <2>3, ReadGoesOn DEF TokenOps
<1>4. CASE /\ q.op = "login" /\ Verified(q.token)
           /\ Go(r, [q EXCEPT !.pc = "writeSession", !.next = q.token])
  <2>1. PICK n : n = [q EXCEPT !.pc = "writeSession", !.next = q.token] OBVIOUS
  <2>2. /\ n.op = q.op /\ n.at = q.at /\ n.todo = q.todo /\ n.ttl = q.ttl /\ n.home = q.home
        /\ n.pc = "writeSession" /\ n.next = q.token
    BY <1>1, <2>1 DEF RequestOf
  <2>3. q.token \in Tokens BY <1>1, SignedAreTokens DEF IInv, RequestOf
  <2>4. place[q.token] = q.at
    BY <1>1, <1>4, <2>3, JwtAssumption DEF Sited, TokensSited, Way, TokenOps
  <2>5. Way(n) BY <1>1, <1>4, <2>2, <2>4 DEF Way, HandsOut, TokenOps, Loops
  <2> QED BY <1>1, <1>4, <2>1, <2>2, <2>5, ReadGoesOn DEF TokenOps
<1>5. ASSUME NEW o, NEW p, <<o, p>> \in {<<"refreshToken", "readFamily">>, <<"renewTimeout", "readInfo">>},
             q.op = o, Go(r, [q EXCEPT !.pc = p])
      PROVE  Sited' /\ Continues(r)
  <2>1. PICK n : n = [q EXCEPT !.pc = p] OBVIOUS
  <2>2. /\ n.op = q.op /\ n.at = q.at /\ n.todo = q.todo /\ n.ttl = q.ttl /\ n.home = q.home
        /\ n.pc = p /\ n.token = q.token
    BY <1>1, <2>1 DEF RequestOf
  <2>3. p \in {"readFamily", "readInfo"} /\ o \in {"refreshToken", "renewTimeout"} BY <1>5
  <2>4. Way(n) BY <1>1, <1>5, <2>2, <2>3 DEF Way, HandsOut, Renewing, TokenOps, Loops
  <2> QED BY <1>1, <1>5, <2>1, <2>2, <2>3, <2>4, ReadGoesOn DEF TokenOps
<1>6. CASE q.op = "refreshToken" /\ Go(r, [q EXCEPT !.pc = "readFamily"]) BY <1>5, <1>6
<1>7. CASE q.op = "renewTimeout" /\ Go(r, [q EXCEPT !.pc = "readInfo"]) BY <1>5, <1>7
<1> QED BY <1>2, <1>3, <1>4, <1>6, <1>7 DEF ReadBlack

(* An operation starts. *)
Starts(r) ==
  \/ \E d \in Devices, ttl \in Timeouts : StartLogin(r, d, ttl)
  \/ \E d \in Devices, op \in DeviceOps : StartDeviceOp(r, op, d)
  \/ \E op \in AccountOps : StartAccountOp(r, op)
  \/ \E t \in Tokens, op \in TokenOps \ {"renewTimeout"} : StartTokenOp(r, op, t, 0)
  \/ \E t \in Tokens, ttl \in RenewTimeouts : StartTokenOp(r, "renewTimeout", t, ttl)

(* How a request starts. *)
Enters(q) ==
  /\ q.pc \in {"readSession", "readAll", "setBlack", "readBlack"}
  /\ q.pc = "readAll" <=> q.op \in AccountOps
  /\ q.op = "login" => q.pc = "readSession"
  /\ q.pc = "setBlack" <=> q.op = "endToken"
  /\ q.op = "renewTimeout" => q.pc = "readBlack"
  /\ q.next = Null /\ \A d \in Devices : q.todo[d] = Null

LEMMA StartWay ==
  ASSUME IInv, Sited, NEW r \in Reqs, Starts(r)
  PROVE  \E q : Go(r, q) /\ ~Running(r) /\ MayStart(q) /\ Way(q) /\ Enters(q)
<1> USE DEF Idle, Empty
<1>1. ASSUME NEW d \in Devices, NEW ttl \in Timeouts, StartLogin(r, d, ttl)
      PROVE  \E q : Start(r, q) /\ Way(q) /\ Enters(q)
  <2> DEFINE q == [Idle EXCEPT !.op = "login", !.pc = "readSession", !.home = d, !.at = d, !.ttl = ttl]
  <2>1. Start(r, q) BY <1>1 DEF StartLogin
  <2>2. Way(q) BY DEF Way, TokenOps, HandsOut
  <2>3. Enters(q) BY DEF Enters, AccountOps
  <2> QED BY <2>1, <2>2, <2>3
<1>2. ASSUME NEW d \in Devices, NEW op \in DeviceOps, StartDeviceOp(r, op, d)
      PROVE  \E q : Start(r, q) /\ Way(q) /\ Enters(q)
  <2> DEFINE q == [Idle EXCEPT !.op = op, !.pc = "readSession", !.at = d]
  <2>1. Start(r, q) BY <1>2 DEF StartDeviceOp
  <2>2. op = "endDevice" BY <1>2 DEF DeviceOps
  <2>3. Way(q) BY <2>2 DEF Way, TokenOps, HandsOut
  <2>4. Enters(q) BY <2>2 DEF Enters, AccountOps
  <2> QED BY <2>1, <2>3, <2>4
<1>3. ASSUME NEW op \in AccountOps, StartAccountOp(r, op)
      PROVE  \E q : Start(r, q) /\ Way(q) /\ Enters(q)
  <2> DEFINE q == [Idle EXCEPT !.op = op, !.pc = "readAll"]
  <2>1. Start(r, q) BY <1>3 DEF StartAccountOp
  <2>2. op \in {"logoutByLoginId", "forceLogout"} BY <1>3 DEF AccountOps
  <2>3. Way(q) BY <2>2 DEF Way, TokenOps, HandsOut, Looping
  <2>4. Enters(q) BY <2>2 DEF Enters, AccountOps
  <2> QED BY <2>1, <2>3, <2>4
<1>4. ASSUME NEW t \in Tokens, NEW op \in TokenOps, NEW ttl,
             op = "renewTimeout" => ttl \in RenewTimeouts, StartTokenOp(r, op, t, ttl)
      PROVE  \E q : Start(r, q) /\ Way(q) /\ Enters(q)
  <2> DEFINE q == [Idle EXCEPT !.op = op, !.token = t, !.ttl = ttl,
                               !.pc = IF op = "endToken" THEN "setBlack" ELSE "readBlack"]
  <2>1. Start(r, q) /\ Verified(t) /\ t \in handed /\ t # Null
    BY <1>4, JwtAssumption DEF StartTokenOp
  <2>2. Way(q)
    BY <1>4, <2>1 DEF Way, TokenOps, HandsOut, Renewing
  <2>3. Enters(q) BY <1>4 DEF Enters, AccountOps, TokenOps
  <2> QED BY <2>1, <2>2, <2>3
<1>5. "renewTimeout" \in TokenOps BY DEF TokenOps
<1> QED BY <1>1, <1>2, <1>3, <1>4, <1>5 DEF Starts, Start

LEMMA StartSited ==
  ASSUME IInv, Sited, NEW r \in Reqs, Starts(r) PROVE Sited'
BY StartWay, ReadSited

LEMMA ReplayReadSited ==
  ASSUME IInv, Sited, NEW r \in Reqs, ReplayRead(r) PROVE Sited' /\ Continues(r)
<1> DEFINE q == req[r]
<1>1. q \in RequestOf(Signed) /\ Shape(q) /\ Way(q) /\ q.pc = "replayRead"
  BY DEF IInv, RequestsOK, Sited, ReplayRead
<1>2. PICK n : n = [q EXCEPT !.pc = "replayCas", !.seen = family[q.token]] OBVIOUS
<1>3. /\ n.op = q.op /\ n.at = q.at /\ n.todo = q.todo /\ n.ttl = q.ttl /\ n.home = q.home
      /\ n.pc = "replayCas" /\ n.token = q.token
  BY <1>1, <1>2 DEF RequestOf
<1>4. Way(n) BY <1>1, <1>3 DEF Way, HandsOut, Renewing, TokenOps, Loops
<1>5. Go(r, n) BY <1>2 DEF ReplayRead
<1>6. q.op \in TokenOps BY <1>1 DEF Way, TokenOps
<1> QED BY <1>1, <1>3, <1>4, <1>5, <1>6, ReadGoesOn

LEMMA KeysStaySited ==
  ASSUME IInv, Sited, UNCHANGED <<session, list>>, \A u \in Signed : place'[u] = place[u]
  PROVE  KeysSited'
<1>1. ASSUME NEW d \in Devices PROVE session[d] # Null => session[d].value \in Signed
  BY DEF IInv, KnownOK, Entry
<1>2. ASSUME NEW d \in Devices PROVE Listed[d] # Null => Listed[d] \in Signed
  BY ListedIsIndex DEF IInv, IndexOf
<1>3. Listed' = Listed BY DEF Listed
<1> QED BY <1>1, <1>2, <1>3 DEF Sited, KeysSited

LEMMA SignSited ==
  ASSUME IInv, Sited, NEW r \in Reqs, NEW t \in Tokens, NEW d \in Devices, NEW ttl \in Nat,
         Sign(t, d, ttl), NEW n, Become(r, n), UNCHANGED <<mode, now, store, handed>>,
         (\A u \in Signed : place'[u] = place[u]) /\ place'[t] = d => Way(n)'
  PROVE  /\ Sited' /\ place'[t] = d /\ exp'[t] = now + ttl /\ t \notin Signed
         /\ \A u \in Signed : place'[u] = place[u] /\ exp'[u] = exp[u]
<1>1. /\ exp[t] = Null /\ exp' = [exp EXCEPT ![t] = now + ttl]
      /\ place' = [place EXCEPT ![t] = d]
      /\ UNCHANGED <<session, list, black>>
  BY DEF Sign, store
<1>2. t \notin Signed /\ place'[t] = d /\ exp'[t] = now + ttl
      /\ \A u \in Tokens : u # t => place'[u] = place[u] /\ exp'[u] = exp[u]
  BY <1>1 DEF Signed, IInv, KnownOK
<1>3. \A u \in Signed : place'[u] = place[u] /\ exp'[u] = exp[u]
  BY <1>2 DEF Signed
<1>4. TokensSited'
  <2>1. exp'[t] # Null BY <1>2, JwtAssumption DEF IInv, KnownOK
  <2> QED BY <1>1, <1>2, <2>1 DEF Sited, TokensSited, Verified
<1>5. KeysSited' BY <1>1, <1>3, KeysStaySited
<1> QED BY <1>2, <1>3, <1>4, <1>5, SitedStep

LEMMA LoginSignsSited ==
  ASSUME IInv, Sited, NEW r \in Reqs, LoginSigns(r)
  PROVE  /\ Sited' /\ Continues(r)
         /\ \A u \in Signed : place'[u] = place[u] /\ exp'[u] = exp[u]
<1> DEFINE q == req[r]
<1>1. q \in RequestOf(Signed) /\ Shape(q) /\ Way(q) /\ q.pc = "sign"
  BY DEF IInv, RequestsOK, Sited, LoginSigns
<1>2. PICK t \in Tokens : Sign(t, q.at, q.ttl)
                          /\ Become(r, [q EXCEPT !.pc = "writeSession", !.next = t])
  BY DEF LoginSigns
<1>3. PICK n : n = [q EXCEPT !.pc = "writeSession", !.next = t] OBVIOUS
<1>4. /\ n.op = q.op /\ n.at = q.at /\ n.todo = q.todo /\ n.ttl = q.ttl /\ n.home = q.home
      /\ n.pc = "writeSession" /\ n.next = t /\ n.op = "login"
  BY <1>1, <1>3 DEF RequestOf, Way
<1>5. q.at \in Devices /\ q.ttl \in Nat /\ t # Null
  BY <1>1, <1>4, JwtAssumption DEF Shape, RequestOf
<1>6. UNCHANGED <<mode, now, store, handed>> BY DEF LoginSigns
<1>7. ASSUME \A u \in Signed : place'[u] = place[u], place'[t] = q.at PROVE Way(n)'
  <2>1. \A d \in Devices : q.todo[d] # Null => q.todo[d] \in Signed BY <1>1 DEF RequestOf
  <2>2. \A d \in Devices : n.todo[d] # Null => Loops(n)' /\ place'[n.todo[d]] \in {d, Null}
    BY <1>1, <1>4, <1>6, <1>7, <2>1 DEF Way, Loops
  <2> HIDE DEF q
  <2> QED BY <1>1, <1>4, <1>5, <1>6, <1>7, <2>2 DEF Way, HandsOut, TokenOps
<1>8. Become(r, n) BY <1>2, <1>3
<1>9. /\ Sited' /\ \A u \in Signed : place'[u] = place[u] /\ exp'[u] = exp[u]
  BY <1>2, <1>5, <1>6, <1>7, <1>8, SignSited
<1>10. Scope(n)' = Scope(q) BY <1>4, <1>6, ScopeStays DEF TokenOps
<1> QED BY <1>1, <1>4, <1>8, <1>9, <1>10, NotIdle DEF Continues, GoesOn

LEMMA ReadFamilySited ==
  ASSUME IInv, Sited, NEW r \in Reqs, ReadFamily(r)
  PROVE  /\ Sited' /\ Continues(r)
         /\ \A u \in Signed : place'[u] = place[u] /\ exp'[u] = exp[u]
<1> DEFINE q == req[r]
           f == family[q.token]
<1>1. q \in RequestOf(Signed) /\ Shape(q) /\ Way(q) /\ q.pc = "readFamily" /\ q.op = "refreshToken"
  BY DEF IInv, RequestsOK, Sited, ReadFamily, Shape
<1>2. CASE Go(r, Idle)
  <2>1. UNCHANGED <<place, exp>> BY <1>2 DEF Go, past
  <2> QED BY <1>2, <2>1, ReadEnds
<1>3. ASSUME NEW t \in Tokens, NEW ttl \in RefreshTimeouts, Sign(t, place[q.token], ttl),
             Become(r, [q EXCEPT !.pc = "casFamily", !.next = t, !.seen = f,
                                 !.at = place[q.token], !.ttl = ttl]),
             UNCHANGED <<mode, now, store, handed>>
      PROVE  /\ Sited' /\ Continues(r)
             /\ \A u \in Signed : place'[u] = place[u] /\ exp'[u] = exp[u]
  <2>1. PICK n : n = [q EXCEPT !.pc = "casFamily", !.next = t, !.seen = f,
                               !.at = place[q.token], !.ttl = ttl] OBVIOUS
  <2>2. /\ n.op = q.op /\ n.at = place[q.token] /\ n.todo = q.todo /\ n.token = q.token
        /\ n.pc = "casFamily" /\ n.next = t
    BY <1>1, <2>1 DEF RequestOf
  <2>3. q.token \in Tokens /\ q.token \in Signed /\ Verified(q.token) /\ q.token \in handed
        /\ t # Null /\ q.token # Null
    BY <1>1, SignedAreTokens, JwtAssumption DEF Way, TokenOps, RequestOf, IInv
  <2>4. place[q.token] \in Devices BY <2>3 DEF Sited, TokensSited
  <2>5. ASSUME \A u \in Signed : place'[u] = place[u], place'[t] = place[q.token] PROVE Way(n)'
    <3>1. \A d \in Devices : n.todo[d] = Null BY <1>1, <2>2 DEF Way, Loops, AccountOps
    <3>2. place'[n.token] = place[q.token] /\ place'[n.next] = place[q.token]
      BY <2>2, <2>3, <2>5
    <3>3. Verified(n.token)'
      <4>1. t \notin Signed BY <1>3 DEF Sign, Signed
      <4>2. exp' = [exp EXCEPT ![t] = now + ttl] BY <1>3 DEF Sign
      <4>3. t # q.token BY <2>3, <4>1
      <4>4. exp'[q.token] = exp[q.token] BY <2>3, <4>2, <4>3 DEF IInv, KnownOK
      <4> QED BY <1>3, <2>2, <2>3, <4>4 DEF Verified
    <3> HIDE DEF q
    <3> QED BY <1>1, <1>3, <2>2, <2>3, <3>1, <3>2, <3>3 DEF Way, HandsOut, TokenOps
  <2>6. Become(r, n) /\ ttl \in Nat BY <1>3, <2>1, JwtAssumption
  <2> HIDE DEF q
  <2>7. /\ Sited' /\ \A u \in Signed : place'[u] = place[u] /\ exp'[u] = exp[u]
    BY <1>3, <2>4, <2>5, <2>6, SignSited
  <2>8. Scope(n)' = Scope(q) BY <1>1, <1>3, <2>2, <2>3, <2>7, ScopeStays DEF TokenOps
  <2> QED BY <1>1, <2>2, <2>6, <2>7, <2>8, NotIdle DEF Continues, GoesOn, q
<1> QED BY <1>2, <1>3 DEF ReadFamily

LEMMA WriteGoesOn ==
  ASSUME IInv, Sited, NEW r \in Reqs, NEW n, Become(r, n),
         UNCHANGED <<mode, now, exp, place>>, handed \subseteq handed',
         TokensSited', KeysSited', Way(n)',
         \/ n = Idle
         \/ /\ req[r].pc # "idle" /\ n.op = req[r].op
            /\ req[r].op \in TokenOps => n.token = req[r].token
            /\ req[r].op \notin TokenOps /\ ~Loops(req[r]) => n.at = req[r].at
  PROVE  Sited' /\ Continues(r)
<1>1. Sited' BY SitedStep
<1>2. CASE n = Idle BY <1>1, <1>2 DEF Continues, GoesOn
<1>3. CASE n # Idle
  <2>1. Scope(n)' = Scope(req[r]) BY <1>3, ScopeStays
  <2> QED BY <1>1, <1>3, <2>1, NotIdle DEF Continues, GoesOn
<1> QED BY <1>2, <1>3

LEMMA IdleWayPrimed == Way(Idle)'
<1>1. Null \notin AllOps BY JwtAssumption
<1>2. Idle.op = Null /\ Idle.pc = "idle" /\ \A d \in Devices : Idle.todo[d] = Null
  BY DEF Idle, Empty
<1> QED BY <1>1, <1>2 DEF Way, AllOps, TokenOps, HandsOut, Renewing

LEMMA FamilySited ==
  ASSUME IInv, Sited, NEW r \in Reqs, CasFamily(r) \/ ReplayCas(r) \/ WriteFamily(r)
  PROVE  Sited' /\ Continues(r)
<1> DEFINE q == req[r]
<1>1. q \in RequestOf(Signed) /\ Shape(q) /\ Way(q) BY DEF IInv, RequestsOK, Sited
<1>2. /\ UNCHANGED <<mode, now, exp, place, session, list, black>> /\ handed \subseteq handed'
  BY DEF CasFamily, ReplayCas, WriteFamily, past, Go, store
<1>3. TokensSited' /\ KeysSited'
  BY <1>2 DEF Sited, TokensSited, KeysSited, Verified, Listed
<1>4. CASE Become(r, Idle) BY <1>2, <1>3, <1>4, IdleWayPrimed, WriteGoesOn
<1>5. ASSUME NEW n, Become(r, n), q.pc \in {"casFamily", "writeFamily"},
             n.op = "refreshToken", q.op = "refreshToken",
             n.pc \in {"replayRead", "writeFamily", "setBlack"},
             n.at = q.at, n.todo = q.todo, n.token = q.token, n.next = q.next
      PROVE  Sited' /\ Continues(r)
  <2>1. Way(n)' BY <1>1, <1>2, <1>5 DEF Way, HandsOut, Renewing, TokenOps, Loops, Verified
  <2> QED BY <1>1, <1>2, <1>3, <1>5, <2>1, WriteGoesOn DEF TokenOps
<1>6. CASE CasFamily(r)
  <2>1. q.op = "refreshToken" /\ q.pc = "casFamily" BY <1>1, <1>6 DEF CasFamily, Way
  <2>2. CASE Go(r, [q EXCEPT !.pc = "replayRead"])
    <3>1. PICK n : n = [q EXCEPT !.pc = "replayRead"] OBVIOUS
    <3>2. n.op = q.op /\ n.pc = "replayRead" /\ n.at = q.at /\ n.todo = q.todo
          /\ n.token = q.token /\ n.next = q.next
      BY <1>1, <3>1 DEF RequestOf
    <3> QED BY <1>5, <2>1, <2>2, <3>1, <3>2 DEF Go
  <2>3. CASE Become(r, [q EXCEPT !.pc = "writeFamily", !.seen = q.seen + 1])
    <3>1. PICK n : n = [q EXCEPT !.pc = "writeFamily", !.seen = q.seen + 1] OBVIOUS
    <3>2. n.op = q.op /\ n.pc = "writeFamily" /\ n.at = q.at /\ n.todo = q.todo
          /\ n.token = q.token /\ n.next = q.next
      BY <1>1, <3>1 DEF RequestOf
    <3> QED BY <1>5, <2>1, <2>3, <3>1, <3>2
  <2> QED BY <1>6, <2>2, <2>3 DEF CasFamily
<1>7. CASE WriteFamily(r) /\ q.op = "refreshToken"
  <2>1. Become(r, [q EXCEPT !.pc = "setBlack"]) /\ q.pc = "writeFamily" BY <1>7 DEF WriteFamily
  <2>2. PICK n : n = [q EXCEPT !.pc = "setBlack"] OBVIOUS
  <2>3. n.op = q.op /\ n.pc = "setBlack" /\ n.at = q.at /\ n.todo = q.todo
        /\ n.token = q.token /\ n.next = q.next
    BY <1>1, <2>2 DEF RequestOf
  <2> QED BY <1>5, <1>7, <2>1, <2>2, <2>3
<1> QED BY <1>4, <1>6, <1>7 DEF ReplayCas, WriteFamily

LEMMA SetBlackSited ==
  ASSUME IInv, Sited, NEW r \in Reqs, SetBlack(r) PROVE Sited' /\ Continues(r)
<1> DEFINE q == req[r]
<1>1. q \in RequestOf(Signed) /\ Shape(q) /\ Way(q) /\ q.pc = "setBlack" /\ q.token \in Signed
  BY DEF IInv, RequestsOK, Sited, SetBlack, Shape, RequestOf
<1>2. UNCHANGED <<mode, now, exp, place, session, list, handed>>
      /\ \E e : black' = [black EXCEPT ![q.token] = e]
  BY DEF SetBlack
<1>3. TokensSited' BY <1>1, <1>2 DEF Sited, TokensSited, Verified, Signed, IInv, KnownOK
<1>4. KeysSited' BY <1>2 DEF Sited, KeysSited, Listed
<1>5. PICK n : n = [q EXCEPT !.pc = AfterBlack(q)] OBVIOUS
<1>6. /\ n.op = q.op /\ n.at = q.at /\ n.todo = q.todo /\ n.ttl = q.ttl /\ n.home = q.home
      /\ n.token = q.token /\ n.next = q.next
      /\ n.pc = AfterBlack(q)
  BY <1>1, <1>5 DEF RequestOf
<1>7. /\ n.pc \in {"readInfo", "writeSession", "dropSession"}
      /\ n.pc = "readInfo" <=> q.op = "endToken"
      /\ n.pc = "writeSession" <=> q.op = "refreshToken"
  BY <1>6 DEF AfterBlack
<1>8. n.pc = "dropSession" => q.at \in Devices
  BY <1>1, <1>6, <1>7 DEF Way
<1>9. Way(n)'
  BY <1>1, <1>2, <1>6, <1>7, <1>8 DEF Way, HandsOut, Renewing, TokenOps, Loops, Verified
<1>10. Become(r, n) BY <1>5 DEF SetBlack
<1> HIDE DEF q
<1> QED BY <1>1, <1>2, <1>3, <1>4, <1>6, <1>9, <1>10, WriteGoesOn DEF q

LEMMA DropSessionSited ==
  ASSUME IInv, Sited, NEW r \in Reqs, DropSession(r) PROVE Sited' /\ Continues(r)
<1> DEFINE q == req[r]
<1>1. q \in RequestOf(Signed) /\ Shape(q) /\ Way(q) /\ q.pc = "dropSession" /\ q.at \in Devices
  BY DEF IInv, RequestsOK, Sited, DropSession, Way
<1>2. UNCHANGED <<mode, now, exp, place, list, black, handed>>
      /\ session' = [session EXCEPT ![q.at] = Null]
  BY DEF DropSession, past
<1>3. TokensSited' BY <1>2 DEF Sited, TokensSited, Verified
<1>4. KeysSited' BY <1>1, <1>2 DEF Sited, KeysSited, Listed, IInv, KnownOK
<1>5. ASSUME NEW n, Way(n), Become(r, n),
             \/ n = Idle
             \/ /\ n.op = q.op
                /\ q.op \in TokenOps => n.token = q.token
                /\ q.op \notin TokenOps /\ ~Loops(q) => n.at = q.at
      PROVE  Sited' /\ Continues(r)
  <2>1. Way(n)' BY <1>2, <1>5 DEF Way, Loops, Verified
  <2> QED BY <1>1, <1>2, <1>3, <1>4, <1>5, <2>1, WriteGoesOn
<1>6. CASE q.op = "login" /\ mode = "replace"
           /\ Become(r, [q EXCEPT !.pc = "sign", !.token = Null])
  <2>1. PICK n : n = [q EXCEPT !.pc = "sign", !.token = Null] OBVIOUS
  <2>2. /\ n.op = q.op /\ n.at = q.at /\ n.todo = q.todo /\ n.ttl = q.ttl /\ n.home = q.home
        /\ n.pc = "sign"
    BY <1>1, <2>1 DEF RequestOf
  <2>3. Way(n) BY <1>1, <1>6, <2>2 DEF Way, HandsOut, TokenOps, Loops, Looping
  <2> QED BY <1>5, <1>6, <2>1, <2>2, <2>3 DEF TokenOps
<1>7. ASSUME q.op = "logoutByLoginId" \/ (q.op = "login" /\ mode = "single"),
             NEW n \in NextDevice(q), Become(r, n)
      PROVE  Sited' /\ Continues(r)
  <2>1. Loops(q) BY <1>7 DEF Loops, AccountOps
  <2>2. q.op = "login" => q.home \in Devices BY <1>1 DEF Shape
  <2>3. Way(n) /\ (n = Idle \/ n.op = q.op) BY <1>1, <1>7, <2>1, <2>2, NextDeviceWay
  <2>4. q.op \notin TokenOps BY <1>7 DEF TokenOps
  <2> HIDE DEF q
  <2> QED BY <1>5, <1>7, <2>1, <2>3, <2>4
<1>8. CASE q.op \notin {"login", "logoutByLoginId"} /\ Become(r, [q EXCEPT !.pc = "removeList"])
  <2>1. PICK n : n = [q EXCEPT !.pc = "removeList"] OBVIOUS
  <2>2. /\ n.op = q.op /\ n.at = q.at /\ n.todo = q.todo /\ n.ttl = q.ttl /\ n.home = q.home
        /\ n.pc = "removeList" /\ n.token = q.token
    BY <1>1, <2>1 DEF RequestOf
  <2>3. Way(n) BY <1>1, <1>8, <2>2 DEF Way, HandsOut, Renewing, TokenOps, Loops
  <2> QED BY <1>5, <1>8, <2>1, <2>2, <2>3
<1> QED BY <1>6, <1>7, <1>8 DEF DropSession

(* What the list holds after a write. *)
LEMMA PutIsEntry ==
  ASSUME NEW S, S \subseteq Tokens, NEW v \in S \cup IndexOf(S), NEW ttl \in Nat, now \in Nat
  PROVE  /\ Put(v, ttl) # Null /\ Put(v, ttl).value = v /\ Put(v, ttl).end = now + ttl
         /\ Put(v, ttl) \in [value: {v}, end: Nat]
<1>1. v \in Tokens \cup [Devices -> Tokens \cup {Null}] BY DEF IndexOf
<1>2. PICK e \in Nat : e = now + ttl OBVIOUS
<1>3. Put(v, ttl) = [value |-> v, end |-> e] BY <1>2 DEF Put
<1> QED BY <1>1, <1>2, <1>3, JwtAssumption

LEMMA PutIsListed ==
  ASSUME KnownOK, NEW v \in IndexOf(Signed), NEW ttl \in Nat, list' = Put(v, ttl)
  PROVE  Listed' = v /\ list' # Null /\ list'.end = now + ttl
<1>1. Signed \subseteq Tokens /\ now \in Nat BY SignedAreTokens DEF KnownOK
<1> QED BY <1>1, PutIsEntry DEF Listed

LEMMA EmptyingList ==
  ASSUME KnownOK, NEW d \in Devices, list' = Without(d)
  PROVE  Listed' = [Listed EXCEPT ![d] = Null]
<1> DEFINE left == [Listed EXCEPT ![d] = Null]
<1>1. CASE list = Null
  <2>1. Listed = Empty /\ Listed' = Empty BY <1>1 DEF Without, Listed
  <2> QED BY <2>1 DEF Empty
<1>2. CASE list # Null /\ left = Empty
  BY <1>2 DEF Without, Listed
<1>3. CASE list # Null /\ left # Empty
  <2>0. left \in IndexOf(Signed) /\ Signed \subseteq Tokens
    BY ListedIsIndex, SignedAreTokens DEF IndexOf
  <2>1. list \in [value: IndexOf(Signed), end: Nat] BY <1>3 DEF KnownOK, Entry
  <2>2. list' = [list EXCEPT !.value = left] BY <1>3 DEF Without
  <2>3. list'.value = left /\ list' \in [value: IndexOf(Signed), end: Nat] BY <2>0, <2>1, <2>2
  <2>4. list' # Null BY <2>0, <2>3, JwtAssumption DEF IndexOf
  <2> QED BY <2>3, <2>4 DEF Listed
<1> QED BY <1>1, <1>2, <1>3

LEMMA ListSited ==
  ASSUME IInv, Sited, NEW r \in Reqs, RemoveList(r) \/ DropList(r) \/ AddList(r)
  PROVE  Sited' /\ Continues(r)
<1> DEFINE q == req[r]
<1>1. q \in RequestOf(Signed) /\ Shape(q) /\ Way(q) /\ Listed \in IndexOf(Signed)
  BY ListedIsIndex DEF IInv, RequestsOK, Sited
<1>2. UNCHANGED <<mode, now, exp, place, session, black>> /\ handed \subseteq handed'
  BY DEF RemoveList, DropList, AddList, past
<1>3. TokensSited' BY <1>2 DEF Sited, TokensSited, Verified
<1>4. ASSUME NEW n, Way(n), Become(r, n), KeysSited', q.pc # "idle",
             \/ n = Idle
             \/ /\ n.op = q.op
                /\ q.op \in TokenOps => n.token = q.token
                /\ q.op \notin TokenOps /\ ~Loops(q) => n.at = q.at
      PROVE  Sited' /\ Continues(r)
  <2>1. Way(n)' BY <1>2, <1>4 DEF Way, Loops, Verified
  <2> QED BY <1>1, <1>2, <1>3, <1>4, <2>1, WriteGoesOn
<1>5. CASE RemoveList(r)
  <2>1. q.pc = "removeList" /\ q.at \in Devices BY <1>1, <1>5 DEF RemoveList, Way
  <2>2. Listed' = [Listed EXCEPT ![q.at] = Null]
    BY <1>5, <2>1, EmptyingList DEF IInv, RemoveList
  <2>3. KeysSited' BY <1>1, <1>2, <2>1, <2>2 DEF Sited, KeysSited, IndexOf
  <2>4. CASE Become(r, Idle) BY <1>4, <2>1, <2>3, <2>4, IdleWay
  <2>5. ASSUME q.op = "forceLogout", NEW n \in NextDevice(q), Become(r, n)
        PROVE  Sited' /\ Continues(r)
    <3>1. Loops(q) BY <2>5 DEF Loops, AccountOps
    <3>2. Way(n) /\ (n = Idle \/ n.op = q.op) BY <1>1, <2>5, <3>1, NextDeviceWay
    <3>3. q.op \notin TokenOps BY <2>5 DEF TokenOps
    <3> HIDE DEF q
    <3> QED BY <1>4, <2>1, <2>3, <2>5, <3>1, <3>2, <3>3
  <2> QED BY <1>5, <2>4, <2>5 DEF RemoveList
<1>6. CASE DropList(r)
  <2>1. q.pc = "dropList" /\ list' = Null /\ Loops(q) BY <1>1, <1>6 DEF DropList, Way
  <2>2. KeysSited' BY <1>2, <2>1 DEF Sited, KeysSited, Listed, Empty
  <2>3. CASE Become(r, Idle) BY <1>4, <2>1, <2>2, <2>3, IdleWay
  <2>4. CASE q.op = "login" /\ Become(r, [q EXCEPT !.pc = "sign"])
    <3>1. PICK n : n = [q EXCEPT !.pc = "sign"] OBVIOUS
    <3>2. /\ n.op = q.op /\ n.at = q.at /\ n.todo = q.todo /\ n.ttl = q.ttl /\ n.home = q.home
          /\ n.pc = "sign"
      BY <1>1, <3>1 DEF RequestOf
    <3>3. Way(n) BY <1>1, <2>1, <2>4, <3>2 DEF Way, HandsOut, TokenOps, Loops, Looping
    <3> QED BY <1>4, <2>1, <2>2, <2>4, <3>1, <3>2, <3>3 DEF TokenOps
  <2> QED BY <1>6, <2>3, <2>4 DEF DropList
<1>7. CASE AddList(r)
  <2>1. q.pc = "addList" /\ list' = Put([Listed EXCEPT ![q.at] = q.next], q.ttl)
    BY <1>7 DEF AddList
  <2>2. Listed' = [Listed EXCEPT ![q.at] = q.next]
    <3>1. [Listed EXCEPT ![q.at] = q.next] \in IndexOf(Signed) /\ q.ttl \in Nat
      BY <1>1 DEF IndexOf, RequestOf
    <3> QED BY <2>1, <3>1, PutIsListed DEF IInv
  <2>3. place[q.next] = q.at BY <1>1, <2>1 DEF Way, HandsOut, Renewing
  <2>4. KeysSited' BY <1>1, <1>2, <2>2, <2>3 DEF Sited, KeysSited, IndexOf
  <2>5. CASE Become(r, Idle) BY <1>4, <2>1, <2>4, <2>5, IdleWay
  <2>6. CASE q.op = "login" /\ Become(r, [q EXCEPT !.pc = "writeFamily"])
    <3>1. PICK n : n = [q EXCEPT !.pc = "writeFamily"] OBVIOUS
    <3>2. /\ n.op = q.op /\ n.at = q.at /\ n.todo = q.todo /\ n.ttl = q.ttl /\ n.home = q.home
          /\ n.pc = "writeFamily" /\ n.next = q.next
      BY <1>1, <3>1 DEF RequestOf
    <3>3. Way(n) BY <1>1, <2>1, <2>6, <3>2 DEF Way, HandsOut, TokenOps, Loops
    <3> QED BY <1>4, <2>1, <2>4, <2>6, <3>1, <3>2, <3>3 DEF TokenOps
  <2> QED BY <1>7, <2>5, <2>6 DEF AddList
<1> QED BY <1>5, <1>6, <1>7

LEMMA SessionSited ==
  ASSUME IInv, Sited, NEW r \in Reqs, WriteSession(r) \/ Touch(r)
  PROVE  Sited' /\ Continues(r)
<1> DEFINE q == req[r]
<1>1. q \in RequestOf(Signed) /\ Shape(q) /\ Way(q) /\ KnownOK /\ q.ttl \in Nat
  BY DEF IInv, RequestsOK, Sited, RequestOf
<1>2. UNCHANGED <<mode, now, exp, place, list, black, handed>>
  BY DEF WriteSession, Touch, past
<1>3. TokensSited' BY <1>2 DEF Sited, TokensSited, Verified
<1>4. CASE WriteSession(r)
  <2>1. q.pc = "writeSession" /\ session' = [session EXCEPT ![q.at] = Put(q.next, q.ttl)]
    BY <1>4 DEF WriteSession
  <2>2. q.next \in Signed /\ place[q.next] = q.at
    BY <1>1, <2>1 DEF Way, HandsOut, Renewing, RequestOf
  <2>3. Put(q.next, q.ttl).value = q.next
    BY <1>1, <2>2, SignedAreTokens, PutIsEntry DEF KnownOK
  <2>4. KeysSited' BY <1>1, <1>2, <2>1, <2>2, <2>3 DEF Sited, KeysSited, Listed, KnownOK
  <2>5. PICK n : n = [q EXCEPT !.pc = "addList"] OBVIOUS
  <2>6. /\ n.op = q.op /\ n.at = q.at /\ n.todo = q.todo /\ n.ttl = q.ttl /\ n.home = q.home
        /\ n.pc = "addList" /\ n.next = q.next /\ n.token = q.token
    BY <1>1, <2>5 DEF RequestOf
  <2>7. Way(n)'
    BY <1>1, <1>2, <2>1, <2>6 DEF Way, HandsOut, Renewing, TokenOps, Loops, Verified
  <2>8. Become(r, n) BY <1>4, <2>5 DEF WriteSession
  <2> HIDE DEF q
  <2> QED BY <1>2, <1>3, <2>1, <2>4, <2>6, <2>7, <2>8, WriteGoesOn DEF q
<1>5. CASE Touch(r)
  <2>1. ASSUME NEW d \in Devices, session'[d] # Null
        PROVE  session[d] # Null /\ session'[d].value = session[d].value
    <3>1. CASE session' = session BY <2>1, <3>1
    <3>2. CASE session[q.at] # Null /\ session' = [session EXCEPT ![q.at].end = now + q.ttl]
      <4>1. CASE d # q.at BY <1>1, <2>1, <3>2, <4>1 DEF KnownOK
      <4>2. CASE d = q.at
        <5>1. session[d] \in [value: Signed, end: Nat]
          BY <1>1, <3>2, <4>2 DEF KnownOK, Entry
        <5>2. session'[d] = [session[d] EXCEPT !.end = now + q.ttl]
          BY <1>1, <3>2, <4>2 DEF KnownOK
        <5> QED BY <3>2, <4>2, <5>1, <5>2
      <4> QED BY <4>1, <4>2
    <3> QED BY <1>5, <3>1, <3>2 DEF Touch
  <2>2. KeysSited' BY <1>2, <2>1 DEF Sited, KeysSited, Listed
  <2>3. Become(r, Idle) BY <1>5 DEF Touch
  <2> QED BY <1>2, <1>3, <2>2, <2>3, IdleWayPrimed, WriteGoesOn
<1> QED BY <1>4, <1>5

LEMMA FailingSited ==
  ASSUME IInv, Sited, NEW r \in Reqs, SetBlackFails(r) \/ Abort(r)
  PROVE  Sited' /\ Continues(r)
<1> DEFINE q == req[r]
<1>1. q \in RequestOf(Signed) /\ Shape(q) /\ Way(q) BY DEF IInv, RequestsOK, Sited
<1>2. UNCHANGED <<mode, now, exp, place, session, list, black, handed>>
  BY DEF SetBlackFails, Abort, store, past
<1>3. TokensSited' /\ KeysSited'
  BY <1>2 DEF Sited, TokensSited, KeysSited, Verified, Listed
<1>4. ASSUME NEW n, Way(n), Become(r, n), q.pc = "setBlack", n = Idle \/ n.op = q.op, Loops(q)
      PROVE  Sited' /\ Continues(r)
  <2>1. Way(n)' BY <1>2, <1>4 DEF Way, Loops, Verified
  <2>2. q.op \notin TokenOps BY <1>4 DEF Loops, AccountOps, TokenOps
  <2> QED BY <1>2, <1>3, <1>4, <2>1, <2>2, WriteGoesOn
<1>5. CASE Abort(r)
  <2>1. Become(r, Idle) BY <1>5 DEF Abort
  <2> QED BY <1>2, <1>3, <2>1, IdleWayPrimed, WriteGoesOn
<1>6. CASE SetBlackFails(r)
  <2>1. q.pc = "setBlack" BY <1>6 DEF SetBlackFails
  <2>2. ASSUME q.op = "logoutByLoginId", NEW n \in NextDevice(q), Become(r, n)
        PROVE  Sited' /\ Continues(r)
    <3>1. Loops(q) BY <2>2 DEF Loops, AccountOps
    <3>2. Way(n) /\ (n = Idle \/ n.op = q.op) BY <1>1, <2>2, <3>1, NextDeviceWay
    <3> HIDE DEF q
    <3> QED BY <1>4, <2>1, <2>2, <3>1, <3>2
  <2>3. CASE q.op = "login" /\ mode = "single" /\ Become(r, [q EXCEPT !.pc = "dropSession"])
    <3>1. PICK n : n = [q EXCEPT !.pc = "dropSession"] OBVIOUS
    <3>2. /\ n.op = q.op /\ n.at = q.at /\ n.todo = q.todo /\ n.ttl = q.ttl /\ n.home = q.home
          /\ n.pc = "dropSession"
      BY <1>1, <3>1 DEF RequestOf
    <3>3. Way(n) BY <1>1, <2>1, <2>3, <3>2 DEF Way, HandsOut, TokenOps, Loops
    <3>4. Loops(q) BY <2>3 DEF Loops
    <3> HIDE DEF q
    <3> QED BY <1>4, <2>1, <2>3, <3>1, <3>2, <3>3, <3>4
  <2> QED BY <1>6, <2>2, <2>3 DEF SetBlackFails
<1> QED BY <1>5, <1>6

LEMMA TickSited == ASSUME IInv, Sited, Tick PROVE Sited'
<1>1. KnownOK /\ now \in Nat /\ now' = now + 1 /\ UNCHANGED <<mode, exp, req>>
  BY DEF IInv, KnownOK, Tick
<1>2. \A t \in Tokens : place'[t] = IF exp[t] # Null /\ exp[t] > now + 1 THEN place[t] ELSE Null
  BY DEF Tick
<1>3. TokensSited'
  <2> SUFFICES ASSUME NEW t \in Tokens
               PROVE  /\ exp'[t] # Null /\ now' < exp'[t] => place'[t] \in Devices
                      /\ black'[t] # Null => exp'[t] # Null
    BY DEF TokensSited, Verified
  <2>1. exp[t] \in Nat \cup {Null} BY <1>1 DEF KnownOK
  <2>2. black'[t] # Null => black[t] # Null BY DEF Tick
  <2> QED BY <1>1, <1>2, <2>1, <2>2 DEF Sited, TokensSited, Verified
<1>4. KeysSited'
  <2>1. ASSUME NEW d \in Devices
        PROVE  /\ session'[d] # Null => place'[session'[d].value] \in {d, Null}
               /\ Listed'[d] # Null => place'[Listed'[d]] \in {d, Null}
    <3>1. session[d] # Null => session[d].value \in Tokens
      BY <1>1, SignedAreTokens DEF KnownOK, Entry
    <3>2. session'[d] \in {session[d], Null} BY DEF Tick, Left
    <3>3. Listed[d] # Null => Listed[d] \in Tokens
      BY <1>1, ListedIsIndex, SignedAreTokens DEF IndexOf
    <3>4. Listed'[d] \in {Listed[d], Null} BY DEF Tick, Left, Listed, Empty
    <3> QED BY <1>2, <3>1, <3>2, <3>3, <3>4 DEF Sited, KeysSited
  <2> QED BY <2>1 DEF KeysSited
<1>5. (\A r \in Reqs : Way(req[r]))'
  <2> SUFFICES ASSUME NEW r \in Reqs PROVE (Way(req[r]))' OBVIOUS
  <2>1. req'[r] = Idle BY <1>1 DEF Tick, Running, Sited, Way
  <2> QED BY <2>1, IdleWayPrimed DEF Way
<1> QED BY <1>3, <1>4, <1>5 DEF Sited

LEMMA InitSited == Init => Sited
<1> SUFFICES ASSUME Init PROVE Sited OBVIOUS
<1>1. \A r \in Reqs : req[r] = Idle BY DEF Init
<1> QED BY <1>1, IdleWay DEF Init, Sited, TokensSited, KeysSited, Verified, Listed, Empty

-----------------------------------------------------------------------------
(* Operations in flight stay apart.                                         *)
LEMMA SeparateStep ==
  ASSUME IInv, Sited, Separate, NEW r \in Reqs, Continues(r), mode' = mode,
         \A u \in Signed : place'[u] = place[u]
  PROVE  Separate'
<1>1. PICK n : Become(r, n) /\ GoesOn(r, n) BY DEF Continues
<1>2. req' = [req EXCEPT ![r] = n] /\ req \in [Reqs -> RequestOf(Signed)]
  BY <1>1 DEF Become, IInv, RequestsOK
<1>3. ASSUME NEW x \in Reqs, x # r, NEW p, p = req[x]
      PROVE  Scope(p)' = Scope(p)
  <2>1. p \in RequestOf(Signed) /\ Way(p) BY <1>2, <1>3 DEF Sited
  <2>2. p.op \in TokenOps => p.token \in Signed BY <2>1 DEF Way, RequestOf
  <2> QED BY <2>2, ScopeStays DEF TokenOps
<1>4. ASSUME NEW x \in Reqs, x # r, NEW p, p = req[x], Running(x), n.pc # "idle"
      PROVE  Apart(n, p)' /\ Apart(p, n)'
  <2>1. n # Idle BY <1>4 DEF Idle
  <2>2. Running(r) /\ n.op = req[r].op /\ Scope(n)' = Scope(req[r]) BY <1>1, <2>1 DEF GoesOn
  <2>3. Apart(req[r], p) BY <1>4, <2>2 DEF Separate
  <2>4. Scope(p)' = Scope(p) BY <1>3, <1>4
  <2> QED BY <2>2, <2>3, <2>4 DEF Apart
<1>5. SUFFICES ASSUME NEW x \in Reqs, NEW y \in Reqs, x # y, Running(x)', Running(y)'
               PROVE  Apart(req[x], req[y])'
  BY DEF Separate
<1>6. PICK p : p = req'[x] OBVIOUS
<1>7. PICK k : k = req'[y] OBVIOUS
<1>8. Apart(p, k)'
  <2>1. CASE x = r
    <3>1. p = n /\ k = req[y] /\ y # r BY <1>2, <1>5, <1>6, <1>7, <2>1
    <3> QED BY <1>4, <1>5, <1>6, <1>7, <3>1 DEF Running
  <2>2. CASE y = r
    <3>1. k = n /\ p = req[x] /\ x # r BY <1>2, <1>5, <1>6, <1>7, <2>2
    <3> QED BY <1>4, <1>5, <1>6, <1>7, <3>1 DEF Running
  <2>3. CASE x # r /\ y # r
    <3>1. p = req[x] /\ k = req[y] BY <1>2, <1>6, <1>7, <2>3
    <3>2. Apart(p, k) BY <1>5, <1>6, <1>7, <3>1 DEF Separate, Running
    <3>3. Scope(p)' = Scope(p) /\ Scope(k)' = Scope(k) BY <1>3, <2>3, <3>1
    <3> QED BY <3>2, <3>3 DEF Apart
  <2> QED BY <2>1, <2>2, <2>3
<1> QED BY <1>6, <1>7, <1>8 DEF Apart, Scope

LEMMA SeparateStart ==
  ASSUME IInv, Sited, Separate, Overlap # "any", NEW r \in Reqs, Starts(r)
  PROVE  Separate'
<1>1. PICK n : Go(r, n) /\ MayStart(n) BY StartWay
<1>2. Become(r, n) /\ UNCHANGED <<mode, place>> BY <1>1 DEF Go, store, past
<1>3. req' = [req EXCEPT ![r] = n] /\ req \in [Reqs -> RequestOf(Signed)]
  BY <1>2 DEF Become, IInv, RequestsOK
<1>4. ASSUME NEW q, NEW p PROVE (Apart(q, p)' <=> Apart(q, p)) /\ (Apart(p, q) <=> Apart(q, p))
  BY <1>2 DEF Apart, Scope
<1>5. \A x \in Reqs : Running(x) => Apart(req[x], n) BY <1>1 DEF MayStart, Apart
<1>6. SUFFICES ASSUME NEW x \in Reqs, NEW y \in Reqs, x # y, Running(x)', Running(y)'
               PROVE  Apart(req[x], req[y])'
  BY DEF Separate
<1>7. PICK p : p = req'[x] OBVIOUS
<1>8. PICK k : k = req'[y] OBVIOUS
<1>9. Apart(p, k)
  <2>1. CASE x = r
    <3>1. p = n /\ k = req[y] /\ Running(y) BY <1>3, <1>6, <1>7, <1>8, <2>1 DEF Running
    <3> QED BY <1>4, <1>5, <3>1
  <2>2. CASE y = r
    <3>1. k = n /\ p = req[x] /\ Running(x) BY <1>3, <1>6, <1>7, <1>8, <2>2 DEF Running
    <3> QED BY <1>5, <3>1
  <2>3. CASE x # r /\ y # r
    BY <1>3, <1>6, <1>7, <1>8, <2>3 DEF Separate, Running
  <2> QED BY <2>1, <2>2, <2>3
<1>10. Apart(p, k)' BY <1>4, <1>9
<1> QED BY <1>7, <1>8, <1>10 DEF Apart, Scope

-----------------------------------------------------------------------------
(* What a login hands out.                                                  *)
LEMMA NextDevicePc ==
  ASSUME NEW q \in RequestOf(Signed), NEW n \in NextDevice(q)
  PROVE  n.pc \in {"setBlack", "dropSession", "readSession", "dropList", "idle"}
<1>1. ASSUME NEW d \in Devices, n = Visit(q, d)
      PROVE  n.pc \in {"setBlack", "dropSession", "readSession"}
  <2>1. PICK m : m = [q EXCEPT !.at = d, !.token = q.todo[d], !.todo = [q.todo EXCEPT ![d] = Null]]
    OBVIOUS
  <2>2. DOMAIN m = DOMAIN q /\ "pc" \in DOMAIN m BY <2>1 DEF RequestOf
  <2> QED BY <1>1, <2>1, <2>2 DEF Visit, RequestOf
<1>2. CASE n = [q EXCEPT !.pc = "dropList", !.at = q.home, !.token = Null, !.todo = Empty]
  BY <1>2 DEF RequestOf
<1>3. CASE n = Idle BY <1>3 DEF Idle
<1> QED BY <1>1, <1>2, <1>3 DEF NextDevice

LEMMA FreshStep ==
  ASSUME IInv, Fresh, NEW r \in Reqs, NEW n, Become(r, n), black' = black, FreshOf(n)
  PROVE  Fresh'
<1>1. req' = [req EXCEPT ![r] = n] /\ req \in [Reqs -> RequestOf(Signed)]
  BY DEF Become, IInv, RequestsOK
<1>2. SUFFICES ASSUME NEW x \in Reqs PROVE FreshOf(req[x])' BY DEF Fresh
<1>3. PICK m : m = req'[x] OBVIOUS
<1>4. FreshOf(m)
  BY <1>1, <1>3 DEF Fresh
<1>5. FreshOf(m)' BY <1>4 DEF FreshOf
<1> QED BY <1>3, <1>5 DEF FreshOf

LEMMA FreshReads ==
  ASSUME IInv, Sited, Fresh, NEW r \in Reqs,
         \/ Starts(r) \/ ReadSession(r) \/ ReadAll(r) \/ ReadInfo(r) \/ ReadBlack(r)
         \/ LoginSigns(r) \/ ReadFamily(r) \/ CasFamily(r) \/ ReplayRead(r) \/ ReplayCas(r)
  PROVE  Fresh'
<1> DEFINE q == req[r]
<1>1. q \in RequestOf(Signed) /\ Shape(q) /\ Way(q) /\ FreshOf(q)
  BY DEF IInv, RequestsOK, Sited, Fresh
<1>2. ASSUME NEW n, Become(r, n), black' = black, n.pc \notin HandsOut \/ n.op # "login"
      PROVE  Fresh'
  BY <1>2, FreshStep DEF FreshOf
<1>3. ASSUME Go(r, Idle) PROVE Fresh'
  BY <1>2, <1>3 DEF Idle, HandsOut, Go, store
<1>4. CASE Starts(r)
  <2>1. PICK n : Go(r, n) /\ Enters(n) BY <1>4, StartWay
  <2> QED BY <1>2, <2>1 DEF Enters, HandsOut, Go, store
<1>5. ASSUME NEW m \in RequestOf(Signed), NEW n \in NextDevice(m), Become(r, n), black' = black
      PROVE  Fresh'
  <2>1. n.pc \notin HandsOut BY <1>5, NextDevicePc DEF HandsOut
  <2> QED BY <1>2, <1>5, <2>1
<1>6. CASE ReadSession(r)
  <2>1. PICK n : Go(r, n) /\ \/ n = LoginBranch(q, Get(session[q.at]))
                             \/ n = [q EXCEPT !.pc = "setBlack", !.token = Get(session[q.at])]
                             \/ n = Idle \/ n \in NextDevice(q)
    BY <1>6 DEF ReadSession
  <2>2. Become(r, n) /\ black' = black BY <2>1 DEF Go, store
  <2>3. CASE n = LoginBranch(q, Get(session[q.at]))
    <3>1. n.pc \in {"readAll", "setBlack", "readInfo", "sign"}
      BY <1>1, <2>3 DEF LoginBranch, RequestOf
    <3> QED BY <1>2, <2>2, <3>1 DEF HandsOut
  <2>4. CASE n = [q EXCEPT !.pc = "setBlack", !.token = Get(session[q.at])]
    <3>1. n.pc = "setBlack" BY <1>1, <2>4 DEF RequestOf
    <3> QED BY <1>2, <2>2, <3>1 DEF HandsOut
  <2> QED BY <1>1, <1>3, <1>5, <2>1, <2>2, <2>3, <2>4
<1>7. CASE ReadAll(r)
  <2>1. [q EXCEPT !.todo = Listed] \in RequestOf(Signed)
    BY <1>1, ListedIsIndex DEF RequestOf, IndexOf, IInv
  <2>2. CASE Go(r, [q EXCEPT !.pc = "sign"])
    <3>1. [q EXCEPT !.pc = "sign"].pc = "sign" BY <1>1 DEF RequestOf
    <3> QED BY <1>2, <2>2, <3>1 DEF HandsOut, Go, store
  <2>3. ASSUME NEW n \in NextDevice([q EXCEPT !.todo = Listed]), Go(r, n) PROVE Fresh'
    <3>1. Become(r, n) /\ black' = black BY <2>3 DEF Go, store
    <3> QED BY <1>5, <2>1, <2>3, <3>1
  <2> QED BY <1>3, <1>7, <2>2, <2>3 DEF ReadAll
<1>8. CASE ReadInfo(r)
  <2>1. CASE Go(r, Idle) BY <1>3, <2>1
  <2>2. ASSUME NEW n, Go(r, n), n.pc \in {"readBlack", "sign", "touch", "dropSession"} PROVE Fresh'
    BY <1>2, <2>2 DEF HandsOut, Go, store
  <2>3. CASE \E t : Go(r, [q EXCEPT !.pc = "readBlack", !.token = t])
    <3>1. PICK t : Go(r, [q EXCEPT !.pc = "readBlack", !.token = t]) BY <2>3
    <3>2. [q EXCEPT !.pc = "readBlack", !.token = t].pc = "readBlack" BY <1>1 DEF RequestOf
    <3> QED BY <2>2, <3>1, <3>2
  <2>4. CASE Go(r, [q EXCEPT !.pc = "sign"])
    <3>1. [q EXCEPT !.pc = "sign"].pc = "sign" BY <1>1 DEF RequestOf
    <3> QED BY <2>2, <2>4, <3>1
  <2>5. ASSUME NEW p \in {"touch", "dropSession"}, NEW d, Go(r, [q EXCEPT !.pc = p, !.at = d])
        PROVE  Fresh'
    <3>1. [q EXCEPT !.pc = p, !.at = d].pc = p BY <1>1 DEF RequestOf
    <3> QED BY <2>2, <2>5, <3>1
  <2> QED BY <1>8, <2>1, <2>3, <2>4, <2>5 DEF ReadInfo
<1>9. CASE ReadBlack(r)
  <2>1. CASE Go(r, Idle) BY <1>3, <2>1
  <2>2. ASSUME NEW n, Go(r, n), n.pc \in {"readFamily", "readInfo", "sign"} PROVE Fresh'
    BY <1>2, <2>2 DEF HandsOut, Go, store
  <2>3. CASE black[q.token] = Null /\ Go(r, [q EXCEPT !.pc = "writeSession", !.next = q.token])
    <3>1. PICK n : n = [q EXCEPT !.pc = "writeSession", !.next = q.token] OBVIOUS
    <3>2. n.next = q.token BY <1>1, <3>1 DEF RequestOf
    <3>3. FreshOf(n) BY <2>3, <3>2 DEF FreshOf
    <3> QED BY <2>3, <3>1, <3>3, FreshStep DEF Go, store
  <2>4. /\ [q EXCEPT !.pc = "sign", !.token = Null].pc = "sign"
        /\ [q EXCEPT !.pc = "readFamily"].pc = "readFamily"
        /\ [q EXCEPT !.pc = "readInfo"].pc = "readInfo"
    BY <1>1 DEF RequestOf
  <2>5. \/ \E n : Go(r, n) /\ (n = Idle \/ n.pc \in {"readFamily", "readInfo", "sign"})
        \/ black[q.token] = Null /\ Go(r, [q EXCEPT !.pc = "writeSession", !.next = q.token])
    BY <1>9, <2>4 DEF ReadBlack
  <2> QED BY <2>1, <2>2, <2>3, <2>5
<1>10. CASE LoginSigns(r)
  <2>1. PICK t \in Tokens : exp[t] = Null /\ Become(r, [q EXCEPT !.pc = "writeSession", !.next = t])
    BY <1>10 DEF LoginSigns, Sign
  <2>2. PICK n : n = [q EXCEPT !.pc = "writeSession", !.next = t] OBVIOUS
  <2>3. n.next = t BY <1>1, <2>2 DEF RequestOf
  <2>4. FreshOf(n) BY <2>1, <2>3 DEF FreshOf, Sited, TokensSited
  <2> QED BY <1>10, <2>1, <2>2, <2>4, FreshStep DEF LoginSigns, store
<1>11. CASE ReadFamily(r) \/ CasFamily(r) \/ ReplayRead(r) \/ ReplayCas(r)
  <2>1. q.op = "refreshToken" /\ black' = black
    BY <1>1, <1>11 DEF ReadFamily, CasFamily, ReplayRead, ReplayCas, Shape, Way, Go, store
  <2>2. PICK n : Become(r, n) /\ (n = Idle \/ n.op = q.op)
    BY <1>11, ReadFamilySited, FamilySited, ReplayReadSited DEF Continues, GoesOn
  <2> QED BY <1>2, <2>1, <2>2 DEF Idle, HandsOut
<1> QED BY <1>4, <1>6, <1>7, <1>8, <1>9, <1>10, <1>11

LEMMA FreshWrites ==
  ASSUME IInv, Sited, Fresh, NEW r \in Reqs,
         \/ WriteFamily(r) \/ DropSession(r) \/ RemoveList(r) \/ DropList(r)
         \/ WriteSession(r) \/ AddList(r) \/ Touch(r) \/ SetBlackFails(r) \/ Abort(r)
  PROVE  Fresh'
<1> DEFINE q == req[r]
<1>1. q \in RequestOf(Signed) /\ FreshOf(q) /\ black' = black
  BY DEF IInv, RequestsOK, Fresh, WriteFamily, DropSession, RemoveList, DropList,
         WriteSession, AddList, Touch, SetBlackFails, Abort, store
<1>2. ASSUME NEW n, Become(r, n), n.pc \notin HandsOut PROVE Fresh'
  BY <1>1, <1>2, FreshStep DEF FreshOf
<1>3. CASE Become(r, Idle) BY <1>2, <1>3 DEF Idle, HandsOut
<1>4. CASE \E n \in NextDevice(q) : Become(r, n)
  BY <1>1, <1>2, <1>4, NextDevicePc DEF HandsOut
<1>5. ASSUME NEW p \in {"setBlack", "dropSession", "sign", "removeList"},
             \/ Become(r, [q EXCEPT !.pc = p])
             \/ Become(r, [q EXCEPT !.pc = p, !.token = Null])
      PROVE  Fresh'
  <2>1. [q EXCEPT !.pc = p].pc = p /\ [q EXCEPT !.pc = p, !.token = Null].pc = p
    BY <1>1 DEF RequestOf
  <2> QED BY <1>2, <1>5, <2>1 DEF HandsOut
<1>6. ASSUME NEW p \in {"addList", "writeFamily"}, q.pc \in HandsOut, Become(r, [q EXCEPT !.pc = p])
      PROVE  Fresh'
  <2>1. PICK n : n = [q EXCEPT !.pc = p] OBVIOUS
  <2>2. n.op = q.op /\ n.next = q.next BY <1>1, <2>1 DEF RequestOf
  <2>3. FreshOf(n) BY <1>1, <1>6, <2>2 DEF FreshOf
  <2> QED BY <1>1, <1>6, <2>1, <2>3, FreshStep
<1>7. \/ Become(r, Idle)
      \/ \E n \in NextDevice(q) : Become(r, n)
      \/ \E p \in {"setBlack", "dropSession", "sign", "removeList"} :
           Become(r, [q EXCEPT !.pc = p]) \/ Become(r, [q EXCEPT !.pc = p, !.token = Null])
      \/ \E p \in {"addList", "writeFamily"} : q.pc \in HandsOut /\ Become(r, [q EXCEPT !.pc = p])
  <2>1. CASE WriteFamily(r) BY <2>1 DEF WriteFamily
  <2>2. CASE DropSession(r) BY <2>2 DEF DropSession
  <2>3. CASE RemoveList(r) BY <2>3 DEF RemoveList
  <2>4. CASE DropList(r) BY <2>4 DEF DropList
  <2>5. CASE WriteSession(r) \/ AddList(r) BY <2>5 DEF WriteSession, AddList, HandsOut
  <2>6. CASE Touch(r) \/ Abort(r) BY <2>6 DEF Touch, Abort
  <2>7. CASE SetBlackFails(r) BY <2>7 DEF SetBlackFails
  <2> QED BY <2>1, <2>2, <2>3, <2>4, <2>5, <2>6, <2>7
<1> QED BY <1>3, <1>4, <1>5, <1>6, <1>7

(* The site of a token that a request is about to blacklist or to hand out  *)
(* is in the request's scope.                                               *)
LEMMA HandedOutInScope ==
  ASSUME NEW q, Way(q), Shape(q), q.op = "login", q.pc \in HandsOut
  PROVE  place[q.next] \in Scope(q)
<1>1. place[q.next] = q.at /\ q.at \in Devices BY DEF Way, Shape
<1> QED BY <1>1 DEF Scope, AccountOps, TokenOps

LEMMA BlackenedInScope ==
  ASSUME Sited, NEW q, Way(q), q.token \in Tokens, q.pc = "setBlack"
  PROVE  place[q.token] \in Scope(q) \cup {Null}
<1>1. CASE q.op \in TokenOps
  BY <1>1 DEF Scope, TokenOps, AccountOps
<1>2. CASE q.op \notin TokenOps
  <2>1. q.at \in Devices /\ place[q.token] \in {q.at, Null}
    BY <1>2 DEF Way, TokenOps
  <2> QED BY <1>2, <2>1 DEF Scope
<1> QED BY <1>1, <1>2

LEMMA FreshSetBlack ==
  ASSUME IInv, Sited, Separate, Fresh, NEW r \in Reqs, SetBlack(r)
  PROVE  Fresh'
<1> DEFINE q == req[r]
<1>1. q \in RequestOf(Signed) /\ Shape(q) /\ Way(q) /\ q.pc = "setBlack"
  BY DEF IInv, RequestsOK, Sited, SetBlack
<1>2. q.token \in Tokens
  BY <1>1, SignedAreTokens DEF IInv, Shape, RequestOf
<1>3. PICK n : n = [q EXCEPT !.pc = AfterBlack(q)] OBVIOUS
<1>4. n.pc = AfterBlack(q) /\ n.op = q.op BY <1>1, <1>3 DEF RequestOf
<1>5. FreshOf(n)' BY <1>4 DEF FreshOf, AfterBlack, HandsOut
<1>6. req' = [req EXCEPT ![r] = n] /\ req \in [Reqs -> RequestOf(Signed)]
      /\ \E e : black' = [black EXCEPT ![q.token] = e]
  BY <1>3 DEF SetBlack, Become, IInv, RequestsOK
<1>7. ASSUME NEW x \in Reqs, x # r, NEW p, p = req[x] PROVE FreshOf(p)'
  <2>1. SUFFICES ASSUME p.op = "login", p.pc \in HandsOut PROVE black'[p.next] = Null
    BY DEF FreshOf
  <2>2. Way(p) /\ Shape(p) /\ p.next \in Tokens /\ black[p.next] = Null
    <3>1. Way(p) /\ Shape(p) /\ p \in RequestOf(Signed) BY <1>7 DEF Sited, IInv, RequestsOK
    <3>2. p.next # Null BY <2>1, <3>1 DEF Way
    <3> QED BY <1>7, <2>1, <3>1, <3>2, SignedAreTokens DEF Fresh, FreshOf, IInv, RequestOf
  <2>3. Scope(q) \cap Scope(p) = {}
    <3>1. Running(r) /\ Running(x) BY <1>1, <1>7, <2>1 DEF Running, HandsOut
    <3> QED BY <1>7, <2>1, <3>1 DEF Separate, Apart
  <2>4. place[p.next] \in Scope(p) /\ place[p.next] \in Devices
    BY <2>1, <2>2, HandedOutInScope DEF Way, Shape
  <2>5. place[q.token] \in Scope(q) \cup {Null} BY <1>1, <1>2, BlackenedInScope
  <2>6. p.next # q.token BY <2>3, <2>4, <2>5, JwtAssumption
  <2> QED BY <1>6, <2>2, <2>6 DEF IInv, KnownOK
<1>8. SUFFICES ASSUME NEW x \in Reqs PROVE FreshOf(req[x])' BY DEF Fresh
<1>9. PICK m : m = req'[x] OBVIOUS
<1>10. FreshOf(m)' BY <1>5, <1>6, <1>7, <1>9
<1> QED BY <1>9, <1>10 DEF FreshOf

LEMMA FreshTick == ASSUME IInv, Sited, Tick PROVE Fresh'
<1>1. ASSUME NEW r \in Reqs PROVE req'[r] = Idle
  BY DEF Tick, Running, Sited, Way
<1>2. Idle.op # "login" BY JwtAssumption DEF Idle, AllOps
<1> QED BY <1>1, <1>2 DEF Fresh, FreshOf

-----------------------------------------------------------------------------
LEMMA InitLInv == Init => LInv
<1> SUFFICES ASSUME Init PROVE LInv OBVIOUS
<1>1. \A r \in Reqs : req[r] = Idle BY DEF Init
<1>2. Idle.op # "login" /\ Idle.pc = "idle" BY JwtAssumption DEF Idle, AllOps
<1> QED BY <1>1, <1>2, InitIInv, InitSited DEF LInv, Separate, Running, Fresh, FreshOf

(* Each operation, in one place. *)
LEMMA StepSited ==
  ASSUME IInv, Sited, NEW r \in Reqs, Step(r)
  PROVE  /\ Sited' /\ Continues(r) /\ mode' = mode
         /\ \A u \in Signed : place'[u] = place[u]
<1>1. CASE \/ ReadSession(r) \/ ReadAll(r) \/ ReadInfo(r) \/ ReadBlack(r) \/ ReplayRead(r)
  <2>1. mode' = mode /\ place' = place
    BY <1>1 DEF ReadSession, ReadAll, ReadInfo, ReadBlack, ReplayRead, Go, past
  <2> QED BY <1>1, <2>1, ReadSessionSited, ReadAllSited, ReadInfoSited, ReadBlackSited,
             ReplayReadSited
<1>2. CASE LoginSigns(r) \/ ReadFamily(r)
  <2>1. mode' = mode BY <1>2 DEF LoginSigns, ReadFamily, Go
  <2> QED BY <1>2, <2>1, LoginSignsSited, ReadFamilySited
<1>3. CASE CasFamily(r) \/ ReplayCas(r) \/ WriteFamily(r)
  <2>1. mode' = mode /\ place' = place
    BY <1>3 DEF CasFamily, ReplayCas, WriteFamily, Go, past
  <2> QED BY <1>3, <2>1, FamilySited
<1>4. CASE SetBlack(r) \/ SetBlackFails(r) \/ DropSession(r) \/ Abort(r)
  <2>1. mode' = mode /\ place' = place
    BY <1>4 DEF SetBlack, SetBlackFails, DropSession, Abort, past
  <2> QED BY <1>4, <2>1, SetBlackSited, DropSessionSited, FailingSited
<1>5. CASE RemoveList(r) \/ DropList(r) \/ AddList(r) \/ WriteSession(r) \/ Touch(r)
  <2>1. mode' = mode /\ place' = place
    BY <1>5 DEF RemoveList, DropList, AddList, WriteSession, Touch, past
  <2> QED BY <1>5, <2>1, ListSited, SessionSited
<1> QED BY <1>1, <1>2, <1>3, <1>4, <1>5 DEF Step

LEMMA NextLInv == Overlap # "any" /\ LInv /\ [Next]_vars => LInv'
<1> SUFFICES ASSUME Overlap # "any", LInv, [Next]_vars PROVE LInv' OBVIOUS
<1> USE DEF LInv
<1>1. IInv' BY NextIInv
<1>2. ASSUME NEW r \in Reqs, Step(r) PROVE Sited' /\ Separate' /\ Fresh'
  <2>1. Sited' /\ Separate' BY <1>2, StepSited, SeparateStep
  <2>2. Fresh' BY <1>2, FreshReads, FreshWrites, FreshSetBlack DEF Step
  <2> QED BY <2>1, <2>2
<1>3. ASSUME NEW r \in Reqs, Starts(r) PROVE Sited' /\ Separate' /\ Fresh'
  BY <1>3, StartSited, SeparateStart, FreshReads
<1>4. CASE Tick
  <2>1. \A r \in Reqs : ~Running(r)' BY <1>4 DEF Tick, Running
  <2> QED BY <1>1, <1>4, <2>1, TickSited, FreshTick DEF Separate
<1>5. CASE UNCHANGED vars
  <2>1. Sited'
    BY <1>5 DEF Sited, TokensSited, KeysSited, Way, Loops, Verified, Listed, vars, store, past
  <2>2. Separate' BY <1>5 DEF Separate, Running, Apart, Scope, vars, past
  <2>3. Fresh' BY <1>5 DEF Fresh, FreshOf, vars, store
  <2> QED BY <1>1, <2>1, <2>2, <2>3
<1> QED BY <1>1, <1>2, <1>3, <1>4, <1>5 DEF Next, Starts

-----------------------------------------------------------------------------
(* What a login hands out is accepted, unless its time ran out on the way:  *)
(* no operation on another device can have blacklisted it, and a sharing    *)
(* login has asked.                                                         *)
THEOREM LoginsHandOutAccepted ==
  ASSUME Overlap # "any" PROVE Spec => LoginHandsOutAccepted
<1> DEFINE A == \A r \in Reqs :
                  req[r].op = "login" /\ req[r].next \in handed' /\ req'[r].pc = "idle"
                    /\ req[r].pc = "writeFamily"
                  => Accepts(req[r].next) \/ ~Verified(req[r].next)
<1>1. LInv => A
  BY DEF LInv, Fresh, FreshOf, HandsOut, Accepts
<1>2. LInv /\ [Next]_vars => [A]_vars BY <1>1
<1> QED BY <1>2, InitLInv, NextLInv, PTL DEF Spec, LoginHandsOutAccepted

-----------------------------------------------------------------------------
(* One accepted token.  Where the timeouts let every blacklist entry and    *)
(* every key outlast the token it is for, what the modes that kick out keep *)
(* is this: the accepted tokens clients hold are those that the keys hold.  *)
Outlasting == RefreshTimeouts \cup RenewTimeouts \cup {Timeout}

Lasting == \A own \in Timeouts \cup RefreshTimeouts, ttl \in Outlasting : own <= ttl

Lasts ==
  \A t \in Tokens :
    /\ exp[t] # Null => \A ttl \in Outlasting : exp[t] <= now + ttl
    /\ black[t] # Null /\ Verified(t) => exp[t] <= black[t]

Kicks == mode = "replace" \/ (mode = "single" /\ ~unwritten)

(* No two refreshes have retired the same token there. *)
Clear(d)  == IF mode = "single" THEN forked = {} ELSE d \notin forked
Domain(d) == IF mode = "single" THEN Devices ELSE {d}

Good        == {t \in handed : Accepts(t) /\ Clear(place[t])}
Gone(D)     == \A t \in Good : place[t] \notin D
Holds(d, t) == session[d] # Null /\ session[d].value = t /\ exp[t] <= session[d].end
Carries(d, t) ==
  Listed[d] = t /\ (mode = "single" => list # Null /\ exp[t] <= list.end)

Kept ==
  \A t \in Good :
    /\ Holds(place[t], t)
    /\ Listed[place[t]] \in {t, Null}
    /\ mode = "single" => Carries(place[t], t) /\ Good = {t}

(* What a request knows of the accepted tokens at each of its awaits. *)
Ends(q) ==
  /\ q.pc \in {"dropSession", "removeList"} => Gone({q.at})
  /\ q.op = "endToken" /\ q.pc # "setBlack" => black[q.token] # Null
  /\ q.op \notin TokenOps /\ q.pc = "setBlack" => \A t \in Good : place[t] = q.at => t = q.token
  /\ \A t \in Good : q.todo[place[t]] \in {t, Null}
  /\ mode = "single" /\ q.op \in {"login", "logoutByLoginId"}
        /\ q.pc \in {"setBlack", "dropSession"} =>
       \A t \in Good : q.todo[place[t]] = t \/ (q.pc = "setBlack" /\ q.token = t)
  /\ mode = "single" /\ q.pc = "dropList" => Good = {}
  /\ q.op = "renewTimeout" => q.pc \in {"readBlack", "readInfo", "touch"}
  /\ q.op = "logoutByLoginId" => q.pc # "readSession"

Writes(q) == q.op = "refreshToken" /\ q.pc \in {"writeSession", "addList"}
Placed(q) == q.pc = "addList" \/ (q.op = "login" /\ q.pc = "writeFamily")

Brings(q) ==
  /\ q.op = "login" /\ q.pc \in HandsOut \cup {"sign"} => Gone(Domain(q.at))
  /\ Writes(q) => Gone(Domain(q.at))
  /\ q.next # Null => q.next \notin handed /\ exp[q.next] <= now + q.ttl
  /\ Placed(q) /\ Clear(q.at) => Holds(q.at, q.next)
  /\ q.op = "login" /\ q.pc = "writeFamily" => Carries(q.at, q.next)

Doing(q) == Ends(q) /\ Brings(q)

Paired(q, p) ==
  /\ q.next # Null => q.next # p.next
  /\ Writes(q) /\ Writes(p) /\ Domain(q.at) = Domain(p.at) => ~Clear(q.at)

Pairs == \A x, y \in Reqs : x # y => Paired(req[x], req[y])

Kicked == Kept /\ Pairs /\ \A r \in Reqs : Doing(req[r])

KInv == Lasts /\ (Kicks => Kicked)

LEMMA LastsStep ==
  ASSUME IInv, Sited, Lasts, UNCHANGED <<now, exp, black>> PROVE Lasts'
BY DEF Lasts, Verified

LEMMA OutlastingIs == Outlasting \subseteq Nat
BY JwtAssumption DEF Outlasting

LEMMA LastsSign ==
  ASSUME Lasting, IInv, Sited, Lasts, NEW t \in Tokens, NEW d, NEW own \in Timeouts \cup RefreshTimeouts,
         Sign(t, d, own), UNCHANGED <<now, black>>
  PROVE  Lasts'
<1>1. exp[t] = Null /\ exp' = [exp EXCEPT ![t] = now + own] BY DEF Sign
<1>2. black[t] = Null BY <1>1 DEF Sited, TokensSited
<1>3. now \in Nat /\ own \in Nat /\ exp \in [Tokens -> Nat \cup {Null}]
  BY JwtAssumption DEF IInv, KnownOK
<1>4. SUFFICES ASSUME NEW u \in Tokens
               PROVE  /\ exp'[u] # Null => \A ttl \in Outlasting : exp'[u] <= now + ttl
                      /\ black[u] # Null /\ Verified(u)' => exp'[u] <= black[u]
  BY DEF Lasts
<1>5. CASE u = t
  <2>1. exp'[u] = now + own BY <1>1, <1>3, <1>5
  <2>2. \A ttl \in Outlasting : own <= ttl /\ ttl \in Nat BY OutlastingIs DEF Lasting
  <2> QED BY <1>2, <1>3, <1>5, <2>1, <2>2
<1>6. CASE u # t
  <2>1. exp'[u] = exp[u] BY <1>1, <1>3, <1>6
  <2> QED BY <2>1 DEF Lasts, Verified
<1> QED BY <1>5, <1>6

LEMMA LastsSetBlack ==
  ASSUME Lasting, IInv, Sited, Lasts, NEW r \in Reqs, SetBlack(r) PROVE Lasts'
<1> DEFINE q == req[r]
           ttl == IF q.op = "refreshToken" THEN q.ttl ELSE Timeout
           e == now + ttl
<1>1. /\ q \in RequestOf(Signed) /\ Shape(q) /\ Way(q) /\ q.pc = "setBlack"
      /\ black' = [black EXCEPT ![q.token] = e] /\ UNCHANGED <<now, exp>>
  BY DEF IInv, RequestsOK, Sited, SetBlack
<1>2. now \in Nat /\ exp \in [Tokens -> Nat \cup {Null}] /\ black \in [Tokens -> Nat \cup {Null}]
  BY DEF IInv, KnownOK
<1>3. ttl \in Outlasting
  <2>1. q.op = "refreshToken" => q.ttl \in RefreshTimeouts BY <1>1 DEF Shape
  <2> HIDE DEF q
  <2> QED BY <2>1 DEF Outlasting
<1> HIDE DEF q, ttl
<1>4. SUFFICES ASSUME NEW u \in Tokens
               PROVE  black'[u] # Null /\ Verified(u) => exp[u] <= black'[u]
  BY <1>1 DEF Lasts, Verified
<1>5. CASE u = q.token
  <2>1. black'[u] = e BY <1>1, <1>2, <1>5
  <2>2. Verified(u) => exp[u] \in Nat /\ exp[u] <= e
    BY <1>2, <1>3 DEF Lasts, Verified
  <2> QED BY <1>2, <1>3, <2>1, <2>2
<1>6. CASE u # q.token
  BY <1>1, <1>2, <1>6 DEF Lasts
<1> QED BY <1>5, <1>6

LEMMA LastsTick == ASSUME IInv, Sited, Lasts, Tick PROVE Lasts'
<1>1. now' = now + 1 /\ exp' = exp
      /\ black' = [t \in Tokens |-> IF black[t] = now + 1 THEN Null ELSE black[t]]
  BY DEF Tick
<1>2. now \in Nat /\ exp \in [Tokens -> Nat \cup {Null}]
      /\ black \in [Tokens -> Nat \cup {Null}]
  BY JwtAssumption DEF IInv, KnownOK
<1>3. SUFFICES ASSUME NEW u \in Tokens
               PROVE  /\ exp[u] # Null => \A ttl \in Outlasting : exp[u] <= now + 1 + ttl
                      /\ black'[u] # Null /\ Verified(u)' => exp[u] <= black'[u]
  BY <1>1 DEF Lasts
<1>4. exp[u] # Null => exp[u] \in Nat /\ \A ttl \in Outlasting : exp[u] <= now + ttl
  BY <1>2 DEF Lasts
<1>5. Verified(u)' => Verified(u) BY <1>1, <1>2 DEF Verified
<1>6. black'[u] # Null => black'[u] = black[u] BY <1>1
<1>7. exp[u] # Null => \A ttl \in Outlasting : exp[u] <= now + 1 + ttl BY <1>2, <1>4, OutlastingIs
<1> QED BY <1>5, <1>6, <1>7 DEF Lasts

LEMMA LastsNext ==
  ASSUME Lasting, IInv, Sited, Lasts, [Next]_vars PROVE Lasts'
<1>1. ASSUME NEW r \in Reqs, Starts(r) PROVE Lasts'
  <2>1. UNCHANGED <<now, exp, black>> BY <1>1, StartWay DEF Go, store
  <2> QED BY <2>1, LastsStep
<1>2. ASSUME NEW r \in Reqs, LoginSigns(r) PROVE Lasts'
  <2>1. PICK t \in Tokens : Sign(t, req[r].at, req[r].ttl) BY <1>2 DEF LoginSigns
  <2>2. UNCHANGED <<now, black>> BY <1>2 DEF LoginSigns, store
  <2>3. Way(req[r]) /\ req[r].pc = "sign" BY <1>2 DEF Sited, LoginSigns
  <2>4. req[r].ttl \in Timeouts BY <2>3 DEF Way
  <2> QED BY <2>1, <2>2, <2>4, LastsSign
<1>3. ASSUME NEW r \in Reqs, ReadFamily(r) PROVE Lasts'
  <2>1. CASE Go(r, Idle)
    <3>1. UNCHANGED <<now, exp, black>> BY <2>1 DEF Go, store
    <3> QED BY <3>1, LastsStep
  <2>2. CASE /\ \E t \in Tokens, ttl \in RefreshTimeouts : Sign(t, place[req[r].token], ttl)
             /\ UNCHANGED <<now, store>>
    <3>1. PICK t \in Tokens, ttl \in RefreshTimeouts : Sign(t, place[req[r].token], ttl) BY <2>2
    <3>2. UNCHANGED <<now, black>> BY <2>2 DEF store
    <3> QED BY <3>1, <3>2, LastsSign
  <2> QED BY <1>3, <2>1, <2>2 DEF ReadFamily
<1>4. ASSUME NEW r \in Reqs, SetBlack(r) PROVE Lasts'
  BY <1>4, LastsSetBlack
<1>5. ASSUME NEW r \in Reqs,
             \/ ReadSession(r) \/ ReadAll(r) \/ ReadInfo(r) \/ ReadBlack(r)
             \/ CasFamily(r) \/ ReplayRead(r) \/ ReplayCas(r) \/ WriteFamily(r)
             \/ SetBlackFails(r) \/ DropSession(r) \/ RemoveList(r) \/ DropList(r)
             \/ WriteSession(r) \/ AddList(r) \/ Touch(r) \/ Abort(r)
      PROVE  Lasts'
  <2>1. UNCHANGED <<now, exp, black>>
    BY <1>5 DEF ReadSession, ReadAll, ReadInfo, ReadBlack, CasFamily, ReplayRead, ReplayCas,
       WriteFamily, SetBlackFails, DropSession, RemoveList, DropList, WriteSession, AddList,
       Touch, Abort, Go, store
  <2> QED BY <2>1, LastsStep
<1>6. CASE UNCHANGED vars
  <2>1. UNCHANGED <<now, exp, black>> BY <1>6 DEF vars, store
  <2> QED BY <2>1, LastsStep
<1>7. ASSUME NEW r \in Reqs, Step(r) PROVE Lasts'
  BY <1>2, <1>3, <1>4, <1>5, <1>7 DEF Step
<1> QED BY <1>1, <1>6, <1>7, LastsTick DEF Next, Starts

-----------------------------------------------------------------------------
(* Every step but a tick leaves these as they are: no token is accepted     *)
(* again, none moves, and a fork stays.                                     *)
Calm ==
  /\ mode' = mode /\ now' = now /\ forked \subseteq forked'
  /\ \A t \in Tokens : black[t] # Null => black'[t] # Null
  /\ \A u \in Signed : place'[u] = place[u] /\ exp'[u] = exp[u]

LEMMA ClearStays == ASSUME Calm, NEW d PROVE Clear(d)' => Clear(d)
BY DEF Calm, Clear

LEMMA GoodStays ==
  ASSUME IInv, Calm
  PROVE  \A t \in Good' : t \in handed => t \in Good /\ place'[t] = place[t] /\ exp'[t] = exp[t]
<1>1. SUFFICES ASSUME NEW t, t \in Good', t \in handed
               PROVE  t \in Good /\ place'[t] = place[t] /\ exp'[t] = exp[t]
  OBVIOUS
<1>2. t \in Signed /\ t \in Tokens BY <1>1, SignedAreTokens DEF IInv, KnownOK
<1>3. place'[t] = place[t] /\ exp'[t] = exp[t] BY <1>2 DEF Calm
<1>4. Accepts(t)' /\ Clear(place[t])' BY <1>1 DEF Good
<1>5. Accepts(t) BY <1>2, <1>3, <1>4 DEF Calm, Accepts, Verified
<1>6. Clear(place[t])
  BY <1>3, <1>4 DEF Calm, Clear
<1> QED BY <1>1, <1>3, <1>5, <1>6 DEF Good

LEMMA GoodAreSited ==
  ASSUME IInv, Sited, NEW t \in Good
  PROVE  t \in Tokens /\ t \in Signed /\ t # Null /\ Verified(t) /\ black[t] = Null
         /\ place[t] \in Devices /\ exp[t] \in Nat /\ Clear(place[t])
BY SignedAreTokens, JwtAssumption DEF Good, IInv, KnownOK, Sited, TokensSited, Accepts, Signed, Verified

LEMMA IdleDoing == ASSUME IInv, Sited PROVE Doing(Idle)
<1>1. /\ Idle.op = Null /\ Idle.pc = "idle" /\ Idle.next = Null
      /\ \A d \in Devices : Idle.todo[d] = Null
  BY DEF Idle, Empty
<1>2. Null \notin AllOps BY JwtAssumption
<1>3. Ends(Idle) BY <1>1, <1>2, GoodAreSited DEF Ends, AllOps, TokenOps, AccountOps
<1>4. Brings(Idle) BY <1>1, <1>2 DEF Brings, Writes, Placed, HandsOut
<1> QED BY <1>3, <1>4 DEF Doing

(* A token handed out for another device is no concern of the request. *)
Away(q, t) ==
  IF q.op = "refreshToken" THEN Writes(q) => place[t] \notin Domain(q.at)
  ELSE place[t] \notin Scope(q)

LEMMA ScopeOfLoop == ASSUME NEW q, Loops(q) PROVE Scope(q) = Devices
BY DEF Loops, Scope

LEMMA AtInScope ==
  ASSUME NEW q, Way(q), q.at \in Devices, q.op # "renewTimeout",
         q.op = "endToken" => q.pc \in {"dropSession", "removeList"},
         q.op = "refreshToken" => q.pc \in Renewing
  PROVE  q.at \in Scope(q)
BY DEF Way, Scope, TokenOps

LEMMA DoingStays ==
  ASSUME IInv, Sited, Kicks, Calm,
         NEW p, p \in RequestOf(Signed), Way(p), Shape(p), Doing(p),
         \A t \in Good' : t \in Good \/ (place'[t] \in Devices /\ Away(p, t)'),
         p.next # Null => p.next \notin handed',
         Placed(p) /\ Clear(p.at)' /\ Holds(p.at, p.next) => Holds(p.at, p.next)',
         p.op = "login" /\ p.pc = "writeFamily" /\ Carries(p.at, p.next) => Carries(p.at, p.next)'
  PROVE  Doing(p)'
<1>1. /\ mode' = mode /\ now' = now
      /\ \A u \in Signed : place'[u] = place[u] /\ exp'[u] = exp[u]
      /\ \A t \in Tokens : black[t] # Null => black'[t] # Null
  BY DEF Calm
<1>2. ASSUME NEW t, t \in Good', t \in Good PROVE place'[t] = place[t] /\ place[t] \in Devices
  BY <1>1, <1>2, GoodAreSited
<1>3. ASSUME NEW t, t \in Good', t \notin Good
      PROVE  /\ place'[t] \in Devices /\ ~Loops(p)
             /\ p.op # "refreshToken" => place'[t] \notin Scope(p)
             /\ p.op = "refreshToken" /\ Writes(p) => place'[t] \notin Domain(p.at)
  <2>1. place'[t] \in Devices /\ Away(p, t)' BY <1>3
  <2>2. Scope(p)' = Scope(p)
    <3>1. p.op \in TokenOps => p.token \in Signed BY DEF Way, RequestOf
    <3> QED BY <1>1, <3>1, ScopeStays
  <2>3. p.op # "refreshToken" => place'[t] \notin Scope(p)
    BY <2>1, <2>2 DEF Away
  <2>4. ~Loops(p)
    <3>1. SUFFICES ASSUME Loops(p) PROVE FALSE OBVIOUS
    <3>2. p.op # "refreshToken" BY <3>1 DEF Loops, AccountOps
    <3> QED BY <2>1, <2>3, <3>1, <3>2, ScopeOfLoop
  <2>5. p.op = "refreshToken" /\ Writes(p) => place'[t] \notin Domain(p.at)
    BY <1>1, <2>1 DEF Away, Writes, Domain
  <2> QED BY <2>1, <2>3, <2>4, <2>5
<1>4. /\ p.todo \in [Devices -> Signed \cup {Null}] /\ p.next \in Signed \cup {Null}
      /\ p.token \in Signed \cup {Null}
  BY DEF RequestOf
<1>5. Ends(p) /\ Brings(p) BY DEF Doing
<1>6. (p.pc \in {"dropSession", "removeList"} => Gone({p.at}))'
  <2>1. SUFFICES ASSUME p.pc \in {"dropSession", "removeList"}, NEW t, t \in Good'
                 PROVE  place'[t] # p.at
    BY DEF Gone
  <2>2. Gone({p.at}) /\ p.op # "refreshToken" /\ p.at \in Devices /\ p.op # "renewTimeout"
    BY <1>5, <2>1 DEF Ends, Shape, Way
  <2>3. p.at \in Scope(p) BY <2>1, <2>2, AtInScope
  <2> QED BY <1>2, <1>3, <2>1, <2>2, <2>3 DEF Gone
<1>7. (p.op = "endToken" /\ p.pc # "setBlack" => black[p.token] # Null)'
  <2>1. p.op = "endToken" => p.token \in Tokens
    BY SignedAreTokens DEF IInv, Way, TokenOps, RequestOf
  <2> QED BY <1>1, <1>5, <2>1 DEF Ends
<1>8. (p.op \notin TokenOps /\ p.pc = "setBlack" => \A t \in Good : place[t] = p.at => t = p.token)'
  <2>1. SUFFICES ASSUME p.op \notin TokenOps, p.pc = "setBlack", NEW t, t \in Good',
                        place'[t] = p.at
                 PROVE  t = p.token
    OBVIOUS
  <2>2. p.at \in Devices BY <2>1 DEF Way, TokenOps
  <2>3. p.at \in Scope(p) BY <2>1, <2>2, AtInScope DEF TokenOps
  <2> QED BY <1>2, <1>3, <1>5, <2>1, <2>3 DEF Ends, TokenOps
<1>9. ASSUME NEW t, t \in Good', t \notin Good PROVE p.todo[place'[t]] = Null
  BY <1>3, <1>9 DEF Way
<1>10. (\A t \in Good : p.todo[place[t]] \in {t, Null})'
  BY <1>2, <1>5, <1>9 DEF Ends
<1>11. (mode = "single" /\ p.op \in {"login", "logoutByLoginId"}
         /\ p.pc \in {"setBlack", "dropSession"} =>
           \A t \in Good : p.todo[place[t]] = t \/ (p.pc = "setBlack" /\ p.token = t))'
  <2>1. mode = "single" /\ p.op \in {"login", "logoutByLoginId"} => Loops(p)
    BY DEF Loops, AccountOps
  <2> QED BY <1>1, <1>2, <1>3, <1>5, <2>1 DEF Ends
<1>12. (mode = "single" /\ p.pc = "dropList" => Good = {})'
  <2>1. p.pc = "dropList" => Loops(p) BY DEF Way
  <2> QED BY <1>1, <1>3, <1>5, <2>1 DEF Ends
<1>13. Ends(p)' BY <1>5, <1>6, <1>7, <1>8, <1>10, <1>11, <1>12 DEF Ends
<1>14. (p.op = "login" /\ p.pc \in HandsOut \cup {"sign"} => Gone(Domain(p.at)))'
  <2>1. SUFFICES ASSUME p.op = "login", p.pc \in HandsOut \cup {"sign"}, NEW t, t \in Good'
                 PROVE  place'[t] \notin Domain(p.at)
    BY <1>1 DEF Gone, Domain
  <2>2. p.at \in Devices BY <2>1 DEF Shape
  <2>3. p.at \in Scope(p) BY <2>1, <2>2, AtInScope
  <2>4. CASE t \in Good BY <1>2, <1>5, <2>1, <2>4 DEF Brings, Gone
  <2>5. CASE t \notin Good
    <3>1. ~Loops(p) /\ place'[t] \notin Scope(p) BY <1>3, <2>1, <2>5
    <3>2. mode # "single" BY <2>1, <3>1 DEF Loops
    <3> QED BY <2>3, <3>1, <3>2 DEF Domain
  <2> QED BY <2>4, <2>5
<1>15. (Writes(p) => Gone(Domain(p.at)))'
  <2>1. SUFFICES ASSUME Writes(p), NEW t, t \in Good' PROVE place'[t] \notin Domain(p.at)
    BY <1>1 DEF Gone, Domain, Writes
  <2>2. CASE t \in Good BY <1>2, <1>5, <2>1, <2>2 DEF Brings, Gone
  <2>3. CASE t \notin Good BY <1>3, <2>1, <2>3 DEF Writes
  <2> QED BY <2>2, <2>3
<1>16. (p.next # Null => p.next \notin handed /\ exp[p.next] <= now + p.ttl)'
  BY <1>1, <1>4, <1>5 DEF Brings
<1>17. (Placed(p) /\ Clear(p.at) => Holds(p.at, p.next))'
  <2>1. Clear(p.at)' => Clear(p.at) BY ClearStays
  <2>2. SUFFICES ASSUME Placed(p), Clear(p.at)' PROVE Holds(p.at, p.next)'
    BY DEF Placed
  <2>3. Holds(p.at, p.next) BY <1>5, <2>1, <2>2 DEF Brings
  <2> QED BY <2>2, <2>3
<1>18. (p.op = "login" /\ p.pc = "writeFamily" => Carries(p.at, p.next))'
  BY <1>5 DEF Brings
<1>19. Brings(p)' BY <1>14, <1>15, <1>16, <1>17, <1>18 DEF Brings
<1> QED BY <1>13, <1>19 DEF Doing

LEMMA PairedStays ==
  ASSUME Calm, NEW p, NEW k, Paired(p, k) PROVE Paired(p, k)'
<1>1. Clear(p.at)' => Clear(p.at) BY ClearStays
<1> QED BY <1>1 DEF Paired, Calm, Writes, Domain

LEMMA PairedOwn ==
  ASSUME IInv, Pairs, Calm, NEW r \in Reqs, NEW n,
         n.next = Null \/ n.next = req[r].next \/ n.next \notin Signed,
         Writes(n) => Writes(req[r]) /\ n.at = req[r].at,
         NEW x \in Reqs, x # r, NEW p, p = req[x]
  PROVE  Paired(n, p)' /\ Paired(p, n)'
<1>1. Paired(req[r], p) /\ Paired(p, req[r]) BY DEF Pairs
<1>2. p.next \in Signed \cup {Null} BY DEF IInv, RequestsOK, RequestOf
<1>3. Paired(n, p) BY <1>1, <1>2 DEF Paired
<1>4. Paired(p, n) BY <1>1, <1>2 DEF Paired
<1> QED BY <1>3, <1>4, PairedStays

LEMMA KickGoesOn ==
  ASSUME IInv, Kicked, Calm, NEW r \in Reqs, NEW n, Become(r, n), Kept', Doing(n)',
         \A p : \A x \in Reqs : x # r /\ p = req[x]
                  => Doing(p)' /\ Paired(n, p)' /\ Paired(p, n)'
  PROVE  Kicked'
<1>1. req' = [req EXCEPT ![r] = n] /\ req \in [Reqs -> RequestOf(Signed)]
  BY DEF Become, IInv, RequestsOK
<1>2. (\A x \in Reqs : Doing(req[x]))'
  <2> SUFFICES ASSUME NEW x \in Reqs PROVE Doing(req[x])' OBVIOUS
  <2>1. PICK p : p = req'[x] OBVIOUS
  <2>2. Doing(p)'
    <3>1. CASE x = r
      <4>1. p = n BY <1>1, <2>1, <3>1
      <4> QED BY <4>1
    <3>2. CASE x # r
      <4>1. p = req[x] BY <1>1, <2>1, <3>2
      <4> QED BY <3>2, <4>1
    <3> QED BY <3>1, <3>2
  <2> QED BY <2>1, <2>2 DEF Doing, Ends, Brings
<1>3. Pairs'
  <2> SUFFICES ASSUME NEW x \in Reqs, NEW y \in Reqs, x # y PROVE Paired(req[x], req[y])'
    BY DEF Pairs
  <2>1. PICK p : p = req'[x] OBVIOUS
  <2>2. PICK k : k = req'[y] OBVIOUS
  <2>3. Paired(p, k)'
    <3>1. CASE x = r
      <4>1. p = n /\ k = req[y] /\ y # r BY <1>1, <2>1, <2>2, <3>1
      <4> QED BY <4>1
    <3>2. CASE y = r
      <4>1. k = n /\ p = req[x] /\ x # r BY <1>1, <2>1, <2>2, <3>2
      <4> QED BY <4>1
    <3>3. CASE x # r /\ y # r
      <4>1. p = req[x] /\ k = req[y] BY <1>1, <2>1, <2>2, <3>3
      <4>2. Paired(p, k) BY <4>1 DEF Kicked, Pairs
      <4> QED BY <4>2, PairedStays
    <3> QED BY <3>1, <3>2, <3>3
  <2> QED BY <2>1, <2>2, <2>3 DEF Paired
<1> QED BY <1>2, <1>3 DEF Kicked

(* A step that changes no key and hands nothing out. *)
Still ==
  /\ UNCHANGED <<mode, now, session, list, black, handed, forked>>
  /\ \A u \in Signed : place'[u] = place[u] /\ exp'[u] = exp[u]

LEMMA StillGood ==
  ASSUME IInv, Still
  PROVE  /\ Calm
         /\ \A t \in Good' : t \in Good /\ t \in handed /\ place'[t] = place[t] /\ exp'[t] = exp[t]
<1>1. Calm BY DEF Still, Calm
<1>2. \A t \in Good' : t \in handed BY DEF Still, Good
<1> QED BY <1>1, <1>2, GoodStays

LEMMA KeptBy ==
  ASSUME \A t, d : t \in Good' /\ d = place'[t] =>
           /\ Holds(d, t)' /\ Listed'[d] \in {t, Null}
           /\ mode' = "single" => Carries(d, t)' /\ Good' = {t}
  PROVE  Kept'
<1>1. SUFFICES ASSUME NEW t, t \in Good'
               PROVE  (/\ Holds(place[t], t)
                       /\ Listed[place[t]] \in {t, Null}
                       /\ mode = "single" => Carries(place[t], t) /\ Good = {t})'
  BY DEF Kept
<1>2. PICK d : d = place'[t] OBVIOUS
<1>3. /\ Holds(d, t)' /\ Listed'[d] \in {t, Null}
      /\ mode' = "single" => Carries(d, t)' /\ Good' = {t}
  BY <1>1, <1>2
<1> QED BY <1>2, <1>3 DEF Holds, Carries

LEMMA StillKept ==
  ASSUME IInv, Still, Kept PROVE Kept'
<1>1. SUFFICES ASSUME NEW t, NEW d, t \in Good', d = place'[t]
               PROVE  /\ Holds(d, t)' /\ Listed'[d] \in {t, Null}
                      /\ mode' = "single" => Carries(d, t)' /\ Good' = {t}
  BY KeptBy
<1>2. t \in Good /\ d = place[t] /\ exp'[t] = exp[t] BY <1>1, StillGood
<1>3. Listed' = Listed BY DEF Still, Listed
<1>4. Holds(d, t) /\ Listed[d] \in {t, Null} /\ (mode = "single" => Carries(d, t) /\ Good = {t})
  BY <1>2 DEF Kept
<1>5. mode = "single" => Good' = {t} BY <1>1, <1>4, StillGood
<1> QED BY <1>2, <1>3, <1>4, <1>5 DEF Still, Holds, Carries

LEMMA StillDoing ==
  ASSUME IInv, Sited, Kicks, Still, NEW p, p \in RequestOf(Signed), Way(p), Shape(p), Doing(p)
  PROVE  Doing(p)'
<1>1. p.next \in Signed \cup {Null} BY DEF RequestOf
<1>2. p.pc \in HandsOut => p.next \in Signed BY <1>1 DEF Way, HandsOut, Renewing
<1>3. Placed(p) => p.next \in Signed BY <1>2 DEF Placed, HandsOut
<1>4. Placed(p) /\ Holds(p.at, p.next) => Holds(p.at, p.next)'
  BY <1>3 DEF Still, Holds
<1>5. Listed' = Listed BY DEF Still, Listed
<1>6. p.op = "login" /\ p.pc = "writeFamily" /\ Carries(p.at, p.next) => Carries(p.at, p.next)'
  BY <1>2, <1>5 DEF Still, Carries, HandsOut
<1>7. p.next # Null => p.next \notin handed'
  BY DEF Still, Doing, Brings
<1> QED BY <1>4, <1>6, <1>7, StillGood, DoingStays

(* A read, or the signing of a token, after which the request knows what it *)
(* has to know. *)
LEMMA KickStill ==
  ASSUME IInv, Sited, Kicks, Kicked, Still, NEW r \in Reqs, NEW n, Become(r, n), Doing(n)',
         n.next = Null \/ n.next = req[r].next \/ n.next \notin Signed,
         ~Writes(n)
  PROVE  Kicked'
<1>1. Kept' BY StillKept DEF Kicked
<1>2. Calm BY StillGood
<1>3. ASSUME NEW p, NEW x \in Reqs, x # r, p = req[x]
      PROVE  Doing(p)' /\ Paired(n, p)' /\ Paired(p, n)'
  <2>1. p \in RequestOf(Signed) /\ Way(p) /\ Shape(p) /\ Doing(p)
    BY <1>3 DEF IInv, RequestsOK, Sited, Kicked
  <2>2. Doing(p)' BY <2>1, StillDoing
  <2> QED BY <1>2, <1>3, <2>2, PairedOwn DEF Kicked
<1> QED BY <1>1, <1>2, <1>3, KickGoesOn

LEMMA KickGo ==
  ASSUME IInv, Sited, Kicks, Kicked, NEW r \in Reqs, NEW n, Go(r, n),
         n \in RequestOf(Signed), Way(n), Shape(n), Doing(n),
         n.next = Null \/ n.next = req[r].next, ~Writes(n)
  PROVE  Kicked'
<1>1. Still /\ Become(r, n) BY DEF Go, Still, store, past
<1> QED BY <1>1, StillDoing, KickStill

LEMMA KickEnds ==
  ASSUME IInv, Sited, Kicks, Kicked, NEW r \in Reqs, Go(r, Idle) PROVE Kicked'
<1>1. Idle.next = Null /\ ~Writes(Idle) BY DEF Idle, Writes
<1> QED BY <1>1, IdleIsRequest, IdleWay, IdleDoing, KickGo

(* Where no pc obliges it to anything, a request knows what it knew. *)
LEMMA DoingOn ==
  ASSUME NEW q, NEW n, Doing(q), n.op = q.op, n.todo = q.todo, n.ttl = q.ttl,
         n.next = Null \/ n.next = q.next, n.token = q.token \/ q.op # "endToken",
         n.pc \in {"readAll", "readInfo", "readBlack", "readFamily", "casFamily",
                   "replayRead", "replayCas", "touch"}
           \/ (n.pc \in {"setBlack", "writeFamily"} /\ n.op = "refreshToken"),
         n.op = "endToken" => q.pc # "setBlack",
         n.op = "renewTimeout" => n.pc \in {"readBlack", "readInfo", "touch"}
  PROVE  Doing(n)
<1>1. Ends(n) BY DEF Doing, Ends, TokenOps
<1>2. Brings(n) BY DEF Doing, Brings, Writes, Placed, HandsOut
<1> QED BY <1>1, <1>2 DEF Doing

LEMMA NextDeviceDoing ==
  ASSUME IInv, Sited, Kicks, NEW q \in RequestOf(Signed), Way(q), Loops(q),
         \A t \in Good : q.todo[place[t]] \in {t, Null},
         mode = "single" /\ q.op \in {"login", "logoutByLoginId"}
           => \A t \in Good : q.todo[place[t]] = t,
         q.next # Null => q.next \notin handed /\ exp[q.next] <= now + q.ttl,
         NEW n \in NextDevice(q)
  PROVE  Doing(n) /\ ~Writes(n) /\ (n.next = Null \/ n.next = q.next)
<1>0. q.op \notin TokenOps BY DEF Loops, AccountOps, TokenOps
<1>1. CASE n = Idle BY <1>1, IdleDoing DEF Idle, Writes
<1>2. ASSUME NEW d \in Devices, q.todo[d] # Null, n = Visit(q, d)
      PROVE  Doing(n) /\ ~Writes(n) /\ n.next = q.next
  <2> DEFINE rest == [q.todo EXCEPT ![d] = Null]
  <2>1. PICK p \in {"setBlack", "dropSession", "readSession"} :
          /\ n.pc = p /\ n.op = q.op /\ n.at = d /\ n.todo = rest /\ n.ttl = q.ttl
          /\ q.op = "forceLogout" <=> p = "readSession"
          /\ p = "setBlack" => n.token = q.todo[d]
          /\ p = "dropSession" => ~Verified(q.todo[d])
          /\ n.next = q.next
    <3> HIDE DEF rest
    <3>1. n = [[q EXCEPT !.at = d, !.token = q.todo[d], !.todo = rest] EXCEPT
                 !.pc = IF q.op = "forceLogout" THEN "readSession"
                        ELSE IF Verified(q.todo[d]) THEN "setBlack" ELSE "dropSession",
                 !.token = IF q.op = "forceLogout" THEN Null ELSE q.todo[d]]
      BY <1>2 DEF Visit, rest, RequestOf
    <3> QED BY <3>1 DEF RequestOf
  <2>2. \A e \in Devices : rest[e] = IF e = d THEN Null ELSE q.todo[e]
    BY DEF RequestOf
  <2> HIDE DEF rest
  <2>3. \A t \in Good : place[t] \in Devices /\ Verified(t) BY GoodAreSited
  <2>4. \A t \in Good : place[t] = d => t = q.todo[d] BY <1>2
  <2>5. \A t \in Good : n.todo[place[t]] \in {t, Null} BY <2>1, <2>2, <2>3
  <2>6. p = "dropSession" => Gone({d}) BY <2>1, <2>3, <2>4 DEF Gone
  <2>7. mode = "single" /\ q.op \in {"login", "logoutByLoginId"} =>
          \A t \in Good : n.todo[place[t]] = t \/ (p = "setBlack" /\ n.token = t)
    <3>1. SUFFICES ASSUME mode = "single", q.op \in {"login", "logoutByLoginId"}, NEW t \in Good
                   PROVE  n.todo[place[t]] = t \/ (p = "setBlack" /\ n.token = t)
      OBVIOUS
    <3>2. q.todo[place[t]] = t BY <3>1
    <3>3. CASE place[t] # d BY <2>1, <2>2, <2>3, <3>2, <3>3
    <3>4. CASE place[t] = d BY <2>1, <2>3, <3>1, <3>2, <3>4
    <3> QED BY <3>3, <3>4
  <2>8. Ends(n)
    BY <1>0, <2>1, <2>4, <2>5, <2>6, <2>7 DEF Ends, TokenOps
  <2>9. Brings(n) /\ ~Writes(n) BY <1>0, <2>1 DEF Brings, Writes, Placed, HandsOut, TokenOps
  <2> QED BY <2>1, <2>8, <2>9 DEF Doing
<1>3. ASSUME {d \in Devices : /\ q.todo[d] # Null
                              /\ ~(q.op = "logoutByLoginId" /\ ~Verified(q.todo[d]))} = {},
             q.op # "forceLogout",
             n = [q EXCEPT !.pc = "dropList", !.at = q.home, !.token = Null, !.todo = Empty]
      PROVE  Doing(n) /\ ~Writes(n) /\ n.next = q.next
  <2>1. /\ n.pc = "dropList" /\ n.op = q.op /\ n.ttl = q.ttl /\ n.next = q.next
        /\ \A d \in Devices : n.todo[d] = Null
    BY <1>3 DEF RequestOf, Empty
  <2>2. \A t \in Good : place[t] \in Devices /\ Verified(t) /\ t # Null BY GoodAreSited
  <2>3. mode = "single" => Good = {}
    <3>1. SUFFICES ASSUME mode = "single", NEW t \in Good PROVE FALSE OBVIOUS
    <3>2. q.op \in {"login", "logoutByLoginId"} BY <1>3 DEF Loops, AccountOps
    <3>3. q.todo[place[t]] = t BY <3>1, <3>2
    <3> QED BY <1>3, <2>2, <3>3
  <2>4. Ends(n) BY <1>0, <2>1, <2>2, <2>3 DEF Ends, TokenOps
  <2>5. Brings(n) /\ ~Writes(n) BY <1>0, <2>1 DEF Brings, Writes, Placed, HandsOut, TokenOps
  <2> QED BY <2>1, <2>4, <2>5 DEF Doing
<1> DEFINE skips == {d \in Devices : q.op = "logoutByLoginId" /\ q.todo[d] # Null
                                      /\ ~Verified(q.todo[d])}
           left  == {d \in Devices \ skips : q.todo[d] # Null}
<1>4. CASE left # {}
  <2>1. n \in {Visit(q, d) : d \in left} BY <1>4 DEF NextDevice
  <2>2. PICK d \in left : n = Visit(q, d) BY <2>1
  <2> QED BY <1>2, <2>2
<1>5. CASE left = {}
  <2>1. n = Idle \/ (q.op # "forceLogout"
          /\ n = [q EXCEPT !.pc = "dropList", !.at = q.home, !.token = Null, !.todo = Empty])
    BY <1>5 DEF NextDevice
  <2>2. {d \in Devices : /\ q.todo[d] # Null
                         /\ ~(q.op = "logoutByLoginId" /\ ~Verified(q.todo[d]))} = {}
    BY <1>5
  <2> QED BY <1>1, <1>3, <2>1, <2>2
<1> QED BY <1>4, <1>5

-----------------------------------------------------------------------------
(* The steps, under Kicks.                                                  *)
LEMMA KickStarts ==
  ASSUME IInv, Sited, Kicks, Kicked, NEW r \in Reqs, Starts(r) PROVE Kicked'
<1>1. PICK n : Go(r, n) /\ Way(n) /\ Enters(n) BY StartWay
<1>2. IInv' BY StartStep DEF Starts
<1>3. n \in RequestOf(Signed) /\ Shape(n)
  <2>1. req'[r] = n /\ Signed' = Signed
    BY <1>1 DEF Go, Become, IInv, RequestsOK, Signed
  <2>2. n \in RequestOf(Signed) BY <1>2, <2>1 DEF IInv, RequestsOK
  <2>3. Shape(n) BY <1>2, <2>1 DEF IInv, RequestsOK, Shape
  <2> QED BY <2>2, <2>3
<1>4. Ends(n) BY <1>1, GoodAreSited DEF Enters, Ends, TokenOps, AccountOps
<1>5. Brings(n) /\ ~Writes(n) /\ n.next = Null
  BY <1>1 DEF Enters, Brings, Writes, Placed, HandsOut
<1> QED BY <1>1, <1>3, <1>4, <1>5, KickGo DEF Doing

(* The loops. *)
LEMMA KickLoops ==
  ASSUME IInv, Sited, Kicks, Kicked, NEW r \in Reqs, NEW q, q \in RequestOf(Signed),
         Way(q), Loops(q), q.op = "login" => q.at \in Devices /\ q.home \in Devices,
         \A t \in Good : q.todo[place[t]] \in {t, Null},
         mode = "single" /\ q.op \in {"login", "logoutByLoginId"}
           => \A t \in Good : q.todo[place[t]] = t,
         q.next = req[r].next, q.ttl = req[r].ttl, NEW n \in NextDevice(q), Go(r, n)
  PROVE  Kicked'
<1>1. q.op \in Looping BY DEF Loops, Looping, AccountOps
<1>2. n \in RequestOf(Signed) /\ Shape(n) BY <1>1, NextDeviceShape DEF IInv
<1>3. Way(n) BY NextDeviceWay
<1>4. q.next # Null => q.next \notin handed /\ exp[q.next] <= now + q.ttl
  BY DEF Kicked, Doing, Brings
<1>5. Doing(n) /\ ~Writes(n) /\ (n.next = Null \/ n.next = req[r].next)
  BY <1>4, NextDeviceDoing
<1> QED BY <1>2, <1>3, <1>5, KickGo

LEMMA KickReadSession ==
  ASSUME IInv, Sited, Kicks, Kicked, NEW r \in Reqs, ReadSession(r) PROVE Kicked'
<1> DEFINE q == req[r]
           s == Get(session[q.at])
<1>1. q \in RequestOf(Signed) /\ Shape(q) /\ Way(q) /\ Doing(q) /\ q.pc = "readSession"
  BY DEF IInv, RequestsOK, Sited, Kicked, ReadSession
<1>2. q.at \in Devices /\ (q.op = "login" => q.home \in Devices) /\ q.op \notin TokenOps
  BY <1>1 DEF Shape, Way
<1>3. s \in Signed \cup {Null} BY <1>2, SessionValue DEF IInv
<1>4. \A t \in Good : place[t] = q.at => s = t
  BY <1>2 DEF Kicked, Kept, Holds, Get
<1>5. s = Null => Gone({q.at}) BY <1>4, GoodAreSited DEF Gone
<1>6. ASSUME NEW n, Go(r, n), n \in RequestOf(Signed), n.op = q.op, n.at = q.at,
             n.home = q.home, n.todo = q.todo, n.ttl = q.ttl, n.next = q.next,
             n.pc = "setBlack", n.token = s, s # Null, mode = "single" => q.op # "login"
      PROVE  Kicked'
  <2> HIDE DEF s, q
  <2>1. place[s] \in {q.at, Null} BY <1>2, <1>6 DEF Sited, KeysSited, Get, s
  <2>2. Way(n) BY <1>1, <1>2, <1>6, <2>1 DEF Way, HandsOut, TokenOps, Loops, Renewing
  <2>3. Shape(n) BY <1>1, <1>2, <1>6 DEF Shape, TokenOps
  <2>4. Ends(n)
    BY <1>1, <1>2, <1>4, <1>6 DEF Doing, Ends, TokenOps
  <2>5. Brings(n) /\ ~Writes(n)
    BY <1>1, <1>2, <1>6 DEF Doing, Brings, Writes, Placed, HandsOut, TokenOps
  <2> QED BY <1>6, <2>2, <2>3, <2>4, <2>5, KickGo DEF Doing, q
<1>7. CASE q.op = "login" /\ Go(r, LoginBranch(q, s))
  <2>1. PICK n : n = LoginBranch(q, s) OBVIOUS
  <2>2. /\ n \in RequestOf(Signed)
        /\ n.op = "login" /\ n.at = q.at /\ n.home = q.home /\ n.todo = q.todo /\ n.ttl = q.ttl
        /\ n.next = q.next
        /\ \/ n.pc = "readAll" /\ mode = "single"
           \/ mode = "replace" /\ s # Null /\ n.pc = "setBlack" /\ n.token = s
           \/ mode = "replace" /\ s = Null /\ n.pc = "sign"
    <3> HIDE DEF s, q
    <3>1. \/ n = [q EXCEPT !.pc = "readAll"] /\ mode = "single"
          \/ n = [q EXCEPT !.pc = "setBlack", !.token = s] /\ mode = "replace" /\ s # Null
          \/ n = [q EXCEPT !.pc = "sign"] /\ mode = "replace" /\ s = Null
      BY <2>1 DEF LoginBranch, Kicks
    <3>2. CASE n = [q EXCEPT !.pc = "setBlack", !.token = s] /\ mode = "replace" /\ s # Null
      BY <1>1, <1>3, <1>7, <3>2 DEF RequestOf, PCs
    <3>3. ASSUME NEW p \in {"readAll", "sign"}, n = [q EXCEPT !.pc = p]
          PROVE  /\ n \in RequestOf(Signed) /\ n.op = "login" /\ n.at = q.at /\ n.pc = p
                 /\ n.home = q.home /\ n.todo = q.todo /\ n.ttl = q.ttl /\ n.next = q.next
      BY <1>1, <1>7, <3>3 DEF RequestOf, PCs
    <3> QED BY <3>1, <3>2, <3>3
  <2>3. Go(r, n) BY <1>7, <2>1
  <2> HIDE DEF s, q
  <2>4. CASE n.pc = "setBlack" BY <1>6, <1>7, <2>2, <2>3, <2>4
  <2>5. CASE n.pc \in {"readAll", "sign"}
    <3>1. Way(n)
      BY <1>1, <1>7, <2>2, <2>5 DEF Way, HandsOut, Looping, TokenOps, Loops
    <3>2. Shape(n) BY <1>2, <1>7, <2>2, <2>5 DEF Shape, Looping
    <3>3. Ends(n) BY <1>1, <1>7, <2>2, <2>5 DEF Doing, Ends, TokenOps
    <3>4. Brings(n) /\ ~Writes(n)
      BY <1>1, <1>5, <1>7, <2>2, <2>5 DEF Doing, Brings, Writes, Placed, HandsOut, Domain
    <3> QED BY <2>2, <2>3, <3>1, <3>2, <3>3, <3>4, KickGo DEF Doing, q
  <2> QED BY <2>2, <2>4, <2>5
<1>8. CASE q.op # "login" /\ s # Null /\ Go(r, [q EXCEPT !.pc = "setBlack", !.token = s])
  <2>1. PICK n : n = [q EXCEPT !.pc = "setBlack", !.token = s] OBVIOUS
  <2>2. /\ n \in RequestOf(Signed) /\ n.op = q.op /\ n.at = q.at /\ n.home = q.home
        /\ n.todo = q.todo /\ n.ttl = q.ttl /\ n.next = q.next
        /\ n.pc = "setBlack" /\ n.token = s
    BY <1>1, <1>3, <2>1 DEF RequestOf, PCs
  <2> HIDE DEF s, q
  <2> QED BY <1>6, <1>8, <2>1, <2>2
<1>9. CASE Go(r, Idle) BY <1>9, KickEnds
<1>10. ASSUME q.op = "forceLogout", NEW n \in NextDevice(q), Go(r, n) PROVE Kicked'
  <2>1. Loops(q) BY <1>10 DEF Loops, AccountOps
  <2>2. \A t \in Good : q.todo[place[t]] \in {t, Null} BY <1>1 DEF Doing, Ends
  <2>3. PICK m : m = q OBVIOUS
  <2>4. n \in NextDevice(m) /\ m.next = req[r].next /\ m.ttl = req[r].ttl
    BY <1>10, <2>3
  <2> QED BY <1>1, <1>2, <1>10, <2>1, <2>2, <2>3, <2>4, KickLoops
<1> QED BY <1>7, <1>8, <1>9, <1>10 DEF ReadSession

LEMMA KickReadAll ==
  ASSUME IInv, Sited, Kicks, Kicked, NEW r \in Reqs, ReadAll(r) PROVE Kicked'
<1> DEFINE q == req[r]
<1>1. q \in RequestOf(Signed) /\ Shape(q) /\ Way(q) /\ Doing(q) /\ q.pc = "readAll"
  BY DEF IInv, RequestsOK, Sited, Kicked, ReadAll
<1>2. CASE list = Null /\ q.op = "login" /\ Go(r, [q EXCEPT !.pc = "sign"])
  <2>1. PICK n : n = [q EXCEPT !.pc = "sign"] OBVIOUS
  <2>2. /\ n \in RequestOf(Signed)
        /\ n.op = q.op /\ n.at = q.at /\ n.todo = q.todo /\ n.ttl = q.ttl /\ n.home = q.home
        /\ n.pc = "sign" /\ n.token = q.token /\ n.next = q.next
    BY <1>1, <2>1 DEF RequestOf, PCs
  <2>3. mode = "single" BY <1>1, <1>2 DEF Way
  <2>4. Good = {} BY <1>2, <2>3 DEF Kicked, Kept, Carries
  <2> HIDE DEF q
  <2>5. Way(n) BY <1>1, <1>2, <2>2, <2>3 DEF Way, HandsOut, TokenOps, Loops, Looping
  <2>6. Shape(n) BY <1>1, <1>2, <2>2 DEF Shape
  <2>7. Ends(n) BY <1>2, <2>2, <2>4 DEF Ends, TokenOps
  <2>8. Brings(n) /\ ~Writes(n)
    BY <1>1, <1>2, <2>2, <2>4 DEF Doing, Brings, Writes, Placed, HandsOut, Gone
  <2> QED BY <1>2, <2>1, <2>2, <2>5, <2>6, <2>7, <2>8, KickGo DEF Doing, q
<1>3. CASE Go(r, Idle) BY <1>3, KickEnds
<1>4. ASSUME list # Null, NEW n \in NextDevice([q EXCEPT !.todo = Listed]), Go(r, n)
      PROVE  Kicked'
  <2>1. PICK m : m = [q EXCEPT !.todo = Listed] OBVIOUS
  <2>2. /\ m \in RequestOf(Signed) /\ m.op = q.op /\ m.at = q.at /\ m.home = q.home
        /\ m.todo = Listed /\ m.ttl = q.ttl /\ m.pc = q.pc /\ m.token = q.token
        /\ m.next = q.next
    BY <1>1, <2>1, ListedIsIndex DEF RequestOf, IndexOf, IInv
  <2>3. Loops(q) BY <1>1 DEF Way, Loops, Looping, AccountOps
  <2>4. Loops(m) BY <2>2, <2>3 DEF Loops
  <2>5. Way(m)
    BY <1>1, <2>2, <2>3 DEF Way, HandsOut, Renewing, TokenOps, Loops, Sited, KeysSited
  <2>6. q.op = "login" => q.at \in Devices /\ q.home \in Devices BY <1>1 DEF Shape
  <2>7. \A t \in Good : m.todo[place[t]] \in {t, Null} BY <2>2 DEF Kicked, Kept
  <2>8. mode = "single" => \A t \in Good : m.todo[place[t]] = t
    BY <2>2 DEF Kicked, Kept, Carries
  <2> QED BY <1>4, <2>1, <2>2, <2>4, <2>5, <2>6, <2>7, <2>8, KickLoops
<1> QED BY <1>2, <1>3, <1>4 DEF ReadAll

LEMMA KickReadInfo ==
  ASSUME IInv, Sited, Kicks, Kicked, NEW r \in Reqs, ReadInfo(r) PROVE Kicked'
<1> DEFINE q == req[r]
<1>1. q \in RequestOf(Signed) /\ Shape(q) /\ Way(q) /\ Doing(q) /\ q.pc = "readInfo"
      /\ q.op # "login"
  BY DEF IInv, RequestsOK, Sited, Kicked, Kicks, ReadInfo, Way
<1>2. CASE Go(r, Idle) BY <1>2, KickEnds
<1>3. ASSUME q.op = "renewTimeout", NEW d \in Devices, Go(r, [q EXCEPT !.pc = "touch", !.at = d])
      PROVE  Kicked'
  <2>1. PICK n : n = [q EXCEPT !.pc = "touch", !.at = d] OBVIOUS
  <2>2. /\ n \in RequestOf(Signed) /\ n.op = q.op /\ n.at = d /\ n.todo = q.todo
        /\ n.ttl = q.ttl /\ n.home = q.home /\ n.pc = "touch" /\ n.token = q.token
        /\ n.next = q.next
    BY <1>1, <2>1 DEF RequestOf, PCs
  <2>3. Way(n) BY <1>1, <1>3, <2>2 DEF Way, HandsOut, TokenOps, Loops
  <2>4. Shape(n) BY <1>3, <2>2 DEF Shape
  <2>5. Doing(n) /\ ~Writes(n)
    BY <1>1, <1>3, <2>2, DoingOn DEF Writes
  <2> QED BY <1>3, <2>1, <2>2, <2>3, <2>4, <2>5, KickGo
<1>4. ASSUME q.op = "endToken", NEW d \in Devices, Listed[d] = q.token,
             Go(r, [q EXCEPT !.pc = "dropSession", !.at = d])
      PROVE  Kicked'
  <2>1. PICK n : n = [q EXCEPT !.pc = "dropSession", !.at = d] OBVIOUS
  <2>2. /\ n \in RequestOf(Signed) /\ n.op = q.op /\ n.at = d /\ n.todo = q.todo
        /\ n.ttl = q.ttl /\ n.home = q.home /\ n.pc = "dropSession" /\ n.token = q.token
        /\ n.next = q.next
    BY <1>1, <2>1 DEF RequestOf, PCs
  <2>3. q.token \in Tokens /\ Verified(q.token) /\ q.token # Null /\ black[q.token] # Null
    BY <1>1, <1>4, SignedAreTokens DEF Way, TokenOps, RequestOf, IInv, Doing, Ends
  <2>4. place[q.token] \in Devices /\ Null \notin Devices
    BY <2>3, JwtAssumption DEF Sited, TokensSited
  <2>5. place[q.token] = d BY <1>4, <2>3, <2>4 DEF Sited, KeysSited
  <2>6. Way(n) BY <1>1, <1>4, <2>2, <2>5 DEF Way, HandsOut, TokenOps, Loops
  <2>7. Shape(n) BY <1>4, <2>2 DEF Shape
  <2>8. Gone({d})
    <3>1. SUFFICES ASSUME NEW t \in Good, place[t] = d PROVE FALSE BY DEF Gone
    <3>2. black[t] = Null BY GoodAreSited
    <3>3. Listed[d] \in {t, Null} BY <3>1 DEF Kicked, Kept
    <3> QED BY <1>4, <2>3, <3>2, <3>3
  <2> HIDE DEF q
  <2>9. Ends(n) BY <1>1, <1>4, <2>2, <2>3, <2>8 DEF Doing, Ends, TokenOps
  <2>10. Brings(n) /\ ~Writes(n) BY <1>1, <1>4, <2>2 DEF Doing, Brings, Writes, Placed
  <2> QED BY <1>4, <2>1, <2>2, <2>6, <2>7, <2>9, <2>10, KickGo DEF Doing, q
<1>5. DefaultDevice \in Devices BY JwtAssumption
<1> QED BY <1>1, <1>2, <1>3, <1>4, <1>5 DEF ReadInfo

LEMMA KickReadBlack ==
  ASSUME IInv, Sited, Kicks, Kicked, NEW r \in Reqs, ReadBlack(r) PROVE Kicked'
<1> DEFINE q == req[r]
<1>1. q \in RequestOf(Signed) /\ Shape(q) /\ Way(q) /\ Doing(q) /\ q.pc = "readBlack"
      /\ q.op # "login"
  BY DEF IInv, RequestsOK, Sited, Kicked, Kicks, ReadBlack, Way
<1>2. CASE Go(r, Idle) BY <1>2, KickEnds
<1>3. ASSUME NEW p, Go(r, [q EXCEPT !.pc = p]),
             (p = "readFamily" /\ q.op = "refreshToken") \/ (p = "readInfo" /\ q.op = "renewTimeout")
      PROVE  Kicked'
  <2>1. PICK n : n = [q EXCEPT !.pc = p] OBVIOUS
  <2>2. /\ n \in RequestOf(Signed) /\ n.op = q.op /\ n.at = q.at /\ n.todo = q.todo
        /\ n.ttl = q.ttl /\ n.home = q.home /\ n.pc = p /\ n.token = q.token
        /\ n.next = q.next
    BY <1>1, <1>3, <2>1 DEF RequestOf, PCs
  <2>3. Way(n) BY <1>1, <1>3, <2>2 DEF Way, HandsOut, Renewing, TokenOps, Loops
  <2>4. Shape(n) BY <1>1, <1>3, <2>2 DEF Shape
  <2>5. Doing(n) /\ ~Writes(n)
    BY <1>1, <1>3, <2>2, DoingOn DEF Writes
  <2> QED BY <1>3, <2>1, <2>2, <2>3, <2>4, <2>5, KickGo
<1>4. CASE q.op = "refreshToken" /\ Go(r, [q EXCEPT !.pc = "readFamily"]) BY <1>3, <1>4
<1>5. CASE q.op = "renewTimeout" /\ Go(r, [q EXCEPT !.pc = "readInfo"]) BY <1>3, <1>5
<1> QED BY <1>1, <1>2, <1>4, <1>5 DEF ReadBlack

LEMMA KickLoginSigns ==
  ASSUME IInv, Sited, Kicks, Kicked, NEW r \in Reqs, LoginSigns(r) PROVE Kicked'
<1> DEFINE q == req[r]
<1>1. q \in RequestOf(Signed) /\ Shape(q) /\ Way(q) /\ Doing(q) /\ q.pc = "sign"
  BY DEF IInv, RequestsOK, Sited, Kicked, LoginSigns
<1>2. PICK t \in Tokens : Sign(t, q.at, q.ttl)
                          /\ Become(r, [q EXCEPT !.pc = "writeSession", !.next = t])
  BY DEF LoginSigns
<1>3. PICK n : n = [q EXCEPT !.pc = "writeSession", !.next = t] OBVIOUS
<1>4. /\ n.op = q.op /\ n.at = q.at /\ n.todo = q.todo /\ n.ttl = q.ttl /\ n.home = q.home
      /\ n.pc = "writeSession" /\ n.next = t /\ n.op = "login" /\ n.token = q.token
  BY <1>1, <1>3 DEF RequestOf, Way
<1>5. Still
  BY LoginSignsSited DEF LoginSigns, Still, store
<1>6. t \notin Signed /\ t \notin handed /\ exp'[t] = now + q.ttl
  BY <1>2 DEF Sign, Signed, IInv, KnownOK
<1>7. exp'[t] <= now + q.ttl
  <2>1. now \in Nat /\ q.ttl \in Nat BY <1>1 DEF IInv, KnownOK, RequestOf
  <2> HIDE DEF q
  <2> QED BY <1>6, <2>1
<1>0. PICK p : p = q OBVIOUS
<1>8. Doing(p)' BY <1>0, <1>1, <1>5, StillDoing
<1> HIDE DEF q
<1>9. Ends(n)' BY <1>0, <1>4, <1>8 DEF Doing, Ends, TokenOps
<1>10. Brings(n)'
  <2>1. Gone(Domain(n.at))' BY <1>0, <1>1, <1>4, <1>8 DEF Doing, Brings, Gone, Domain
  <2>2. n.next \notin handed' /\ exp'[n.next] <= now' + n.ttl
    BY <1>4, <1>5, <1>6, <1>7 DEF Still
  <2> QED BY <1>4, <2>1, <2>2 DEF Brings, Writes, Placed
<1>11. ~Writes(n) BY <1>4 DEF Writes
<1> QED BY <1>2, <1>3, <1>4, <1>5, <1>6, <1>9, <1>10, <1>11, KickStill DEF Doing

LEMMA KickReadFamily ==
  ASSUME IInv, Sited, Kicks, Kicked, NEW r \in Reqs, ReadFamily(r) PROVE Kicked'
<1> DEFINE q == req[r]
           f == family[q.token]
<1>1. q \in RequestOf(Signed) /\ Shape(q) /\ Way(q) /\ Doing(q) /\ q.pc = "readFamily"
      /\ q.op = "refreshToken"
  BY DEF IInv, RequestsOK, Sited, Kicked, ReadFamily, Shape
<1>2. CASE Go(r, Idle) BY <1>2, KickEnds
<1>3. ASSUME NEW t \in Tokens, NEW ttl \in RefreshTimeouts, Sign(t, place[q.token], ttl),
             Become(r, [q EXCEPT !.pc = "casFamily", !.next = t, !.seen = f,
                                 !.at = place[q.token], !.ttl = ttl]),
             UNCHANGED <<mode, now, aborts, store, handed, revoked, forked, unwritten>>
      PROVE  Kicked'
  <2>1. PICK n : n = [q EXCEPT !.pc = "casFamily", !.next = t, !.seen = f,
                               !.at = place[q.token], !.ttl = ttl] OBVIOUS
  <2>2. /\ n.op = q.op /\ n.at = place[q.token] /\ n.todo = q.todo /\ n.token = q.token
        /\ n.pc = "casFamily" /\ n.next = t /\ n.ttl = ttl
    BY <1>1, <2>1 DEF RequestOf
  <2>3. Still
    BY <1>3, ReadFamilySited DEF Still, store
  <2>4. t \notin Signed /\ t \notin handed /\ exp'[t] = now + ttl
    BY <1>3 DEF Sign, Signed, IInv, KnownOK
  <2>5. exp'[t] <= now + ttl
    <3>1. now \in Nat /\ ttl \in Nat BY JwtAssumption DEF IInv, KnownOK
    <3> QED BY <2>4, <3>1
  <2>0. PICK p : p = q OBVIOUS
  <2>6. Doing(p)' BY <1>1, <2>0, <2>3, StillDoing
  <2>7. Become(r, n) BY <1>3, <2>1
  <2> HIDE DEF q
  <2>8. Ends(n)' BY <1>1, <2>0, <2>2, <2>6 DEF Doing, Ends, TokenOps
  <2>9. n.next \notin handed' /\ exp'[n.next] <= now' + n.ttl
    BY <2>2, <2>3, <2>4, <2>5 DEF Still
  <2>10. Brings(n)' BY <1>1, <2>2, <2>9 DEF Brings, Writes, Placed, HandsOut
  <2>11. ~Writes(n) BY <2>2 DEF Writes
  <2> QED BY <2>2, <2>3, <2>4, <2>7, <2>8, <2>10, <2>11, KickStill DEF Doing
<1> QED BY <1>2, <1>3 DEF ReadFamily

LEMMA KickFamily ==
  ASSUME IInv, Sited, Kicks, Kicked, NEW r \in Reqs,
         CasFamily(r) \/ ReplayRead(r) \/ ReplayCas(r)
           \/ (WriteFamily(r) /\ req[r].op = "refreshToken")
  PROVE  Kicked'
<1> DEFINE q == req[r]
<1>1. q \in RequestOf(Signed) /\ Shape(q) /\ Way(q) /\ Doing(q)
      /\ q.pc \in {"casFamily", "replayRead", "replayCas", "writeFamily"} /\ q.op = "refreshToken"
  BY DEF IInv, RequestsOK, Sited, Kicked, CasFamily, ReplayRead, ReplayCas, WriteFamily, Way
<1>2. Still
  BY <1>1 DEF Still, CasFamily, ReplayRead, ReplayCas, WriteFamily, Go, store, past
<1>3. ASSUME NEW n, Become(r, n), Doing(n), n \in RequestOf(Signed), Way(n), Shape(n),
             n.next = q.next \/ n = Idle, ~Writes(n)
      PROVE  Kicked'
  <2>1. n = Idle => n.next = Null BY DEF Idle
  <2>2. Doing(n)' BY <1>2, <1>3, StillDoing
  <2> QED BY <1>2, <1>3, <2>1, <2>2, KickStill
<1>4. CASE Become(r, Idle)
  <2>1. ~Writes(Idle) BY DEF Writes, Idle
  <2> QED BY <1>3, <1>4, <2>1, IdleDoing, IdleIsRequest, IdleWay
<1>5. ASSUME NEW p, NEW e \in Nat \cup {Revoked, Null}, Become(r, [q EXCEPT !.pc = p, !.seen = e]),
             \/ p = "replayCas"
             \/ p \in {"replayRead", "writeFamily"} /\ q.pc = "casFamily"
             \/ p = "setBlack" /\ q.pc = "writeFamily"
      PROVE  Kicked'
  <2>1. PICK n : n = [q EXCEPT !.pc = p, !.seen = e] OBVIOUS
  <2>2. /\ n \in RequestOf(Signed) /\ n.op = q.op /\ n.at = q.at /\ n.todo = q.todo
        /\ n.ttl = q.ttl /\ n.home = q.home /\ n.pc = p /\ n.token = q.token
        /\ n.next = q.next
    BY <1>1, <1>5, <2>1 DEF RequestOf, PCs
  <2> HIDE DEF q
  <2>3. Way(n) BY <1>1, <1>5, <2>2 DEF Way, HandsOut, Renewing, TokenOps, Loops
  <2>4. Shape(n) BY <1>1, <1>5, <2>2 DEF Shape
  <2>5. Doing(n) /\ ~Writes(n) BY <1>1, <1>5, <2>2, DoingOn DEF Writes
  <2> QED BY <1>3, <1>5, <2>1, <2>2, <2>3, <2>4, <2>5
<1> HIDE DEF q
<1>6. q.seen \in Nat \cup {Revoked, Null} /\ family[q.token] \in Nat \cup {Revoked, Null}
      /\ (q.pc = "casFamily" => q.seen \in Nat)
  BY <1>1, SignedAreTokens DEF RequestOf, IInv, KnownOK, Shape, Way, TokenOps
<1>7. [q EXCEPT !.pc = "replayRead"] = [q EXCEPT !.pc = "replayRead", !.seen = q.seen]
      /\ [q EXCEPT !.pc = "setBlack"] = [q EXCEPT !.pc = "setBlack", !.seen = q.seen]
  BY <1>1 DEF RequestOf
<1>8. CASE CasFamily(r)
  <2>0. q.pc = "casFamily" BY <1>8 DEF CasFamily, q
  <2>1. CASE Become(r, [q EXCEPT !.pc = "writeFamily", !.seen = q.seen + 1])
    <3>1. q.seen + 1 \in Nat BY <1>6, <2>0
    <3> QED BY <1>5, <2>0, <2>1, <3>1
  <2>2. CASE Become(r, [q EXCEPT !.pc = "replayRead", !.seen = q.seen])
    BY <1>5, <1>6, <2>0, <2>2
  <2> QED BY <1>7, <1>8, <2>1, <2>2 DEF CasFamily, Go, q
<1>9. CASE ReplayRead(r)
  BY <1>5, <1>6, <1>9 DEF ReplayRead, Go, q
<1>10. CASE ReplayCas(r) BY <1>4, <1>10 DEF ReplayCas
<1>11. CASE WriteFamily(r)
  BY <1>1, <1>5, <1>6, <1>7, <1>11 DEF WriteFamily, q
<1> QED BY <1>8, <1>9, <1>10, <1>11

LEMMA HandsOutWay ==
  ASSUME IInv, Sited, NEW p, p \in RequestOf(Signed), Way(p), Shape(p), p.pc \in HandsOut
  PROVE  /\ p.op \in {"login", "refreshToken"} /\ p.at \in Devices /\ p.at \in Scope(p)
         /\ p.next \in Signed /\ p.next \in Tokens /\ p.next # Null /\ place[p.next] = p.at
         /\ p.op = "refreshToken" => Scope(p) = {p.at}
<1>1. p.op \in {"login", "refreshToken"} BY DEF Way
<1>2. p.next \in Signed /\ p.next \in Tokens /\ p.next # Null /\ place[p.next] = p.at
  BY <1>1, SignedAreTokens DEF Way, HandsOut, Renewing, RequestOf, IInv
<1>3. CASE p.op = "login"
  <2>1. p.at \in Devices BY <1>3 DEF Shape
  <2>2. p.at \in Scope(p) BY <1>3, <2>1, AtInScope
  <2> QED BY <1>1, <1>2, <1>3, <2>1, <2>2
<1>4. CASE p.op = "refreshToken"
  <2>1. p.pc \in Renewing BY DEF HandsOut, Renewing
  <2>2. p.token \in Tokens /\ Verified(p.token) /\ p.at = place[p.token]
    BY <1>4, <2>1, SignedAreTokens DEF Way, TokenOps, RequestOf, IInv
  <2>3. p.at \in Devices BY <2>2 DEF Sited, TokensSited
  <2>4. Scope(p) = {p.at} BY <1>4, <2>2 DEF Scope, TokenOps, AccountOps
  <2> QED BY <1>1, <1>2, <2>3, <2>4
<1> QED BY <1>1, <1>3, <1>4

(* What an operation writes at the devices of its scope, and what it hands  *)
(* out, is no concern of the others. *)
LEMMA OthersStay ==
  ASSUME IInv, Sited, Separate, Kicks, Kicked, Calm,
         NEW r \in Reqs, NEW q, q = req[r], q.pc # "idle", Scope(q) \cap Devices # {},
         q.op = "refreshToken" => Writes(q),
         \A d \in Devices : d \notin Scope(q) => session'[d] = session[d] /\ Listed'[d] = Listed[d],
         handed' = handed \/ (q.pc \in HandsOut /\ handed' = handed \cup {q.next}),
         NEW x \in Reqs, x # r, NEW p, p = req[x]
  PROVE  Doing(p)'
<1>1. /\ q \in RequestOf(Signed) /\ Shape(q) /\ Way(q) /\ Doing(q)
      /\ p \in RequestOf(Signed) /\ Shape(p) /\ Way(p) /\ Doing(p)
      /\ Paired(p, q) /\ Paired(q, p)
  BY DEF IInv, RequestsOK, Sited, Kicked, Pairs
<1>2. p.pc # "idle" => Scope(q) \cap Scope(p) = {} \/ (q.op = "refreshToken" /\ p.op = "refreshToken")
  BY DEF Separate, Running, Apart
<1>3. mode = "single" /\ Scope(p) = Devices => p.pc = "idle" \/ p.op = "refreshToken"
  BY <1>2
<1>4. q.op = "refreshToken" => Writes(q) /\ q.at \in Devices /\ Scope(q) = {q.at}
  BY <1>1, HandsOutWay DEF Writes, HandsOut
<1>5. q.pc \in HandsOut => /\ q.at \in Devices /\ q.at \in Scope(q) /\ q.next \in Signed
                           /\ place[q.next] = q.at /\ q.next # Null
  BY <1>1, HandsOutWay
<1>6. p.pc \in HandsOut => p.at \in Devices /\ p.at \in Scope(p) /\ p.next \in Signed
  BY <1>1, HandsOutWay
<1>7. Clear(p.at)' => Clear(p.at) BY ClearStays
<1>8. ASSUME NEW t, t \in Good', t \notin Good
      PROVE  place'[t] \in Devices /\ Away(p, t)'
  <2>1. t \in handed' /\ t \notin handed BY <1>8, GoodStays DEF Good
  <2>2. q.pc \in HandsOut /\ t = q.next BY <2>1
  <2>3. place'[t] = q.at BY <1>5, <2>2 DEF Calm
  <2>4. Clear(q.at)
    <3>1. Clear(place[t])' BY <1>8 DEF Good
    <3>2. Clear(q.at)' BY <2>3, <3>1 DEF Clear
    <3> QED BY <3>2, ClearStays
  <2>5. Scope(p)' = Scope(p)
    <3>1. p.op \in TokenOps => p.token \in Signed BY <1>1 DEF Way, RequestOf
    <3> QED BY <3>1, ScopeStays DEF Calm
  <2>6. CASE p.op # "refreshToken"
    <3>1. q.at \notin Scope(p)
      <4>1. CASE p.pc # "idle" BY <1>2, <1>5, <2>2, <2>6, <4>1
      <4>2. CASE p.pc = "idle"
        <5>1. p = Idle BY <1>1, <4>2 DEF Way
        <5>2. Scope(p) = {Null}
          <6>1. Null \notin AllOps BY JwtAssumption
          <6> QED BY <5>1, <6>1 DEF Idle, Scope, AccountOps, TokenOps, AllOps
        <5> QED BY <1>5, <2>2, <5>2, JwtAssumption
      <4> QED BY <4>1, <4>2
    <3> QED BY <1>5, <2>2, <2>3, <2>5, <2>6, <3>1 DEF Away
  <2>7. CASE p.op = "refreshToken"
    <3>1. ASSUME Writes(p), q.at \in Domain(p.at) PROVE FALSE
      <4>1. p.pc \in HandsOut BY <3>1 DEF Writes, HandsOut
      <4>2. CASE q.op = "refreshToken"
        <5>1. Domain(q.at) = Domain(p.at) BY <3>1 DEF Domain
        <5> QED BY <1>1, <1>4, <2>4, <3>1, <4>2, <5>1 DEF Paired
      <4>3. CASE q.op # "refreshToken"
        <5>1. Scope(q) \cap Scope(p) = {} BY <1>2, <4>1, <4>3 DEF HandsOut
        <5>2. p.at \in Scope(p) /\ p.at \in Devices BY <1>6, <4>1
        <5>3. q.op = "login" BY <1>1, <2>2, <4>3, HandsOutWay
        <5>4. CASE mode = "single"
          <6>1. Scope(q) = Devices BY <5>3, <5>4 DEF Scope
          <6> QED BY <5>1, <5>2, <6>1
        <5>5. CASE mode # "single"
          <6>1. q.at = p.at BY <3>1, <5>5 DEF Domain
          <6> QED BY <1>5, <2>2, <5>1, <5>2, <6>1
        <5> QED BY <5>4, <5>5
      <4> QED BY <4>2, <4>3
    <3>2. Writes(p) => q.at \notin Domain(p.at) BY <3>1
    <3>3. Domain(p.at)' = Domain(p.at) BY DEF Calm, Domain
    <3> QED BY <1>5, <2>2, <2>3, <2>7, <3>2, <3>3 DEF Away, Writes
  <2> QED BY <2>6, <2>7
<1>9. p.next # Null => p.next \notin handed'
  BY <1>1, <1>5 DEF Doing, Brings, Paired
<1>10. Placed(p) => p.pc \in HandsOut BY DEF Placed, HandsOut
<1>11. ASSUME Placed(p), Clear(p.at)', Holds(p.at, p.next)
       PROVE  Holds(p.at, p.next)'
  <2>1. p.at \in Devices /\ p.at \in Scope(p) /\ p.next \in Signed BY <1>6, <1>10, <1>11
  <2>2. p.at \notin Scope(q)
    <3>1. SUFFICES ASSUME p.at \in Scope(q) PROVE FALSE OBVIOUS
    <3>2. p.pc # "idle" BY <1>10, <1>11 DEF HandsOut
    <3>3. q.op = "refreshToken" /\ p.op = "refreshToken" BY <1>2, <2>1, <3>1, <3>2
    <3>4. p.at = q.at /\ Writes(q) BY <1>4, <3>1, <3>3
    <3>5. Writes(p) BY <1>11, <3>3 DEF Placed, Writes
    <3>6. ~Clear(p.at) BY <1>1, <3>4, <3>5 DEF Paired
    <3> QED BY <1>7, <1>11, <3>6
  <2>3. session'[p.at] = session[p.at] BY <2>1, <2>2
  <2> QED BY <1>11, <2>1, <2>3 DEF Holds, Calm
<1>12. ASSUME p.op = "login", p.pc = "writeFamily", Carries(p.at, p.next)
       PROVE  Carries(p.at, p.next)'
  <2>1. p.at \in Devices /\ p.at \in Scope(p) BY <1>6, <1>12 DEF HandsOut
  <2>2. Scope(q) \cap Scope(p) = {} BY <1>2, <1>12
  <2>3. mode # "single"
    <3>1. mode = "single" => Scope(p) = Devices BY <1>12 DEF Scope
    <3> QED BY <2>2, <3>1
  <2>4. Listed'[p.at] = Listed[p.at] BY <2>1, <2>2
  <2> QED BY <1>12, <2>3, <2>4 DEF Carries, Calm
<1> QED BY <1>1, <1>8, <1>9, <1>11, <1>12, DoingStays

LEMMA KickWrite ==
  ASSUME IInv, Sited, Separate, Kicks, Kicked, Calm,
         NEW r \in Reqs, NEW q, q = req[r], q.pc # "idle", Scope(q) \cap Devices # {},
         q.op = "refreshToken" => Writes(q),
         \A d \in Devices : d \notin Scope(q) => session'[d] = session[d] /\ Listed'[d] = Listed[d],
         handed' = handed \/ (q.pc \in HandsOut /\ handed' = handed \cup {q.next}),
         NEW n, Become(r, n), Kept', Doing(n)', n.next = Null \/ n.next = q.next,
         Writes(n) => Writes(q) /\ n.at = q.at
  PROVE  Kicked'
<1>1. ASSUME NEW p, NEW x \in Reqs, x # r, p = req[x]
      PROVE  Doing(p)' /\ Paired(n, p)' /\ Paired(p, n)'
  <2>1. Doing(p)' BY <1>1, OthersStay
  <2> QED BY <1>1, <2>1, PairedOwn DEF Kicked
<1> QED BY <1>1, KickGoesOn

LEMMA OwnStays ==
  ASSUME IInv, Sited, Kicks, Calm, handed' = handed,
         NEW n, n \in RequestOf(Signed), Way(n), Shape(n), Doing(n), ~Placed(n)
  PROVE  Doing(n)'
<1>1. \A t \in Good' : t \in Good BY GoodStays DEF Good
<1>2. n.next # Null => n.next \notin handed' BY DEF Doing, Brings
<1>3. ~(n.op = "login" /\ n.pc = "writeFamily") BY DEF Placed
<1> QED BY <1>1, <1>2, <1>3, DoingStays

LEMMA QuietGood ==
  ASSUME IInv, Calm, handed' = handed
  PROVE  \A t \in Good' : t \in Good /\ place'[t] = place[t] /\ exp'[t] = exp[t]
BY GoodStays DEF Good

LEMMA KickDropSession ==
  ASSUME IInv, Sited, Separate, Kicks, Kicked, NEW r \in Reqs, DropSession(r) PROVE Kicked'
<1>0. PICK q : q = req[r] OBVIOUS
<1>1. /\ q \in RequestOf(Signed) /\ Shape(q) /\ Way(q) /\ Doing(q) /\ q.pc = "dropSession"
      /\ q.at \in Devices /\ q.op # "refreshToken" /\ q.op # "renewTimeout"
  BY <1>0 DEF IInv, RequestsOK, Sited, DropSession, Way, Kicked, Shape, Doing, Ends
<1>2. q.at \in Scope(q) BY <1>1, AtInScope
<1>3. Gone({q.at}) BY <1>1 DEF Doing, Ends
<1>4. session' = [session EXCEPT ![q.at] = Null] /\ handed' = handed /\ Listed' = Listed
      /\ UNCHANGED <<mode, now, exp, place, black, forked, list>>
  BY <1>0 DEF DropSession, past, Listed
<1>5. Calm BY <1>4 DEF Calm
<1>6. \A d \in Devices : d # q.at => session'[d] = session[d]
  BY <1>1, <1>4 DEF IInv, KnownOK
<1>7. Kept'
  <2>1. SUFFICES ASSUME NEW t, NEW d, t \in Good', d = place'[t]
                 PROVE  /\ Holds(d, t)' /\ Listed'[d] \in {t, Null}
                        /\ mode' = "single" => Carries(d, t)' /\ Good' = {t}
    BY KeptBy
  <2>2. t \in Good /\ d = place[t] /\ d \in Devices BY <1>4, <1>5, <2>1, QuietGood, GoodAreSited
  <2>3. d # q.at BY <1>3, <2>2 DEF Gone
  <2>4. mode = "single" => Good' = {t}
    BY <1>4, <1>5, <2>1, <2>2, QuietGood DEF Kicked, Kept
  <2> QED BY <1>4, <1>6, <2>2, <2>3, <2>4 DEF Kicked, Kept, Holds, Carries
<1>8. ASSUME NEW n, Become(r, n), n \in RequestOf(Signed), Way(n), Shape(n), Doing(n),
             n.next = Null \/ n.next = q.next, n.pc \notin {"addList", "writeFamily", "writeSession"}
      PROVE  Kicked'
  <2>1. ~Placed(n) /\ ~Writes(n) BY <1>8 DEF Placed, Writes
  <2>2. Doing(n)' BY <1>4, <1>5, <1>8, <2>1, OwnStays
  <2> QED BY <1>0, <1>1, <1>2, <1>4, <1>5, <1>6, <1>7, <1>8, <2>1, <2>2, KickWrite
<1>9. CASE q.op = "login" /\ mode = "replace"
           /\ Become(r, [q EXCEPT !.pc = "sign", !.token = Null])
  <2>1. PICK n : n = [q EXCEPT !.pc = "sign", !.token = Null] OBVIOUS
  <2>2. /\ n \in RequestOf(Signed)
        /\ n.op = q.op /\ n.at = q.at /\ n.todo = q.todo /\ n.ttl = q.ttl /\ n.home = q.home
        /\ n.pc = "sign" /\ n.next = q.next
    BY <1>1, <2>1 DEF RequestOf, PCs
  <2>3. Way(n) BY <1>1, <1>9, <2>2 DEF Way, HandsOut, TokenOps, Loops, Looping
  <2>4. Shape(n) BY <1>1, <1>9, <2>2 DEF Shape
  <2>5. Ends(n) BY <1>1, <1>9, <2>2 DEF Doing, Ends, TokenOps
  <2>6. Brings(n)
    BY <1>1, <1>3, <1>9, <2>2 DEF Doing, Brings, Writes, Placed, HandsOut, Domain
  <2> QED BY <1>8, <1>9, <2>1, <2>2, <2>3, <2>4, <2>5, <2>6 DEF Doing
<1>10. ASSUME q.op = "logoutByLoginId" \/ (q.op = "login" /\ mode = "single"),
              NEW n \in NextDevice(q), Become(r, n)
       PROVE  Kicked'
  <2>1. Loops(q) /\ q.op \in Looping BY <1>10 DEF Loops, AccountOps, Looping
  <2>2. q.op = "login" => q.at \in Devices /\ q.home \in Devices BY <1>1 DEF Shape
  <2>3. Way(n) BY <1>1, <1>10, <2>1, <2>2, NextDeviceWay
  <2>4. n \in RequestOf(Signed) /\ Shape(n)
    BY <1>1, <1>10, <2>1, <2>2, NextDeviceShape DEF IInv
  <2>5. /\ \A t \in Good : q.todo[place[t]] \in {t, Null}
        /\ mode = "single" /\ q.op \in {"login", "logoutByLoginId"}
             => \A t \in Good : q.todo[place[t]] = t
        /\ q.next # Null => q.next \notin handed /\ exp[q.next] <= now + q.ttl
    BY <1>1 DEF Doing, Ends, Brings
  <2>6. Doing(n) /\ (n.next = Null \/ n.next = q.next)
    BY <1>1, <1>10, <2>1, <2>5, NextDeviceDoing
  <2>7. n.pc \notin {"addList", "writeFamily", "writeSession"} BY <1>1, <1>10, NextDevicePc
  <2> QED BY <1>8, <1>10, <2>3, <2>4, <2>6, <2>7
<1>11. CASE q.op \notin {"login", "logoutByLoginId"} /\ Become(r, [q EXCEPT !.pc = "removeList"])
  <2>1. PICK n : n = [q EXCEPT !.pc = "removeList"] OBVIOUS
  <2>2. /\ n \in RequestOf(Signed)
        /\ n.op = q.op /\ n.at = q.at /\ n.todo = q.todo /\ n.ttl = q.ttl /\ n.home = q.home
        /\ n.pc = "removeList" /\ n.token = q.token /\ n.next = q.next
    BY <1>1, <2>1 DEF RequestOf, PCs
  <2>3. Way(n) BY <1>1, <1>11, <2>2 DEF Way, HandsOut, Renewing, TokenOps, Loops
  <2>4. Shape(n) BY <1>1, <1>11, <2>2 DEF Shape
  <2>5. Ends(n) BY <1>1, <1>3, <1>11, <2>2 DEF Doing, Ends, TokenOps
  <2>6. Brings(n) BY <1>1, <1>11, <2>2 DEF Doing, Brings, Writes, Placed
  <2> QED BY <1>8, <1>11, <2>1, <2>2, <2>3, <2>4, <2>5, <2>6 DEF Doing
<1> QED BY <1>0, <1>9, <1>10, <1>11 DEF DropSession

LEMMA KickWriteSession ==
  ASSUME IInv, Sited, Separate, Kicks, Kicked, NEW r \in Reqs, WriteSession(r) PROVE Kicked'
<1>0. PICK q : q = req[r] OBVIOUS
<1>1. /\ q \in RequestOf(Signed) /\ Shape(q) /\ Way(q) /\ Doing(q) /\ q.pc = "writeSession"
      /\ q.ttl \in Nat
  BY <1>0 DEF IInv, RequestsOK, Sited, WriteSession, Kicked, RequestOf
<1>2. /\ q.op \in {"login", "refreshToken"} /\ q.at \in Devices /\ q.at \in Scope(q)
      /\ q.next \in Signed /\ q.next \in Tokens /\ q.next # Null
  BY <1>1, HandsOutWay DEF HandsOut
<1>3. Gone(Domain(q.at)) /\ q.at \in Domain(q.at)
  BY <1>1, <1>2 DEF Doing, Brings, Writes, HandsOut, Domain
<1>4. session' = [session EXCEPT ![q.at] = Put(q.next, q.ttl)] /\ handed' = handed
      /\ Listed' = Listed /\ UNCHANGED <<mode, now, exp, place, black, forked, list>>
  BY <1>0 DEF WriteSession, past, Listed
<1>5. Calm BY <1>4 DEF Calm
<1>6. /\ \A d \in Devices : d # q.at => session'[d] = session[d]
      /\ session'[q.at] # Null /\ session'[q.at].value = q.next
      /\ session'[q.at].end = now + q.ttl
  <2>1. session'[q.at] = Put(q.next, q.ttl) BY <1>2, <1>4 DEF IInv, KnownOK
  <2>2. Signed \subseteq Tokens /\ now \in Nat BY SignedAreTokens DEF IInv, KnownOK
  <2> QED BY <1>1, <1>2, <1>4, <2>1, <2>2, PutIsEntry DEF IInv, KnownOK
<1>7. Kept'
  <2>1. SUFFICES ASSUME NEW t, NEW d, t \in Good', d = place'[t]
                 PROVE  /\ Holds(d, t)' /\ Listed'[d] \in {t, Null}
                        /\ mode' = "single" => Carries(d, t)' /\ Good' = {t}
    BY KeptBy
  <2>2. t \in Good /\ d = place[t] /\ d \in Devices BY <1>4, <1>5, <2>1, QuietGood, GoodAreSited
  <2>3. d # q.at BY <1>3, <2>2 DEF Gone
  <2>4. mode = "single" => Good' = {t}
    BY <1>4, <1>5, <2>1, <2>2, QuietGood DEF Kicked, Kept
  <2> QED BY <1>4, <1>6, <2>2, <2>3, <2>4 DEF Kicked, Kept, Holds, Carries
<1>8. PICK n : n = [q EXCEPT !.pc = "addList"] OBVIOUS
<1>9. /\ n.op = q.op /\ n.at = q.at /\ n.todo = q.todo /\ n.ttl = q.ttl /\ n.home = q.home
      /\ n.pc = "addList" /\ n.token = q.token /\ n.next = q.next
  BY <1>1, <1>8 DEF RequestOf
<1>10. ~Placed(q) BY <1>1 DEF Placed
<1>11. Doing(q)' BY <1>1, <1>4, <1>5, <1>10, OwnStays
<1>12. Ends(n)' BY <1>1, <1>2, <1>9, <1>11 DEF Doing, Ends, TokenOps
<1>13. Brings(n)'
  <2>1. exp'[q.next] <= session'[q.at].end BY <1>1, <1>2, <1>4, <1>6 DEF Doing, Brings
  <2>2. Holds(n.at, n.next)' BY <1>6, <1>9, <2>1 DEF Holds
  <2>3. Gone(Domain(n.at))' BY <1>1, <1>2, <1>9, <1>11 DEF Doing, Brings, Writes, HandsOut, Gone, Domain
  <2> QED BY <1>1, <1>2, <1>9, <1>11, <2>2, <2>3 DEF Doing, Brings
<1>14. Become(r, n) BY <1>0, <1>8 DEF WriteSession
<1>15. (q.op = "refreshToken" => Writes(q)) /\ (Writes(n) => Writes(q))
  BY <1>1, <1>9 DEF Writes
<1>16. \A d \in Devices : d \notin Scope(q) => session'[d] = session[d] /\ Listed'[d] = Listed[d]
  BY <1>2, <1>4, <1>6
<1>17. q.pc # "idle" /\ Scope(q) \cap Devices # {} BY <1>1, <1>2
<1> QED BY <1>0, <1>4, <1>5, <1>7, <1>9, <1>12, <1>13, <1>14, <1>15, <1>16, <1>17, KickWrite DEF Doing

LEMMA RaisedHolds ==
  ASSUME Lasting, IInv, Lasts, NEW d0, NEW ttl \in RenewTimeouts,
         session' = IF session[d0] = Null THEN session
                    ELSE [session EXCEPT ![d0].end = now + ttl],
         exp' = exp, NEW d \in Devices, NEW t \in Signed, Holds(d, t)
  PROVE  Holds(d, t)'
<1>1. session \in [Devices -> Entry(Signed)] /\ now \in Nat /\ t \in Tokens /\ ttl \in Nat
      /\ ttl \in Outlasting
  BY SignedAreTokens, JwtAssumption DEF IInv, KnownOK, Outlasting
<1>2. exp[t] \in Nat /\ exp[t] <= now + ttl
  BY <1>1 DEF IInv, KnownOK, Signed, Lasts
<1>3. CASE session'[d] = session[d] BY <1>3 DEF Holds
<1>4. CASE session'[d] # session[d]
  <2>1. session' = [session EXCEPT ![d0].end = now + ttl] /\ d = d0
    BY <1>1, <1>4
  <2>2. session[d] \in [value: Signed, end: Nat] BY <1>1 DEF Holds, Entry
  <2>3. session'[d] = [session[d] EXCEPT !.end = now + ttl] BY <1>1, <2>1
  <2>4. session'[d].value = t /\ session'[d].end = now + ttl BY <2>2, <2>3 DEF Holds
  <2>5. session'[d] \in [value: Tokens \cup [Devices -> Tokens \cup {Null}], end: Nat]
    BY <1>1, <2>2, <2>3, SignedAreTokens DEF IInv
  <2>6. session'[d] # Null BY <2>5, JwtAssumption
  <2>7. exp[t] <= now + ttl BY <1>1, <1>2
  <2> QED BY <2>4, <2>6, <2>7 DEF Holds
<1> QED BY <1>3, <1>4

LEMMA KickTouch ==
  ASSUME Lasting, IInv, Sited, Lasts, Kicks, Kicked, NEW r \in Reqs, Touch(r) PROVE Kicked'
<1>0. PICK q : q = req[r] OBVIOUS
<1>1. /\ q.pc = "touch" /\ q.ttl \in RenewTimeouts /\ Become(r, Idle)
      /\ session' = IF session[q.at] = Null THEN session
                    ELSE [session EXCEPT ![q.at].end = now + q.ttl]
      /\ UNCHANGED <<mode, now, exp, place, black, forked, list, handed>>
  BY <1>0 DEF Touch, Sited, Way, past
<1>2. Calm /\ Listed' = Listed BY <1>1 DEF Calm, Listed
<1>3. \A d \in Devices, t \in Signed : Holds(d, t) => Holds(d, t)'
  BY <1>1, RaisedHolds
<1>4. Kept'
  <2>1. SUFFICES ASSUME NEW t, NEW d, t \in Good', d = place'[t]
                 PROVE  /\ Holds(d, t)' /\ Listed'[d] \in {t, Null}
                        /\ mode' = "single" => Carries(d, t)' /\ Good' = {t}
    BY KeptBy
  <2>2. t \in Good /\ d = place[t] /\ d \in Devices /\ t \in Signed
    BY <1>1, <1>2, <2>1, QuietGood, GoodAreSited
  <2>3. mode = "single" => Good' = {t}
    BY <1>1, <1>2, <2>1, <2>2, QuietGood DEF Kicked, Kept
  <2> QED BY <1>1, <1>2, <1>3, <2>2, <2>3 DEF Kicked, Kept, Carries
<1>5. ~Writes(Idle) /\ Idle.next = Null BY DEF Writes, Idle
<1>6. ~Placed(Idle)
  <2>1. Idle.op = Null /\ Idle.pc = "idle" BY DEF Idle
  <2> QED BY <2>1 DEF Placed
<1>7. Doing(Idle)' BY <1>1, <1>2, <1>6, IdleIsRequest, IdleWay, IdleDoing, OwnStays
<1>8. ASSUME NEW p, NEW x \in Reqs, x # r, p = req[x]
      PROVE  Doing(p)' /\ Paired(Idle, p)' /\ Paired(p, Idle)'
  <2>1. /\ p \in RequestOf(Signed) /\ Shape(p) /\ Way(p) /\ Doing(p)
    BY <1>8 DEF IInv, RequestsOK, Sited, Kicked
  <2>2. p.pc \in HandsOut => p.at \in Devices /\ p.next \in Signed BY <2>1, HandsOutWay
  <2>3. Placed(p) /\ Holds(p.at, p.next) => Holds(p.at, p.next)'
    BY <1>3, <2>2 DEF Placed, HandsOut
  <2>4. p.op = "login" /\ p.pc = "writeFamily" /\ Carries(p.at, p.next) => Carries(p.at, p.next)'
    BY <1>1, <1>2, <2>2 DEF Carries, HandsOut
  <2>5. p.next # Null => p.next \notin handed' BY <1>1, <2>1 DEF Doing, Brings
  <2>6. Doing(p)' BY <1>1, <1>2, <2>1, <2>3, <2>4, <2>5, QuietGood, DoingStays
  <2> QED BY <1>2, <1>5, <1>8, <2>6, PairedOwn DEF Kicked
<1> QED BY <1>1, <1>2, <1>4, <1>7, <1>8, KickGoesOn

LEMMA EndOfWithout ==
  ASSUME KnownOK, NEW d \in Devices, list' = Without(d), NEW e \in Devices, Listed'[e] # Null
  PROVE  list # Null /\ list' # Null /\ list'.end = list.end
<1> DEFINE left == [Listed EXCEPT ![d] = Null]
<1>1. list' # Null BY DEF Listed, Empty
<1>2. list # Null /\ list' = [list EXCEPT !.value = left] BY <1>1 DEF Without
<1>3. list \in [value: IndexOf(Signed), end: Nat] BY <1>2 DEF KnownOK, Entry
<1> HIDE DEF left
<1> QED BY <1>1, <1>2, <1>3

LEMMA KickRemoveList ==
  ASSUME IInv, Sited, Separate, Kicks, Kicked, NEW r \in Reqs, RemoveList(r) PROVE Kicked'
<1>0. PICK q : q = req[r] OBVIOUS
<1>1. /\ q \in RequestOf(Signed) /\ Shape(q) /\ Way(q) /\ Doing(q) /\ q.pc = "removeList"
      /\ q.at \in Devices /\ q.op # "refreshToken" /\ q.op # "renewTimeout"
  BY <1>0 DEF IInv, RequestsOK, Sited, RemoveList, Way, Kicked, Shape, Doing, Ends
<1>2. q.at \in Scope(q) BY <1>1, AtInScope
<1>3. Gone({q.at}) BY <1>1 DEF Doing, Ends
<1>4. list' = Without(q.at) /\ handed' = handed
      /\ UNCHANGED <<mode, now, exp, place, black, forked, session>>
  BY <1>0 DEF RemoveList, past
<1>5. Calm BY <1>4 DEF Calm
<1>6. \A d \in Devices : d # q.at => Listed'[d] = Listed[d]
  BY <1>1, <1>4, EmptyingList, ListedIsIndex DEF IInv, IndexOf
<1>7. Kept'
  <2>1. SUFFICES ASSUME NEW t, NEW d, t \in Good', d = place'[t]
                 PROVE  /\ Holds(d, t)' /\ Listed'[d] \in {t, Null}
                        /\ mode' = "single" => Carries(d, t)' /\ Good' = {t}
    BY KeptBy
  <2>2. t \in Good /\ d = place[t] /\ d \in Devices /\ t # Null
    BY <1>4, <1>5, <2>1, QuietGood, GoodAreSited
  <2>3. d # q.at BY <1>3, <2>2 DEF Gone
  <2>4. mode = "single" => Good' = {t}
    BY <1>4, <1>5, <2>1, <2>2, QuietGood DEF Kicked, Kept
  <2>5. Listed'[d] = Listed[d] BY <1>6, <2>2, <2>3
  <2>6. mode = "single" => Carries(d, t)'
    <3>1. SUFFICES ASSUME mode = "single" PROVE Carries(d, t)' OBVIOUS
    <3>2. Carries(d, t) BY <2>2, <3>1 DEF Kicked, Kept
    <3>3. list' # Null /\ list'.end = list.end
      BY <1>1, <1>4, <2>2, <2>5, <3>2, EndOfWithout DEF IInv, Carries
    <3> QED BY <1>4, <2>5, <3>1, <3>2, <3>3 DEF Carries
  <2> QED BY <1>4, <2>2, <2>4, <2>5, <2>6 DEF Kicked, Kept, Holds
<1>8. ASSUME NEW n, Become(r, n), n \in RequestOf(Signed), Way(n), Shape(n), Doing(n),
             n.next = Null \/ n.next = q.next, n.pc \notin {"addList", "writeFamily", "writeSession"}
      PROVE  Kicked'
  <2>1. ~Placed(n) /\ ~Writes(n) BY <1>8 DEF Placed, Writes
  <2>2. Doing(n)' BY <1>4, <1>5, <1>8, <2>1, OwnStays
  <2> QED BY <1>0, <1>1, <1>2, <1>4, <1>5, <1>6, <1>7, <1>8, <2>1, <2>2, KickWrite
<1>9. CASE Become(r, Idle)
  <2>1. Idle.next = Null /\ Idle.pc = "idle" BY DEF Idle
  <2> QED BY <1>8, <1>9, <2>1, IdleIsRequest, IdleWay, IdleDoing
<1>10. ASSUME q.op = "forceLogout", NEW n \in NextDevice(q), Become(r, n) PROVE Kicked'
  <2>1. Loops(q) /\ q.op \in Looping BY <1>10 DEF Loops, AccountOps, Looping
  <2>2. Way(n) BY <1>1, <1>10, <2>1, NextDeviceWay
  <2>3. n \in RequestOf(Signed) /\ Shape(n)
    BY <1>1, <1>10, <2>1, NextDeviceShape DEF IInv
  <2>4. /\ \A t \in Good : q.todo[place[t]] \in {t, Null}
        /\ q.next # Null => q.next \notin handed /\ exp[q.next] <= now + q.ttl
    BY <1>1 DEF Doing, Ends, Brings
  <2>5. Doing(n) /\ (n.next = Null \/ n.next = q.next)
    BY <1>1, <1>10, <2>1, <2>4, NextDeviceDoing
  <2>6. n.pc \notin {"addList", "writeFamily", "writeSession"} BY <1>1, <1>10, NextDevicePc
  <2> QED BY <1>8, <1>10, <2>2, <2>3, <2>5, <2>6
<1> QED BY <1>0, <1>9, <1>10 DEF RemoveList

LEMMA KickDropList ==
  ASSUME IInv, Sited, Separate, Kicks, Kicked, NEW r \in Reqs, DropList(r) PROVE Kicked'
<1>0. PICK q : q = req[r] OBVIOUS
<1>1. /\ q \in RequestOf(Signed) /\ Shape(q) /\ Way(q) /\ Doing(q) /\ q.pc = "dropList"
      /\ Loops(q) /\ q.op # "refreshToken"
  BY <1>0 DEF IInv, RequestsOK, Sited, DropList, Way, Kicked, Shape
<1>2. Scope(q) = Devices /\ DefaultDevice \in Devices BY <1>1, ScopeOfLoop, JwtAssumption
<1>3. mode = "single" => Good = {} BY <1>1 DEF Doing, Ends
<1>4. list' = Null /\ handed' = handed
      /\ UNCHANGED <<mode, now, exp, place, black, forked, session>>
  BY <1>0 DEF DropList, past
<1>5. Calm BY <1>4 DEF Calm
<1>6. Kept'
  <2>1. SUFFICES ASSUME NEW t, NEW d, t \in Good', d = place'[t]
                 PROVE  /\ Holds(d, t)' /\ Listed'[d] \in {t, Null}
                        /\ mode' = "single" => Carries(d, t)' /\ Good' = {t}
    BY KeptBy
  <2>2. t \in Good /\ d = place[t] /\ d \in Devices
    BY <1>4, <1>5, <2>1, QuietGood, GoodAreSited
  <2>3. Listed'[d] = Null BY <1>4, <2>2 DEF Listed, Empty
  <2> QED BY <1>3, <1>4, <2>2, <2>3 DEF Kicked, Kept, Holds
<1>7. ASSUME NEW n, Become(r, n), n \in RequestOf(Signed), Way(n), Shape(n), Doing(n),
             n.next = Null \/ n.next = q.next, n.pc \in {"sign", "idle"}
      PROVE  Kicked'
  <2>1. ~Placed(n) /\ ~Writes(n) BY <1>7 DEF Placed, Writes
  <2>2. Doing(n)' BY <1>4, <1>5, <1>7, <2>1, OwnStays
  <2> QED BY <1>0, <1>1, <1>2, <1>4, <1>5, <1>6, <1>7, <2>1, <2>2, KickWrite
<1>8. CASE Become(r, Idle)
  <2>1. Idle.next = Null /\ Idle.pc = "idle" BY DEF Idle
  <2> QED BY <1>7, <1>8, <2>1, IdleIsRequest, IdleWay, IdleDoing
<1>9. CASE q.op = "login" /\ Become(r, [q EXCEPT !.pc = "sign"])
  <2>1. PICK n : n = [q EXCEPT !.pc = "sign"] OBVIOUS
  <2>2. /\ n \in RequestOf(Signed)
        /\ n.op = q.op /\ n.at = q.at /\ n.todo = q.todo /\ n.ttl = q.ttl /\ n.home = q.home
        /\ n.pc = "sign" /\ n.next = q.next
    BY <1>1, <2>1 DEF RequestOf, PCs
  <2>3. mode = "single" BY <1>1, <1>9 DEF Way
  <2>4. Way(n) BY <1>1, <1>9, <2>2, <2>3 DEF Way, HandsOut, TokenOps, Loops, Looping
  <2>5. Shape(n) BY <1>1, <1>9, <2>2 DEF Shape
  <2>6. Ends(n) BY <1>3, <1>9, <2>2, <2>3 DEF Ends, TokenOps
  <2>7. Brings(n)
    BY <1>1, <1>3, <1>9, <2>2, <2>3 DEF Doing, Brings, Writes, Placed, HandsOut, Gone
  <2> QED BY <1>7, <1>9, <2>1, <2>2, <2>4, <2>5, <2>6, <2>7 DEF Doing
<1> QED BY <1>0, <1>8, <1>9 DEF DropList

LEMMA KickAddList ==
  ASSUME IInv, Sited, Separate, Kicks, Kicked, NEW r \in Reqs, AddList(r) PROVE Kicked'
<1>0. PICK q : q = req[r] OBVIOUS
<1>1. /\ q \in RequestOf(Signed) /\ Shape(q) /\ Way(q) /\ Doing(q) /\ q.pc = "addList"
      /\ q.ttl \in Nat
  BY <1>0 DEF IInv, RequestsOK, Sited, AddList, Kicked, RequestOf
<1>2. /\ q.op \in {"login", "refreshToken"} /\ q.at \in Devices /\ q.at \in Scope(q)
      /\ q.next \in Signed /\ q.next \in Tokens /\ q.next # Null /\ place[q.next] = q.at
  BY <1>1, HandsOutWay DEF HandsOut
<1>3. Gone(Domain(q.at)) /\ q.at \in Domain(q.at) /\ (mode = "single" => Domain(q.at) = Devices)
  BY <1>1, <1>2 DEF Doing, Brings, Writes, HandsOut, Domain
<1>4. /\ list' = Put([Listed EXCEPT ![q.at] = q.next], q.ttl)
      /\ UNCHANGED <<mode, now, exp, place, black, forked, session>>
  BY <1>0 DEF AddList, past
<1>5. Calm BY <1>4 DEF Calm
<1>6. /\ Listed' = [Listed EXCEPT ![q.at] = q.next] /\ list' # Null /\ list'.end = now + q.ttl
      /\ Listed \in IndexOf(Signed)
  <2>1. Listed \in IndexOf(Signed) BY ListedIsIndex DEF IInv
  <2>2. [Listed EXCEPT ![q.at] = q.next] \in IndexOf(Signed)
    BY <1>2, <2>1 DEF IndexOf
  <2> QED BY <1>1, <1>4, <2>1, <2>2, PutIsListed DEF IInv
<1>7. Listed'[q.at] = q.next /\ \A d \in Devices : d # q.at => Listed'[d] = Listed[d]
  BY <1>2, <1>6 DEF IndexOf
<1>8. exp[q.next] <= now + q.ttl BY <1>1, <1>2 DEF Doing, Brings
<1>9. Carries(q.at, q.next)' BY <1>4, <1>6, <1>7, <1>8 DEF Carries
<1>10. mode = "single" => Good = {}
  BY <1>3, GoodAreSited DEF Gone
<1>11. handed' = handed \/ handed' = handed \cup {q.next} BY <1>0 DEF AddList
<1>12. ASSUME NEW t, t \in Good'
       PROVE  \/ t \in Good /\ place'[t] = place[t] /\ place[t] # q.at /\ place[t] \in Devices
                 /\ mode # "single"
              \/ t = q.next /\ handed' = handed \cup {q.next} /\ Clear(q.at)
  <2>1. CASE t \in handed
    <3>1. t \in Good /\ place'[t] = place[t] BY <1>5, <1>12, <2>1, GoodStays
    <3>2. place[t] # q.at BY <1>3, <3>1 DEF Gone
    <3> QED BY <1>10, <3>1, <3>2, GoodAreSited
  <2>2. CASE t \notin handed
    <3>1. t = q.next /\ handed' = handed \cup {q.next} BY <1>11, <1>12, <2>2 DEF Good
    <3>2. Clear(place[t])' BY <1>12 DEF Good
    <3>3. Clear(q.at)' BY <1>2, <1>4, <3>1, <3>2 DEF Clear
    <3> QED BY <1>5, <3>1, <3>3, ClearStays
  <2> QED BY <2>1, <2>2
<1>13. Clear(q.at) => Holds(q.at, q.next) BY <1>1 DEF Doing, Brings, Placed
<1>14. Kept'
  <2>1. SUFFICES ASSUME NEW t, NEW d, t \in Good', d = place'[t]
                 PROVE  /\ Holds(d, t)' /\ Listed'[d] \in {t, Null}
                        /\ mode' = "single" => Carries(d, t)' /\ Good' = {t}
    BY KeptBy
  <2>2. CASE t \in Good /\ d = place[t] /\ d # q.at /\ d \in Devices /\ mode # "single"
    BY <1>4, <1>7, <2>2 DEF Kicked, Kept, Holds
  <2>3. CASE t = q.next /\ d = q.at /\ Clear(q.at)
    <3>1. Holds(q.at, q.next)' BY <1>4, <1>13, <2>3 DEF Holds
    <3>2. mode = "single" => Good' = {t} BY <1>12, <2>1, <2>3
    <3> QED BY <1>4, <1>7, <1>9, <2>3, <3>1, <3>2
  <2> QED BY <1>2, <1>4, <1>12, <2>1, <2>2, <2>3
<1>15. \A d \in Devices : d \notin Scope(q) => session'[d] = session[d] /\ Listed'[d] = Listed[d]
  BY <1>2, <1>4, <1>7
<1>16. q.pc # "idle" /\ Scope(q) \cap Devices # {} /\ q.pc \in HandsOut
       /\ (q.op = "refreshToken" => Writes(q))
  BY <1>1, <1>2 DEF Writes, HandsOut
<1>17. CASE q.op = "login" /\ Become(r, [q EXCEPT !.pc = "writeFamily"]) /\ handed' = handed
  <2>1. PICK n : n = [q EXCEPT !.pc = "writeFamily"] OBVIOUS
  <2>2. /\ n.op = q.op /\ n.at = q.at /\ n.todo = q.todo /\ n.ttl = q.ttl /\ n.home = q.home
        /\ n.pc = "writeFamily" /\ n.token = q.token /\ n.next = q.next
    BY <1>1, <2>1 DEF RequestOf
  <2>3. \A t \in Good' : t \in Good BY <1>5, <1>17, QuietGood
  <2>4. Holds(q.at, q.next) => Holds(q.at, q.next)' BY <1>4 DEF Holds
  <2>5. ~(q.op = "login" /\ q.pc = "writeFamily") BY <1>1
  <2>6. q.next # Null => q.next \notin handed' BY <1>1, <1>17 DEF Doing, Brings
  <2>7. Doing(q)' BY <1>1, <1>5, <2>3, <2>4, <2>5, <2>6, DoingStays
  <2>8. Ends(n)' BY <1>1, <1>17, <2>2, <2>7 DEF Doing, Ends, TokenOps
  <2>9. Carries(n.at, n.next)' BY <1>9, <2>2 DEF Carries
  <2>10. (Clear(n.at) => Holds(n.at, n.next))'
    BY <1>1, <2>2, <2>7 DEF Doing, Brings, Placed, Clear, Holds
  <2>11. Gone(Domain(n.at))' BY <1>1, <1>17, <2>2, <2>7 DEF Doing, Brings, HandsOut, Gone, Domain
  <2>12. Brings(n)' BY <1>17, <2>2, <2>6, <2>7, <2>9, <2>10, <2>11 DEF Doing, Brings, Writes
  <2>13. Writes(n) => Writes(q) /\ n.at = q.at BY <1>17, <2>2 DEF Writes
  <2> QED BY <1>0, <1>5, <1>11, <1>14, <1>15, <1>16, <1>17, <2>1, <2>2, <2>8, <2>12, <2>13,
             KickWrite DEF Doing
<1>18. CASE q.op = "refreshToken" /\ Become(r, Idle)
  <2>1. ~Writes(Idle) /\ Idle.next = Null BY DEF Writes, Idle
  <2>2. Doing(Idle)'
    <3>1. /\ Idle.op = Null /\ Idle.pc = "idle" /\ Idle.next = Null
          /\ \A d \in Devices : Idle.todo[d] = Null
      BY DEF Idle, Empty
    <3>2. Null \notin AllOps BY JwtAssumption
    <3>3. \A t \in Good' : place'[t] \in Devices BY <1>2, <1>4, <1>12
    <3>4. Ends(Idle)' BY <3>1, <3>2, <3>3 DEF Ends, AllOps, TokenOps, AccountOps
    <3>5. Brings(Idle)' BY <3>1, <3>2 DEF Brings, Writes, Placed, HandsOut
    <3> QED BY <3>4, <3>5 DEF Doing
  <2> QED BY <1>0, <1>5, <1>11, <1>14, <1>15, <1>16, <1>18, <2>1, <2>2, KickWrite
<1> QED BY <1>0, <1>17, <1>18 DEF AddList

LEMMA KickLoginEnds ==
  ASSUME IInv, Sited, Separate, Kicks, Kicked, NEW r \in Reqs,
         WriteFamily(r), req[r].op = "login"
  PROVE  Kicked'
<1>0. PICK q : q = req[r] OBVIOUS
<1>1. /\ q \in RequestOf(Signed) /\ Shape(q) /\ Way(q) /\ Doing(q) /\ q.pc = "writeFamily"
      /\ q.op = "login"
  BY <1>0 DEF IInv, RequestsOK, Sited, WriteFamily, Kicked
<1>2. /\ q.at \in Devices /\ q.at \in Scope(q) /\ q.next \in Signed /\ place[q.next] = q.at
  BY <1>1, HandsOutWay DEF HandsOut
<1>3. Gone(Domain(q.at)) /\ q.at \in Domain(q.at) /\ (mode = "single" => Domain(q.at) = Devices)
      /\ Carries(q.at, q.next) /\ (Clear(q.at) => Holds(q.at, q.next))
  BY <1>1, <1>2 DEF Doing, Brings, Placed, HandsOut, Domain
<1>4. /\ UNCHANGED <<mode, now, exp, place, black, forked, session, list>>
      /\ handed' = handed \cup {q.next} /\ Become(r, Idle)
  BY <1>0, <1>1 DEF WriteFamily
<1>5. Calm /\ Listed' = Listed BY <1>4 DEF Calm, Listed
<1>6. mode = "single" => Good = {} BY <1>3, GoodAreSited DEF Gone
<1>7. ASSUME NEW t, t \in Good'
      PROVE  \/ t \in Good /\ place'[t] = place[t] /\ place[t] # q.at /\ place[t] \in Devices
                /\ mode # "single"
             \/ t = q.next /\ Clear(q.at)
  <2>1. CASE t \in handed
    <3>1. t \in Good /\ place'[t] = place[t] BY <1>5, <1>7, <2>1, GoodStays
    <3>2. place[t] # q.at BY <1>3, <3>1 DEF Gone
    <3> QED BY <1>6, <3>1, <3>2, GoodAreSited
  <2>2. CASE t \notin handed
    <3>1. t = q.next BY <1>4, <1>7, <2>2 DEF Good
    <3>2. Clear(place[t])' BY <1>7 DEF Good
    <3>3. Clear(q.at)' BY <1>2, <1>4, <3>1, <3>2 DEF Clear
    <3> QED BY <1>5, <3>1, <3>3, ClearStays
  <2> QED BY <2>1, <2>2
<1>8. Kept'
  <2>1. SUFFICES ASSUME NEW t, NEW d, t \in Good', d = place'[t]
                 PROVE  /\ Holds(d, t)' /\ Listed'[d] \in {t, Null}
                        /\ mode' = "single" => Carries(d, t)' /\ Good' = {t}
    BY KeptBy
  <2>2. CASE t \in Good /\ d = place[t] /\ mode # "single"
    BY <1>4, <1>5, <2>2 DEF Kicked, Kept, Holds
  <2>3. CASE t = q.next /\ d = q.at /\ Clear(q.at)
    <3>1. mode = "single" => Good' = {t} BY <1>7, <2>1, <2>3
    <3>2. Holds(q.at, q.next)' /\ Carries(q.at, q.next)'
      BY <1>3, <1>4, <1>5, <2>3 DEF Holds, Carries
    <3> QED BY <1>3, <1>4, <1>5, <2>3, <3>1, <3>2 DEF Carries
  <2> QED BY <1>2, <1>4, <1>7, <2>1, <2>2, <2>3
<1>9. ~Writes(Idle) /\ Idle.next = Null BY DEF Writes, Idle
<1>10. Doing(Idle)'
  <2>1. /\ Idle.op = Null /\ Idle.pc = "idle" /\ Idle.next = Null
        /\ \A d \in Devices : Idle.todo[d] = Null
    BY DEF Idle, Empty
  <2>2. Null \notin AllOps BY JwtAssumption
  <2>3. \A t \in Good' : place'[t] \in Devices BY <1>2, <1>4, <1>7
  <2>4. Ends(Idle)' BY <2>1, <2>2, <2>3 DEF Ends, AllOps, TokenOps, AccountOps
  <2>5. Brings(Idle)' BY <2>1, <2>2 DEF Brings, Writes, Placed, HandsOut
  <2> QED BY <2>4, <2>5 DEF Doing
<1>11. q.pc # "idle" /\ Scope(q) \cap Devices # {} /\ q.pc \in HandsOut /\ q.op # "refreshToken"
  BY <1>1, <1>2 DEF HandsOut
<1> QED BY <1>0, <1>4, <1>5, <1>8, <1>9, <1>10, <1>11, KickWrite

(* Where no key changes and nothing is handed out, tokens can only cease to *)
(* be accepted. *)
LEMMA KeysStayDoing ==
  ASSUME IInv, Sited, Kicks, Calm, UNCHANGED <<session, list, handed>>,
         NEW p, p \in RequestOf(Signed), Way(p), Shape(p), Doing(p)
  PROVE  Doing(p)'
<1>1. p.pc \in HandsOut => p.next \in Signed BY HandsOutWay
<1>2. Placed(p) /\ Holds(p.at, p.next) => Holds(p.at, p.next)'
  BY <1>1 DEF Placed, HandsOut, Holds, Calm
<1>3. Listed' = Listed BY DEF Listed
<1>4. p.op = "login" /\ p.pc = "writeFamily" /\ Carries(p.at, p.next) => Carries(p.at, p.next)'
  BY <1>1, <1>3 DEF Calm, Carries, HandsOut
<1>5. p.next # Null => p.next \notin handed' BY DEF Doing, Brings
<1> QED BY <1>2, <1>4, <1>5, QuietGood, DoingStays

LEMMA KeysStayKept ==
  ASSUME IInv, Sited, Kept, Calm, UNCHANGED <<session, list, handed>>
  PROVE  Kept'
<1>1. SUFFICES ASSUME NEW t, NEW d, t \in Good', d = place'[t]
               PROVE  /\ Holds(d, t)' /\ Listed'[d] \in {t, Null}
                      /\ mode' = "single" => Carries(d, t)' /\ Good' = {t}
  BY KeptBy
<1>2. t \in Good /\ d = place[t] /\ exp'[t] = exp[t] /\ mode' = mode
  BY <1>1, QuietGood DEF Calm
<1>3. Listed' = Listed BY DEF Listed
<1>4. mode = "single" => Good' = {t} BY <1>1, <1>2, QuietGood DEF Kept
<1> QED BY <1>2, <1>3, <1>4 DEF Kept, Holds, Carries

LEMMA BlackStays ==
  ASSUME IInv, NEW r \in Reqs, SetBlack(r), NEW q, q = req[r]
  PROVE  /\ Calm /\ UNCHANGED <<session, list, handed, place, exp, mode, now>>
         /\ black'[q.token] # Null /\ q.token \in Tokens /\ q.token # Null
         /\ forked' = Forks(q)
<1>1. q \in RequestOf(Signed) /\ Shape(q) /\ q.pc = "setBlack"
  BY DEF IInv, RequestsOK, SetBlack
<1>2. q.token \in Tokens /\ q.token # Null
  BY <1>1, SignedAreTokens DEF IInv, Shape, RequestOf
<1>3. PICK e : e = now + (IF q.op = "refreshToken" THEN q.ttl ELSE Timeout) OBVIOUS
<1>4. e # Null
  <2>1. e \in Nat BY <1>1, <1>3, JwtAssumption DEF IInv, KnownOK, RequestOf
  <2> QED BY <2>1, JwtAssumption
<1>5. /\ black' = [black EXCEPT ![q.token] = e] /\ forked' = Forks(q)
      /\ UNCHANGED <<session, list, handed, place, exp, mode, now>>
  BY <1>3 DEF SetBlack
<1>6. forked \subseteq forked' BY <1>5 DEF Forks
<1>7. black'[q.token] # Null /\ \A t \in Tokens : black[t] # Null => black'[t] # Null
  BY <1>2, <1>4, <1>5 DEF IInv, KnownOK
<1> QED BY <1>2, <1>5, <1>6, <1>7 DEF Calm

(* What a refresh that retires its token learns of its device. *)
LEMMA RetiredIsGone ==
  ASSUME IInv, Sited, Kicks, Kicked, NEW r \in Reqs, SetBlack(r), NEW q, q = req[r],
         q.op = "refreshToken", Clear(q.at)'
  PROVE  /\ black[q.token] = Null /\ q.token \in Good /\ place[q.token] = q.at
         /\ Gone(Domain(q.at))'
<1>1. q \in RequestOf(Signed) /\ Shape(q) /\ Way(q) /\ q.pc = "setBlack"
  BY DEF IInv, RequestsOK, Sited, SetBlack
<1>2. /\ place[q.token] = q.at /\ q.token \in handed /\ Verified(q.token)
  BY <1>1 DEF Way, TokenOps, Renewing
<1>3. /\ Calm /\ UNCHANGED <<session, list, handed, place, exp, mode, now>>
      /\ black'[q.token] # Null /\ forked' = Forks(q)
  BY BlackStays
<1>4. black[q.token] = Null
  <2>1. SUFFICES ASSUME black[q.token] # Null PROVE FALSE OBVIOUS
  <2>2. q.at \in forked' BY <1>3, <2>1 DEF Forks
  <2> QED BY <1>3, <2>2 DEF Clear
<1>5. Clear(q.at) BY <1>3, ClearStays
<1>6. q.token \in Good BY <1>2, <1>4, <1>5 DEF Good, Accepts
<1>7. Gone(Domain(q.at))'
  <2>1. SUFFICES ASSUME NEW t, t \in Good', place'[t] \in Domain(q.at) PROVE FALSE
    BY <1>3 DEF Gone, Domain
  <2>2. t \in Good /\ place'[t] = place[t] BY <1>3, <2>1, QuietGood
  <2>3. t # q.token BY <1>3, <2>1 DEF Good, Accepts
  <2>4. CASE mode = "single" BY <1>6, <2>2, <2>3, <2>4 DEF Kicked, Kept
  <2>5. CASE mode # "single"
    <3>1. place[t] = q.at BY <2>1, <2>2, <2>5 DEF Domain
    <3> QED BY <1>2, <1>6, <2>2, <2>3, <3>1 DEF Kicked, Kept, Holds
  <2> QED BY <2>4, <2>5
<1> QED BY <1>2, <1>4, <1>6, <1>7

LEMMA KickSetBlack ==
  ASSUME IInv, Sited, Kicks, Kicked, NEW r \in Reqs, SetBlack(r) PROVE Kicked'
<1>0. PICK q : q = req[r] OBVIOUS
<1>1. /\ q \in RequestOf(Signed) /\ Shape(q) /\ Way(q) /\ Doing(q) /\ q.pc = "setBlack"
      /\ q.op # "renewTimeout"
  BY <1>0 DEF IInv, RequestsOK, Sited, SetBlack, Kicked, Doing, Ends
<1>2. /\ Calm /\ UNCHANGED <<session, list, handed, place, exp, mode, now>>
      /\ black'[q.token] # Null
  BY <1>0, BlackStays
<1>3. Kept' BY <1>2, KeysStayKept DEF Kicked
<1>4. PICK n : n = [q EXCEPT !.pc = AfterBlack(q)] OBVIOUS
<1>5. /\ n.op = q.op /\ n.at = q.at /\ n.todo = q.todo /\ n.ttl = q.ttl /\ n.home = q.home
      /\ n.pc = AfterBlack(q) /\ n.token = q.token /\ n.next = q.next
  BY <1>1, <1>4 DEF RequestOf
<1>6. Become(r, n) BY <1>0, <1>4 DEF SetBlack
<1>7. Doing(q)' BY <1>1, <1>2, KeysStayDoing
<1>8. q.token \notin Good' BY <1>2 DEF Good, Accepts
<1>9. ASSUME Writes(n)
      PROVE  q.op = "refreshToken"
  BY <1>5, <1>9 DEF Writes
<1>10. Doing(n)'
  <2>1. CASE q.op = "endToken"
    <3>1. n.pc = "readInfo" BY <1>5, <2>1 DEF AfterBlack
    <3>2. Ends(n)' BY <1>2, <1>5, <1>7, <2>1, <3>1 DEF Doing, Ends, TokenOps
    <3>3. Brings(n)' BY <1>5, <1>7, <2>1, <3>1 DEF Doing, Brings, Writes, Placed
    <3> QED BY <3>2, <3>3 DEF Doing
  <2>2. CASE q.op = "refreshToken"
    <3>1. n.pc = "writeSession" BY <1>5, <2>2 DEF AfterBlack
    <3>2. Ends(n)' BY <1>5, <1>7, <2>2, <3>1 DEF Doing, Ends, TokenOps
    <3>3. Gone(Domain(n.at))'
      <4>1. CASE Clear(q.at)'
        <5>1. Gone(Domain(q.at))' BY <1>0, <2>2, <4>1, RetiredIsGone
        <5> QED BY <1>5, <5>1 DEF Gone, Domain
      <4>2. CASE ~Clear(q.at)'
        <5>1. SUFFICES ASSUME NEW t, t \in Good', place'[t] \in Domain(q.at) PROVE FALSE
          BY <1>2, <1>5 DEF Gone, Domain
        <5>2. Clear(place[t])' BY <5>1 DEF Good
        <5> QED BY <1>2, <4>2, <5>1, <5>2 DEF Clear, Domain
      <4> QED BY <4>1, <4>2
    <3>4. Brings(n)' BY <1>5, <1>7, <2>2, <3>1, <3>3 DEF Doing, Brings, Writes, Placed
    <3> QED BY <3>2, <3>4 DEF Doing
  <2>3. CASE q.op \notin TokenOps
    <3>1. n.pc = "dropSession" BY <1>5, <2>3 DEF AfterBlack, TokenOps
    <3>2. Gone({n.at})' BY <1>1, <1>5, <1>7, <1>8, <2>3 DEF Doing, Ends, Gone
    <3>3. Ends(n)' BY <1>1, <1>5, <1>7, <1>8, <2>3, <3>1, <3>2 DEF Doing, Ends, TokenOps
    <3>4. Brings(n)' BY <1>5, <1>7, <2>3, <3>1 DEF Doing, Brings, Writes, Placed, HandsOut, TokenOps
    <3> QED BY <3>3, <3>4 DEF Doing
  <2> QED BY <1>1, <2>1, <2>2, <2>3 DEF TokenOps
<1>11. ASSUME NEW p, NEW x \in Reqs, x # r, p = req[x]
       PROVE  Doing(p)' /\ Paired(n, p)' /\ Paired(p, n)'
  <2>1. /\ p \in RequestOf(Signed) /\ Shape(p) /\ Way(p) /\ Doing(p)
        /\ Paired(q, p) /\ Paired(p, q)
    BY <1>0, <1>11 DEF IInv, RequestsOK, Sited, Kicked, Pairs
  <2>2. Doing(p)' BY <1>2, <2>1, KeysStayDoing
  <2>3. ASSUME Writes(n), Writes(p), Domain(n.at)' = Domain(p.at)'
        PROVE  ~Clear(n.at)' /\ ~Clear(p.at)'
    <3>1. q.op = "refreshToken" BY <1>9, <2>3
    <3>2. Domain(q.at) = Domain(p.at) BY <1>2, <1>5, <2>3 DEF Domain
    <3>3. ~Clear(q.at)'
      <4>1. SUFFICES ASSUME Clear(q.at)' PROVE FALSE OBVIOUS
      <4>2. q.token \in Good /\ place[q.token] = q.at BY <1>0, <3>1, <4>1, RetiredIsGone
      <4>3. q.at \in Domain(p.at)
        <5>1. q.at \in Devices BY <4>2, GoodAreSited
        <5>2. q.at \in Domain(q.at) BY <5>1 DEF Domain
        <5> QED BY <3>2, <5>2
      <4> QED BY <2>1, <2>3, <4>2, <4>3 DEF Doing, Brings, Gone
    <3>4. mode # "single" => q.at = p.at BY <3>2 DEF Domain
    <3> QED BY <1>2, <1>5, <3>3, <3>4 DEF Clear
  <2>4. Paired(n, p)' BY <1>5, <2>1, <2>3 DEF Paired, Writes
  <2>5. Paired(p, n)' BY <1>5, <2>1, <2>3 DEF Paired, Writes
  <2> QED BY <2>2, <2>4, <2>5
<1> QED BY <1>2, <1>3, <1>6, <1>10, <1>11, KickGoesOn

(* The try block in the loops is meant for tokens that do not verify: in    *)
(* single mode a loop that goes on without the entry ends Kicks, and the    *)
(* loop of logoutByLoginId goes on to the next device.                      *)
LEMMA KickFails ==
  ASSUME IInv, Sited, Kicks, Kicked, NEW r \in Reqs, SetBlackFails(r) \/ Abort(r), Kicks'
  PROVE  Kicked'
<1>0. PICK q : q = req[r] OBVIOUS
<1>1. /\ q \in RequestOf(Signed) /\ Shape(q) /\ Way(q) /\ Doing(q)
  BY <1>0 DEF IInv, RequestsOK, Sited, Kicked
<1>2. Still BY DEF SetBlackFails, Abort, Still, store, past
<1>3. CASE Abort(r)
  <2>1. Idle.next = Null /\ ~Writes(Idle) BY DEF Idle, Writes
  <2>2. Doing(Idle)' BY <1>2, IdleIsRequest, IdleWay, IdleDoing, StillDoing
  <2> QED BY <1>2, <1>3, <2>1, <2>2, KickStill DEF Abort
<1>4. CASE SetBlackFails(r)
  <2>1. mode # "single" BY <1>2, <1>4 DEF SetBlackFails, Still, Kicks
  <2>2. q.op = "logoutByLoginId" /\ \E n \in NextDevice(q) : Become(r, n)
    BY <1>0, <1>4, <2>1 DEF SetBlackFails
  <2>3. PICK n \in NextDevice(q) : Become(r, n) BY <2>2
  <2>4. Loops(q) /\ q.op \in Looping /\ q.op # "login"
    BY <2>2 DEF Loops, Looping, AccountOps
  <2>5. n \in RequestOf(Signed) /\ Shape(n) BY <1>1, <2>4, NextDeviceShape DEF IInv
  <2>6. Way(n) BY <1>1, <2>4, NextDeviceWay
  <2>7. /\ \A t \in Good : q.todo[place[t]] \in {t, Null}
        /\ q.next # Null => q.next \notin handed /\ exp[q.next] <= now + q.ttl
    BY <1>1 DEF Doing, Ends, Brings
  <2>8. Doing(n) /\ ~Writes(n) /\ (n.next = Null \/ n.next = q.next)
    BY <1>1, <2>1, <2>4, <2>7, NextDeviceDoing
  <2>9. Doing(n)' BY <1>2, <2>5, <2>6, <2>8, StillDoing
  <2> QED BY <1>0, <1>2, <2>3, <2>8, <2>9, KickStill
<1> QED BY <1>3, <1>4

(* Time passes: a token that is accepted then is accepted now, and the keys *)
(* that hold it outlast it.                                                 *)
LEMMA GoodAfterTick ==
  ASSUME IInv, Sited, Lasts, Tick, NEW t \in Good'
  PROVE  /\ t \in Good /\ place'[t] = place[t] /\ place[t] \in Devices
         /\ exp'[t] = exp[t] /\ exp[t] \in Nat /\ now + 1 < exp[t]
<1> DEFINE left == {u \in Tokens : exp[u] # Null /\ exp[u] > now + 1}
<1>1. /\ now' = now + 1 /\ UNCHANGED <<mode, exp>>
      /\ black' = [u \in Tokens |-> IF black[u] = now + 1 THEN Null ELSE black[u]]
      /\ place' = [u \in Tokens |-> IF u \in left THEN place[u] ELSE Null]
      /\ handed' = handed \cap left
      /\ forked' = IF mode = "single" /\ left # {} THEN forked
                   ELSE forked \cap {place[u] : u \in left}
  BY DEF Tick
<1>2. t \in handed' /\ black'[t] = Null /\ Clear(place[t])' BY DEF Good, Accepts
<1>3. t \in handed /\ t \in left /\ t \in Tokens BY <1>1, <1>2
<1>4. now \in Nat /\ exp[t] \in Nat /\ now + 1 < exp[t]
  BY <1>3 DEF IInv, KnownOK
<1>5. place'[t] = place[t] /\ place[t] \in {place[u] : u \in left}
  BY <1>1, <1>3
<1> HIDE DEF left
<1>6. Clear(place[t])
  <2>1. CASE mode = "single" BY <1>1, <1>2, <1>3, <2>1 DEF Clear
  <2>2. CASE mode # "single"
    <3>1. place[t] \notin forked' BY <1>1, <1>2, <1>5, <2>2 DEF Clear
    <3>2. forked' = forked \cap {place[u] : u \in left} BY <1>1, <2>2
    <3> QED BY <1>5, <2>2, <3>1, <3>2 DEF Clear
  <2> QED BY <2>1, <2>2
<1>7. Verified(t)
  <2>1. exp[t] # Null BY <1>4, JwtAssumption
  <2> QED BY <1>4, <2>1 DEF Verified
<1>8. black[t] = Null
  <2>1. SUFFICES ASSUME black[t] # Null PROVE FALSE OBVIOUS
  <2>2. exp[t] <= black[t] BY <1>3, <1>7, <2>1 DEF Lasts
  <2>3. black[t] = now + 1 BY <1>1, <1>2, <1>3, <2>1
  <2> QED BY <1>4, <2>2, <2>3
<1>9. t \in Good BY <1>3, <1>6, <1>7, <1>8 DEF Good, Accepts
<1> QED BY <1>1, <1>4, <1>5, <1>9, GoodAreSited

LEMMA KickTick ==
  ASSUME IInv, Sited, Lasts, Kicked, Tick PROVE Kicked'
<1>1. /\ now' = now + 1 /\ now \in Nat /\ UNCHANGED <<mode, exp, req>>
      /\ session' = [d \in Devices |-> Left(session[d])] /\ list' = Left(list)
  BY DEF Tick, IInv, KnownOK
<1>2. ASSUME NEW d \in Devices, NEW t, Holds(d, t), exp[t] \in Nat, now + 1 < exp[t]
      PROVE  Holds(d, t)'
  <2>1. session[d] # Null /\ session[d].end \in Nat BY <1>2 DEF IInv, KnownOK, Entry, Holds
  <2>2. session'[d] = session[d] BY <1>1, <1>2, <2>1 DEF Left, Holds
  <2> QED BY <1>1, <1>2, <2>2 DEF Holds
<1>3. \A d \in Devices : Listed'[d] \in {Listed[d], Null}
  BY <1>1 DEF Left, Listed, Empty
<1>4. ASSUME NEW d, NEW t, mode = "single", Carries(d, t), exp[t] \in Nat, now + 1 < exp[t]
      PROVE  Carries(d, t)'
  <2>1. list # Null /\ list.end \in Nat /\ exp[t] <= list.end
    BY <1>4 DEF IInv, KnownOK, Entry, Carries
  <2>2. list' = list BY <1>1, <1>4, <2>1 DEF Left
  <2> QED BY <1>1, <1>4, <2>2 DEF Carries, Listed
<1>5. Kept'
  <2>1. SUFFICES ASSUME NEW t, NEW d, t \in Good', d = place'[t]
                 PROVE  /\ Holds(d, t)' /\ Listed'[d] \in {t, Null}
                        /\ mode' = "single" => Carries(d, t)' /\ Good' = {t}
    BY KeptBy
  <2>2. /\ t \in Good /\ d = place[t] /\ d \in Devices /\ exp[t] \in Nat /\ now + 1 < exp[t]
    BY <2>1, GoodAfterTick
  <2>3. Holds(d, t) /\ Listed[d] \in {t, Null} /\ (mode = "single" => Carries(d, t) /\ Good = {t})
    BY <2>2 DEF Kicked, Kept
  <2>4. mode = "single" => Good' = {t} BY <2>1, <2>3, GoodAfterTick
  <2> QED BY <1>1, <1>2, <1>3, <1>4, <2>2, <2>3, <2>4
<1>6. \A r \in Reqs : req'[r] = Idle BY DEF Tick, Running, Sited, Way
<1>7. Doing(Idle)'
  <2>1. /\ Idle.op = Null /\ Idle.pc = "idle" /\ Idle.next = Null
        /\ \A d \in Devices : Idle.todo[d] = Null
    BY DEF Idle, Empty
  <2>2. Null \notin AllOps BY JwtAssumption
  <2>3. \A t \in Good' : place'[t] \in Devices BY GoodAfterTick
  <2>4. Ends(Idle)' BY <2>1, <2>2, <2>3 DEF Ends, AllOps, TokenOps, AccountOps
  <2>5. Brings(Idle)' BY <2>1, <2>2 DEF Brings, Writes, Placed, HandsOut
  <2> QED BY <2>4, <2>5 DEF Doing
<1>8. (\A r \in Reqs : Doing(req[r]))'
  BY <1>6, <1>7 DEF Doing, Ends, Brings
<1>9. Pairs'
  <2>1. Idle.next = Null /\ Idle.pc = "idle" BY DEF Idle
  <2> QED BY <1>6, <2>1 DEF Pairs, Paired, Writes
<1> QED BY <1>5, <1>8, <1>9 DEF Kicked

LEMMA InitKInv == Init => KInv
<1> SUFFICES ASSUME Init PROVE KInv OBVIOUS
<1>1. IInv /\ Sited BY InitIInv, InitSited
<1>2. Good = {} BY DEF Init, Good
<1>3. Lasts BY DEF Init, Lasts
<1>4. Kept BY <1>2 DEF Kept
<1>5. \A r \in Reqs : req[r] = Idle BY DEF Init
<1>6. \A r \in Reqs : Doing(req[r]) BY <1>1, <1>5, IdleDoing
<1>7. Idle.next = Null /\ Idle.pc = "idle" BY DEF Idle
<1>8. Pairs BY <1>5, <1>7 DEF Pairs, Paired, Writes
<1> QED BY <1>3, <1>4, <1>6, <1>8 DEF KInv, Kicked

(* Every step leads from Kicks to Kicks or ends it. *)
LEMMA KicksStay ==
  ASSUME IInv, Sited, [Next]_vars PROVE Kicks' => Kicks
<1>1. mode' = mode /\ (unwritten' = unwritten \/ unwritten' = TRUE)
  <2>1. ASSUME NEW r \in Reqs, Starts(r) PROVE UNCHANGED <<mode, unwritten>>
    BY <2>1, StartWay DEF Go, past
  <2>2. ASSUME NEW r \in Reqs, SetBlackFails(r) PROVE mode' = mode /\ unwritten' = TRUE
    BY <2>2 DEF SetBlackFails
  <2>3. ASSUME NEW r \in Reqs, Step(r), ~SetBlackFails(r) PROVE UNCHANGED <<mode, unwritten>>
    <3>1. CASE ReadSession(r) \/ ReadAll(r) \/ ReadInfo(r) \/ ReadBlack(r) \/ ReplayRead(r)
      BY <3>1 DEF ReadSession, ReadAll, ReadInfo, ReadBlack, ReplayRead, Go, past
    <3>2. CASE LoginSigns(r) \/ ReadFamily(r) \/ SetBlack(r)
      BY <3>2 DEF LoginSigns, ReadFamily, SetBlack, Go, past
    <3>3. CASE CasFamily(r) \/ ReplayCas(r) \/ WriteFamily(r)
      BY <3>3 DEF CasFamily, ReplayCas, WriteFamily, Go, past
    <3>4. CASE DropSession(r) \/ RemoveList(r) \/ DropList(r) \/ Abort(r)
      BY <3>4 DEF DropSession, RemoveList, DropList, Abort, past
    <3>5. CASE WriteSession(r) \/ AddList(r) \/ Touch(r)
      BY <3>5 DEF WriteSession, AddList, Touch, past
    <3> QED BY <2>3, <3>1, <3>2, <3>3, <3>4, <3>5 DEF Step
  <2>4. CASE Tick BY <2>4 DEF Tick
  <2>5. CASE UNCHANGED vars BY <2>5 DEF vars, past
  <2> QED BY <2>1, <2>2, <2>3, <2>4, <2>5 DEF Next, Step, Starts
<1> QED BY <1>1 DEF Kicks

LEMMA NextKInv ==
  Lasting /\ Overlap # "any" /\ LInv /\ KInv /\ [Next]_vars => KInv'
<1> SUFFICES ASSUME Lasting, Overlap # "any", LInv, KInv, [Next]_vars PROVE KInv' OBVIOUS
<1>1. IInv /\ Sited /\ Separate /\ Lasts BY DEF LInv, KInv
<1>2. Lasts' BY <1>1, LastsNext
<1>3. SUFFICES ASSUME Kicks' PROVE Kicked' BY <1>2 DEF KInv
<1>4. Kicks /\ Kicked BY <1>1, <1>3, KicksStay DEF KInv
<1>5. ASSUME NEW r \in Reqs, Starts(r) PROVE Kicked'
  BY <1>1, <1>4, <1>5, KickStarts
<1>6. ASSUME NEW r \in Reqs, Step(r) PROVE Kicked'
  <2>1. CASE ReadSession(r) BY <1>1, <1>4, <2>1, KickReadSession
  <2>2. CASE ReadAll(r) BY <1>1, <1>4, <2>2, KickReadAll
  <2>3. CASE ReadInfo(r) BY <1>1, <1>4, <2>3, KickReadInfo
  <2>4. CASE ReadBlack(r) BY <1>1, <1>4, <2>4, KickReadBlack
  <2>5. CASE LoginSigns(r) BY <1>1, <1>4, <2>5, KickLoginSigns
  <2>6. CASE ReadFamily(r) BY <1>1, <1>4, <2>6, KickReadFamily
  <2>7. CASE CasFamily(r) \/ ReplayRead(r) \/ ReplayCas(r)
    BY <1>1, <1>4, <2>7, KickFamily
  <2>8. CASE WriteFamily(r)
    <3>1. req[r].op \in {"refreshToken", "login"} BY <2>8 DEF WriteFamily
    <3> QED BY <1>1, <1>4, <2>8, <3>1, KickFamily, KickLoginEnds
  <2>9. CASE SetBlack(r) BY <1>1, <1>4, <2>9, KickSetBlack
  <2>10. CASE SetBlackFails(r) \/ Abort(r) BY <1>1, <1>3, <1>4, <2>10, KickFails
  <2>11. CASE DropSession(r) BY <1>1, <1>4, <2>11, KickDropSession
  <2>12. CASE RemoveList(r) BY <1>1, <1>4, <2>12, KickRemoveList
  <2>13. CASE DropList(r) BY <1>1, <1>4, <2>13, KickDropList
  <2>14. CASE WriteSession(r) BY <1>1, <1>4, <2>14, KickWriteSession
  <2>15. CASE AddList(r) BY <1>1, <1>4, <2>15, KickAddList
  <2>16. CASE Touch(r) BY <1>1, <1>4, <2>16, KickTouch
  <2> QED BY <1>6, <2>1, <2>2, <2>3, <2>4, <2>5, <2>6, <2>7, <2>8, <2>9, <2>10, <2>11, <2>12,
             <2>13, <2>14, <2>15, <2>16 DEF Step
<1>7. CASE Tick BY <1>1, <1>4, <1>7, KickTick
<1>8. CASE UNCHANGED vars
  <2>1. /\ UNCHANGED <<mode, now, exp, session, list, black, req, place, handed, forked>>
    BY <1>8 DEF vars, store, past
  <2>2. Still BY <2>1 DEF Still
  <2>3. Kept' BY <1>1, <1>4, <2>2, StillKept DEF Kicked
  <2>4. Calm BY <1>1, <2>2, StillGood
  <2>5. ASSUME NEW p, NEW x \in Reqs, p = req[x] PROVE Doing(p)'
    <3>1. p \in RequestOf(Signed) /\ Way(p) /\ Shape(p) /\ Doing(p)
      BY <1>1, <1>4, <2>5 DEF IInv, RequestsOK, Sited, Kicked
    <3> QED BY <1>1, <1>4, <2>2, <3>1, StillDoing
  <2>6. (\A x \in Reqs : Doing(req[x]))'
    <3> SUFFICES ASSUME NEW x \in Reqs PROVE Doing(req[x])' OBVIOUS
    <3>1. PICK p : p = req[x] OBVIOUS
    <3>2. Doing(p)' BY <2>5, <3>1
    <3> QED BY <2>1, <3>1, <3>2 DEF Doing, Ends, Brings
  <2>7. Pairs' BY <1>4, <2>1 DEF Kicked, Pairs, Paired, Writes, Domain, Clear
  <2> QED BY <2>3, <2>6, <2>7 DEF Kicked
<1> QED BY <1>5, <1>6, <1>7, <1>8 DEF Next, Starts

(* The modes that kick out leave clients at most one accepted token of each *)
(* device, or of the account, at every moment: where no two refreshes have  *)
(* retired the same token, an accepted token in a client's hands is the one *)
(* that the session key holds, and in single mode the only one.             *)
THEOREM OneAcceptedToken ==
  ASSUME Overlap # "any", Lasting PROVE Spec => []KickingLeavesOne
<1>1. LInv /\ KInv => KickingLeavesOne
  <2> SUFFICES ASSUME IInv, KInv PROVE KickingLeavesOne BY DEF LInv
  <2>2. OneTokenPerDevice
    <3>1. SUFFICES ASSUME mode = "replace", NEW t \in handed, NEW u \in handed, t # u,
                          place[t] = place[u], place[t] \notin forked, Accepts(t), Accepts(u)
                   PROVE  FALSE
      BY DEF OneTokenPerDevice
    <3>2. t \in Good /\ u \in Good BY <3>1 DEF Good, Clear
    <3> QED BY <3>1, <3>2 DEF KInv, Kicks, Kicked, Kept, Holds
  <2>3. OneTokenPerAccount
    <3>1. SUFFICES ASSUME mode = "single", ~unwritten, forked = {}, NEW t \in handed,
                          NEW u \in handed, t # u, Accepts(t), Accepts(u)
                   PROVE  FALSE
      BY DEF OneTokenPerAccount
    <3>2. t \in Good /\ u \in Good BY <3>1 DEF Good, Clear
    <3> QED BY <3>1, <3>2 DEF KInv, Kicks, Kicked, Kept
  <2> QED BY <2>2, <2>3 DEF KickingLeavesOne
<1>2. Init => LInv /\ KInv BY InitLInv, InitKInv
<1>3. (LInv /\ KInv) /\ [Next]_vars => (LInv /\ KInv)' BY NextLInv, NextKInv
<1> QED BY <1>1, <1>2, <1>3, PTL DEF Spec
=============================================================================
