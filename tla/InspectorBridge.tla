-------------------------- MODULE InspectorBridge --------------------------
(***************************************************************************)
(* The inspector's HTTP boundary: requests mounted on Express or Fastify,  *)
(* or handed to the bridge by the application itself, their parameters,    *)
(* the host's auth callback, the routes, and what an answer carries.       *)
(* Sessions begin and end between the awaits; the module Inspector has the *)
(* calls of the page and SessionPanel what the page makes of them.         *)
(***************************************************************************)
EXTENDS Integers, FiniteSets, Values

CONSTANTS
  Users, DeviceNames,
  DefaultDevice,    \* the device "default"
  Numbers,          \* that a query may hold; a text that is no number is as none
  Admin,            \* the bearer token the host's auth accepts
  Usual, Most,      \* sizes of a page: 20, 200
  UsualLimit,       \* of events: 100
  Newest            \* the buffer holds the events 1 .. Newest and is full

BridgeConstants ==
  /\ Numbers \subseteq Int /\ {Usual, UsualLimit} \subseteq Int /\ Null \notin Int
  /\ {Most, Newest} \subseteq Nat \ {0} /\ IsFiniteSet(Users)

ASSUME BridgeAssumption == BridgeConstants

VARIABLES
  mayMutate,
  ready,    \* can the lazily made instance be had?
  deviceLists,  \* the devices of each account that have a session
  stage,    \* of the request
  request,  \* as the bridge gets it
  answer

bridgeVars == <<mayMutate, ready, deviceLists, stage, request, answer>>

Route(method, path) == [method |-> method, path |-> path]

BRIDGE_ROUTE_TABLE ==
  {Route("GET", "/overview"), Route("GET", "/events"), Route("GET", "/metrics"),
   Route("GET", "/sessions"), Route("GET", "/session-devices"),
   Route("POST", "/actions/kickout"), Route("POST", "/actions/logout")}

INSPECTOR_ROUTES ==
  {Route("GET", p) : p \in {"/overview", "/events", "/metrics", "/sessions", "/session-devices"}}
    \cup {Route("POST", p) : p \in {"/actions/kickout", "/actions/logout"}}

(* The NestJS example mounts by a controller of its own. *)
ControllerRoutes ==
  {Route("GET", "/overview"), Route("GET", "/events"), Route("GET", "/metrics"),
   Route("GET", "/sessions"), Route("GET", "/session-devices"),
   Route("POST", "/actions/kickout"), Route("POST", "/actions/logout")}

-----------------------------------------------------------------------------
(* What comes in.  A parameter or header given twice is a sequence of two.  *)
NoQuery == [page |-> <<>>, size |-> <<>>, loginId |-> <<>>]

NothingAsked == [route |-> Route("GET", "/overview"), query |-> NoQuery,
              body |-> [loginId |-> Null, device |-> Null], headers |-> <<>>]

Bearer(token) == [scheme |-> "Bearer", token |-> token]

Once(S) == {<<>>} \cup {<<x>> : x \in S}

Headers == Once({Bearer(Admin), [scheme |-> "Basic", token |-> Admin]})
             \cup {<<Bearer(Null), Bearer(Admin)>>}

Queries(path) ==
  CASE path = "/session-devices" ->
         [page: {<<>>}, size: {<<>>},
          loginId: Once(Users) \cup {<<u, v>> : u, v \in Users}]
    [] path \in {"/sessions", "/events"} ->
         [page: Once(Numbers), size: Once(Numbers), loginId: {<<>>}]
    [] OTHER -> {NoQuery}

Bodies(path) ==
  [loginId: IF path \in {"/actions/kickout", "/actions/logout"} THEN Users \cup {Null} ELSE {Null},
   device: IF path = "/actions/kickout" THEN DeviceNames \cup {Null} ELSE {Null}]

(* buildInspectorRequest *)
Deliver(route) ==
  /\ stage = "idle" /\ stage' = "auth"
  /\ \E q \in Queries(route.path), b \in Bodies(route.path), h \in Headers :
       request' = [route |-> route, query |-> q, body |-> b, headers |-> h]
  /\ UNCHANGED <<mayMutate, ready, deviceLists, answer>>

(* The adapters register the routes of the table; an application that calls *)
(* handle itself may pass on any other.                                     *)
MountInspectorOnExpress == \E route \in BRIDGE_ROUTE_TABLE : Deliver(route)
MountInspectorOnFastify == \E route \in BRIDGE_ROUTE_TABLE : Deliver(route)
InspectorController == \E route \in ControllerRoutes : Deliver(route)
Unmounted == \E route \in INSPECTOR_ROUTES \cup {Route("GET", "/actions/logout")} : Deliver(route)

QueryValue(values) == IF values = <<>> THEN Null ELSE values[1]

(* Number(...) || usual: nothing, a text that is no number, and 0 *)
NumberOr(values, usual) == IF QueryValue(values) \in {Null, 0} THEN usual ELSE QueryValue(values)

FirstBearerHeader(headers) ==
  IF headers # <<>> /\ headers[1].scheme = "Bearer" THEN headers[1].token ELSE Null

-----------------------------------------------------------------------------
(* Answers: a status, what it carries, and how long its list is. *)
Token(u, d) == <<"token", u, d>>
DeadToken(u, d) == <<"deadToken", u, d>>   \* one whose key is gone
Raw == {"token", "deadToken"}
Fingerprinted(t) == <<"fingerprint", t[2], t[3]>>

Answering(status, carries, at, size, count) ==
  [status |-> status, carries |-> carries, at |-> at, size |-> size, count |-> count]

Bare(status, carries) == Answering(status, carries, 0, 1, 0)

(* strategy, store and the settings without keys *)
DescribeInstance == {<<"strategy">>, <<"store">>, <<"config">>}

SanitizeDevice(u, d) == {<<"device", u, d>>, Fingerprinted(Token(u, d))}

Clamp(n, low, high) == IF n < low THEN low ELSE IF n > high THEN high ELSE n

(* What the engine or the instance's maker throws, handle turns into a 500  *)
(* with the error's message.                                                *)
Failure(told) == Bare(500, {<<"error", "engine">>} \cup told)
Failed == answer' = Failure({}) /\ UNCHANGED deviceLists

Overview ==
  \/ ready /\ answer' = Bare(200, DescribeInstance) /\ UNCHANGED deviceLists
  \/ Failed

(* snapshot: the newest of the events after the number asked for *)
Events ==
  LET after == NumberOr(request.query.page, 0)
      limit == Clamp(NumberOr(request.query.size, UsualLimit), 1, Newest)
  IN  /\ answer' = Answering(200, {}, after, limit,
                          Clamp(Newest - Clamp(after, 0, Newest), 0, limit))
      /\ UNCHANGED deviceLists

Metrics == answer' = Bare(200, {}) /\ UNCHANGED deviceLists

Listed == {u \in Users : deviceLists[u] # {}}

Page(page, size) ==
  \/ /\ ready
     /\ answer' = Answering(200, {}, page, size, Clamp(Cardinality(Listed) - page * size, 0, size))
     /\ UNCHANGED deviceLists
  \/ Failed

AtLeast(n, low) == IF n < low THEN low ELSE n

Sessions ==
  Page(AtLeast(NumberOr(request.query.page, 0), 0), Clamp(NumberOr(request.query.size, Usual), 1, Most))

SessionDevices ==
  LET u == QueryValue(request.query.loginId) IN
  \/ u = Null /\ answer' = Bare(400, {}) /\ UNCHANGED deviceLists
  \/ /\ u # Null /\ ready
     /\ answer' = Bare(200, UNION {SanitizeDevice(u, d) : d \in deviceLists[u]}) /\ UNCHANGED deviceLists
  \/ u # Null /\ Failed

(* Mutant: whose session ends is looked at before whether it may. *)
ActEager(ended) ==
  LET u == request.body.loginId IN
  \/ u = Null /\ answer' = Bare(400, {}) /\ UNCHANGED deviceLists
  \/ u # Null /\ ready /\ answer' = Bare(200, {}) /\ deviceLists' = [deviceLists EXCEPT ![u] = @ \ ended]
  \/ u # Null /\ Failed

(* kickout, logout: of one device, or of all; they may fail half-way.       *)
Act(ended) ==
  LET u == request.body.loginId IN
  \/ ~mayMutate /\ answer' = Bare(403, {}) /\ UNCHANGED deviceLists
  \/ mayMutate /\ u = Null /\ answer' = Bare(400, {}) /\ UNCHANGED deviceLists
  \/ /\ mayMutate /\ u # Null /\ ready /\ answer' \in {Bare(200, {}), Failure({})}
     /\ deviceLists' = [deviceLists EXCEPT ![u] = @ \ ended]
  \/ mayMutate /\ u # Null /\ Failed

(* An opaque session key may outlive its token's key (a logout under way, or *)
(* one that did not find the device in the list).  Its kickout fails in     *)
(* replaceStoreValueKeepingTtl, which names the key it does not find, and   *)
(* with it the token; the session stays.                                    *)
KickoutOrphan(u, d) ==
  mayMutate /\ u # Null /\ ready /\ answer' = Failure({DeadToken(u, d)}) /\ UNCHANGED deviceLists

Kickout ==
  LET d == IF request.body.device = Null THEN DefaultDevice ELSE request.body.device
  IN  Act({d}) \/ KickoutOrphan(request.body.loginId, d)
Logout  == Act(DeviceNames)

HandlerOf(route) ==
  \/ route = Route("GET", "/overview") /\ Overview
  \/ route = Route("GET", "/events") /\ Events
  \/ route = Route("GET", "/metrics") /\ Metrics
  \/ route = Route("GET", "/sessions") /\ Sessions
  \/ route = Route("GET", "/session-devices") /\ SessionDevices
  \/ route = Route("POST", "/actions/kickout") /\ Kickout
  \/ route = Route("POST", "/actions/logout") /\ Logout

(* the keys of routeHandlers *)
HasHandler(route) ==
  \/ route.method = "GET"
     /\ route.path \in {"/overview", "/events", "/metrics", "/sessions", "/session-devices"}
  \/ route.method = "POST" /\ route.path \in {"/actions/kickout", "/actions/logout"}

-----------------------------------------------------------------------------
(* What the host's auth callback says, or does: it may fail as well.        *)
Authorised == FirstBearerHeader(request.headers) = Admin

(* Mutant: an auth callback that fails has not said no. *)
AuthenticateOpen ==
  /\ stage = "auth"
  /\ \/ stage' = "handler" /\ UNCHANGED answer
     \/ ~Authorised /\ stage' = "answered" /\ answer' = Bare(403, {})
  /\ UNCHANGED <<mayMutate, ready, deviceLists, request>>

(* handle: auth is awaited; a failure of it is a 500 that tells its error.  *)
Authenticate ==
  /\ stage = "auth"
  /\ \/ Authorised /\ stage' = "handler" /\ UNCHANGED answer
     \/ ~Authorised /\ stage' = "answered" /\ answer' = Bare(403, {})
     \/ stage' = "answered" /\ answer' = Bare(500, {<<"error", "auth">>})
  /\ UNCHANGED <<mayMutate, ready, deviceLists, request>>

(* The handler of the route, or 404 *)
Handle ==
  /\ stage = "handler" /\ stage' = "answered"
  /\ \/ ~HasHandler(request.route) /\ answer' = Bare(404, {}) /\ UNCHANGED deviceLists
     \/ HasHandler(request.route) /\ HandlerOf(request.route)
  /\ UNCHANGED <<mayMutate, ready, request>>

(* The adapter sends it. *)
SendAnswer ==
  /\ stage = "answered" /\ stage' = "idle"
  /\ request' = NothingAsked /\ answer' = Null
  /\ UNCHANGED <<mayMutate, ready, deviceLists>>

(* The container finishes; accounts come and go. *)
Surroundings ==
  /\ \/ ready' = TRUE /\ UNCHANGED deviceLists
     \/ \E u \in Users, d \in DeviceNames :
          deviceLists' = [deviceLists EXCEPT ![u] = IF d \in @ THEN @ \ {d} ELSE @ \cup {d}] /\ UNCHANGED ready
  /\ UNCHANGED <<mayMutate, stage, request, answer>>

BridgeStart ==
  /\ mayMutate \in BOOLEAN
  /\ ready \in BOOLEAN /\ deviceLists = [u \in Users |-> {}]
  /\ stage = "idle" /\ request = NothingAsked /\ answer = Null

BridgeNext ==
  \/ MountInspectorOnExpress \/ MountInspectorOnFastify \/ InspectorController \/ Unmounted
  \/ Authenticate \/ Handle \/ SendAnswer \/ Surroundings

BridgeSpec == BridgeStart /\ [][BridgeNext]_bridgeVars

-----------------------------------------------------------------------------
(* Whatever numbers a query holds, or none, an answer has a page that       *)
(* exists and no more rows than fit on it, and a page no more than allowed. *)
PagesAreBounded ==
  answer # Null =>
    /\ answer.size >= 1 /\ answer.count \in 0 .. answer.size
    /\ request.route.path = "/sessions" => answer.at >= 0 /\ answer.size <= Most
    /\ request.route.path = "/events" => answer.size <= Newest

(* A route that is mounted, or listed for those who mount it themselves,    *)
(* has a handler: four tables kept by hand.                                 *)
MountedRoutesAnswer ==
  answer # Null /\ answer.status = 404 =>
    request.route \notin BRIDGE_ROUTE_TABLE \cup INSPECTOR_ROUTES \cup ControllerRoutes

(* sanitizeDevice, describeInstance, and handle, which answers an error     *)
(* with its message: no token that is still good leaves the bridge, and a   *)
(* dead one only in the failure of a kickout of the account it belonged to; *)
(* and who is not let through learns nothing, nor that a route or an        *)
(* account is missing, but what the auth callback's own error says.  That   *)
(* callback sees the first authorization header.                            *)
OnlyPrintsLeave ==
  answer # Null =>
    /\ \A x \in answer.carries :
         x[1] \in Raw =>
           /\ x[1] = "deadToken" /\ x[2] = request.body.loginId
           /\ answer.status = 500 /\ mayMutate /\ request.route.path = "/actions/kickout"
    /\ answer.status \in {200, 400, 404} \/ answer.carries \ {<<"error", "auth">>} # {} => Authorised

(* What a step may do to the sessions, if it answers. *)
HitsItsTarget ==
  answer' # answer /\ deviceLists' # deviceLists =>
    /\ mayMutate /\ Authorised
    /\ \A u \in Users : deviceLists'[u] # deviceLists[u] => u = request.body.loginId
    /\ request.route.path = "/actions/kickout" =>
         \A u \in Users : Cardinality(deviceLists[u] \ deviceLists'[u]) <= 1

(* kickout, logout: an answer ends sessions only where that is allowed, for *)
(* a caller let through, of the account the body names, and a kickout those *)
(* of one device.                                                           *)
ActionsHitTheirTarget == [][HitsItsTarget]_<<deviceLists, answer>>

(* The boundary: who gets an answer, of what, and how much of it.           *)
BridgeInv == OnlyPrintsLeave /\ MountedRoutesAnswer /\ PagesAreBounded
=============================================================================
