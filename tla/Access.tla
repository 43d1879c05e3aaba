------------------------------- MODULE Access -------------------------------
(***************************************************************************)
(* How a request is authorised: the Express middleware, the Fastify plugin *)
(* and the two NestJS guards decide from what the application declares     *)
(* whether to check and what; checkLogin, StpPermLogic with its cache, and *)
(* checkSafe do it, an await apart, while grants, the session and the safe *)
(* window change.  A site is an application: its adapter, its settings and *)
(* its declarations.                                                       *)
(***************************************************************************)
EXTENDS Values

CONSTANTS
  Sites, Requests,
  Names,       \* of permissions and roles: sequences of segments
  Lists,       \* the lists of permissions StpInterface may answer with
  RoleLists,   \* the lists of roles
  LoadTime,    \* from asking StpInterface to the answer being cached, at most
  MaxTime,     \* bound on the clock
  MaxChanges,  \* bound on the changes of the lists
  Star,        \* the segment "*" of a permission
  Routes,      \* the paths handlers are declared at
  LowerCase,   \* the segments that are not written in lower case, and how they are in it
  Decoded      \* the segments that are percent-encoded, and what they stand for

Kinds == {"permissions", "roles"}

NoMeta == [ignore |-> Null, requireLogin |-> Null, permissions |-> Null,
           roles |-> Null, safeBusiness |-> Null]

Asked == [list: SUBSET Names, mode: {"AND", "OR"}]

IsMeta(m) ==
  /\ DOMAIN m = DOMAIN NoMeta
  /\ {m.ignore, m.requireLogin} \subseteq BOOLEAN \cup {Null}
  /\ \A f \in Kinds : m[f] # Null => m[f] \in Asked

(* The class of a NestJS handler stands in the place of the policies, and   *)
(* matches every path.                                                      *)
IsSite(s) ==
  /\ s.timeout \in Nat /\ IsSequence(s.ignore) /\ IsSequence(s.policies)
  /\ IsMeta(s.route) /\ \A i \in DOMAIN s.policies : IsMeta(s.policies[i].meta)
  /\ s.adapter \notin {"express", "fastify"} =>
       s.ignore = <<>> /\ \A i \in DOMAIN s.policies : <<>> \in s.policies[i].match

AccessConstants ==
  /\ LoadTime \in Nat /\ MaxTime \in Nat /\ MaxChanges \in Nat
  /\ Null \notin BOOLEAN \cup Asked
  /\ \A x \in Names \cup Routes \cup {q.path : q \in Requests} : IsSequence(x)
  /\ Lists \subseteq SUBSET Names /\ RoleLists \subseteq SUBSET Names
  /\ \A s \in Sites : IsSite(s)

ASSUME AccessAssumption == AccessConstants

VARIABLES
  site, now,
  live,     \* is the session's token accepted?
  safe,     \* is its safe window open?
  grants,   \* what StpInterface would answer now
  past,     \* history: what it answered, and until when
  cache,    \* the entries perm-cache and role-cache of the account
  req,      \* the request
  item,     \* what each permission or role it asks for has come to
  seen      \* history: what was found true for this request

world == <<site, now, live, safe, grants, past>>
accessVars  == <<world, cache, req, item, seen>>

-----------------------------------------------------------------------------
(* What is declared.  A meta gives each field a value or leaves it out; a   *)
(* path is the sequence of its segments, as they are written.               *)
Rewrite(how, path) ==
  [i \in DOMAIN path |-> IF path[i] \in DOMAIN how THEN how[path[i]] ELSE path[i]]

IsPrefixOf(p, path) == Len(p) <= Len(path) /\ \A i \in 1 .. Len(p) : p[i] = path[i]

(* matchPathPrefix.  Express's ignores case as its router does; Fastify's   *)
(* decodes as its router does, and the prefix is not touched.               *)
FastifyMatchPathPrefix(path, prefix) == IsPrefixOf(prefix, Rewrite(Decoded, path))

ExpressMatchPathPrefix(path, prefix) ==
  IsPrefixOf(Rewrite(LowerCase, prefix), Rewrite(LowerCase, path))

MethodAllowed(q, p) ==
  p.methods = {} \/ q.method \in p.methods \/ (q.method = "HEAD" /\ "GET" \in p.methods)

MatchPolicy(q, p) ==
  /\ MethodAllowed(q, p)
  /\ \E m \in p.match : IF site.adapter = "express" THEN ExpressMatchPathPrefix(q.path, m)
                        ELSE FastifyMatchPathPrefix(q.path, m)

Override(base, next) == [f \in DOMAIN base |-> IF next[f] = Null THEN base[f] ELSE next[f]]

(* Mutant: the lists are overridden like the simple fields. *)
MergeRouteAuthMetaOver(base, next) == Override(base, next)

(* The adapters' mergeRouteAuthMeta agree: two lists of one kind add up,    *)
(* under the mode of the later; every other field is overridden.            *)
MergeList(base, next) ==
  IF base = Null \/ next = Null THEN IF next = Null THEN base ELSE next
  ELSE [list |-> base.list \cup next.list, mode |-> next.mode]

MergeRouteAuthMeta(base, next) ==
  [Override(base, next) EXCEPT !.permissions = MergeList(base.permissions, next.permissions),
                               !.roles = MergeList(base.roles, next.roles)]

Policies ==
  [i \in 1 .. Len(site.ignore) |->
     [match |-> {site.ignore[i]}, methods |-> {}, meta |-> [NoMeta EXCEPT !.ignore = TRUE]]]
  \o site.policies

AddPolicy(q, meta, p) == IF MatchPolicy(q, p) THEN MergeRouteAuthMeta(meta, p.meta) ELSE meta

ResolveRouteAuthMeta(q) ==
  LET meta[n \in 0 .. Len(Policies)] ==
        IF n = 0 THEN NoMeta ELSE AddPolicy(q, meta[n - 1], Policies[n])
  IN  meta[Len(Policies)]

(* The routers: Express's ignores case, Fastify's decodes and does not.     *)
(* Where no route is reached there is no handler, nor what it declares.     *)
Reaches(q, route) ==
  CASE site.adapter = "express" -> Rewrite(LowerCase, q.path) = Rewrite(LowerCase, route)
    [] site.adapter = "fastify" -> Rewrite(Decoded, q.path) = route
    [] OTHER                    -> TRUE

Routed(q) == \E p \in Routes : Reaches(q, p)

RouteMeta(q) == IF Routed(q) THEN site.route ELSE NoMeta

(* Express: route helpers ran first and a policy overrides them.  Fastify:  *)
(* config.xlt is merged last.  NestJS: the handler's metadata override the  *)
(* class's, which is here the only policy and matches every path.           *)
ExpressMeta(q) == Override(RouteMeta(q), ResolveRouteAuthMeta(q))
FastifyMeta(q) == MergeRouteAuthMeta(ResolveRouteAuthMeta(q), RouteMeta(q))
NestMeta(q)    == Override(ResolveRouteAuthMeta(q), site.route)

MetaOf(q) ==
  CASE site.adapter = "express" -> ExpressMeta(q)
    [] site.adapter = "fastify" -> FastifyMeta(q)
    [] OTHER                    -> NestMeta(q)

(* XltAbstractLoginGuard looks at XltCheckLogin only. *)
LoginGuardRequires(meta) == meta.requireLogin = TRUE

AsksForLogin(meta) ==
  meta.requireLogin = TRUE \/ \E f \in {"permissions", "roles", "safeBusiness"} : meta[f] # Null

ShouldCheckLogin(meta) ==
  IF site.defaultCheck THEN meta.ignore # TRUE
  ELSE IF site.adapter = "loginGuard" THEN LoginGuardRequires(meta) ELSE AsksForLogin(meta)

-----------------------------------------------------------------------------
(* matchPermission, segment by segment *)
MatchPermission(p, target) ==
  LET from[i \in 1 .. Len(p) + 1] ==
        IF i > Len(p) THEN Len(p) = Len(target)
        ELSE p[i] = Star \/ (i <= Len(target) /\ p[i] = target[i] /\ from[i + 1])
  IN  p = target \/ from[1]

Has(kind, list, x) ==
  IF kind = "roles" THEN x \in list ELSE \E p \in list : MatchPermission(p, x)

(* getTokenValue: the first source that is read and has something, even     *)
(* when nothing is left of it after the prefix.                             *)
TokenValue(q) ==
  LET from == SelectSeq(<<"header", "cookie", "query">>,
                        LAMBDA s : s \in site.reads /\ q.carries[s] # "nothing")
  IN  IF from = <<>> THEN "nothing" ELSE q.carries[Head(from)]

-----------------------------------------------------------------------------
Idle == [pc |-> "idle", meta |-> NoMeta, user |-> FALSE, why |-> Null, q |-> Null]

Nothing == [login |-> FALSE, safe |-> FALSE, items |-> {}]

Refuse(why) ==
  req' = [req EXCEPT !.pc = "refused", !.why = why] /\ item' = <<>>

(* err.status, which the adapters' mapXltError hands on *)
Status == CASE req.why = "NOT_LOGIN" -> 401
            [] req.why = "ERROR"     -> 500
            [] OTHER                 -> 403

(* What follows the login, in order; XltAbstractLoginGuard has none of it,  *)
(* and where StpPermLogic is absent (optional) its checks are passed over.  *)
Stages == <<"permissions", "roles", "safeBusiness">>

Needs(n) ==
  /\ site.adapter # "loginGuard" /\ req.meta[Stages[n]] # Null
  /\ n < 3 => site.perms

Serve == req' = [req EXCEPT !.pc = "served", !.user = TRUE] /\ item' = <<>>

(* Go on behind stage n, with or without the login on the request. *)
GoOn(n, user) ==
  LET rest == {m \in n + 1 .. 3 : Needs(m)}
      next == CHOOSE m \in rest : \A k \in rest : m <= k
  IN  IF rest = {} THEN Serve
      ELSE IF next = 3
      THEN req' = [req EXCEPT !.pc = "safeBusiness", !.user = user] /\ item' = <<>>
      ELSE LET list == req.meta[Stages[next]].list IN
           IF list = {} THEN Refuse(IF next = 1 THEN "NOT_PERMISSION" ELSE "NOT_ROLE")
           ELSE /\ req' = [req EXCEPT !.pc = Stages[next], !.user = user]
                /\ item' = [x \in list |-> [pc |-> IF site.timeout = 0 THEN "load" ELSE "cache",
                                            list |-> {}, since |-> 0]]

Arrive(q) ==
  /\ req.pc \in {"idle", "served", "refused"}
  /\ LET meta == MetaOf(q) IN
       req' = [Idle EXCEPT !.q = q, !.meta = meta,
                           !.pc = IF ShouldCheckLogin(meta) THEN "login" ELSE "served"]
  /\ item' = <<>> /\ seen' = Nothing /\ UNCHANGED <<world, cache>>

(* NestJS puts the login on the request here, the others when all is done. *)
CheckLogin ==
  /\ req.pc = "login"
  /\ \/ /\ live /\ TokenValue(req.q) = "good"
        /\ GoOn(0, site.adapter \in {"nest", "loginGuard"}) /\ seen' = [seen EXCEPT !.login = TRUE]
     \/ ~(live /\ TokenValue(req.q) = "good") /\ Refuse("NOT_LOGIN") /\ UNCHANGED seen
  /\ UNCHANGED <<world, cache>>

(* History: what StpPermLogic is to find in a list, said independently. *)
Covers(list, x) ==
  \/ x \in list
  \/ \E p \in list : \E n \in 1 .. Len(p) :
       p[n] = Star /\ (n - 1) <= Len(x) /\ \A i \in 1 .. n - 1 : p[i] = x[i]

Settle(x, list) ==
  /\ item' = [item EXCEPT ![x] = [pc |-> IF Has(req.pc, list, x) THEN "yes" ELSE "no",
                                  list |-> list, since |-> 0]]
  /\ seen' = IF Covers(list, x) THEN [seen EXCEPT !.items = @ \cup {x}] ELSE seen
  /\ UNCHANGED <<world, req>>

Checking(x, pc) == req.pc \in {"permissions", "roles"} /\ x \in DOMAIN item /\ item[x].pc = pc

(* Mutant: the timeout is counted from the last use. *)
ReadCacheTouch(x) ==
  /\ Checking(x, "cache")
  /\ \/ /\ cache[req.pc] # Null /\ Settle(x, cache[req.pc].list)
        /\ cache' = [cache EXCEPT ![req.pc].end = now + site.timeout]
     \/ /\ cache[req.pc] = Null /\ item' = [item EXCEPT ![x].pc = "load"]
        /\ UNCHANGED <<world, req, seen, cache>>

ReadCache(x) ==
  /\ Checking(x, "cache")
  /\ \/ cache[req.pc] # Null /\ Settle(x, cache[req.pc].list)
     \/ /\ cache[req.pc] = Null /\ item' = [item EXCEPT ![x].pc = "load"]
        /\ UNCHANGED <<world, req, seen>>
  /\ UNCHANGED cache

(* StpInterface answers; nothing is kept when the timeout is 0. *)
Load(x) ==
  /\ Checking(x, "load")
  /\ \/ site.timeout = 0 /\ Settle(x, grants[req.pc])
     \/ /\ site.timeout > 0
        /\ item' = [item EXCEPT ![x] = [pc |-> "store", list |-> grants[req.pc], since |-> now]]
        /\ UNCHANGED <<world, req, seen>>
  /\ UNCHANGED cache

StoreCache(x) ==
  /\ Checking(x, "store")
  /\ cache' = [cache EXCEPT ![req.pc] = [list |-> item[x].list, end |-> now + site.timeout]]
  /\ Settle(x, item[x].list)

(* Promise.all, and what the mode makes of it *)
Passed(mode) ==
  IF mode = "AND" THEN \A x \in DOMAIN item : item[x].pc = "yes"
  ELSE \E x \in DOMAIN item : item[x].pc = "yes"

Stage == IF req.pc = "permissions" THEN 1 ELSE 2

Conclude ==
  /\ req.pc \in {"permissions", "roles"}
  /\ \A x \in DOMAIN item : item[x].pc \in {"yes", "no"}
  /\ \/ Passed(req.meta[req.pc].mode) /\ GoOn(Stage, req.user)
     \/ ~Passed(req.meta[req.pc].mode)
          /\ Refuse(IF Stage = 1 THEN "NOT_PERMISSION" ELSE "NOT_ROLE")
  /\ UNCHANGED <<world, cache, seen>>

CheckSafe ==
  /\ req.pc = "safeBusiness"
  /\ \/ safe /\ GoOn(3, req.user) /\ seen' = [seen EXCEPT !.safe = TRUE]
     \/ ~safe /\ Refuse("NOT_SAFE") /\ UNCHANGED seen
  /\ UNCHANGED <<world, cache>>

(* The store, or StpInterface, rejects. *)
CheckFails ==
  /\ req.pc \in {"login", "permissions", "roles", "safeBusiness"}
  /\ Refuse("ERROR") /\ UNCHANGED <<world, cache, seen>>

-----------------------------------------------------------------------------
(* The application, the operators and time *)
Rest == UNCHANGED <<site, req, item, seen>>

GrantsChange(kind, list) ==
  /\ Len(past[kind]) < MaxChanges /\ list # grants[kind]
  /\ past' = [past EXCEPT ![kind] = Append(@, [list |-> grants[kind], until |-> now])]
  /\ grants' = [grants EXCEPT ![kind] = list]
  /\ Rest /\ UNCHANGED <<now, live, safe, cache>>

SessionEnds == live /\ live' = FALSE /\ Rest /\ UNCHANGED <<now, safe, grants, past, cache>>
OpenSafe    == ~safe /\ safe' = TRUE /\ Rest /\ UNCHANGED <<now, live, grants, past, cache>>
SafeEnds    == safe /\ safe' = FALSE /\ Rest /\ UNCHANGED <<now, live, grants, past, cache>>

Tick ==
  /\ now < MaxTime /\ now' = now + 1
  /\ \A x \in DOMAIN item : item[x].pc = "store" => now < item[x].since + LoadTime
  /\ cache' = [k \in DOMAIN cache |->
                 IF cache[k] # Null /\ cache[k].end <= now + 1 THEN Null ELSE cache[k]]
  /\ Rest /\ UNCHANGED <<live, safe, grants, past>>

AccessInit ==
  /\ site \in Sites /\ now = 0 /\ live = TRUE /\ safe \in BOOLEAN
  /\ grants \in [permissions: Lists, roles: RoleLists]
  /\ past = [k \in Kinds |-> <<>>] /\ cache = [k \in Kinds |-> Null]
  /\ req = Idle /\ item = <<>> /\ seen = Nothing

AccessNext ==
  \/ CheckLogin \/ Conclude \/ CheckSafe \/ CheckFails
  \/ SessionEnds \/ OpenSafe \/ SafeEnds \/ Tick
  \/ \E q \in Requests : Arrive(q)
  \/ \E x \in DOMAIN item : ReadCache(x) \/ Load(x) \/ StoreCache(x)
  \/ \E list \in Lists : GrantsChange("permissions", list)
  \/ \E list \in RoleLists : GrantsChange("roles", list)

AccessSpec == AccessInit /\ [][AccessNext]_accessVars

-----------------------------------------------------------------------------
(* Every variable has its shape; a login is on the request only when one    *)
(* was found, and no cache entry outlives its deadline.                     *)
AccessTypeOK ==
  /\ now \in 0 .. MaxTime
  /\ req.pc \in {"idle", "login", "permissions", "roles", "safeBusiness", "served", "refused"}
  /\ req.user => seen.login
  /\ req.pc = "refused" => Status \in {401, 403, 500}
  /\ \A k \in Kinds : cache[k] # Null => now < cache[k].end
  /\ \A x \in DOMAIN item : item[x].pc \in {"cache", "load", "store", "yes", "no"}

(* What the application demands of a request by its route declarations and  *)
(* the policies that cover the route it reached, said of the route as it is *)
(* declared (to Express in any case), without the rules that match a path   *)
(* and combine declarations.                                                *)
Spelled(path) == IF site.adapter = "express" THEN Rewrite(LowerCase, path) ELSE path
Covering(p) ==
  /\ MethodAllowed(req.q, p)
  /\ \E route \in Routes : Reaches(req.q, route) /\ \E m \in p.match : IsPrefixOf(Spelled(m), Spelled(route))
Matched == {Policies[i].meta : i \in {n \in 1 .. Len(Policies) : Covering(Policies[n])}}
Demands ==
  CASE site.adapter = "express" -> Matched
    [] site.adapter = "fastify" -> Matched \cup {RouteMeta(req.q)}
    [] site.adapter = "nest"    -> {site.route}
    [] OTHER                    -> {}

(* Route authorisation: a request is served only if the login was found     *)
(* good, every permission and role that some declaration demands in mode    *)
(* AND was in a list, and the safe window was open.  The exceptions: a      *)
(* declaration asks to ignore the route; StpPermLogic is absent; a login    *)
(* that only requireLogin asks for may be taken back by another declaration *)
(* with FALSE.  No spelling of the path that the router takes for the       *)
(* route, order of policies, method, await, cached list or wildcard         *)
(* permission lets one slip.                                                *)
ServedMeetsPolicy ==
  req.pc = "served" /\ Routed(req.q) /\ (\A d \in Matched \cup {site.route} : d.ignore # TRUE) =>
    \A d \in Demands :
      /\ (\/ site.defaultCheck
          \/ d.requireLogin = TRUE /\ \A e \in Demands : e.requireLogin # FALSE
          \/ \E f \in Kinds \cup {"safeBusiness"} : d[f] # Null) => seen.login
      /\ \A f \in Kinds :
           (site.perms /\ d[f] # Null /\ \A e \in Demands : e[f] # Null => e[f].mode = "AND")
             => d[f].list \subseteq seen.items
      /\ d.safeBusiness # Null => seen.safe

(* StpPermLogic's cache: a list that decides a check was StpInterface's     *)
(* answer at most permCacheTimeout, and the time one load takes, ago,       *)
(* although loads overlap and an older list may overwrite a newer one.      *)
ListIsRecent ==
  [][\A x \in DOMAIN item :
       (/\ x \in DOMAIN item' /\ item[x].pc \in {"cache", "load", "store"}
        /\ item'[x].pc \in {"yes", "no"})
         => \/ item'[x].list = grants[req.pc]
            \/ \E i \in 1 .. Len(past[req.pc]) :
                 /\ past[req.pc][i].list = item'[x].list
                 /\ past[req.pc][i].until + site.timeout + LoadTime > now]_accessVars

(* The state of a request is sound, and nothing declared is passed over.    *)
AccessInv == AccessTypeOK /\ ServedMeetsPolicy
=============================================================================
