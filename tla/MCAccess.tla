------------------------------ MODULE MCAccess ------------------------------
(* Instances of Access and HttpChain for TLC: a behaviour is one of either, *)
(* as chain says.                                                           *)
EXTENDS Access, HttpChain, TLC

VARIABLE chain

RequestsInit ==
  /\ chain \in BOOLEAN /\ AccessInit /\ ChainStart
  /\ chain => site.ignore = <<<<>>>> /\ safe
             /\ grants = CHOOSE g \in [permissions: Lists, roles: RoleLists] : TRUE
  /\ ~chain => app = (CHOOSE a \in Apps : TRUE) /\ \A t \in DOMAIN Holder : entry[t] = "live"

RequestsNext ==
  \/ ~chain /\ AccessNext /\ UNCHANGED <<chain, chainVars>>
  \/ chain /\ ChainNext /\ UNCHANGED <<chain, accessVars>>

RequestsSpec == RequestsInit /\ [][RequestsNext]_<<accessVars, chain, chainVars>>

Read == <<"user", "read">>
Edit == <<"user", "edit">>
List == <<"user">>
Wild == <<"user", Star>>

MCNames     == {Wild, List, Read, Edit, <<"admin">>}
MCLists     == {{Wild}, {List}, {Read, Edit}}
MCRoleLists == {{}, {<<"admin">>}}

Perms(list, mode) == [NoMeta EXCEPT !.permissions = [list |-> list, mode |-> mode]]
Login == [NoMeta EXCEPT !.requireLogin = TRUE]
Admin == [NoMeta EXCEPT !.roles = [list |-> {<<"admin">>}, mode |-> "AND"], !.safeBusiness = "pay"]
On(match, methods, meta) == [match |-> match, methods |-> methods, meta |-> meta]

Site(adapter, default, perms, timeout, ignore, policies, route) ==
  [adapter |-> adapter, defaultCheck |-> default, perms |-> perms, timeout |-> timeout,
   ignore |-> ignore, policies |-> policies, route |-> route, reads |-> {"header", "cookie"}]

(* Two policies whose lists add up, one for GET; a public path; the route's *)
(* own declaration.                                                         *)
TwoPolicies == << On({<<"api">>}, {}, Perms({Read}, "AND")),
                  On({<<"api", "user">>, <<"old">>}, {"GET"}, Perms({Edit}, "AND")) >>

(* A prefix that Express takes for another spelling, and an exception. *)
InCapitals == << On({<<"API">>}, {}, Login),
                 On({<<"api", "pub">>}, {}, [NoMeta EXCEPT !.requireLogin = FALSE]) >>

MCSites ==
  { Site("express", TRUE,  TRUE,  0, <<<<"api", "pub">>>>, TwoPolicies, Login),
    Site("express", FALSE, TRUE,  2, <<>>, TwoPolicies, NoMeta),
    Site("express", FALSE, FALSE, 0, <<>>, InCapitals, NoMeta),
    Site("fastify", FALSE, TRUE,  1, <<>>, <<On({<<>>}, {}, Login)>>, Perms({Read, Edit}, "OR")),
    Site("fastify", TRUE,  TRUE,  1, <<<<>>>>, <<>>, Admin),
    Site("fastify", FALSE, TRUE,  0, <<>>, TwoPolicies, NoMeta),
    Site("nest",    FALSE, TRUE,  1, <<>>, <<On({<<>>}, {}, Admin)>>, Perms({Read, Edit}, "AND")),
    Site("nest",    TRUE,  FALSE, 0, <<>>, <<On({<<>>}, {}, Perms({}, "AND"))>>, Admin),
    Site("nest",    FALSE, TRUE,  0, <<>>, <<On({<<>>}, {}, Admin)>>, Perms({}, "AND")),
    Site("loginGuard", TRUE, TRUE, 0, <<>>, <<>>, Admin),
    Site("loginGuard", FALSE, TRUE, 0, <<>>, <<>>, Login) }

MCRoutes    == {<<"api", "user">>, <<"api", "pub">>}
MCLowerCase == "API" :> "api"
MCDecoded   == "%61pi" :> "api"

Carries(h, c) == [header |-> h, cookie |-> c, query |-> "good"]

MCRequests ==
  { [path |-> <<"api", "user">>,   method |-> "HEAD", carries |-> Carries("good", "nothing")],
    [path |-> <<"%61pi", "user">>, method |-> "GET",  carries |-> Carries("nothing", "good")],
    [path |-> <<"API", "pub">>,    method |-> "POST", carries |-> Carries("blank", "good")] }

-----------------------------------------------------------------------------
CONSTANTS t1, t2

MCHolder == (t1 :> "ann") @@ (t2 :> "bob")

Layer(reads, ignore) == [reads |-> reads, ignore |-> ignore]
All == {"header", "cookie", "query"}

MCLayers ==
  { <<Layer(All, FALSE)>>, <<Layer({"query"}, FALSE)>>, <<Layer({"cookie"}, TRUE), Layer({"header", "query"}, FALSE)>>,
    <<Layer({"header"}, FALSE), Layer({"cookie", "query"}, FALSE)>>,
    <<Layer({"header"}, FALSE), Layer({"query"}, TRUE)>> }

MCApps ==
  [adapter: {"express", "fastify"}, cookies: BOOLEAN, layers: MCLayers, errors: {"mapped", "propagated"}]
  \cup [adapter: {"nestExpress", "nestFastify"}, cookies: BOOLEAN, layers: MCLayers, errors: {"mapped"}]

MCMessages == [header: {<<>>, <<t1>>, <<t1, t2>>}, query: {<<>>, <<t2>>, <<t2, t1>>}]
=============================================================================
