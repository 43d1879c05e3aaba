----------------------------- MODULE HttpChain -----------------------------
(***************************************************************************)
(* A request on its way through an application: the context an adapter     *)
(* makes of it, the layers that check it (middlewares, hooks or guards,    *)
(* each with an engine's settings of its own), what they leave on it, the  *)
(* handler, and what an exception becomes.  Permissions and safe windows   *)
(* are in Access; here a layer asks for the login.                         *)
(***************************************************************************)
EXTENDS Values

CONSTANTS
  Apps,      \* adapter, layers, is there a cookie plugin, what is done with errors
  Messages,  \* what a client sends: the values of header, cookie and query
  Holder,    \* the account of each token
  Garbage    \* a text that is no token

(* A reason is a NotLoginType; a failure of the store is none. *)
Reasons == {"NOT_TOKEN", "INVALID_TOKEN", "TOKEN_TIMEOUT", "TOKEN_FREEZE", "BE_REPLACED", "KICK_OUT"}

ChainConstants ==
  /\ \A a \in Apps : /\ IsSequence(a.layers) /\ a.layers # <<>>
                      /\ \A i \in DOMAIN a.layers : a.layers[i].ignore \in BOOLEAN
  /\ \A m \in Messages : IsSequence(m.header) /\ IsSequence(m.query)
  /\ Null \notin Reasons \cup {"ERROR"} \cup DOMAIN Holder

ASSUME ChainAssumption == ChainConstants

VARIABLES
  app, entry,  \* the application, and what the engine says of each token
  r,           \* the request
  jar          \* the client's token cookie

chainVars == <<app, entry, r, jar>>

-----------------------------------------------------------------------------
(* Contexts.  A source has the values the client sent under the name.  Node *)
(* joins those of a header (a tokenName of one's own; of authorization it   *)
(* keeps the first, as if it were alone); cookie parsers keep the first.    *)
Joined(s) == IF Len(s) = 1 THEN s[1] ELSE Garbage

HeaderGet(s) == IF s = <<>> THEN Null ELSE Joined(s)

CookieGet(s) == IF s = <<>> \/ ~app.cookies THEN Null ELSE s[1]

(* Repeated: Express hands the array on, in a key it is a text like any.    *)
ExpressQueryGet(s) == IF s = <<>> THEN Null ELSE Joined(s)
FastifyQueryGet(s) == IF s = <<>> THEN Null ELSE s[1]

CoreQueryGet(s)    == IF Len(s) = 1 THEN s[1] ELSE Null

QueryGet(adapter, s) ==
  CASE adapter = "express" -> ExpressQueryGet(s)
    [] adapter = "fastify" -> FastifyQueryGet(s)
    [] OTHER               -> CoreQueryGet(s)

(* getTokenValue: each source in turn, if it is read *)
GetTokenValue(adapter, reads, q) ==
  LET from(source, value, else) == IF source \in reads /\ value # Null THEN value ELSE else
  IN  from("header", HeaderGet(q.header),
        from("cookie", CookieGet(q.cookie),
          from("query", QueryGet(adapter, q.query), Null)))

-----------------------------------------------------------------------------
(* Exceptions *)
CodeForType(type) ==
  CASE type = "NOT_TOKEN"     -> "TOKEN_MISSING"
    [] type = "INVALID_TOKEN" -> "TOKEN_INVALID"
    [] type = "BE_REPLACED"   -> "TOKEN_REPLACED"
    [] type = "KICK_OUT"      -> "TOKEN_KICKED_OUT"
    [] OTHER                  -> type

XltError(type) == [status |-> 401, code |-> CodeForType(type)]

Unknown == [status |-> 500, code |-> Null]

(* mapXltError *)
Mapped(why) == IF why \in Reasons THEN XltError(why) ELSE Unknown

(* rethrowCoreAuthException: an exception of NestJS is built anew *)
Rethrown(why) == IF why \in Reasons THEN [status |-> 401, code |-> CodeForType(why)] ELSE Unknown

(* What a framework does by itself with an error that has a status *)
ByFramework(why) == IF why \in Reasons THEN [status |-> 401, code |-> Null] ELSE Unknown

(* Express has the error handler or not; Fastify's hook answers itself, or  *)
(* throws for the error handler, where there is one.                        *)
Reply(why) ==
  IF app.adapter \in {"nestExpress", "nestFastify"} THEN Rethrown(why)
  ELSE IF app.errors = "propagated" THEN ByFramework(why)
  ELSE Mapped(why)

-----------------------------------------------------------------------------
NoRequest == [pc |-> "idle", q |-> Null, layer |-> 0, ignore |-> FALSE, token |-> Null,
              state |-> Null, stp |-> Null, session |-> Null, why |-> Null, reply |-> Null]

Still == UNCHANGED <<app, entry, jar>>

(* Registration: Fastify's plugin refuses to start if cookies are to be     *)
(* read and nothing parses them.                                            *)
Boot ==
  /\ r.pc = "boot"
  /\ r' = [r EXCEPT !.pc =
       IF /\ app.adapter = "fastify" /\ ~app.cookies
          /\ \E i \in 1 .. Len(app.layers) : "cookie" \in app.layers[i].reads
       THEN "down" ELSE "idle"]
  /\ Still

Receive(m) ==
  /\ r.pc \in {"idle", "answered"}
  /\ r' = [NoRequest EXCEPT !.pc = "layer", !.layer = 1,
             !.q = [header |-> m.header, query |-> m.query,
                    cookie |-> IF jar = Null THEN <<>> ELSE <<jar>>]]
  /\ Still

PastLayer(q) == IF q.layer = Len(app.layers) THEN [q EXCEPT !.pc = "handler"]
             ELSE [q EXCEPT !.pc = "layer", !.layer = @ + 1]

(* The middleware, hook or guard: what an earlier layer of Express wrote to *)
(* _xltRouteMeta is still there.                                            *)
EnterLayer ==
  LET here == app.layers[r.layer]
      ignore == here.ignore \/ (app.adapter = "express" /\ r.ignore)
  IN  /\ r.pc = "layer"
      /\ r' = IF ignore THEN PastLayer([r EXCEPT !.ignore = ignore])
              ELSE [r EXCEPT !.pc = "resolve", !.token = GetTokenValue(app.adapter, here.reads, r.q)]
      /\ Still

(* What _resolveLoginId finds *)
Finds(t) == IF t = Null THEN "NOT_TOKEN"
            ELSE IF t \notin DOMAIN Holder THEN "INVALID_TOKEN"
            ELSE IF entry[t] = "unborn" THEN "INVALID_TOKEN" ELSE entry[t]

(* checkLogin: the context's state is written, or NotLoginException thrown; *)
(* in a guard derived from XltAbstractLoginGuard its callbacks follow.      *)
CheckLayer ==
  /\ r.pc = "resolve"
  /\ r' = IF Finds(r.token) = "live"
          THEN [r EXCEPT !.pc = "sync", !.state = [loginId |-> Holder[r.token], token |-> r.token]]
          ELSE [r EXCEPT !.pc = "raised", !.why = Finds(r.token)]
  /\ Still

EngineFails == r.pc = "resolve" /\ r' = [r EXCEPT !.pc = "raised", !.why = "ERROR"] /\ Still

(* What the adapters copy: Express from the context's state; Fastify too,   *)
(* with the session; the guards from checkLogin's result, which is equal.   *)
SyncExpressAuthState(q) == [q EXCEPT !.stp = q.state]
SyncFastifyAuthState(q) == [q EXCEPT !.stp = q.state, !.session = q.state.loginId]
GuardPasses(q)          == [q EXCEPT !.stp = q.state]

(* Mutant: what is on the request already stays. *)
SyncOnce ==
  /\ r.pc = "sync"
  /\ r' = PastLayer(IF r.stp # Null THEN r ELSE SyncFastifyAuthState(r))
  /\ Still

Sync ==
  /\ r.pc = "sync"
  /\ r' = PastLayer(CASE app.adapter = "express" -> SyncExpressAuthState(r)
                   [] app.adapter = "fastify" -> SyncFastifyAuthState(r)
                   [] OTHER                   -> GuardPasses(r))
  /\ Still

(* The error handler, the hook or the framework answers. *)
AnswerError == r.pc = "raised" /\ r' = [r EXCEPT !.pc = "answered", !.reply = Reply(r.why)] /\ Still

Ok == [status |-> 200, code |-> Null]

Handler == r.pc = "handler" /\ r' = [r EXCEPT !.pc = "answered", !.reply = Ok] /\ Still

(* setCookie: Fastify's reply has one with the plugin only, Express's has   *)
(* it always; normalizeResponse takes whichever there is.                   *)
FastifySetCookie == app.cookies
NormalizeResponse == app.adapter = "nestExpress" \/ app.cookies

SetCookieWorks ==
  CASE app.adapter = "express" -> TRUE
    [] app.adapter = "fastify" -> FastifySetCookie
    [] OTHER                   -> NormalizeResponse

(* Mutant: a bridge that cannot write does nothing. *)
LoginHandlerSilent(t) ==
  /\ r.pc = "handler" /\ entry[t] = "unborn"
  /\ entry' = [entry EXCEPT ![t] = "live"]
  /\ r' = [r EXCEPT !.pc = "answered", !.reply = Ok]
  /\ IF SetCookieWorks THEN jar' = t ELSE UNCHANGED jar
  /\ UNCHANGED app

(* A handler logs an account in and writes its token to the context: the    *)
(* bridges throw where nothing can write a cookie, and the login has been.  *)
LoginHandler(t) ==
  /\ r.pc = "handler" /\ entry[t] = "unborn"
  /\ entry' = [entry EXCEPT ![t] = "live"]
  /\ \/ /\ SetCookieWorks
        /\ jar' = t /\ r' = [r EXCEPT !.pc = "answered", !.reply = Ok]
     \/ /\ ~SetCookieWorks
        /\ r' = [r EXCEPT !.pc = "answered", !.reply = Unknown] /\ UNCHANGED jar
  /\ UNCHANGED app

(* The engine, meanwhile *)
Ends(t, how) ==
  /\ entry[t] = "live" /\ entry' = [entry EXCEPT ![t] = how] /\ UNCHANGED <<app, r, jar>>

ChainStart ==
  /\ app \in Apps /\ jar = Null
  /\ entry \in [DOMAIN Holder -> {"live", "unborn"}]
  /\ r = [NoRequest EXCEPT !.pc = "boot"]

ChainNext ==
  \/ Boot \/ EnterLayer \/ CheckLayer \/ EngineFails \/ Sync \/ AnswerError \/ Handler
  \/ \E m \in Messages : Receive(m)
  \/ \E t \in DOMAIN Holder : LoginHandler(t) \/ \E how \in Reasons \ {"NOT_TOKEN"} : Ends(t, how)

ChainSpec == ChainStart /\ [][ChainNext]_chainVars

-----------------------------------------------------------------------------
(* Every variable has its shape; an application that started and reads      *)
(* cookies on Fastify can.                                                  *)
ChainTypeOK ==
  /\ r.pc \in {"boot", "down", "idle", "layer", "resolve", "sync", "raised", "handler", "answered"}
  /\ r.layer <= Len(app.layers)
  /\ jar # Null => jar \in DOMAIN Holder
  /\ (r.pc \notin {"boot", "down"} /\ app.adapter = "fastify" /\ ~app.cookies) =>
       \A i \in 1 .. Len(app.layers) : "cookie" \notin app.layers[i].reads

Checks(i) == ~ app.layers[i].ignore
               /\ (app.adapter = "express" => \A j \in 1 .. i : ~ app.layers[j].ignore)

(* stpLoginId, stpToken and stpSession: what a handler finds on the request *)
(* belongs to one account, the holder of the token that the last layer that *)
(* checked had read, however many layers with other sources ran before, and *)
(* nothing is there if none checked.                                        *)
HandlerSeesTheChecked ==
  r.pc = "handler" =>
    LET checked == {i \in 1 .. Len(app.layers) : Checks(i)} IN
    IF checked = {} THEN r.stp = Null /\ r.session = Null
    ELSE LET last == CHOOSE i \in checked : \A j \in checked : j <= i IN
         /\ r.stp.token = GetTokenValue(app.adapter, app.layers[last].reads, r.q)
         /\ r.stp.loginId = Holder[r.stp.token]
         /\ r.session \in {Null, r.stp.loginId}

(* The exceptions and their mappings: a client that is refused is told 401  *)
(* and, unless the framework answers by itself, the code of the reason the  *)
(* engine had; a failure of the store is never told as a refusal.           *)
RefusalIsTold ==
  r.pc = "answered" /\ r.why # Null =>
    /\ r.reply.status = 401 <=> r.why \in Reasons
    /\ (r.why \in Reasons /\ app.errors # "propagated") => r.reply.code = CodeForType(r.why)
    /\ r.why = "ERROR" => r.reply.status = 500

(* The four contexts: a request that repeats nothing means the same token   *)
(* to every adapter, for every choice of sources.                           *)
AdaptersReadAlike ==
  r.pc = "resolve" /\ (\A f \in {"header", "cookie", "query"} : Len(r.q[f]) <= 1) =>
    \A a \in {"express", "fastify", "nestExpress", "nestFastify"} :
      GetTokenValue(a, app.layers[r.layer].reads, r.q) = r.token

(* setCookie: a login that is answered with success has reached the client. *)
LoginReachesClient ==
  [][\A t \in DOMAIN Holder :
       (entry[t] = "unborn" /\ entry'[t] = "live" /\ r'.reply = Ok) => jar' = t]_chainVars

(* What an application may rely on of an adapter: whom it is told about, by *)
(* the same token in every adapter, and what its clients are told.          *)
ChainInv == ChainTypeOK /\ HandlerSeesTheChecked /\ RefusalIsTold /\ AdaptersReadAlike
=============================================================================
