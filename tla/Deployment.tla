----------------------------- MODULE Deployment -----------------------------
(***************************************************************************)
(* What surrounds the engines: the rotation of JWT keys over the nodes of  *)
(* a deployment, the instances of a process and the default that StpUtil   *)
(* speaks to, the normalising of a configuration and of the keys that JWTs *)
(* are signed with, and the names of the store's keys.  These share        *)
(* nothing; a behaviour exercises one, its part.                           *)
(***************************************************************************)
EXTENDS Integers, Values

CONSTANTS
  Nodes,
  Algorithm,   \* of each key; a kid is a number, rotated to the next
  TokenLife,   \* how long a token lives
  MaxClock,    \* bound on the clock
  Instances,
  CreateOptions,  \* what the instances are created with
  Inputs,      \* the configurations an application may write
  Words,       \* what names are made of
  KeyConfigs   \* the JWT configurations an application may write

(* What durations are written as: a number of seconds, or a text, which is  *)
(* a number of halves and the seconds of its unit.                          *)
Durations == [kind: {"number"}, n: Int] \cup [kind: {"text"}, halves: Nat, unit: Nat]

(* A store that an application gives is none of the defaults; two halves    *)
(* of a symmetric secret are the same secret.                               *)
DeploymentConstants ==
  /\ MaxClock \in Nat /\ TokenLife \in Nat \ {0}
  /\ Algorithm # <<>> /\ Algorithm \in Seq({Algorithm[i] : i \in DOMAIN Algorithm})
  /\ Null \notin Int /\ Null \notin Durations
  /\ \A o \in CreateOptions : o.store \notin Instances
  /\ Inputs \subseteq [timeout: Durations, lifecycle:
       [access: [mode: {"fixed", "sliding"}, ttl: Durations, renew: Durations \cup {Null}],
        refresh: Durations, enabled: BOOLEAN]]
  /\ \A c \in KeyConfigs : \A i \in DOMAIN c.keys :
       \A x, y \in {c.keys[i].secret, c.keys[i].signingKey, c.keys[i].verificationKey} \ {Null} :
         x.half = "secret" /\ x.pair = y.pair => x = y

ASSUME DeploymentAssumption == DeploymentConstants

VARIABLES
  part,        \* "rotation", "instances", "config", "keys" or "names"
  conf,        \* rotation: each node's JwtStrategyConfig
  tokens,      \* rotation: the tokens signed and not expired
  clock, step, \* rotation: the time, and where the operators are
  instances,   \* instances: what has been built, and how far
  default,     \* instances: what setStpLogic and setStpPermLogic were given
  served,      \* instances: the engine and permission logic of the last StpUtil calls
  config       \* config: what normalising has made of an input

rotationVars == <<conf, tokens, clock, step>>
instanceVars == <<instances, default, served>>
deploymentVars == <<part, rotationVars, instanceVars, config>>

-----------------------------------------------------------------------------
(* JWT keys.  A configuration is the known kids and the active one.         *)
Kids == DOMAIN Algorithm

JwtConfig(kids, active) == [keys |-> kids, active |-> active]

(* createJwtStrategyConfig accepts it *)
Valid(c) == c.keys # {} /\ c.active \in c.keys

(* signPayload, resolveExpiresIn *)
SignPayload(c) == [kid |-> c.active, alg |-> Algorithm[c.active], exp |-> clock + TokenLife]

(* Mutant: verified with the key tokens are signed with. *)
VerifyTokenActive(c, t) == t.kid = c.active /\ t.alg = Algorithm[t.kid] /\ clock < t.exp

VerifyToken(c, t) == t.kid \in c.keys /\ t.alg = Algorithm[t.kid] /\ clock < t.exp

Rotation == part = "rotation" /\ UNCHANGED <<part, instanceVars, config>>

(* The operators' order: both keys everywhere, then the new one active, and *)
(* when the old tokens are gone only the new.  Nodes are restarted one by   *)
(* one.  step holds the rotation's old kid, its stage and when it began.    *)
New == step.old + 1

Deploy(n, c) ==
  /\ conf[n] # c /\ conf' = [conf EXCEPT ![n] = c] /\ UNCHANGED <<tokens, clock, step>>

DeployStage(n) ==
  CASE step.stage = "publish" -> Deploy(n, JwtConfig({step.old, New}, step.old))
    [] step.stage = "switch"  -> Deploy(n, JwtConfig({step.old, New}, New))
    [] step.stage = "drop"    -> Deploy(n, JwtConfig({New}, New))

Roll(n) == Rotation /\ New \in Kids /\ DeployStage(n)

Everywhere(c) == \A n \in Nodes : conf[n] = c

NextStage ==
  /\ Rotation /\ New \in Kids
  /\ step' =
       CASE step.stage = "publish" -> [step EXCEPT !.stage = "switch"]
         [] step.stage = "switch"  -> [step EXCEPT !.stage = "wait", !.since = clock]
         [] step.stage = "wait"    -> [step EXCEPT !.stage = "drop"]
         [] step.stage = "drop"    -> [old |-> New, stage |-> "publish", since |-> clock]
  /\ CASE step.stage = "publish" -> Everywhere(JwtConfig({step.old, New}, step.old))
       [] step.stage = "switch"  -> Everywhere(JwtConfig({step.old, New}, New))
       [] step.stage = "wait"    -> clock >= step.since + TokenLife
       [] step.stage = "drop"    -> Everywhere(JwtConfig({New}, New))
  /\ UNCHANGED <<conf, tokens, clock>>

CreateToken(n) ==
  Rotation /\ tokens' = tokens \cup {SignPayload(conf[n])} /\ UNCHANGED <<conf, clock, step>>

TimePasses ==
  /\ Rotation /\ clock < MaxClock /\ clock' = clock + 1
  /\ tokens' = {t \in tokens : clock + 1 < t.exp} /\ UNCHANGED <<conf, step>>

RotationNext ==
  \/ NextStage \/ TimePasses \/ \E n \in Nodes : CreateToken(n)
  \/ \E n \in Nodes : step.stage # "wait" /\ Roll(n)

-----------------------------------------------------------------------------
(* Instances.  Options give a store, an StpInterface and an event sink, or  *)
(* leave them out; an instance is its engine and its permission logic, each *)
(* with what it was built from.  A store of an instance's own has its name. *)
InstancePart == part = "instances" /\ UNCHANGED <<part, rotationVars, config>>

NoInstance == [stage |-> "none", options |-> Null, stpLogic |-> Null, stpPermLogic |-> Null]

(* Mutant: the default store is made once for all. *)
StoreOfShared(i, o) == IF o.store = Null THEN "memory" ELSE o.store

(* createXltInstance's default, and createStoreProvider's *)
StoreOf(i, o) == IF o.store = Null THEN i ELSE o.store

(* Without an StpInterface there is one whose methods throw. *)
InterfaceOf(o) == IF o.stpInterface = Null THEN "throws" ELSE o.stpInterface

(* UuidStrategy, and a sink without emit, where none is given *)
StrategyOf(o)  == IF o.strategy = Null THEN "uuid" ELSE o.strategy
EventSinkOf(o) == IF o.eventSink = Null THEN "none" ELSE o.eventSink

StpLogicOf(i, o) ==
  [config |-> i, store |-> StoreOf(i, o), strategy |-> StrategyOf(o), eventSink |-> EventSinkOf(o)]
StpPermLogicOf(i, o) == [config |-> i, store |-> StoreOf(i, o), stpInterface |-> InterfaceOf(o)]

Built(i, o, stage) ==
  [stage |-> stage, options |-> o,
   stpLogic |-> StpLogicOf(i, o), stpPermLogic |-> StpPermLogicOf(i, o)]

Becomes(i, x) == InstancePart /\ instances' = [instances EXCEPT ![i] = x]

CreateXltInstance(i, o) ==
  /\ instances[i].stage = "none" /\ Becomes(i, Built(i, o, "ready"))
  /\ UNCHANGED <<default, served>>

SetDefaultXltInstance(i) ==
  /\ InstancePart /\ instances[i].stage = "ready"
  /\ default' = [stpLogic |-> i, stpPermLogic |-> i] /\ UNCHANGED <<instances, served>>

CreateXltToken(i, o) ==
  /\ instances[i].stage = "none" /\ Becomes(i, Built(i, o, "ready"))
  /\ default' = [stpLogic |-> i, stpPermLogic |-> i] /\ UNCHANGED served

(* XltTokenModule.  The container resolves the providers one after another, *)
(* and those of forRootAsync wait for the application's factory, which may  *)
(* reject; other modules and factories run meanwhile.                       *)
ForRoot(i, o) ==
  /\ instances[i].stage = "none" /\ Becomes(i, [NoInstance EXCEPT !.stage = "store", !.options = o])
  /\ UNCHANGED <<default, served>>

ForRootAsync(i, o) ==
  /\ instances[i].stage = "none" /\ Becomes(i, [NoInstance EXCEPT !.stage = "config", !.options = o])
  /\ UNCHANGED <<default, served>>

UseFactory(i) ==
  /\ instances[i].stage = "config"
  /\ \/ Becomes(i, [instances[i] EXCEPT !.stage = "store"])
     \/ Becomes(i, [NoInstance EXCEPT !.stage = "rejected"])
  /\ UNCHANGED <<default, served>>

StpLogicProviders(i) ==
  /\ instances[i].stage = "store" /\ Becomes(i, Built(i, instances[i].options, "init"))
  /\ UNCHANGED <<default, served>>

InitProvider(i) ==
  /\ instances[i].stage = "init" /\ Becomes(i, [instances[i] EXCEPT !.stage = "ready"])
  /\ default' = [stpLogic |-> i, stpPermLogic |-> i] /\ UNCHANGED served

(* Every method of StpUtil asks for the default anew. *)
StpUtilCall(logic) ==
  /\ InstancePart /\ default[logic] # Null
  /\ served' = [served EXCEPT ![logic] = default[logic]] /\ UNCHANGED <<instances, default>>

(* getDefaultXltInstance: config and store are those of the engine; it      *)
(* throws before a default is registered.                                   *)
Engine == instances[default.stpLogic].stpLogic

GetDefaultXltInstance ==
  [config |-> Engine.config, store |-> Engine.store, stpLogic |-> Engine,
   stpPermLogic |-> instances[default.stpPermLogic].stpPermLogic]

InstancesNext ==
  \/ \E i \in Instances, o \in CreateOptions :
       CreateXltInstance(i, o) \/ CreateXltToken(i, o) \/ ForRoot(i, o) \/ ForRootAsync(i, o)
  \/ \E i \in Instances :
       SetDefaultXltInstance(i) \/ UseFactory(i) \/ StpLogicProviders(i) \/ InitProvider(i)
  \/ \E logic \in {"stpLogic", "stpPermLogic"} : StpUtilCall(logic)

-----------------------------------------------------------------------------
(* Configuration.  A duration is normalised to seconds (decimals beyond     *)
(* halves are left out); Null is invalid.                                   *)
Positive(n) == IF n > 0 THEN n ELSE Null

Halves(d) == d.halves * d.unit

NormalizeDuration(d, zero, never) ==
  IF d.kind = "text" THEN (IF Halves(d) % 2 = 0 THEN Positive(Halves(d) \div 2) ELSE Null)
  ELSE IF (d.n = 0 /\ zero) \/ (d.n = -1 /\ never) THEN d.n ELSE Positive(d.n)

Ttl(d) == NormalizeDuration(d, FALSE, FALSE)

RenewBelow(e) ==
  IF e.renew = Null THEN Ttl(e.ttl) \div 5 ELSE Ttl(e.renew)

LifecycleValid(l) ==
  /\ Ttl(l.access.ttl) # Null /\ Ttl(l.refresh) # Null
  /\ l.access.mode = "fixed" => l.access.renew = Null
  /\ l.access.mode = "sliding" => RenewBelow(l.access) # Null
  /\ l.enabled => Ttl(l.refresh) >= Ttl(l.access.ttl)

Seconds(n) == [kind |-> "number", n |-> n]

NormalizeTokenLifecycle(l) ==
  [l EXCEPT !.access.ttl = Seconds(Ttl(@)), !.refresh = Seconds(Ttl(@)),
            !.access.renew = IF l.access.mode = "fixed" THEN Null
                             ELSE Seconds(RenewBelow(l.access))]

(* The engine takes what holds seconds for normal, and normalises the rest  *)
(* each time it looks.                                                      *)
GetLifecycleConfig(l) ==
  IF l.access.ttl.kind = "number" /\ l.refresh.kind = "number" THEN l ELSE NormalizeTokenLifecycle(l)

(* normalizeXltTokenConfig, from createXltInstance and the NestJS module *)
Accepts(c) == NormalizeDuration(c.timeout, TRUE, TRUE) # Null /\ LifecycleValid(c.lifecycle)

NormalizeXltTokenConfig ==
  /\ part = "config" /\ config.stage = "written" /\ Accepts(config.c)
  /\ config' = [stage |-> "normal",
                c |-> [timeout |-> Seconds(NormalizeDuration(config.c.timeout, TRUE, TRUE)),
                       lifecycle |-> NormalizeTokenLifecycle(config.c.lifecycle)]]
  /\ UNCHANGED <<part, rotationVars, instanceVars>>

-----------------------------------------------------------------------------
(* The keys of a JWT configuration.  A secret has a pair, of which it is    *)
(* both halves or the private or the public one, and a length in bytes.     *)
supportedAlgorithms == {"HS256", "HS384", "HS512", "RS256", "RS384", "RS512", "ES256", "ES384", "ES512"}
Hmac == {"HS256", "HS384", "HS512"}

FirstOf(x, y) == IF x # Null THEN x ELSE y

StrongHmacSecret(k) == k.half = "secret" /\ k.bytes >= 32

(* Null when it throws *)
NormalizeJwtKey(k) ==
  LET signing == FirstOf(k.signingKey, k.secret)
      verification == FirstOf(k.verificationKey, FirstOf(k.secret, k.signingKey))
  IN  IF k.algorithm \notin supportedAlgorithms \/ signing = Null \/ verification = Null
           \/ (k.algorithm \in Hmac /\ ~StrongHmacSecret(signing))
      THEN Null
      ELSE [kid |-> k.kid, algorithm |-> k.algorithm, signingKey |-> signing, verificationKey |-> verification]

CreateJwtStrategyConfig ==
  LET keys == [i \in DOMAIN config.c.keys |-> NormalizeJwtKey(config.c.keys[i])] IN
  /\ part = "keys" /\ config.stage = "written"
  /\ \A i \in DOMAIN keys : keys[i] # Null
  /\ \A i, j \in DOMAIN keys : keys[i].kid = keys[j].kid => i = j
  /\ \E i \in DOMAIN keys :
       /\ keys[i].kid = config.c.activeKid
       /\ config' = [stage |-> "normal", c |-> [activeKey |-> keys[i], keys |-> keys, written |-> config.c.keys[i]]]
  /\ UNCHANGED <<part, rotationVars, instanceVars>>

-----------------------------------------------------------------------------
(* XltTokenKeys.  A name is the sequence of what lies between its colons.   *)
Plain == {<<w>> : w \in Words}
KeyNames == Plain \cup {<<v, w>> : v, w \in Words}

SafeKey(token, business) == <<"safe">> \o token \o business

SessionKey(loginId, device) == <<"login", "session">> \o loginId \o device

(* Every kind of entry with the arguments it may be built from: login and   *)
(* JWT ids and generated tokens have no colon, devices and businesses may.  *)
OneName == {"token", "session-list", "session-data", "offline", "lastActive"}
StoreKeys ==
  {[of |-> <<kind, x>>, key |-> <<"login", kind>> \o x] : kind \in OneName, x \in Plain}
  \cup {[of |-> <<"session", l, d>>, key |-> SessionKey(l, d)] : l \in Plain, d \in KeyNames}
  \cup {[of |-> <<"safe", t, b>>, key |-> SafeKey(t, b)] : t \in Plain, b \in KeyNames}
  \cup {[of |-> <<kind, x>>, key |-> <<kind>> \o x] :
          kind \in {"jwt-blacklist", "temp-token"}, x \in Plain}
  \cup {[of |-> <<kind, x>>, key |-> <<"perm-cache", kind>> \o x] : kind \in {"perm", "role"}, x \in Plain}
  \cup {[of |-> <<"state", f>>, key |-> <<"lifecycle">> \o f \o <<"state">>] : f \in Plain}
  \cup {[of |-> <<"generation", f>>, key |-> <<"lifecycle">> \o f \o <<"generation", "0">>] : f \in Plain}

-----------------------------------------------------------------------------
DeploymentStart ==
  /\ conf = [n \in Nodes |-> JwtConfig({1}, 1)] /\ tokens = {} /\ clock = 0
  /\ step = [old |-> 1, stage |-> "publish", since |-> 0]
  /\ instances = [i \in Instances |-> NoInstance] /\ default = [stpLogic |-> Null, stpPermLogic |-> Null]
  /\ served = [stpLogic |-> Null, stpPermLogic |-> Null]
  /\ IF part \in {"config", "keys"}
     THEN config \in [stage: {"written"}, c: IF part = "config" THEN Inputs ELSE KeyConfigs]
     ELSE config = [stage |-> "none", c |-> Null]

DeploymentInit == part \in {"rotation", "instances", "config", "keys", "names"} /\ DeploymentStart

DeploymentNext == RotationNext \/ InstancesNext \/ NormalizeXltTokenConfig \/ CreateJwtStrategyConfig

DeploymentSpec == DeploymentInit /\ [][DeploymentNext]_deploymentVars

-----------------------------------------------------------------------------
(* Every variable has its shape; every node always runs a valid config.     *)
DeploymentTypeOK ==
  /\ \A n \in Nodes : Valid(conf[n]) /\ conf[n].keys \subseteq Kids
  /\ clock \in 0 .. MaxClock /\ \A t \in tokens : t.kid \in Kids /\ clock < t.exp
  /\ \A l \in DOMAIN default : default[l] # Null => instances[default[l]].stage = "ready"

(* JWT key rotation in the documented order, node by node, while all of     *)
(* them sign: no node ever rejects a token that has not expired.            *)
RotationKeepsTokens == \A t \in tokens, n \in Nodes : VerifyToken(conf[n], t)

(* StpUtil: in a process that registers instances and does not call the two *)
(* setters itself, sessions and permissions of the default are those of one *)
(* instance, however many are created and in whatever order.                *)
DefaultIsOne == default.stpLogic = default.stpPermLogic

(* createXltInstance and XltTokenModule: the engine and the permission      *)
(* logic of an instance, and what getDefaultXltInstance returns, work on    *)
(* one store and one configuration, and two instances share a store only    *)
(* if the application gave it to both, however modules are initialised side *)
(* by side.                                                                 *)
InstancesAreIsolated ==
  LET built == {i \in Instances : instances[i].stpLogic # Null} IN
  /\ \A i, j \in built :
       instances[i].stpLogic.store = instances[j].stpPermLogic.store =>
         i = j \/ (instances[i].options.store = instances[j].options.store 
                    /\ instances[i].options.store # Null)
  /\ default.stpLogic # Null =>
       LET x == GetDefaultXltInstance IN
       x.store = x.stpPermLogic.store /\ x.config = x.stpPermLogic.config

(* What the engine finds of a configuration that is accepted was written:   *)
(* its refresh tokens live at least as long as its access tokens, whatever  *)
(* units either was written in, and a sliding token has a moment to renew.  *)
ConfigIsSound ==
  part = "config" /\ config.stage = "normal" =>
    LET l == GetLifecycleConfig(config.c.lifecycle) IN
    /\ config.c.timeout.n >= -1
    /\ l.enabled => l.refresh.n >= l.access.ttl.n
    /\ l.access.mode = "sliding" => l.access.renew # Null

(* jsonwebtoken (external): what was signed with s is verified with v. *)
Verifies(algorithm, s, v) ==
  IF algorithm \in Hmac THEN v = s ELSE s.half = "private" /\ v.pair = s.pair

(* createJwtStrategyConfig, however a key is written: no accepted key signs *)
(* with a weak HMAC secret, and an accepted active key verifies what it     *)
(* signs, if it signs at all and was not written as two different secrets.  *)
AcceptedKeysWork ==
  part = "keys" /\ config.stage = "normal" =>
    LET k == config.c.activeKey
        w == config.c.written
    IN  /\ \A i \in DOMAIN config.c.keys :
             config.c.keys[i].algorithm \in Hmac => config.c.keys[i].signingKey.bytes >= 32
        /\ \/ Verifies(k.algorithm, k.signingKey, k.verificationKey)
           \/ k.algorithm \notin Hmac /\ k.signingKey.half # "private"
           \/ \E x, y \in {w.secret, w.signingKey, w.verificationKey} \ {Null} : x.pair # y.pair

(* XltTokenKeys: two different entries never share a key.                   *)
KeysDontMeet ==
  part = "names" => \A x, y \in StoreKeys : x.key = y.key => x.of = y.of

(* The parts but the rotation: instances that keep to themselves, and       *)
(* configurations, keys and names that are accepted and work.               *)
DeploymentInv ==
  /\ DeploymentTypeOK
  /\ part = "instances" => DefaultIsOne /\ InstancesAreIsolated
  /\ ConfigIsSound /\ AcceptedKeysWork /\ KeysDontMeet
=============================================================================
