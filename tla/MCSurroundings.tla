--------------------------- MODULE MCSurroundings ---------------------------
(* Instances for TLC of what stands around the engines, Inspector,          *)
(* InspectorBridge, SessionPanel, AuditTrail, AuditExport and Deployment: a *)
(* behaviour is one of the part that part names.                            *)
EXTENDS Inspector, InspectorBridge, SessionPanel, AuditTrail, AuditExport, Deployment, TLC

Others == {"console", "panel", "trail", "export", "bridge"}

(* A part that is not exercised has one initial state. *)
SurroundingsInit ==
  /\ DeploymentInit \/ (part \in Others /\ DeploymentStart)
  /\ part # "trail" => slots = (CHOOSE l \in Layouts : TRUE) /\ kind = "jwt" /\ mode = "share"
  /\ part # "export" => options = CHOOSE o \in Options : TRUE
  /\ part # "console" => chain = CHOOSE c \in Chains : c.onError = "none"
  /\ part # "console" => allowMutations = TRUE
  /\ part # "bridge" => mayMutate = TRUE
  /\ part # "bridge" => ready = TRUE
  /\ Init /\ PanelStart /\ TrailStart /\ ExportStart /\ BridgeStart
  /\ Cardinality(Owners) > 1 => mode \in {"replace", "share"}

SurroundingsNext ==
  \/ part = "console" /\ Next /\ UNCHANGED <<deploymentVars, panelVars, trailVars, exportVars, bridgeVars>>
  \/ part = "panel" /\ PanelNext /\ UNCHANGED <<deploymentVars, vars, trailVars, exportVars, bridgeVars>>
  \/ part = "export" /\ ExportNext /\ UNCHANGED <<deploymentVars, vars, panelVars, trailVars, bridgeVars>>
  \/ part = "bridge" /\ BridgeNext /\ UNCHANGED <<deploymentVars, vars, panelVars, trailVars, exportVars>>
  \/ part = "trail" /\ TrailNext /\ UNCHANGED <<deploymentVars, vars, panelVars, exportVars, bridgeVars>>
  \/ DeploymentNext /\ UNCHANGED <<vars, panelVars, trailVars, exportVars, bridgeVars>>

SurroundingsSpec == SurroundingsInit /\ [][SurroundingsNext]_<<vars, deploymentVars, panelVars, trailVars, exportVars, bridgeVars>>

-----------------------------------------------------------------------------
Sink(type, fails, onError) == [kind |-> type, fails |-> fails, onError |-> onError]
Buf == Sink("buffer", FALSE, "none")

MCChains ==
  { [sinks |-> <<Sink("logger", TRUE, "none"), Sink("custom", TRUE, "none"), Buf>>,
     onError |-> "none"],
    [sinks |-> <<Sink("otel", TRUE, "throws"), Buf>>, onError |-> "throws"] }

CONSTANTS a1, a2, a3

MCFirst == <<a1, a2, a3>>

MCAlgorithm == <<"HS256", "RS256", "RS256">>

CONSTANTS redis, Iface, Sink1

MCOptions == { [store |-> Null, stpInterface |-> Iface, strategy |-> Null, eventSink |-> Null],
               [store |-> redis, stpInterface |-> Null, strategy |-> "jwt", eventSink |-> Sink1] }

Number(n) == [kind |-> "number", n |-> n]
Texts == {[kind |-> "text", halves |-> h, unit |-> u] : h \in 0 .. 3, u \in {1, 60}}
MCDurations == Texts \cup {Number(n) : n \in {-2, -1, 0, 1, 4, 60}}

MCInputs ==
  [timeout: {Number(-1)}, lifecycle:
     [access: [mode: {"fixed", "sliding"}, ttl: MCDurations, renew: {Null, Number(0), Number(1)}],
      refresh: MCDurations, enabled: BOOLEAN]]
  \cup
  [timeout: MCDurations, lifecycle:
     {[access |-> [mode |-> "fixed", ttl |-> Number(60), renew |-> Null],
       refresh |-> Number(60), enabled |-> TRUE]}]

Secret(pair, half, bytes) == [pair |-> pair, half |-> half, bytes |-> bytes]

KeyInput(kid, algorithm, secret, signing, verification) ==
  [kid |-> kid, algorithm |-> algorithm, secret |-> secret,
   signingKey |-> signing, verificationKey |-> verification]

Symmetric == {Null, Secret("o", "secret", 31), Secret("p", "secret", 32), Secret("q", "secret", 32)}
Asymmetric == {Null, Secret("p", "private", 1700), Secret("p", "public", 450), Secret("q", "public", 450)}

MCKeyConfigs ==
  [activeKid: {"k1"},
   keys: {<<KeyInput("k1", "HS256", a, b, c)>> : a, b, c \in Symmetric}
           \cup {<<KeyInput("k1", "RS256", a, b, c)>> : a, b, c \in Asymmetric}
           \cup {<<KeyInput(j, "HS512", Secret("p", "secret", 32), Null, Null),
                   KeyInput(k, g, Null, a, Null)>> : j, k \in {"k1", "k2"}, g \in {"HS256", "none"}, a \in Symmetric}]

CONSTANTS u2, u3, e1, e2, v1, v2

MCNumbers == {-1, 0, 1, 5}

MCLayouts == {{u2} \X {e1, e2}, {u2, u3} \X {e1}}

(* A login, a kickout by token, a replacement, and an event that an         *)
(* application made itself and left a token in.                             *)
MCShapes ==
  { [type |-> "token.logged_in", fields |-> [loginId |-> v1, device |-> v2, tokenFingerprint |-> v1]],
    [type |-> "token.kicked_out", fields |-> [loginId |-> v1, reason |-> v2, tokenFingerprint |-> v2]],
    [type |-> "token.replaced", fields |-> [loginId |-> v1, previousTokenFingerprint |-> v1,
                                            nextTokenFingerprint |-> v2]],
    [type |-> "token.family_revoked", fields |-> [familyIdFingerprint |-> v1, token |-> v2]] }

MCLoggers == {{"debug", "info", "warn", "error"}, {"info"}, {"error"}}

MCOverrides == {[t \in {} |-> "info"], [t \in {"token.logged_in"} |-> "debug"]}

Symmetry == Permutations(Calls)
=============================================================================
