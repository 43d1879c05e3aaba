---------------------------- MODULE AuditExport ----------------------------
(***************************************************************************)
(* The exporters of audit events: a structured log and OpenTelemetry's     *)
(* counter and span events, each with a list of the fields it carries,     *)
(* each failing on its own.  An event has a type and the fields it sets.  *)
(***************************************************************************)
EXTENDS Values

CONSTANTS
  Shapes,      \* the events that may be emitted
  Loggers,     \* the level methods a logger may have
  Overrides,   \* the severities an application may override: functions of types
  MaxExports   \* bound on the events

Levels == {"debug", "info", "warn", "error"}

ASSUME ExportAssumption ==
  /\ \A l \in Loggers : l \subseteq Levels
  /\ Null \notin Levels /\ MaxExports \in Nat

VARIABLES
  options,  \* of the two exporters
  api,      \* of @opentelemetry/api: loading, loaded, or missing
  counter,  \* is there a counter?
  exports   \* what became of each event

exportVars == <<options, api, counter, exports>>

-----------------------------------------------------------------------------
LogName ==
  [loginId |-> "login_id", device |-> "device", reason |-> "reason",
   tokenFingerprint |-> "token_fingerprint",
   previousTokenFingerprint |-> "previous_token_fingerprint",
   nextTokenFingerprint |-> "next_token_fingerprint",
   familyIdFingerprint |-> "family_id_fingerprint"]

AttributeName ==
  [loginId |-> "xlt.login_id", device |-> "xlt.device", reason |-> "xlt.reason",
   tokenFingerprint |-> "xlt.token_fingerprint",
   previousTokenFingerprint |-> "xlt.previous_token_fingerprint",
   nextTokenFingerprint |-> "xlt.next_token_fingerprint",
   familyIdFingerprint |-> "xlt.family_id_fingerprint"]

Renamed(name, e) == {<<name[f], e[f]>> : f \in DOMAIN name \cap DOMAIN e}

BuildRecord(e) == Renamed(LogName, e)

AuditEventAttributes(e) == Renamed(AttributeName, e)

DefaultSeverity ==
  [t \in {"token.logged_in", "token.refreshed", "token.logged_out",
          "token.kicked_out", "token.replaced", "token.family_revoked"} |->
     IF t \in {"token.kicked_out", "token.replaced", "token.family_revoked"} THEN "warn" ELSE "info"]

Level(type) ==
  IF type \in DOMAIN options.severity THEN options.severity[type] ELSE DefaultSeverity[type]

(* The method that gets the record; the console's logger has them all. *)
Writer(type) ==
  IF Level(type) \in options.logger THEN Level(type)
  ELSE IF "info" \in options.logger THEN "info" ELSE Null

-----------------------------------------------------------------------------
(* Creating the OpenTelemetry sink awaits its peer package; a meter that    *)
(* throws leaves the sink without a counter.                                *)
CreateOpenTelemetryEventSink ==
  /\ api = "loading"
  /\ \/ api' = "missing" /\ counter' = FALSE
     \/ api' = "loaded" /\ counter' \in IF options.metrics THEN BOOLEAN ELSE {FALSE}
  /\ UNCHANGED <<options, exports>>

(* What becomes of one part of an exporter *)
Part(on, works, fields) ==
  [done |-> IF ~on THEN "off" ELSE IF works THEN "out"
            ELSE IF options.onError = "reports" THEN "told" ELSE "failed",
   fields |-> IF on /\ works THEN fields ELSE {}]

Log(e, works) == Part(Writer(e.type) # Null, works, BuildRecord(e.fields))

Count(works) == Part(counter, works, {})

(* Mutant: one try block around both. *)
SpanEventTogether(e, active, works, counts) ==
  Part(api = "loaded" /\ options.spanEvents /\ active /\ (counter => counts), works, AuditEventAttributes(e.fields))

(* An onError that throws in the counter's catch takes the span event too. *)
SpanEvent(e, active, works, counts) ==
  Part(api = "loaded" /\ options.spanEvents /\ active /\ ~(counter /\ ~counts /\ options.onError = "throws"),
       works, AuditEventAttributes(e.fields))

(* createLoggerEventSink and the OpenTelemetry sink, composed *)
Export(e, log, counts, active, span) ==
  /\ api # "loading" /\ Len(exports) < MaxExports
  /\ exports' = Append(exports,
       [event |-> e, active |-> active, level |-> Writer(e.type),
        log |-> Log(e, log), count |-> Count(counts), span |-> SpanEvent(e, active, span, counts)])
  /\ UNCHANGED <<options, api, counter>>

Options ==
  [logger: Loggers, severity: Overrides, metrics: BOOLEAN, spanEvents: BOOLEAN,
   onError: {"none", "reports", "throws"}]

ExportStart ==
  /\ options \in Options
  /\ api = "loading" /\ counter = FALSE /\ exports = <<>>

ExportNext ==
  \/ CreateOpenTelemetryEventSink
  \/ \E e \in Shapes, log, counts, active, span \in BOOLEAN : Export(e, log, counts, active, span)

ExportSpec == ExportStart /\ [][ExportNext]_exportVars

-----------------------------------------------------------------------------
(* Every variable has its shape; nothing is counted without the package.    *)
ExportTypeOK ==
  /\ api \in {"loading", "loaded", "missing"} /\ (counter => api = "loaded")
  /\ \A i \in 1 .. Len(exports) :
       /\ exports[i].level \in Levels \cup {Null}
       /\ api = "missing" => exports[i].count.done = "off" /\ exports[i].span.done = "off"

Carries(fields, name) == {p \in {<<f, x[2]>> : f \in DOMAIN name, x \in fields} :
                            <<name[p[1]], p[2]>> \in fields}

(* What an event says reaches the log and the trace alike: the two lists of *)
(* fields, kept by hand in two files, say the same, and nothing that is in  *)
(* neither list leaves the process, whatever an event brings along.         *)
ExportsAgree ==
  \A i \in 1 .. Len(exports) :
    LET x == exports[i] IN
    /\ x.log.done = "out" /\ x.span.done = "out" =>
         Carries(x.log.fields, LogName) = Carries(x.span.fields, AttributeName)
    /\ \A f \in x.log.fields \cup x.span.fields :
         \E g \in DOMAIN LogName : f[1] \in {LogName[g], AttributeName[g]}

(* Every event is logged or its failure told, whatever level it has, if the *)
(* logger can log at all; and it reaches the active span unless that fails, *)
(* even when the counter has failed just before.  Only an onError that      *)
(* throws itself comes between.                                             *)
NothingLostSilently ==
  \A i \in 1 .. Len(exports) :
    LET x == exports[i] IN
    /\ "info" \in options.logger => x.log.done # "off"
    /\ api = "loaded" /\ options.spanEvents /\ x.active /\ options.onError # "throws" => x.span.done # "off"
    /\ options.onError = "reports" => "failed" \notin {x.log.done, x.count.done, x.span.done}

(* Log, counter and trace say the same of an event, or that they failed.    *)
ExportInv == ExportTypeOK /\ ExportsAgree /\ NothingLostSilently
=============================================================================
