---------------------------- MODULE SessionPanel ----------------------------
(***************************************************************************)
(* The session panel of the inspector's page.  Buttons and timers start    *)
(* asynchronous functions that call the bridge one after another; several  *)
(* are under way at once, each call may fail, and every rendering of the   *)
(* list throws away the rows an earlier one is still filling.  Sessions    *)
(* begin and end meanwhile.  The page's token is good and mutations are    *)
(* allowed here; the module Inspector is about that.                       *)
(***************************************************************************)
EXTENDS Integers, FiniteSets, Values

CONSTANTS
  Devices,
  First,        \* the accounts, in the order they are listed at the start
  Default,      \* the device "default"
  PageSize,     \* of the list, 20
  Buffered,     \* the capacity of the event buffer
  Procs,        \* the page's functions under way at once
  MaxSteps      \* bound on the logins, rotations and buttons pressed

ASSUME PanelAssumption ==
  /\ IsSequence(First) /\ \A i, j \in DOMAIN First : First[i] = First[j] => i = j
  /\ IsFiniteSet(Devices) /\ Devices # {}
  /\ PageSize \in Nat \ {0} /\ Buffered \in Nat /\ MaxSteps \in Nat

VARIABLES
  online,    \* accounts with a session list, in the order the store lists them
  devices,   \* their devices
  buffer,    \* the types of the buffered events, newest first
  view,      \* the page: its state and what it shows
  proc,      \* its functions
  steps,     \* history: logins, rotations and buttons pressed
  crossed    \* history: the page was turned while a list was being fetched

engine == <<online, devices, buffer>>
panelVars == <<engine, view, proc, steps, crossed>>

-----------------------------------------------------------------------------
(* The engine and its events *)
Accounts == {First[i] : i \in 1 .. Len(First)}

Types == {"token.logged_in", "token.refreshed", "token.logged_out",
          "token.kicked_out", "token.replaced", "token.family_revoked"}

Shorter(s, n) == SubSeq(s, 1, IF Len(s) < n THEN Len(s) ELSE n)

Logged(types) == buffer' = Shorter(types \o buffer, Buffered)

Bounded == steps < MaxSteps /\ steps' = steps + 1

LogsIn(a, d) ==
  /\ Bounded
  /\ devices' = [devices EXCEPT ![a] = @ \cup {d}]
  /\ online' = IF devices[a] = {} THEN Append(online, a) ELSE online
  /\ Logged(<<"token.logged_in">>)
  /\ UNCHANGED <<view, proc, crossed>>

(* A refresh, or a login that replaces a token: the lists stay as they are. *)
Rotates(type) ==
  /\ type \in {"token.refreshed", "token.replaced"}
  /\ Bounded
  /\ Logged(<<type>>)
  /\ UNCHANGED <<online, devices, view, proc, crossed>>

Without(s, k) == [i \in 1 .. Len(s) - 1 |-> IF i < k THEN s[i] ELSE s[i + 1]]

(* kickout and logoutByLoginId: an event for each device *)
End(a, D, type) ==
  LET left == devices[a] \ D IN
  /\ devices' = [devices EXCEPT ![a] = left]
  /\ online' = IF devices[a] # {} /\ left = {}
               THEN Without(online, CHOOSE k \in 1 .. Len(online) : online[k] = a) ELSE online
  /\ Logged([i \in 1 .. Cardinality(devices[a] \cap D) |-> type])

-----------------------------------------------------------------------------
(* The bridge *)
CountOf(T) == Cardinality({i \in 1 .. Len(buffer) : buffer[i] \in T})

MetricsNow ==
  [loginCount |-> CountOf({"token.logged_in"}), refreshCount |-> CountOf({"token.refreshed"}),
   logoutCount |-> CountOf({"token.logged_out"}),
   anomalyCount |-> CountOf({"token.kicked_out", "token.replaced", "token.family_revoked"}),
   tracked |-> Len(buffer)]

Smallest(S) == CHOOSE i \in S : \A j \in S : i <= j

Goes(p, q) == proc' = [proc EXCEPT ![p] = q]

(* sessions: the ids of the page and the number of all are read at once, in *)
(* either order.                                                            *)
Reads(p, what, q) ==
  /\ q.pc = "sessions" /\ what \in q.left
  /\ Goes(p, [q EXCEPT !.left = @ \ {what}, !.pc = IF q.left = {what} THEN "list" ELSE @])
  /\ UNCHANGED <<engine, view, steps, crossed>>

ReadLoginIds(p) ==
  LET q == proc[p]
      upto == (q.page + 1) * PageSize
  IN  Reads(p, "ids", [q EXCEPT !.ids = SubSeq(online, q.page * PageSize + 1,
                                              IF upto < Len(online) THEN upto ELSE Len(online))])

ReadOnlineCount(p) == Reads(p, "count", [proc[p] EXCEPT !.total = Len(online)])

ReadDevices(p) ==
  LET q == proc[p] IN
  /\ q.pc = "devices"
  /\ Goes(p, [q EXCEPT !.pc = "rows", !.got = devices[q.ids[Smallest(q.targets)]]])
  /\ UNCHANGED <<engine, view, steps, crossed>>

ReadMetrics(p) ==
  LET q == proc[p] IN
  /\ q.pc = "metrics"
  /\ Goes(p, [q EXCEPT !.pc = "cards", !.body = MetricsNow])
  /\ UNCHANGED <<engine, view, steps, crossed>>

(* kickout of a device, or logoutByLoginId without one *)
Perform(p) ==
  LET q == proc[p]
      D == IF q.act.device = Null THEN Devices ELSE {q.act.device}
  IN  /\ q.pc = "act"
      /\ End(q.act.name, D, IF q.act.device = Null THEN "token.logged_out" ELSE "token.kicked_out")
      /\ Goes(p, [q EXCEPT !.pc = "acted"])
      /\ UNCHANGED <<view, steps, crossed>>

-----------------------------------------------------------------------------
(* The page.  A function keeps: the page it asked for, the answers, the     *)
(* rows it still has to fill, whether these are still in the document, and, *)
(* for mutate, what it does to whom; meant and alone are history, the       *)
(* account of the row whose button was pressed, and FALSE for a device's     *)
(* button while several rows were expanded.                                 *)
NoAct == [name |-> Null, device |-> Null, meant |-> Null, alone |-> TRUE]

NoProc == [pc |-> "idle", page |-> 0, left |-> {}, ids |-> <<>>, total |-> 0, targets |-> {}, got |-> {},
           attached |-> FALSE, body |-> Null, act |-> NoAct]

AtRest(p) == proc[p].pc = "idle"

(* A list is being fetched and not yet shown. *)
Fetching == \E p \in Procs : proc[p].pc \in {"sessions", "list"}

Press(p) == AtRest(p) /\ Bounded /\ UNCHANGED engine

RefreshSessions(p, q, v) == 
  Goes(p, [q EXCEPT !.pc = "sessions", !.left = {"ids", "count"}, !.page = v.page])

PressRefresh(p) ==
  Press(p) /\ RefreshSessions(p, NoProc, view) /\ UNCHANGED <<view, crossed>>

Pages == LET n == (view.total + PageSize - 1) \div PageSize IN IF n = 0 THEN 1 ELSE n

Turn(p, n) ==
  /\ Press(p)
  /\ n >= 0 /\ (n > view.page => view.page < Pages - 1)
  /\ view' = [view EXCEPT !.page = n]
  /\ RefreshSessions(p, NoProc, [view EXCEPT !.page = n])
  /\ crossed' = (crossed \/ Fetching)

PressExpand(p, i) ==
  LET a == view.rows[i].id IN
  /\ Press(p)
  /\ view' = [view EXCEPT !.expanded = IF a \in @ THEN @ \ {a} ELSE @ \cup {a}]
  /\ RefreshSessions(p, NoProc, view) /\ UNCHANGED crossed

Opened == {i \in 1 .. Len(view.rows) : view.rows[i].open # "closed"}

Confirm(p, name, device, i, alone) ==
  /\ Press(p)
  /\ Goes(p, [NoProc EXCEPT !.pc = "act",
                !.act = [name |-> name, device |-> device,
                         meant |-> view.rows[i].id, alone |-> alone]])
  /\ UNCHANGED <<view, crossed>>

(* The two buttons of a session name its account; a device's button names   *)
(* what the variable of the loop that drew it holds now.                    *)
PressAction(p, i) ==
  \/ Confirm(p, view.rows[i].id, Default, i, TRUE)
  \/ Confirm(p, view.rows[i].id, Null, i, TRUE)
  \/ \E d \in view.rows[i].devices : Confirm(p, view.named, d, i, Cardinality(Opened) <= 1)

(* Every five seconds *)
RefreshMetrics(p) ==
  AtRest(p) /\ Goes(p, [NoProc EXCEPT !.pc = "metrics"]) /\ UNCHANGED <<engine, view, steps, crossed>>

(* When the action is done the list is fetched anew, and then the metrics. *)
Acted(p) ==
  /\ proc[p].pc = "acted"
  /\ RefreshSessions(p, proc[p], view) /\ UNCHANGED <<engine, view, steps, crossed>>

Ended(q) == IF q.act = NoAct THEN NoProc ELSE [NoProc EXCEPT !.pc = "metrics"]

(* loadExpandedDevices: the next row *)
NextRow(q, rest) ==
  IF rest = {} THEN Ended(q) ELSE [q EXCEPT !.pc = "devices", !.targets = rest, !.got = {}]

(* Mutant: the variable is also that of the loop over the rows. *)
NamedByRows(ids, targets) == IF ids = <<>> THEN Null ELSE ids[Len(ids)]

(* What the loop's variable holds when it begins. *)
Named(ids, targets) == IF targets = {} THEN Null ELSE ids[Smallest(targets)]

ShowSessions(p) ==
  LET q == proc[p]
      rows == [i \in 1 .. Len(q.ids) |->
                 [id |-> q.ids[i], devices |-> {},
                  open |-> IF q.ids[i] \in view.expanded THEN "loading" ELSE "closed"]]
      targets == {i \in 1 .. Len(rows) : rows[i].open = "loading"}
  IN  /\ q.pc = "list"
      /\ view' = [view EXCEPT !.rows = rows, !.total = q.total,
                              !.label = view.page, !.of = q.page,
                              !.named = Named(q.ids, targets)]
      /\ proc' = [r \in Procs |->
                    IF r = p THEN NextRow([q EXCEPT !.attached = TRUE], targets)
                    ELSE [proc[r] EXCEPT !.attached = FALSE]]
      /\ UNCHANGED <<engine, steps, crossed>>

(* The row is filled if it is still there, and the loop goes on.            *)
Fill(p, open, D) ==
  LET q == proc[p]
      row  == Smallest(q.targets)
      rest == q.targets \ {row}
  IN  /\ view' = IF ~q.attached THEN view
                 ELSE [view EXCEPT !.rows[row] = [@ EXCEPT !.open = open, !.devices = D],
                                   !.named = IF rest = {} THEN @ ELSE q.ids[Smallest(rest)]]
      /\ Goes(p, NextRow(q, rest))
      /\ UNCHANGED <<engine, steps, crossed>>

ShowDevices(p) == proc[p].pc = "rows" /\ Fill(p, "shown", proc[p].got)

ShowMetrics(p) ==
  /\ proc[p].pc = "cards"
  /\ view' = [view EXCEPT !.metrics = proc[p].body]
  /\ Goes(p, NoProc) /\ UNCHANGED <<engine, steps, crossed>>

(* api() gives null, or the answer is lost: nothing is shown, but in the loop the row says so and  *)
(* the next one follows; after a failed list the metrics still follow an    *)
(* action.                                                                  *)
CallFails(p) ==
  \/ proc[p].pc \in {"devices", "rows"} /\ Fill(p, "failed", {})
  \/ /\ proc[p].pc \in {"sessions", "list", "act", "acted", "metrics", "cards"}
     /\ Goes(p, IF proc[p].pc \in {"sessions", "list"} THEN Ended(proc[p]) ELSE NoProc)
     /\ UNCHANGED <<engine, view, steps, crossed>>

-----------------------------------------------------------------------------
(* boot: the page fetches its first list. *)
BootPanel(p) ==
  /\ ~view.booted /\ view' = [view EXCEPT !.booted = TRUE]
  /\ RefreshSessions(p, NoProc, view) /\ UNCHANGED <<engine, steps, crossed>>

PanelStart ==
  /\ online = First /\ devices = [a \in Accounts |-> Devices]
  /\ buffer = <<>> /\ steps = 0 /\ crossed = FALSE
  /\ view = [booted |-> FALSE, page |-> 0, total |-> 0, label |-> 0, of |-> 0, expanded |-> {},
             rows |-> <<>>, named |-> Null, metrics |-> Null]
  /\ proc = [p \in Procs |-> NoProc]

PanelNext ==
  \/ \E p \in Procs : BootPanel(p)
  \/ view.booted /\ \E a \in Accounts, d \in Devices : LogsIn(a, d)
  \/ view.booted /\ \E t \in Types : Rotates(t)
  \/ view.booted /\ \E p \in Procs :
       \/ ReadLoginIds(p) \/ ReadOnlineCount(p) \/ ReadDevices(p) \/ ReadMetrics(p) \/ Perform(p)
       \/ PressRefresh(p) \/ RefreshMetrics(p) \/ Acted(p)
       \/ Turn(p, view.page + 1) \/ Turn(p, view.page - 1)
       \/ \E i \in 1 .. Len(view.rows) : PressExpand(p, i) \/ PressAction(p, i)
       \/ ShowSessions(p) \/ ShowDevices(p) \/ ShowMetrics(p) \/ CallFails(p)

PanelSpec == PanelStart /\ [][PanelNext]_panelVars

-----------------------------------------------------------------------------
(* Every variable has its shape; what is listed has devices.                *)
PanelTypeOK ==
  /\ \A a \in Accounts :
       devices[a] \subseteq Devices /\ (devices[a] # {} <=> \E i \in 1 .. Len(online) : online[i] = a)
  /\ Len(buffer) <= Buffered /\ \A i \in 1 .. Len(buffer) : buffer[i] \in Types
  /\ view.page \in Nat /\ Len(view.rows) <= PageSize
  /\ \A i \in 1 .. Len(view.rows) : view.rows[i].open # "shown" => view.rows[i].devices = {}

(* loadExpandedDevices: when all functions have come to their end, whatever *)
(* failed or overlapped, no expanded session is left saying it is loading.  *)
NoRowLoadsForever ==
  (\A p \in Procs : AtRest(p)) => \A i \in 1 .. Len(view.rows) : view.rows[i].open # "loading"

(* The buttons of a session, and with one session expanded those of its     *)
(* devices, act on the account of their row, however lists are fetched and  *)
(* drawn meanwhile.  (With several expanded they do not: README.)           *)
KickHitsItsRow ==
  \A p \in Procs :
    proc[p].act.alone => proc[p].act.name = proc[p].act.meant

(* The list shown belongs to the page number shown, unless the page was     *)
(* turned while a list was under way.                                       *)
LabelMatchesRows == ~crossed => view.label = view.of

(* The cards of the metrics account for every event of the buffer.          *)
MetricsAddUp ==
  view.metrics # Null =>
    view.metrics.loginCount + view.metrics.refreshCount + view.metrics.logoutCount
      + view.metrics.anomalyCount = view.metrics.tracked

(* What the panel shows and what its buttons mean, while its functions      *)
(* overlap and fail.                                                        *)
PanelInv ==
  PanelTypeOK /\ NoRowLoadsForever /\ KickHitsItsRow /\ LabelMatchesRows /\ MetricsAddUp
=============================================================================
