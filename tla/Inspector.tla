----------------------------- MODULE Inspector -----------------------------
(***************************************************************************)
(* Audit events on their way out: the engine emits them to a chain of      *)
(* sinks, one of them the inspector's ring buffer; the bridge answers the  *)
(* console page from it; the page polls, with at most a few calls under    *)
(* way, over a network that may lose an answer or deliver two out of order *)
(* (2 s and 5 s timers are nothing but "at some time").                    *)
(***************************************************************************)
EXTENDS Values

CONSTANTS
  Chains,       \* the chains of sinks an application may configure
  Capacity,     \* of the buffer
  Limit,        \* the page's limit=100
  Rows,         \* of the timeline, 200
  Calls,        \* calls of the page under way at once
  LoginIds,     \* that the console may force out
  MaxEvents,    \* bound on the events of one server process; a restart takes two of them
  MaxRestarts   \* bound on the restarts of the server

ASSUME InspectorAssumption ==
  /\ Capacity \in Nat \ {0} /\ Limit \in Nat \ {0}
  /\ Rows \in Nat \ {0} /\ MaxEvents \in Nat /\ MaxRestarts \in Nat

VARIABLES
  chain, allowMutations,
  admin,      \* does auth() accept the page's token?
  events,     \* the buffer, newest first
  seq,        \* its last number
  emitted,    \* history: events the engine emitted in this process
  restarts,
  forcedOut,  \* accounts ended by the console
  page,       \* the page's state
  call,       \* its calls
  gap         \* history: has an event been passed over for a known reason?

server == <<chain, allowMutations, admin, events, seq, emitted, restarts, forcedOut>>
vars == <<server, page, call, gap>>

-----------------------------------------------------------------------------
(* Sinks.  A sink's parts may fail; logger and OpenTelemetry sinks hand     *)
(* each failure to their own onError, others throw.                         *)
Throws(s) == s.fails /\ (s.kind = "custom" \/ s.onError = "throws")

(* composeEventSinks: the next sink is reached unless onError itself throws *)
Reached(n) ==
  \A i \in 1 .. n - 1 : Throws(chain.sinks[i]) => chain.onError # "throws"

BufferAt == CHOOSE n \in 1 .. Len(chain.sinks) : chain.sinks[n].kind = "buffer"

(* The buffer's emit: unshift, and pop past the capacity. *)
Buffer(n) ==
  events' = [i \in 1 .. (IF Len(events) < Capacity THEN Len(events) + 1 ELSE Capacity) |->
               IF i = 1 THEN n ELSE events[i - 1]]

(* emitAuditEvent: whatever the chain throws, the call it is in goes on.    *)
Emit ==
  /\ emitted + 2 * restarts < MaxEvents /\ emitted' = emitted + 1
  /\ \/ Reached(BufferAt) /\ Buffer(seq + 1) /\ seq' = seq + 1
     \/ ~Reached(BufferAt) /\ UNCHANGED <<events, seq>>
  /\ UNCHANGED <<chain, allowMutations, admin, restarts, forcedOut, page, call, gap>>

(* The server starts again, maybe with another allowMutations. *)
Restart ==
  /\ restarts < MaxRestarts /\ restarts' = restarts + 1
  /\ events' = <<>> /\ seq' = 0 /\ emitted' = 0
  /\ allowMutations' \in BOOLEAN
  /\ gap' = TRUE   \* numbers start again
  /\ UNCHANGED <<chain, admin, forcedOut, page, call>>

AdminChanges ==
  /\ admin' = ~admin
  /\ UNCHANGED <<chain, allowMutations, events, seq, emitted, restarts, forcedOut, page, call, gap>>

(* snapshot(afterSeq, limit) *)
Newer(after) ==   \* filter, as a function over the prefixes: SelectSeq cannot be reasoned about
  LET kept[i \in 0 .. Len(events)] ==
        IF i = 0 THEN <<>>
        ELSE IF events[i] > after THEN Append(kept[i - 1], events[i]) ELSE kept[i - 1]
  IN kept[Len(events)]
Cut(s, n) == [i \in 1 .. (IF Len(s) < n THEN Len(s) ELSE n) |-> s[i]]

(* Mutant: the event at the cursor is sent again. *)
SnapshotFrom(after) ==
  [events |-> Cut(SelectSeq(events, LAMBDA n : n >= after), Limit), latest |-> seq]

Snapshot(after) ==
  [events |-> Cut(Newer(after), IF Limit < Capacity THEN Limit ELSE Capacity), latest |-> seq]

-----------------------------------------------------------------------------
(* The bridge and the calls of the page *)
NoCall == [pc |-> "none", path |-> Null, after |-> 0, body |-> Null]

Free(c) == call[c].pc = "none"
Send(c, path, after) ==
  call' = [call EXCEPT ![c] = [pc |-> "sent", path |-> path, after |-> after, body |-> Null]]

(* A paused page does not poll.  Another poll may still be under way, and   *)
(* then what both bring may be shown twice.                                 *)
PollEvents(c) ==
  /\ Free(c) /\ page.booted
  /\ Send(c, "/events", page.latest)
  /\ gap' = (gap \/ \E d \in Calls : call[d].path = "/events")
  /\ UNCHANGED <<server, page>>

RefreshOverview(c) ==
  /\ Free(c) /\ (page.booted \/ \A d \in Calls : Free(d))
  /\ Send(c, "/overview", 0) /\ UNCHANGED <<server, page, gap>>

(* mutate, after window.confirm: only if the last overview allowed it *)
Mutate(c, account) ==
  /\ Free(c) /\ page.allowMutations
  /\ call' = [call EXCEPT ![c] = [pc |-> "sent", path |-> "/actions", after |-> 0, body |-> account]]
  /\ UNCHANGED <<server, page, gap>>

(* handle: auth is awaited, then the handler runs *)
Auth(c) ==
  /\ call[c].pc = "sent"
  /\ call' = [call EXCEPT ![c] = IF admin THEN [@ EXCEPT !.pc = "allowed"]
                                 ELSE [@ EXCEPT !.pc = "answered", !.body = Null]]
  /\ UNCHANGED <<server, page, gap>>

Answer(c, body) == call' = [call EXCEPT ![c].pc = "answered", ![c].body = body]

HandleEvents(c) ==
  /\ call[c].pc = "allowed" /\ call[c].path = "/events"
  /\ Answer(c, Snapshot(call[c].after)) /\ UNCHANGED <<server, page, gap>>

HandleOverview(c) ==
  /\ call[c].pc = "allowed" /\ call[c].path = "/overview"
  /\ Answer(c, [latest |-> seq, allow |-> allowMutations]) /\ UNCHANGED <<server, page, gap>>

(* kickout, logout *)
HandleAction(c) ==
  /\ call[c].pc = "allowed" /\ call[c].path = "/actions"
  /\ Answer(c, Null)
  /\ \/ allowMutations /\ forcedOut' = forcedOut \cup {call[c].body}
     \/ ~allowMutations /\ UNCHANGED forcedOut
  /\ UNCHANGED <<chain, allowMutations, admin, events, seq, emitted, restarts, page, gap>>

-----------------------------------------------------------------------------
(* The page *)
Done(c) == call' = [call EXCEPT ![c] = NoCall]

(* 403, 500, or the network fails: api() gives null, and nothing is done *)
Fails(c) ==
  /\ call[c].pc # "none" /\ (call[c].pc = "answered" => call[c].body = Null)
  /\ Done(c)
  /\ page' = [page EXCEPT !.booted = @ \/ call[c].path = "/overview"]
  /\ UNCHANGED <<server, gap>>

(* The newest rows go on top, the last of too many go; an empty answer      *)
(* moves the cursor as well.                                                *)
ShowEvents(c) ==
  /\ call[c].pc = "answered" /\ call[c].path = "/events" /\ call[c].body # Null
  /\ page' = [page EXCEPT !.shown = Cut(call[c].body.events \o @, Rows), !.latest = call[c].body.latest]
  /\ gap' = (gap \/ call[c].body.latest - call[c].after > Len(call[c].body.events))
  /\ Done(c) /\ UNCHANGED server

ShowOverview(c) ==
  /\ call[c].pc = "answered" /\ call[c].path = "/overview" /\ call[c].body # Null
  /\ LET latest == call[c].body.latest IN
     /\ page' = [page EXCEPT !.allowMutations = call[c].body.allow,
                             !.latest = IF @ < latest THEN latest ELSE @,
                             !.from = IF page.booted THEN @ ELSE latest,
                             !.booted = TRUE]
     /\ gap' = (gap \/ (page.booted /\ page.latest < latest))
  /\ Done(c) /\ UNCHANGED server

(* The clear button: the timeline begins again where the cursor is (from,   *)
(* known of the page only to the property, counts while there is no gap).   *)
Clear ==
  /\ page.booted /\ page.shown # <<>>
  /\ page' = [page EXCEPT !.shown = <<>>, !.from = IF gap THEN @ ELSE page.latest]
  /\ UNCHANGED <<server, call, gap>>

Init ==
  /\ chain \in Chains /\ allowMutations \in BOOLEAN /\ admin = TRUE
  /\ events = <<>> /\ seq = 0 /\ emitted = 0 /\ restarts = 0 /\ forcedOut = {}
  /\ page = [booted |-> FALSE, latest |-> 0, from |-> 0,
             shown |-> <<>>, allowMutations |-> FALSE]
  /\ call = [c \in Calls |-> NoCall] /\ gap = FALSE

Next ==
  \/ Emit \/ Restart \/ AdminChanges \/ Clear
  \/ \E c \in Calls :
       \/ PollEvents(c) \/ RefreshOverview(c) \/ Auth(c)
       \/ HandleEvents(c) \/ HandleOverview(c) \/ HandleAction(c)
       \/ Fails(c) \/ ShowEvents(c) \/ ShowOverview(c)
       \/ \E a \in LoginIds : Mutate(c, a)

Spec == Init /\ [][Next]_vars

-----------------------------------------------------------------------------
(* The buffer holds the newest events, newest first, numbered without a     *)
(* hole, and no more than its capacity, whatever was emitted or restarted.  *)
BufferIsTail ==
  /\ Len(events) = IF seq < Capacity THEN seq ELSE Capacity
  /\ \A i \in 1 .. Len(events) : events[i] = seq + 1 - i

(* Every variable has its shape; the timeline holds no more than its rows.  *)
TypeOK ==
  /\ seq <= emitted /\ Len(page.shown) <= Rows
  /\ \A c \in Calls : call[c].pc \in {"none", "sent", "allowed", "answered"}
  /\ page.from <= page.latest \/ gap

(* composeEventSinks: a sink that throws keeps no event from the sinks      *)
(* behind it (an onError that throws does).                                 *)
SinksAreIsolated == chain.onError # "throws" => seq = emitted

(* The console's timeline: from where the page began, or was cleared, every *)
(* event up to its cursor is shown, once, the newest on top (the oldest     *)
(* rows go when there are too many), however calls fail and are repeated.   *)
(* Excepted are the cases in which the page does lose or double events: a   *)
(* restart of the server, more than a page of events between two polls, an  *)
(* overview that moves the cursor, two polls at once.                       *)
TimelineComplete ==
  ~gap => page.shown = Cut([i \in 1 .. page.latest - page.from |-> page.latest + 1 - i], Rows)

(* The way of an event from the engine to the console's timeline: through   *)
(* sinks that throw, a bounded buffer, and calls that fail.                 *)
ConsoleInv == TypeOK /\ SinksAreIsolated /\ BufferIsTail /\ TimelineComplete
=============================================================================
