------------------------- MODULE Surroundings_proofs -------------------------
(***************************************************************************)
(* Theorems about what surrounds the session engine, for every application.*)
(* Inspector: what the buffer holds, what a failing sink costs others, and *)
(* what the console shows.  InspectorBridge: what a request to the console *)
(* reaches.  SessionPanel: whose sessions a row shows and an action ends.  *)
(* AuditTrail: what the events tell of each token.  AuditExport: what the  *)
(* sinks make of an event.  Access: what a request that is served has met, *)
(* and how old a cached list may be.  HttpChain: what a handler finds on   *)
(* its request and what a client is told.  Deployment: keys that rotate    *)
(* under way, instances apart, and configurations and keys that work.      *)
(***************************************************************************)
EXTENDS Inspector, InspectorBridge, SessionPanel, AuditTrail, AuditExport, Access, HttpChain,
        Deployment, FiniteSetTheorems, SequenceTheorems, WellFoundedInduction, TLAPS

(* The server's part of the state: the buffer is the tail of what came in.  *)
BufferInv ==
  /\ seq \in Nat /\ emitted \in Nat
  /\ events \in Seq(Nat)
  /\ BufferIsTail

LEMMA SinkServed == ASSUME chain.onError # "throws", NEW n PROVE Reached(n)
BY DEF Reached

LEMMA EmitKeeps == ASSUME BufferInv, Emit PROVE BufferInv'
<1> USE InspectorAssumption
<1>1. CASE UNCHANGED <<events, seq>>
  BY <1>1 DEF BufferInv, BufferIsTail, Emit
<1>2. CASE Buffer(seq + 1) /\ seq' = seq + 1
  <2> DEFINE m == IF Len(events) < Capacity THEN Len(events) + 1 ELSE Capacity
             f == [i \in 1 .. m |-> IF i = 1 THEN seq + 1 ELSE events[i - 1]]
  <2>1. Len(events) \in Nat /\ seq \in Nat /\ seq' \in Nat BY <1>2 DEF BufferInv
  <2>2. m \in Nat \ {0} /\ m - 1 <= Len(events) /\ m = IF seq' < Capacity THEN seq' ELSE Capacity
    BY <1>2, <2>1 DEF BufferInv, BufferIsTail
  <2>3. events' = f BY <1>2 DEF Buffer
  <2> HIDE DEF m
  <2>4. ASSUME NEW i \in 1 .. m PROVE f[i] \in Nat /\ f[i] = seq' + 1 - i
    <3>1. CASE i = 1 BY <1>2, <2>1, <3>1
    <3>2. CASE i # 1
      <4>1. i - 1 \in 1 .. Len(events) BY <2>1, <2>2, <3>2
      <4>2. events[i - 1] = seq + 1 - (i - 1) BY <4>1 DEF BufferInv, BufferIsTail
      <4>3. events[i - 1] \in Nat BY <4>1 DEF BufferInv
      <4> QED BY <1>2, <2>1, <2>2, <3>2, <4>2, <4>3
    <3> QED BY <3>1, <3>2
  <2>5. f \in Seq(Nat) /\ Len(f) = m
    <3>1. f \in [1 .. m -> Nat] BY <2>4
    <3> HIDE DEF f
    <3>2. f \in Seq(Nat) BY <2>2, <3>1, SeqDef
    <3>3. DOMAIN f = 1 .. m /\ Len(f) \in Nat /\ DOMAIN f = 1 .. Len(f) BY <3>1, <3>2, LenProperties
    <3> QED BY <2>2, <3>2, <3>3
  <2> HIDE DEF f
  <2>6. BufferIsTail' BY <2>2, <2>3, <2>4, <2>5 DEF BufferIsTail
  <2>7. emitted' \in Nat BY DEF Emit, BufferInv
  <2> QED BY <2>1, <2>3, <2>5, <2>6, <2>7 DEF BufferInv
<1> QED BY <1>1, <1>2 DEF Emit

LEMMA ServerSteps ==
  ASSUME [Next]_vars
  PROVE  \/ Emit \/ Restart
         \/ UNCHANGED <<chain, events, seq, emitted>>
BY DEF Next, vars, server, AdminChanges, Clear, PollEvents, RefreshOverview, Auth, HandleEvents,
       HandleOverview, HandleAction, Fails, ShowEvents, ShowOverview, Mutate

LEMMA NextBuffer == BufferInv /\ [Next]_vars => BufferInv'
<1> SUFFICES ASSUME BufferInv, [Next]_vars PROVE BufferInv'
  OBVIOUS
<1>1. CASE Emit BY <1>1, EmitKeeps
<1>2. CASE Restart BY <1>2, InspectorAssumption DEF Restart, BufferInv, BufferIsTail
<1>3. CASE UNCHANGED <<chain, events, seq, emitted>> BY <1>3 DEF BufferInv, BufferIsTail
<1> QED BY <1>1, <1>2, <1>3, ServerSteps

(* The ring buffer holds the newest events without a hole: unshift and pop  *)
(* never drop an event that is not the oldest.                              *)
THEOREM BufferHolds == Spec => []BufferIsTail
<1>1. Init => BufferInv BY InspectorAssumption DEF Init, BufferInv, BufferIsTail
<1>2. BufferInv => BufferIsTail BY DEF BufferInv
<1> QED BY <1>1, <1>2, NextBuffer, PTL DEF Spec

(* Whatever the sinks before it do, and however many there are, the buffer  *)
(* sees every event unless the chain's own onError throws.                  *)
THEOREM SinksIsolated == Spec => []SinksAreIsolated
<1>1. Init => BufferInv /\ SinksAreIsolated
  BY InspectorAssumption DEF Init, BufferInv, BufferIsTail, SinksAreIsolated
<1>2. BufferInv /\ SinksAreIsolated /\ [Next]_vars => BufferInv' /\ SinksAreIsolated'
  <2> SUFFICES ASSUME BufferInv, SinksAreIsolated, [Next]_vars PROVE SinksAreIsolated'
    BY NextBuffer
  <2>1. CASE Emit BY <2>1, SinkServed DEF Emit, SinksAreIsolated
  <2>2. CASE Restart BY <2>2 DEF Restart, SinksAreIsolated
  <2>3. CASE UNCHANGED <<chain, events, seq, emitted>> BY <2>3 DEF SinksAreIsolated
  <2> QED BY <2>1, <2>2, <2>3, ServerSteps
<1> QED BY <1>1, <1>2, PTL DEF Spec

-----------------------------------------------------------------------------
(* What a poll is answered: filter over the buffer, then slice.             *)

Below(a, b) == IF a < b THEN a ELSE b

(* How many of the buffered events are newer than the cursor. *)
NewerCount(after) == Below(Len(events), IF after < seq THEN seq - after ELSE 0)

LEMMA LeastCounterexample ==
  ASSUME NEW T, T \subseteq Nat, T # {}
  PROVE  \E x \in T : \A y \in T : ~(y < x)
<1>1. \E x \in T : \A y \in T : ~(<<y, x>> \in OpToRel(<, Nat)) BY NatLessThanWellFounded, WFMin
<1> QED BY <1>1 DEF OpToRel

LEMMA AppendOne ==
  ASSUME NEW n \in Nat, NEW m \in Nat
  PROVE  /\ [k \in 1 .. n |-> m - k] \in Seq(Int)
         /\ Len([k \in 1 .. n |-> m - k]) = n
         /\ Append([k \in 1 .. n |-> m - k], m - (n + 1)) = [k \in 1 .. n + 1 |-> m - k]
<1> DEFINE s == [k \in 1 .. n |-> m - k]
           t == Append(s, m - (n + 1))
           u == [k \in 1 .. n + 1 |-> m - k]
<1>1. s \in [1 .. n -> Int] /\ u \in [1 .. n + 1 -> Int] OBVIOUS
<1>2. s \in Seq(Int) /\ u \in Seq(Int) BY <1>1, SeqDef
<1>3. Len(s) = n /\ Len(u) = n + 1 BY <1>1, <1>2, LenProperties
<1>4. \A k \in 1 .. n : s[k] = m - k OBVIOUS
<1>5. \A k \in 1 .. n + 1 : u[k] = m - k OBVIOUS
<1> HIDE DEF s, u
<1>6. t \in Seq(Int) /\ Len(t) = n + 1 BY <1>2, <1>3
<1>7. \A k \in 1 .. n + 1 : t[k] = m - k BY <1>2, <1>3, <1>4
<1> HIDE DEF t
<1>8. t = u BY <1>2, <1>3, <1>5, <1>6, <1>7, SeqEqual
<1> QED BY <1>2, <1>3, <1>8 DEF s, t, u

(* The prefix of the buffer's filter, known beforehand. *)
FirstNewer(after, i) == [k \in 1 .. Below(i, NewerCount(after)) |-> (seq + 1) - k]

LEMMA FirstNewerStep ==
  ASSUME BufferInv, NEW after \in Nat, NEW i \in 0 .. Len(events)
  PROVE  FirstNewer(after, i) =
           IF i = 0 THEN <<>>
           ELSE IF events[i] > after THEN Append(FirstNewer(after, i - 1), events[i])
                ELSE FirstNewer(after, i - 1)
<1> DEFINE n == NewerCount(after)
<1>1. /\ seq \in Nat /\ Len(events) \in Nat /\ n \in Nat
      /\ i # 0 => events[i] = (seq + 1) - i
  <2>1. seq \in Nat /\ Len(events) \in Nat BY DEF BufferInv
  <2>2. n \in Nat BY <2>1 DEF NewerCount, Below
  <2>3. i # 0 => i \in 1 .. Len(events) BY <2>1
  <2>4. i # 0 => events[i] = seq + 1 - i BY <2>3 DEF BufferInv, BufferIsTail
  <2> QED BY <2>1, <2>2, <2>4
<1>2. CASE i = 0
  <2>1. 1 .. Below(i, n) = {} BY <1>1, <1>2 DEF Below
  <2>2. FirstNewer(after, i) = [k \in 1 .. 0 |-> (seq + 1) - k] BY <1>1, <2>1, <1>2 DEF FirstNewer, Below
  <2>3. Len(FirstNewer(after, i)) = 0 /\ FirstNewer(after, i) \in Seq(Int) BY <1>1, <2>2, AppendOne
  <2> QED BY <1>2, <2>3, EmptySeq
<1>3. CASE i # 0 /\ i <= n
  <2>1. events[i] > after BY <1>1, <1>3 DEF NewerCount, Below
  <2>2. Below(i, n) = i /\ Below(i - 1, n) = i - 1 /\ i - 1 \in Nat BY <1>1, <1>3 DEF Below
  <2>3. Append(FirstNewer(after, i - 1), events[i]) = FirstNewer(after, i)
    <3> DEFINE j == i - 1
    <3>1. Append([k \in 1 .. j |-> (seq + 1) - k], (seq + 1) - (j + 1)) = [k \in 1 .. j + 1 |-> (seq + 1) - k]
      BY <1>1, <2>2, AppendOne
    <3>2. j + 1 = i OBVIOUS
    <3> QED BY <1>1, <1>3, <2>2, <3>1, <3>2 DEF FirstNewer
  <2> QED BY <1>3, <2>1, <2>3
<1>4. CASE i # 0 /\ ~(i <= n)
  <2>1. ~(events[i] > after) BY <1>1, <1>4 DEF NewerCount, Below
  <2>2. Below(i, n) = n /\ Below(i - 1, n) = n BY <1>1, <1>4 DEF Below
  <2> QED BY <1>4, <2>1, <2>2 DEF FirstNewer
<1> QED BY <1>2, <1>3, <1>4

(* The answer to a poll holds the newest events after its cursor, as many   *)
(* as the buffer still has.                                                 *)
LEMMA NewerIs ==
  ASSUME BufferInv, NEW after \in Nat
  PROVE  Newer(after) = [k \in 1 .. NewerCount(after) |-> (seq + 1) - k]
<1> DEFINE I == 0 .. Len(events)
           g == [i \in I |-> FirstNewer(after, i)]
           kept[i \in I] ==
             IF i = 0 THEN <<>>
             ELSE IF events[i] > after THEN Append(kept[i - 1], events[i]) ELSE kept[i - 1]
<1>1. Len(events) \in Nat /\ NewerCount(after) \in Nat BY DEF BufferInv, NewerCount, Below
<1>2. g = [i \in I |-> IF i = 0 THEN <<>>
             ELSE IF events[i] > after THEN Append(g[i - 1], events[i]) ELSE g[i - 1]]
  <2>1. ASSUME NEW i \in I
        PROVE  g[i] = IF i = 0 THEN <<>>
                      ELSE IF events[i] > after THEN Append(g[i - 1], events[i]) ELSE g[i - 1]
    <3>1. i # 0 => i - 1 \in I BY <1>1
    <3>2. i # 0 => g[i - 1] = FirstNewer(after, i - 1) BY <3>1
    <3> QED BY <3>2, FirstNewerStep
  <2> QED BY <2>1
<1>3. kept = [i \in I |-> IF i = 0 THEN <<>>
             ELSE IF events[i] > after THEN Append(kept[i - 1], events[i]) ELSE kept[i - 1]]
  <2> HIDE DEF g
  <2> QED BY <1>2 DEF kept
<1> HIDE DEF kept, g
<1>4. \A i \in I : kept[i] = g[i]
  <2> DEFINE T == {i \in I : kept[i] # g[i]}
  <2> SUFFICES ASSUME T # {} PROVE FALSE
    OBVIOUS
  <2>1. T \subseteq Nat OBVIOUS
  <2>2. PICK x \in T : \A y \in T : ~(y < x) BY <2>1, LeastCounterexample
  <2>3. x # 0 => kept[x - 1] = g[x - 1]
    <3> SUFFICES ASSUME x # 0 PROVE x - 1 \in I /\ x - 1 < x
      BY <2>2
    <3> QED BY <1>1
  <2>4. kept[x] = IF x = 0 THEN <<>>
             ELSE IF events[x] > after THEN Append(kept[x - 1], events[x]) ELSE kept[x - 1]
    BY <1>3
  <2>5. g[x] = IF x = 0 THEN <<>>
             ELSE IF events[x] > after THEN Append(g[x - 1], events[x]) ELSE g[x - 1]
    BY <1>2
  <2> QED BY <2>3, <2>4, <2>5
<1>5. Newer(after) = kept[Len(events)] BY DEF Newer, kept
<1>6. kept[Len(events)] = FirstNewer(after, Len(events)) BY <1>1, <1>4 DEF g
<1>7. Below(Len(events), NewerCount(after)) = NewerCount(after) BY <1>1 DEF NewerCount, Below, BufferInv
<1> QED BY <1>5, <1>6, <1>7 DEF FirstNewer
-----------------------------------------------------------------------------
(* The console's timeline.                                                  *)

(* The bodies of the answers and requests of the page. *)
BodyTypes == {Null} \cup LoginIds \cup [events : Seq(Int), latest : Nat]
                 \cup [latest : Nat, allow : BOOLEAN]

Answered(c, path) == call[c].pc = "answered" /\ call[c].path = path /\ call[c].body # Null

Polling(c) == call[c].pc # "none" /\ call[c].path = "/events"

(* What holds of page and calls whatever happens. *)
PageShapes ==
  /\ allowMutations \in BOOLEAN
  /\ page \in [booted : BOOLEAN, latest : Nat, from : Nat, shown : Seq(Int), allowMutations : BOOLEAN]
  /\ Len(page.shown) <= Rows
  /\ call \in [Calls -> [pc : {"none", "sent", "allowed", "answered"},
                         path : {Null, "/events", "/overview", "/actions"},
                         after : Nat, body : BodyTypes]]
  /\ \A c \in Calls :
       /\ Answered(c, "/events") => call[c].body \in [events : Seq(Int), latest : Nat]
       /\ Answered(c, "/overview") => call[c].body \in [latest : Nat, allow : BOOLEAN]

(* The events after the cursor a up to b, the newest on top. *)
Span(a, b) == [i \in 1 .. b - a |-> (b + 1) - i]

(* As long as nothing was passed over: one poll at a time, from the page's  *)
(* own cursor, and its answer leaves out nothing, or shows that it did.     *)
InStep ==
  /\ page.from <= page.latest /\ page.latest <= seq
  /\ page.shown = Cut(Span(page.from, page.latest), Rows)
  /\ ~page.booted => page.latest = 0 /\ page.from = 0 /\ \A c \in Calls : ~Polling(c)
  /\ \A c, d \in Calls : Polling(c) /\ Polling(d) => c = d
  /\ \A c \in Calls :
       /\ Polling(c) => call[c].after = page.latest
       /\ Answered(c, "/overview") => call[c].body.latest <= seq
       /\ Answered(c, "/events") =>
            LET b == call[c].body IN
            /\ call[c].after <= b.latest /\ b.latest <= seq
            /\ Len(b.events) <= b.latest - call[c].after
            /\ \A i \in 1 .. Len(b.events) : b.events[i] = (b.latest + 1) - i

PageInv == PageShapes /\ (~gap => InStep)
(* A function over an interval is a sequence. *)
LEMMA IsSeq ==
  ASSUME NEW n \in Nat, NEW s, DOMAIN s = 1 .. n, s = [i \in 1 .. n |-> s[i]],
         \A i \in 1 .. n : s[i] \in Int
  PROVE  s \in Seq(Int) /\ Len(s) = n
<1>1. s \in [1 .. n -> Int] OBVIOUS
<1>2. s \in Seq(Int) BY <1>1, SeqDef
<1> QED BY <1>1, <1>2, LenProperties

LEMMA CutIs ==
  ASSUME NEW s \in Seq(Int), NEW n \in Nat
  PROVE  /\ Cut(s, n) \in Seq(Int)
         /\ Len(Cut(s, n)) = Below(Len(s), n)
         /\ \A i \in 1 .. Below(Len(s), n) : Cut(s, n)[i] = s[i]
<1> DEFINE m == Below(Len(s), n)
           t == [i \in 1 .. m |-> s[i]]
<1>1. m \in Nat /\ m <= Len(s) BY DEF Below
<1>2. Cut(s, n) = t BY DEF Cut, Below
<1> HIDE DEF m
<1>3. \A i \in 1 .. m : s[i] \in Int BY <1>1
<1>4. t \in Seq(Int) /\ Len(t) = m
  <2>1. DOMAIN t = 1 .. m /\ t = [i \in 1 .. m |-> t[i]] /\ \A i \in 1 .. m : t[i] \in Int BY <1>3
  <2> HIDE DEF t
  <2> QED BY <1>1, <2>1, IsSeq
<1> QED BY <1>2, <1>4 DEF m

LEMMA SpanIs ==
  ASSUME NEW a \in Nat, NEW b \in Nat, a <= b
  PROVE  /\ Span(a, b) \in Seq(Int)
         /\ Len(Span(a, b)) = b - a
         /\ \A i \in 1 .. b - a : Span(a, b)[i] = (b + 1) - i
<1> DEFINE n == b - a
           s == Span(a, b)
<1>1. n \in Nat OBVIOUS
<1>2. DOMAIN s = 1 .. n /\ \A i \in 1 .. n : s[i] = (b + 1) - i BY DEF Span
<1>3. s = [i \in 1 .. n |-> s[i]] BY DEF Span
<1> HIDE DEF s
<1>4. \A i \in 1 .. n : s[i] \in Int BY <1>1, <1>2
<1>5. s \in Seq(Int) /\ Len(s) = n BY <1>1, <1>2, <1>3, <1>4, IsSeq
<1> QED BY <1>2, <1>5 DEF s

(* The answer's rows on top of a timeline that was cut are the timeline of  *)
(* the longer stretch, cut: what the page does once per answer.             *)
LEMMA ShowsOn ==
  ASSUME NEW a \in Nat, NEW b \in Nat, NEW c \in Nat, a <= b, b <= c,
         NEW t \in Seq(Int), Len(t) = c - b, \A i \in 1 .. Len(t) : t[i] = (c + 1) - i,
         NEW n \in Nat
  PROVE  Cut(t \o Cut(Span(a, b), n), n) = Cut(Span(a, c), n)
<1> DEFINE p == Span(a, b)
           q == Span(a, c)
           old == Cut(p, n)
           u == t \o old
           x == Cut(u, n)
           y == Cut(q, n)
           m == Below(b - a, n)
<1>0. m \in Nat /\ m <= b - a /\ m <= n /\ a <= c /\ c - b \in Nat BY DEF Below
<1>1. old \in Seq(Int) /\ Len(old) = m /\ \A i \in 1 .. m : old[i] = (b + 1) - i
  <2>1. p \in Seq(Int) /\ Len(p) = b - a /\ \A i \in 1 .. b - a : p[i] = (b + 1) - i BY SpanIs
  <2> HIDE DEF p
  <2>2. old \in Seq(Int) /\ Len(old) = Below(Len(p), n) /\ \A i \in 1 .. Below(Len(p), n) : old[i] = p[i]
    BY <2>1, CutIs
  <2>3. Below(Len(p), n) = m BY <2>1
  <2> HIDE DEF old, m
  <2>4. ASSUME NEW i \in 1 .. m PROVE old[i] = (b + 1) - i
    <3>1. i \in 1 .. Below(Len(p), n) /\ i \in 1 .. b - a BY <1>0, <2>3
    <3> QED BY <2>1, <2>2, <3>1
  <2> QED BY <2>2, <2>3, <2>4
<1>2. y \in Seq(Int) /\ Len(y) = Below(c - a, n) /\ \A i \in 1 .. Below(c - a, n) : y[i] = (c + 1) - i
  <2>1. q \in Seq(Int) /\ Len(q) = c - a /\ \A i \in 1 .. c - a : q[i] = (c + 1) - i BY <1>0, SpanIs
  <2> HIDE DEF q
  <2>2. y \in Seq(Int) /\ Len(y) = Below(Len(q), n) /\ \A i \in 1 .. Below(Len(q), n) : y[i] = q[i]
    BY <2>1, CutIs
  <2>3. Below(c - a, n) <= c - a /\ Below(c - a, n) \in Nat BY <1>0 DEF Below
  <2>4. Below(Len(q), n) = Below(c - a, n) BY <2>1
  <2> HIDE DEF y
  <2>5. ASSUME NEW i \in 1 .. Below(c - a, n) PROVE y[i] = (c + 1) - i
    <3>1. i \in 1 .. Below(Len(q), n) /\ i \in 1 .. c - a BY <1>0, <2>3, <2>4
    <3> QED BY <2>1, <2>2, <3>1
  <2> QED BY <2>2, <2>4, <2>5
<1> HIDE DEF old, m
<1>3. u \in Seq(Int) /\ Len(u) = c - b + m
      /\ (\A i \in 1 .. c - b : u[i] = t[i]) /\ \A i \in 1 .. m : u[c - b + i] = old[i]
  <2>1. /\ u \in Seq(Int) /\ Len(u) = Len(t) + Len(old)
        /\ \A i \in 1 .. Len(t) + Len(old) : u[i] = IF i <= Len(t) THEN t[i] ELSE old[i - Len(t)]
    BY <1>1, ConcatProperties
  <2> HIDE DEF u
  <2>2. ASSUME NEW i \in 1 .. m PROVE u[c - b + i] = old[i]
    <3> DEFINE k == c - b + i
    <3>1. k \in 1 .. Len(t) + Len(old) /\ ~(k <= Len(t)) /\ k - Len(t) = i BY <1>0, <1>1
    <3> HIDE DEF k
    <3>2. u[k] = old[k - Len(t)] BY <2>1, <3>1
    <3> QED BY <3>1, <3>2 DEF k
  <2>3. ASSUME NEW i \in 1 .. c - b PROVE u[i] = t[i]
    BY <1>0, <1>1, <2>1
  <2> QED BY <1>0, <1>1, <2>1, <2>2, <2>3
<1> HIDE DEF u
<1>4. x \in Seq(Int) /\ Len(x) = Below(c - b + m, n) /\ \A i \in 1 .. Below(c - b + m, n) : x[i] = u[i]
  <2>1. x \in Seq(Int) /\ Len(x) = Below(Len(u), n) /\ \A i \in 1 .. Below(Len(u), n) : x[i] = u[i]
    BY <1>3, CutIs
  <2>2. Below(Len(u), n) = Below(c - b + m, n) BY <1>3
  <2> HIDE DEF x
  <2> QED BY <2>1, <2>2
<1> HIDE DEF x, y
<1>5. Len(x) = Len(y) BY <1>2, <1>4 DEF Below, m
<1>6. ASSUME NEW i \in 1 .. Len(x) PROVE x[i] = y[i]
  <2>0. i \in Nat /\ i >= 1 /\ i <= c - b + m BY <1>0, <1>4 DEF Below
  <2>1. x[i] = u[i] /\ y[i] = (c + 1) - i BY <1>2, <1>4, <1>5
  <2>2. CASE i <= c - b BY <1>0, <1>3, <2>0, <2>1, <2>2
  <2>3. CASE ~(i <= c - b)
    <3> DEFINE j == i - (c - b)
    <3>1. j \in 1 .. m /\ c - b + j = i BY <1>0, <2>0, <2>3
    <3>2. u[i] = old[j] BY <1>3, <3>1
    <3>3. old[j] = (b + 1) - j BY <1>1, <3>1
    <3> QED BY <2>0, <2>1, <3>2, <3>3
  <2> QED BY <2>2, <2>3
<1>7. x = y BY <1>2, <1>4, <1>5, <1>6, SeqEqual
<1> QED BY <1>7 DEF x, y, u, old
(* What the bridge answers a poll. *)
LEMMA AnswerToPoll ==
  ASSUME BufferInv, NEW after \in Nat
  PROVE  /\ Snapshot(after) \in [events : Seq(Int), latest : Nat]
         /\ Snapshot(after).latest = seq
         /\ after <= seq => Len(Snapshot(after).events) <= seq - after
         /\ \A i \in 1 .. Len(Snapshot(after).events) : Snapshot(after).events[i] = (seq + 1) - i
<1> DEFINE most == IF Limit < Capacity THEN Limit ELSE Capacity
           new == Newer(after)
           sent == Cut(new, most)
           n == NewerCount(after)
<1>1. seq \in Nat /\ Len(events) \in Nat BY DEF BufferInv
<1>2. n \in Nat /\ (after <= seq => n <= seq - after) BY <1>1 DEF NewerCount, Below
<1>3. most \in Nat BY InspectorAssumption
<1>4. DOMAIN new = 1 .. n /\ new = [i \in 1 .. n |-> new[i]] /\ \A i \in 1 .. n : new[i] = (seq + 1) - i
  BY NewerIs
<1> HIDE DEF new, n, most
<1>5. \A i \in 1 .. n : new[i] \in Int BY <1>1, <1>2, <1>4
<1>6. new \in Seq(Int) /\ Len(new) = n BY <1>2, <1>4, <1>5, IsSeq
<1>7. /\ sent \in Seq(Int) /\ Len(sent) = Below(Len(new), most)
      /\ \A i \in 1 .. Below(Len(new), most) : sent[i] = new[i]
  BY <1>3, <1>6, CutIs
<1> HIDE DEF sent
<1>8. Below(Len(new), most) <= n /\ Below(Len(new), most) \in Nat BY <1>2, <1>3, <1>6 DEF Below
<1>9. ASSUME NEW i \in 1 .. Len(sent) PROVE sent[i] = (seq + 1) - i
  <2>1. i \in 1 .. Below(Len(new), most) /\ i \in 1 .. n BY <1>2, <1>7, <1>8
  <2> QED BY <1>4, <1>7, <2>1
<1>10. Snapshot(after) = [events |-> sent, latest |-> seq] BY DEF Snapshot, sent, new, most
<1> QED BY <1>1, <1>2, <1>7, <1>8, <1>9, <1>10

(* Calls and pages keep their shape. *)
LEMMA PageShapesKept == ASSUME BufferInv, PageShapes, [Next]_vars PROVE PageShapes'
<1> DEFINE Call == [pc : {"none", "sent", "allowed", "answered"},
                    path : {Null, "/events", "/overview", "/actions"}, after : Nat, body : BodyTypes]
<1> USE DEF PageShapes
<1>1. CASE \/ Emit \/ AdminChanges \/ UNCHANGED vars
  BY <1>1 DEF Emit, AdminChanges, vars, server, Answered, Buffer
<1>2. CASE Restart BY <1>2 DEF Restart, Answered
<1>3. ASSUME NEW c \in Calls, NEW rec \in Call, call' = [call EXCEPT ![c] = rec],
             UNCHANGED <<page, allowMutations>>,
             Answered(c, "/events")' => rec.body \in [events : Seq(Int), latest : Nat],
             Answered(c, "/overview")' => rec.body \in [latest : Nat, allow : BOOLEAN]
      PROVE  PageShapes'
  <2>1. call' \in [Calls -> Call] BY <1>3
  <2>2. \A d \in Calls : d # c => call'[d] = call[d] BY <1>3
  <2>3. call'[c] = rec BY <1>3
  <2> QED BY <1>3, <2>1, <2>2, <2>3 DEF Answered
<1>4. ASSUME NEW c \in Calls, PollEvents(c) PROVE PageShapes'
  BY <1>3, <1>4 DEF PollEvents, Send, server, BodyTypes, Answered
<1>5. ASSUME NEW c \in Calls, RefreshOverview(c) PROVE PageShapes'
  BY <1>3, <1>5 DEF RefreshOverview, Send, server, BodyTypes, Answered
<1>6. ASSUME NEW c \in Calls, NEW a \in LoginIds, Mutate(c, a) PROVE PageShapes'
  BY <1>3, <1>6 DEF Mutate, server, BodyTypes, Answered
<1>7. ASSUME NEW c \in Calls, Auth(c) PROVE PageShapes'
  <2> DEFINE rec == IF admin THEN [call[c] EXCEPT !.pc = "allowed"]
                  ELSE [call[c] EXCEPT !.pc = "answered", !.body = Null]
  <2>1. rec \in Call
    <3>1. Null \in BodyTypes /\ call[c] \in Call BY DEF BodyTypes
    <3> QED BY <3>1
  <2>2. rec.pc = "answered" => rec.body = Null BY <1>7 DEF Auth
  <2>3. call' = [call EXCEPT ![c] = rec] /\ UNCHANGED <<page, allowMutations>> BY <1>7 DEF Auth, server
  <2>4. call'[c] = rec BY <2>3
  <2> HIDE DEF rec
  <2>5. ~Answered(c, "/events")' /\ ~Answered(c, "/overview")' BY <2>2, <2>4 DEF Answered
  <2> QED BY <1>3, <2>1, <2>3, <2>5
<1>8. ASSUME NEW c \in Calls, NEW b, Answer(c, b), b \in BodyTypes,
             UNCHANGED <<page, allowMutations>>,
             \/ call[c].path = "/events" /\ b \in [events : Seq(Int), latest : Nat]
             \/ call[c].path = "/overview" /\ b \in [latest : Nat, allow : BOOLEAN]
             \/ call[c].path = "/actions"
      PROVE  PageShapes'
  <2> DEFINE rec == [call[c] EXCEPT !.pc = "answered", !.body = b]
  <2>1. rec \in Call BY <1>8
  <2>2. rec.path = call[c].path /\ rec.body = b BY <1>8
  <2>3. call' = [call EXCEPT ![c] = rec] BY <1>8 DEF Answer
  <2>4. call'[c] = rec BY <2>3
  <2> HIDE DEF rec
  <2>5. /\ Answered(c, "/events")' => rec.body \in [events : Seq(Int), latest : Nat]
        /\ Answered(c, "/overview")' => rec.body \in [latest : Nat, allow : BOOLEAN]
    BY <1>8, <2>2, <2>4 DEF Answered
  <2> QED BY <1>3, <1>8, <2>1, <2>3, <2>5
<1>9. ASSUME NEW c \in Calls, HandleEvents(c) PROVE PageShapes'
  <2>1. call[c].after \in Nat OBVIOUS
  <2>2. Snapshot(call[c].after) \in [events : Seq(Int), latest : Nat] BY <2>1, AnswerToPoll
  <2> QED BY <1>8, <1>9, <2>2 DEF HandleEvents, BodyTypes, server
<1>10. ASSUME NEW c \in Calls, HandleOverview(c) PROVE PageShapes'
  <2>1. [latest |-> seq, allow |-> allowMutations] \in [latest : Nat, allow : BOOLEAN] BY DEF BufferInv
  <2> QED BY <1>8, <1>10, <2>1 DEF HandleOverview, BodyTypes, server
<1>11. ASSUME NEW c \in Calls, HandleAction(c) PROVE PageShapes'
  BY <1>8, <1>11 DEF HandleAction, BodyTypes
<1>12. ASSUME NEW c \in Calls, Done(c), UNCHANGED allowMutations,
              page' \in [booted : BOOLEAN, latest : Nat, from : Nat, shown : Seq(Int),
                         allowMutations : BOOLEAN],
              Len(page'.shown) <= Rows
       PROVE  PageShapes'
  <2>1. NoCall \in Call /\ NoCall.pc = "none" BY DEF NoCall, BodyTypes
  <2>2. call'[c] = NoCall /\ (\A d \in Calls : d # c => call'[d] = call[d]) /\ call' \in [Calls -> Call]
    BY <1>12, <2>1 DEF Done
  <2>3. ~Answered(c, "/events")' /\ ~Answered(c, "/overview")' BY <2>1, <2>2 DEF Answered
  <2> QED BY <1>12, <2>2, <2>3 DEF Answered
<1>13. ASSUME NEW c \in Calls, Fails(c) PROVE PageShapes'
  BY <1>12, <1>13 DEF Fails, server
<1>14. ASSUME NEW c \in Calls, ShowEvents(c) PROVE PageShapes'
  <2> DEFINE b == call[c].body
             rows == b.events \o page.shown
  <2>1. b \in [events : Seq(Int), latest : Nat] BY <1>14 DEF ShowEvents, Answered
  <2> HIDE DEF b
  <2>2. rows \in Seq(Int) BY <2>1
  <2> HIDE DEF rows
  <2>3. Cut(rows, Rows) \in Seq(Int) /\ Len(Cut(rows, Rows)) = Below(Len(rows), Rows)
    BY <2>2, CutIs, InspectorAssumption
  <2>4. Below(Len(rows), Rows) <= Rows BY <2>2, InspectorAssumption DEF Below
  <2>5. page' = [page EXCEPT !.shown = Cut(rows, Rows), !.latest = b.latest]
    BY <1>14 DEF ShowEvents, rows, b
  <2>6. Done(c) /\ UNCHANGED allowMutations BY <1>14 DEF ShowEvents, server
  <2>7. /\ page' \in [booted : BOOLEAN, latest : Nat, from : Nat, shown : Seq(Int),
                      allowMutations : BOOLEAN]
        /\ page'.shown = Cut(rows, Rows)
    BY <2>1, <2>3, <2>5
  <2> QED BY <1>12, <2>3, <2>4, <2>6, <2>7
<1>15. ASSUME NEW c \in Calls, ShowOverview(c) PROVE PageShapes'
  <2> DEFINE b == call[c].body
  <2>1. b \in [latest : Nat, allow : BOOLEAN] BY <1>15 DEF ShowOverview, Answered
  <2>2. Done(c) /\ UNCHANGED allowMutations BY <1>15 DEF ShowOverview, server
  <2>3. page' = [page EXCEPT !.allowMutations = b.allow,
                             !.latest = IF @ < b.latest THEN b.latest ELSE @,
                             !.from = IF page.booted THEN @ ELSE b.latest, !.booted = TRUE]
    BY <1>15 DEF ShowOverview
  <2> HIDE DEF b
  <2>4. /\ page' \in [booted : BOOLEAN, latest : Nat, from : Nat, shown : Seq(Int),
                      allowMutations : BOOLEAN]
        /\ page'.shown = page.shown
    BY <2>1, <2>3
  <2> QED BY <1>12, <2>2, <2>4
<1>16. CASE Clear
  <2>1. <<>> \in Seq(Int) /\ Len(<<>>) = 0 /\ Rows \in Nat BY InspectorAssumption
  <2>2. /\ page' = [page EXCEPT !.shown = <<>>, !.from = IF gap THEN page.from ELSE page.latest]
        /\ UNCHANGED <<call, allowMutations>>
    BY <1>16 DEF Clear, server
  <2>3. /\ page' \in [booted : BOOLEAN, latest : Nat, from : Nat, shown : Seq(Int),
                      allowMutations : BOOLEAN]
        /\ page'.shown = <<>>
    BY <2>1, <2>2
  <2> QED BY <2>1, <2>2, <2>3 DEF Answered
<1> QED
  BY <1>1, <1>2, <1>4, <1>5, <1>6, <1>7, <1>9, <1>10, <1>11, <1>13, <1>14, <1>15, <1>16 DEF Next

(* A timeline that begins where it ends is empty. *)
LEMMA NothingShown == ASSUME NEW n \in Nat PROVE Cut(Span(n, n), Rows) = <<>>
<1>1. Span(n, n) \in Seq(Int) /\ Len(Span(n, n)) = 0 BY SpanIs
<1>2. Span(n, n) = <<>> BY <1>1, EmptySeq
<1>3. <<>> \in Seq(Int) /\ Rows \in Nat BY InspectorAssumption
<1>4. Cut(<<>>, Rows) \in Seq(Int) /\ Len(Cut(<<>>, Rows)) = Below(Len(<<>>), Rows) BY <1>3, CutIs
<1>5. Below(Len(<<>>), Rows) = 0 BY <1>3 DEF Below
<1> QED BY <1>2, <1>4, <1>5, EmptySeq

(* As long as no event was passed over the page is in step with the server. *)
LEMMA InStepKept ==
  ASSUME BufferInv, PageShapes, InStep, Next, ~gap', BufferInv', PageShapes'
  PROVE  InStep'
<1> USE DEF InStep
<1>1. CASE Emit
  <2>1. seq \in Nat /\ seq' \in Nat /\ seq <= seq' /\ UNCHANGED <<page, call>>
    BY <1>1 DEF Emit, BufferInv
  <2>2. \A c \in Calls : Answered(c, "/events") => call[c].body.latest \in Nat
    BY DEF PageShapes
  <2>3. \A c \in Calls : Answered(c, "/overview") => call[c].body.latest \in Nat
    BY DEF PageShapes
  <2>4. page.latest \in Nat BY DEF PageShapes
  <2>5. \A c \in Calls : /\ Answered(c, "/overview") => call[c].body.latest <= seq'
                         /\ Answered(c, "/events") => call[c].body.latest <= seq'
    BY <2>1, <2>2, <2>3
  <2>6. page.latest <= seq' BY <2>1, <2>4
  <2> QED BY <2>1, <2>5, <2>6 DEF Answered, Polling
<1>2. CASE AdminChanges BY <1>2 DEF AdminChanges, Answered, Polling
<1>3. CASE Restart BY <1>3 DEF Restart
<1>4. ASSUME NEW c \in Calls, UNCHANGED <<seq, page>>, \A d \in Calls : d # c => call'[d] = call[d],
             Polling(c)' => page.booted /\ call'[c].after = page.latest
                            /\ \A d \in Calls \ {c} : ~Polling(d),
             Answered(c, "/overview")' => call'[c].body.latest <= seq,
             Answered(c, "/events")' =>
               LET b == call'[c].body IN
               /\ call'[c].after <= b.latest /\ b.latest <= seq
               /\ Len(b.events) <= b.latest - call'[c].after
               /\ \A i \in 1 .. Len(b.events) : b.events[i] = (b.latest + 1) - i
      PROVE  InStep'
  <2>1. \A d \in Calls : d # c => (Polling(d)' <=> Polling(d)) BY <1>4 DEF Polling
  <2>2. \A d \in Calls : d # c => /\ Answered(d, "/events")' <=> Answered(d, "/events")
                                  /\ Answered(d, "/overview")' <=> Answered(d, "/overview")
    BY <1>4 DEF Answered
  <2>3. /\ (page.from <= page.latest /\ page.latest <= seq)'
        /\ (page.shown = Cut(Span(page.from, page.latest), Rows))'
    BY <1>4
  <2>4. (~page.booted => page.latest = 0 /\ page.from = 0 /\ \A d \in Calls : ~Polling(d))'
    BY <1>4, <2>1
  <2>5. (\A d, e \in Calls : Polling(d) /\ Polling(e) => d = e)' BY <1>4, <2>1
  <2>6. ASSUME NEW d \in Calls
        PROVE  (/\ Polling(d) => call[d].after = page.latest
                /\ Answered(d, "/overview") => call[d].body.latest <= seq
                /\ Answered(d, "/events") =>
                     LET b == call[d].body IN
                     /\ call[d].after <= b.latest /\ b.latest <= seq
                     /\ Len(b.events) <= b.latest - call[d].after
                     /\ \A i \in 1 .. Len(b.events) : b.events[i] = (b.latest + 1) - i)'
    <3>1. CASE d = c BY <1>4, <3>1
    <3>2. CASE d # c
      <4>1. call'[d] = call[d] /\ seq' = seq /\ page' = page BY <1>4, <3>2
      <4> QED BY <2>1, <2>2, <3>2, <4>1
    <3> QED BY <3>1, <3>2
  <2> QED BY <2>3, <2>4, <2>5, <2>6
<1>5. ASSUME NEW c \in Calls, NEW rec, call' = [call EXCEPT ![c] = rec]
      PROVE  call'[c] = rec /\ \A d \in Calls : d # c => call'[d] = call[d]
  <2>1. c \in DOMAIN call /\ DOMAIN call = Calls BY DEF PageShapes
  <2> QED BY <1>5, <2>1
<1>6. ASSUME NEW c \in Calls, PollEvents(c) PROVE InStep'
  <2>1. \A d \in Calls : ~Polling(d) BY <1>6 DEF PollEvents, Polling
  <2>2. call'[c] = [pc |-> "sent", path |-> "/events", after |-> page.latest, body |-> Null]
        /\ \A d \in Calls : d # c => call'[d] = call[d]
    BY <1>5, <1>6 DEF PollEvents, Send
  <2>3. ~Answered(c, "/events")' /\ ~Answered(c, "/overview")' BY <2>2 DEF Answered
  <2> QED BY <1>4, <1>6, <2>1, <2>2, <2>3 DEF PollEvents, server
<1>7. ASSUME NEW c \in Calls, RefreshOverview(c) PROVE InStep'
  <2>1. call'[c] = [pc |-> "sent", path |-> "/overview", after |-> 0, body |-> Null]
        /\ \A d \in Calls : d # c => call'[d] = call[d]
    BY <1>5, <1>7 DEF RefreshOverview, Send
  <2>2. ~Answered(c, "/events")' /\ ~Answered(c, "/overview")' /\ ~Polling(c)'
    BY <2>1 DEF Answered, Polling
  <2> QED BY <1>4, <1>7, <2>1, <2>2 DEF RefreshOverview, server
<1>8. ASSUME NEW c \in Calls, NEW a \in LoginIds, Mutate(c, a) PROVE InStep'
  <2>1. call'[c] = [pc |-> "sent", path |-> "/actions", after |-> 0, body |-> a]
        /\ \A d \in Calls : d # c => call'[d] = call[d]
    BY <1>5, <1>8 DEF Mutate
  <2>2. ~Answered(c, "/events")' /\ ~Answered(c, "/overview")' /\ ~Polling(c)'
    BY <2>1 DEF Answered, Polling
  <2> QED BY <1>4, <1>8, <2>1, <2>2 DEF Mutate, server
<1>9. ASSUME NEW c \in Calls, call[c].pc # "none", UNCHANGED <<seq, page>>,
             \A d \in Calls : d # c => call'[d] = call[d],
             call'[c].path = call[c].path, call'[c].after = call[c].after, call'[c].pc # "none",
             Answered(c, "/overview")' => call'[c].body.latest <= seq,
             Answered(c, "/events")' =>
               LET b == call'[c].body IN
               /\ call'[c].after <= b.latest /\ b.latest <= seq
               /\ Len(b.events) <= b.latest - call'[c].after
               /\ \A i \in 1 .. Len(b.events) : b.events[i] = (b.latest + 1) - i
      PROVE  InStep'
  <2>1. Polling(c)' => Polling(c) BY <1>9 DEF Polling
  <2>2. Polling(c)' => page.booted /\ call'[c].after = page.latest
                       /\ \A d \in Calls \ {c} : ~Polling(d)
    BY <1>9, <2>1
  <2> QED BY <1>4, <1>9, <2>2
<1>10. ASSUME NEW c \in Calls, Auth(c) PROVE InStep'
  <2> DEFINE rec == IF admin THEN [call[c] EXCEPT !.pc = "allowed"]
                  ELSE [call[c] EXCEPT !.pc = "answered", !.body = Null]
  <2>1. call' = [call EXCEPT ![c] = rec] /\ UNCHANGED <<seq, page>> /\ call[c].pc = "sent"
    BY <1>10 DEF Auth, server
  <2>2. /\ rec.path = call[c].path /\ rec.after = call[c].after /\ rec.pc # "none"
        /\ rec.pc = "answered" => rec.body = Null
    BY DEF PageShapes
  <2> HIDE DEF rec
  <2>3. call'[c] = rec /\ \A d \in Calls : d # c => call'[d] = call[d] BY <1>5, <2>1
  <2>4. ~Answered(c, "/events")' /\ ~Answered(c, "/overview")' BY <2>2, <2>3 DEF Answered
  <2> QED BY <1>9, <2>1, <2>2, <2>3, <2>4
<1>11. ASSUME NEW c \in Calls, NEW b, Answer(c, b)
       PROVE  /\ call'[c].path = call[c].path /\ call'[c].after = call[c].after
              /\ call'[c].pc = "answered" /\ call'[c].body = b
              /\ \A d \in Calls : d # c => call'[d] = call[d]
  <2> DEFINE rec == [call[c] EXCEPT !.pc = "answered", !.body = b]
  <2>1. rec.path = call[c].path /\ rec.after = call[c].after /\ rec.pc = "answered" /\ rec.body = b
    BY DEF PageShapes
  <2>2. call' = [call EXCEPT ![c] = rec] BY <1>11 DEF Answer
  <2> HIDE DEF rec
  <2> QED BY <1>5, <2>1, <2>2
<1>12. ASSUME NEW c \in Calls, HandleEvents(c) PROVE InStep'
  <2> DEFINE b == Snapshot(call[c].after)
  <2>1. /\ call'[c].path = call[c].path /\ call'[c].after = call[c].after
        /\ call'[c].pc = "answered" /\ call'[c].body = b
        /\ \A d \in Calls : d # c => call'[d] = call[d]
    BY <1>11, <1>12 DEF HandleEvents
  <2>2. Polling(c) /\ call[c].after = page.latest /\ call[c].after \in Nat /\ seq \in Nat
    BY <1>12 DEF HandleEvents, Polling, PageShapes, BufferInv
  <2>3. /\ b.latest = seq /\ Len(b.events) <= seq - call[c].after
        /\ \A i \in 1 .. Len(b.events) : b.events[i] = (seq + 1) - i
    BY <2>2, AnswerToPoll
  <2> HIDE DEF b
  <2>4. ~Answered(c, "/overview")' BY <1>12, <2>1 DEF HandleEvents, Answered
  <2> QED BY <1>9, <1>12, <2>1, <2>2, <2>3, <2>4 DEF HandleEvents, server
<1>13. ASSUME NEW c \in Calls, HandleOverview(c) PROVE InStep'
  <2>1. /\ call'[c].path = call[c].path /\ call'[c].after = call[c].after
        /\ call'[c].pc = "answered" /\ call'[c].body = [latest |-> seq, allow |-> allowMutations]
        /\ \A d \in Calls : d # c => call'[d] = call[d]
    BY <1>11, <1>13 DEF HandleOverview
  <2>2. ~Answered(c, "/events")' BY <1>13, <2>1 DEF HandleOverview, Answered
  <2>3. call'[c].body.latest <= seq BY <2>1 DEF BufferInv
  <2> QED BY <1>9, <1>13, <2>1, <2>2, <2>3 DEF HandleOverview, server
<1>14. ASSUME NEW c \in Calls, HandleAction(c) PROVE InStep'
  <2>1. /\ call'[c].path = call[c].path /\ call'[c].after = call[c].after
        /\ call'[c].pc = "answered" /\ call'[c].body = Null
        /\ \A d \in Calls : d # c => call'[d] = call[d]
    BY <1>11, <1>14 DEF HandleAction
  <2>2. ~Answered(c, "/events")' /\ ~Answered(c, "/overview")' BY <2>1 DEF Answered
  <2> QED BY <1>9, <1>14, <2>1, <2>2 DEF HandleAction
<1>15. ASSUME NEW c \in Calls, Done(c)
       PROVE  /\ \A d \in Calls : d # c => call'[d] = call[d]
              /\ ~Polling(c)' /\ ~Answered(c, "/events")' /\ ~Answered(c, "/overview")'
              /\ \A d \in Calls : Polling(d)' => Polling(d) /\ call'[d] = call[d]
              /\ \A d \in Calls, p \in {"/events", "/overview"} :
                   Answered(d, p)' => Answered(d, p) /\ call'[d] = call[d]
  <2>1. call'[c] = NoCall /\ \A d \in Calls : d # c => call'[d] = call[d] BY <1>5, <1>15 DEF Done
  <2> QED BY <2>1 DEF NoCall, Answered, Polling
<1>16. ASSUME NEW c \in Calls, Done(c), seq' = seq,
              page'.from <= page'.latest, page'.latest <= seq,
              page'.shown = Cut(Span(page'.from, page'.latest), Rows),
              ~page'.booted => page'.latest = 0 /\ page'.from = 0 /\ ~page.booted,
              page'.latest = page.latest \/ \A d \in Calls \ {c} : ~Polling(d)
       PROVE  InStep'
  <2>1. /\ \A d \in Calls : Polling(d)' => Polling(d) /\ call'[d] = call[d]
        /\ \A d \in Calls, p \in {"/events", "/overview"} :
             Answered(d, p)' => Answered(d, p) /\ call'[d] = call[d]
        /\ ~Polling(c)' /\ ~Answered(c, "/events")' /\ ~Answered(c, "/overview")'
    BY <1>15, <1>16
  <2>2. (\A d, e \in Calls : Polling(d) /\ Polling(e) => d = e)' BY <2>1
  <2>3. (~page.booted => page.latest = 0 /\ page.from = 0 /\ \A d \in Calls : ~Polling(d))'
    BY <1>16, <2>1
  <2>4. ASSUME NEW d \in Calls
        PROVE  (/\ Polling(d) => call[d].after = page.latest
                /\ Answered(d, "/overview") => call[d].body.latest <= seq
                /\ Answered(d, "/events") =>
                     LET b == call[d].body IN
                     /\ call[d].after <= b.latest /\ b.latest <= seq
                     /\ Len(b.events) <= b.latest - call[d].after
                     /\ \A i \in 1 .. Len(b.events) : b.events[i] = (b.latest + 1) - i)'
    <3>1. Polling(d)' => call'[d].after = page'.latest BY <1>16, <2>1
    <3>2. Answered(d, "/overview")' => Answered(d, "/overview") /\ call'[d] = call[d] BY <2>1
    <3>3. Answered(d, "/events")' => Answered(d, "/events") /\ call'[d] = call[d] BY <2>1
    <3> QED BY <1>16, <3>1, <3>2, <3>3
  <2> QED BY <1>16, <2>2, <2>3, <2>4
<1>17. ASSUME NEW c \in Calls, Fails(c) PROVE InStep'
  <2>1. /\ page'.latest = page.latest /\ page'.from = page.from /\ page'.shown = page.shown
        /\ ~page'.booted => ~page.booted
    BY <1>17 DEF Fails, PageShapes
  <2> QED BY <1>16, <1>17, <2>1 DEF Fails, server
<1>18. ASSUME NEW c \in Calls, ShowEvents(c) PROVE InStep'
  <2> DEFINE b == call[c].body
  <2>1. Answered(c, "/events") /\ Polling(c) BY <1>18 DEF ShowEvents, Answered, Polling
  <2>2. /\ b \in [events : Seq(Int), latest : Nat] /\ call[c].after = page.latest
        /\ page.latest <= b.latest /\ b.latest <= seq
        /\ Len(b.events) <= b.latest - page.latest
        /\ \A i \in 1 .. Len(b.events) : b.events[i] = (b.latest + 1) - i
    BY <2>1 DEF PageShapes
  <2>3. ~(b.latest - page.latest > Len(b.events)) BY <1>18, <2>2 DEF ShowEvents
  <2>4. /\ page' = [page EXCEPT !.shown = Cut(b.events \o @, Rows), !.latest = b.latest]
        /\ Done(c) /\ seq' = seq
    BY <1>18 DEF ShowEvents, server
  <2> HIDE DEF b
  <2>5. /\ page.from \in Nat /\ page.latest \in Nat /\ b.latest \in Nat /\ b.events \in Seq(Int)
        /\ page.from <= page.latest /\ Len(b.events) = b.latest - page.latest
    BY <2>2, <2>3 DEF PageShapes
  <2>6. Cut(b.events \o page.shown, Rows) = Cut(Span(page.from, b.latest), Rows)
    <3>1. page.shown = Cut(Span(page.from, page.latest), Rows) OBVIOUS
    <3>2. Rows \in Nat BY InspectorAssumption
    <3> DEFINE f == page.from
               l == page.latest
               m == b.latest
               t == b.events
    <3>3. /\ f \in Nat /\ l \in Nat /\ m \in Nat /\ f <= l /\ l <= m
          /\ t \in Seq(Int) /\ Len(t) = m - l /\ \A i \in 1 .. Len(t) : t[i] = (m + 1) - i
      BY <2>2, <2>5
    <3> HIDE DEF f, l, m, t
    <3>4. Cut(t \o Cut(Span(f, l), Rows), Rows) = Cut(Span(f, m), Rows) BY <3>2, <3>3, ShowsOn
    <3> QED BY <3>1, <3>4 DEF f, l, m, t
  <2>7. /\ page'.shown = Cut(b.events \o page.shown, Rows) /\ page'.latest = b.latest
        /\ page'.from = page.from /\ page'.booted = page.booted
    BY <2>4 DEF PageShapes
  <2>8. page.booted /\ \A d \in Calls \ {c} : ~Polling(d) BY <2>1
  <2>9. page'.from <= page'.latest BY <2>2, <2>5, <2>7
  <2> QED BY <1>16, <2>2, <2>4, <2>6, <2>7, <2>8, <2>9
<1>19. ASSUME NEW c \in Calls, ShowOverview(c) PROVE InStep'
  <2> DEFINE b == call[c].body
  <2>1. Answered(c, "/overview") BY <1>19 DEF ShowOverview, Answered
  <2>2. b \in [latest : Nat, allow : BOOLEAN] /\ b.latest <= seq BY <2>1 DEF PageShapes
  <2>3. /\ page' = [page EXCEPT !.allowMutations = b.allow,
                                !.latest = IF @ < b.latest THEN b.latest ELSE @,
                                !.from = IF page.booted THEN @ ELSE b.latest, !.booted = TRUE]
        /\ Done(c) /\ seq' = seq /\ ~(page.booted /\ page.latest < b.latest)
    BY <1>19 DEF ShowOverview, server
  <2> HIDE DEF b
  <2>4. /\ page'.shown = page.shown /\ page'.booted
        /\ page'.latest = IF page.latest < b.latest THEN b.latest ELSE page.latest
        /\ page'.from = IF page.booted THEN page.from ELSE b.latest
    BY <2>3 DEF PageShapes
  <2>5. page.latest \in Nat /\ page.from \in Nat /\ b.latest \in Nat BY <2>2 DEF PageShapes
  <2>6. CASE page.booted
    <3>1. page'.latest = page.latest /\ page'.from = page.from BY <2>3, <2>4, <2>6
    <3> QED BY <1>16, <2>3, <2>4, <3>1
  <2>7. CASE ~page.booted
    <3>1. page.latest = 0 /\ page.from = 0 /\ \A d \in Calls : ~Polling(d) BY <2>7
    <3>2. page'.latest = b.latest /\ page'.from = b.latest BY <2>4, <2>5, <2>7, <3>1
    <3>3. page.shown = Cut(Span(b.latest, b.latest), Rows)
      <4>1. 1 .. 0 - 0 = {} /\ 1 .. b.latest - b.latest = {} BY <2>5
      <4>2. Span(0, 0) = Span(b.latest, b.latest) BY <4>1 DEF Span
      <4> QED BY <3>1, <4>2
    <3> QED BY <1>16, <2>2, <2>3, <2>4, <2>5, <3>1, <3>2, <3>3
  <2> QED BY <2>6, <2>7
<1>20. CASE Clear
  <2>1. page.latest \in Nat BY DEF PageShapes
  <2>2. ~gap /\ page' = [page EXCEPT !.shown = <<>>, !.from = page.latest] /\ UNCHANGED <<call, seq>>
    BY <1>20 DEF Clear, server
  <2>3. /\ page'.shown = <<>> /\ page'.from = page.latest /\ page'.latest = page.latest
        /\ page'.booted = page.booted /\ page.booted
    BY <1>20, <2>2 DEF PageShapes, Clear
  <2>4. page'.shown = Cut(Span(page'.from, page'.latest), Rows) BY <2>1, <2>3, NothingShown
  <2>5. page'.from <= page'.latest BY <2>1, <2>3
  <2> QED BY <2>2, <2>3, <2>4, <2>5 DEF Answered, Polling
<1> QED
  BY <1>1, <1>2, <1>3, <1>6, <1>7, <1>8, <1>10, <1>12, <1>13, <1>14, <1>17, <1>18, <1>19, <1>20 DEF Next

(* Once an event was passed over, it stays passed over. *)
LEMMA GapStays == ASSUME [Next]_vars, gap PROVE gap'
BY DEF Next, vars, server, Emit, Restart, AdminChanges, Clear, PollEvents, RefreshOverview, Auth, HandleEvents,
       HandleOverview, HandleAction, Fails, ShowEvents, ShowOverview, Mutate

LEMMA InitPage == ASSUME Init PROVE BufferInv /\ SinksAreIsolated /\ PageInv
<1>1. BufferInv /\ SinksAreIsolated
  BY InspectorAssumption DEF Init, BufferInv, BufferIsTail, SinksAreIsolated
<1>2. NoCall.pc = "none" BY DEF NoCall
<1>3. \A c \in Calls : ~Polling(c) /\ ~Answered(c, "/events") /\ ~Answered(c, "/overview")
  BY <1>2 DEF Init, Polling, Answered
<1>4. PageShapes BY <1>3, InspectorAssumption DEF Init, PageShapes, NoCall, BodyTypes
<1>5. page.shown = Cut(Span(0, 0), Rows) BY NothingShown DEF Init
<1>6. InStep BY <1>1, <1>3, <1>5 DEF Init, InStep
<1> QED BY <1>1, <1>4, <1>6 DEF PageInv

LEMMA NextPage == BufferInv /\ PageInv /\ [Next]_vars => PageInv'
<1> SUFFICES ASSUME BufferInv, PageInv, [Next]_vars PROVE PageInv'
  OBVIOUS
<1>1. BufferInv' /\ PageShapes' BY NextBuffer, PageShapesKept DEF PageInv
<1>2. CASE Next BY <1>1, <1>2, InStepKept, GapStays DEF PageInv
<1>3. CASE UNCHANGED vars BY <1>3 DEF PageInv, PageShapes, InStep, vars, server, Answered, Polling
<1> QED BY <1>2, <1>3

(* What the page's timeline shows while it is in step is what it promises. *)
LEMMA PagePromise == ASSUME PageInv PROVE TimelineComplete
<1> SUFFICES ASSUME ~gap PROVE TimelineComplete
  BY DEF TimelineComplete
<1> DEFINE n == page.latest - page.from
<1>1. page.latest \in Nat /\ page.from \in Nat BY DEF PageInv, PageShapes
<1>2. \A i \in 1 .. n : page.latest + 1 - i = (page.latest + 1) - i BY <1>1
<1>3. [i \in 1 .. n |-> page.latest + 1 - i] = [i \in 1 .. n |-> (page.latest + 1) - i] BY <1>2
<1> QED BY <1>3 DEF PageInv, InStep, TimelineComplete, Span

(* No more events are numbered than the engine emitted. *)
NumbersEmitted == seq <= emitted

LEMMA NextNumbers == ASSUME BufferInv, NumbersEmitted, [Next]_vars PROVE NumbersEmitted'
<1>1. CASE Emit BY <1>1 DEF Emit, BufferInv, NumbersEmitted
<1>2. CASE Restart BY <1>2 DEF Restart, NumbersEmitted
<1>3. CASE UNCHANGED <<chain, events, seq, emitted>> BY <1>3 DEF NumbersEmitted
<1> QED BY <1>1, <1>2, <1>3, ServerSteps

(* The way of an event to the console's page: TypeOK, SinksAreIsolated,     *)
(* BufferIsTail and TimelineComplete, for every chain of sinks, every       *)
(* number of calls, and every capacity, limit and number of rows.  The page *)
(* shows every event from where it began, or was cleared, up to its cursor, *)
(* once, whatever calls fail or are answered late, unless events were       *)
(* passed over in a way that gap knows of.                                  *)
THEOREM ConsoleIsTrue == Spec => []ConsoleInv
<1>1. Init => BufferInv /\ SinksAreIsolated /\ PageInv /\ NumbersEmitted
  <2>1. Init => NumbersEmitted BY DEF Init, NumbersEmitted
  <2> QED BY <2>1, InitPage
<1>2. BufferInv /\ PageInv /\ NumbersEmitted /\ [Next]_vars => BufferInv' /\ PageInv' /\ NumbersEmitted'
  BY NextBuffer, NextPage, NextNumbers
<1>3. BufferInv /\ PageInv /\ NumbersEmitted /\ SinksAreIsolated => ConsoleInv
  <2> SUFFICES ASSUME BufferInv, PageInv, NumbersEmitted, SinksAreIsolated PROVE ConsoleInv
    OBVIOUS
  <2>1. TypeOK BY DEF PageInv, PageShapes, InStep, NumbersEmitted, TypeOK
  <2> QED BY <2>1, PagePromise DEF BufferInv, ConsoleInv
<1> QED BY <1>1, <1>2, <1>3, SinksIsolated, PTL DEF Spec

-----------------------------------------------------------------------------
(* Route authorisation, for every site, request and list.                   *)

(* The policies of a request, folded into what is asked of it.  g holds     *)
(* what the first policies come to.                                         *)
Folds(q, g, n) ==
  g = [i \in 0 .. n |-> IF i = 0 THEN NoMeta ELSE AddPolicy(q, g[i - 1], Policies[i])]

LEMMA FoldExists == ASSUME NEW q, NEW n \in Nat PROVE \E g : Folds(q, g, n)
<1> DEFINE T == {k \in Nat : ~\E g : Folds(q, g, k)}
<1> SUFFICES ASSUME T # {} PROVE FALSE
  OBVIOUS
<1>1. T \subseteq Nat OBVIOUS
<1>2. PICK k \in T : \A j \in T : ~(j < k) BY <1>1, LeastCounterexample
<1>3. CASE k = 0
  <2> DEFINE g == [i \in 0 .. 0 |-> NoMeta]
  <2>1. g = [i \in 0 .. 0 |-> IF i = 0 THEN NoMeta ELSE AddPolicy(q, g[i - 1], Policies[i])]
    <3>1. \A i \in 0 .. 0 : i = 0 OBVIOUS
    <3> QED BY <3>1
  <2> HIDE DEF g
  <2>2. Folds(q, g, 0) BY <2>1 DEF Folds
  <2> QED BY <1>3, <2>2
<1>4. CASE k # 0
  <2>1. k \in Nat /\ k - 1 \in Nat /\ k - 1 < k BY <1>4
  <2>2. PICK g : Folds(q, g, k - 1) BY <1>2, <2>1
  <2> DEFINE h == [i \in 0 .. k |-> IF i = k THEN AddPolicy(q, g[k - 1], Policies[k]) ELSE g[i]]
  <2>3. ASSUME NEW i \in 0 .. k
        PROVE  h[i] = IF i = 0 THEN NoMeta ELSE AddPolicy(q, h[i - 1], Policies[i])
    <3>1. CASE i = k
      <4>1. h[i - 1] = g[k - 1] BY <2>1, <3>1
      <4> QED BY <1>4, <3>1, <4>1
    <3>2. CASE i # k
      <4>1. i \in 0 .. k - 1 BY <2>1, <3>2
      <4>2. h[i] = g[i] BY <3>2
      <4>3. g[i] = IF i = 0 THEN NoMeta ELSE AddPolicy(q, g[i - 1], Policies[i])
        BY <2>2, <4>1 DEF Folds
      <4>4. i # 0 => h[i - 1] = g[i - 1] BY <2>1, <4>1
      <4> QED BY <4>2, <4>3, <4>4
    <3> QED BY <3>1, <3>2
  <2>4. h = [i \in 0 .. k |-> IF i = 0 THEN NoMeta ELSE AddPolicy(q, h[i - 1], Policies[i])]
    BY <2>3
  <2> HIDE DEF h
  <2>5. Folds(q, h, k) BY <2>4 DEF Folds
  <2> QED BY <2>5
<1> QED BY <1>3, <1>4

LEMMA ResolveFolds ==
  ASSUME NEW q, Len(Policies) \in Nat
  PROVE  \E g : Folds(q, g, Len(Policies)) /\ ResolveRouteAuthMeta(q) = g[Len(Policies)]
<1> DEFINE N == Len(Policies)
           meta[n \in 0 .. N] ==
             IF n = 0 THEN NoMeta ELSE AddPolicy(q, meta[n - 1], Policies[n])
<1>1. PICK g : Folds(q, g, N) BY FoldExists
<1>2. g = [n \in 0 .. N |-> IF n = 0 THEN NoMeta ELSE AddPolicy(q, g[n - 1], Policies[n])]
  BY <1>1 DEF Folds
<1>3. meta = [n \in 0 .. N |-> IF n = 0 THEN NoMeta ELSE AddPolicy(q, meta[n - 1], Policies[n])]
  BY <1>2 DEF meta
<1>4. ResolveRouteAuthMeta(q) = meta[N] BY DEF ResolveRouteAuthMeta, meta
<1> HIDE DEF meta
<1>5. Folds(q, meta, N) BY <1>3 DEF Folds
<1> QED BY <1>4, <1>5

Fields == {"ignore", "requireLogin", "permissions", "roles", "safeBusiness"}
PlainFields == {"ignore", "requireLogin", "safeBusiness"}

LEMMA NoMetaIs == DOMAIN NoMeta = Fields /\ \A f \in Fields : NoMeta[f] = Null
BY DEF NoMeta, Fields

LEMMA MergeFields ==
  ASSUME NEW m, NEW d, DOMAIN m = Fields, NEW out, out = MergeRouteAuthMeta(m, d)
  PROVE  /\ DOMAIN out = Fields
         /\ \A f \in PlainFields : out[f] = IF d[f] = Null THEN m[f] ELSE d[f]
         /\ \A f \in Kinds : out[f] = MergeList(m[f], d[f])
<1> DEFINE o == Override(m, d)
<1>1. DOMAIN o = Fields /\ \A f \in Fields : o[f] = IF d[f] = Null THEN m[f] ELSE d[f] BY DEF Override
<1>2. out = [o EXCEPT !.permissions = MergeList(m.permissions, d.permissions),
                    !.roles = MergeList(m.roles, d.roles)]
  BY DEF MergeRouteAuthMeta
<1>3. o = [f \in Fields |-> o[f]] BY DEF Override
<1> HIDE DEF o
<1>4. DOMAIN out = Fields BY <1>1, <1>2
<1>5. out.permissions = MergeList(m.permissions, d.permissions) /\ out.roles = MergeList(m.roles, d.roles)
  BY <1>1, <1>2, <1>3 DEF Fields
<1>6. \A f \in PlainFields : out[f] = o[f] BY <1>1, <1>2, <1>3 DEF Fields, PlainFields
<1> QED BY <1>1, <1>4, <1>5, <1>6 DEF Kinds, PlainFields, Fields

(* What the declarations M come to when they are merged in some order. *)
Resolved(m, M) ==
  /\ DOMAIN m = Fields
  /\ \A f \in Fields : (\E d \in M : d[f] # Null) => m[f] # Null
  /\ \A f \in {"ignore", "requireLogin"} : m[f] # Null => \E d \in M : d[f] = m[f]
  /\ \A f \in Kinds : m[f] # Null => m[f] \in Asked /\ \E d \in M : d[f] # Null /\ d[f].mode = m[f].mode
  /\ \A f \in Kinds : \A d \in M : d[f] # Null => d[f].list \subseteq m[f].list

LEMMA NothingResolved == Resolved(NoMeta, {})
BY NoMetaIs DEF Resolved, Fields, Kinds

LEMMA ListsMerge ==
  ASSUME Null \notin Asked, NEW b, NEW n, b # Null => b \in Asked, n # Null => n \in Asked,
         NEW out, out = MergeList(b, n)
  PROVE  /\ out # Null => out \in Asked
         /\ b # Null \/ n # Null => out # Null
         /\ b # Null => b.list \subseteq out.list
         /\ n # Null => n.list \subseteq out.list /\ out.mode = n.mode
         /\ n = Null => out = b
<1>1. CASE b = Null \/ n = Null BY <1>1 DEF MergeList, Asked
<1>2. CASE b # Null /\ n # Null
  <2>1. out = [list |-> b.list \cup n.list, mode |-> n.mode] BY <1>2 DEF MergeList
  <2>2. b \in Asked /\ n \in Asked BY <1>2
  <2>3. out \in Asked BY <2>1, <2>2 DEF Asked
  <2> QED BY <1>2, <2>1, <2>2, <2>3 DEF Asked
<1> QED BY <1>1, <1>2

LEMMA MergeResolves ==
  ASSUME Null \notin Asked, NEW m, NEW M, Resolved(m, M), NEW d, IsMeta(d),
         NEW out, out = MergeRouteAuthMeta(m, d)
  PROVE  Resolved(out, M \cup {d})
<1>1. DOMAIN m = Fields BY DEF Resolved
<1>2. /\ DOMAIN out = Fields
      /\ \A f \in PlainFields : out[f] = IF d[f] = Null THEN m[f] ELSE d[f]
      /\ \A f \in Kinds : out[f] = MergeList(m[f], d[f])
  BY <1>1, MergeFields
<1>3. ASSUME NEW f \in Kinds
      PROVE  /\ out[f] # Null => out[f] \in Asked
             /\ m[f] # Null \/ d[f] # Null => out[f] # Null
             /\ m[f] # Null => m[f].list \subseteq out[f].list
             /\ d[f] # Null => d[f].list \subseteq out[f].list /\ out[f].mode = d[f].mode
             /\ d[f] = Null => out[f] = m[f]
  <2>1. m[f] # Null => m[f] \in Asked BY <1>3 DEF Resolved
  <2>2. d[f] # Null => d[f] \in Asked BY <1>3 DEF IsMeta
  <2>3. out[f] = MergeList(m[f], d[f]) BY <1>2, <1>3
  <2> QED BY <2>1, <2>2, <2>3, ListsMerge
<1>4. \A f \in Fields : (\E e \in M \cup {d} : e[f] # Null) => out[f] # Null
  <2> SUFFICES ASSUME NEW f \in Fields, NEW e \in M \cup {d}, e[f] # Null PROVE out[f] # Null
    OBVIOUS
  <2>1. m[f] # Null \/ d[f] # Null BY DEF Resolved
  <2>2. CASE f \in PlainFields BY <1>2, <2>1, <2>2
  <2>3. CASE f \in Kinds BY <1>3, <2>1, <2>3
  <2> QED BY <2>2, <2>3 DEF Fields, PlainFields, Kinds
<1>5. \A f \in {"ignore", "requireLogin"} : out[f] # Null => \E e \in M \cup {d} : e[f] = out[f]
  <2> SUFFICES ASSUME NEW f \in {"ignore", "requireLogin"}, out[f] # Null
               PROVE  \E e \in M \cup {d} : e[f] = out[f]
    OBVIOUS
  <2>1. out[f] = IF d[f] = Null THEN m[f] ELSE d[f] BY <1>2 DEF PlainFields
  <2>2. CASE d[f] = Null BY <2>1, <2>2 DEF Resolved
  <2>3. CASE d[f] # Null BY <2>1, <2>3
  <2> QED BY <2>2, <2>3
<1>6. \A f \in Kinds : out[f] # Null =>
        out[f] \in Asked /\ \E e \in M \cup {d} : e[f] # Null /\ e[f].mode = out[f].mode
  <2> SUFFICES ASSUME NEW f \in Kinds, out[f] # Null
               PROVE  out[f] \in Asked /\ \E e \in M \cup {d} : e[f] # Null /\ e[f].mode = out[f].mode
    OBVIOUS
  <2>1. CASE d[f] = Null
    <3>1. out[f] = m[f] BY <1>3, <2>1
    <3>2. PICK e \in M : e[f] # Null /\ e[f].mode = m[f].mode BY <3>1 DEF Resolved
    <3> QED BY <1>3, <3>1, <3>2
  <2>2. CASE d[f] # Null BY <1>3, <2>2
  <2> QED BY <2>1, <2>2
<1>7. \A f \in Kinds : \A e \in M \cup {d} : e[f] # Null => e[f].list \subseteq out[f].list
  <2> SUFFICES ASSUME NEW f \in Kinds, NEW e \in M \cup {d}, e[f] # Null PROVE e[f].list \subseteq out[f].list
    OBVIOUS
  <2>1. CASE e \in M
    <3>1. e[f].list \subseteq m[f].list BY <2>1 DEF Resolved
    <3>2. f \in Fields BY DEF Kinds, Fields
    <3>3. m[f] # Null BY <2>1, <3>2 DEF Resolved
    <3> QED BY <1>3, <3>1, <3>3
  <2>2. CASE e = d BY <1>3, <2>2
  <2> QED BY <2>1, <2>2
<1> QED BY <1>2, <1>4, <1>5, <1>6, <1>7 DEF Resolved

LEMMA SequenceLen == ASSUME NEW s, IsSequence(s) PROVE Len(s) \in Nat /\ DOMAIN s = 1 .. Len(s)
BY DEF IsSequence

LEMMA ConcatIs ==
  ASSUME NEW S, NEW U, NEW s \in Seq(S), NEW t \in Seq(U)
  PROVE  /\ Len(s \o t) = Len(s) + Len(t) /\ Len(s) \in Nat /\ Len(t) \in Nat
         /\ \A n \in 1 .. Len(s) + Len(t) : (s \o t)[n] = IF n <= Len(s) THEN s[n] ELSE t[n - Len(s)]
<1> DEFINE W == S \cup U
<1>1. s \in Seq(W) /\ t \in Seq(W) OBVIOUS
<1> HIDE DEF W
<1> QED BY <1>1, ConcatProperties

(* What a path of the ignore list is declared as. *)
IgnoreIt == [NoMeta EXCEPT !.ignore = TRUE]
IgnorePath(path) == [match |-> {path}, methods |-> {}, meta |-> IgnoreIt]

LEMMA IgnoreIsMeta == IsMeta(IgnoreIt)
<1> DEFINE m == IgnoreIt
<1>1. m = [f \in DOMAIN NoMeta |-> IF f = "ignore" THEN TRUE ELSE NoMeta[f]] BY Zenon DEF IgnoreIt
<1> HIDE DEF m
<1>2. DOMAIN m = Fields BY <1>1, NoMetaIs
<1>3. m.ignore = TRUE BY <1>1, NoMetaIs, Zenon DEF Fields
<1>4. \A f \in Kinds \cup {"requireLogin"} : m[f] = Null
  <2>1. \A f \in Kinds \cup {"requireLogin"} : f \in Fields /\ f # "ignore" BY DEF Kinds, Fields
  <2> QED BY <1>1, <2>1, NoMetaIs
<1> QED BY <1>2, <1>3, <1>4, NoMetaIs DEF IsMeta, m

LEMMA PoliciesAre ==
  ASSUME IsSite(site)
  PROVE  /\ Len(Policies) \in Nat
         /\ \A n \in 1 .. Len(Policies) :
              /\ IsMeta(Policies[n].meta)
              /\ site.adapter \notin {"express", "fastify"} => <<>> \in Policies[n].match
<1> DEFINE k == Len(site.ignore)
           s == [i \in 1 .. k |-> IgnorePath(site.ignore[i])]
           t == site.policies
           S == {IgnorePath(site.ignore[i]) : i \in 1 .. k}
           U == {t[i] : i \in DOMAIN t}
<1>1. k \in Nat /\ Len(t) \in Nat /\ DOMAIN t = 1 .. Len(t) /\ t \in Seq(U)
  BY SequenceLen DEF IsSite, IsSequence
<1>2. s \in Seq(S) /\ Len(s) = k
  <2>1. s \in [1 .. k -> S] OBVIOUS
  <2> HIDE DEF S, s, k
  <2>2. s \in Seq(S) BY <1>1, <2>1, SeqDef
  <2> QED BY <1>1, <2>1, <2>2, LenProperties
<1>3. Policies = s \o t BY DEF Policies, IgnorePath, IgnoreIt
<1>4. \A i \in 1 .. k : s[i] = IgnorePath(site.ignore[i]) OBVIOUS
<1>5. /\ Len(Policies) = k + Len(t)
      /\ \A n \in 1 .. k + Len(t) : Policies[n] = IF n <= k THEN s[n] ELSE t[n - k]
  <2> HIDE DEF s, S, U, t, k
  <2> QED BY <1>1, <1>2, <1>3, ConcatIs
<1> HIDE DEF s, S, U
<1>6. ASSUME NEW n \in 1 .. Len(Policies)
      PROVE  /\ IsMeta(Policies[n].meta)
             /\ site.adapter \notin {"express", "fastify"} => <<>> \in Policies[n].match
  <2>1. CASE n <= k
    <3>1. n \in 1 .. k BY <1>1, <1>5, <1>6, <2>1
    <3>2. Policies[n] = IgnorePath(site.ignore[n]) BY <1>1, <1>4, <1>5, <1>6, <2>1, <3>1
    <3>3. site.adapter \in {"express", "fastify"}
      <4> SUFFICES ASSUME site.adapter \notin {"express", "fastify"} PROVE FALSE
        OBVIOUS
      <4>1. site.ignore = <<>> BY DEF IsSite
      <4> QED BY <3>1, <4>1
    <3> QED BY <3>2, <3>3, IgnoreIsMeta DEF IgnorePath
  <2>2. CASE ~(n <= k)
    <3>1. Policies[n] = t[n - k] /\ n - k \in 1 .. Len(t)
      <4> HIDE DEF t, k
      <4> QED BY <1>1, <1>5, <1>6, <2>2
    <3> QED BY <1>1, <3>1 DEF IsSite
  <2> QED BY <2>1, <2>2
<1> HIDE DEF t, k
<1> QED BY <1>1, <1>5, <1>6

(* What the policies that match a request declare, the first n of them. *)
Declared(q, n) == {Policies[i].meta : i \in {j \in 1 .. n : MatchPolicy(q, Policies[j])}}

LEMMA ResolveMeets ==
  ASSUME Null \notin Asked, IsSite(site), NEW q
  PROVE  Resolved(ResolveRouteAuthMeta(q), Declared(q, Len(Policies)))
<1> DEFINE N == Len(Policies)
<1>1. N \in Nat /\ \A n \in 1 .. N : IsMeta(Policies[n].meta) BY PoliciesAre
<1>2. PICK g : Folds(q, g, N) /\ ResolveRouteAuthMeta(q) = g[N] BY <1>1, ResolveFolds
<1>3. \A i \in 0 .. N : g[i] = IF i = 0 THEN NoMeta ELSE AddPolicy(q, g[i - 1], Policies[i])
  BY <1>2 DEF Folds
<1> HIDE DEF N
<1> DEFINE T == {n \in 0 .. N : ~Resolved(g[n], Declared(q, n))}
<1>4. T = {}
  <2> SUFFICES ASSUME T # {} PROVE FALSE
    OBVIOUS
  <2>1. T \subseteq Nat BY <1>1
  <2>2. PICK n \in T : \A j \in T : ~(j < n) BY <2>1, LeastCounterexample
  <2>3. CASE n = 0
    <3>1. Declared(q, 0) = {} BY DEF Declared
    <3>2. g[0] = NoMeta BY <1>1, <1>3
    <3> QED BY <2>2, <2>3, <3>1, <3>2, NothingResolved
  <2>4. CASE n # 0
    <3>1. n - 1 \in 0 .. N /\ n \in 1 .. N /\ n - 1 < n BY <1>1, <2>4
    <3>2. Resolved(g[n - 1], Declared(q, n - 1)) BY <2>2, <3>1
    <3>3. g[n] = AddPolicy(q, g[n - 1], Policies[n]) BY <1>3, <2>4, <3>1
    <3>4. 1 .. n = (1 .. n - 1) \cup {n} BY <3>1
    <3>5. CASE MatchPolicy(q, Policies[n])
      <4>1. g[n] = MergeRouteAuthMeta(g[n - 1], Policies[n].meta) BY <3>3, <3>5 DEF AddPolicy
      <4>2. Declared(q, n) = Declared(q, n - 1) \cup {Policies[n].meta} BY <3>4, <3>5 DEF Declared
      <4>3. Resolved(g[n], Declared(q, n - 1) \cup {Policies[n].meta})
        BY <1>1, <3>1, <3>2, <4>1, MergeResolves
      <4> QED BY <2>2, <4>2, <4>3
    <3>6. CASE ~MatchPolicy(q, Policies[n])
      <4>1. g[n] = g[n - 1] BY <3>3, <3>6 DEF AddPolicy
      <4>2. Declared(q, n) = Declared(q, n - 1) BY <3>4, <3>6 DEF Declared
      <4> QED BY <2>2, <3>2, <4>1, <4>2
    <3> QED BY <3>5, <3>6
  <2> QED BY <2>3, <2>4
<1> QED BY <1>1, <1>2, <1>4 DEF N

LEMMA ResolvedIsMeta ==
  ASSUME NEW m, NEW M, Resolved(m, M), \A d \in M : IsMeta(d)
  PROVE  IsMeta(m)
<1>1. DOMAIN m = DOMAIN NoMeta BY NoMetaIs DEF Resolved
<1>2. \A f \in {"ignore", "requireLogin"} : m[f] \in BOOLEAN \cup {Null}
  <2> SUFFICES ASSUME NEW f \in {"ignore", "requireLogin"}, m[f] # Null PROVE m[f] \in BOOLEAN \cup {Null}
    OBVIOUS
  <2>1. PICK d \in M : d[f] = m[f] BY DEF Resolved
  <2>2. {d.ignore, d.requireLogin} \subseteq BOOLEAN \cup {Null} BY <2>1 DEF IsMeta
  <2> QED BY <2>1, <2>2
<1>3. \A f \in Kinds : m[f] # Null => m[f] \in Asked BY DEF Resolved
<1> QED BY <1>1, <1>2, <1>3 DEF IsMeta

LEMMA OverrideIsMeta ==
  ASSUME NEW b, NEW n, IsMeta(b), IsMeta(n), NEW m, m = Override(b, n)
  PROVE  IsMeta(m) /\ \A f \in Fields : m[f] = IF n[f] = Null THEN b[f] ELSE n[f]
<1>1. DOMAIN m = Fields /\ \A f \in Fields : m[f] = IF n[f] = Null THEN b[f] ELSE n[f]
  BY NoMetaIs DEF Override, IsMeta
<1>2. \A f \in {"ignore", "requireLogin"} : b[f] \in BOOLEAN \cup {Null} /\ n[f] \in BOOLEAN \cup {Null}
  BY DEF IsMeta
<1>3. \A f \in {"ignore", "requireLogin"} : m[f] \in BOOLEAN \cup {Null} BY <1>1, <1>2 DEF Fields
<1>4. \A f \in Kinds : m[f] # Null => m[f] \in Asked BY <1>1 DEF IsMeta, Kinds, Fields
<1> QED BY <1>1, <1>3, <1>4, NoMetaIs DEF IsMeta

LEMMA NoMetaIsMeta == IsMeta(NoMeta)
BY NoMetaIs DEF IsMeta, Fields, Kinds

(* What the declarations D demand, m asks for. *)
Meets(m, D) ==
  /\ \A f \in Kinds \cup {"safeBusiness"} : (\E d \in D : d[f] # Null) => m[f] # Null
  /\ (\E d \in D : d.requireLogin = TRUE) /\ (\A d \in D : d.requireLogin # FALSE) => m.requireLogin = TRUE
  /\ \A f \in Kinds : (\A d \in D : d[f] # Null => d[f].mode = "AND") =>
       \A d \in D : d[f] # Null => m[f].mode = "AND" /\ d[f].list \subseteq m[f].list

LEMMA ResolvedMeets ==
  ASSUME Null \notin BOOLEAN, NEW m, NEW M, Resolved(m, M), \A d \in M : IsMeta(d)
  PROVE  Meets(m, M)
<1>1. \A f \in Kinds \cup {"safeBusiness"} : (\E d \in M : d[f] # Null) => m[f] # Null
  BY DEF Resolved, Kinds, Fields
<1>2. ASSUME \E d \in M : d.requireLogin = TRUE, \A d \in M : d.requireLogin # FALSE
      PROVE  m.requireLogin = TRUE
  <2>1. \E d \in M : d.requireLogin # Null BY <1>2
  <2>2. m.requireLogin # Null BY <2>1 DEF Resolved, Fields
  <2>3. PICK d \in M : d.requireLogin = m.requireLogin BY <2>2 DEF Resolved
  <2>4. d.requireLogin \in BOOLEAN \cup {Null} /\ d.requireLogin # FALSE BY <1>2, <2>3 DEF IsMeta
  <2> QED BY <2>2, <2>3, <2>4
<1>3. \A f \in Kinds : (\A d \in M : d[f] # Null => d[f].mode = "AND") =>
        \A d \in M : d[f] # Null => m[f].mode = "AND" /\ d[f].list \subseteq m[f].list
  <2> SUFFICES ASSUME NEW f \in Kinds, \A d \in M : d[f] # Null => d[f].mode = "AND",
                      NEW d \in M, d[f] # Null
               PROVE  m[f].mode = "AND" /\ d[f].list \subseteq m[f].list
    OBVIOUS
  <2>1. m[f] # Null BY <1>1
  <2>2. PICK e \in M : e[f] # Null /\ e[f].mode = m[f].mode BY <2>1 DEF Resolved
  <2> QED BY <2>2 DEF Resolved
<1> QED BY <1>1, <1>2, <1>3 DEF Meets

(* What a later declaration leaves out does not take away. *)
LEMMA OverrideMeets ==
  ASSUME Null \notin BOOLEAN, NEW b, NEW n, NEW D, Meets(n, D), IsMeta(b), IsMeta(n),
         NEW m, m = Override(b, n)
  PROVE  Meets(m, D)
<1>1. \A f \in Fields : n[f] # Null => m[f] = n[f] BY OverrideIsMeta
<1>2. \A f \in Kinds \cup {"safeBusiness"} : (\E d \in D : d[f] # Null) => n[f] # Null /\ m[f] = n[f]
  BY <1>1 DEF Meets, Fields, Kinds
<1>3. n.requireLogin = TRUE => m.requireLogin = TRUE BY <1>1 DEF Fields
<1> QED BY <1>2, <1>3 DEF Meets

LEMMA OwnDemands ==
  ASSUME NEW m, IsMeta(m)
  PROVE  Meets(m, {m}) /\ Meets(m, {})
BY DEF Meets

LEMMA RewriteLen ==
  ASSUME NEW how, NEW path, IsSequence(path)
  PROVE  Len(Rewrite(how, path)) \in Nat
<1> DEFINE n == Len(path)
           out == [i \in 1 .. n |-> IF path[i] \in DOMAIN how THEN how[path[i]] ELSE path[i]]
           S == {out[i] : i \in 1 .. n}
<1>1. n \in Nat /\ DOMAIN path = 1 .. n BY SequenceLen
<1>2. Rewrite(how, path) = out BY <1>1 DEF Rewrite
<1>3. out \in [1 .. n -> S] OBVIOUS
<1> HIDE DEF out, n, S
<1>4. out \in Seq(S) BY <1>1, <1>3, SeqDef
<1> QED BY <1>2, <1>4, LenProperties

(* On the path of a route, a policy matches when it covers the route.       *)
LEMMA CoverIsMatch ==
  ASSUME IsSite(site), Routed(req.q), IsSequence(req.q.path), \A x \in Routes : IsSequence(x),
         NEW n \in 1 .. Len(Policies)
  PROVE  Covering(Policies[n]) <=> MatchPolicy(req.q, Policies[n])
<1> DEFINE p == Policies[n]
           q == req.q
<1>1. PICK route \in Routes : Reaches(q, route) BY DEF Routed
<1>2. CASE site.adapter = "express"
  <2>1. \A x \in Routes : Reaches(q, x) <=> Rewrite(LowerCase, q.path) = Rewrite(LowerCase, x)
    BY <1>2 DEF Reaches
  <2>2. \A x : Spelled(x) = Rewrite(LowerCase, x) BY <1>2 DEF Spelled
  <2>3. MatchPolicy(q, p) <=> MethodAllowed(q, p) /\ \E m \in p.match :
          IsPrefixOf(Rewrite(LowerCase, m), Rewrite(LowerCase, q.path))
    BY <1>2 DEF MatchPolicy, ExpressMatchPathPrefix
  <2> HIDE DEF p, q
  <2>4. Covering(p) <=> MethodAllowed(q, p) /\ \E m \in p.match :
          IsPrefixOf(Rewrite(LowerCase, m), Rewrite(LowerCase, q.path))
    BY <1>1, <2>1, <2>2 DEF Covering, q
  <2> QED BY <2>3, <2>4 DEF p, q
<1>3. CASE site.adapter = "fastify"
  <2>1. \A x \in Routes : Reaches(q, x) <=> Rewrite(Decoded, q.path) = x BY <1>3 DEF Reaches
  <2>2. \A x : Spelled(x) = x BY <1>3 DEF Spelled
  <2>3. MatchPolicy(q, p) <=> MethodAllowed(q, p) /\ \E m \in p.match :
          IsPrefixOf(m, Rewrite(Decoded, q.path))
    BY <1>3 DEF MatchPolicy, FastifyMatchPathPrefix
  <2> HIDE DEF p, q
  <2>4. Covering(p) <=> MethodAllowed(q, p) /\ \E m \in p.match :
          IsPrefixOf(m, Rewrite(Decoded, q.path))
    BY <1>1, <2>1, <2>2 DEF Covering, q
  <2> QED BY <2>3, <2>4 DEF p, q
<1>4. CASE site.adapter \notin {"express", "fastify"}
  <2>1. <<>> \in p.match BY <1>4, PoliciesAre
  <2>2. \A x : Len(x) \in Nat => IsPrefixOf(<<>>, x) BY DEF IsPrefixOf
  <2>3. Len(Rewrite(Decoded, q.path)) \in Nat /\ Len(route) \in Nat BY <1>1, RewriteLen, SequenceLen
  <2>4. MatchPolicy(q, p) <=> MethodAllowed(q, p)
    BY <1>4, <2>1, <2>2, <2>3 DEF MatchPolicy, FastifyMatchPathPrefix
  <2>5. \A x : Spelled(x) = x BY <1>4 DEF Spelled
  <2> HIDE DEF p, q
  <2>6. Covering(p) <=> MethodAllowed(q, p) BY <1>1, <2>1, <2>2, <2>3, <2>5 DEF Covering, q
  <2> QED BY <2>4, <2>6 DEF p, q
<1> QED BY <1>2, <1>3, <1>4

LEMMA DeclaredIsMatched ==
  ASSUME IsSite(site), Routed(req.q), IsSequence(req.q.path), \A x \in Routes : IsSequence(x)
  PROVE  Matched = Declared(req.q, Len(Policies))
<1>1. \A n \in 1 .. Len(Policies) : Covering(Policies[n]) <=> MatchPolicy(req.q, Policies[n])
  BY CoverIsMatch
<1> QED BY <1>1 DEF Matched, Declared

(* What is asked of a request.  The first holds wherever it goes.           *)
LEMMA MetaIsMeta ==
  ASSUME Null \notin BOOLEAN, Null \notin Asked, IsSite(site), NEW q
  PROVE  IsMeta(MetaOf(q)) /\ IsMeta(RouteMeta(q)) /\ IsMeta(ResolveRouteAuthMeta(q))
<1>1. IsMeta(ResolveRouteAuthMeta(q))
  <2>1. \A d \in Declared(q, Len(Policies)) : IsMeta(d) BY PoliciesAre DEF Declared
  <2> QED BY <2>1, ResolveMeets, ResolvedIsMeta
<1>2. IsMeta(RouteMeta(q)) /\ IsMeta(site.route) BY NoMetaIsMeta DEF RouteMeta, IsSite
<1>3. IsMeta(ExpressMeta(q)) BY <1>1, <1>2, OverrideIsMeta DEF ExpressMeta
<1>4. IsMeta(NestMeta(q)) BY <1>1, <1>2, OverrideIsMeta DEF NestMeta
<1>5. IsMeta(FastifyMeta(q))
  <2> DEFINE M == Declared(q, Len(Policies))
  <2>1. \A d \in M \cup {RouteMeta(q)} : IsMeta(d) BY <1>2, PoliciesAre DEF Declared
  <2>2. Resolved(FastifyMeta(q), M \cup {RouteMeta(q)})
    BY <1>2, ResolveMeets, MergeResolves DEF FastifyMeta
  <2> QED BY <2>1, <2>2, ResolvedIsMeta
<1> QED BY <1>1, <1>2, <1>3, <1>4, <1>5 DEF MetaOf

LEMMA MetaMeets ==
  ASSUME Null \notin BOOLEAN, Null \notin Asked, IsSite(site), Routed(req.q),
         IsSequence(req.q.path), \A x \in Routes : IsSequence(x)
  PROVE  /\ Meets(MetaOf(req.q), Demands)
         /\ (\A d \in Matched \cup {site.route} : d.ignore # TRUE) => MetaOf(req.q).ignore # TRUE
<1> DEFINE q == req.q
           M == Matched
           out == ResolveRouteAuthMeta(q)
           own == RouteMeta(q)
<1>1. Resolved(out, M) BY ResolveMeets, DeclaredIsMatched
<1>2. \A d \in M : IsMeta(d) BY PoliciesAre, DeclaredIsMatched DEF Declared
<1>3. IsMeta(out) /\ IsMeta(own) /\ IsMeta(site.route) BY MetaIsMeta DEF IsSite
<1>4. own = site.route BY DEF RouteMeta
<1> HIDE DEF M, out, own
<1>5. Meets(out, M) BY <1>1, <1>2, ResolvedMeets
<1>6. ASSUME \A d \in M \cup {site.route} : d.ignore # TRUE PROVE out.ignore # TRUE
  <2> SUFFICES ASSUME out.ignore = TRUE PROVE FALSE
    OBVIOUS
  <2>1. out.ignore # Null OBVIOUS
  <2>2. PICK d \in M : d.ignore = out.ignore BY <1>1, <2>1 DEF Resolved
  <2> QED BY <1>6, <2>2
<1>7. CASE site.adapter = "express"
  <2>1. MetaOf(q) = Override(own, out) BY <1>7 DEF MetaOf, ExpressMeta, own, out
  <2>2. Meets(MetaOf(q), M) BY <1>3, <1>5, <2>1, OverrideMeets
  <2>3. Demands = M BY <1>7 DEF Demands, M
  <2>4. MetaOf(q).ignore = IF out.ignore = Null THEN own.ignore ELSE out.ignore
    BY <1>3, <2>1, OverrideIsMeta DEF Fields
  <2> QED BY <1>4, <1>6, <2>2, <2>3, <2>4 DEF M
<1>8. CASE site.adapter = "fastify"
  <2>1. MetaOf(q) = MergeRouteAuthMeta(out, own) BY <1>8 DEF MetaOf, FastifyMeta, own, out
  <2>2. Resolved(MetaOf(q), M \cup {own}) BY <1>1, <1>3, <2>1, MergeResolves
  <2>3. \A d \in M \cup {own} : IsMeta(d) BY <1>2, <1>3
  <2>4. Meets(MetaOf(q), M \cup {own}) BY <2>2, <2>3, ResolvedMeets
  <2>5. Demands = M \cup {own} BY <1>8 DEF Demands, M, own
  <2>6. ASSUME \A d \in M \cup {site.route} : d.ignore # TRUE, MetaOf(q).ignore = TRUE PROVE FALSE
    <3>1. MetaOf(q).ignore # Null BY <2>6
    <3>2. PICK d \in M \cup {own} : d.ignore = MetaOf(q).ignore BY <2>2, <3>1 DEF Resolved
    <3> QED BY <1>4, <2>6, <3>2
  <2> QED BY <2>4, <2>5, <2>6 DEF M
<1>9. CASE site.adapter \notin {"express", "fastify"}
  <2>1. MetaOf(q) = Override(out, site.route) BY <1>9 DEF MetaOf, NestMeta, out
  <2>2. Demands = {site.route} \/ Demands = {} BY <1>9 DEF Demands
  <2>3. Meets(MetaOf(q), Demands) BY <1>3, <2>1, <2>2, OwnDemands, OverrideMeets
  <2>4. MetaOf(q).ignore = IF site.route.ignore = Null THEN out.ignore ELSE site.route.ignore
    BY <1>3, <2>1, OverrideIsMeta DEF Fields
  <2> QED BY <1>6, <2>3, <2>4 DEF M
<1> QED BY <1>7, <1>8, <1>9

-----------------------------------------------------------------------------
(* matchPermission finds what Covers says, segment by segment.              *)
Agree(p, t, i, n) == \A j \in i .. n : j <= Len(t) /\ p[j] = t[j]

(* What of a pattern is left from its segment i on matches. *)
From(p, t, i) ==
  \/ \E n \in i .. Len(p) : p[n] = Star /\ Agree(p, t, i, n - 1)
  \/ Len(p) = Len(t) /\ Agree(p, t, i, Len(p))

LEMMA RestStep ==
  ASSUME NEW p, NEW t, Len(p) \in Nat, Len(t) \in Nat, NEW i \in 1 .. Len(p) + 1
  PROVE  From(p, t, i) <=>
           IF i > Len(p) THEN Len(p) = Len(t)
           ELSE p[i] = Star \/ (i <= Len(t) /\ p[i] = t[i] /\ From(p, t, i + 1))
<1>1. CASE i > Len(p) BY <1>1 DEF From, Agree
<1>2. CASE i <= Len(p)
  <2>1. ASSUME p[i] = Star PROVE From(p, t, i)
    <3>1. i \in i .. Len(p) /\ Agree(p, t, i, i - 1) BY <1>2 DEF Agree
    <3> QED BY <2>1, <3>1 DEF From
  <2>2. ASSUME i <= Len(t), p[i] = t[i], From(p, t, i + 1) PROVE From(p, t, i)
    <3>1. \A n \in Nat : Agree(p, t, i + 1, n) => Agree(p, t, i, n)
      BY <1>2, <2>2 DEF Agree
    <3>2. CASE \E n \in i + 1 .. Len(p) : p[n] = Star /\ Agree(p, t, i + 1, n - 1)
      <4>1. PICK n \in i + 1 .. Len(p) : p[n] = Star /\ Agree(p, t, i + 1, n - 1) BY <3>2
      <4>2. n - 1 \in Nat /\ n \in i .. Len(p) BY <1>2, <4>1
      <4> QED BY <3>1, <4>1, <4>2 DEF From
    <3>3. CASE Len(p) = Len(t) /\ Agree(p, t, i + 1, Len(p)) BY <3>1, <3>3 DEF From
    <3> QED BY <2>2, <3>2, <3>3 DEF From
  <2>3. ASSUME From(p, t, i), p[i] # Star PROVE i <= Len(t) /\ p[i] = t[i] /\ From(p, t, i + 1)
    <3>1. \A n \in Nat : n >= i /\ Agree(p, t, i, n) => i <= Len(t) /\ p[i] = t[i] /\ Agree(p, t, i + 1, n)
      BY <1>2 DEF Agree
    <3>2. CASE \E n \in i .. Len(p) : p[n] = Star /\ Agree(p, t, i, n - 1)
      <4>1. PICK n \in i .. Len(p) : p[n] = Star /\ Agree(p, t, i, n - 1) BY <3>2
      <4>2. n # i BY <2>3, <4>1
      <4>3. n - 1 \in Nat /\ n - 1 >= i /\ n \in i + 1 .. Len(p) BY <1>2, <4>1, <4>2
      <4> QED BY <3>1, <4>1, <4>3 DEF From
    <3>3. CASE Len(p) = Len(t) /\ Agree(p, t, i, Len(p)) BY <1>2, <3>1, <3>3 DEF From
    <3> QED BY <2>3, <3>2, <3>3 DEF From
  <2> QED BY <1>2, <2>1, <2>2, <2>3
<1> QED BY <1>1, <1>2

LEMMA SequencesEqual ==
  ASSUME NEW s, NEW t, IsSequence(s), IsSequence(t), Len(s) = Len(t),
         \A i \in 1 .. Len(s) : s[i] = t[i]
  PROVE  s = t
<1> DEFINE W == {s[i] : i \in DOMAIN s} \cup {t[i] : i \in DOMAIN t}
<1>1. s \in Seq(W) /\ t \in Seq(W) BY DEF IsSequence
<1> HIDE DEF W
<1> QED BY <1>1, SeqEqual

LEMMA MatchIsCover ==
  ASSUME NEW p, NEW t, IsSequence(p), IsSequence(t), MatchPermission(p, t)
  PROVE  \/ p = t
         \/ \E n \in 1 .. Len(p) : p[n] = Star /\ (n - 1) <= Len(t) /\ \A i \in 1 .. n - 1 : p[i] = t[i]
<1> DEFINE I == 1 .. Len(p) + 1
           g == [i \in I |-> From(p, t, i)]
           from[i \in I] ==
             IF i > Len(p) THEN Len(p) = Len(t)
             ELSE p[i] = Star \/ (i <= Len(t) /\ p[i] = t[i] /\ from[i + 1])
<1>1. Len(p) \in Nat /\ Len(t) \in Nat BY SequenceLen
<1>2. g = [i \in I |-> IF i > Len(p) THEN Len(p) = Len(t)
                       ELSE p[i] = Star \/ (i <= Len(t) /\ p[i] = t[i] /\ g[i + 1])]
  <2>1. ASSUME NEW i \in I
        PROVE  From(p, t, i) <=> IF i > Len(p) THEN Len(p) = Len(t)
                                 ELSE p[i] = Star \/ (i <= Len(t) /\ p[i] = t[i] /\ g[i + 1])
    <3> HIDE DEF g
    <3>1. CASE i > Len(p) BY <1>1, <3>1, RestStep
    <3>2. CASE ~(i > Len(p))
      <4>1. i + 1 \in I BY <1>1, <3>2
      <4>2. g[i + 1] = From(p, t, i + 1) BY <4>1, Zenon DEF g
      <4>3. From(p, t, i) <=> p[i] = Star \/ (i <= Len(t) /\ p[i] = t[i] /\ From(p, t, i + 1))
        BY <1>1, <3>2, RestStep
      <4> QED BY <3>2, <4>2, <4>3, Zenon DEF From
    <3> QED BY <3>1, <3>2
  <2>2. ASSUME NEW i \in I
        PROVE  From(p, t, i) = IF i > Len(p) THEN Len(p) = Len(t)
                               ELSE p[i] = Star \/ (i <= Len(t) /\ p[i] = t[i] /\ g[i + 1])
    <3> HIDE DEF g
    <3> DEFINE b == IF i > Len(p) THEN Len(p) = Len(t)
                    ELSE p[i] = Star \/ (i <= Len(t) /\ p[i] = t[i] /\ g[i + 1])
    <3>1. b \in BOOLEAN /\ From(p, t, i) \in BOOLEAN BY DEF From
    <3>2. From(p, t, i) <=> b BY <2>1
    <3> HIDE DEF b
    <3>3. From(p, t, i) = b BY <3>1, <3>2
    <3> QED BY <3>3, Zenon DEF b
  <2> QED BY <2>2, Zenon
<1>3. from = [i \in I |-> IF i > Len(p) THEN Len(p) = Len(t)
                          ELSE p[i] = Star \/ (i <= Len(t) /\ p[i] = t[i] /\ from[i + 1])]
  <2> HIDE DEF g
  <2> QED BY <1>2, Zenon DEF from
<1>4. p = t \/ from[1] BY Zenon DEF MatchPermission, from
<1> HIDE DEF g, from
<1>5. \A i \in I : from[i] => From(p, t, i)
  <2> DEFINE T == {k \in 0 .. Len(p) : from[Len(p) + 1 - k] /\ ~From(p, t, Len(p) + 1 - k)}
  <2>1. T = {}
    <3> SUFFICES ASSUME T # {} PROVE FALSE
      OBVIOUS
    <3>1. T \subseteq Nat BY <1>1
    <3>2. PICK k \in T : \A j \in T : ~(j < k) BY <3>1, LeastCounterexample
    <3> DEFINE i == Len(p) + 1 - k
    <3>3. k \in 0 .. Len(p) /\ i \in I /\ (~(i > Len(p)) => i + 1 \in I /\ k - 1 \in 0 .. Len(p) /\ k - 1 < k)
      BY <1>1, <3>2
    <3>4. from[i] /\ ~From(p, t, i) BY <3>2
    <3>5. CASE i > Len(p)
      <4>1. Len(p) = Len(t) BY <1>3, <3>3, <3>4, <3>5, Zenon
      <4> HIDE DEF i
      <4> QED BY <1>1, <3>3, <3>4, <3>5, <4>1, RestStep
    <3>6. CASE ~(i > Len(p))
      <4>1. p[i] = Star \/ (i <= Len(t) /\ p[i] = t[i] /\ from[i + 1]) BY <1>3, <3>3, <3>4, <3>6, Zenon
      <4>2. i + 1 = Len(p) + 1 - (k - 1) BY <1>1, <3>3
      <4>3. from[i + 1] => From(p, t, i + 1) BY <3>2, <3>3, <3>6, <4>2
      <4> HIDE DEF i
      <4> QED BY <1>1, <3>3, <3>4, <3>6, <4>1, <4>3, RestStep
    <3> QED BY <3>5, <3>6
  <2>2. ASSUME NEW i \in I, from[i] PROVE From(p, t, i)
    <3>1. Len(p) + 1 - i \in 0 .. Len(p) /\ Len(p) + 1 - (Len(p) + 1 - i) = i BY <1>1
    <3> QED BY <2>1, <2>2, <3>1
  <2> QED BY <2>2
<1>6. CASE From(p, t, 1)
  <2>1. CASE \E n \in 1 .. Len(p) : p[n] = Star /\ Agree(p, t, 1, n - 1)
    <3>1. PICK n \in 1 .. Len(p) : p[n] = Star /\ Agree(p, t, 1, n - 1) BY <2>1
    <3>2. \A i \in 1 .. n - 1 : i <= Len(t) /\ p[i] = t[i] BY <3>1 DEF Agree
    <3>3. (n - 1) <= Len(t)
      <4>1. CASE n = 1 BY <1>1, <4>1
      <4>2. CASE n # 1
        <5>1. n - 1 \in 1 .. n - 1 BY <1>1, <3>1, <4>2
        <5> QED BY <3>2, <5>1
      <4> QED BY <4>1, <4>2
    <3> QED BY <3>1, <3>2, <3>3
  <2>2. CASE Len(p) = Len(t) /\ Agree(p, t, 1, Len(p))
    <3>1. \A i \in 1 .. Len(p) : p[i] = t[i] BY <2>2 DEF Agree
    <3> QED BY <2>2, <3>1, SequencesEqual
  <2> QED BY <1>6, <2>1, <2>2 DEF From
<1>7. 1 \in I BY <1>1
<1> QED BY <1>4, <1>5, <1>6, <1>7

-----------------------------------------------------------------------------
(* The state of a request and of the cache.                                 *)
Checked == {"permissions", "roles", "safeBusiness"}
Whys == {Null, "NOT_LOGIN", "NOT_PERMISSION", "NOT_ROLE", "NOT_SAFE", "ERROR"}
Answers == [list: SUBSET Names, until: Nat]
Entries == [list: SUBSET Names, end: Nat]
Items == [pc: {"cache", "load", "store", "yes", "no"}, list: SUBSET Names, since: Nat]

Shaped ==
  /\ site \in Sites /\ now \in 0 .. MaxTime
  /\ grants \in [Kinds -> SUBSET Names]
  /\ past \in [Kinds -> Seq(Answers)]
  /\ cache \in [Kinds -> Entries \cup {Null}]
  /\ seen \in [login: BOOLEAN, safe: BOOLEAN, items: SUBSET Names]
  /\ req \in [pc: {"idle", "login", "served", "refused"} \cup Checked, meta: {req.meta},
              user: BOOLEAN, why: Whys, q: Requests \cup {Null}]
  /\ item \in [DOMAIN item -> Items]

(* StpInterface gave the list for k at the time t or later.                 *)
Given(k, list, t) ==
  \/ list = grants[k]
  \/ \E i \in 1 .. Len(past[k]) : past[k][i].list = list /\ past[k][i].until >= t

(* A cached list was still given when its load began, no longer ago than it *)
(* has been cached and the load took.                                       *)
Timely ==
  /\ \A k \in Kinds : cache[k] # Null =>
       /\ now < cache[k].end /\ cache[k].end <= now + site.timeout
       /\ Given(k, cache[k].list, cache[k].end - (site.timeout + LoadTime))
  /\ \A x \in DOMAIN item : item[x].pc = "store" =>
       /\ site.timeout > 0 /\ item[x].since <= now /\ now <= item[x].since + LoadTime
       /\ Given(req.pc, item[x].list, item[x].since)

(* What stage n of a request asks for was found.                            *)
Met(n) ==
  Needs(n) =>
    IF n = 3 THEN seen.safe
    ELSE req.meta[Stages[n]].mode = "AND" => req.meta[Stages[n]].list \subseteq seen.items

Decided ==
  /\ req.pc # "idle" => req.q \in Requests /\ req.meta = MetaOf(req.q)
  /\ req.pc \in Checked \/ req.user => seen.login
  /\ req.pc = "permissions" => Needs(1)
  /\ req.pc = "roles" => Needs(2) /\ Met(1)
  /\ req.pc = "safeBusiness" => Needs(3) /\ Met(1) /\ Met(2)
  /\ req.pc = "served" => ~ShouldCheckLogin(req.meta) \/ (seen.login /\ \A n \in 1 .. 3 : Met(n))
  /\ DOMAIN item = IF req.pc \in Kinds THEN req.meta[req.pc].list ELSE {}
  /\ \A x \in DOMAIN item : item[x].pc = "yes" => x \in seen.items

AccessIInv == AccessConstants /\ Shaped /\ Timely /\ Decided

LEMMA ConstantFacts ==
  ASSUME AccessConstants, site \in Sites
  PROVE  /\ IsSite(site) /\ site.timeout \in Nat /\ LoadTime \in Nat /\ MaxTime \in Nat
         /\ Null \notin BOOLEAN /\ Null \notin Asked
         /\ \A x \in Names \cup Routes : IsSequence(x)
         /\ \A q \in Requests : IsSequence(q.path)
BY DEF AccessConstants, IsSite

(* What a check finds in a list is there.                                   *)
LEMMA HasIsCover ==
  ASSUME \A x \in Names : IsSequence(x), NEW list \in SUBSET Names, NEW x \in Names, NEW which,
         Has(which, list, x)
  PROVE  Covers(list, x)
<1>1. CASE x \in list BY <1>1 DEF Covers
<1>2. CASE \E p \in list : MatchPermission(p, x)
  <2>1. PICK p \in list : MatchPermission(p, x) BY <1>2
  <2>2. \/ p = x
        \/ \E n \in 1 .. Len(p) : p[n] = Star /\ (n - 1) <= Len(x) /\ \A i \in 1 .. n - 1 : p[i] = x[i]
    BY <2>1, MatchIsCover
  <2> QED BY <2>1, <2>2 DEF Covers
<1> QED BY <1>1, <1>2 DEF Has

(* A request goes on to the next stage it needs, or is served.              *)
GoesTo(k, user) ==
  \/ k = 3 /\ req' = [req EXCEPT !.pc = "safeBusiness", !.user = user] /\ item' = <<>>
  \/ k < 3 /\ \E why \in {"NOT_PERMISSION", "NOT_ROLE"} : Refuse(why)
  \/ /\ k < 3
     /\ req' = [req EXCEPT !.pc = Stages[k], !.user = user]
     /\ item' = [x \in req.meta[Stages[k]].list |->
                   [pc |-> IF site.timeout = 0 THEN "load" ELSE "cache", list |-> {}, since |-> 0]]

LEMMA GoOnIs ==
  ASSUME NEW n \in 0 .. 3, NEW user, GoOn(n, user)
  PROVE  \/ Serve /\ \A m \in n + 1 .. 3 : ~Needs(m)
         \/ \E k \in n + 1 .. 3 : Needs(k) /\ (\A m \in n + 1 .. k - 1 : ~Needs(m)) /\ GoesTo(k, user)
<1> DEFINE rest == {m \in n + 1 .. 3 : Needs(m)}
           next == CHOOSE m \in rest : \A k \in rest : m <= k
           list == req.meta[Stages[next]].list
<1>1. IF rest = {} THEN Serve
      ELSE IF next = 3
      THEN req' = [req EXCEPT !.pc = "safeBusiness", !.user = user] /\ item' = <<>>
      ELSE IF list = {} THEN Refuse(IF next = 1 THEN "NOT_PERMISSION" ELSE "NOT_ROLE")
           ELSE /\ req' = [req EXCEPT !.pc = Stages[next], !.user = user]
                /\ item' = [x \in list |-> [pc |-> IF site.timeout = 0 THEN "load" ELSE "cache",
                                            list |-> {}, since |-> 0]]
  BY DEF GoOn
<1>2. CASE rest = {} BY <1>1, <1>2
<1>3. CASE rest # {}
  <2>1. \E m \in rest : \A k \in rest : m <= k
    <3>1. rest \subseteq Nat OBVIOUS
    <3>2. PICK m \in rest : \A k \in rest : ~(k < m) BY <1>3, <3>1, LeastCounterexample
    <3> QED BY <3>1, <3>2
  <2>2. next \in rest /\ \A k \in rest : next <= k BY <2>1
  <2> HIDE DEF next
  <2>3. next \in n + 1 .. 3 /\ Needs(next) /\ \A m \in n + 1 .. next - 1 : ~Needs(m) BY <2>2
  <2>4. CASE next = 3 BY <1>1, <1>3, <2>3, <2>4 DEF GoesTo
  <2>5. CASE next # 3 /\ list = {}
    <3>1. Refuse(IF next = 1 THEN "NOT_PERMISSION" ELSE "NOT_ROLE") BY <1>1, <1>3, <2>5
    <3>2. next < 3 BY <2>3, <2>5
    <3> QED BY <2>3, <3>1, <3>2 DEF GoesTo
  <2>6. CASE next # 3 /\ list # {}
    <3>1. next < 3 BY <2>3, <2>6
    <3> QED BY <1>1, <1>3, <2>3, <2>6, <3>1 DEF GoesTo
  <2> QED BY <2>4, <2>5, <2>6
<1> QED BY <1>2, <1>3

LEMMA ConstantsStay == AccessConstants => AccessConstants'
BY DEF AccessConstants

LEMMA MetaStays == ASSUME site' = site, req'.q = req.q PROVE MetaOf(req.q)' = MetaOf(req.q)
BY DEF MetaOf, ExpressMeta, FastifyMeta, NestMeta, RouteMeta, ResolveRouteAuthMeta, Routed,
       Reaches, Policies, AddPolicy, MatchPolicy

(* What was found stays found. *)
Grows ==
  /\ seen' \in [login: BOOLEAN, safe: BOOLEAN, items: SUBSET Names]
  /\ seen.login => seen'.login
  /\ seen.safe => seen'.safe
  /\ seen.items \subseteq seen'.items

LEMMA MetStays ==
  ASSUME NEW n, Met(n), req'.meta = req.meta, site' = site, Grows
  PROVE  Met(n)'
BY DEF Met, Needs, Grows

LEMMA NeedsStays ==
  ASSUME NEW n, req'.meta = req.meta, site' = site
  PROVE  Needs(n)' <=> Needs(n)
BY DEF Needs

LEMMA StagesAre == Stages[1] = "permissions" /\ Stages[2] = "roles" /\ Stages[3] = "safeBusiness"
BY DEF Stages

LEMMA NoItems == <<>> \in [DOMAIN <<>> -> Items] /\ DOMAIN <<>> = {}
OBVIOUS

(* The steps that leave world and cache alone and no item under way.        *)
LEMMA ShapeAfter ==
  ASSUME Shaped, UNCHANGED <<world, cache>>, item' \in [DOMAIN item' -> Items], Grows,
         NEW pc \in {"idle", "login", "served", "refused"} \cup Checked, NEW user \in BOOLEAN, NEW why \in Whys,
         req' = [req EXCEPT !.pc = pc, !.user = user, !.why = why]
  PROVE  /\ Shaped'
         /\ req'.pc = pc /\ req'.user = user /\ req'.meta = req.meta /\ req'.q = req.q
<1>1. /\ req'.pc = pc /\ req'.user = user /\ req'.meta = req.meta /\ req'.q = req.q
      /\ req' \in [pc: {"idle", "login", "served", "refused"} \cup Checked, meta: {req.meta},
              user: BOOLEAN, why: Whys, q: Requests \cup {Null}]
  BY DEF Shaped
<1> QED BY <1>1 DEF Shaped, Grows, world

LEMMA TimelyAfter ==
  ASSUME Timely, UNCHANGED <<world, cache>>, \A x \in DOMAIN item' : item'[x].pc # "store"
  PROVE  Timely'
BY DEF Timely, Given, world

LEMMA RefuseKeeps ==
  ASSUME AccessIInv, NEW why \in Whys, Refuse(why), UNCHANGED <<world, cache>>, Grows, req.pc # "idle"
  PROVE  AccessIInv'
<1> USE DEF AccessIInv
<1>1. item' = <<>> /\ req' = [req EXCEPT !.pc = "refused", !.why = why] BY DEF Refuse
<1>2. req' = [req EXCEPT !.pc = "refused", !.user = req.user, !.why = why] /\ req.user \in BOOLEAN
  BY <1>1 DEF Shaped
<1>3. Shaped' /\ req'.pc = "refused" /\ req'.user = req.user /\ req'.meta = req.meta /\ req'.q = req.q
  BY <1>1, <1>2, NoItems, ShapeAfter
<1>4. Timely' BY <1>1, NoItems, TimelyAfter
<1>5. site' = site BY DEF world
<1>6. req'.q \in Requests /\ req'.meta = MetaOf(req.q)'
  BY <1>3, <1>5, MetaStays DEF Decided
<1>7. DOMAIN item' = {} BY <1>1, NoItems
<1>8. seen.login => seen'.login BY DEF Grows
<1>9. Decided' BY <1>3, <1>6, <1>7, <1>8 DEF Decided, Kinds, Checked
<1> QED BY <1>3, <1>4, <1>9, ConstantsStay

LEMMA GoOnKeeps ==
  ASSUME AccessIInv, NEW n \in 0 .. 3, NEW user \in BOOLEAN, GoOn(n, user), UNCHANGED <<world, cache>>,
         Grows, seen'.login, req.pc # "idle", \A m \in 1 .. n : Met(m)
  PROVE  AccessIInv'
<1> USE DEF AccessIInv
<1>1. /\ req.user \in BOOLEAN /\ req.why \in Whys /\ req.meta = MetaOf(req.q) /\ req.q \in Requests
      /\ site' = site
  BY DEF Shaped, Decided, world
<1>2. \A m \in 1 .. 3 : Needs(m) => req.meta[Stages[m]] # Null BY DEF Needs
<1>3. IsMeta(req.meta)
  <2>1. IsSite(site) /\ Null \notin BOOLEAN /\ Null \notin Asked BY ConstantFacts DEF Shaped
  <2> QED BY <1>1, <2>1, MetaIsMeta
<1>4. ASSUME NEW pc \in {"served"} \cup Checked, NEW u \in BOOLEAN, req' = [req EXCEPT !.pc = pc, !.user = u],
             item' \in [DOMAIN item' -> Items],
             \A x \in DOMAIN item' : item'[x].pc \notin {"store", "yes"},
             DOMAIN item' = IF pc \in Kinds THEN req.meta[pc].list ELSE {},
             pc = "permissions" => Needs(1),
             pc = "roles" => Needs(2) /\ Met(1),
             pc = "safeBusiness" => Needs(3) /\ Met(1) /\ Met(2),
             pc = "served" => Met(1) /\ Met(2) /\ Met(3)
      PROVE  AccessIInv'
  <2>1. req' = [req EXCEPT !.pc = pc, !.user = u, !.why = req.why] BY <1>4 DEF Shaped
  <2>a. pc \in {"idle", "login", "served", "refused"} \cup Checked BY <1>4
  <2>b. item' \in [DOMAIN item' -> Items] /\ u \in BOOLEAN BY <1>4
  <2>2. Shaped' /\ req'.pc = pc /\ req'.user = u /\ req'.meta = req.meta /\ req'.q = req.q
    BY <1>1, <2>1, <2>a, <2>b, ShapeAfter
  <2>3. Timely' BY <1>4, TimelyAfter
  <2>4. req'.q \in Requests /\ req'.meta = MetaOf(req.q)' BY <1>1, <2>2, MetaStays
  <2>5. \A m \in 1 .. 3 : (Needs(m) => Needs(m)') /\ (Met(m) => Met(m)')
    BY <1>1, <2>2, MetStays, NeedsStays
  <2>6. DOMAIN item' = IF req'.pc \in Kinds THEN req'.meta[req'.pc].list ELSE {} BY <1>4, <2>2
  <2>7. /\ pc = "permissions" => Needs(1)'
        /\ pc = "roles" => Needs(2)' /\ Met(1)'
        /\ pc = "safeBusiness" => Needs(3)' /\ Met(1)' /\ Met(2)'
        /\ pc = "served" => \A m \in 1 .. 3 : Met(m)'
    BY <1>4, <2>5
  <2>8. Decided' BY <1>4, <2>2, <2>4, <2>6, <2>7 DEF Decided
  <2> QED BY <2>2, <2>3, <2>8, ConstantsStay
<1>5. \A m \in 1 .. 3 : ~Needs(m) => Met(m) BY DEF Met
<1>6. \A x \in DOMAIN <<>> : FALSE OBVIOUS
<1>7. CASE Serve /\ \A m \in n + 1 .. 3 : ~Needs(m)
  <2>1. \A m \in 1 .. 3 : Met(m)
    <3>1. \A m \in 1 .. 3 : m \in 1 .. n \/ m \in n + 1 .. 3 OBVIOUS
    <3> QED BY <1>5, <1>7, <3>1
  <2>2. req' = [req EXCEPT !.pc = "served", !.user = TRUE] /\ item' = <<>> BY <1>7 DEF Serve
  <2>3. "served" \notin Kinds BY DEF Kinds
  <2>4. Met(1) /\ Met(2) /\ Met(3) BY <2>1
  <2>5. item' \in [DOMAIN item' -> Items] /\ DOMAIN item' = {} BY <2>2, NoItems
  <2>6. \A x \in DOMAIN item' : item'[x].pc \notin {"store", "yes"} BY <2>5
  <2>7. TRUE \in BOOLEAN /\ "served" \in {"served"} \cup Checked OBVIOUS
  <2> QED BY <1>4, <2>2, <2>3, <2>4, <2>5, <2>6, <2>7
<1>8. ASSUME NEW k \in n + 1 .. 3, Needs(k), \A m \in n + 1 .. k - 1 : ~Needs(m), GoesTo(k, user)
      PROVE  AccessIInv'
  <2>1. \A m \in 1 .. k - 1 : Met(m)
    <3>1. \A m \in 1 .. k - 1 : m \in 1 .. n \/ (m \in n + 1 .. k - 1 /\ m \in 1 .. 3) BY <1>8
    <3> QED BY <1>5, <1>8, <3>1
  <2>2. CASE k = 3 /\ req' = [req EXCEPT !.pc = "safeBusiness", !.user = user] /\ item' = <<>>
    <3>1. "safeBusiness" \notin Kinds /\ "safeBusiness" \in Checked BY DEF Kinds, Checked
    <3>a. k = 3 /\ 1 \in 1 .. k - 1 /\ 2 \in 1 .. k - 1 BY <2>2
    <3>2. Met(1) /\ Met(2) /\ Needs(3) BY <1>8, <2>1, <3>a
    <3>3. item' \in [DOMAIN item' -> Items] /\ DOMAIN item' = {} BY <2>2, NoItems
    <3>4. \A x \in DOMAIN item' : item'[x].pc \notin {"store", "yes"} BY <3>3
    <3>5. "safeBusiness" \in {"served"} \cup Checked BY <3>1
    <3> QED BY <1>4, <2>2, <3>1, <3>2, <3>3, <3>4, <3>5
  <2>3. CASE \E why \in {"NOT_PERMISSION", "NOT_ROLE"} : Refuse(why)
    BY <2>3, RefuseKeeps DEF Whys
  <2>4. CASE /\ k < 3
             /\ req' = [req EXCEPT !.pc = Stages[k], !.user = user]
             /\ item' = [x \in req.meta[Stages[k]].list |->
                   [pc |-> IF site.timeout = 0 THEN "load" ELSE "cache", list |-> {}, since |-> 0]]
    <3> DEFINE pc == Stages[k]
               i == [pc |-> IF site.timeout = 0 THEN "load" ELSE "cache", list |-> {}, since |-> 0]
    <3>1. k \in {1, 2} BY <1>8, <2>4
    <3>2. pc \in Kinds /\ pc \in Checked /\ pc = IF k = 1 THEN "permissions" ELSE "roles"
      BY <3>1, StagesAre DEF Kinds, Checked
    <3>3. i \in Items /\ i.pc \notin {"store", "yes"} BY DEF Items
    <3> HIDE DEF i, pc
    <3>4. /\ DOMAIN item' = req.meta[pc].list /\ item' \in [DOMAIN item' -> Items]
          /\ \A x \in DOMAIN item' : item'[x].pc \notin {"store", "yes"}
      BY <2>4, <3>3 DEF i, pc
    <3>5. pc = "permissions" => Needs(1) BY <1>8, <3>1, <3>2
    <3>6. pc = "roles" => Needs(2) /\ Met(1) BY <1>8, <2>1, <3>1, <3>2
    <3>7. req' = [req EXCEPT !.pc = pc, !.user = user] BY <2>4 DEF pc
    <3> QED BY <1>4, <3>1, <3>2, <3>4, <3>5, <3>6, <3>7
  <2> QED BY <1>8, <2>2, <2>3, <2>4 DEF GoesTo
<1> QED BY <1>7, <1>8, GoOnIs

(* The start of a check, and what ends one.                                 *)
LEMMA ArriveKeeps == ASSUME AccessIInv, NEW q \in Requests, Arrive(q) PROVE AccessIInv'
<1> USE DEF AccessIInv
<1> DEFINE pc == IF ShouldCheckLogin(MetaOf(q)) THEN "login" ELSE "served"
<1>1. /\ req' = [Idle EXCEPT !.q = q, !.meta = MetaOf(q), !.pc = pc]
      /\ item' = <<>> /\ seen' = Nothing /\ UNCHANGED <<world, cache>>
  BY DEF Arrive
<1>2. /\ req'.pc = pc /\ req'.meta = MetaOf(q) /\ req'.q = q /\ req'.user = FALSE /\ req'.why = Null
      /\ req' \in [pc: {"idle", "login", "served", "refused"} \cup Checked, meta: {req'.meta},
                   user: BOOLEAN, why: Whys, q: Requests \cup {Null}]
  <2> HIDE DEF pc
  <2>1. req' = [pc |-> pc, meta |-> MetaOf(q), user |-> FALSE, why |-> Null, q |-> q] BY <1>1 DEF Idle
  <2>2. pc \in {"login", "served"} BY DEF pc
  <2> QED BY <2>1, <2>2 DEF Whys
<1>3. seen' \in [login: BOOLEAN, safe: BOOLEAN, items: SUBSET Names] BY <1>1 DEF Nothing
<1>4. item' \in [DOMAIN item' -> Items] /\ DOMAIN item' = {} BY <1>1, NoItems
<1>5. Shaped' BY <1>1, <1>2, <1>3, <1>4 DEF Shaped, world
<1>6. Timely' BY <1>1, <1>4, TimelyAfter
<1>7. MetaOf(q)' = MetaOf(q) /\ ShouldCheckLogin(MetaOf(q))' = ShouldCheckLogin(MetaOf(q))
  <2>1. site' = site BY <1>1 DEF world
  <2> QED BY <2>1 DEF MetaOf, ExpressMeta, FastifyMeta, NestMeta, RouteMeta, ResolveRouteAuthMeta,
       Routed, Reaches, Policies, AddPolicy, MatchPolicy, ShouldCheckLogin
<1>8. Decided'
  <2>1. req'.meta = MetaOf(req.q)' BY <1>2, <1>7
  <2>2. pc = "served" => ~ShouldCheckLogin(req.meta)'
    BY <1>2, <1>7, <2>1 DEF ShouldCheckLogin
  <2>3. pc \in {"login", "served"} /\ pc \notin Checked /\ pc \notin Kinds BY DEF Checked, Kinds
  <2> HIDE DEF pc
  <2> QED BY <1>2, <1>4, <2>1, <2>2, <2>3 DEF Decided
<1> QED BY <1>5, <1>6, <1>8, ConstantsStay

LEMMA CheckLoginKeeps == ASSUME AccessIInv, CheckLogin PROVE AccessIInv'
<1> USE DEF AccessIInv
<1>1. req.pc = "login" /\ UNCHANGED <<world, cache>> /\ req.pc # "idle" BY DEF CheckLogin
<1>2. CASE GoOn(0, site.adapter \in {"nest", "loginGuard"}) /\ seen' = [seen EXCEPT !.login = TRUE]
  <2>1. Grows /\ seen'.login BY <1>2 DEF Grows, Shaped
  <2>2. (site.adapter \in {"nest", "loginGuard"}) \in BOOLEAN OBVIOUS
  <2>3. \A m \in 1 .. 0 : Met(m) OBVIOUS
  <2>4. 0 \in 0 .. 3 OBVIOUS
  <2> QED BY <1>1, <1>2, <2>1, <2>2, <2>3, <2>4, GoOnKeeps
<1>3. CASE Refuse("NOT_LOGIN") /\ UNCHANGED seen
  <2>1. Grows BY <1>3 DEF Grows, Shaped
  <2> QED BY <1>1, <1>3, <2>1, RefuseKeeps DEF Whys
<1> QED BY <1>2, <1>3 DEF CheckLogin

LEMMA CheckSafeKeeps == ASSUME AccessIInv, CheckSafe PROVE AccessIInv'
<1> USE DEF AccessIInv
<1>1. req.pc = "safeBusiness" /\ UNCHANGED <<world, cache>> /\ req.pc # "idle" BY DEF CheckSafe
<1>2. CASE GoOn(3, req.user) /\ seen' = [seen EXCEPT !.safe = TRUE]
  <2>1. Grows /\ seen'.login BY <1>1, <1>2 DEF Grows, Shaped, Decided, Checked
  <2>2. req.user \in BOOLEAN /\ 3 \in 0 .. 3 BY DEF Shaped
  <2>3. Serve
    <3>1. \A m \in 3 + 1 .. 3 : FALSE OBVIOUS
    <3> QED BY <1>2, <2>2, <3>1, GoOnIs
  <2>4. Met(1) /\ Met(2) BY <1>1 DEF Decided
  <2>5. seen'.safe BY <1>2 DEF Shaped
  <2>6. req' = [req EXCEPT !.pc = "served", !.user = TRUE] /\ item' = <<>> BY <2>3 DEF Serve
  <2>7. req' = [req EXCEPT !.pc = "served", !.user = TRUE, !.why = req.why] /\ req.why \in Whys
    BY <2>6 DEF Shaped
  <2>8. item' \in [DOMAIN item' -> Items] /\ DOMAIN item' = {} BY <2>6, NoItems
  <2>9. Shaped' /\ req'.pc = "served" /\ req'.user = TRUE /\ req'.meta = req.meta /\ req'.q = req.q
    BY <1>1, <2>1, <2>7, <2>8, ShapeAfter
  <2>10. Timely' BY <1>1, <2>8, TimelyAfter
  <2>11. site' = site BY <1>1 DEF world
  <2>12. req'.q \in Requests /\ req'.meta = MetaOf(req.q)'
    BY <1>1, <2>9, <2>11, MetaStays DEF Decided
  <2>13. Met(1)' /\ Met(2)' BY <2>1, <2>4, <2>9, <2>11, MetStays
  <2>14. Met(3)' BY <2>5 DEF Met
  <2>15. \A m \in 1 .. 3 : m = 1 \/ m = 2 \/ m = 3 OBVIOUS
  <2>16. "served" \notin Checked /\ "served" \notin Kinds BY DEF Checked, Kinds
  <2>17. \A m \in 1 .. 3 : Met(m)' BY <2>13, <2>14, <2>15
  <2>18. Decided' BY <2>1, <2>8, <2>9, <2>12, <2>16, <2>17 DEF Decided
  <2> QED BY <2>9, <2>10, <2>18, ConstantsStay
<1>3. CASE Refuse("NOT_SAFE") /\ UNCHANGED seen
  <2>1. Grows BY <1>3 DEF Grows, Shaped
  <2> QED BY <1>1, <1>3, <2>1, RefuseKeeps DEF Whys
<1> QED BY <1>2, <1>3 DEF CheckSafe

LEMMA FailsKeeps == ASSUME AccessIInv, CheckFails PROVE AccessIInv'
<1>1. /\ Refuse("ERROR") /\ UNCHANGED <<world, cache>> /\ UNCHANGED seen /\ req.pc # "idle"
  BY DEF CheckFails
<1>2. Grows BY <1>1 DEF Grows, Shaped, AccessIInv
<1> QED BY <1>1, <1>2, RefuseKeeps DEF Whys

LEMMA ConcludeKeeps == ASSUME AccessIInv, Conclude PROVE AccessIInv'
<1> USE DEF AccessIInv
<1> DEFINE n == Stage
<1>1. /\ req.pc \in Kinds /\ UNCHANGED <<world, cache>> /\ UNCHANGED seen /\ req.pc # "idle"
  BY DEF Conclude, Kinds
<1>2. Grows /\ seen'.login
  <2>1. Grows BY <1>1 DEF Grows, Shaped
  <2>2. seen.login BY <1>1 DEF Decided, Checked, Kinds
  <2> QED BY <2>1, <2>2 DEF Grows
<1>3. n \in {1, 2} /\ Stages[n] = req.pc /\ Needs(n) /\ \A m \in 1 .. n - 1 : Met(m)
  BY <1>1, StagesAre DEF Stage, Kinds, Decided
<1>4. CASE Passed(req.meta[req.pc].mode) /\ GoOn(n, req.user)
  <2>1. Met(n)
    <3>1. SUFFICES ASSUME req.meta[req.pc].mode = "AND" PROVE req.meta[req.pc].list \subseteq seen.items
      BY <1>3 DEF Met
    <3>2. \A x \in DOMAIN item : item[x].pc = "yes" BY <1>4, <3>1 DEF Passed
    <3>3. DOMAIN item = req.meta[req.pc].list BY <1>1 DEF Decided
    <3> QED BY <3>2, <3>3 DEF Decided
  <2> HIDE DEF n
  <2>2. \A m \in 1 .. n : m \in 1 .. n - 1 \/ m = n BY <1>3
  <2>3. \A m \in 1 .. n : Met(m) BY <1>3, <2>1, <2>2
  <2>4. req.user \in BOOLEAN /\ n \in 0 .. 3 BY <1>3 DEF Shaped
  <2> QED BY <1>1, <1>2, <1>4, <2>3, <2>4, GoOnKeeps
<1>5. CASE Refuse(IF n = 1 THEN "NOT_PERMISSION" ELSE "NOT_ROLE")
  <2>1. (IF n = 1 THEN "NOT_PERMISSION" ELSE "NOT_ROLE") \in Whys BY DEF Whys
  <2> HIDE DEF n
  <2> QED BY <1>1, <1>2, <1>5, <2>1, RefuseKeeps
<1> QED BY <1>4, <1>5 DEF Conclude

(* One permission or role of a check moves on. *)
LEMMA ItemMoves ==
  ASSUME AccessIInv, NEW x \in DOMAIN item, NEW i \in Items, item' = [item EXCEPT ![x] = i],
         UNCHANGED <<world, req>>, Grows, i.pc = "yes" => x \in seen'.items,
         i.pc = "store" => /\ site.timeout > 0 /\ i.since <= now /\ now <= i.since + LoadTime
                           /\ Given(req.pc, i.list, i.since),
         cache' \in [Kinds -> Entries \cup {Null}],
         \A k \in Kinds : cache'[k] # Null =>
            /\ now < cache'[k].end /\ cache'[k].end <= now + site.timeout
            /\ Given(k, cache'[k].list, cache'[k].end - (site.timeout + LoadTime))
  PROVE  AccessIInv'
<1> USE DEF AccessIInv
<1>1. /\ DOMAIN item' = DOMAIN item /\ item' \in [DOMAIN item' -> Items]
      /\ \A y \in DOMAIN item : item'[y] = IF y = x THEN i ELSE item[y]
  BY DEF Shaped
<1>2. Shaped' BY <1>1 DEF Shaped, Grows, world
<1>3. /\ UNCHANGED <<site, now, grants, past>> BY DEF world
<1>4. Timely'
  <2>1. \A y \in DOMAIN item' : item'[y].pc = "store" =>
          /\ site.timeout > 0 /\ item'[y].since <= now /\ now <= item'[y].since + LoadTime
          /\ Given(req.pc, item'[y].list, item'[y].since)
    BY <1>1 DEF Timely
  <2>2. ASSUME NEW k, NEW l, NEW t, Given(k, l, t) PROVE Given(k, l, t)' BY <1>3, <2>2 DEF Given
  <2>3. req' = req OBVIOUS
  <2> QED BY <1>3, <2>1, <2>3 DEF Timely, Given
<1>5. Decided'
  <2>1. req' = req OBVIOUS
  <2>2. MetaOf(req.q)' = MetaOf(req.q) BY <1>3, <2>1, MetaStays
  <2>3. \A m \in 1 .. 3 : (Needs(m) => Needs(m)') /\ (Met(m) => Met(m)')
    BY <1>3, <2>1, MetStays, NeedsStays
  <2>4. \A y \in DOMAIN item' : item'[y].pc = "yes" => y \in seen'.items BY <1>1 DEF Decided, Grows
  <2>5. seen.login => seen'.login BY DEF Grows
  <2>6. ShouldCheckLogin(req.meta)' = ShouldCheckLogin(req.meta) BY <1>3, <2>1 DEF ShouldCheckLogin
  <2>7. /\ req'.pc = "permissions" => Needs(1)'
        /\ req'.pc = "roles" => Needs(2)' /\ Met(1)'
        /\ req'.pc = "safeBusiness" => Needs(3)' /\ Met(1)' /\ Met(2)'
    BY <2>1, <2>3 DEF Decided
  <2>8. req'.pc = "served" => ~ShouldCheckLogin(req.meta)' \/ (seen'.login /\ \A m \in 1 .. 3 : Met(m)')
    BY <2>1, <2>3, <2>5, <2>6 DEF Decided
  <2>9. DOMAIN item' = IF req'.pc \in Kinds THEN req'.meta[req'.pc].list ELSE {}
    BY <1>1, <2>1 DEF Decided
  <2>10. /\ req'.pc # "idle" => req'.q \in Requests /\ req'.meta = MetaOf(req.q)'
         /\ req'.pc \in Checked \/ req'.user => seen'.login
    BY <2>1, <2>2, <2>5 DEF Decided
  <2> QED BY <2>4, <2>7, <2>8, <2>9, <2>10 DEF Decided
<1> QED BY <1>2, <1>4, <1>5, ConstantsStay

LEMMA CacheIsTimely ==
  ASSUME AccessIInv
  PROVE  /\ cache \in [Kinds -> Entries \cup {Null}]
         /\ \A k \in Kinds : cache[k] # Null =>
              /\ now < cache[k].end /\ cache[k].end <= now + site.timeout
              /\ Given(k, cache[k].list, cache[k].end - (site.timeout + LoadTime))
BY DEF AccessIInv, Shaped, Timely

(* An answer counts only where it covers what was asked. *)
LEMMA AnswerIs ==
  ASSUME AccessIInv, NEW x \in DOMAIN item, req.pc \in Kinds, NEW list \in SUBSET Names, Settle(x, list)
  PROVE  \E i \in Items :
           /\ item' = [item EXCEPT ![x] = i] /\ i.list = list /\ i.pc \in {"yes", "no"}
           /\ i.pc = "yes" => x \in seen'.items
           /\ Grows /\ UNCHANGED <<world, req>>
<1> USE DEF AccessIInv
<1> DEFINE i == [pc |-> IF Has(req.pc, list, x) THEN "yes" ELSE "no", list |-> list, since |-> 0]
<1>1. i \in Items /\ i.list = list /\ i.pc \in {"yes", "no"} /\ (i.pc = "yes" => Has(req.pc, list, x))
  BY DEF Items
<1>2. item' = [item EXCEPT ![x] = i] /\ UNCHANGED <<world, req>>
      /\ seen' = IF Covers(list, x) THEN [seen EXCEPT !.items = @ \cup {x}] ELSE seen
  BY DEF Settle
<1>3. x \in Names
  <2>1. /\ req.meta = MetaOf(req.q) /\ DOMAIN item = req.meta[req.pc].list
        /\ req.meta[req.pc] # Null
    BY StagesAre DEF Decided, Kinds, Needs
  <2>2. IsSite(site) /\ Null \notin BOOLEAN /\ Null \notin Asked BY ConstantFacts DEF Shaped
  <2>3. IsMeta(req.meta) BY <2>1, <2>2, MetaIsMeta
  <2>4. req.meta[req.pc] \in Asked BY <2>1, <2>3 DEF IsMeta
  <2> QED BY <2>1, <2>4 DEF Asked
<1>4. \A y \in Names : IsSequence(y) BY ConstantFacts DEF Shaped
<1>5. i.pc = "yes" => Covers(list, x) BY <1>1, <1>3, <1>4, HasIsCover
<1>6. Grows BY <1>2, <1>3 DEF Grows, Shaped
<1>7. Covers(list, x) => x \in seen'.items BY <1>2, <1>3 DEF Shaped
<1> HIDE DEF i
<1> QED BY <1>1, <1>2, <1>5, <1>6, <1>7

LEMMA MoveKeeps ==
  ASSUME AccessIInv, NEW x \in DOMAIN item, ReadCache(x) \/ Load(x) \/ StoreCache(x)
  PROVE  AccessIInv'
<1> USE DEF AccessIInv
<1>1. req.pc \in Kinds BY DEF ReadCache, Load, StoreCache, Checking, Kinds
<1>2. site.timeout \in Nat /\ LoadTime \in Nat /\ now \in Nat /\ req.pc \in Kinds
      /\ grants[req.pc] \in SUBSET Names /\ item[x] \in Items
  <2>1. site.timeout \in Nat /\ LoadTime \in Nat /\ MaxTime \in Nat BY ConstantFacts DEF Shaped
  <2> QED BY <1>1, <2>1 DEF Shaped
<1>3. ASSUME NEW list \in SUBSET Names, Settle(x, list), cache' = cache PROVE AccessIInv'
  <2>1. PICK i \in Items : /\ item' = [item EXCEPT ![x] = i] /\ i.pc \in {"yes", "no"}
                           /\ i.pc = "yes" => x \in seen'.items
                           /\ Grows /\ UNCHANGED <<world, req>>
    BY <1>1, <1>3, AnswerIs
  <2>2. i.pc # "store" BY <2>1
  <2> QED BY <1>3, <2>1, <2>2, CacheIsTimely, ItemMoves
<1>4. ASSUME NEW i \in Items, item' = [item EXCEPT ![x] = i], UNCHANGED <<world, req, seen, cache>>,
             i.pc # "yes",
             i.pc = "store" => /\ site.timeout > 0 /\ i.since = now /\ i.list = grants[req.pc]
      PROVE  AccessIInv'
  <2>1. Grows BY <1>4 DEF Grows, Shaped
  <2>2. i.pc = "store" => /\ site.timeout > 0 /\ i.since <= now /\ now <= i.since + LoadTime
                          /\ Given(req.pc, i.list, i.since)
    BY <1>2, <1>4 DEF Given
  <2> QED BY <1>4, <2>1, <2>2, CacheIsTimely, ItemMoves
<1>5. CASE ReadCache(x)
  <2>1. CASE cache[req.pc] # Null /\ Settle(x, cache[req.pc].list)
    <3>1. cache[req.pc].list \in SUBSET Names BY <1>2, <2>1 DEF Shaped, Entries
    <3> QED BY <1>3, <1>5, <2>1, <3>1 DEF ReadCache
  <2>2. CASE item' = [item EXCEPT ![x].pc = "load"] /\ UNCHANGED <<world, req, seen>>
    <3>1. [item[x] EXCEPT !.pc = "load"] \in Items /\ [item[x] EXCEPT !.pc = "load"].pc = "load"
      BY <1>2 DEF Items
    <3>2. item' = [item EXCEPT ![x] = [item[x] EXCEPT !.pc = "load"]] BY <2>2
    <3> QED BY <1>4, <1>5, <2>2, <3>1, <3>2 DEF ReadCache
  <2> QED BY <1>5, <2>1, <2>2 DEF ReadCache
<1>6. CASE Load(x)
  <2>1. CASE Settle(x, grants[req.pc]) BY <1>2, <1>3, <1>6, <2>1 DEF Load
  <2>2. CASE /\ site.timeout > 0
             /\ item' = [item EXCEPT ![x] = [pc |-> "store", list |-> grants[req.pc], since |-> now]]
             /\ UNCHANGED <<world, req, seen>>
    <3> DEFINE i == [pc |-> "store", list |-> grants[req.pc], since |-> now]
    <3>1. i \in Items /\ i.pc = "store" /\ i.list = grants[req.pc] /\ i.since = now BY <1>2 DEF Items
    <3>2. item' = [item EXCEPT ![x] = i] BY <2>2
    <3> HIDE DEF i
    <3> QED BY <1>4, <1>6, <2>2, <3>1, <3>2 DEF Load
  <2> QED BY <1>6, <2>1, <2>2 DEF Load
<1>7. CASE StoreCache(x)
  <2>1. /\ item[x].pc = "store" /\ Settle(x, item[x].list) /\ item[x].list \in SUBSET Names
        /\ cache' = [cache EXCEPT ![req.pc] = [list |-> item[x].list, end |-> now + site.timeout]]
    BY <1>2, <1>7 DEF StoreCache, Checking, Items
  <2>2. /\ site.timeout > 0 /\ item[x].since <= now /\ now <= item[x].since + LoadTime
        /\ Given(req.pc, item[x].list, item[x].since) /\ item[x].since \in Nat
    BY <1>2, <2>1 DEF Timely, Items
  <2>3. PICK i \in Items : /\ item' = [item EXCEPT ![x] = i] /\ i.pc \in {"yes", "no"}
                           /\ i.pc = "yes" => x \in seen'.items
                           /\ Grows /\ UNCHANGED <<world, req>>
    BY <1>1, <2>1, AnswerIs
  <2> DEFINE e == [list |-> item[x].list, end |-> now + site.timeout]
  <2>4. e \in Entries /\ e.list = item[x].list /\ e.end = now + site.timeout BY <1>2, <2>1 DEF Entries
  <2>5. cache' = [cache EXCEPT ![req.pc] = e] BY <2>1
  <2>6. now < e.end /\ e.end <= now + site.timeout BY <1>2, <2>2, <2>4
  <2>7. Given(req.pc, e.list, e.end - (site.timeout + LoadTime))
    <3>1. e.end - (site.timeout + LoadTime) <= item[x].since BY <1>2, <2>2, <2>4
    <3>a. past[req.pc] \in Seq(Answers) BY <1>1 DEF Shaped
    <3>b. \A a \in Answers : a.until \in Nat BY DEF Answers
    <3>2. \A n \in 1 .. Len(past[req.pc]) : past[req.pc][n].until \in Nat BY <3>a, <3>b
    <3>3. \A n \in 1 .. Len(past[req.pc]) :
            past[req.pc][n].until >= item[x].since
              => past[req.pc][n].until >= e.end - (site.timeout + LoadTime)
      BY <1>2, <2>2, <2>4, <3>1, <3>2
    <3> QED BY <2>2, <2>4, <3>3 DEF Given
  <2> HIDE DEF e
  <2>8. /\ cache' \in [Kinds -> Entries \cup {Null}]
        /\ \A k \in Kinds : cache'[k] = IF k = req.pc THEN e ELSE cache[k]
    BY <2>4, <2>5 DEF Shaped
  <2>9. \A k \in Kinds : cache'[k] # Null =>
              /\ now < cache'[k].end /\ cache'[k].end <= now + site.timeout
              /\ Given(k, cache'[k].list, cache'[k].end - (site.timeout + LoadTime))
    BY <2>6, <2>7, <2>8, CacheIsTimely
  <2>10. i.pc # "store" BY <2>3
  <2> QED BY <2>3, <2>8, <2>9, <2>10, ItemMoves
<1> QED BY <1>5, <1>6, <1>7

-----------------------------------------------------------------------------
(* The application, the operators and time.                                 *)
LEMMA RestDecided == ASSUME Decided, Rest PROVE Decided'
<1>1. site' = site /\ req' = req /\ item' = item /\ seen' = seen BY DEF Rest
<1>2. MetaOf(req.q)' = MetaOf(req.q) BY <1>1, MetaStays
<1>3. \A m \in 1 .. 3 : (Needs(m)' <=> Needs(m)) /\ (Met(m) => Met(m)')
  BY <1>1 DEF Met, Needs
<1>4. ShouldCheckLogin(req.meta)' = ShouldCheckLogin(req.meta) BY <1>1 DEF ShouldCheckLogin
<1>5. /\ req'.pc = "permissions" => Needs(1)'
      /\ req'.pc = "roles" => Needs(2)' /\ Met(1)'
      /\ req'.pc = "safeBusiness" => Needs(3)' /\ Met(1)' /\ Met(2)'
      /\ req'.pc = "served" => ~ShouldCheckLogin(req.meta)' \/ (seen'.login /\ \A m \in 1 .. 3 : Met(m)')
  BY <1>1, <1>3, <1>4 DEF Decided
<1>6. /\ req'.pc # "idle" => req'.q \in Requests /\ req'.meta = MetaOf(req.q)'
      /\ req'.pc \in Checked \/ req'.user => seen'.login
      /\ DOMAIN item' = IF req'.pc \in Kinds THEN req'.meta[req'.pc].list ELSE {}
      /\ \A x \in DOMAIN item' : item'[x].pc = "yes" => x \in seen'.items
  BY <1>1, <1>2 DEF Decided
<1> QED BY <1>5, <1>6 DEF Decided

LEMMA GrantsKeep ==
  ASSUME AccessIInv, NEW which \in Kinds, NEW list \in SUBSET Names, GrantsChange(which, list)
  PROVE  AccessIInv'
<1> USE DEF AccessIInv
<1> DEFINE a == [list |-> grants[which], until |-> now]
<1>1. /\ past' = [past EXCEPT ![which] = Append(past[which], a)]
      /\ grants' = [grants EXCEPT ![which] = list]
      /\ Rest /\ UNCHANGED <<now, live, safe, cache>>
  BY DEF GrantsChange
<1>2. site.timeout \in Nat /\ LoadTime \in Nat /\ now \in Nat
  <2>1. site.timeout \in Nat /\ LoadTime \in Nat /\ MaxTime \in Nat BY ConstantFacts DEF Shaped
  <2> QED BY <2>1 DEF Shaped
<1>3. a \in Answers /\ a.list = grants[which] /\ a.until = now BY <1>2 DEF Answers, Shaped
<1> HIDE DEF a
<1>4. past' \in [Kinds -> Seq(Answers)] /\ grants' \in [Kinds -> SUBSET Names]
      /\ \A k \in Kinds : /\ past[k] \in Seq(Answers)
                          /\ past'[k] = IF k = which THEN Append(past[k], a) ELSE past[k]
                          /\ grants'[k] = IF k = which THEN list ELSE grants[k]
  <2>1. past \in [Kinds -> Seq(Answers)] /\ grants \in [Kinds -> SUBSET Names] BY DEF Shaped
  <2>2. Append(past[which], a) \in Seq(Answers) BY <1>3, <2>1
  <2> QED BY <1>1, <2>1, <2>2
<1>5. Shaped' BY <1>1, <1>4 DEF Shaped, Rest
<1>6. ASSUME NEW k \in Kinds, NEW l, NEW t, t <= now, Given(k, l, t) PROVE Given(k, l, t)'
  <2>1. CASE k # which
    <3>1. past'[k] = past[k] /\ grants'[k] = grants[k] BY <1>4, <2>1
    <3> QED BY <1>6, <3>1 DEF Given
  <2>2. CASE k = which
    <3>1. past[k] \in Seq(Answers) /\ past'[k] = Append(past[k], a) BY <1>4, <2>2
    <3>2. /\ Len(past'[k]) = Len(past[k]) + 1 /\ Len(past[k]) \in Nat
          /\ past'[k][Len(past[k]) + 1] = a
          /\ \A i \in 1 .. Len(past[k]) : past'[k][i] = past[k][i]
      BY <1>3, <3>1
    <3>3. CASE l = grants[k]
      <4>1. past'[k][Len(past[k]) + 1].list = l /\ past'[k][Len(past[k]) + 1].until >= t
        BY <1>3, <1>6, <2>2, <3>2, <3>3
      <4>2. Len(past[k]) + 1 \in 1 .. Len(past'[k]) BY <3>2
      <4> QED BY <4>1, <4>2 DEF Given
    <3>4. CASE \E i \in 1 .. Len(past[k]) : past[k][i].list = l /\ past[k][i].until >= t
      <4>1. PICK i \in 1 .. Len(past[k]) : past[k][i].list = l /\ past[k][i].until >= t BY <3>4
      <4>2. i \in 1 .. Len(past'[k]) /\ past'[k][i] = past[k][i] BY <3>2
      <4> QED BY <4>1, <4>2 DEF Given
    <3> QED BY <1>6, <3>3, <3>4 DEF Given
  <2> QED BY <2>1, <2>2
<1>7. site' = site /\ req' = req /\ item' = item /\ now' = now /\ cache' = cache BY <1>1 DEF Rest
<1>8. ASSUME NEW k \in Kinds, cache[k] # Null
      PROVE  Given(k, cache[k].list, cache[k].end - (site.timeout + LoadTime))'
  <2>1. /\ now < cache[k].end /\ cache[k].end <= now + site.timeout
        /\ Given(k, cache[k].list, cache[k].end - (site.timeout + LoadTime)) /\ cache[k].end \in Nat
    BY <1>8 DEF Timely, Shaped, Entries
  <2>2. cache[k].end - (site.timeout + LoadTime) <= now BY <1>2, <2>1
  <2>3. Given(k, cache[k].list, cache[k].end - (site.timeout + LoadTime)) => 
          \A l, t : l = cache[k].list /\ t = cache[k].end - (site.timeout + LoadTime) => Given(k, l, t)'
    BY <1>6, <2>2
  <2> QED BY <1>7, <2>1, <2>3 DEF Given
<1>9. ASSUME NEW x \in DOMAIN item, item[x].pc = "store"
      PROVE  Given(req.pc, item[x].list, item[x].since)'
  <2>1. item[x].since <= now /\ Given(req.pc, item[x].list, item[x].since) /\ req.pc \in Kinds
    BY <1>9 DEF Timely, Decided
  <2>2. \A l, t : l = item[x].list /\ t = item[x].since => Given(req.pc, l, t)' BY <1>6, <2>1, <1>7
  <2> QED BY <1>7, <2>2 DEF Given
<1>10. Timely' BY <1>7, <1>8, <1>9 DEF Timely
<1>11. Decided' BY <1>1, RestDecided
<1> QED BY <1>5, <1>10, <1>11, ConstantsStay

LEMMA FlagsKeep ==
  ASSUME AccessIInv, SessionEnds \/ OpenSafe \/ SafeEnds
  PROVE  AccessIInv'
<1> USE DEF AccessIInv
<1>1. Rest /\ UNCHANGED <<now, grants, past, cache>> BY DEF SessionEnds, OpenSafe, SafeEnds
<1>2. Shaped' BY <1>1 DEF Shaped, Rest
<1>3. Timely' BY <1>1 DEF Timely, Given, Rest
<1> QED BY <1>1, <1>2, <1>3, RestDecided, ConstantsStay

LEMMA TickKeeps == ASSUME AccessIInv, Tick PROVE AccessIInv'
<1> USE DEF AccessIInv
<1>1. /\ now < MaxTime /\ now' = now + 1
      /\ \A x \in DOMAIN item : item[x].pc = "store" => now < item[x].since + LoadTime
      /\ cache' = [k \in DOMAIN cache |-> IF cache[k] # Null /\ cache[k].end <= now + 1 THEN Null ELSE cache[k]]
      /\ Rest /\ UNCHANGED <<live, safe, grants, past>>
  BY DEF Tick
<1>2. site.timeout \in Nat /\ LoadTime \in Nat /\ MaxTime \in Nat /\ now \in 0 .. MaxTime
  BY ConstantFacts DEF Shaped
<1>3. site' = site /\ req' = req /\ item' = item /\ seen' = seen BY <1>1 DEF Rest
<1>4. /\ cache' \in [Kinds -> Entries \cup {Null}]
      /\ \A k \in Kinds : cache'[k] # Null => cache'[k] = cache[k] /\ ~(cache[k].end <= now + 1)
  BY <1>1 DEF Shaped
<1>5. Shaped'
  <2>1. now' \in 0 .. MaxTime BY <1>1, <1>2
  <2> QED BY <1>1, <1>3, <1>4, <2>1 DEF Shaped
<1>6. \A k, l, t : Given(k, l, t) => Given(k, l, t)' BY <1>1 DEF Given
<1>7. ASSUME NEW k \in Kinds, cache'[k] # Null
      PROVE  /\ now' < cache'[k].end /\ cache'[k].end <= now' + site.timeout
             /\ Given(k, cache[k].list, cache[k].end - (site.timeout + LoadTime))'
             /\ cache'[k] = cache[k]
  <2>1. cache'[k] = cache[k] /\ cache[k] # Null /\ ~(cache[k].end <= now + 1) BY <1>4, <1>7
  <2>2. /\ cache[k].end <= now + site.timeout /\ cache[k].end \in Nat
        /\ Given(k, cache[k].list, cache[k].end - (site.timeout + LoadTime))
    BY <2>1 DEF Timely, Shaped, Entries
  <2>3. now' < cache'[k].end /\ cache'[k].end <= now' + site.timeout BY <1>1, <1>2, <2>1, <2>2
  <2>4. Given(k, cache[k].list, cache[k].end - (site.timeout + LoadTime))'
    BY <1>1, <1>3, <2>1, <2>2 DEF Given
  <2> QED BY <2>1, <2>3, <2>4
<1>8. ASSUME NEW x \in DOMAIN item, item[x].pc = "store"
      PROVE  /\ site.timeout > 0 /\ item[x].since <= now' /\ now' <= item[x].since + LoadTime
             /\ Given(req.pc, item[x].list, item[x].since)'
  <2>1. site.timeout > 0 /\ item[x].since <= now /\ Given(req.pc, item[x].list, item[x].since)
        /\ item[x].since \in Nat
    BY <1>8 DEF Timely, Shaped, Items
  <2> QED BY <1>1, <1>2, <1>3, <1>8, <2>1 DEF Given
<1>9. Timely' BY <1>1, <1>3, <1>7, <1>8 DEF Timely, Given
<1> QED BY <1>1, <1>5, <1>9, RestDecided, ConstantsStay

-----------------------------------------------------------------------------
(* The theorems.                                                            *)
LEMMA AccessStarts == ASSUME AccessConstants, AccessInit PROVE AccessIInv
<1> USE DEF AccessIInv
<1>1. /\ site \in Sites /\ now = 0 /\ past = [k \in Kinds |-> <<>>] /\ cache = [k \in Kinds |-> Null]
      /\ req = [pc |-> "idle", meta |-> NoMeta, user |-> FALSE, why |-> Null, q |-> Null]
      /\ item = <<>> /\ seen = [login |-> FALSE, safe |-> FALSE, items |-> {}]
      /\ grants \in [permissions: Lists, roles: RoleLists]
  BY DEF AccessInit, Idle, Nothing
<1>2. site.timeout \in Nat /\ LoadTime \in Nat /\ MaxTime \in Nat BY <1>1, ConstantFacts
<1>3. Lists \subseteq SUBSET Names /\ RoleLists \subseteq SUBSET Names BY DEF AccessConstants
<1>4. grants \in [Kinds -> SUBSET Names]
  <2>1. PICK a \in Lists, b \in RoleLists : grants = [permissions |-> a, roles |-> b] BY <1>1
  <2>2. grants = [k \in Kinds |-> IF k = "permissions" THEN a ELSE b] BY <2>1 DEF Kinds
  <2> QED BY <1>3, <2>2
<1>5. item \in [DOMAIN item -> Items] /\ DOMAIN item = {} BY <1>1, NoItems
<1>6. past \in [Kinds -> Seq(Answers)]
  <2>1. <<>> \in Seq(Answers) OBVIOUS
  <2> QED BY <1>1, <2>1
<1>7. req \in [pc: {"idle", "login", "served", "refused"} \cup Checked, meta: {req.meta},
               user: BOOLEAN, why: Whys, q: Requests \cup {Null}]
  BY <1>1 DEF Whys
<1>8. Shaped BY <1>1, <1>2, <1>4, <1>5, <1>6, <1>7 DEF Shaped
<1>9. Timely BY <1>1, <1>5 DEF Timely
<1>10. Decided BY <1>1, <1>5 DEF Decided, Checked, Kinds
<1> QED BY <1>8, <1>9, <1>10

LEMMA AccessKept == ASSUME AccessIInv, [AccessNext]_accessVars PROVE AccessIInv'
<1>1. CASE UNCHANGED accessVars
  <2>1. UNCHANGED <<site, now, live, safe, grants, past, cache, req, item, seen>>
    BY <1>1 DEF accessVars, world
  <2>2. Rest BY <2>1 DEF Rest
  <2>3. Decided' BY <2>2, RestDecided DEF AccessIInv
  <2>4. Timely' BY <2>1 DEF AccessIInv, Timely, Given
  <2>5. Shaped' BY <2>1 DEF AccessIInv, Shaped
  <2> QED BY <2>3, <2>4, <2>5, ConstantsStay DEF AccessIInv
<1>2. CASE CheckLogin BY <1>2, CheckLoginKeeps
<1>3. CASE Conclude BY <1>3, ConcludeKeeps
<1>4. CASE CheckSafe BY <1>4, CheckSafeKeeps
<1>5. CASE CheckFails BY <1>5, FailsKeeps
<1>6. CASE SessionEnds \/ OpenSafe \/ SafeEnds BY <1>6, FlagsKeep
<1>7. CASE Tick BY <1>7, TickKeeps
<1>8. CASE \E q \in Requests : Arrive(q) BY <1>8, ArriveKeeps
<1>9. CASE \E x \in DOMAIN item : ReadCache(x) \/ Load(x) \/ StoreCache(x) BY <1>9, MoveKeeps
<1>10. Lists \subseteq SUBSET Names /\ RoleLists \subseteq SUBSET Names
  BY DEF AccessIInv, AccessConstants
<1>11. CASE \E list \in Lists : GrantsChange("permissions", list) BY <1>10, <1>11, GrantsKeep DEF Kinds
<1>12. CASE \E list \in RoleLists : GrantsChange("roles", list) BY <1>10, <1>12, GrantsKeep DEF Kinds
<1> QED BY <1>1, <1>2, <1>3, <1>4, <1>5, <1>6, <1>7, <1>8, <1>9, <1>11, <1>12 DEF AccessNext

(* A request that asks for nothing meets nothing that is demanded of it.    *)
LEMMA UnaskedDemandsNothing ==
  ASSUME NEW m, NEW D, Meets(m, D), ~AsksForLogin(m), NEW d \in D
  PROVE  /\ \A f \in Kinds \cup {"safeBusiness"} : d[f] = Null
         /\ ~(d.requireLogin = TRUE /\ \A e \in D : e.requireLogin # FALSE)
<1>1. m.requireLogin # TRUE /\ \A f \in {"permissions", "roles", "safeBusiness"} : m[f] = Null
  BY DEF AsksForLogin
<1> QED BY <1>1 DEF Meets, Kinds

LEMMA ServedMeets == ASSUME AccessIInv PROVE ServedMeetsPolicy
<1> USE DEF AccessIInv
<1> SUFFICES ASSUME req.pc = "served", Routed(req.q), \A d \in Matched \cup {site.route} : d.ignore # TRUE,
                    NEW d \in Demands
             PROVE  /\ (\/ site.defaultCheck
                        \/ d.requireLogin = TRUE /\ \A e \in Demands : e.requireLogin # FALSE
                        \/ \E f \in Kinds \cup {"safeBusiness"} : d[f] # Null) => seen.login
                    /\ \A f \in Kinds :
                         (site.perms /\ d[f] # Null /\ \A e \in Demands : e[f] # Null => e[f].mode = "AND")
                           => d[f].list \subseteq seen.items
                    /\ d.safeBusiness # Null => seen.safe
  BY DEF ServedMeetsPolicy
<1>1. /\ IsSite(site) /\ Null \notin BOOLEAN /\ Null \notin Asked
      /\ \A x \in Routes : IsSequence(x)
      /\ \A q \in Requests : IsSequence(q.path)
  BY ConstantFacts DEF Shaped
<1>2. req.q \in Requests /\ req.meta = MetaOf(req.q) BY DEF Decided
<1>3. Meets(req.meta, Demands) /\ req.meta.ignore # TRUE BY <1>1, <1>2, MetaMeets
<1>4. site.adapter # "loginGuard" BY DEF Demands
<1>5. CASE ~ShouldCheckLogin(req.meta)
  <2>1. ~site.defaultCheck /\ ~AsksForLogin(req.meta) BY <1>3, <1>4, <1>5 DEF ShouldCheckLogin
  <2>2. /\ \A f \in Kinds \cup {"safeBusiness"} : d[f] = Null
        /\ ~(d.requireLogin = TRUE /\ \A e \in Demands : e.requireLogin # FALSE)
    BY <1>3, <2>1, UnaskedDemandsNothing
  <2> QED BY <2>1, <2>2
<1>6. CASE seen.login /\ \A n \in 1 .. 3 : Met(n)
  <2>1. ASSUME NEW f \in Kinds, site.perms, d[f] # Null,
               \A e \in Demands : e[f] # Null => e[f].mode = "AND"
        PROVE  d[f].list \subseteq seen.items
    <3>1. req.meta[f] # Null /\ req.meta[f].mode = "AND" /\ d[f].list \subseteq req.meta[f].list
      BY <1>3, <2>1 DEF Meets
    <3>2. PICK n \in {1, 2} : Stages[n] = f BY StagesAre DEF Kinds
    <3>3. Needs(n) BY <1>4, <2>1, <3>1, <3>2 DEF Needs
    <3>4. Met(n) /\ n # 3 BY <1>6, <3>2
    <3> QED BY <3>1, <3>2, <3>3, <3>4 DEF Met
  <2>2. ASSUME d.safeBusiness # Null PROVE seen.safe
    <3>1. req.meta.safeBusiness # Null BY <1>3, <2>2 DEF Meets
    <3>2. Needs(3) BY <1>4, <3>1, StagesAre DEF Needs
    <3>3. Met(3) BY <1>6
    <3> QED BY <3>2, <3>3 DEF Met
  <2> QED BY <1>6, <2>1, <2>2
<1> QED BY <1>5, <1>6 DEF Decided

LEMMA AccessShown == ASSUME AccessIInv PROVE AccessInv
<1>1. AccessTypeOK
  <2>1. MaxTime \in Nat /\ now \in 0 .. MaxTime BY ConstantFacts DEF AccessIInv, Shaped
  <2>2. req.pc \in {"idle", "login", "permissions", "roles", "safeBusiness", "served", "refused"}
    BY DEF AccessIInv, Shaped, Checked
  <2>3. req.user => seen.login BY DEF AccessIInv, Decided
  <2>4. Status \in {401, 403, 500} BY DEF Status
  <2>5. \A k \in Kinds : cache[k] # Null => now < cache[k].end BY DEF AccessIInv, Timely
  <2>6. \A x \in DOMAIN item : item[x].pc \in {"cache", "load", "store", "yes", "no"}
    BY DEF AccessIInv, Shaped, Items
  <2> QED BY <2>1, <2>2, <2>3, <2>4, <2>5, <2>6 DEF AccessTypeOK
<1> QED BY <1>1, ServedMeets DEF AccessInv

(* Every request that is served has passed what its route and the policies  *)
(* that cover it demand, for every site, every policy and every spelling of *)
(* its path.                                                                *)
THEOREM PolicyHolds == AccessSpec => []AccessInv
<1> USE AccessAssumption
<1>1. AccessInit => AccessIInv BY AccessStarts
<1>2. AccessIInv /\ [AccessNext]_accessVars => AccessIInv' BY AccessKept
<1>3. AccessIInv => AccessInv BY AccessShown
<1> QED BY <1>1, <1>2, <1>3, PTL DEF AccessSpec

(* What a list decides: the list was given at most a timeout and a load ago. *)
Decides(x) ==
  (/\ x \in DOMAIN item' /\ item[x].pc \in {"cache", "load", "store"}
   /\ item'[x].pc \in {"yes", "no"})
    => \/ item'[x].list = grants[req.pc]
       \/ \E i \in 1 .. Len(past[req.pc]) :
            /\ past[req.pc][i].list = item'[x].list
            /\ past[req.pc][i].until + site.timeout + LoadTime > now

LEMMA NoAnswerNoDecision ==
  ASSUME NEW x \in DOMAIN item, x \in DOMAIN item' => item'[x].pc \in {"cache", "load"} \/ item'[x] = item[x]
  PROVE  Decides(x)
BY DEF Decides

LEMMA GoOnDecidesNothing ==
  ASSUME NEW n \in 0 .. 3, NEW user, GoOn(n, user), NEW x
  PROVE  x \in DOMAIN item' => item'[x].pc \in {"cache", "load"}
<1>1. CASE Serve BY <1>1 DEF Serve
<1>2. CASE \E k \in n + 1 .. 3 : GoesTo(k, user)
  <2>1. PICK k \in n + 1 .. 3 : GoesTo(k, user) BY <1>2
  <2> QED BY <2>1 DEF GoesTo, Refuse
<1> QED BY <1>1, <1>2, GoOnIs

LEMMA GivenIsRecent ==
  ASSUME AccessIInv, NEW l, NEW t \in Int, req.pc \in Kinds, Given(req.pc, l, t),
         t + site.timeout + LoadTime > now
  PROVE  \/ l = grants[req.pc]
         \/ \E i \in 1 .. Len(past[req.pc]) :
              past[req.pc][i].list = l /\ past[req.pc][i].until + site.timeout + LoadTime > now
<1>1. site.timeout \in Nat /\ LoadTime \in Nat /\ MaxTime \in Nat /\ now \in 0 .. MaxTime
  BY ConstantFacts DEF AccessIInv, Shaped
<1>2. past[req.pc] \in Seq(Answers) BY DEF AccessIInv, Shaped
<1>3. \A a \in Answers : a.until \in Nat BY DEF Answers
<1>4. \A i \in 1 .. Len(past[req.pc]) : past[req.pc][i].until \in Nat BY <1>2, <1>3
<1>5. \A u \in Nat : u >= t => u + site.timeout + LoadTime > now BY <1>1
<1> QED BY <1>4, <1>5 DEF Given

LEMMA AnswersDecide == ASSUME AccessIInv, NEW x \in DOMAIN item, [AccessNext]_accessVars PROVE Decides(x)
<1> USE DEF AccessIInv
<1>1. ASSUME Rest \/ UNCHANGED accessVars PROVE Decides(x)
  <2>1. item' = item BY <1>1 DEF Rest, accessVars
  <2> QED BY <2>1, NoAnswerNoDecision
<1>2. ASSUME NEW why, Refuse(why) PROVE Decides(x) BY <1>2 DEF Refuse, Decides
<1>3. ASSUME NEW n \in 0 .. 3, NEW user, GoOn(n, user) PROVE Decides(x)
  BY <1>3, GoOnDecidesNothing, NoAnswerNoDecision
<1>4. CASE CheckLogin
  <2>1. 0 \in 0 .. 3 OBVIOUS
  <2> QED BY <1>2, <1>3, <1>4, <2>1 DEF CheckLogin
<1>5. CASE Conclude
  <2>1. Stage \in 0 .. 3 BY DEF Stage
  <2> QED BY <1>2, <1>3, <1>5, <2>1 DEF Conclude
<1>6. CASE CheckSafe
  <2>1. 3 \in 0 .. 3 OBVIOUS
  <2> QED BY <1>2, <1>3, <1>6, <2>1 DEF CheckSafe
<1>7. CASE CheckFails BY <1>2, <1>7 DEF CheckFails
<1>8. CASE SessionEnds \/ OpenSafe \/ SafeEnds \/ Tick
  BY <1>1, <1>8 DEF SessionEnds, OpenSafe, SafeEnds, Tick
<1>9. CASE \E k, list : GrantsChange(k, list) BY <1>1, <1>9 DEF GrantsChange
<1>10. CASE \E q \in Requests : Arrive(q) BY <1>10 DEF Arrive, Decides
<1>11. ASSUME NEW y \in DOMAIN item, ReadCache(y) \/ Load(y) \/ StoreCache(y) PROVE Decides(x)
  <2>1. /\ req.pc \in Kinds /\ site.timeout \in Nat /\ LoadTime \in Nat /\ now \in Nat
        /\ grants[req.pc] \in SUBSET Names /\ item[y] \in Items /\ item \in [DOMAIN item -> Items]
    <3>1. req.pc \in Kinds BY <1>11 DEF ReadCache, Load, StoreCache, Checking, Kinds
    <3>2. site.timeout \in Nat /\ LoadTime \in Nat /\ MaxTime \in Nat BY ConstantFacts DEF Shaped
    <3> QED BY <3>1, <3>2 DEF Shaped
  <2>2. ASSUME NEW i, item' = [item EXCEPT ![y] = i], x # y PROVE Decides(x)
    <3>1. item'[x] = item[x] BY <2>2
    <3> QED BY <3>1, NoAnswerNoDecision
  <2>3. ASSUME NEW i, item' = [item EXCEPT ![y] = i], i.pc \notin {"yes", "no"} PROVE Decides(x)
    <3>1. CASE x = y
      <4>1. item'[x] = i BY <2>1, <2>3, <3>1
      <4> QED BY <2>3, <4>1 DEF Decides
    <3> QED BY <2>2, <2>3, <3>1
  <2>4. ASSUME NEW l \in SUBSET Names, NEW t \in Int, Settle(y, l), Given(req.pc, l, t),
               t + site.timeout + LoadTime > now
        PROVE  Decides(x)
    <3>1. PICK i \in Items : item' = [item EXCEPT ![y] = i] /\ i.list = l BY <2>1, <2>4, AnswerIs
    <3>2. CASE x = y
      <4>1. item'[x].list = l BY <2>1, <3>1, <3>2
      <4> QED BY <2>1, <2>4, <4>1, GivenIsRecent DEF Decides
    <3> QED BY <2>2, <3>1, <3>2
  <2>5. CASE ReadCache(y)
    <3>1. CASE cache[req.pc] # Null /\ Settle(y, cache[req.pc].list)
      <4>1. cache[req.pc] \in Entries BY <2>1, <3>1 DEF Shaped
      <4>2. /\ cache[req.pc].list \in SUBSET Names /\ cache[req.pc].end \in Nat /\ now < cache[req.pc].end
            /\ Given(req.pc, cache[req.pc].list, cache[req.pc].end - (site.timeout + LoadTime))
        BY <2>1, <3>1, <4>1 DEF Entries, Timely
      <4> DEFINE t == cache[req.pc].end - (site.timeout + LoadTime)
      <4>3. t \in Int /\ t + site.timeout + LoadTime > now BY <2>1, <4>2
      <4>4. Given(req.pc, cache[req.pc].list, t) BY <4>2
      <4> HIDE DEF t
      <4> QED BY <2>4, <3>1, <4>2, <4>3, <4>4
    <3>2. CASE item' = [item EXCEPT ![y].pc = "load"]
      <4>1. item' = [item EXCEPT ![y] = [item[y] EXCEPT !.pc = "load"]] BY <3>2
      <4>2. [item[y] EXCEPT !.pc = "load"].pc \notin {"yes", "no"} BY <2>1 DEF Items
      <4> QED BY <2>3, <4>1, <4>2
    <3> QED BY <2>5, <3>1, <3>2 DEF ReadCache
  <2>6. CASE Load(y)
    <3>1. CASE Settle(y, grants[req.pc])
      <4>1. Given(req.pc, grants[req.pc], now + 1) BY DEF Given
      <4>2. now + 1 \in Int /\ now + 1 + site.timeout + LoadTime > now BY <2>1
      <4> QED BY <2>1, <2>4, <3>1, <4>1, <4>2
    <3>2. CASE item' = [item EXCEPT ![y] = [pc |-> "store", list |-> grants[req.pc], since |-> now]]
      BY <2>3, <3>2
    <3> QED BY <2>6, <3>1, <3>2 DEF Load
  <2>7. CASE StoreCache(y)
    <3>1. item[y].pc = "store" /\ Settle(y, item[y].list) BY <2>7 DEF StoreCache, Checking
    <3>2. /\ item[y].list \in SUBSET Names /\ item[y].since \in Nat
          /\ site.timeout > 0 /\ now <= item[y].since + LoadTime
          /\ Given(req.pc, item[y].list, item[y].since)
      BY <2>1, <3>1 DEF Timely, Items
    <3>3. item[y].since \in Int /\ item[y].since + site.timeout + LoadTime > now BY <2>1, <3>2
    <3> QED BY <2>4, <3>1, <3>2, <3>3
  <2> QED BY <1>11, <2>5, <2>6, <2>7
<1> QED BY <1>1, <1>4, <1>5, <1>6, <1>7, <1>8, <1>9, <1>10, <1>11 DEF AccessNext

(* A cached list of permissions or roles never decides a check later than   *)
(* the timeout and one load after StpInterface last gave it.                *)
THEOREM ListsAreRecent == AccessSpec => ListIsRecent
<1> USE AccessAssumption
<1>1. AccessInit => AccessIInv BY AccessStarts
<1>2. AccessIInv /\ [AccessNext]_accessVars => AccessIInv' BY AccessKept
<1>3. AccessIInv /\ [AccessNext]_accessVars =>
        [\A x \in DOMAIN item : Decides(x)]_accessVars
  BY AnswersDecide
<1>4. AccessSpec => [][\A x \in DOMAIN item : Decides(x)]_accessVars
  BY <1>1, <1>2, <1>3, PTL DEF AccessSpec
<1> QED BY <1>4 DEF ListIsRecent, Decides

-----------------------------------------------------------------------------
(* HTTP contexts: a request's way through the layers of an application, for *)
(* every application and message.                                           *)
Pcs == {"boot", "down", "idle", "layer", "resolve", "sync", "raised", "handler", "answered"}

Underway == {"layer", "resolve", "sync", "raised", "handler", "answered"}

ChainShaped ==
  /\ app \in Apps
  /\ entry \in [DOMAIN Holder -> {"live", "unborn"} \cup Reasons]
  /\ jar # Null => jar \in DOMAIN Holder
  /\ r \in [pc: Pcs, q: {r.q}, layer: Nat, ignore: BOOLEAN, token: {r.token}, state: {r.state}, stp: {r.stp},
            session: {r.session}, why: {Null, "ERROR"} \cup Reasons, reply: {r.reply}]
  /\ r.pc \in Underway =>
       /\ r.layer \in 1 .. Len(app.layers)
       /\ \A f \in {"header", "cookie", "query"} : IsSequence(r.q[f])
  /\ r.pc \in {"boot", "down", "idle"} => r.layer = 0

(* The cookies a Fastify application reads have a parser. *)
Parsed ==
  (r.pc \notin {"boot", "down"} /\ app.adapter = "fastify" /\ ~app.cookies) =>
     \A i \in 1 .. Len(app.layers) : "cookie" \notin app.layers[i].reads

(* What is on the request is what the last layer that checked has found,    *)
(* of the first n.                                                          *)
Left(n, stp, known, q) ==
  IF \A i \in 1 .. n : ~Checks(i) THEN stp = Null /\ known = Null
  ELSE \E i \in 1 .. n :
         /\ Checks(i) /\ \A j \in 1 .. n : Checks(j) => j <= i
         /\ stp.token = GetTokenValue(app.adapter, app.layers[i].reads, q)
         /\ stp.loginId = Holder[stp.token]
         /\ known \in {Null, stp.loginId}

LeftBy(n) == Left(n, r.stp, r.session, r.q)

(* Only Fastify puts the session on the request. *)
SessionsKnown == app.adapter # "fastify" => r.session = Null

(* Express goes on ignoring once a layer said so. *)
Ignoring(n, ignore) == app.adapter = "express" => (ignore <=> \E j \in 1 .. n : app.layers[j].ignore)

OnItsWay ==
  /\ r.pc = "layer" => LeftBy(r.layer - 1) /\ Ignoring(r.layer - 1, r.ignore)
  /\ r.pc \in {"resolve", "sync"} =>
       /\ LeftBy(r.layer - 1) /\ Ignoring(r.layer - 1, r.ignore) /\ Checks(r.layer)
       /\ r.token = GetTokenValue(app.adapter, app.layers[r.layer].reads, r.q)
  /\ r.pc = "sync" => r.state = [loginId |-> Holder[r.token], token |-> r.token]
  /\ r.pc = "handler" => LeftBy(Len(app.layers))

Told ==
  /\ r.pc = "raised" => r.why # Null
  /\ r.pc \notin {"raised", "answered"} => r.why = Null
  /\ r.pc = "answered" /\ r.why # Null => r.reply = Reply(r.why)

ChainIInv == ChainConstants /\ ChainShaped /\ Parsed /\ SessionsKnown /\ OnItsWay /\ Told

LEMMA AppIs ==
  ASSUME ChainConstants, app \in Apps
  PROVE  /\ Len(app.layers) \in Nat \ {0} /\ DOMAIN app.layers = 1 .. Len(app.layers)
         /\ \A i \in 1 .. Len(app.layers) : app.layers[i].ignore \in BOOLEAN
<1>1. IsSequence(app.layers) /\ app.layers # <<>> /\ \A i \in DOMAIN app.layers : app.layers[i].ignore \in BOOLEAN
  BY DEF ChainConstants
<1> DEFINE S == {app.layers[i] : i \in DOMAIN app.layers}
<1>2. app.layers \in Seq(S) BY <1>1 DEF IsSequence
<1> HIDE DEF S
<1>3. Len(app.layers) \in Nat /\ DOMAIN app.layers = 1 .. Len(app.layers) /\ Len(app.layers) # 0
  BY <1>1, <1>2, EmptySeq
<1> QED BY <1>1, <1>3

(* What a step leaves as it was. *)
LEMMA ChainStays ==
  ASSUME UNCHANGED app
  PROVE  /\ \A a, s, q : GetTokenValue(a, s, q)' = GetTokenValue(a, s, q)
         /\ \A i : Checks(i)' = Checks(i)
         /\ \A w : Reply(w)' = Reply(w)
         /\ ChainConstants => ChainConstants'
BY DEF GetTokenValue, HeaderGet, CookieGet, QueryGet, Checks, Reply, ChainConstants

LEMMA LeftNext == ASSUME UNCHANGED app, NEW n, Left(n, r'.stp, r'.session, r'.q) PROVE LeftBy(n)'
BY ChainStays DEF Left, LeftBy

(* A layer more: it checked, or it did not. *)
LEMMA LeftOn ==
  ASSUME NEW n \in Nat \ {0}, NEW s, NEW t, NEW q,
         \/ ~Checks(n) /\ Left(n - 1, s, t, q)
         \/ /\ Checks(n) /\ s.token = GetTokenValue(app.adapter, app.layers[n].reads, q)
            /\ s.loginId = Holder[s.token] /\ t \in {Null, s.loginId}
  PROVE  Left(n, s, t, q)
<1>1. \A i \in 1 .. n : i \in 1 .. n - 1 \/ i = n OBVIOUS
<1>2. n \in 1 .. n /\ \A i \in 1 .. n : i <= n OBVIOUS
<1>3. CASE Checks(n) BY <1>2, <1>3 DEF Left
<1>4. CASE ~Checks(n)
  <2>1. Left(n - 1, s, t, q) BY <1>4
  <2>2. \A i \in 1 .. n - 1 : i \in 1 .. n OBVIOUS
  <2>3. CASE \A i \in 1 .. n - 1 : ~Checks(i) BY <1>1, <1>4, <2>1, <2>3 DEF Left
  <2>4. CASE ~\A i \in 1 .. n - 1 : ~Checks(i)
    <3>1. PICK i \in 1 .. n - 1 :
            /\ Checks(i) /\ \A j \in 1 .. n - 1 : Checks(j) => j <= i
            /\ s.token = GetTokenValue(app.adapter, app.layers[i].reads, q)
            /\ s.loginId = Holder[s.token] /\ t \in {Null, s.loginId}
      BY <2>1, <2>4 DEF Left
    <3>2. i \in 1 .. n /\ \A j \in 1 .. n : Checks(j) => j <= i BY <1>1, <1>4, <2>2, <3>1
    <3> QED BY <3>1, <3>2 DEF Left
  <2> QED BY <2>3, <2>4
<1> QED BY <1>3, <1>4

LEMMA PassedKeeps ==
  ASSUME ChainIInv, r.pc \in {"layer", "sync"}, UNCHANGED <<app, entry, jar>>,
         NEW ignore \in BOOLEAN, NEW stp, NEW known,
         r' = PastLayer([r EXCEPT !.ignore = ignore, !.stp = stp, !.session = known]),
         Left(r.layer, stp, known, r.q), Ignoring(r.layer, ignore),
         app.adapter # "fastify" => known = Null
  PROVE  ChainIInv'
<1> USE DEF ChainIInv
<1> DEFINE q == [r EXCEPT !.ignore = ignore, !.stp = stp, !.session = known]
<1>1. /\ Len(app.layers) \in Nat \ {0} /\ r.layer \in 1 .. Len(app.layers) /\ r.why = Null
      /\ \A f \in {"header", "cookie", "query"} : IsSequence(r.q[f])
  BY AppIs DEF ChainShaped, Underway, Told
<1>2. /\ q.layer = r.layer /\ q.ignore = ignore /\ q.stp = stp /\ q.session = known /\ q.q = r.q
      /\ q.why = Null
      /\ q \in [pc: Pcs, q: {r.q}, layer: Nat, ignore: BOOLEAN, token: {r.token}, state: {r.state},
                stp: {stp}, session: {known}, why: {Null, "ERROR"} \cup Reasons, reply: {r.reply}]
  BY <1>1 DEF ChainShaped
<1> HIDE DEF q
<1>3. r' = IF q.layer = Len(app.layers) THEN [q EXCEPT !.pc = "handler"]
           ELSE [q EXCEPT !.pc = "layer", !.layer = q.layer + 1]
  BY DEF PastLayer, q
<1>4. /\ r'.pc = IF r.layer = Len(app.layers) THEN "handler" ELSE "layer"
      /\ r'.layer = IF r.layer = Len(app.layers) THEN r.layer ELSE r.layer + 1
      /\ r'.ignore = ignore /\ r'.stp = stp /\ r'.session = known /\ r'.q = r.q /\ r'.why = Null
      /\ r' \in [pc: Pcs, q: {r'.q}, layer: Nat, ignore: BOOLEAN, token: {r'.token}, state: {r'.state},
                 stp: {r'.stp}, session: {r'.session}, why: {Null, "ERROR"} \cup Reasons, reply: {r'.reply}]
  <2>1. CASE r.layer = Len(app.layers)
    <3>1. r' = [q EXCEPT !.pc = "handler"] BY <1>2, <1>3, <2>1
    <3> QED BY <1>1, <1>2, <2>1, <3>1 DEF Pcs
  <2>2. CASE r.layer # Len(app.layers)
    <3>1. r' = [q EXCEPT !.pc = "layer", !.layer = r.layer + 1] BY <1>2, <1>3, <2>2
    <3>2. r.layer + 1 \in Nat BY <1>1
    <3> QED BY <1>1, <1>2, <2>2, <3>1, <3>2 DEF Pcs
  <2> QED BY <2>1, <2>2
<1>5. r'.pc \in Underway => r'.layer \in 1 .. Len(app.layers) BY <1>1, <1>4
<1>6. ChainShaped'
  <2>1. r'.pc \notin {"boot", "down", "idle"} BY <1>4
  <2> QED BY <1>1, <1>4, <1>5, <2>1 DEF ChainShaped, IsSequence
<1>7. Parsed' BY <1>4 DEF Parsed
<1>8. OnItsWay'
  <2>1. CASE r.layer = Len(app.layers)
    <3>1. r'.pc = "handler" /\ LeftBy(Len(app.layers))'
      <4>1. Left(Len(app.layers), r'.stp, r'.session, r'.q) BY <1>4, <2>1
      <4> QED BY <1>4, <2>1, <4>1, LeftNext
    <3> QED BY <3>1 DEF OnItsWay
  <2>2. CASE r.layer # Len(app.layers)
    <3>1. r'.pc = "layer" /\ r'.layer - 1 = r.layer BY <1>1, <1>4, <2>2
    <3>2. LeftBy(r.layer - 1)'
      <4>1. Left(r'.layer - 1, r'.stp, r'.session, r'.q) BY <1>4, <3>1
      <4> QED BY <4>1, LeftNext
    <3>3. Ignoring(r.layer - 1, r.ignore)' BY <1>4, <3>1 DEF Ignoring
    <3> QED BY <3>1, <3>2, <3>3 DEF OnItsWay
  <2> QED BY <2>1, <2>2
<1>9. Told' /\ SessionsKnown' BY <1>4 DEF Told, SessionsKnown
<1> QED BY <1>6, <1>7, <1>8, <1>9, ChainStays

(* A step within a layer, or behind the handler. *)
LEMMA ChainMoves ==
  ASSUME ChainIInv, r.pc \in Underway, app' = app,
         entry' \in [DOMAIN Holder -> {"live", "unborn"} \cup Reasons], jar' # Null => jar' \in DOMAIN Holder,
         NEW pc \in {"resolve", "sync", "raised", "answered"}, NEW token, NEW state, NEW reply,
         NEW why \in {Null, "ERROR"} \cup Reasons,
         r' = [r EXCEPT !.pc = pc, !.token = token, !.state = state, !.why = why, !.reply = reply],
         pc \in {"resolve", "sync"} =>
           /\ LeftBy(r.layer - 1) /\ Ignoring(r.layer - 1, r.ignore) /\ Checks(r.layer)
           /\ token = GetTokenValue(app.adapter, app.layers[r.layer].reads, r.q),
         pc = "sync" => state = [loginId |-> Holder[token], token |-> token],
         pc = "raised" => why # Null,
         pc \in {"resolve", "sync"} => why = Null,
         pc = "answered" /\ why # Null => reply = Reply(why)
  PROVE  ChainIInv'
<1> USE DEF ChainIInv
<1>1. r.layer \in 1 .. Len(app.layers) /\ \A f \in {"header", "cookie", "query"} : IsSequence(r.q[f])
  BY DEF ChainShaped
<1>2. /\ r'.pc = pc /\ r'.token = token /\ r'.state = state /\ r'.why = why /\ r'.reply = reply
      /\ r'.layer = r.layer /\ r'.ignore = r.ignore /\ r'.stp = r.stp /\ r'.session = r.session /\ r'.q = r.q
      /\ r' \in [pc: Pcs, q: {r'.q}, layer: Nat, ignore: BOOLEAN, token: {r'.token}, state: {r'.state},
                 stp: {r'.stp}, session: {r'.session}, why: {Null, "ERROR"} \cup Reasons, reply: {r'.reply}]
  BY DEF ChainShaped, Pcs
<1>3. ChainShaped'
  <2>1. r'.pc \notin {"boot", "down", "idle"} BY <1>2
  <2> QED BY <1>1, <1>2, <2>1 DEF ChainShaped, IsSequence
<1>4. Parsed'
  <2>1. r.pc \notin {"boot", "down"} BY DEF Underway
  <2> QED BY <1>2, <2>1 DEF Parsed
<1>5. OnItsWay'
  <2>1. pc \in {"resolve", "sync"} => LeftBy(r.layer - 1)'
    <3>1. LeftBy(r.layer - 1) => Left(r'.layer - 1, r'.stp, r'.session, r'.q) BY <1>2 DEF LeftBy
    <3> QED BY <3>1, LeftNext
  <2>2. pc \in {"resolve", "sync"} => Ignoring(r.layer - 1, r.ignore)' BY <1>2 DEF Ignoring
  <2>3. pc \in {"resolve", "sync"} =>
          Checks(r.layer)' /\ r'.token = GetTokenValue(app.adapter, app.layers[r.layer].reads, r.q)'
    <3>1. Checks(r.layer)' <=> Checks(r.layer) BY <1>2, ChainStays DEF Checks
    <3>2. GetTokenValue(app.adapter, app.layers[r.layer].reads, r.q)'
            = GetTokenValue(app.adapter, app.layers[r.layer].reads, r.q)
      BY <1>2 DEF GetTokenValue, HeaderGet, CookieGet, QueryGet
    <3> QED BY <1>2, <3>1, <3>2
  <2>4. pc = "sync" => r'.state = [loginId |-> Holder[r'.token], token |-> r'.token] BY <1>2
  <2>5. r'.pc \notin {"layer", "handler"} BY <1>2
  <2> QED BY <1>2, <2>1, <2>2, <2>3, <2>4, <2>5 DEF OnItsWay
<1>6. Told'
  <2>1. Reply(why)' = Reply(why) BY ChainStays
  <2> QED BY <1>2, <2>1 DEF Told, Reply
<1>7. SessionsKnown' BY <1>2 DEF SessionsKnown
<1> QED BY <1>3, <1>4, <1>5, <1>6, <1>7, ChainStays

LEMMA EmptyIsSequence == IsSequence(<<>>) /\ \A x : IsSequence(<<x>>)
<1>1. \A S : <<>> \in Seq(S) OBVIOUS
<1>2. ASSUME NEW x PROVE <<x>> \in Seq({<<x>>[i] : i \in DOMAIN <<x>>})
  <2>1. DOMAIN <<x>> = {1} /\ <<x>>[1] = x OBVIOUS
  <2>2. {<<x>>[i] : i \in DOMAIN <<x>>} = {x} BY <2>1
  <2> QED BY <2>2
<1> QED BY <1>1, <1>2 DEF IsSequence

LEMMA BootKeeps == ASSUME ChainIInv, Boot PROVE ChainIInv'
<1> USE DEF ChainIInv
<1> DEFINE bad == /\ app.adapter = "fastify" /\ ~app.cookies
                  /\ \E i \in 1 .. Len(app.layers) : "cookie" \in app.layers[i].reads
           pc == IF bad THEN "down" ELSE "idle"
<1>1. r.pc = "boot" /\ r' = [r EXCEPT !.pc = pc] /\ UNCHANGED <<app, entry, jar>> BY DEF Boot, Still
<1>2. pc \in {"down", "idle"} /\ (pc = "idle" => ~bad) OBVIOUS
<1> HIDE DEF pc
<1>3. /\ r'.pc = pc /\ r'.layer = 0 /\ r'.why = Null
      /\ r' \in [pc: Pcs, q: {r'.q}, layer: Nat, ignore: BOOLEAN, token: {r'.token}, state: {r'.state},
                 stp: {r'.stp}, session: {r'.session}, why: {Null, "ERROR"} \cup Reasons, reply: {r'.reply}]
  BY <1>1, <1>2 DEF ChainShaped, Pcs, Told
<1>4. ChainShaped' BY <1>1, <1>2, <1>3 DEF ChainShaped, Underway
<1>5. Parsed' BY <1>1, <1>2, <1>3 DEF Parsed
<1>6. OnItsWay' /\ Told' BY <1>2, <1>3 DEF OnItsWay, Told
<1>7. SessionsKnown'
  <2>1. r'.session = r.session BY <1>1 DEF ChainShaped
  <2> QED BY <1>1, <2>1 DEF SessionsKnown
<1> QED BY <1>1, <1>4, <1>5, <1>6, <1>7, ChainStays

LEMMA ArrivesWell == ASSUME ChainIInv, NEW m \in Messages, Receive(m) PROVE ChainIInv'
<1> USE DEF ChainIInv
<1> DEFINE cookie == IF jar = Null THEN <<>> ELSE <<jar>>
           q == [header |-> m.header, query |-> m.query, cookie |-> cookie]
<1>1. /\ r.pc \in {"idle", "answered"} /\ UNCHANGED <<app, entry, jar>>
      /\ r' = [pc |-> "layer", q |-> q, layer |-> 1, ignore |-> FALSE, token |-> Null, state |-> Null,
               stp |-> Null, session |-> Null, why |-> Null, reply |-> Null]
  BY DEF Receive, NoRequest, Still
<1>2. IsSequence(cookie) BY EmptyIsSequence
<1>3. \A f \in {"header", "cookie", "query"} : IsSequence(q[f])
  <2>1. IsSequence(m.header) /\ IsSequence(m.query) BY DEF ChainConstants
  <2> QED BY <1>2, <2>1
<1> HIDE DEF q
<1>4. /\ r'.pc = "layer" /\ r'.layer = 1 /\ r'.q = q /\ r'.ignore = FALSE /\ r'.stp = Null /\ r'.session = Null
      /\ r'.why = Null
      /\ r' \in [pc: Pcs, q: {r'.q}, layer: Nat, ignore: BOOLEAN, token: {r'.token}, state: {r'.state},
                 stp: {r'.stp}, session: {r'.session}, why: {Null, "ERROR"} \cup Reasons, reply: {r'.reply}]
  BY <1>1 DEF Pcs
<1>5. 1 \in 1 .. Len(app.layers) BY AppIs DEF ChainShaped
<1>6. ChainShaped' BY <1>1, <1>3, <1>4, <1>5 DEF ChainShaped, IsSequence
<1>7. Parsed' BY <1>1, <1>4 DEF Parsed
<1>8. OnItsWay'
  <2>1. \A i \in 1 .. 0 : FALSE OBVIOUS
  <2>2. Left(0, r'.stp, r'.session, r'.q) BY <1>4, <2>1 DEF Left
  <2>3. r'.layer - 1 = 0 BY <1>4
  <2>4. LeftBy(r.layer - 1)' BY <1>1, <2>2, <2>3, LeftNext
  <2>5. Ignoring(r.layer - 1, r.ignore)' BY <1>4, <2>1, <2>3 DEF Ignoring
  <2> QED BY <1>4, <2>4, <2>5 DEF OnItsWay
<1>9. Told' /\ SessionsKnown' BY <1>4 DEF Told, SessionsKnown
<1> QED BY <1>1, <1>6, <1>7, <1>8, <1>9, ChainStays

LEMMA EnterKeeps == ASSUME ChainIInv, EnterLayer PROVE ChainIInv'
<1> USE DEF ChainIInv
<1> DEFINE n == r.layer
           here == app.layers[r.layer]
           ignore == here.ignore \/ (app.adapter = "express" /\ r.ignore)
           token == GetTokenValue(app.adapter, here.reads, r.q)
<1>1. /\ r.pc = "layer" /\ UNCHANGED <<app, entry, jar>>
      /\ r' = IF ignore THEN PastLayer([r EXCEPT !.ignore = ignore])
              ELSE [r EXCEPT !.pc = "resolve", !.token = token]
  BY DEF EnterLayer, Still
<1>2. n \in 1 .. Len(app.layers) /\ Len(app.layers) \in Nat /\ n \in Nat \ {0} /\ n \in 1 .. n
      /\ LeftBy(n - 1) /\ Ignoring(n - 1, r.ignore) /\ r.why = Null /\ r.pc \in Underway
      /\ \A i \in 1 .. n : i \in 1 .. n - 1 \/ i = n
  BY <1>1, AppIs DEF ChainShaped, OnItsWay, Told, Underway
<1>3. Checks(n) <=> ~ignore
  <2>1. Checks(n) <=> (~here.ignore /\ (app.adapter = "express" => \A j \in 1 .. n : ~app.layers[j].ignore))
    BY DEF Checks
  <2>2. app.adapter = "express" => (r.ignore <=> \E j \in 1 .. n - 1 : app.layers[j].ignore)
    BY <1>2 DEF Ignoring
  <2>3. (\A j \in 1 .. n : ~app.layers[j].ignore)
          <=> ~here.ignore /\ ~\E j \in 1 .. n - 1 : app.layers[j].ignore
    <3>1. \A j \in 1 .. n - 1 : j \in 1 .. n BY <1>2
    <3> HIDE DEF n
    <3>2. here = app.layers[n] BY DEF n
    <3> QED BY <1>2, <3>1, <3>2
  <2> HIDE DEF n, here
  <2> QED BY <2>1, <2>2, <2>3
<1>4. Ignoring(n, ignore)
  <2>1. app.adapter = "express" => (r.ignore <=> \E j \in 1 .. n - 1 : app.layers[j].ignore)
    BY <1>2 DEF Ignoring
  <2>2. (\E j \in 1 .. n : app.layers[j].ignore) <=> here.ignore \/ \E j \in 1 .. n - 1 : app.layers[j].ignore
    <3>1. \A j \in 1 .. n - 1 : j \in 1 .. n BY <1>2
    <3>2. here = app.layers[n] OBVIOUS
    <3> HIDE DEF n, here
    <3> QED BY <1>2, <3>1, <3>2
  <2> HIDE DEF n, here
  <2> QED BY <2>1, <2>2 DEF Ignoring
<1>5. CASE ignore
  <2>1. [r EXCEPT !.ignore = ignore] = [r EXCEPT !.ignore = TRUE, !.stp = r.stp, !.session = r.session]
    <3>1. ignore = TRUE BY <1>5
    <3> HIDE DEF ignore
    <3> QED BY <3>1 DEF ChainShaped
  <2>2. r' = PastLayer([r EXCEPT !.ignore = TRUE, !.stp = r.stp, !.session = r.session]) BY <1>1, <1>5, <2>1
  <2>3. ~Checks(n) BY <1>3, <1>5
  <2>4. Left(n, r.stp, r.session, r.q)
    <3> HIDE DEF n
    <3> QED BY <1>2, <2>3, LeftOn DEF LeftBy
  <2>5. Ignoring(n, TRUE) BY <1>4, <1>5 DEF Ignoring
  <2>6. r.pc \in {"layer", "sync"} /\ (app.adapter # "fastify" => r.session = Null) BY <1>1 DEF SessionsKnown
  <2>7. TRUE \in BOOLEAN OBVIOUS
  <2> HIDE DEF n, here, ignore
  <2> QED BY <1>1, <2>2, <2>4, <2>5, <2>6, <2>7, PassedKeeps DEF n
<1>6. CASE ~ignore
  <2>1. r' = [r EXCEPT !.pc = "resolve", !.token = token] BY <1>1, <1>6
  <2> HIDE DEF token
  <2>2. r' = [r EXCEPT !.pc = "resolve", !.token = token, !.state = r.state, !.why = r.why, !.reply = r.reply]
    BY <2>1 DEF ChainShaped
  <2>3. Checks(n) /\ token = GetTokenValue(app.adapter, app.layers[n].reads, r.q) BY <1>3, <1>6 DEF token
  <2>4. entry' \in [DOMAIN Holder -> {"live", "unborn"} \cup Reasons] /\ (jar' # Null => jar' \in DOMAIN Holder)
    BY <1>1 DEF ChainShaped
  <2>5. /\ LeftBy(r.layer - 1) /\ Ignoring(r.layer - 1, r.ignore) /\ Checks(r.layer)
        /\ token = GetTokenValue(app.adapter, app.layers[r.layer].reads, r.q)
    BY <1>2, <2>3
  <2>6. r.why = Null /\ r.why \in {Null, "ERROR"} \cup Reasons /\ r.pc \in Underway /\ app' = app BY <1>1, <1>2
  <2>7. r' = [r EXCEPT !.pc = "resolve", !.token = token, !.state = r.state, !.why = Null, !.reply = r.reply]
    BY <2>2, <2>6
  <2> HIDE DEF n, here, ignore
  <2> QED BY <2>4, <2>5, <2>6, <2>7, ChainMoves
<1> QED BY <1>5, <1>6

LEMMA FindsReason == ASSUME ChainIInv, NEW t, Finds(t) # "live" PROVE Finds(t) \in Reasons
BY DEF Finds, Reasons, ChainIInv, ChainShaped

LEMMA FindsHolder == ASSUME NEW t, Finds(t) = "live" PROVE t \in DOMAIN Holder /\ entry[t] = "live"
BY DEF Finds

LEMMA NullIsNoReason == ASSUME ChainConstants PROVE Null \notin Reasons /\ Null # "ERROR"
BY DEF ChainConstants

LEMMA ResolveKeeps == ASSUME ChainIInv, CheckLayer \/ EngineFails PROVE ChainIInv'
<1> USE DEF ChainIInv
<1>1. /\ r.pc = "resolve" /\ r.pc \in Underway /\ UNCHANGED <<app, entry, jar>>
      /\ LeftBy(r.layer - 1) /\ Ignoring(r.layer - 1, r.ignore) /\ Checks(r.layer) /\ r.why = Null
      /\ r.token = GetTokenValue(app.adapter, app.layers[r.layer].reads, r.q)
      /\ entry' \in [DOMAIN Holder -> {"live", "unborn"} \cup Reasons] /\ (jar' # Null => jar' \in DOMAIN Holder)
  BY DEF CheckLayer, EngineFails, Still, OnItsWay, Told, ChainShaped, Underway
<1> DEFINE state == [loginId |-> Holder[r.token], token |-> r.token]
<1>2. CASE r' = [r EXCEPT !.pc = "sync", !.state = state]
  <2>1. state = [loginId |-> Holder[r.token], token |-> r.token] OBVIOUS
  <2> HIDE DEF state
  <2>2. r' = [r EXCEPT !.pc = "sync", !.token = r.token, !.state = state, !.why = Null, !.reply = r.reply]
    BY <1>1, <1>2 DEF ChainShaped
  <2> QED BY <1>1, <2>1, <2>2, ChainMoves
<1>3. ASSUME NEW why \in {"ERROR"} \cup Reasons, r' = [r EXCEPT !.pc = "raised", !.why = why]
      PROVE  ChainIInv'
  <2>1. r' = [r EXCEPT !.pc = "raised", !.token = r.token, !.state = r.state, !.why = why, !.reply = r.reply]
    BY <1>3 DEF ChainShaped
  <2>2. why # Null /\ why \in {Null, "ERROR"} \cup Reasons BY NullIsNoReason
  <2> QED BY <1>1, <2>1, <2>2, ChainMoves
<1>4. CASE EngineFails BY <1>3, <1>4 DEF EngineFails
<1>5. CASE CheckLayer
  <2>1. CASE Finds(r.token) = "live" BY <1>2, <1>5, <2>1 DEF CheckLayer
  <2>2. CASE Finds(r.token) # "live" BY <1>3, <1>5, <2>2, FindsReason DEF CheckLayer
  <2> QED BY <2>1, <2>2
<1> QED BY <1>4, <1>5

LEMMA SyncKeeps == ASSUME ChainIInv, Sync PROVE ChainIInv'
<1> USE DEF ChainIInv
<1>1. /\ r.pc = "sync" /\ UNCHANGED <<app, entry, jar>> /\ LeftBy(r.layer - 1) /\ Ignoring(r.layer - 1, r.ignore)
      /\ Checks(r.layer) /\ r.token = GetTokenValue(app.adapter, app.layers[r.layer].reads, r.q)
      /\ r.state = [loginId |-> Holder[r.token], token |-> r.token]
      /\ r.layer \in 1 .. Len(app.layers) /\ Len(app.layers) \in Nat /\ r.ignore \in BOOLEAN
  BY AppIs DEF Sync, Still, OnItsWay, ChainShaped, Underway
<1>2. PICK known \in {r.session, r.state.loginId} :
        /\ known = IF app.adapter = "fastify" THEN r.state.loginId ELSE r.session
        /\ r' = PastLayer([r EXCEPT !.ignore = r.ignore, !.stp = r.state, !.session = known])
  <2>1. CASE app.adapter # "fastify"
    <3>1. [r EXCEPT !.stp = r.state] = [r EXCEPT !.ignore = r.ignore, !.stp = r.state, !.session = r.session]
      BY DEF ChainShaped
    <3>2. r' = PastLayer([r EXCEPT !.stp = r.state])
      BY <2>1 DEF Sync, SyncExpressAuthState, GuardPasses
    <3> QED BY <2>1, <3>1, <3>2
  <2>2. CASE app.adapter = "fastify"
    <3>1. [r EXCEPT !.stp = r.state, !.session = r.state.loginId]
            = [r EXCEPT !.ignore = r.ignore, !.stp = r.state, !.session = r.state.loginId]
      BY DEF ChainShaped
    <3>2. r' = PastLayer([r EXCEPT !.stp = r.state, !.session = r.state.loginId])
      BY <2>2 DEF Sync, SyncFastifyAuthState
    <3> QED BY <2>2, <3>1, <3>2
  <2> QED BY <2>1, <2>2
<1>3. known \in {Null, r.state.loginId} /\ (app.adapter # "fastify" => known = Null)
  BY <1>2 DEF SessionsKnown
<1>4. Left(r.layer, r.state, known, r.q)
  <2>1. r.layer \in Nat \ {0} BY <1>1
  <2>2. r.state.token = r.token /\ r.state.loginId = Holder[r.state.token] BY <1>1
  <2> QED BY <1>1, <1>3, <2>1, <2>2, LeftOn
<1>5. Ignoring(r.layer, r.ignore)
  <2>1. \A i \in 1 .. r.layer : i \in 1 .. r.layer - 1 \/ i = r.layer BY <1>1
  <2>2. \A i \in 1 .. r.layer - 1 : i \in 1 .. r.layer BY <1>1
  <2> QED BY <1>1, <2>1, <2>2 DEF Ignoring, Checks
<1> QED BY <1>1, <1>2, <1>3, <1>4, <1>5, PassedKeeps

LEMMA AnswersKeep == ASSUME ChainIInv, AnswerError \/ Handler \/ \E t \in DOMAIN Holder : LoginHandler(t)
                     PROVE  ChainIInv'
<1> USE DEF ChainIInv
<1>1. ASSUME NEW reply, r' = [r EXCEPT !.pc = "answered", !.reply = reply], r.pc \in {"raised", "handler"}, app' = app,
             entry' \in [DOMAIN Holder -> {"live", "unborn"} \cup Reasons], jar' # Null => jar' \in DOMAIN Holder,
             r.why # Null => reply = Reply(r.why)
      PROVE  ChainIInv'
  <2>1. r' = [r EXCEPT !.pc = "answered", !.token = r.token, !.state = r.state, !.why = r.why, !.reply = reply]
    BY <1>1 DEF ChainShaped
  <2>2. r.why \in {Null, "ERROR"} \cup Reasons /\ r.pc \in Underway BY <1>1 DEF ChainShaped, Underway
  <2>3. /\ "answered" \notin {"resolve", "sync", "raised"}
        /\ "answered" \in {"resolve", "sync", "raised", "answered"}
    OBVIOUS
  <2>4. /\ app' = app /\ entry' \in [DOMAIN Holder -> {"live", "unborn"} \cup Reasons]
        /\ jar' # Null => jar' \in DOMAIN Holder
        /\ r.why # Null => reply = Reply(r.why)
    BY <1>1
  <2> QED BY <2>1, <2>2, <2>3, <2>4, ChainMoves
<1>2. entry \in [DOMAIN Holder -> {"live", "unborn"} \cup Reasons] /\ (jar # Null => jar \in DOMAIN Holder)
  BY DEF ChainShaped
<1>3. CASE AnswerError BY <1>1, <1>2, <1>3 DEF AnswerError, Still
<1>4. CASE Handler
  <2>1. r.why = Null BY <1>4 DEF Handler, Told
  <2> QED BY <1>1, <1>2, <1>4, <2>1 DEF Handler, Still
<1>5. ASSUME NEW t \in DOMAIN Holder, LoginHandler(t) PROVE ChainIInv'
  <2>1. r.pc = "handler" /\ r.why = Null /\ app' = app BY <1>5 DEF LoginHandler, Told
  <2>2. entry' \in [DOMAIN Holder -> {"live", "unborn"} \cup Reasons] BY <1>2, <1>5 DEF LoginHandler
  <2>3. jar' # Null => jar' \in DOMAIN Holder BY <1>2, <1>5 DEF LoginHandler
  <2>4. \E reply : r' = [r EXCEPT !.pc = "answered", !.reply = reply] BY <1>5 DEF LoginHandler
  <2> QED BY <1>1, <2>1, <2>2, <2>3, <2>4
<1> QED BY <1>3, <1>4, <1>5

LEMMA EndsKeep == ASSUME ChainIInv, NEW t \in DOMAIN Holder, NEW how \in Reasons, Ends(t, how) PROVE ChainIInv'
<1> USE DEF ChainIInv
<1>1. app' = app /\ r' = r /\ jar' = jar /\ entry' = [entry EXCEPT ![t] = how] BY DEF Ends
<1>2. entry' \in [DOMAIN Holder -> {"live", "unborn"} \cup Reasons] BY <1>1 DEF ChainShaped
<1>3. ChainShaped' BY <1>1, <1>2 DEF ChainShaped
<1>4. Parsed' /\ SessionsKnown' /\ Told' BY <1>1, ChainStays DEF Parsed, SessionsKnown, Told, Reply
<1>5. OnItsWay' BY <1>1 DEF OnItsWay, LeftBy, Left, Ignoring, Checks, GetTokenValue, HeaderGet, CookieGet, QueryGet
<1> QED BY <1>1, <1>3, <1>4, <1>5, ChainStays

LEMMA ChainStarts == ASSUME ChainConstants, ChainStart PROVE ChainIInv
<1>1. /\ app \in Apps /\ jar = Null /\ entry \in [DOMAIN Holder -> {"live", "unborn"}]
      /\ r = [pc |-> "boot", q |-> Null, layer |-> 0, ignore |-> FALSE, token |-> Null, state |-> Null,
              stp |-> Null, session |-> Null, why |-> Null, reply |-> Null]
  BY DEF ChainStart, NoRequest
<1>2. ChainShaped BY <1>1 DEF ChainShaped, Pcs, Underway
<1>3. Parsed /\ SessionsKnown /\ OnItsWay /\ Told BY <1>1 DEF Parsed, SessionsKnown, OnItsWay, Told
<1> QED BY <1>2, <1>3 DEF ChainIInv

LEMMA ChainKept == ASSUME ChainIInv, [ChainNext]_chainVars PROVE ChainIInv'
<1>1. CASE UNCHANGED chainVars
  <2>1. app' = app /\ entry' = entry /\ r' = r /\ jar' = jar BY <1>1 DEF chainVars
  <2>2. ChainShaped' BY <2>1 DEF ChainIInv, ChainShaped
  <2>3. Parsed' /\ SessionsKnown' /\ Told' BY <2>1 DEF ChainIInv, Parsed, SessionsKnown, Told, Reply
  <2>4. OnItsWay'
    BY <2>1 DEF ChainIInv, OnItsWay, LeftBy, Left, Ignoring, Checks, GetTokenValue, HeaderGet, CookieGet, QueryGet
  <2> QED BY <2>1, <2>2, <2>3, <2>4, ChainStays DEF ChainIInv
<1>2. CASE Boot BY <1>2, BootKeeps
<1>3. CASE EnterLayer BY <1>3, EnterKeeps
<1>4. CASE CheckLayer \/ EngineFails BY <1>4, ResolveKeeps
<1>5. CASE Sync BY <1>5, SyncKeeps
<1>6. CASE AnswerError \/ Handler BY <1>6, AnswersKeep
<1>7. CASE \E m \in Messages : Receive(m) BY <1>7, ArrivesWell
<1>8. CASE \E t \in DOMAIN Holder : LoginHandler(t) BY <1>8, AnswersKeep
<1>9. CASE \E t \in DOMAIN Holder : \E how \in Reasons \ {"NOT_TOKEN"} : Ends(t, how) BY <1>9, EndsKeep
<1> QED BY <1>1, <1>2, <1>3, <1>4, <1>5, <1>6, <1>7, <1>8, <1>9 DEF ChainNext

-----------------------------------------------------------------------------
(* What a handler finds is of the last layer that checked.                  *)
LEMMA HandlerSees == ASSUME ChainIInv PROVE HandlerSeesTheChecked
<1> USE DEF ChainIInv
<1> DEFINE checked == {i \in 1 .. Len(app.layers) : Checks(i)}
           last == CHOOSE i \in checked : \A j \in checked : j <= i
<1> SUFFICES ASSUME r.pc = "handler"
             PROVE  IF checked = {} THEN r.stp = Null /\ r.session = Null
                    ELSE /\ r.stp.token = GetTokenValue(app.adapter, app.layers[last].reads, r.q)
                         /\ r.stp.loginId = Holder[r.stp.token]
                         /\ r.session \in {Null, r.stp.loginId}
  BY DEF HandlerSeesTheChecked
<1>1. LeftBy(Len(app.layers)) /\ Len(app.layers) \in Nat BY AppIs DEF OnItsWay, ChainShaped
<1>2. CASE checked = {}
  <2>1. \A i \in 1 .. Len(app.layers) : ~Checks(i) BY <1>2
  <2> QED BY <1>1, <1>2, <2>1 DEF LeftBy, Left
<1>3. CASE checked # {}
  <2>1. ~\A i \in 1 .. Len(app.layers) : ~Checks(i) BY <1>3
  <2>2. PICK i \in 1 .. Len(app.layers) :
          /\ Checks(i) /\ \A j \in 1 .. Len(app.layers) : Checks(j) => j <= i
          /\ r.stp.token = GetTokenValue(app.adapter, app.layers[i].reads, r.q)
          /\ r.stp.loginId = Holder[r.stp.token]
          /\ r.session \in {Null, r.stp.loginId}
    BY <1>1, <2>1 DEF LeftBy, Left
  <2>3. i \in checked /\ \A j \in checked : j <= i BY <2>2
  <2>4. last \in checked /\ \A j \in checked : j <= last BY <2>3
  <2> HIDE DEF last
  <2>5. last <= i /\ i <= last /\ last \in Nat /\ i \in Nat BY <1>1, <2>2, <2>3, <2>4
  <2>6. last = i BY <2>5
  <2> QED BY <1>3, <2>2, <2>6
<1> QED BY <1>2, <1>3

(* A refusal is told with its reason. *)
LEMMA RefusalTold == ASSUME ChainIInv PROVE RefusalIsTold
<1> USE DEF ChainIInv
<1> SUFFICES ASSUME r.pc = "answered", r.why # Null
             PROVE  /\ r.reply.status = 401 <=> r.why \in Reasons
                    /\ (r.why \in Reasons /\ app.errors # "propagated") => r.reply.code = CodeForType(r.why)
                    /\ r.why = "ERROR" => r.reply.status = 500
  BY DEF RefusalIsTold
<1>1. r.reply = Reply(r.why) BY DEF Told
<1>2. r.reply \in {Rethrown(r.why), ByFramework(r.why), Mapped(r.why)}
      /\ (app.errors # "propagated" => r.reply \in {Rethrown(r.why), Mapped(r.why)})
  BY <1>1 DEF Reply
<1>3. "ERROR" \notin Reasons BY DEF Reasons
<1>4. CASE r.why \in Reasons
  <2>1. /\ Rethrown(r.why) = [status |-> 401, code |-> CodeForType(r.why)]
        /\ Mapped(r.why) = [status |-> 401, code |-> CodeForType(r.why)]
        /\ ByFramework(r.why) = [status |-> 401, code |-> Null]
    BY <1>4 DEF Rethrown, Mapped, ByFramework, XltError
  <2> QED BY <1>2, <1>3, <1>4, <2>1
<1>5. CASE r.why \notin Reasons
  <2>1. r.reply = [status |-> 500, code |-> Null]
    BY <1>2, <1>5 DEF Rethrown, Mapped, ByFramework, Unknown
  <2> QED BY <1>5, <2>1
<1> QED BY <1>4, <1>5

(* Where nothing is repeated the adapters read one value of each source. *)
LEMMA SequenceIs == ASSUME NEW s, IsSequence(s) PROVE Len(s) \in Nat /\ (Len(s) = 0 => s = <<>>)
<1> DEFINE S == {s[i] : i \in DOMAIN s}
<1>1. s \in Seq(S) BY DEF IsSequence
<1> HIDE DEF S
<1> QED BY <1>1, EmptySeq

LEMMA ReadAlike == ASSUME ChainIInv PROVE AdaptersReadAlike
<1> USE DEF ChainIInv
<1> SUFFICES ASSUME r.pc = "resolve", \A f \in {"header", "cookie", "query"} : Len(r.q[f]) <= 1, NEW a
             PROVE  GetTokenValue(a, app.layers[r.layer].reads, r.q) = r.token
  BY DEF AdaptersReadAlike
<1>1. r.token = GetTokenValue(app.adapter, app.layers[r.layer].reads, r.q) BY DEF OnItsWay
<1>2. IsSequence(r.q.query) BY DEF ChainShaped, Underway
<1>3. (Len(r.q.query) = 0 /\ r.q.query = <<>>) \/ Len(r.q.query) = 1
  <2>1. Len(r.q.query) <= 1 OBVIOUS
  <2>2. Len(r.q.query) \in Nat /\ (Len(r.q.query) = 0 => r.q.query = <<>>) BY <1>2, SequenceIs
  <2>3. \A n \in Nat : n <= 1 => n = 0 \/ n = 1 OBVIOUS
  <2> QED BY <2>1, <2>2, <2>3
<1>4. \A b : QueryGet(b, r.q.query) = IF r.q.query = <<>> THEN Null ELSE r.q.query[1]
  <2>1. \A b : QueryGet(b, r.q.query) \in
                 {ExpressQueryGet(r.q.query), FastifyQueryGet(r.q.query), CoreQueryGet(r.q.query)}
    BY DEF QueryGet
  <2>2. Len(<<>>) = 0 OBVIOUS
  <2> QED BY <1>3, <2>1, <2>2 DEF ExpressQueryGet, FastifyQueryGet, CoreQueryGet, Joined
<1>5. QueryGet(a, r.q.query) = QueryGet(app.adapter, r.q.query) BY <1>4
<1> QED BY <1>1, <1>5 DEF GetTokenValue

(* What an application may rely on of an adapter, whatever layers it has    *)
(* and whatever its clients send: a handler is told of the account the last *)
(* layer that checked has found, clients are told why they were refused, and*)
(* every adapter reads the same token from a request that repeats nothing.  *)
THEOREM ChainHolds == ChainSpec => []ChainInv
<1> USE ChainAssumption
<1>1. ChainStart => ChainIInv BY ChainStarts
<1>2. ChainIInv /\ [ChainNext]_chainVars => ChainIInv' BY ChainKept
<1>3. ASSUME ChainIInv PROVE ChainInv
  <2>1. ChainTypeOK
    <3>1. Len(app.layers) \in Nat /\ (r.pc \notin Underway => r.layer = 0) /\ r.pc \in Pcs
      BY <1>3, AppIs DEF ChainIInv, ChainShaped, Pcs, Underway
    <3>2. r.layer <= Len(app.layers) BY <1>3, <3>1 DEF ChainIInv, ChainShaped
    <3> QED BY <1>3, <3>1, <3>2 DEF ChainTypeOK, ChainIInv, ChainShaped, Parsed, Pcs
  <2> QED BY <1>3, <2>1, HandlerSees, RefusalTold, ReadAlike DEF ChainInv
<1> QED BY <1>1, <1>2, <1>3, PTL DEF ChainSpec

(* A login that a handler answers with success has put its token in the     *)
(* client's hands, or it is not answered so.                                *)
ReachesClient(t) == (entry[t] = "unborn" /\ entry'[t] = "live" /\ r'.reply = Ok) => jar' = t

LEMMA ReachesWhenOk ==
  ASSUME ChainIInv, [ChainNext]_chainVars, NEW t \in DOMAIN Holder
  PROVE  ReachesClient(t)
<1>1. entry \in [DOMAIN Holder -> {"live", "unborn"} \cup Reasons] BY DEF ChainIInv, ChainShaped
<1>2. CASE entry' = entry BY <1>2 DEF ReachesClient
<1>3. ASSUME NEW u \in DOMAIN Holder, LoginHandler(u) PROVE ReachesClient(t)
  <2>1. /\ entry' = [entry EXCEPT ![u] = "live"]
        /\ jar' = u \/ r' = [r EXCEPT !.pc = "answered", !.reply = Unknown]
    BY <1>3 DEF LoginHandler
  <2>2. CASE u # t BY <1>1, <2>1, <2>2 DEF ReachesClient
  <2>3. CASE u = t
    <3>1. ASSUME r' = [r EXCEPT !.pc = "answered", !.reply = Unknown] PROVE r'.reply # Ok
      <4>1. r'.reply.status = 500 BY <3>1 DEF ChainIInv, ChainShaped, Unknown
      <4> QED BY <4>1 DEF Ok
    <3> QED BY <2>1, <2>3, <3>1 DEF ReachesClient
  <2> QED BY <2>2, <2>3
<1>4. ASSUME NEW u \in DOMAIN Holder, NEW how \in Reasons, Ends(u, how) PROVE ReachesClient(t)
  <2>1. entry[u] = "live" /\ entry' = [entry EXCEPT ![u] = how] BY <1>4 DEF Ends
  <2>2. entry[t] = "unborn" => entry'[t] = "unborn" BY <1>1, <2>1
  <2> QED BY <2>2 DEF ReachesClient
<1>5. CASE \/ UNCHANGED chainVars \/ Boot \/ EnterLayer \/ CheckLayer \/ EngineFails \/ Sync \/ AnswerError
           \/ Handler \/ \E m \in Messages : Receive(m)
  BY <1>2, <1>5 DEF chainVars, Boot, EnterLayer, CheckLayer, EngineFails, Sync, AnswerError, Handler,
                    Receive, Still
<1> QED BY <1>3, <1>4, <1>5 DEF ChainNext

(* A login that a handler answers with success has put its token in the     *)
(* client's hands; where nothing can write a cookie, it is not so answered. *)
THEOREM LoginsReachClients == ChainSpec => LoginReachesClient
<1> USE ChainAssumption
<1>1. ChainStart => ChainIInv BY ChainStarts
<1>2. ChainIInv /\ [ChainNext]_chainVars => ChainIInv' BY ChainKept
<1>3. ChainIInv /\ [ChainNext]_chainVars =>
        [\A t \in DOMAIN Holder : ReachesClient(t)]_chainVars
  BY ReachesWhenOk
<1>4. ChainSpec => [][\A t \in DOMAIN Holder : ReachesClient(t)]_chainVars
  BY <1>1, <1>2, <1>3, PTL DEF ChainSpec
<1> QED BY <1>4 DEF LoginReachesClient, ReachesClient

-----------------------------------------------------------------------------
(* Instances and keys, for every number of nodes, kids, instances and       *)
(* configurations.                                                          *)

(* The rotation of keys, stage by stage: what a node runs, and which tokens *)
(* there are.                                                               *)
Rollout == {"publish", "switch", "wait", "drop"}

Runs(n, kids, active) == conf[n] = [keys |-> kids, active |-> active]

Both == {step.old, New}

NodesRun ==
  \A n \in Nodes :
    /\ step.stage = "publish" => Runs(n, {step.old}, step.old) \/ Runs(n, Both, step.old)
    /\ step.stage = "switch" => Runs(n, Both, step.old) \/ Runs(n, Both, New)
    /\ step.stage = "wait" => Runs(n, Both, New)
    /\ step.stage = "drop" => Runs(n, Both, New) \/ Runs(n, {New}, New)

(* Nothing is signed with the old key once every node signs with the new,   *)
(* and what had been expires a token's life later.                          *)
Signed(t) ==
  /\ t.kid \in Nat /\ t.exp \in Nat /\ t.alg = Algorithm[t.kid]
  /\ clock < t.exp /\ t.exp <= clock + TokenLife
  /\ step.stage = "publish" => t.kid = step.old
  /\ step.stage = "switch" => t.kid \in Both
  /\ step.stage = "wait" => t.kid = New \/ (t.kid = step.old /\ t.exp <= step.since + TokenLife)
  /\ step.stage = "drop" => t.kid = New

RotationInv ==
  /\ clock \in 0 .. MaxClock
  /\ step \in [old: Nat \ {0}, stage: Rollout, since: Nat]
  /\ step.old \in Kids /\ (step.stage # "publish" => New \in Kids)
  /\ conf \in [Nodes -> [keys: SUBSET Kids, active: Kids]]
  /\ NodesRun /\ \A t \in tokens : Signed(t)

RotationConstants == MaxClock \in Nat /\ TokenLife \in Nat \ {0} /\ Len(Algorithm) \in Nat \ {0}
                     /\ Kids = 1 .. Len(Algorithm)

LEMMA RotationStarts == ASSUME RotationConstants, DeploymentStart PROVE RotationInv
<1>1. /\ conf = [n \in Nodes |-> [keys |-> {1}, active |-> 1]] /\ tokens = {} /\ clock = 0
      /\ step = [old |-> 1, stage |-> "publish", since |-> 0]
  BY DEF DeploymentStart, JwtConfig
<1>2. 1 \in Kids BY DEF RotationConstants
<1>3. step \in [old: Nat \ {0}, stage: Rollout, since: Nat] BY <1>1 DEF Rollout
<1>4. \A n \in Nodes : Runs(n, {step.old}, step.old) BY <1>1 DEF Runs
<1>5. NodesRun BY <1>1, <1>4 DEF NodesRun
<1>6. clock \in 0 .. MaxClock BY <1>1 DEF RotationConstants
<1>7. conf \in [Nodes -> [keys: SUBSET Kids, active: Kids]] BY <1>1, <1>2
<1> QED BY <1>1, <1>2, <1>3, <1>5, <1>6, <1>7 DEF RotationInv

LEMMA RollKeeps == ASSUME RotationConstants, RotationInv, NEW n \in Nodes, step.stage # "wait", Roll(n)
                   PROVE  RotationInv'
<1> USE DEF RotationInv
<1>1. New \in Kids /\ DeployStage(n) BY DEF Roll
<1>2. step.stage \in {"publish", "switch", "drop"} BY DEF Rollout
<1>3. PICK c \in {JwtConfig(Both, step.old), JwtConfig(Both, New), JwtConfig({New}, New)} :
        /\ Deploy(n, c)
        /\ step.stage = "publish" => c = JwtConfig(Both, step.old)
        /\ step.stage = "switch" => c = JwtConfig(Both, New)
        /\ step.stage = "drop" => c = JwtConfig({New}, New)
  <2>1. CASE step.stage = "publish" BY <1>1, <2>1 DEF DeployStage, Both
  <2>2. CASE step.stage = "switch" BY <1>1, <2>2 DEF DeployStage, Both
  <2>3. CASE step.stage = "drop" BY <1>1, <2>3 DEF DeployStage, Both
  <2> QED BY <1>2, <2>1, <2>2, <2>3
<1>4. conf' = [conf EXCEPT ![n] = c] /\ UNCHANGED <<tokens, clock, step>> BY <1>3 DEF Deploy
<1>5. c \in [keys: SUBSET Kids, active: Kids] BY <1>1 DEF JwtConfig, Both
<1>6. conf' \in [Nodes -> [keys: SUBSET Kids, active: Kids]]
      /\ \A m \in Nodes : conf'[m] = IF m = n THEN c ELSE conf[m]
  BY <1>4, <1>5
<1>7. New' = New /\ Both' = Both BY <1>4 DEF New, Both
<1>8. NodesRun' BY <1>2, <1>3, <1>4, <1>6, <1>7 DEF NodesRun, Runs, JwtConfig
<1>9. \A t \in tokens' : Signed(t)' BY <1>4, <1>7 DEF Signed
<1> QED BY <1>4, <1>6, <1>7, <1>8, <1>9

LEMMA CreateKeeps == ASSUME RotationConstants, RotationInv, NEW n \in Nodes, CreateToken(n) PROVE RotationInv'
<1> USE DEF RotationInv
<1> DEFINE s == [kid |-> conf[n].active, alg |-> Algorithm[conf[n].active], exp |-> clock + TokenLife]
<1>1. tokens' = tokens \cup {s} /\ UNCHANGED <<conf, clock, step>> BY DEF CreateToken, SignPayload
<1>2. Signed(s)
  <2>1. /\ s.kid = conf[n].active /\ s.alg = Algorithm[s.kid] /\ s.exp = clock + TokenLife
        /\ clock \in Nat /\ TokenLife \in Nat \ {0} /\ s.kid \in Nat
    BY DEF RotationConstants
  <2> HIDE DEF s
  <2>2. /\ step.stage = "publish" => s.kid = step.old
        /\ step.stage = "switch" => s.kid \in Both
        /\ step.stage \in {"wait", "drop"} => s.kid = New
    BY <2>1 DEF NodesRun, Runs, Both
  <2>3. clock < s.exp /\ s.exp <= clock + TokenLife /\ s.exp \in Nat BY <2>1
  <2> QED BY <2>1, <2>2, <2>3 DEF Signed
<1> HIDE DEF s
<1>3. \A t \in tokens' : Signed(t) BY <1>1, <1>2
<1>4. New' = New /\ Both' = Both BY <1>1 DEF New, Both
<1>5. \A t \in tokens' : Signed(t)' BY <1>1, <1>3, <1>4 DEF Signed
<1>6. NodesRun' BY <1>1, <1>4 DEF NodesRun, Runs
<1> QED BY <1>1, <1>4, <1>5, <1>6

LEMMA TickKeepsKeys == ASSUME RotationConstants, RotationInv, TimePasses PROVE RotationInv'
<1> USE DEF RotationInv
<1>1. /\ clock < MaxClock /\ clock' = clock + 1 /\ tokens' = {t \in tokens : clock + 1 < t.exp} /\ UNCHANGED <<conf, step>>
  BY DEF TimePasses
<1>2. clock \in Nat /\ MaxClock \in Nat /\ TokenLife \in Nat BY DEF RotationConstants
<1>3. clock' \in 0 .. MaxClock BY <1>1, <1>2
<1>4. New' = New /\ Both' = Both BY <1>1 DEF New, Both
<1>5. ASSUME NEW t \in tokens' PROVE Signed(t)'
  <2>1. t \in tokens /\ clock' < t.exp BY <1>1
  <2>2. Signed(t) BY <2>1
  <2>3. t.exp \in Nat /\ t.exp <= clock' + TokenLife BY <1>1, <1>2, <2>2 DEF Signed
  <2> QED BY <1>1, <1>4, <2>1, <2>2, <2>3 DEF Signed
<1>6. NodesRun' BY <1>1, <1>4 DEF NodesRun, Runs
<1> QED BY <1>1, <1>3, <1>4, <1>5, <1>6

LEMMA StageKeeps == ASSUME RotationConstants, RotationInv, NextStage PROVE RotationInv'
<1> USE DEF RotationInv
<1>1. New \in Kids /\ UNCHANGED <<conf, tokens, clock>> /\ New = step.old + 1 /\ New \in Nat \ {0}
      /\ clock \in Nat /\ TokenLife \in Nat
  BY DEF NextStage, New, RotationConstants
<1>2. CASE step.stage = "publish"
  <2>1. /\ step' = [step EXCEPT !.stage = "switch"] /\ Everywhere(JwtConfig(Both, step.old))
    BY <1>2 DEF NextStage, Both
  <2>2. /\ step'.old = step.old /\ step'.stage = "switch" /\ step'.since = step.since
        /\ step' \in [old: Nat \ {0}, stage: Rollout, since: Nat]
    BY <2>1 DEF Rollout
  <2>3. New' = New /\ Both' = Both BY <2>2 DEF New, Both
  <2>4. NodesRun' BY <1>1, <2>1, <2>2, <2>3 DEF NodesRun, Runs, Everywhere, JwtConfig
  <2>5. \A t \in tokens' : Signed(t)' BY <1>1, <1>2, <2>2, <2>3 DEF Signed, Both
  <2> QED BY <1>1, <2>2, <2>3, <2>4, <2>5
<1>3. CASE step.stage = "switch"
  <2>1. /\ step' = [step EXCEPT !.stage = "wait", !.since = clock] /\ Everywhere(JwtConfig(Both, New))
    BY <1>3 DEF NextStage, Both
  <2>2. /\ step'.old = step.old /\ step'.stage = "wait" /\ step'.since = clock
        /\ step' \in [old: Nat \ {0}, stage: Rollout, since: Nat]
    BY <1>1, <2>1 DEF Rollout
  <2>3. New' = New /\ Both' = Both BY <2>2 DEF New, Both
  <2>4. NodesRun' BY <1>1, <2>1, <2>2, <2>3 DEF NodesRun, Runs, Everywhere, JwtConfig
  <2>5. \A t \in tokens' : Signed(t)' BY <1>1, <1>3, <2>2, <2>3 DEF Signed, Both
  <2> QED BY <1>1, <2>2, <2>3, <2>4, <2>5
<1>4. CASE step.stage = "wait"
  <2>1. step' = [step EXCEPT !.stage = "drop"] /\ clock >= step.since + TokenLife BY <1>4 DEF NextStage
  <2>2. /\ step'.old = step.old /\ step'.stage = "drop" /\ step'.since = step.since
        /\ step' \in [old: Nat \ {0}, stage: Rollout, since: Nat]
    BY <2>1 DEF Rollout
  <2>3. New' = New /\ Both' = Both BY <2>2 DEF New, Both
  <2>4. NodesRun' BY <1>1, <1>4, <2>2, <2>3 DEF NodesRun, Runs
  <2>5. ASSUME NEW t \in tokens' PROVE Signed(t)'
    <3>1. Signed(t) BY <1>1
    <3>2. t.kid = New BY <1>1, <1>4, <2>1, <3>1 DEF Signed
    <3> QED BY <1>1, <2>2, <2>3, <3>1, <3>2 DEF Signed
  <2> QED BY <1>1, <2>2, <2>3, <2>4, <2>5
<1>5. CASE step.stage = "drop"
  <2>1. /\ step' = [old |-> New, stage |-> "publish", since |-> clock] /\ Everywhere(JwtConfig({New}, New))
    BY <1>5 DEF NextStage
  <2>2. /\ step'.old = New /\ step'.stage = "publish"
        /\ step' \in [old: Nat \ {0}, stage: Rollout, since: Nat]
    BY <1>1, <2>1 DEF Rollout
  <2>3. NodesRun' BY <1>1, <2>1, <2>2 DEF NodesRun, Runs, Everywhere, JwtConfig
  <2>4. \A t \in tokens' : Signed(t)' BY <1>1, <1>5, <2>2 DEF Signed
  <2> QED BY <1>1, <2>2, <2>3, <2>4
<1> QED BY <1>2, <1>3, <1>4, <1>5 DEF Rollout

LEMMA RotationKept == ASSUME RotationConstants, RotationInv, [DeploymentNext]_deploymentVars PROVE RotationInv'
<1>1. CASE UNCHANGED <<conf, tokens, clock, step>>
  <2>1. New' = New /\ Both' = Both BY <1>1 DEF New, Both
  <2>2. NodesRun' BY <1>1, <2>1 DEF RotationInv, NodesRun, Runs
  <2>3. \A t \in tokens' : Signed(t)' BY <1>1, <2>1 DEF RotationInv, Signed
  <2> QED BY <1>1, <2>1, <2>2, <2>3 DEF RotationInv
<1>2. CASE RotationNext
  <2>1. CASE NextStage BY <2>1, StageKeeps
  <2>2. CASE TimePasses BY <2>2, TickKeepsKeys
  <2>3. CASE \E n \in Nodes : CreateToken(n) BY <2>3, CreateKeeps
  <2>4. CASE \E n \in Nodes : step.stage # "wait" /\ Roll(n) BY <2>4, RollKeeps
  <2> QED BY <1>2, <2>1, <2>2, <2>3, <2>4 DEF RotationNext
<1>3. CASE InstancesNext
  <2>1. InstancePart \/ \E i, x : Becomes(i, x)
    BY <1>3 DEF InstancesNext, CreateXltInstance, CreateXltToken, ForRoot, ForRootAsync,
                SetDefaultXltInstance, UseFactory, StpLogicProviders, InitProvider, StpUtilCall
  <2>2. UNCHANGED <<conf, tokens, clock, step>> BY <2>1 DEF Becomes, InstancePart, rotationVars
  <2> QED BY <1>1, <2>2
<1>4. CASE NormalizeXltTokenConfig \/ CreateJwtStrategyConfig \/ UNCHANGED deploymentVars
  <2>1. UNCHANGED <<conf, tokens, clock, step>>
    BY <1>4 DEF NormalizeXltTokenConfig, CreateJwtStrategyConfig, deploymentVars, rotationVars
  <2> QED BY <1>1, <2>1
<1> QED BY <1>2, <1>3, <1>4 DEF DeploymentNext

LEMMA RotationShown == ASSUME RotationInv PROVE RotationKeepsTokens
<1> SUFFICES ASSUME NEW t \in tokens, NEW n \in Nodes PROVE t.kid \in conf[n].keys /\ t.alg = Algorithm[t.kid] /\ clock < t.exp
  BY DEF RotationKeepsTokens, VerifyToken
<1>1. Signed(t) BY DEF RotationInv
<1>2. t.kid \in conf[n].keys
  <2>1. CASE step.stage = "publish" BY <1>1, <2>1 DEF RotationInv, NodesRun, Runs, Signed, Both
  <2>2. CASE step.stage = "switch" BY <1>1, <2>2 DEF RotationInv, NodesRun, Runs, Signed, Both
  <2>3. CASE step.stage = "wait" BY <1>1, <2>3 DEF RotationInv, NodesRun, Runs, Signed, Both
  <2>4. CASE step.stage = "drop" BY <1>1, <2>4 DEF RotationInv, NodesRun, Runs, Signed, Both
  <2> QED BY <2>1, <2>2, <2>3, <2>4 DEF RotationInv, Rollout
<1> QED BY <1>1, <1>2 DEF Signed

LEMMA RotationAssumed == ASSUME DeploymentConstants PROVE RotationConstants
<1>1. Algorithm \in Seq({Algorithm[i] : i \in DOMAIN Algorithm}) /\ Algorithm # <<>> BY DEF DeploymentConstants
<1> DEFINE S == {Algorithm[i] : i \in DOMAIN Algorithm}
<1>2. Algorithm \in Seq(S) BY <1>1
<1> HIDE DEF S
<1>3. Len(Algorithm) \in Nat /\ DOMAIN Algorithm = 1 .. Len(Algorithm) /\ Len(Algorithm) # 0 BY <1>1, <1>2, EmptySeq
<1> QED BY <1>3 DEF RotationConstants, DeploymentConstants, Kids

(* Keys rotate under way: whatever the number of nodes and of rotations and *)
(* however long tokens live, no node rejects a token that has not expired.  *)
THEOREM RotationHolds == DeploymentSpec => []RotationKeepsTokens
<1> USE DeploymentAssumption
<1>1. RotationConstants BY RotationAssumed
<1>2. DeploymentInit => RotationInv BY <1>1, RotationStarts DEF DeploymentInit
<1>3. RotationInv /\ [DeploymentNext]_deploymentVars => RotationInv' BY <1>1, RotationKept
<1> QED BY <1>2, <1>3, RotationShown, PTL DEF DeploymentSpec

-----------------------------------------------------------------------------
(* The names of the store's keys: what an entry is of can be read from its  *)
(* key.                                                                     *)
Of(k) ==
  IF Len(k) = 2 THEN <<k[1], <<k[2]>>>>
  ELSE IF k[1] = "login" THEN
    IF Len(k) = 3 THEN <<k[2], <<k[3]>>>>
    ELSE <<"session", <<k[3]>>, IF Len(k) = 4 THEN <<k[4]>> ELSE <<k[4], k[5]>>>>
  ELSE IF k[1] = "safe" THEN <<"safe", <<k[2]>>, IF Len(k) = 3 THEN <<k[3]>> ELSE <<k[3], k[4]>>>>
  ELSE IF k[1] = "perm-cache" THEN <<k[2], <<k[3]>>>>
  ELSE <<IF Len(k) = 3 THEN "state" ELSE "generation", <<k[2]>>>>

(* Sequences, joined. *)
Then(s, d) == s \o d

LEMMA OneThenOne == ASSUME NEW a, NEW b PROVE Then(<<a>>, <<b>>) = <<a, b>>
<1> DEFINE s == <<a>> \o <<b>>
<1>1. s \in Seq({a, b}) OBVIOUS
<1>2. Len(s) = 2 OBVIOUS
<1>3. s[1] = a OBVIOUS
<1>4. s[2] = b OBVIOUS
<1> HIDE DEF s
<1>5. s = <<a, b>> BY <1>1, <1>2, <1>3, <1>4
<1> QED BY <1>5 DEF s, Then

LEMMA OneThenTwo == ASSUME NEW a, NEW b, NEW c PROVE Then(<<a>>, <<b, c>>) = <<a, b, c>>
<1> DEFINE s == <<a>> \o <<b, c>>
<1>1. s \in Seq({a, b, c}) OBVIOUS
<1>2. Len(s) = 3 OBVIOUS
<1>3. s[1] = a OBVIOUS
<1>4. s[2] = b OBVIOUS
<1>5. s[3] = c OBVIOUS
<1> HIDE DEF s
<1>6. s = <<a, b, c>> BY <1>1, <1>2, <1>3, <1>4, <1>5
<1> QED BY <1>6 DEF s, Then

LEMMA TwoThenOne == ASSUME NEW a, NEW b, NEW c PROVE Then(<<a, b>>, <<c>>) = <<a, b, c>>
<1> DEFINE s == <<a, b>> \o <<c>>
<1>1. s \in Seq({a, b, c}) OBVIOUS
<1>2. Len(s) = 3 OBVIOUS
<1>3. s[1] = a OBVIOUS
<1>4. s[2] = b OBVIOUS
<1>5. s[3] = c OBVIOUS
<1> HIDE DEF s
<1>6. s = <<a, b, c>> BY <1>1, <1>2, <1>3, <1>4, <1>5
<1> QED BY <1>6 DEF s, Then

LEMMA TwoThenTwo == ASSUME NEW a, NEW b, NEW c, NEW d PROVE Then(<<a, b>>, <<c, d>>) = <<a, b, c, d>>
<1> DEFINE s == <<a, b>> \o <<c, d>>
<1>1. s \in Seq({a, b, c, d}) OBVIOUS
<1>2. Len(s) = 4 OBVIOUS
<1>3. s[1] = a OBVIOUS
<1>4. s[2] = b OBVIOUS
<1>5. s[3] = c OBVIOUS
<1>6. s[4] = d OBVIOUS
<1> HIDE DEF s
<1>7. s = <<a, b, c, d>> BY <1>1, <1>2, <1>3, <1>4, <1>5, <1>6
<1> QED BY <1>7 DEF s, Then

LEMMA ThreeThenOne == ASSUME NEW a, NEW b, NEW c, NEW d PROVE Then(<<a, b, c>>, <<d>>) = <<a, b, c, d>>
<1> DEFINE s == <<a, b, c>> \o <<d>>
<1>1. s \in Seq({a, b, c, d}) OBVIOUS
<1>2. Len(s) = 4 OBVIOUS
<1>3. s[1] = a OBVIOUS
<1>4. s[2] = b OBVIOUS
<1>5. s[3] = c OBVIOUS
<1>6. s[4] = d OBVIOUS
<1> HIDE DEF s
<1>7. s = <<a, b, c, d>> BY <1>1, <1>2, <1>3, <1>4, <1>5, <1>6
<1> QED BY <1>7 DEF s, Then

LEMMA ThreeThenTwo == ASSUME NEW a, NEW b, NEW c, NEW d, NEW e PROVE Then(<<a, b, c>>, <<d, e>>) = <<a, b, c, d, e>>
<1> DEFINE s == <<a, b, c>> \o <<d, e>>
<1>1. s \in Seq({a, b, c, d, e}) OBVIOUS
<1>2. Len(s) = 5 OBVIOUS
<1>3. s[1] = a OBVIOUS
<1>4. s[2] = b OBVIOUS
<1>5. s[3] = c OBVIOUS
<1>6. s[4] = d OBVIOUS
<1>7. s[5] = e OBVIOUS
<1> HIDE DEF s
<1>8. s = <<a, b, c, d, e>> BY <1>1, <1>2, <1>3, <1>4, <1>5, <1>6, <1>7
<1> QED BY <1>8 DEF s, Then

LEMMA KeyTellsOf == ASSUME NEW x \in StoreKeys PROVE x.of = Of(x.key)
<1>1. CASE \E sort \in OneName, p \in Plain : x = [of |-> <<sort, p>>, key |-> <<"login", sort>> \o p]
  <2>1. PICK sort \in OneName, p \in Plain : x = [of |-> <<sort, p>>, key |-> <<"login", sort>> \o p]
    BY <1>1
  <2>2. PICK w \in Words : p = <<w>> BY DEF Plain
  <2>3. x.of = <<sort, <<w>>>> /\ x.key = Then(<<"login", sort>>, <<w>>) BY <2>1, <2>2 DEF Then
  <2>4. x.key = <<"login", sort, w>> BY <2>3, TwoThenOne
  <2> QED BY <2>3, <2>4 DEF Of, OneName
<1>2. CASE \E l \in Plain, d \in KeyNames : x = [of |-> <<"session", l, d>>, key |-> SessionKey(l, d)]
  <2>1. PICK l \in Plain, d \in KeyNames : x = [of |-> <<"session", l, d>>, key |-> SessionKey(l, d)] BY <1>2
  <2>2. PICK w \in Words : l = <<w>> BY DEF Plain
  <2>3. x.of = <<"session", <<w>>, d>> /\ x.key = Then(Then(<<"login", "session">>, <<w>>), d)
    BY <2>1, <2>2 DEF Then, SessionKey
  <2>4. x.key = Then(<<"login", "session", w>>, d) BY <2>3, TwoThenOne
  <2>5. CASE d \in Plain
    <3>1. PICK u \in Words : d = <<u>> BY <2>5 DEF Plain
    <3>2. x.key = <<"login", "session", w, u>> BY <2>4, <3>1, ThreeThenOne
    <3> QED BY <2>3, <3>1, <3>2 DEF Of
  <2>6. CASE \E u, v \in Words : d = <<u, v>>
    <3>1. PICK u \in Words, v \in Words : d = <<u, v>> BY <2>6
    <3>2. x.key = <<"login", "session", w, u, v>> BY <2>4, <3>1, ThreeThenTwo
    <3> QED BY <2>3, <3>1, <3>2 DEF Of
  <2> QED BY <2>5, <2>6 DEF KeyNames
<1>3. CASE \E t \in Plain, b \in KeyNames : x = [of |-> <<"safe", t, b>>, key |-> SafeKey(t, b)]
  <2>1. PICK t \in Plain, b \in KeyNames : x = [of |-> <<"safe", t, b>>, key |-> SafeKey(t, b)] BY <1>3
  <2>2. PICK w \in Words : t = <<w>> BY DEF Plain
  <2>3. x.of = <<"safe", <<w>>, b>> /\ x.key = Then(Then(<<"safe">>, <<w>>), b)
    BY <2>1, <2>2 DEF Then, SafeKey
  <2>4. x.key = Then(<<"safe", w>>, b) BY <2>3, OneThenOne
  <2>5. CASE b \in Plain
    <3>1. PICK u \in Words : b = <<u>> BY <2>5 DEF Plain
    <3>2. x.key = <<"safe", w, u>> BY <2>4, <3>1, TwoThenOne
    <3> QED BY <2>3, <3>1, <3>2 DEF Of
  <2>6. CASE \E u, v \in Words : b = <<u, v>>
    <3>1. PICK u \in Words, v \in Words : b = <<u, v>> BY <2>6
    <3>2. x.key = <<"safe", w, u, v>> BY <2>4, <3>1, TwoThenTwo
    <3> QED BY <2>3, <3>1, <3>2 DEF Of
  <2> QED BY <2>5, <2>6 DEF KeyNames
<1>4. CASE \E sort \in {"jwt-blacklist", "temp-token"}, p \in Plain : x = [of |-> <<sort, p>>, key |-> <<sort>> \o p]
  <2>1. PICK sort \in {"jwt-blacklist", "temp-token"}, p \in Plain : x = [of |-> <<sort, p>>, key |-> <<sort>> \o p]
    BY <1>4
  <2>2. PICK w \in Words : p = <<w>> BY DEF Plain
  <2>3. x.of = <<sort, <<w>>>> /\ x.key = Then(<<sort>>, <<w>>) BY <2>1, <2>2 DEF Then
  <2>4. x.key = <<sort, w>> BY <2>3, OneThenOne
  <2> QED BY <2>3, <2>4 DEF Of, OneName
<1>5. CASE \E sort \in {"perm", "role"}, p \in Plain : x = [of |-> <<sort, p>>, key |-> <<"perm-cache", sort>> \o p]
  <2>1. PICK sort \in {"perm", "role"}, p \in Plain : x = [of |-> <<sort, p>>, key |-> <<"perm-cache", sort>> \o p]
    BY <1>5
  <2>2. PICK w \in Words : p = <<w>> BY DEF Plain
  <2>3. x.of = <<sort, <<w>>>> /\ x.key = Then(<<"perm-cache", sort>>, <<w>>) BY <2>1, <2>2 DEF Then
  <2>4. x.key = <<"perm-cache", sort, w>> BY <2>3, TwoThenOne
  <2> QED BY <2>3, <2>4 DEF Of, OneName
<1>6. CASE \E f \in Plain : x = [of |-> <<"state", f>>, key |-> <<"lifecycle">> \o f \o <<"state">>]
  <2>1. PICK f \in Plain : x = [of |-> <<"state", f>>, key |-> <<"lifecycle">> \o f \o <<"state">>] BY <1>6
  <2>2. PICK w \in Words : f = <<w>> BY DEF Plain
  <2>3. x.of = <<"state", <<w>>>> /\ x.key = Then(Then(<<"lifecycle">>, <<w>>), <<"state">>) BY <2>1, <2>2 DEF Then
  <2>4. x.key = Then(<<"lifecycle", w>>, <<"state">>) BY <2>3, OneThenOne
  <2>5. x.key = <<"lifecycle", w, "state">> BY <2>4, TwoThenOne
  <2> QED BY <2>3, <2>5 DEF Of
<1>7. CASE \E f \in Plain : x = [of |-> <<"generation", f>>, key |-> <<"lifecycle">> \o f \o <<"generation", "0">>]
  <2>1. PICK f \in Plain : x = [of |-> <<"generation", f>>, key |-> <<"lifecycle">> \o f \o <<"generation", "0">>] BY <1>7
  <2>2. PICK w \in Words : f = <<w>> BY DEF Plain
  <2>3. x.of = <<"generation", <<w>>>> /\ x.key = Then(Then(<<"lifecycle">>, <<w>>), <<"generation", "0">>) BY <2>1, <2>2 DEF Then
  <2>4. x.key = Then(<<"lifecycle", w>>, <<"generation", "0">>) BY <2>3, OneThenOne
  <2>5. x.key = <<"lifecycle", w, "generation", "0">> BY <2>4, TwoThenTwo
  <2> QED BY <2>3, <2>5 DEF Of
<1> DEFINE S1 == {[of |-> <<sort, p>>, key |-> <<"login", sort>> \o p] : sort \in OneName, p \in Plain}
           S2 == {[of |-> <<"session", l, d>>, key |-> SessionKey(l, d)] : l \in Plain, d \in KeyNames}
           S3 == {[of |-> <<"safe", t, b>>, key |-> SafeKey(t, b)] : t \in Plain, b \in KeyNames}
           S4 == {[of |-> <<sort, p>>, key |-> <<sort>> \o p] : sort \in {"jwt-blacklist", "temp-token"}, p \in Plain}
           S5 == {[of |-> <<sort, p>>, key |-> <<"perm-cache", sort>> \o p] : sort \in {"perm", "role"}, p \in Plain}
           S6 == {[of |-> <<"state", f>>, key |-> <<"lifecycle">> \o f \o <<"state">>] : f \in Plain}
           S7 == {[of |-> <<"generation", f>>, key |-> <<"lifecycle">> \o f \o <<"generation", "0">>] : f \in Plain}
<1>11. x \in S1 => x.of = Of(x.key) BY <1>1 DEF OneName
<1>12. x \in S2 => x.of = Of(x.key) BY <1>2
<1>13. x \in S3 => x.of = Of(x.key) BY <1>3
<1>14. x \in S4 => x.of = Of(x.key) BY <1>4
<1>15. x \in S5 => x.of = Of(x.key) BY <1>5
<1>16. x \in S6 => x.of = Of(x.key) BY <1>6, Zenon
<1>17. x \in S7 => x.of = Of(x.key) BY <1>7, Zenon
<1>18. StoreKeys = S1 \cup S2 \cup S3 \cup S4 \cup S5 \cup S6 \cup S7 BY DEF StoreKeys
<1> HIDE DEF S1, S2, S3, S4, S5, S6, S7
<1> QED BY <1>11, <1>12, <1>13, <1>14, <1>15, <1>16, <1>17, <1>18

LEMMA NamesHold == KeysDontMeet
BY KeyTellsOf DEF KeysDontMeet

-----------------------------------------------------------------------------
(* Instances: each is what it was built from, and the default is one that   *)
(* is ready.                                                                *)
NotBuilt(x) ==
  \E at \in {"none", "config", "store", "rejected"}, o \in CreateOptions \cup {Null} :
    /\ x = [stage |-> at, options |-> o, stpLogic |-> Null, stpPermLogic |-> Null]
    /\ at \in {"config", "store"} => o \in CreateOptions

IsBuilt(i, x) == \E o \in CreateOptions, at \in {"init", "ready"} : x = Built(i, o, at)

Made(d) ==
  /\ default = [stpLogic |-> d, stpPermLogic |-> d]
  /\ d # Null => d \in Instances /\ instances[d].stage = "ready"

InstancesInv ==
  /\ instances = [i \in Instances |-> instances[i]]
  /\ \A i \in Instances : NotBuilt(instances[i]) \/ IsBuilt(i, instances[i])
  /\ \E d : Made(d)

LEMMA InstancesStart == ASSUME DeploymentStart PROVE InstancesInv
<1>1. instances = [i \in Instances |-> NoInstance] /\ default = [stpLogic |-> Null, stpPermLogic |-> Null]
  BY DEF DeploymentStart
<1>2. NotBuilt(NoInstance) BY DEF NotBuilt, NoInstance
<1>3. Made(Null) BY <1>1 DEF Made
<1> QED BY <1>1, <1>2, <1>3 DEF InstancesInv

(* What an instance that is not ready becomes leaves the default as it is. *)
LEMMA BecomesKeeps ==
  ASSUME InstancesInv, NEW i \in Instances, NEW x, instances[i].stage # "ready", Becomes(i, x),
         NotBuilt(x) \/ IsBuilt(i, x)
  PROVE  /\ instances' = [j \in Instances |-> instances'[j]] /\ instances'[i] = x
         /\ \A j \in Instances : NotBuilt(instances'[j]) \/ IsBuilt(j, instances'[j])
         /\ \A d \in Instances : instances[d].stage = "ready" => instances'[d].stage = "ready"
<1>1. instances' = [instances EXCEPT ![i] = x] BY DEF Becomes
<1>2. \A j \in Instances : instances'[j] = IF j = i THEN x ELSE instances[j] BY <1>1 DEF InstancesInv
<1>3. instances' = [j \in Instances |-> instances'[j]] BY <1>1 DEF InstancesInv
<1> QED BY <1>2, <1>3 DEF InstancesInv

LEMMA NewDefault ==
  ASSUME InstancesInv, NEW i \in Instances, instances'[i].stage = "ready",
         default' = [stpLogic |-> i, stpPermLogic |-> i],
         instances' = [j \in Instances |-> instances'[j]],
         \A j \in Instances : NotBuilt(instances'[j]) \/ IsBuilt(j, instances'[j])
  PROVE  InstancesInv'
<1>1. Made(i)' BY DEF Made
<1>2. \A j \in Instances : (NotBuilt(instances[j]) \/ IsBuilt(j, instances[j]))' BY DEF NotBuilt, IsBuilt, Built, StpLogicOf, StpPermLogicOf, StoreOf, StrategyOf, EventSinkOf, InterfaceOf
<1> QED BY <1>1, <1>2 DEF InstancesInv

LEMMA SameDefault ==
  ASSUME InstancesInv, NEW i \in Instances, NEW x, instances[i].stage # "ready", Becomes(i, x),
         NotBuilt(x) \/ IsBuilt(i, x), default' = default
  PROVE  InstancesInv'
<1>1. /\ instances' = [j \in Instances |-> instances'[j]]
      /\ \A j \in Instances : NotBuilt(instances'[j]) \/ IsBuilt(j, instances'[j])
      /\ \A d \in Instances : instances[d].stage = "ready" => instances'[d].stage = "ready"
  BY BecomesKeeps
<1>2. PICK d : Made(d) BY DEF InstancesInv
<1>3. Made(d)' BY <1>1, <1>2 DEF Made
<1>4. \A j \in Instances : (NotBuilt(instances[j]) \/ IsBuilt(j, instances[j]))' BY <1>1 DEF NotBuilt, IsBuilt, Built, StpLogicOf, StpPermLogicOf, StoreOf, StrategyOf, EventSinkOf, InterfaceOf
<1> QED BY <1>1, <1>3, <1>4 DEF InstancesInv

LEMMA InstancesKept == ASSUME InstancesInv, [DeploymentNext]_deploymentVars PROVE InstancesInv'
<1>1. CASE UNCHANGED <<instances, default>>
  <2>1. PICK d : Made(d) BY DEF InstancesInv
  <2>2. Made(d)' BY <1>1, <2>1 DEF Made
  <2>3. \A i \in Instances : (NotBuilt(instances[i]) \/ IsBuilt(i, instances[i]))'
    BY <1>1 DEF InstancesInv, NotBuilt, IsBuilt, Built, StpLogicOf, StpPermLogicOf, StoreOf,
                StrategyOf, EventSinkOf, InterfaceOf
  <2>4. (instances = [i \in Instances |-> instances[i]])' BY <1>1 DEF InstancesInv
  <2> QED BY <2>2, <2>3, <2>4 DEF InstancesInv
<1>2. ASSUME NEW i \in Instances, NEW o \in CreateOptions, CreateXltInstance(i, o) PROVE InstancesInv'
  <2>1. IsBuilt(i, Built(i, o, "ready")) BY DEF IsBuilt
  <2> QED BY <1>2, <2>1, SameDefault DEF CreateXltInstance
<1>3. ASSUME NEW i \in Instances, NEW o \in CreateOptions, CreateXltToken(i, o) PROVE InstancesInv'
  <2> DEFINE x == Built(i, o, "ready")
  <2>1. IsBuilt(i, x) BY DEF IsBuilt
  <2>2. x.stage = "ready" BY DEF Built
  <2>3. instances[i].stage # "ready" /\ Becomes(i, x) /\ default' = [stpLogic |-> i, stpPermLogic |-> i]
    BY <1>3 DEF CreateXltToken
  <2> HIDE DEF x
  <2>4. /\ instances' = [j \in Instances |-> instances'[j]] /\ instances'[i] = x
        /\ \A j \in Instances : NotBuilt(instances'[j]) \/ IsBuilt(j, instances'[j])
    BY <2>1, <2>3, BecomesKeeps
  <2> QED BY <2>2, <2>3, <2>4, NewDefault
<1>4. ASSUME NEW i \in Instances, NEW o \in CreateOptions, ForRoot(i, o) \/ ForRootAsync(i, o) PROVE InstancesInv'
  <2>1. PICK at \in {"store", "config"} :
          /\ instances[i].stage = "none" /\ Becomes(i, [NoInstance EXCEPT !.stage = at, !.options = o])
          /\ UNCHANGED default
    BY <1>4 DEF ForRoot, ForRootAsync
  <2> DEFINE x == [NoInstance EXCEPT !.stage = at, !.options = o]
  <2>2. x = [stage |-> at, options |-> o, stpLogic |-> Null, stpPermLogic |-> Null]
    <3>1. x = [[NoInstance EXCEPT !.stage = at] EXCEPT !.options = o] BY DEF NoInstance
    <3>2. [NoInstance EXCEPT !.stage = at] = [stage |-> at, options |-> Null, stpLogic |-> Null, stpPermLogic |-> Null]
      BY DEF NoInstance
    <3> HIDE DEF x
    <3> QED BY <3>1, <3>2
  <2> HIDE DEF x
  <2>3. NotBuilt(x) BY <2>2 DEF NotBuilt
  <2>4. instances[i].stage # "ready" /\ Becomes(i, x) /\ default' = default BY <2>1 DEF x
  <2> QED BY <2>3, <2>4, SameDefault
<1>5. ASSUME NEW i \in Instances, UseFactory(i) PROVE InstancesInv'
  <2>1. instances[i].stage = "config" /\ default' = default BY <1>5 DEF UseFactory
  <2>2. NotBuilt(instances[i]) BY <2>1 DEF InstancesInv, IsBuilt, Built
  <2>3. PICK o \in CreateOptions : instances[i] = [stage |-> "config", options |-> o, stpLogic |-> Null, stpPermLogic |-> Null]
    BY <2>1, <2>2 DEF NotBuilt
  <2>4. CASE Becomes(i, [instances[i] EXCEPT !.stage = "store"])
    <3> DEFINE x == [instances[i] EXCEPT !.stage = "store"]
    <3>1. x = [stage |-> "store", options |-> o, stpLogic |-> Null, stpPermLogic |-> Null] BY <2>3
    <3> HIDE DEF x
    <3>2. NotBuilt(x) BY <3>1 DEF NotBuilt
    <3>3. instances[i].stage # "ready" /\ Becomes(i, x) BY <2>1, <2>4 DEF x
    <3> QED BY <2>1, <3>2, <3>3, SameDefault
  <2>5. CASE Becomes(i, [NoInstance EXCEPT !.stage = "rejected"])
    <3> DEFINE x == [NoInstance EXCEPT !.stage = "rejected"]
    <3>1. x = [stage |-> "rejected", options |-> Null, stpLogic |-> Null, stpPermLogic |-> Null] BY DEF NoInstance
    <3> HIDE DEF x
    <3>2. NotBuilt(x) BY <3>1 DEF NotBuilt
    <3>3. instances[i].stage # "ready" /\ Becomes(i, x) BY <2>1, <2>5 DEF x
    <3> QED BY <2>1, <3>2, <3>3, SameDefault
  <2> QED BY <1>5, <2>4, <2>5 DEF UseFactory
<1>6. ASSUME NEW i \in Instances, StpLogicProviders(i) PROVE InstancesInv'
  <2>1. instances[i].stage = "store" /\ Becomes(i, Built(i, instances[i].options, "init")) /\ default' = default
    BY <1>6 DEF StpLogicProviders
  <2>2. NotBuilt(instances[i]) BY <2>1 DEF InstancesInv, IsBuilt, Built
  <2>3. instances[i].options \in CreateOptions BY <2>1, <2>2 DEF NotBuilt
  <2>4. IsBuilt(i, Built(i, instances[i].options, "init")) BY <2>3 DEF IsBuilt
  <2>5. instances[i].stage # "ready" BY <2>1
  <2> QED BY <2>1, <2>4, <2>5, SameDefault
<1>7. ASSUME NEW i \in Instances, InitProvider(i) PROVE InstancesInv'
  <2> DEFINE x == [instances[i] EXCEPT !.stage = "ready"]
  <2>1. instances[i].stage = "init" /\ Becomes(i, x) /\ default' = [stpLogic |-> i, stpPermLogic |-> i]
    BY <1>7 DEF InitProvider
  <2>2. IsBuilt(i, instances[i]) BY <2>1 DEF InstancesInv, NotBuilt
  <2>3. PICK o \in CreateOptions, at \in {"init", "ready"} : instances[i] = Built(i, o, at) BY <2>2 DEF IsBuilt
  <2>4. x = Built(i, o, "ready") BY <2>3 DEF Built
  <2>5. x.stage = "ready" BY <2>4 DEF Built
  <2> HIDE DEF x
  <2>6. IsBuilt(i, x) BY <2>4 DEF IsBuilt
  <2>7. instances[i].stage # "ready" BY <2>1
  <2>8. /\ instances' = [j \in Instances |-> instances'[j]] /\ instances'[i] = x
        /\ \A j \in Instances : NotBuilt(instances'[j]) \/ IsBuilt(j, instances'[j])
    BY <2>1, <2>6, <2>7, BecomesKeeps
  <2> QED BY <2>1, <2>5, <2>8, NewDefault
<1>8. ASSUME NEW i \in Instances, SetDefaultXltInstance(i) PROVE InstancesInv'
  <2>1. instances[i].stage = "ready" /\ default' = [stpLogic |-> i, stpPermLogic |-> i] /\ instances' = instances
    BY <1>8 DEF SetDefaultXltInstance
  <2> QED BY <2>1, NewDefault DEF InstancesInv
<1>9. ASSUME InstancesNext PROVE InstancesInv'
  <2>1. CASE \E logic \in {"stpLogic", "stpPermLogic"} : StpUtilCall(logic) BY <1>1, <2>1 DEF StpUtilCall
  <2> QED BY <1>2, <1>3, <1>4, <1>5, <1>6, <1>7, <1>8, <1>9, <2>1 DEF InstancesNext
<1>10. ASSUME RotationNext \/ NormalizeXltTokenConfig \/ CreateJwtStrategyConfig \/ UNCHANGED deploymentVars
      PROVE  InstancesInv'
  <2>1. Rotation \/ NormalizeXltTokenConfig \/ CreateJwtStrategyConfig \/ UNCHANGED deploymentVars
    BY <1>10 DEF RotationNext, NextStage, TimePasses, CreateToken, Roll
  <2>2. UNCHANGED <<instances, default>>
    BY <2>1 DEF Rotation, NormalizeXltTokenConfig, CreateJwtStrategyConfig, deploymentVars, instanceVars
  <2> QED BY <1>1, <2>2
<1> QED BY <1>9, <1>10 DEF DeploymentNext

LEMMA InstancesShown ==
  ASSUME InstancesInv, \A o \in CreateOptions : o.store \notin Instances
  PROVE  /\ DefaultIsOne /\ InstancesAreIsolated
         /\ \A l \in DOMAIN default : default[l] # Null => instances[default[l]].stage = "ready"
<1>1. PICK d : Made(d) BY DEF InstancesInv
<1>2. \A l \in DOMAIN default : default[l] # Null => instances[default[l]].stage = "ready" BY <1>1 DEF Made
<1>3. ASSUME NEW i \in Instances, instances[i].stpLogic # Null \/ instances[i].stage = "ready" PROVE IsBuilt(i, instances[i])
  BY <1>3 DEF InstancesInv, NotBuilt
<1>4. ASSUME NEW i \in Instances, NEW j \in Instances, instances[i].stpLogic # Null, instances[j].stpLogic # Null,
             instances[i].stpLogic.store = instances[j].stpPermLogic.store
      PROVE  i = j \/ (instances[i].options.store = instances[j].options.store /\ instances[i].options.store # Null)
  <2>1. IsBuilt(i, instances[i]) /\ IsBuilt(j, instances[j]) BY <1>3, <1>4
  <2>2. PICK o \in CreateOptions : instances[i].options = o /\ instances[i].stpLogic = StpLogicOf(i, o)
    BY <2>1 DEF IsBuilt, Built
  <2>3. PICK p \in CreateOptions : instances[j].options = p /\ instances[j].stpPermLogic = StpPermLogicOf(j, p)
    BY <2>1 DEF IsBuilt, Built
  <2>4. StoreOf(i, o) = StoreOf(j, p) BY <1>4, <2>2, <2>3 DEF StpLogicOf, StpPermLogicOf
  <2> QED BY <2>2, <2>3, <2>4 DEF StoreOf
<1>5. ASSUME default.stpLogic # Null
      PROVE  LET x == GetDefaultXltInstance IN x.store = x.stpPermLogic.store /\ x.config = x.stpPermLogic.config
  <2>1. /\ d \in Instances /\ instances[d].stage = "ready" /\ default.stpLogic = d /\ default.stpPermLogic = d
    BY <1>1, <1>5 DEF Made
  <2>2. IsBuilt(d, instances[d]) BY <1>3, <2>1
  <2>3. PICK o \in CreateOptions : instances[d].stpLogic = StpLogicOf(d, o) /\ instances[d].stpPermLogic = StpPermLogicOf(d, o)
    BY <2>2 DEF IsBuilt, Built
  <2> QED BY <2>1, <2>3 DEF GetDefaultXltInstance, Engine, StpLogicOf, StpPermLogicOf
<1>6. InstancesAreIsolated BY <1>4, <1>5 DEF InstancesAreIsolated
<1>7. DefaultIsOne BY <1>1 DEF Made, DefaultIsOne
<1> QED BY <1>2, <1>6, <1>7

-----------------------------------------------------------------------------
(* A configuration is as it was written, or what normalising makes of one   *)
(* that is accepted.                                                        *)
Normal(c) ==
  [timeout |-> Seconds(NormalizeDuration(c.timeout, TRUE, TRUE)), lifecycle |-> NormalizeTokenLifecycle(c.lifecycle)]

NormalKeys(c) == [i \in DOMAIN c.keys |-> NormalizeJwtKey(c.keys[i])]

Accepted(c, i) ==
  [activeKey |-> NormalKeys(c)[i], keys |-> NormalKeys(c), written |-> c.keys[i]]

ConfigInv ==
  /\ part = "config" /\ config.stage = "normal" => \E c \in Inputs : Accepts(c) /\ config.c = Normal(c)
  /\ part = "keys" /\ config.stage = "normal" =>
       \E c \in KeyConfigs : \E i \in DOMAIN c.keys :
         /\ \A j \in DOMAIN c.keys : NormalKeys(c)[j] # Null
         /\ config.c = Accepted(c, i)
  /\ part = "config" /\ config.stage = "written" => config.c \in Inputs
  /\ part = "keys" /\ config.stage = "written" => config.c \in KeyConfigs

LEMMA ConfigStarts == ASSUME DeploymentStart PROVE ConfigInv
<1>1. CASE part = "config" BY <1>1 DEF DeploymentStart, ConfigInv
<1>2. CASE part = "keys" BY <1>2 DEF DeploymentStart, ConfigInv
<1> QED BY <1>1, <1>2 DEF ConfigInv

LEMMA ConfigKept == ASSUME ConfigInv, [DeploymentNext]_deploymentVars PROVE ConfigInv'
<1>1. CASE UNCHANGED <<part, config>>
  <2>1. \A c : Normal(c)' = Normal(c)
    BY DEF Normal, Seconds, NormalizeDuration, NormalizeTokenLifecycle, Ttl, RenewBelow, Positive, Halves
  <2>2. \A c : Accepts(c)' = Accepts(c) OBVIOUS
  <2>3. \A c, i : Accepted(c, i)' = Accepted(c, i) /\ NormalKeys(c)' = NormalKeys(c) OBVIOUS
  <2> QED BY <1>1, <2>1, <2>2, <2>3 DEF ConfigInv
<1>2. CASE NormalizeXltTokenConfig
  <2>1. /\ part' = part /\ part = "config" /\ config.stage = "written" /\ Accepts(config.c)
        /\ config' = [stage |-> "normal", c |-> Normal(config.c)]
    BY <1>2 DEF NormalizeXltTokenConfig, Normal
  <2>2. config.c \in Inputs BY <2>1 DEF ConfigInv
  <2>3. config'.stage = "normal" /\ config'.c = Normal(config.c) BY <2>1
  <2>4. \E c \in Inputs : Accepts(c) /\ config'.c = Normal(c) BY <2>1, <2>2, <2>3
  <2> QED BY <2>1, <2>3, <2>4 DEF ConfigInv
<1>3. CASE CreateJwtStrategyConfig
  <2>1. /\ part' = part /\ part = "keys" /\ config.stage = "written"
        /\ \A i \in DOMAIN NormalKeys(config.c) : NormalKeys(config.c)[i] # Null
        /\ \E i \in DOMAIN NormalKeys(config.c) : config' = [stage |-> "normal", c |-> Accepted(config.c, i)]
    BY <1>3 DEF CreateJwtStrategyConfig, NormalKeys, Accepted
  <2>2. config.c \in KeyConfigs BY <2>1 DEF ConfigInv
  <2>3. DOMAIN NormalKeys(config.c) = DOMAIN config.c.keys BY DEF NormalKeys
  <2>4. PICK i \in DOMAIN config.c.keys : config' = [stage |-> "normal", c |-> Accepted(config.c, i)] BY <2>1, <2>3
  <2>5. config'.stage = "normal" /\ config'.c = Accepted(config.c, i) BY <2>4
  <2>6. \E c \in KeyConfigs : \E j \in DOMAIN c.keys :
          (\A k \in DOMAIN c.keys : NormalKeys(c)[k] # Null) /\ config'.c = Accepted(c, j)
    BY <2>1, <2>2, <2>3, <2>5
  <2> QED BY <2>1, <2>5, <2>6 DEF ConfigInv
<1>4. ASSUME RotationNext \/ InstancesNext \/ UNCHANGED deploymentVars PROVE ConfigInv'
  <2>1. Rotation \/ InstancePart \/ UNCHANGED deploymentVars
    BY <1>4 DEF RotationNext, NextStage, TimePasses, CreateToken, Roll, InstancesNext, CreateXltInstance,
       CreateXltToken, ForRoot, ForRootAsync, SetDefaultXltInstance, UseFactory, StpLogicProviders,
       InitProvider, StpUtilCall, Becomes
  <2>2. UNCHANGED <<part, config>> BY <2>1 DEF Rotation, InstancePart, deploymentVars
  <2> QED BY <1>1, <2>2
<1> QED BY <1>2, <1>3, <1>4 DEF DeploymentNext

(* What a duration that is accepted is normalised to. *)
LEMMA DurationIs ==
  ASSUME NEW d \in Durations, Null \notin Int, NEW zero \in BOOLEAN, NEW never \in BOOLEAN
  PROVE  LET n == NormalizeDuration(d, zero, never) IN n = Null \/ (n \in Int /\ (n > 0 \/ n \in {0, -1}))
<1>1. CASE d.kind = "text"
  <2>1. d.halves \in Nat /\ d.unit \in Nat BY <1>1 DEF Durations
  <2>2. d.halves * d.unit \in Nat BY <2>1
  <2>3. Halves(d) \in Nat BY <2>2 DEF Halves
  <2>4. Halves(d) \div 2 \in Int BY <2>3
  <2> QED BY <1>1, <2>4 DEF NormalizeDuration, Positive
<1>2. CASE d.kind = "number" /\ d.n \in Int BY <1>2 DEF NormalizeDuration, Positive
<1> QED BY <1>1, <1>2 DEF Durations

LEMMA LifecycleIs ==
  ASSUME DeploymentConstants, NEW l, LifecycleValid(l),
         l \in [access: [mode: {"fixed", "sliding"}, ttl: Durations, renew: Durations \cup {Null}],
                refresh: Durations, enabled: BOOLEAN]
  PROVE  LET x == GetLifecycleConfig(NormalizeTokenLifecycle(l)) IN
         /\ x.enabled => x.refresh.n >= x.access.ttl.n
         /\ x.access.mode = "sliding" => x.access.renew # Null
<1> DEFINE e == Seconds(Ttl(l.access.ttl))
           f == Seconds(Ttl(l.refresh))
           g == IF l.access.mode = "fixed" THEN Null ELSE Seconds(RenewBelow(l.access))
           x == NormalizeTokenLifecycle(l)
<1>1. /\ x.enabled = l.enabled /\ x.refresh = f /\ x.access.ttl = e /\ x.access.renew = g
      /\ x.access.mode = l.access.mode
  BY DEF NormalizeTokenLifecycle
<1>2. e.kind = "number" /\ f.kind = "number" /\ e.n = Ttl(l.access.ttl) /\ f.n = Ttl(l.refresh) BY DEF Seconds
<1>3. l.enabled => Ttl(l.refresh) >= Ttl(l.access.ttl) BY DEF LifecycleValid
<1>4. l.access.mode = "sliding" => g # Null
  <2> SUFFICES ASSUME l.access.mode = "sliding" PROVE g # Null OBVIOUS
  <2>1. RenewBelow(l.access) # Null /\ Ttl(l.access.ttl) # Null BY DEF LifecycleValid
  <2>2. RenewBelow(l.access) \in Int
    <3>1. CASE l.access.renew = Null
      <4>1. Ttl(l.access.ttl) \in Int BY <2>1, DurationIs DEF Ttl, DeploymentConstants
      <4> QED BY <3>1, <4>1 DEF RenewBelow
    <3>2. CASE l.access.renew # Null
      <4>1. l.access.renew \in Durations BY <3>2
      <4> QED BY <2>1, <3>2, <4>1, DurationIs DEF Ttl, RenewBelow, DeploymentConstants
    <3> QED BY <3>1, <3>2
  <2>3. Seconds(RenewBelow(l.access)) \in Durations BY <2>2 DEF Seconds, Durations
  <2>4. Null \notin Durations BY DEF DeploymentConstants
  <2> QED BY <2>3, <2>4
<1> HIDE DEF e, f, g, x
<1>5. GetLifecycleConfig(x) = x BY <1>1, <1>2 DEF GetLifecycleConfig
<1>6. x.enabled => x.refresh.n >= x.access.ttl.n BY <1>1, <1>2, <1>3
<1>7. x.access.mode = "sliding" => x.access.renew # Null BY <1>1, <1>4
<1> QED BY <1>5, <1>6, <1>7 DEF x

LEMMA ConfigShown == ASSUME DeploymentConstants, ConfigInv PROVE ConfigIsSound
<1> SUFFICES ASSUME part = "config", config.stage = "normal"
             PROVE  LET l == GetLifecycleConfig(config.c.lifecycle) IN
                    /\ config.c.timeout.n >= -1
                    /\ l.enabled => l.refresh.n >= l.access.ttl.n
                    /\ l.access.mode = "sliding" => l.access.renew # Null
  BY DEF ConfigIsSound
<1>1. PICK c \in Inputs : Accepts(c) /\ config.c = Normal(c) BY DEF ConfigInv
<1>2. /\ c.timeout \in Durations
      /\ c.lifecycle \in [access: [mode: {"fixed", "sliding"}, ttl: Durations, renew: Durations \cup {Null}],
                          refresh: Durations, enabled: BOOLEAN]
  BY DEF DeploymentConstants
<1>3. LifecycleValid(c.lifecycle) /\ NormalizeDuration(c.timeout, TRUE, TRUE) # Null BY <1>1 DEF Accepts
<1> DEFINE n == NormalizeDuration(c.timeout, TRUE, TRUE)
<1>4. config.c.lifecycle = NormalizeTokenLifecycle(c.lifecycle) /\ config.c.timeout.n = n
  <2>1. config.c = [timeout |-> Seconds(n), lifecycle |-> NormalizeTokenLifecycle(c.lifecycle)]
    BY <1>1 DEF Normal
  <2>2. Seconds(n).n = n BY DEF Seconds
  <2> HIDE DEF n
  <2> QED BY <2>1, <2>2
<1>5. n >= -1
  <2>1. Null \notin Int /\ TRUE \in BOOLEAN BY DEF DeploymentConstants
  <2>2. n = Null \/ (n \in Int /\ (n > 0 \/ n \in {0, -1})) BY <1>2, <2>1, DurationIs
  <2>3. n # Null BY <1>3
  <2> HIDE DEF n
  <2> QED BY <2>2, <2>3
<1> QED BY <1>2, <1>3, <1>4, <1>5, LifecycleIs

LEMMA KeysShown == ASSUME DeploymentConstants, ConfigInv PROVE AcceptedKeysWork
<1> SUFFICES ASSUME part = "keys", config.stage = "normal" PROVE AcceptedKeysWork BY DEF AcceptedKeysWork
<1>0. PICK c \in KeyConfigs : \E i \in DOMAIN c.keys :
        (\A j \in DOMAIN c.keys : NormalKeys(c)[j] # Null) /\ config.c = Accepted(c, i)
  BY DEF ConfigInv
<1>1. PICK i \in DOMAIN c.keys :
        (\A j \in DOMAIN c.keys : NormalKeys(c)[j] # Null) /\ config.c = Accepted(c, i)
  BY <1>0
<1>2. /\ config.c.activeKey = NormalKeys(c)[i] /\ config.c.keys = NormalKeys(c) /\ config.c.written = c.keys[i]
  BY <1>1 DEF Accepted
<1>3. ASSUME NEW j \in DOMAIN c.keys
      PROVE  /\ NormalKeys(c)[j] = NormalizeJwtKey(c.keys[j])
             /\ NormalKeys(c)[j].algorithm = c.keys[j].algorithm
             /\ NormalKeys(c)[j].signingKey = FirstOf(c.keys[j].signingKey, c.keys[j].secret)
             /\ NormalKeys(c)[j].verificationKey =
                  FirstOf(c.keys[j].verificationKey, FirstOf(c.keys[j].secret, c.keys[j].signingKey))
             /\ NormalKeys(c)[j].signingKey # Null /\ NormalKeys(c)[j].verificationKey # Null
             /\ c.keys[j].algorithm \in Hmac => StrongHmacSecret(NormalKeys(c)[j].signingKey)
  <2>1. NormalKeys(c)[j] = NormalizeJwtKey(c.keys[j]) BY DEF NormalKeys
  <2>2. NormalizeJwtKey(c.keys[j]) # Null BY <1>1, <2>1
  <2> QED BY <2>1, <2>2 DEF NormalizeJwtKey
<1> DEFINE k == NormalKeys(c)[i]
           w == c.keys[i]
           S == {w.secret, w.signingKey, w.verificationKey} \ {Null}
<1>4. k.signingKey \in S /\ k.verificationKey \in S /\ k.algorithm = w.algorithm
      /\ (k.algorithm \in Hmac => k.signingKey.half = "secret")
  BY <1>3 DEF FirstOf, StrongHmacSecret
<1>5. \A x, y \in S : x.half = "secret" /\ x.pair = y.pair => x = y BY DEF DeploymentConstants
<1>6. \A j \in DOMAIN config.c.keys :
        config.c.keys[j].algorithm \in Hmac => config.c.keys[j].signingKey.bytes >= 32
  <2>1. DOMAIN config.c.keys = DOMAIN c.keys BY <1>2 DEF NormalKeys
  <2> QED BY <1>2, <1>3, <2>1 DEF StrongHmacSecret
<1> HIDE DEF k, S
<1>7. \/ Verifies(k.algorithm, k.signingKey, k.verificationKey)
      \/ k.algorithm \notin Hmac /\ k.signingKey.half # "private"
      \/ \E x, y \in S : x.pair # y.pair
  BY <1>4, <1>5 DEF Verifies
<1> QED BY <1>2, <1>6, <1>7 DEF AcceptedKeysWork, k, S

-----------------------------------------------------------------------------
(* The parts but the rotation.  A process keeps its instances apart         *)
(* whichever way and in whatever order they are built; a configuration that *)
(* normalising accepts is sound, a JWT key that is accepted verifies what   *)
(* it signs, and no two kinds of entry of the store share a key, whatever   *)
(* ids, tokens and devices are made of.                                     *)
DeploymentIInv == RotationInv /\ InstancesInv /\ ConfigInv

LEMMA NodesAreValid ==
  ASSUME RotationConstants, RotationInv
  PROVE  /\ \A n \in Nodes : Valid(conf[n]) /\ conf[n].keys \subseteq Kids
         /\ clock \in 0 .. MaxClock /\ \A t \in tokens : t.kid \in Kids /\ clock < t.exp
<1>1. ASSUME NEW n \in Nodes PROVE Valid(conf[n]) /\ conf[n].keys \subseteq Kids
  <2>1. conf[n].keys \subseteq Kids BY DEF RotationInv
  <2>2. \E kids, active : Runs(n, kids, active) /\ active \in kids BY DEF RotationInv, NodesRun, Rollout, Both
  <2> QED BY <2>1, <2>2 DEF Runs, Valid
<1>2. ASSUME NEW t \in tokens PROVE t.kid \in Kids /\ clock < t.exp
  <2>1. Signed(t) BY DEF RotationInv
  <2> QED BY <2>1 DEF Signed, RotationInv, Both, Rollout
<1> QED BY <1>1, <1>2 DEF RotationInv

THEOREM DeploymentHolds == DeploymentSpec => []DeploymentInv
<1> USE DeploymentAssumption
<1>1. RotationConstants BY RotationAssumed
<1>2. DeploymentInit => DeploymentIInv
  BY <1>1, RotationStarts, InstancesStart, ConfigStarts DEF DeploymentInit, DeploymentIInv
<1>3. DeploymentIInv /\ [DeploymentNext]_deploymentVars => DeploymentIInv'
  BY <1>1, RotationKept, InstancesKept, ConfigKept DEF DeploymentIInv
<1>4. DeploymentIInv => DeploymentInv
  <2> SUFFICES ASSUME DeploymentIInv PROVE DeploymentInv OBVIOUS
  <2> USE DEF DeploymentIInv
  <2>1. \A o \in CreateOptions : o.store \notin Instances BY DEF DeploymentConstants
  <2>2. /\ DefaultIsOne /\ InstancesAreIsolated
        /\ \A l \in DOMAIN default : default[l] # Null => instances[default[l]].stage = "ready"
    BY <2>1, InstancesShown
  <2>3. DeploymentTypeOK BY <1>1, <2>2, NodesAreValid DEF DeploymentTypeOK
  <2>4. ConfigIsSound BY ConfigShown
  <2>5. AcceptedKeysWork BY KeysShown
  <2> QED BY <2>2, <2>3, <2>4, <2>5, NamesHold DEF DeploymentInv
<1> QED BY <1>2, <1>3, <1>4, PTL DEF DeploymentSpec

-----------------------------------------------------------------------------
(* The inspector's HTTP boundary, for any accounts, devices and numbers.    *)
(* What a request is, and who is let past the auth callback.                *)
Numbered == request.route.path \in {"/sessions", "/events"} =>
              {request.query.page, request.query.size} \subseteq Once(Numbers)

LetThrough ==
  /\ stage \in {"idle", "auth", "handler", "answered"}
  /\ stage # "answered" => answer = Null
  /\ stage = "idle" => request = NothingAsked
  /\ stage = "handler" => Authorised

BridgeIInv == LetThrough /\ Numbered /\ BridgeInv

LEMMA NumbersOrInt ==
  ASSUME NEW values \in Once(Numbers), NEW usual \in Int
  PROVE  NumberOr(values, usual) \in Int
<1>1. Numbers \subseteq Int BY BridgeAssumption DEF BridgeConstants
<1>2. values = <<>> \/ \E x \in Numbers : values = <<x>> BY DEF Once
<1>3. CASE values = <<>> BY <1>3 DEF NumberOr, QueryValue
<1>4. CASE values # <<>>
  <2>1. PICK x \in Numbers : values = <<x>> BY <1>2, <1>4
  <2>2. QueryValue(values) = x BY <1>4, <2>1 DEF QueryValue
  <2> QED BY <1>1, <2>1, <2>2 DEF NumberOr
<1> QED BY <1>3, <1>4

LEMMA RoutesHaveHandlers ==
  ASSUME NEW route \in BRIDGE_ROUTE_TABLE \cup INSPECTOR_ROUTES \cup ControllerRoutes
  PROVE  HasHandler(route)
BY DEF BRIDGE_ROUTE_TABLE, INSPECTOR_ROUTES, ControllerRoutes, Route, HasHandler

LEMMA DeliverKeeps ==
  ASSUME BridgeIInv, NEW route, Deliver(route)
  PROVE  BridgeIInv'
<1>1. /\ stage = "idle" /\ stage' = "auth" /\ answer' = answer
  BY DEF Deliver
<1>2. PICK q \in Queries(route.path), b \in Bodies(route.path), h \in Headers :
        request' = [route |-> route, query |-> q, body |-> b, headers |-> h]
  BY DEF Deliver
<1>3. answer' = Null BY <1>1 DEF BridgeIInv, LetThrough
<1>4. LetThrough' BY <1>1, <1>3 DEF LetThrough
<1>5. Numbered'
  <2> SUFFICES ASSUME route.path \in {"/sessions", "/events"}
               PROVE  {q.page, q.size} \subseteq Once(Numbers)
    BY <1>2 DEF Numbered
  <2>1. q \in [page: Once(Numbers), size: Once(Numbers), loginId: {<<>>}] BY DEF Queries
  <2> QED BY <2>1
<1> QED BY <1>3, <1>4, <1>5 DEF BridgeIInv, BridgeInv, OnlyPrintsLeave, MountedRoutesAnswer, PagesAreBounded

(* What a handler answers to a caller let through. *)
LEMMA GoodAnswer ==
  ASSUME BridgeIInv, UNCHANGED request, Authorised,
         NEW said, NEW carries, NEW at, NEW size \in Nat \ {0}, NEW count \in 0 .. size,
         answer' = Answering(said, carries, at, size, count),
         \A x \in carries : x[1] \notin Raw,
         said = 404 => ~HasHandler(request.route),
         request.route.path = "/sessions" => at >= 0 /\ size <= Most,
         request.route.path = "/events" => size <= Newest
  PROVE  BridgeInv'
<1>1. answer' = [status |-> said, carries |-> carries, at |-> at, size |-> size, count |-> count]
  BY DEF Answering
<1>2. Authorised' BY DEF Authorised
<1>3. OnlyPrintsLeave' BY <1>1, <1>2 DEF OnlyPrintsLeave
<1>4. MountedRoutesAnswer' BY <1>1, RoutesHaveHandlers DEF MountedRoutesAnswer
<1>5. PagesAreBounded' BY <1>1 DEF PagesAreBounded
<1> QED BY <1>3, <1>4, <1>5 DEF BridgeInv

LEMMA BareAnswer ==
  ASSUME BridgeIInv, UNCHANGED request, Authorised, NEW said, NEW carries,
         answer' = Bare(said, carries),
         \A x \in carries : x[1] \notin Raw,
         said = 404 => ~HasHandler(request.route)
  PROVE  BridgeInv'
<1>1. answer' = Answering(said, carries, 0, 1, 0) BY DEF Bare
<1>2. 1 <= Most /\ 1 <= Newest BY BridgeAssumption DEF BridgeConstants
<1>3. 1 \in Nat \ {0} /\ 0 \in 0 .. 1 /\ 0 >= 0 OBVIOUS
<1> QED BY <1>1, <1>2, <1>3, GoodAnswer

(* A refusal carries nothing but the auth callback's error, whoever asked. *)
LEMMA RefusedAnswer ==
  ASSUME NEW said \in {403, 500}, NEW carries \in SUBSET {<<"error", "auth">>}, answer' = Bare(said, carries)
  PROVE  BridgeInv'
<1>1. answer' = [status |-> said, carries |-> carries, at |-> 0, size |-> 1, count |-> 0]
  BY DEF Bare, Answering
<1>2. 1 <= Most /\ 1 <= Newest BY BridgeAssumption DEF BridgeConstants
<1>3. OnlyPrintsLeave'
  <2>1. \A x \in carries : x[1] = "error" /\ x = <<"error", "auth">> OBVIOUS
  <2>2. carries \ {<<"error", "auth">>} = {} OBVIOUS
  <2>3. answer'.carries = carries /\ answer'.status = said BY <1>1
  <2> QED BY <2>1, <2>2, <2>3 DEF OnlyPrintsLeave, Raw
<1>4. MountedRoutesAnswer' BY <1>1 DEF MountedRoutesAnswer
<1>5. PagesAreBounded' BY <1>1, <1>2 DEF PagesAreBounded
<1> QED BY <1>3, <1>4, <1>5 DEF BridgeInv

LEMMA HandlerAnswers ==
  ASSUME BridgeIInv, UNCHANGED <<mayMutate, request>>, Authorised, HandlerOf(request.route)
  PROVE  BridgeInv'
<1> DEFINE path == request.route.path
<1>0. 403 \in {403, 500} /\ {} \in SUBSET {<<"error", "auth">>} OBVIOUS
<1>1. CASE answer' = Failure({}) \/ Failed
  <2>1. answer' = Bare(500, {<<"error", "engine">>}) BY <1>1 DEF Failed, Failure
  <2>2. \A x \in {<<"error", "engine">>} : x[1] \notin Raw BY DEF Raw
  <2> QED BY <2>1, <2>2, BareAnswer
<1>2. CASE ready /\ answer' = Bare(200, DescribeInstance)
  <2>1. \A x \in DescribeInstance : x[1] \notin Raw BY DEF DescribeInstance, Raw
  <2> QED BY <1>2, <2>1, BareAnswer
<1>3. CASE path = "/events" /\ Events
  <2> DEFINE after == NumberOr(request.query.page, 0)
             limit == Clamp(NumberOr(request.query.size, UsualLimit), 1, Newest)
             count == Clamp(Newest - Clamp(after, 0, Newest), 0, limit)
  <2>1. request.query.page \in Once(Numbers) /\ request.query.size \in Once(Numbers)
    BY <1>3 DEF BridgeIInv, Numbered
  <2>2. UsualLimit \in Int /\ Newest \in Nat \ {0} BY BridgeAssumption DEF BridgeConstants
  <2>3. after \in Int BY <2>1, NumbersOrInt
  <2>4. NumberOr(request.query.size, UsualLimit) \in Int BY <2>1, <2>2, NumbersOrInt
  <2>5. limit \in 1 .. Newest BY <2>2, <2>4 DEF Clamp
  <2> HIDE DEF after
  <2>6. Clamp(after, 0, Newest) \in 0 .. Newest BY <2>2, <2>3 DEF Clamp
  <2> HIDE DEF limit
  <2>7. count \in 0 .. limit BY <2>2, <2>5, <2>6 DEF Clamp
  <2>8. answer' = Answering(200, {}, after, limit, count) BY <1>3 DEF Events, after, limit
  <2> HIDE DEF count
  <2>9. limit \in Nat \ {0} /\ limit <= Newest /\ path # "/sessions" BY <1>3, <2>2, <2>5
  <2> QED BY <2>7, <2>8, <2>9, GoodAnswer
<1>4. CASE answer' = Bare(200, {}) BY <1>4, BareAnswer
<1>5. CASE path = "/sessions" /\ Sessions
  <2> DEFINE from == AtLeast(NumberOr(request.query.page, 0), 0)
             size == Clamp(NumberOr(request.query.size, Usual), 1, Most)
             count == Clamp(Cardinality(Listed) - from * size, 0, size)
  <2>1. request.query.page \in Once(Numbers) /\ request.query.size \in Once(Numbers)
    BY <1>5 DEF BridgeIInv, Numbered
  <2>2. Usual \in Int /\ Most \in Nat \ {0} /\ IsFiniteSet(Users) BY BridgeAssumption DEF BridgeConstants
  <2>3. NumberOr(request.query.page, 0) \in Int BY <2>1, NumbersOrInt
  <2>4. NumberOr(request.query.size, Usual) \in Int BY <2>1, <2>2, NumbersOrInt
  <2>5. from \in Int /\ from >= 0 BY <2>3 DEF AtLeast
  <2>6. size \in 1 .. Most BY <2>2, <2>4 DEF Clamp
  <2>7. Listed \subseteq Users BY DEF Listed
  <2>8. Cardinality(Listed) \in Nat BY <2>2, <2>7, FS_Subset, FS_CardinalityType
  <2> HIDE DEF from, size
  <2>9. Cardinality(Listed) - from * size \in Int
    <3>1. from * size \in Int BY <2>2, <2>5, <2>6
    <3> QED BY <2>8, <3>1
  <2>10. count \in 0 .. size BY <2>2, <2>6, <2>9 DEF Clamp
  <2>11. answer' = Answering(200, {}, from, size, count) \/ Failed
    BY <1>5 DEF Sessions, Page, from, size
  <2> HIDE DEF count
  <2>12. size \in Nat \ {0} /\ size <= Most /\ path # "/events" BY <1>5, <2>2, <2>6
  <2> QED BY <1>1, <2>5, <2>10, <2>11, <2>12, GoodAnswer
<1>6. CASE answer' = Bare(400, {}) BY <1>6, BareAnswer
<1>7. CASE SessionDevices
  <2> DEFINE u == QueryValue(request.query.loginId)
             carries == UNION {SanitizeDevice(u, d) : d \in deviceLists[u]}
  <2>1. CASE answer' = Bare(200, carries)
    <3>1. \A x \in carries : x[1] \notin Raw BY DEF SanitizeDevice, Fingerprinted, Raw
    <3> HIDE DEF carries
    <3> QED BY <2>1, <3>1, BareAnswer
  <2> QED BY <1>1, <1>6, <1>7, <2>1 DEF SessionDevices
<1>8. ASSUME NEW ended, Act(ended) PROVE BridgeInv'
  <2>1. \/ answer' = Bare(403, {}) \/ answer' = Bare(400, {}) \/ answer' = Bare(200, {})
        \/ answer' = Failure({}) \/ Failed
    BY <1>8 DEF Act
  <2> QED BY <1>0, <1>1, <1>4, <1>6, <2>1, RefusedAnswer
<1>9. ASSUME path = "/actions/kickout", NEW d, KickoutOrphan(request.body.loginId, d) PROVE BridgeInv'
  <2> DEFINE u == request.body.loginId
             carries == {<<"error", "engine">>, DeadToken(u, d)}
  <2>1. mayMutate /\ answer' = Bare(500, carries) BY <1>9 DEF KickoutOrphan, Failure
  <2>2. \A x \in carries : x[1] \in Raw => x[1] = "deadToken" /\ x[2] = u BY DEF Raw, DeadToken
  <2> HIDE DEF carries
  <2>3. answer' = [status |-> 500, carries |-> carries, at |-> 0, size |-> 1, count |-> 0]
    BY <2>1 DEF Bare, Answering
  <2>4. answer'.carries = carries /\ answer'.status = 500 BY <2>3
  <2>5. OnlyPrintsLeave' BY <1>9, <2>1, <2>2, <2>4 DEF OnlyPrintsLeave, Authorised
  <2>6. MountedRoutesAnswer' BY <2>4 DEF MountedRoutesAnswer
  <2>7. PagesAreBounded' BY <1>9, <2>3 DEF PagesAreBounded
  <2> QED BY <2>5, <2>6, <2>7 DEF BridgeInv
<1> QED BY <1>1, <1>2, <1>3, <1>4, <1>5, <1>7, <1>8, <1>9
        DEF HandlerOf, Overview, Metrics, Kickout, Logout, Route

LEMMA BridgeKept == ASSUME BridgeIInv, [BridgeNext]_bridgeVars PROVE BridgeIInv'
<1> USE DEF BridgeIInv
<1>1. CASE UNCHANGED bridgeVars \/ Surroundings
  <2>1. UNCHANGED <<mayMutate, stage, request, answer>> BY <1>1 DEF bridgeVars, Surroundings
  <2> QED BY <2>1 DEF LetThrough, Numbered, BridgeInv, OnlyPrintsLeave, MountedRoutesAnswer, PagesAreBounded,
                      Authorised
<1>2. CASE \E route : Deliver(route) BY <1>2, DeliverKeeps
<1>3. CASE Authenticate
  <2>1. stage = "auth" /\ UNCHANGED request /\ answer = Null BY <1>3 DEF Authenticate, LetThrough
  <2>2. Numbered' BY <2>1 DEF Numbered
  <2>3. CASE Authorised /\ stage' = "handler" /\ UNCHANGED answer
    <3>1. answer' = Null BY <2>1, <2>3
    <3>2. LetThrough' BY <2>1, <2>3, <3>1 DEF LetThrough, Authorised
    <3> QED BY <2>2, <3>1, <3>2 DEF BridgeInv, OnlyPrintsLeave, MountedRoutesAnswer, PagesAreBounded
  <2>4. CASE stage' = "answered" /\ \E said \in {403, 500}, carries \in SUBSET {<<"error", "auth">>} :
                                       answer' = Bare(said, carries)
    <3>1. LetThrough' BY <2>4 DEF LetThrough
    <3> QED BY <2>2, <2>4, <3>1, RefusedAnswer
  <2>5. /\ 403 \in {403, 500} /\ 500 \in {403, 500}
        /\ {} \in SUBSET {<<"error", "auth">>} /\ {<<"error", "auth">>} \in SUBSET {<<"error", "auth">>}
    OBVIOUS
  <2> QED BY <1>3, <2>3, <2>4, <2>5 DEF Authenticate
<1>4. CASE Handle
  <2>1. stage = "handler" /\ stage' = "answered" /\ UNCHANGED <<mayMutate, request>> /\ Authorised
    BY <1>4 DEF Handle, LetThrough
  <2>2. LetThrough' BY <2>1 DEF LetThrough
  <2>3. Numbered' BY <2>1 DEF Numbered
  <2>4. BridgeInv'
    <3>1. CASE ~HasHandler(request.route) /\ answer' = Bare(404, {}) BY <2>1, <3>1, BareAnswer
    <3>2. CASE HandlerOf(request.route) BY <2>1, <3>2, HandlerAnswers
    <3> QED BY <1>4, <3>1, <3>2 DEF Handle
  <2> QED BY <2>2, <2>3, <2>4
<1>5. CASE SendAnswer
  <2>1. stage' = "idle" /\ request' = NothingAsked /\ answer' = Null BY <1>5 DEF SendAnswer
  <2>2. LetThrough' BY <2>1 DEF LetThrough
  <2>3. Numbered' BY <2>1 DEF Numbered, NothingAsked, Route
  <2> QED BY <2>1, <2>2, <2>3 DEF BridgeInv, OnlyPrintsLeave, MountedRoutesAnswer, PagesAreBounded
<1> QED BY <1>1, <1>2, <1>3, <1>4, <1>5
        DEF BridgeNext, MountInspectorOnExpress, MountInspectorOnFastify, InspectorController, Unmounted

LEMMA BridgeStarts == BridgeStart => BridgeIInv
BY DEF BridgeStart, BridgeIInv, LetThrough, Numbered, NothingAsked, Route, BridgeInv, OnlyPrintsLeave,
       MountedRoutesAnswer, PagesAreBounded

(* Whatever comes in, by whichever mount: no answer carries a token that is *)
(* still good (a dead one only the failure of a kickout of its account), a  *)
(* caller whom the auth callback has not let through learns nothing but that *)
(* callback's own error, every mounted route has its handler, and pages are *)
(* bounded.                                                                 *)
THEOREM BoundaryHolds == BridgeSpec => []BridgeInv
<1>1. BridgeIInv => BridgeInv BY DEF BridgeIInv
<1>2. BridgeIInv /\ [BridgeNext]_bridgeVars => BridgeIInv' BY BridgeKept
<1> QED BY <1>1, <1>2, BridgeStarts, PTL DEF BridgeSpec

DevicesListed == deviceLists \in [Users -> SUBSET DeviceNames]

LEMMA ListsKept == ASSUME DevicesListed, [BridgeNext]_bridgeVars PROVE DevicesListed'
<1> USE DEF DevicesListed
<1>1. CASE UNCHANGED deviceLists BY <1>1
<1>2. CASE \E ended : Act(ended)
  <2>1. PICK ended : Act(ended) BY <1>2
  <2> DEFINE v == request.body.loginId
  <2>2. CASE deviceLists' = [deviceLists EXCEPT ![v] = deviceLists[v] \ ended] BY <2>2
  <2> QED BY <1>1, <2>1, <2>2 DEF Act, Failed
<1>2a. CASE \E u, d : KickoutOrphan(u, d) BY <1>1, <1>2a DEF KickoutOrphan
<1>3. CASE Surroundings
  <2>1. CASE \E u \in Users, d \in DeviceNames :
               deviceLists' = [deviceLists EXCEPT ![u] = IF d \in deviceLists[u] THEN deviceLists[u] \ {d}
                                                         ELSE deviceLists[u] \cup {d}]
    <3>1. PICK u \in Users, d \in DeviceNames :
            deviceLists' = [deviceLists EXCEPT ![u] = IF d \in deviceLists[u] THEN deviceLists[u] \ {d}
                                                      ELSE deviceLists[u] \cup {d}]
      BY <2>1
    <3> QED BY <3>1
  <2> QED BY <1>1, <1>3, <2>1 DEF Surroundings
<1>4. CASE Handle
  <2>1. UNCHANGED deviceLists \/ HandlerOf(request.route) BY <1>4 DEF Handle
  <2>2. CASE HandlerOf(request.route)
    BY <1>1, <1>2, <1>2a, <2>2 DEF HandlerOf, Overview, Events, Metrics, Sessions, Page, SessionDevices, Failed, Kickout,
                            Logout
  <2> QED BY <1>1, <2>1, <2>2
<1> QED BY <1>1, <1>3, <1>4
        DEF BridgeNext, bridgeVars, MountInspectorOnExpress, MountInspectorOnFastify, InspectorController,
            Unmounted, Deliver, Authenticate, SendAnswer

LEMMA OnlyActionsEnd ==
  ASSUME DevicesListed, BridgeIInv, BridgeNext PROVE HitsItsTarget
<1> SUFFICES ASSUME answer' # answer, deviceLists' # deviceLists
             PROVE  /\ mayMutate /\ Authorised
                    /\ \A u \in Users : deviceLists'[u] # deviceLists[u] => u = request.body.loginId
                    /\ request.route.path = "/actions/kickout" =>
                         \A u \in Users : Cardinality(deviceLists[u] \ deviceLists'[u]) <= 1
  BY DEF HitsItsTarget
<1>1. Handle /\ HandlerOf(request.route)
  BY DEF BridgeNext, MountInspectorOnExpress, MountInspectorOnFastify, InspectorController, Unmounted, Deliver,
         Authenticate, Handle, SendAnswer, Surroundings
<1>2. Authorised BY <1>1 DEF Handle, BridgeIInv, LetThrough
<1>3. \/ request.route = Route("POST", "/actions/kickout") /\ Kickout
      \/ request.route = Route("POST", "/actions/logout") /\ Logout
  BY <1>1 DEF HandlerOf, Overview, Events, Metrics, Sessions, Page, SessionDevices, Failed
<1> DEFINE v == request.body.loginId
<1>4. ASSUME NEW ended, Act(ended)
      PROVE  mayMutate /\ deviceLists' = [deviceLists EXCEPT ![v] = deviceLists[v] \ ended]
  BY <1>4 DEF Act, Failed
<1>5. ASSUME NEW ended, Act(ended), NEW u \in Users, deviceLists'[u] # deviceLists[u]
      PROVE  u = v
  BY <1>4, <1>5 DEF DevicesListed
<1>6. ASSUME Kickout, NEW u \in Users PROVE Cardinality(deviceLists[u] \ deviceLists'[u]) <= 1
  <2> DEFINE d == IF request.body.device = Null THEN DefaultDevice ELSE request.body.device
             S == deviceLists[u] \ deviceLists'[u]
  <2>1. deviceLists' = [deviceLists EXCEPT ![v] = deviceLists[v] \ {d}]
    BY <1>4, <1>6 DEF Kickout, KickoutOrphan
  <2>2. S \subseteq {d} BY <2>1
  <2>3. IsFiniteSet({d}) /\ Cardinality({d}) = 1 BY FS_Singleton
  <2> HIDE DEF S, d
  <2>4. Cardinality(S) <= Cardinality({d}) BY <2>2, <2>3, FS_Subset
  <2> QED BY <2>3, <2>4 DEF S
<1>7. request.route.path = "/actions/kickout" => Kickout BY <1>3 DEF Route
<1> QED BY <1>2, <1>3, <1>4, <1>5, <1>6, <1>7 DEF Kickout, KickoutOrphan, Logout

(* An answer ends sessions only where mutations are allowed, for a caller   *)
(* let through, of the account the body names, a kickout those of one device. *)
THEOREM ActionsAimed == BridgeSpec => ActionsHitTheirTarget
<1>1. BridgeIInv /\ [BridgeNext]_bridgeVars => BridgeIInv' BY BridgeKept
<1>2. DevicesListed /\ [BridgeNext]_bridgeVars => DevicesListed' BY ListsKept
<1>3. BridgeStart => DevicesListed BY DEF BridgeStart, DevicesListed
<1>4. DevicesListed /\ BridgeIInv /\ [BridgeNext]_bridgeVars => [HitsItsTarget]_<<deviceLists, answer>>
  BY OnlyActionsEnd DEF bridgeVars
<1> QED BY <1>1, <1>2, <1>3, <1>4, BridgeStarts, PTL DEF BridgeSpec, ActionsHitTheirTarget

-----------------------------------------------------------------------------
(* The session panel, for any accounts, devices and page sizes and any      *)
(* number of functions under way.                                           *)
Filling == {"devices", "rows"}

Totals == [loginCount: Nat, refreshCount: Nat, logoutCount: Nat, anomalyCount: Nat, tracked: Nat]

AddsUp(m) ==
  m # Null => m.loginCount + m.refreshCount + m.logoutCount + m.anomalyCount = m.tracked

ActRecords ==
  [name: Accounts \cup {Null}, device: Devices \cup {Null, Default},
   meant: Accounts \cup {Null}, alone: BOOLEAN]

ProcRecords ==
  [pc: {"idle", "sessions", "list", "devices", "rows", "metrics", "cards", "act", "acted"},
   page: Nat, left: SUBSET {"ids", "count"}, ids: Seq(Accounts), total: Nat, targets: SUBSET Nat,
   got: SUBSET Devices, attached: BOOLEAN, body: Totals \cup {Null}, act: ActRecords]

RowRecords == [id: Accounts, devices: SUBSET Devices, open: {"closed", "loading", "shown", "failed"}]

ViewRecords ==
  [booted: BOOLEAN, page: Nat, total: Nat, label: Nat, of: Nat, expanded: SUBSET Accounts,
   rows: Seq(RowRecords), named: Accounts \cup {Null}, metrics: Totals \cup {Null}]

EngineFits ==
  /\ online \in Seq(Accounts) /\ \A i, j \in 1 .. Len(online) : online[i] = online[j] => i = j
  /\ devices \in [Accounts -> SUBSET Devices]
  /\ \A a \in Accounts : devices[a] # {} <=> \E i \in 1 .. Len(online) : online[i] = a
  /\ buffer \in Seq(Types) /\ Len(buffer) <= Buffered

(* A function that fills rows has some left to fill; an action has an       *)
(* account, and the one of its row if alone.                                *)
ProcFits(q) ==
  /\ q \in ProcRecords /\ Len(q.ids) <= PageSize
  /\ q.pc \in Filling => q.targets # {} /\ q.targets \subseteq 1 .. Len(q.ids)
  /\ q.pc = "act" => q.act.name \in Accounts
  /\ q.act.alone => q.act.name = q.act.meant
  /\ AddsUp(q.body)

(* The rows that are not closed *)
OpenRows(rows) == {i \in 1 .. Len(rows) : rows[i].open # "closed"}

(* What the page's variable names: with one session expanded, its account.  *)
NamesRow(v) ==
  /\ OpenRows(v.rows) # {} => v.named \in Accounts
  /\ \A j \in OpenRows(v.rows) : OpenRows(v.rows) = {j} => v.named = v.rows[j].id

ViewFits ==
  /\ view \in ViewRecords /\ Len(view.rows) <= PageSize /\ NamesRow(view)
  /\ \A i \in 1 .. Len(view.rows) : view.rows[i].open # "shown" => view.rows[i].devices = {}
  /\ AddsUp(view.metrics)

(* A function whose rows are in the document has their accounts, and fills  *)
(* rows that are open.                                                      *)
Fills(q, v) ==
  q.attached /\ q.pc \in Filling =>
    /\ Len(q.ids) = Len(v.rows) /\ \A i \in 1 .. Len(v.rows) : q.ids[i] = v.rows[i].id
    /\ q.targets \subseteq OpenRows(v.rows)

Serves(q, i) == q.attached /\ q.pc \in Filling /\ i \in q.targets

OnPage(q) == q.pc \in {"sessions", "list"} => q.page = view.page

ProcsFit == proc = [p \in Procs |-> proc[p]] /\ \A p \in Procs : ProcFits(proc[p])

RowsServed ==
  /\ \A p \in Procs : Fills(proc[p], view)
  /\ \A i \in 1 .. Len(view.rows) :
       view.rows[i].open = "loading" => \E p \in Procs : Serves(proc[p], i)

PagesKept ==
  /\ ~crossed => view.label = view.of /\ \A p \in Procs : OnPage(proc[p])
  /\ ~view.booted => \A p \in Procs : AtRest(p)

PanelIInv == EngineFits /\ ProcsFit /\ ViewFits /\ RowsServed /\ PagesKept /\ steps \in Nat

-----------------------------------------------------------------------------
LEMMA PanelConstants ==
  /\ PageSize \in Nat \ {0} /\ Buffered \in Nat /\ IsFiniteSet(Devices)
  /\ First \in Seq(Accounts) /\ \A i, j \in 1 .. Len(First) : First[i] = First[j] => i = j
<1>1. First \in Seq({First[i] : i \in DOMAIN First}) BY PanelAssumption DEF IsSequence
<1>2. DOMAIN First = 1 .. Len(First) BY <1>1, LenProperties
<1>3. First \in Seq(Accounts) BY <1>1, <1>2 DEF Accounts
<1> QED BY <1>2, <1>3, PanelAssumption

LEMMA ShorterFits ==
  ASSUME NEW S, NEW s \in Seq(S), NEW n \in Nat
  PROVE  Shorter(s, n) \in Seq(S) /\ Len(Shorter(s, n)) <= n
<1> DEFINE m == IF Len(s) < n THEN Len(s) ELSE n
<1>1. Len(s) \in Nat /\ \A i \in 1 .. Len(s) : s[i] \in S BY LenProperties, ElementOfSeq
<1>2. m \in Nat /\ m <= Len(s) /\ m <= n BY <1>1
<1>3. Shorter(s, n) = SubSeq(s, 1, m) BY DEF Shorter
<1> HIDE DEF m
<1>4. \A i \in 1 .. m : s[i] \in S BY <1>1, <1>2
<1>5. SubSeq(s, 1, m) \in Seq(S) /\ Len(SubSeq(s, 1, m)) = IF 1 <= m THEN m - 1 + 1 ELSE 0
  BY <1>2, <1>4, SubSeqProperties
<1> QED BY <1>2, <1>3, <1>5

LEMMA LoggedFits ==
  ASSUME EngineFits, NEW types \in Seq(Types), Logged(types)
  PROVE  buffer' \in Seq(Types) /\ Len(buffer') <= Buffered
<1>1. types \o buffer \in Seq(Types) BY ConcatProperties DEF EngineFits
<1>2. buffer' = Shorter(types \o buffer, Buffered) BY DEF Logged
<1> QED BY <1>1, <1>2, ShorterFits, PanelConstants

(* What is listed when one account less is.                                 *)
LEMMA WithoutFits ==
  ASSUME NEW S, NEW s \in Seq(S), \A i, j \in 1 .. Len(s) : s[i] = s[j] => i = j,
         NEW k \in 1 .. Len(s)
  PROVE  /\ Without(s, k) \in Seq(S)
         /\ \A i, j \in 1 .. Len(Without(s, k)) : Without(s, k)[i] = Without(s, k)[j] => i = j
         /\ \A x : (\E i \in 1 .. Len(Without(s, k)) : Without(s, k)[i] = x)
                     <=> x # s[k] /\ \E i \in 1 .. Len(s) : s[i] = x
<1>1. Len(s) \in Nat \ {0} /\ \A i \in 1 .. Len(s) : s[i] \in S BY LenProperties, ElementOfSeq
<1> DEFINE n == Len(s) - 1
           w == Without(s, k)
<1>2. n \in Nat /\ Len(s) = n + 1 /\ k \in 1 .. n + 1 BY <1>1
<1>3. w = [i \in 1 .. n |-> IF i < k THEN s[i] ELSE s[i + 1]] BY DEF Without
<1> HIDE DEF n, w
<1>4. \A i \in 1 .. n : w[i] = IF i < k THEN s[i] ELSE s[i + 1] BY <1>3
<1>5. \A i \in 1 .. n : i \in 1 .. Len(s) /\ i + 1 \in 1 .. Len(s) BY <1>2
<1>6. \A i \in 1 .. n : w[i] \in S BY <1>1, <1>4, <1>5
<1>7. w \in [1 .. n -> S] BY <1>3, <1>6
<1>8. w \in Seq(S) /\ Len(w) = n BY <1>2, <1>7
<1>9. ASSUME NEW i \in 1 .. n, NEW j \in 1 .. n, w[i] = w[j] PROVE i = j
  <2>1. CASE i < k /\ j < k BY <1>4, <1>5, <1>9, <2>1
  <2>2. CASE i < k /\ ~(j < k)
    <3>1. s[i] = s[j + 1] BY <1>4, <1>9, <2>2
    <3>2. i = j + 1 BY <1>5, <3>1
    <3> QED BY <1>2, <2>2, <3>2
  <2>3. CASE ~(i < k) /\ j < k
    <3>1. s[i + 1] = s[j] BY <1>4, <1>9, <2>3
    <3>2. i + 1 = j BY <1>5, <3>1
    <3> QED BY <1>2, <2>3, <3>2
  <2>4. CASE ~(i < k) /\ ~(j < k)
    <3>1. s[i + 1] = s[j + 1] BY <1>4, <1>9, <2>4
    <3>2. i + 1 = j + 1 BY <1>5, <3>1
    <3> QED BY <1>2, <3>2
  <2> QED BY <2>1, <2>2, <2>3, <2>4
<1>10. ASSUME NEW x, NEW i \in 1 .. n, w[i] = x PROVE x # s[k] /\ \E j \in 1 .. Len(s) : s[j] = x
  <2>1. CASE i < k
    <3>1. s[i] = x /\ i # k BY <1>2, <1>4, <1>10, <2>1
    <3> QED BY <1>5, <3>1
  <2>2. CASE ~(i < k)
    <3>1. s[i + 1] = x /\ i + 1 # k BY <1>2, <1>4, <1>10, <2>2
    <3> QED BY <1>5, <3>1
  <2> QED BY <2>1, <2>2
<1>11. ASSUME NEW x, x # s[k], NEW j \in 1 .. Len(s), s[j] = x PROVE \E i \in 1 .. n : w[i] = x
  <2>1. j # k BY <1>11
  <2>2. CASE j < k
    <3>1. j \in 1 .. n BY <1>2, <2>2
    <3> QED BY <1>4, <1>11, <2>2, <3>1
  <2>3. CASE j > k
    <3>1. j - 1 \in 1 .. n /\ ~(j - 1 < k) /\ (j - 1) + 1 = j BY <1>2, <2>3
    <3>2. w[j - 1] = s[j] BY <1>4, <3>1
    <3> QED BY <1>11, <3>1, <3>2
  <2> QED BY <1>2, <2>1, <2>2, <2>3
<1> QED BY <1>8, <1>9, <1>10, <1>11 DEF w

LEMMA SmallestIn == ASSUME NEW S \in SUBSET Nat, S # {} PROVE Smallest(S) \in S
<1>1. PICK x \in S : \A y \in S : ~(y < x) BY LeastCounterexample
<1>2. \A y \in S : x <= y BY <1>1
<1> QED BY <1>2 DEF Smallest

(* What the bridge counts. *)
LEMMA MetricsFit == ASSUME EngineFits PROVE MetricsNow \in Totals /\ AddsUp(MetricsNow)
<1> DEFINE I == 1 .. Len(buffer)
           Typed(T) == {i \in I : buffer[i] \in T}
           L == Typed({"token.logged_in"})
           R == Typed({"token.refreshed"})
           O == Typed({"token.logged_out"})
           A == Typed({"token.kicked_out", "token.replaced", "token.family_revoked"})
<1>1. Len(buffer) \in Nat /\ \A i \in I : buffer[i] \in Types BY LenProperties, ElementOfSeq DEF EngineFits
<1>2. IsFiniteSet(I) /\ Cardinality(I) = Len(buffer)
  <2>1. /\ IsFiniteSet(1 .. Len(buffer))
        /\ Cardinality(1 .. Len(buffer)) = IF 1 > Len(buffer) THEN 0 ELSE Len(buffer) - 1 + 1
    BY <1>1, FS_Interval
  <2> QED BY <1>1, <2>1
<1>3. L \in SUBSET I /\ R \in SUBSET I /\ O \in SUBSET I /\ A \in SUBSET I OBVIOUS
<1>4. I = ((L \cup R) \cup O) \cup A BY <1>1 DEF Types
<1>5. L \cap R = {} /\ (L \cup R) \cap O = {} /\ ((L \cup R) \cup O) \cap A = {} OBVIOUS
<1>6. /\ CountOf({"token.logged_in"}) = Cardinality(L) /\ CountOf({"token.refreshed"}) = Cardinality(R)
      /\ CountOf({"token.logged_out"}) = Cardinality(O)
      /\ CountOf({"token.kicked_out", "token.replaced", "token.family_revoked"}) = Cardinality(A)
  BY DEF CountOf
<1> HIDE DEF L, R, O, A, I
<1>7. IsFiniteSet(L) /\ IsFiniteSet(R) /\ IsFiniteSet(O) /\ IsFiniteSet(A) BY <1>2, <1>3, FS_Subset
<1>8. /\ Cardinality(L) \in Nat /\ Cardinality(R) \in Nat /\ Cardinality(O) \in Nat
      /\ Cardinality(A) \in Nat
  BY <1>7, FS_CardinalityType
<1>9. IsFiniteSet(L \cup R) /\ Cardinality(L \cup R) = Cardinality(L) + Cardinality(R)
  <2>1. Cardinality(L \cap R) = 0 BY <1>5, FS_EmptySet
  <2>2. Cardinality(L \cup R) = Cardinality(L) + Cardinality(R) - Cardinality(L \cap R) BY <1>7, FS_Union
  <2>3. IsFiniteSet(L \cup R) BY <1>7, FS_Union
  <2> QED BY <1>8, <2>1, <2>2, <2>3
<1>10. /\ IsFiniteSet((L \cup R) \cup O)
       /\ Cardinality((L \cup R) \cup O) = Cardinality(L) + Cardinality(R) + Cardinality(O)
  <2>1. Cardinality((L \cup R) \cap O) = 0 BY <1>5, FS_EmptySet
  <2>2. Cardinality((L \cup R) \cup O) = Cardinality(L \cup R) + Cardinality(O) - Cardinality((L \cup R) \cap O)
    BY <1>7, <1>9, FS_Union
  <2>3. IsFiniteSet((L \cup R) \cup O) BY <1>7, <1>9, FS_Union
  <2> QED BY <1>8, <1>9, <2>1, <2>2, <2>3
<1>11. Cardinality(I) = Cardinality(L) + Cardinality(R) + Cardinality(O) + Cardinality(A)
  <2>1. Cardinality(((L \cup R) \cup O) \cap A) = 0 BY <1>5, FS_EmptySet
  <2>2. Cardinality(I) = Cardinality((L \cup R) \cup O) + Cardinality(A)
                          - Cardinality(((L \cup R) \cup O) \cap A)
    BY <1>4, <1>7, <1>10, FS_Union
  <2> QED BY <1>8, <1>10, <2>1, <2>2
<1> QED BY <1>1, <1>2, <1>6, <1>8, <1>11 DEF MetricsNow, Totals, AddsUp

-----------------------------------------------------------------------------
(* The engine's steps *)
LEMMA EndFits ==
  ASSUME EngineFits, NEW a \in Accounts, NEW D \in SUBSET (Devices \cup {Default}), NEW type \in Types, End(a, D, type)
  PROVE  EngineFits'
<1> DEFINE left == devices[a] \ D
           n == Cardinality(devices[a] \cap D)
           types == [i \in 1 .. n |-> type]
           k == CHOOSE j \in 1 .. Len(online) : online[j] = a
<1>1. devices \in [Accounts -> SUBSET Devices] /\ devices[a] \in SUBSET Devices BY DEF EngineFits
<1>2. n \in Nat
  <2>1. devices[a] \cap D \in SUBSET Devices BY <1>1
  <2>2. IsFiniteSet(devices[a] \cap D) BY <2>1, PanelConstants, FS_Subset
  <2> QED BY <2>2, FS_CardinalityType
<1>3. types \in Seq(Types)
  <2> HIDE DEF n
  <2>1. types \in [1 .. n -> Types] OBVIOUS
  <2> QED BY <1>2, <2>1
<1>4. Logged(types) BY DEF End
<1>5. buffer' \in Seq(Types) /\ Len(buffer') <= Buffered
  <2> HIDE DEF types
  <2> QED BY <1>3, <1>4, LoggedFits
<1>6. devices' = [devices EXCEPT ![a] = left] BY DEF End
<1>7. online' = IF devices[a] # {} /\ left = {} THEN Without(online, k) ELSE online BY DEF End
<1> HIDE DEF left, k
<1>8. left \in SUBSET Devices /\ left \subseteq devices[a] BY <1>1 DEF left
<1>9. /\ devices' \in [Accounts -> SUBSET Devices]
      /\ \A b \in Accounts : devices'[b] = IF b = a THEN left ELSE devices[b]
  BY <1>1, <1>6, <1>8
<1>10. CASE devices[a] # {} /\ left = {}
  <2>1. \E j \in 1 .. Len(online) : online[j] = a BY <1>10 DEF EngineFits
  <2>2. k \in 1 .. Len(online) /\ online[k] = a BY <2>1 DEF k
  <2>3. online' = Without(online, k) BY <1>7, <1>10
  <2>4. /\ online' \in Seq(Accounts)
        /\ \A i, j \in 1 .. Len(online') : online'[i] = online'[j] => i = j
        /\ \A x : (\E i \in 1 .. Len(online') : online'[i] = x)
                    <=> x # online[k] /\ \E i \in 1 .. Len(online) : online[i] = x
    <3>1. online \in Seq(Accounts) /\ \A i, j \in 1 .. Len(online) : online[i] = online[j] => i = j
      BY DEF EngineFits
    <3>2. /\ Without(online, k) \in Seq(Accounts)
          /\ \A i, j \in 1 .. Len(Without(online, k)) : Without(online, k)[i] = Without(online, k)[j] => i = j
          /\ \A x : (\E i \in 1 .. Len(Without(online, k)) : Without(online, k)[i] = x)
                      <=> x # online[k] /\ \E i \in 1 .. Len(online) : online[i] = x
      BY <2>2, <3>1, WithoutFits
    <3> QED BY <2>3, <3>2
  <2>5. \A b \in Accounts : devices'[b] # {} <=> \E i \in 1 .. Len(online') : online'[i] = b
    BY <1>9, <1>10, <2>2, <2>4 DEF EngineFits
  <2> QED BY <1>5, <1>9, <2>4, <2>5 DEF EngineFits
<1>11. CASE ~(devices[a] # {} /\ left = {})
  <2>1. online' = online BY <1>7, <1>11
  <2>2. \A b \in Accounts : devices'[b] # {} <=> devices[b] # {} BY <1>8, <1>9, <1>11
  <2>3. \A b \in Accounts : devices'[b] # {} <=> \E i \in 1 .. Len(online') : online'[i] = b
    BY <2>1, <2>2 DEF EngineFits
  <2> QED BY <1>5, <1>9, <2>1, <2>3 DEF EngineFits
<1> QED BY <1>10, <1>11

LEMMA LoginFits ==
  ASSUME EngineFits, NEW a \in Accounts, NEW d \in Devices, LogsIn(a, d)
  PROVE  EngineFits'
<1>1. buffer' \in Seq(Types) /\ Len(buffer') <= Buffered
  <2>1. <<"token.logged_in">> \in Seq(Types) BY DEF Types
  <2> QED BY <2>1, LoggedFits DEF LogsIn
<1>2. devices' = [devices EXCEPT ![a] = devices[a] \cup {d}] /\ devices \in [Accounts -> SUBSET Devices]
  BY DEF LogsIn, EngineFits
<1>3. /\ devices' \in [Accounts -> SUBSET Devices]
      /\ \A b \in Accounts : devices'[b] = IF b = a THEN devices[a] \cup {d} ELSE devices[b]
  BY <1>2
<1>4. CASE devices[a] # {}
  <2>1. online' = online BY <1>4 DEF LogsIn
  <2>2. \A b \in Accounts : devices'[b] # {} <=> \E i \in 1 .. Len(online') : online'[i] = b
    BY <1>3, <1>4, <2>1 DEF EngineFits
  <2> QED BY <1>1, <1>3, <2>1, <2>2 DEF EngineFits
<1>5. CASE devices[a] = {}
  <2>1. online' = Append(online, a) /\ online \in Seq(Accounts) /\ Len(online) \in Nat
    BY <1>5, LenProperties DEF LogsIn, EngineFits
  <2> DEFINE n == Len(online)
  <2>2. /\ online' \in Seq(Accounts) /\ Len(online') = n + 1
        /\ \A i \in 1 .. n + 1 : online'[i] = IF i = n + 1 THEN a ELSE online[i]
    BY <2>1
  <2>3. \A i \in 1 .. n : online[i] # a BY <1>5 DEF EngineFits
  <2>4. \A i, j \in 1 .. n : online[i] = online[j] => i = j BY DEF EngineFits
  <2>5. n \in Nat BY <2>1
  <2> HIDE DEF n
  <2>6. \A i, j \in 1 .. n + 1 : online'[i] = online'[j] => i = j BY <2>2, <2>3, <2>4, <2>5
  <2>7. \A b \in Accounts : (\E i \in 1 .. n + 1 : online'[i] = b) <=> b = a \/ \E i \in 1 .. n : online[i] = b
    BY <2>2, <2>5
  <2>8. \A b \in Accounts : devices[b] # {} <=> \E i \in 1 .. n : online[i] = b BY DEF EngineFits, n
  <2>9. \A b \in Accounts : devices'[b] # {} <=> \E i \in 1 .. Len(online') : online'[i] = b
    BY <1>3, <2>2, <2>7, <2>8
  <2> QED BY <1>1, <1>3, <2>2, <2>6, <2>9 DEF EngineFits
<1> QED BY <1>4, <1>5

-----------------------------------------------------------------------------
(* The page's steps *)
LEMMA ProcsAfter ==
  ASSUME ProcsFit, NEW p \in Procs, NEW q, ProcFits(q), Goes(p, q)
  PROVE  ProcsFit' /\ proc'[p] = q /\ \A o \in Procs : o # p => proc'[o] = proc[o]
<1>1. proc' = [o \in Procs |-> IF o = p THEN q ELSE proc[o]] BY DEF ProcsFit, Goes
<1>2. \A o \in Procs : ProcFits(proc'[o])
  <2> TAKE o \in Procs
  <2>1. proc'[o] = IF o = p THEN q ELSE proc[o] BY <1>1
  <2> QED BY <2>1 DEF ProcsFit
<1>3. proc' = [o \in Procs |-> proc'[o]] BY <1>1
<1>4. ProcsFit' BY <1>2, <1>3 DEF ProcsFit, ProcFits, AddsUp
<1> QED BY <1>1, <1>4

LEMMA NoProcFits == ProcFits(NoProc) /\ NoProc.pc = "idle"
<1>1. NoAct \in ActRecords BY DEF NoAct, ActRecords
<1>2. NoProc \in ProcRecords BY <1>1 DEF NoProc, ProcRecords
<1> QED BY <1>2, PanelConstants DEF ProcFits, NoProc, NoAct, Filling, AddsUp

LEMMA EndedFits == ASSUME NEW q PROVE ProcFits(Ended(q)) /\ Ended(q).pc \in {"idle", "metrics"}
<1>1. ProcFits([NoProc EXCEPT !.pc = "metrics"]) /\ [NoProc EXCEPT !.pc = "metrics"].pc = "metrics"
  BY NoProcFits DEF ProcFits, ProcRecords, Filling
<1> QED BY <1>1, NoProcFits DEF Ended

LEMMA RefreshFits ==
  ASSUME NEW q, ProcFits(q), NEW n \in Nat
  PROVE  LET s == [q EXCEPT !.pc = "sessions", !.left = {"ids", "count"}, !.page = n]
         IN  ProcFits(s) /\ s.pc = "sessions" /\ s.page = n
BY DEF ProcFits, ProcRecords, Filling

(* A step of a function that fills no rows, before and after it. *)
LEMMA RowsStay ==
  ASSUME PanelIInv, NEW p \in Procs, NEW q, ProcFits(q), Goes(p, q),
         proc[p].pc \notin Filling, q.pc \notin Filling, view'.rows = view.rows
  PROVE  RowsServed'
<1>1. proc'[p] = q /\ \A o \in Procs : o # p => proc'[o] = proc[o] BY ProcsAfter DEF PanelIInv
<1>2. \A o \in Procs : Fills(proc'[o], view')
  <2> TAKE o \in Procs
  <2>1. CASE o = p BY <1>1, <2>1 DEF Fills
  <2>2. CASE o # p BY <1>1, <2>2 DEF PanelIInv, RowsServed, Fills, OpenRows
  <2> QED BY <2>1, <2>2
<1>3. ASSUME NEW i \in 1 .. Len(view.rows), view.rows[i].open = "loading"
      PROVE  \E o \in Procs : Serves(proc'[o], i)
  <2>1. PICK o \in Procs : Serves(proc[o], i) BY <1>3 DEF PanelIInv, RowsServed
  <2>2. o # p BY <2>1 DEF Serves
  <2> QED BY <1>1, <2>1, <2>2
<1>4. \A o \in Procs, i \in Nat : Serves(proc[o], i)' <=> Serves(proc'[o], i) BY DEF Serves
<1>5. \A o \in Procs : Fills(proc[o], view)' <=> Fills(proc'[o], view') BY DEF Fills, OpenRows
<1>6. 1 .. Len(view.rows) \subseteq Nat OBVIOUS
<1> QED BY <1>2, <1>3, <1>4, <1>5, <1>6 DEF RowsServed

LEMMA ViewStays == ASSUME ViewFits, UNCHANGED view PROVE ViewFits'
BY DEF ViewFits, NamesRow, OpenRows, AddsUp, ViewRecords

(* The function asks for the page shown, or was asking for it before. *)
LEMMA PagesStay ==
  ASSUME PanelIInv, NEW p \in Procs, NEW q, ProcFits(q), Goes(p, q),
         ~crossed => (q.pc \in {"sessions", "list"} => q.page = view.page),
         view'.booted, view'.page = view.page, view'.label = view.label, view'.of = view.of,
         UNCHANGED crossed
  PROVE  PagesKept'
<1>1. proc'[p] = q /\ \A o \in Procs : o # p => proc'[o] = proc[o] BY ProcsAfter DEF PanelIInv
<1>2. ASSUME ~crossed, NEW o \in Procs PROVE proc'[o].pc \in {"sessions", "list"} => proc'[o].page = view'.page
  <2>1. CASE o = p BY <1>1, <1>2, <2>1
  <2>2. CASE o # p BY <1>1, <1>2, <2>2 DEF PanelIInv, PagesKept, OnPage
  <2> QED BY <2>1, <2>2
<1>3. ~crossed => view'.label = view'.of BY DEF PanelIInv, PagesKept
<1> QED BY <1>2, <1>3 DEF PagesKept, OnPage

LEMMA EngineStays == ASSUME EngineFits, UNCHANGED engine PROVE EngineFits'
<1>1. UNCHANGED <<online, devices, buffer>> BY DEF engine
<1> QED BY <1>1 DEF EngineFits

LEMMA QuietStep ==
  ASSUME PanelIInv, view.booted, NEW p \in Procs, NEW q, ProcFits(q), Goes(p, q),
         proc[p].pc \notin Filling, q.pc \notin Filling,
         ~crossed => (q.pc \in {"sessions", "list"} => q.page = view.page),
         EngineFits', UNCHANGED <<view, crossed>>, steps' \in Nat
  PROVE  PanelIInv'
<1>1. ProcsFit' BY ProcsAfter DEF PanelIInv
<1>2. RowsServed' BY RowsStay
<1>3. PagesKept' BY PagesStay
<1>4. ViewFits' BY ViewStays DEF PanelIInv
<1> QED BY <1>1, <1>2, <1>3, <1>4 DEF PanelIInv

(* A page of what is listed. *)
LEMMA SliceFits ==
  ASSUME NEW n \in Nat, NEW upto, upto = (n + 1) * PageSize, EngineFits
  PROVE  LET s == SubSeq(online, n * PageSize + 1, IF upto < Len(online) THEN upto ELSE Len(online))
         IN  s \in Seq(Accounts) /\ Len(s) <= PageSize
<1> DEFINE from == n * PageSize
           to == IF upto < Len(online) THEN upto ELSE Len(online)
           s == SubSeq(online, from + 1, to)
<1>1. PageSize \in Nat \ {0} BY PanelConstants
<1>2. from \in Nat /\ upto = from + PageSize BY <1>1
<1>3. Len(online) \in Nat /\ \A i \in 1 .. Len(online) : online[i] \in Accounts
  BY LenProperties, ElementOfSeq DEF EngineFits
<1> HIDE DEF from
<1>4. to \in Nat /\ to <= Len(online) /\ to <= from + PageSize BY <1>1, <1>2, <1>3
<1> HIDE DEF to
<1>5. \A i \in from + 1 .. to : online[i] \in Accounts BY <1>2, <1>3, <1>4
<1>6. from + 1 \in Int /\ to \in Int BY <1>2, <1>4
<1>7. s \in Seq(Accounts) /\ Len(s) = IF from + 1 <= to THEN to - (from + 1) + 1 ELSE 0
  BY <1>5, <1>6, SubSeqProperties
<1> HIDE DEF s
<1>8. Len(s) <= PageSize BY <1>1, <1>2, <1>4, <1>7
<1> QED BY <1>7, <1>8 DEF s, from, to

(* What is read, of a list under way. *)
LEMMA ReadsKeep ==
  ASSUME PanelIInv, view.booted, NEW p \in Procs, NEW what \in {"ids", "count"}, NEW q, ProcFits(q),
         q.pc = proc[p].pc, q.page = proc[p].page, Reads(p, what, q)
  PROVE  PanelIInv'
<1> DEFINE s == [q EXCEPT !.left = q.left \ {what}, !.pc = IF q.left = {what} THEN "list" ELSE q.pc]
<1>1. q.pc = "sessions" /\ Goes(p, s) /\ UNCHANGED <<engine, view, steps, crossed>> BY DEF Reads
<1>2. ProcFits(s) /\ s.pc \in {"sessions", "list"} /\ s.page = q.page
  BY <1>1 DEF ProcFits, ProcRecords, Filling
<1> HIDE DEF s
<1>3. ~crossed => s.page = view.page BY <1>1, <1>2 DEF PanelIInv, PagesKept, OnPage
<1>4. proc[p].pc \notin Filling /\ s.pc \notin Filling BY <1>1, <1>2 DEF Filling
<1>5. steps' \in Nat /\ EngineFits' BY <1>1, EngineStays DEF PanelIInv
<1> QED BY <1>1, <1>2, <1>3, <1>4, <1>5, QuietStep

LEMMA ReadLoginIdsKeeps ==
  ASSUME PanelIInv, view.booted, NEW p \in Procs, ReadLoginIds(p) PROVE PanelIInv'
<1> DEFINE upto == (proc[p].page + 1) * PageSize
           ids == SubSeq(online, proc[p].page * PageSize + 1, IF upto < Len(online) THEN upto ELSE Len(online))
           q == [proc[p] EXCEPT !.ids = ids]
<1>1. Reads(p, "ids", q) BY DEF ReadLoginIds
<1>2. ProcFits(proc[p]) /\ proc[p].page \in Nat BY DEF PanelIInv, ProcsFit, ProcFits, ProcRecords
<1>3. ids \in Seq(Accounts) /\ Len(ids) <= PageSize BY <1>2, SliceFits DEF PanelIInv
<1> HIDE DEF ids
<1>4. q.pc = "sessions" /\ q.pc = proc[p].pc /\ q.page = proc[p].page
  BY <1>1, <1>2 DEF Reads, ProcFits, ProcRecords
<1>5. ProcFits(q) BY <1>2, <1>3, <1>4 DEF ProcFits, ProcRecords, Filling
<1> HIDE DEF q
<1> QED BY <1>1, <1>4, <1>5, ReadsKeep

LEMMA ReadOnlineCountKeeps ==
  ASSUME PanelIInv, view.booted, NEW p \in Procs, ReadOnlineCount(p) PROVE PanelIInv'
<1> DEFINE q == [proc[p] EXCEPT !.total = Len(online)]
<1>1. Reads(p, "count", q) BY DEF ReadOnlineCount
<1>2. ProcFits(proc[p]) BY DEF PanelIInv, ProcsFit
<1>3. Len(online) \in Nat BY LenProperties DEF PanelIInv, EngineFits
<1>4. ProcFits(q) /\ q.pc = proc[p].pc /\ q.page = proc[p].page BY <1>2, <1>3 DEF ProcFits, ProcRecords
<1> HIDE DEF q
<1> QED BY <1>1, <1>4, ReadsKeep

LEMMA ReadMetricsKeeps ==
  ASSUME PanelIInv, view.booted, NEW p \in Procs, ReadMetrics(p) PROVE PanelIInv'
<1> DEFINE q == [proc[p] EXCEPT !.pc = "cards", !.body = MetricsNow]
<1>1. proc[p].pc = "metrics" /\ Goes(p, q) /\ UNCHANGED <<engine, view, steps, crossed>> BY DEF ReadMetrics
<1>2. ProcFits(proc[p]) BY DEF PanelIInv, ProcsFit
<1>3. MetricsNow \in Totals /\ AddsUp(MetricsNow) BY MetricsFit DEF PanelIInv
<1>4. q \in ProcRecords /\ q.pc = "cards" /\ q.body = MetricsNow /\ q.ids = proc[p].ids /\ q.act = proc[p].act
  BY <1>2, <1>3 DEF ProcFits, ProcRecords
<1>5. ProcFits(q) BY <1>2, <1>3, <1>4 DEF ProcFits, Filling
<1> HIDE DEF q
<1>6. proc[p].pc \notin Filling /\ q.pc \notin Filling /\ q.pc \notin {"sessions", "list"} BY <1>1, <1>4 DEF Filling
<1>7. steps' \in Nat /\ EngineFits' BY <1>1, EngineStays DEF PanelIInv
<1> QED BY <1>1, <1>5, <1>6, <1>7, QuietStep

LEMMA PerformKeeps ==
  ASSUME PanelIInv, view.booted, NEW p \in Procs, Perform(p) PROVE PanelIInv'
<1> DEFINE a == proc[p].act
           D == IF a.device = Null THEN Devices ELSE {a.device}
           type == IF a.device = Null THEN "token.logged_out" ELSE "token.kicked_out"
           q == [proc[p] EXCEPT !.pc = "acted"]
<1>1. /\ proc[p].pc = "act" /\ End(a.name, D, type) /\ Goes(p, q)
      /\ UNCHANGED <<view, steps, crossed>>
  BY DEF Perform
<1>2. ProcFits(proc[p]) /\ a.name \in Accounts /\ a \in ActRecords
  BY <1>1 DEF PanelIInv, ProcsFit, ProcFits, ProcRecords
<1>3. D \in SUBSET (Devices \cup {Default}) BY <1>2 DEF ActRecords
<1>4. type \in Types BY DEF Types
<1>5. ProcFits(q) /\ q.pc = "acted" BY <1>2 DEF ProcFits, ProcRecords, Filling
<1> HIDE DEF q, a, D, type
<1>6. EngineFits' BY <1>1, <1>2, <1>3, <1>4, EndFits DEF PanelIInv
<1>7. proc[p].pc \notin Filling /\ q.pc \notin Filling /\ q.pc \notin {"sessions", "list"} BY <1>1, <1>5 DEF Filling
<1>8. steps' \in Nat BY <1>1 DEF PanelIInv
<1> QED BY <1>1, <1>5, <1>6, <1>7, <1>8, QuietStep

-----------------------------------------------------------------------------
(* Buttons *)
LEMMA AtRestIs == ASSUME PanelIInv, NEW p \in Procs, AtRest(p) PROVE proc[p].pc = "idle" /\ proc[p].pc \notin Filling
BY DEF AtRest, Filling

LEMMA BoundedIs == ASSUME PanelIInv, Bounded PROVE steps' \in Nat
BY DEF PanelIInv, Bounded

(* Where a list is asked for: the function, and the page. *)
LEMMA AsksFor ==
  ASSUME NEW p, NEW q, ProcFits(q), NEW v, v.page \in Nat, RefreshSessions(p, q, v)
  PROVE  \E s : ProcFits(s) /\ s.pc = "sessions" /\ s.page = v.page /\ Goes(p, s)
<1> DEFINE s == [q EXCEPT !.pc = "sessions", !.left = {"ids", "count"}, !.page = v.page]
<1>1. ProcFits(s) /\ s.pc = "sessions" /\ s.page = v.page BY RefreshFits
<1>2. Goes(p, s) BY DEF RefreshSessions
<1> HIDE DEF s
<1> QED BY <1>1, <1>2

LEMMA PressRefreshKeeps ==
  ASSUME PanelIInv, view.booted, NEW p \in Procs, PressRefresh(p) PROVE PanelIInv'
<1>1. /\ AtRest(p) /\ Bounded /\ RefreshSessions(p, NoProc, view) /\ UNCHANGED <<engine, view, crossed>>
  BY DEF PressRefresh, Press
<1>2. view.page \in Nat BY DEF PanelIInv, ViewFits, ViewRecords
<1>3. PICK s : ProcFits(s) /\ s.pc = "sessions" /\ s.page = view.page /\ Goes(p, s)
  BY <1>1, <1>2, NoProcFits, AsksFor
<1>4. proc[p].pc \notin Filling /\ s.pc \notin Filling BY <1>1, <1>3, AtRestIs DEF Filling
<1>5. steps' \in Nat /\ EngineFits' BY <1>1, EngineStays, BoundedIs DEF PanelIInv
<1> QED BY <1>1, <1>3, <1>4, <1>5, QuietStep

LEMMA ActedKeeps ==
  ASSUME PanelIInv, view.booted, NEW p \in Procs, Acted(p) PROVE PanelIInv'
<1>1. proc[p].pc = "acted" /\ RefreshSessions(p, proc[p], view) /\ UNCHANGED <<engine, view, steps, crossed>>
  BY DEF Acted
<1>2. view.page \in Nat /\ ProcFits(proc[p]) BY DEF PanelIInv, ViewFits, ViewRecords, ProcsFit
<1>3. PICK s : ProcFits(s) /\ s.pc = "sessions" /\ s.page = view.page /\ Goes(p, s)
  BY <1>1, <1>2, AsksFor
<1>4. proc[p].pc \notin Filling /\ s.pc \notin Filling BY <1>1, <1>3 DEF Filling
<1>5. steps' \in Nat /\ EngineFits' BY <1>1, EngineStays DEF PanelIInv
<1> QED BY <1>1, <1>3, <1>4, <1>5, QuietStep

LEMMA RefreshMetricsKeeps ==
  ASSUME PanelIInv, view.booted, NEW p \in Procs, RefreshMetrics(p) PROVE PanelIInv'
<1> DEFINE s == [NoProc EXCEPT !.pc = "metrics"]
<1>1. AtRest(p) /\ Goes(p, s) /\ UNCHANGED <<engine, view, steps, crossed>> BY DEF RefreshMetrics
<1>2. ProcFits(s) /\ s.pc = "metrics" BY NoProcFits DEF ProcFits, ProcRecords, Filling
<1> HIDE DEF s
<1>3. proc[p].pc \notin Filling /\ s.pc \notin Filling BY <1>1, <1>2, AtRestIs DEF Filling
<1>4. steps' \in Nat /\ EngineFits' BY <1>1, EngineStays DEF PanelIInv
<1> QED BY <1>1, <1>2, <1>3, <1>4, QuietStep

(* The account a button names: of its row, or what the variable holds.      *)
LEMMA ConfirmKeeps ==
  ASSUME PanelIInv, view.booted, NEW p \in Procs, NEW i \in 1 .. Len(view.rows),
         NEW name \in Accounts, NEW device \in Devices \cup {Null, Default}, NEW alone \in BOOLEAN,
         alone => name = view.rows[i].id, Confirm(p, name, device, i, alone)
  PROVE  PanelIInv'
<1> DEFINE act == [name |-> name, device |-> device, meant |-> view.rows[i].id, alone |-> alone]
           s == [NoProc EXCEPT !.pc = "act", !.act = act]
<1>1. AtRest(p) /\ Bounded /\ Goes(p, s) /\ UNCHANGED <<engine, view, crossed>> BY DEF Confirm, Press
<1>2. view.rows[i].id \in Accounts
  <2>1. view.rows[i] \in RowRecords BY ElementOfSeq DEF PanelIInv, ViewFits, ViewRecords
  <2> QED BY <2>1 DEF RowRecords
<1>3. act \in ActRecords BY <1>2 DEF ActRecords
<1>4. act.name \in Accounts /\ (act.alone => act.name = act.meant) OBVIOUS
<1> HIDE DEF act
<1>5. ProcFits(s) /\ s.pc = "act" BY <1>3, <1>4, NoProcFits DEF ProcFits, ProcRecords, Filling
<1> HIDE DEF s
<1>6. proc[p].pc \notin Filling /\ s.pc \notin Filling BY <1>1, <1>5, AtRestIs DEF Filling
<1>7. steps' \in Nat /\ EngineFits' BY <1>1, EngineStays, BoundedIs DEF PanelIInv
<1> QED BY <1>1, <1>5, <1>6, <1>7, QuietStep

LEMMA RowIs ==
  ASSUME PanelIInv, NEW i \in 1 .. Len(view.rows)
  PROVE  view.rows[i] \in RowRecords /\ view.rows[i].id \in Accounts
<1>1. view.rows[i] \in RowRecords BY ElementOfSeq DEF PanelIInv, ViewFits, ViewRecords
<1> QED BY <1>1 DEF RowRecords

LEMMA FewOpen ==
  ASSUME NEW S, NEW n \in Nat, S \subseteq 1 .. n, NEW i \in S, Cardinality(S) <= 1
  PROVE  S = {i}
<1>1. 1 \in Int /\ n \in Int OBVIOUS
<1>2. IsFiniteSet(1 .. n) BY <1>1, FS_Interval
<1>3. S \in SUBSET (1 .. n) OBVIOUS
<1>4. IsFiniteSet(S) BY <1>2, <1>3, FS_Subset
<1>5. {i} \in SUBSET S OBVIOUS
<1>6. IsFiniteSet({i}) /\ Cardinality({i}) = 1 BY FS_Singleton
<1>7. Cardinality({i}) <= Cardinality(S) BY <1>4, <1>5, FS_Subset
<1>8. Cardinality(S) \in Nat BY <1>4, FS_CardinalityType
<1>9. Cardinality(S) = Cardinality({i}) BY <1>6, <1>7, <1>8
<1> QED BY <1>4, <1>5, <1>9, FS_Subset

LEMMA PressActionKeeps ==
  ASSUME PanelIInv, view.booted, NEW p \in Procs, NEW i \in 1 .. Len(view.rows), PressAction(p, i)
  PROVE  PanelIInv'
<1>1. CASE Confirm(p, view.rows[i].id, Default, i, TRUE)
  <2>1. TRUE \in BOOLEAN /\ Default \in Devices \cup {Null, Default} OBVIOUS
  <2> QED BY <1>1, <2>1, RowIs, ConfirmKeeps
<1>2. CASE Confirm(p, view.rows[i].id, Null, i, TRUE)
  <2>1. TRUE \in BOOLEAN /\ Null \in Devices \cup {Null, Default} OBVIOUS
  <2> QED BY <1>2, <2>1, RowIs, ConfirmKeeps
<1>3. ASSUME NEW d \in view.rows[i].devices, Confirm(p, view.named, d, i, Cardinality(Opened) <= 1)
      PROVE  PanelIInv'
  <2> DEFINE alone == Cardinality(Opened) <= 1
  <2>1. d \in Devices /\ view.rows[i].open = "shown"
    BY <1>3, RowIs DEF RowRecords, PanelIInv, ViewFits
  <2>2. Opened = OpenRows(view.rows) /\ i \in Opened BY <2>1 DEF Opened, OpenRows
  <2>3. view.named \in Accounts BY <2>2 DEF PanelIInv, ViewFits, NamesRow
  <2>4. Len(view.rows) \in Nat BY LenProperties DEF PanelIInv, ViewFits, ViewRecords
  <2>5. ASSUME alone PROVE view.named = view.rows[i].id
    <3>1. Opened \subseteq 1 .. Len(view.rows) BY DEF Opened
    <3>2. Opened = {i} BY <2>2, <2>4, <2>5, <3>1, FewOpen
    <3> QED BY <2>2, <3>2 DEF PanelIInv, ViewFits, NamesRow
  <2>6. alone \in BOOLEAN OBVIOUS
  <2>7. Confirm(p, view.named, d, i, alone) BY <1>3
  <2>8. d \in Devices \cup {Null, Default} BY <2>1
  <2> HIDE DEF alone
  <2> QED BY <2>3, <2>5, <2>6, <2>7, <2>8, ConfirmKeeps
<1> QED BY <1>1, <1>2, <1>3 DEF PressAction

-----------------------------------------------------------------------------
(* Steps that change the view but not its rows *)
LEMMA ViewKept ==
  ASSUME ViewFits, view' \in ViewRecords, view'.rows = view.rows, view'.named = view.named,
         AddsUp(view'.metrics)
  PROVE  ViewFits'
<1>1. OpenRows(view'.rows) = OpenRows(view.rows) BY DEF OpenRows
<1>2. NamesRow(view)' BY <1>1 DEF ViewFits, NamesRow, OpenRows
<1>3. AddsUp(view.metrics)' BY DEF AddsUp
<1>4. (view \in ViewRecords)' BY DEF ViewRecords
<1> QED BY <1>2, <1>3, <1>4 DEF ViewFits

LEMMA TurnKeeps ==
  ASSUME PanelIInv, view.booted, NEW p \in Procs, NEW n \in Int, Turn(p, n) PROVE PanelIInv'
<1> DEFINE v == [view EXCEPT !.page = n]
<1>1. /\ AtRest(p) /\ Bounded /\ UNCHANGED engine /\ n \in Nat /\ view' = v
      /\ RefreshSessions(p, NoProc, v) /\ crossed' = (crossed \/ Fetching)
  BY DEF Turn, Press
<1>2. /\ v \in ViewRecords /\ v.page = n /\ v.rows = view.rows /\ v.named = view.named
      /\ v.metrics = view.metrics /\ v.booted /\ v.label = view.label /\ v.of = view.of
  BY <1>1 DEF PanelIInv, ViewFits, ViewRecords
<1> HIDE DEF v
<1>3. PICK s : ProcFits(s) /\ s.pc = "sessions" /\ s.page = n /\ Goes(p, s)
  BY <1>1, <1>2, NoProcFits, AsksFor
<1>4. proc[p].pc \notin Filling /\ s.pc \notin Filling BY <1>1, <1>3, AtRestIs DEF Filling
<1>5. steps' \in Nat /\ EngineFits' BY <1>1, EngineStays, BoundedIs DEF PanelIInv
<1>6. ProcsFit' /\ proc'[p] = s /\ \A o \in Procs : o # p => proc'[o] = proc[o]
  BY <1>3, ProcsAfter DEF PanelIInv
<1>7. RowsServed' BY <1>1, <1>2, <1>3, <1>4, RowsStay
<1>8. ViewFits'
  <2>1. AddsUp(view'.metrics) BY <1>1, <1>2 DEF PanelIInv, ViewFits
  <2> QED BY <1>1, <1>2, <2>1, ViewKept DEF PanelIInv
<1>9. PagesKept'
  <2>1. view'.booted BY <1>1, <1>2
  <2>2. ASSUME ~crossed' PROVE view'.label = view'.of /\ \A o \in Procs : OnPage(proc[o])'
    <3>1. ~crossed /\ ~Fetching BY <1>1, <2>2
    <3>2. \A o \in Procs : o # p => proc'[o].pc \notin {"sessions", "list"} BY <1>6, <3>1 DEF Fetching
    <3>3. proc'[p].page = view'.page BY <1>1, <1>2, <1>3, <1>6
    <3>4. \A o \in Procs : OnPage(proc[o])' BY <3>2, <3>3 DEF OnPage
    <3> QED BY <1>1, <1>2, <3>1, <3>4 DEF PanelIInv, PagesKept
  <2> QED BY <2>1, <2>2 DEF PagesKept
<1> QED BY <1>5, <1>6, <1>7, <1>8, <1>9 DEF PanelIInv

(* A button or the boot: only what the page notes changes, and a list is    *)
(* asked for.                                                               *)
LEMMA NotedKeeps ==
  ASSUME PanelIInv, NEW p \in Procs, proc[p].pc \notin Filling, view' \in ViewRecords, view'.booted,
         view'.page = view.page, view'.rows = view.rows, view'.named = view.named,
         view'.metrics = view.metrics, view'.label = view.label, view'.of = view.of,
         RefreshSessions(p, NoProc, view), UNCHANGED <<engine, crossed>>, steps' \in Nat
  PROVE  PanelIInv'
<1>1. view.page \in Nat BY DEF PanelIInv, ViewFits, ViewRecords
<1>2. PICK s : ProcFits(s) /\ s.pc = "sessions" /\ s.page = view.page /\ Goes(p, s)
  BY <1>1, NoProcFits, AsksFor
<1>3. s.pc \notin Filling BY <1>2 DEF Filling
<1>4. ProcsFit' BY <1>2, ProcsAfter DEF PanelIInv
<1>5. RowsServed' BY <1>2, <1>3, RowsStay
<1>6. PagesKept' BY <1>2, PagesStay
<1>7. AddsUp(view'.metrics) BY DEF PanelIInv, ViewFits
<1>8. ViewFits' BY <1>7, ViewKept DEF PanelIInv
<1>9. EngineFits' BY EngineStays DEF PanelIInv
<1> QED BY <1>4, <1>5, <1>6, <1>8, <1>9 DEF PanelIInv

LEMMA PressExpandKeeps ==
  ASSUME PanelIInv, view.booted, NEW p \in Procs, NEW i \in 1 .. Len(view.rows), PressExpand(p, i)
  PROVE  PanelIInv'
<1> DEFINE a == view.rows[i].id
           e == IF a \in view.expanded THEN view.expanded \ {a} ELSE view.expanded \cup {a}
           v == [view EXCEPT !.expanded = e]
<1>1. AtRest(p) /\ Bounded /\ view' = v /\ RefreshSessions(p, NoProc, view) /\ UNCHANGED <<engine, crossed>>
  BY DEF PressExpand, Press
<1>2. e \in SUBSET Accounts BY RowIs DEF PanelIInv, ViewFits, ViewRecords
<1> HIDE DEF e
<1>3. /\ v \in ViewRecords /\ v.booted /\ v.page = view.page /\ v.rows = view.rows /\ v.named = view.named
      /\ v.metrics = view.metrics /\ v.label = view.label /\ v.of = view.of
  BY <1>2 DEF PanelIInv, ViewFits, ViewRecords
<1> HIDE DEF v
<1> QED BY <1>1, <1>3, AtRestIs, BoundedIs, NotedKeeps

LEMMA BootPanelKeeps == ASSUME PanelIInv, NEW p \in Procs, BootPanel(p) PROVE PanelIInv'
<1> DEFINE v == [view EXCEPT !.booted = TRUE]
<1>1. ~view.booted /\ view' = v /\ RefreshSessions(p, NoProc, view) /\ UNCHANGED <<engine, steps, crossed>>
  BY DEF BootPanel
<1>2. /\ v \in ViewRecords /\ v.booted /\ v.page = view.page /\ v.rows = view.rows /\ v.named = view.named
      /\ v.metrics = view.metrics /\ v.label = view.label /\ v.of = view.of
  BY DEF PanelIInv, ViewFits, ViewRecords
<1> HIDE DEF v
<1>3. AtRest(p) BY <1>1 DEF PanelIInv, PagesKept
<1>4. steps' \in Nat BY <1>1 DEF PanelIInv
<1> QED BY <1>1, <1>2, <1>3, <1>4, AtRestIs, NotedKeeps

LEMMA ShowMetricsKeeps ==
  ASSUME PanelIInv, view.booted, NEW p \in Procs, ShowMetrics(p) PROVE PanelIInv'
<1> DEFINE v == [view EXCEPT !.metrics = proc[p].body]
<1>1. proc[p].pc = "cards" /\ view' = v /\ Goes(p, NoProc) /\ UNCHANGED <<engine, steps, crossed>>
  BY DEF ShowMetrics
<1>2. proc[p].body \in Totals \cup {Null} /\ AddsUp(proc[p].body)
  BY DEF PanelIInv, ProcsFit, ProcFits, ProcRecords
<1>3. /\ v \in ViewRecords /\ v.booted /\ v.page = view.page /\ v.rows = view.rows /\ v.named = view.named
      /\ v.metrics = proc[p].body /\ v.label = view.label /\ v.of = view.of
  BY <1>2 DEF PanelIInv, ViewFits, ViewRecords
<1> HIDE DEF v
<1>4. proc[p].pc \notin Filling /\ NoProc.pc \notin Filling /\ NoProc.pc \notin {"sessions", "list"}
  BY <1>1, NoProcFits DEF Filling
<1>5. ProcsFit' BY <1>1, NoProcFits, ProcsAfter DEF PanelIInv
<1>6. RowsServed' BY <1>1, <1>3, <1>4, NoProcFits, RowsStay
<1>7. PagesKept' BY <1>1, <1>3, <1>4, NoProcFits, PagesStay
<1>8. ViewFits' BY <1>1, <1>2, <1>3, ViewKept DEF PanelIInv
<1>9. EngineFits' /\ steps' \in Nat BY <1>1, EngineStays DEF PanelIInv
<1> QED BY <1>5, <1>6, <1>7, <1>8, <1>9 DEF PanelIInv

(* The engine moves on its own. *)
LEMMA EngineMoves ==
  ASSUME PanelIInv, EngineFits', UNCHANGED <<view, proc, crossed>>, steps' \in Nat PROVE PanelIInv'
<1>1. ProcsFit' BY DEF PanelIInv, ProcsFit, ProcFits, AddsUp
<1>2. ViewFits' BY ViewStays DEF PanelIInv
<1>3. \A o, i : (Fills(proc[o], view)' <=> Fills(proc[o], view)) /\ (Serves(proc[o], i)' <=> Serves(proc[o], i))
  BY DEF Fills, Serves, OpenRows
<1>4. RowsServed' BY <1>3 DEF PanelIInv, RowsServed
<1>5. PagesKept' BY DEF PanelIInv, PagesKept, OnPage, AtRest
<1> QED BY <1>1, <1>2, <1>4, <1>5 DEF PanelIInv

LEMMA LogsInKeeps ==
  ASSUME PanelIInv, NEW a \in Accounts, NEW d \in Devices, LogsIn(a, d) PROVE PanelIInv'
<1>1. EngineFits' BY LoginFits DEF PanelIInv
<1>2. UNCHANGED <<view, proc, crossed>> /\ Bounded BY DEF LogsIn
<1> QED BY <1>1, <1>2, BoundedIs, EngineMoves

LEMMA RotatesKeeps == ASSUME PanelIInv, NEW type \in Types, Rotates(type) PROVE PanelIInv'
<1>1. UNCHANGED <<online, devices, view, proc, crossed>> /\ Bounded /\ Logged(<<type>>) BY DEF Rotates
<1>2. <<type>> \in Seq(Types) OBVIOUS
<1>3. buffer' \in Seq(Types) /\ Len(buffer') <= Buffered BY <1>1, <1>2, LoggedFits DEF PanelIInv
<1>4. EngineFits' BY <1>1, <1>3 DEF PanelIInv, EngineFits
<1> QED BY <1>1, <1>4, BoundedIs, EngineMoves

-----------------------------------------------------------------------------
(* The rows of a list *)
LEMMA FillerIs ==
  ASSUME PanelIInv, NEW p \in Procs, proc[p].pc \in Filling
  PROVE  LET row == Smallest(proc[p].targets)
         IN  /\ row \in proc[p].targets /\ row \in 1 .. Len(proc[p].ids) /\ proc[p].ids[row] \in Accounts
             /\ \A i \in proc[p].targets : i \in Nat /\ proc[p].ids[i] \in Accounts
<1> DEFINE q == proc[p]
<1>1. ProcFits(q) BY DEF PanelIInv, ProcsFit
<1>2. q.targets \in SUBSET Nat /\ q.targets # {} /\ q.targets \subseteq 1 .. Len(q.ids) /\ q.ids \in Seq(Accounts)
  BY <1>1 DEF ProcFits, ProcRecords
<1> HIDE DEF q
<1>3. Smallest(q.targets) \in q.targets BY <1>2, SmallestIn
<1>4. \A i \in 1 .. Len(q.ids) : q.ids[i] \in Accounts BY <1>2, ElementOfSeq
<1> QED BY <1>2, <1>3, <1>4 DEF q

LEMMA ReadDevicesKeeps ==
  ASSUME PanelIInv, view.booted, NEW p \in Procs, ReadDevices(p) PROVE PanelIInv'
<1> DEFINE D == devices[proc[p].ids[Smallest(proc[p].targets)]]
           q == [proc[p] EXCEPT !.pc = "rows", !.got = D]
<1>1. proc[p].pc = "devices" /\ Goes(p, q) /\ UNCHANGED <<engine, view, steps, crossed>> BY DEF ReadDevices
<1>2. ProcFits(proc[p]) /\ proc[p].pc \in Filling BY <1>1 DEF PanelIInv, ProcsFit, Filling
<1>3. D \in SUBSET Devices BY <1>2, FillerIs DEF PanelIInv, EngineFits
<1> HIDE DEF D
<1>4. /\ q \in ProcRecords /\ q.pc = "rows" /\ q.ids = proc[p].ids /\ q.act = proc[p].act
      /\ q.body = proc[p].body /\ q.targets = proc[p].targets /\ q.attached = proc[p].attached
  BY <1>2, <1>3 DEF ProcFits, ProcRecords
<1>5. ProcFits(q) BY <1>2, <1>4 DEF ProcFits
<1> HIDE DEF q
<1>6. ProcsFit' /\ proc'[p] = q /\ \A o \in Procs : o # p => proc'[o] = proc[o]
  BY <1>1, <1>5, ProcsAfter DEF PanelIInv
<1>7. q.pc \in Filling BY <1>4 DEF Filling
<1>8. RowsServed'
  <2>1. ASSUME NEW o \in Procs
        PROVE  /\ Fills(proc[o], view) => Fills(proc[o], view)'
               /\ \A i : Serves(proc[o], i) => Serves(proc[o], i)'
    <3>1. CASE o = p BY <1>1, <1>2, <1>4, <1>6, <1>7, <3>1 DEF Fills, Serves, OpenRows
    <3>2. CASE o # p BY <1>1, <1>6, <3>2 DEF Fills, Serves, OpenRows
    <3> QED BY <3>1, <3>2
  <2> QED BY <1>1, <2>1 DEF PanelIInv, RowsServed
<1>9. PagesKept'
  <2>1. q.pc \notin {"sessions", "list"} BY <1>4
  <2> QED BY <1>1, <1>5, <2>1, PagesStay
<1>10. ViewFits' /\ EngineFits' /\ steps' \in Nat BY <1>1, ViewStays, EngineStays DEF PanelIInv
<1> QED BY <1>6, <1>8, <1>9, <1>10 DEF PanelIInv

LEMMA NextRowFits ==
  ASSUME NEW q, ProcFits(q), q.pc \in Filling, NEW rest, rest \subseteq q.targets
  PROVE  LET s == NextRow(q, rest)
         IN  /\ ProcFits(s) /\ s.pc \notin {"sessions", "list"}
             /\ rest = {} => s.pc \notin Filling
             /\ rest # {} => s.pc \in Filling /\ s.targets = rest /\ s.ids = q.ids /\ s.attached = q.attached
<1>1. CASE rest = {}
  <2>1. NextRow(q, rest) = Ended(q) BY <1>1 DEF NextRow
  <2> QED BY <1>1, <2>1, EndedFits DEF Filling
<1>2. CASE rest # {}
  <2> DEFINE s == [q EXCEPT !.pc = "devices", !.targets = rest, !.got = {}]
  <2>1. NextRow(q, rest) = s BY <1>2 DEF NextRow
  <2>2. rest \in SUBSET Nat BY DEF ProcFits, ProcRecords
  <2>3. /\ s \in ProcRecords /\ s.pc = "devices" /\ s.ids = q.ids /\ s.act = q.act
        /\ s.body = q.body /\ s.targets = rest /\ s.attached = q.attached
    BY <2>2 DEF ProcFits, ProcRecords
  <2>4. ProcFits(s) BY <1>2, <2>3 DEF ProcFits
  <2> HIDE DEF s
  <2> QED BY <1>2, <2>1, <2>3, <2>4 DEF Filling
<1> QED BY <1>1, <1>2

(* Filling a row that is no longer in the document. *)
LEMMA FillDetached ==
  ASSUME PanelIInv, view.booted, NEW p \in Procs, proc[p].pc \in Filling, ~proc[p].attached,
         NEW open, NEW D, Fill(p, open, D)
  PROVE  PanelIInv'
<1> DEFINE rest == proc[p].targets \ {Smallest(proc[p].targets)}
           s == NextRow(proc[p], rest)
<1>1. Goes(p, s) /\ UNCHANGED <<engine, view, steps, crossed>> BY DEF Fill
<1>2. ProcFits(proc[p]) BY DEF PanelIInv, ProcsFit
<1>3. rest \subseteq proc[p].targets OBVIOUS
<1> HIDE DEF rest
<1>4. /\ ProcFits(s) /\ s.pc \notin {"sessions", "list"}
      /\ s.pc \in Filling => ~s.attached
  BY <1>2, <1>3, NextRowFits
<1> HIDE DEF s
<1>5. ProcsFit' /\ proc'[p] = s /\ \A o \in Procs : o # p => proc'[o] = proc[o]
  BY <1>1, <1>4, ProcsAfter DEF PanelIInv
<1>6. RowsServed'
  <2>1. ASSUME NEW o \in Procs
        PROVE  /\ Fills(proc[o], view) => Fills(proc[o], view)'
               /\ \A i : Serves(proc[o], i) => Serves(proc[o], i)'
    <3>1. CASE o = p BY <1>1, <1>4, <1>5, <3>1 DEF Fills, Serves, OpenRows
    <3>2. CASE o # p BY <1>1, <1>5, <3>2 DEF Fills, Serves, OpenRows
    <3> QED BY <3>1, <3>2
  <2> QED BY <1>1, <2>1 DEF PanelIInv, RowsServed
<1>7. PagesKept' BY <1>1, <1>4, PagesStay
<1>8. ViewFits' /\ EngineFits' /\ steps' \in Nat BY <1>1, ViewStays, EngineStays DEF PanelIInv
<1> QED BY <1>5, <1>6, <1>7, <1>8 DEF PanelIInv

(* Filling a row of the list shown. *)
LEMMA FillAttached ==
  ASSUME PanelIInv, view.booted, NEW p \in Procs, proc[p].pc \in Filling, proc[p].attached,
         NEW open \in {"shown", "failed"}, NEW D \in SUBSET Devices, open # "shown" => D = {}, Fill(p, open, D)
  PROVE  PanelIInv'
<1> DEFINE q == proc[p]
           row == Smallest(q.targets)
           rest == q.targets \ {row}
           s == NextRow(q, rest)
           filled == [view.rows[row] EXCEPT !.open = open, !.devices = D]
           rows == [view.rows EXCEPT ![row] = filled]
           named == IF rest = {} THEN view.named ELSE q.ids[Smallest(rest)]
           v == [view EXCEPT !.rows = rows, !.named = named]
<1>1. Goes(p, s) /\ UNCHANGED <<engine, steps, crossed>> BY DEF Fill
<1>2. ProcFits(q) /\ view \in ViewRecords BY DEF PanelIInv, ProcsFit, ViewFits
<1>3. view' = v
  <2>1. view' = [view EXCEPT !.rows[row] = [@ EXCEPT !.open = open, !.devices = D],
                             !.named = IF rest = {} THEN @ ELSE q.ids[Smallest(rest)]]
    BY DEF Fill
  <2> QED BY <1>2, <2>1 DEF ViewRecords
<1>4. row \in q.targets /\ \A i \in q.targets : i \in Nat /\ q.ids[i] \in Accounts BY FillerIs
<1>5. /\ q.targets \subseteq OpenRows(view.rows) /\ Len(q.ids) = Len(view.rows)
      /\ \A i \in 1 .. Len(view.rows) : q.ids[i] = view.rows[i].id
  BY DEF PanelIInv, RowsServed, Fills
<1>6. row \in 1 .. Len(view.rows) /\ view.rows[row] \in RowRecords
  BY <1>4, <1>5, RowIs DEF OpenRows
<1>7. filled \in RowRecords /\ filled.id = view.rows[row].id /\ filled.open = open /\ filled.devices = D
  BY <1>6 DEF RowRecords
<1>8. view.rows \in Seq(RowRecords) BY <1>2 DEF ViewRecords
<1>9. rest \subseteq q.targets /\ row \notin rest OBVIOUS
<1>10. rest # {} => Smallest(rest) \in rest BY <1>4, <1>9, SmallestIn
<1>11. named \in Accounts \cup {Null} BY <1>2, <1>4, <1>9, <1>10 DEF ViewRecords
<1> HIDE DEF filled, row, named, rest
<1>12. /\ rows \in Seq(RowRecords) /\ Len(rows) = Len(view.rows)
       /\ \A i \in 1 .. Len(view.rows) : rows[i] = IF i = row THEN filled ELSE view.rows[i]
  BY <1>6, <1>7, <1>8, ExceptSeq
<1> HIDE DEF rows
<1>13. /\ v \in ViewRecords /\ v.rows = rows /\ v.named = named /\ v.metrics = view.metrics
       /\ v.booted /\ v.page = view.page /\ v.label = view.label /\ v.of = view.of
  BY <1>2, <1>11, <1>12 DEF ViewRecords
<1> HIDE DEF v
<1>14. OpenRows(rows) = OpenRows(view.rows) BY <1>4, <1>5, <1>7, <1>12 DEF OpenRows
<1>15. \A i \in 1 .. Len(rows) : rows[i].id = view.rows[i].id BY <1>7, <1>12
<1>16. /\ ProcFits(s) /\ s.pc \notin {"sessions", "list"}
       /\ rest = {} => s.pc \notin Filling
       /\ rest # {} => s.pc \in Filling /\ s.targets = rest /\ s.ids = q.ids /\ s.attached = q.attached
  BY <1>2, <1>9, NextRowFits
<1> HIDE DEF s
<1>17. ProcsFit' /\ proc'[p] = s /\ \A o \in Procs : o # p => proc'[o] = proc[o]
  BY <1>1, <1>16, ProcsAfter DEF PanelIInv
<1>18. NamesRow(v)
  <2>1. CASE rest = {}
    <3>1. named = view.named BY <2>1 DEF named
    <3>2. \A j \in OpenRows(rows) : rows[j].id = view.rows[j].id BY <1>15 DEF OpenRows
    <3> QED BY <1>13, <1>14, <3>1, <3>2 DEF NamesRow, PanelIInv, ViewFits
  <2>2. CASE rest # {}
    <3>1. named \in Accounts BY <1>4, <1>9, <1>10, <2>2 DEF named
    <3>2. Smallest(rest) \in OpenRows(rows) /\ row \in OpenRows(rows) /\ Smallest(rest) # row
      BY <1>4, <1>5, <1>9, <1>10, <1>14, <2>2
    <3>3. \A j : OpenRows(rows) # {j} BY <3>2
    <3> QED BY <1>13, <3>1, <3>3 DEF NamesRow
  <2> QED BY <2>1, <2>2
<1>19. ViewFits'
  <2>1. Len(v.rows) <= PageSize BY <1>12, <1>13 DEF PanelIInv, ViewFits
  <2>2. \A i \in 1 .. Len(v.rows) : v.rows[i].open # "shown" => v.rows[i].devices = {}
    BY <1>7, <1>12, <1>13 DEF PanelIInv, ViewFits
  <2>3. AddsUp(v.metrics) BY <1>13 DEF PanelIInv, ViewFits
  <2>4. (NamesRow(view)' <=> NamesRow(v)) /\ (AddsUp(view.metrics)' <=> AddsUp(v.metrics))
    BY <1>3 DEF NamesRow, OpenRows, AddsUp
  <2>5. (view \in ViewRecords)' BY <1>3, <1>13 DEF ViewRecords
  <2> QED BY <1>3, <1>18, <2>1, <2>2, <2>3, <2>4, <2>5 DEF ViewFits
<1>20. RowsServed'
  <2>1. ASSUME NEW o \in Procs PROVE Fills(proc'[o], v)
    <3>1. CASE o = p BY <1>5, <1>9, <1>12, <1>13, <1>14, <1>15, <1>16, <1>17, <3>1 DEF Fills
    <3>2. CASE o # p
      <4>1. Fills(proc[o], view) BY DEF PanelIInv, RowsServed
      <4> QED BY <1>12, <1>13, <1>14, <1>15, <1>17, <3>2, <4>1 DEF Fills
    <3> QED BY <3>1, <3>2
  <2>2. ASSUME NEW i \in 1 .. Len(rows), rows[i].open = "loading" PROVE \E o \in Procs : Serves(proc'[o], i)
    <3>1. i # row /\ view.rows[i].open = "loading" /\ i \in 1 .. Len(view.rows) BY <1>7, <1>12, <2>2
    <3>2. PICK o \in Procs : Serves(proc[o], i) BY <3>1 DEF PanelIInv, RowsServed
    <3>3. CASE o = p
      <4>1. i \in rest BY <3>1, <3>2, <3>3 DEF Serves, rest
      <4> QED BY <1>16, <1>17, <3>3, <4>1 DEF Serves
    <3>4. CASE o # p BY <1>17, <3>2, <3>4
    <3> QED BY <3>3, <3>4
  <2>3. \A o : (Fills(proc[o], view)' <=> Fills(proc'[o], v)) BY <1>3 DEF Fills, OpenRows
  <2>4. \A o, i : Serves(proc[o], i)' <=> Serves(proc'[o], i) BY DEF Serves
  <2> QED BY <1>3, <1>13, <2>1, <2>2, <2>3, <2>4 DEF RowsServed
<1>21. PagesKept' BY <1>1, <1>3, <1>13, <1>16, PagesStay
<1>22. EngineFits' /\ steps' \in Nat BY <1>1, EngineStays DEF PanelIInv
<1> QED BY <1>17, <1>19, <1>20, <1>21, <1>22 DEF PanelIInv

LEMMA FillKeeps ==
  ASSUME PanelIInv, view.booted, NEW p \in Procs, proc[p].pc \in Filling,
         NEW open \in {"shown", "failed"}, NEW D \in SUBSET Devices, open # "shown" => D = {}, Fill(p, open, D)
  PROVE  PanelIInv'
BY FillDetached, FillAttached

LEMMA ShowDevicesKeeps ==
  ASSUME PanelIInv, view.booted, NEW p \in Procs, ShowDevices(p) PROVE PanelIInv'
<1>1. proc[p].pc \in Filling /\ Fill(p, "shown", proc[p].got) BY DEF ShowDevices, Filling
<1>2. proc[p].got \in SUBSET Devices BY DEF PanelIInv, ProcsFit, ProcFits, ProcRecords
<1> QED BY <1>1, <1>2, FillKeeps

LEMMA CallFailsKeeps ==
  ASSUME PanelIInv, view.booted, NEW p \in Procs, CallFails(p) PROVE PanelIInv'
<1>1. CASE proc[p].pc \in {"devices", "rows"} /\ Fill(p, "failed", {})
  <2>1. proc[p].pc \in Filling /\ {} \in SUBSET Devices BY <1>1 DEF Filling
  <2> QED BY <1>1, <2>1, FillKeeps
<1>2. ASSUME proc[p].pc \in {"sessions", "list", "act", "acted", "metrics", "cards"},
             Goes(p, IF proc[p].pc \in {"sessions", "list"} THEN Ended(proc[p]) ELSE NoProc),
             UNCHANGED <<engine, view, steps, crossed>>
      PROVE  PanelIInv'
  <2> DEFINE s == IF proc[p].pc \in {"sessions", "list"} THEN Ended(proc[p]) ELSE NoProc
  <2>1. ProcFits(s) /\ s.pc \in {"idle", "metrics"} BY NoProcFits, EndedFits
  <2>2. Goes(p, s) BY <1>2
  <2> HIDE DEF s
  <2>3. proc[p].pc \notin Filling /\ s.pc \notin Filling /\ s.pc \notin {"sessions", "list"}
    BY <1>2, <2>1 DEF Filling
  <2>4. EngineFits' /\ steps' \in Nat BY <1>2, EngineStays DEF PanelIInv
  <2> QED BY <1>2, <2>1, <2>2, <2>3, <2>4, QuietStep
<1> QED BY <1>1, <1>2 DEF CallFails

(* A list is drawn anew: every row is closed or has the function to fill it,*)
(* and what other functions still fill is no longer in the document.        *)
LEMMA ShowSessionsKeeps ==
  ASSUME PanelIInv, view.booted, NEW p \in Procs, ShowSessions(p) PROVE PanelIInv'
<1> DEFINE q == proc[p]
           row(i) == [id |-> q.ids[i], devices |-> {},
                      open |-> IF q.ids[i] \in view.expanded THEN "loading" ELSE "closed"]
           rows == [i \in 1 .. Len(q.ids) |-> row(i)]
           targets == {i \in 1 .. Len(rows) : rows[i].open = "loading"}
           v == [view EXCEPT !.rows = rows, !.total = q.total, !.label = view.page, !.of = q.page,
                             !.named = Named(q.ids, targets)]
           at == [q EXCEPT !.attached = TRUE]
           s == NextRow(at, targets)
<1>1. /\ q.pc = "list" /\ view' = v /\ UNCHANGED <<engine, steps, crossed>>
      /\ proc' = [o \in Procs |-> IF o = p THEN s ELSE [proc[o] EXCEPT !.attached = FALSE]]
  BY DEF ShowSessions
<1>2. ProcFits(q) /\ view \in ViewRecords BY DEF PanelIInv, ProcsFit, ViewFits
<1>3. q.ids \in Seq(Accounts) /\ Len(q.ids) \in Nat /\ Len(q.ids) <= PageSize
  BY <1>2, LenProperties DEF ProcFits, ProcRecords
<1>4. \A i \in 1 .. Len(q.ids) : q.ids[i] \in Accounts BY <1>3, ElementOfSeq
<1>5. \A i \in 1 .. Len(q.ids) : row(i) \in RowRecords BY <1>4 DEF RowRecords
<1>6. \A i \in 1 .. Len(q.ids) :
        row(i).id = q.ids[i] /\ row(i).devices = {} /\ row(i).open \in {"loading", "closed"}
  OBVIOUS
<1>7. \A i \in 1 .. Len(q.ids) : rows[i] = row(i) OBVIOUS
<1>8. rows \in [1 .. Len(q.ids) -> RowRecords] BY <1>5
<1> HIDE DEF rows, row
<1>9. rows \in Seq(RowRecords) /\ Len(rows) = Len(q.ids) BY <1>3, <1>8
<1>10. targets \in SUBSET Nat /\ targets \subseteq 1 .. Len(q.ids) BY <1>9
<1>11. targets = OpenRows(rows) BY <1>6, <1>7, <1>9 DEF OpenRows
<1> HIDE DEF targets
<1>12. /\ at.pc = "list" /\ at.attached /\ at.ids = q.ids /\ at.page = q.page /\ ProcFits(at)
  BY <1>1, <1>2 DEF ProcFits, ProcRecords, Filling
<1>13. /\ ProcFits(s) /\ s.pc \notin {"sessions", "list"}
       /\ targets = {} => s.pc \notin Filling
       /\ targets # {} => s.pc \in Filling /\ s.targets = targets /\ s.ids = q.ids /\ s.attached
  <2> HIDE DEF at, q
  <2>1. CASE targets = {}
    <3>1. s = Ended(at) BY <2>1 DEF NextRow
    <3> QED BY <2>1, <3>1, EndedFits DEF Filling
  <2>2. CASE targets # {}
    <3> DEFINE t == [at EXCEPT !.pc = "devices", !.targets = targets, !.got = {}]
    <3>1. s = t BY <2>2 DEF NextRow
    <3>2. /\ t \in ProcRecords /\ t.pc = "devices" /\ t.ids = at.ids /\ t.act = at.act
          /\ t.body = at.body /\ t.targets = targets /\ t.attached = at.attached
      BY <1>10, <1>12 DEF ProcFits, ProcRecords
    <3>3. ProcFits(t) BY <1>10, <1>12, <2>2, <3>2 DEF ProcFits
    <3> HIDE DEF t
    <3> QED BY <1>12, <2>2, <3>1, <3>2, <3>3 DEF Filling
  <2> QED BY <2>1, <2>2
<1> HIDE DEF s, at
<1>14. Named(q.ids, targets) = (IF targets = {} THEN Null ELSE q.ids[Smallest(targets)]) BY DEF Named
<1>15. targets # {} => Smallest(targets) \in targets BY <1>10, SmallestIn
<1>16. Named(q.ids, targets) \in Accounts \cup {Null} BY <1>4, <1>10, <1>14, <1>15
<1>17. q.total \in Nat /\ q.page \in Nat BY <1>2 DEF ProcFits, ProcRecords
<1> HIDE DEF q
<1>18. /\ v \in ViewRecords /\ v.rows = rows /\ v.named = Named(q.ids, targets) /\ v.metrics = view.metrics
       /\ v.booted /\ v.page = view.page /\ v.label = view.page /\ v.of = q.page
  BY <1>2, <1>9, <1>16, <1>17 DEF ViewRecords
<1> HIDE DEF v
<1>19. proc'[p] = s /\ \A o \in Procs : o # p => proc'[o] = [proc[o] EXCEPT !.attached = FALSE]
  BY <1>1
<1>20. ASSUME NEW o \in Procs, o # p
       PROVE  ProcFits(proc'[o]) /\ ~proc'[o].attached /\ proc'[o].pc = proc[o].pc /\ proc'[o].page = proc[o].page
  <2>1. ProcFits(proc[o]) BY DEF PanelIInv, ProcsFit
  <2> DEFINE t == [proc[o] EXCEPT !.attached = FALSE]
  <2>2. /\ t \in ProcRecords /\ t.pc = proc[o].pc /\ t.ids = proc[o].ids /\ t.act = proc[o].act
        /\ t.body = proc[o].body /\ t.targets = proc[o].targets /\ ~t.attached /\ t.page = proc[o].page
    BY <2>1 DEF ProcFits, ProcRecords
  <2>3. ProcFits(t) BY <2>1, <2>2 DEF ProcFits
  <2>4. proc'[o] = t BY <1>19, <1>20
  <2> HIDE DEF t
  <2> QED BY <2>2, <2>3, <2>4
<1>21. ProcsFit'
  <2>1. \A o \in Procs : ProcFits(proc'[o]) BY <1>13, <1>19, <1>20
  <2>2. proc' = [o \in Procs |-> proc'[o]] BY <1>1
  <2> QED BY <2>1, <2>2 DEF ProcsFit, ProcFits, AddsUp
<1>22. RowsServed'
  <2>1. \A o \in Procs : Fills(proc'[o], v)
    <3> TAKE o \in Procs
    <3>1. CASE o = p
      <4>1. \A i \in 1 .. Len(rows) : rows[i].id = q.ids[i] BY <1>6, <1>7, <1>9
      <4> QED BY <1>9, <1>11, <1>13, <1>18, <1>19, <3>1, <4>1 DEF Fills
    <3>2. CASE o # p BY <1>20, <3>2 DEF Fills
    <3> QED BY <3>1, <3>2
  <2>2. ASSUME NEW i \in 1 .. Len(rows), rows[i].open = "loading" PROVE Serves(proc'[p], i)
    <3>1. i \in targets BY <2>2 DEF targets
    <3> QED BY <1>13, <1>19, <3>1 DEF Serves
  <2>3. \A o : (Fills(proc[o], view)' <=> Fills(proc'[o], v)) BY <1>1 DEF Fills, OpenRows
  <2>4. \A o, i : Serves(proc[o], i)' <=> Serves(proc'[o], i) BY DEF Serves
  <2> QED BY <1>1, <1>18, <2>1, <2>2, <2>3, <2>4 DEF RowsServed
<1>23. ViewFits'
  <2>1. NamesRow(v)
    <3>1. targets # {} => v.named = q.ids[Smallest(targets)] BY <1>14, <1>18
    <3>2. targets # {} => v.named \in Accounts BY <1>4, <1>10, <1>15, <3>1
    <3>3. ASSUME NEW j \in targets, targets = {j} PROVE v.named = rows[j].id
      <4>1. Smallest(targets) = j BY <1>15, <3>3
      <4>2. rows[j].id = q.ids[j] BY <1>6, <1>7, <1>10
      <4> QED BY <3>1, <3>3, <4>1, <4>2
    <3> QED BY <1>11, <1>18, <3>2, <3>3 DEF NamesRow
  <2>2. \A i \in 1 .. Len(v.rows) : v.rows[i].open # "shown" => v.rows[i].devices = {}
    BY <1>6, <1>7, <1>9, <1>18
  <2>3. Len(v.rows) <= PageSize BY <1>3, <1>9, <1>18
  <2>4. AddsUp(v.metrics) BY <1>18 DEF PanelIInv, ViewFits
  <2>5. (NamesRow(view)' <=> NamesRow(v)) /\ (AddsUp(view.metrics)' <=> AddsUp(v.metrics))
    BY <1>1 DEF NamesRow, OpenRows, AddsUp
  <2>6. (view \in ViewRecords)' BY <1>1, <1>18 DEF ViewRecords
  <2> QED BY <1>1, <2>1, <2>2, <2>3, <2>4, <2>5, <2>6 DEF ViewFits
<1>24. PagesKept'
  <2>1. ASSUME ~crossed PROVE v.label = v.of /\ \A o \in Procs : OnPage(proc[o])'
    <3>1. q.page = view.page BY <1>1, <2>1 DEF PanelIInv, PagesKept, OnPage, q
    <3>2. ASSUME NEW o \in Procs PROVE proc'[o].pc \in {"sessions", "list"} => proc'[o].page = v.page
      <4>1. CASE o = p BY <1>13, <1>19, <4>1
      <4>2. CASE o # p BY <1>18, <1>20, <2>1, <4>2 DEF PanelIInv, PagesKept, OnPage
      <4> QED BY <4>1, <4>2
    <3> QED BY <1>1, <1>18, <3>1, <3>2 DEF OnPage
  <2> QED BY <1>1, <1>18, <2>1 DEF PagesKept
<1>25. EngineFits' /\ steps' \in Nat BY <1>1, EngineStays DEF PanelIInv
<1> QED BY <1>21, <1>22, <1>23, <1>24, <1>25 DEF PanelIInv

LEMMA PanelStarts == ASSUME PanelStart PROVE PanelIInv
<1>1. /\ online = First /\ devices = [a \in Accounts |-> Devices] /\ buffer = <<>>
      /\ steps = 0 /\ crossed = FALSE /\ proc = [p \in Procs |-> NoProc]
  BY DEF PanelStart
<1>2. view = [booted |-> FALSE, page |-> 0, total |-> 0, label |-> 0, of |-> 0, expanded |-> {},
              rows |-> <<>>, named |-> Null, metrics |-> Null]
  BY DEF PanelStart
<1>3. EngineFits
  <2>1. \A a \in Accounts : \E i \in 1 .. Len(First) : First[i] = a BY DEF Accounts
  <2>2. Devices # {} BY PanelAssumption
  <2>3. <<>> \in Seq(Types) /\ Len(<<>>) <= Buffered BY PanelConstants
  <2> QED BY <1>1, <2>1, <2>2, <2>3, PanelConstants DEF EngineFits
<1>4. ProcsFit BY <1>1, NoProcFits DEF ProcsFit
<1>5. view.rows = <<>> /\ Len(view.rows) = 0 /\ ~view.booted /\ view.label = view.of /\ view.metrics = Null
  BY <1>2
<1>6. ViewFits
  <2>1. <<>> \in Seq(RowRecords) OBVIOUS
  <2>2. view \in ViewRecords BY <1>2, <2>1 DEF ViewRecords
  <2>3. OpenRows(view.rows) = {} BY <1>5 DEF OpenRows
  <2>4. NamesRow(view) BY <2>3 DEF NamesRow
  <2>5. 0 <= PageSize BY PanelConstants
  <2> QED BY <1>5, <2>2, <2>4, <2>5 DEF ViewFits, AddsUp
<1>7. RowsServed
  <2>1. \A p \in Procs : proc[p].pc \notin Filling BY <1>1, NoProcFits DEF Filling
  <2> QED BY <1>5, <2>1 DEF RowsServed, Fills
<1>8. PagesKept BY <1>1, <1>5, NoProcFits DEF PagesKept, OnPage, AtRest
<1> QED BY <1>1, <1>3, <1>4, <1>6, <1>7, <1>8 DEF PanelIInv

LEMMA PanelKept == ASSUME PanelIInv, [PanelNext]_panelVars PROVE PanelIInv'
<1>1. CASE UNCHANGED panelVars
  <2>1. UNCHANGED <<engine, view, proc, steps, crossed>> BY <1>1 DEF panelVars
  <2>2. EngineFits' /\ steps' \in Nat BY <2>1, EngineStays DEF PanelIInv
  <2> QED BY <2>1, <2>2, EngineMoves
<1>2. ASSUME NEW p \in Procs, BootPanel(p) PROVE PanelIInv' BY <1>2, BootPanelKeeps
<1>3. ASSUME NEW a \in Accounts, NEW d \in Devices, LogsIn(a, d) PROVE PanelIInv' BY <1>3, LogsInKeeps
<1>4. ASSUME NEW t \in Types, Rotates(t) PROVE PanelIInv' BY <1>4, RotatesKeeps
<1>5. ASSUME NEW p \in Procs, view.booted,
             \/ ReadLoginIds(p) \/ ReadOnlineCount(p) \/ ReadDevices(p) \/ ReadMetrics(p) \/ Perform(p)
             \/ PressRefresh(p) \/ RefreshMetrics(p) \/ Acted(p)
             \/ Turn(p, view.page + 1) \/ Turn(p, view.page - 1)
             \/ \E i \in 1 .. Len(view.rows) : PressExpand(p, i) \/ PressAction(p, i)
             \/ ShowSessions(p) \/ ShowDevices(p) \/ ShowMetrics(p) \/ CallFails(p)
      PROVE  PanelIInv'
  <2>1. CASE ReadLoginIds(p) BY <1>5, <2>1, ReadLoginIdsKeeps
  <2>2. CASE ReadOnlineCount(p) BY <1>5, <2>2, ReadOnlineCountKeeps
  <2>3. CASE ReadDevices(p) BY <1>5, <2>3, ReadDevicesKeeps
  <2>4. CASE ReadMetrics(p) BY <1>5, <2>4, ReadMetricsKeeps
  <2>5. CASE Perform(p) BY <1>5, <2>5, PerformKeeps
  <2>6. CASE PressRefresh(p) BY <1>5, <2>6, PressRefreshKeeps
  <2>7. CASE RefreshMetrics(p) BY <1>5, <2>7, RefreshMetricsKeeps
  <2>8. CASE Acted(p) BY <1>5, <2>8, ActedKeeps
  <2>9. CASE Turn(p, view.page + 1) \/ Turn(p, view.page - 1)
    <3>1. view.page \in Nat BY DEF PanelIInv, ViewFits, ViewRecords
    <3>2. view.page + 1 \in Int /\ view.page - 1 \in Int BY <3>1
    <3> QED BY <1>5, <2>9, <3>2, TurnKeeps
  <2>10. ASSUME NEW i \in 1 .. Len(view.rows), PressExpand(p, i) \/ PressAction(p, i) PROVE PanelIInv'
    BY <1>5, <2>10, PressExpandKeeps, PressActionKeeps
  <2>11. CASE ShowSessions(p) BY <1>5, <2>11, ShowSessionsKeeps
  <2>12. CASE ShowDevices(p) BY <1>5, <2>12, ShowDevicesKeeps
  <2>13. CASE ShowMetrics(p) BY <1>5, <2>13, ShowMetricsKeeps
  <2>14. CASE CallFails(p) BY <1>5, <2>14, CallFailsKeeps
  <2> QED BY <1>5, <2>1, <2>2, <2>3, <2>4, <2>5, <2>6, <2>7, <2>8, <2>9, <2>10, <2>11, <2>12, <2>13, <2>14
<1> QED BY <1>1, <1>2, <1>3, <1>4, <1>5 DEF PanelNext

(* However many functions of the page are under way and fail, no row is     *)
(* left loading, a button of a session, and of a device while no other      *)
(* session is expanded, acts on the account of its row, the list is that of *)
(* the page number unless the page was turned under way, and the cards of   *)
(* the metrics account for every event of the buffer.                       *)
THEOREM PanelHolds == PanelSpec => []PanelInv
<1>1. PanelStart => PanelIInv BY PanelStarts
<1>2. PanelIInv /\ [PanelNext]_panelVars => PanelIInv' BY PanelKept
<1>3. PanelIInv => PanelInv
  <2> SUFFICES ASSUME PanelIInv PROVE PanelInv OBVIOUS
  <2>1. PanelTypeOK
    <3>1. \A i \in 1 .. Len(buffer) : buffer[i] \in Types BY ElementOfSeq DEF PanelIInv, EngineFits
    <3> QED BY <3>1 DEF PanelTypeOK, PanelIInv, EngineFits, ViewFits, ViewRecords
  <2>2. NoRowLoadsForever
    BY DEF NoRowLoadsForever, PanelIInv, RowsServed, Serves, AtRest, Filling
  <2>3. KickHitsItsRow BY DEF KickHitsItsRow, PanelIInv, ProcsFit, ProcFits
  <2>4. LabelMatchesRows BY DEF LabelMatchesRows, PanelIInv, PagesKept
  <2>5. MetricsAddUp BY DEF MetricsAddUp, PanelIInv, ViewFits, AddsUp
  <2> QED BY <2>1, <2>2, <2>3, <2>4, <2>5 DEF PanelInv
<1> QED BY <1>1, <1>2, <1>3, PTL DEF PanelSpec

-----------------------------------------------------------------------------
(* The exporters, for any events, loggers and severities.  Once api is      *)
(* known nothing changes but the list of what became of events.             *)
Outcome(e, log, counts, active, span) ==
  [event |-> e, active |-> active, level |-> Writer(e.type),
   log |-> Log(e, log), count |-> Count(counts), span |-> SpanEvent(e, active, span, counts)]

Outcomes == {Outcome(e, log, counts, active, span) :
               e \in Shapes, log \in BOOLEAN, counts \in BOOLEAN, active \in BOOLEAN, span \in BOOLEAN}

ExportIInv ==
  /\ options \in Options
  /\ api \in {"loading", "loaded", "missing"}
  /\ counter \in BOOLEAN /\ (counter => api = "loaded")
  /\ exports \in Seq(Outcomes)
  /\ api = "loading" => exports = <<>>

LEMMA OutcomesStay ==
  ASSUME UNCHANGED <<options, api, counter>> PROVE Outcomes' = Outcomes
<1>1. \A type : Writer(type)' = Writer(type) BY DEF Writer, Level
<1>2. \A on, works, fields : Part(on, works, fields)' = Part(on, works, fields) BY DEF Part
<1>3. \A e, log : Log(e, log)' = Log(e, log) BY <1>1, <1>2 DEF Log
<1>4. \A counts : Count(counts)' = Count(counts) BY <1>2 DEF Count
<1>5. \A e, active, span, counts : SpanEvent(e, active, span, counts)' = SpanEvent(e, active, span, counts)
  BY <1>2 DEF SpanEvent
<1>6. \A e, log, counts, active, span : Outcome(e, log, counts, active, span)' = Outcome(e, log, counts, active, span)
  BY <1>1, <1>3, <1>4, <1>5 DEF Outcome
<1> QED BY <1>6 DEF Outcomes

LEMMA ExportKept == ASSUME ExportIInv, [ExportNext]_exportVars PROVE ExportIInv'
<1> USE DEF ExportIInv
<1>1. CASE UNCHANGED exportVars
  <2>1. UNCHANGED <<options, api, counter, exports>> BY <1>1 DEF exportVars
  <2>2. Outcomes' = Outcomes BY <2>1, OutcomesStay
  <2> QED BY <2>1, <2>2 DEF Options
<1>2. CASE CreateOpenTelemetryEventSink
  <2>1. exports' = <<>> /\ options' = options BY <1>2 DEF CreateOpenTelemetryEventSink
  <2>2. exports' \in Seq(Outcomes') BY <2>1
  <2>3. api' \in {"loaded", "missing"} /\ counter' \in BOOLEAN /\ (counter' => api' = "loaded")
    BY <1>2 DEF CreateOpenTelemetryEventSink
  <2> QED BY <2>1, <2>2, <2>3 DEF Options
<1>3. ASSUME NEW e \in Shapes, NEW log \in BOOLEAN, NEW counts \in BOOLEAN, NEW active \in BOOLEAN,
             NEW span \in BOOLEAN, Export(e, log, counts, active, span)
      PROVE  ExportIInv'
  <2> DEFINE o == Outcome(e, log, counts, active, span)
  <2>1. /\ UNCHANGED <<options, api, counter>> /\ api # "loading"
        /\ exports' = Append(exports, o)
    BY <1>3 DEF Export, Outcome
  <2>2. o \in Outcomes BY DEF Outcomes
  <2>3. Outcomes' = Outcomes BY <2>1, OutcomesStay
  <2> HIDE DEF o
  <2>4. exports' \in Seq(Outcomes') BY <2>1, <2>2, <2>3
  <2> QED BY <2>1, <2>4 DEF Options
<1> QED BY <1>1, <1>2, <1>3 DEF ExportNext

(* Two lists of fields that name each field once tell the same of an event. *)
LEMMA CarriesFields ==
  ASSUME NEW name, NEW e, \A f, g \in DOMAIN name : name[f] = name[g] => f = g
  PROVE  Carries(Renamed(name, e), name) = {<<f, e[f]>> : f \in DOMAIN name \cap DOMAIN e}
<1> DEFINE S == {<<f, e[f]>> : f \in DOMAIN name \cap DOMAIN e}
<1>1. ASSUME NEW p \in S PROVE p \in Carries(Renamed(name, e), name)
  <2>1. PICK f \in DOMAIN name \cap DOMAIN e : p = <<f, e[f]>> OBVIOUS
  <2>2. <<name[f], e[f]>> \in Renamed(name, e) BY DEF Renamed
  <2>3. <<f, <<name[f], e[f]>>[2]>> = p /\ p[1] = f /\ p[2] = e[f] BY <2>1
  <2>4. p \in {<<g, x[2]>> : g \in DOMAIN name, x \in Renamed(name, e)} BY <2>1, <2>2, <2>3
  <2> QED BY <2>2, <2>3, <2>4 DEF Carries
<1>2. ASSUME NEW p \in Carries(Renamed(name, e), name) PROVE p \in S
  <2>1. PICK f \in DOMAIN name, x \in Renamed(name, e) :
          p = <<f, x[2]>> /\ <<name[p[1]], p[2]>> \in Renamed(name, e)
    BY DEF Carries
  <2>a. <<name[f], x[2]>> \in Renamed(name, e) BY <2>1
  <2>2. PICK g \in DOMAIN name \cap DOMAIN e : <<name[f], x[2]>> = <<name[g], e[g]>> BY <2>a DEF Renamed
  <2>3. name[f] = name[g] /\ x[2] = e[g] BY <2>2
  <2>4. f = g BY <2>3
  <2> QED BY <2>1, <2>3, <2>4
<1> QED BY <1>1, <1>2

LEMMA OutcomeTold ==
  ASSUME ExportIInv, NEW x \in Outcomes
  PROVE  /\ x.level \in Levels \cup {Null}
         /\ api = "missing" => x.count.done = "off" /\ x.span.done = "off"
         /\ x.log.done = "out" /\ x.span.done = "out" =>
              Carries(x.log.fields, LogName) = Carries(x.span.fields, AttributeName)
         /\ \A f \in x.log.fields \cup x.span.fields :
              \E g \in DOMAIN LogName : f[1] \in {LogName[g], AttributeName[g]}
         /\ "info" \in options.logger => x.log.done # "off"
         /\ api = "loaded" /\ options.spanEvents /\ x.active /\ options.onError # "throws" => x.span.done # "off"
         /\ options.onError = "reports" => "failed" \notin {x.log.done, x.count.done, x.span.done}
<1>1. PICK e \in Shapes, log \in BOOLEAN, counts \in BOOLEAN, active \in BOOLEAN, span \in BOOLEAN :
        x = Outcome(e, log, counts, active, span)
  BY DEF Outcomes
<1>2. /\ x.active = active /\ x.level = Writer(e.type) /\ x.log = Log(e, log)
      /\ x.count = Count(counts) /\ x.span = SpanEvent(e, active, span, counts)
  BY <1>1 DEF Outcome
<1>3. options.logger \subseteq Levels /\ Null \notin Levels
  BY ExportAssumption DEF ExportIInv, Options
<1>4. ASSUME NEW on, NEW works, NEW fields
      PROVE  LET p == Part(on, works, fields) IN
             /\ p.done \in {"off", "out", "told", "failed"}
             /\ ~on => p.done = "off"
             /\ p.done = "out" <=> on /\ works
             /\ p.fields = IF on /\ works THEN fields ELSE {}
             /\ options.onError = "reports" => p.done # "failed"
  BY DEF Part
<1>5. Writer(e.type) \in Levels \cup {Null} /\ ("info" \in options.logger => Writer(e.type) # Null)
  BY <1>3 DEF Writer, Levels
<1>6. DOMAIN LogName = DOMAIN AttributeName BY DEF LogName, AttributeName
<1>7. x.log.done = "out" => x.log.fields = Renamed(LogName, e.fields)
  BY <1>2, <1>4 DEF Log, BuildRecord
<1>8. x.span.done = "out" => x.span.fields = Renamed(AttributeName, e.fields)
  BY <1>2, <1>4 DEF SpanEvent, AuditEventAttributes
<1>9. ASSUME x.log.done = "out", x.span.done = "out"
      PROVE  Carries(x.log.fields, LogName) = Carries(x.span.fields, AttributeName)
  <2>1. \A f, g \in DOMAIN LogName : LogName[f] = LogName[g] => f = g BY DEF LogName
  <2>2. \A f, g \in DOMAIN AttributeName : AttributeName[f] = AttributeName[g] => f = g BY DEF AttributeName
  <2>3. Carries(Renamed(LogName, e.fields), LogName)
          = {<<f, e.fields[f]>> : f \in DOMAIN LogName \cap DOMAIN e.fields}
    BY <2>1, CarriesFields
  <2>4. Carries(Renamed(AttributeName, e.fields), AttributeName)
          = {<<f, e.fields[f]>> : f \in DOMAIN AttributeName \cap DOMAIN e.fields}
    BY <2>2, CarriesFields
  <2> QED BY <1>6, <1>7, <1>8, <1>9, <2>3, <2>4
<1>10. ASSUME NEW f \in x.log.fields \cup x.span.fields
       PROVE  \E g \in DOMAIN LogName : f[1] \in {LogName[g], AttributeName[g]}
  <2>1. x.log.fields \subseteq Renamed(LogName, e.fields) BY <1>2, <1>4 DEF Log, BuildRecord
  <2>2. x.span.fields \subseteq Renamed(AttributeName, e.fields) BY <1>2, <1>4 DEF SpanEvent, AuditEventAttributes
  <2>3. CASE f \in Renamed(LogName, e.fields) BY <2>3 DEF Renamed
  <2>4. CASE f \in Renamed(AttributeName, e.fields)
    <3>1. PICK g \in DOMAIN AttributeName : f[1] = AttributeName[g] BY <2>4 DEF Renamed
    <3> QED BY <1>6, <3>1
  <2> QED BY <1>10, <2>1, <2>2, <2>3, <2>4
<1>11. api = "missing" => x.count.done = "off" /\ x.span.done = "off"
  BY <1>2, <1>4 DEF Count, SpanEvent, ExportIInv
<1>12. "info" \in options.logger => x.log.done # "off" BY <1>2, <1>5 DEF Log, Part
<1>13. api = "loaded" /\ options.spanEvents /\ x.active /\ options.onError # "throws" => x.span.done # "off"
  <2>1. SUFFICES ASSUME api = "loaded", options.spanEvents, x.active, options.onError # "throws"
                 PROVE  x.span.done # "off"
    OBVIOUS
  <2>2. active /\ ~(counter /\ ~counts /\ options.onError = "throws") BY <1>2, <2>1
  <2> QED BY <1>2, <2>1, <2>2 DEF SpanEvent, Part
<1>14. options.onError = "reports" => "failed" \notin {x.log.done, x.count.done, x.span.done}
  BY <1>2, <1>4 DEF Log, Count, SpanEvent
<1> QED BY <1>2, <1>5, <1>9, <1>10, <1>11, <1>12, <1>13, <1>14

(* Whatever an application emits, its loggers can write and fails: log and  *)
(* trace say the same of an event, nothing that is in no list of fields     *)
(* leaves the process, and an event that is not exported is told of.        *)
THEOREM ExportsHold == ExportSpec => []ExportInv
<1>1. ExportStart => ExportIInv
  <2>1. <<>> \in Seq(Outcomes) OBVIOUS
  <2> QED BY <2>1 DEF ExportStart, ExportIInv
<1>2. ExportIInv /\ [ExportNext]_exportVars => ExportIInv' BY ExportKept
<1>3. ExportIInv => ExportInv
  <2> SUFFICES ASSUME ExportIInv PROVE ExportInv OBVIOUS
  <2>1. \A i \in 1 .. Len(exports) : exports[i] \in Outcomes BY DEF ExportIInv
  <2>2. ExportTypeOK BY <2>1, OutcomeTold DEF ExportTypeOK, ExportIInv
  <2>3. ExportsAgree BY <2>1, OutcomeTold DEF ExportsAgree
  <2>4. NothingLostSilently BY <2>1, OutcomeTold DEF NothingLostSilently
  <2> QED BY <2>2, <2>3, <2>4 DEF ExportInv
<1> QED BY <1>1, <1>2, <1>3, PTL DEF ExportSpec

-----------------------------------------------------------------------------
(* AuditTrail.  What an emission leaves on the trail.                       *)
LEMMA FirstAndLast ==
  ASSUME NEW n \in Nat, NEW S \in SUBSET (1 .. n), S # {}
  PROVE  (\E i \in S : \A j \in S : i <= j) /\ (\E i \in S : \A j \in S : i >= j)
<1>1. \E i \in S : \A j \in S : i <= j
  <2>1. PICK i \in S : \A j \in S : ~(j < i) BY LeastCounterexample, S \subseteq Nat
  <2> QED BY <2>1
<1>2. \E i \in S : \A j \in S : i >= j
  <2> DEFINE D == {n - i : i \in S}
  <2>1. D \subseteq Nat /\ D # {} BY \A i \in S : n - i \in Nat
  <2>2. PICK d \in D : \A k \in D : ~(k < d) BY <2>1, LeastCounterexample
  <2>3. PICK i \in S : d = n - i BY <2>2
  <2>4. ASSUME NEW j \in S PROVE i >= j
    <3>1. n - j \in D /\ i \in 1 .. n /\ j \in 1 .. n OBVIOUS
    <3> QED BY <2>2, <2>3, <3>1
  <2> QED BY <2>4
<1> QED BY <1>1, <1>2

Tells(told, f, d, e) ==
  told = [begun |-> IF f \in DOMAIN trail THEN trail[f].begun ELSE ~SaysEnded(d, f),
          ended |-> SaysEnded(e, f), loginId |-> e.loginId]

LEMMA EmitTells ==
  ASSUME NEW n \in Nat, NEW ev, DOMAIN ev = 1 .. n, EmitAuditEvents(ev)
  PROVE  /\ DOMAIN trail' = DOMAIN trail \cup UNION {Prints(ev[i]) : i \in 1 .. n}
         /\ \A f \in DOMAIN trail' :
              \/ (\A i \in 1 .. n : f \notin Prints(ev[i])) /\ trail'[f] = trail[f]
              \/ \E i, j \in 1 .. n :
                   f \in Prints(ev[i]) /\ f \in Prints(ev[j]) /\ Tells(trail'[f], f, ev[i], ev[j])
<1> DEFINE About(f) == {i \in DOMAIN ev : f \in Prints(ev[i])}
           first(f) == CHOOSE i \in About(f) : \A j \in About(f) : i <= j
           last(f) == CHOOSE i \in About(f) : \A j \in About(f) : i >= j
           A == DOMAIN trail \cup UNION {Prints(ev[i]) : i \in DOMAIN ev}
           g(f) == IF About(f) = {} THEN trail[f]
                   ELSE [begun |-> IF f \in DOMAIN trail THEN trail[f].begun ELSE ~SaysEnded(ev[first(f)], f),
                         ended |-> SaysEnded(ev[last(f)], f), loginId |-> ev[last(f)].loginId]
<1>1. trail' = [f \in A |-> g(f)] BY DEF EmitAuditEvents
<1>2. ASSUME NEW f \in A
      PROVE  \/ (\A i \in 1 .. n : f \notin Prints(ev[i])) /\ g(f) = trail[f]
             \/ \E i, j \in 1 .. n :
                  f \in Prints(ev[i]) /\ f \in Prints(ev[j]) /\ Tells(g(f), f, ev[i], ev[j])
  <2>1. CASE About(f) = {} BY <2>1
  <2>2. CASE About(f) # {}
    <3>1. About(f) \in SUBSET (1 .. n) OBVIOUS
    <3>2. \E i \in About(f) : \A j \in About(f) : i <= j BY <2>2, <3>1, FirstAndLast
    <3>3. \E i \in About(f) : \A j \in About(f) : i >= j BY <2>2, <3>1, FirstAndLast
    <3>4. first(f) \in About(f) /\ last(f) \in About(f)
      <4> HIDE DEF About
      <4> QED BY <3>2, <3>3
    <3>5. first(f) \in 1 .. n /\ last(f) \in 1 .. n /\ f \in Prints(ev[first(f)]) /\ f \in Prints(ev[last(f)])
      <4> HIDE DEF first, last
      <4> QED BY <3>4
    <3>6. Tells(g(f), f, ev[first(f)], ev[last(f)])
      <4> HIDE DEF first, last, About
      <4> QED BY <2>2 DEF Tells
    <3> HIDE DEF first, last, g
    <3> QED BY <3>5, <3>6
  <2> QED BY <2>1, <2>2
<1> HIDE DEF g
<1>3. DOMAIN trail' = A /\ \A f \in A : trail'[f] = g(f) BY <1>1
<1> QED BY <1>2, <1>3

-----------------------------------------------------------------------------
(* The engine's keys, the batch and the trail are as they should be.        *)
TrailTypes ==
  /\ slots \in Layouts
  /\ kind \in {"uuid", "jwt"} /\ mode \in {"single", "replace", "share", "several"}
  /\ session \in [slots -> Tokens \cup {Null}] /\ listed \in [slots -> Tokens \cup {Null}]
  /\ status \in [Tokens -> {"none", "live", "gone"} \cup Markers]
  /\ owner \in [Tokens -> slots \cup {Null}]
  /\ lost \in BOOLEAN /\ rejected \in BOOLEAN

(* The session key and the list name tokens of their own device, the list   *)
(* only accepted ones, and the two differ only behind an expired list.      *)
IndexesFit ==
  /\ \A s \in slots : session[s] # Null => owner[session[s]] = s
  /\ \A s \in slots : listed[s] # Null => session[s] = listed[s] /\ status[listed[s]] = "live"
  /\ \A t \in Tokens : status[t] = "none" <=> owner[t] = Null
  /\ ~lost => session = listed
  /\ rejected => lost

EngineInv == TrailTypes /\ IndexesFit

BatchTypes ==
  /\ batch \in [op: {"none", "kickoutByDevices", "logoutByDevices", "kickoutByLoginIds", "logoutByLoginIds"},
                accounts: SUBSET Owners, todo: SUBSET slots, checked: Owners \cup {Null}, ends: SUBSET Tokens]
  /\ batch.op = "none" => batch = NoBatch
  /\ batch.op # "none" => ~lost
  /\ batch.checked # Null => batch.todo = {}

(* A token the batch is to end is accepted only as long as its device, or   *)
(* its account, is still to come; until then the device has no other.       *)
Awaits(t, todo, accounts) ==
  /\ status[t] # "none"
  /\ status[t] = "live" => session[owner[t]] = t /\ (owner[t] \in todo \/ owner[t][1] \in accounts)

BatchInv ==
  BatchTypes /\ \A t \in batch.ends : Awaits(t, batch.todo, batch.accounts \cup {batch.checked})

LiveIsTold ==
  ~lost /\ mode # "single" =>
    \A t \in Tokens : status[t] # "none" => (status[t] = "live" <=> ~trail[FingerprintToken(t)].ended)

SaidInv ==
  /\ \A t \in Tokens : status[t] # "none" <=> FingerprintToken(t) \in DOMAIN trail
  /\ TrailJoins /\ LiveIsTold /\ TrailNamesOwner

TrailIInv == EngineInv /\ BatchInv /\ SaidInv

LEMMA LayoutFits ==
  ASSUME slots \in Layouts
  PROVE  /\ IsFiniteSet(slots) /\ Null \notin slots /\ Null \notin Tokens
         /\ \A s \in slots : s[1] \notin Markers \cup {Null}
BY TrailAssumption

LEMMA FingerprintsDiffer ==
  ASSUME NEW t \in Tokens
  PROVE  /\ FingerprintToken(t) # Null /\ <<"jti", t>> # Null
         /\ \A u \in Tokens : FingerprintToken(u) = FingerprintToken(t) => u = t
         /\ \A u \in Tokens : FingerprintToken(u) # <<"jti", t>>
BY TrailAssumption DEF FingerprintToken

LEMMA TrailFollows == TrailIInv => TrailInv
<1> SUFFICES ASSUME TrailIInv PROVE TrailInv OBVIOUS
<1> USE LayoutFits DEF TrailIInv, EngineInv, TrailTypes
<1>1. TrailTypeOK /\ CallsDontThrow BY DEF TrailTypeOK, IndexesFit, BatchInv, BatchTypes, CallsDontThrow
<1>2. ASSUME NEW t \in Tokens, status[t] # "none" PROVE owner[t] \in slots /\ owner[t][1] # Null
  BY <1>2 DEF IndexesFit
<1>3. TrailTellsState BY <1>2 DEF TrailTellsState, SaidInv, LiveIsTold, GetLoginIdByToken
<1>4. BatchEnds
  <2> SUFFICES ASSUME Finished, ~lost, NEW t \in batch.ends PROVE status[t] # "live"
    BY DEF BatchEnds, GetLoginIdByToken
  <2>1. t \in Tokens BY DEF BatchInv, BatchTypes
  <2>2. batch.todo = {} /\ batch.accounts \cup {batch.checked} = {Null} BY DEF Finished
  <2>3. Awaits(t, {}, {Null}) BY <2>2 DEF BatchInv
  <2> QED BY <1>2, <2>1, <2>3 DEF Awaits
<1> QED BY <1>1, <1>3, <1>4 DEF TrailInv, SaidInv

LEMMA TrailBegins == TrailStart => TrailIInv
<1> SUFFICES ASSUME TrailStart PROVE TrailIInv OBVIOUS
<1> USE LayoutFits DEF TrailStart
<1>1. EngineInv BY DEF EngineInv, TrailTypes, IndexesFit
<1>2. BatchInv BY DEF BatchInv, BatchTypes, NoBatch
<1>3. DOMAIN trail = {} OBVIOUS
<1>4. SaidInv BY <1>3 DEF SaidInv, TrailJoins, LiveIsTold, TrailNamesOwner
<1> QED BY <1>1, <1>2, <1>4 DEF TrailIInv

-----------------------------------------------------------------------------
(* What an event about a token must say, and what a step may do to a token  *)
(* without an event.                                                        *)
Speaks(t, e) ==
  /\ ~lost /\ mode # "single" => (SaysEnded(e, FingerprintToken(t)) <=> status'[t] # "live")
  /\ e.loginId = owner'[t][1] \/ (kind = "uuid" /\ status'[t] = "gone" /\ e.loginId \in Markers)

Silent(t) ==
  /\ owner'[t] = owner[t]
  /\ ~lost /\ mode # "single" => (status'[t] = "live" <=> status[t] = "live")
  /\ kind = "uuid" /\ status[t] = "gone" => status'[t] = "gone"

LEMMA TrailMoves ==
  ASSUME SaidInv, UNCHANGED <<lost, kind, mode>>,
         NEW n \in Nat, NEW ev, DOMAIN ev = 1 .. n, EmitAuditEvents(ev),
         \A i \in 1 .. n : \A f \in Prints(ev[i]) : ~lost => f \in DOMAIN trail \/ ~SaysEnded(ev[i], f),
         \A t \in Tokens : status'[t] # "none" <=>
           (status[t] # "none" \/ \E i \in 1 .. n : FingerprintToken(t) \in Prints(ev[i])),
         \A t \in Tokens : \A i \in 1 .. n : FingerprintToken(t) \in Prints(ev[i]) => Speaks(t, ev[i]),
         \A t \in Tokens : status[t] # "none" =>
           Silent(t) \/ \E i \in 1 .. n : FingerprintToken(t) \in Prints(ev[i])
  PROVE  SaidInv'
<1>1. DOMAIN trail' = DOMAIN trail \cup UNION {Prints(ev[i]) : i \in 1 .. n} BY EmitTells
<1>2. ASSUME NEW f \in DOMAIN trail'
      PROVE  \/ f \in DOMAIN trail /\ (\A i \in 1 .. n : f \notin Prints(ev[i])) /\ trail'[f] = trail[f]
             \/ \E i, j \in 1 .. n :
                  f \in Prints(ev[i]) /\ f \in Prints(ev[j]) /\ Tells(trail'[f], f, ev[i], ev[j])
  BY <1>1, <1>2, EmitTells
<1>3. \A t \in Tokens : status'[t] # "none" <=> FingerprintToken(t) \in DOMAIN trail'
  BY <1>1 DEF SaidInv
<1>4. TrailJoins'
  <2> SUFFICES ASSUME ~lost, NEW f \in DOMAIN trail' PROVE trail'[f].begun BY DEF TrailJoins
  <2>1. CASE f \in DOMAIN trail /\ trail'[f] = trail[f] BY <2>1 DEF SaidInv, TrailJoins
  <2>2. ASSUME NEW i \in 1 .. n, NEW j \in 1 .. n, f \in Prints(ev[i]), Tells(trail'[f], f, ev[i], ev[j])
        PROVE  trail'[f].begun
    <3>1. trail'[f].begun = IF f \in DOMAIN trail THEN trail[f].begun ELSE ~SaysEnded(ev[i], f)
      BY <2>2 DEF Tells
    <3>2. f \in DOMAIN trail \/ ~SaysEnded(ev[i], f) BY <2>2
    <3> QED BY <3>1, <3>2 DEF SaidInv, TrailJoins
  <2> QED BY <1>2, <2>1, <2>2
<1>5. LiveIsTold'
  <2> SUFFICES ASSUME ~lost, mode # "single", NEW t \in Tokens, status'[t] # "none"
               PROVE  status'[t] = "live" <=> ~trail'[FingerprintToken(t)].ended
    BY DEF LiveIsTold
  <2> DEFINE f == FingerprintToken(t)
  <2>1. f \in DOMAIN trail' BY <1>3
  <2>2. CASE f \in DOMAIN trail /\ (\A i \in 1 .. n : f \notin Prints(ev[i])) /\ trail'[f] = trail[f]
    <3>1. status[t] # "none" /\ Silent(t) BY <2>2 DEF SaidInv
    <3> QED BY <2>2, <3>1 DEF SaidInv, LiveIsTold, Silent
  <2>3. ASSUME NEW i \in 1 .. n, NEW j \in 1 .. n, f \in Prints(ev[j]), Tells(trail'[f], f, ev[i], ev[j])
        PROVE  status'[t] = "live" <=> ~trail'[f].ended
    <3>1. trail'[f].ended = SaysEnded(ev[j], f) BY <2>3 DEF Tells
    <3>2. SaysEnded(ev[j], f) <=> status'[t] # "live" BY <2>3 DEF Speaks
    <3>3. CASE status'[t] = "live"
      <4>1. SaysEnded(ev[j], f) = FALSE BY <3>2, <3>3 DEF SaysEnded
      <4> QED BY <3>1, <3>3, <4>1
    <3>4. CASE status'[t] # "live"
      <4>1. SaysEnded(ev[j], f) = TRUE BY <3>2, <3>4 DEF SaysEnded
      <4> QED BY <3>1, <3>4, <4>1
    <3> QED BY <3>3, <3>4
  <2>4. CASE \E i, j \in 1 .. n :
                f \in Prints(ev[i]) /\ f \in Prints(ev[j]) /\ Tells(trail'[f], f, ev[i], ev[j])
    <3>1. PICK i \in 1 .. n, j \in 1 .. n : f \in Prints(ev[j]) /\ Tells(trail'[f], f, ev[i], ev[j])
      BY <2>4
    <3> QED BY <2>3, <3>1
  <2> QED BY <1>2, <2>1, <2>2, <2>4
<1>6. TrailNamesOwner'
  <2> SUFFICES ASSUME NEW t \in Tokens, FingerprintToken(t) \in DOMAIN trail',
                      NEW id, id = trail'[FingerprintToken(t)].loginId
               PROVE  id = owner'[t][1] \/ (kind = "uuid" /\ status'[t] = "gone" /\ id \in Markers)
    BY DEF TrailNamesOwner
  <2> DEFINE f == FingerprintToken(t)
  <2>1. CASE f \in DOMAIN trail /\ (\A i \in 1 .. n : f \notin Prints(ev[i])) /\ trail'[f] = trail[f]
    <3>1. status[t] # "none" /\ Silent(t) BY <2>1 DEF SaidInv
    <3> QED BY <2>1, <3>1 DEF SaidInv, TrailNamesOwner, Silent
  <2>2. ASSUME NEW i \in 1 .. n, NEW j \in 1 .. n, f \in Prints(ev[j]), Tells(trail'[f], f, ev[i], ev[j])
        PROVE  id = ev[j].loginId /\ Speaks(t, ev[j])
    BY <2>2 DEF Tells
  <2> HIDE DEF f
  <2>3. f \in DOMAIN trail' BY DEF f
  <2>4. id = owner'[t][1] \/ (kind = "uuid" /\ status'[t] = "gone" /\ id \in Markers)
    BY <1>2, <2>1, <2>2, <2>3 DEF Speaks
  <2> QED BY <2>4
<1> QED BY <1>3, <1>4, <1>5, <1>6 DEF SaidInv

-----------------------------------------------------------------------------
(* Calls that end devices.                                                  *)
(* What a step leaves a token that a batch still has to end.                *)
Spares(t) ==
  status[t] # "none" =>
    /\ status'[t] # "none" /\ owner'[t] = owner[t]
    /\ status'[t] = "live" => status[t] = "live" /\ (session[owner[t]] = t => session'[owner[t]] = t)

LEMMA EndKeeps ==
  ASSUME EngineInv, NEW ended \in SUBSET slots, NEW retired \in SUBSET Tokens, NEW how \in {"KICK_OUT", "gone"},
         EndDevices(ended, retired, how), rejected' = rejected,
         \A t \in retired : status[t] # "none",
         \A s \in slots : listed[s] \in retired => s \in ended
  PROVE  EngineInv'
<1> USE LayoutFits DEF EngineInv, TrailTypes, EndDevices
<1>1. TrailTypes' BY DEF Markers
<1>2. \A s \in slots : session'[s] # Null => owner'[session'[s]] = s BY DEF IndexesFit
<1>3. \A s \in slots : listed'[s] # Null => session'[s] = listed'[s] /\ status'[listed'[s]] = "live"
  BY DEF IndexesFit
<1>4. \A t \in Tokens : status'[t] = "none" <=> owner'[t] = Null BY DEF IndexesFit
<1>5. ~lost' => session' = listed' BY DEF IndexesFit
<1>6. rejected' => lost' BY DEF IndexesFit
<1> QED BY <1>1, <1>2, <1>3, <1>4, <1>5, <1>6 DEF IndexesFit

LEMMA EndSpares ==
  ASSUME EngineInv, NEW ended \in SUBSET slots, NEW retired \in SUBSET Tokens, NEW how \in {"KICK_OUT", "gone"},
         EndDevices(ended, retired, how),
         \A s \in ended : session[s] # Null => session[s] \in retired
  PROVE  \A t \in Tokens : Spares(t)
BY LayoutFits DEF Spares, EngineInv, TrailTypes, IndexesFit, EndDevices

(* Each event tells the end of an ended token, to its account.              *)
NameEnded(ev, n, retired, how) ==
  \A i \in 1 .. n : \A f \in Prints(ev[i]) :
    /\ SaysEnded(ev[i], f)
    /\ ~lost => \E t \in retired : f = FingerprintToken(t)
    /\ \A t \in Tokens : f = FingerprintToken(t) =>
         /\ t \in retired
         /\ ev[i].loginId = owner[t][1] \/ (kind = "uuid" /\ how = "gone" /\ ev[i].loginId \in Markers)

(* Each ended token has its event, if there is a name for it.               *)
NameAll(ev, n, retired) ==
  \A t \in retired : (lost /\ kind = "jwt") \/ \E i \in 1 .. n : FingerprintToken(t) \in Prints(ev[i])

LEMMA EndTells ==
  ASSUME EngineInv, SaidInv, NEW ended \in SUBSET slots, NEW retired \in SUBSET Tokens, NEW how \in {"KICK_OUT", "gone"},
         EndDevices(ended, retired, how),
         \A t \in retired : status[t] # "none",
         NEW n \in Nat, NEW ev, DOMAIN ev = 1 .. n, EmitAuditEvents(ev),
         NameEnded(ev, n, retired, how), NameAll(ev, n, retired)
  PROVE  SaidInv'
<1> USE DEF EngineInv, TrailTypes, EndDevices
<1>1. \A i \in 1 .. n : \A f \in Prints(ev[i]) : ~lost => f \in DOMAIN trail BY DEF SaidInv, NameEnded
<1>2. \A t \in Tokens : status'[t] # "none" <=> status[t] # "none" OBVIOUS
<1>3. ASSUME NEW t \in Tokens, NEW i \in 1 .. n, FingerprintToken(t) \in Prints(ev[i])
      PROVE  status[t] # "none" /\ Speaks(t, ev[i])
  <2>1. t \in retired /\ SaysEnded(ev[i], FingerprintToken(t)) BY <1>3 DEF NameEnded
  <2>2. status'[t] = how /\ how # "live" /\ owner'[t] = owner[t] BY <2>1
  <2>3. ev[i].loginId = owner[t][1] \/ (kind = "uuid" /\ how = "gone" /\ ev[i].loginId \in Markers)
    BY <1>3 DEF NameEnded
  <2> QED BY <2>1, <2>2, <2>3 DEF Speaks
<1>4. ASSUME NEW t \in Tokens, ~\E i \in 1 .. n : FingerprintToken(t) \in Prints(ev[i])
      PROVE  Silent(t)
  BY <1>4 DEF Silent, NameAll
<1> QED BY <1>1, <1>2, <1>3, <1>4, TrailMoves

LEMMA EndEventSays ==
  ASSUME NEW type \in {"token.logged_out", "token.kicked_out"}, NEW loginId, NEW device, NEW print, print # Null,
         NEW e, e = [type |-> type, loginId |-> loginId, device |-> device,
                     token |-> print, prev |-> Null, next |-> Null]
  PROVE  Prints(e) = {print} /\ e.loginId = loginId /\ SaysEnded(e, print)
BY DEF Prints, SaysEnded

LEMMA AuditTokenIs ==
  ASSUME EngineInv, NEW s \in slots, session[s] # Null
  PROVE  /\ AuditToken(s) # Null
         /\ \A t \in Tokens : AuditToken(s) = FingerprintToken(t) => t = session[s]
         /\ ~lost \/ kind = "uuid" => AuditToken(s) = FingerprintToken(session[s])
<1>1. session[s] \in Tokens /\ (listed[s] # Null => listed[s] = session[s]) /\ (~lost => listed[s] = session[s])
  BY DEF EngineInv, TrailTypes, IndexesFit
<1> QED BY <1>1, FingerprintsDiffer DEF AuditToken

(* kickoutByDevice and logoutByDevice *)
LEMMA EndOneKeeps ==
  ASSUME EngineInv, SaidInv, NEW s \in slots, session[s] # Null,
         NEW how \in {"KICK_OUT", "gone"}, NEW type \in {"token.logged_out", "token.kicked_out"},
         EndDevices({s}, {session[s]}, how),
         EmitAuditEvents(<<EndEvent(type, s, AuditToken(s))>>), rejected' = rejected
  PROVE  EngineInv' /\ SaidInv' /\ \A t \in Tokens : Spares(t)
<1> DEFINE ev == <<EndEvent(type, s, AuditToken(s))>>
<1>1. session[s] \in Tokens /\ owner[session[s]] = s /\ status[session[s]] # "none"
      /\ \A x \in slots : listed[x] = session[s] => x = s
  BY LayoutFits DEF EngineInv, TrailTypes, IndexesFit
<1>2. {s} \in SUBSET slots /\ {session[s]} \in SUBSET Tokens /\ \A t \in {session[s]} : status[t] # "none"
  BY <1>1
<1>3. EngineInv' /\ \A t \in Tokens : Spares(t)
  <2>1. \A x \in slots : listed[x] \in {session[s]} => x \in {s} BY <1>1
  <2>2. \A x \in {s} : session[x] # Null => session[x] \in {session[s]} OBVIOUS
  <2> QED BY <1>2, <2>1, <2>2, EndKeeps, EndSpares
<1>4. DOMAIN ev = 1 .. 1 /\ ev[1] = EndEvent(type, s, AuditToken(s)) OBVIOUS
<1>5. Prints(ev[1]) = {AuditToken(s)} /\ ev[1].loginId = s[1] /\ SaysEnded(ev[1], AuditToken(s))
  <2>1. ev[1] = [type |-> type, loginId |-> s[1], device |-> s[2],
                 token |-> AuditToken(s), prev |-> Null, next |-> Null]
    BY DEF EndEvent, Event
  <2> QED BY <2>1, AuditTokenIs, EndEventSays
<1> HIDE DEF ev
<1>6. SaidInv'
  <2>1. NameEnded(ev, 1, {session[s]}, how) BY <1>1, <1>5, AuditTokenIs DEF NameEnded
  <2>2. NameAll(ev, 1, {session[s]}) BY <1>1, <1>5, AuditTokenIs DEF EngineInv, TrailTypes, NameAll
  <2>3. EmitAuditEvents(ev) /\ 1 \in Nat BY DEF ev
  <2> QED BY <1>2, <1>4, <2>1, <2>2, <2>3, EndTells
<1> QED BY <1>3, <1>6

(* What a call that ends devices keeps, whether it is called or a batch's.  *)
CallKeeps == EngineInv' /\ SaidInv' /\ UNCHANGED <<slots, lost>> /\ (~lost => \A t \in Tokens : Spares(t))

LEMMA KickoutByDeviceKeeps ==
  ASSUME EngineInv, SaidInv, NEW s \in slots, KickoutByDevice(s)
  PROVE  CallKeeps /\ (~lost => session'[s] = Null)
<1>1. session[s] # Null BY DEF KickoutByDevice
<1>2. CASE Unmarkable(session[s]) /\ Rejects
  <2>1. lost BY <1>1, <1>2 DEF EngineInv, IndexesFit, Unmarkable
  <2>2. EngineInv' BY <1>2, <2>1 DEF Rejects, EngineInv, TrailTypes, IndexesFit, Owners
  <2>3. SaidInv' BY <1>2 DEF Rejects, SaidInv, TrailJoins, LiveIsTold, TrailNamesOwner
  <2> QED BY <1>2, <2>1, <2>2, <2>3 DEF CallKeeps, Rejects
<1>3. CASE EndDevices({s}, {session[s]}, "KICK_OUT")
           /\ EmitAuditEvents(<<EndEvent("token.kicked_out", s, AuditToken(s))>>) /\ rejected' = rejected
  <2>1. EngineInv' /\ SaidInv' /\ \A t \in Tokens : Spares(t) BY <1>1, <1>3, EndOneKeeps
  <2> QED BY <1>3, <2>1 DEF CallKeeps, EndDevices
<1> QED BY <1>2, <1>3 DEF KickoutByDevice

LEMMA LogoutByDeviceKeeps ==
  ASSUME EngineInv, SaidInv, NEW s \in slots, LogoutByDevice(s)
  PROVE  CallKeeps /\ session'[s] = Null
<1>1. EngineInv' /\ SaidInv' /\ \A t \in Tokens : Spares(t) BY EndOneKeeps DEF LogoutByDevice
<1> QED BY <1>1 DEF CallKeeps, EndDevices, LogoutByDevice

LEMMA LogoutByLoginIdKeeps ==
  ASSUME EngineInv, SaidInv, NEW a, LogoutByLoginId(a)
  PROVE  CallKeeps /\ (~lost => \A s \in slots : s[1] = a => session'[s] = Null)
<1> DEFINE gone == ListedAt(a)
           retired == {listed[s] : s \in gone}
<1>1. \A s \in gone : /\ s \in slots /\ s[1] = a /\ listed[s] \in Tokens /\ session[s] = listed[s]
                       /\ owner[listed[s]] = s /\ status[listed[s]] = "live"
  BY LayoutFits DEF EngineInv, TrailTypes, IndexesFit, ListedAt
<1>2. gone \in SUBSET slots /\ retired \in SUBSET Tokens /\ \A t \in retired : status[t] # "none" BY <1>1
<1>3. ASSUME NEW s \in slots, listed[s] \in retired PROVE s \in gone
  <2>1. PICK x \in gone : listed[x] = listed[s] BY <1>3
  <2>2. listed[s] # Null BY <1>1, <2>1, LayoutFits DEF EngineInv, TrailTypes
  <2>3. owner[listed[s]] = s BY <2>2 DEF EngineInv, IndexesFit
  <2> QED BY <1>1, <2>1, <2>3
<1>4. PICK order \in [1 .. Cardinality(gone) -> gone] :
        /\ \A s \in gone : \E i \in DOMAIN order : order[i] = s
        /\ EmitAuditEvents([i \in DOMAIN order |->
             EndEvent("token.logged_out", order[i], FingerprintToken(listed[order[i]]))])
  BY DEF LogoutByLoginId
<1> DEFINE n == Cardinality(gone)
           ev == [i \in DOMAIN order |->
                   EndEvent("token.logged_out", order[i], FingerprintToken(listed[order[i]]))]
<1>5. n \in Nat
  <2>1. IsFiniteSet(slots) BY LayoutFits DEF EngineInv, TrailTypes
  <2>2. IsFiniteSet(gone) BY <1>2, <2>1, FS_Subset
  <2> QED BY <2>2, FS_CardinalityType
<1>6. EndDevices(gone, retired, "gone") /\ rejected' = rejected BY DEF LogoutByLoginId
<1>7. DOMAIN order = 1 .. n /\ DOMAIN ev = 1 .. n /\ EmitAuditEvents(ev) BY <1>4
<1>8. ASSUME NEW i \in 1 .. n
      PROVE  /\ order[i] \in gone /\ Prints(ev[i]) = {FingerprintToken(listed[order[i]])}
             /\ ev[i].loginId = order[i][1] /\ SaysEnded(ev[i], FingerprintToken(listed[order[i]]))
  <2>1. order[i] \in gone BY <1>4
  <2> DEFINE print == FingerprintToken(listed[order[i]])
             id == order[i][1]
             device == order[i][2]
  <2>2. print # Null BY <1>1, <2>1, FingerprintsDiffer
  <2>3. ev[i] = [type |-> "token.logged_out", loginId |-> id, device |-> device,
                 token |-> print, prev |-> Null, next |-> Null]
    BY <1>7 DEF EndEvent, Event
  <2>4. Prints(ev[i]) = {print} /\ ev[i].loginId = id /\ SaysEnded(ev[i], print)
    <3> HIDE DEF print, id, device, ev
    <3> QED BY <2>2, <2>3, EndEventSays
  <2> QED BY <2>1, <2>4
<1> HIDE DEF gone, retired, n, ev
<1>9. EngineInv' BY <1>2, <1>3, <1>6, EndKeeps
<1>10. \A t \in Tokens : Spares(t)
  <2>1. \A s \in gone : session[s] # Null => session[s] \in retired BY <1>1 DEF retired
  <2> QED BY <1>2, <1>6, <2>1, EndSpares
<1>11. SaidInv'
  <2>1. NameEnded(ev, n, retired, "gone")
    <3> SUFFICES ASSUME NEW i \in 1 .. n, NEW f \in Prints(ev[i])
                 PROVE  /\ SaysEnded(ev[i], f) /\ \E t \in retired : f = FingerprintToken(t)
                        /\ \A t \in Tokens : f = FingerprintToken(t) =>
                             t \in retired /\ ev[i].loginId = owner[t][1]
      BY DEF NameEnded
    <3>1. order[i] \in gone /\ f = FingerprintToken(listed[order[i]]) /\ listed[order[i]] \in retired BY <1>8 DEF retired
    <3>2. \A t \in Tokens : f = FingerprintToken(t) => t = listed[order[i]] BY <1>1, <3>1, FingerprintsDiffer
    <3> QED BY <1>1, <1>8, <3>1, <3>2
  <2>2. NameAll(ev, n, retired)
    <3> SUFFICES ASSUME NEW s \in gone
                 PROVE  \E i \in 1 .. n : FingerprintToken(listed[s]) \in Prints(ev[i])
      BY DEF NameAll, retired
    <3>1. PICK i \in 1 .. n : order[i] = s BY <1>4, <1>7
    <3> QED BY <1>8, <3>1
  <2> QED BY <1>2, <1>5, <1>6, <1>7, <2>1, <2>2, EndTells
<1>12. ASSUME ~lost, NEW s \in slots, s[1] = a PROVE session'[s] = Null
  <2>1. CASE s \in gone BY <1>6, <2>1 DEF EndDevices
  <2>2. CASE s \notin gone
    <3>1. session[s] = Null BY <1>12, <2>2 DEF gone, ListedAt, EngineInv, IndexesFit
    <3> QED BY <1>6, <3>1 DEF EndDevices
  <2> QED BY <2>1, <2>2
<1> QED BY <1>6, <1>9, <1>10, <1>11, <1>12 DEF CallKeeps, EndDevices

(* logout and kickoutByToken *)
LEMMA EndTokenKeeps ==
  ASSUME EngineInv, SaidInv, NEW t \in Tokens, status[t] # "none", NEW ended \in SUBSET Holding(t),
         status[t] = "live" => ended = Holding(t),
         NEW how \in {"KICK_OUT", "gone"}, NEW type \in {"token.logged_out", "token.kicked_out"}, NEW loginId,
         loginId = owner[t][1] \/ (kind = "uuid" /\ how = "gone" /\ loginId \in Markers),
         EndDevices(ended, {t}, how),
         EmitAuditEvents(<<[Event(type, loginId) EXCEPT !.token = FingerprintToken(t)]>>), rejected' = rejected
  PROVE  CallKeeps
<1> DEFINE ev == <<[Event(type, loginId) EXCEPT !.token = FingerprintToken(t)]>>
<1>1. ended \in SUBSET slots /\ {t} \in SUBSET Tokens /\ \A u \in {t} : status[u] # "none" BY DEF Holding
<1>2. \A s \in slots : listed[s] = t => session[s] = t /\ status[t] = "live"
  BY LayoutFits DEF EngineInv, TrailTypes, IndexesFit
<1>3. EngineInv'
  <2>1. \A s \in slots : listed[s] \in {t} => s \in ended BY <1>2 DEF Holding
  <2> QED BY <1>1, <2>1, EndKeeps
<1>4. \A u \in Tokens : Spares(u)
  <2>1. \A s \in ended : session[s] # Null => session[s] \in {t} BY <1>2 DEF Holding
  <2> QED BY <1>1, <2>1, EndSpares
<1>5. DOMAIN ev = 1 .. 1 /\ EmitAuditEvents(ev) /\ 1 \in Nat OBVIOUS
<1>6. Prints(ev[1]) = {FingerprintToken(t)} /\ ev[1].loginId = loginId /\ SaysEnded(ev[1], FingerprintToken(t))
  <2>1. ev[1] = [type |-> type, loginId |-> loginId, device |-> Null,
                 token |-> FingerprintToken(t), prev |-> Null, next |-> Null]
    BY DEF Event
  <2> QED BY <2>1, FingerprintsDiffer, EndEventSays
<1> HIDE DEF ev
<1>7. NameEnded(ev, 1, {t}, how) BY <1>6, FingerprintsDiffer DEF NameEnded
<1>8. NameAll(ev, 1, {t}) BY <1>6 DEF NameAll
<1>9. SaidInv' BY <1>1, <1>5, <1>7, <1>8, EndTells
<1> QED BY <1>3, <1>4, <1>9 DEF CallKeeps, EndDevices

LEMMA LogoutByTokenKeeps ==
  ASSUME EngineInv, SaidInv, NEW t \in Tokens, LogoutByToken(t)
  PROVE  CallKeeps
<1> DEFINE loginId == IF kind = "uuid" /\ status[t] \in Markers THEN status[t] ELSE owner[t][1]
           ended == IF loginId \in Markers THEN {} ELSE Holding(t)
<1>1. status[t] # "none" /\ EndDevices(ended, {t}, "gone") /\ rejected' = rejected
      /\ EmitAuditEvents(<<[Event("token.logged_out", loginId) EXCEPT !.token = FingerprintToken(t)]>>)
  BY DEF LogoutByToken
<1>2. owner[t][1] \notin Markers BY <1>1, LayoutFits DEF EngineInv, TrailTypes, IndexesFit
<1>3. loginId = owner[t][1] \/ (kind = "uuid" /\ "gone" = "gone" /\ loginId \in Markers) OBVIOUS
<1>4. ended \in SUBSET Holding(t) /\ (status[t] = "live" => ended = Holding(t)) BY <1>2 DEF Markers
<1> HIDE DEF ended, loginId
<1> QED BY <1>1, <1>3, <1>4, EndTokenKeeps

LEMMA KickoutByTokenKeeps ==
  ASSUME EngineInv, SaidInv, NEW t \in Tokens, KickoutByToken(t)
  PROVE  CallKeeps
BY EndTokenKeeps DEF KickoutByToken

-----------------------------------------------------------------------------
(* Calls that make a token.  Of the device that has got one nothing is      *)
(* spared; a token the call ends was made before, and is cleared away.      *)
MayTake(s, t, cleared, ended, marker) ==
  /\ s \in slots /\ t \in Tokens /\ (status[t] = "none" \/ owner[t] = s)
  /\ cleared \subseteq slots /\ ended \subseteq Tokens \ {t} /\ marker \in Markers \cup {"live"}
  /\ marker = "live" => ended = {}
  /\ \A u \in ended : status[u] # "none"
  /\ \A x \in slots : listed[x] \in ended => x = s \/ x \in cleared
  /\ \A x \in cleared : session[x] # Null => session[x] \in ended

LEMMA TakesKeeps ==
  ASSUME EngineInv, NEW s, NEW t, NEW cleared, NEW ended, NEW marker,
         MayTake(s, t, cleared, ended, marker), Takes(s, t, cleared, ended, marker)
  PROVE  EngineInv' /\ \A u \in Tokens : owner[u] # s => Spares(u)
<1> USE LayoutFits DEF EngineInv, TrailTypes, Takes, MayTake
<1>1. TrailTypes' BY DEF Markers
<1>2. \A u \in Tokens : owner'[u] = IF u = t THEN s ELSE owner[u] OBVIOUS
<1>3. \A u \in Tokens : status'[u] = IF u = t THEN "live" ELSE IF u \in ended THEN marker ELSE status[u] OBVIOUS
<1>4. ASSUME NEW x \in slots, x # s, session[x] # Null PROVE session[x] \in Tokens \ {t} /\ owner'[session[x]] = x
  <2>1. session[x] \in Tokens /\ owner[session[x]] = x BY <1>4 DEF IndexesFit
  <2>2. session[x] # t BY <1>4, <2>1 DEF IndexesFit
  <2> QED BY <1>2, <2>1, <2>2
<1>5. \A x \in slots : session'[x] # Null => owner'[session'[x]] = x
  <2> SUFFICES ASSUME NEW x \in slots, session'[x] # Null PROVE owner'[session'[x]] = x OBVIOUS
  <2>1. CASE x = s BY <1>2, <2>1
  <2>2. CASE x # s
    <3>1. session'[x] = session[x] BY <2>2
    <3> QED BY <1>4, <2>2, <3>1
  <2> QED BY <2>1, <2>2
<1>6. \A x \in slots : listed'[x] # Null => session'[x] = listed'[x] /\ status'[listed'[x]] = "live"
  <2> SUFFICES ASSUME NEW x \in slots, listed'[x] # Null
               PROVE  session'[x] = listed'[x] /\ status'[listed'[x]] = "live"
    OBVIOUS
  <2>1. CASE x = s BY <1>3, <2>1
  <2>2. CASE x # s
    <3>1. x \notin cleared /\ listed'[x] = listed[x] /\ session'[x] = session[x] BY <2>2
    <3>2. session[x] = listed[x] /\ status[listed[x]] = "live" BY <3>1 DEF IndexesFit
    <3>3. listed[x] \in Tokens \ {t} /\ listed[x] \notin ended BY <1>4, <2>2, <3>1, <3>2
    <3> QED BY <1>3, <3>1, <3>2, <3>3
  <2> QED BY <2>1, <2>2
<1>7. \A u \in Tokens : status'[u] = "none" <=> owner'[u] = Null BY <1>2, <1>3 DEF IndexesFit, Markers
<1>8. (~lost' => session' = listed') /\ (rejected' => lost') BY DEF IndexesFit
<1>9. ASSUME NEW u \in Tokens, owner[u] # s, status[u] # "none" PROVE Spares(u)
  <2>1. u # t BY <1>9
  <2>2. owner'[u] = owner[u] /\ status'[u] # "none"
    <3>1. marker # "none" BY DEF Markers
    <3>2. owner'[u] = owner[u] BY <1>2, <2>1
    <3>3. status'[u] = IF u \in ended THEN marker ELSE status[u] BY <1>3, <2>1
    <3> QED BY <1>9, <3>1, <3>2, <3>3
  <2>3. ASSUME status'[u] = "live"
        PROVE  status[u] = "live" /\ (session[owner[u]] = u => session'[owner[u]] = u)
    <3>1. u \notin ended BY <1>3, <2>1, <2>3 DEF Markers
    <3>2. status[u] = "live" BY <1>3, <2>1, <2>3, <3>1
    <3>3. owner[u] \in slots BY <1>9 DEF IndexesFit
    <3>4. session[owner[u]] = u => owner[u] \notin cleared BY <3>1
    <3> QED BY <1>9, <3>2, <3>3, <3>4
  <2> QED BY <2>2, <2>3 DEF Spares
<1> QED BY <1>1, <1>5, <1>6, <1>7, <1>8, <1>9 DEF IndexesFit, Spares

(* The events tell that t began, and of ended tokens, and of them all.      *)
NameTaken(ev, n, s, t, ended) ==
  /\ \A i \in 1 .. n :
       /\ ev[i].loginId = s[1]
       /\ \A f \in Prints(ev[i]) : f # FingerprintToken(t) => SaysEnded(ev[i], f) /\ (~lost => f \in DOMAIN trail)
       /\ ~SaysEnded(ev[i], FingerprintToken(t))
       /\ \A u \in Tokens \ {t} : FingerprintToken(u) \in Prints(ev[i]) => u \in ended /\ owner[u] = s
  /\ \E i \in 1 .. n : FingerprintToken(t) \in Prints(ev[i])
  /\ \A u \in ended :
       \/ \E i \in 1 .. n : FingerprintToken(u) \in Prints(ev[i])
       \/ mode = "single" /\ status[u] = "live"
       \/ lost /\ kind = "jwt"

LEMMA TakesTells ==
  ASSUME EngineInv, SaidInv, NEW s, NEW t, NEW cleared, NEW ended, NEW marker,
         MayTake(s, t, cleared, ended, marker), Takes(s, t, cleared, ended, marker),
         NEW n \in Nat, NEW ev, DOMAIN ev = 1 .. n, EmitAuditEvents(ev), NameTaken(ev, n, s, t, ended)
  PROVE  SaidInv'
<1> USE DEF EngineInv, TrailTypes, Takes, MayTake
<1>1. \A u \in Tokens : owner'[u] = IF u = t THEN s ELSE owner[u] OBVIOUS
<1>2. \A u \in Tokens : status'[u] = IF u = t THEN "live" ELSE IF u \in ended THEN marker ELSE status[u] OBVIOUS
<1>3. \A i \in 1 .. n : \A f \in Prints(ev[i]) : ~lost => f \in DOMAIN trail \/ ~SaysEnded(ev[i], f)
  BY DEF NameTaken
<1>4. \A u \in Tokens : status'[u] # "none" <=>
        (status[u] # "none" \/ \E i \in 1 .. n : FingerprintToken(u) \in Prints(ev[i]))
  BY <1>2 DEF NameTaken, Markers
<1>5. ASSUME NEW u \in Tokens, NEW i \in 1 .. n, FingerprintToken(u) \in Prints(ev[i])
      PROVE  Speaks(u, ev[i])
  <2>1. CASE u = t
    <3>1. status'[u] = "live" /\ owner'[u] = s BY <1>1, <1>2, <2>1
    <3> QED BY <2>1, <3>1 DEF NameTaken, Speaks
  <2>2. CASE u # t
    <3>1. u \in ended /\ owner[u] = s BY <1>5, <2>2 DEF NameTaken
    <3>2. SaysEnded(ev[i], FingerprintToken(u)) /\ ev[i].loginId = s[1]
      BY <1>5, <2>2, FingerprintsDiffer DEF NameTaken
    <3>3. status'[u] = marker /\ marker # "live" /\ owner'[u] = s BY <1>1, <1>2, <2>2, <3>1
    <3> QED BY <3>2, <3>3 DEF Speaks
  <2> QED BY <2>1, <2>2
<1>6. ASSUME NEW u \in Tokens, status[u] # "none", ~\E i \in 1 .. n : FingerprintToken(u) \in Prints(ev[i])
      PROVE  Silent(u)
  <2>1. u # t BY <1>6 DEF NameTaken
  <2>2. CASE u \in ended BY <1>1, <1>6, <2>1, <2>2 DEF NameTaken, Silent
  <2>3. CASE u \notin ended BY <1>1, <1>2, <2>1, <2>3 DEF Silent
  <2> QED BY <2>2, <2>3
<1> QED BY <1>3, <1>4, <1>5, <1>6, TrailMoves

LEMMA NextTokenIs == Unused # {} => NextToken \in Tokens /\ status[NextToken] = "none"
<1> SUFFICES ASSUME Unused # {} PROVE NextToken \in Unused BY DEF Unused
<1>1. Unused \subseteq Nat BY DEF Unused, Tokens
<1>2. PICK t \in Unused : \A u \in Unused : ~(u < t) BY <1>1, LeastCounterexample
<1>3. \A u \in Unused : t <= u BY <1>1, <1>2
<1> QED BY <1>3 DEF NextToken

LEMMA LoggedInSays ==
  ASSUME NEW s, NEW t \in Tokens, NEW e, e = LoggedIn(s, t)
  PROVE  Prints(e) = {FingerprintToken(t)} /\ e.loginId = s[1] /\ ~SaysEnded(e, FingerprintToken(t))
<1>1. e = [type |-> "token.logged_in", loginId |-> s[1], device |-> s[2],
           token |-> FingerprintToken(t), prev |-> Null, next |-> Null]
  BY DEF LoggedIn, EndEvent, Event
<1> QED BY <1>1, FingerprintsDiffer DEF Prints, SaysEnded

(* token.replaced, token.refreshed *)
LEMMA TurnEventSays ==
  ASSUME NEW type \in {"token.replaced", "token.refreshed"}, NEW loginId, NEW device, NEW print, NEW new,
         print # Null, new # Null, print # new,
         NEW e, e = [type |-> type, loginId |-> loginId, device |-> device,
                     token |-> Null, prev |-> print, next |-> new]
  PROVE  Prints(e) = {print, new} /\ e.loginId = loginId /\ SaysEnded(e, print) /\ ~SaysEnded(e, new)
BY DEF Prints, SaysEnded

(* What a call that makes a token keeps.                                    *)
TakeKeeps(s) ==
  EngineInv' /\ SaidInv' /\ UNCHANGED <<slots, lost>> /\ \A t \in Tokens : owner[t] # s => Spares(t)

(* A login that replaces nothing: its one event says all.                   *)
LEMMA QuietTake ==
  ASSUME EngineInv, SaidInv, NEW s, NEW t, NEW cleared, NEW ended, NEW marker,
         MayTake(s, t, cleared, ended, marker), Takes(s, t, cleared, ended, marker),
         EmitAuditEvents(<<LoggedIn(s, t)>>),
         \A u \in ended : mode = "single" /\ status[u] = "live"
  PROVE  TakeKeeps(s)
<1> DEFINE ev == <<LoggedIn(s, t)>>
<1>1. t \in Tokens /\ DOMAIN ev = 1 .. 1 /\ ev[1] = LoggedIn(s, t) /\ EmitAuditEvents(ev) /\ 1 \in Nat
  BY DEF MayTake
<1>2. Prints(ev[1]) = {FingerprintToken(t)} /\ ev[1].loginId = s[1] /\ ~SaysEnded(ev[1], FingerprintToken(t))
  BY <1>1, LoggedInSays
<1> HIDE DEF ev
<1>3. NameTaken(ev, 1, s, t, ended) BY <1>1, <1>2, FingerprintsDiffer DEF NameTaken
<1>4. SaidInv' BY <1>1, <1>3, TakesTells
<1>5. EngineInv' /\ \A u \in Tokens : owner[u] # s => Spares(u) BY TakesKeeps
<1> QED BY <1>4, <1>5 DEF TakeKeeps, Takes

LEMMA SingleLoginKeeps ==
  ASSUME EngineInv, SaidInv, NEW s \in slots, mode = "single", Unused # {},
         Takes(s, NextToken, ListedAt(s[1]), {listed[x] : x \in ListedAt(s[1])}, "KICK_OUT"),
         EmitAuditEvents(<<LoggedIn(s, NextToken)>>)
  PROVE  TakeKeeps(s)
<1> DEFINE all == ListedAt(s[1])
           ended == {listed[x] : x \in all}
           t == NextToken
<1>1. t \in Tokens /\ status[t] = "none" BY NextTokenIs
<1>2. \A x \in all : /\ x \in slots /\ listed[x] \in Tokens /\ session[x] = listed[x]
                      /\ owner[listed[x]] = x /\ status[listed[x]] = "live"
  BY LayoutFits DEF EngineInv, TrailTypes, IndexesFit, ListedAt
<1>3. \A u \in ended : u \in Tokens /\ status[u] = "live" BY <1>2
<1>4. ASSUME NEW x \in slots, listed[x] \in ended PROVE x \in all
  <2>1. PICK y \in all : listed[y] = listed[x] BY <1>4
  <2>2. listed[x] # Null BY <1>2, <2>1, LayoutFits DEF EngineInv, TrailTypes
  <2>3. owner[listed[x]] = x BY <2>2 DEF EngineInv, IndexesFit
  <2> QED BY <1>2, <2>1, <2>3
<1>5. \A x \in all : session[x] \in ended BY <1>2
<1>6. all \subseteq slots BY DEF ListedAt
<1>7. MayTake(s, t, all, ended, "KICK_OUT")
  <2> HIDE DEF t, all, ended
  <2> QED BY <1>1, <1>3, <1>4, <1>5, <1>6 DEF MayTake, Markers
<1>8. Takes(s, t, all, ended, "KICK_OUT") /\ EmitAuditEvents(<<LoggedIn(s, t)>>) OBVIOUS
<1> HIDE DEF t, all, ended
<1> QED BY <1>3, <1>7, <1>8, QuietTake

LEMMA FreshLoginKeeps ==
  ASSUME EngineInv, SaidInv, NEW s \in slots, NEW t \in Tokens, status[t] = "none" \/ owner[t] = s,
         Takes(s, t, {}, {}, "live"), EmitAuditEvents(<<LoggedIn(s, t)>>)
  PROVE  TakeKeeps(s)
<1>1. MayTake(s, t, {}, {}, "live") BY DEF MayTake
<1>2. \A u \in {} : mode = "single" /\ status[u] = "live" OBVIOUS
<1> QED BY <1>1, <1>2, QuietTake

LEMMA ReplacingLoginKeeps ==
  ASSUME EngineInv, SaidInv, NEW s \in slots, session[s] # Null, ~Unmarkable(session[s]), Unused # {},
         Takes(s, NextToken, {}, {session[s]}, "BE_REPLACED"),
         EmitAuditEvents(<<LoggedIn(s, NextToken), Replaced(s, NextToken)>>)
  PROVE  TakeKeeps(s)
<1> DEFINE t == NextToken
           old == session[s]
           ev == <<LoggedIn(s, t), Replaced(s, t)>>
           new == FingerprintToken(t)
           print == AuditToken(s)
<1>1. t \in Tokens /\ status[t] = "none" BY NextTokenIs
<1>2. old \in Tokens /\ owner[old] = s /\ status[old] # "none" /\ \A x \in slots : listed[x] = old => x = s
  BY LayoutFits DEF EngineInv, TrailTypes, IndexesFit
<1>3. MayTake(s, t, {}, {old}, "BE_REPLACED")
  <2> HIDE DEF t, old
  <2> QED BY <1>1, <1>2 DEF MayTake, Markers
<1>4. Takes(s, t, {}, {old}, "BE_REPLACED") /\ EmitAuditEvents(ev) OBVIOUS
<1>5. DOMAIN ev = 1 .. 2 /\ ev[1] = LoggedIn(s, t) /\ ev[2] = Replaced(s, t) /\ 2 \in Nat OBVIOUS
<1>6. /\ print # Null /\ (\A u \in Tokens : print = FingerprintToken(u) => u = old)
      /\ ~lost \/ kind = "uuid" => print = FingerprintToken(old)
  BY AuditTokenIs
<1>7. new # Null /\ print # new
  <2> HIDE DEF t, old, print
  <2>1. new # Null BY <1>1, FingerprintsDiffer
  <2>2. print = new => t = old BY <1>1, <1>6
  <2> QED BY <1>1, <1>2, <2>1, <2>2
<1>8. Prints(ev[1]) = {new} /\ ev[1].loginId = s[1] /\ ~SaysEnded(ev[1], new)
  BY <1>1, <1>5, LoggedInSays
<1>9. Prints(ev[2]) = {print, new} /\ ev[2].loginId = s[1] /\ SaysEnded(ev[2], print) /\ ~SaysEnded(ev[2], new)
  <2> DEFINE id == s[1]
             device == s[2]
  <2>1. ev[2] = [type |-> "token.replaced", loginId |-> id, device |-> device,
                 token |-> Null, prev |-> print, next |-> new]
    BY <1>5 DEF Replaced, Event
  <2>2. Prints(ev[2]) = {print, new} /\ ev[2].loginId = id /\ SaysEnded(ev[2], print) /\ ~SaysEnded(ev[2], new)
    <3> HIDE DEF ev, print, new, id, device
    <3> QED BY <1>6, <1>7, <2>1, TurnEventSays
  <2> QED BY <2>2
<1>10. ~lost => print \in DOMAIN trail
  <2> HIDE DEF print, old
  <2> QED BY <1>2, <1>6 DEF SaidInv
<1>11. kind \in {"uuid", "jwt"} BY DEF EngineInv, TrailTypes
<1> HIDE DEF t, old, ev, print
<1>12. NameTaken(ev, 2, s, t, {old})
  <2>1. ASSUME NEW i \in 1 .. 2
        PROVE  /\ ev[i].loginId = s[1]
               /\ \A f \in Prints(ev[i]) : f # new => f = print /\ i = 2
               /\ ~SaysEnded(ev[i], new)
    <3>1. i = 1 \/ i = 2 OBVIOUS
    <3> QED BY <1>8, <1>9, <3>1
  <2>2. \A i \in 1 .. 2 : \A f \in Prints(ev[i]) : f # new => SaysEnded(ev[i], f) /\ (~lost => f \in DOMAIN trail)
    BY <1>9, <1>10, <2>1
  <2>3. ASSUME NEW i \in 1 .. 2, NEW u \in Tokens \ {t}, FingerprintToken(u) \in Prints(ev[i])
        PROVE  u \in {old} /\ owner[u] = s
    <3>1. FingerprintToken(u) # new BY <1>1, FingerprintsDiffer
    <3>2. FingerprintToken(u) = print BY <2>1, <2>3, <3>1
    <3> QED BY <1>2, <1>6, <3>2
  <2>4. \E i \in 1 .. 2 : new \in Prints(ev[i]) BY <1>8
  <2>5. (\E i \in 1 .. 2 : FingerprintToken(old) \in Prints(ev[i])) \/ (lost /\ kind = "jwt")
    BY <1>6, <1>9, <1>11
  <2> QED BY <2>1, <2>2, <2>3, <2>4, <2>5 DEF NameTaken
<1>13. SaidInv' BY <1>3, <1>4, <1>5, <1>12, TakesTells
<1>14. EngineInv' /\ \A u \in Tokens : owner[u] # s => Spares(u) BY <1>3, <1>4, TakesKeeps
<1> QED BY <1>4, <1>13, <1>14 DEF TakeKeeps, Takes

LEMMA LoginKeeps ==
  ASSUME EngineInv, SaidInv, NEW s \in slots, Login(s)
  PROVE  /\ EngineInv' /\ SaidInv' /\ UNCHANGED <<slots, lost>>
         /\ \/ Excused(s) /\ \A t \in Tokens : owner[t] # s => Spares(t)
            \/ UNCHANGED batch /\ \A t \in Tokens : Spares(t)
<1>1. CASE TakeKeeps(s) /\ Excused(s) BY <1>1 DEF TakeKeeps
<1>2. CASE /\ mode = "single" /\ Unused # {}
           /\ Takes(s, NextToken, ListedAt(s[1]), {listed[x] : x \in ListedAt(s[1])}, "KICK_OUT")
           /\ EmitAuditEvents(<<LoggedIn(s, NextToken)>>) /\ Excused(s)
  BY <1>1, <1>2, SingleLoginKeeps
<1>3. CASE mode = "replace" /\ session[s] # Null /\ Unmarkable(session[s]) /\ Rejects /\ UNCHANGED batch
  <2>1. lost BY <1>3 DEF EngineInv, IndexesFit, Unmarkable
  <2>2. EngineInv' BY <1>3, <2>1 DEF Rejects, EngineInv, TrailTypes, IndexesFit
  <2>3. SaidInv' BY <1>3 DEF Rejects, SaidInv, TrailJoins, LiveIsTold, TrailNamesOwner
  <2>4. \A t \in Tokens : Spares(t) BY <1>3 DEF Rejects, Spares
  <2> QED BY <1>3, <2>2, <2>3, <2>4 DEF Rejects
<1>4. CASE /\ session[s] # Null /\ ~Unmarkable(session[s]) /\ Unused # {}
           /\ Takes(s, NextToken, {}, {session[s]}, "BE_REPLACED")
           /\ EmitAuditEvents(<<LoggedIn(s, NextToken), Replaced(s, NextToken)>>) /\ Excused(s)
  BY <1>1, <1>4, ReplacingLoginKeeps
<1>5. CASE /\ Reusable(s) # Null /\ Takes(s, Reusable(s), {}, {}, "live")
           /\ EmitAuditEvents(<<LoggedIn(s, Reusable(s))>>) /\ Excused(s)
  <2>1. Reusable(s) \in Tokens /\ owner[Reusable(s)] = s
    BY <1>5, LayoutFits DEF Reusable, EngineInv, TrailTypes, IndexesFit
  <2> QED BY <1>1, <1>5, <2>1, FreshLoginKeeps
<1>6. CASE /\ Unused # {} /\ Takes(s, NextToken, {}, {}, "live")
           /\ EmitAuditEvents(<<LoggedIn(s, NextToken)>>) /\ Excused(s)
  BY <1>1, <1>6, NextTokenIs, FreshLoginKeeps
<1> QED BY <1>2, <1>3, <1>4, <1>5, <1>6 DEF Login

LEMMA RefreshTokenKeeps ==
  ASSUME EngineInv, SaidInv, NEW t \in Tokens, RefreshToken(t)
  PROVE  owner[t] \in slots /\ TakeKeeps(owner[t]) /\ Excused(owner[t])
<1> DEFINE s == owner[t]
           next == NextToken
           new == FingerprintToken(next)
           print == FingerprintToken(t)
           e == [Event("token.refreshed", s[1]) EXCEPT !.device = s[2], !.prev = print, !.next = new]
           ev == <<e>>
<1>1. next \in Tokens /\ status[next] = "none" BY NextTokenIs DEF RefreshToken
<1>2. status[t] = "live" /\ s \in slots BY LayoutFits DEF RefreshToken, EngineInv, TrailTypes, IndexesFit
<1>3. \A x \in slots : listed[x] = t => x = s
  BY LayoutFits DEF EngineInv, TrailTypes, IndexesFit
<1>4. MayTake(s, next, {}, {t}, "KICK_OUT")
  <2> HIDE DEF s, next
  <2> QED BY <1>1, <1>2, <1>3 DEF MayTake, Markers
<1>5. Takes(s, next, {}, {t}, "KICK_OUT") /\ EmitAuditEvents(ev) /\ Excused(s) BY DEF RefreshToken
<1>6. DOMAIN ev = 1 .. 1 /\ ev[1] = e /\ 1 \in Nat OBVIOUS
<1>7. new # Null /\ print # Null /\ print # new /\ \A u \in Tokens : FingerprintToken(u) = print => u = t
  BY <1>1, <1>2, FingerprintsDiffer
<1>8. Prints(ev[1]) = {print, new} /\ ev[1].loginId = s[1] /\ SaysEnded(ev[1], print) /\ ~SaysEnded(ev[1], new)
  <2> DEFINE id == s[1]
             device == s[2]
  <2>1. ev[1] = [type |-> "token.refreshed", loginId |-> id, device |-> device,
                 token |-> Null, prev |-> print, next |-> new]
    BY <1>6 DEF Event
  <2>2. Prints(ev[1]) = {print, new} /\ ev[1].loginId = id /\ SaysEnded(ev[1], print) /\ ~SaysEnded(ev[1], new)
    <3> HIDE DEF ev, print, new, id, device
    <3> QED BY <1>7, <2>1, TurnEventSays
  <2> QED BY <2>2
<1>9. print \in DOMAIN trail BY <1>2 DEF SaidInv
<1> HIDE DEF s, next, e, ev
<1>10. NameTaken(ev, 1, s, next, {t})
  <2>1. \A u \in Tokens \ {next} : FingerprintToken(u) # new BY <1>1, FingerprintsDiffer
  <2>2. \A u \in Tokens \ {next} : FingerprintToken(u) \in Prints(ev[1]) => u = t BY <1>7, <1>8, <2>1
  <2>3. owner[t] = s BY DEF s
  <2> HIDE DEF print
  <2>4. \A f \in Prints(ev[1]) : f # new => SaysEnded(ev[1], f) /\ (~lost => f \in DOMAIN trail) BY <1>8, <1>9
  <2>5. FingerprintToken(t) \in Prints(ev[1]) BY <1>8 DEF print
  <2> QED BY <1>8, <2>2, <2>3, <2>4, <2>5 DEF NameTaken
<1>11. SaidInv' BY <1>4, <1>5, <1>6, <1>10, TakesTells
<1>12. EngineInv' /\ \A u \in Tokens : owner[u] # s => Spares(u) BY <1>4, <1>5, TakesKeeps
<1>13. TakeKeeps(s) BY <1>5, <1>11, <1>12 DEF TakeKeeps, Takes
<1> QED BY <1>2, <1>5, <1>13 DEF s

-----------------------------------------------------------------------------
(* The batch, under way beside other calls.                                 *)
LEMMA BatchTypesStay ==
  ASSUME BatchTypes, UNCHANGED <<slots, lost>>, UNCHANGED batch
  PROVE  BatchTypes'
BY DEF BatchTypes, Owners, NoBatch

(* A call beside the batch *)
LEMMA CallSparesBatch ==
  ASSUME EngineInv, BatchInv, UNCHANGED <<slots, lost>>, UNCHANGED batch, ~lost => \A t \in Tokens : Spares(t)
  PROVE  BatchInv'
<1>1. BatchTypes' BY BatchTypesStay DEF BatchInv
<1>2. ASSUME NEW t \in batch.ends
      PROVE  Awaits(t, batch.todo, batch.accounts \cup {batch.checked})'
  <2>1. t \in Tokens /\ ~lost BY <1>2 DEF BatchInv, BatchTypes, NoBatch
  <2>2. Awaits(t, batch.todo, batch.accounts \cup {batch.checked}) /\ Spares(t) BY <2>1 DEF BatchInv
  <2> QED BY <2>1, <2>2 DEF Awaits, Spares
<1> QED BY <1>1, <1>2 DEF BatchInv

(* A device that gets another token is excused. *)
LEMMA TakeSparesBatch ==
  ASSUME EngineInv, BatchInv, UNCHANGED <<slots, lost>>, NEW s, Excused(s), \A t \in Tokens : owner[t] # s => Spares(t)
  PROVE  BatchInv'
<1>1. /\ batch'.op = batch.op /\ batch'.accounts = batch.accounts /\ batch'.todo = batch.todo
      /\ batch'.checked = batch.checked /\ batch'.ends = {t \in batch.ends : owner[t] # s}
      /\ batch' \in [op: {"none", "kickoutByDevices", "logoutByDevices", "kickoutByLoginIds", "logoutByLoginIds"},
                     accounts: SUBSET Owners, todo: SUBSET slots, checked: Owners \cup {Null}, ends: SUBSET Tokens]
  BY DEF Excused, BatchInv, BatchTypes
<1>2. batch.op = "none" => batch' = NoBatch BY DEF Excused, BatchInv, BatchTypes, NoBatch
<1>3. BatchTypes' BY <1>1, <1>2 DEF BatchInv, BatchTypes, Owners, NoBatch
<1>4. ASSUME NEW t \in batch'.ends
      PROVE  Awaits(t, batch.todo, batch.accounts \cup {batch.checked})'
  <2>1. t \in Tokens /\ t \in batch.ends /\ owner[t] # s BY <1>1 DEF BatchInv, BatchTypes
  <2>2. Awaits(t, batch.todo, batch.accounts \cup {batch.checked}) /\ Spares(t) BY <2>1 DEF BatchInv
  <2> QED BY <1>1, <2>1, <2>2 DEF Awaits, Spares
<1> QED BY <1>3, <1>4 DEF BatchInv

LEMMA ListExpiresKeeps ==
  ASSUME TrailIInv, NEW s \in slots, ListExpires(s)
  PROVE  TrailIInv'
<1> USE DEF TrailIInv
<1>1. listed[s] \in Tokens /\ session[s] = listed[s] /\ status[listed[s]] = "live"
  BY LayoutFits DEF EngineInv, TrailTypes, IndexesFit, ListExpires
<1>2. TrailTypes' BY <1>1 DEF EngineInv, TrailTypes, ListExpires
<1>3. /\ \A x \in slots : session'[x] = IF x = s THEN Null ELSE session[x]
      /\ \A x \in slots : listed'[x] = IF x[1] = s[1] THEN Null ELSE listed[x]
      /\ \A t \in Tokens : status'[t] = IF t = listed[s] THEN "gone" ELSE status[t]
      /\ UNCHANGED <<slots, owner, rejected>> /\ lost' = TRUE
  BY <1>1 DEF EngineInv, TrailTypes, ListExpires
<1>4. IndexesFit'
  <2>1. \A x \in slots : session'[x] # Null => owner'[session'[x]] = x BY <1>3 DEF EngineInv, IndexesFit
  <2>2. ASSUME NEW x \in slots, listed'[x] # Null PROVE session'[x] = listed'[x] /\ status'[listed'[x]] = "live"
    <3>1. x # s /\ listed'[x] = listed[x] /\ session'[x] = session[x] BY <1>3, <2>2
    <3>2. session[x] = listed[x] /\ status[listed[x]] = "live" /\ owner[listed[x]] = x
      BY <2>2, <3>1 DEF EngineInv, IndexesFit
    <3>3. listed[x] \in Tokens /\ listed[x] # listed[s]
      BY <1>1, <2>2, <3>1, <3>2 DEF EngineInv, TrailTypes, IndexesFit
    <3> QED BY <1>3, <3>1, <3>2, <3>3
  <2>3. \A t \in Tokens : status'[t] = "none" <=> owner'[t] = Null BY <1>1, <1>3 DEF EngineInv, IndexesFit
  <2> QED BY <1>3, <2>1, <2>2, <2>3 DEF IndexesFit
<1>5. BatchInv'
  <2>1. batch = NoBatch /\ batch' = NoBatch BY DEF ListExpires, BatchInv, BatchTypes
  <2> QED BY <1>3, <2>1 DEF BatchInv, BatchTypes, NoBatch, Owners
<1>6. SaidInv'
  <2>1. trail' = trail /\ kind' = kind BY DEF ListExpires
  <2> QED BY <1>1, <1>3, <2>1 DEF SaidInv, TrailJoins, LiveIsTold, TrailNamesOwner
<1> QED BY <1>2, <1>4, <1>5, <1>6 DEF EngineInv

LEMMA TrailEngineStays ==
  ASSUME EngineInv, SaidInv, UNCHANGED TrailEngine
  PROVE  EngineInv' /\ SaidInv' /\ UNCHANGED <<slots, lost>> /\ \A t \in Tokens : Spares(t)
BY DEF TrailEngine, EngineInv, TrailTypes, IndexesFit, SaidInv, TrailJoins, LiveIsTold, TrailNamesOwner, Spares

LEMMA StartDevicesKeeps ==
  ASSUME TrailIInv, NEW op \in {"kickoutByDevices", "logoutByDevices"}, NEW named \in SUBSET slots,
         StartDevices(op, named)
  PROVE  TrailIInv'
<1> USE DEF TrailIInv
<1>1. EngineInv' /\ SaidInv' /\ UNCHANGED <<slots, session, status, owner, lost>> /\ ~lost
  BY TrailEngineStays DEF StartDevices, TrailEngine
<1>2. batch' = [op |-> op, accounts |-> {}, todo |-> named, checked |-> Null, ends |-> {session[s] : s \in named} \ {Null}]
  BY DEF StartDevices, NoBatch
<1>3. {session[s] : s \in named} \ {Null} \subseteq Tokens BY DEF EngineInv, TrailTypes
<1>4. BatchTypes' BY <1>1, <1>2, <1>3 DEF BatchTypes
<1>5. ASSUME NEW t \in batch'.ends PROVE Awaits(t, batch.todo, batch.accounts \cup {batch.checked})'
  <2>1. PICK s \in named : session[s] = t /\ t # Null BY <1>2, <1>5
  <2>2. owner[t] = s /\ status[t] # "none"
    BY <1>2, <1>3, <1>5, <2>1, LayoutFits DEF EngineInv, TrailTypes, IndexesFit
  <2> QED BY <1>1, <1>2, <2>1, <2>2 DEF Awaits
<1> QED BY <1>1, <1>4, <1>5 DEF BatchInv

LEMMA StartAccountsKeeps ==
  ASSUME TrailIInv, NEW op \in {"kickoutByLoginIds", "logoutByLoginIds"}, StartAccounts(op)
  PROVE  TrailIInv'
<1> USE DEF TrailIInv
<1>1. EngineInv' /\ SaidInv' /\ UNCHANGED <<slots, session, status, owner, lost>> /\ ~lost
  BY TrailEngineStays DEF StartAccounts, TrailEngine
<1>2. batch' = [op |-> op, accounts |-> Owners, todo |-> {}, checked |-> Null, ends |-> {listed[s] : s \in slots} \ {Null}]
  BY DEF StartAccounts, NoBatch
<1>3. {listed[s] : s \in slots} \ {Null} \subseteq Tokens BY DEF EngineInv, TrailTypes
<1>4. BatchTypes' BY <1>1, <1>2, <1>3 DEF BatchTypes, Owners
<1>5. ASSUME NEW t \in batch'.ends PROVE Awaits(t, batch.todo, batch.accounts \cup {batch.checked})'
  <2>1. PICK s \in slots : listed[s] = t /\ t # Null BY <1>2, <1>5
  <2>2. session[s] = t /\ owner[t] = s /\ status[t] # "none" BY <2>1 DEF EngineInv, IndexesFit
  <2>3. s[1] \in Owners BY DEF Owners
  <2> QED BY <1>1, <1>2, <2>2, <2>3 DEF Awaits
<1> QED BY <1>1, <1>4, <1>5 DEF BatchInv

(* One step of a batch: what it has passed over is ended. *)
PassesOver(todo, accounts, checked) ==
  \A t \in batch.ends :
    /\ status'[t] = "live" /\ session'[owner[t]] = t /\ owner[t] \in slots
    /\ owner[t] \in batch.todo \/ owner[t][1] \in batch.accounts \cup {batch.checked}
    => owner[t] \in todo \/ owner[t][1] \in accounts \cup {checked}

LEMMA BatchMoves ==
  ASSUME TrailIInv, ~lost, CallKeeps,
         NEW accounts \in SUBSET Owners, NEW todo \in SUBSET slots, NEW checked \in Owners \cup {Null},
         batch' = [batch EXCEPT !.accounts = accounts, !.todo = todo, !.checked = checked],
         batch.op # "none", checked # Null => todo = {},
         PassesOver(todo, accounts, checked)
  PROVE  TrailIInv'
<1> USE DEF TrailIInv, CallKeeps
<1>1. /\ batch'.op = batch.op /\ batch'.accounts = accounts /\ batch'.todo = todo
      /\ batch'.checked = checked /\ batch'.ends = batch.ends
      /\ batch' \in [op: {"none", "kickoutByDevices", "logoutByDevices", "kickoutByLoginIds", "logoutByLoginIds"},
                     accounts: SUBSET Owners, todo: SUBSET slots, checked: Owners \cup {Null}, ends: SUBSET Tokens]
  BY DEF BatchInv, BatchTypes
<1>2. BatchTypes' BY <1>1 DEF BatchTypes, Owners
<1>3. ASSUME NEW t \in batch'.ends PROVE Awaits(t, batch.todo, batch.accounts \cup {batch.checked})'
  <2>1. t \in Tokens /\ t \in batch.ends BY <1>1, <1>3 DEF BatchInv, BatchTypes
  <2>2. Awaits(t, batch.todo, batch.accounts \cup {batch.checked}) /\ Spares(t) BY <2>1 DEF BatchInv
  <2>3. status[t] # "none" /\ status'[t] # "none" /\ owner'[t] = owner[t] BY <2>2 DEF Awaits, Spares
  <2>4. ASSUME status'[t] = "live"
        PROVE  session'[owner[t]] = t /\ (owner[t] \in todo \/ owner[t][1] \in accounts \cup {checked})
    <3>1. session'[owner[t]] = t /\ (owner[t] \in batch.todo \/ owner[t][1] \in batch.accounts \cup {batch.checked})
      BY <2>2, <2>3, <2>4 DEF Awaits, Spares
    <3>2. owner[t] \in slots BY <2>1, <2>3 DEF EngineInv, TrailTypes, IndexesFit
    <3> QED BY <2>1, <2>4, <3>1, <3>2 DEF PassesOver
  <2> QED BY <1>1, <2>3, <2>4 DEF Awaits
<1> QED BY <1>2, <1>3 DEF BatchInv

LEMMA NextAccountKeeps ==
  ASSUME TrailIInv, NEW a \in Owners, NextAccount(a)
  PROVE  TrailIInv'
<1> USE DEF TrailIInv
<1>1. /\ batch.todo = {} /\ batch.checked = Null /\ a \in batch.accounts /\ batch.accounts \in SUBSET Owners
      /\ batch.op # "none" /\ ~lost
  BY DEF NextAccount, BatchInv, BatchTypes, NoBatch
<1> DEFINE rest == batch.accounts \ {a}
<1>2. rest \in SUBSET Owners /\ {} \in SUBSET slots BY <1>1
<1>3. ASSUME batch' = [batch EXCEPT !.accounts = @ \ {a}, !.checked = IF ListedAt(a) = {} THEN Null ELSE a],
             UNCHANGED TrailEngine
      PROVE  TrailIInv'
  <2> DEFINE checked == IF ListedAt(a) = {} THEN Null ELSE a
  <2>1. CallKeeps BY <1>3, TrailEngineStays DEF CallKeeps
  <2>2. batch' = [batch EXCEPT !.accounts = rest, !.todo = {}, !.checked = checked]
    BY <1>1, <1>3 DEF BatchInv, BatchTypes
  <2>3. ASSUME NEW t \in batch.ends, session'[owner[t]] = t, owner[t] \in slots,
               owner[t][1] \in batch.accounts \cup {batch.checked}
        PROVE  owner[t][1] \in rest \cup {checked}
    <3>1. CASE owner[t][1] = a
      <4>1. listed[owner[t]] = t /\ t # Null
        BY <1>1, <1>3, <2>3, LayoutFits DEF TrailEngine, EngineInv, TrailTypes, IndexesFit, BatchInv, BatchTypes
      <4>2. owner[t] \in ListedAt(a) BY <2>3, <3>1, <4>1 DEF ListedAt
      <4> QED BY <3>1, <4>2
    <3>2. CASE owner[t][1] = Null BY <2>3, <3>2, LayoutFits DEF EngineInv, TrailTypes
    <3> QED BY <1>1, <2>3, <3>1, <3>2
  <2>4. checked \in Owners \cup {Null} OBVIOUS
  <2> HIDE DEF rest, checked
  <2>5. PassesOver({}, rest, checked) BY <1>1, <2>3 DEF PassesOver
  <2> QED BY <1>1, <1>2, <2>1, <2>2, <2>4, <2>5, BatchMoves
<1>4. ASSUME batch' = [batch EXCEPT !.accounts = @ \ {a}], CallKeeps,
             \A s \in slots : s[1] = a => session'[s] = Null
      PROVE  TrailIInv'
  <2>1. batch' = [batch EXCEPT !.accounts = rest, !.todo = {}, !.checked = Null]
    BY <1>1, <1>4 DEF BatchInv, BatchTypes
  <2>2. \A t \in batch.ends : session'[owner[t]] = t /\ owner[t] \in slots => owner[t][1] # a
    BY <1>4, LayoutFits DEF EngineInv, TrailTypes, BatchInv, BatchTypes
  <2> HIDE DEF rest
  <2>3. PassesOver({}, rest, Null) BY <1>1, <2>2 DEF rest, PassesOver
  <2> QED BY <1>1, <1>2, <1>4, <2>1, <2>3, BatchMoves
<1>5. ASSUME LogoutByLoginId(a) PROVE CallKeeps /\ \A s \in slots : s[1] = a => session'[s] = Null
  BY <1>1, <1>5, LogoutByLoginIdKeeps
<1>6. ASSUME ListedAt(a) = {}, UNCHANGED TrailEngine
      PROVE  CallKeeps /\ \A s \in slots : s[1] = a => session'[s] = Null
  <2>1. CallKeeps BY <1>6, TrailEngineStays DEF CallKeeps
  <2> QED BY <1>1, <1>6, <2>1 DEF ListedAt, EngineInv, IndexesFit, TrailEngine
<1> QED BY <1>3, <1>4, <1>5, <1>6 DEF NextAccount

LEMMA ForceLogoutKeeps ==
  ASSUME TrailIInv, ForceLogout
  PROVE  TrailIInv'
<1> USE DEF TrailIInv
<1> DEFINE todo == ListedAt(batch.checked)
<1>1. batch.checked # Null /\ batch.todo = {} /\ batch.accounts \in SUBSET Owners /\ batch.op # "none" /\ ~lost
  BY DEF ForceLogout, BatchInv, BatchTypes, NoBatch
<1>2. CallKeeps BY TrailEngineStays DEF CallKeeps, ForceLogout
<1>3. batch' = [batch EXCEPT !.accounts = batch.accounts, !.todo = todo, !.checked = Null]
  BY DEF ForceLogout, BatchInv, BatchTypes
<1>4. todo \in SUBSET slots BY DEF ListedAt
<1>5. \A t \in batch.ends : session'[owner[t]] = t /\ owner[t] \in slots /\ owner[t][1] = batch.checked => owner[t] \in todo
  <2> SUFFICES ASSUME NEW t \in batch.ends, session'[owner[t]] = t, owner[t] \in slots, owner[t][1] = batch.checked
               PROVE  owner[t] \in todo
    OBVIOUS
  <2>1. listed[owner[t]] = t /\ t # Null
    BY <1>1, LayoutFits DEF ForceLogout, TrailEngine, EngineInv, TrailTypes, IndexesFit, BatchInv, BatchTypes
  <2> QED BY <2>1 DEF ListedAt
<1> HIDE DEF todo
<1>6. PassesOver(todo, batch.accounts, Null) BY <1>1, <1>5 DEF PassesOver
<1> QED BY <1>1, <1>2, <1>3, <1>4, <1>6, BatchMoves

LEMMA NextDeviceKeeps ==
  ASSUME TrailIInv, NEW s \in slots, NextDevice(s)
  PROVE  TrailIInv'
<1> USE DEF TrailIInv
<1> DEFINE rest == batch.todo \ {s}
<1>1. /\ s \in batch.todo /\ batch.todo \in SUBSET slots /\ batch.accounts \in SUBSET Owners
      /\ batch.checked = Null /\ batch.op # "none" /\ ~lost
  BY DEF NextDevice, BatchInv, BatchTypes, NoBatch
<1>2. ~(session[s] # Null /\ Unmarkable(session[s])) BY <1>1 DEF EngineInv, IndexesFit, Unmarkable
<1>3. batch' = [batch EXCEPT !.accounts = batch.accounts, !.todo = rest, !.checked = Null]
  BY <1>1, <1>2 DEF NextDevice, BatchInv, BatchTypes
<1>4. CallKeeps /\ session'[s] = Null
  <2>1. CASE session[s] = Null /\ UNCHANGED TrailEngine BY <2>1, TrailEngineStays DEF CallKeeps, TrailEngine
  <2>2. CASE LogoutByDevice(s) BY <2>2, LogoutByDeviceKeeps
  <2>3. CASE KickoutByDevice(s) BY <1>1, <2>3, KickoutByDeviceKeeps
  <2> QED BY <2>1, <2>2, <2>3 DEF NextDevice
<1>5. \A t \in batch.ends : session'[owner[t]] = t => owner[t] # s
  BY <1>4, LayoutFits DEF EngineInv, TrailTypes, BatchInv, BatchTypes
<1>6. PassesOver(rest, batch.accounts, Null) BY <1>1, <1>5 DEF PassesOver
<1>7. rest \in SUBSET slots BY <1>1
<1> HIDE DEF rest
<1> QED BY <1>1, <1>3, <1>4, <1>6, <1>7, BatchMoves

LEMMA ReturnKeeps ==
  ASSUME TrailIInv, Return
  PROVE  TrailIInv'
<1>1. EngineInv' /\ SaidInv' /\ UNCHANGED <<slots, lost>> BY TrailEngineStays DEF TrailIInv, Return
<1>2. BatchInv' BY DEF Return, BatchInv, BatchTypes, NoBatch, Owners
<1> QED BY <1>1, <1>2 DEF TrailIInv

LEMMA TrailIInvStep == TrailIInv /\ [TrailNext]_trailVars => TrailIInv'
<1> SUFFICES ASSUME TrailIInv, [TrailNext]_trailVars PROVE TrailIInv' OBVIOUS
<1> USE DEF TrailIInv
<1>1. ASSUME NEW s \in slots, Login(s) PROVE TrailIInv'
  BY <1>1, LoginKeeps, TakeSparesBatch, CallSparesBatch
<1>2. ASSUME NEW s \in slots, ListExpires(s) PROVE TrailIInv' BY <1>2, ListExpiresKeeps
<1>3. ASSUME NEW s \in slots, NextDevice(s) PROVE TrailIInv' BY <1>3, NextDeviceKeeps
<1>4. ASSUME NEW s \in slots, KickoutByDevice(s) \/ LogoutByDevice(s), UNCHANGED batch PROVE TrailIInv'
  BY <1>4, KickoutByDeviceKeeps, LogoutByDeviceKeeps, CallSparesBatch DEF CallKeeps
<1>5. ASSUME NEW t \in Tokens, LogoutByToken(t) PROVE TrailIInv'
  <2>1. CallKeeps /\ UNCHANGED batch BY <1>5, LogoutByTokenKeeps DEF LogoutByToken
  <2> QED BY <2>1, CallSparesBatch DEF CallKeeps
<1>6. ASSUME NEW t \in Tokens, KickoutByToken(t) PROVE TrailIInv'
  <2>1. CallKeeps /\ UNCHANGED batch BY <1>6, KickoutByTokenKeeps DEF KickoutByToken
  <2> QED BY <2>1, CallSparesBatch DEF CallKeeps
<1>7. ASSUME NEW t \in Tokens, RefreshToken(t) PROVE TrailIInv'
  BY <1>7, RefreshTokenKeeps, TakeSparesBatch DEF TakeKeeps
<1>8. ASSUME NEW a \in Owners, LogoutByLoginId(a), UNCHANGED batch PROVE TrailIInv'
  BY <1>8, LogoutByLoginIdKeeps, CallSparesBatch DEF CallKeeps
<1>9. ASSUME NEW a \in Owners, NextAccount(a) PROVE TrailIInv' BY <1>9, NextAccountKeeps
<1>10. ASSUME NEW a \in Owners, NEW op \in {"kickoutByDevices", "logoutByDevices"},
              StartDevices(op, {s \in slots : s[1] = a})
       PROVE  TrailIInv'
  <2>1. {s \in slots : s[1] = a} \in SUBSET slots OBVIOUS
  <2> QED BY <1>10, <2>1, StartDevicesKeeps
<1>11. ASSUME NEW op \in {"kickoutByLoginIds", "logoutByLoginIds"}, StartAccounts(op) PROVE TrailIInv'
  BY <1>11, StartAccountsKeeps
<1>12. CASE ForceLogout BY <1>12, ForceLogoutKeeps
<1>13. CASE Return BY <1>13, ReturnKeeps
<1>14. CASE UNCHANGED trailVars
  <2>1. EngineInv' /\ SaidInv' /\ UNCHANGED <<slots, lost>> /\ \A t \in Tokens : Spares(t)
    BY <1>14, TrailEngineStays DEF trailVars, TrailEngine
  <2> QED BY <1>14, <2>1, CallSparesBatch DEF trailVars
<1> QED BY <1>1, <1>2, <1>3, <1>4, <1>5, <1>6, <1>7, <1>8, <1>9, <1>10, <1>11, <1>12, <1>13, <1>14 DEF TrailNext

(* Whatever logins, refreshes, kickouts, logouts and batches follow one     *)
(* another: an event names the account its token was made for; and as long  *)
(* as no list has expired before its sessions, no call throws, a batch that *)
(* returns has ended what it was to end, the trail's events can be joined   *)
(* and, but for single-device accounts, tell of each token whether it is    *)
(* accepted.                                                                *)
THEOREM TrailHolds == TrailSpec => []TrailInv
<1>1. TrailStart => TrailIInv BY TrailBegins
<1>2. TrailIInv /\ [TrailNext]_trailVars => TrailIInv' BY TrailIInvStep
<1>3. TrailIInv => TrailInv BY TrailFollows
<1> QED BY <1>1, <1>2, <1>3, PTL DEF TrailSpec
=============================================================================
