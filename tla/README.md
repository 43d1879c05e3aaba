# A formal model of xlt-token

xlt-token is a TypeScript library that keeps login sessions: it issues tokens,
stores what they stand for in a key-value store (memory or Redis), resolves them
on each request, and revokes them by token, device or account. This directory
holds TLA+ modules translated from its source (paths below are under `packages/`
of the repository unless they say otherwise), TLC configurations that check
them on small instances, and theorems checked by TLAPS.

## 1. The system

### 1.1 Parts, state and operations

| part | source | state | operations |
|---|---|---|---|
| Session engine | `core/src/auth/stp-logic.ts` | none of its own; keys in the store (1.2) | login, logout, kickout and their device, token and account variants, batch forms, checkLogin/isLogin, renewTimeout, listings |
| Token lifecycle | `stp-logic.ts`, `core/src/lifecycle/` | one family-state record per token, a generation key | createTokenFamily, refreshToken, revoke, revokeFamilyAfterReplay |
| JWT mode | `jwt/src/`, `stp-logic.ts` | a blacklist entry per revoked `jti`; the session key holds the `jti` | the same operations, with signature and `exp` instead of the token key |
| Safe windows, temporary tokens | `stp-logic.ts` | one key per token and business, one per temporary token | openSafe/checkSafe/closeSafe, createTempToken/parse/delete/consume |
| Store | `core/src/store/` | `Map` with values, deadlines and one timer per key | get, set, setIfAbsent, compareAndSet, compareAndDelete, getAndDelete, touch, delete, scan |
| Redis stores | `store-redis/src/` | the server's keys | the same contract, by commands and scripts |
| Session data | `core/src/session/xlt-session.ts` | one JSON object per account, and a copy in each `XltSession` | get, set, has, remove, clear, keys |
| Permissions | `core/src/auth/stp-perm-logic.ts`, `core/src/perm/` | a cache of permissions and roles per account | checks, loads, invalidation, pattern matching |
| Durations | `core/src/time/duration.ts` | none | parse and normalise |
| Route authorisation | `express/src/auth/`, `fastify/src/`, `nestjs/src/guards/` | route metadata | merge metadata, decide, run checks in order |
| HTTP contexts and errors | `core/src/http/`, `core/src/exceptions/`, the adapters | what a check leaves on the request | read and write token sources, sync state, map exceptions |
| Inspector | `inspector/src/` | a bounded event buffer; in the page, a cursor, the rows and the fetches under way | emit, incremental snapshot, HTTP bridge and its mounts, the page's polls and buttons |
| Observability | `observability/src/` | the OpenTelemetry counter, once loaded | forward events to loggers, counters, several sinks |
| Instances, facade | `core/src/instance/`, `core/src/factory.ts`, `core/src/auth/stp-util.ts`, `nestjs/src/xlt-token.module.ts` | the default engine and permission logic | create, set, delegate |

### 1.2 The keys

All state that outlives a request is in the store, under keys of
`core/src/config/xlt-token-keys.ts`: the **token key** (token → account, or a
marker `KICK_OUT`/`BE_REPLACED`), the **session key** (account, device → token), the
**device list** (account → JSON array of device, token, time), the **session data**
of the account, and lastActive, offline-record, family, safe and temporary-token keys.
The token key decides whether a token is accepted; the session key and the list are
two indexes by which operations find tokens. No transaction spans two keys.

### 1.3 How the parts interact, and what is hard

Each operation of the engine is a sequence of awaited store calls. Between two of
them other operations run: other requests of the same process, or of other processes on
the same Redis. Only single calls are atomic. Hence

* decisions taken from a value read several awaits earlier (login's branch, the sharing check, the count before
  session data is deleted);
* facts kept in three keys and written one after the other, with crashes between them;
* optimistic loops on the device list and on session data;
* markings whose compare-and-set may silently lose;
* entries that expire on clocks of their own, a blacklist entry beside the `exp` inside the JWT it is for among them;
* answers kept in copies: the permission cache, the document in an `XltSession`, the cursor of a scan, what the console's page shows;
* work that nobody waits for (offline records, timers, the page's functions) and that may fail or end in another order;
* several tables kept by hand that must say the same (routes, exported fields, policies of three adapters).

`PROJECT.json` lists the forty of these that a test would least reach, each at its line, with the properties that
would catch it.

## 2. Plan

Order: first the session engine, on which everything else rests; then what runs
beside it on the same keys; then the store below it; then the parts around it.
Every step of the plan is done; "proved" says that theorems stand beside the runs.

| step | module | abstract specification | state |
|---|---|---|---|
| A | `StpLogic`: the engine, one action per store call | `TokenRegistry` | checked, proved |
| B | `TokenLifecycle`: refresh, revoke, families, composed with `StpLogic` | `TokenRegistry` | checked, proved |
| C | `SessionTtl`: expiry, renewTimeout, activity check | | checked, proved |
| D | `MemoryStore`: entries, deadlines, timers | `TokenStore` | checked, proved |
| E, F | `RedisStore`: the contract by commands and scripts, scans page by page, one server or a cluster | `TokenStore` | checked, proved |
| G | `JwtSession`: blacklist entries with times of their own against `exp` | | checked, proved |
| H | `SessionData`: session data, temporary tokens, offline records, paged listings | | checked, proved |
| I, K | `Access`, `HttpChain`: policies and checks of a request; its way through an adapter | the declarations themselves | checked, proved |
| J | `Inspector`, `InspectorBridge`, `SessionPanel` | | checked, proved |
| L | `Deployment`, `AuditTrail`, `AuditExport` | | checked, proved |

What would come next: the order of the device list and the login times in it, which `StpLogic` leaves out (section 7), and `getOnlineLoginIds` over pages of a changing store.

## 3. The modules

Names are the code's where it has one. Every module keeps recursion out, so that each can be
proved about; `MC...` modules only hold instances for TLC. Definitions whose comment begins with
"Mutant" are not part of any specification: each is a plausible bug, and substituting
it for the definition after it makes some checked property fail.

### The engine

**`StpLogic`** models `stp-logic.ts` with an opaque token strategy. The keys of
section 1.2 are the variables `tokenKey`, `session`, `list` and `data`. An operation in flight is a record in
`req`: its arguments, the values it holds in local variables, and `pc`, the store call it
will make next. Each action is the code from one `await` to the next, with exactly one store call:
`ReadSession` is the `get` of login or kickout, `CasMark` the `compareAndSet` in
`replaceStoreValueKeepingTtl`, `ReadRemove`/`CasRemove` the loop of `_removeFromSessionList`,
and so on. `LoginBranch` is the four-way decision in `login`. A rejected promise is `pc = "failed"`; with
`MayAbort` any operation may stop between two calls, which is a crash of the process or a store call that rejects.
`owner` and `handed` are history: for whom a token was created, and which tokens clients have.

`Overlap` is an assumption on the callers, not code: `"any"` lets operations on one device overlap,
`"devices"` allows overlap only between operations on different devices of an account, `"none"` only
between accounts. The engine has no lock, so `"any"` is what a deployment may meet; the properties that need `"devices"` are
those which the code keeps for well-behaved callers.

**`TokenRegistry`** is what the engine promises of tokens: issued once, to one account, then revoked, for good.

**`TokenLifecycle`** extends `StpLogic` with `createTokenFamily` at the end of a login and with `refreshToken` and `revoke`
as calls of their own (`call`), again one action per store call. `state` is the family state of each token,
`from` is history: which token and generation a token was rotated from. `_addToSessionList` inside a refresh is one step,
as `StpLogic` already shows its loop.

**`SessionTtl`** gives every key a deadline. Operations are single steps here. Only the
activity check of a request is taken call by call, as other requests and renewals may meet in it, and any time may pass between two
of its store calls: `at` is the time it has taken for the write that is to come. `used` is history: when a token was last issued, or found active by a check. Entries
vanish at their deadline. The four login modes are named: `single` (`deviceConcurrent = false`), `replace`
(`isConcurrent = false`), `share` (`isShare`), `several`.

**`JwtSession`** is the same engine with the JWT strategy, for one account, call by call again. No token key exists:
`exp` is inside the token, `black` is the deadline of the blacklist entry of its `jti`. `SetBlackFails` is a
write of the blacklist that rejects, which `logoutByLoginId` and `_kickoutAllDevices` catch together with tokens that do not
verify; `Abort` is any other call that rejects. `home` is the device a login is for, while `at` is the one its loop works on.
`life` (the timeout a token was signed for), `handed`, `revoked` and `forked` (devices on which two overlapping refreshes retired the same token) are history.

**`SessionData`** holds four small parts that share nothing, and a behaviour exercises one. `XltSession`: `hist` is the sequence of
documents that were ever stored, `cache` the object's copy, `call` where an object is in its compare-and-set loop. Temporary tokens: readers of one
`consumeTempToken`. Offline records: `pending` are the writes nobody waits for, each under the key the call that ended the token had in hand, which for a JWT may
be the `jti`; `failed` are the keys of those the store rejected. Paging: `walk` reads `getSessionList` page by page while
devices log in and out.

### The store

**`TokenStore`** is the contract of `XltTokenStore`: every method one step with an answer, an entry is readable exactly
until its deadline. **`MemoryStore`** is the `Map` with its timers; a method has no `await` and is one step.
A timer may fire any time after its moment. `Contract` maps the map to what `peek` would return; a firing timer must be a stutter.
`getTtl` is not in the contract; what it does to the map is what `Get` does.
**`RedisStore`** covers both Redis classes. The server is external: it runs a command or a script at a time. Methods of one command are one step and implement
the same `TokenStore`; `get` is two commands and `scanStoreKeys` one per page, so what others do falls between them. A
cluster's masters may become fewer during a scan, as a failover does.

### Requests

**`Access`** models one request to a site (adapter, settings, declared policies and route metadata): which policies cover its path, in whatever spelling the
router takes for the route, how the metadata is merged, then `checkLogin`, each permission and role with its cache (`ReadCache`,
`Load`, `StoreCache`), and the safe window, one await at a time, while grants, session and window change.
`Demands` in the property reads the declarations directly and does not use the operators that match and merge.
**`HttpChain`** models the way around that: the context each adapter makes of a request, one or two layers with engines of their own, what
`syncXltState` leaves on it, the handler, exceptions and their answers, and the cookie of a login.

### Around the engine

**`AuditTrail`** takes calls of the engine as single steps and looks at what their events say, for opaque tokens and JWTs, in all login modes,
and at the batch operations, which are one step per device or account. **`AuditExport`** is what the logger and OpenTelemetry make of an event, field by field.
**`Inspector`** is the chain of sinks, the ring buffer, the calls of the page and its timeline; **`InspectorBridge`** the HTTP
boundary with its mounts, auth callback, parameters and routes, and what each answer tells (`carries`), the messages of errors included; **`SessionPanel`** the page's asynchronous functions that fetch and draw the sessions.
**`Deployment`** has five parts of which a behaviour exercises one: rotation of JWT keys over nodes, the instances of a
process and its default, normalising a configuration and its durations, the keys JWTs are signed with, and the names of store keys.

`MCSurroundings` puts these six together and `MCAccess` the two of a request: a behaviour is one of the part chosen at its start
while the others stay as they began, so that every property is one of its own module.

## 4. What is checked

| run | instance | properties | shows |
|---|---|---|---|
| `devices` | 1 account, 2 devices, 2 tokens, 2 operations at once, all modes, `Overlap = "devices"` | `IndexesAgree`, `NeverThrows`, `RevokedOnReturn`, `EveryRequestEnds` | work on different devices does not disturb the indexes, rejects nothing, has revoked what it said, and ends |
| `crash` | the same with `MayAbort`, 3 tokens, modes other than `several`, without `kickoutByDevice` and `logoutByDevice`, whose steps are part of `forceLogout`'s and `logout`'s | `EveryLiveTokenIsListed`, `KickingLeavesOne`, `Ownership`, `RevocationIsFinal` | a stop between two store calls never leaves a token that a client holds and no index finds, nor two accepted tokens where the mode allows one; tokens never cross accounts, revocation is final |
| `refresh_any` | login and kickout beside 2 refresh or revoke calls, 3 tokens, `Overlap = "any"`, with crashes | `RotationExclusive`, `OldTokenRetired`, `FamilyEndIsFinal`, `ImplementsRegistry` | the compare-and-set on the family state decides races of refreshes, and what a refresh does is still a step of the registry |
| `refresh_devices` | 2 devices, one call per device, states may expire | `RotatedIndexesAgree` | rotation keeps the indexes |
| `v_refreshOnce` | 2 refreshes of one token | `RefreshedOnce`, violated | both may succeed (section 5) |
| `expiry` | 2 devices, 2 tokens, 2 requests, timeouts 1 and 2, clock up to 3, a tick between any two steps | `TtlInv` (`TypeOK`, `ListedKeysExpireTogether`), `IdleIsFinal` | renewals with other timeouts keep a token's own keys together; a token nobody has used for `activeTimeout` is not let through, however late the writes of checks are |
| `memoryStore` | 2 keys, 2 values, ttls 0, 1, 3, longest timer 2, clock up to 4 | `EntriesKeepTimers`, `ImplementsTokenStore` | timers cannot be told from plain expiry, and no entry stays for want of one |
| `jwt` | 1 device, 3 tokens, 2 operations of which two overlap on a device only if they are refreshes, 1 stop, timeouts 1 and 2, clock up to 2 | `RevokedStaysOut`, `KickingLeavesOne`, `LoginHandsOutAccepted` | what is blacklisted stays out for as long as its signature verifies, whatever stops half-way |
| `redis` | 2 keys, 2 values, ttls 0 and 1, 2 buckets, 1 or 2 masters, a client in a get or scan beside any others | `ImplementsTokenStore`, `GetTellsDeadline`, `ScanIsComplete` (`TypeOK`, `ScanFindsAll`, `ScanMovesOn`) | one command at a time is enough for the contract; a scan ends and misses nothing that stays |
| `sessionData` | 2 objects, 2 fields, 4 writes; 2 temporary tokens and readers; one token of a login, opaque or a JWT, ended for any reason under any key; 3 devices read by pages | `NoLostUpdate`, `ReadsOwnWrites`, `ConsumedOnce`, `CallsComplete` (`CallsReturn`, `EndingIsRecorded`), `SessionDataInv` (`TypeOK`, `NobodySkipped`) | the four smaller uses of the store keep their promises under overlap |
| `access` | 11 sites, one of them spelling its prefix in capitals, 3 requests, 3 lists of permissions (a wildcard, a prefix, two exact ones), cache timeouts 0 to 2; 4 adapters with 5 arrangements of layers | `AccessInv` (`TypeOK`, `ServedMeetsPolicy`), `ListIsRecent`, `ChainInv` (`ChainTypeOK`, `HandlerSeesTheChecked`, `RefusalIsTold`, `AdaptersReadAlike`), `LoginReachesClient` | no request passes a declaration, no old list decides, and nobody is taken for somebody else |
| `surroundings` | see the bounds below | `ConsoleInv`, `BridgeInv`, `ActionsHitTheirTarget`, `PanelInv`, `TrailInv`, `ExportInv`, `RotationKeepsTokens`, `DeploymentInv` | the audit trail, its exporters, the console, key rotation, instances, configurations and key names |

A property named `...Inv` is a conjunction of named parts, each stated and commented in its module: `ConsoleInv` of the buffer, the sinks and the
timeline; `BridgeInv` of who gets an answer, of what and how much; `PanelInv` of rows that load, buttons and labels; `TrailInv` of joins, states, owners,
calls that throw and batches; `ExportInv` of fields and failures; `DeploymentInv` of instances, configurations, keys and names. `KickingLeavesOne` is
`OneTokenPerDevice` and `OneTokenPerAccount`.

**Bounds.** Two operations in flight are enough for every race of a read and a write with one other
operation between them; a third token is what a second rotation or a second replacement needs. The bound on tokens
(`TokenLeft`) only keeps new logins from starting. The clock of `expiry` passes both timeouts, and with `activeTimeout = 1` the
idle limit, from a login made at 0, and a renewal at 1 keeps the keys of a token that has become idle. In `memoryStore` the ttl 3 is beyond the longest timer 2, and 0 is due at once.
In `jwt` a token signed for 1 expires while one signed for 2 goes on, and `MaxAborts` bounds the stops: one is what
separates two writes; loops over several devices are left to `crash`, which has them, and to the theorems. `MaxMasters = 2` and `Buckets = 2` let a scan be in either master when one leaves. `MaxWrites = 4` gives each
`XltSession` two changes, which is what one retry needs. One login token is enough for offline records, as records of two tokens have no key in common; it may be ended once for each reason and key. In `access`, `MaxChanges = 1` change per kind
of list and a load of one tick (`LoadTime`) let an older list be cached over a newer one; `MaxTime = 3` outlives the longest cache timeout.
In `surroundings`: a buffer and a page of 2 events with `MaxEvents = 3` overflow both (a restart counts as two events); a panel of 3 accounts on
pages of 2 with `MaxSteps = 2` logins, rotations or buttons and 2 functions at once; `MaxExports = 1`, as what an export leaves for the
next is only whether there is a counter; `MaxToken = 3`, and two accounts with one device or one account with two, the
former only in modes `replace` and `share`, a list that expires early once; a full buffer of 3 (`Newest`), pages of at most 2 (`Most`) and the
numbers -1, 0, 1, 5 or none in a query; 3 nodes and 3 keys of two algorithms; all configurations, keys and
names are enumerated as inputs. Symmetry is used in safety runs only, never where liveness is checked.

**Fairness.** `EveryRequestEnds` (`devices`) and `CallsComplete` (`sessionData`) are checked under weak fairness of each request's
or object's next step: every awaited store call is answered, and the event loop runs every continuation whose
promise has settled. Nothing is assumed of how steps alternate, and new requests may keep coming. What they show is
that a compare-and-set loop retries only when the value has really changed, and that operations never wait for each other. An instance has finitely many tokens
or writes, so changes of the value come to an end; callers who change one account's list
forever could starve a loop, as in any optimistic scheme. For sharing configurations, where a login may rewrite the list
without a new token, `EveryRequestEnds` is not claimed. Its part `EndingIsRecorded` assumes that the store answers a write once sent, if only with a
rejection, after which nothing is claimed of that key; the process may of course die before, and nothing repeats the write.

Each property of a passing run has a mutant in `PROJECT.json` under which that run fails.

## 5. Where code and documents disagree

With a run: `v_refreshOnce`. A second refresh that passed the token check before the first marked the token reads the advanced
state and succeeds too (`stp-logic.ts:630`), where `docs/core/jwt-strategy.md:95` says that one of concurrent refreshes of a token succeeds
(同一个 token 并发刷新时只允许一个成功).

Without a run of their own; the properties are stated so that they except these cases:

* Two logins on one device with `isConcurrent = false` both read the session key before
  either writes it (`stp-logic.ts:115`); both tokens stay accepted. `docs/core/multi-device.md:40`: 同 device 互踢（顶号）. This takes `Overlap = "any"`;
  `OneTokenPerDevice` counts tokens on devices no operation works on, with `"devices"`.
* With `isShare`, a kickout between the login's check of the old token (`stp-logic.ts:150`) and its
  unconditional write is undone; `docs/core/permissions-and-session.md:269`: 被踢 / 被顶后旧 token 失效. `RevocationIsFinal` excepts sharing.
* `revoke(target, 'family')` ends the state kept under the target only (`stp-logic.ts:723`, as the state is kept per token, 605); other tokens of the family can still be
  refreshed. `docs/reference/src-reference.md:36`: `revoke(target, 'family')` 吊销 family.
* `renewTimeout` does not prolong the device list, so `forceLogout` (`stp-logic.ts:1066`) misses a renewed token once the list is gone;
  `docs/core/multi-device.md:146`: 强制某账号**所有 device** 下线.
* `kickoutByDevice`, `logoutByDevice`, `kickoutByToken` and `forceLogout` leave the session data of an account whose last device they end;
  `docs/core/permissions-and-session.md:187` says it is cleaned up. And `logout` and `kickout` count the devices left and delete the session data in two
  calls (`stp-logic.ts:482`); a login in between loses its data, which `docs/core/multi-device.md:279` admits.
* With the JWT strategy the offline record of a token that a login has replaced is written under its `jti` (`stp-logic.ts:290`, as 268-291 has only the session key's value), and so is that
  of `kickout`, `kickoutByDevice` and `logoutByDevice` when the device list no longer names the device; `getOfflineRecords(token)` looks under the token and finds nothing.
  `docs/core/permissions-and-session.md:267-275` asks with the token and lists the reason `BE_REPLACED`. `EndingIsRecorded` speaks of endings recorded under the token itself.
* The bridge answers an error with its message (`inspector/src/bridge.ts:239`), and `replaceStoreValueKeepingTtl` rejects with the key it did not find (`core/src/store/store-helpers.ts:37`): a kickout by the console of
  a session whose token key is gone answers `key not found: ...:login:token:<token>`, the token in full. `inspector/README.md:9`: raw tokens never leave the bridge. The token is dead by then;
  `BridgeInv` says that no other leaves, and in no other answer.
* A rotated token presented again is answered `TOKEN_INVALID`, because it is marked, and not `TOKEN_REPLAYED` as `docs/core/recipes.md:106` says.

The rest contradicts no document but a maintainer would want to know it. Properties name these cases where they except them.

Opaque tokens:

* In `several` mode a later login on a device replaces the earlier token in both indexes while that one stays accepted (`stp-logic.ts:157`): no
  operation by device or account reaches it. This is why `EveryLiveTokenIsListed` excludes the mode.
* With `Overlap = "any"` an operation may reject with "key not found" (`NeverThrows`), and `single` mode may keep two tokens (`OneTokenPerAccount`).
* A refresh that dies after it wrote the new session key leaves the old token accepted but unlisted.
* A `renewTimeout` that shortens a token leaves the list behind; in `single` mode logins then reject at the missing key until the list
  expires. One that finds no list has already prolonged the token when it rejects (`stp-logic.ts:786`).
* A check that waits on the store may accept again a token that another check has just refused as idle: both read the same time, one before the limit and one after it, and the first then
  writes its own (`stp-logic.ts:1150-1158`). A write that is late may also put back a newer time, and a token that is in use is refused as idle early. `IdleIsFinal` asks that no check has found the token active for `activeTimeout`.
* `checkLogin` rejects with "key not found" when a logout comes between the two reads of lastActive.
* `replaced` (`stp-logic.ts:1211`) is called by nobody.

JWT mode:

* A blacklist entry lives for `config.timeout` (a refresh's for the new token's timeout), so a token that a login signed for longer, or one retired by a
  `refreshToken(token, timeout)` with a timeout below what is left of it (`stp-logic.ts:613`), is accepted
  again when its entry ends (`Covered` in `RevokedStaysOut`).
* `logoutByLoginId` and `_kickoutAllDevices` hide a blacklist write that failed: the token is unlisted and still accepted.
* Where two refreshes of one token both succeed, clients hold two accepted tokens of one device. Only one of them is in the session key, so the next login
  ends that one only, and the other's line goes on with every refresh, also when the two that began it have long expired (`forked`).
* `renewTimeout` gives the session key a new deadline and cannot change the `exp` inside the token. A shorter one lets the key end before its token: the next login finds
  nobody to kick out, and both tokens are accepted.

Session data and listings:

* An `XltSession` never looks again at what it has read; others' changes, a logout or expiry go unnoticed. A `clear` that overlaps a `get` of the same object is undone by it.
* `getOnlineLoginIds` scans anew for every page, in whatever order the store gives (`stp-logic.ts:1050`): on Redis two pages may repeat or miss accounts.
* `getAndDelete` on Redis has a TTL rounded to seconds: a temporary token consumed in its last half second is destroyed and reported as gone (`stp-logic.ts:374`).
* On Redis a timeout of 0 makes `setIfAbsent` and `compareAndSet` reject (`EX 0`), where `set`, `touch` and the memory store let the entry expire.

Requests:

* The permission cache is never invalidated, and `permCacheTimeout = -1` keeps it for ever.
* Lists given to Express's route helpers are overridden by matching policies instead of merged (`express/src/middleware/xlt-middleware.ts:30`).
  Nested Express middlewares see the metadata the outer one left on the request.
* `XltAbstractLoginGuard` looks at `XltCheckLogin` only (`nestjs/src/guards/xlt-abstract-login.guard.ts:54`). NestJS guards pass over permission metadata where `StpPermLogic` is not provided.
* A query parameter given twice is an array: Express hands it on as a token, Fastify takes the first, NestJS none.
* Where nothing can write a cookie, the bridge throws after the login has been made; the session stays.
* An application that calls `setStpLogic` alone gives `StpUtil` sessions of one instance and permissions of another.

Audit and export:

* A logout with an opaque token that was kicked out or replaced is audited under the login id `KICK_OUT` or `BE_REPLACED`.
* A login in `single` mode ends other tokens without an event. `token.family_revoked` is emitted nowhere.
* Every login gives the whole list the timeout of that login. When a shorter one lets the list expire before its sessions, events of a JWT carry the fingerprint
  of its `jti`, `forceLogout` misses sessions, and after a `logout` by token a session key without its token stays, at which kickout and login reject until it expires.
* A failing `createCounter` turns metrics off without a word; an `onError` that throws loses the span event.

Console:

* Polls start every two seconds whether the last has answered or not: two with one cursor double rows. An overview that comes between two polls moves the cursor past events never
  fetched. A restarted server numbers from 1 again, below the page's cursor.
* With several sessions expanded, every kickout button names the account loaded last. A page turned during a fetch may be shown with the rows of another.
* An auth callback that throws has its error's message answered to a caller it has not let through (`inspector/src/bridge.ts:229`, 242).
* Any 403, "mutations disabled" too, is shown as a failed login; an overview's success shows the status dot as good while polling is paused.

Keys: an HMAC key written as two different secrets is accepted and cannot verify its own tokens; one with a verification key only is rejected.

## 6. What is proved

TLAPS checks these for every value of the constants that satisfies the modules' assumptions, so for any number of
accounts, devices, tokens and operations in flight, with any failure and any overlap unless said otherwise. Where a theorem
has a hypothesis on the constants, the run that checks its property has constants that satisfy it, and the reason is given.

**`StpLogic_proofs`**: `OwnershipHolds` (`TypeOK`, `Ownership`), `RevocationFinal` (`RevocationIsFinal`), `RegistryImplemented` (`ImplementsRegistry`, where no configuration shares).
The invariant `IInv` is `TypeOK`, `Ownership` and, for each operation in flight, that what it holds in its
local variables is what it should be: its token was created for its account and device, a list value it read names only tokens of that
account, a login past its decision holds a token that no key names yet. `Ownership` alone is not inductive: an operation
writes into the keys what it holds. `RevocationIsFinal` follows as only `WriteToken` can make a token accepted, and without sharing it
writes a token that was fresh; and `ImplementsRegistry` from the same step by step.

Its second part is about callers whose operations overlap only where they work on different devices or accounts (`Overlap # "any"`):
`LiveTokensListed` (`EveryLiveTokenIsListed`), `KickingLeavesOneToken` (`KickingLeavesOne`) and `RevokedWhenReturned` (`RevokedOnReturn`), with stops anywhere; and
`IndexesAgreeWhenQuiet` (`IndexesAgree`) and `NothingThrows` (`NeverThrows`), where nothing stops half-way (`MayAbort = FALSE`: after a stop the indexes may differ, and a later
operation meets a key that is not there; this is why `devices` and `crash` are two runs). With `Overlap = "any"` all five fail, by the races of section 5.
The invariant `DInv` has three layers. `AInv`: operations in flight work on disjoint places (pairs of account and device), and each
holds of its own place what it last read there (`Hand`); no other operation can have changed it (`Frame` says what a step leaves alone). `BInv`, where
a device has one token: a token that a client holds and that is accepted is in both indexes, and an operation that is past its marks has none left on the devices it has
done (`Knows`). `CInv`, without stops: on a device no operation works on the indexes agree, and an operation in flight has kept them so on the devices it has not reached or is done with (`Leaves`).
The list is one key for all devices, so a failed compare-and-set there says only that some other device has changed; that the retry then adds or removes
the right entry is what `Frame` is for.

**`TokenLifecycle_proofs`** builds on these: `LifecycleTypes`, `RotationIsExclusive`, `RefreshRetiresOldToken`, `FamilyEnds`,
`LifecycleImplementsRegistry` (the last where no configuration shares; the other properties are themselves about the case without sharing where they need it).
The invariant `LInv` is `IInv`, `CallsInv` (each call's values at each await) and, without sharing, three parts. `OneHand`:
a token is held by one login or refresh until a client has it. `Behind`: the generation a token was refreshed from lies below
the generation its family state has now, and no two tokens come from the same; this is what a successful compare-and-set
establishes, and what the second of two refreshes cannot meet. `Marking`: a refresh about to mark the old token has seen what its key holds, or the key is no longer that of an
accepted token; so the mark cannot be lost although its result is not looked at.

Its second part carries `DInv` of the engine through refreshes, for `Overlap # "any"` and `MayAbort = FALSE`: `RefreshedIndexesAgree` (`RotatedIndexesAgree`), and
`RefreshingLeavesOneToken`, `RefreshingNeverThrows` and `RefreshedRevokedWhenReturned`, which are `KickingLeavesOne`, `NeverThrows` and `RevokedOnReturn` of the composed system.
The invariant is `RInv`: `CallsApart` (a call has a place of its own) and, for each call in flight, `CallKnows`. Up to the session key's write its place is at rest;
from there to the list's the session key names the new token and the list still the old one. A refresh that has found its token accepted (`Turning`) knows it to be the only
accepted one on its device, and in single mode on the whole account, until it marks it; the new one is in no client's hands before the list has it. `CallRInv` says once what a call's step has to show of
its own place (`CallsOwn`) and of the other calls (`SparesOthers`), and each action has a lemma that shows it.
That `MayAbort = FALSE` is needed is no weakness of the proof: a refresh that stops between the session key and the mark leaves the old token accepted and no longer under
the session key, so the next login on the device kicks out the new token, which nobody has, and hands out a second accepted one (TLC finds this in 25 states with `MayAbort = TRUE`).

**`MemoryStore_proofs`**: `TimersMatch` (`TimersMatchEntries`), `StoreTypes`, `TimersStay` (`EntriesKeepTimers`) and `StoreImplemented` (`ImplementsTokenStore`). `TypeOK` and `TimersMatchEntries` are
inductive together: a write clears the one timer its key may have before it sets the next. A timer that fires is
then the timer of an entry that is due, and deleting it changes nothing that `peek` returns. One lemma says what `write`, a delete, `peek` and
the change in place are to the contract, and one per method puts them together. `Owned` adds that the timer an entry names is pending.

**`SessionTtl_proofs`**: `KeysExpireTogether` (`TtlInv`) and `IdleStaysIdle` (`IdleIsFinal`), in every login mode and for any timeouts. `TtlInv` needs beside it `OwnTokens`: no two
devices name one token, or prolonging the keys of one would leave those of the other behind; and `TimesOfUse`: no time that is stored or that a check is about to store lies after the
token's last use, so that no write, however late, makes a token look used when nobody has used it.

**`RedisStore_proofs`**: `RedisStoreImplemented` (`ImplementsTokenStore`), `GetTellsTheDeadline` (`GetTellsDeadline`) and `ScanCompletes` (`ScanIsComplete`), for any number of clients, keys,
buckets and masters. For the first `TypeOK` and `InTime` (no entry is kept past its moment) are enough: each command is one step of the contract or changes nothing it can see. For the scan, `ScanInv` says
what a scan under way has: every key that was there throughout and lies behind its place is among those found, and while the masters stay the same its place is one of theirs.
The proof of the scan's progress showed that `ScanMovesOn` had been stated too strongly: it now speaks of the steps of the scan itself and not of those of other clients meanwhile.

**`JwtSession_proofs`**: `JwtTypes`, `RevocationHolds` (`RevokedStaysOut`). `IInv` has three parts: what keys and requests hold are signed tokens (`KnownOK`, `RequestsOK`), and `Deadlines`: a token
ends no later than its timeout from now, and the entry of a revoked covered token no earlier than the token. The second half is
kept when an entry is written again because of the first.

For `Overlap # "any"`, where two operations on one device at once are both refreshes, `LoginsHandOutAccepted` (`LoginHandsOutAccepted`) follows from `LInv`: `Sited` (a key or request of a device holds tokens signed for
that device), `Separate` (operations in flight are apart in this sense) and `Fresh` (what a login is about to hand out is not blacklisted: only an operation on its device could do that).
`OneAcceptedToken` (`KickingLeavesOne`) needs in addition that the deployment's timeouts let a blacklist entry and a session key last as long as the token they are for (`Lasting`:
what a login or a refresh signs a token for is longer neither than `config.timeout` nor than the timeout of any refresh or renewal, so refreshes all take one; section 5 says what happens otherwise). Its invariant is `KInv`. `Lasts`: no entry ends before its token.
`Kept`: an accepted token in a client's hands is the one its device's session key holds, for as long as the token lasts, and in single mode the only one, and listed. `Doing`: what each request knows of these tokens at each of its awaits,
such as that a login about to sign has none left on its device, or that a loop in single mode still has the one token before it. `Pairs`: two refreshes that are writing the same device's keys have forked it.
The property holds at every moment. Earlier it was stated of moments at which nothing runs, and excepted runs with a double refresh only until both tokens had expired: looking for the invariant showed that the first was
not needed and the second not enough, as the descendants of the two go on. A second mistake it showed was the model's: a single-mode login over several devices went on with the device it had ended last instead of its own (`home`).

**`SessionData_proofs`**: `OwnWritesAreRead`, `UpdatesAreKept`, `TokensAreConsumedOnce`, `PagesSkipNobody` (`SessionDataInv`), from an invariant of each part: for
`XltSession`, that an object's copy is a document stored since its own last change and that `clear` empties the copy before it awaits; for temporary tokens, that a token whose value was told is gone.
`UpdatesAreKept` follows from the loop's compare-and-set, which succeeds only on the document that was read.
For the listing, `WalkInv`: until something shifts, an entry that is there all along has been read, or at least `page * size` entries are ahead of it in the order of the reading. A login keeps this as
what stood ahead of an entry still does, with the device's new entry for its old one. The lemmas before it say what sorting and filtering the list give: `OthersIs` (by induction over the
prefixes, from a least counterexample), `RanksDiffer` and `RanksTaken` (an entry has one place in the sorted list, and every place an entry).

**`Surroundings_proofs`** is about eight modules that share no variable, only `Values` (`Null`, and what a sequence is).

`Inspector`: `BufferHolds` (`BufferIsTail`), `SinksIsolated` (`SinksAreIsolated`) and, with them, `ConsoleIsTrue` (all of `ConsoleInv`), for every capacity, limit, number of rows and of calls, and chain of sinks.
The invariant is `PageInv`: `Shapes` at all times, and `InStep` as long as `gap` is false: one poll at a time, sent from the page's own cursor; its answer holds no more events than
lie between that cursor and the answer's own, and the timeline is the stretch from `from` to `latest`, cut. `NewerIs` says what `filter` gives over the whole buffer, by induction over its prefixes: a least counterexample is taken
(`WFMin` of the library's `WellFoundedInduction`), as the theorems that have the induction hypothesis as a parameter cannot be used. `ShowsOn` says that cutting the timeline after each answer is cutting it once.

`Access`: `PolicyHolds` (all of `AccessInv`) and `ListsAreRecent` (`ListIsRecent`), for every site and request. Of the invariant `AccessIInv`, `Timely` says of a list that is cached or about to be that StpInterface still gave it when its load began,
and how long ago that may be: all that `ListIsRecent` needs when the list decides, and what an older list that overwrites a newer one keeps. `Decided` says what a request has met at each of its checks.
That what it is asked meets every declaration is a matter of the operators: `ResolveFolds` (the recursive function of `ResolveRouteAuthMeta`, by induction over the policies), `MergeResolves` and `ResolvedMeets` (no later merge takes away what was
asked), `CoverIsMatch` (a policy that covers a route matches its path, however the two are spelled) and `MatchIsCover` (`matchPermission` finds what the wildcards mean, by induction over the segments).
The proof showed `ServedMeetsPolicy` to claim too much: a `requireLogin` is taken back by a later declaration's `FALSE`, and the property now says so.

`HttpChain`: `ChainHolds` (all of `ChainInv`) and `LoginsReachClients` (`LoginReachesClient`), for any number of layers. `ChainIInv` relates what is on the request after each layer to the last layer among those passed that checked
(`LeftBy`), so that a layer that ignores, or fails, leaves what was there.

`Deployment`: `RotationHolds` (`RotationKeepsTokens`), for any number of nodes and keys and any lifetime: `RotationInv` says, stage by stage of the operators' order, which configurations a node may run and with which key tokens that still live may have been
signed; the wait before the old key is dropped is needed for the step from `wait` to `drop` alone. `DeploymentHolds` (all of `DeploymentInv`) adds `InstancesInv` (an instance is what it was built from, at every stage of a module's start, and the default is one
that is ready), `ConfigInv` (what normalising has made came from a configuration it accepts) and `KeyTellsOf` (what an entry is of can be computed from its key, whatever the names in it).

`InspectorBridge`: `BoundaryHolds` (all of `BridgeInv`) and `ActionsAimed` (`ActionsHitTheirTarget`), for any accounts, devices, numbers in a query and limits. `BridgeIInv` adds that what is computed for a request was let through by `requireAuth` and that the numbers of a query are integers or absent when a handler reads them. That a route that is mounted or listed has a handler is shown by comparing the four tables of the package, entry by entry.

`SessionPanel`: `PanelHolds` (all of `PanelInv`), for any number of accounts, devices, rows of a page and functions of the page under way. `PanelIInv` adds what `PanelInv` leaves out of a function under way: one that is filling rows has some left, and an action has the account of its row (`ProcFits`); what is listed has devices and names each account once (`EngineFits`); with one session expanded the page's variable names its account (`NamesRow`); a function whose rows are still in the document has their accounts, and each row that still loads has a function that will fill it (`RowsServed`); unless the page was turned in the meantime, what is under way is for the page shown (`PagesKept`).

`AuditExport`: `ExportsHold` (all of `ExportInv`), for any events, settings of the logger and callbacks. `ExportIInv` says of each exported entry that it is what `Outcome` makes of some event, and that the counter is there only with the package it needs.

`AuditTrail`: `TrailHolds` (all of `TrailInv`), for any layout of accounts and devices, any number of tokens, both kinds of token and every login mode. `TrailIInv` has three parts.
`EngineInv`: what the session key and the list hold was made for that device, a listed token is accepted and the one the session key holds, and the two indexes differ only behind a list that has expired; that no call throws follows, as a throw needs a session key without its token.
`BatchInv`: a token the batch is to end is accepted only as long as it is the one its device's session key holds and that device, or its account, is still to come. `SaidInv`: a token has been told of just when it was made, and what was told is `TrailInv`'s.
`BatchEnds` alone is not inductive: between two steps of a batch other calls change what it has still to end, and what they must leave alone is `Spares`.
`TrailMoves` says of any sequence of events what they must say of the tokens they name, and what a step may do to a token without an event; `EndTells` and `TakesTells` bring it to the calls that end tokens and to those that make one.

Assumptions: the constants' types, that what an instance lists (accounts, devices, rows of a page) is finite and lists each once, and that `Null` and the markers are not accounts, tokens, entries (the records `Null` stands beside), states or documents (an account called
`KICK_OUT` is possible in the code, and excluded here). Every assumption is in the module that declares the constants, and TLC evaluates it in the runs of
that module.

`TypeOK` of `StpLogic`, `JwtSession` and `MemoryStore`, `LifecycleTypeOK`, and `TimersMatchEntries` are not listed in the runs: the theorems have them.

Only model-checked:

* Liveness (`EveryRequestEnds`, `CallsComplete`): `ENABLED` and fairness are out of the prover's reach. Proved is only that no call the first is about
  rejects (`NothingThrows`).
* `RefreshedOnce`, which is violated (section 5).

## 7. What is not modelled

* Components: the example applications (every route is one call of the library), the documentation site, scripts and build files,
  test helpers and the contract suite (assertions about stores, checked here as `TokenStore`), interfaces and decorators that only attach a value.
* `options.token`: a caller may choose the token; it is taken to be one never used before. `createToken` is taken to be unique.
* In `StpLogic`, the order of the device list, login times and addresses in it. Two list values that name the same tokens are one value, so a
  compare-and-set can succeed in the model where login times would make it fail and retry; the retry then
  does the same. The reads of the list that only serve audit and offline records are left out there, as they change nothing; `AuditTrail` and `SessionData` are about them.
* In `JwtSession`: `activeTimeout`, several accounts, the list's loops call by call; `StpLogic` and `SessionTtl` have them.
* In `SessionTtl`: the timeouts 0 and -1. In `JwtSession`, time passes only while nothing runs: a signature's end between two awaits of one operation is left out.
* In `SessionData`: how long an offline record is kept.
* In `InspectorBridge`: messages of errors other than of a key that is not found are taken to name no token.
* In `MemoryStore`: scan's pages, as a scan there looks at every key; a wall clock that is set back. In `RedisStore`, times below a second.
* Signatures and hashes: a JWT verifies if the keys match, a fingerprint is the token's own.
* Durations with other decimals than halves; the instances of `Access` hold at most one wildcard in a permission.
* Message texts, log lines, markup, styles and the console's token field.
