# Verification of the VoIP PBX

TLA+ modules, TLC models and TLAPS proofs for the system this repository installs: Kamailio at
the SIP edge, FreeSWITCH behind it, a Bun/Hono API over PostgreSQL, and Redis as the cache
FreeSWITCH reads on every call. All line numbers refer to the repository's sources.

Contents: 1 inventory, 2 modules, 3 correspondence with the code, 4 runs and bounds, 5 fairness,
6 proofs, 7 findings, 8 abstractions, 9 what is not modelled, 10 plan.

To check: `tlc -config MCTenantCache.cfg MCTenantCache` (and likewise for the other
configurations, section 4), `tlapm TenantCacheProofs.tla` (and the other `...Proofs` modules,
section 6).

## 1. Inventory

| Part | Where | State it keeps | Operations | What is hard |
|---|---|---|---|---|
| Write-through cache | `portal/api/src/services/cache.ts`, `redis.ts`, `index.ts` | nine key patterns per tenant and the sentinel `voip:warm` in Redis | builders per kind of row, `rebuildTenant`, startup warm, watchdog | read-then-write across awaits, in several requests and processes; Redis keeps nothing over a restart and evicts; commands that fail are logged and forgotten |
| Portal routes | `routes/extensions.ts`, `telephony.ts`, `tenants.ts`, `lib/crud.ts` | rows in Postgres | POST, PATCH, DELETE per object, then a cache builder or a Kamailio sync | the commit and what follows it are not atomic |
| Kamailio sync | `services/kamailio-sync.ts` | `subscriber`, `location`, `domain`, `address` rows in Kamailio's database | upsert and removal of a subscriber, domain, trunk address; reload | best effort, never retried; Kamailio keeps registrations in memory |
| XML lookups | `resources/lua/xml_handler.lua`, `routes/fs-xml.ts` | none | directory and dialplan lookups, Redis first, then the API | several Redis reads per lookup, no snapshot |
| Call flow | `resources/lua/*.lua` | the call's position in a chain of destinations | extension, ring group, IVR, time condition, fax | cyclic configurations, configuration that changes mid-call |
| SIP edge | `steps/34-kamailio-config.sh` | dialogs, the `concurrent` counters, bans, media sessions | ingress, egress, in-dialog, failure and dialog event routes | worker processes share the counters without a lock; every call passes twice |
| CDR ingest | `services/cdr.ts`, `routes/fs-cdr.ts`, `steps/31-freeswitch-config.sh` | `cdr` rows, FreeSWITCH's retry and its error spool | post, attribution, insert | lost answers, retries, rows that change between attribution and insert |
| Fax | `services/fax.ts`, `resources/lua/fax_receive.lua` | `fax` rows, files, mail | receive, record, deliver | partial failure |
| Accounts and tenants | `auth.ts`, `middleware/tenant.ts`, `lib/signup-gate.ts`, `cli/`, `routes/tenants.ts` | users, sessions, members, organizations, settings | sign-in, tenant resolution, permissions; create-user, provision-tenant, POST /api/tenant | roles change during a session; a tenant is set up by several writes without a transaction |
| Web portal | `portal/web/src/` | a copy of every list shown, forms, requests in flight, secrets shown once | fetch, refetch, invalidate, save, two-request saves | answers out of order, forms filled from old copies, dialogs that close under a request |
| Installer | `install.sh`, `lib/common.sh`, `steps/` | marker files, configuration files | run, skip, re-run of a step | failure between a step and its marker |

### How the parts interact

```
 phones, trunks --SIP--> Kamailio --SIP--> FreeSWITCH --SIP--> Kamailio --SIP--> carriers
                            |                  |
                       rtpengine, its    Lua: Redis, else the API over HTTP
                       own tables        mod_xml_cdr: a POST to the API per call record

 portal --HTTP--> API (Bun, one process per node) --> Postgres: rows
                                                  --> Redis: rendered rows
                                                  --> Kamailio's tables, FreeSWITCH's ESL
```

- *Calls.* The portal calls the API; the API commits a row, then calls a cache builder
  (`services/cache.ts`) or a Kamailio sync. FreeSWITCH calls the Lua handler, which reads Redis
  and falls back to the API. FreeSWITCH posts call records to the API.
- *Shared state.* Redis between every API process and every FreeSWITCH; the htables `concurrent`
  and `ipban` between Kamailio's worker processes; `subscriber`, `location`, `address` between
  the API and Kamailio; the table `cdr` between overlapping handlers.
- *Callbacks.* Kamailio's dialog event routes (start, end, failed) and failure routes; the
  API's 60 s watchdog timer; mod_xml_cdr's retry timer.

### What makes each part correct

| Part | Correct when |
|---|---|
| Write-through cache | what Redis serves is what Postgres holds once requests have settled; a rebuild repairs anything; a lost cache is found again; a lookup during a rebuild is slower, never wrong |
| SIP edge | the call counter follows the dialogs that are up; a lockout ends; media sessions are freed; the ceiling binds; emergency calls always pass; a failed carrier leads to the next one |
| CDR ingest | one row per call; a record that names its tenant is stored, kept on disk, or lost only with FreeSWITCH; nothing is posted for ever |
| Kamailio sync | Kamailio's rows follow the portal's; a removed or disabled extension stops registering |
| XML lookups | the answer is that of one moment's configuration; Redis and Postgres answer alike |
| Call flow | a chain of destinations ends; a call-waiting limit holds; a deleted object sends the call on, not into a loop |
| Fax | a received fax has a row and a readable file; it is mailed unless something failed; what is shown as delivered was mailed |
| Accounts and tenants | no account without an operator; no act without a right; a tenant is complete or something failed |
| Web portal | what is shown is what is stored; emptiness and success are claimed only when true; a one-time secret is shown |
| Installer | a step that failed runs again, one that is done does not |
| Firewall | registered phones and configured trunks are trusted, others lose trust in time |

The behaviours of this code that are hard to test are listed with their lines in `PROJECT.json`
under `hazards`, each with the properties below that would catch it, or the reason there is none.
Smaller ones, and those no state space is needed for, are in section 7.

## 2. Modules

| Module | Models | Kind |
|---|---|---|
| `TenantCache` | cache builders, rebuild, watchdog, Redis faults, the portal's writes | specification |
| `KamailioCalls` | the two passes of a call through Kamailio, the call counter, media, carriers | specification |
| `CallLedger` | what the call records promise | abstract specification |
| `CdrIngest` | mod_xml_cdr's posts and the ingest handler, query by query; implements `CallLedger` | specification |
| `KamailioSync` | subscribers, registrations and trunk addresses in Kamailio's database and memory | specification |
| `Provisioning` | the command lines that create accounts and tenants, the sign-up gate | specification |
| `TenantAccess` | sessions, active organization, permissions, POST /api/tenant; extends `Provisioning`, both run together | specification |
| `CallFlow` | destinations in the portal, their cache, and the scripts a call is led through | specification |
| `FaxOutbox` | what the fax service promises | abstract specification |
| `FaxDelivery` | a fax from the call to the mail; implements `FaxOutbox` | specification |
| `PortalClient` | a tab of the portal, the handlers it calls, feature codes dialled meanwhile | specification |
| `MC...` | instances for TLC | model checking |
| `TenantCacheProofs`, `KamailioCallsProofs`, `CdrIngestProofs`, `KamailioSyncProofs`, `FaxDeliveryProofs`, `CallFlowProofs`, `TenantAccessProofs`, `PortalClientProofs` | theorems | proofs |

`CdrIngest` and `CallLedger` are composed by refinement (`Ledger == INSTANCE CallLedger WITH
bill <- ..., open <- ...`), and so are `FaxDelivery` and `FaxOutbox` (`Outbox == INSTANCE FaxOutbox
WITH book <- ..., whole <- ..., sent <- ..., open <- ...`); `TenantAccess` composes the portal's provisioning with the command
lines', on the same tables. The other specifications share no variables: each repeats of its
neighbours only what it reads, in their coarsest form. `CallFlow` has a purge and two steps of
rebuilding where `TenantCache` has one per key; `PortalClient` has one read and one write of an
extension's key.

Each specification also contains the mutated operators its properties are measured against,
marked `Mutant:`; no behaviour of the specification uses them.

## 3. Correspondence with the code

### TenantCache

One tenant, one SIP domain. Row contents are versions: Postgres (`pg`) holds the state
(`on`/`off`/`gone`) and version of each row and the members of a ring group, Redis (`cache`) what
each key was rendered from, `Absent` for no key. That is more than one row: an extension's keys carry
defaults of the tenant's settings (`cache.ts:55-58, 90, 135`), so their `Doc` has a version of both,
and a ring group's key lists the members that are enabled (`Ringing`, `cache.ts:317`).

| Model | Code |
|---|---|
| `Pattern`, `PurgeRank` | `keys.tenantPatterns` and the order of its list, `redis.ts` |
| `Builder`, `BuildRank` | the builders and the order `rebuildTenant` calls them in, `cache.ts:418-449` |
| `job[w]` | one request, timer or startup warm on the event loop: patterns left to purge, tables left to read, extensions left to read one by one, keys left to write |
| `PutExt`, `DeleteExt`, `PutDid`, `PutRoutes`, `PutFlow`, `PutTenant`, `PutDedicatedTenant`, `RebuildCache` | the route handlers: commit, then the cache job each starts (`extensions.ts`, `telephony.ts`, `tenants.ts`, `lib/crud.ts`) |
| `Purge`, `ReadRows`, `Write`, `Finish` | `safeDelPattern`, a builder's SELECT, `safeSet`/`safeDel`, the return |
| `ReadExt`, `ReadSettings` | the two SELECTs of `cacheExtension`, an await apart: the row, enabled or not, then the settings (`cache.ts:108, 111`) |
| `LeavesStale` | the groups an edit of an extension leaves as they were: the extension routes run `cacheExtension` or `invalidateExtension` alone (`extensions.ts:208, 243`) |
| `Start`, `Watchdog` | `index.ts`: warm at startup, then the sentinel; `warmIfCacheLost` with `claimWarm` (SET NX) first |
| `RedisRestart`, `Evict` | `steps/21-redis.sh`: no persistence, `maxmemory-policy` |
| `Crash`, `Abort`, `LoseWrite`, `LosePurge` | systemd's restart; a database read that throws; a Redis command that fails and is logged |

Every `await` is a point where other workers run: an action is the code from one await to the
next. `tainted` and `alone` are history variables: `tainted[r]` says that two writers of row
`r`'s keys overlapped, that a fault hit them, or that something they carry changed in a handler that
runs no builder for them (a member switched off or deleted, settings of a dedicated tenant), so the
code promises nothing until a rebuild runs on its own; `alone` says that a job has overlapped with
nothing.

### KamailioCalls

| Model | Code in `steps/34-kamailio-config.sh` |
|---|---|
| `Invite` (`Refuse`, `Admit`) | `route[INGRESS]`, `route[FRAUD]`, dialog creation, `route[NATMANAGE]` |
| `Answer`, `Reject`, `Cancel`, `Bye`, `LoseBye`, `DialogTimeout` | the dialog's ends, `failure_route[MANAGE_FAILURE]`, `route[WITHINDLG]`, the dialog module's timers |
| `Take`, `Read`, `Put` | `event_route[dialog:start]`, `[dialog:end]`, `[dialog:failed]`: one locked read or write of the htable per action |
| `Expire` | `concurrent`'s `autoexpire` |
| `Egress`, `ToTrunk`, `Relay`, `Failed`, `Connect`, `CarrierFails`, `EndB` | `route[EGRESS]`, `[TOTRUNK]`, `[RELAY]`, the failure route that is armed |
| `Ban`, `Unban` | pike and `ipban` |
| `MediaTimeout` | rtpengine's own timeouts, `steps/35-rtpengine.sh:66-69`: of leg A's session once leg A is over or its phone gone, of leg B's once that was refused, failed or is over |
| `Restart` | tables and dialogs are in memory (`db_mode` 0) |

To lower the counter a worker reads it twice, once to see that it is positive, once for its
value, and then writes: three actions, in which another worker's can fall. `raced[k]` records
that two updates of counter `k` have overlapped; it is cleared when the counter is zeroed.

### CdrIngest and CallLedger

| Model | Code |
|---|---|
| `HangUp`, `Post`, `Timeout`, `AfterFailure`, `spool` | mod_xml_cdr as `steps/31-freeswitch-config.sh:462-477` configures it: `retries`, `timeout`, `err-log-dir` |
| `Accept`, `Answer` | `routes/fs-cdr.ts`: parse, the 200 for a record that cannot be attributed, 200, 500 |
| `ReadTenant`, `ReadRef`, `Insert` | `services/cdr.ts`, one action per query; `ON CONFLICT (call_uuid) DO NOTHING` |
| `DeleteRef`, `DeleteTenant` | the portal's deletes with the foreign keys of `db/schema.ts` (SET NULL, CASCADE) |
| `DatabaseFails`, `ApiCrash`, `ApiStart`, `FsCrash` | a query that throws; systemd; FreeSWITCH dying with undelivered records |

`CallLedger` keeps one entry per call (running, owed, billed, kept on disk, missing, void) and
says which entry may follow which: an owed entry of a call that names its tenant is never
dropped while the tenant exists, and a billed entry stays until then. The refinement mapping
computes a call's entry from the table and from where FreeSWITCH is with its record.

### KamailioSync

A request reads, commits, and then runs its queries on Kamailio's database one by one. A row of
`subs` has two columns: `ha1`, where the password stands for the digests computed from it, and
`password`, which `syncSubscriber` writes as `''`. What Kamailio accepts (`Accepts`) is decided by the
second: `auth_db` has `calculate_ha1` on `password_column` (`34-kamailio-config.sh:366-370`). So a
registration is one with the empty password, the only one accepted for a number with a row;
`Passwords` contains it (`extensions.ts:88, 183` check nothing), which is how an extension can register
with its own.

| Model | Code |
|---|---|
| `CreateExt`, `SetPassword`, `EnableExt`, `DisableExt`, `DeleteExt` and `CommitCreate`, `CommitPassword`, `CommitEnabled`, `CommitDelete` | `routes/extensions.ts`: the reads, then the statement; a PATCH of `enabled` projects nothing |
| `CreateTrunk`, `PatchTrunk`, `DeleteTrunk`, `CommitTrunk` | `lib/crud.ts` with `telephony.ts`'s `afterChange` |
| `SyncSubscriber`, `RemoveSubscriber`, `RemoveLocation`, `SyncTrunkAddress`, `RemoveTrunkAddress`, `ReloadKamailio` | the functions of `services/kamailio-sync.ts`, one action per query |
| `QueryFails`, `Crash` | their catch blocks, which log and go on; systemd |
| `Accepts`, `Register`, `WriteBack`, `Expire`, `KamailioRestart` | `auth_db`'s parameters, `route[REGISTRAR]`, usrloc's `db_mode` 2, `max_expires`, reading the tables at start |

`tainted` marks the keys on which two requests overlapped, or a fault fell; the code orders
nothing between them and never projects a row again by itself.

### Provisioning and TenantAccess

| Model | Code |
|---|---|
| `CreateUser`, `Permission`, `Hook`, `SignUpOnce`, `PublicSignUp` | `cli/create-user.ts`, `lib/signup-gate.ts`, the hook of `auth.ts` |
| `Provision`, `FindClash`, ..., `UpsertSettings`, `SyncDomain`, `Rebuild`, `Exit`, `Kill` | `cli/provision-tenant.ts`, one action per query; `SyncFails` is the catch block of `syncDomain` |
| `SignIn`, `AskSession`, `ListOrganizations`, `SetActive`, `BeforeLoad`, `SignOut`, `Reload` | `routes/login.tsx`, `lib/auth-client.ts`, `routes/_app.tsx` |
| `Send`, `ReadSession`, `ReadMembership`, `Allowed`, `Grants` | `lib/api.ts`; `middleware/tenant.ts`; the roles of `auth.ts` |
| `Act`, `PostSettings`, `PostDomain`, `PostRebuild` | `routes/tenants.ts`, POST |
| `SetRole`, `RemoveMember`, `Join` | better-auth's own endpoints, external |

`held` records the organizations whose membership has granted a request its right since it began;
`broken` the organizations a fault hit while they were set up.

### CallFlow

| Model | Code |
|---|---|
| `Create`, `Patch`, `PatchRules`, `Delete`, `DeleteOption`, `AddMember`, `RemoveMember` | `routes/telephony.ts`: what a handler reads first |
| `Check` with `Merge`, `EffectivePairs`, `GoodDestination` | `badDestination` on the body over the row read before |
| `Switch`, `Enabled` | PATCH of `enabled`; the builders' `eq(…enabled, true)` (`cache.ts:235, 292`) |
| `Commit`, `Purge`, `CacheInboundRoutes`, `CacheObjects` | the statement, `rebuildTenant` and its builders |
| `CommandsFail`, `Abort`, `RedisRestarts` | `safeSet` and `safeDelPattern` log and go on; `after` of `crud.ts` catches what a builder throws, once the keys are purged; `steps/21-redis.sh` |
| `Arrive`, `DialNumber`, `DialExtension` | the first hop, `xml_handler.lua` |
| `Go`, `Fetch` | `voip.go` with `MAX_DEPTH`, `voip.fetch` |
| `Open`, `FailOver`, `PressDigit`, `ExhaustRetries`, `AskTheTime`, `OpenExtension`, `TakeMessage`, `Forward` | `ring_group.lua`, `ivr.lua`, `time_condition.lua`, `extension.lua` |

`raced` marks the rows a request wrote although the pair it had checked was no longer there, `hurt`
the enabled objects a fault has left without a key, until a builder sets it. The scripts read Redis
and nothing else (`voip.fetch`): the fall through to Postgres of `cache.ts:421-424` and
`redis.ts:113-116` is there for the first hop, which FreeSWITCH asks of `xml_curl`, and for no other.

### FaxDelivery

`Receive`, `Report` are `fax_receive.lua`; `Look`, `Insert`, `ConvertToPdf`, `SetPath`,
`DeliverByEmail`, `MarkDelivered` the awaits of `recordInboundFax`; `Download` the route of that
name. `FaxOutbox` keeps a book with one entry per fax (absent, received, failed, delivered, closed).
The refinement mapping reads the entry off the row, and "closed" off a tenant that is gone; `whole`
are the faxes that came in without an error, `sent` those that were mailed. A conversion, a path
that is set, a failing query and a restart are stutters of the book. `Restart` ends every handler at once, `QueryFails` one of them, `DeleteTenant` cascades to the
rows, `Prune` empties the spool.

### PortalClient

| Model | Code |
|---|---|
| `Ask`, `Invalidate`, `Refetch`, `FetchRead`, `FetchArrives`, `FetchFails` | the query library as `main.tsx` configures it; the server reads between sending and answer |
| `QueryState` | `components/Resource.tsx`: loading, error, empty, rows |
| `Toggle`, `OpenHandling`, `Save`, `Create`, `Made`, `CloseMaker` | `routes/_app/extensions.tsx`, `CallHandlingModal.tsx` |
| `OpenTrunk`, `Whole`, `SendPassword`, `Closes`, `RemoveTrunk` | `routes/_app/trunks.tsx`: a save of two requests |
| `WriteExtension`, `CacheRead`, `CacheSet`, `WriteTrunk`, `SetPassword` | the API's handlers |
| `Dial`, `FeatureWrite`, `FeatureRead`, `FeatureSet`, `Tone`, `GiveUp` | `feature_code.lua`, `routes/fs-feature.ts` |
| `Entry` | what `cacheExtension` makes of a row: the setting, or no key for a disabled extension (`cache.ts:116-119`) |
| `CacheFails`, `FeatureFails` | `cacheExtension` throws (the request fails after its commit), or its command to Redis fails and is swallowed (`redis.ts:126`, answered as a success) |

`unsure` marks the extensions two handlers overlapped on, or whose last handler failed to fill the
cache.

## 4. Runs and bounds

Nine runs must pass; three must find the disagreement of section 7 they are named for. The bounds
are the CONSTANTS `Max...`; every unbounded counter of a model is one of them.

| Run | Configuration | Instance | Shows |
|---|---|---|---|
| `tenant_cache` | `MCTenantCache.cfg` | one process, two workers; an extension, a ring group, the two single rows; 2 requests, 1 restart of Redis; 6.7 million states | `TypeOK`, `Coherent`, `LoneRebuildRepairs` |
| `tenant_cache_live` | `MCTenantCacheLive.cfg` | two processes; a DID and the two single rows; 1 request, 2 faults of any of five kinds; 0.3 million states | `LostCacheIsRefilled` |
| `kamailio_calls` | `MCKamailioCalls.cfg` | three calls on one counter with ceiling 2: to a carrier, to an emergency number, one that FRAUD answers; two workers, 1 restart or ban; 1.0 million states | `TypeOK`, `NoDriftUp`, `CappedOnlyAtCeiling`, `LockoutEnds`, `MediaFreed` |
| `cdr_ingest` | `MCCdrIngest.cfg` | a record that names its tenant and one that does not, 2 posts each, 3 faults; 0.2 million states | `TypeOK`, `OneRowPerCall`, `LedgerSpec`, `LedgerSettled` |
| `kamailio_sync` | `MCKamailioSync.cfg` | one extension number, two passwords (one of them `''`), two trunks, two hosts, two workers; 4 requests, 1 fault; 3.4 million states | `TypeOK`, `DigestFollows`, `TrunkTrusted`, `DeletedIsForgotten` |
| `tenant_access` | `MCTenantAccess.cfg` | two users, organizations, domains and command lines; 3 command lines, 1 sign-in, 1 request, 1 change of a membership, 1 fault; 3.8 million states | `TypeOK`, `NoSelfService`, `ActsWithRight`, `NoHalfTenant`, `AppIsScoped` |
| `call_flow` | `MCCallFlow.cfg` | a group, menu and condition in a circle, a DID yet to be created, a group of another tenant; 2 requests or faults, 1 call, depth 3; 0.7 million states | `TypeOK`, `PairsOwned`, `CallsStayHome`, `ExclusionWins`, `LostCallsHaveACause`, `CallEnds` |
| `fax_delivery` | `MCFaxDelivery.cfg` | two faxes, 3 faults; 26 thousand states | `TypeOK`, `ListedCanBeRead`, `OutboxSpec`, `DeliveredMeansMailed`, `DeliveredUnlessFault` |
| `portal_client` | `MCPortalClient.cfg` | two extensions, two trunks, two requests in flight; 2 clicks, 1 feature code, 1 lost or late answer or failed write of the cache; 6.9 million states | `TypeOK`, `ListsAgree`, `EmptyIsTrue`, `NoHalfSavedTrunk`, `SpinnerFetches`, `SecretKept`, `ToneMeansInForce` |
| `emergency_never_capped` | `MCEmergencyNeverCapped.cfg` | two calls, ceiling 1, no fault | violated |
| `extension_destination` | `MCExtensionDestination.cfg` | a menu with an option, an extension, one call; no request is needed | violated |
| `subscriber_authenticates` | `MCSubscriberAuthenticates.cfg` | the extension of `kamailio_sync`, 2 requests, no fault | violated |

What the properties say, and why these instances are large enough:

- **Coherent.** Once every process is up and no job has a key left to write, an untainted row is
  served as Postgres holds it, with the settings and members its keys carry. Two requests are what it
  takes for one to overlap another's read and write; the restart falls anywhere in between. The
  instance has the rows that keys are made of in common: an extension, read three times (list, row,
  settings), the settings themselves, and a group that may list the extension. Several processes,
  the other faults (a crash, a lost command, an aborted read, an eviction), DIDs, menus and time
  conditions are in the theorem.
- **LoneRebuildRepairs.** From any cache whatever, a group's deleted or disabled member included, a
  rebuild that overlaps nothing leaves every key as Postgres has it. The stale group needs one
  request before the rebuild and the rebuild is the second.
- **LostCacheIsRefilled.** A cache lost while no process is starting is found and filled again.
  Two processes race for the sentinel, and one may die between claiming it and the end of the
  warm; a second fault lets the loss come back. The warming itself may fail, with the sentinel
  claimed: what the property excuses are exactly the rows whose read or write failed, for nothing
  looks at them again. (A loss that falls into a startup is not found either, section 7.)
- **NoDriftUp**, **CappedOnlyAtCeiling.** As long as no two updates have overlapped, the counter
  never exceeds the dialogs that are up, whichever way calls end, and nobody is refused busy
  below the ceiling. Three calls against a ceiling of two allow refusal, the end of a call and
  a new refusal; the theorems cover every number, and any two faults.
- **LockoutEnds**, **MediaFreed.** With overlapping updates, lost BYEs, cancelled calls and a
  restart, a number at its ceiling leaves it, and a call that is over holds no media for ever.
  The overlap needs two calls of one number and two workers; one of the three calls holds media
  towards a carrier.
- **OneRowPerCall**, **LedgerSpec**, **LedgerSettled.** Two posts make two handlers of one record,
  which is what a timeout produces; the real limit of five adds more of the same. Three faults
  allow an API crash, a failed query and a FreeSWITCH crash in one behaviour.
- **DigestFollows**, **TrunkTrusted**, **DeletedIsForgotten.** The digests in Kamailio's table are of
  the password in Postgres, and the addresses it trusts those in Postgres, once the requests on a key
  are done and nothing disturbed them; a registration that outlives its extension goes in time. Two
  workers make every overlap, four requests let a number be created, changed, deleted and created
  again; the first two are theorems. That a phone with the password registers does not follow: it is
  what `subscriber_authenticates` refutes.
- **NoSelfService**, **ActsWithRight**, **NoHalfTenant**, **AppIsScoped.** An account was asked for by
  an operator, even with a public sign-up while a command line holds its permission; a handler
  acts for an organization only if a membership in it gave the right since the request began; a
  tenant set up by any mix of command lines and portal requests is known to Kamailio and the
  cache, unless a fault hit it; no page is shown to a session that works in no organization.
  Three command lines allow create-user, provision-tenant and a rerun or an overlapping one.
- **PairsOwned**, **CallsStayHome.** Two requests are what a half-sent destination needs to be
  mixed with another's half; a second tenant's group is there to be led into. A call follows only
  its tenant's objects even where a stored pair leads out.
- **LostCallsHaveACause**, **CallEnds**, **ExclusionWins.** The flow turns in a circle, so the depth
  alone ends a call; the bound of 3 stands for 10 and is passed on by every script. A call that
  does not find its object meets a deletion, a disabled object, a rebuild under way, a pair of a
  race, or a key that a fault took (a rebuild that aborted, a SET that was lost, a restart of Redis)
  and no builder has set since; an edit and its rebuild lose none by themselves. Commands fail for
  the menu alone or for the whole flow. The rules
  are a window and an exclusion in both orders, asked inside and outside of each.
- **ListedCanBeRead**, **OutboxSpec**, **DeliveredMeansMailed**, **DeliveredUnlessFault.** Whatever
  fails, no fax is mailed that is not listed and whole, none twice, and none goes back from
  delivered. Faxes meet only in faults, so two of them, and three faults, are more than one
  behaviour needs.
- **ListsAgree**, **EmptyIsTrue**, **NoHalfSavedTrunk**, **SpinnerFetches**, **SecretKept**,
  **ToneMeansInForce.** Two requests in flight are what it takes for answers to come out of order,
  or for a second dialog to be open when the first one's answer arrives; one row to change and one
  that stays tell an empty list from a full one. The tone is held to the row always, and to the cache
  unless handlers overlapped or the last of them failed to fill it.

Deadlock is not checked: a model may stop once its bounds are used up.

Symmetry is used for workers (they differ only in their process), for calls, and for users,
organizations, domains and command lines, only in runs without liveness.

## 5. Fairness

- `TenantCache`: an event loop runs every job it has started to its end (`Work`); systemd starts
  a process that died (`Restart=on-failure`, `steps/41-api-deploy.sh:133`); the watchdog's timer
  fires every minute (`index.ts:171`). Requests and faults are never promised.
- `KamailioCalls`: a worker finishes the event route it is in; transaction, dialog and htable
  timers fire (`fr_inv_timer`, `default_timeout`, `autoexpire`); rtpengine drops sessions without
  media; FreeSWITCH ends leg B when leg A is over. Nobody is obliged to answer, to hang up or to
  give up, and bans need not end.
- `CdrIngest`: mod_xml_cdr posts what is due and stops waiting after its timeout. Nothing obliges
  the API to answer, the database to work, or a crashed API to come back.

- `KamailioSync`: a request's next query is answered, if only by an error (`Work`); a registration
  that nothing renews expires.
- `CallFlow`: a script goes on by itself (`Runs`): ringing and waiting for digits time out. Nobody is
  obliged to answer, to press a digit or to hang up.
- `FaxDelivery`: the script posts its report, and a handler's next await returns, if only with an
  error.
- `TenantAccess` and `PortalClient` state safety only.

All of it is weak fairness: each of these actions stays enabled until it is taken, or is retried
by a timer that does not depend on the others.

## 6. Proofs

The theorems hold for every value of the constants that satisfies the named assumptions: any
number of rows, workers, processes, calls, accounts, carriers, posts, passwords, trunks, faxes,
requests and faults. Each specification is proved by an inductive invariant `IInv`, in the three steps
`Init => IInv`, `IInv /\ [Next]_vars => IInv'`, `IInv => P`, with one lemma per action.

Where a run checks a liveness property, the prover cannot follow (it has neither fairness nor
ENABLED). What is proved instead is the part of the argument that does not depend on them: a
measure that every step concerned lowers and no step raises, and that nothing is left waiting for a
step that cannot come. With the fairness of section 5 the two make the liveness property, which
TLC checks as a whole.

**TenantCacheProofs**, from `RowsDisjoint` (the kinds of row are told apart) and `HomeAndBounds`
(each worker has a process; bounds are numbers).

- `TypeCorrect`: `Spec => []TypeOK`
- `CacheCoherent`: `Spec => []Coherent`
- `RebuildRepairs`: `Spec => []LoneRebuildRepairs`
- `WritesAreCurrent`: `Spec => NoStaleWrite`, an action property: what a step puts into an untainted
  row's key is what Postgres serves at that moment, or nothing.

`Coherent` speaks of settled states only, so it is not inductive. `Held` says of every state that
a key that is not truthful belongs to a tainted row, or has a job that will still bring it there
(`Fixer`), or some process is down and will rebuild when it starts. To keep it across a write the
value on its way must be the right one (`PendingTrue`), across the end of a job the job must
really have nothing left (`JobShape`: purges first, the tenant's settings next, extensions last),
and an absent key is only truthful while the tenant key is absent too, so the order in which a
rebuild purges the tenant key last and writes it first carries the argument; the tenant's own two
rows are always served (`TenantAndRoutesOn`). A key that carries more than its own row stays right
while those rows change because every change of them taints its row or starts the rebuild that will
write it. `Solo` is the same for a rebuild that nothing
overlaps, for tainted rows as well: what it has purged is absent or right. `WritesAreCurrent`
needs of it `PendingTrue` alone, and holds in unsettled states too.

**KamailioCallsProofs**, from `CallsFinite`, `SomeAccount`, `NumberTotal`, `CeilingPositive`,
`FSApart`, `KindsKnown`.

- `TypeCorrect`: `Spec => []TypeOK`
- `CountersDoNotDriftUp`: `Spec => []NoDriftUp`
- `CappedJustly`: `Spec => CappedOnlyAtCeiling`
- `NoSecondCarrier`: `Spec => []OneCarrierOnly`: no call is offered to a second carrier.
- `CountersDoNotUnderflow`: `Spec => []NoUnderflow`: a counter is negative only after overlapping
  updates.
- `LockoutsDrain`: `Spec => LockoutDrains`: at the ceiling the dialogs only become fewer, and after
  the last of them nothing raises the counter or renews its entry.
- `EndedCallsOnlyWindDown`: `Spec => EndedCallsWindDown`: the measure `Left`, at most four.
- `EndedMediaHasAWayOut`: `Spec => []NoMediaStranded`

`NoDriftUp` speaks of counters nobody is updating. `Tidy` adds what holds in between: at most one
worker is on a counter that was never raced, and the counter, or the value the worker is about to
write, is off by at most the dialog it works for (`Within`). `CappedJustly` follows from the
guard of a refusal and `NoDriftUp` in the state before.

`Course` is a second inductive invariant, of the two legs of a call: `OneTry` (the failure route that
is armed is never the carriers', and one carrier at most was tried) and `Grounded` (a media session
belongs to a leg the edge has seen). Each action is first shown to move a call in one of a few ways
(`Moves`), the invariant then to survive them. Proving `NoMediaStranded` for any number of carriers
showed a gap of an earlier model: with no carrier listed, media that was offered before
`route[TOTRUNK]` answered 404 had no timeout. `AllFloors` keeps for `NoUnderflow` what a worker
between its test and its write knows: the counter it has seen positive still is. Without `raced` the
statement is false; TLC reaches −1 with two overlapping decrements.

**CdrIngestProofs**, from `AttributedCalls` and `PostsPositive`.

- `TypeCorrect`: `Spec => []TypeOK`
- `BilledOnce`: `Spec => []OneRowPerCall`
- `ImplementsLedger`: `Spec => LedgerSpec`, the refinement of `CallLedger`: initial states map to
  initial states, every step to a step of the ledger or a stutter.
- `EveryRecordRunsOut`: `Spec => RecordsRunOut`: the measure `Due`, at most `2 * MaxPosts + 1`, is zero
  exactly for a record that was answered, kept on disk or lost.

`Truthful` is what the refinement needs: a handler reaches the database only with a record that
names its tenant, what a handler is going to answer is true or the tenant is gone, and so is what
FreeSWITCH was told.

**KamailioSyncProofs**, from `KeysDisjoint`, `EmptyPassword`, `NoneApart` and `Bounds`.

- `TypeCorrect`: `Spec => []TypeOK`
- `DigestsFollow`: `Spec => []DigestFollows`
- `TrunksTrusted`: `Spec => []TrunkTrusted`
- `LocationsAreBacked`: `Spec => []LocationBacked`: a row of `location` has its contact in memory.
- `RegistrationsOnlyFade`: `Spec => RegistrationsFade`: of a settled number without an extension, no
  step brings the registration back.

Both properties speak of settled keys. `Faithful` says of the keys nothing disturbed what holds
while their one request is under way: no other request projects the key (`Alone`), and the request
carries what is still missing: an upsert the password that is in the row, a removal a row that is
gone (`CarriesExt`), an insert and a removal of an address likewise (`CarriesTrunk`). That reloads for
other trunks and failing queries on other keys do not undo it is the bulk of the proof.
`RegistrationsFade` rests on `DigestFollows` (a settled number without an extension has no row to
register with) and on `LocationBacked` (a restart finds no row of a forgotten contact).

**FaxDeliveryProofs**, from `FaultBound` and `NoRow`.

- `TypeCorrect`: `Spec => []TypeOK`
- `FaxesReadable`: `Spec => []ListedCanBeRead`
- `RowFirst`: `Spec => []TraceFirst`: no conversion and no mail before the row, while there is
  a tenant to have it.
- `DeliveredIsTrue`: `Spec => []DeliveredMeansMailed`
- `ImplementsOutbox`: `Spec => OutboxSpec`, the refinement of `FaxOutbox`.
- `DoneIsDelivered`: `Spec => []DoneMeansDelivered`: without a fault, a hook that is done has delivered.
- `FaxesRunForward`: script and hook only move on, in at most nine steps (`Rank`).

The invariant follows the handler: what is true of disk, row and mail before the row is written
(`Before`), after it (`After`), that the file a row names stays (`Kept`), and what a mail that has
been sent says of the row (`Sent`, `Traced`). The refinement needs of a fax's course, besides, that a
hook has mailed nothing before its mail step (`Once`), and `DoneIsDelivered` that in a run without
a fault each step finds what the one before left (`Smooth`).

**CallFlowProofs**, from `IdsOwned`, `NumbersGiven`, `IdsApart`, `StartOwned`, `BodiesTyped`,
`LossesAreKeys`, `SomeRules`, `RulesAreLists`, `DepthBound`.

- `TypeCorrect`: `Spec => []TypeOK`
- `PairsStayOwned`: `Spec => []PairsOwned`
- `CallsAreHome`: `Spec => []CallsStayHome`
- `LostJustly`: `Spec => LostCallsHaveACause`
- `ExclusionAlwaysWins`: `Spec => []ExclusionWins`
- `CallsRunDown`: every step of a call lowers the measure `Left`, which is at most `2 * MaxDepth + 3`.
- `NoCallIsStuck`: `Spec => []Moving`: a call that is up stands at a script that serves it.

A request carries to its statement the pair it has checked (`JobInv`), which is the pair it writes
unless the row has changed since. That calls stay home does not lean on it: what the cache holds of
a tenant are rows of that tenant (`CacheOwn`) whose members are the tenant's (`RowsOwn`), and a call
keeps its tenant (`CallInv`). `Filled` says that an enabled row without its key has a rebuild of its tenant
under way, or is marked as `hurt`; a request on a DID, which fills DIDs alone, does not count.

`ExclusionWins` speaks of lists of rules of any length, so the loop of `time_condition.lua` needs an
induction over its rounds. The loop is a recursive function, and that there is one with its equation
has to be proved (`LoopRounds`, with the function written out: the first exclusion ends the loop, a
match before it is remembered). The induction takes the least round at which the statement fails, by
the well-foundedness of the naturals.

**TenantAccessProofs**, from `NoneIsApart`, `ApiIsApart`, `RunBounds`, `GivenRoles`,
`AccessBounds`, `AccessApart`.

- `TypeCorrect`: `Spec => []TypeOK`
- `NoSelfServiceEver`: `Spec => []NoSelfService`
- `NobodyActsUngranted`: `Spec => []ActsWithRight`
- `NoTenantLeftHalf`: `Spec => []NoHalfTenant`
- `PagesAreScoped`: `Spec => []AppIsScoped`

The API's process never has permission for a sign-up, and a command line that has it asks for the
account of an operator's choice (`GateInv`). A request that holds a decision was granted it since it began (`ActsWithRight` with
`ReqInv`). A tenant's settings name a domain, and whoever still has to write it to Kamailio or to
fill the cache is under way (`SetUp`, with `Registers` and `Warms`), whichever of the two wrote the
settings last.

**PortalClientProofs**, from `StartsPart`, `NonePart`, `BoundsNat`, `NoneIsNoRow`, `NoneIsNoList`.

- `TypeCorrect`: `Spec => []TypeOK`
- `TabShowsItsChanges`: `Spec => []ListsAgree`
- `NoFalseEmptiness`: `Spec => []EmptyIsTrue`
- `TrunksAreWhole`: `Spec => []NoHalfSavedTrunk`
- `NoIdleSpinner`: `Spec => []SpinnerFetches`
- `PasswordIsShown`: `Spec => SecretKept`
- `ToneIsTrue`: `Spec => ToneMeansInForce`

What a list shows, or has read and not shown yet, are the rows as they are, unless a request that
touched them is still to be answered, or is to be fetched anew (`Fresh`): it is the invalidation
on success that keeps this. A trunk without a password has a save that owes it one (`TrunkInv`). A
password that was not shown has its dialog on the page and closed (`MakerInv`). Of an extension whose
handlers neither overlapped nor failed, one handler at most is between row and key, and what it has
read is what `Entry` makes of the row; with none, so is what the key holds (`EntryInv`); the dial that
wrote last is in the row (`WriterInv`).

Only model-checked are the seven liveness properties, which need fairness and ENABLED:

| Property | Proved of it |
|---|---|
| `MediaFreed` | `EndedCallsOnlyWindDown`, `EndedMediaHasAWayOut` |
| `LockoutEnds` | `LockoutsDrain` |
| `LedgerSettled` | `EveryRecordRunsOut` |
| `DeletedIsForgotten` | `RegistrationsOnlyFade`, `LocationsAreBacked` |
| `CallEnds` | `CallsRunDown`, `NoCallIsStuck` |
| `DeliveredUnlessFault` | `FaxesRunForward`, `DoneIsDelivered` |
| `LostCacheIsRefilled` | nothing: a loss during a startup, like a warming that fails, leaves the sentinel set over an empty cache (section 7), so there is no invariant to lean on, only the watchdog's persistence |

All other properties are checked and proved.

## 7. Findings

Three are runs of their own that end in a counterexample, with the line of the repository that
says otherwise quoted in `PROJECT.json`.

1. **`emergency_never_capped`**: the ingress pass checks the ceiling before anything can tell that
   the call is an emergency call (`34-kamailio-config.sh:556`), although 609-611 says that
   emergency calls bypass every restriction.
2. **`extension_destination`**: a destination that is an extension is stored by row id
   (`telephony.ts:79`) and dialled as a number (`voip.lua:70`, `xml_handler.lua:399`): the call never
   reaches the user `voip.lua:68-69` promises it to.
3. **`subscriber_authenticates`**: the API stores the digests and an empty `password`
   (`kamailio-sync.ts:58-61`), saying that Kamailio reads the digests (`kamailio-sync.ts:36-39`); Kamailio
   is configured to compute the digest from `password` (`34-kamailio-config.sh:366-370`), so a phone is
   refused with its extension's password.

Other disagreements the models show or that were met on the way. No run states them; where one
limits a property, the property's history variable sets the case aside.

- A rebuild writes the tenant key first (`cache.ts:436`) and the extensions last; a call in between
  finds the tenant but not the extension and is hung up with UNALLOCATED_NUMBER instead of falling
  through to Postgres (`cache.ts:422-424`).
- The startup warm claims the sentinel without looking whether Redis restarted meanwhile
  (`index.ts:183`); the watchdog then never refills the cache. The watchdog claims it before it warms
  (`index.ts:175-177`), so a warming that fails, as a whole (`index.ts:149`) or for single keys, is not
  repeated either. The check "cannot miss" (`index.ts:169`) the loss, but it does miss the failure.
- A disabled extension "should not even be attempted" by its ring groups (`cache.ts:317`), but
  disabling or deleting it rebuilds no group: the cached ones keep it, and lack one that was enabled,
  until something rebuilds the tenant.
- A dedicated tenant's settings are stored and the handler answers before any builder
  (`tenants.ts:79-88`): the tenant key and every extension's keys keep the values before.
- The gap of a rebuild is "never wrong" (`cache.ts:421-424`), and a failed write is served by "Lua's
  Postgres fallback" (`redis.ts:113-116`), for the first hop of a call only: the scripts' `voip.fetch` has
  no fallback, and the call is hung up. A builder that throws after the purge is logged
  (`crud.ts:124-128`), and the tenant's keys stay away until the next rebuild.
- "Or the next call still uses the old setting" (`fs-feature.ts:101`): it does when the SET fails,
  which is logged, the request being answered ok and the tone played.
- A disabled extension keeps its row in `subscriber` (`extensions.ts:204-208`): only a deletion
  removes it.
- `event_route[dialog:failed]` lowers the counter for calls that never raised it
  (`34-kamailio-config.sh:978-983`); each unanswered attempt admits one call more. Overlapping
  decrements can take the counter to −1; without overlap it stops at zero (`CountersDoNotUnderflow`).
- The emergency branch of the egress pass leaves before rtpengine and record_route
  (`34-kamailio-config.sh:612-616`).
- `route[RELAY]` arms its own failure route over the carrier failover `route[TOTRUNK]` has just
  armed (`34-kamailio-config.sh:641, 832`): with any number of carriers, one is tried (`NoSecondCarrier`).
- A record that cannot be attributed is answered 200, so FreeSWITCH does not keep it on disk either
  (`routes/fs-cdr.ts:60-63`).
- `extensions.ts:239` removes a credential "so a race cannot leave a deleted extension briefly able
  to register"; a password change that overlaps the deletion writes it again, for good. The removal
  may also come after the number was created anew, and takes the new credential. A failed
  projection is never repeated, a rebuild writing no subscribers (`kamailio-sync.ts:65`).
- A trunk whose host or authentication changes keeps its old address trusted (`telephony.ts:128`).
- Two PATCHes of half a destination each are checked against the row before the other's write; the
  stored pair can be one nobody checked (`telephony.ts:50`).
- A run of provision-tenant that died after writing the settings cannot be repeated: the clash check
  finds the organization itself (`provision-tenant.ts:51`).
- The member and option tables say "Empty" or "No options" of a fetch that failed
  (`call-flows.tsx:186, 475`), which `Resource.tsx:66` rules out for the pages.
- A session that was active in an organization keeps it when the membership ends; the page then
  shows errors instead of the panel for the unassigned (`_app.tsx:214`).

Hazards that need no state space: a window over midnight never matches (`time_condition.lua:74`);
the recipient of a fax falls back to the default caller id name, and `deliverToEmail` is never read
(`fax.ts:169`); `Number(priority) || 10` turns 0 into 10 (`trunks.tsx:47`); a time condition saved
before the tenant's settings have arrived gets timezone Etc/UTC (`call-flows.tsx:706`); two tenants'
extensions of one number share a call counter (`34-kamailio-config.sh:566`); the call handling form
saves every field as the list showed it, and undoes a feature code dialled meanwhile
(`CallHandlingModal.tsx:75`); call waiting reads `limit_usage` and raises it in two steps
(`extension.lua:89`); a deleted object leaves destinations that block later PATCHes
(`telephony.ts:79`).

## 8. Abstractions and external parts

- Rows and keys carry versions instead of contents; whether a row is served is kept. One tenant
  stands for all: no key, row or query of one tenant is another's. Kamailio's counters are the
  exception, and are keyed as the code keys them (`Number` maps accounts to user parts).
- What the Redis client does about one command (queueing, reconnecting) is one command that
  succeeds or fails.
- SCAN and DEL of `safeDelPattern` are one step. Another writer's SET of a key between
  the two is covered by that SET coming before or after the step.
- Kamailio's dialog, pike, htable and drouting modules, rtpengine, mod_xml_cdr, systemd, Redis and
  Postgres are modelled as the configuration in this repository uses them. The map marks the
  definitions that stand for their behaviour alone as external.
- Time is untimed: a timer that may fire can fire at any moment its guard allows. `Expire` requires
  that no dialog of the counter is left, since a dialog lives for at most six hours and an entry for a day
  after its last write.
- A record's fields (direction, epochs, URL decoding) are reduced to whether it names its tenant
  and to the rows it refers to.
- `TenantCache`: the two reads of the group builder (groups, then a group's members) are one. TLC's
  instance with requests has a restart as its only fault; crashes, evictions, failing reads and failing
  commands meet requests in the theorems, and the watchdog in the live run.
- `KamailioCalls`: a call starts where its caller has passed authorisation; what each call may dial
  is a constant (`Kinds`), as is the number of faults; TLC tries one fault, the theorems allow any
  number.
- `CallFlow`: the builders of groups, menus and conditions are one step, their interleaving being
  `TenantCache`'s; extensions do not change and are enabled; faults count towards the bound on
  requests; a request takes the first free place;
  a rule is its dates, days and hours, a moment one of each; `queue` destinations have no rows and
  are always refused; a menu has one option, and the depth bound is a constant.
- `PortalClient`: one setting stands for an extension's call handling; one retry for two; a
  behaviour is about one page; time is free, so a focus refetch may come at any moment; a trunk's
  enabled switch is left out; the redirect on a 401 is `TenantAccess`'s. The pages for routes, DIDs
  and call flows are built like the trunks page.
- `TenantAccess`: better-auth's cookie cache (five minutes of a session that has ended) is not
  there, so a session that is read is the one in the database.
- `FaxDelivery`: a conversion that fails leaves no PDF; a transfer that fails may leave a TIFF.

## 9. What is not modelled

- Changes of a tenant's SIP domain, NAT traversal, WebSocket, T.38, STIR/SHAKEN and Kamailio's own
  accounting: none of them touches the counters or the routing of a call. FreeSWITCH's selection
  has one node.
- The directory and dialplan lookups key by key, outbound patterns, the Postgres fallback of
  `routes/fs-xml.ts`, FreeSWITCH's own directory cache and the ESL flush.
- The call-waiting limit, which FreeSWITCH's limit module counts.
- Audit trail (append only, read by nobody), reports (read only), secrets (pure cryptography).
- Installer and firewall; host preparation, TLS, mail, nginx, STIR/SHAKEN's build, housekeeping:
  sequential shell, packages and static configuration; the state is the file system's and
  nftables'.

## 10. Plan

Built, in this order: `TenantCache`, `KamailioCalls`, `CdrIngest` with `CallLedger`; `KamailioSync`,
`Provisioning` with `TenantAccess`, `CallFlow`, `FaxDelivery` with `FaxOutbox`, `PortalClient`. Proved:
every safety and action property of a run, both refinements, and the safety part of six liveness
properties. What is left:

1. **XmlLookup**, composed with `TenantCache`'s key space: the lookups GET by GET while rebuilds and
   edits run; the fallback to Postgres; the directory cache and the ESL flush. Abstract
   specification: one atomic read of one configuration.
2. **Installer**: steps, markers by hash, roles. **Firewall**: the two sets and the sync.
3. Refinements of what exists: renumbered extensions in `CdrIngest`; two tenants whose extensions
   share a counter in `KamailioCalls`; a change of SIP domain in `TenantCache`.
4. Abstract specifications, with proofs of refinement, for the cache (a write by version that is never
   older than the row) and for Kamailio's projection (a credential that is on, off or withdrawn).
