# Formal models of the Todo API

TLA+ models of the multi-tenant Todo API of this repository, the TLC runs that
check them on small instances and TLAPS proofs of their most important
properties for instances of every size. `PROJECT.json` lists the components,
runs, properties, hazards and the source lines behind every definition.

## The system

API Gateway authenticates a request and invokes a Lambda function. An *execution
environment* serves one invocation at a time and keeps its module state between
invocations. The handler (`packages/api/src/handler.ts`) runs a middleware
stack, dispatches to a route (`router/`), the route to the domain (`domain/`)
and that to the repository (`repo/todos-repo.ts`), which runs one autocommitted
statement against PostgreSQL through a pooled connection (`db/pool.ts`). A
create that carries an `Idempotency-Key` goes through AWS Powertools and a
DynamoDB table first (`idempotency.ts`).

| Component | State it keeps | Operations | Interacts with | What is hard | What makes it correct |
|---|---|---|---|---|---|
| Idempotent create (`idempotency.ts`, `handler.ts`) | `idempotent`, `lambdaContext` per environment; a record per key in DynamoDB | bind the context, claim, create, complete, release, replay | Powertools, DynamoDB, repository | two invocations with one key; kills and timeouts between two remote calls; lost acknowledgements; expiry | a claim excludes others while it can matter; a replay is the caller's own todo; a key is never wedged |
| Repository and domain (`repo/`, `domain/`, migration) | one `todos` table for all tenants | create, get, list, patch, delete | pool, PostgreSQL | statements in flight together, row locks taken after `now()`, lost acknowledgements | isolation of owners, no lost field, order of timestamps |
| Pagination (`list`, cursor) | none on the server; a cursor at the client | fetch a page | repository | the table changes between pages; equal timestamps; late commits | nothing repeated, nothing skipped, in order, ends |
| Pool and credentials (`db/pool.ts`, `config.ts`) | cached pool, cached IAM token, Powertools' secret cache | getPool, closePool, query | RDS Proxy, Secrets Manager | await between check and assignment, credentials that age or rotate, connections that drop or never come | a valid credential for each connection; one connection per environment; every query ends |
| Request pipeline (`handler.ts`, `router/`, `http.ts`, `error-mapper.ts`) | the shared logger's keys | validate, dispatch, map errors | everything above | state left from the last invocation; errors of every layer | declared answers only; blame on the right side; nothing of another request in a log |
| Claims (`auth/claims.ts`, `cognito-pretoken`, `mint-token.mjs`) | none | enrich a token, read claims | Cognito, API Gateway | several encodings of group names | an identity that comes from the token only, with whole group names |
| SDK (`packages/sdk`) | none | call, raise `ApiError` | the API | success and failure have similar shapes | results have the type they were generated with |
| Local server (`local/server.ts`) | none | route, stub authorizer | the handler | concurrent requests in one process | declared answers, as behind the gateway |
| Contract harness (`test/contract/run.ts`) | `cleanups`, `exiting` | start, run, tear down | database, server process | signals during teardown | everything started is stopped |
| Delivery (`.github/workflows`, `Taskfile.yml`) | state of runs and queue, live alias, schema | CI, release, queue, apply, migrate | GitHub Actions, Terraform, AWS | a newer head than CI passed; runs that replace one another; alias before migrations | only validated commits are deployed, never backwards, one at a time |
| Infrastructure (`infra/terraform`) | - | - | - | declarative | timeouts and table keys the code relies on |
| Contract and generators (`api/openapi.yaml`, `packages/contracts`, `scripts/`) | none | generate | gateway, handler, SDK | three readings of one document | gateway, handler and SDK agree on it |

## Plan

1. `IdempotentCreate` with the abstract `CreateOnce`: the most stateful and most
   failure-prone part of the program. *Done: 4 runs, 8 theorems.*
2. `TodoStore` with the abstract `OwnerStores`: tenant isolation and concurrent
   changes. *Done: 2 runs, 3 theorems.*
3. `TodoPages`: keyset pagination. *Done: 1 run, 4 theorems.*
4. `DbPool`: credentials, connections and shutdown of one process. *Done: 2 runs,
   5 theorems.*
5. `RequestPipeline` with `TodoContract`, `TodoSdk` and `Claims`: all routes and
   layers, from the caller of the SDK to the domain and back. *Done: 1 run,
   6 theorems.*
6. `Delivery`: what a deploy deploys, schema against live code. *Done: 2 runs,
   4 theorems.*
7. Left: the safety halves of `QueriesEnd` and `NewestGoesLive` as invariants with
   proofs, as `ClaimsEnd` is one for `KeyFreesUp`.

Each component is one module with its own `MC` module and `.cfg` files; abstract
specifications are modules of their own and are instantiated with a refinement
mapping at the end of the detailed one; proofs are in a `...Proofs` module that
extends it. No module uses `RECURSIVE`.

## IdempotentCreate

`idempotency.ts`, with the part of `handler.ts` that binds the Lambda context
and the part of `todos-repo.ts` that inserts. An invocation is a request; its
program counter follows the code:

| `pc` | in the code | actions |
|---|---|---|
| `idle` | not invoked yet | `Start`: middleware, `bindLambdaContext`, validation; to `claim` with a key, to `call` without (`idempotency.ts:79`) |
| `claim` | Powertools' `saveInProgress` | `Claim`, `AnswerFromRecord` (409, or the stored 201), `ClaimFails`, `ClaimUnheard` |
| `call` | `createTodo` | `SendInsert`, `ConnectFails` |
| `wait` | `await p.query` | `ReceiveRow`, `ReceiveError`, `LoseConnection`; `Settle` is the database's |
| `save` | `saveSuccess` | `SaveSuccess`, `SaveFails`, `SaveUnheard` |
| `release` | `deleteRecord` after an error | `Release` (which may fail itself) |
| `return` | the 201 | `Return` |

`Kill` ends a running invocation and its environment at any point, `Tick` lets
time pass but no invocation outlive its deadline. `record` is the DynamoDB table,
keyed by `[key, tenant, user]`; `Claimable` is the condition of Powertools'
conditional put, `InProgress` and `Completed` are the items it writes. Powertools
is not under `src/`: it is modelled from how `idempotency.ts` configures it and
from the in-memory layer of `test/unit/idempotency.test.ts`, and marked external.

What the model assumes: one clock `now` for Lambda and for the expiries; a
DynamoDB call takes effect while its invocation runs or not at all, though its
response may be lost, while an INSERT may commit after its invocation is gone; a
todo is named by its invocation, since an invocation sends at most one INSERT and
`gen_random_uuid()` does not repeat; deletion of expired items by DynamoDB is
covered by claiming over them; HTTP errors other than the two 409s are one answer,
`failed`.

Properties:

- `OneHolder`: two running invocations never hold one key. It depends on the
  fresh Lambda context of every invocation; binding it once per cold start breaks it.
- `CreatedIsOwn`: a 201, replayed or not, is a committed todo of the caller's
  tenant, user and body.
- `MismatchIsReal`: a 409 for another body is given only if there was one.
- `ReplayWindow`, `NoInsertAfterCreated`: after a fresh 201, for `Expiry -
  LambdaTimeout`, every 201 for the key is that todo and no INSERT is sent. The
  subtraction is real: the record's lifetime starts when it is saved, the 201 may
  reach the client up to a timeout later.
- `EveryRequestEnds`, `KeyFreesUp`: liveness.
- `ImplementsCreateOnce`: without the three faults and before expiry, the handler
  is `CreateOnce`: at most one INSERT per key, and every 201 returns its todo.
- `RetriesAreSafe`: what the consumer guide says of retries. It is violated.

Runs (`MCIdempotentCreate`):

| run | instance | checks |
|---|---|---|
| `faults` | 3 invocations, 2 environments, 1 key, 2 bodies, timeout 1, expiry 2, 4 ticks, all faults | the five invariants and `NoInsertAfterCreated` |
| `once` | 3 invocations, 2 environments, 2 tenants, no faults, expiry 3, 3 ticks | `ImplementsCreateOnce` |
| `live` | 2 invocations, 2 environments, all faults, expiry 5, 4 ticks, no symmetry | both liveness properties |
| `retry` | 2 invocations, all faults | `RetriesAreSafe`, violated: see Findings |

Three invocations are a first create, a rival or retry and a later replay; a third
environment would only add one that is never bound before. Four ticks let a record
be claimed, outlived, completed and expired with a claim after that. `MaxTime`
bounds the clock; an invocation starts only if its deadline is before the bound, so
that the bound never freezes a running one.

Fairness (`FairSpec`): Node proceeds while Lambda lets it, PostgreSQL settles each
statement (Lambda's timeout and `connectionTimeoutMillis` do not wait for ever) and
time passes. No request need arrive, and no call need succeed or fail.
`KeyFreesUp` needs time only: a claim expires with its invocation.

## TodoStore

`todos-repo.ts` and `domain/todos.ts`. Requests of all owners are in flight
together. `Send` begins a request's statement and fixes its `now()` (`began`);
`Serve` is the moment at which it takes effect, on the row as it then is, since an
`UPDATE` or `DELETE` waits for the row's lock and evaluates its predicate again. `over` are
the requests whose statements are settled, apart from `answer`: `Lose` is a connection that
drops while the statement runs or waits, a 500 after which the statement may still take
effect or not; `Reply` gives whoever still waits the result, or a 500 for something that
happened; `Fail` is a statement that has no effect. A get, patch or delete may name the id of
any todo whose create is over, another owner's or a deleted one included (`Known`); any other
id is a random UUID that names nothing. A patch names at least one field, as the router
requires.

`OwnerStores` is the promise: each user of a tenant has a store of its own and all
operations act on the caller's; it too may answer with a failure first and serve later. `ImplementsOwnerStores` maps the table to
the owners' stores by the predicate `tenant_id`, `user_sub` of every statement
(`Owned`). With the order of `Send` and `Serve` it also says that a patch changes
its own fields only, that reads see every write that succeeded before them, and that a
deleted todo stays deleted. `UpdatedAfterCreated` says that `updated_at` is never
before `created_at`; `UpdatedAtAdvances`, that a patch does not move `updated_at`
back, is violated (see Findings).

Runs (`MCTodoStore`): `stores` with 3 requests, 2 tenants of 2 users each, 1 field of 2 values
and 2 instants (3 requests are a create and two concurrent changes or reads, of any
owners; two instants put a change's statement before or after the create's); `updated` with 1
owner, 1 field and 3 instants. A patch that leaves another field alone needs two fields: that
is the theorem `TableImplementsStores`, for every set of fields.

## TodoPages

`list` as a client uses it: page after page, with a limit that may change, one
filter, and a table that changes between any two pages. `Fetch` is one `SELECT`
with `LIMIT limit + 1`, the cut to `limit` rows and the cursor of the last one;
`BeginCreate` and `EndCreate` separate an INSERT's `now()` from its commit. Time has
two units to a millisecond: `Stored` is the rounding of `timestamptz(3)`, `Millis`
the truncation of a JavaScript `Date` on the way into the cursor. Storing
microseconds instead breaks `NothingSkipped`, as the migration's comment says.

`PagesDescend`: across pages too, each todo comes after all that were shown.
`NothingSkipped`: what existed and matched during the whole walk is shown.
`CursorMeansMore`: a next cursor is given if and only if there is more.
`EveryWalkEnds` holds under `FairSpec`: the client asks for the next page as long as
there is one. Todos that commit late, or start or stop matching, may be shown or not.

Run `walk`: 3 todos, pages of 1 or 2, 4 instants (two milliseconds). Three todos
make a full page with and without one more, in one millisecond or in several, with
ids in any order against creation.

## DbPool

`db/pool.ts` in one process, configured in any of the ways `config.ts` allows
(`AllModes`): nothing, `DATABASE_URL`, or `DB_HOST` alone, with IAM or with a secret. A query names the pool it builds and the connection it opens.

| `pc` | in the code | actions |
|---|---|---|
| `idle` | `query` not called | `Start`: `getPool` returns `pool`, or begins to build one |
| `build`, `read`, `built` | `await buildConfig()` | `Build`, `BuildFails` (nothing configured, an unreadable CA bundle), `AskUser` and `SecretArrives`; `Install` assigns `pool` |
| `acquire` | `p.query` asks pg-pool for a client | `Reuse` an idle one, `Open` one, `Refused` by a pool that is ending |
| `connect`, `ask` | `config.password` | `PresentOwn`, `PresentToken`, `PresentPassword` from a cache; `AskToken` and `TokenArrives`, `AskPassword` and `SecretArrives`, `AskFails` |
| `auth` | the proxy or database checks it | `Authenticate`, `ConnectFails` |
| `run` | the statement | `Finish`, with or without its connection |

`CloseBegins` and `CloseEnds` are the two sides of `closePool`'s await. `Drop` is a
connection closed by the other side while it is idle, `Reap` pg's idle timeout and the
pool's error handler, `TimesOut` is `connectionTimeoutMillis`. A rotation has the two
steps of Secrets Manager: the database first, then the current version of the secret.
A read of the secret and a signature are two steps each, with anything in between: `asked` is
what will arrive. A rotation may meet a read under way, which then brings the old version or the
new one; an old version that arrives late is cached as if it were new, also when the query that
asked for it has timed out. `lastStale` is when the secret last changed or such a version
arrived. pg-pool, the signer, Secrets Manager and the proxy are external; two reads at once are
two requests to Secrets Manager.

- `TokensAreFresh`: whatever a token's age in the cache and the time the connection
  takes, the proxy sees it in its lifetime. It needs `TokenTTL + ConnectionTimeout <=
  TokenLifetime`, 13 minutes and 5 seconds against 15, and a TTL that is not zero
  (`PoolAssumption`).
- `PasswordFollowsRotation`: from `MaxAge` and a connection's wait after `lastStale` on, the
  password that is presented is the current one, and the database refuses it only if the secret
  now names another user than the pool does. Counted from the rotation alone it does not hold:
  a read that straddles it may be cached after it.
- `RotationNeedsNoRestart`: what the operations guide says, without that exception. It is
  violated: the user's name is read once per environment.
- `NothingLeaks`, `OneConnectionEach`: every open connection belongs to the cached
  pool, and there is one at most. Both are about a process that serves one request at
  a time (`Concurrency = 1`), as Lambda does, and say nothing of more. With two at once, as in
  the local server, two first queries each build a pool and one is overwritten.
- `QueriesEnd`: no query waits for ever for a connection, a token or a password, since
  `connectionTimeoutMillis` covers them. It does not cover the read of the secret in
  `buildConfig`, which the code gives no timeout: a query in `read` is exempt. A pool built from
  `DATABASE_URL` has no timeout and is excluded too.

Runs: `pool` with two queries one after the other, in all five modes, 2 users, 4 ticks and one
more for the wait, one rotation, a token kept 2 ticks of its 3, a secret 1, a wait of 1;
`rotation`, the same instance for `RotationNeedsNoRestart`. Two queries are a first that builds
and connects and a second that meets a warm environment in every state: idle or dropped
connection, closed pool, aged token, rotated secret, a read of the first one still under way.
`FairSpec`: Node runs what is ready and fires its timers, PostgreSQL settles each statement and
time passes; no connection need ever succeed, no secret or signature need ever arrive, no
connection need be dropped or reaped.

## RequestPipeline, TodoContract, TodoSdk, Claims

A call of the SDK (or of a bare HTTP client, for methods and paths that the contract
does not have) goes through API Gateway or the local server into the handler. Documents
are functions from member names to kinds of values (`TodoContract`), so that the
generated zod schemas, the gateway's closed JSON schema and the SDK's types are three
schemas for the same documents and their differences stay: unknown members are refused
by the gateway and dropped by zod, U+0000 passes every schema and is caught by
`findNul`, a date of a year 0000 passes everything but PostgreSQL.

`Call` makes a call; `GatewayRefuses` answers it at the gateway (authorizer, API key,
WAF, throttling, validator, size, bad path) as `gateway-spec.mjs` renders it,
`LocalRefuses` at the local server; `Invoke` is the middleware's `before` hooks. One
action for each way out of the handler follows: `NoRoute`, `Unauthorized`, `BadRequest`,
`Succeed`, `NotFound`, `Conflict`, `Unstored` (SQLSTATE class 22), `Fault`; all go through
`Leave`, which runs `after` or `onError` and clears the logger. `Kill` is an invocation that dies
or times out. `Receive` is `createClient`'s treatment of the answer. What the domain
and the table do is `TodoStore`'s and `IdempotentCreate`'s. `Claims` takes a user's
tenant and groups through `cognito-pretoken` or `mint-token.mjs`, the gateway's
flattening of arrays, and `extractAuth`, which refuses claims whose sub or tenant is no string
(`Missing`): the trigger denies a user without a tenant its token, the local stub does not. A list
of groups is a sequence of names, a name a sequence of words. `parseGroups` tries `JSON.parse` on
every string that starts with a bracket, and the gateway's flattened `[a b]` is JSON by chance for
some lists, a single number or a quoted name: the constant `JsonReads` says for which lists and
what is read.

- `AnswersDeclared`: whichever layer answers, status and body are declared for the
  operation. The health check is excluded: the contract declares its 200 only, although
  the gateway may throttle or block it and its integration may fail.
- `ResultsTyped`: a generated function returns its type or throws an `ApiError` with a
  declared status and a typed problem, and behind the gateway with a request id.
- `BlameIsRight`: behind the gateway, a 400 is given only for a malformed call, a 500
  only for a failure of the service, and success only for what the handler understood.
- `LogsAreOwn`: in a Lambda environment every error is logged under its own ids. In the
  local server concurrent calls share one logger and this does not hold.
- `IdentitySurvives`: the handler acts only for a caller with a sub and a tenant and as this
  caller, with every group whole. `cognito:groups` and `roles` are united, so behind the gateway
  what becomes of the flattened list appears beside the whole names: a group "on call" also
  yields "on" and "call", a group "1e3" also yields "1000". The property allows exactly these.

Run `calls`: one caller makes any call from the product of token, API key, client
id, and the parameters and bodies of its operation; another makes one of three calls that
leave something behind (an error with and without a document, a success) or meet what
was left. The first has groups "ops" and "on call"; the other no groups, with and without a
tenant, or the group "1e3". There are two fronts. The answers of the calls are independent but for the logger's
keys, for which two calls suffice. No liveness is stated: each step is one of Node's.

Lengths are one kind of text, "long": zod counts UTF-16 units and the contract's
`maxLength` characters, a difference that is outside these models.

## Delivery

Commits of main are numbered. `Push` starts CI and cancels the run in progress on main
(`cancel-in-progress`), `CIEnds` ends one, `Release` is semantic-release's changelog commit,
which CI skips. `ForkCI` is a CI run of a fork's pull request whose branch is named main.
`Trigger` handles the `workflow_run` event of a completed CI run and `Dispatch` a manual run, on
main or on any other ref: `Enqueue` puts it in the concurrency group, where it replaces the run
that waits. `Start` begins it when none is in progress; a run whose CI did not succeed, or was a
fork's, has nothing to do. `Build`, `Apply`, `Migrate` and `Smoke` are the job's steps; each may end
it red, `Apply` with the live alias moved or not, `Migrate` with its transaction committed or
not. The sha of a run is main's head when it was created, not the commit that CI saw, or the
ref it was sent to. A branch or tag counts as the commit of main it was cut from, and its
deploy.yml is taken to be the same; migrations newer than it stay.

- `NeverBack`: an environment goes back to older code only by a manual run on another ref
  than main. Such a run is what GitHub offers for `workflow_dispatch`; that nothing else does it
  depends on the queue and on the sha of the other runs.
- `MigrationsFollowCode`: the schema moves to a commit only while that commit's code is live, after
  a run on an older ref too. It is about the order and holds as well of a migration that fails.
- `MigrationsDoNotOverlap`: one job at a time migrates. The queue is all there is for this:
  migrations run with `--no-lock`.
- `NewestGoesLive`, in three parts: if CI passes main's newest commit, a deploy of it comes to
  wait; it starts, unless main moves on or a run of a fork or of another ref takes its place in the
  queue; and once started, it brings the commit live or ends red. Deploy's comment says that the
  branches filter excludes pull requests (deploy.yml:30-31), but the filter compares the branch's
  name only: the run of a fork's main is skipped by the job's condition, and has replaced the run
  that waited by then. Nothing deploys the newest commit again until the next event. Older commits
  have no promise: the deploy of one that passed is replaced while it waits, also by the run of
  a commit that CI failed.
- `OnlyValidated`: what the workflow's comment and ADR-11 say. It is violated.

Runs: `deliver` with 3 commits, one manual run and one fork's CI (one deploy in progress, one
waiting, one that replaces it, of either kind); `validated` with 3 commits, none manual, no fork.
`FairSpec`: jobs end, because every job has `timeout-minutes`; GitHub delivers events and
starts what waits. Pushes, releases, forks' pull requests and manual runs need not happen.

## Proofs

| module | theorems | argument |
|---|---|---|
| `IdempotentCreateProofs` | `TypeCorrect`, `ClaimsAreExclusive`, `CreatedTodosAreOwn`, `MismatchesAreReal`, `RepliesRepeat`, `CreatesStop`, `ClaimsEnd` | `IInv` |
| `IdempotentCreateOnceProofs` | `HandlerImplementsCreateOnce` | `IInv` and `OnceInv`, step by step |
| `TodoStoreProofs` | `TypeCorrect`, `TimestampsOrdered`, `TableImplementsStores` | `IInv` |
| `TodoPagesProofs` | `TypeCorrect`, `NothingIsSkipped`, `WalksDescend`, `CursorsAreHonest` | `IInv` |
| `DbPoolProofs` | `TypeCorrect`, `TokenSafety`, `RotationSafety`, `NoLeak`, `OneConnection` | `IInv` |
| `RequestPipelineProofs` | `TypeCorrect`, `ContractHolds`, `SdkTypesHold`, `BlameSafety`, `LogSafety`, `IdentitySafety` | `IInv` |
| `DeliveryProofs` | `TypeCorrect`, `DeploysGoForward`, `SchemaFollows`, `OneMigrates` | `IInv` |

`IdempotentCreate!IInv` adds to the properties what makes them inductive: an
invocation is alone in its environment, before its deadline and with its own context
bound (`EnvInv`); the program counter agrees with the INSERT (`PcInv`); a holder's
record is in progress and expires not before its deadline (`HolderInv`, from which
`OneHolder` follows because no invocation runs past its deadline); a completed
record's todo was committed for that scope and body (`RecordInv`); and a completed
record cannot be claimed before the end of its window (`MemoryInv`). TLC checked each
`IInv` as an invariant of these instances before it was proved.

`HandlerImplementsCreateOnce` assumes `Faults = {}` and `MaxTime <= Expiry`, the
conditions under which the property is meant; it is a theorem about every other
failure (a claim that fails or is not heard, connections refused, INSERTs rolled back,
responses of `saveSuccess` lost, releases that fail).

`TodoStore!IInv` adds that a request naming another's todo was sent after that todo's
INSERT was over, so that a patch begins no earlier than the row's `created_at`.
`TodoPages!IInv` adds that the cursor is exactly the key of a todo, which needs
`Millis(Stored(t)) = Stored(t)`, and that all steady todos before it have been shown.
`CursorsAreHonest` counts the rows of `LIMIT limit + 1`: the fetch is cut short exactly if
some matching todo is left.

`DbPool!IInv` bounds everything by a query's deadline. The deadline is never further than
`ConnectionTimeout` away and never past (`Timed`), and a token that was accepted from the
cache cannot be waited out before it (`TokenOutlivesWait`), so that the assumption on TTL,
timeout and lifetime gives `TokensAreFresh`. A version that arrived later than `lastStale` is the
current one, and the cache keeps it no longer than `MaxAge`; a deadline later than `lastStale` by
`MaxAge` and the wait therefore belongs to the current password, for any number of users
(`SecretIsCurrent`). `Alone` is the single query in flight with the single connection: a
pool is built only when there is none, a connection opened only when there is none.
Theorems about `Concurrency = 1` hold for any number of queries, pools and rotations.

`RequestPipeline!IInv` lists what a call can have been answered with: `ErrorsOf` is the
table of each operation's problems and `Known` the four forms in which an answer comes, from
which `AnswersDeclared` and `ResultsTyped` follow by comparison with the contract's table.
`OneInvocation` says that behind the gateway the logger's keys are those of the one
invocation, or empty; `LogIsPast`, that who logged was answered, so that a new call never
owns an old line. `IdentitySurvives` rests on no state but the call's own: its proof is about
`Claims`, for all lists of names and whatever `JSON.parse` reads in a flattened one.
`Delivery!IInv` orders the commits on the way to an environment: what is live is no newer than
the run in progress, that no newer than the run that waits, and that no newer than main's
head, except for runs that were sent to a ref, of which it says nothing but that their commit
is one of main's. With one run in progress at most, and a job beyond its apply only if its commit
is live, every other step goes forward, and a migration belongs to what is live.

The proofs assume of the constants what the named `ASSUME`s say: that `None` and
`NoKey` are none of the values they are compared with, that clocks and limits are
numbers, that a timeout is positive and no longer than a record's lifetime, that a token
is kept for some time and, with the wait, not beyond its lifetime.
Every safety property of the passing runs has a theorem. `EveryRequestEnds`,
`KeyFreesUp`, `EveryWalkEnds`, `QueriesEnd` and `NewestGoesLive` are only model-checked,
because liveness under fairness is out of the prover's reach. `ClaimsEnd` proves what
`KeyFreesUp` rests on: no claim lasts longer than a Lambda timeout from now.

## Findings

- `retry`: the consumer guide promises that a key makes retries safe. If the
  acknowledgement of the INSERT is lost, the error path deletes the record; if the
  invocation is killed after its INSERT, its claim expires with it. Either way
  a retry with the same key and body inserts a second todo.
- `updated`: a test calls it that PATCH "advances updated_at". `now()` is the start of
  the statement, not the moment it gets the row: of two contending patches the one that
  began first may take effect last and move `updated_at` back.
- `rotation`: the operations guide says that a rotation needs no restart, since the secret is
  read again for every connection. Its user name is not: it is copied into the pool's
  configuration once per environment. A rotation that makes the secret name another user leaves
  a warm environment with the old name and the new password until it is recycled.
- `validated`: deploy.yml calls main's head "always the newest commit CI has passed or is
  about to re-validate", and ADR-11 says "Deploy only what CI validated". The release job
  pushes a changelog commit with `[skip ci]` beside CI; if it is there when CI's success
  is handled, the deploy checks out a commit that CI never ran on and never will.

## Not modelled

The contract test harness is a test runner (its teardown under signals is listed as a
hazard). `http-collection.mjs` and `contract-compat.sh` transform or compare documents in one
run without state, and the Terraform code is declarative; neither has an interleaving to
check. CORS preflight is a constant of the gateway. Within the modelled parts: a failed build
of the Powertools layer, which would be cached as a rejected promise (`idempotency.ts:81`);
the retry Powertools makes when a record disappears under it; the wording of errors,
tracing and metrics; several walks at once, which share nothing; a composition of
replays with later patches and deletes, because the contract promises the original result;
in the local server, requests that Node's parser rejects; in the pool, a read of
the secret that outlives its process; in delivery, deploys from a developer's machine, the
workflow file of another ref, re-runs of old workflow runs, down migrations and publishing.
