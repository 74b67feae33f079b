------------------------------- MODULE DbPool -------------------------------
(***************************************************************************)
(* packages/api/src/db/pool.ts in one process: the cached pool, the cached *)
(* IAM token, the cached secret and the connections that queries open.     *)
(* A query is named; a pool is named by the query that built it and a      *)
(* connection by the query that used it last: a query builds one pool and  *)
(* uses one connection at most.  A read of the secret or a signature that  *)
(* is awaited arrives later, also when the query that asked for it has     *)
(* failed.  pg-pool, Secrets Manager, the signer and the proxy are         *)
(* modelled from how the code uses them.                                   *)
(***************************************************************************)
EXTENDS Integers, FiniteSets

CONSTANTS
    Queries,            \* calls of query()
    Concurrency,        \* how many are in flight at once: 1 in a Lambda environment
    Modes,              \* how the process may be configured, a subset of AllModes
    Users,              \* database users the secret may name
    MaxConnections,     \* `max` of the pool
    TokenTTL,           \* how long iamToken keeps a token
    TokenLifetime,      \* how long the proxy accepts one
    MaxAge,             \* how long Powertools keeps a secret
    ConnectionTimeout,  \* connectionTimeoutMillis
    MaxRotations,       \* bound: rotations of the secret
    MaxTime,            \* bound: no query starts later
    None

\* Nothing configured; DATABASE_URL; DB_HOST alone, with DB_IAM_AUTH, with DB_SECRET_ARN.
AllModes == {"unset", "url", "plain", "iam", "secret"}

Versions    == [user : Users, password : 0..MaxRotations]
Signatures  == [signed : Nat]
Fetched     == [version : Versions, fetched : Nat]
Connections == [by : Queries, pool : Queries, state : {"idle", "busy", "dead"}]

ASSUME PoolAssumption ==
    /\ Concurrency \in Nat \ {0}
    /\ Modes \subseteq AllModes
    /\ Users # {}
    /\ MaxConnections \in Nat \ {0}
    /\ TokenTTL \in Nat \ {0} /\ TokenLifetime \in Nat
    /\ TokenTTL + ConnectionTimeout <= TokenLifetime
    /\ MaxAge \in Nat \ {0}
    /\ ConnectionTimeout \in Nat
    /\ MaxRotations \in Nat /\ MaxTime \in Nat
    /\ None \notin Queries \cup Users \cup Int \cup Versions \cup Signatures \cup Fetched

VARIABLES
    now,          \* the clock
    mode,         \* how the process is configured
    pool,         \* the module's `pool`: a query, or None
    userOf,       \* the user in the configuration of the pool a query built
    ended,        \* pools whose end() was called
    tokenCache,   \* when the cached token was signed, or None
    secret,       \* the current version in Secrets Manager
    rotation,     \* the version a rotation has put into the database only, or None
    lastStale,    \* when the secret last changed, or an older version of it arrived
    password,     \* the password the database accepts for a user
    secretCache,  \* the version Powertools keeps and when it was fetched, or None
    pc,           \* where a query is
    asked,        \* what the read or the signature it awaits will bring, or None
    using,        \* the pool it was handed
    deadline,     \* when it gives up waiting for a connection
    credential,   \* when its token was signed, or its password
    connections   \* the open connections: [by, pool, state]

vars == <<now, mode, pool, userOf, ended, tokenCache, secret, rotation, lastStale,
          password, secretCache, pc, asked, using, deadline, credential, connections>>

services  == <<now, mode, secret, rotation, password>>
kept      == <<tokenCache, secretCache, lastStale>>
caches    == <<kept, asked>>
poolState == <<pool, userOf, ended>>
local     == <<using, deadline, credential>>

Phases      == {"idle", "build", "read", "built", "acquire", "connect", "ask", "auth",
                "run", "done", "failed"}
Waiting     == {"acquire", "connect", "ask", "auth"}
Opens       == {"connect", "ask", "auth"}
InFlight    == {q \in Queries : pc[q] \notin {"idle", "done", "failed"}}
Of(p)       == {c \in connections : c.pool = p}
Opening(p)  == {q \in Queries : using[q] = p /\ pc[q] \in Opens}

Init ==
    /\ now = 0
    /\ mode \in Modes
    /\ pool = None
    /\ userOf = [q \in Queries |-> None]
    /\ ended = {}
    /\ tokenCache = None
    /\ secret \in {v \in Versions : v.password = 0}
    /\ rotation = None
    /\ lastStale = 0
    /\ password = [u \in Users |-> 0]
    /\ secretCache = None
    /\ pc = [q \in Queries |-> "idle"]
    /\ asked = [q \in Queries |-> None]
    /\ using = [q \in Queries |-> None]
    /\ deadline = [q \in Queries |-> 0]
    /\ credential = [q \in Queries |-> None]
    /\ connections = {}

-----------------------------------------------------------------------------
\* MUTANT: the secret is read once per environment.
SecretKept_Forever == secretCache # None

\* getSecret returns the version Powertools keeps while it is young enough.
SecretKept == secretCache # None /\ secretCache.fetched + MaxAge > now

\* MUTANT: the token is kept for the whole lifetime it has at the proxy.
TokenKept_Lifetime == tokenCache # None /\ tokenCache + TokenLifetime > now

\* iamToken: the cached token while it is younger than its TTL.
TokenKept == tokenCache # None /\ tokenCache + TokenTTL > now

\* Is the credential a query presents accepted by the proxy or the database?
Accepted(q) ==
    CASE mode = "iam"    -> now < credential[q] + TokenLifetime
      [] mode = "secret" -> credential[q] = password[userOf[using[q]]]
      [] OTHER           -> TRUE

(* A query leaves getPool with pool p and asks it for a connection.          *)
Handed(q, p) ==
    /\ pc' = [pc EXCEPT ![q] = "acquire"]
    /\ using' = [using EXCEPT ![q] = p]
    /\ deadline' = [deadline EXCEPT ![q] = now + ConnectionTimeout]

Fail(q) == pc' = [pc EXCEPT ![q] = "failed"]

\* MUTANT: getPool forgets that it has a pool.
Start_AlwaysBuilds(q) ==
    /\ pc[q] = "idle"
    /\ now < MaxTime
    /\ Cardinality(InFlight) < Concurrency
    /\ pc' = [pc EXCEPT ![q] = "build"]
    /\ UNCHANGED <<services, caches, poolState, local, connections>>

\* getPool hands out the module's pool, or begins to build one.
Start(q) ==
    /\ pc[q] = "idle"
    /\ now < MaxTime
    /\ Cardinality(InFlight) < Concurrency
    /\ \/ pool # None /\ Handed(q, pool)
       \/ pool = None /\ pc' = [pc EXCEPT ![q] = "build"] /\ UNCHANGED <<using, deadline>>
    /\ UNCHANGED <<services, caches, poolState, credential, connections>>

\* MUTANT: the secret, not its user name, becomes the user.
Build_WholeSecret(q) ==
    /\ pc[q] = "build"
    /\ mode = "secret" /\ SecretKept
    /\ pc' = [pc EXCEPT ![q] = "built"]
    /\ userOf' = [userOf EXCEPT ![q] = secretCache.version]
    /\ UNCHANGED <<services, caches, pool, ended, local, connections>>

\* buildConfig resolves. With a secret, the user name is read here and once.
Build(q) ==
    /\ pc[q] = "build"
    /\ mode # "unset"
    /\ mode = "secret" => SecretKept
    /\ pc' = [pc EXCEPT ![q] = "built"]
    /\ userOf' = IF mode = "secret" THEN [userOf EXCEPT ![q] = secretCache.version.user]
                 ELSE userOf
    /\ UNCHANGED <<services, caches, pool, ended, local, connections>>

\* It throws: nothing is configured, or the CA bundle cannot be read.
BuildFails(q) ==
    /\ pc[q] = "build"
    /\ mode # "url"
    /\ Fail(q)
    /\ UNCHANGED <<services, caches, poolState, local, connections>>

\* A read or a signature is begun; `value` is what it brings when nothing intervenes.
Ask(q, phase, value) ==
    /\ pc' = [pc EXCEPT ![q] = phase]
    /\ asked' = [asked EXCEPT ![q] = value]
    /\ UNCHANGED <<services, kept, poolState, local, connections>>

\* buildConfig awaits getSecret: no timeout covers it.
AskUser(q) ==
    /\ pc[q] = "build" /\ mode = "secret" /\ ~SecretKept
    /\ Ask(q, "read", secret)

\* getPool resumes after the await and assigns the pool, whatever happened meanwhile.
Install(q) ==
    /\ pc[q] = "built"
    /\ pool' = q
    /\ Handed(q, q)
    /\ UNCHANGED <<services, caches, userOf, ended, credential, connections>>

-----------------------------------------------------------------------------
(* pg-pool hands out an idle connection, else opens one if it may.           *)
Reuse(q) ==
    /\ pc[q] = "acquire"
    /\ using[q] \notin ended
    /\ \E c \in Of(using[q]) :
          \/ /\ c.state = "idle"
             /\ connections' = (connections \ {c}) \cup {[c EXCEPT !.by = q, !.state = "busy"]}
             /\ pc' = [pc EXCEPT ![q] = "run"]
          \/ /\ c.state = "dead"
             /\ connections' = connections \ {c}
             /\ Fail(q)
    /\ UNCHANGED <<services, caches, poolState, local>>

Open(q) ==
    /\ pc[q] = "acquire"
    /\ using[q] \notin ended
    /\ \A c \in Of(using[q]) : c.state = "busy"
    /\ Cardinality(Of(using[q])) + Cardinality(Opening(using[q])) < MaxConnections
    /\ pc' = [pc EXCEPT ![q] = "connect"]
    /\ UNCHANGED <<services, caches, poolState, local, connections>>

\* A pool that is ending refuses new queries.
Refused(q) ==
    /\ pc[q] = "acquire"
    /\ using[q] \in ended
    /\ Fail(q)
    /\ UNCHANGED <<services, caches, poolState, local, connections>>

(* The server asks for the password: config.password is called.              *)
Present(q, c) ==
    /\ pc' = [pc EXCEPT ![q] = "auth"]
    /\ credential' = [credential EXCEPT ![q] = c]
    /\ UNCHANGED <<services, caches, poolState, using, deadline, connections>>

\* A DATABASE_URL's password or none at all.
PresentOwn(q) ==
    /\ pc[q] = "connect" /\ mode \in {"url", "plain"}
    /\ Present(q, None)

PresentToken(q) ==
    /\ pc[q] = "connect" /\ mode = "iam" /\ TokenKept
    /\ Present(q, tokenCache)

PresentPassword(q) ==
    /\ pc[q] = "connect" /\ mode = "secret" /\ SecretKept
    /\ Present(q, secretCache.version.password)

\* iamToken reads the clock, then awaits the signer.
AskToken(q) ==
    /\ pc[q] = "connect" /\ mode = "iam" /\ ~TokenKept
    /\ Ask(q, "ask", [signed |-> now])

AskPassword(q) ==
    /\ pc[q] = "connect" /\ mode = "secret" /\ ~SecretKept
    /\ Ask(q, "ask", secret)

(* What a query awaited has come; a query that failed meanwhile stays failed. *)
Resume(q, c) ==
    /\ asked' = [asked EXCEPT ![q] = None]
    /\ pc' = [pc EXCEPT ![q] = CASE @ = "read" -> "built"
                                 [] @ = "ask"  -> "auth"
                                 [] OTHER      -> @]
    /\ credential' = IF pc[q] = "ask" THEN [credential EXCEPT ![q] = c] ELSE credential
    /\ UNCHANGED <<services, pool, ended, using, deadline, connections>>

\* The cached token's age counts from the clock that was read before it was signed.
TokenArrives(q) ==
    /\ asked[q] # None /\ mode = "iam"
    /\ tokenCache' = asked[q].signed
    /\ Resume(q, asked[q].signed)
    /\ UNCHANGED <<secretCache, lastStale, userOf>>

\* Powertools counts a version's age from its arrival, however old the version is.
SecretArrives(q) ==
    /\ asked[q] # None /\ mode = "secret"
    /\ secretCache' = [version |-> asked[q], fetched |-> now]
    /\ lastStale' = IF asked[q] = secret THEN lastStale ELSE now
    /\ userOf' = IF pc[q] = "read" THEN [userOf EXCEPT ![q] = asked[q].user] ELSE userOf
    /\ Resume(q, asked[q].password)
    /\ UNCHANGED tokenCache

\* The read or the signature fails, and the query with it.
AskFails(q) ==
    /\ asked[q] # None
    /\ asked' = [asked EXCEPT ![q] = None]
    /\ Fail(q)
    /\ UNCHANGED <<services, kept, poolState, local, connections>>

Authenticate(q) ==
    /\ pc[q] = "auth"
    /\ IF Accepted(q)
       THEN /\ pc' = [pc EXCEPT ![q] = "run"]
            /\ connections' = connections \cup
                  {[by |-> q, pool |-> using[q], state |-> "busy"]}
       ELSE Fail(q) /\ UNCHANGED connections
    /\ UNCHANGED <<services, caches, poolState, local>>

\* The network or the database fails the connection.
ConnectFails(q) ==
    /\ pc[q] \in Opens
    /\ Fail(q)
    /\ UNCHANGED <<services, caches, poolState, local, connections>>

\* MUTANT: connectionTimeoutMillis is left at pg's default, no timeout.
TimesOut_Unset(q) == FALSE

\* connectionTimeoutMillis; a DATABASE_URL pool has none.
TimesOut(q) ==
    /\ pc[q] \in Waiting
    /\ mode # "url"
    /\ now >= deadline[q]
    /\ Fail(q)
    /\ UNCHANGED <<services, caches, poolState, local, connections>>

\* The statement is answered and its connection released, or lost with it.
Finish(q) ==
    /\ pc[q] = "run"
    /\ \E c \in {d \in connections : d.by = q} :
          \/ /\ pc' = [pc EXCEPT ![q] = "done"]
             /\ connections' = (connections \ {c}) \cup
                   IF c.pool \in ended THEN {} ELSE {[c EXCEPT !.state = "idle"]}
          \/ /\ Fail(q)
             /\ connections' = connections \ {c}
    /\ UNCHANGED <<services, caches, poolState, local>>

-----------------------------------------------------------------------------
\* closePool calls end(), which closes the idle connections ...
CloseBegins ==
    /\ pool # None /\ pool \notin ended
    /\ ended' = ended \cup {pool}
    /\ connections' = {c \in connections : c.pool = pool => c.state = "busy"}
    /\ UNCHANGED <<services, caches, pool, userOf, pc, local>>

\* MUTANT: closePool does not await end().
CloseEnds_NotAwaited ==
    /\ pool \in ended
    /\ pool' = None
    /\ UNCHANGED <<services, caches, userOf, ended, pc, local, connections>>

\* ... and awaits the busy ones before it clears `pool`.
CloseEnds ==
    /\ pool \in ended
    /\ Of(pool) = {} /\ Opening(pool) = {}
    /\ pool' = None
    /\ UNCHANGED <<services, caches, userOf, ended, pc, local, connections>>

\* The other side closes an idle connection: a failover, the proxy's own timeout.
Drop ==
    /\ \E c \in connections :
          /\ c.state = "idle"
          /\ connections' = (connections \ {c}) \cup {[c EXCEPT !.state = "dead"]}
    /\ UNCHANGED <<services, caches, poolState, pc, local>>

\* idleTimeoutMillis, or the pool's error handler for a dropped connection.
Reap ==
    /\ \E c \in connections : c.state # "busy" /\ connections' = connections \ {c}
    /\ UNCHANGED <<services, caches, poolState, pc, local>>

\* A rotation gives a user a new password in the database ...
RotateDatabase(u) ==
    /\ rotation = None
    /\ secret.password < MaxRotations
    /\ rotation' = [user |-> u, password |-> secret.password + 1]
    /\ password' = [password EXCEPT ![u] = secret.password + 1]
    /\ UNCHANGED <<now, mode, secret, caches, poolState, pc, local, connections>>

\* ... then makes the new version of the secret the current one; a read that is under
\* way brings the one or the other.
RotateSecret ==
    /\ rotation # None
    /\ secret' = rotation
    /\ rotation' = None
    /\ lastStale' = now
    /\ \E reread \in SUBSET {q \in Queries : mode = "secret" /\ asked[q] # None} :
          asked' = [q \in Queries |-> IF q \in reread THEN rotation ELSE asked[q]]
    /\ UNCHANGED <<now, mode, password, tokenCache, secretCache, poolState, pc, local,
                   connections>>

\* Time passes, over no timer that is due; it stops when nobody waits for a timer.
Tick ==
    /\ now < MaxTime \/ (mode # "url" /\ \E q \in Queries : pc[q] \in Waiting)
    /\ \A q \in Queries : pc[q] \in Waiting /\ mode # "url" => now < deadline[q]
    /\ now' = now + 1
    /\ UNCHANGED <<mode, secret, rotation, password, caches, poolState, pc, local, connections>>

Progress(q) ==
    \/ Build(q) \/ BuildFails(q) \/ AskUser(q) \/ Install(q)
    \/ Refused(q) \/ TimesOut(q) \/ Finish(q)

Connecting(q) ==
    \/ Reuse(q) \/ Open(q)
    \/ PresentOwn(q) \/ PresentToken(q) \/ PresentPassword(q)
    \/ AskToken(q) \/ AskPassword(q)
    \/ Authenticate(q) \/ ConnectFails(q)

Arrives(q) == TokenArrives(q) \/ SecretArrives(q) \/ AskFails(q)

Next ==
    \/ \E q \in Queries : Start(q) \/ Progress(q) \/ Connecting(q) \/ Arrives(q)
    \/ CloseBegins \/ CloseEnds \/ Drop \/ Reap
    \/ \E u \in Users : RotateDatabase(u)
    \/ RotateSecret \/ Tick

Spec == Init /\ [][Next]_vars

\* Node runs what is ready and fires its timers, PostgreSQL settles statements and
\* time passes. Nobody promises that a connection is ever made, that Secrets Manager
\* answers or that a token is signed.
FairSpec == Spec /\ WF_vars(Tick) /\ \A q \in Queries : WF_vars(Progress(q))
-----------------------------------------------------------------------------
(* Types.                                                                    *)
TypeOK ==
    /\ now \in Nat
    /\ mode \in Modes
    /\ pool \in Queries \cup {None}
    /\ userOf \in [Queries -> Users \cup {None}]
    /\ ended \subseteq Queries
    /\ tokenCache \in Nat \cup {None}
    /\ secret \in Versions
    /\ rotation \in Versions \cup {None}
    /\ lastStale \in Nat
    /\ password \in [Users -> 0..MaxRotations]
    /\ secretCache \in Fetched \cup {None}
    /\ pc \in [Queries -> Phases]
    /\ asked \in [Queries -> Versions \cup Signatures \cup {None}]
    /\ using \in [Queries -> Queries \cup {None}]
    /\ deadline \in [Queries -> Nat]
    /\ credential \in [Queries -> Nat \cup {None}]
    /\ connections \subseteq Connections

\* A token is in its lifetime when the proxy sees it, however old it was in the cache
\* and however long the connection took (pool.ts:20-31).
TokensAreFresh ==
    \A q \in Queries : mode = "iam" /\ pc[q] = "auth" => Accepted(q)

\* No rotation is under way, and the last one, as well as the last arrival of an
\* older version, is longer ago than Powertools keeps a secret and a query waits.
Settled == rotation = None /\ now >= lastStale + MaxAge + ConnectionTimeout

\* A process that is not restarted presents the new password to the database
\* (pool.ts:35-41), whatever was read before the rotation and arrived after it; the
\* database refuses it only if the secret now names another user than the pool does.
PasswordFollowsRotation ==
    \A q \in Queries : mode = "secret" /\ pc[q] = "auth" /\ Settled =>
        /\ credential[q] = secret.password
        /\ Accepted(q) \/ userOf[using[q]] # secret.user

\* docs/operations/README.md:83-85: "The Lambda re-reads the secret per new connection
\* (cached 5 min), so a rotation needs no restart".
RotationNeedsNoRestart ==
    \A q \in Queries : mode = "secret" /\ pc[q] = "auth" /\ Settled => Accepted(q)

\* Every open connection belongs to the cached pool (pool.ts:14-18): no pool is
\* overwritten with connections in it, none outlives closePool. It holds of a process
\* that serves one request at a time; two first queries at once each build a pool.
NothingLeaks == Concurrency = 1 => \A c \in connections : c.pool = pool

\* An environment that serves one request at a time holds one connection, not `max`,
\* so that RDS Proxy sees no more connections than environments (pool.ts:14-18, 70).
OneConnectionEach == Concurrency = 1 => Cardinality(connections) <= 1

\* A query never waits for ever for a connection (connectionTimeoutMillis); what it
\* may wait for without end is the secret that names the user, in buildConfig.
QueriesEnd ==
    \A q \in Queries : mode # "url" /\ pc[q] # "idle" ~> pc[q] \in {"done", "failed", "read"}
-----------------------------------------------------------------------------
(* The inductive invariant of DbPoolProofs.                                  *)

\* Who waits for a connection has a pool, with a user if a secret names it; a version
\* of the secret or a token is awaited where one is used.
Handled ==
    /\ \A q \in Queries :
          /\ pc[q] \in {"read", "ask"} => asked[q] # None
          /\ asked[q] # None =>
                /\ pc[q] \in {"read", "ask", "failed"}
                /\ \/ mode = "iam" /\ asked[q] \in Signatures /\ pc[q] # "read"
                   \/ mode = "secret" /\ asked[q] \in Versions
    /\ mode = "secret" =>
          /\ pool # None => userOf[pool] \in Users
          /\ \A q \in Queries : pc[q] = "built" => userOf[q] \in Users
    /\ \A q \in Queries : pc[q] \in Waiting =>
          /\ using[q] \in Queries
          /\ mode = "secret" => userOf[using[q]] \in Users

\* A query started ConnectionTimeout before its deadline and is gone after it.
Timed ==
    mode # "url" => \A q \in Queries : pc[q] \in Waiting =>
        now <= deadline[q] /\ deadline[q] <= now + ConnectionTimeout

\* A token is never so old that a query could wait it out.
TokenOutlivesWait ==
    mode = "iam" => \A q \in Queries :
        /\ pc[q] = "ask" => deadline[q] < asked[q].signed + TokenTTL + ConnectionTimeout
        /\ pc[q] = "auth" =>
              /\ credential[q] \in Nat
              /\ deadline[q] < credential[q] + TokenTTL + ConnectionTimeout

\* A version that arrived after lastStale is the current one, a version that is not
\* being rotated opens the database, and a password read late enough is the current one.
SecretIsCurrent ==
    /\ lastStale <= now
    /\ secretCache # None =>
          /\ secretCache.fetched <= now
          /\ secretCache.fetched > lastStale => secretCache.version = secret
    /\ rotation = None => password[secret.user] = secret.password
    /\ rotation # None => password[rotation.user] = rotation.password
    /\ mode = "secret" => \A q \in Queries :
          pc[q] = "auth" /\ deadline[q] >= lastStale + MaxAge + ConnectionTimeout =>
              credential[q] = secret.password

\* One query is in flight; it builds a pool when there is none, connects when there
\* is no connection and runs on the only one.
Alone ==
    Concurrency = 1 =>
        /\ \A q, r \in InFlight : q = r
        /\ \A c \in connections : c.pool = pool /\ (c.state = "busy" => pc[c.by] = "run")
        /\ \A c, d \in connections : c = d
        /\ \A q \in Queries :
              /\ pc[q] \in {"build", "read", "built"} => pool = None
              /\ pc[q] = "acquire" => using[q] = pool \/ using[q] \in ended
              /\ pc[q] \in Opens => using[q] = pool /\ connections = {}

IInv == TypeOK /\ Handled /\ Timed /\ TokenOutlivesWait /\ SecretIsCurrent /\ Alone
=============================================================================
