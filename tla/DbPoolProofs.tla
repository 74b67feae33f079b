---------------------------- MODULE DbPoolProofs ----------------------------
(***************************************************************************)
(* For every number of queries, of connections and of rotations, and for   *)
(* every timeout and cache age the assumptions allow: the types of DbPool, *)
(* that a token is young enough when it is presented, that a new password  *)
(* is used without a restart whatever arrives late, and that a process     *)
(* that serves one request at a time leaks no connection and holds one.    *)
(***************************************************************************)
EXTENDS DbPool, FiniteSetTheorems, TLAPS

\* The invariant holds at first.
LEMMA InitInv == Init => IInv
<1> SUFFICES ASSUME Init PROVE IInv
  OBVIOUS
<1> USE PoolAssumption DEF Init
<1>1. TypeOK
  BY DEF TypeOK, Phases, Versions
<1>2. Handled /\ Timed /\ TokenOutlivesWait
  BY DEF Handled, Timed, TokenOutlivesWait, Waiting
<1>3. SecretIsCurrent
  BY DEF SecretIsCurrent, Versions
<1>4. Alone
  BY DEF Alone, InFlight
<1>5. QED
  BY <1>1, <1>2, <1>3, <1>4 DEF IInv

\* What Powertools keeps is a version of the secret.
LEMMA KeptType ==
    ASSUME TypeOK, SecretKept
    PROVE  /\ secretCache.version \in Versions
           /\ secretCache.version.user \in Users
           /\ secretCache.version.password \in Nat
           /\ secretCache.fetched \in Nat
BY PoolAssumption DEF TypeOK, SecretKept, Versions, Fetched

\* A connection that is released or dropped stays in its pool.
LEMMA StateChanges ==
    ASSUME NEW c \in Connections, NEW state \in {"idle", "dead"}
    PROVE  /\ [c EXCEPT !.state = state] \in Connections
           /\ [c EXCEPT !.state = state].pool = c.pool
           /\ [c EXCEPT !.state = state].state = state
BY DEF Connections

\* So does one that is handed to a query.
LEMMA Handover ==
    ASSUME NEW c \in Connections, NEW q \in Queries
    PROVE  /\ [c EXCEPT !.by = q, !.state = "busy"] \in Connections
           /\ [c EXCEPT !.by = q, !.state = "busy"].pool = c.pool
           /\ [c EXCEPT !.by = q, !.state = "busy"].by = q
BY DEF Connections

\* A query that is getting a pool keeps the types.
LEMMA PoolSteps ==
    ASSUME TypeOK, Handled, NEW q \in Queries,
           Start(q) \/ Build(q) \/ BuildFails(q) \/ AskUser(q) \/ Install(q)
    PROVE  TypeOK' /\ Handled'
<1> USE PoolAssumption DEF TypeOK, Handled, Phases, Waiting, Handed, Fail,
        services, kept, caches, poolState, local
<1>1. CASE Start(q)
  BY <1>1 DEF Start
<1>2. CASE Build(q)
  <2>1. CASE mode = "secret"
    <3>1. /\ secretCache.version.user \in Users
          /\ userOf' = [userOf EXCEPT ![q] = secretCache.version.user]
      BY <1>2, <2>1, KeptType DEF Build
    <3>2. pc' = [pc EXCEPT ![q] = "built"]
      BY <1>2 DEF Build
    <3>3. UNCHANGED <<services, caches, pool, ended, local, connections>>
      BY <1>2 DEF Build
    <3>4. pc[q] = "build"
      BY <1>2 DEF Build
    <3>5. QED
      BY <2>1, <3>1, <3>2, <3>3, <3>4
  <2>2. CASE mode # "secret"
    BY <1>2, <2>2 DEF Build
  <2>3. QED
    BY <2>1, <2>2
<1>3. CASE BuildFails(q)
  BY <1>3 DEF BuildFails
<1>4. CASE AskUser(q)
  BY <1>4 DEF AskUser, Ask
<1>5. CASE Install(q)
  BY <1>5 DEF Install
<1>6. QED
  BY <1>1, <1>2, <1>3, <1>4, <1>5

\* So does a query that is getting a connection.
LEMMA ConnectionSteps ==
    ASSUME TypeOK, Handled, NEW q \in Queries, Connecting(q)
    PROVE  TypeOK' /\ Handled'
<1> USE PoolAssumption DEF TypeOK, Handled, Phases, Waiting, Fail, Connections, Of, Present,
        services, kept, caches, poolState, local
<1>1. CASE Reuse(q)
  <2>1. PICK c \in Of(using[q]) :
           \/ connections' = (connections \ {c}) \cup {[c EXCEPT !.by = q, !.state = "busy"]}
           \/ connections' = connections \ {c}
    <3> HIDE DEF TypeOK, Handled, Of, Connections
    <3>1. QED
      BY <1>1, Zenon DEF Reuse
  <2>2. [c EXCEPT !.by = q, !.state = "busy"] \in Connections
    <3>1. c \in Connections
      BY <2>1
    <3>2. QED
      BY <3>1, Handover
  <2>3. connections' \subseteq Connections
    <3> HIDE DEF Handled, Connections
    <3>1. QED
      BY <2>1, <2>2
  <2>4. /\ pc[q] = "acquire"
        /\ pc' = [pc EXCEPT ![q] = "run"] \/ pc' = [pc EXCEPT ![q] = "failed"]
        /\ UNCHANGED <<services, caches, poolState, local>>
    BY <1>1 DEF Reuse
  <2>5. QED
    BY <2>3, <2>4
<1>2. CASE Open(q)
  BY <1>2 DEF Open
<1>3. CASE PresentOwn(q)
  BY <1>3 DEF PresentOwn
<1>4. CASE PresentToken(q)
  BY <1>4 DEF PresentToken, TokenKept
<1>5. CASE PresentPassword(q)
  <2>1. secretCache.version.password \in Nat
    BY <1>5, KeptType DEF PresentPassword
  <2>2. QED
    BY <1>5, <2>1 DEF PresentPassword
<1>6. CASE AskToken(q)
  BY <1>6 DEF AskToken, Ask, Signatures
<1>7. CASE AskPassword(q)
  BY <1>7 DEF AskPassword, Ask
<1>8. CASE Authenticate(q)
  BY <1>8 DEF Authenticate
<1>9. CASE ConnectFails(q)
  BY <1>9 DEF ConnectFails, Opens
<1>10. QED
  BY <1>1, <1>2, <1>3, <1>4, <1>5, <1>6, <1>7, <1>8, <1>9 DEF Connecting

\* What a query awaited has its type, and the query goes on or stays failed.
LEMMA Arriving ==
    ASSUME TypeOK, Handled, NEW q \in Queries, asked[q] # None
    PROVE  /\ pc[q] \in {"read", "ask", "failed"}
           /\ mode = "iam" => asked[q].signed \in Nat /\ pc[q] # "read"
           /\ mode = "secret" =>
                 /\ asked[q] \in Versions
                 /\ asked[q].user \in Users /\ asked[q].password \in Nat
                 /\ [version |-> asked[q], fetched |-> now] \in Fetched
BY PoolAssumption DEF TypeOK, Handled, Versions, Signatures, Fetched

\* So does the arrival of what a query awaited, or its failure.
LEMMA ArrivalSteps ==
    ASSUME TypeOK, Handled, NEW q \in Queries, Arrives(q)
    PROVE  TypeOK' /\ Handled'
<1> USE PoolAssumption DEF TypeOK, Handled, Phases, Waiting, Fail, services, kept, caches,
        poolState, local
<1>1. CASE TokenArrives(q)
  <2>1. asked[q].signed \in Nat /\ pc[q] \in {"ask", "failed"}
    BY <1>1, Arriving DEF TokenArrives
  <2>2. QED
    BY <1>1, <2>1 DEF TokenArrives, Resume
<1>2. CASE SecretArrives(q)
  <2>1. /\ pc[q] \in {"read", "ask", "failed"}
        /\ asked[q].user \in Users /\ asked[q].password \in Nat
        /\ secretCache' \in Fetched /\ lastStale' \in Nat
    BY <1>2, Arriving DEF SecretArrives
  <2>2. /\ userOf' = IF pc[q] = "read" THEN [userOf EXCEPT ![q] = asked[q].user] ELSE userOf
        /\ Resume(q, asked[q].password)
        /\ UNCHANGED tokenCache /\ mode = "secret"
    BY <1>2 DEF SecretArrives
  <2>3. QED
    BY <2>1, <2>2 DEF Resume
<1>3. CASE AskFails(q)
  BY <1>3 DEF AskFails
<1>4. QED
  BY <1>1, <1>2, <1>3 DEF Arrives

\* So does the end of a query.
LEMMA EndSteps ==
    ASSUME TypeOK, Handled, NEW q \in Queries, Refused(q) \/ TimesOut(q) \/ Finish(q)
    PROVE  TypeOK' /\ Handled'
BY PoolAssumption DEF TypeOK, Handled, Phases, Waiting, Fail, Connections,
     services, kept, caches, poolState, local, Refused, TimesOut, Finish

\* So do the shutdown, the other side, a rotation and the clock.
LEMMA OutsideSteps ==
    ASSUME TypeOK, Handled,
           \/ CloseBegins \/ CloseEnds \/ Drop \/ Reap
           \/ \E u \in Users : RotateDatabase(u)
           \/ RotateSecret \/ Tick
    PROVE  TypeOK' /\ Handled'
<1> USE PoolAssumption DEF TypeOK, Handled, Connections, services, kept, caches, poolState, local
<1>1. CASE CloseBegins
  BY <1>1 DEF CloseBegins
<1>2. CASE CloseEnds
  BY <1>2 DEF CloseEnds
<1>3. CASE Drop \/ Reap
  BY <1>3 DEF Drop, Reap
<1>4. ASSUME NEW u \in Users, RotateDatabase(u)
      PROVE  TypeOK' /\ Handled'
  BY <1>4 DEF RotateDatabase, Versions
<1>5. CASE RotateSecret
  <2>1. /\ rotation \in Versions
        /\ \A q \in Queries : asked'[q] = asked[q] \/
              (mode = "secret" /\ asked[q] # None /\ asked'[q] = rotation)
        /\ asked' \in [Queries -> Versions \cup Signatures \cup {None}]
    BY <1>5 DEF RotateSecret
  <2>2. QED
    BY <1>5, <2>1 DEF RotateSecret
<1>6. CASE Tick
  BY <1>6 DEF Tick
<1>7. QED
  BY <1>1, <1>2, <1>3, <1>4, <1>5, <1>6

-----------------------------------------------------------------------------
\* A step of a query, a shutdown, the other side and a rotation take no time, and a
\* query that waits after them waited before or was handed its pool just now.
LEMMA WaitersWaited ==
    ASSUME TypeOK, Next, ~Tick
    PROVE  /\ now' = now /\ mode' = mode
           /\ \A q \in Queries : pc'[q] \in Waiting =>
                 \/ pc[q] \in Waiting /\ deadline'[q] = deadline[q]
                 \/ deadline'[q] = now + ConnectionTimeout
<1> USE DEF TypeOK, Waiting, Handed, Fail, Present, services, kept, caches, poolState, local
<1>1. ASSUME NEW r \in Queries, Start(r) \/ Progress(r)
      PROVE  /\ now' = now /\ mode' = mode
             /\ \A q \in Queries : pc'[q] \in Waiting =>
                   \/ pc[q] \in Waiting /\ deadline'[q] = deadline[q]
                   \/ deadline'[q] = now + ConnectionTimeout
  BY <1>1 DEF Start, Progress, Build, BuildFails, AskUser, Ask, Install, Refused, TimesOut, Finish
<1>2. ASSUME NEW r \in Queries, Connecting(r)
      PROVE  /\ UNCHANGED <<now, mode, deadline>>
             /\ pc[r] \in Waiting
             /\ \A q \in Queries \ {r} : pc'[q] = pc[q]
  BY <1>2 DEF Opens, Connecting, Reuse, Open, PresentOwn, PresentToken, PresentPassword,
       AskToken, AskPassword, Ask, Authenticate, ConnectFails
<1>3. ASSUME NEW r \in Queries, Arrives(r)
      PROVE  /\ UNCHANGED <<now, mode, deadline>>
             /\ pc'[r] \in Waiting => pc[r] \in Waiting
             /\ \A q \in Queries \ {r} : pc'[q] = pc[q]
  BY <1>3 DEF Arrives, TokenArrives, SecretArrives, AskFails, Resume
<1>4. ASSUME CloseBegins \/ CloseEnds \/ Drop \/ Reap
             \/ (\E u \in Users : RotateDatabase(u)) \/ RotateSecret
      PROVE  UNCHANGED <<now, mode, pc, deadline>>
  BY <1>4 DEF CloseBegins, CloseEnds, Drop, Reap, RotateDatabase, RotateSecret
<1>5. QED
  BY <1>1, <1>2, <1>3, <1>4 DEF Next

\* No query is past its deadline.
LEMMA TimedSteps ==
    ASSUME TypeOK, Timed, Next
    PROVE  Timed'
<1> USE PoolAssumption DEF TypeOK, Timed
<1>1. CASE Tick
  BY <1>1 DEF Tick, local
<1>2. CASE ~Tick
  BY <1>2, WaitersWaited
<1>3. QED
  BY <1>1, <1>2

\* Who awaits a token awaited it before, or reads the clock for it just now.
LEMMA Asked ==
    ASSUME TypeOK, Next, mode = "iam", NEW q \in Queries, pc'[q] = "ask"
    PROVE  /\ deadline'[q] = deadline[q]
           /\ \/ pc[q] = "ask" /\ asked'[q] = asked[q]
              \/ pc[q] = "connect" /\ asked'[q] = [signed |-> now]
<1> USE DEF TypeOK, Handed, Fail, Present, Ask, services, kept, caches, poolState, local
<1>1. ASSUME NEW r \in Queries, Start(r) \/ Progress(r)
      PROVE  pc'[q] = pc[q] /\ deadline'[q] = deadline[q] /\ asked'[q] = asked[q]
  BY <1>1 DEF Start, Progress, Build, BuildFails, AskUser, Install, Refused, TimesOut, Finish
<1>2. ASSUME NEW r \in Queries, Connecting(r)
      PROVE  /\ deadline'[q] = deadline[q]
             /\ \/ pc[q] = "ask" /\ asked'[q] = asked[q]
                \/ pc[q] = "connect" /\ asked'[q] = [signed |-> now]
  BY <1>2 DEF Connecting, Reuse, Open, PresentOwn, PresentToken, PresentPassword,
       AskToken, AskPassword, Authenticate, ConnectFails
<1>3. ASSUME NEW r \in Queries, Arrives(r)
      PROVE  pc'[q] = pc[q] /\ deadline'[q] = deadline[q] /\ asked'[q] = asked[q]
  BY <1>3 DEF Arrives, TokenArrives, SecretArrives, AskFails, Resume
<1>4. ASSUME CloseBegins \/ CloseEnds \/ Drop \/ Reap
             \/ (\E u \in Users : RotateDatabase(u)) \/ RotateSecret \/ Tick
      PROVE  pc'[q] = pc[q] /\ deadline'[q] = deadline[q] /\ asked'[q] = asked[q]
  BY <1>4 DEF CloseBegins, CloseEnds, Drop, Reap, RotateDatabase, RotateSecret, Tick
<1>5. QED
  BY <1>1, <1>2, <1>3, <1>4 DEF Next

\* What a query presents it had, or found in a cache that may still be used, or it
\* arrived just now.
LEMMA Presented ==
    ASSUME TypeOK, Next, NEW q \in Queries, pc'[q] = "auth"
    PROVE  /\ mode' = mode /\ deadline'[q] = deadline[q]
           /\ \/ pc[q] = "auth" /\ credential'[q] = credential[q]
              \/ pc[q] = "connect" /\ mode \in {"url", "plain"}
              \/ /\ pc[q] = "connect" /\ mode = "iam"
                 /\ credential'[q] \in Nat /\ now < credential'[q] + TokenTTL
              \/ /\ pc[q] = "ask" /\ mode = "iam" /\ asked[q] # None
                 /\ credential'[q] = asked[q].signed
              \/ /\ pc[q] = "connect" /\ mode = "secret" /\ SecretKept
                 /\ credential'[q] = secretCache.version.password
                 /\ UNCHANGED <<now, secret, rotation, lastStale>>
              \/ /\ pc[q] = "ask" /\ SecretArrives(q)
                 /\ credential'[q] = asked[q].password
<1> USE PoolAssumption DEF TypeOK, Handed, Fail, Present, Ask, services, kept, caches,
        poolState, local
<1>1. ASSUME NEW r \in Queries, Start(r) \/ Progress(r)
      PROVE  /\ q # r /\ mode' = mode
             /\ pc'[q] = pc[q] /\ deadline'[q] = deadline[q] /\ credential'[q] = credential[q]
  BY <1>1 DEF Start, Progress, Build, BuildFails, AskUser, Install, Refused, TimesOut, Finish
<1>2. ASSUME NEW r \in Queries \ {q}, Connecting(r) \/ Arrives(r)
      PROVE  /\ mode' = mode
             /\ pc'[q] = pc[q] /\ deadline'[q] = deadline[q] /\ credential'[q] = credential[q]
  BY <1>2 DEF Connecting, Reuse, Open, PresentOwn, PresentToken, PresentPassword, AskToken,
       AskPassword, Authenticate, ConnectFails,
       Arrives, TokenArrives, SecretArrives, AskFails, Resume
<1>3. ASSUME Reuse(q) \/ Open(q) \/ AskToken(q) \/ AskPassword(q) \/ Authenticate(q)
             \/ ConnectFails(q) \/ AskFails(q)
      PROVE  FALSE
  BY <1>3 DEF Reuse, Open, AskToken, AskPassword, Authenticate, ConnectFails, AskFails
<1>4. ASSUME PresentToken(q)
      PROVE  /\ mode' = mode /\ deadline' = deadline
             /\ pc[q] = "connect" /\ mode = "iam"
             /\ credential'[q] \in Nat /\ now < credential'[q] + TokenTTL
  BY <1>4 DEF PresentToken, TokenKept
<1>5. CASE PresentOwn(q) \/ PresentPassword(q)
  BY <1>5 DEF PresentOwn, PresentPassword
<1>6. ASSUME TokenArrives(q) \/ SecretArrives(q)
      PROVE  /\ mode' = mode /\ deadline' = deadline
             /\ \/ pc[q] = "auth" /\ credential'[q] = credential[q]
                \/ /\ pc[q] = "ask" /\ mode = "iam" /\ asked[q] # None
                   /\ credential'[q] = asked[q].signed
                \/ /\ pc[q] = "ask" /\ SecretArrives(q)
                   /\ credential'[q] = asked[q].password
  BY <1>6 DEF TokenArrives, SecretArrives, Resume
<1>7. ASSUME CloseBegins \/ CloseEnds \/ Drop \/ Reap
             \/ (\E u \in Users : RotateDatabase(u)) \/ RotateSecret \/ Tick
      PROVE  UNCHANGED <<mode, pc, deadline, credential>>
  BY <1>7 DEF CloseBegins, CloseEnds, Drop, Reap, RotateDatabase, RotateSecret, Tick
<1>8. CASE \E r \in Queries : Connecting(r) \/ Arrives(r)
  <2>1. CASE Connecting(q) \/ Arrives(q)
    BY <2>1, <1>3, <1>4, <1>5, <1>6 DEF Connecting, Arrives
  <2>2. CASE \E r \in Queries \ {q} : Connecting(r) \/ Arrives(r)
    BY <2>2, <1>2
  <2>3. QED
    BY <1>8, <2>1, <2>2
<1>9. QED
  BY <1>1, <1>7, <1>8 DEF Next

\* A query that awaits or presents a token does so before the token is too old.
LEMMA TokenSteps ==
    ASSUME TypeOK, Handled, Timed, TokenOutlivesWait, Next
    PROVE  TokenOutlivesWait'
<1> SUFFICES ASSUME mode' = "iam", NEW q \in Queries
             PROVE  /\ pc'[q] = "ask" =>
                          deadline'[q] < asked'[q].signed + TokenTTL + ConnectionTimeout
                    /\ pc'[q] = "auth" =>
                          /\ credential'[q] \in Nat
                          /\ deadline'[q] < credential'[q] + TokenTTL + ConnectionTimeout
  BY DEF TokenOutlivesWait
<1>1. mode = "iam"
  BY WaitersWaited DEF Tick
<1>2. pc[q] = "connect" =>
          deadline[q] \in Nat /\ now \in Nat /\ deadline[q] <= now + ConnectionTimeout
  BY <1>1 DEF TypeOK, Timed, Waiting
<1>3. ASSUME pc'[q] = "ask"
      PROVE  deadline'[q] < asked'[q].signed + TokenTTL + ConnectionTimeout
  <2>1. CASE pc[q] = "ask" /\ asked'[q] = asked[q]
    BY <1>1, <1>3, <2>1, Asked DEF TokenOutlivesWait
  <2>2. CASE pc[q] = "connect" /\ asked'[q] = [signed |-> now]
    BY <1>1, <1>2, <1>3, <2>2, Asked, PoolAssumption
  <2>3. QED
    BY <1>1, <1>3, <2>1, <2>2, Asked
<1>4. ASSUME pc'[q] = "auth"
      PROVE  /\ credential'[q] \in Nat
             /\ deadline'[q] < credential'[q] + TokenTTL + ConnectionTimeout
  <2>1. CASE pc[q] = "auth" /\ credential'[q] = credential[q]
    BY <1>1, <1>4, <2>1, Presented DEF TokenOutlivesWait
  <2>2. CASE pc[q] = "connect" /\ credential'[q] \in Nat /\ now < credential'[q] + TokenTTL
    BY <1>2, <1>4, <2>2, Presented, PoolAssumption
  <2>3. CASE pc[q] = "ask" /\ asked[q] # None /\ credential'[q] = asked[q].signed
    BY <1>1, <1>4, <2>3, Presented, Arriving DEF TokenOutlivesWait
  <2>4. QED
    BY <1>1, <1>4, <2>1, <2>2, <2>3, Presented DEF SecretArrives
<1>5. QED
  BY <1>3, <1>4

\* The secret and its cache change by a rotation, or by the arrival of a version.
LEMMA SecretFrame ==
    ASSUME TypeOK, Next, ~RotateSecret, \A u \in Users : ~RotateDatabase(u)
    PROVE  /\ UNCHANGED <<secret, rotation, password>>
           /\ now' \in {now, now + 1}
           /\ \/ UNCHANGED <<secretCache, lastStale>>
              \/ now' = now /\ \E q \in Queries : SecretArrives(q)
<1> USE DEF Handed, Fail, Present, Ask, services, kept, caches, poolState, local
<1>1. ASSUME NEW r \in Queries, Start(r) \/ Progress(r)
      PROVE  UNCHANGED <<services, secretCache, lastStale>>
  BY <1>1 DEF Start, Progress, Build, BuildFails, AskUser, Install, Refused, TimesOut, Finish
<1>2. ASSUME NEW r \in Queries, Connecting(r)
      PROVE  UNCHANGED <<services, secretCache, lastStale>>
  BY <1>2 DEF Connecting, Reuse, Open, PresentOwn, PresentToken, PresentPassword, AskToken,
       AskPassword, Authenticate, ConnectFails
<1>3. ASSUME NEW r \in Queries, Arrives(r)
      PROVE  /\ UNCHANGED services
             /\ UNCHANGED <<secretCache, lastStale>> \/ SecretArrives(r)
  BY <1>3 DEF Arrives, TokenArrives, SecretArrives, AskFails, Resume
<1>4. ASSUME CloseBegins \/ CloseEnds \/ Drop \/ Reap \/ Tick
      PROVE  /\ UNCHANGED <<secret, rotation, password, secretCache, lastStale>>
             /\ now' \in {now, now + 1}
  BY <1>4 DEF CloseBegins, CloseEnds, Drop, Reap, Tick
<1>5. QED
  BY <1>1, <1>2, <1>3, <1>4 DEF Next

\* The cached secret and the passwords stay in step with the rotations.
LEMMA SecretCacheSteps ==
    ASSUME TypeOK, SecretIsCurrent, Next
    PROVE  /\ (lastStale <= now)'
           /\ (secretCache # None =>
                 /\ secretCache.fetched <= now
                 /\ secretCache.fetched > lastStale => secretCache.version = secret)'
           /\ (rotation = None => password[secret.user] = secret.password)'
           /\ (rotation # None => password[rotation.user] = rotation.password)'
<1> USE PoolAssumption DEF TypeOK, SecretIsCurrent, Versions, Fetched
<1>1. ASSUME NEW u \in Users, RotateDatabase(u)
      PROVE  /\ UNCHANGED <<now, lastStale, secret, secretCache>>
             /\ rotation' # None /\ password'[rotation'.user] = rotation'.password
  BY <1>1 DEF RotateDatabase, kept, caches
<1>2. CASE RotateSecret
  BY <1>2 DEF RotateSecret
<1>3. CASE ~RotateSecret /\ \A u \in Users : ~RotateDatabase(u)
  <2>1. /\ UNCHANGED <<secret, rotation, password>>
        /\ now' \in {now, now + 1}
    BY <1>3, SecretFrame
  <2>2. CASE UNCHANGED <<secretCache, lastStale>>
    BY <2>1, <2>2
  <2>3. ASSUME NEW q \in Queries, SecretArrives(q), now' = now
        PROVE  /\ secretCache' = [version |-> asked[q], fetched |-> now]
               /\ lastStale' = IF asked[q] = secret THEN lastStale ELSE now
    BY <2>3 DEF SecretArrives
  <2>4. QED
    BY <1>3, <2>1, <2>2, <2>3, SecretFrame
<1>4. QED
  BY <1>1, <1>2, <1>3

\* A password that is presented late enough after a rotation is the current one.
LEMMA PasswordSteps ==
    ASSUME TypeOK, Handled, Timed, SecretIsCurrent, Next, mode' = "secret",
           NEW q \in Queries, pc'[q] = "auth",
           deadline'[q] >= lastStale' + MaxAge + ConnectionTimeout
    PROVE  credential'[q] = secret'.password
<1>1. mode = "secret" /\ deadline'[q] = deadline[q] /\ pc[q] \in Waiting
  BY Presented DEF Waiting, SecretArrives
<1>2. /\ now \in Nat /\ deadline[q] \in Nat /\ lastStale \in Nat
      /\ deadline[q] <= now + ConnectionTimeout
  BY <1>1 DEF TypeOK, Timed
<1>3. lastStale' # now
  BY <1>1, <1>2, PoolAssumption
<1>4. ~RotateSecret
  BY <1>3 DEF RotateSecret
<1>5. secret' = secret
  BY <1>4, SecretFrame DEF RotateDatabase
<1>6. lastStale' = lastStale
  BY <1>3, <1>4, SecretFrame DEF RotateDatabase, SecretArrives, kept, caches
<1>7. CASE pc[q] = "auth" /\ credential'[q] = credential[q]
  BY <1>1, <1>5, <1>6, <1>7 DEF SecretIsCurrent
<1>8. CASE SecretKept /\ credential'[q] = secretCache.version.password
  <2>1. now >= lastStale + MaxAge
    BY <1>1, <1>2, <1>6, PoolAssumption
  <2>2. secretCache # None /\ secretCache.fetched > lastStale
    BY <1>2, <1>8, <2>1, KeptType, PoolAssumption DEF SecretKept
  <2>3. QED
    BY <1>5, <1>8, <2>2 DEF SecretIsCurrent
<1>9. CASE SecretArrives(q) /\ credential'[q] = asked[q].password
  <2>1. asked[q] = secret
    BY <1>3, <1>9 DEF SecretArrives
  <2>2. QED
    BY <1>5, <1>9, <2>1
<1>10. QED
  BY <1>1, <1>7, <1>8, <1>9, Presented

\* So the secret is current after every step.
LEMMA SecretSteps ==
    ASSUME TypeOK, Handled, Timed, SecretIsCurrent, Next
    PROVE  SecretIsCurrent'
BY SecretCacheSteps, PasswordSteps DEF SecretIsCurrent

-----------------------------------------------------------------------------
\* A query that is served alone starts when none is in flight.
LEMMA StartsAlone ==
    ASSUME Concurrency = 1, Alone, Cardinality(InFlight) < Concurrency
    PROVE  InFlight = {}
<1>1. SUFFICES ASSUME NEW q \in InFlight PROVE FALSE
  OBVIOUS
<1>2. InFlight = {q}
  BY <1>1 DEF Alone
<1>3. Cardinality(InFlight) = 1
  BY <1>2, FS_Singleton
<1>4. QED
  BY <1>3

\* While a query is served alone, no other is in flight.
LEMMA OthersRest ==
    ASSUME Concurrency = 1, TypeOK, Handled, Alone, NEW q \in Queries,
           \/ Start(q) \/ Progress(q) \/ Connecting(q)
           \/ Arrives(q) /\ pc[q] # "failed"
    PROVE  \A r \in Queries \ {q} : pc[r] \in {"idle", "done", "failed"}
<1>1. CASE Start(q)
  BY <1>1, StartsAlone DEF Start, InFlight
<1>2. CASE Progress(q) \/ Connecting(q)
  <2>1. q \in InFlight
    BY <1>2 DEF InFlight, Waiting, Opens, Progress, Build, BuildFails, AskUser, Install, Refused,
         TimesOut, Finish, Connecting, Reuse, Open, PresentOwn, PresentToken, PresentPassword,
         AskToken, AskPassword, Authenticate, ConnectFails
  <2>2. QED
    BY <2>1 DEF Alone, InFlight
<1>3. CASE Arrives(q) /\ pc[q] # "failed"
  <2>1. q \in InFlight
    BY <1>3, Arriving DEF InFlight, Arrives, TokenArrives, SecretArrives, AskFails
  <2>2. QED
    BY <2>1 DEF Alone, InFlight
<1>4. QED
  BY <1>1, <1>2, <1>3

\* So its step need only be looked at where it is.
LEMMA AloneAt ==
    ASSUME Concurrency = 1, TypeOK, TypeOK', NEW q \in Queries,
           \A r \in Queries \ {q} : pc[r] \in {"idle", "done", "failed"},
           NEW phase \in Phases, pc' = [pc EXCEPT ![q] = phase],
           \A c \in connections' : c.pool = pool' /\ (c.state = "busy" => pc'[c.by] = "run"),
           \A c, d \in connections' : c = d,
           phase \in {"build", "read", "built"} => pool' = None,
           phase = "acquire" => using'[q] = pool' \/ using'[q] \in ended',
           phase \in Opens => using'[q] = pool' /\ connections' = {}
    PROVE  Alone'
<1>1. \A r \in Queries : pc'[r] = IF r = q THEN phase ELSE pc[r]
  BY DEF TypeOK
<1>2. \A r, s \in InFlight' : r = s
  BY <1>1 DEF InFlight
<1>3. QED
  BY <1>1, <1>2 DEF Alone, Opens

\* A query that gets its pool.
LEMMA AlonePool ==
    ASSUME Concurrency = 1, TypeOK, TypeOK', Handled, Alone, NEW q \in Queries,
           Start(q) \/ Build(q) \/ AskUser(q) \/ Install(q)
    PROVE  Alone'
<1>1. \A r \in Queries \ {q} : pc[r] \in {"idle", "done", "failed"}
  BY OthersRest DEF Progress
<1>2. connections' = connections /\ ended' = ended
  BY DEF Start, Build, AskUser, Ask, Install, poolState, local
<1>3. \A c \in connections : c.by \in Queries /\ c.state # "busy"
  BY <1>1 DEF Alone, TypeOK, Connections, Start, Build, AskUser, Install
<1>4. CASE Start(q) /\ pool # None
  <2>1. pc' = [pc EXCEPT ![q] = "acquire"] /\ using'[q] = pool /\ pool' = pool
    BY <1>4 DEF Start, Handed, TypeOK, poolState
  <2>2. QED
    BY <1>1, <1>2, <1>3, <2>1, AloneAt DEF Alone, Phases, Opens
<1>5. CASE Start(q) /\ pool = None
  <2>1. pc' = [pc EXCEPT ![q] = "build"] /\ pool' = pool
    BY <1>5 DEF Start, TypeOK, poolState
  <2>2. QED
    BY <1>1, <1>2, <1>3, <1>5, <2>1, AloneAt DEF Alone, Phases, Opens
<1>6. CASE Build(q) \/ AskUser(q)
  <2>1. /\ \E phase \in {"read", "built"} : pc' = [pc EXCEPT ![q] = phase]
        /\ pool' = pool /\ pool = None
    BY <1>6 DEF Build, AskUser, Ask, Alone, poolState
  <2>2. QED
    BY <1>1, <1>2, <1>3, <2>1, AloneAt DEF Alone, Phases, Opens
<1>7. CASE Install(q)
  <2>1. pc' = [pc EXCEPT ![q] = "acquire"] /\ pool' = q /\ using'[q] = q /\ pool = None
    BY <1>7 DEF Install, Handed, Alone, TypeOK
  <2>2. connections = {}
    BY <2>1, PoolAssumption DEF Alone, TypeOK, Connections
  <2>3. QED
    BY <1>1, <1>2, <2>1, <2>2, AloneAt DEF Phases, Opens
<1>8. QED
  BY <1>4, <1>5, <1>6, <1>7

\* A query that opens its connection finds no other one, busy or not.
LEMMA AloneOpen ==
    ASSUME Concurrency = 1, TypeOK, TypeOK', Handled, Alone, NEW q \in Queries, Open(q)
    PROVE  Alone'
<1>1. \A r \in Queries \ {q} : pc[r] \in {"idle", "done", "failed"}
  BY OthersRest DEF Connecting
<1>2. /\ pc[q] = "acquire" /\ pc' = [pc EXCEPT ![q] = "connect"]
      /\ UNCHANGED <<pool, using, connections>>
      /\ using[q] = pool
  BY DEF Open, Alone, poolState, local
<1>3. connections = {}
  <2>1. SUFFICES ASSUME NEW c \in connections PROVE FALSE
    OBVIOUS
  <2>2. c.by \in Queries /\ c.state = "busy"
    BY <1>2 DEF Open, Of, Alone, TypeOK, Connections
  <2>3. QED
    BY <1>1, <1>2, <2>2 DEF Alone
<1>4. QED
  BY <1>1, <1>2, <1>3, AloneAt DEF Phases, Opens

\* A query whose connection is being made.
LEMMA AloneConnect ==
    ASSUME Concurrency = 1, TypeOK, TypeOK', Handled, Alone, NEW q \in Queries,
           \/ PresentOwn(q) \/ PresentToken(q) \/ PresentPassword(q)
           \/ AskToken(q) \/ AskPassword(q)
    PROVE  Alone'
<1>1. \A r \in Queries \ {q} : pc[r] \in {"idle", "done", "failed"}
  BY OthersRest DEF Connecting
<1>2. /\ pc[q] = "connect"
      /\ UNCHANGED <<pool, using, connections>>
      /\ \E phase \in {"ask", "auth"} : pc' = [pc EXCEPT ![q] = phase]
  BY DEF PresentOwn, PresentToken, PresentPassword, AskToken, AskPassword, Ask, Present,
       poolState, local
<1>3. using[q] = pool /\ connections = {}
  BY <1>2 DEF Alone, Opens
<1>4. QED
  BY <1>1, <1>2, <1>3, AloneAt DEF Phases, Opens

\* A query that goes on with what it awaited, or fails; what comes after a query has
\* failed changes nothing but the caches.
LEMMA AloneArrival ==
    ASSUME Concurrency = 1, TypeOK, TypeOK', Handled, Alone, NEW q \in Queries, Arrives(q)
    PROVE  Alone'
<1>1. /\ pc[q] \in {"read", "ask", "failed"}
      /\ UNCHANGED <<pool, ended, using, connections>>
      /\ \E phase \in Phases :
            /\ pc' = [pc EXCEPT ![q] = phase]
            /\ pc[q] = "read" => phase \in {"built", "failed"}
            /\ pc[q] = "ask" => phase \in {"auth", "failed"}
            /\ pc[q] = "failed" => phase = "failed"
  BY Arriving DEF Arrives, TokenArrives, SecretArrives, AskFails, Resume, Fail, Phases,
       poolState, local
<1>2. CASE pc[q] = "failed"
  <2>1. pc' = pc
    BY <1>1, <1>2 DEF TypeOK
  <2>2. QED
    BY <1>1, <2>1 DEF Alone, InFlight
<1>3. CASE pc[q] # "failed"
  <2>1. \A r \in Queries \ {q} : pc[r] \in {"idle", "done", "failed"}
    BY <1>3, OthersRest
  <2>2. \A c \in connections : c.by \in Queries /\ c.pool = pool /\ c.state # "busy"
    BY <1>1, <2>1 DEF Alone, TypeOK, Connections
  <2>3. /\ pc[q] = "read" => pool = None
        /\ pc[q] = "ask" => using[q] = pool /\ connections = {}
        /\ \A c, d \in connections : c = d
    BY DEF Alone, Opens
  <2>4. QED
    BY <1>1, <1>3, <2>1, <2>2, <2>3, AloneAt DEF Opens
<1>4. QED
  BY <1>2, <1>3

\* A query that gets to run has the only connection.
LEMMA AloneRun ==
    ASSUME Concurrency = 1, TypeOK, TypeOK', Handled, Alone, NEW q \in Queries,
           pc' = [pc EXCEPT ![q] = "run"], Reuse(q) \/ Authenticate(q)
    PROVE  Alone'
<1>1. \A r \in Queries \ {q} : pc[r] \in {"idle", "done", "failed"}
  BY OthersRest DEF Connecting
<1>2. pc'[q] = "run" /\ pool' = pool
  BY DEF TypeOK, Reuse, Authenticate, poolState
<1>3. \E d : connections' = {d} /\ d.pool = pool /\ d.by = q
  <2>1. CASE Authenticate(q)
    <3>1. pc[q] = "auth"
      BY <2>1 DEF Authenticate
    <3>2. using[q] = pool /\ connections = {}
      BY <3>1 DEF Alone, Opens
    <3>3. connections' = connections \cup {[by |-> q, pool |-> using[q], state |-> "busy"]}
      BY <1>2, <2>1 DEF Authenticate, Fail, TypeOK
    <3> DEFINE new == [by |-> q, pool |-> pool, state |-> "busy"]
    <3>4. connections' = {new}
      BY <3>2, <3>3
    <3>5. new.pool = pool /\ new.by = q
      OBVIOUS
    <3> HIDE DEF new
    <3>6. QED
      BY <3>4, <3>5
  <2>2. CASE Reuse(q)
    <3>1. PICK c \in Of(using[q]) :
             connections' = (connections \ {c}) \cup {[c EXCEPT !.by = q, !.state = "busy"]}
      <4>1. ~Fail(q)
        BY <1>2 DEF Fail, TypeOK
      <4>2. QED
        BY <2>2, <4>1, Zenon DEF Reuse
    <3>2. c \in Connections /\ connections = {c} /\ c.pool = pool
      BY <3>1 DEF Of, Alone, TypeOK
    <3>3. connections' = {[c EXCEPT !.by = q, !.state = "busy"]}
      BY <3>1, <3>2
    <3>4. QED
      BY <3>2, <3>3, Handover
  <2>3. QED
    BY <2>1, <2>2
<1>4. QED
  BY <1>1, <1>2, <1>3, AloneAt DEF Phases, Opens

\* A query that ends leaves its connection idle in the pool, or none.
LEMMA AloneEnd ==
    ASSUME Concurrency = 1, TypeOK, TypeOK', Handled, Alone, NEW q \in Queries,
           Progress(q) \/ Connecting(q),
           NEW phase \in {"done", "failed"}, pc' = [pc EXCEPT ![q] = phase]
    PROVE  Alone'
<1>1. \A r \in Queries \ {q} : pc[r] \in {"idle", "done", "failed"}
  BY OthersRest
<1>2. pc'[q] = phase
  BY DEF TypeOK
<1>3. CASE Finish(q)
  <2>1. PICK c \in connections :
           connections' \subseteq (connections \ {c}) \cup {[c EXCEPT !.state = "idle"]}
    <3>1. PICK c \in {d \in connections : d.by = q} :
             \/ connections' = (connections \ {c}) \cup
                   IF c.pool \in ended THEN {} ELSE {[c EXCEPT !.state = "idle"]}
             \/ connections' = connections \ {c}
      BY <1>3, Zenon DEF Finish
    <3>2. QED
      BY <3>1
  <2>2. c \in Connections /\ connections = {c} /\ c.pool = pool /\ pool' = pool
    BY <1>3, <2>1 DEF Alone, TypeOK, Finish, poolState
  <2>3. connections' \subseteq {[c EXCEPT !.state = "idle"]}
    BY <2>1, <2>2
  <2>4. \A d \in connections' : d.pool = pool' /\ d.state = "idle"
    BY <2>2, <2>3, StateChanges
  <2>5. QED
    BY <1>1, <2>3, <2>4, AloneAt DEF Phases, Opens
<1>4. CASE ~Finish(q)
  <2>1. pool' = pool /\ pc[q] # "run" /\ connections' \subseteq connections
    BY <1>2, <1>4 DEF Progress, Build, BuildFails, AskUser, Ask, Install, Refused, TimesOut,
         Connecting, Reuse, Open, PresentOwn, PresentToken, PresentPassword, AskToken,
         AskPassword, Authenticate, ConnectFails, Present, Handed, TypeOK, poolState, Waiting,
         Opens
  <2>2. \A c \in connections' : c.by \in Queries /\ c.pool = pool' /\ c.state # "busy"
    BY <1>1, <2>1 DEF Alone, TypeOK, Connections
  <2>3. \A c, d \in connections' : c = d
    BY <2>1 DEF Alone
  <2>4. QED
    BY <1>1, <2>2, <2>3, AloneAt DEF Phases, Opens
<1>5. QED
  BY <1>3, <1>4

\* A query's step keeps it alone.
LEMMA AloneQuery ==
    ASSUME Concurrency = 1, TypeOK, TypeOK', Handled, Alone, NEW q \in Queries,
           Start(q) \/ Progress(q) \/ Connecting(q) \/ Arrives(q)
    PROVE  Alone'
<1>1. CASE Start(q) \/ Build(q) \/ AskUser(q) \/ Install(q)
  BY <1>1, AlonePool
<1>2. CASE Open(q)
  BY <1>2, AloneOpen
<1>3. CASE \/ PresentOwn(q) \/ PresentToken(q) \/ PresentPassword(q)
           \/ AskToken(q) \/ AskPassword(q)
  BY <1>3, AloneConnect
<1>4. CASE BuildFails(q) \/ Refused(q) \/ TimesOut(q) \/ Finish(q)
  BY <1>4, AloneEnd DEF Progress, BuildFails, Refused, TimesOut, Finish, Fail
<1>5. CASE ConnectFails(q)
  BY <1>5, AloneEnd DEF Connecting, ConnectFails, Fail
<1>6. CASE Reuse(q) \/ Authenticate(q)
  <2>1. \/ pc' = [pc EXCEPT ![q] = "run"]
        \/ pc' = [pc EXCEPT ![q] = "failed"]
    BY <1>6 DEF Reuse, Authenticate, Fail
  <2>2. QED
    BY <1>6, <2>1, AloneRun, AloneEnd DEF Connecting
<1>7. CASE Arrives(q)
  BY <1>7, AloneArrival
<1>8. QED
  BY <1>1, <1>2, <1>3, <1>4, <1>5, <1>6, <1>7 DEF Progress, Connecting

\* A shutdown takes the pool away when nothing is in it; what the other side, a rotation
\* and the clock do opens no connection.
LEMMA AloneOutside ==
    ASSUME Concurrency = 1, TypeOK, TypeOK', Alone,
           \/ CloseBegins \/ CloseEnds \/ Drop \/ Reap
           \/ \E u \in Users : RotateDatabase(u)
           \/ RotateSecret \/ Tick
    PROVE  Alone'
<1>1. CASE CloseBegins
  BY <1>1 DEF CloseBegins, Alone, InFlight, Opens, local
<1>2. CASE CloseEnds
  BY <1>2, PoolAssumption DEF CloseEnds, Alone, InFlight, Of, Opening, Opens, TypeOK, local
<1>3. CASE Drop
  <2>1. PICK c \in connections :
           connections' = (connections \ {c}) \cup {[c EXCEPT !.state = "dead"]}
    BY <1>3, Zenon DEF Drop
  <2>2. c \in Connections /\ connections = {c} /\ c.pool = pool
    BY <2>1 DEF Alone, TypeOK
  <2>3. UNCHANGED <<poolState, pc, local>>
    BY <1>3 DEF Drop
  <2>4. \E d : connections' = {d} /\ d.pool = pool /\ d.state = "dead"
    <3>1. connections' = {[c EXCEPT !.state = "dead"]}
      BY <2>1, <2>2
    <3>2. /\ [c EXCEPT !.state = "dead"].pool = c.pool
          /\ [c EXCEPT !.state = "dead"].state = "dead"
      BY <2>2, StateChanges
    <3> DEFINE dropped == [c EXCEPT !.state = "dead"]
    <3> HIDE DEF dropped
    <3>3. connections' = {dropped} /\ dropped.pool = pool /\ dropped.state = "dead"
      BY <2>2, <3>1, <3>2 DEF dropped
    <3>4. QED
      BY <3>3
  <2>5. QED
    BY <2>2, <2>3, <2>4 DEF Alone, InFlight, poolState, local
<1>4. CASE Reap
  BY <1>4 DEF Reap, Alone, InFlight, poolState, local
<1>5. CASE (\E u \in Users : RotateDatabase(u)) \/ RotateSecret \/ Tick
  <2>1. UNCHANGED <<poolState, pc, local, connections>>
    BY <1>5 DEF RotateDatabase, RotateSecret, Tick, poolState, local
  <2>2. QED
    BY <2>1 DEF Alone, InFlight, poolState, local
<1>6. QED
  BY <1>1, <1>2, <1>3, <1>4, <1>5

-----------------------------------------------------------------------------
\* Every step keeps the invariant.
LEMMA StepInv == IInv /\ [Next]_vars => IInv'
<1> SUFFICES ASSUME IInv, [Next]_vars PROVE IInv'
  OBVIOUS
<1>1. CASE Next
  <2>1. TypeOK' /\ Handled'
    BY <1>1, PoolSteps, ConnectionSteps, ArrivalSteps, EndSteps, OutsideSteps
       DEF Next, Progress, IInv
  <2>2. Timed' /\ TokenOutlivesWait' /\ SecretIsCurrent'
    BY <1>1, TimedSteps, TokenSteps, SecretSteps DEF IInv
  <2>3. Alone'
    <3>1. CASE Concurrency = 1
      BY <1>1, <2>1, <3>1, AloneQuery, AloneOutside DEF Next, IInv
    <3>2. CASE Concurrency # 1
      BY <3>2 DEF Alone
    <3>3. QED
      BY <3>1, <3>2
  <2>4. QED
    BY <2>1, <2>2, <2>3 DEF IInv
<1>2. CASE UNCHANGED vars
  BY <1>2 DEF vars, IInv, TypeOK, Handled, Timed, TokenOutlivesWait, SecretIsCurrent, Alone,
       InFlight
<1>3. QED
  BY <1>1, <1>2

\* The invariant of every behaviour.
LEMMA Invariance == Spec => []IInv
BY InitInv, StepInv, PTL DEF Spec

\* A token in the cache is younger than its TTL when a query asks for it, and the query
\* is gone before the rest of its lifetime is.
LEMMA FreshEnough == IInv => TokensAreFresh
<1> SUFFICES ASSUME IInv, mode = "iam", NEW q \in Queries, pc[q] = "auth"
             PROVE  now < credential[q] + TokenLifetime
  BY DEF TokensAreFresh, Accepted
<1>1. /\ now \in Nat /\ deadline[q] \in Nat /\ credential[q] \in Nat
      /\ now <= deadline[q]
      /\ deadline[q] < credential[q] + TokenTTL + ConnectionTimeout
  BY DEF IInv, TypeOK, Timed, TokenOutlivesWait, Waiting
<1>2. QED
  BY <1>1, PoolAssumption

\* The deadline bounds how long ago the password was read, and the user's name is what
\* can still be wrong.
LEMMA FollowsRotation == IInv => PasswordFollowsRotation
<1> SUFFICES ASSUME IInv, mode = "secret", NEW q \in Queries, pc[q] = "auth", Settled
             PROVE  /\ credential[q] = secret.password
                    /\ userOf[using[q]] = secret.user => credential[q] = password[userOf[using[q]]]
  BY DEF PasswordFollowsRotation, Accepted
<1>1. deadline[q] >= lastStale + MaxAge + ConnectionTimeout
  <2>1. /\ now \in Nat /\ deadline[q] \in Nat /\ lastStale \in Nat
        /\ now <= deadline[q]
    BY DEF IInv, TypeOK, Timed, Waiting
  <2>2. QED
    BY <2>1, PoolAssumption DEF Settled
<1>2. credential[q] = secret.password /\ password[secret.user] = secret.password
  BY <1>1 DEF IInv, SecretIsCurrent, Settled
<1>3. QED
  BY <1>2

-----------------------------------------------------------------------------
\* The types of every reachable state (db/pool.ts).
THEOREM TypeCorrect == Spec => []TypeOK
<1>1. IInv => TypeOK
  BY DEF IInv
<1>2. QED
  BY <1>1, Invariance, PTL

\* The token a connection presents is within its lifetime at the proxy, for every TTL
\* and timeout that together fit into it (pool.ts:20-31).
THEOREM TokenSafety == Spec => []TokensAreFresh
BY FreshEnough, Invariance, PTL

\* A process that is never restarted presents the new password from MaxAge and a
\* connection's timeout after the last rotation and the last late arrival on, for every
\* number of concurrent queries; it is let in unless the secret names another user than
\* the one its pool was configured with (pool.ts:35-41, 79-80).
THEOREM RotationSafety == Spec => []PasswordFollowsRotation
BY FollowsRotation, Invariance, PTL

\* A process that serves one request at a time overwrites no pool that has connections,
\* and leaves none behind when it closes the pool (pool.ts:14-18).
THEOREM NoLeak == Spec => []NothingLeaks
<1>1. IInv => NothingLeaks
  BY DEF IInv, Alone, NothingLeaks
<1>2. QED
  BY <1>1, Invariance, PTL

\* Such a process holds one connection, whatever `max` is (pool.ts:14-18, 70).
THEOREM OneConnection == Spec => []OneConnectionEach
<1>1. IInv => OneConnectionEach
  <2> SUFFICES ASSUME IInv, Concurrency = 1 PROVE Cardinality(connections) <= 1
    BY DEF OneConnectionEach
  <2>1. CASE connections = {}
    BY <2>1, FS_EmptySet
  <2>2. ASSUME NEW c \in connections
        PROVE  Cardinality(connections) <= 1
    <3>1. \A d \in connections : d = c
      BY <2>2 DEF IInv, Alone
    <3>2. connections = {c}
      BY <2>2, <3>1
    <3>3. Cardinality(connections) = 1
      BY <3>2, FS_Singleton
    <3>4. QED
      BY <3>3
  <2>3. QED
    BY <2>1, <2>2
<1>2. QED
  BY <1>1, Invariance, PTL
=============================================================================
