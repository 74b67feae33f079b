------------------------- MODULE IdempotentCreate -------------------------
(***************************************************************************)
(* POST /v1/todos through packages/api/src/idempotency.ts: Lambda          *)
(* execution environments serve invocations one at a time; an invocation   *)
(* with an Idempotency-Key claims a record in the DynamoDB table through   *)
(* Powertools, runs the INSERT and completes the record; one without a key *)
(* runs the INSERT directly. Lambda kills an invocation at its deadline,   *)
(* PostgreSQL may commit a statement nobody waits for any more, and every  *)
(* remote call may fail.                                                   *)
(*                                                                         *)
(* `now` is the clock shared by Lambda's deadlines and the record's two    *)
(* expiries. A todo is named by the invocation that inserts it.            *)
(***************************************************************************)
EXTENDS Integers

CONSTANTS
    Invocations,    \* the invocations of the handler, each used once
    Envs,           \* Lambda execution environments
    Tenants, Users, Keys, Bodies,
    NoKey,          \* the request has no Idempotency-Key header
    None,
    LambdaTimeout,  \* ticks an invocation may run
    Expiry,         \* ticks a record is kept (Powertools default: one hour)
    MaxTime,        \* bound on the clock
    Faults          \* which of AllFaults may happen

AllFaults == {"kill", "lostAck", "saveFails"}

ASSUME ClockAssumption ==
    /\ LambdaTimeout \in Nat \ {0}
    /\ Expiry \in Nat
    /\ LambdaTimeout <= Expiry
    /\ MaxTime \in Nat

ASSUME ConstantsAssumption ==
    /\ NoKey \notin Keys
    /\ None \notin Invocations
    /\ None \notin Nat
    /\ None \notin Envs
    /\ Faults \subseteq AllFaults

Requests == [tenant : Tenants, user : Users, key : Keys \union {NoKey},
             body : Bodies]

\* What a client is told: 201 with a todo (and when), the two kinds of 409, or
\* any other error.
Answers ==
    [status : {"mismatch", "inProgress", "failed"}]
    \union [status : {"created"}, todo : Invocations, at : Nat]

ASSUME NoneIsNoRequest == None \notin Requests
ASSUME NoneIsNoAnswer == None \notin Answers

VARIABLES
    now,
    req,            \* invocation -> its request, or None before it starts
    pc,             \* invocation -> where in the handler it is
    env,            \* invocation -> the environment it runs in, or None
    deadline,       \* invocation -> when Lambda kills it, 0 when not running
    lambdaContext,  \* environment -> deadline of the context it last bound, or None
    record,         \* scope -> item of the idempotency table
    insert,         \* invocation -> its INSERT as the database sees it
    answer          \* invocation -> the response its client got, or None

vars == <<now, req, pc, env, deadline, lambdaContext, record, insert, answer>>

-----------------------------------------------------------------------------
(* Vocabulary *)

Running(i) == pc[i] \notin {"idle", "done", "killed"}
Keyed(i) == req[i] # None /\ req[i].key # NoKey

Scopes == Keys \X Tenants \X Users

\* MUTANT: the key is not scoped by the tenant.
ScopeOf_NoTenant(r) == <<r.key, CHOOSE t \in Tenants : TRUE, r.user>>

\* eventKeyJmesPath: the record a request shares with others.
ScopeOf(r) == <<r.key, r.tenant, r.user>>
Scope(i) == ScopeOf(req[i])

Absent == [status |-> "ABSENT"]

\* MUTANT: the Lambda context is never registered with the configuration.
InProgress_Unregistered(i) ==
    [status |-> "INPROGRESS", validation |-> req[i].body, expiry |-> now + Expiry,
     inProgressExpiry |-> None]

\* MUTANT: a claim lasts as long as a completed record.
InProgress_FullExpiry(i) ==
    [status |-> "INPROGRESS", validation |-> req[i].body, expiry |-> now + Expiry,
     inProgressExpiry |-> now + Expiry]

\* MUTANT: the context's remaining time is taken for none.
InProgress_NoRemaining(i) ==
    [status |-> "INPROGRESS", validation |-> req[i].body, expiry |-> now + Expiry,
     inProgressExpiry |-> now]

InProgress(i) ==
    [status |-> "INPROGRESS", validation |-> req[i].body, expiry |-> now + Expiry,
     inProgressExpiry |-> lambdaContext[env[i]]]

Completed(i) ==
    [status |-> "COMPLETED", validation |-> req[i].body, expiry |-> now + Expiry,
     data |-> i]

\* The condition of saveInProgress's conditional put.
Claimable(r) ==
    r # Absent =>
        \/ r.expiry < now
        \/ r.status = "INPROGRESS" /\ r.inProgressExpiry < now

\* MUTANT: payloadValidationJmesPath is not set.
Replay_NoValidation(r, body) ==
    IF r.status = "INPROGRESS" THEN [status |-> "inProgress"]
                               ELSE [status |-> "created", todo |-> r.data, at |-> now]

\* MUTANT: the two conflicts are told apart by the status alone.
Replay_StatusFirst(r, body) ==
    IF r.status = "INPROGRESS" THEN [status |-> "mismatch"]
                               ELSE [status |-> "created", todo |-> r.data, at |-> now]

\* What Powertools makes of the record that is already there, and what
\* mapIdempotencyError makes of that: the payload is validated before the
\* status is looked at, and both conflicts are a 409.
Replay(r, body) ==
    IF r.validation # body THEN [status |-> "mismatch"]
    ELSE IF r.status = "INPROGRESS" THEN [status |-> "inProgress"]
    ELSE [status |-> "created", todo |-> r.data, at |-> now]

AlreadyInProgress == [status |-> "inProgress"]
Failed == [status |-> "failed"]
Made(i) == [status |-> "created", todo |-> i, at |-> now]

Goto(i, label) == pc' = [pc EXCEPT ![i] = label] /\ UNCHANGED <<env, deadline>>

Leave(i, label) ==
    /\ pc' = [pc EXCEPT ![i] = label]
    /\ env' = [env EXCEPT ![i] = None]
    /\ deadline' = [deadline EXCEPT ![i] = 0]

Respond(i, a) ==
    /\ Leave(i, "done")
    /\ answer' = [answer EXCEPT ![i] = a]

-----------------------------------------------------------------------------

Init ==
    /\ now = 0
    /\ req = [i \in Invocations |-> None]
    /\ pc = [i \in Invocations |-> "idle"]
    /\ env = [i \in Invocations |-> None]
    /\ deadline = [i \in Invocations |-> 0]
    /\ lambdaContext = [e \in Envs |-> None]
    /\ record = [s \in Scopes |-> Absent]
    /\ insert = [i \in Invocations |-> "none"]
    /\ answer = [i \in Invocations |-> None]

\* MUTANT: the context is bound on a cold start only.
Bind_ColdStart(e, d) ==
    lambdaContext' = IF d # None /\ lambdaContext[e] # None THEN lambdaContext
                     ELSE [lambdaContext EXCEPT ![e] = d]

\* bindLambdaContext, in front of every invocation.
Bind(e, d) == lambdaContext' = [lambdaContext EXCEPT ![e] = d]

\* Lambda hands a request to an environment that is not serving another one.
Start(i) ==
    /\ pc[i] = "idle"
    /\ now + LambdaTimeout < MaxTime
    /\ \E r \in Requests, e \in Envs :
         /\ \A j \in Invocations : env[j] # e
         /\ req' = [req EXCEPT ![i] = r]
         /\ env' = [env EXCEPT ![i] = e]
         /\ deadline' = [deadline EXCEPT ![i] = now + LambdaTimeout]
         /\ Bind(e, now + LambdaTimeout)
         /\ pc' = [pc EXCEPT ![i] = IF r.key = NoKey THEN "call" ELSE "claim"]
    /\ UNCHANGED <<now, record, insert, answer>>

\* saveInProgress puts the record and the invocation goes on to createTodo.
Claim(i) ==
    /\ pc[i] = "claim"
    /\ Claimable(record[Scope(i)])
    /\ record' = [record EXCEPT ![Scope(i)] = InProgress(i)]
    /\ Goto(i, "call")
    /\ UNCHANGED <<now, req, lambdaContext, insert, answer>>

\* The put took effect, but its response was lost: the SDK's own retry finds
\* the record, or gives up.
ClaimUnheard(i) ==
    /\ pc[i] = "claim"
    /\ Claimable(record[Scope(i)])
    /\ record' = [record EXCEPT ![Scope(i)] = InProgress(i)]
    /\ \E a \in {AlreadyInProgress, Failed} : Respond(i, a)
    /\ UNCHANGED <<now, req, lambdaContext, insert>>

\* MUTANT: wait for the record to be completed instead of answering 409.
AnswerFromRecord_Waits(i) ==
    /\ pc[i] = "claim"
    /\ ~Claimable(record[Scope(i)])
    /\ record[Scope(i)].status = "COMPLETED"
    /\ Respond(i, Replay(record[Scope(i)], req[i].body))
    /\ UNCHANGED <<now, req, lambdaContext, record, insert>>

\* The put was refused: answer from the record that refused it.
AnswerFromRecord(i) ==
    /\ pc[i] = "claim"
    /\ ~Claimable(record[Scope(i)])
    /\ Respond(i, Replay(record[Scope(i)], req[i].body))
    /\ UNCHANGED <<now, req, lambdaContext, record, insert>>

\* DynamoDB cannot be reached.
ClaimFails(i) ==
    /\ pc[i] = "claim"
    /\ Respond(i, Failed)
    /\ UNCHANGED <<now, req, lambdaContext, record, insert>>

\* repo.create sends its INSERT over a pooled connection.
SendInsert(i) ==
    /\ pc[i] = "call"
    /\ Goto(i, "wait")
    /\ insert' = [insert EXCEPT ![i] = "pending"]
    /\ UNCHANGED <<now, req, lambdaContext, record, answer>>

\* createTodo throws: with a key Powertools deletes the record first.
Throw(i) ==
    IF Keyed(i) THEN Goto(i, "release") /\ UNCHANGED answer
                ELSE Respond(i, Failed)

\* No connection: the statement is never sent.
ConnectFails(i) ==
    /\ pc[i] = "call"
    /\ Throw(i)
    /\ UNCHANGED <<now, req, lambdaContext, record, insert>>

\* The database settles a statement, whether or not anybody still waits for it.
Settle(i) ==
    /\ insert[i] = "pending"
    /\ \E outcome \in {"committed", "aborted"} : insert' = [insert EXCEPT ![i] = outcome]
    /\ UNCHANGED <<now, req, pc, env, deadline, lambdaContext, record, answer>>

ReceiveRow(i) ==
    /\ pc[i] = "wait"
    /\ insert[i] = "committed"
    /\ IF Keyed(i) THEN Goto(i, "save") /\ UNCHANGED answer
                   ELSE Respond(i, Made(i))
    /\ UNCHANGED <<now, req, lambdaContext, record, insert>>

ReceiveError(i) ==
    /\ pc[i] = "wait"
    /\ insert[i] = "aborted"
    /\ Throw(i)
    /\ UNCHANGED <<now, req, lambdaContext, record, insert>>

\* The connection drops while the statement runs or after it committed.
LoseConnection(i) ==
    /\ "lostAck" \in Faults
    /\ pc[i] = "wait"
    /\ insert[i] \in {"pending", "committed"}
    /\ Throw(i)
    /\ UNCHANGED <<now, req, lambdaContext, record, insert>>

\* deleteRecord, then the error goes to the client; a failing delete leaves
\* the record and is an error too.
Release(i) ==
    /\ pc[i] = "release"
    /\ \/ record' = [record EXCEPT ![Scope(i)] = Absent]
       \/ UNCHANGED record
    /\ Respond(i, Failed)
    /\ UNCHANGED <<now, req, lambdaContext, insert>>

\* saveSuccess replaces the record without a condition.
SaveSuccess(i) ==
    /\ pc[i] = "save"
    /\ record' = [record EXCEPT ![Scope(i)] = Completed(i)]
    /\ Goto(i, "return")
    /\ UNCHANGED <<now, req, lambdaContext, insert, answer>>

\* saveSuccess took effect, but its response was lost.
SaveUnheard(i) ==
    /\ pc[i] = "save"
    /\ record' = [record EXCEPT ![Scope(i)] = Completed(i)]
    /\ Respond(i, Failed)
    /\ UNCHANGED <<now, req, lambdaContext, insert>>

SaveFails(i) ==
    /\ "saveFails" \in Faults
    /\ pc[i] = "save"
    /\ Respond(i, Failed)
    /\ UNCHANGED <<now, req, lambdaContext, record, insert>>

Return(i) ==
    /\ pc[i] = "return"
    /\ Respond(i, Made(i))
    /\ UNCHANGED <<now, req, lambdaContext, record, insert>>

\* A crash, or the timeout: the environment is gone and its client hears
\* nothing from it; a statement it sent goes on.
Kill(i) ==
    /\ "kill" \in Faults
    /\ Running(i)
    /\ Leave(i, "killed")
    /\ Bind(env[i], None)
    /\ UNCHANGED <<now, req, record, insert, answer>>

\* Nothing runs past its deadline.
Tick ==
    /\ now < MaxTime
    /\ \A i \in Invocations : Running(i) => now < deadline[i]
    /\ now' = now + 1
    /\ UNCHANGED <<req, pc, env, deadline, lambdaContext, record, insert, answer>>

\* The handler's own steps, and the remote calls that go wrong under it.
Proceed(i) ==
    \/ Claim(i) \/ AnswerFromRecord(i) \/ SendInsert(i) \/ ReceiveRow(i)
    \/ ReceiveError(i) \/ Release(i) \/ SaveSuccess(i) \/ Return(i)

CallFails(i) ==
    \/ ClaimUnheard(i) \/ ClaimFails(i) \/ ConnectFails(i) \/ LoseConnection(i)
    \/ SaveUnheard(i) \/ SaveFails(i)

Next ==
    \/ Tick
    \/ \E i \in Invocations : Start(i) \/ Proceed(i) \/ CallFails(i) \/ Settle(i) \/ Kill(i)

Spec == Init /\ [][Next]_vars

\* Node runs the handler while Lambda lets it, the database settles every
\* statement and time passes. No request has to arrive, no call has to fail.
Fairness ==
    /\ WF_vars(Tick)
    /\ \A i \in Invocations : WF_vars(Proceed(i)) /\ WF_vars(Settle(i))

FairSpec == Spec /\ Fairness

-----------------------------------------------------------------------------
(* Properties *)

Records ==
    {Absent}
    \union [status : {"INPROGRESS"}, validation : Bodies, expiry : Int,
            inProgressExpiry : Int]
    \union [status : {"COMPLETED"}, validation : Bodies, expiry : Int,
            data : Invocations]

Labels == {"idle", "claim", "call", "wait", "release", "save", "return",
           "done", "killed"}

\* The types of the handler's, the table's and the database's state.
TypeOK ==
    /\ now \in Nat
    /\ req \in [Invocations -> Requests \union {None}]
    /\ \A i \in Invocations : pc[i] # "idle" => req[i] \in Requests
    /\ pc \in [Invocations -> Labels]
    /\ env \in [Invocations -> Envs \union {None}]
    /\ deadline \in [Invocations -> Nat]
    /\ lambdaContext \in [Envs -> Nat \union {None}]
    /\ record \in [Scopes -> Records]
    /\ insert \in [Invocations -> {"none", "pending", "committed", "aborted"}]
    /\ answer \in [Invocations -> Answers \union {None}]

\* i has claimed its record and has neither completed nor released it.
Holds(i) == Keyed(i) /\ pc[i] \in {"call", "wait", "save", "release"}

\* The answer a client takes for the outcome of its create.
Created(i) == answer[i] # None /\ answer[i].status = "created"

\* i was answered with the todo it inserted itself, not with a replay.
Fresh(i) == Created(i) /\ Keyed(i) /\ answer[i].todo = i

SameScope(i, j) ==
    /\ Keyed(i) /\ Keyed(j)
    /\ Scope(i) = Scope(j)

\* While an invocation may still run, no other one runs createTodo for the same
\* key: the claim outlives its invocation, whatever is killed, lost or retried
\* (idempotency.ts:19-24, 83: the context is bound for that purpose).
OneHolder ==
    \A i, j \in Invocations :
        Holds(i) /\ Holds(j) /\ Scope(i) = Scope(j) => i = j

\* A 201 names a todo that the database committed, that belongs to the caller's
\* tenant and user and that was made from the caller's own body, also when it
\* is replayed from the table (idempotency.ts:56-62).
CreatedIsOwn ==
    \A i \in Invocations : Created(i) =>
        LET t == answer[i].todo IN
        /\ insert[t] = "committed"
        /\ req[t] # None
        /\ <<req[t].tenant, req[t].user, req[t].body>>
              = <<req[i].tenant, req[i].user, req[i].body>>
        /\ t # i => req[t].key = req[i].key /\ Keyed(i)

\* A client is told that its key was used with another body only if it was
\* (idempotency.ts:97-98).
MismatchIsReal ==
    \A i \in Invocations : answer[i] # None /\ answer[i].status = "mismatch" =>
        \E j \in Invocations : SameScope(i, j) /\ req[j].body # req[i].body

\* From a 201 on, for as long as a record is kept, less the time the create
\* itself may have taken, every 201 for that key returns that todo.
ReplayWindow ==
    \A i, j \in Invocations :
        /\ Fresh(i) /\ Created(j) /\ SameScope(i, j)
        /\ answer[j].at \in answer[i].at .. answer[i].at + (Expiry - LambdaTimeout)
        => answer[j].todo = i

\* In the same window no INSERT is sent for that key any more.
Sends(j) == insert[j] = "none" /\ insert'[j] = "pending"

NoInsertAfterCreated ==
    [][\A i, j \in Invocations :
          Sends(j) /\ Fresh(i) /\ SameScope(i, j)
          => now > answer[i].at + (Expiry - LambdaTimeout)]_vars

\* Every request that reaches the handler is answered, or its invocation is
\* killed: nothing waits for a statement, a record or another invocation for
\* ever.
EveryRequestEnds ==
    \A i \in Invocations : Running(i) ~> pc[i] \in {"done", "killed"}

\* A key is never wedged: a record left in progress by a dead invocation can be
\* claimed again, or something else happens to it.
KeyFreesUp ==
    \A s \in Scopes :
        record[s].status = "INPROGRESS"
            ~> \/ record[s].status # "INPROGRESS"
               \/ Claimable(record[s])

\* docs/consumer-guide/README.md:88-89: a key makes retries safe, whatever
\* happened to the first attempt: while the record of a key has not expired, at
\* most one todo is inserted for it.
RetriesAreSafe ==
    now <= Expiry =>
        \A i, j \in Invocations :
            /\ insert[i] = "committed" /\ insert[j] = "committed"
            /\ SameScope(i, j) /\ req[i].body = req[j].body
            => i = j

-----------------------------------------------------------------------------
(* The inductive invariant of the proofs *)

\* Lambda's side: who runs, where and until when.
EnvInv ==
    \A i \in Invocations :
        /\ Running(i) <=> env[i] # None
        /\ Running(i) => /\ deadline[i] \in now .. now + LambdaTimeout
                         /\ lambdaContext[env[i]] = deadline[i]
        /\ \A j \in Invocations : env[i] # None /\ env[i] = env[j] => i = j

\* What the program counter says of the request and of its INSERT.
PcInv ==
    \A i \in Invocations :
        /\ pc[i] = "idle" => req[i] = None
        /\ pc[i] # "done" => answer[i] = None
        /\ pc[i] \in {"claim", "release", "save", "return"} => Keyed(i)
        /\ pc[i] \in {"idle", "claim", "call"} => insert[i] = "none"
        /\ pc[i] \in {"save", "return"} => insert[i] = "committed"

\* A holder's record is in progress and outlives it.
HolderInv ==
    \A i \in Invocations : Holds(i) =>
        LET r == record[Scope(i)] IN
        /\ r.status = "INPROGRESS"
        /\ r.inProgressExpiry = deadline[i]
        /\ r.expiry >= deadline[i]

\* The todo of a completed record was inserted for that record's scope and body;
\* every record was made for some request.
RecordInv ==
    \A s \in Scopes : record[s] # Absent =>
        /\ \E j \in Invocations : Keyed(j) /\ Scope(j) = s /\ req[j].body = record[s].validation
        /\ \A t \in Invocations : record[s].status = "COMPLETED" /\ record[s].data = t =>
              /\ insert[t] = "committed" /\ Keyed(t)
              /\ Scope(t) = s /\ req[t].body = record[s].validation

\* s holds a completed record with todo t that cannot be claimed before time d.
Remembers(s, t, d) ==
    /\ record[s].status = "COMPLETED"
    /\ record[s].data = t
    /\ record[s].expiry >= d

\* From its saveSuccess to the end of its window a todo is what its key returns,
\* and a replayed one is for the rest of the tick.
MemoryInv ==
    \A i \in Invocations :
        /\ pc[i] = "return" =>
              Remembers(Scope(i), i, deadline[i] - LambdaTimeout + Expiry)
        /\ Created(i) /\ Keyed(i) =>
              /\ answer[i].at <= now
              /\ answer[i].at = now => Remembers(Scope(i), answer[i].todo, now)
        /\ Fresh(i) /\ now <= answer[i].at + (Expiry - LambdaTimeout) =>
              Remembers(Scope(i), i, answer[i].at + (Expiry - LambdaTimeout))

IInv ==
    /\ TypeOK /\ EnvInv /\ PcInv /\ HolderInv /\ OneHolder /\ RecordInv
    /\ MemoryInv /\ CreatedIsOwn /\ MismatchIsReal /\ ReplayWindow

-----------------------------------------------------------------------------

\* Without the three faults that leave the outcome of a create in doubt, and
\* before a record expires, the handler implements CreateOnce.
Once == INSTANCE CreateOnce WITH
    rows <- {i \in Invocations : insert[i] = "committed"},
    answer <- [i \in Invocations |->
                 IF Created(i) THEN [status |-> "created", todo |-> answer[i].todo]
                               ELSE answer[i]]

ImplementsCreateOnce == Once!Spec
============================================================================
