-------------------------- MODULE RequestPipeline --------------------------
(***************************************************************************)
(* A call on its way from the SDK through API Gateway or the local server  *)
(* to the handler of packages/api and back: routing, authentication,       *)
(* validation, the mapping of errors and the keys of the shared logger.    *)
(* There is one process: a Lambda environment behind the gateway, which    *)
(* serves one call at a time, or the local server, which serves many.      *)
(* What the domain does to the table is TodoStore's; here it succeeds,     *)
(* finds nothing, conflicts, is refused by PostgreSQL or fails.            *)
(***************************************************************************)
EXTENDS Integers, FiniteSets, TodoSdk, Claims

CONSTANTS
    Callers,    \* each makes one call
    Fronts,     \* a subset of {"gateway", "local"}
    Users,      \* who may be behind a caller: records [sub, tenant, groups]
    Calls,      \* the calls a caller may make, a set for each
    None

ASSUME PipelineAssumption ==
    /\ Fronts \subseteq {"gateway", "local"}
    /\ IsFiniteSet(Callers)

VARIABLES
    front,    \* what stands before the handler
    user,     \* who is behind a caller
    pc,       \* where a call is
    call,     \* what was called
    auth,     \* the AuthContext its handler was given
    faulty,   \* calls that met a failure of the service
    keys,     \* the keys appended to the logger
    log,      \* its "Unhandled error" lines, with the call that wrote them
    response, \* what the front sent back
    result    \* what the SDK made of it

vars == <<front, user, pc, call, auth, faulty, keys, log, response, result>>

NoKeys == [request |-> None, client |-> None]

Init ==
    /\ front \in Fronts
    /\ user \in {u \in [Callers -> UNION Range(Users)] : \A c \in Callers : u[c] \in Users[c]}
    /\ pc = [c \in Callers |-> "idle"]
    /\ call = [c \in Callers |-> None]
    /\ auth = [c \in Callers |-> NoAuth]
    /\ faulty = {}
    /\ keys = NoKeys
    /\ log = {}
    /\ response = [c \in Callers |-> None]
    /\ result = [c \in Callers |-> None]

-----------------------------------------------------------------------------
(* The event the handler is invoked with.                                    *)
Gateway == front = "gateway"

Token(c) ==
    IF ~call[c].token THEN NoToken
    ELSE IF Gateway THEN CognitoToken(user[c]) ELSE MintedToken(user[c])

\* The local stub reads what it can decode and does not verify it.
DecodedClaims(c) ==
    IF Token(c) = NoToken THEN NoToken
    ELSE IF Gateway THEN AuthorizerClaims(Token(c)) ELSE Token(c)

\* router/index.ts: the method and the resource of each handler.
Routes ==
    [getHealth  |-> [method |-> "GET",    url |-> "/health"],
     listTodos  |-> [method |-> "GET",    url |-> "/todos"],
     createTodo |-> [method |-> "POST",   url |-> "/todos"],
     getTodo    |-> [method |-> "GET",    url |-> "/todos/{todo_id}"],
     updateTodo |-> [method |-> "PATCH",  url |-> "/todos/{todo_id}"],
     deleteTodo |-> [method |-> "DELETE", url |-> "/todos/{todo_id}"]]

\* `dispatch` looks for the handler of a call, if there is one.
Routed(c) == \E operation \in DOMAIN Routes : Routes[operation] = call[c].request
Op(c)     == CHOOSE operation \in DOMAIN Routes : Routes[operation] = call[c].request

\* The local server's ROUTES.
Resources == {"/health", "/todos", "/todos/{todo_id}"}

HasBody == {"createTodo", "updateTodo"}
HasId   == {"updateTodo", "getTodo", "deleteTodo"}

BodySchema(c) == IF Op(c) = "createTodo" THEN TodoCreate ELSE TodoUpdate
Kept(c)       == Stripped(call[c].body, BodySchema(c))
Garbage(c)    == ~call[c].json

\* findNul, after the schema has stripped what it does not know.
HasNul(c) == "nul" \in Range(Kept(c))

\* parseBody with the generated schema, the refinement of PATCH and findNul.
BodyRejected(c) ==
    \/ Garbage(c)
    \/ ~Conforms(call[c].body, BodySchema(c))
    \/ Op(c) = "updateTodo" /\ Kept(c) = Anything
    \/ HasNul(c)

\* The key's bounds, the uuid of the path and listQuerySchema with decodeCursor.
ParametersRejected(c) ==
    \/ Op(c) = "createTodo" /\ call[c].key = "short"
    \/ Op(c) \in HasId /\ call[c].id # "uuid"
    \/ Op(c) = "listTodos" /\ call[c].query \in {"unknown", "limit", "cursor"}

Rejected(c) == (Op(c) \in HasBody /\ BodyRejected(c)) \/ ParametersRejected(c)

\* What PostgreSQL refuses with a data exception (SQLSTATE class 22).
Unstorable(c) ==
    \/ Op(c) \in HasBody /\ "year0" \in Range(Kept(c))
    \/ Op(c) = "listTodos" /\ call[c].query = "year0"

-----------------------------------------------------------------------------
(* The gateway's own answers, as scripts/lib/gateway-spec.mjs renders them.  *)
GatewayResponse(status) ==
    [status |-> status,
     headers |-> {"x-request-id", "access-control-allow-origin"},
     body |-> [type |-> "uri", title |-> "text", status |-> "error",
               detail |-> "text", request_id |-> "text"]]

StatusOf ==
    [DEFAULT_4XX |-> 400, DEFAULT_5XX |-> 500, BAD_REQUEST_BODY |-> 400,
     BAD_REQUEST_PARAMETERS |-> 400, UNAUTHORIZED |-> 401, EXPIRED_TOKEN |-> 401,
     INVALID_SIGNATURE |-> 401, MISSING_AUTHENTICATION_TOKEN |-> 401,
     ACCESS_DENIED |-> 403, INVALID_API_KEY |-> 403, WAF_FILTERED |-> 403,
     REQUEST_TOO_LARGE |-> 413, THROTTLED |-> 429, QUOTA_EXCEEDED |-> 429]

\* The JSON schema of a body: unlike the generated one it is closed.
GatewaySchemaRejects(c) ==
    \/ Garbage(c)
    \/ ~Conforms(call[c].body, BodySchema(c))
    \/ ~(DOMAIN call[c].body \subseteq DOMAIN BodySchema(c))
    \/ Op(c) = "updateTodo" /\ call[c].body = Anything

\* The responses a call may be refused with; which comes first is the gateway's.
Refusals(c) ==
    IF ~Routed(c) THEN {"MISSING_AUTHENTICATION_TOKEN"} ELSE
        (IF Op(c) # "getHealth" /\ Token(c) = NoToken THEN {"UNAUTHORIZED"} ELSE {})
        \cup (IF Op(c) # "getHealth" /\ ~call[c].apiKey THEN {"INVALID_API_KEY"} ELSE {})
        \cup (IF Op(c) \in HasBody /\ call[c].big THEN {"REQUEST_TOO_LARGE"} ELSE {})
        \cup (IF Op(c) \in HasId /\ call[c].id = "undecodable" THEN {"DEFAULT_4XX"} ELSE {})

\* Those it may be refused with or not: load, the WAF's rules, a token past its time,
\* a body whose content type has no model and is passed on. No operation requires a
\* parameter, so BAD_REQUEST_PARAMETERS is never one.
Whims(c) ==
    {"THROTTLED", "QUOTA_EXCEEDED", "WAF_FILTERED"}
        \cup (IF Routed(c) /\ Op(c) # "getHealth"
              THEN {"EXPIRED_TOKEN", "INVALID_SIGNATURE", "ACCESS_DENIED"} ELSE {})
        \cup (IF Routed(c) /\ Op(c) \in HasBody /\ GatewaySchemaRejects(c)
              THEN {"BAD_REQUEST_BODY"} ELSE {})

-----------------------------------------------------------------------------
Respond(c, r) ==
    /\ response' = [response EXCEPT ![c] = r]
    /\ pc' = [pc EXCEPT ![c] = "answered"]

\* The SDK, or a bare HTTP client for what the contract does not know, sends a call.
Call(c) ==
    /\ pc[c] = "idle"
    /\ \E made \in Calls[c] : call' = [call EXCEPT ![c] = made]
    /\ pc' = [pc EXCEPT ![c] = "sent"]
    /\ UNCHANGED <<front, user, auth, faulty, keys, log, response, result>>

GatewayRefuses(c) ==
    /\ pc[c] = "sent" /\ Gateway
    /\ \E kind \in Refusals(c) \cup Whims(c) : Respond(c, GatewayResponse(StatusOf[kind]))
    /\ UNCHANGED <<front, user, call, auth, faulty, keys, log, result>>

\* local/server.ts: no route, or a path whose percent-encoding cannot be decoded.
LocalProblem(status) ==
    [status |-> status, headers |-> {},
     body |-> [type |-> "uri", title |-> "text", status |-> "error"]]

Undecodable(c) == call[c].request.url = "/todos/{todo_id}" /\ call[c].id = "undecodable"

LocalRefuses(c) ==
    /\ pc[c] = "sent" /\ ~Gateway
    /\ \/ call[c].request.url \notin Resources /\ Respond(c, LocalProblem(404))
       \/ Undecodable(c) /\ Respond(c, LocalProblem(500))
    /\ UNCHANGED <<front, user, call, auth, faulty, keys, log, result>>

PassedOn(c) ==
    IF Gateway
    THEN Refusals(c) = {} /\ \A d \in Callers : pc[d] # "invoked"
    ELSE call[c].request.url \in Resources /\ ~Undecodable(c)

\* MUTANT: whether there is a client's id is appended, and not the id.
Appended_Flag(c) == [request |-> c, client |-> call[c].clientId]

\* errorMapper.before: a client's id is appended to the logger's keys if there is one.
Appended(c) == [request |-> c, client |-> IF call[c].clientId THEN c ELSE keys.client]

\* The middleware's `before` hooks.
Invoke(c) ==
    /\ pc[c] = "sent"
    /\ PassedOn(c)
    /\ pc' = [pc EXCEPT ![c] = "invoked"]
    /\ keys' = Appended(c)
    /\ UNCHANGED <<front, user, call, auth, faulty, log, response, result>>

-----------------------------------------------------------------------------
(* The handler. Every way out of it runs the `after` or `onError` hooks.     *)
Answer(status, body) ==
    [status |-> status, headers |-> {"x-request-id"}, body |-> body]

\* MUTANT: clearState is not set.
Leave_KeepsKeys(c, r) ==
    /\ Respond(c, r)
    /\ UNCHANGED <<front, user, call, keys, result>>

\* injectLambdaContext's clearState: the keys of the invocation are forgotten.
Leave(c, r) ==
    /\ Respond(c, r)
    /\ keys' = NoKeys
    /\ UNCHANGED <<front, user, call, result>>

\* errorMapper.onError, for an AppError with or without field errors and for others.
ProblemAnswer(status, fields) ==
    Answer(status,
        [type |-> "uri", title |-> "text", status |-> "error", detail |-> "text",
         request_id |-> "text", errors |-> IF fields THEN "fields" ELSE "absent"])

Throw(c, status, fields) ==
    /\ Leave(c, ProblemAnswer(status, fields))
    /\ log' = IF status = 500 THEN log \cup {[of |-> c, keys |-> keys]} ELSE log

\* `dispatch` finds no route for a resource the local server knows.
NoRoute(c) ==
    /\ pc[c] = "invoked" /\ ~Routed(c)
    /\ Throw(c, 404, FALSE)
    /\ UNCHANGED <<auth, faulty>>

\* extractAuth comes first in every route but the health check's.
Authenticated(c) == Op(c) = "getHealth" \/ ExtractAuth(DecodedClaims(c)) # NoAuth

Unauthorized(c) ==
    /\ pc[c] = "invoked" /\ Routed(c)
    /\ ~Authenticated(c)
    /\ Throw(c, 401, FALSE)
    /\ UNCHANGED <<auth, faulty>>

\* MUTANT: a value that fails its schema is answered as semantically invalid.
BadRequest_Unprocessable(c) ==
    /\ pc[c] = "invoked" /\ Routed(c)
    /\ Authenticated(c) /\ Rejected(c)
    /\ Throw(c, 422, TRUE)
    /\ UNCHANGED <<auth, faulty>>

\* BadRequestError, with the fields at fault unless there is no document.
BadRequest(c) ==
    /\ pc[c] = "invoked" /\ Routed(c)
    /\ Authenticated(c) /\ Rejected(c)
    /\ Throw(c, 400, Op(c) \notin HasBody \/ ~Garbage(c))
    /\ UNCHANGED <<auth, faulty>>

\* The domain is called, with the identity from the claims.
Reaches(c) ==
    /\ pc[c] = "invoked" /\ Routed(c)
    /\ Authenticated(c) /\ ~Rejected(c)
    /\ auth' = [auth EXCEPT ![c] = ExtractAuth(DecodedClaims(c))]

TodoBody ==
    [todo_id |-> "uuid", title |-> "text", description |-> "null",
     status |-> "lifecycle", due_date |-> "date", created_at |-> "time",
     updated_at |-> "time"]

Success ==
    [createTodo |-> Answer(201, TodoBody), updateTodo |-> Answer(200, TodoBody),
     getTodo |-> Answer(200, TodoBody), deleteTodo |-> Answer(204, Anything),
     listTodos |-> Answer(200, [items |-> "todos", next_cursor |-> "null"]),
     getHealth |-> Answer(200, [status |-> "ok", version |-> "text"])]

Succeed(c) ==
    /\ Reaches(c) /\ ~Unstorable(c)
    /\ Leave(c, Success[Op(c)])
    /\ UNCHANGED <<log, faulty>>

\* Another owner's todo, or none.
NotFound(c) ==
    /\ Reaches(c) /\ ~Unstorable(c)
    /\ Op(c) \in HasId
    /\ Throw(c, 404, FALSE)
    /\ UNCHANGED faulty

\* A keyed create behind the gateway; the local server has no idempotency table.
Conflict(c) ==
    /\ Reaches(c)
    /\ Op(c) = "createTodo" /\ call[c].key = "valid" /\ Gateway
    /\ Throw(c, 409, FALSE)
    /\ UNCHANGED faulty

\* MUTANT: the SQLSTATE is not looked at.
Unstored_NotNormalized(c) ==
    /\ Reaches(c) /\ Unstorable(c)
    /\ Throw(c, 500, FALSE)
    /\ UNCHANGED faulty

\* `normalize`: a data exception is the client's fault.
Unstored(c) ==
    /\ Reaches(c) /\ Unstorable(c)
    /\ Throw(c, 400, FALSE)
    /\ UNCHANGED faulty

\* The database, DynamoDB or the code fails.
Fault(c) ==
    /\ Reaches(c) /\ Op(c) # "getHealth"
    /\ Throw(c, 500, FALSE)
    /\ faulty' = faulty \cup {c}

\* The invocation dies or times out: the gateway answers and the environment is gone.
Kill(c) ==
    /\ pc[c] = "invoked" /\ Gateway
    /\ Respond(c, GatewayResponse(StatusOf["DEFAULT_5XX"]))
    /\ keys' = NoKeys
    /\ faulty' = faulty \cup {c}
    /\ UNCHANGED <<front, user, call, auth, log, result>>

Receive(c) ==
    /\ pc[c] = "answered"
    /\ result' = [result EXCEPT ![c] = Result(response[c])]
    /\ pc' = [pc EXCEPT ![c] = "done"]
    /\ UNCHANGED <<front, user, call, auth, faulty, keys, log, response>>

Next ==
    \E c \in Callers :
        \/ Call(c) \/ GatewayRefuses(c) \/ LocalRefuses(c) \/ Invoke(c)
        \/ NoRoute(c) \/ Unauthorized(c) \/ BadRequest(c)
        \/ Succeed(c) \/ NotFound(c) \/ Conflict(c) \/ Unstored(c) \/ Fault(c) \/ Kill(c)
        \/ Receive(c)

Spec == Init /\ [][Next]_vars
-----------------------------------------------------------------------------
(* Types.                                                                    *)
KeysType == [request : Callers \cup {None}, client : Callers \cup {None}]

TypeOK ==
    /\ front \in Fronts
    /\ \A c \in Callers : user[c] \in Users[c]
    /\ pc \in [Callers -> {"idle", "sent", "invoked", "answered", "done"}]
    /\ \A c \in Callers : call[c] \in Calls[c] \cup {None}
    /\ faulty \subseteq Callers
    /\ keys \in KeysType
    /\ log \subseteq [of : Callers, keys : KeysType]
    /\ \A c \in Callers : response[c] = None \/ response[c].status \in 200..599

Answered(c) == pc[c] \in {"answered", "done"}

\* The generated function that sends a call, if one does.
Called(c) == {operation \in Operations : SdkRequest[operation] = call[c].request}

\* Whatever layer answers a call, the status is one the contract declares for the
\* operation and the body has the shape it declares for the status (api/openapi.yaml;
\* the health check declares its success only).
AnswersDeclared ==
    \A c \in Callers : Answered(c) => \A operation \in Called(c) \ {"getHealth"} :
        /\ response[c].status \in DOMAIN Declared[operation]
        /\ Conforms(response[c].body, Declared[operation][response[c].status])

\* A generated function returns what its type says or throws an ApiError with a
\* declared status and a typed problem (packages/sdk/src/index.ts:8-14), which behind
\* the gateway carries the id for support (docs/consumer-guide/README.md:52).
ResultsTyped ==
    \A c \in Callers : pc[c] = "done" /\ Called(c) # {} =>
        /\ \A operation \in Called(c) : Typed(operation, result[c])
        /\ Gateway => result[c].traced

\* Something is wrong with what the client sent. An unknown member is the gateway's
\* to refuse: the handler drops it.
Malformed(c) ==
    \/ Rejected(c) \/ Unstorable(c)
    \/ Op(c) \in HasBody /\ GatewaySchemaRejects(c)
    \/ Op(c) \in HasId /\ call[c].id = "undecodable"

\* Behind the gateway a 400 is the client's doing and a 500 never is, and a call is
\* not answered with success unless the handler could make sense of all of it
\* (http.ts:57-59, error-mapper.ts:18-22).
BlameIsRight ==
    \A c \in Callers : Gateway /\ Answered(c) /\ Routed(c) =>
        LET status == response[c].status
        IN  /\ status = 400 => Malformed(c)
            /\ status = 500 => c \in faulty
            /\ status < 300 => ~Rejected(c) /\ ~Unstorable(c)

\* In a Lambda environment every error is logged under the ids of its own call, and
\* under no id that an earlier call sent (error-mapper.ts:6-16, handler.ts:25).
LogsAreOwn ==
    Gateway => \A line \in log :
        line.keys = [request |-> line.of,
                     client |-> IF call[line.of].clientId THEN line.of ELSE None]

\* What the gateway's flattening may add to a caller's groups: the words of their
\* names, unless the whole list is JSON by chance, and then what JSON reads in it.
Flattening(names) ==
    IF names \in DOMAIN JsonReads THEN Range(JsonReads[names]) ELSE Fragments(names)

\* The handler acts for a caller that has a sub and a tenant, and as this caller: with
\* every group whatever its name is made of (claims.ts:17-22), and with no other but,
\* behind the gateway, what the flattening made of the caller's own; a list of single
\* words that is no JSON arrives exactly.
IdentitySurvives ==
    \A c \in Callers : auth[c] # NoAuth =>
        /\ auth[c].sub = user[c].sub /\ auth[c].tenant = user[c].tenant
        /\ Missing \notin {auth[c].sub, auth[c].tenant}
        /\ Range(user[c].groups) \subseteq auth[c].groups
        /\ auth[c].groups \subseteq Range(user[c].groups) \cup
              IF Gateway THEN Flattening(user[c].groups) ELSE {}

-----------------------------------------------------------------------------
(* The inductive invariant of RequestPipelineProofs.                         *)

\* What is kept for each caller.
Shapes ==
    /\ user     = [c \in Callers |-> user[c]]
    /\ call     = [c \in Callers |-> call[c]]
    /\ auth     = [c \in Callers |-> auth[c]]
    /\ response = [c \in Callers |-> response[c]]
    /\ result   = [c \in Callers |-> result[c]]

\* In a Lambda environment the logger's keys are those of the one invocation.
OneInvocation ==
    Gateway =>
        /\ \A c, d \in Callers : pc[c] = "invoked" /\ pc[d] = "invoked" => c = d
        /\ (\A c \in Callers : pc[c] # "invoked") => keys = NoKeys
        /\ \A c \in Callers : pc[c] = "invoked" =>
              keys = [request |-> c, client |-> IF call[c].clientId THEN c ELSE None]

\* Who logged has been answered, so that what it called is settled.
LogIsPast == \A line \in log : Answered(line.of)

\* The problems that some layer answers an operation with.
ErrorsOf ==
    [createTodo |-> {400, 401, 403, 409, 413, 429, 500},
     updateTodo |-> {400, 401, 403, 404, 413, 429, 500},
     getTodo |-> {400, 401, 403, 404, 429, 500}, deleteTodo |-> {400, 401, 403, 404, 429, 500},
     listTodos |-> {400, 401, 403, 429, 500}, getHealth |-> {403, 429, 500}]

Known(operation, r) ==
    \/ r = Success[operation]
    \/ \E status \in ErrorsOf[operation] :
          \/ r = GatewayResponse(status)
          \/ r = LocalProblem(status) /\ ~Gateway
          \/ \E fields \in BOOLEAN : r = ProblemAnswer(status, fields)

AnswersKnown == \A c \in Callers : Answered(c) /\ Routed(c) => Known(Op(c), response[c])

\* The SDK sees the response that the front sent.
ResultsFollow == \A c \in Callers : pc[c] = "done" => result[c] = Result(response[c])

IInv ==
    /\ TypeOK /\ Shapes /\ OneInvocation /\ LogIsPast /\ AnswersKnown /\ ResultsFollow
    /\ BlameIsRight /\ LogsAreOwn /\ IdentitySurvives
=============================================================================
