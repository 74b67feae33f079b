----------------------- MODULE RequestPipelineProofs -----------------------
(***************************************************************************)
(* For every number of callers, all users and all calls: whichever layer   *)
(* answers a call, it answers as the contract declares and as the SDK's    *)
(* types say, blames who is to blame, logs under the call's own keys and   *)
(* hands the handler its caller's identity.                                *)
(***************************************************************************)
EXTENDS RequestPipeline, TLAPS

(* The operators of the contract, the SDK and the router.                    *)

\* The operations.
LEMMA SixOperations ==
    Operations = {"createTodo", "updateTodo", "getTodo", "deleteTodo", "listTodos", "getHealth"}
BY DEF Operations, Declared

\* The methods and resources of the router.
LEMMA RouteTable ==
    /\ Routes["getHealth"].method = "GET" /\ Routes["getHealth"].url = "/health"
    /\ Routes["listTodos"].method = "GET" /\ Routes["listTodos"].url = "/todos"
    /\ Routes["createTodo"].method = "POST" /\ Routes["createTodo"].url = "/todos"
    /\ Routes["getTodo"].method = "GET" /\ Routes["getTodo"].url = "/todos/{todo_id}"
    /\ Routes["updateTodo"].method = "PATCH" /\ Routes["updateTodo"].url = "/todos/{todo_id}"
    /\ Routes["deleteTodo"].method = "DELETE" /\ Routes["deleteTodo"].url = "/todos/{todo_id}"
BY DEF Routes

\* A request has one handler, and the functions of the SDK send the requests that
\* the router knows.
LEMMA RoutesOfSdk ==
    /\ DOMAIN Routes = Operations
    /\ \A operation \in Operations : Routes[operation] = SdkRequest[operation]
    /\ \A p, q \in Operations : Routes[p] = Routes[q] => p = q
<1>1. DOMAIN Routes = Operations
  BY SixOperations DEF Routes
<1>2. \A operation \in Operations : Routes[operation] = SdkRequest[operation]
  BY SixOperations DEF Routes, SdkRequest, CreateTodoRequest, UpdateTodoRequest,
       GetTodoRequest, DeleteTodoRequest, ListTodosRequest, GetHealthRequest
<1>3. ASSUME NEW p \in Operations, NEW q \in Operations, Routes[p] = Routes[q]
      PROVE  p = q
  <2>1. Routes[p].method = Routes[q].method /\ Routes[p].url = Routes[q].url
    BY <1>3
  <2>2. QED
    BY <2>1, RouteTable, SixOperations
<1>4. QED
  BY <1>1, <1>2, <1>3

\* So a call that a generated function sends has that function's handler.
LEMMA CalledIsOp ==
    ASSUME NEW c \in Callers
    PROVE  /\ Routed(c) => Op(c) \in Operations /\ Routes[Op(c)] = call[c].request
           /\ \A operation \in Called(c) :
                 Routed(c) /\ operation \in Operations /\ operation = Op(c)
<1>1. ASSUME NEW operation \in Operations, Routes[operation] = call[c].request
      PROVE  Routed(c) /\ operation = Op(c)
  BY <1>1, RoutesOfSdk DEF Routed, Op
<1>2. Routed(c) => Op(c) \in Operations /\ Routes[Op(c)] = call[c].request
  BY RoutesOfSdk DEF Routed, Op
<1>3. QED
  BY <1>1, <1>2, RoutesOfSdk DEF Called

\* A problem of the gateway, of the handler or of the local server is one in the
\* contract's sense and in the SDK's.
LEMMA ProblemsConform ==
    ASSUME NEW status, NEW fields \in BOOLEAN,
           NEW r \in {GatewayResponse(status), ProblemAnswer(status, fields), LocalProblem(status)}
    PROVE  /\ r.status = status
           /\ IsProblem(r.body)
           /\ Conforms(r.body, Problem)
           /\ Conforms(r.body, SdkProblem)
<1> USE DEF IsProblem, Conforms, Member, Problem, SdkProblem, Optional
<1>1. CASE r = GatewayResponse(status)
  BY <1>1 DEF GatewayResponse
<1>2. CASE r = ProblemAnswer(status, fields)
  BY <1>2 DEF ProblemAnswer, Answer
<1>3. CASE r = LocalProblem(status)
  BY <1>3 DEF LocalProblem
<1>4. QED
  BY <1>1, <1>2, <1>3

\* What an operation declares beyond its success is a problem.
LEMMA ErrorsDeclared ==
    ASSUME NEW operation \in Operations, NEW status \in ErrorsOf[operation]
    PROVE  /\ status \in 400..599
           /\ status \in SdkType[operation].errors
           /\ operation # "getHealth" =>
                 status \in DOMAIN Declared[operation] /\ Declared[operation][status] = Problem
<1> USE DEF ErrorsOf, SdkType, Declared, Answers
<1>1. CASE operation = "createTodo"
  BY <1>1 DEF CreateTodo, CreateTodoType
<1>2. CASE operation = "updateTodo"
  BY <1>2 DEF UpdateTodo, UpdateTodoType
<1>3. CASE operation = "getTodo"
  BY <1>3 DEF GetTodo, GetTodoType
<1>4. CASE operation = "deleteTodo"
  BY <1>4 DEF DeleteTodo, DeleteTodoType
<1>5. CASE operation = "listTodos"
  BY <1>5 DEF ListTodos, ListTodosType
<1>6. CASE operation = "getHealth"
  BY <1>6 DEF GetHealth, GetHealthType
<1>7. QED
  BY <1>1, <1>2, <1>3, <1>4, <1>5, <1>6, SixOperations

\* What an operation's handler may have to answer is among its problems.
LEMMA ErrorsListed ==
    ASSUME NEW operation \in Operations
    PROVE  /\ 500 \in ErrorsOf[operation]
           /\ operation # "getHealth" => {400, 401} \subseteq ErrorsOf[operation]
           /\ operation \in HasId => 404 \in ErrorsOf[operation]
           /\ operation = "createTodo" => 409 \in ErrorsOf[operation]
<1> USE DEF ErrorsOf, HasId
<1>1. CASE operation = "createTodo"
  BY <1>1
<1>2. CASE operation \in {"updateTodo", "getTodo", "deleteTodo"}
  BY <1>2
<1>3. CASE operation = "listTodos"
  BY <1>3
<1>4. CASE operation = "getHealth"
  BY <1>4
<1>5. QED
  BY <1>1, <1>2, <1>3, <1>4, SixOperations

\* A handler's success is declared and typed.
LEMMA SuccessDeclared ==
    ASSUME NEW operation \in Operations
    PROVE  /\ Success[operation].status \in 200..299
           /\ "x-request-id" \in Success[operation].headers
           /\ Conforms(Success[operation].body, SdkType[operation].data)
           /\ Success[operation].status \in DOMAIN Declared[operation]
           /\ Conforms(Success[operation].body,
                       Declared[operation][Success[operation].status])
<1> USE DEF Success, Answer, TodoBody, SdkType, Declared, Answers, Conforms, Member, Optional,
        Nullish, Anything
<1>1. CASE operation = "createTodo"
  BY <1>1 DEF CreateTodo, CreateTodoType, Todo, SdkTodo
<1>2. CASE operation = "updateTodo"
  BY <1>2 DEF UpdateTodo, UpdateTodoType, Todo, SdkTodo
<1>3. CASE operation = "getTodo"
  BY <1>3 DEF GetTodo, GetTodoType, Todo, SdkTodo
<1>4. CASE operation = "deleteTodo"
  BY <1>4 DEF DeleteTodo, DeleteTodoType
<1>5. CASE operation = "listTodos"
  BY <1>5 DEF ListTodos, ListTodosType, TodoPage, SdkPage
<1>6. CASE operation = "getHealth"
  BY <1>6 DEF GetHealth, GetHealthType, HealthStatus, SdkHealth
<1>7. QED
  BY <1>1, <1>2, <1>3, <1>4, <1>5, <1>6, SixOperations

\* Every encoding of a list of groups is read as what it is.
LEMMA GroupsParsed ==
    ASSUME NEW names
    PROVE  /\ ParseGroups(NoClaim) = {}
           /\ ParseGroups(Array(names)) = Range(names)
           /\ ParseGroups(Json(names)) = Range(names)
           /\ ParseGroups(Flattened(names)) = Flattening(names)
BY DEF ParseGroups, IsJson, JsonParse, Flattening, NoClaim, Array, Json, Flattened

\* The token of a caller carries its names, and no others but what a flattened list
\* is read as.
LEMMA TokensCarryNames ==
    ASSUME NEW c \in Callers, ExtractAuth(DecodedClaims(c)) # NoAuth
    PROVE  LET claims == ExtractAuth(DecodedClaims(c)) IN
           /\ claims.sub = user[c].sub /\ claims.tenant = user[c].tenant
           /\ Missing \notin {claims.sub, claims.tenant}
           /\ Range(user[c].groups) \subseteq claims.groups
           /\ claims.groups \subseteq Range(user[c].groups) \cup
                 IF Gateway THEN Flattening(user[c].groups) ELSE {}
<1> DEFINE groups == user[c].groups
<1>1. /\ Token(c) # NoToken
      /\ DecodedClaims(c).sub # Missing /\ DecodedClaims(c).tenant # Missing
  BY DEF DecodedClaims, ExtractAuth
<1>2. /\ ParseGroups(NoClaim) = {}
      /\ ParseGroups(Array(groups)) = Range(groups)
      /\ ParseGroups(Json(groups)) = Range(groups)
      /\ ParseGroups(Flattened(groups)) = Flattening(groups)
  BY GroupsParsed
<1>3. Array(groups) # NoClaim /\ Array(groups).names = groups
  BY DEF Array, NoClaim
<1>4. CASE Gateway
  <2>1. CASE groups = <<>>
    <3>1. DecodedClaims(c) = [sub |-> user[c].sub, tenant |-> user[c].tenant,
                              roles |-> NoClaim, groups |-> NoClaim]
      BY <1>1, <1>4, <2>1 DEF DecodedClaims, Token, CognitoToken, AuthorizerClaims, Roles
    <3>2. Range(groups) = {}
      BY <2>1 DEF Range
    <3>3. QED
      BY <1>1, <1>2, <3>1, <3>2 DEF ExtractAuth
  <2>2. CASE groups # <<>>
    <3>1. Token(c) = [sub |-> user[c].sub, tenant |-> user[c].tenant,
                      roles |-> Json(groups), groups |-> Array(groups)]
      BY <1>1, <1>4, <2>2 DEF Token, CognitoToken, Roles
    <3>2. DecodedClaims(c) = [sub |-> user[c].sub, tenant |-> user[c].tenant,
                              roles |-> Json(groups), groups |-> Flattened(groups)]
      BY <1>1, <1>3, <1>4, <3>1 DEF DecodedClaims, AuthorizerClaims
    <3>3. QED
      BY <1>1, <1>2, <1>4, <3>2 DEF ExtractAuth
  <2>3. QED
    BY <2>1, <2>2
<1>5. CASE ~Gateway
  <2>1. DecodedClaims(c) = [sub |-> user[c].sub, tenant |-> user[c].tenant,
                            roles |-> NoClaim, groups |-> Array(groups)]
    BY <1>1, <1>5 DEF DecodedClaims, Token, MintedToken
  <2>2. QED
    BY <1>1, <1>2, <2>1 DEF ExtractAuth
<1>6. QED
  BY <1>4, <1>5

-----------------------------------------------------------------------------
(* What the steps leave alone and what they answer.                          *)

\* The handler's ways to answer, and everyone's.
Handles(c) ==
    \/ NoRoute(c) \/ Unauthorized(c) \/ BadRequest(c)
    \/ Succeed(c) \/ NotFound(c) \/ Conflict(c) \/ Unstored(c) \/ Fault(c)

Replies(c) == GatewayRefuses(c) \/ LocalRefuses(c) \/ Kill(c) \/ Handles(c)

\* An error is answered and, if it is the service's, logged.
LEMMA ThrowLeaves ==
    ASSUME NEW c \in Callers, NEW status, NEW fields, Throw(c, status, fields)
    PROVE  /\ \E r : Leave(c, r)
           /\ log' \in {log, log \cup {[of |-> c, keys |-> keys]}}
BY DEF Throw

\* What a handler does when it answers.
LEMMA HandlerLeaves ==
    ASSUME NEW c \in Callers, Handles(c)
    PROVE  /\ pc[c] = "invoked"
           /\ \E r : Leave(c, r)
           /\ log' \in {log, log \cup {[of |-> c, keys |-> keys]}}
           /\ faulty' \in {faulty, faulty \cup {c}}
           /\ \/ auth' = auth
              \/ auth' = [auth EXCEPT ![c] = ExtractAuth(DecodedClaims(c))]
<1>1. CASE NoRoute(c) \/ Unauthorized(c) \/ BadRequest(c)
  <2>1. \E status, fields : Throw(c, status, fields)
    BY <1>1 DEF NoRoute, Unauthorized, BadRequest
  <2>2. pc[c] = "invoked" /\ UNCHANGED <<auth, faulty>>
    BY <1>1 DEF NoRoute, Unauthorized, BadRequest
  <2>3. QED
    BY <2>1, <2>2, ThrowLeaves
<1>2. CASE Succeed(c)
  BY <1>2 DEF Succeed, Reaches
<1>3. CASE NotFound(c) \/ Conflict(c) \/ Unstored(c) \/ Fault(c)
  <2>1. \E status, fields : Throw(c, status, fields)
    BY <1>3 DEF NotFound, Conflict, Unstored, Fault
  <2>2. /\ pc[c] = "invoked" /\ faulty' \in {faulty, faulty \cup {c}}
        /\ auth' = [auth EXCEPT ![c] = ExtractAuth(DecodedClaims(c))]
    BY <1>3 DEF NotFound, Conflict, Unstored, Fault, Reaches
  <2>3. QED
    BY <2>1, <2>2, ThrowLeaves
<1>4. QED
  BY <1>1, <1>2, <1>3 DEF Handles

\* A call that is answered was sent or invoked, and stays what it was.
LEMMA RepliesAnswer ==
    ASSUME NEW c \in Callers, Replies(c)
    PROVE  /\ pc[c] \in {"sent", "invoked"}
           /\ \E r : Respond(c, r)
           /\ UNCHANGED <<front, user, call, result>>
BY HandlerLeaves DEF Replies, GatewayRefuses, LocalRefuses, Kill, Leave, Respond

\* The step of a call is a step of its caller only.
LEMMA StepsAreOwn ==
    ASSUME TypeOK, Shapes, NEW c \in Callers,
           Call(c) \/ Invoke(c) \/ Replies(c) \/ Receive(c)
    PROVE  /\ front' = front /\ user' = user
           /\ \A d \in Callers \ {c} :
                 /\ pc'[d] = pc[d] /\ call'[d] = call[d] /\ auth'[d] = auth[d]
                 /\ response'[d] = response[d] /\ result'[d] = result[d]
           /\ Shapes'
<1> USE DEF TypeOK, Shapes
<1>1. CASE Call(c) \/ Invoke(c) \/ Receive(c)
  BY <1>1 DEF Call, Invoke, Receive
<1>2. CASE Replies(c)
  <2>1. auth' = auth \/ auth' = [auth EXCEPT ![c] = ExtractAuth(DecodedClaims(c))]
    BY <1>2, HandlerLeaves DEF Replies, GatewayRefuses, LocalRefuses, Kill
  <2>2. QED
    BY <1>2, <2>1, RepliesAnswer DEF Respond
<1>3. QED
  BY <1>1, <1>2

\* Every step is one of these.
LEMMA NextIs ==
    Next <=> \E c \in Callers : Call(c) \/ Invoke(c) \/ Replies(c) \/ Receive(c)
BY DEF Next, Replies, Handles

\* What is said of a call depends on the call and on the front only.
LEMMA SaidOfCalls ==
    ASSUME NEW c \in Callers, call'[c] = call[c], front' = front, user' = user
    PROVE  /\ Routed(c)' <=> Routed(c)
           /\ Op(c)' = Op(c)
           /\ Rejected(c)' <=> Rejected(c)
           /\ Unstorable(c)' <=> Unstorable(c)
           /\ Malformed(c)' <=> Malformed(c)
           /\ Gateway' <=> Gateway
           /\ \A operation, r : Known(operation, r)' <=> Known(operation, r)
BY DEF Routed, Op, Rejected, Unstorable, Malformed, BodyRejected, ParametersRejected, Garbage,
     Kept, BodySchema, HasNul, GatewaySchemaRejects, Gateway, Known

\* A status the gateway renders.
LEMMA Statuses ==
    ASSUME NEW kind \in DOMAIN StatusOf
    PROVE  /\ StatusOf[kind] \in {400, 401, 403, 413, 429, 500}
           /\ StatusOf[kind] = 500 => kind = "DEFAULT_5XX"
           /\ StatusOf[kind] = 400 =>
                 kind \in {"DEFAULT_4XX", "BAD_REQUEST_BODY", "BAD_REQUEST_PARAMETERS"}
BY DEF StatusOf

\* What the gateway refuses with is a response it has, and never its own failure or a
\* missing parameter.
LEMMA RefusalKinds ==
    ASSUME NEW c \in Callers, NEW kind \in Refusals(c) \cup Whims(c)
    PROVE  /\ kind \in DOMAIN StatusOf \ {"DEFAULT_5XX", "BAD_REQUEST_PARAMETERS"}
           /\ Routed(c) => StatusOf[kind] \in ErrorsOf[Op(c)]
           /\ Routed(c) /\ StatusOf[kind] = 400 => Malformed(c)
<1> USE DEF Refusals, Whims, StatusOf
<1>1. kind \in DOMAIN StatusOf \ {"DEFAULT_5XX", "BAD_REQUEST_PARAMETERS"}
  OBVIOUS
<1>2. ASSUME Routed(c)
      PROVE  StatusOf[kind] \in ErrorsOf[Op(c)]
  BY <1>2, CalledIsOp, SixOperations DEF ErrorsOf, HasBody, HasId
<1>3. ASSUME Routed(c), StatusOf[kind] = 400
      PROVE  Malformed(c)
  BY <1>3 DEF Malformed
<1>4. QED
  BY <1>1, <1>2, <1>3

\* The gateway refuses as the contract declares, with a 400 for a malformed call.
LEMMA RefusalIsKnown ==
    ASSUME Shapes, NEW c \in Callers, Routed(c), GatewayRefuses(c)
    PROVE  \E status \in ErrorsOf[Op(c)] \ {500} :
              /\ response'[c] = GatewayResponse(status)
              /\ status = 400 => Malformed(c)
<1>1. PICK kind \in Refusals(c) \cup Whims(c) : response'[c] = GatewayResponse(StatusOf[kind])
  BY DEF GatewayRefuses, Respond, Shapes
<1>2. StatusOf[kind] \in ErrorsOf[Op(c)] \ {500} /\ (StatusOf[kind] = 400 => Malformed(c))
  BY RefusalKinds, Statuses
<1>3. QED
  BY <1>1, <1>2

\* The local server refuses a path that it cannot decode.
LEMMA LocalIsKnown ==
    ASSUME Shapes, NEW c \in Callers, Routed(c), LocalRefuses(c)
    PROVE  ~Gateway /\ response'[c] = LocalProblem(500)
<1>1. call[c].request.url \in Resources
  <2>1. \A operation \in Operations : Routes[operation].url \in Resources
    BY SixOperations, RouteTable DEF Resources
  <2>2. QED
    BY <2>1, CalledIsOp
<1>2. QED
  BY <1>1 DEF LocalRefuses, Respond, Shapes

\* A handler answers with its success or with a problem that its operation declares.
LEMMA HandlerIsKnown ==
    ASSUME Shapes, NEW c \in Callers, Routed(c), Handles(c)
    PROVE  \/ response'[c] = Success[Op(c)] /\ ~Rejected(c) /\ ~Unstorable(c)
           \/ \E status \in ErrorsOf[Op(c)] \ {400, 500}, fields \in BOOLEAN :
                 response'[c] = ProblemAnswer(status, fields)
           \/ /\ Malformed(c) /\ 400 \in ErrorsOf[Op(c)]
              /\ \E fields \in BOOLEAN : response'[c] = ProblemAnswer(400, fields)
           \/ /\ c \in faulty' /\ 500 \in ErrorsOf[Op(c)]
              /\ \E fields \in BOOLEAN : response'[c] = ProblemAnswer(500, fields)
<1>1. Op(c) \in Operations
  BY CalledIsOp
<1>2. ASSUME Unauthorized(c)
      PROVE  /\ 401 \in ErrorsOf[Op(c)]
             /\ \E fields \in BOOLEAN : response'[c] = ProblemAnswer(401, fields)
  <2>1. \E fields \in BOOLEAN : response'[c] = ProblemAnswer(401, fields)
    BY <1>2 DEF Unauthorized, Throw, Leave, Respond, Shapes
  <2>2. Op(c) # "getHealth"
    BY <1>2 DEF Unauthorized, Authenticated
  <2>3. QED
    BY <1>1, <2>1, <2>2, ErrorsListed
<1>3. ASSUME BadRequest(c)
      PROVE  /\ Malformed(c) /\ 400 \in ErrorsOf[Op(c)]
             /\ \E fields \in BOOLEAN : response'[c] = ProblemAnswer(400, fields)
  <2>1. \E fields \in BOOLEAN : response'[c] = ProblemAnswer(400, fields)
    BY <1>3 DEF BadRequest, Throw, Leave, Respond, Shapes
  <2>2. Rejected(c)
    BY <1>3 DEF BadRequest
  <2>3. Op(c) # "getHealth"
    BY <2>2 DEF Rejected, ParametersRejected, HasBody, HasId
  <2>4. QED
    BY <1>1, <2>1, <2>2, <2>3, ErrorsListed DEF Malformed
<1>4. ASSUME Succeed(c)
      PROVE  response'[c] = Success[Op(c)] /\ ~Rejected(c) /\ ~Unstorable(c)
  BY <1>4 DEF Succeed, Reaches, Leave, Respond, Shapes
<1>5. ASSUME NotFound(c)
      PROVE  /\ 404 \in ErrorsOf[Op(c)]
             /\ \E fields \in BOOLEAN : response'[c] = ProblemAnswer(404, fields)
  <2>1. \E fields \in BOOLEAN : response'[c] = ProblemAnswer(404, fields)
    BY <1>5 DEF NotFound, Throw, Leave, Respond, Shapes
  <2>2. Op(c) \in HasId
    BY <1>5 DEF NotFound
  <2>3. QED
    BY <1>1, <2>1, <2>2, ErrorsListed
<1>6. ASSUME Conflict(c)
      PROVE  /\ 409 \in ErrorsOf[Op(c)]
             /\ \E fields \in BOOLEAN : response'[c] = ProblemAnswer(409, fields)
  <2>1. \E fields \in BOOLEAN : response'[c] = ProblemAnswer(409, fields)
    BY <1>6 DEF Conflict, Throw, Leave, Respond, Shapes
  <2>2. Op(c) = "createTodo"
    BY <1>6 DEF Conflict
  <2>3. QED
    BY <1>1, <2>1, <2>2, ErrorsListed
<1>7. ASSUME Unstored(c)
      PROVE  /\ Malformed(c) /\ 400 \in ErrorsOf[Op(c)]
             /\ \E fields \in BOOLEAN : response'[c] = ProblemAnswer(400, fields)
  <2>1. \E fields \in BOOLEAN : response'[c] = ProblemAnswer(400, fields)
    BY <1>7 DEF Unstored, Throw, Leave, Respond, Shapes
  <2>2. Unstorable(c)
    BY <1>7 DEF Unstored
  <2>3. Op(c) # "getHealth"
    BY <2>2 DEF Unstorable, HasBody
  <2>4. QED
    BY <1>1, <2>1, <2>2, <2>3, ErrorsListed DEF Malformed
<1>8. ASSUME Fault(c)
      PROVE  /\ c \in faulty' /\ 500 \in ErrorsOf[Op(c)]
             /\ \E fields \in BOOLEAN : response'[c] = ProblemAnswer(500, fields)
  <2>1. \E fields \in BOOLEAN : response'[c] = ProblemAnswer(500, fields)
    BY <1>8 DEF Fault, Throw, Leave, Respond, Shapes
  <2>2. c \in faulty'
    BY <1>8 DEF Fault
  <2>3. QED
    BY <1>1, <2>1, <2>2, ErrorsListed
<1>9. ~NoRoute(c)
  BY DEF NoRoute
<1>10. CASE Unauthorized(c) \/ NotFound(c) \/ Conflict(c)
  <2>1. PICK status \in {401, 404, 409} :
           /\ status \in ErrorsOf[Op(c)]
           /\ \E fields \in BOOLEAN : response'[c] = ProblemAnswer(status, fields)
    BY <1>2, <1>5, <1>6, <1>10
  <2>2. QED
    BY <2>1
<1>11. CASE BadRequest(c) \/ Unstored(c)
  BY <1>3, <1>7, <1>11
<1>12. QED
  BY <1>4, <1>8, <1>9, <1>10, <1>11 DEF Handles

\* Whichever layer answers a call that has a handler, the answer is one of the known
\* and blames who is to blame.
LEMMA ReplyIsKnown ==
    ASSUME Shapes, NEW c \in Callers, Routed(c), Replies(c)
    PROVE  /\ Known(Op(c), response'[c])
           /\ Gateway =>
                 /\ response'[c].status = 400 => Malformed(c)
                 /\ response'[c].status = 500 => c \in faulty'
                 /\ response'[c].status < 300 => ~Rejected(c) /\ ~Unstorable(c)
<1> DEFINE r == response'[c]
<1>1. Op(c) \in Operations
  BY CalledIsOp
<1>2. \A status \in ErrorsOf[Op(c)] :
         /\ status \in 400..599
         /\ GatewayResponse(status).status = status
         /\ LocalProblem(status).status = status
         /\ \A fields \in BOOLEAN : ProblemAnswer(status, fields).status = status
  BY <1>1, ErrorsDeclared DEF GatewayResponse, LocalProblem, ProblemAnswer, Answer
<1>3. 500 \in ErrorsOf[Op(c)]
  BY <1>1, ErrorsListed
<1>4. CASE GatewayRefuses(c)
  <2>1. PICK status \in ErrorsOf[Op(c)] \ {500} :
           r = GatewayResponse(status) /\ (status = 400 => Malformed(c))
    BY <1>4, RefusalIsKnown
  <2>2. QED
    BY <1>2, <2>1 DEF Known
<1>5. CASE LocalRefuses(c)
  BY <1>3, <1>5, LocalIsKnown DEF Known
<1>6. CASE Kill(c)
  <2>1. r = GatewayResponse(500) /\ c \in faulty'
    BY <1>6 DEF Kill, Respond, Shapes, StatusOf
  <2>2. QED
    BY <1>2, <1>3, <2>1 DEF Known
<1>7. CASE Handles(c)
  <2>1. CASE r = Success[Op(c)] /\ ~Rejected(c) /\ ~Unstorable(c)
    <3>1. r.status \in 200..299
      BY <1>1, <2>1, SuccessDeclared
    <3>2. QED
      BY <2>1, <3>1 DEF Known
  <2>2. ASSUME NEW status \in ErrorsOf[Op(c)] \ {400, 500}, NEW fields \in BOOLEAN,
               r = ProblemAnswer(status, fields)
        PROVE  Known(Op(c), r) /\ r.status \in 400..599 \ {400, 500}
    BY <1>2, <2>2 DEF Known
  <2>3. ASSUME 400 \in ErrorsOf[Op(c)], NEW fields \in BOOLEAN, r = ProblemAnswer(400, fields)
        PROVE  Known(Op(c), r) /\ r.status = 400
    BY <1>2, <2>3 DEF Known
  <2>4. ASSUME 500 \in ErrorsOf[Op(c)], NEW fields \in BOOLEAN, r = ProblemAnswer(500, fields)
        PROVE  Known(Op(c), r) /\ r.status = 500
    BY <1>2, <2>4 DEF Known
  <2>5. QED
    BY <1>7, <2>1, <2>2, <2>3, <2>4, HandlerIsKnown
<1>8. QED
  BY <1>4, <1>5, <1>6, <1>7 DEF Replies

\* Every status is one that HTTP has for an answer.
LEMMA ReplyStatus ==
    ASSUME Shapes, NEW c \in Callers, Replies(c)
    PROVE  response'[c].status \in 200..599
<1> DEFINE r == response'[c]
<1>1. CASE Routed(c)
  <2>1. Op(c) \in Operations /\ Known(Op(c), r)
    BY <1>1, CalledIsOp, ReplyIsKnown
  <2>2. CASE r = Success[Op(c)]
    BY <2>1, <2>2, SuccessDeclared
  <2>3. ASSUME NEW status \in ErrorsOf[Op(c)], NEW fields \in BOOLEAN,
               r \in {GatewayResponse(status), LocalProblem(status), ProblemAnswer(status, fields)}
        PROVE  r.status \in 200..599
    <3>1. r.status = status
      BY <2>3 DEF GatewayResponse, LocalProblem, ProblemAnswer, Answer
    <3>2. QED
      BY <2>1, <3>1, ErrorsDeclared
  <2>4. QED
    BY <2>1, <2>2, <2>3 DEF Known
<1>2. CASE ~Routed(c)
  <2>1. CASE GatewayRefuses(c)
    <3>1. PICK kind \in Refusals(c) \cup Whims(c) : r = GatewayResponse(StatusOf[kind])
      BY <2>1 DEF GatewayRefuses, Respond, Shapes
    <3>2. QED
      BY <3>1, RefusalKinds, Statuses DEF GatewayResponse
  <2>2. CASE LocalRefuses(c) \/ Kill(c)
    BY <2>2 DEF LocalRefuses, Kill, Respond, Shapes, LocalProblem, GatewayResponse, StatusOf
  <2>3. CASE NoRoute(c)
    BY <2>3 DEF NoRoute, Throw, Leave, Respond, Shapes, ProblemAnswer, Answer
  <2>4. Handles(c) => NoRoute(c)
    BY <1>2 DEF Handles, Unauthorized, BadRequest, Succeed, NotFound, Conflict, Unstored, Fault,
         Reaches
  <2>5. QED
    BY <2>1, <2>2, <2>3, <2>4 DEF Replies
<1>3. QED
  BY <1>1, <1>2

-----------------------------------------------------------------------------
\* The invariant holds at first.
LEMMA InitInv == Init => IInv
<1> SUFFICES ASSUME Init PROVE IInv
  OBVIOUS
<1> USE DEF Init
<1>1. TypeOK
  BY DEF TypeOK, NoKeys, KeysType
<1>2. Shapes
  BY DEF Shapes
<1>3. \A c \in Callers : ~Answered(c) /\ pc[c] \notin {"invoked", "done"} /\ auth[c] = NoAuth
  BY DEF Answered
<1>4. QED
  BY <1>1, <1>2, <1>3 DEF IInv, OneInvocation, LogIsPast, AnswersKnown, ResultsFollow,
     BlameIsRight, LogsAreOwn, IdentitySurvives

\* Every step keeps the types.
LEMMA TypeSteps ==
    ASSUME TypeOK, Shapes, NEW c \in Callers,
           Call(c) \/ Invoke(c) \/ Replies(c) \/ Receive(c)
    PROVE  TypeOK'
<1> USE DEF TypeOK, KeysType
<1>1. CASE Call(c)
  BY <1>1 DEF Call, Shapes
<1>2. CASE Invoke(c)
  BY <1>2 DEF Invoke, Appended
<1>3. CASE Replies(c)
  <2>1. keys' \in {keys, NoKeys}
    BY <1>3, HandlerLeaves DEF Replies, GatewayRefuses, LocalRefuses, Kill, Leave
  <2>2. log' \in {log, log \cup {[of |-> c, keys |-> keys]}} /\ faulty' \in {faulty, faulty \cup {c}}
    BY <1>3, HandlerLeaves DEF Replies, GatewayRefuses, LocalRefuses, Kill
  <2>3. \A d \in Callers : response'[d] = None \/ response'[d].status \in 200..599
    BY <1>3, StepsAreOwn, ReplyStatus
  <2>4. pc' = [pc EXCEPT ![c] = "answered"] /\ UNCHANGED <<front, user, call>>
    BY <1>3, RepliesAnswer DEF Respond
  <2>5. QED
    BY <2>1, <2>2, <2>3, <2>4 DEF NoKeys
<1>4. CASE Receive(c)
  BY <1>4 DEF Receive
<1>5. QED
  BY <1>1, <1>2, <1>3, <1>4

\* A call that was made stays what it is, and so does its answer.
LEMMA CallsStand ==
    ASSUME TypeOK, Shapes, NEW c \in Callers,
           Call(c) \/ Invoke(c) \/ Replies(c) \/ Receive(c),
           NEW d \in Callers, pc[d] # "idle"
    PROVE  /\ call'[d] = call[d] /\ pc'[d] # "idle"
           /\ Answered(d) => Answered(d)' /\ response'[d] = response[d]
<1>1. CASE d # c
  BY <1>1, StepsAreOwn DEF Answered
<1>2. CASE d = c /\ ~Replies(c)
  BY <1>2 DEF Call, Invoke, Receive, TypeOK, Answered
<1>3. CASE d = c /\ Replies(c)
  BY <1>3, RepliesAnswer DEF Respond, TypeOK, Answered
<1>4. QED
  BY <1>1, <1>2, <1>3

\* The keys of the logger are those of the one invocation.
LEMMA KeysSteps ==
    ASSUME TypeOK, Shapes, OneInvocation, NEW c \in Callers,
           Call(c) \/ Invoke(c) \/ Replies(c) \/ Receive(c)
    PROVE  OneInvocation'
<1> SUFFICES ASSUME Gateway PROVE OneInvocation'
  BY StepsAreOwn DEF OneInvocation, Gateway
<1>1. CASE Call(c) \/ Receive(c) \/ GatewayRefuses(c)
  <2>1. /\ pc[c] # "invoked" /\ pc'[c] # "invoked" /\ keys' = keys
        /\ \A d \in Callers \ {c} : pc'[d] = pc[d] /\ call'[d] = call[d]
    BY <1>1, StepsAreOwn DEF Call, Receive, GatewayRefuses, Respond, TypeOK, Replies
  <2>2. QED
    BY <2>1 DEF OneInvocation
<1>2. CASE Invoke(c)
  <2>1. \A d \in Callers : pc[d] # "invoked"
    BY <1>2 DEF Invoke, PassedOn
  <2>2. keys = NoKeys
    BY <2>1 DEF OneInvocation
  <2>3. /\ keys' = [request |-> c, client |-> IF call[c].clientId THEN c ELSE None]
        /\ call' = call
    BY <1>2, <2>2 DEF Invoke, Appended, NoKeys
  <2>4. \A d \in Callers : pc'[d] = "invoked" <=> d = c
    BY <1>2, <2>1 DEF Invoke, TypeOK
  <2>5. QED
    BY <2>3, <2>4 DEF OneInvocation
<1>3. CASE Kill(c) \/ Handles(c)
  <2>1. pc[c] = "invoked" /\ keys' = NoKeys
    BY <1>3, HandlerLeaves DEF Kill, Leave
  <2>2. \A d \in Callers : pc'[d] # "invoked"
    BY <1>3, <2>1, RepliesAnswer DEF OneInvocation, Replies, Respond, TypeOK
  <2>3. QED
    BY <2>1, <2>2 DEF OneInvocation
<1>4. CASE LocalRefuses(c)
  BY <1>4 DEF LocalRefuses
<1>5. QED
  BY <1>1, <1>2, <1>3, <1>4 DEF Replies

\* What is logged is logged by a call that is answered at once, under its own keys.
LEMMA LogSteps ==
    ASSUME TypeOK, Shapes, OneInvocation, LogIsPast, LogsAreOwn, NEW c \in Callers,
           Call(c) \/ Invoke(c) \/ Replies(c) \/ Receive(c)
    PROVE  LogIsPast' /\ LogsAreOwn'
<1>1. ASSUME NEW line \in log
      PROVE  /\ line.of \in Callers /\ Answered(line.of)'
             /\ call'[line.of] = call[line.of]
  <2>1. line.of \in Callers /\ Answered(line.of) /\ pc[line.of] # "idle"
    BY DEF TypeOK, LogIsPast, Answered
  <2>2. QED
    BY <2>1, CallsStand
<1>2. front' = front
  BY StepsAreOwn
<1>3. CASE log' = log
  BY <1>1, <1>2, <1>3 DEF LogIsPast, LogsAreOwn, Gateway
<1>4. CASE Handles(c) /\ log' = log \cup {[of |-> c, keys |-> keys]}
  <2>1. pc[c] = "invoked" /\ Answered(c)' /\ call' = call
    BY <1>4, HandlerLeaves, RepliesAnswer DEF Replies, Respond, TypeOK, Answered
  <2>2. Gateway => keys = [request |-> c, client |-> IF call[c].clientId THEN c ELSE None]
    BY <2>1 DEF OneInvocation
  <2>3. LogIsPast'
    BY <1>1, <1>4, <2>1 DEF LogIsPast
  <2>4. LogsAreOwn'
    BY <1>1, <1>2, <1>4, <2>1, <2>2 DEF LogsAreOwn, Gateway
  <2>5. QED
    BY <2>3, <2>4
<1>5. QED
  BY <1>3, <1>4, HandlerLeaves
     DEF Call, Invoke, Receive, Replies, GatewayRefuses, LocalRefuses, Kill

\* The identity a handler is given is its caller's.
LEMMA IdentitySteps ==
    ASSUME TypeOK, Shapes, IdentitySurvives, NEW c \in Callers,
           Call(c) \/ Invoke(c) \/ Replies(c) \/ Receive(c)
    PROVE  IdentitySurvives'
<1>1. front' = front /\ user' = user /\ \A d \in Callers \ {c} : auth'[d] = auth[d]
  BY StepsAreOwn
<1>2. auth'[c] = auth[c] \/ auth'[c] = ExtractAuth(DecodedClaims(c))
  BY HandlerLeaves
     DEF Call, Invoke, Receive, Replies, GatewayRefuses, LocalRefuses, Kill, Shapes
<1>3. ASSUME NEW d \in Callers, auth'[d] # NoAuth
      PROVE  /\ auth'[d].sub = user'[d].sub /\ auth'[d].tenant = user'[d].tenant
             /\ Missing \notin {auth'[d].sub, auth'[d].tenant}
             /\ Range(user'[d].groups) \subseteq auth'[d].groups
             /\ auth'[d].groups \subseteq Range(user'[d].groups) \cup
                   IF Gateway' THEN Flattening(user'[d].groups) ELSE {}
  <2>1. CASE auth'[d] = auth[d]
    BY <1>1, <1>3, <2>1 DEF IdentitySurvives, Gateway
  <2>2. CASE d = c /\ auth'[c] = ExtractAuth(DecodedClaims(c))
    BY <1>1, <1>3, <2>2, TokensCarryNames DEF Gateway
  <2>3. QED
    BY <1>1, <1>2, <2>1, <2>2
<1>4. QED
  BY <1>3 DEF IdentitySurvives

\* Every answer to a call with a handler is known, and blames who is to blame.
LEMMA AnswerSteps ==
    ASSUME TypeOK, Shapes, AnswersKnown, BlameIsRight, NEW c \in Callers,
           Call(c) \/ Invoke(c) \/ Replies(c) \/ Receive(c)
    PROVE  AnswersKnown' /\ BlameIsRight'
<1>1. front' = front /\ user' = user /\ faulty \subseteq faulty'
  BY StepsAreOwn, HandlerLeaves
     DEF Call, Invoke, Receive, Replies, GatewayRefuses, LocalRefuses, Kill
<1>2. ASSUME NEW d \in Callers, Answered(d)', Routed(d)'
      PROVE  /\ Known(Op(d), response[d])'
             /\ Gateway' =>
                   /\ response'[d].status = 400 => Malformed(d)'
                   /\ response'[d].status = 500 => d \in faulty'
                   /\ response'[d].status < 300 => ~Rejected(d)' /\ ~Unstorable(d)'
  <2>1. CASE Answered(d)
    <3>1. call'[d] = call[d] /\ response'[d] = response[d]
      BY <2>1, CallsStand DEF Answered
    <3>2. QED
      BY <1>1, <1>2, <2>1, <3>1, SaidOfCalls DEF AnswersKnown, BlameIsRight
  <2>2. CASE ~Answered(d)
    <3>1. d = c /\ Replies(c)
      BY <1>2, <2>2, StepsAreOwn DEF Answered, Call, Invoke, Receive, TypeOK
    <3>2. call' = call
      BY <3>1, RepliesAnswer
    <3>3. QED
      BY <1>1, <1>2, <3>1, <3>2, SaidOfCalls, ReplyIsKnown
  <2>3. QED
    BY <2>1, <2>2
<1>3. QED
  BY <1>2 DEF AnswersKnown, BlameIsRight

\* The SDK's result is made of the response.
LEMMA ResultSteps ==
    ASSUME TypeOK, Shapes, ResultsFollow, NEW c \in Callers,
           Call(c) \/ Invoke(c) \/ Replies(c) \/ Receive(c)
    PROVE  ResultsFollow'
<1>1. ASSUME NEW d \in Callers \ {c}
      PROVE  pc'[d] = pc[d] /\ response'[d] = response[d] /\ result'[d] = result[d]
  BY StepsAreOwn
<1>2. pc'[c] = "done" => Receive(c)
  BY RepliesAnswer DEF Call, Invoke, Respond, TypeOK
<1>3. Receive(c) => result'[c] = Result(response[c]) /\ response' = response
  BY DEF Receive, Shapes
<1>4. QED
  BY <1>1, <1>2, <1>3 DEF ResultsFollow, Result

\* Every step keeps the invariant.
LEMMA StepInv == IInv /\ [Next]_vars => IInv'
<1> SUFFICES ASSUME IInv, [Next]_vars PROVE IInv'
  OBVIOUS
<1>1. ASSUME NEW c \in Callers, Call(c) \/ Invoke(c) \/ Replies(c) \/ Receive(c)
      PROVE  IInv'
  <2>1. TypeOK' /\ Shapes'
    BY <1>1, TypeSteps, StepsAreOwn DEF IInv
  <2>2. OneInvocation' /\ LogIsPast' /\ LogsAreOwn' /\ IdentitySurvives'
    BY <1>1, KeysSteps, LogSteps, IdentitySteps DEF IInv
  <2>3. AnswersKnown' /\ BlameIsRight' /\ ResultsFollow'
    BY <1>1, AnswerSteps, ResultSteps DEF IInv
  <2>4. QED
    BY <2>1, <2>2, <2>3 DEF IInv
<1>2. CASE UNCHANGED vars
  <2>1. \A c \in Callers : /\ Answered(c)' <=> Answered(c)
                           /\ call'[c] = call[c] /\ front' = front /\ user' = user
    BY <1>2 DEF vars, Answered
  <2>2. TypeOK' /\ Shapes' /\ OneInvocation' /\ LogIsPast' /\ ResultsFollow' /\ LogsAreOwn'
           /\ IdentitySurvives'
    BY <1>2 DEF vars, IInv, TypeOK, Shapes, OneInvocation, Gateway, LogIsPast, Answered,
         ResultsFollow, Result, LogsAreOwn, IdentitySurvives
  <2>3. AnswersKnown' /\ BlameIsRight'
    BY <1>2, <2>1, SaidOfCalls DEF vars, IInv, AnswersKnown, BlameIsRight
  <2>4. QED
    BY <2>2, <2>3 DEF IInv
<1>3. QED
  BY <1>1, <1>2, NextIs

\* The invariant of every behaviour.
LEMMA Invariance == Spec => []IInv
BY InitInv, StepInv, PTL DEF Spec

\* A known answer is declared, and a typed value or a typed problem to the SDK.
LEMMA KnownIsTyped ==
    ASSUME NEW operation \in Operations, NEW r, Known(operation, r)
    PROVE  /\ operation # "getHealth" =>
                 /\ r.status \in DOMAIN Declared[operation]
                 /\ Conforms(r.body, Declared[operation][r.status])
           /\ Typed(operation, Result(r))
           /\ Gateway => Result(r).traced
<1>1. CASE r = Success[operation]
  <2>1. /\ r.status \in 200..299 /\ "x-request-id" \in r.headers
        /\ Conforms(r.body, SdkType[operation].data)
        /\ r.status \in DOMAIN Declared[operation]
        /\ Conforms(r.body, Declared[operation][r.status])
    BY <1>1, SuccessDeclared
  <2>2. /\ Result(r).outcome = "data" /\ Result(r).body = r.body
        /\ Result(r).traced = ("x-request-id" \in r.headers)
    <3>1. ~(r.status >= 400)
      BY <2>1
    <3>2. Result(r) = [outcome |-> "data", status |-> r.status, body |-> r.body,
                       traced |-> "x-request-id" \in r.headers]
      BY <3>1 DEF Result
    <3>3. QED
      BY <3>2
  <2>3. QED
    BY <2>1, <2>2 DEF Typed
<1>2. ASSUME NEW status \in ErrorsOf[operation], NEW fields \in BOOLEAN,
             \/ r = GatewayResponse(status)
             \/ r = LocalProblem(status) /\ ~Gateway
             \/ r = ProblemAnswer(status, fields)
      PROVE  /\ operation # "getHealth" =>
                   /\ r.status \in DOMAIN Declared[operation]
                   /\ Conforms(r.body, Declared[operation][r.status])
             /\ Typed(operation, Result(r))
             /\ Gateway => Result(r).traced
  <2>1. /\ r.status = status /\ IsProblem(r.body)
        /\ Conforms(r.body, Problem) /\ Conforms(r.body, SdkProblem)
    BY <1>2, ProblemsConform
  <2>2. /\ status \in 400..599 /\ status \in SdkType[operation].errors
        /\ operation # "getHealth" =>
              status \in DOMAIN Declared[operation] /\ Declared[operation][status] = Problem
    BY ErrorsDeclared
  <2>3. Gateway => "x-request-id" \in r.headers
    BY <1>2 DEF GatewayResponse, ProblemAnswer, Answer
  <2>4. /\ Result(r).outcome = "ApiError" /\ Result(r).status = status
        /\ Result(r).body = r.body
        /\ Result(r).traced = ("x-request-id" \in r.headers)
    BY <2>1, <2>2 DEF Result
  <2>5. QED
    BY <2>1, <2>2, <2>3, <2>4 DEF Typed
<1>3. QED
  BY <1>1, <1>2 DEF Known

\* The invariant gives both contracts.
LEMMA ContractsKept == IInv => AnswersDeclared /\ ResultsTyped
<1> SUFFICES ASSUME IInv PROVE AnswersDeclared /\ ResultsTyped
  OBVIOUS
<1>1. ASSUME NEW c \in Callers, Answered(c), NEW operation \in Called(c)
      PROVE  operation \in Operations /\ Known(operation, response[c])
  BY <1>1, CalledIsOp DEF IInv, AnswersKnown
<1>2. AnswersDeclared
  BY <1>1, KnownIsTyped DEF AnswersDeclared
<1>3. ResultsTyped
  <2> SUFFICES ASSUME NEW c \in Callers, pc[c] = "done", NEW operation \in Called(c)
               PROVE  Typed(operation, result[c]) /\ (Gateway => result[c].traced)
    BY DEF ResultsTyped
  <2>1. result[c] = Result(response[c]) /\ Answered(c)
    BY DEF IInv, ResultsFollow, Answered
  <2>2. QED
    BY <1>1, <2>1, KnownIsTyped
<1>4. QED
  BY <1>2, <1>3

-----------------------------------------------------------------------------
\* The types of every reachable state (handler.ts, router/index.ts, error-mapper.ts).
THEOREM TypeCorrect == Spec => []TypeOK
<1>1. IInv => TypeOK
  BY DEF IInv
<1>2. QED
  BY <1>1, Invariance, PTL

\* Whatever is called and whichever layer answers, the status is one the contract
\* declares for the operation and the body has its declared shape (api/openapi.yaml).
THEOREM ContractHolds == Spec => []AnswersDeclared
BY ContractsKept, Invariance, PTL

\* A generated function returns what its type says, or throws an ApiError with a declared
\* status, a typed problem and, behind the gateway, the id for support
\* (packages/sdk/src/index.ts:8-14).
THEOREM SdkTypesHold == Spec => []ResultsTyped
BY ContractsKept, Invariance, PTL

\* Behind the gateway a 400 is the client's fault, a 500 is not, and what succeeds was
\* understood (http.ts:57-59, error-mapper.ts:18-22).
THEOREM BlameSafety == Spec => []BlameIsRight
<1>1. IInv => BlameIsRight
  BY DEF IInv
<1>2. QED
  BY <1>1, Invariance, PTL

\* In a Lambda environment no error is logged under the keys of another call
\* (error-mapper.ts:6-16, handler.ts:25).
THEOREM LogSafety == Spec => []LogsAreOwn
<1>1. IInv => LogsAreOwn
  BY DEF IInv
<1>2. QED
  BY <1>1, Invariance, PTL

\* A handler acts for a caller that has a sub and a tenant, with these and with all the
\* caller's groups, for all names; what else it may find among the groups is what a
\* flattened list of the caller's own is read as, whatever JSON.parse would read in it
\* (claims.ts:17-53).
THEOREM IdentitySafety == Spec => []IdentitySurvives
<1>1. IInv => IdentitySurvives
  BY DEF IInv
<1>2. QED
  BY <1>1, Invariance, PTL
=============================================================================
