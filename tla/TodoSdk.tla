------------------------------ MODULE TodoSdk ------------------------------
(***************************************************************************)
(* packages/sdk: the generated functions with the types they promise, and  *)
(* the hand-written client that turns error statuses into ApiError.  A     *)
(* type is a schema as in TodoContract; a TypeScript optional member may   *)
(* be absent.                                                              *)
(***************************************************************************)
EXTENDS TodoContract

SdkTodo ==
    [todo_id |-> {"uuid"}, title |-> {"text"}, description |-> {"text"} \cup Nullish,
     status |-> {"lifecycle"}, due_date |-> {"date"} \cup Nullish,
     created_at |-> {"time"}, updated_at |-> {"time"}]

SdkPage == [items |-> {"todos"}, next_cursor |-> {"text", "null"}]

SdkHealth == [status |-> {"ok"}, version |-> {"text", "absent"}]

\* Unlike the contract's schema, the type has no default for `type`.
SdkProblem ==
    [type |-> {"uri"}, title |-> {"text"}, status |-> {"error"},
     detail |-> {"text", "absent"}, instance |-> {"uri", "absent"},
     request_id |-> {"text", "absent"}, errors |-> {"fields", "absent"}]

-----------------------------------------------------------------------------
(* The requests the functions send, and the types of their results.          *)
CreateTodoRequest == [method |-> "POST",   url |-> "/todos"]
UpdateTodoRequest == [method |-> "PATCH",  url |-> "/todos/{todo_id}"]
GetTodoRequest    == [method |-> "GET",    url |-> "/todos/{todo_id}"]
DeleteTodoRequest == [method |-> "DELETE", url |-> "/todos/{todo_id}"]
ListTodosRequest  == [method |-> "GET",    url |-> "/todos"]
GetHealthRequest  == [method |-> "GET",    url |-> "/health"]

SdkRequest ==
    [createTodo |-> CreateTodoRequest, updateTodo |-> UpdateTodoRequest,
     getTodo |-> GetTodoRequest, deleteTodo |-> DeleteTodoRequest,
     listTodos |-> ListTodosRequest, getHealth |-> GetHealthRequest]

CreateTodoType == [data |-> SdkTodo,   errors |-> {400, 401, 403, 409, 413, 422, 429, 500}]
UpdateTodoType == [data |-> SdkTodo,   errors |-> {400, 401, 403, 404, 413, 422, 429, 500}]
GetTodoType    == [data |-> SdkTodo,   errors |-> {400, 401, 403, 404, 429, 500}]
DeleteTodoType == [data |-> Anything,  errors |-> {400, 401, 403, 404, 429, 500}]
ListTodosType  == [data |-> SdkPage,   errors |-> {400, 401, 403, 429, 500}]
GetHealthType  == [data |-> SdkHealth, errors |-> 400..599]

SdkType ==
    [createTodo |-> CreateTodoType, updateTodo |-> UpdateTodoType,
     getTodo |-> GetTodoType, deleteTodo |-> DeleteTodoType,
     listTodos |-> ListTodosType, getHealth |-> GetHealthType]

-----------------------------------------------------------------------------
(* createClient.                                                             *)
NoProblem == [problem |-> "absent"]

IsProblem(document) == {"status", "title"} \subseteq DOMAIN document

\* MUTANT: a body that looks like a problem is thrown, whatever the status.
Result_ByShape(response) ==
    IF IsProblem(response.body)
    THEN [outcome |-> "ApiError", status |-> response.status, body |-> response.body,
          traced |-> "x-request-id" \in response.headers]
    ELSE [outcome |-> "data", status |-> response.status, body |-> response.body,
          traced |-> TRUE]

\* What the caller of a generated function gets: a value, or an ApiError.
Result(response) ==
    [outcome |-> IF response.status >= 400 THEN "ApiError" ELSE "data",
     status  |-> response.status,
     body    |-> IF response.status >= 400 /\ ~IsProblem(response.body)
                 THEN NoProblem ELSE response.body,
     traced  |-> "x-request-id" \in response.headers]

\* A result has the type that the function was generated with.
Typed(operation, result) ==
    IF result.outcome = "data"
    THEN Conforms(result.body, SdkType[operation].data)
    ELSE /\ result.status \in SdkType[operation].errors
         /\ Conforms(result.body, SdkProblem)
=============================================================================
