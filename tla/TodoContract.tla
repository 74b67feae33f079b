---------------------------- MODULE TodoContract ----------------------------
(***************************************************************************)
(* packages/contracts/src/generated: what the contract lets a client send  *)
(* and what it lets the API answer.  A document is a function from the     *)
(* names of its members to the kind of their values, and a schema gives    *)
(* every member it declares the kinds it accepts.  As in zod, members that *)
(* a schema does not declare are let through.                              *)
(***************************************************************************)
EXTENDS Naturals

Optional == {"absent"}
Nullish  == {"null", "absent"}

Member(document, name) == IF name \in DOMAIN document THEN document[name] ELSE "absent"

Conforms(document, schema) ==
    \A name \in DOMAIN schema : Member(document, name) \in schema[name]

-----------------------------------------------------------------------------
Todo ==
    [todo_id |-> {"uuid"}, title |-> {"text"}, description |-> {"text"} \cup Nullish,
     status |-> {"lifecycle"}, due_date |-> {"date"} \cup Nullish,
     created_at |-> {"time"}, updated_at |-> {"time"}]

TodoPage == [items |-> {"todos"}, next_cursor |-> {"text", "null"}]

HealthStatus == [status |-> {"ok"}, version |-> {"text"} \cup Optional]

Problem ==
    [type |-> {"uri"} \cup Optional, title |-> {"text"}, status |-> {"error"},
     detail |-> {"text"} \cup Optional, instance |-> {"uri"} \cup Optional,
     request_id |-> {"text"} \cup Optional, errors |-> {"fields"} \cup Optional]

Anything == [name \in {} |-> {}]

\* What an operation may answer: its success and the problems it declares.
Answers(success, schema, problems) ==
    [status \in {success} \cup problems |-> IF status = success THEN schema ELSE Problem]

CreateTodo == Answers(201, Todo, {400, 401, 403, 409, 413, 422, 429, 500})
UpdateTodo == Answers(200, Todo, {400, 401, 403, 404, 413, 422, 429, 500})
GetTodo    == Answers(200, Todo, {400, 401, 403, 404, 429, 500})
DeleteTodo == Answers(204, Anything, {400, 401, 403, 404, 429, 500})
ListTodos  == Answers(200, TodoPage, {400, 401, 403, 429, 500})
GetHealth  == Answers(200, HealthStatus, {})

Declared ==
    [createTodo |-> CreateTodo, updateTodo |-> UpdateTodo, getTodo |-> GetTodo,
     deleteTodo |-> DeleteTodo, listTodos |-> ListTodos, getHealth |-> GetHealth]

Operations == DOMAIN Declared

-----------------------------------------------------------------------------
(* What an operation accepts as its body. "nul" is a text with U+0000 in it, *)
(* "year0" a date of a year 0000: the schemas accept both, PostgreSQL        *)
(* stores neither. A text that is too long is of another kind.               *)
Text == {"text", "nul"}
Date == {"date", "year0"}

TodoCreate ==
    [title |-> Text, description |-> Text \cup Nullish,
     status |-> {"lifecycle"} \cup Optional, due_date |-> Date \cup Nullish]

TodoUpdate == [TodoCreate EXCEPT !.title = Text \cup Optional]

\* What zod keeps of a document: the members its schema declares.
Stripped(document, schema) ==
    [name \in DOMAIN document \cap DOMAIN schema |-> document[name]]
=============================================================================
