------------------------- MODULE MCRequestPipeline -------------------------
EXTENDS RequestPipeline, TLC

CONSTANTS c1, c2

\* A group with a blank or a comma in its name, none, and one whose list JSON.parse reads.
MCUsers ==
    c1 :> {[sub |-> "u1", tenant |-> "t1", groups |-> << <<"ops">>, <<"on", "call">> >>]}
    @@ c2 :> {[sub |-> "u2", tenant |-> tenant, groups |-> <<>>] : tenant \in {"t2", Missing}}
                \cup {[sub |-> "u3", tenant |-> "t2", groups |-> << <<"1e3">> >>]}

\* [1e3] is a list of one number.
MCJsonReads == << <<"1e3">> >> :> << <<"1000">> >>

Plain(operation) ==
    [request |-> SdkRequest[operation], token |-> TRUE, apiKey |-> TRUE,
     clientId |-> FALSE, big |-> FALSE, json |-> TRUE, body |-> Anything,
     key |-> "none", id |-> "uuid", query |-> "valid"]

Bodies ==
    {Anything, [title |-> "text"], [title |-> "long"], [title |-> "nul"],
     [title |-> "text", due_date |-> "year0"], [title |-> "text", colour |-> "text"],
     [colour |-> "text"], [description |-> "null", status |-> "lifecycle"]}

\* The calls of an operation, with the parameters and the body that it takes.
Of(operation) ==
    {[Plain(operation) EXCEPT !.token = token, !.apiKey = apiKey, !.clientId = clientId] :
        token \in BOOLEAN, apiKey \in BOOLEAN, clientId \in BOOLEAN}

WithId(calls) ==
    {[c EXCEPT !.id = id] : c \in calls, id \in {"uuid", "malformed", "undecodable"}}

WithBody(calls) ==
    {[c EXCEPT !.body = body] : c \in calls, body \in Bodies}
        \cup {[c EXCEPT !.json = FALSE] : c \in calls}
        \cup {[c EXCEPT !.big = TRUE] : c \in calls}

WithKey(calls) == {[c EXCEPT !.key = key] : c \in calls, key \in {"none", "valid", "short"}}

WithQuery(calls) ==
    {[c EXCEPT !.query = query] : c \in calls,
        query \in {"valid", "unknown", "limit", "cursor", "year0"}}

Every ==
    WithKey(WithBody(Of("createTodo"))) \cup WithId(WithBody(Of("updateTodo")))
        \cup WithId(Of("getTodo")) \cup WithId(Of("deleteTodo"))
        \cup WithQuery(Of("listTodos")) \cup Of("getHealth")
        \cup {[c EXCEPT !.request = request] : c \in Of("getTodo"),
                 request \in {[method |-> "PUT", url |-> "/todos"],
                              [method |-> "GET", url |-> "/nothing"]}}

\* One caller makes any call, the other a few that share its environment with it.
MCCalls ==
    c1 :> Every
    @@ c2 :> {Plain("getTodo"), [Plain("deleteTodo") EXCEPT !.token = FALSE],
              [Plain("createTodo") EXCEPT !.body = [title |-> "nul"]]}
=============================================================================
