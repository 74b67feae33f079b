---------------------------- MODULE CreateOnce ----------------------------
(***************************************************************************)
(* What an idempotent POST /v1/todos promises: of all the requests that    *)
(* carry one Idempotency-Key of one user at most one inserts a todo, and   *)
(* every request that is answered 201 is answered with that todo.          *)
(*                                                                         *)
(* A todo is named by the invocation that inserts it: an invocation        *)
(* executes at most one INSERT, and gen_random_uuid() never repeats.       *)
(***************************************************************************)
CONSTANTS Invocations, Requests, NoKey, None

VARIABLES
    req,      \* invocation -> the request it serves, or None
    rows,     \* the todos ever inserted
    answer    \* invocation -> what its client was told, or None

vars == <<req, rows, answer>>

SameKey(q, r) ==
    /\ q # None /\ r # None
    /\ q.key # NoKey
    /\ <<q.key, q.tenant, q.user>> = <<r.key, r.tenant, r.user>>

Init ==
    /\ req = [i \in Invocations |-> None]
    /\ rows = {}
    /\ answer = [i \in Invocations |-> None]

Ask(i) ==
    /\ req[i] = None
    /\ \E r \in Requests : req' = [req EXCEPT ![i] = r]
    /\ UNCHANGED <<rows, answer>>

Insert(i) ==
    /\ req[i] # None
    /\ answer[i] = None
    /\ \A t \in rows : ~SameKey(req[t], req[i])
    /\ rows' = rows \union {i}
    /\ UNCHANGED <<req, answer>>

\* 201, with a todo inserted for this very request or for one with the same
\* key, user and body.
Create(i) ==
    /\ req[i] # None
    /\ answer[i] = None
    /\ \E t \in rows :
         /\ t = i \/ (SameKey(req[t], req[i]) /\ req[t].body = req[i].body)
         /\ answer' = [answer EXCEPT ![i] = [status |-> "created", todo |-> t]]
    /\ UNCHANGED <<req, rows>>

\* A refusal says nothing about the todo; a mismatch is only ever reported to
\* a client whose key was used with another body.
Refuse(i) ==
    /\ req[i] # None
    /\ answer[i] = None
    /\ \E s \in {"mismatch", "inProgress", "failed"} :
         /\ s = "mismatch" => \E j \in Invocations : /\ SameKey(req[j], req[i])
                                                     /\ req[j].body # req[i].body
         /\ answer' = [answer EXCEPT ![i] = [status |-> s]]
    /\ UNCHANGED <<req, rows>>

Next == \E i \in Invocations : Ask(i) \/ Insert(i) \/ Create(i) \/ Refuse(i)

Spec == Init /\ [][Next]_vars
============================================================================
