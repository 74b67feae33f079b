---------------------------- MODULE OwnerStores ----------------------------
(***************************************************************************)
(* What the todo API promises of ownership: every tenant's user has a      *)
(* store of its own, and a request reads, changes and is answered from the *)
(* store of the user that sent it and nothing else.                        *)
(*                                                                         *)
(* A todo is named by the request that creates it.                         *)
(***************************************************************************)
CONSTANTS Requests, Owners, Fields, Values, Default, None

Contents == [Fields -> Values]
Patches == UNION {[F -> Values] : F \in SUBSET Fields}

Ops == [kind : {"create", "get", "list", "patch", "delete"}, owner : Owners,
        id : Requests, patch : Patches]

\* A patch replaces the fields it names and leaves the others alone.
Patched(content, patch) ==
    [f \in Fields |-> IF f \in DOMAIN patch THEN patch[f] ELSE content[f]]

VARIABLES
    op,       \* request -> what it asks for, or None
    over,     \* the requests that have had their effect, or will have none
    store,    \* owner -> id -> the owner's todo, or None
    answer    \* request -> its answer, or None

vars == <<op, over, store, answer>>

NotFound == [status |-> "notFound"]
Failed == [status |-> "failed"]
Ok(body) == [status |-> "ok", body |-> body]

Init ==
    /\ op = [p \in Requests |-> None]
    /\ over = {}
    /\ store = [o \in Owners |-> [id \in Requests |-> None]]
    /\ answer = [p \in Requests |-> None]

Send(p) ==
    /\ op[p] = None
    /\ \E q \in Ops : op' = [op EXCEPT ![p] = q]
    /\ UNCHANGED <<over, store, answer>>

\* What becomes of the todo the request names, and what the client learns.
Write(p, content) == store' = [store EXCEPT ![op[p].owner][op[p].id] = content]

\* A client may be told of a failure before its request has had its effect ...
Lose(p) ==
    /\ op[p] # None
    /\ p \notin over
    /\ answer[p] = None
    /\ answer' = [answer EXCEPT ![p] = Failed]
    /\ UNCHANGED <<op, over, store>>

\* ... or when it has; else it learns what its request did.
Reply(p, a) ==
    IF answer[p] = None
    THEN \E b \in {a, Failed} : answer' = [answer EXCEPT ![p] = b]
    ELSE UNCHANGED answer

Mine(p) == store[op[p].owner]

Create(p) ==
    /\ op[p].kind = "create"
    /\ Write(p, Patched([f \in Fields |-> Default], op[p].patch))
    /\ Reply(p, Ok(Patched([f \in Fields |-> Default], op[p].patch)))

Get(p) ==
    /\ op[p].kind = "get"
    /\ Reply(p, IF Mine(p)[op[p].id] = None THEN NotFound ELSE Ok(Mine(p)[op[p].id]))
    /\ UNCHANGED store

List(p) ==
    /\ op[p].kind = "list"
    /\ Reply(p, Ok(Mine(p)))
    /\ UNCHANGED store

Patch(p) ==
    /\ op[p].kind = "patch"
    /\ Mine(p)[op[p].id] # None
    /\ Write(p, Patched(Mine(p)[op[p].id], op[p].patch))
    /\ Reply(p, Ok(Patched(Mine(p)[op[p].id], op[p].patch)))

Delete(p) ==
    /\ op[p].kind = "delete"
    /\ Mine(p)[op[p].id] # None
    /\ Write(p, None)
    /\ Reply(p, Ok(None))

Miss(p) ==
    /\ op[p].kind \in {"patch", "delete"}
    /\ Mine(p)[op[p].id] = None
    /\ Reply(p, NotFound)
    /\ UNCHANGED store

Fail(p) == Reply(p, Failed) /\ UNCHANGED store

Serve(p) ==
    /\ op[p] # None
    /\ p \notin over
    /\ over' = over \cup {p}
    /\ Create(p) \/ Get(p) \/ List(p) \/ Patch(p) \/ Delete(p) \/ Miss(p) \/ Fail(p)
    /\ UNCHANGED op

Next == \E p \in Requests : Send(p) \/ Lose(p) \/ Serve(p)

Spec == Init /\ [][Next]_vars
=============================================================================
