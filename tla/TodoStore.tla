----------------------------- MODULE TodoStore -----------------------------
(***************************************************************************)
(* packages/api/src/repo/todos-repo.ts under domain/todos.ts: the todos of *)
(* all tenants and users are rows of one PostgreSQL table, and each        *)
(* request runs one autocommitted statement against it, many at a time.    *)
(* A statement's now() is fixed when it begins; it may wait for a row lock *)
(* and takes effect later, on the row as it then is.  A client whose       *)
(* connection is lost meanwhile has its 500 already, and the statement     *)
(* takes effect all the same, or never.                                    *)
(*                                                                         *)
(* A row's id is the request that inserts it: gen_random_uuid() never      *)
(* repeats.                                                                *)
(***************************************************************************)
EXTENDS Integers

CONSTANTS
    Requests,         \* the requests, each sent once
    Tenants, Users,
    Fields,           \* title, description, status, due_date
    Values,           \* what a field can hold, null included
    Default,          \* of a field that a create leaves out
    None,
    MaxTime           \* bound on the database's clock

Owners == [tenant : Tenants, user : Users]
Contents == [Fields -> Values]
Patches == UNION {[F -> Values] : F \in SUBSET Fields}

Ops == [kind : {"create", "get", "list", "patch", "delete"}, owner : Owners,
        id : Requests, patch : Patches]

Rows == [tenant : Tenants, user : Users, content : Contents, created : Nat, updated : Nat]

Listings == [Requests -> Contents \union {None}]

\* 404, any other error, and success: of a get, a create or a patch with the
\* todo, of a list with the owner's todos, of a delete with nothing.
NotFound == [status |-> "notFound"]
Failed == [status |-> "failed"]
Ok(body) == [status |-> "ok", body |-> body]

Answers == {NotFound, Failed} \union {Ok(body) : body \in Contents \union Listings \union {None}}

ASSUME StoreAssumption ==
    /\ Default \in Values
    /\ MaxTime \in Nat
    /\ None \notin Ops
    /\ None \notin Contents
    /\ None \notin Rows
    /\ None \notin Answers

VARIABLES
    now,      \* the database's clock, in the precision the columns keep
    op,       \* request -> what it asks for, or None before it is sent
    began,    \* request -> now() of its statement
    over,     \* the requests whose statement has taken effect, or never will
    rows,     \* id -> row of the table, or None
    answer    \* request -> its answer, or None

vars == <<now, op, began, over, rows, answer>>

-----------------------------------------------------------------------------
(* Vocabulary *)

\* MUTANT: a PATCH replaces the whole todo, as a PUT would.
Patched_Replaces(content, patch) == patch

\* The SET list: the columns the patch names and no others.
Patched(content, patch) ==
    [f \in Fields |-> IF f \in DOMAIN patch THEN patch[f] ELSE content[f]]

\* MUTANT: one statement's tenant_id condition is missing.
Owned_NoTenant(row, owner) == row # None /\ row.user = owner.user

\* WHERE tenant_id = $1 AND user_sub = $2, the condition of every statement.
Owned(row, owner) ==
    /\ row # None
    /\ row.tenant = owner.tenant
    /\ row.user = owner.user

\* ... AND todo_id = $3
Found(p) == Owned(rows[op[p].id], op[p].owner)

Init ==
    /\ now = 0
    /\ op = [p \in Requests |-> None]
    /\ began = [p \in Requests |-> 0]
    /\ over = {}
    /\ rows = [id \in Requests |-> None]
    /\ answer = [p \in Requests |-> None]

\* An id reaches a client once the INSERT has taken effect: with its answer, from a
\* list or copied from another user's; the row may be gone by now.
Known(id) == id \in over /\ op[id].kind = "create"

\* What the router's schemas let through: a PATCH names a field at least.
Send(p) ==
    /\ op[p] = None
    /\ \E q \in Ops :
         /\ q.kind \in {"create", "list"} => q.id = p
         /\ q.kind \notin {"create", "list"} => Known(q.id)
         /\ q.kind \notin {"create", "patch"} => DOMAIN q.patch = {}
         /\ q.kind = "patch" => DOMAIN q.patch # {}
         /\ op' = [op EXCEPT ![p] = q]
    /\ began' = [began EXCEPT ![p] = now]
    /\ UNCHANGED <<now, over, rows, answer>>

\* The connection drops while the statement runs, or waits for a row lock: a 500.
Lose(p) ==
    /\ op[p] # None
    /\ p \notin over
    /\ answer[p] = None
    /\ answer' = [answer EXCEPT ![p] = Failed]
    /\ UNCHANGED <<now, op, began, over, rows>>

\* Who waits is answered, or its connection drops now: a 500 after the effect.
Reply(p, a) ==
    IF answer[p] = None
    THEN \E b \in {a, Failed} : answer' = [answer EXCEPT ![p] = b]
    ELSE UNCHANGED answer

\* MUTANT: created_at defaults to clock_timestamp(), updated_at to now().
Create_ClockTimestamp(p) ==
    LET content == Patched([f \in Fields |-> Default], op[p].patch) IN
    /\ op[p].kind = "create"
    /\ rows' = [rows EXCEPT ![p] =
                  [tenant |-> op[p].owner.tenant, user |-> op[p].owner.user,
                   content |-> content, created |-> now, updated |-> began[p]]]
    /\ Reply(p, Ok(content))

\* INSERT, with the columns' defaults for what the input leaves out.
Create(p) ==
    LET content == Patched([f \in Fields |-> Default], op[p].patch) IN
    /\ op[p].kind = "create"
    /\ rows' = [rows EXCEPT ![p] =
                  [tenant |-> op[p].owner.tenant, user |-> op[p].owner.user,
                   content |-> content, created |-> began[p], updated |-> began[p]]]
    /\ Reply(p, Ok(content))

Get(p) ==
    /\ op[p].kind = "get"
    /\ Reply(p, IF Found(p) THEN Ok(rows[op[p].id].content) ELSE NotFound)
    /\ UNCHANGED rows

\* The first page, for a limit no owner exceeds (TodoPages has the others).
List(p) ==
    /\ op[p].kind = "list"
    /\ Reply(p, Ok([id \in Requests |->
                      IF Owned(rows[id], op[p].owner) THEN rows[id].content ELSE None]))
    /\ UNCHANGED rows

\* UPDATE of the named columns and of updated_at; without any it is a read.
Patch(p) ==
    LET row == rows[op[p].id]
        content == Patched(row.content, op[p].patch) IN
    /\ op[p].kind = "patch"
    /\ Found(p)
    /\ rows' = [rows EXCEPT ![op[p].id] =
                  [row EXCEPT !.content = content,
                              !.updated = IF DOMAIN op[p].patch = {} THEN @ ELSE began[p]]]
    /\ Reply(p, Ok(content))

Delete(p) ==
    /\ op[p].kind = "delete"
    /\ Found(p)
    /\ rows' = [rows EXCEPT ![op[p].id] = None]
    /\ Reply(p, Ok(None))

\* No row: domain/todos.ts turns null and false into a NotFoundError.
Miss(p) ==
    /\ op[p].kind \in {"patch", "delete"}
    /\ ~Found(p)
    /\ Reply(p, NotFound)
    /\ UNCHANGED rows

\* The statement does not run, or is rolled back.
Fail(p) == Reply(p, Failed) /\ UNCHANGED rows

\* The statement takes effect.
Serve(p) ==
    /\ op[p] # None
    /\ p \notin over
    /\ over' = over \cup {p}
    /\ Create(p) \/ Get(p) \/ List(p) \/ Patch(p) \/ Delete(p) \/ Miss(p) \/ Fail(p)
    /\ UNCHANGED <<now, op, began>>

Tick ==
    /\ now < MaxTime
    /\ now' = now + 1
    /\ UNCHANGED <<op, began, over, rows, answer>>

Next == Tick \/ \E p \in Requests : Send(p) \/ Lose(p) \/ Serve(p)

Spec == Init /\ [][Next]_vars

-----------------------------------------------------------------------------
(* Properties *)

\* The types of the table, of the requests and of their answers.
TypeOK ==
    /\ now \in Nat
    /\ op \in [Requests -> Ops \union {None}]
    /\ began \in [Requests -> Nat]
    /\ over \subseteq Requests
    /\ rows \in [Requests -> Rows \union {None}]
    /\ answer \in [Requests -> Answers \union {None}]

\* A client's own requests order a row's timestamps, however long its
\* statements wait: a todo is never updated before it was created
\* (test/contract/sdk-consumer.ts:92).
UpdatedAfterCreated ==
    \A id \in Requests : rows[id] # None => rows[id].created <= rows[id].updated

\* test/integration/todos-repo.test.ts:51: a PATCH "advances updated_at"; at
\* least it does not move it back.
UpdatedAtAdvances ==
    [][\A id \in Requests :
          rows[id] # None /\ rows'[id] # None => rows[id].updated <= rows'[id].updated]_vars

-----------------------------------------------------------------------------
(* The inductive invariant of the proofs *)

\* A request that names another's todo was sent after that todo's INSERT.
RequestInv ==
    \A p \in Requests :
        /\ began[p] <= now
        /\ op[p] = None => p \notin over /\ answer[p] = None
        /\ op[p] # None =>
             /\ op[p].kind \in {"create", "list"} => op[p].id = p
             /\ op[p].kind \notin {"create", "list"} => op[p].id \in over

\* A row exists from its INSERT on, and no PATCH began before that.
RowInv ==
    \A id \in Requests : rows[id] # None =>
        /\ id \in over
        /\ rows[id].created = began[id]
        /\ \A p \in Requests : op[p] # None /\ op[p].kind = "patch" /\ op[p].id = id
              => rows[id].created <= began[p]

IInv == TypeOK /\ RequestInv /\ RowInv /\ UpdatedAfterCreated

-----------------------------------------------------------------------------

\* The one table with its predicates behaves as a store for each owner: nobody
\* sees, changes or deletes another's todo, concurrent patches do not undo one
\* another's fields, and a deleted todo stays deleted, those statements included
\* that outlive the connection they came by (db/pool.ts:103-107).
Stores == INSTANCE OwnerStores WITH
    store <- [o \in Owners |-> [id \in Requests |->
                IF Owned(rows[id], o) THEN rows[id].content ELSE None]]

ImplementsOwnerStores == Stores!Spec
=============================================================================
