----------------------------- MODULE TodoPages -----------------------------
(***************************************************************************)
(* GET /v1/todos page by page: `list` of packages/api/src/repo/todos-repo  *)
(* walks one owner's todos, with a status filter or without, newest first, *)
(* by a keyset cursor, while the owner's other requests create, change and *)
(* delete todos. Each page is a statement of its own; nothing but the      *)
(* cursor lives from one page to the next.                                 *)
(*                                                                         *)
(* Time is counted in units of the clock, two to a millisecond: now() is   *)
(* finer than the columns and than the cursor. Ids are numbers in uuid     *)
(* order; they have nothing to do with the order of creation.              *)
(***************************************************************************)
EXTENDS Integers, FiniteSets

CONSTANTS
    N,          \* todos the owner ever creates
    MaxLimit,   \* largest page size asked for (100 in the code)
    MaxTime,    \* bound on the clock
    None

Ids == 1 .. N

ASSUME PagesAssumption ==
    /\ N \in Nat
    /\ MaxLimit \in Nat \ {0}
    /\ MaxTime \in Nat

Keys == [created : Nat, id : Ids]

ASSUME NoneIsNoKey == None \notin Keys

VARIABLES
    now,
    row,      \* id -> its state, created_at and whether it passes the filter
    walk,     \* the client's walk: not begun, open, or done
    cursor,   \* next_cursor of the last page, or None
    page,     \* the todos of the last page
    shown,    \* the todos of all pages of the walk
    steady    \* todos that have passed the filter ever since the walk began

vars == <<now, row, walk, cursor, page, shown, steady>>

-----------------------------------------------------------------------------
(* Vocabulary *)

\* MUTANT: the columns are timestamptz, with microseconds.
Stored_Micros(t) == t

\* What timestamptz(3) keeps of now(): the nearest millisecond.
Stored(t) == 2 * ((t + 1) \div 2)

\* A JavaScript Date, and toISOString(), drop what is below a millisecond.
Millis(t) == 2 * (t \div 2)

Key(id) == [created |-> row[id].created, id |-> id]

\* MUTANT: a cursor holds created_at alone.
CursorAt_NoId(id) == [created |-> Millis(row[id].created)]

\* encodeCursor and, on the next page, decodeCursor.
CursorAt(id) == [created |-> Millis(row[id].created), id |-> id]

\* k comes before l in ORDER BY created_at DESC, todo_id DESC.
Before(k, l) == k.created > l.created \/ (k.created = l.created /\ k.id > l.id)

\* The rows a statement sees that pass the owner and status conditions.
Matching == {id \in Ids : row[id].state = "live" /\ row[id].match}

\* MUTANT: the cursor does not reach the statement.
Beyond_NoCursor(id, c) == TRUE

\* (created_at, todo_id) < (cursor's), when there is a cursor.
Beyond(id, c) == c # None => Before(c, Key(id))

\* T is what LIMIT n leaves of S.
IsFirst(T, S, n) ==
    /\ Cardinality(T) = n \/ (T = S /\ Cardinality(S) <= n)
    /\ \A x \in T, y \in S \ T : Before(Key(x), Key(y))

FirstOf(S, n) == {T \in SUBSET S : IsFirst(T, S, n)}

Last(T) == {x \in T : \A y \in T \ {x} : Before(Key(y), Key(x))}

-----------------------------------------------------------------------------

Init ==
    /\ now = 0
    /\ row = [id \in Ids |-> [state |-> "none", created |-> 0, match |-> FALSE]]
    /\ walk = "idle"
    /\ cursor = None
    /\ page = {}
    /\ shown = {}
    /\ steady = {}

\* The INSERT begins: its now() is taken here and seen by nobody yet.
BeginCreate(id) ==
    /\ row[id].state = "none"
    /\ \E m \in BOOLEAN :
         row' = [row EXCEPT ![id] = [state |-> "pending", created |-> Stored(now), match |-> m]]
    /\ UNCHANGED <<now, walk, cursor, page, shown, steady>>

\* The INSERT commits, or is rolled back.
EndCreate(id) ==
    /\ row[id].state = "pending"
    /\ \E s \in {"live", "gone"} : row' = [row EXCEPT ![id].state = s]
    /\ UNCHANGED <<now, walk, cursor, page, shown, steady>>

\* A PATCH of the column the filter looks at.
Patch(id) ==
    /\ row[id].state = "live"
    /\ row' = [row EXCEPT ![id].match = ~@]
    /\ steady' = steady \ {id}
    /\ UNCHANGED <<now, walk, cursor, page, shown>>

Delete(id) ==
    /\ row[id].state = "live"
    /\ row' = [row EXCEPT ![id].state = "gone"]
    /\ steady' = steady \ {id}
    /\ UNCHANGED <<now, walk, cursor, page, shown>>

\* The SELECT asks for one row more than the page holds.
Fetched(limit) == FirstOf({id \in Matching : Beyond(id, cursor)}, limit + 1)

\* MUTANT: >= for > in the comparison of the page with its limit.
HasMore_NonStrict(rows, limit) == Cardinality(rows) >= limit

HasMore(rows, limit) == Cardinality(rows) > limit

\* rows.slice(0, limit)
Cut(rows, limit) == FirstOf(rows, limit)

\* MUTANT: next_cursor is made from the first row of the page.
Show_CursorOfFirst(items, more) ==
    /\ page' = items
    /\ shown' = shown \union items
    /\ IF more
       THEN walk' = "open" /\ \E x \in items : /\ \A y \in items \ {x} : Before(Key(x), Key(y))
                                              /\ cursor' = CursorAt(x)
       ELSE walk' = "done" /\ UNCHANGED cursor

\* What the client makes of a page: it ends the walk, or is followed by the
\* page after next_cursor.
Show(items, more) ==
    /\ page' = items
    /\ shown' = shown \union items
    /\ IF more
       THEN walk' = "open" /\ \E x \in Last(items) : cursor' = CursorAt(x)
       ELSE walk' = "done" /\ UNCHANGED cursor

\* A client may ask for another limit with every page. A page whose response is
\* lost is asked for again and has changed nothing.
Fetch ==
    /\ walk # "done"
    /\ steady' = IF walk = "idle" THEN Matching ELSE steady
    /\ \E limit \in 1 .. MaxLimit : \E rows \in Fetched(limit) :
         IF HasMore(rows, limit)
         THEN \E items \in Cut(rows, limit) : Show(items, TRUE)
         ELSE Show(rows, FALSE)
    /\ UNCHANGED <<now, row>>

Tick ==
    /\ now < MaxTime
    /\ now' = now + 1
    /\ UNCHANGED <<row, walk, cursor, page, shown, steady>>

Next ==
    \/ Tick \/ Fetch
    \/ \E id \in Ids : BeginCreate(id) \/ EndCreate(id) \/ Patch(id) \/ Delete(id)

Spec == Init /\ [][Next]_vars

\* The client asks for the next page as long as there is one.
FairSpec == Spec /\ WF_vars(walk = "open" /\ Fetch)

-----------------------------------------------------------------------------
(* Properties *)

Rows == [state : {"none", "pending", "live", "gone"}, created : Nat, match : BOOLEAN]

\* The types of the table's and of the client's state.
TypeOK ==
    /\ now \in Nat
    /\ row \in [Ids -> Rows]
    /\ walk \in {"idle", "open", "done"}
    /\ cursor \in Keys \union {None}
    /\ page \in SUBSET Ids
    /\ shown \in SUBSET Ids
    /\ steady \in SUBSET Ids

\* Newest first across pages too: what a page shows comes after everything the
\* pages before it showed, so a walk never repeats a todo, whatever is created,
\* changed or deleted between two pages.
PagesDescend ==
    [][Fetch => \A x \in page', y \in shown : Before(Key(y), Key(x))]_vars

\* A walk that ends has returned every todo that existed and passed the filter
\* all the while, however many todos were created in the same millisecond
\* (migrations/1737000000000_init.sql:13-15).
NothingSkipped ==
    walk = "done" => steady \subseteq shown

\* api/openapi.yaml:350: next_cursor is null when there are no more pages, and
\* only then.
CursorMeansMore ==
    [][Fetch =>
          (walk' = "open"
             <=> \E id \in Matching : Beyond(id, cursor) /\ id \notin page')]_vars

\* Todos created on the way do not keep a walk from ending
\* (test/integration/todos-repo.test.ts:62).
EveryWalkEnds == walk = "open" ~> walk = "done"

-----------------------------------------------------------------------------
(* The inductive invariant of the proofs *)

\* The cursor is the place of a todo, exact although it went through a string.
CursorInv ==
    /\ walk = "idle" => cursor = None /\ shown = {}
    /\ walk = "open" => cursor # None
    /\ cursor # None => cursor = Key(cursor.id) /\ row[cursor.id].state \in {"live", "gone"}
    /\ \A id \in Ids : row[id].created = Millis(row[id].created)

\* What the walk has shown lies at or before the cursor ...
ShownInv ==
    \A id \in shown :
        /\ row[id].state \in {"live", "gone"}
        /\ walk = "open" => ~Beyond(id, cursor)

\* ... and so does everything steady that the walk is done with.
SteadyInv ==
    /\ walk = "idle" => steady = {}
    /\ \A id \in steady :
         /\ row[id].state = "live" /\ row[id].match
         /\ walk = "open" => id \in shown \/ Beyond(id, cursor)

IInv == TypeOK /\ CursorInv /\ ShownInv /\ SteadyInv /\ NothingSkipped
=============================================================================
