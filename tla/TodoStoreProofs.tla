-------------------------- MODULE TodoStoreProofs --------------------------
(***************************************************************************)
(* For every set of requests, tenants, users and fields: the types of      *)
(* TodoStore, the order of a row's timestamps, and that the one table      *)
(* implements a store for every owner.                                     *)
(***************************************************************************)
EXTENDS TodoStore, TLAPS

\* A patched todo has all its fields.
LEMMA PatchedType ==
    ASSUME NEW c \in Contents, NEW patch \in Patches
    PROVE  Patched(c, patch) \in Contents
BY DEF Patched, Contents, Patches

\* What an INSERT leaves in the table.
Defaults == [f \in Fields |-> Default]
NewRow(p) == [tenant |-> op[p].owner.tenant, user |-> op[p].owner.user,
              content |-> Patched(Defaults, op[p].patch),
              created |-> began[p], updated |-> began[p]]

\* A new row is a row, of the user whose request inserts it and of nobody else.
LEMMA NewRowType ==
    ASSUME TypeOK, NEW p \in Requests, op[p] \in Ops
    PROVE  /\ NewRow(p) \in Rows
           /\ Patched(Defaults, op[p].patch) \in Contents
<1>1. Defaults \in Contents
  BY StoreAssumption DEF Contents, Defaults
<1>2. op[p].patch \in Patches /\ op[p].owner \in Owners
  BY DEF Ops
<1>3. Patched(Defaults, op[p].patch) \in Contents
  BY <1>1, <1>2, PatchedType
<1>4. QED
  BY <1>2, <1>3 DEF NewRow, Rows, Owners, TypeOK

\* What an UPDATE leaves of a row.
PatchedRow(p) ==
    [rows[op[p].id] EXCEPT
        !.content = Patched(@, op[p].patch),
        !.updated = IF DOMAIN op[p].patch = {} THEN @ ELSE began[p]]

\* A patched row is a row, with the owner and the created_at it had.
LEMMA PatchedRowType ==
    ASSUME TypeOK, NEW p \in Requests, op[p] \in Ops, Found(p)
    PROVE  /\ op[p].id \in Requests
           /\ rows[op[p].id] \in Rows
           /\ Patched(rows[op[p].id].content, op[p].patch) \in Contents
           /\ PatchedRow(p) \in Rows
           /\ PatchedRow(p).tenant = rows[op[p].id].tenant
           /\ PatchedRow(p).user = rows[op[p].id].user
           /\ PatchedRow(p).content = Patched(rows[op[p].id].content, op[p].patch)
           /\ PatchedRow(p).created = rows[op[p].id].created
           /\ PatchedRow(p).updated \in {rows[op[p].id].updated, began[p]}
<1>1. op[p].id \in Requests /\ op[p].patch \in Patches
  BY DEF Ops
<1>2. rows[op[p].id] \in Rows
  BY <1>1 DEF Found, Owned, TypeOK
<1>3. Patched(rows[op[p].id].content, op[p].patch) \in Contents
  BY <1>1, <1>2, PatchedType DEF Rows
<1>4. QED
  BY <1>1, <1>2, <1>3 DEF PatchedRow, Rows, TypeOK

\* A request that has no answer gets one, and only the row it names can change.
LEMMA ServeCases ==
    ASSUME TypeOK, NEW p \in Requests, Serve(p)
    PROVE  /\ op[p] \in Ops /\ p \notin over
           /\ over' = over \cup {p}
           /\ UNCHANGED <<now, op, began>>
           /\ answer' \in [Requests -> Answers \union {None}]
           /\ \/ rows' = rows
              \/ op[p].kind = "create" /\ rows' = [rows EXCEPT ![p] = NewRow(p)]
              \/ /\ op[p].kind = "patch" /\ Found(p)
                 /\ rows' = [rows EXCEPT ![op[p].id] = PatchedRow(p)]
              \/ /\ op[p].kind = "delete" /\ Found(p)
                 /\ rows' = [rows EXCEPT ![op[p].id] = None]
<1>1. op[p] \in Ops /\ p \notin over /\ over' = over \cup {p} /\ UNCHANGED <<now, op, began>>
  BY DEF Serve, TypeOK
<1>2. /\ Failed \in Answers
      /\ NotFound \in Answers
      /\ \A body \in Contents \union Listings \union {None} : Ok(body) \in Answers
  BY DEF Answers
<1>3. \A a \in Answers : Reply(p, a) => answer' \in [Requests -> Answers \union {None}]
  BY <1>2 DEF Reply, TypeOK
<1>4. CASE Create(p)
  <2>1. Patched([f \in Fields |-> Default], op[p].patch) \in Contents
    BY <1>1, NewRowType DEF Defaults
  <2>2. Ok(Patched([f \in Fields |-> Default], op[p].patch)) \in Answers
    BY <2>1, <1>2
  <2>3. QED
    BY <2>2, <1>1, <1>3, <1>4 DEF Create, NewRow, Defaults
<1>5. CASE Get(p)
  <2>1. Found(p) => rows[op[p].id].content \in Contents
    BY <1>1 DEF Found, Owned, TypeOK, Ops, Rows
  <2>2. (IF Found(p) THEN Ok(rows[op[p].id].content) ELSE NotFound) \in Answers
    BY <2>1, <1>2
  <2>3. QED
    BY <2>2, <1>1, <1>3, <1>5 DEF Get
<1>6. CASE List(p)
  <2>1. [id \in Requests |->
           IF Owned(rows[id], op[p].owner) THEN rows[id].content ELSE None] \in Listings
    BY DEF Owned, TypeOK, Rows, Listings
  <2>2. QED
    BY <2>1, <1>1, <1>2, <1>3, <1>6 DEF List
<1>7. CASE Patch(p)
  <2>1. Found(p)
    BY <1>7 DEF Patch
  <2>2. Ok(Patched(rows[op[p].id].content, op[p].patch)) \in Answers
    BY <2>1, <1>1, <1>2, PatchedRowType
  <2>3. rows' = [rows EXCEPT ![op[p].id] = PatchedRow(p)]
    BY <1>7 DEF Patch, PatchedRow
  <2>4. QED
    BY <2>1, <2>2, <2>3, <1>1, <1>3, <1>7 DEF Patch
<1>8. CASE Delete(p)
  BY <1>1, <1>2, <1>3, <1>8 DEF Delete
<1>9. CASE Miss(p)
  BY <1>1, <1>2, <1>3, <1>9 DEF Miss
<1>10. CASE Fail(p)
  BY <1>1, <1>2, <1>3, <1>10 DEF Fail
<1>11. QED
  BY <1>4, <1>5, <1>6, <1>7, <1>8, <1>9, <1>10 DEF Serve

\* The invariant holds at the start ...
LEMMA IInvInit == Init => IInv
BY StoreAssumption DEF Init, IInv, TypeOK, RequestInv, RowInv, UpdatedAfterCreated

\* ... a new request keeps it: it begins after the rows it can name ...
LEMMA SendKeeps ==
    ASSUME IInv, NEW p \in Requests, Send(p)
    PROVE  IInv'
<1> USE DEF IInv
<1>1. PICK q \in Ops :
         /\ q.kind \in {"create", "list"} => q.id = p
         /\ q.kind \notin {"create", "list"} => Known(q.id)
         /\ op' = [op EXCEPT ![p] = q]
  BY DEF Send
<1>2. /\ op[p] = None /\ answer[p] = None /\ p \notin over
      /\ began' = [began EXCEPT ![p] = now]
      /\ UNCHANGED <<now, over, rows, answer>>
  BY DEF Send, RequestInv
<1>3. q # None /\ q.id \in Requests
  BY StoreAssumption DEF Ops
<1>4. TypeOK'
  BY <1>1, <1>2 DEF TypeOK
<1>5. RequestInv'
  BY <1>1, <1>2, <1>3 DEF TypeOK, RequestInv, Known
<1>6. \A id \in Requests : rows[id] # None => id # p /\ rows[id].created <= now
  BY <1>2 DEF RowInv, RequestInv
<1>7. RowInv'
  <2>1. ASSUME NEW id \in Requests, rows[id] # None
        PROVE  /\ id \in over
               /\ rows[id].created = began'[id]
               /\ \A r \in Requests : op'[r] # None /\ op'[r].kind = "patch" /\ op'[r].id = id
                    => rows[id].created <= began'[r]
    BY <2>1, <1>1, <1>2, <1>6 DEF TypeOK, RowInv
  <2>2. QED
    BY <2>1, <1>2 DEF RowInv
<1>8. UpdatedAfterCreated'
  BY <1>2 DEF UpdatedAfterCreated
<1>9. QED
  BY <1>4, <1>5, <1>7, <1>8

\* ... a connection that is lost changes nothing in the table ...
LEMMA LoseKeeps ==
    ASSUME IInv, NEW p \in Requests, Lose(p)
    PROVE  IInv'
<1>1. /\ op[p] # None /\ answer' = [answer EXCEPT ![p] = Failed]
      /\ UNCHANGED <<now, op, began, over, rows>>
  BY DEF Lose
<1>2. Failed \in Answers
  BY DEF Answers
<1>3. QED
  BY <1>1, <1>2 DEF IInv, TypeOK, RequestInv, RowInv, UpdatedAfterCreated

\* ... and so does a statement that takes effect.
LEMMA ServeKeeps ==
    ASSUME IInv, NEW p \in Requests, Serve(p)
    PROVE  IInv'
<1> USE DEF IInv
<1>1. /\ op[p] \in Ops /\ op[p] # None /\ p \notin over
      /\ UNCHANGED <<now, op, began>>
  BY ServeCases, StoreAssumption
<1>2. over' = over \cup {p} /\ over' \subseteq Requests
  BY ServeCases DEF TypeOK
<1>3. \A r \in Requests \ {p} : answer'[r] = answer[r]
  BY DEF Serve, Create, Get, List, Patch, Delete, Miss, Fail, Reply, TypeOK
<1>4. RequestInv'
  BY <1>1, <1>2, <1>3 DEF RequestInv
<1>5. answer' \in [Requests -> Answers \union {None}] /\ over' \subseteq Requests
  BY <1>2, ServeCases
<1>6. CASE rows' = rows
  BY <1>1, <1>2, <1>4, <1>5, <1>6 DEF TypeOK, RowInv, UpdatedAfterCreated
<1>7. CASE op[p].kind = "create" /\ rows' = [rows EXCEPT ![p] = NewRow(p)]
  <2>1. /\ NewRow(p) \in Rows
        /\ NewRow(p).created = began[p] /\ NewRow(p).updated = began[p]
    BY <1>1, NewRowType DEF NewRow
  <2>2. \A q \in Requests : op[q] # None /\ op[q].kind = "patch" => op[q].id # p
    BY <1>1 DEF RequestInv
  <2>3. TypeOK'
    BY <1>1, <1>5, <1>7, <2>1 DEF TypeOK
  <2>4. RowInv'
    BY <1>1, <1>2, <1>7, <2>1, <2>2 DEF TypeOK, RowInv
  <2>5. UpdatedAfterCreated'
    BY <1>7, <2>1 DEF TypeOK, UpdatedAfterCreated
  <2>6. QED
    BY <1>4, <2>3, <2>4, <2>5
<1>8. CASE /\ op[p].kind = "patch" /\ Found(p)
           /\ rows' = [rows EXCEPT ![op[p].id] = PatchedRow(p)]
  <2> DEFINE id == op[p].id
  <2>1. /\ id \in Requests /\ rows[id] # None
        /\ PatchedRow(p) \in Rows
        /\ PatchedRow(p).created = rows[id].created
        /\ PatchedRow(p).updated \in {rows[id].updated, began[p]}
    BY <1>1, <1>8, PatchedRowType DEF Found, Owned
  <2>2. rows[id].created <= began[p]
    BY <1>1, <1>8, <2>1 DEF RowInv
  <2>3. TypeOK'
    BY <1>1, <1>5, <1>8, <2>1 DEF TypeOK
  <2>4. RowInv'
    BY <1>1, <1>2, <1>8, <2>1 DEF TypeOK, RowInv
  <2>5. UpdatedAfterCreated'
    BY <1>8, <2>1, <2>2 DEF TypeOK, UpdatedAfterCreated
  <2>6. QED
    BY <1>4, <2>3, <2>4, <2>5
<1>9. CASE /\ op[p].kind = "delete" /\ Found(p)
           /\ rows' = [rows EXCEPT ![op[p].id] = None]
  <2>1. op[p].id \in Requests
    BY <1>1 DEF Ops
  <2>2. TypeOK'
    BY <1>1, <1>5, <1>9, <2>1 DEF TypeOK
  <2>3. RowInv' /\ UpdatedAfterCreated'
    BY <1>1, <1>2, <1>9, <2>1 DEF TypeOK, RowInv, UpdatedAfterCreated
  <2>4. QED
    BY <1>4, <2>2, <2>3
<1>10. QED
  BY <1>6, <1>7, <1>8, <1>9, ServeCases

\* Every step keeps the invariant.
LEMMA IInvStep == IInv /\ [Next]_vars => IInv'
<1> SUFFICES ASSUME IInv, [Next]_vars PROVE IInv'
  OBVIOUS
<1>1. CASE \E p \in Requests : Send(p)
  BY <1>1, SendKeeps
<1>2. CASE \E p \in Requests : Lose(p)
  BY <1>2, LoseKeeps
<1>3. CASE \E p \in Requests : Serve(p)
  BY <1>3, ServeKeeps
<1>4. CASE Tick
  <2>1. now' = now + 1 /\ UNCHANGED <<op, began, over, rows, answer>>
    BY <1>4 DEF Tick
  <2>2. QED
    BY <2>1 DEF IInv, TypeOK, RequestInv, RowInv, UpdatedAfterCreated
<1>5. CASE UNCHANGED vars
  BY <1>5 DEF vars, IInv, TypeOK, RequestInv, RowInv, UpdatedAfterCreated
<1>6. QED
  BY <1>1, <1>2, <1>3, <1>4, <1>5 DEF Next

\* The invariant is one.
LEMMA Inductive == Spec => []IInv
BY IInvInit, IInvStep, PTL DEF Spec

\* The state of the table, the requests and their answers has the types TypeOK
\* gives it.
THEOREM TypeCorrect == Spec => []TypeOK
<1>1. IInv => TypeOK
  BY DEF IInv
<1>2. QED
  BY <1>1, Inductive, PTL

\* No todo is ever updated before it was created.
THEOREM TimestampsOrdered == Spec => []UpdatedAfterCreated
<1>1. IInv => UpdatedAfterCreated
  BY DEF IInv
<1>2. QED
  BY <1>1, Inductive, PTL

-----------------------------------------------------------------------------
(* The table implements the owners' stores *)

\* What an owner's predicates select of the table.
View(o, id) == IF Owned(rows[id], o) THEN rows[id].content ELSE None
StoreOf == [o \in Owners |-> [id \in Requests |-> View(o, id)]]

\* A row has at most one owner.
LEMMA OneOwner ==
    ASSUME NEW r, NEW o \in Owners, NEW q \in Owners, Owned(r, o), Owned(r, q)
    PROVE  o = q
<1>1. o = [tenant |-> o.tenant, user |-> o.user] /\ q = [tenant |-> q.tenant, user |-> q.user]
  BY DEF Owners
<1>2. o.tenant = q.tenant /\ o.user = q.user
  BY DEF Owned
<1>3. QED
  BY <1>1, <1>2

\* An owner sees a todo under an id exactly if the predicates find a row.
LEMMA ViewFound ==
    ASSUME TypeOK, NEW p \in Requests, op[p] \in Ops
    PROVE  /\ op[p].owner \in Owners /\ op[p].id \in Requests
           /\ StoreOf[op[p].owner][op[p].id] # None <=> Found(p)
           /\ Found(p) => StoreOf[op[p].owner][op[p].id] = rows[op[p].id].content
<1>1. op[p].owner \in Owners /\ op[p].id \in Requests
  BY DEF Ops
<1>2. Found(p) => rows[op[p].id].content \in Contents
  BY <1>1 DEF Found, Owned, TypeOK, Rows
<1>3. StoreOf[op[p].owner][op[p].id] = View(op[p].owner, op[p].id)
  BY <1>1 DEF StoreOf
<1>4. QED
  BY <1>1, <1>2, <1>3, StoreAssumption DEF View, Found

\* Replacing a row nobody else owns by one nobody else owns replaces one todo in
\* one store.
LEMMA WriteIsLocal ==
    ASSUME TypeOK, NEW o \in Owners, NEW id \in Requests, NEW r,
           rows' = [rows EXCEPT ![id] = r],
           \A q \in Owners \ {o} : ~Owned(rows[id], q) /\ ~Owned(r, q)
    PROVE  StoreOf' = [StoreOf EXCEPT ![o][id] = IF Owned(r, o) THEN r.content ELSE None]
<1>1. rows'[id] = r /\ \A j \in Requests \ {id} : rows'[j] = rows[j]
  BY DEF TypeOK
<1>2. \A q \in Owners, j \in Requests :
         View(q, j)' = IF q = o /\ j = id THEN (IF Owned(r, o) THEN r.content ELSE None)
                                         ELSE View(q, j)
  BY <1>1 DEF View
<1>3. StoreOf' = [q \in Owners |-> [j \in Requests |-> View(q, j)']]
  BY DEF StoreOf
<1>4. QED
  BY <1>2, <1>3 DEF StoreOf

\* The initial states map to initial states.
LEMMA InitMaps == Init => Stores!Init
BY DEF Init, Stores!Init, Owned

\* A request sent is a request sent.
LEMMA SendMaps ==
    ASSUME TypeOK, NEW p \in Requests, Send(p)
    PROVE  Stores!Send(p)
<1>1. \E q \in Stores!Ops : op' = [op EXCEPT ![p] = q]
  BY DEF Send, Ops, Patches, Stores!Ops, Stores!Patches
<1>2. QED
  BY <1>1 DEF Send, Stores!Send

\* A failure a client is told of is one.
LEMMA LoseMaps ==
    ASSUME NEW p \in Requests, Lose(p)
    PROVE  Stores!Lose(p)
BY DEF Lose, Failed, Owned, Stores!Lose, Stores!Failed

\* A statement that takes effect is the same operation on its owner's store.
LEMMA ServeMaps ==
    ASSUME IInv, NEW p \in Requests, Serve(p)
    PROVE  Stores!Serve(p)
<1> DEFINE o == op[p].owner
           id == op[p].id
<1>1. /\ TypeOK /\ op[p] \in Ops /\ op[p] # None
      /\ p \notin over /\ over' = over \cup {p} /\ UNCHANGED op
  BY ServeCases, StoreAssumption DEF IInv
<1>2. /\ o \in Owners /\ id \in Requests
      /\ StoreOf[o][id] # None <=> Found(p)
      /\ Found(p) => StoreOf[o][id] = rows[id].content
  BY <1>1, ViewFound
<1>3. \A a : Reply(p, a) => Stores!Reply(p, a)
  BY DEF Reply, Failed, Stores!Reply, Stores!Failed
<1>4. rows' = rows => StoreOf' = StoreOf
  BY DEF StoreOf, View
<1>5. CASE Create(p)
  <2>1. /\ id = p /\ rows[p] = None
        /\ rows' = [rows EXCEPT ![p] = NewRow(p)]
    BY <1>1, <1>5 DEF IInv, RequestInv, RowInv, Create, NewRow, Defaults
  <2>2. /\ NewRow(p) # None
        /\ Owned(NewRow(p), o)
        /\ NewRow(p).content = Patched(Defaults, op[p].patch)
    BY <1>1, NewRowType, StoreAssumption DEF NewRow, Owned
  <2>3. \A q \in Owners \ {o} : ~Owned(rows[p], q) /\ ~Owned(NewRow(p), q)
    BY <1>2, <2>1, <2>2, OneOwner DEF Owned
  <2>4. StoreOf' = [StoreOf EXCEPT ![o][id] = Patched(Defaults, op[p].patch)]
    BY <1>1, <1>2, <2>1, <2>2, <2>3, WriteIsLocal
  <2>5. Stores!Create(p)
    BY <1>3, <1>5, <2>4
    DEF Create, Defaults, Patched, Ok, StoreOf, View,
        Stores!Create, Stores!Write, Stores!Patched, Stores!Ok
  <2>6. QED
    BY <1>1, <2>5 DEF Stores!Serve
<1>6. CASE Get(p)
  <2>1. Stores!Get(p)
    BY <1>2, <1>3, <1>4, <1>6
    DEF Get, Ok, NotFound, StoreOf, View, Stores!Get, Stores!Mine, Stores!Ok, Stores!NotFound
  <2>2. QED
    BY <1>1, <2>1 DEF Stores!Serve
<1>7. CASE List(p)
  <2>1. StoreOf[o] = [j \in Requests |-> IF Owned(rows[j], o) THEN rows[j].content ELSE None]
    BY <1>2 DEF StoreOf, View
  <2>2. Stores!List(p)
    BY <1>3, <1>4, <1>7, <2>1
    DEF List, Ok, StoreOf, View, Stores!List, Stores!Mine, Stores!Ok
  <2>3. QED
    BY <1>1, <2>2 DEF Stores!Serve
<1>8. CASE Patch(p)
  <2>1. Found(p) /\ rows' = [rows EXCEPT ![id] = PatchedRow(p)]
    BY <1>8 DEF Patch, PatchedRow
  <2>2. /\ PatchedRow(p) # None
        /\ Owned(PatchedRow(p), o)
        /\ PatchedRow(p).content = Patched(rows[id].content, op[p].patch)
    BY <1>1, <2>1, PatchedRowType, StoreAssumption DEF Owned, Found
  <2>3. \A q \in Owners \ {o} : ~Owned(rows[id], q) /\ ~Owned(PatchedRow(p), q)
    BY <1>2, <2>1, <2>2, OneOwner DEF Found
  <2>4. StoreOf' = [StoreOf EXCEPT ![o][id] = Patched(rows[id].content, op[p].patch)]
    BY <1>1, <1>2, <2>1, <2>2, <2>3, WriteIsLocal
  <2>5. Stores!Patch(p)
    BY <1>2, <1>3, <1>8, <2>1, <2>4
    DEF Patch, Patched, Ok, StoreOf, View,
        Stores!Patch, Stores!Write, Stores!Mine, Stores!Patched, Stores!Ok
  <2>6. QED
    BY <1>1, <2>5 DEF Stores!Serve
<1>9. CASE Delete(p)
  <2>1. Found(p) /\ rows' = [rows EXCEPT ![id] = None]
    BY <1>9 DEF Delete
  <2>2. \A q \in Owners : ~Owned(None, q)
    BY DEF Owned
  <2>3. \A q \in Owners \ {o} : ~Owned(rows[id], q)
    BY <1>2, <2>1, OneOwner DEF Found
  <2>4. StoreOf' = [StoreOf EXCEPT ![o][id] = None]
    BY <1>1, <1>2, <2>1, <2>2, <2>3, WriteIsLocal
  <2>5. Stores!Delete(p)
    BY <1>2, <1>3, <1>9, <2>1, <2>4
    DEF Delete, Ok, StoreOf, View, Stores!Delete, Stores!Write, Stores!Mine, Stores!Ok
  <2>6. QED
    BY <1>1, <2>5 DEF Stores!Serve
<1>10. CASE Miss(p)
  <2>1. Stores!Miss(p)
    BY <1>2, <1>3, <1>4, <1>10
    DEF Miss, NotFound, StoreOf, View, Stores!Miss, Stores!Mine, Stores!NotFound
  <2>2. QED
    BY <1>1, <2>1 DEF Stores!Serve
<1>11. CASE Fail(p)
  <2>1. Stores!Fail(p)
    BY <1>3, <1>4, <1>11 DEF Fail, Failed, StoreOf, View, Stores!Fail, Stores!Failed
  <2>2. QED
    BY <1>1, <2>1 DEF Stores!Serve
<1>12. QED
  BY <1>5, <1>6, <1>7, <1>8, <1>9, <1>10, <1>11 DEF Serve

\* Every step maps to a step or a stutter.
LEMMA StepMaps == IInv /\ [Next]_vars => [Stores!Next]_(Stores!vars)
<1> SUFFICES ASSUME IInv, [Next]_vars PROVE [Stores!Next]_(Stores!vars)
  OBVIOUS
<1>1. CASE \E p \in Requests : Send(p)
  BY <1>1, SendMaps DEF IInv, Stores!Next
<1>2. CASE \E p \in Requests : Lose(p)
  BY <1>2, LoseMaps DEF Stores!Next
<1>3. CASE \E p \in Requests : Serve(p)
  BY <1>3, ServeMaps DEF Stores!Next
<1>4. CASE Tick
  BY <1>4 DEF Tick, Stores!vars
<1>5. CASE UNCHANGED vars
  BY <1>5 DEF vars, Stores!vars
<1>6. QED
  BY <1>1, <1>2, <1>3, <1>4, <1>5 DEF Next

\* The one table, its predicates and its statements behave as one store for
\* every owner, also where a statement takes effect after its client's 500.
THEOREM TableImplementsStores == Spec => ImplementsOwnerStores
BY InitMaps, StepMaps, Inductive, PTL DEF Spec, ImplementsOwnerStores, Stores!Spec
=============================================================================
