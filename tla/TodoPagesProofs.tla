-------------------------- MODULE TodoPagesProofs --------------------------
(***************************************************************************)
(* For every number of todos, page size and length of the run: the types   *)
(* of TodoPages, that pages descend and that nothing is skipped.           *)
(***************************************************************************)
EXTENDS TodoPages, FiniteSetTheorems, TLAPS

\* The key of a todo is a key.
LEMMA KeyType ==
    ASSUME TypeOK, NEW id \in Ids
    PROVE  Key(id) \in Keys /\ Key(id).created = row[id].created /\ Key(id).id = id
BY DEF TypeOK, Key, Keys, Rows

\* Before is a strict order ...
LEMMA BeforeOrders ==
    ASSUME NEW k \in Keys, NEW l \in Keys, NEW m \in Keys
    PROVE  /\ ~Before(k, k)
           /\ Before(k, l) => ~Before(l, k)
           /\ Before(k, l) /\ Before(l, m) => Before(k, m)
BY DEF Before, Keys, Ids

\* ... that the ids make total.
LEMMA BeforeTotal ==
    ASSUME NEW k \in Keys, NEW l \in Keys, k.id # l.id
    PROVE  Before(k, l) \/ Before(l, k)
BY DEF Before, Keys, Ids

\* What the columns keep of a time is a whole number of milliseconds, which
\* a JavaScript Date keeps exactly.
LEMMA StoredIsExact ==
    ASSUME NEW t \in Nat
    PROVE  Stored(t) \in Nat /\ Millis(Stored(t)) = Stored(t)
<1>1. (t + 1) \div 2 \in Nat
  BY DEF Stored
<1>2. \A m \in Nat : (2 * m) \div 2 = m
  OBVIOUS
<1>3. QED
  BY <1>1, <1>2 DEF Stored, Millis

\* The rows LIMIT leaves are rows.
LEMMA FirstIsPart ==
    ASSUME NEW S, NEW n, NEW T \in FirstOf(S, n)
    PROVE  /\ T \in SUBSET S
           /\ Cardinality(T) = n \/ (T = S /\ Cardinality(S) <= n)
           /\ \A x \in T, y \in S \ T : Before(Key(x), Key(y))
BY DEF FirstOf, IsFirst

\* The candidates of a page.
Candidates == {id \in Matching : Beyond(id, cursor)}

\* A Fetch ends the walk with all that is left of it, or shows a first part of
\* the candidates and puts the cursor on the last of them.
LEMMA FetchCases ==
    ASSUME TypeOK, CursorInv, Fetch
    PROVE  \E items \in SUBSET Candidates :
              /\ page' = items
              /\ shown' = shown \union items
              /\ \/ walk' = "done" /\ cursor' = cursor /\ items = Candidates
                 \/ \E x \in items :
                      /\ walk' = "open" /\ items # Candidates
                      /\ cursor' = Key(x)
                      /\ \A y \in items \ {x} : Before(Key(y), Key(x))
                      /\ \A y \in Candidates \ items : Before(Key(x), Key(y))
<1> DEFINE C == Candidates
<1>1. PICK limit \in 1 .. MaxLimit : \E rows \in Fetched(limit) :
         IF HasMore(rows, limit)
         THEN \E items \in Cut(rows, limit) : Show(items, TRUE)
         ELSE Show(rows, FALSE)
  BY DEF Fetch
<1>2. PICK rows \in FirstOf(C, limit + 1) :
         IF HasMore(rows, limit)
         THEN \E items \in Cut(rows, limit) : Show(items, TRUE)
         ELSE Show(rows, FALSE)
  BY <1>1 DEF Fetched, Candidates
<1>3. /\ rows \in SUBSET C
      /\ Cardinality(rows) = limit + 1 \/ (rows = C /\ Cardinality(C) <= limit + 1)
      /\ \A x \in rows, y \in C \ rows : Before(Key(x), Key(y))
  BY <1>2, FirstIsPart
<1>4. limit \in Nat
  BY PagesAssumption
<1>5. CASE ~HasMore(rows, limit)
  <2>1. Cardinality(rows) # limit + 1
    BY <1>4, <1>5 DEF HasMore
  <2>2. rows = C
    BY <2>1, <1>3
  <2>3. Show(rows, FALSE)
    BY <1>2, <1>5
  <2>4. QED
    BY <2>2, <2>3, <1>3 DEF Show
<1>6. CASE HasMore(rows, limit)
  <2>1. PICK items \in Cut(rows, limit) : Show(items, TRUE)
    BY <1>2, <1>6
  <2>2. /\ items \in SUBSET rows
        /\ \A x \in items, y \in rows \ items : Before(Key(x), Key(y))
    BY <2>1, FirstIsPart DEF Cut
  <2>3. PICK x \in Last(items) : cursor' = CursorAt(x)
    BY <2>1 DEF Show
  <2>4. x \in items /\ \A y \in items \ {x} : Before(Key(y), Key(x))
    BY <2>3 DEF Last
  <2>5. x \in Ids
    BY <2>4, <2>2, <1>3 DEF Candidates, Matching
  <2>6. cursor' = Key(x)
    BY <2>3, <2>5 DEF CursorAt, Key, CursorInv
  <2>7. \A y \in C \ items : Before(Key(x), Key(y))
    BY <2>2, <2>4, <1>3
  <2>8. walk' = "open" /\ page' = items /\ shown' = shown \union items
    BY <2>1 DEF Show
  <2>9. items \in SUBSET C
    BY <2>2, <1>3
  <2>10. items # C
    <3>1. Cardinality(items) = limit \/ Cardinality(rows) <= limit
      BY <2>1, FirstIsPart DEF Cut
    <3>2. items # rows
      <4>1. SUFFICES ASSUME items = rows PROVE FALSE
        OBVIOUS
      <4>2. Cardinality(rows) \in Nat
        <5>1. rows \subseteq 1 .. N
          BY <1>3 DEF Candidates, Matching, Ids
        <5>2. IsFiniteSet(1 .. N)
          BY PagesAssumption, FS_Interval
        <5>3. QED
          BY <5>1, <5>2, FS_Subset, FS_CardinalityType
      <4>3. QED
        BY <1>4, <1>6, <3>1, <4>1, <4>2 DEF HasMore
    <3>3. QED
      BY <1>3, <2>2, <3>2
  <2>11. QED
    BY <2>4, <2>6, <2>7, <2>8, <2>9, <2>10
<1>7. QED
  BY <1>5, <1>6

\* Candidates are todos, and lie beyond the cursor.
LEMMA CandidatesBeyond ==
    ASSUME NEW x \in Candidates
    PROVE  /\ x \in Ids
           /\ row[x].state = "live" /\ row[x].match
           /\ cursor # None => Before(cursor, Key(x))
BY DEF Candidates, Matching, Beyond

\* The invariant holds at the start ...
LEMMA IInvInit ==
    ASSUME Init PROVE IInv
<1>1. TypeOK
  BY PagesAssumption DEF Init, TypeOK, Rows
<1>2. CursorInv
  <2>1. Millis(0) = 0
    BY DEF Millis
  <2>2. QED
    BY <2>1 DEF Init, CursorInv
<1>3. QED
  BY <1>1, <1>2 DEF Init, IInv, ShownInv, SteadyInv, NothingSkipped

\* ... and a Fetch keeps it ...
LEMMA FetchKeeps ==
    ASSUME IInv, Fetch PROVE IInv'
<1> USE DEF IInv
<1>1. PICK items \in SUBSET Candidates :
              /\ page' = items
              /\ shown' = shown \union items
              /\ \/ walk' = "done" /\ cursor' = cursor /\ items = Candidates
                 \/ \E x \in items :
                      /\ walk' = "open"
                      /\ cursor' = Key(x)
                      /\ \A y \in items \ {x} : Before(Key(y), Key(x))
                      /\ \A y \in Candidates \ items : Before(Key(x), Key(y))
  BY FetchCases
<1>2. /\ UNCHANGED <<now, row>>
      /\ walk # "done"
      /\ steady' = IF walk = "idle" THEN Matching ELSE steady
  BY DEF Fetch
<1>3. \A id \in Ids : Key(id)' = Key(id)
  BY <1>2 DEF Key
<1>4. Candidates \subseteq Ids
  BY DEF Candidates, Matching
<1>5. \A id \in Ids : Key(id) \in Keys /\ Key(id).id = id
  BY KeyType
<1>6. \A id \in steady' : id \in Ids /\ row[id].state = "live" /\ row[id].match
  BY <1>2 DEF TypeOK, SteadyInv, Matching
<1>7. \A id \in steady' : id \in shown \/ id \in Candidates
  <2>1. CASE walk = "idle"
    BY <2>1, <1>2 DEF CursorInv, Candidates, Beyond
  <2>2. CASE walk = "open"
    BY <2>2, <1>2, <1>6 DEF SteadyInv, Candidates, Matching
  <2>3. QED
    BY <2>1, <2>2, <1>2 DEF TypeOK
<1>8. \A id \in shown \union items : id \in Ids /\ row[id].state \in {"live", "gone"}
  BY <1>1, CandidatesBeyond DEF ShownInv, TypeOK
<1>9. CASE walk' = "done" /\ cursor' = cursor /\ items = Candidates
  <2>1. TypeOK'
    BY <1>1, <1>2, <1>4, <1>6, <1>9 DEF TypeOK
  <2>2. CursorInv'
    <3>1. cursor # None => cursor.id \in Ids
      BY DEF TypeOK, Keys
    <3>2. QED
      BY <3>1, <1>2, <1>3, <1>9 DEF CursorInv
  <2>3. ShownInv'
    BY <1>1, <1>2, <1>8, <1>9 DEF ShownInv
  <2>4. SteadyInv'
    BY <1>2, <1>6, <1>9 DEF SteadyInv
  <2>5. NothingSkipped'
    BY <1>1, <1>7, <1>9 DEF NothingSkipped
  <2>6. QED
    BY <2>1, <2>2, <2>3, <2>4, <2>5
<1>10. ASSUME NEW x \in items,
              walk' = "open",
              cursor' = Key(x),
              \A y \in items \ {x} : Before(Key(y), Key(x)),
              \A y \in Candidates \ items : Before(Key(x), Key(y))
       PROVE  IInv'
  <2>1. /\ x \in Ids /\ Key(x) \in Keys /\ Key(x).id = x
        /\ row[x].state = "live"
        /\ cursor # None => Before(cursor, Key(x))
    BY <1>5, CandidatesBeyond
  <2>2. Key(x) # None
    BY <2>1, NoneIsNoKey
  <2>3. TypeOK'
    BY <1>1, <1>2, <1>4, <1>6, <1>10, <2>1 DEF TypeOK
  <2>4. CursorInv'
    BY <1>2, <1>3, <1>10, <2>1, <2>2 DEF CursorInv
  <2>5. \A id \in shown' : ~Before(Key(x), Key(id))
    <3>1. ASSUME NEW id \in items PROVE ~Before(Key(x), Key(id))
      <4>1. id \in Ids /\ Key(id) \in Keys
        BY <1>4, <1>5
      <4>2. QED
        BY <4>1, <2>1, <1>10, BeforeOrders
    <3>2. ASSUME NEW id \in shown PROVE ~Before(Key(x), Key(id))
      <4>1. walk = "open" /\ cursor # None /\ cursor \in Keys
        BY <1>2 DEF TypeOK, CursorInv
      <4>2. ~Before(cursor, Key(id))
        BY <4>1 DEF ShownInv, Beyond
      <4>3. id \in Ids /\ Key(id) \in Keys
        BY <1>5, <1>8
      <4>4. QED
        BY <4>1, <4>2, <4>3, <2>1, BeforeOrders
    <3>3. QED
      BY <3>1, <3>2, <1>1
  <2>6. ShownInv'
    <3>1. ASSUME NEW id \in shown'
          PROVE  row'[id].state \in {"live", "gone"} /\ ~Beyond(id, cursor)'
      <4>1. id \in Ids
        BY <1>1, <1>8
      <4>2. QED
        BY <4>1, <1>1, <1>2, <1>3, <1>8, <1>10, <2>2, <2>5 DEF Beyond
    <3>2. QED
      BY <3>1 DEF ShownInv
  <2>7. SteadyInv'
    <3>1. ASSUME NEW id \in steady'
          PROVE  id \in shown' \/ Beyond(id, cursor)'
      BY <1>1, <1>3, <1>6, <1>7, <1>10 DEF Beyond
    <3>2. QED
      BY <3>1, <1>2, <1>6, <1>10 DEF SteadyInv
  <2>8. NothingSkipped'
    BY <1>10 DEF NothingSkipped
  <2>9. QED
    BY <2>3, <2>4, <2>6, <2>7, <2>8
<1>11. QED
  BY <1>1, <1>9, <1>10

\* ... and so does what the owner's other requests do to the table: a todo that
\* has been seen keeps its key.
LEMMA WriteKeeps ==
    ASSUME IInv, NEW id \in Ids, BeginCreate(id) \/ EndCreate(id) \/ Patch(id) \/ Delete(id)
    PROVE  IInv'
<1> USE DEF IInv
<1>1. /\ UNCHANGED <<now, walk, cursor, page, shown>>
      /\ steady' \in SUBSET steady
  BY DEF BeginCreate, EndCreate, Patch, Delete
<1>2. /\ row' \in [Ids -> Rows]
      /\ \A j \in Ids : row'[j].created = Millis(row'[j].created)
  <2>1. CASE BeginCreate(id)
    <3>1. Stored(now) \in Nat /\ Millis(Stored(now)) = Stored(now)
      BY StoredIsExact DEF TypeOK
    <3>2. QED
      BY <2>1, <3>1 DEF BeginCreate, TypeOK, Rows, CursorInv
  <2>2. CASE EndCreate(id)
    BY <2>2 DEF EndCreate, TypeOK, Rows, CursorInv
  <2>3. CASE Patch(id)
    BY <2>3 DEF Patch, TypeOK, Rows, CursorInv
  <2>4. CASE Delete(id)
    BY <2>4 DEF Delete, TypeOK, Rows, CursorInv
  <2>5. QED
    BY <2>1, <2>2, <2>3, <2>4
<1>3. \A j \in Ids : row[j].state \in {"live", "gone"} =>
         /\ row'[j].state \in {"live", "gone"}
         /\ row'[j].created = row[j].created
  BY DEF BeginCreate, EndCreate, Patch, Delete, TypeOK, Rows
<1>4. \A j \in Ids : j \in steady' => row'[j] = row[j]
  BY DEF BeginCreate, EndCreate, Patch, Delete, TypeOK, Rows, SteadyInv
<1>5. \A j \in Ids : row[j].state \in {"live", "gone"} => Key(j)' = Key(j)
  BY <1>3 DEF Key
<1>6. TypeOK'
  BY <1>1, <1>2 DEF TypeOK
<1>7. CursorInv'
  <2>1. cursor # None => cursor.id \in Ids
    BY DEF TypeOK, Keys
  <2>2. QED
    BY <2>1, <1>1, <1>2, <1>3, <1>5 DEF CursorInv
<1>8. ShownInv'
  <2>1. \A j \in shown : j \in Ids
    BY DEF TypeOK
  <2>2. QED
    BY <2>1, <1>1, <1>3, <1>5 DEF ShownInv, Beyond
<1>9. SteadyInv'
  <2>1. \A j \in steady : j \in Ids /\ row[j].state = "live"
    BY DEF TypeOK, SteadyInv
  <2>2. QED
    BY <2>1, <1>1, <1>4, <1>5 DEF SteadyInv, Beyond
<1>10. NothingSkipped'
  BY <1>1 DEF NothingSkipped
<1>11. QED
  BY <1>6, <1>7, <1>8, <1>9, <1>10

\* ... and hence every step.
LEMMA IInvStep ==
    ASSUME IInv, [Next]_vars PROVE IInv'
<1>1. CASE Fetch
  BY <1>1, FetchKeeps
<1>2. CASE \E id \in Ids : BeginCreate(id) \/ EndCreate(id) \/ Patch(id) \/ Delete(id)
  BY <1>2, WriteKeeps
<1>3. CASE Tick
  <2>1. now' \in Nat /\ UNCHANGED <<row, walk, cursor, page, shown, steady>>
    BY <1>3 DEF Tick, IInv, TypeOK
  <2>2. QED
    BY <2>1 DEF IInv, TypeOK, CursorInv, ShownInv, SteadyInv, NothingSkipped, Beyond, Key
<1>4. CASE UNCHANGED vars
  BY <1>4 DEF vars, IInv, TypeOK, CursorInv, ShownInv, SteadyInv, NothingSkipped, Beyond, Key
<1>5. QED
  BY <1>1, <1>2, <1>3, <1>4 DEF Next

\* A page comes after all that was shown before it.
LEMMA FetchDescends ==
    ASSUME IInv, Fetch, NEW x \in page', NEW y \in shown
    PROVE  Before(Key(y), Key(x))
<1> USE DEF IInv
<1>1. x \in Candidates
  BY FetchCases
<1>2. walk = "open" /\ cursor # None /\ cursor \in Keys /\ cursor = Key(cursor.id)
  BY DEF Fetch, TypeOK, CursorInv
<1>3. ~Before(cursor, Key(y))
  BY <1>2 DEF ShownInv, Beyond
<1>4. Before(cursor, Key(x))
  BY <1>1, <1>2, CandidatesBeyond
<1>5. /\ Key(x) \in Keys
      /\ Key(y) \in Keys /\ Key(y).id = y
  BY <1>1, CandidatesBeyond, KeyType DEF TypeOK
<1>6. CASE cursor.id = y
  BY <1>2, <1>4, <1>6
<1>7. CASE cursor.id # y
  <2>1. Before(Key(y), cursor)
    BY <1>2, <1>3, <1>5, <1>7, BeforeTotal
  <2>2. QED
    BY <2>1, <1>2, <1>4, <1>5, BeforeOrders
<1>8. QED
  BY <1>6, <1>7

\* A page has a next one if and only if a matching todo beyond the cursor is not on it.
LEMMA FetchKnowsMore ==
    ASSUME IInv, Fetch
    PROVE  walk' = "open"
              <=> \E id \in Matching : Beyond(id, cursor) /\ id \notin page'
<1>1. page' \subseteq Candidates /\ (walk' = "open" <=> page' # Candidates)
  BY FetchCases DEF IInv
<1>2. QED
  BY <1>1 DEF Candidates

\* The state of every walk has the types TypeOK gives it.
THEOREM TypeCorrect == Spec => []TypeOK
<1>1. IInv => TypeOK
  BY DEF IInv
<1>2. QED
  BY <1>1, IInvInit, IInvStep, PTL DEF Spec

\* No walk misses a todo that was there and matched all the while.
THEOREM NothingIsSkipped == Spec => []NothingSkipped
<1>1. IInv => NothingSkipped
  BY DEF IInv
<1>2. QED
  BY <1>1, IInvInit, IInvStep, PTL DEF Spec

\* No walk shows a todo twice or out of order.
THEOREM WalksDescend == Spec => PagesDescend
<1>1. IInv /\ [Next]_vars
        => [Fetch => \A x \in page', y \in shown : Before(Key(y), Key(x))]_vars
  BY FetchDescends
<1>2. QED
  BY <1>1, IInvInit, IInvStep, PTL DEF Spec, PagesDescend

\* The row that is fetched beyond the limit tells whether there is another page, for
\* every limit (todos-repo.ts, `hasMore`).
THEOREM CursorsAreHonest == Spec => CursorMeansMore
<1>1. IInv /\ [Next]_vars
        => [Fetch =>
              (walk' = "open"
                 <=> \E id \in Matching : Beyond(id, cursor) /\ id \notin page')]_vars
  BY FetchKnowsMore
<1>2. QED
  BY <1>1, IInvInit, IInvStep, PTL DEF Spec, CursorMeansMore
=============================================================================
